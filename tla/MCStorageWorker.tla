------------------------- MODULE MCStorageWorker --------------------------
(* Model-checking instance of StorageWorker.  Four tasks of two RDMA       *)
(* server threads go to one worker, so that tasks arrive while the worker  *)
(* is draining, running and handing off, and two PERSIST tasks share one   *)
(* two-byte segment file so that it fills and is sealed.                   *)
EXTENDS StorageWorker

OneWorker == {"w1"}
MCThreads == {"r1", "r2"}
MCFiles == {"f1"}
MCNames == {"t1"}
=============================================================================
