----------------------------- MODULE MCStatThread ---------------------------
(* uint32 scaled to 2 bits, uint64 to 4 bits: counters wrap within a run.  *)
EXTENDS StatThread
=============================================================================
