------------------------ MODULE MCCompactionScheduler -----------------------
(* Two databases, two scheduling threads.                                  *)
EXTENDS CompactionScheduler
MCDBs == {"db1", "db2"}
MCCallers == {"c1", "c2"}
=============================================================================
