------------------------------ MODULE Migration ------------------------------
(***************************************************************************)
(* The destination side of LTC migration                                   *)
(* (src/ltc/destination_migration.cpp).                                    *)
(*                                                                         *)
(* RDMA threads call AddReceivedDBId, which pushes the received buffer     *)
(* onto db_metas under the mutex.  The Start thread sem_waits, copies and  *)
(* clears db_metas under the mutex, asserts the epoch, and calls           *)
(* RecoverDBMeta for each buffer of the batch: it restores the database,   *)
(* hands LogRecovery the active memtable of every partition, marks the     *)
(* fragment at position dbindex ready and frees the buffer.                *)
(*                                                                         *)
(* sem_ is never initialised (the constructor, lines 16-23) and never      *)
(* posted, so its initial count is indeterminate: any value up to SemInit. *)
(* A database image is reduced to what RecoverDBMeta acts on: the         *)
(* partitions that have an active memtable.  The pairs it builds for       *)
(* closed log files are dropped without effect, so they have no state here.*)
(***************************************************************************)
EXTENDS Naturals, Sequences, SequencesExt

CONSTANTS
  Senders,   \* RDMA threads that call AddReceivedDBId
  DbIds,     \* dbindex of the images migrated to this node
  Parts,     \* memtable partitions of a database
  SemInit    \* bound: the indeterminate initial count of sem_

ASSUME Senders # {} /\ DbIds # {} /\ Parts # {} /\ SemInit \in Nat

VARIABLES
  image,     \* per db: the source's partitions with an active memtable
  dbMetas,   \* db_metas: the dbindex of each buffer not yet taken
  sem,       \* sem_
  pc,        \* Start: "wait", "drain" or "recover"
  rdbs,      \* the batch Start copied out of db_metas
  ready,     \* per db: fragments[dbindex]->is_ready_
  replayed,  \* per db: the partitions whose memtable LogRecovery replayed
  freed,     \* per db: times its buffer was returned by FreeItem
  received   \* history: the dbs whose buffer AddReceivedDBId was given

vars == <<image, dbMetas, sem, pc, rdbs, ready, replayed, freed, received>>

TypeOK ==
  /\ image \in [DbIds -> SUBSET Parts]
  /\ dbMetas \in Seq(DbIds) /\ rdbs \in Seq(DbIds)
  /\ sem \in Nat
  /\ pc \in {"wait", "drain", "recover"}
  /\ ready \in [DbIds -> BOOLEAN]
  /\ replayed \in [DbIds -> SUBSET Parts]
  /\ freed \in [DbIds -> Nat]
  /\ received \subseteq DbIds

-----------------------------------------------------------------------------

\* Lines 26-34: push the buffer under the mutex.  The RDMA thread's buffer
\* for database d arrives once.
AddReceivedDBId(s, d) ==
  /\ d \notin received
  /\ dbMetas' = Append(dbMetas, d)
  /\ received' = received \cup {d}
  /\ UNCHANGED <<image, sem, pc, rdbs, ready, replayed, freed>>

\* Mutant: sem_wait does not block at zero.
WaitNoBlock ==
  /\ pc = "wait"
  /\ sem' = sem - 1
  /\ pc' = "drain"
  /\ UNCHANGED <<image, dbMetas, rdbs, ready, replayed, freed, received>>

\* Line 38: sem_wait.
Wait ==
  /\ pc = "wait" /\ sem > 0
  /\ sem' = sem - 1
  /\ pc' = "drain"
  /\ UNCHANGED <<image, dbMetas, rdbs, ready, replayed, freed, received>>

\* Mutant: db_metas is copied but not cleared.
DrainNoClear ==
  /\ pc = "drain"
  /\ rdbs' = dbMetas
  /\ pc' = IF dbMetas = <<>> THEN "wait" ELSE "recover"
  /\ UNCHANGED <<image, dbMetas, sem, ready, replayed, freed, received>>

\* Lines 40-46: copy and clear db_metas under the mutex; the epoch read
\* after the unlock is the first one (see README), so the assert holds.
\* An empty batch goes back to sem_wait.
Drain ==
  /\ pc = "drain"
  /\ rdbs' = dbMetas
  /\ dbMetas' = <<>>
  /\ pc' = IF dbMetas = <<>> THEN "wait" ELSE "recover"
  /\ UNCHANGED <<image, sem, ready, replayed, freed, received>>

\* Lines 48-50 and RecoverDBMeta, lines 54-134, for the next buffer of the
\* batch: the partitions handed to LogRecovery are those with an active
\* memtable (lines 109-118); the pairs built for closed log files
\* (lines 119-124) are never pushed.  Then is_ready_ and FreeItem.
RecoverDBMeta ==
  /\ pc = "recover"
  /\ LET d == Head(rdbs) IN
     /\ replayed' = [replayed EXCEPT ![d] = image[d]]
     /\ ready' = [ready EXCEPT ![d] = TRUE]
     /\ freed' = [freed EXCEPT ![d] = @ + 1]
  /\ rdbs' = Tail(rdbs)
  /\ pc' = IF Tail(rdbs) = <<>> THEN "wait" ELSE "recover"
  /\ UNCHANGED <<image, dbMetas, sem, received>>

\* Any source layout; sem_ holds whatever its memory held.
Init ==
  /\ image \in [DbIds -> SUBSET Parts]
  /\ dbMetas = <<>> /\ rdbs = <<>>
  /\ sem \in 0..SemInit
  /\ pc = "wait"
  /\ ready = [d \in DbIds |-> FALSE]
  /\ replayed = [d \in DbIds |-> {}]
  /\ freed = [d \in DbIds |-> 0]
  /\ received = {}

Next ==
  \/ \E s \in Senders, d \in DbIds : AddReceivedDBId(s, d)
  \/ Wait
  \/ Drain
  \/ RecoverDBMeta

\* Start loops forever (while (true)); it is only ever blocked in sem_wait.
Spec == Init /\ [][Next]_vars /\ WF_vars(Wait \/ Drain \/ RecoverDBMeta)

-----------------------------------------------------------------------------
(* Properties.                                                             *)

\* Number of entries of s that are the buffer of database d.
Copies(s, d) == Len(SelectSeq(s, LAMBDA x : x = d))

\* Every buffer AddReceivedDBId accepted is, at every moment, in exactly
\* one place: still in db_metas, in Start's batch, or recovered and freed
\* once, however the RDMA threads' pushes interleave with Start's copy and
\* clear of db_metas (lines 40-43).
BufferHeldOnce ==
  \A d \in received : Copies(dbMetas, d) + Copies(rdbs, d) + freed[d] = 1

\* Every database whose image is received is eventually recovered and its
\* fragment marked ready (spec §4.7, steps 1-5).
EveryReceivedDbReady ==
  \A d \in DbIds : (d \in received) ~> ready[d]

=============================================================================
