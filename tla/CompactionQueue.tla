--------------------------- MODULE CompactionQueue ---------------------------
(***************************************************************************)
(* What the compaction scheduler promises its callers (spec §4.6), with    *)
(* no queue, semaphore or batching: a task handed to Schedule is           *)
(* eventually given to PerformCompaction of its database, exactly once,    *)
(* and each database receives its tasks in the order they were scheduled,  *)
(* possibly several at a time.                                             *)
(***************************************************************************)
EXTENDS Naturals, Sequences

CONSTANTS
  DBs,       \* databases
  MaxTasks   \* bound: tasks scheduled in total

VARIABLES
  submitted, \* the tasks scheduled so far, in order
  handed     \* per database: the tasks given to PerformCompaction so far

vars == <<submitted, handed>>

Task == [db : DBs, seq : 1..MaxTasks]

\* The tasks of database d among the scheduled ones, in schedule order.
Pending(d) == SelectSeq(submitted, LAMBDA t : t.db = d)

Submit(d) ==
  /\ Len(submitted) < MaxTasks
  /\ submitted' = Append(submitted, [db |-> d, seq |-> Len(submitted) + 1])
  /\ UNCHANGED handed

\* Database d is given its next k not yet given tasks.
Hand(d, k) ==
  /\ Len(handed[d]) + k <= Len(Pending(d))
  /\ handed' = [handed EXCEPT ![d] =
                  @ \o SubSeq(Pending(d), Len(@) + 1, Len(@) + k)]
  /\ UNCHANGED submitted

Init ==
  /\ submitted = <<>>
  /\ handed = [d \in DBs |-> <<>>]

Next ==
  \/ \E d \in DBs : Submit(d)
  \/ \E d \in DBs, k \in 1..MaxTasks : Hand(d, k)

Spec ==
  /\ Init /\ [][Next]_vars
  /\ \A d \in DBs : WF_vars(\E k \in 1..MaxTasks : Hand(d, k))

=============================================================================
