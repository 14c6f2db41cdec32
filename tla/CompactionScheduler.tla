------------------------ MODULE CompactionScheduler ------------------------
(***************************************************************************)
(* The LTC compaction scheduler thread (src/cc/db_compaction_thread.cpp).  *)
(*                                                                         *)
(* Database threads call Schedule(task): push onto                         *)
(* background_work_queue_ under the mutex, unlock, then sem_post.  The     *)
(* thread's Start loop waits on the semaphore, copies and clears the whole *)
(* queue under the mutex (an empty queue sends it back to sem_wait), adds  *)
(* the batch size to num_tasks_, groups the batch by task.db in a          *)
(* std::map, and calls PerformCompaction once per database with that       *)
(* database's tasks in queue order.  The map iterates in pointer order,    *)
(* which the model leaves open: groups are performed in any order.         *)
(***************************************************************************)
EXTENDS Naturals, Sequences, SequencesExt

CONSTANTS
  DBs,       \* databases (task.db)
  Callers,   \* threads that call Schedule
  MaxTasks   \* bound: tasks scheduled in total

ASSUME DBs # {} /\ Callers # {} /\ MaxTasks \in Nat \ {0}

Task == [db : DBs, seq : 1..MaxTasks]

VARIABLES
  queue,      \* background_work_queue_
  sem,        \* signal: the semaphore count
  pc,         \* Start: "init" before the loop, then "wait", "drain", "perform"
  running,    \* is_running_
  groups,     \* db_tasks: per db, the drained tasks still to be performed
  numTasks,   \* num_tasks_
  posting,    \* per caller: TRUE between its unlock and its sem_post
  scheduled,  \* history: tasks in the order Schedule pushed them
  performed   \* history: per db, the tasks PerformCompaction was given

vars == <<queue, sem, pc, running, groups, numTasks, posting, scheduled, performed>>

NoGroups == [d \in DBs |-> <<>>]

TypeOK ==
  /\ queue \in Seq(Task)
  /\ sem \in Nat
  /\ pc \in {"init", "wait", "drain", "perform"}
  /\ running \in BOOLEAN
  /\ groups \in [DBs -> Seq(Task)]
  /\ numTasks \in 0..(1 + MaxTasks)
  /\ posting \in [Callers -> BOOLEAN]
  /\ scheduled \in Seq(Task)
  /\ performed \in [DBs -> Seq(Task)]

-----------------------------------------------------------------------------

\* Schedule, lines 17-19: push the task under the mutex.
ScheduleEnqueue(c, d) ==
  /\ ~posting[c]
  /\ Len(scheduled) < MaxTasks
  /\ LET t == [db |-> d, seq |-> Len(scheduled) + 1] IN
     /\ queue' = Append(queue, t)
     /\ scheduled' = Append(scheduled, t)
  /\ posting' = [posting EXCEPT ![c] = TRUE]
  /\ UNCHANGED <<sem, pc, running, groups, numTasks, performed>>

\* Mutant: post only when the queue was empty before the push.
SchedulePostIfWasEmpty(c) ==
  /\ posting[c]
  /\ sem' = IF Len(queue) = 1 THEN sem + 1 ELSE sem
  /\ posting' = [posting EXCEPT ![c] = FALSE]
  /\ UNCHANGED <<queue, pc, running, groups, numTasks, scheduled, performed>>

\* Schedule, line 20: sem_post after the unlock.
SchedulePost(c) ==
  /\ posting[c]
  /\ sem' = sem + 1
  /\ posting' = [posting EXCEPT ![c] = FALSE]
  /\ UNCHANGED <<queue, pc, running, groups, numTasks, scheduled, performed>>

\* Start, lines 34-44: set is_running_ under the mutex (IsInitialized,
\* lines 23-28, reads it) and enter the loop.
StartUp ==
  /\ pc = "init"
  /\ running' = TRUE
  /\ pc' = "wait"
  /\ UNCHANGED <<queue, sem, groups, numTasks, posting, scheduled, performed>>

\* Start, lines 45-46: while (is_running_), sem_wait.
Wait ==
  /\ pc = "wait" /\ running /\ sem > 0
  /\ sem' = sem - 1
  /\ pc' = "drain"
  /\ UNCHANGED <<queue, running, groups, numTasks, posting, scheduled, performed>>

\* Tasks of database d in batch b, in batch order (db_tasks[task.db].push_back).
GroupOf(b, d) == SelectSeq(b, LAMBDA t : t.db = d)

\* Mutant: the queue is copied but not cleared.
DrainNoClear ==
  /\ pc = "drain"
  /\ IF queue = <<>>
     THEN /\ pc' = "wait"
          /\ UNCHANGED <<queue, groups, numTasks>>
     ELSE /\ groups' = [d \in DBs |-> GroupOf(queue, d)]
          /\ numTasks' = numTasks + Len(queue)
          /\ pc' = "perform"
          /\ UNCHANGED queue
  /\ UNCHANGED <<sem, running, posting, scheduled, performed>>

\* Start, lines 48-66: copy and clear the queue under the mutex (an empty
\* queue goes back to sem_wait), count the batch and group it by database.
Drain ==
  /\ pc = "drain"
  /\ IF queue = <<>>
     THEN /\ pc' = "wait"
          /\ UNCHANGED <<queue, groups, numTasks>>
     ELSE /\ groups' = [d \in DBs |-> GroupOf(queue, d)]
          /\ queue' = <<>>
          /\ numTasks' = numTasks + Len(queue)
          /\ pc' = "perform"
  /\ UNCHANGED <<sem, running, posting, scheduled, performed>>

\* Start, lines 68-71: PerformCompaction for one database of the map; the
\* loop returns to sem_wait after the last.
Perform(d) ==
  /\ pc = "perform"
  /\ groups[d] # <<>>
  /\ performed' = [performed EXCEPT ![d] = @ \o groups[d]]
  /\ groups' = [groups EXCEPT ![d] = <<>>]
  /\ pc' = IF \A e \in DBs \ {d} : groups[e] = <<>> THEN "wait" ELSE "perform"
  /\ UNCHANGED <<queue, sem, running, numTasks, posting, scheduled>>

\* The constructor (lines 10-13) initialises the semaphore to 0 but not
\* num_tasks_, whose start is indeterminate (two values stand for all).
\* Callers may Schedule before the thread has started.
Init ==
  /\ queue = <<>>
  /\ sem = 0
  /\ pc = "init"
  /\ running = FALSE
  /\ groups = NoGroups
  /\ numTasks \in 0..1
  /\ posting = [c \in Callers |-> FALSE]
  /\ scheduled = <<>>
  /\ performed = NoGroups

Next ==
  \/ \E c \in Callers, d \in DBs : ScheduleEnqueue(c, d)
  \/ \E c \in Callers : SchedulePost(c)
  \/ StartUp
  \/ Wait
  \/ Drain
  \/ \E d \in DBs : Perform(d)

\* The thread is started and loops while is_running_ (never cleared); a caller that has
\* unlocked always reaches its sem_post.
Fairness ==
  /\ WF_vars(StartUp) /\ WF_vars(Wait) /\ WF_vars(Drain) /\ WF_vars(\E d \in DBs : Perform(d))
  /\ \A c \in Callers : WF_vars(SchedulePost(c))

Spec == Init /\ [][Next]_vars /\ Fairness

-----------------------------------------------------------------------------
(* Properties.                                                             *)

\* The scheduler implements CompactionQueue: Schedule's push is Submit,
\* each PerformCompaction call of the Start loop is Hand of that database's
\* group, and every other step (the post, sem_wait, the drain) stutters.
CQ == INSTANCE CompactionQueue WITH submitted <- scheduled, handed <- performed

\* Every behaviour of the Schedule/Start pair, with posts lagging their
\* pushes and drains splitting the tasks of a database across batches, is
\* one of CompactionQueue: each database is given its scheduled tasks once,
\* in order, and every scheduled task is eventually given to it.
ImplementsCompactionQueue == CQ!Spec

=============================================================================
