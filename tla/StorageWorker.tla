--------------------------- MODULE StorageWorker ---------------------------
(***************************************************************************)
(* The StoC storage worker pool (src/stoc/storage_worker.cpp) together     *)
(* with the StoC segment files its PERSIST tasks act on.                   *)
(*                                                                         *)
(* RDMA server threads hand tasks to a worker with AddTask: the task is    *)
(* pushed onto the worker's queue under its mutex and, after the unlock,   *)
(* the worker's counting semaphore is posted.  A worker loops: sem_wait,   *)
(* drain the whole queue under the mutex, run every drained task, collect  *)
(* one completion per task in a map keyed by the originating RDMA server   *)
(* thread, and hand each thread its batch (AddCompleteTasks).              *)
(*                                                                         *)
(* The segment files (StocPersistentFile) are not under src/: their        *)
(* Append, Persist, Handle and ForceSeal are modelled from the spec, §4.2. *)
(***************************************************************************)
EXTENDS Naturals, Sequences, FiniteSets

CONSTANTS
  Workers,     \* storage worker threads of one StoC
  Threads,     \* RDMA server threads that submit tasks and take completions
  Files,       \* StoC segment files (stoc_file_id)
  Names,       \* SSTable names whose blocks are appended
  SegSize,     \* max_stoc_file_size: capacity of a segment
  BlockSizes,  \* sizes of the appended blocks
  MaxTasks     \* bound: tasks each RDMA server thread submits

ASSUME /\ Workers # {} /\ Threads # {} /\ Files # {}
       /\ SegSize \in Nat \ {0} /\ MaxTasks \in Nat \ {0}
       /\ BlockSizes \subseteq 1..SegSize

\* StoCRequestType values the worker dispatches on.
READ_BLOCKS == "STOC_READ_BLOCKS"
PERSIST     == "STOC_PERSIST"
COMPACTION  == "STOC_COMPACTION"
TaskTypes   == {READ_BLOCKS, PERSIST, COMPACTION}

NoHandle == [file |-> "none", off |-> 0, size |-> 0]

VARIABLES
  queue,      \* queue_: per worker, tasks pushed by AddTask
  sem,        \* sem_: per worker, the semaphore count
  wpc,        \* per worker: where it is in the Start() loop
  batch,      \* per worker: the local `tasks` vector drained from queue_
  tTasks,     \* per worker: t_tasks, completions keyed by RDMA thread
  statTasks,  \* per worker: stat_tasks_
  rpc,        \* per RDMA thread: "idle", or the worker whose semaphore it
              \* has still to post (between the unlock and sem_post)
  submitted,  \* per RDMA thread: number of tasks it has submitted
  completed,  \* per RDMA thread: completions received via AddCompleteTasks
  appendOff,  \* per file: append offset
  durable,    \* per file: bytes made durable by Persist
  sealed,     \* per file: sealed flag
  blocks,     \* per file: set of appended blocks [name, meta, off, size]
  given       \* history: per worker, tasks AddTask handed to it

fileVars   == <<appendOff, durable, sealed, blocks>>
workerVars == <<queue, sem, wpc, batch, tTasks, statTasks>>
threadVars == <<rpc, submitted, completed, given>>
vars       == <<workerVars, threadVars, fileVars>>

Block == [name : Names, meta : BOOLEAN, off : 0..SegSize, size : BlockSizes]
Handle == [file : Files, off : 0..SegSize, size : 0..SegSize]
Task == [thread : Threads, id : 1..MaxTasks, type : TaskTypes,
         file : Files \cup {"none"}, name : Names, meta : BOOLEAN,
         tableFile : BOOLEAN, handle : Handle \cup {NoHandle}]
Completion == [thread : Threads, id : 1..MaxTasks, type : TaskTypes,
               handles : Seq(Handle)]

TypeOK ==
  /\ queue \in [Workers -> Seq(Task)]
  /\ sem \in [Workers -> Nat]
  /\ wpc \in [Workers -> {"wait", "drain", "work", "handoff"}]
  /\ batch \in [Workers -> Seq(Task)]
  /\ tTasks \in [Workers -> [Threads -> Seq(Completion)]]
  /\ statTasks \in [Workers -> Nat]
  /\ rpc \in [Threads -> {"idle"} \cup Workers]
  /\ submitted \in [Threads -> 0..MaxTasks]
  /\ completed \in [Threads -> Seq(Completion)]
  /\ appendOff \in [Files -> 0..SegSize]
  /\ durable \in [Files -> 0..SegSize]
  /\ sealed \in [Files -> BOOLEAN]
  /\ blocks \in [Files -> SUBSET Block]
  /\ given \in [Workers -> Nat]

-----------------------------------------------------------------------------
(* StoC segment file operations (spec §4.2; StocPersistentFile).           *)

\* append: only into an unsealed segment with room; records the block.
FileAppend(f, nm, isMeta, sz) ==
  /\ ~sealed[f]
  /\ appendOff[f] + sz <= SegSize
  /\ appendOff' = [appendOff EXCEPT ![f] = @ + sz]
  /\ blocks' = [blocks EXCEPT ![f] = @ \cup
                  {[name |-> nm, meta |-> isMeta, off |-> appendOff[f], size |-> sz]}]

\* Persist(stoc_file_id): make the file durable up to its append offset.
FilePersist(f) == durable' = [durable EXCEPT ![f] = appendOff[f]]

\* Handle(sstable_name, is_meta): the last block appended for that name.
FileHandle(f, nm, isMeta) ==
  LET bs == {b \in blocks[f] : b.name = nm /\ b.meta = isMeta}
  IN  IF bs = {} THEN NoHandle
      ELSE LET b == CHOOSE x \in bs : \A y \in bs : y.off <= x.off
           IN  [file |-> f, off |-> b.off, size |-> b.size]

-----------------------------------------------------------------------------
(* RDMA server threads: receive a request and hand it to a worker.         *)

\* AddTask, lines 42-45: under mutex_, count the task and push it.
AddTaskEnqueue(r, w, t) ==
  /\ queue' = [queue EXCEPT ![w] = Append(@, t)]
  /\ statTasks' = [statTasks EXCEPT ![w] = @ + 1]
  /\ rpc' = [rpc EXCEPT ![r] = w]
  /\ submitted' = [submitted EXCEPT ![r] = @ + 1]
  /\ given' = [given EXCEPT ![w] = @ + 1]

\* Mutant: post only when the push made the queue non-empty.
AddTaskPostIfWasEmpty(r) ==
  /\ rpc[r] \in Workers
  /\ sem' = [sem EXCEPT ![rpc[r]] = IF Len(queue[rpc[r]]) = 1 THEN @ + 1 ELSE @]
  /\ rpc' = [rpc EXCEPT ![r] = "idle"]
  /\ UNCHANGED <<queue, wpc, batch, tTasks, statTasks, submitted,
                 completed, given, fileVars>>

\* AddTask, line 47: sem_post after the unlock.
AddTaskPost(r) ==
  /\ rpc[r] \in Workers
  /\ sem' = [sem EXCEPT ![rpc[r]] = @ + 1]
  /\ rpc' = [rpc EXCEPT ![r] = "idle"]
  /\ UNCHANGED <<queue, wpc, batch, tTasks, statTasks, submitted,
                 completed, given, fileVars>>

MkTask(r, type, f, nm, isMeta, tbl, h) ==
  [thread |-> r, id |-> submitted[r] + 1, type |-> type, file |-> f,
   name |-> nm, meta |-> isMeta, tableFile |-> tbl, handle |-> h]

\* A PERSIST request: the block's bytes were appended to segment f (the
\* append and the LTC's RDMA WRITE, spec §4.3 step 4), then the task is added.
SubmitPersist(r) ==
  /\ rpc[r] = "idle" /\ submitted[r] < MaxTasks
  /\ \E w \in Workers, f \in Files, nm \in Names, isMeta, tbl \in BOOLEAN,
        sz \in BlockSizes :
       /\ FileAppend(f, nm, isMeta, sz)
       /\ AddTaskEnqueue(r, w, MkTask(r, PERSIST, f, nm, isMeta, tbl, NoHandle))
  /\ UNCHANGED <<sem, wpc, batch, tTasks, completed, durable, sealed>>

\* A READ_BLOCKS request for a block an earlier PERSIST made durable.
SubmitRead(r) ==
  /\ rpc[r] = "idle" /\ submitted[r] < MaxTasks
  /\ \E w \in Workers, f \in Files : \E b \in blocks[f] :
       /\ b.off + b.size <= durable[f]
       /\ AddTaskEnqueue(r, w, MkTask(r, READ_BLOCKS, f, b.name, b.meta, FALSE,
                             [file |-> f, off |-> b.off, size |-> b.size]))
  /\ UNCHANGED <<sem, wpc, batch, tTasks, completed, fileVars>>

\* A COMPACTION request; its merge pass is the concern of another module.
SubmitCompaction(r) ==
  /\ rpc[r] = "idle" /\ submitted[r] < MaxTasks
  /\ \E w \in Workers, nm \in Names :
       AddTaskEnqueue(r, w, MkTask(r, COMPACTION, "none", nm, FALSE, FALSE, NoHandle))
  /\ UNCHANGED <<sem, wpc, batch, tTasks, completed, fileVars>>

-----------------------------------------------------------------------------
(* The worker loop, StorageWorker::Start.                                  *)

\* Mutant: the wait does not block on a zero count.
WorkerWaitNoBlock(w) ==
  /\ wpc[w] = "wait"
  /\ sem' = [sem EXCEPT ![w] = @ - 1]
  /\ wpc' = [wpc EXCEPT ![w] = "drain"]
  /\ UNCHANGED <<queue, batch, tTasks, statTasks, threadVars, fileVars>>

\* Line 56: sem_wait blocks until the count is positive.
WorkerWait(w) ==
  /\ wpc[w] = "wait" /\ sem[w] > 0
  /\ sem' = [sem EXCEPT ![w] = @ - 1]
  /\ wpc' = [wpc EXCEPT ![w] = "drain"]
  /\ UNCHANGED <<queue, batch, tTasks, statTasks, threadVars, fileVars>>

\* Mutant: copy the queue without popping it.
WorkerDrainNoPop(w) ==
  /\ wpc[w] = "drain"
  /\ batch' = [batch EXCEPT ![w] = queue[w]]
  /\ wpc' = [wpc EXCEPT ![w] = IF queue[w] = <<>> THEN "wait" ELSE "work"]
  /\ UNCHANGED <<queue, sem, tTasks, statTasks, threadVars, fileVars>>

\* Lines 58-70: move every queued task into the local vector under the
\* mutex; an empty drain goes back to sem_wait.
WorkerDrain(w) ==
  /\ wpc[w] = "drain"
  /\ batch' = [batch EXCEPT ![w] = queue[w]]
  /\ queue' = [queue EXCEPT ![w] = <<>>]
  /\ wpc' = [wpc EXCEPT ![w] = IF queue[w] = <<>> THEN "wait" ELSE "work"]
  /\ UNCHANGED <<sem, tTasks, statTasks, threadVars, fileVars>>

\* Lines 95-123, the PERSIST branch: persist the file, take the handle of
\* the named block, seal the file if the blocks are meta or a table file.
PersistTask(t) ==
  /\ FilePersist(t.file)
  /\ sealed' = [sealed EXCEPT ![t.file] = @ \/ t.meta \/ t.tableFile]

\* Lines 73-199, one task of the drained vector: run it and file its
\* completion under the RDMA thread it came from.
WorkerRun(w) ==
  /\ wpc[w] = "work"
  /\ LET t == Head(batch[w])
         hs == IF t.type = PERSIST
               THEN <<FileHandle(t.file, t.name, t.meta)>> ELSE <<>>
         ct == [thread |-> t.thread, id |-> t.id, type |-> t.type, handles |-> hs]
     IN /\ IF t.type = PERSIST THEN PersistTask(t)
           ELSE UNCHANGED <<durable, sealed>>
        /\ tTasks' = [tTasks EXCEPT ![w][t.thread] = Append(@, ct)]
  /\ statTasks' = [statTasks EXCEPT ![w] = @ + 1]
  /\ batch' = [batch EXCEPT ![w] = Tail(@)]
  /\ wpc' = [wpc EXCEPT ![w] = IF Len(batch[w]) = 1 THEN "handoff" ELSE "work"]
  /\ UNCHANGED <<queue, sem, threadVars, appendOff, blocks>>

\* Lines 202-204: AddCompleteTasks to every RDMA thread with completions.
WorkerHandoff(w) ==
  /\ wpc[w] = "handoff"
  /\ completed' = [r \in Threads |-> completed[r] \o tTasks[w][r]]
  /\ tTasks' = [tTasks EXCEPT ![w] = [r \in Threads |-> <<>>]]
  /\ wpc' = [wpc EXCEPT ![w] = "wait"]
  /\ UNCHANGED <<queue, sem, batch, statTasks, rpc, submitted, given, fileVars>>

-----------------------------------------------------------------------------

Init ==
  /\ queue = [w \in Workers |-> <<>>]
  /\ sem = [w \in Workers |-> 0]
  /\ wpc = [w \in Workers |-> "wait"]
  /\ batch = [w \in Workers |-> <<>>]
  /\ tTasks = [w \in Workers |-> [r \in Threads |-> <<>>]]
  /\ statTasks = [w \in Workers |-> 0]
  /\ rpc = [r \in Threads |-> "idle"]
  /\ submitted = [r \in Threads |-> 0]
  /\ completed = [r \in Threads |-> <<>>]
  /\ appendOff = [f \in Files |-> 0]
  /\ durable = [f \in Files |-> 0]
  /\ sealed = [f \in Files |-> FALSE]
  /\ blocks = [f \in Files |-> {}]
  /\ given = [w \in Workers |-> 0]

Next ==
  \/ \E r \in Threads : SubmitPersist(r) \/ SubmitRead(r) \/ SubmitCompaction(r)
  \/ \E r \in Threads : AddTaskPost(r)
  \/ \E w \in Workers : WorkerWait(w) \/ WorkerDrain(w) \/ WorkerRun(w)
                        \/ WorkerHandoff(w)

\* Workers never stop looping while there is work (is_running_ stays true);
\* an RDMA thread that has unlocked always reaches its sem_post.
Fairness ==
  /\ \A w \in Workers : WF_vars(WorkerWait(w)) /\ WF_vars(WorkerDrain(w))
                        /\ WF_vars(WorkerRun(w)) /\ WF_vars(WorkerHandoff(w))
  /\ \A r \in Threads : WF_vars(AddTaskPost(r))

Spec == Init /\ [][Next]_vars /\ Fairness

-----------------------------------------------------------------------------
(* Properties.                                                             *)

PendingPost(w) == \E r \in Threads : rpc[r] = w

\* No lost wakeup: a worker blocked in sem_wait (line 56) with tasks in its
\* queue always has a positive semaphore or a sem_post still to come, so
\* draining the whole queue on one wakeup (lines 61-65) and posting after
\* the unlock (line 47) never strands a task.
NoLostWakeup ==
  \A w \in Workers :
    (wpc[w] = "wait" /\ queue[w] # <<>>) => (sem[w] > 0 \/ PendingPost(w))

\* Every completion an RDMA thread receives (AddCompleteTasks, line 203) is
\* for a task that thread submitted, and no task is completed twice, however
\* the drains and batches of several workers interleave.
CompletedAtMostOnce ==
  \A r \in Threads :
    /\ \A i \in DOMAIN completed[r] :
         completed[r][i].thread = r /\ completed[r][i].id <= submitted[r]
    /\ \A i, j \in DOMAIN completed[r] :
         i # j => completed[r][i].id # completed[r][j].id

\* Every task an RDMA thread submits is eventually completed back to it.
EveryTaskCompleted ==
  \A r \in Threads, n \in 1..MaxTasks :
    (submitted[r] >= n) ~> (\E i \in DOMAIN completed[r] : completed[r][i].id = n)

\* stat_tasks_, read by the stats thread as the worker's task count (spec
\* §4.8), equals the number of tasks handed to the worker.
StatTasksCountsTasks == \A w \in Workers : statTasks[w] <= given[w]

=============================================================================
