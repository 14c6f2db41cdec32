----------------------------- MODULE StatThread -----------------------------
(***************************************************************************)
(* The stats aggregator (src/cc/nova_cc_stat_thread.cpp) reading one       *)
(* storage worker's counters (src/stoc/storage_worker.cpp).                *)
(*                                                                         *)
(* Start snapshots every counter (lines 23-41), then every 10 s reads each *)
(* counter into a uint32 `tasks`, prints tasks - previous, and stores      *)
(* tasks as the new previous (lines 44-101).  For the task counts the      *)
(* previous is a uint32; for the byte counts it is a uint64                *)
(* (StorageWorkerStats.read_bytes), so the subtraction is done in 64 bits. *)
(*                                                                         *)
(* Widths are scaled: a uint32 has W32 bits, a uint64 W64 bits.  The       *)
(* worker's counters are declared outside src/; CounterBits is their width. *)
(***************************************************************************)
EXTENDS Naturals

CONSTANTS
  W32,            \* bits of a uint32 (32 in the code)
  W64,            \* bits of a uint64 (64 in the code)
  CounterBits,    \* bits of stat_tasks_ / stat_read_bytes_
  ReadSizes,      \* sizes of the blocks a READ_BLOCKS task reads
  MaxPerInterval, \* bound: tasks a worker runs between two polls
  MaxPolls        \* bound: polls of the stats thread

ASSUME /\ W32 \in Nat \ {0} /\ W64 > W32 /\ CounterBits \in {W32, W64}
       /\ ReadSizes \subseteq Nat \ {0}
       /\ MaxPerInterval \in 1..(2^W32 - 1) /\ MaxPolls \in Nat \ {0}

U32(x) == x % (2^W32)
U64(x) == x % (2^W64)
Ctr(x) == x % (2^CounterBits)

VARIABLES
  statTasks,  \* the worker's stat_tasks_
  readBytes,  \* the worker's stat_read_bytes_
  prevTasks,  \* stats[i].tasks (uint32)
  prevBytes,  \* stats[i].read_bytes (uint64)
  outTasks,   \* the last "storage:" delta printed
  outBytes,   \* the last "storage-read:" delta printed
  phase,      \* the stats thread: "init" before its snapshot, then "loop"
  polls,      \* polls done
  sinceTasks, \* history: tasks counted since the last snapshot or poll
  sinceBytes, \* history: bytes counted since the last snapshot or poll
  lastTasks,  \* history: sinceTasks at the last poll
  lastBytes   \* history: sinceBytes at the last poll

vars == <<statTasks, readBytes, prevTasks, prevBytes, outTasks, outBytes,
          phase, polls, sinceTasks, sinceBytes, lastTasks, lastBytes>>

TypeOK ==
  /\ statTasks \in 0..(2^CounterBits - 1) /\ readBytes \in 0..(2^CounterBits - 1)
  /\ prevTasks \in 0..(2^W32 - 1) /\ prevBytes \in 0..(2^W64 - 1)
  /\ outTasks \in 0..(2^W32 - 1) /\ outBytes \in 0..(2^W64 - 1)
  /\ phase \in {"init", "loop"} /\ polls \in 0..MaxPolls

-----------------------------------------------------------------------------

\* storage_worker.cpp lines 74 and 93: the worker counts a READ_BLOCKS task
\* and the bytes it read.
WorkerRead(n) ==
  /\ sinceTasks < MaxPerInterval
  /\ statTasks' = Ctr(statTasks + 1)
  /\ readBytes' = Ctr(readBytes + n)
  /\ sinceTasks' = sinceTasks + 1
  /\ sinceBytes' = sinceBytes + n
  /\ UNCHANGED <<prevTasks, prevBytes, outTasks, outBytes, phase, polls,
                 lastTasks, lastBytes>>

\* Mutant: the task snapshot kept at the counter's full width.
StatInitWide ==
  /\ phase = "init"
  /\ prevTasks' = statTasks
  /\ prevBytes' = U64(readBytes)
  /\ phase' = "loop"
  /\ sinceTasks' = 0 /\ sinceBytes' = 0
  /\ UNCHANGED <<statTasks, readBytes, outTasks, outBytes, polls,
                 lastTasks, lastBytes>>

\* Lines 35-41: the initial snapshot, each counter converted to the field's
\* type (tasks to uint32, read_bytes kept in a uint64).
StatInit ==
  /\ phase = "init"
  /\ prevTasks' = U32(statTasks)
  /\ prevBytes' = U64(readBytes)
  /\ phase' = "loop"
  /\ sinceTasks' = 0 /\ sinceBytes' = 0
  /\ UNCHANGED <<statTasks, readBytes, outTasks, outBytes, polls,
                 lastTasks, lastBytes>>

\* Mutant: the difference taken without the unsigned wrap.
DiffNoWrap(a, b) == IF a >= b THEN a - b ELSE 0

\* uint32 - uint32, lines 75-76.
Diff32(a, b) == U32(a - b + 2^W32)

\* uint32 - uint64, lines 84-85: the uint32 is widened, the result is mod 2^64.
Diff64(a, b) == U64(a - b + 2^W64)

\* Lines 73-89, one 10-second round for this worker: read each counter
\* into a uint32, print the difference, keep the read value.
Poll ==
  /\ phase = "loop" /\ polls < MaxPolls
  /\ LET t == U32(statTasks)
         b == U32(readBytes)
     IN /\ outTasks' = Diff32(t, prevTasks)
        /\ prevTasks' = t
        /\ outBytes' = Diff64(b, prevBytes)
        /\ prevBytes' = b
  /\ polls' = polls + 1
  /\ lastTasks' = sinceTasks /\ lastBytes' = sinceBytes
  /\ sinceTasks' = 0 /\ sinceBytes' = 0
  /\ UNCHANGED <<statTasks, readBytes, phase>>

\* The worker may already have counted before the stats thread starts.
Init ==
  /\ statTasks \in 0..(2^CounterBits - 1)
  /\ readBytes \in 0..(2^CounterBits - 1)
  /\ prevTasks = 0 /\ prevBytes = 0
  /\ outTasks = 0 /\ outBytes = 0
  /\ phase = "init" /\ polls = 0
  /\ sinceTasks = 0 /\ sinceBytes = 0
  /\ lastTasks = 0 /\ lastBytes = 0

Next ==
  \/ \E n \in ReadSizes : WorkerRead(n)
  \/ StatInit
  \/ Poll

Spec == Init /\ [][Next]_vars

-----------------------------------------------------------------------------
(* Properties.                                                             *)

\* The "storage:" figure a poll prints is the number of tasks the worker
\* counted since the previous poll, also when stat_tasks_ passes a multiple
\* of 2^32 in between (lines 75-78).
TaskDeltaExact == polls > 0 => outTasks = lastTasks

\* The "storage-read:" figure is the number of bytes read since the previous
\* poll (spec §4.8: per-worker deltas of read bytes), even when the
\* counter passes a multiple of 2^32 in between (lines 84-87).
ByteDeltaExact == polls > 0 => outBytes = lastBytes

=============================================================================
