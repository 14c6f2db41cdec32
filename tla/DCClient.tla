------------------------------ MODULE DCClient ------------------------------
(***************************************************************************)
(* Request ids and completion demultiplexing of the LTC's block client     *)
(* (src/dc/nova_dc_client.cpp).                                            *)
(*                                                                         *)
(* Every Initiate* call posts a request tagged with current_req_id_,       *)
(* records a context under that id and advances the id (a 32-bit counter   *)
(* that skips 0).  Responses from the storage node carry the id back;      *)
(* OnRecv looks the context up and marks it done, and IsDone(req_id),      *)
(* polled by the caller, erases a done context and reports completion.    *)
(* A FLUSH_SSTABLE takes two round trips: the node answers with a buffer   *)
(* offset, the client RDMA-WRITEs the table there, and the node confirms.  *)
(*                                                                         *)
(* The storage node's side is not under src/: it is modelled from spec     *)
(* §6 (one response per request; DELETE_TABLES gets none).                *)
(***************************************************************************)
EXTENDS Naturals, FiniteSets

CONSTANTS
  IdBits,          \* width of current_req_id_ (32 in the code)
  MaxRequests,     \* bound: requests the client issues
  MaxOutstanding,  \* bound: requests awaiting IsDone at once
  Duplicates,      \* whether the node may deliver a response twice (spec §4.5)
  IdLapping        \* whether one request may stay outstanding while the
                   \* counter runs a full lap of 2^IdBits - 1 ids

ASSUME /\ IdBits \in Nat \ {0} /\ MaxRequests \in Nat \ {0}
       /\ MaxOutstanding \in 1..(2^IdBits - 1) /\ Duplicates \in BOOLEAN
       /\ IdLapping \in BOOLEAN

IdSpace == 2^IdBits
Ids == 0..(IdSpace - 1)

\* DCRequestType opcodes.
FLUSH == "DC_FLUSH_SSTABLE"
FLUSH_BUF == "DC_FLUSH_SSTABLE_BUF"
FLUSH_SUCC == "DC_FLUSH_SSTABLE_SUCC"
READ_BLOCKS == "DC_READ_BLOCKS"
READ_SSTABLE == "DC_READ_SSTABLE"
DELETE == "DC_DELETE_TABLES"
WRITE == "RDMA_WRITE"
Kinds == {FLUSH, READ_BLOCKS, READ_SSTABLE}

VARIABLES
  reqId,     \* current_req_id_
  context,   \* request_context_: id -> [done, inst]
  toNode,    \* requests and RDMA WRITEs in flight to the storage node
  toClient,  \* responses in flight to the client
  waiting,   \* callers still to see IsDone true: set of [id, inst]
  issued,    \* history: number of requests issued; inst numbers them
  landed,    \* history: requests whose data the node has written or stored
  delivered, \* history: requests IsDone reported complete
  crashed    \* an RDMA_ASSERT failed

vars == <<reqId, context, toNode, toClient, waiting, issued, landed,
          delivered, crashed>>

Insts == 1..MaxRequests
Msg == [type : Kinds \cup {DELETE, WRITE, FLUSH_BUF, FLUSH_SUCC}, id : Ids, inst : Insts]

TypeOK ==
  /\ reqId \in Ids \ {0}
  /\ DOMAIN context \subseteq Ids
  /\ \A i \in DOMAIN context : context[i] \in [done : BOOLEAN, inst : Insts]
  /\ toNode \subseteq Msg /\ toClient \subseteq Msg
  /\ waiting \subseteq [id : Ids, inst : Insts]
  /\ issued \in 0..MaxRequests
  /\ landed \subseteq Insts /\ delivered \subseteq Insts
  /\ crashed \in BOOLEAN

-----------------------------------------------------------------------------

\* Mutant: the counter is advanced without the wrap.
IncrementReqIdNoWrap(id) == id + 1

\* IncrementReqId(), lines 13-18: wrap to 0 is skipped.
IncrementReqId(id) == IF (id + 1) % IdSpace = 0 THEN 1 ELSE (id + 1) % IdSpace

\* Map update and erase on the id -> context table.
Put(f, k, v) == [x \in DOMAIN f \cup {k} |-> IF x = k THEN v ELSE f[x]]
Erase(f, k) == [x \in DOMAIN f \ {k} |-> f[x]]

Outstanding == Cardinality(waiting)

\* Environment assumption, not a check of the code: with 32-bit ids a lap
\* takes 2^32 - 1 requests, so unless IdLapping holds the next id is never
\* still live when a request is initiated.
IdFree == IdLapping \/ reqId \notin DOMAIN context

\* Mutant: the context is recorded under the already advanced id.
InitiateContextAfterIncrement(kind) ==
  /\ ~crashed
  /\ issued < MaxRequests /\ Outstanding < MaxOutstanding /\ IdFree
  /\ LET inst == issued + 1 IN
     /\ toNode' = toNode \cup {[type |-> kind, id |-> reqId, inst |-> inst]}
     /\ context' = Put(context, IncrementReqId(reqId), [done |-> FALSE, inst |-> inst])
     /\ waiting' = waiting \cup {[id |-> IncrementReqId(reqId), inst |-> inst]}
     /\ issued' = inst
  /\ reqId' = IncrementReqId(reqId)
  /\ UNCHANGED <<toClient, landed, delivered, crashed>>

\* The pattern every Initiate* call with a response follows, lines 20-46 of
\* InitiateFlushSSTable: post the request under current_req_id_, record
\* its context under the same id, advance the id.
Initiate(kind) ==
  /\ ~crashed
  /\ issued < MaxRequests /\ Outstanding < MaxOutstanding /\ IdFree
  /\ LET inst == issued + 1 IN
     /\ toNode' = toNode \cup {[type |-> kind, id |-> reqId, inst |-> inst]}
     /\ context' = Put(context, reqId, [done |-> FALSE, inst |-> inst])
     /\ waiting' = waiting \cup {[id |-> reqId, inst |-> inst]}
     /\ issued' = inst
  /\ reqId' = IncrementReqId(reqId)
  /\ UNCHANGED <<toClient, landed, delivered, crashed>>

\* InitiateReadSSTable (56-81): the same, for a whole table.
InitiateReadSSTable == Initiate(READ_SSTABLE)

\* InitiateReadBlocks (133-166), also behind InitiateReadBlock (83-91):
\* the same, with the block handles in the request.
InitiateReadBlocks == Initiate(READ_BLOCKS)

\* InitiateDeleteFiles (93-118): fire-and-forget, no context, but it
\* consumes a request id.
InitiateDeleteFiles ==
  /\ ~crashed
  /\ issued < MaxRequests
  /\ toNode' = toNode \cup {[type |-> DELETE, id |-> reqId, inst |-> issued + 1]}
  /\ issued' = issued + 1
  /\ reqId' = IncrementReqId(reqId)
  /\ UNCHANGED <<context, toClient, waiting, landed, delivered, crashed>>

\* The storage node serves one message (spec §6): a FLUSH gets a buffer
\* offset, the client's WRITE lands and is confirmed, a READ writes the
\* data with the id as immediate, a DELETE is applied silently.
NodeServe(m) ==
  /\ toNode' = toNode \ {m}
  /\ CASE m.type = FLUSH ->
            /\ toClient' = toClient \cup {[m EXCEPT !.type = FLUSH_BUF]}
            /\ UNCHANGED landed
       [] m.type = WRITE ->
            /\ toClient' = toClient \cup {[m EXCEPT !.type = FLUSH_SUCC]}
            /\ landed' = landed \cup {m.inst}
       [] m.type \in {READ_BLOCKS, READ_SSTABLE} ->
            /\ toClient' = toClient \cup {m}
            /\ landed' = landed \cup {m.inst}
       [] m.type = DELETE ->
            /\ UNCHANGED <<toClient, landed>>
  /\ UNCHANGED <<reqId, context, waiting, issued, delivered, crashed>>

\* The transport hands a response to OnRecv; where Duplicates holds the
\* same response may be handed over again later.
Receive(m) ==
  \/ toClient' = toClient \ {m}
  \/ Duplicates /\ toClient' = toClient

\* Mutant: a FLUSH is marked done as soon as the buffer offset arrives.
OnRecvDoneOnBuf(m) ==
  /\ ~crashed
  /\ Receive(m)
  /\ IF m.id \notin DOMAIN context
     THEN /\ crashed' = TRUE
          /\ UNCHANGED <<context, toNode>>
     ELSE /\ context' = [context EXCEPT ![m.id].done = TRUE]
          /\ toNode' = IF m.type = FLUSH_BUF
                       THEN toNode \cup {[m EXCEPT !.type = WRITE]} ELSE toNode
          /\ UNCHANGED crashed
  /\ UNCHANGED <<reqId, waiting, issued, landed, delivered>>

\* Mutant: FLUSH_SSTABLE_SUCC is not recognised as final.
OnRecvNoSucc(m) ==
  /\ ~crashed
  /\ Receive(m)
  /\ IF m.id \notin DOMAIN context
     THEN /\ crashed' = TRUE
          /\ UNCHANGED <<context, toNode>>
     ELSE /\ IF m.type = FLUSH_BUF
             THEN /\ toNode' = toNode \cup {[m EXCEPT !.type = WRITE]}
                  /\ UNCHANGED context
             ELSE /\ context' = [context EXCEPT ![m.id].done = (m.type # FLUSH_SUCC)]
                  /\ UNCHANGED toNode
          /\ UNCHANGED crashed
  /\ UNCHANGED <<reqId, waiting, issued, landed, delivered>>

\* OnRecv (182-234): every response must find its context (RDMA_ASSERT);
\* FLUSH_SSTABLE_BUF triggers the RDMA WRITE of the table, the final
\* response of each kind marks the context done.
OnRecv(m) ==
  /\ ~crashed
  /\ Receive(m)
  /\ IF m.id \notin DOMAIN context
     THEN /\ crashed' = TRUE
          /\ UNCHANGED <<context, toNode>>
     ELSE /\ IF m.type = FLUSH_BUF
             THEN /\ toNode' = toNode \cup {[m EXCEPT !.type = WRITE]}
                  /\ UNCHANGED context
             ELSE /\ context' = [context EXCEPT ![m.id].done = TRUE]
                  /\ UNCHANGED toNode
          /\ UNCHANGED crashed
  /\ UNCHANGED <<reqId, waiting, issued, landed, delivered>>

\* IsDone (168-179): the caller's context must exist (RDMA_ASSERT); a done
\* context is erased and the request reported complete.
IsDone(w) ==
  /\ ~crashed
  /\ IF w.id \notin DOMAIN context
     THEN /\ crashed' = TRUE
          /\ UNCHANGED <<context, waiting, delivered>>
     ELSE /\ context[w.id].done
          /\ context' = Erase(context, w.id)
          /\ waiting' = waiting \ {w}
          /\ delivered' = delivered \cup {context[w.id].inst}
          /\ UNCHANGED crashed
  /\ UNCHANGED <<reqId, toNode, toClient, issued, landed>>

\* The constructor is not under src/; request ids skip 0 (spec, "Request id"),
\* so the first id issued is 1.
Init ==
  /\ reqId = 1
  /\ context = [i \in {} |-> [done |-> FALSE, inst |-> 1]]
  /\ toNode = {}
  /\ toClient = {}
  /\ waiting = {}
  /\ issued = 0
  /\ landed = {}
  /\ delivered = {}
  /\ crashed = FALSE

Next ==
  \/ Initiate(FLUSH)
  \/ InitiateReadSSTable
  \/ InitiateReadBlocks
  \/ InitiateDeleteFiles
  \/ \E m \in toNode : NodeServe(m)
  \/ \E m \in toClient : OnRecv(m)
  \/ \E w \in waiting : IsDone(w)

\* The storage node serves every request, the transport delivers every
\* response, and callers keep polling IsDone until it returns true (the
\* Wait()/IsDone loops of the callers).
Fairness ==
  /\ WF_vars(\E m \in toNode : NodeServe(m))
  /\ \A m \in Msg : WF_vars(OnRecv(m) /\ m \in toClient /\ toClient' = toClient \ {m})
  /\ \A w \in [id : Ids, inst : Insts] : WF_vars(w \in waiting /\ IsDone(w))

Spec == Init /\ [][Next]_vars /\ Fairness

-----------------------------------------------------------------------------
(* Properties.                                                             *)

\* No RDMA_ASSERT in OnRecv (line 206, 216, 220, 224) or IsDone (line 173)
\* fails: every response, and every poll, finds its request's context.
NoAssertFailure == ~crashed

\* A request IsDone reports complete is one whose data the node has
\* written or whose table the client's RDMA WRITE delivered, even after the
\* 32-bit id has wrapped and been reused by later requests.
ResponseMatchesRequest == delivered \subseteq landed

\* Every request with a context is eventually reported done to its caller.
EveryRequestCompletes ==
  \A i \in Insts : (\E w \in waiting : w.inst = i) ~> (i \in delivered)

=============================================================================
