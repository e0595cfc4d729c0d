----------------------------- MODULE RPMAHandler -----------------------------
(***************************************************************************)
(* One connection of the server (RPMAHandler of EventOp.cc): it answers    *)
(* INIT by mapping and registering the replica's memory and sending its    *)
(* descriptor, FINISHED by giving the memory back, from one receive buffer *)
(* and one send buffer, on the server's only thread.  The client is the    *)
(* environment: it may send any request whenever a receive is posted.      *)
(*                                                                         *)
(* The end of the handler is taken apart: the destructors run in the       *)
(* reverse order of the declarations in EventOp.h while the card may still *)
(* be writing into what is registered.                                     *)
(***************************************************************************)
EXTENDS ConnectionHandler

CONSTANTS Paths, Sizes, Nil,
          Keys,     \* remote keys of registrations of the replica's memory
          Self      \* this connection, as the owner of a MemoryManager

ASSUME MessagesAssumption == Sizes \subseteq Nat \ {0} /\ Nil \notin Sizes \cup Paths \cup Keys

VARIABLES
  recv_bl, send_bl,   \* contents of the message buffers
  recv_mr, send_mr,   \* are the buffers registered?
  data_manager,       \* RPMAHandler::data_manager
  fs,                 \* the file system it works on
  data_mr,            \* RPMAHandler::data_mr: a registration, or Nil
  ends                \* how many steps of the destruction are done; 0: running

memVars == <<recv_bl, send_bl, recv_mr, send_mr, data_manager, fs, data_mr>>
vars == <<chVars, memVars, ends>>

Mem == INSTANCE MemoryManager WITH
         Managers <- {Self}, PathsOf <- [m \in {Self} |-> Paths],
         mm <- [m \in {Self} |-> data_manager], fs <- fs

InitRequest == [type : {"INIT_REQUEST"}, path : Paths, size : Sizes]
Request     == InitRequest \cup [type : {"FINISHED_REQUEST", "UNSUPPORTED"}]
Reply       == [type : {"INIT_SUCCESSED"}, key : Keys, size : Sizes, pmem : BOOLEAN]
               \cup [type : {"INIT_FAILED", "FINISHED_SUCCESSED", "FINISHED_FAILED"}]
Unwritten   == [type |-> "garbage"]   \* a buffer nothing was put into yet
Freed       == [type |-> "freed"]     \* a buffer that was given back
Region      == [key : Keys, size : Sizes]

-----------------------------------------------------------------------------
(* get_descriptor: the results it can have.  M holds the memory manager,   *)
(* the files, data_mr and the content of send_bl; posts is TRUE when       *)
(* close() sends as well, threw when an exception leaves the handler.      *)

M0 == [mm |-> data_manager, fs |-> fs, mr |-> data_mr, send |-> send_bl,
       posts |-> FALSE, threw |-> FALSE]

\* Mutation of register_mr_to_descriptor: one byte too many is registered.
register_mr_too_long(M) ==
  {[M EXCEPT !.mr = [key |-> k, size |-> M.mm.size + 1],
             !.send = [type |-> "INIT_SUCCESSED", key |-> k, size |-> M.mm.size,
                       pmem |-> M.mm.data = "pmem"]] : k \in Keys}

\* The old registration is dropped once the new one is made.  Without memory
\* for the peer configuration, the handler returns before it writes send_bl, or,
\* for DRAM, goes on with a length that was never set: the descriptor gets a tail
\* of that length (data left out here), or a failed resize or assert ends it all.
register_mr_to_descriptor(M) ==
  LET new(k) == [M EXCEPT !.mr = [key |-> k, size |-> M.mm.size]]
      fresh  == {k \in Keys : M.mr = Nil \/ k # M.mr.key}
  IN {M} \cup
     {[new(k) EXCEPT !.threw = (M.mm.data = "dram")] : k \in fresh} \cup
     {[new(k) EXCEPT !.send = [type |-> "INIT_SUCCESSED", key |-> k, size |-> M.mm.size,
                               pmem |-> M.mm.data = "pmem"]] : k \in fresh}

\* Mutation of NeedsInit: the memory is initialised on every INIT.
NeedsInitAlways(mm) == TRUE

\* The memory of an earlier INIT on this connection is used as it is.  (After a
\* throw nobody reads the manager again.)
NeedsInit(mm) == mm.data = "null"

get_descriptor_for_write(M, req) ==
  IF NeedsInit(M.mm)
  THEN UNION {IF r.mm.data = "null"
              THEN {[M EXCEPT !.mm = Mem!Fresh, !.fs = r.fs, !.threw = TRUE]}
              ELSE register_mr_to_descriptor([M EXCEPT !.mm = r.mm, !.fs = r.fs])
              : r \in Mem!init(M.fs, req.path, req.size)}
  ELSE register_mr_to_descriptor(M)

\* Mutations of close: the registration is kept; the reply is not encoded.
close_registered(M) ==
  {[M EXCEPT !.mm = r.mm, !.fs = r.fs, !.posts = TRUE,
             !.send = [type |-> IF r.failed THEN "FINISHED_FAILED" ELSE "FINISHED_SUCCESSED"]]
     : r \in Mem!close_and_remove(M.mm, M.fs)}
close_silent(M) ==
  {[M EXCEPT !.mr = Nil, !.mm = r.mm, !.fs = r.fs, !.posts = TRUE]
     : r \in Mem!close_and_remove(M.mm, M.fs)}

close(M) ==
  {[M EXCEPT !.mr = Nil, !.mm = r.mm, !.fs = r.fs, !.posts = TRUE,
             !.send = [type |-> IF r.failed THEN "FINISHED_FAILED" ELSE "FINISHED_SUCCESSED"]]
     : r \in Mem!close_and_remove(M.mm, M.fs)}

get_descriptor(M, req) ==
  CASE req.type = "INIT_REQUEST"     -> get_descriptor_for_write(M, req)
    [] req.type = "FINISHED_REQUEST" -> close(M)
    [] OTHER                         -> {M}

SetMemory(M) == data_manager' = M.mm /\ fs' = M.fs /\ data_mr' = M.mr /\ send_bl' = M.send

-----------------------------------------------------------------------------

\* Both buffers are allocated, not written to, and registered with the card.
init_send_recv_buffer ==
  recv_bl = Unwritten /\ send_bl = Unwritten /\ recv_mr = TRUE /\ send_mr = TRUE

\* The constructor: buffers registered, the first receive posted through the
\* connection request, the completion queue armed.
Init ==
  /\ \E o \in Ops : /\ op = [p \in Ops |-> IF p = o THEN "deal_require" ELSE Free]
                    /\ callback_table = {o} /\ rq = {o}
  /\ sq = << >> /\ cq = << >> /\ armed = TRUE /\ notified = FALSE
  /\ step = "epoll" /\ disconnected = FALSE /\ link = "up"
  /\ init_send_recv_buffer
  /\ data_manager = Mem!Fresh /\ fs \in Mem!Files /\ data_mr = Nil /\ ends = 0

\* Mutation of deal_require: a second receive is posted.
deal_require_twice(H, posts, o, p, ok1, ok2, ok3) ==
  LET H1 == IF posts THEN send(H, o, "none", ok1) ELSE recv(H, o, "deal_require", ok1)
  IN rpma_send(recv(H1, p, "deal_require", ok2), ok3)

\* What deal_require posts after get_descriptor, whose result it ignores: the
\* next receive, then the reply; the reply of close() was posted before them.
deal_require(H, posts, o, p, ok1, ok2, ok3) ==
  LET H1 == IF posts THEN send(H, o, "none", ok1) ELSE H
  IN rpma_send(recv(H1, p, "deal_require", ok2), ok3)

IsRequest(c) == c.status = "success" /\ c.ctx # Nullptr /\ op[c.ctx] = "deal_require"

\* A request is read from the completion queue and answered.
GetRequest ==
  /\ step = "get" /\ cq # << >> /\ IsRequest(Head(cq))
  /\ \E M \in get_descriptor(M0, recv_bl) :
       /\ ~M.threw /\ SetMemory(M)
       /\ \E o, p \in Ops \ Allocated, ok1, ok2, ok3 \in BOOLEAN :
            LET c == Head(cq).ctx IN
            /\ o # p
            /\ SetHeap(delete(deal_require(erase(H0, c), M.posts, o, p, ok1, ok2, ok3), c))
  /\ step' = "epoll" /\ cq' = Tail(cq)
  /\ UNCHANGED <<armed, notified, disconnected, link, recv_bl, recv_mr, send_mr, ends>>

\* An exception (MemoryManager::init) leaves the handler: the op is freed, the
\* server unwinds, and the handler is destroyed with the connection still up.
GetThrows ==
  /\ step = "get" /\ cq # << >> /\ IsRequest(Head(cq))
  /\ \E M \in get_descriptor(M0, recv_bl) : M.threw /\ SetMemory(M)
  /\ LET c == Head(cq).ctx IN SetHeap(delete(erase(H0, c), c))
  /\ ends' = 1 /\ step' = "epoll" /\ cq' = Tail(cq)
  /\ UNCHANGED <<armed, notified, disconnected, link, recv_bl, recv_mr, send_mr>>

\* The CLOSED or LOST event: remove_self drops the last reference.
ConnectionClosed ==
  /\ ends = 0 /\ step = "epoll" /\ link = "closed"
  /\ ends' = 1 /\ UNCHANGED <<chVars, memVars>>

\* Members in the reverse order of their declaration, the derived class first;
\* "ops" is the body of ~ConnectionHandler.
TeardownOrder == <<"data_mr", "data_manager", "ops",
                   "recv_mr", "recv_bl", "send_mr", "send_bl", "_conn">>

Ended == Len(TeardownOrder) + 1

Teardown ==
  /\ ends \in 1..Len(TeardownOrder) /\ ends' = ends + 1
  /\ LET going(r) == TeardownOrder[ends] = r IN
     /\ data_mr' = IF going("data_mr") THEN Nil ELSE data_mr
     /\ data_manager' = IF going("data_manager") THEN Mem!Fresh ELSE data_manager
     /\ fs' = IF going("data_manager") THEN Mem!destructor(data_manager, fs) ELSE fs
     /\ op' = [o \in Ops |-> IF going("ops") /\ o \in callback_table THEN Free ELSE op[o]]
     /\ callback_table' = IF going("ops") THEN {} ELSE callback_table
     /\ recv_mr' = (recv_mr /\ ~going("recv_mr")) /\ send_mr' = (send_mr /\ ~going("send_mr"))
     /\ recv_bl' = IF going("recv_bl") THEN Freed ELSE recv_bl
     /\ send_bl' = IF going("send_bl") THEN Freed ELSE send_bl
     /\ IF going("_conn")
        THEN /\ rq' = {} /\ sq' = << >> /\ cq' = << >> /\ armed' = FALSE /\ notified' = FALSE
             /\ disconnected' = TRUE /\ link' = "closed"
        ELSE UNCHANGED <<queueVars, disconnected, link>>
  /\ UNCHANGED step

-----------------------------------------------------------------------------
(* The card, and what it does to the buffers.                              *)

RequestArrives == /\ link = "up" /\ recv_mr
                  /\ \E o \in rq : RecvCompletes(o, "success")
                  /\ recv_bl' \in Request
                  /\ UNCHANGED <<send_bl, recv_mr, send_mr, data_manager, fs, data_mr, ends>>

Flushed == /\ \/ (link = "closed" \/ ~recv_mr) /\ \E o \in rq : RecvCompletes(o, "error")
              \/ (link = "closed" \/ ~send_mr) /\ SendCompletes("error")
           /\ UNCHANGED <<memVars, ends>>

ReplySent == /\ link = "up" /\ send_mr /\ SendCompletes("success")
             /\ UNCHANGED <<memVars, ends>>

LinkFails == ends < Ended /\ LinkDown /\ UNCHANGED <<memVars, ends>>

HandleCompletion ==
  /\ ends = 0
  /\ \/ (WaitOk \/ WaitFails \/ GetNone \/ GetFails \/ GetError \/ GetQuiet)
        /\ UNCHANGED <<memVars, ends>>
     \/ GetRequest \/ GetThrows

Stopped == ends = Ended /\ UNCHANGED vars

Next == HandleCompletion \/ ConnectionClosed \/ Teardown
        \/ RequestArrives \/ Flushed \/ ReplySent \/ LinkFails \/ Stopped

Spec == Init /\ [][Next]_vars

-----------------------------------------------------------------------------
(* Fairness: the event loop dispatches a readable completion channel and   *)
(* finishes the handler it is in; the card sends what is posted.          *)

FairSpec == Spec /\ WF_vars(HandleCompletion) /\ WF_vars(ReplySent)

-----------------------------------------------------------------------------
(* Properties.                                                             *)

\* Every variable keeps its type.
TypeOK ==
  /\ op \in [Ops -> Callback \cup {Free}] /\ callback_table \subseteq Ops
  /\ rq \subseteq Ops /\ sq \in Seq(Context) /\ cq \in Seq(Completion)
  /\ {armed, notified, disconnected, recv_mr, send_mr} \subseteq BOOLEAN
  /\ step \in {"epoll", "get"} /\ link \in {"up", "closed"}
  /\ recv_bl \in Request \cup {Unwritten, Freed} /\ send_bl \in Reply \cup {Unwritten, Freed}
  /\ data_manager \in Mem!Manager /\ fs \in Mem!Files
  /\ data_mr \in Region \cup {Nil} /\ ends \in 0..Ended

Running == ends = 0

\* callback_table owns exactly the RpmaOps on the heap: the destructor frees
\* each of them once and forgets none, whatever was posted, completed, failed
\* to post or failed to complete before.
TableIsHeap == callback_table = Allocated

\* The op_context handle_completion turns back into a unique_ptr is an op that
\* still exists, and no other work request or completion carries it: no op is
\* used after it was freed, run twice or freed twice.
ContextsLive ==
  Running =>
    /\ rq \subseteq Allocated
    /\ \A i \in DOMAIN sq : sq[i] # Nullptr => sq[i] \in Allocated \ rq
    /\ \A i \in DOMAIN cq : cq[i].ctx # Nullptr => cq[i].ctx \in Allocated \ rq
    /\ \A i, j \in DOMAIN sq : sq[i] = sq[j] /\ i # j => sq[i] = Nullptr
    /\ \A i, j \in DOMAIN cq : cq[i].ctx = cq[j].ctx /\ i # j => cq[i].ctx = Nullptr
    /\ \A i \in DOMAIN sq, j \in DOMAIN cq : sq[i] = cq[j].ctx => sq[i] = Nullptr

\* While the connection is up no op is forgotten: each is waiting in a queue.
NoOpForgotten ==
  Running /\ link = "up" /\ ~disconnected =>
    \A o \in Allocated : \/ o \in rq
                         \/ \E i \in DOMAIN sq : sq[i] = o
                         \/ \E i \in DOMAIN cq : cq[i].ctx = o

\* One receive buffer is enough: while a request waits to be handled no receive
\* is posted that a second request could overwrite it through.
RequestStable ==
  Running => \A i \in DOMAIN cq : IsRequest(cq[i]) =>
               rq = {} /\ \A j \in DOMAIN cq : IsRequest(cq[j]) => j = i

\* What the card may access is allocated, at every point of close() and of the
\* destruction: no registration outlives its memory.
RegisteredIsAllocated ==
  /\ data_mr # Nil => data_manager.data # "null" /\ data_mr.size = data_manager.size
  /\ recv_mr => recv_bl # Freed
  /\ send_mr => send_bl # Freed

\* A descriptor in the send buffer never promises memory that was given back or
\* more of it than there is, even when a failed request makes the server send
\* the buffer again.
PromisedIsMapped ==
  Running /\ send_bl.type = "INIT_SUCCESSED" =>
    data_manager.data # "null" /\ data_manager.size = send_bl.size

\* Outside handle_completion the completion queue is armed or the event loop
\* already has a notification to act on: no completion comes in unnoticed.
NeverDeaf == Running /\ step = "epoll" /\ ~disconnected => armed \/ notified

\* The request that waits to be handled.
Waiting == \E i \in DOMAIN cq : IsRequest(cq[i])

\* What the client can see of the handler.
requestSeen == IF ~Running \/ ~Waiting THEN Nil
               ELSE IF recv_bl.type = "INIT_REQUEST"
                    THEN [type |-> "INIT_REQUEST", size |-> recv_bl.size] ELSE recv_bl
heldSeen    == IF ~Running \/ data_manager.data = "null" THEN Nil
               ELSE [size |-> data_manager.size, pmem |-> data_manager.data = "pmem"]
listeningSeen == Running /\ rq # {}
regionSeen  == IF Running THEN data_mr ELSE Nil
replySeen   == IF Running THEN send_bl ELSE Unwritten
owedSeen    == IF Running THEN Len(sq) ELSE 0

Server == INSTANCE ReplicaServer WITH
  Faulty <- TRUE, Capacity <- SqSize, open <- Running, listening <- listeningSeen,
  request <- requestSeen, held <- heldSeen, region <- regionSeen, reply <- replySeen,
  owed <- owedSeen

ASSUME NilAssumption == Nil \notin Server!Request \cup Server!Memory

\* The handler does what ReplicaServer promises the client: one request at a
\* time, at most one region, replies only to what was asked, memory and region
\* given up together.
ImplementsServer == Server!ServerSpec

\* The handler uses its MemoryManager as MemoryManager.tla describes it, with
\* this connection alone (MemoryManager.tla has several that share files).
UsesMemoryManager == Mem!Spec

RequestQueued == Running /\ link = "up" /\ ~disconnected /\ Waiting

\* README: when the server receives the message from the client it sends the
\* descriptor back; so a request that is in the completion queue gets handled.
RequestHandled == RequestQueued ~> ~RequestQueued
=============================================================================
