---------------------------- MODULE ReplicaProofs ----------------------------
(* The client and the server together: what the server promises holds     *)
(* whatever its client does, and what holds of the client alone holds with *)
(* the server in the place of its environment.                             *)
EXTENDS Replica, ClientHandlerProofs

\* A request to open the replica asks for a size; with the server's two promises
\* this is inductive.
Asked == request # Nil /\ request.type = "INIT_REQUEST" => request.size \in Sizes

ServerInv == Asked /\ S!RegionIsHeld /\ S!PromiseIsHeld

-----------------------------------------------------------------------------
(* The steps of the server.                                                *)

\* INIT: memory that is held stays, other memory is what was asked for.
LEMMA HeldByInit ==
  ASSUME ServerInv, S!ServeInit
  PROVE  held' # Nil /\ (held # Nil => held' = held)
  <1>1. held' \in S!MemoryFor(request) /\ request.size \in Sizes
    BY DEF S!ServeInit, ServerInv, Asked
  <1>2. CASE held # Nil
    BY <1>1, <1>2 DEF S!MemoryFor
  <1>3. CASE held = Nil
    <2>1. held' \in S!Memory
      BY <1>1, <1>3 DEF S!MemoryFor, S!Memory
    <2> QED
      BY <1>3, <2>1, ReplicaAssumption
  <1> QED
    BY <1>2, <1>3

\* INIT keeps both promises, at whichever call it fails.
LEMMA InitKeeps ==
  ASSUME ServerInv, S!ServeInit
  PROVE  ServerInv'
  <1>1. held' # Nil /\ (held # Nil => held' = held)
    BY HeldByInit
  <1>2. Asked'
    BY DEF S!ServeInit, S!Served, Asked
  <1>3. CASE UNCHANGED <<region, reply>>
    BY <1>1, <1>2, <1>3 DEF ServerInv, S!RegionIsHeld, S!PromiseIsHeld
  <1>4. CASE \E k \in Keys :
               /\ region' = [key |-> k, size |-> held'.size]
               /\ \/ reply' = [type |-> "INIT_SUCCESSED", key |-> k,
                               size |-> held'.size, pmem |-> held'.pmem]
                  \/ UNCHANGED reply
    <2>1. PICK k \in Keys :
               /\ region' = [key |-> k, size |-> held'.size]
               /\ \/ reply' = [type |-> "INIT_SUCCESSED", key |-> k,
                               size |-> held'.size, pmem |-> held'.pmem]
                  \/ UNCHANGED reply
      BY <1>4
    <2>2. S!RegionIsHeld'
      BY <1>1, <2>1 DEF S!RegionIsHeld
    <2>3. S!PromiseIsHeld'
      BY <1>1, <2>1 DEF ServerInv, S!PromiseIsHeld
    <2> QED
      BY <1>2, <2>2, <2>3 DEF ServerInv
  <1> QED
    BY <1>3, <1>4 DEF S!ServeInit

\* FINISHED gives up memory, region and descriptor together.
LEMMA FinishedKeeps ==
  ASSUME ServerInv, S!ServeFinished
  PROVE  ServerInv'
  BY DEF S!ServeFinished, S!Served, ServerInv, Asked, S!RegionIsHeld, S!PromiseIsHeld

\* The end of the handler, likewise.
LEMMA CloseKeeps ==
  ASSUME ServerInv, S!Close
  PROVE  ServerInv'
  BY DEF S!Close, S!Unwritten, ServerInv, Asked, S!RegionIsHeld, S!PromiseIsHeld

\* A request of the client arrives.
LEMMA RequestKeeps ==
  ASSUME ServerInv, RequestDelivered
  PROVE  ServerInv'
  <1>1. /\ request' = IF send_bl.type = "INIT_REQUEST"
                      THEN [type |-> "INIT_REQUEST", size |-> ImageSize] ELSE send_bl
        /\ UNCHANGED <<held, region, reply>>
    BY DEF RequestDelivered, S!Receive
  <1>2. Asked'
    BY <1>1, ReplicaAssumption DEF Asked
  <1> QED
    BY <1>1, <1>2 DEF ServerInv, S!RegionIsHeld, S!PromiseIsHeld

\* Every other step leaves what matters alone.
LEMMA OthersKeep ==
  ASSUME ServerInv, UNCHANGED <<request, held, region, reply>>
  PROVE  ServerInv'
  BY DEF ServerInv, Asked, S!RegionIsHeld, S!PromiseIsHeld

\* The invariant of the server in the composed system.
LEMMA SystemKeepsServer == SystemSpec => []ServerInv
  <1>1. SystemInit => ServerInv
    BY DEF SystemInit, S!ServerInit, S!Unwritten, ServerInv, Asked, S!RegionIsHeld, S!PromiseIsHeld
  <1>2. ASSUME ServerInv, [SystemNext]_allVars
        PROVE  ServerInv'
    <2>1. CASE ServerServes
      BY <1>2, <2>1, InitKeeps, FinishedKeeps DEF ServerServes
    <2>2. CASE RequestDelivered
      BY <1>2, <2>2, RequestKeeps
    <2>3. CASE ServerCloses \/ ReplyDelivered
      <3>1. S!Close \/ UNCHANGED <<request, held, region, reply>>
        BY <2>3 DEF ServerCloses, ReplyDelivered, S!ReplyLeaves, S!ReceiveFlushed
      <3> QED
        BY <1>2, <3>1, CloseKeeps, OthersKeep
    <2>4. CASE ClientAlone \/ Idle \/ WriteCarriedOut \/ WriteRefused \/ UNCHANGED allVars
      <3>1. UNCHANGED <<request, held, region, reply>>
        BY <2>4 DEF ClientAlone, Idle, WriteCarriedOut, WriteRefused, allVars, serverVars
      <3> QED
        BY <1>2, <3>1, OthersKeep
    <2> QED
      BY <1>2, <2>1, <2>2, <2>3, <2>4 DEF SystemNext
  <1> QED
    BY <1>1, <1>2, PTL DEF SystemSpec

\* In the composed system, with any script and whichever calls of the server
\* fail, a region the client may write to and a descriptor that is sent to it
\* are of memory the server holds, with its length.
THEOREM PromisesAreKept == SystemSpec => []ServerKeepsPromise
  <1>1. ServerInv => ServerKeepsPromise
    BY DEF ServerInv, ServerKeepsPromise
  <1> QED
    BY <1>1, SystemKeepsServer, PTL

-----------------------------------------------------------------------------
(* The client in the composed system.                                      *)

\* The server's steps are steps of the client's environment, or leave the client
\* alone.
LEMMA SystemKeepsClient == SystemSpec => []ClientInv
  <1>1. SystemInit => ClientInv
    BY InitClient DEF SystemInit
  <1>2. ASSUME ClientInv, [SystemNext]_allVars
        PROVE  ClientInv'
    <2>1. CASE ClientAlone
      BY <1>2, <2>1, MainKeeps, ReactorKeeps, CardKeeps DEF ClientAlone
    <2>2. CASE RequestDelivered \/ WriteCarriedOut
      BY <1>2, <2>2, CardKeeps DEF RequestDelivered, WriteCarriedOut
    <2>3. CASE ReplyDelivered
      BY <1>2, <2>3, ReplyKeeps DEF ReplyDelivered
    <2>4. CASE UNCHANGED vars
      BY <1>2, <2>4, StutterKeeps
    <2>5. CASE WriteRefused
      BY <1>2, <2>5, LinkKeeps DEF WriteRefused
    <2>6. CASE ServerCloses
      BY <1>2, <2>4, <2>6, LinkKeeps DEF ServerCloses
    <2>7. CASE Idle \/ ServerServes \/ UNCHANGED allVars
      BY <2>4, <2>7 DEF Idle, Spinning, Stopped, ServerServes, allVars
    <2> QED
      BY <1>2, <2>1, <2>2, <2>3, <2>5, <2>6, <2>7 DEF SystemNext
  <1> QED
    BY <1>1, <1>2, PTL DEF SystemSpec

\* With the server, too, no op of the client is lost between its two threads.
THEOREM SystemLosesNoOp == SystemSpec => []NoOpLost
  BY SystemKeepsClient, PTL DEF ClientInv

\* With the server, too, every op_context the client gets back is a live op.
THEOREM SystemContextsLive == SystemSpec => []ContextsLive
  BY SystemKeepsClient, PTL DEF ClientInv

-----------------------------------------------------------------------------
(* What the theorems that follow rest on.                                  *)

\* The server is asked for memory of the size of the image, and holds no other.
SizeAsked ==
  /\ request # Nil /\ request.type = "INIT_REQUEST" => request.size = ImageSize
  /\ held # Nil => held.size = ImageSize /\ held.pmem \in BOOLEAN

\* Types, that the server never says INIT_FAILED, and that th1 works on an op.
SystemTypes == /\ MainTypes /\ Messages /\ reply \in Reply /\ SizeAsked
               /\ "INIT_FAILED" \notin {reply.type, recv_bl.type}
               /\ main \notin Dead /\ step \in Working => cur \in Ops

\* The steps in which the client takes part are its own or leave these alone.
LEMMA ClientPart ==
  ASSUME ClientInv, SystemTypes, SystemNext
  PROVE  MainTypes' /\ Messages'
  <1>1. CASE ClientAlone \/ Idle \/ RequestDelivered \/ WriteCarriedOut
    <2>1. Next
      BY <1>1, Zenon DEF ClientAlone, Idle, RequestDelivered, WriteCarriedOut, Next
    <2> QED
      BY <2>1, MainKept, MessagesKept DEF SystemTypes
  <1>2. CASE ReplyDelivered
    <2>1. \E r \in Reply : ReplyArrives(r)
      BY <1>2 DEF ReplyDelivered, SystemTypes
    <2> QED
      BY <2>1, MainKept, MessagesKept DEF SystemTypes, Next
  <1>3. CASE WriteRefused \/ ServerServes \/ ServerCloses
    <2>1. UNCHANGED <<mainVars, flagVars, replicaVars, target, recv_bl, send_bl>>
      BY <1>3, Zenon DEF WriteRefused, ServerServes, ServerCloses, vars, clientVars
    <2> QED
      BY <2>1 DEF SystemTypes, MainTypes, Messages, mainVars, flagVars, replicaVars
  <1> QED
    BY <1>1, <1>2, <1>3 DEF SystemNext

\* The server answers with what it holds, and holds what was asked for.
LEMMA ServerPart ==
  ASSUME ServerInv, SystemTypes, SystemNext
  PROVE  reply' \in Reply /\ SizeAsked'
  <1>0. reply \in Reply /\ SizeAsked
    BY DEF SystemTypes
  <1>1. CASE UNCHANGED <<request, held, reply>>
    BY <1>0, <1>1 DEF SizeAsked
  <1>2. CASE S!ServeInit
    <2>1. request' = Nil /\ request.size = ImageSize /\ held' \in S!MemoryFor(request)
      BY <1>0, <1>2 DEF S!ServeInit, S!Served, SizeAsked
    <2>2. held' # Nil
      BY <1>2, HeldByInit
    <2>3. held'.size = ImageSize /\ held'.pmem \in BOOLEAN
      BY <1>0, <2>1, Zenon DEF S!MemoryFor, SizeAsked
    <2>4. reply' \in Reply
      <3>1. \/ reply' = reply
            \/ \E k \in Keys : reply' = [type |-> "INIT_SUCCESSED", key |-> k,
                                         size |-> held'.size, pmem |-> held'.pmem]
        BY <1>2, ZenonT(40) DEF S!ServeInit
      <3> QED
        BY <1>0, <2>3, <3>1, ReplicaAssumption DEF Reply
    <2> QED
      BY <2>1, <2>3, <2>4 DEF SizeAsked
  <1>3. CASE S!ServeFinished \/ S!Close
    BY <1>3 DEF S!ServeFinished, S!Served, S!Close, S!Unwritten, SizeAsked, Reply
  <1>4. CASE RequestDelivered
    <2>1. /\ request' = IF send_bl.type = "INIT_REQUEST"
                        THEN [type |-> "INIT_REQUEST", size |-> ImageSize] ELSE send_bl
          /\ UNCHANGED <<held, reply>>
      BY <1>4 DEF RequestDelivered, S!Receive
    <2> QED
      BY <1>0, <2>1 DEF SizeAsked
  <1>5. CASE \/ ClientAlone \/ Idle \/ ReplyDelivered \/ WriteCarriedOut \/ WriteRefused
             \/ S!ReplyLeaves \/ S!ReceiveFlushed
    <2>1. UNCHANGED <<request, held, reply>>
      BY <1>5, Zenon DEF ClientAlone, Idle, ReplyDelivered, WriteCarriedOut, WriteRefused, S!ReplyLeaves,
                         S!ReceiveFlushed, serverVars
    <2> QED
      BY <1>1, <2>1
  <1> QED
    BY <1>2, <1>3, <1>4, <1>5 DEF SystemNext, ServerServes, ServerCloses

\* th1 works on an op that came with a completion.
LEMMA WorkPart ==
  ASSUME ClientInv, SystemTypes, SystemNext, main' \notin Dead, step' \in Working
  PROVE  cur' \in Ops
  <1>1. CASE UNCHANGED <<step, cur>> /\ main \notin Dead
    BY <1>1 DEF SystemTypes
  <1>2. CASE ReactorThread
    <2>0. main \notin Dead
      BY <1>2 DEF ReactorThread
    <2>1. CASE GetOp
      <3>1. /\ cq # << >> /\ cq \in Seq(Completion) /\ cur' = Head(cq).ctx
            /\ \A i \in DOMAIN cq : cq[i].ctx \in Allocated
        BY <2>0, <2>1 DEF GetOp, ClientInv, Typed, ContextsLive
      <3>2. 1 \in DOMAIN cq /\ Head(cq) = cq[1]
        BY <3>1, TailFacts
      <3> QED
        BY <3>1, <3>2, ZenonT(40) DEF Allocated
    <2>2. CASE Describe \/ RunCallback
      BY <2>0, <2>2 DEF Describe, RunCallback, SystemTypes, Working
    <2>3. CASE \/ (WaitOk \/ GetNone \/ GetError \/ WaitFails \/ GetFails) /\ UNCHANGED clientVars
               \/ EventReady \/ ConnectionEvent \/ Delete
      <3>1. step' \in {step, "get", "epoll", "event", "exited"} /\ (step' = step => cur' = cur)
        BY <2>3 DEF WaitOk, GetNone, GetError, WaitFails, GetFails, EventReady, ConnectionEvent, Delete,
                    remove_self, clientVars
      <3> QED
        BY <1>1, <2>0, <3>1, ZenonT(40) DEF Working
    <2> QED
      BY <1>2, <2>1, <2>2, <2>3 DEF ReactorThread
  <1>3. CASE MainThread
    <2>1. main \notin Dead
      BY <1>3, ZenonT(40) DEF MainThread, Construct, WaitEstablished, InitReplica, CloseReplica, Ask, PostRecv,
                  PostSend, Inserted, Wait, Answered, WaitEnds, Prepare, SetHead, Write, Flush, Post,
                  Spin, Disconnect, Join, Joined, Call, Dead
    <2>2. UNCHANGED cur /\ (step' = step \/ step' = "epoll")
      BY <1>3, Zenon DEF MainThread, Construct, Started, RegisterFails, ConstructorThrows,
           WaitEstablished, InitReplica, CloseReplica, Ask, PostRecv, PostSend, Inserted, Wait, Answered,
           Prepare, SetHead, Write, Flush, Post, Spin, Disconnect, Join, chVars
    <2> QED
      BY <1>1, <2>1, <2>2, Zenon DEF Working
  <1>4. CASE LinkUp \/ LinkFails \/ Flushed \/ Sent \/ WriteRefused \/ ReplyDelivered
    <2>1. UNCHANGED <<step, cur>> /\ main \notin Dead
      BY <1>4, Zenon DEF LinkUp, LinkFails, LinkDown, Flushed, Sent, WriteRefused, ReplyDelivered,
           ReplyArrives, SendCompletes, RecvCompletes, clientVars
    <2> QED
      BY <1>1, <2>1
  <1>5. CASE Idle \/ ServerServes \/ ServerCloses
    <2>1. UNCHANGED <<step, cur, main>>
      BY <1>5, Zenon DEF Idle, Spinning, Stopped, ServerServes, ServerCloses, LinkDown, vars, chVars,
           clientVars, mainVars
    <2> QED
      BY <1>1, <2>1
  <1> QED
    BY <1>2, <1>3, <1>4, <1>5 DEF SystemNext, ClientAlone, RequestDelivered, WriteCarriedOut

\* Neither buffer of a reply ever says INIT_FAILED.
LEMMA SaysNoFailure ==
  ASSUME "INIT_FAILED" \notin {reply.type, recv_bl.type}, SystemNext
  PROVE  "INIT_FAILED" \notin {reply'.type, recv_bl'.type}
  <1>1. reply' = reply \/ ServerServes \/ S!Close
    BY Zenon DEF SystemNext, ClientAlone, Idle, RequestDelivered, ReplyDelivered, WriteCarriedOut, WriteRefused,
         ServerCloses, S!Receive, S!ReplyLeaves, S!ReceiveFlushed, serverVars
  <1>2. reply'.type # "INIT_FAILED"
    BY <1>1 DEF ServerServes, S!ServeInit, S!ServeFinished, S!Close, S!Unwritten
  <1>3. recv_bl' = recv_bl \/ ReplyDelivered
    <2>1. MainThread => recv_bl' = recv_bl
      BY ZenonT(40) DEF MainThread, Construct, WaitEstablished, InitReplica, CloseReplica, Ask, PostRecv,
           PostSend, Inserted, Wait, Answered, Prepare, SetHead, Write, Flush, Post, Spin, Disconnect, Join
    <2>2. ReactorThread => recv_bl' = recv_bl
      BY ZenonT(40) DEF ReactorThread, EventReady, ConnectionEvent, GetOp, Describe, RunCallback, Delete,
           clientVars
    <2>3. LinkUp \/ LinkFails \/ Flushed \/ Sent \/ WriteRefused => recv_bl' = recv_bl
      BY ZenonT(40) DEF LinkUp, LinkFails, Flushed, Sent, WriteRefused, clientVars
    <2>4. Idle \/ ServerServes \/ ServerCloses => recv_bl' = recv_bl
      BY ZenonT(40) DEF Idle, Spinning, Stopped, ServerServes, ServerCloses, vars, clientVars
    <2> QED
      BY <2>1, <2>2, <2>3, <2>4, Zenon DEF SystemNext, ClientAlone, RequestDelivered, WriteCarriedOut
  <1>4. ReplyDelivered => recv_bl' = reply
    BY DEF ReplyDelivered, ReplyArrives
  <1> QED
    BY <1>2, <1>3, <1>4

LEMMA SystemTyped == SystemSpec => [](ClientInv /\ ServerInv /\ SystemTypes)
  <1>1. SystemInit => SystemTypes
    <2> SUFFICES ASSUME SystemInit PROVE SystemTypes
      OBVIOUS
    <2>1. MainTypes
      BY ScriptsAssumption, ClientAssumption, SMTT(30) DEF SystemInit, Init, MainTypes, Within
    <2>2. Messages /\ reply \in Reply
      BY DEF SystemInit, Init, S!ServerInit, S!Unwritten, Messages, Reply
    <2>3. SizeAsked /\ step \notin Working /\ "INIT_FAILED" \notin {reply.type, recv_bl.type}
      BY DEF SystemInit, Init, S!ServerInit, S!Unwritten, SizeAsked, Working
    <2> QED
      BY <2>1, <2>2, <2>3 DEF SystemTypes
  <1>2. ClientInv /\ ServerInv /\ SystemTypes /\ [SystemNext]_allVars => SystemTypes'
    <2> SUFFICES ASSUME ClientInv, ServerInv, SystemTypes, [SystemNext]_allVars PROVE SystemTypes'
      OBVIOUS
    <2>1. CASE SystemNext
      BY <2>1, ClientPart, ServerPart, SaysNoFailure, WorkPart DEF SystemTypes
    <2>2. CASE UNCHANGED allVars
      <3>1. (MainTypes /\ Messages /\ reply \in Reply)'
        BY <2>2 DEF SystemTypes, MainTypes, Messages, allVars, vars, clientVars, mainVars, flagVars,
                    replicaVars, serverVars
      <3>2. SizeAsked' /\ "INIT_FAILED" \notin {reply'.type, recv_bl'.type}
        BY <2>2 DEF SystemTypes, SizeAsked, allVars, serverVars, vars, clientVars
      <3>3. (main \notin Dead /\ step \in Working => cur \in Ops)'
        BY <2>2 DEF SystemTypes, allVars, vars, chVars, clientVars, mainVars
      <3> QED
        BY <3>1, <3>2, <3>3, ZenonT(40) DEF SystemTypes
    <2> QED
      BY <2>1, <2>2
  <1> QED
    BY <1>1, <1>2, SystemKeepsClient, SystemKeepsServer, PTL DEF SystemSpec

-----------------------------------------------------------------------------
(* Kinds of steps of the composed system.                                  *)

\* Neither thread of the client moves.
Outside == /\ UNCHANGED <<op, cur, step, script, at, main, answer>>
           /\ UNCHANGED <<image_mr, flush_type, got, data_mr, target, send_bl>>

LEMMA WhoMoves ==
  ASSUME [SystemNext]_allVars
  PROVE  \/ MainThread /\ UNCHANGED serverVars
         \/ ReactorThread /\ UNCHANGED serverVars
         \/ Outside
  <1>1. CASE (LinkUp \/ LinkFails \/ Flushed) \/ Sent \/ ReplyDelivered \/ WriteRefused
    <2>1. Outside
      BY <1>1, ZenonT(40) DEF Outside, LinkUp, LinkFails, LinkDown, Flushed, Sent, ReplyDelivered, ReplyArrives,
           RecvCompletes, SendCompletes, WriteRefused, clientVars, mainVars, flagVars, replicaVars
    <2> QED
      BY <2>1
  <1>2. CASE Idle \/ ServerServes \/ ServerCloses \/ UNCHANGED allVars
    <2>1. Outside
      BY <1>2, ZenonT(40) DEF Outside, Idle, Spinning, Stopped, ServerServes, ServerCloses, LinkDown, allVars,
           vars, chVars, clientVars, mainVars, flagVars, replicaVars
    <2> QED
      BY <2>1
  <1> QED
    BY <1>1, <1>2, Zenon DEF SystemNext, ClientAlone, RequestDelivered, WriteCarriedOut

\* The server's memory stays, is gone with the connection, or a request is served.
LEMMA MemoryMoves ==
  ASSUME [SystemNext]_allVars
  PROVE  UNCHANGED <<held, region, open>> \/ ~open' \/ ServerServes
  <1>1. CASE ClientAlone \/ Idle \/ WriteCarriedOut \/ WriteRefused \/ UNCHANGED allVars
    BY <1>1, Zenon DEF ClientAlone, Idle, WriteCarriedOut, WriteRefused, allVars, serverVars
  <1>2. CASE RequestDelivered \/ ReplyDelivered
    BY <1>2 DEF RequestDelivered, ReplyDelivered, S!Receive, S!ReplyLeaves
  <1>3. CASE ServerCloses
    BY <1>3 DEF ServerCloses, S!Close, S!ReplyLeaves, S!ReceiveFlushed
  <1> QED
    BY <1>1, <1>2, <1>3, Zenon DEF SystemNext

\* The main thread: where it is in its script, and what it does to the ops.
LEMMA MainMoves ==
  ASSUME MainThread
  PROVE  /\ main \notin Dead /\ script' = script /\ at' \in {at, at + 1}
         /\ cur' = cur /\ (step' = step \/ step' = "epoll")
         /\ UNCHANGED <<image_mr, flush_type, got>> /\ answer' \in {answer, "none"}
  <1>1. main \notin Dead
    BY ZenonT(40) DEF MainThread, Construct, WaitEstablished, InitReplica, CloseReplica, Ask, PostRecv,
         PostSend, Inserted, Wait, Answered, WaitEnds, Prepare, SetHead, Write, Flush, Post,
         Spin, Disconnect, Join, Joined, Call, Dead
  <1>2. script' = script /\ at' \in {at, at + 1}
    BY ZenonT(40) DEF MainThread, Construct, Started, RegisterFails, ConstructorThrows, WaitEstablished,
         InitReplica, CloseReplica, Ask, PostRecv, PostSend, StartWait, Inserted, Wait, Answered, Prepare,
         SetHead, Write, Flush, Post, Spin, Disconnect, Join, Return, Go
  <1>3. cur' = cur /\ (step' = step \/ step' = "epoll")
    BY Zenon DEF MainThread, Construct, Started, RegisterFails, ConstructorThrows,
         WaitEstablished, InitReplica, CloseReplica, Ask, PostRecv, PostSend, Inserted, Wait, Answered,
         Prepare, SetHead, Write, Flush, Post, Spin, Disconnect, Join, chVars
  <1>4. UNCHANGED <<image_mr, flush_type, got>>
    BY ZenonT(40) DEF MainThread, Construct, WaitEstablished, InitReplica, CloseReplica, Ask, PostRecv,
         PostSend, Inserted, Wait, Answered, Prepare, SetHead, Write, Flush, Post, Spin, Disconnect, Join,
         replicaVars
  <1>5. answer' \in {answer, "none"}
    BY ZenonT(40) DEF MainThread, Construct, WaitEstablished, InitReplica, CloseReplica, Ask, PostRecv,
         PostSend, Inserted, Wait, Answered, Prepare, SetHead, Write, Flush, Post, Spin, Disconnect, Join,
         flagVars
  <1> QED
    BY <1>1, <1>2, <1>3, <1>4, <1>5

LEMMA OpsOfMain ==
  ASSUME ClientInv, MainThread, main' \notin Dead, NEW o \in Ops
  PROVE  \/ op'[o] = op[o]
         \/ op[o] = "init" /\ op'[o] = "stale_init" /\ answer' = answer
         \/ op[o] = "finish" /\ op'[o] = "stale_finish"
         \/ op[o] = Free /\ PostRecv /\ op'[o] = Frame /\ (\A p \in Ops : p # o => op'[p] = op[p])
         \/ op[o] = Free /\ op'[o] = "none"
         \/ op[o] = Free /\ op'[o] \in {"write", "flush"} /\ image_mr # Nil /\ target' = image_mr.key
  <1>0. op \in [Ops -> Callback \cup {Free}] /\ \A p \in Ops \ Allocated : op[p] = Free
    BY DEF ClientInv, Typed, Allocated
  <1>1. CASE op' = op
    BY <1>1
  <1>2. CASE PostRecv
    <2>1. op' = op \/ \E p \in Ops \ Allocated : op' = [op EXCEPT ![p] = Frame]
      BY <1>2, Zenon DEF PostRecv
    <2> QED
      BY <1>0, <1>2, <2>1
  <1>3. CASE PostSend
    <2>1. op' = op \/ \E p \in Ops \ Allocated : op' = [op EXCEPT ![p] = "none"]
      BY <1>3, Zenon DEF PostSend
    <2> QED
      BY <1>0, <2>1
  <1>4. CASE Answered
    BY <1>4 DEF Answered, Outlives, flagVars
  <1>5. ASSUME NEW c \in {"write", "flush"}, Post(c)
        PROVE  \/ op'[o] = op[o]
               \/ op[o] = Free /\ op'[o] \in {"write", "flush"} /\ image_mr # Nil /\ target' = image_mr.key
    <2>1. op' = op \/ \E p \in Ops \ Allocated : /\ op' = [op EXCEPT ![p] = c]
                                                 /\ image_mr # Nil /\ target' = image_mr.key
      BY <1>5, ZenonT(40) DEF Post
    <2> QED
      BY <1>0, <2>1
  <1>6. CASE \/ Construct \/ WaitEstablished \/ InitReplica \/ CloseReplica \/ Inserted \/ Wait \/ Prepare
             \/ SetHead \/ Spin \/ Disconnect
    BY <1>1, <1>6, ZenonT(40) DEF Construct, WaitEstablished, InitReplica, CloseReplica, Ask, Inserted, Wait,
         Prepare, SetHead, Spin, Disconnect, chVars
  <1>7. CASE Join
    BY <1>7 DEF Join, Go, Dead
  <1> QED
    BY <1>2, <1>3, <1>4, <1>5, <1>6, <1>7, Zenon DEF MainThread, Write, Flush

\* th1: a callback runs, or the op is freed, or neither.
LEMMA ReactorMoves ==
  ASSUME ~CallsFail, ReactorThread
  PROVE  /\ main \notin Dead /\ UNCHANGED <<script, at, data_mr, target, send_bl>>
         /\ \/ Describe \/ RunCallback
            \/ /\ UNCHANGED <<main, answer, image_mr, flush_type, got>>
               /\ \/ Delete
                  \/ op' = op /\ step \notin Working /\ (step' \in Working => step' = "callback")
  <1>1. main \notin Dead /\ UNCHANGED <<script, at, data_mr, target, send_bl>>
    BY ZenonT(40) DEF ReactorThread, EventReady, ConnectionEvent, GetOp, Describe, RunCallback, Delete, clientVars,
         mainVars
  <1>2. CASE Delete
    BY <1>1, <1>2 DEF Delete, mainVars, flagVars, replicaVars
  <1>3. CASE \/ (WaitOk \/ GetNone \/ GetError) /\ UNCHANGED clientVars
             \/ EventReady \/ ConnectionEvent \/ GetOp
    <2>1. UNCHANGED <<main, answer, image_mr, flush_type, got>>
      BY <1>3, ZenonT(40) DEF EventReady, ConnectionEvent, GetOp, clientVars, mainVars, flagVars, replicaVars
    <2>2. op' = op
      BY <1>3 DEF WaitOk, GetNone, GetError, EventReady, ConnectionEvent, GetOp, SetHeap, erase, H0
    <2>3. step \notin Working /\ (step' \in Working => step' = "callback")
      BY <1>3 DEF WaitOk, GetNone, GetError, EventReady, ConnectionEvent, GetOp, remove_self, Working
    <2> QED
      BY <1>1, <2>1, <2>2, <2>3
  <1> QED
    BY <1>1, <1>2, <1>3 DEF ReactorThread

\* The calls that lie behind the main thread.
LEMMA BeforeMoves ==
  ASSUME MainTypes, script' = script, at' \in {at, at + 1}, NEW c
  PROVE  /\ Before(c)' => Before(c) \/ (at' = at + 1 /\ script[at] = c)
         /\ Unclosed' => Unclosed
  <1>1. at \in Nat \ {0}
    BY ScriptsAssumption DEF MainTypes
  <1>2. \A i \in 1..at' - 1 : i \in 1..at - 1 \/ (at' = at + 1 /\ i = at)
    <2>1. CASE at' = at
      BY <2>1
    <2>2. CASE at' = at + 1
      <3>1. \A i \in 1..(at + 1) - 1 : i \in 1..at - 1 \/ i = at
        BY <1>1, SMTT(30)
      <3> QED
        BY <2>2, <3>1
    <2> QED
      BY <2>1, <2>2
  <1>3. \A i \in 1..at : i \in 1..at'
    BY <1>1
  <1> QED
    BY <1>2, <1>3 DEF Before, Unclosed

-----------------------------------------------------------------------------
(* The callback of init_replica.                                           *)

\* The message r describes the memory the server has registered.
Describes(r) == r.type = "INIT_SUCCESSED" =>
                  /\ region # Nil /\ region = [key |-> r.key, size |-> r.size]
                  /\ r.pmem = held.pmem

\* The descriptor it takes is what the reply says.
LEMMA DescriptorTaken ==
  ASSUME ~CallsFail, Messages, NEW g \in get_remote_descriptor(recv_bl), ~g.threw,
         recv_bl.type # "INIT_FAILED"
  PROVE  /\ recv_bl.type = "INIT_SUCCESSED"
         /\ g.mr = [key |-> recv_bl.key, size |-> recv_bl.size]
         /\ recv_bl.size = ImageSize =>
              g.ft = IF recv_bl.pmem THEN "PERSISTENT" ELSE "VISIBILITY"
  <1> DEFINE known == [mr |-> image_mr, ft |-> flush_type, threw |-> FALSE]
             type(pmem) == IF pmem THEN "PERSISTENT" ELSE "VISIBILITY"
             mr == [key |-> recv_bl.key, size |-> recv_bl.size]
             ft == IF recv_bl.size < ImageSize THEN flush_type ELSE type(recv_bl.pmem /\ TRUE)
  <1>1. recv_bl.type = "INIT_SUCCESSED"
    <2>1. SUFFICES ASSUME recv_bl.type # "INIT_SUCCESSED" PROVE FALSE
      OBVIOUS
    <2>2. g = [known EXCEPT !.threw = TRUE]
      BY <2>1, Zenon DEF get_remote_descriptor
    <2> QED
      BY <2>2
  <1>2. g = [known EXCEPT !.mr = mr, !.ft = ft]
    BY <1>1, Zenon DEF get_remote_descriptor, Ok
  <1>3. g.mr = mr /\ g.ft = ft
    BY <1>2
  <1>4. recv_bl.size = ImageSize => ft = type(recv_bl.pmem)
    BY ClientAssumption
  <1> QED
    BY <1>1, <1>3, <1>4

\* What it takes is memory, and if the reply describes the region there is, that one.
LEMMA DescribeTakes ==
  ASSUME ~CallsFail, SystemTypes, Describe, step = "callback", main' \notin Dead
  PROVE  /\ recv_bl.type = "INIT_SUCCESSED" /\ image_mr' # Nil
         /\ image_mr' = [key |-> recv_bl.key, size |-> recv_bl.size]
         /\ recv_bl.size = ImageSize => got' = IF recv_bl.pmem THEN "PERSISTENT" ELSE "VISIBILITY"
  <1>1. PICK g \in get_remote_descriptor(recv_bl) : ~g.threw /\ image_mr' = g.mr /\ got' = g.ft
    BY ZenonT(40) DEF Describe, Dead
  <1>2. /\ recv_bl.type = "INIT_SUCCESSED"
        /\ image_mr' = [key |-> recv_bl.key, size |-> recv_bl.size]
        /\ recv_bl.size = ImageSize => got' = IF recv_bl.pmem THEN "PERSISTENT" ELSE "VISIBILITY"
    <2>1. Messages /\ recv_bl.type # "INIT_FAILED"
      BY DEF SystemTypes
    <2> QED
      BY <1>1, <2>1, DescriptorTaken
  <1>3. [key |-> recv_bl.key, size |-> recv_bl.size] \in Region
    BY <1>2, Zenon DEF SystemTypes, Messages, Reply, Region
  <1> QED
    BY <1>2, <1>3, ReplicaAssumption

LEMMA RegionTaken ==
  ASSUME ~CallsFail, ServerInv, SystemTypes, Describe, step = "callback", main' \notin Dead,
         Describes(recv_bl)
  PROVE  image_mr' = region /\ (got' = "PERSISTENT") = held.pmem
  <1>1. /\ recv_bl.type = "INIT_SUCCESSED"
        /\ image_mr' = [key |-> recv_bl.key, size |-> recv_bl.size]
        /\ recv_bl.size = ImageSize => got' = IF recv_bl.pmem THEN "PERSISTENT" ELSE "VISIBILITY"
    BY DescribeTakes
  <1>2. /\ region # Nil /\ region = [key |-> recv_bl.key, size |-> recv_bl.size]
        /\ recv_bl.pmem = held.pmem
    BY <1>1, ZenonT(40) DEF Describes
  <1>3. region.size = held.size /\ held # Nil
    BY <1>2, ZenonT(40) DEF ServerInv, S!RegionIsHeld
  <1>4. recv_bl.size = ImageSize /\ held.pmem \in BOOLEAN
    BY <1>2, <1>3 DEF SystemTypes, SizeAsked
  <1> QED
    BY <1>1, <1>2, <1>4, ZenonT(40)

\* th1 is between the assignment of _image_mr and that of the flag: what it has
\* taken is the region there is, with the flush_type it has set or will set.
Between == {"described", "typed"}

TakenType == IF step = "described" THEN got ELSE flush_type

Taken ==
  /\ op[cur] \in {"init", "stale_init"} /\ image_mr # Nil
  /\ Unclosed /\ open => image_mr = region /\ (TakenType = "PERSISTENT") = held.pmem

TakenInv == main \notin Dead /\ step \in Between => Taken

\* A step that leaves th1 where it is.
LEMMA TakenStays ==
  ASSUME TakenInv, ClientInv, SystemTypes, [SystemNext]_allVars, MainThread \/ Outside,
         ServerServes /\ Unclosed => step \notin Between,
         main' \notin Dead, step' \in Between
  PROVE  Taken'
  <1>1. /\ main \notin Dead /\ script' = script /\ at' \in {at, at + 1}
        /\ cur' = cur /\ step' = step /\ UNCHANGED <<image_mr, flush_type, got>>
    BY MainMoves, ZenonT(40) DEF Outside, Between
  <1>2. Taken /\ cur \in Ops
    BY <1>1 DEF TakenInv, SystemTypes, Between, Working
  <1>3. op'[cur] \in {"init", "stale_init"}
    <2>1. CASE Outside
      BY <1>2, <2>1 DEF Outside, Taken
    <2>2. CASE MainThread
      <3>1. op[cur] \in {"init", "stale_init"} /\ op[cur] # Free
        BY <1>2, OpsAssumption DEF Taken, Callback
      <3> QED
        BY <1>2, <2>2, <3>1, OpsOfMain, ZenonT(40)
    <2> QED
      BY <2>1, <2>2
  <1>4. Unclosed' => Unclosed
    BY <1>1, BeforeMoves DEF SystemTypes
  <1>5. ASSUME Unclosed', open' PROVE UNCHANGED <<held, region, open>> /\ Unclosed
    BY <1>1, <1>4, <1>5, MemoryMoves
  <1>6. TakenType' = TakenType /\ op'[cur'] \in {"init", "stale_init"}
    BY <1>1, <1>3 DEF TakenType
  <1> QED
    BY <1>1, <1>2, <1>5, <1>6 DEF Taken

\* It stays so while no request is served in between, if the reply it takes
\* describes the region.
LEMMA TakenKept ==
  ASSUME ~CallsFail, TakenInv, ClientInv, ServerInv, SystemTypes, [SystemNext]_allVars,
         ServerServes /\ Unclosed /\ main \notin Dead => step \notin Between,
         Describe /\ main \notin Dead /\ Unclosed /\ open => Describes(recv_bl)
  PROVE  TakenInv'
  <1> SUFFICES ASSUME main' \notin Dead, step' \in Between PROVE Taken'
    BY DEF TakenInv
  <1>1. CASE MainThread \/ Outside
    <2>1. main \notin Dead
      BY <1>1, MainMoves DEF Outside
    <2> QED
      BY <1>1, <2>1, TakenStays
  <1>2. CASE ReactorThread /\ UNCHANGED serverVars
    <2>1. main \notin Dead /\ UNCHANGED <<script, at, held, region, open>> /\ (Unclosed' => Unclosed)
      BY <1>2 DEF ReactorThread, EventReady, ConnectionEvent, GetOp, Describe, RunCallback, Delete, clientVars,
                  mainVars, serverVars, Unclosed
    <2>2. Describe
      <3>1. ~RunCallback /\ ~Delete
        BY DEF RunCallback, Delete, Between
      <3>2. Describe \/ (step' \in Working => step' = "callback")
        BY <1>2, <3>1, ReactorMoves
      <3> QED
        BY <3>2 DEF Between, Working
    <2>3. op[cur] \in {"init", "stale_init"} /\ UNCHANGED <<op, cur>>
      BY <2>2 DEF Describe
    <2>4. CASE step = "callback"
      <3>1. image_mr' # Nil /\ step' = "described"
        BY <2>2, <2>4, DescribeTakes DEF Describe
      <3>2. Unclosed' /\ open' => image_mr' = region /\ (got' = "PERSISTENT") = held.pmem
        BY <2>1, <2>2, <2>4, RegionTaken
      <3> QED
        BY <2>1, <2>3, <3>1, <3>2, ZenonT(40) DEF Taken, TakenType
    <2>5. CASE step = "described"
      <3>1. step' = "typed" /\ flush_type' = got /\ image_mr' = image_mr
        BY <2>2, <2>5 DEF Describe
      <3>2. Taken
        BY <2>1, <2>5 DEF TakenInv, Between
      <3> QED
        BY <2>1, <2>3, <2>5, <3>1, <3>2, ZenonT(40) DEF Taken, TakenType
    <2> QED
      BY <2>2, <2>4, <2>5 DEF Describe
  <1> QED
    BY <1>1, <1>2, WhoMoves

-----------------------------------------------------------------------------
(* The descriptor, when the replica is opened once.                        *)

\* As in main of client.cc: no script calls init_replica twice.
OpensOnce ==
  \A s \in Scripts : \A i, j \in DOMAIN s :
    s[i] = "init_replica" /\ s[j] = "init_replica" => i = j

Early    == {"call", "recv", "insert_recv", "send"}
InCall   == {"recv", "insert_recv", "send", "insert_send", "wait"}

\* The main thread has not posted a request.
Unasked == \A i \in 1..at : script[i] = "init_replica" => i = at /\ main \in Early

\* Positions of the requests that have been posted and have not left.
Posted == {i \in DOMAIN sq : op[sq[i]] = "none"}

\* No request was served, so nobody knows of a region.
Unserved == /\ region = Nil /\ image_mr = Nil
            /\ reply.type = "garbage" /\ recv_bl.type = "garbage"

\* The inductive invariant: there is one request, posted, received or served;
\* before it is served nobody knows of a region, and from then on the region stays
\* what the server's reply, the client's buffer and the client's descriptor say.
OneRequest ==
  /\ \A i, j \in Posted : i = j
  /\ Unasked => Posted = {} /\ request = Nil /\ Unserved
  /\ Posted # {} => request = Nil /\ Unserved
  /\ request # Nil => Unserved /\ request.type # "FINISHED_REQUEST"
  /\ send_bl.type # "FINISHED_REQUEST"

Current ==
  /\ {reply.type, recv_bl.type} \subseteq {"garbage", "INIT_SUCCESSED"}
  /\ open => Describes(reply) /\ Describes(recv_bl)
  /\ open /\ image_mr # Nil => image_mr = region

Opening ==
  /\ main \in InCall => script[at] = "init_replica"
  /\ \A o \in Ops : op[o] \notin {"finish", "stale_finish"}
  /\ answer = "ok" => /\ image_mr # Nil
                      /\ open => (flush_type = "PERSISTENT") = held.pmem

OnceInv == main \notin Dead /\ Unclosed => OneRequest /\ Current /\ Opening

-----------------------------------------------------------------------------
(* Kinds of steps.                                                         *)

\* The main thread goes on in the same call or comes to the next one.
LEMMA MovesOn ==
  ASSUME MainTypes, script' = script, at' \in {at, at + 1},
         at' = at => (main' \in Early => main \in Early)
  PROVE  (Unclosed' => Unclosed) /\ (Unasked' => Unasked)
  <1>1. at \in Nat \ {0}
    BY ScriptsAssumption DEF MainTypes
  <1>2. \A i \in 1..at : i \in 1..at'
    BY <1>1
  <1>3. Unclosed' => Unclosed
    BY BeforeMoves
  <1>4. Unasked' => Unasked
    <2>1. CASE at' = at
      BY <2>1 DEF Unasked
    <2>2. CASE at' = at + 1
      <3>1. \A i \in 1..at : i # at + 1
        BY <1>1
      <3> QED
        BY <1>2, <2>2, <3>1 DEF Unasked
    <2> QED
      BY <2>1, <2>2
  <1> QED
    BY <1>3, <1>4

\* A step that leaves the messages and the descriptor alone, and posts no request.
LEMMA MessagesStay ==
  ASSUME OnceInv, main' \notin Dead => main \notin Dead,
         Unclosed' => Unclosed, Unasked' => Unasked,
         Posted = {} => Posted' = {},
         (\A i, j \in Posted : i = j) => (\A i, j \in Posted' : i = j),
         UNCHANGED <<request, held, region, reply, open>>,
         UNCHANGED <<recv_bl, send_bl, image_mr>>,
         main' \notin Dead /\ Unclosed' => Opening'
  PROVE  OnceInv'
  <1> SUFFICES ASSUME main' \notin Dead, Unclosed' PROVE OneRequest' /\ Current' /\ Opening'
    BY DEF OnceInv
  <1>1. OneRequest /\ Current /\ Opening
    BY DEF OnceInv
  <1>2. Unserved' = Unserved
    BY DEF Unserved
  <1>3. OneRequest'
    BY <1>1, <1>2 DEF OneRequest
  <1>4. Current'
    BY <1>1 DEF Current, Describes
  <1> QED
    BY <1>3, <1>4

\* Ops keep their callbacks while they wait to be sent.
LEMMA PostedStays ==
  ASSUME sq' = sq, \A i \in DOMAIN sq : op'[sq[i]] = op[sq[i]]
  PROVE  Posted' = Posted
  BY DEF Posted

\* A step of the main thread that touches no op.
LEMMA MainAlone ==
  ASSUME OnceInv, MainTypes, main \notin Dead, script' = script, at' \in {at, at + 1},
         at' = at => (main' \in Early => main \in Early),
         main' \in InCall => main \in InCall /\ at' = at,
         UNCHANGED <<op, sq, request, held, region, reply, open>>,
         UNCHANGED <<recv_bl, send_bl, image_mr, flush_type, answer>>
  PROVE  OnceInv'
  <1>1. (Unclosed' => Unclosed) /\ (Unasked' => Unasked)
    BY MovesOn
  <1>2. Posted' = Posted
    BY PostedStays
  <1>3. main' \notin Dead /\ Unclosed' => Opening'
    BY <1>1 DEF OnceInv, Opening
  <1> QED
    BY <1>1, <1>2, <1>3, MessagesStay, ZenonT(40)

\* A step of the main thread into the end of the process.
LEMMA ProcessEnds ==
  ASSUME main' \in Dead
  PROVE  OnceInv'
  BY DEF OnceInv

-----------------------------------------------------------------------------
(* The main thread.                                                        *)

\* An op is posted to the send queue: which positions hold requests.
LEMMA PostedNow ==
  ASSUME ClientInv, main \notin Dead, NEW o \in Ops \ Allocated, NEW c \in Callback,
         op' = [op EXCEPT ![o] = c], sq' = Append(sq, o)
  PROVE  /\ Posted' = Posted \cup {i \in {Len(sq) + 1} : c = "none"}
         /\ \A p \in Ops : op'[p] = IF p = o THEN c ELSE op[p]
  <1>1. /\ sq \in Seq(Ops) /\ op \in [Ops -> Callback \cup {Free}]
        /\ \A i \in DOMAIN sq : sq[i] \in Allocated
    BY DEF ClientInv, Typed, ContextsLive
  <1>2. /\ DOMAIN sq' = DOMAIN sq \cup {Len(sq) + 1} /\ sq'[Len(sq) + 1] = o
        /\ \A i \in DOMAIN sq : sq'[i] = sq[i]
    BY <1>1, AppendFacts
  <1>3. \A p \in Ops : op'[p] = IF p = o THEN c ELSE op[p]
    BY <1>1
  <1>4. \A i \in DOMAIN sq : sq'[i] \in Ops /\ sq'[i] # o
    BY <1>1, <1>2 DEF Allocated
  <1>5. ASSUME NEW i
        PROVE  i \in Posted' <=> i \in Posted \cup {j \in {Len(sq) + 1} : c = "none"}
    <2>1. CASE i \in DOMAIN sq
      <3>1. i \in Posted' <=> op'[sq'[i]] = "none"
        BY <1>2, <2>1, Zenon DEF Posted
      <3>2. i \in Posted <=> op[sq[i]] = "none"
        BY <2>1, Zenon DEF Posted
      <3>3. op'[sq'[i]] = op[sq[i]]
        BY <1>2, <1>3, <1>4, <2>1
      <3>4. i # Len(sq) + 1
        BY <1>1, <2>1, LenProperties
      <3> QED
        BY <3>1, <3>2, <3>3, <3>4, Zenon
    <2>2. CASE i = Len(sq) + 1
      <3>1. i \in Posted' <=> c = "none"
        BY <1>2, <1>3, <2>2, Zenon DEF Posted
      <3>2. i \notin Posted
        BY <1>1, <2>2, LenProperties DEF Posted
      <3> QED
        BY <2>2, <3>1, <3>2, Zenon
    <2>3. CASE i \notin DOMAIN sq /\ i # Len(sq) + 1
      BY <1>2, <2>3, Zenon DEF Posted
    <2> QED
      BY <2>1, <2>2, <2>3
  <1> QED
    BY <1>3, <1>5

\* A write or a flush is posted.
LEMMA WritePosted ==
  ASSUME OnceInv, ClientInv, MainTypes, main = "call", NEW c \in {"write", "flush"},
         NEW o \in Ops \ Allocated, op' = [op EXCEPT ![o] = c], sq' = Append(sq, o),
         main' = "insert", UNCHANGED <<script, at>>,
         UNCHANGED <<request, held, region, reply, open>>,
         UNCHANGED <<recv_bl, send_bl, image_mr, flush_type, answer>>
  PROVE  OnceInv'
  <1>1. (Unclosed' => Unclosed) /\ (Unasked' => Unasked)
    BY MovesOn DEF Early
  <1>2. Posted' = Posted /\ \A p \in Ops : op'[p] = IF p = o THEN c ELSE op[p]
    <2>1. main \notin Dead /\ c \in Callback /\ c # "none"
      BY DEF Dead, Callback
    <2> QED
      BY <2>1, PostedNow, Zenon
  <1>3. main' \notin Dead /\ Unclosed' => Opening'
    BY <1>1, <1>2 DEF OnceInv, Opening, InCall, Dead
  <1> QED
    BY <1>1, <1>2, <1>3, MessagesStay, ZenonT(40) DEF Dead

\* init_replica posts its request: it is the first one.
LEMMA RequestPosted ==
  ASSUME OpensOnce, OnceInv, ClientInv, MainTypes, main = "send",
         NEW o \in Ops \ Allocated, op' = [op EXCEPT ![o] = "none"], sq' = Append(sq, o),
         main' = "insert_send", UNCHANGED <<script, at>>,
         UNCHANGED <<request, held, region, reply, open>>,
         UNCHANGED <<recv_bl, send_bl, image_mr, flush_type, answer>>
  PROVE  OnceInv'
  <1> SUFFICES ASSUME Unclosed' PROVE OneRequest' /\ Current' /\ Opening'
    BY DEF OnceInv
  <1>1. OneRequest /\ Current /\ Opening
    BY DEF OnceInv, Unclosed, Dead
  <1>2. script[at] = "init_replica"
    BY <1>1 DEF Opening, InCall
  <1>3. script \in Scripts /\ at \in 1..Len(script) /\ DOMAIN script = 1..Len(script) /\ at \in Nat
    BY ScriptsAssumption DEF MainTypes
  <1>4. Unasked /\ ~Unasked'
    <2>1. \A i \in 1..at : i \in DOMAIN script /\ at \in DOMAIN script /\ at \in 1..at
      BY <1>3
    <2>2. \A i \in 1..at : script[i] = "init_replica" => i = at
      BY <1>2, <1>3, <2>1, Zenon DEF OpensOnce
    <2> QED
      BY <1>2, <1>3, <2>2 DEF Unasked, Early
  <1>5. Posted = {} /\ request = Nil /\ Unserved
    BY <1>1, <1>4 DEF OneRequest
  <1>6. Posted' = {Len(sq) + 1} /\ \A p \in Ops : op'[p] = IF p = o THEN "none" ELSE op[p]
    <2>1. main \notin Dead /\ "none" \in Callback
      BY DEF Dead, Callback
    <2>2. /\ Posted' = Posted \cup {i \in {Len(sq) + 1} : "none" = "none"}
          /\ \A p \in Ops : op'[p] = IF p = o THEN "none" ELSE op[p]
      BY <2>1, PostedNow, Zenon
    <2> QED
      BY <1>5, <2>2
  <1>7. OneRequest'
    BY <1>1, <1>4, <1>5, <1>6, ZenonT(40) DEF OneRequest, Unserved
  <1>8. Current'
    BY <1>1 DEF Current, Describes
  <1>9. Opening'
    BY <1>1, <1>2, <1>6 DEF Opening
  <1> QED
    BY <1>7, <1>8, <1>9

LEMMA MainOnce ==
  ASSUME ~CallsFail, OpensOnce, OnceInv, ClientInv, MainTypes, MainThread, UNCHANGED serverVars
  PROVE  OnceInv'
  <1>0. UNCHANGED <<request, held, region, reply, open>>
    BY DEF serverVars
  <1>1. CASE Construct \/ WaitEstablished \/ Prepare \/ SetHead \/ Spin
    <2>1. /\ main = "call" /\ main' \in {"call", "exited", "crashed"} /\ script' = script
          /\ at' \in {at, at + 1}
      BY <1>1, ZenonT(40) DEF Construct, Started, RegisterFails, ConstructorThrows, WaitEstablished, Prepare,
                  SetHead, Spin, Call, Return, Go
    <2>2. UNCHANGED <<op, sq>> /\ UNCHANGED <<recv_bl, send_bl, image_mr, flush_type, answer>>
      BY <1>1 DEF Construct, WaitEstablished, Prepare, SetHead, Spin, chVars, flagVars, replicaVars
    <2> QED
      BY <1>0, <2>1, <2>2, MainAlone, ZenonT(40) DEF Early, InCall, Dead
  <1>2. CASE InitReplica
    <2>1. /\ Call("init_replica") /\ main' = "recv" /\ UNCHANGED <<script, at>> /\ answer' = "none"
          /\ send_bl' = [type |-> "INIT_REQUEST"]
          /\ UNCHANGED <<op, sq>> /\ UNCHANGED <<recv_bl, image_mr, flush_type>>
      BY <1>2 DEF InitReplica, Ask, Go, chVars, replicaVars
    <2>2. (Unclosed' => Unclosed) /\ (Unasked' => Unasked) /\ main \notin Dead
      BY <2>1, MovesOn DEF Early, Call, Dead
    <2>3. Posted' = Posted /\ Unserved' = Unserved
      BY <1>0, <2>1, PostedStays DEF Unserved
    <2>4. ASSUME Unclosed' PROVE OneRequest' /\ Current' /\ Opening'
      <3>1. OneRequest /\ Current /\ Opening
        BY <2>2, <2>4 DEF OnceInv
      <3>2. OneRequest'
        BY <1>0, <2>1, <2>2, <2>3, <3>1, ZenonT(40) DEF OneRequest
      <3>3. Current'
        BY <1>0, <2>1, <3>1 DEF Current, Describes
      <3>4. Opening'
        BY <2>1, <3>1 DEF Opening, Call
      <3> QED
        BY <3>2, <3>3, <3>4
    <2> QED
      BY <2>4 DEF OnceInv
  <1>3. CASE CloseReplica
    <2>1. script[at] = "close_replica" /\ UNCHANGED <<script, at>>
      BY <1>3 DEF CloseReplica, Ask, Call, Go
    <2>2. at \in 1..at
      BY ScriptsAssumption DEF MainTypes
    <2> QED
      BY <2>1, <2>2 DEF OnceInv, Unclosed
  <1>4. CASE PostRecv
    <2>1. PICK o \in Ops \ Allocated : /\ op' = [op EXCEPT ![o] = Frame]
                                       /\ main' = "insert_recv" /\ UNCHANGED <<script, at>>
      BY <1>4 DEF PostRecv, Go
    <2>2. /\ main = "recv" /\ UNCHANGED sq
          /\ UNCHANGED <<recv_bl, send_bl, image_mr, flush_type, answer>>
      BY <1>4 DEF PostRecv, flagVars, replicaVars
    <2>3. (Unclosed' => Unclosed) /\ (Unasked' => Unasked) /\ main \notin Dead
      BY <2>1, <2>2, MovesOn DEF Early, Dead
    <2>4. op \in [Ops -> Callback \cup {Free}] /\ \A i \in DOMAIN sq : sq[i] \in Allocated
      BY <2>3 DEF ClientInv, Typed, ContextsLive
    <2>5. \A p \in Ops : op'[p] = IF p = o THEN Frame ELSE op[p]
      BY <2>1, <2>4
    <2>6. Posted' = Posted
      BY <2>2, <2>4, <2>5, PostedStays DEF Allocated
    <2>7. Unclosed' => Opening'
      <3>1. Unclosed' => Opening
        BY <2>3 DEF OnceInv
      <3>2. Unclosed' => Frame = "init"
        BY <2>2, <3>1 DEF Opening, InCall, Frame
      <3> QED
        BY <1>0, <2>1, <2>2, <2>5, <3>1, <3>2 DEF Opening, InCall
    <2> QED
      BY <1>0, <2>2, <2>3, <2>6, <2>7, MessagesStay, ZenonT(40)
  <1>5. CASE PostSend
    <2>1. /\ main = "send" /\ UNCHANGED <<script, at>>
          /\ UNCHANGED <<recv_bl, send_bl, image_mr, flush_type, answer>>
      BY <1>5 DEF PostSend, flagVars, replicaVars
    <2>2. CASE main' = "wait" /\ UNCHANGED <<op, sq>>
      BY <1>0, <2>1, <2>2, MainAlone DEF Early, InCall, Dead
    <2>3. CASE /\ \E o \in Ops \ Allocated : op' = [op EXCEPT ![o] = "none"] /\ sq' = Append(sq, o)
               /\ main' = "insert_send"
      <3>1. PICK o \in Ops \ Allocated : op' = [op EXCEPT ![o] = "none"] /\ sq' = Append(sq, o)
        BY <2>3, Zenon
      <3> QED
        BY <1>0, <2>1, <2>3, <3>1, RequestPosted, Zenon
    <2> QED
      BY <1>5, <2>2, <2>3 DEF PostSend, StartWait
  <1>6. CASE Inserted
    <2>1. /\ \/ main = "insert_recv" /\ main' = "send" /\ at' = at
             \/ main = "insert_send" /\ main' = "wait" /\ at' = at
             \/ main = "insert" /\ main' = "call" /\ at' = at + 1
          /\ script' = script
      BY <1>6 DEF Inserted, Go, Return, StartWait
    <2>2. UNCHANGED <<op, sq>> /\ UNCHANGED <<recv_bl, send_bl, image_mr, flush_type, answer>>
      BY <1>6 DEF Inserted, flagVars, replicaVars
    <2>3. main \notin Dead /\ at' \in {at, at + 1} /\ (main' \in InCall => main \in InCall /\ at' = at)
      BY <2>1 DEF InCall, Dead
    <2>4. at' = at => (main' \in Early => main \in Early)
      <3>1. at # at + 1
        BY ScriptsAssumption DEF MainTypes
      <3> QED
        BY <2>1, <3>1 DEF Early
    <2> QED
      BY <1>0, <2>1, <2>2, <2>3, <2>4, MainAlone, ZenonT(40)
  <1>7. CASE Wait \/ Disconnect
    <2>1. /\ \/ main = "wait" /\ main' = "wait" /\ at' = at
             \/ main = "call" /\ main' = "disconnecting" /\ at' = at
             \/ main = "disconnecting" /\ main' = "call" /\ at' = at + 1
          /\ script' = script
      BY <1>7 DEF Wait, Disconnect, Call, Go, Return
    <2>2. UNCHANGED <<op, sq>> /\ UNCHANGED <<recv_bl, send_bl, image_mr, flush_type, answer>>
      BY <1>7 DEF Wait, Disconnect, chVars, queueVars, flagVars, replicaVars
    <2>3. main \notin Dead /\ at' \in {at, at + 1} /\ (main' \in InCall => main \in InCall /\ at' = at)
      BY <2>1 DEF InCall, Dead
    <2>4. at' = at => (main' \in Early => main \in Early)
      <3>1. at # at + 1
        BY ScriptsAssumption DEF MainTypes
      <3> QED
        BY <2>1, <3>1 DEF Early
    <2> QED
      BY <1>0, <2>1, <2>2, <2>3, <2>4, MainAlone, ZenonT(40)
  <1>8. CASE Answered
    <2>1. /\ main = "wait" /\ main' = "call" /\ at' = at + 1 /\ script' = script
          /\ op' = [o \in Ops |-> IF ~Outlives(o) THEN op[o]
                                  ELSE IF op[o] = "init" THEN "stale_init" ELSE "stale_finish"]
          /\ UNCHANGED sq /\ UNCHANGED <<recv_bl, send_bl, image_mr, flush_type, answer>>
      BY <1>8 DEF Answered, WaitEnds, Return, queueVars, flagVars, replicaVars
    <2>2. (Unclosed' => Unclosed) /\ (Unasked' => Unasked) /\ main \notin Dead
      <3>1. at # at + 1
        BY ScriptsAssumption DEF MainTypes
      <3> QED
        BY <2>1, <3>1, MovesOn, ZenonT(40) DEF Dead
    <2>3. \A o \in Ops : \/ op'[o] = op[o]
                         \/ op[o] = "init" /\ op'[o] = "stale_init"
                         \/ op[o] = "finish" /\ op'[o] = "stale_finish"
      BY <2>1 DEF Outlives
    <2>4. Posted' = Posted
      <3>1. \A i \in DOMAIN sq : sq[i] \in Ops
        BY DEF ClientInv, Typed
      <3>2. \A i \in DOMAIN sq : op'[sq[i]] = "none" <=> op[sq[i]] = "none"
        BY <2>3, <3>1, Zenon
      <3> QED
        BY <2>1, <3>2 DEF Posted
    <2>5. Unclosed' => Opening'
      BY <1>0, <2>1, <2>2, <2>3 DEF OnceInv, Opening, InCall
    <2> QED
      BY <1>0, <2>1, <2>2, <2>4, <2>5, MessagesStay, ZenonT(40)
  <1>9. ASSUME NEW c \in {"write", "flush"}, Post(c)
        PROVE  OnceInv'
    <2>1. main = "call" /\ UNCHANGED <<recv_bl, send_bl, image_mr, flush_type, answer>>
      BY <1>9 DEF Post, Call, replicaVars
    <2>2. CASE main' = "crashed"
      BY <2>2, ProcessEnds DEF Dead
    <2>3. CASE Return /\ UNCHANGED <<op, sq>>
      BY <1>0, <2>1, <2>3, MainAlone DEF Return, Early, InCall, Dead
    <2>4. CASE /\ \E o \in Ops \ Allocated : op' = [op EXCEPT ![o] = c] /\ sq' = Append(sq, o)
               /\ Go("insert")
      <3>1. PICK o \in Ops \ Allocated : op' = [op EXCEPT ![o] = c] /\ sq' = Append(sq, o)
        BY <2>4, Zenon
      <3>2. main' = "insert" /\ UNCHANGED <<script, at>>
        BY <2>4 DEF Go
      <3> QED
        BY <1>0, <1>9, <2>1, <3>1, <3>2, WritePosted, Zenon
    <2> QED
      BY <1>9, <2>2, <2>3, <2>4, ZenonT(40) DEF Post, Go
  <1>10. CASE Join
    BY <1>10, ProcessEnds DEF Join, Go, Dead
  <1> QED
    BY <1>1, <1>2, <1>3, <1>4, <1>5, <1>6, <1>7, <1>8, <1>9, <1>10, ZenonT(40) DEF MainThread, Write, Flush

-----------------------------------------------------------------------------
(* th1, the card and the server.                                           *)

\* A step that leaves all of them alone.
LEMMA OthersOnce ==
  ASSUME OnceInv, UNCHANGED <<script, at, main, op, sq, answer>>,
         UNCHANGED <<request, held, region, reply, open>>,
         UNCHANGED <<recv_bl, send_bl, image_mr, flush_type>>
  PROVE  OnceInv'
  <1>1. Posted' = Posted /\ (Unclosed' => Unclosed) /\ (Unasked' => Unasked)
    BY PostedStays DEF Unclosed, Unasked
  <1>2. main' \notin Dead /\ Unclosed' => Opening'
    BY <1>1 DEF OnceInv, Opening
  <1> QED
    BY <1>1, <1>2, MessagesStay, ZenonT(40)

\* get_remote_descriptor takes what the reply says: _image_mr, and then _flush_type.
LEMMA DescribeOnce ==
  ASSUME ~CallsFail, OnceInv, TakenInv, ServerInv, SystemTypes, main \notin Dead, Describe,
         UNCHANGED serverVars
  PROVE  OnceInv'
  <1>0. /\ UNCHANGED <<request, held, region, reply, open>>
        /\ UNCHANGED <<op, sq, script, at, answer, recv_bl, send_bl>>
    BY DEF Describe, serverVars, queueVars, flagVars
  <1>1. CASE main' \in Dead
    BY <1>1, ProcessEnds
  <1>2. CASE main' \notin Dead /\ step = "callback"
    <2> SUFFICES ASSUME Unclosed' PROVE OneRequest' /\ Current' /\ Opening'
      BY DEF OnceInv
    <2>1. OneRequest /\ Current /\ Opening
      BY <1>0 DEF OnceInv, Unclosed
    <2>2. recv_bl.type = "INIT_SUCCESSED" /\ image_mr' # Nil /\ main' = main /\ flush_type' = flush_type
      BY <1>2, DescribeTakes DEF Describe, Dead
    <2>3. ~Unserved /\ ~Unasked /\ Posted = {} /\ request = Nil
      BY <2>1, <2>2 DEF OneRequest, Unserved
    <2>4. OneRequest'
      <3>1. Posted' = {} /\ ~Unasked' /\ request' = Nil
        BY <1>0, <2>2, <2>3, PostedStays, ZenonT(40) DEF Unasked
      <3> QED
        BY <1>0, <2>1, <3>1, ZenonT(40) DEF OneRequest
    <2>5. Current'
      <3>1. open => image_mr' = region
        BY <1>2, <2>1, RegionTaken DEF Current
      <3> QED
        BY <1>0, <2>1, <3>1 DEF Current, Describes
    <2>6. Opening'
      BY <1>0, <2>1, <2>2 DEF Opening
    <2> QED
      BY <2>4, <2>5, <2>6
  <1>3. CASE step = "described"
    <2>1. flush_type' = got /\ UNCHANGED <<main, image_mr>>
      BY <1>3 DEF Describe
    <2>2. Posted' = Posted /\ (Unclosed' => Unclosed) /\ (Unasked' => Unasked)
      BY <1>0, <2>1, PostedStays DEF Unclosed, Unasked
    <2>3. Taken /\ TakenType = got
      BY <1>3 DEF TakenInv, Between, TakenType
    <2>4. Unclosed' => Opening'
      BY <1>0, <2>1, <2>2, <2>3 DEF OnceInv, Opening, Taken
    <2> QED
      BY <1>0, <2>1, <2>2, <2>4, MessagesStay, ZenonT(40)
  <1> QED
    BY <1>1, <1>2, <1>3 DEF Describe

\* The rest of the callback: the flag is set once the descriptor is.
LEMMA CallbackOnce ==
  ASSUME OnceInv, TakenInv, main \notin Dead, cur \in Ops, RunCallback, UNCHANGED serverVars
  PROVE  OnceInv'
  <1>0. /\ UNCHANGED <<request, held, region, reply, open>>
        /\ UNCHANGED <<op, sq, script, at, recv_bl, send_bl, image_mr, flush_type>>
    <2>1. UNCHANGED <<image_mr, flush_type>>
      BY ZenonT(40) DEF RunCallback, InitReplied, FinishReplied, NoCallback, replicaVars
    <2> QED
      BY <2>1 DEF RunCallback, serverVars, queueVars
  <1>1. CASE main' \in Dead
    BY <1>1, ProcessEnds
  <1>2. CASE UNCHANGED <<main, answer>>
    BY <1>0, <1>2, OthersOnce
  <1>3. CASE main' = main /\ answer' = "ok" /\ step = "typed"
    <2>1. Taken /\ TakenType = flush_type
      BY <1>3 DEF TakenInv, Between, TakenType
    <2>2. Posted' = Posted /\ (Unclosed' => Unclosed) /\ (Unasked' => Unasked)
      BY <1>0, <1>3, PostedStays DEF Unclosed, Unasked
    <2>3. Unclosed' => Opening'
      BY <1>0, <1>3, <2>1, <2>2 DEF OnceInv, Opening, Taken
    <2> QED
      BY <1>0, <1>3, <2>2, <2>3, MessagesStay, ZenonT(40)
  <1>4. CASE op[cur] \in {"finish", "stale_finish"}
    <2>1. ~Unclosed
      BY <1>4 DEF OnceInv, Opening
    <2> QED
      BY <1>0, <2>1 DEF OnceInv, Unclosed
  <1>5. CASE op[cur] \in {"init", "stale_init"}
    <2>1. step = "typed" /\ InitReplied
      BY <1>5 DEF RunCallback
    <2> QED
      BY <1>1, <1>2, <1>3, <2>1, Zenon DEF InitReplied, DeadFrame, Dead
  <1>6. CASE op[cur] \in {"none", "write", "flush"}
    <2>1. UNCHANGED <<main, answer>>
      BY <1>6 DEF RunCallback, NoCallback, flagVars
    <2> QED
      BY <1>2, <2>1
  <1> QED
    BY <1>4, <1>5, <1>6 DEF RunCallback

LEMMA ReactorOnce ==
  ASSUME ~CallsFail, OnceInv, TakenInv, ServerInv, SystemTypes, ClientInv, ReactorThread,
         UNCHANGED serverVars
  PROVE  OnceInv'
  <1>0. /\ main \notin Dead /\ UNCHANGED <<request, held, region, reply, open>>
        /\ step \in Working => cur \in Ops
    BY DEF ReactorThread, serverVars, SystemTypes
  <1>1. CASE \/ (WaitOk \/ GetNone \/ GetError) /\ UNCHANGED clientVars
             \/ EventReady \/ ConnectionEvent \/ GetOp
    <2>1. UNCHANGED <<op, sq>>
      BY <1>1 DEF WaitOk, GetNone, GetError, EventReady, ConnectionEvent, GetOp, queueVars,
                  SetHeap, erase, H0
    <2>2. /\ UNCHANGED <<script, at, main, answer>>
          /\ UNCHANGED <<recv_bl, send_bl, image_mr, flush_type>>
      BY <1>1, Zenon DEF EventReady, ConnectionEvent, GetOp, clientVars, mainVars, flagVars, replicaVars
    <2> QED
      BY <1>0, <2>1, <2>2, OthersOnce
  <1>2. CASE Describe \/ RunCallback
    BY <1>0, <1>2, DescribeOnce, CallbackOnce, Zenon DEF RunCallback, Working
  <1>3. CASE Delete
    <2>1. /\ op' = [op EXCEPT ![cur] = Free] /\ sq' = sq
          /\ UNCHANGED <<script, at, main, answer>>
          /\ UNCHANGED <<recv_bl, send_bl, image_mr, flush_type>>
      BY <1>3, ZenonT(40) DEF Delete, SetHeap, delete, H0, mainVars, flagVars, replicaVars
    <2>2. /\ op \in [Ops -> Callback \cup {Free}]
          /\ \A i \in DOMAIN sq : sq[i] \in Ops /\ sq[i] # cur
      BY <1>0 DEF ClientInv, Typed, ContextsLive
    <2>3. \A o \in Ops : op'[o] = IF o = cur THEN Free ELSE op[o]
      BY <2>1, <2>2, ZenonT(40)
    <2>4. Posted' = Posted /\ (Unclosed' => Unclosed) /\ (Unasked' => Unasked)
      BY <2>1, <2>2, <2>3, PostedStays, ZenonT(40) DEF Unclosed, Unasked
    <2>5. Unclosed' => Opening'
      BY <1>0, <2>1, <2>3, <2>4, OpsAssumption, ZenonT(40) DEF OnceInv, Opening, Callback
    <2> QED
      BY <1>0, <2>1, <2>4, <2>5, MessagesStay
  <1> QED
    BY <1>1, <1>2, <1>3 DEF ReactorThread

\* The card takes the first op from the send queue.
LEMMA PostedLess ==
  ASSUME ClientInv, sq # << >>, sq' = Tail(sq), op' = op
  PROVE  /\ \A i \in Posted' : i + 1 \in Posted /\ i + 1 # 1 /\ i \in Nat
         /\ 1 \in DOMAIN sq /\ Head(sq) = sq[1]
         /\ Posted = {} => Posted' = {}
         /\ (\A i, j \in Posted : i = j) => (\A i, j \in Posted' : i = j)
  <1>1. /\ sq \in Seq(Ops) /\ Tail(sq) \in Seq(Ops) /\ 1 \in DOMAIN sq /\ Head(sq) = sq[1]
        /\ \A i \in DOMAIN Tail(sq) : i + 1 \in DOMAIN sq /\ i + 1 # 1 /\ Tail(sq)[i] = sq[i + 1]
    BY TailFacts DEF ClientInv, Typed
  <1>2. \A i \in DOMAIN Tail(sq) : i \in Nat
    BY <1>1, LenProperties
  <1>3. \A i \in Posted' : i + 1 \in Posted /\ i + 1 # 1 /\ i \in Nat
    BY <1>1, <1>2 DEF Posted
  <1>4. \A i, j \in Nat : i + 1 = j + 1 => i = j
    OBVIOUS
  <1>5. (\A i, j \in Posted : i = j) => (\A i, j \in Posted' : i = j)
    BY <1>3, <1>4, Zenon
  <1> QED
    BY <1>1, <1>3, <1>5

LEMMA SendOnce ==
  ASSUME OnceInv, ClientInv, sq # << >>, sq' = Tail(sq), op' = op,
         UNCHANGED <<script, at, main, answer>>,
         UNCHANGED <<request, held, region, reply, open>>,
         UNCHANGED <<recv_bl, send_bl, image_mr, flush_type>>
  PROVE  OnceInv'
  <1>1. (Unclosed' => Unclosed) /\ (Unasked' => Unasked)
    BY DEF Unclosed, Unasked
  <1>2. main' \notin Dead /\ Unclosed' => Opening'
    BY <1>1 DEF OnceInv, Opening
  <1>3. /\ Posted = {} => Posted' = {}
        /\ (\A i, j \in Posted : i = j) => (\A i, j \in Posted' : i = j)
    BY PostedLess
  <1> QED
    BY <1>1, <1>2, <1>3, MessagesStay

\* The request leaves: it was the only one.
LEMMA RequestOnce ==
  ASSUME OnceInv, ClientInv, RequestDelivered
  PROVE  OnceInv'
  <1>1. /\ sq # << >> /\ op[Head(sq)] = "none" /\ sq' = Tail(sq) /\ op' = op /\ main \notin Dead
        /\ UNCHANGED <<script, at, main, answer>>
        /\ UNCHANGED <<recv_bl, send_bl, image_mr, flush_type>>
    BY DEF RequestDelivered, SqHead, Sent, SendCompletes, clientVars, mainVars, flagVars, replicaVars
  <1>2. /\ request' = IF send_bl.type = "INIT_REQUEST"
                      THEN [type |-> "INIT_REQUEST", size |-> ImageSize] ELSE send_bl
        /\ UNCHANGED <<held, region, reply, open>>
    BY DEF RequestDelivered, S!Receive
  <1> SUFFICES ASSUME Unclosed' PROVE OneRequest' /\ Current' /\ Opening'
    BY DEF OnceInv
  <1>3. OneRequest /\ Current /\ Opening
    BY <1>1 DEF OnceInv, Unclosed
  <1>4. /\ \A i \in Posted' : i + 1 \in Posted /\ i + 1 # 1
        /\ 1 \in DOMAIN sq /\ Head(sq) = sq[1]
    BY <1>1, PostedLess
  <1>5. 1 \in Posted
    BY <1>1, <1>4 DEF Posted
  <1>6. Posted' = {}
    BY <1>3, <1>4, <1>5, Zenon DEF OneRequest
  <1>7. Unserved /\ ~Unasked /\ request = Nil
    BY <1>3, <1>5 DEF OneRequest
  <1>8. Unserved' /\ ~Unasked' /\ request'.type # "FINISHED_REQUEST"
    <2>1. request'.type # "FINISHED_REQUEST"
      BY <1>2, <1>3 DEF OneRequest
    <2> QED
      BY <1>1, <1>2, <1>7, <2>1, ZenonT(40) DEF Unserved, Unasked
  <1>9. OneRequest'
    BY <1>1, <1>3, <1>6, <1>8, ZenonT(40) DEF OneRequest
  <1>10. Current'
    BY <1>1, <1>2, <1>3, ZenonT(40) DEF Current, Describes
  <1>11. Opening'
    BY <1>1, <1>2, <1>3 DEF Opening
  <1> QED
    BY <1>9, <1>10, <1>11, ZenonT(40)

\* The reply is in the client's buffer.
LEMMA ReplyOnce ==
  ASSUME OnceInv, ReplyDelivered
  PROVE  OnceInv'
  <1>1. /\ UNCHANGED <<script, at, main, answer, op, sq>> /\ main \notin Dead
        /\ UNCHANGED <<send_bl, image_mr, flush_type>> /\ recv_bl' = reply
        /\ UNCHANGED <<request, held, region, reply, open>>
    BY DEF ReplyDelivered, ReplyArrives, RecvCompletes, S!ReplyLeaves, mainVars, flagVars, replicaVars
  <1> SUFFICES ASSUME Unclosed' PROVE OneRequest' /\ Current' /\ Opening'
    BY DEF OnceInv
  <1>2. OneRequest /\ Current /\ Opening
    BY <1>1, ZenonT(40) DEF OnceInv, Unclosed
  <1>3. Posted' = Posted /\ (Unasked' => Unasked) /\ (Unserved => Unserved')
    BY <1>1, PostedStays, ZenonT(40) DEF Unasked, Unserved
  <1>4. OneRequest'
    BY <1>1, <1>2, <1>3, ZenonT(40) DEF OneRequest
  <1>5. Current'
    BY <1>1, <1>2, ZenonT(40) DEF Current, Describes
  <1>6. Opening'
    BY <1>1, <1>2 DEF Opening
  <1> QED
    BY <1>4, <1>5, <1>6, ZenonT(40)

\* The request is served: nobody knew of a region before.
LEMMA ServeOnce ==
  ASSUME OnceInv, ServerInv, SizeAsked, S!ServeInit \/ S!ServeFinished, UNCHANGED vars
  PROVE  OnceInv'
  <1>1. /\ UNCHANGED <<script, at, main, answer, op, sq>>
        /\ UNCHANGED <<recv_bl, send_bl, image_mr, flush_type>>
    BY ZenonT(40) DEF vars, chVars, clientVars, mainVars, flagVars, replicaVars
  <1>2. open /\ request # Nil /\ request' = Nil /\ open' = open
    BY DEF S!ServeInit, S!ServeFinished, S!Served
  <1> SUFFICES ASSUME main \notin Dead, Unclosed' PROVE OneRequest' /\ Current' /\ Opening'
    BY <1>1 DEF OnceInv
  <1>3. OneRequest /\ Current /\ Opening
    BY <1>1 DEF OnceInv, Unclosed
  <1>4. Unserved /\ request.type # "FINISHED_REQUEST" /\ Posted = {} /\ ~Unasked
    BY <1>2, <1>3 DEF OneRequest
  <1>5. S!ServeInit
    BY <1>4 DEF S!ServeFinished
  <1>6. OneRequest'
    <2>1. Posted' = {} /\ ~Unasked'
      BY <1>1, <1>4, PostedStays, ZenonT(40) DEF Unasked
    <2> QED
      BY <1>1, <1>2, <1>3, <2>1, ZenonT(40) DEF OneRequest
  <1>7. Current'
    <2>1. image_mr' = Nil /\ recv_bl'.type = "garbage" /\ reply.type = "garbage"
      BY <1>1, <1>4, ZenonT(40) DEF Unserved
    <2>2. \/ reply' = reply
          \/ \E k \in Keys : /\ region' = [key |-> k, size |-> held'.size]
                             /\ reply' = [type |-> "INIT_SUCCESSED", key |-> k,
                                          size |-> held'.size, pmem |-> held'.pmem]
      BY <1>5, ZenonT(40) DEF S!ServeInit
    <2>3. CASE reply' = reply
      BY <2>1, <2>3, ZenonT(40) DEF Current, Describes
    <2>4. ASSUME NEW k \in Keys, region' = [key |-> k, size |-> held'.size],
                 reply' = [type |-> "INIT_SUCCESSED", key |-> k,
                           size |-> held'.size, pmem |-> held'.pmem]
          PROVE  Current'
      <3>1. held'.size = ImageSize
        BY <1>5, HeldByInit, Zenon DEF SizeAsked, S!ServeInit, S!MemoryFor
      <3>2. region' # Nil
        BY <2>4, <3>1, ReplicaAssumption DEF Region
      <3> QED
        BY <2>1, <2>4, <3>2, ZenonT(40) DEF Current, Describes
    <2> QED
      BY <2>2, <2>3, <2>4
  <1>8. Opening'
    BY <1>1, <1>3, <1>4 DEF Opening, Unserved
  <1> QED
    BY <1>6, <1>7, <1>8

\* The server closes: what it had promised does not matter any more.
LEMMA CloseOnce ==
  ASSUME OnceInv, S!Close, UNCHANGED <<script, at, main, answer, op, sq>>,
         UNCHANGED <<recv_bl, send_bl, image_mr, flush_type>>
  PROVE  OnceInv'
  <1>1. ~open' /\ request' = Nil /\ region' = Nil /\ reply'.type = "garbage"
    BY DEF S!Close, S!Unwritten
  <1> SUFFICES ASSUME main \notin Dead, Unclosed' PROVE OneRequest' /\ Current' /\ Opening'
    BY DEF OnceInv
  <1>2. OneRequest /\ Current /\ Opening
    BY ZenonT(40) DEF OnceInv, Unclosed
  <1>3. Posted' = Posted /\ (Unasked' => Unasked) /\ (Unserved => Unserved')
    BY <1>1, PostedStays, ZenonT(40) DEF Unasked, Unserved
  <1>4. OneRequest'
    BY <1>1, <1>2, <1>3, ZenonT(40) DEF OneRequest
  <1>5. Current'
    BY <1>1, <1>2 DEF Current
  <1>6. Opening'
    BY <1>1, <1>2 DEF Opening
  <1> QED
    BY <1>4, <1>5, <1>6

-----------------------------------------------------------------------------

LEMMA SystemOpensOnce ==
  ASSUME ~CallsFail, OpensOnce
  PROVE  SystemSpec => [](OnceInv /\ TakenInv)
  <1>1. SystemInit => OnceInv /\ TakenInv
    <2> SUFFICES ASSUME SystemInit PROVE OneRequest /\ Current /\ Opening /\ step \notin Between
      BY DEF OnceInv, TakenInv
    <2>1. Posted = {} /\ request = Nil /\ Unserved
      BY SMTT(30) DEF SystemInit, Init, S!ServerInit, S!Unwritten, Posted, Unserved
    <2>2. OneRequest /\ Current
      BY <2>1 DEF SystemInit, Init, OneRequest, Current, Describes, Unserved
    <2>3. Opening
      BY OpsAssumption DEF SystemInit, Init, Opening, InCall, Callback
    <2>4. step \notin Between
      BY DEF SystemInit, Init, Between
    <2> QED
      BY <2>2, <2>3, <2>4
  <1>2. /\ ClientInv /\ ServerInv /\ SystemTypes /\ OnceInv /\ TakenInv /\ [SystemNext]_allVars
        => OnceInv'
    <2> SUFFICES ASSUME ClientInv, ServerInv, SystemTypes, OnceInv, TakenInv, [SystemNext]_allVars
                 PROVE  OnceInv'
      OBVIOUS
    <2>0. MainTypes /\ SizeAsked
      BY DEF SystemTypes
    <2>1. CASE MainThread /\ UNCHANGED serverVars
      BY <2>0, <2>1, MainOnce
    <2>2. CASE ReactorThread /\ UNCHANGED serverVars
      BY <2>2, ReactorOnce
    <2>3. CASE RequestDelivered \/ ReplyDelivered \/ ServerServes
      BY <2>0, <2>3, RequestOnce, ReplyOnce, ServeOnce DEF ServerServes
    <2>4. CASE WriteCarriedOut \/ (Flushed /\ UNCHANGED serverVars)
      <3>1. /\ UNCHANGED <<script, at, main, answer>>
            /\ UNCHANGED <<request, held, region, reply, open>>
            /\ UNCHANGED <<recv_bl, send_bl, image_mr, flush_type>>
        BY <2>4 DEF WriteCarriedOut, Sent, Flushed, clientVars, mainVars, flagVars, replicaVars, serverVars
      <3>2. op' = op /\ (sq' = sq \/ (sq # << >> /\ sq' = Tail(sq)))
        BY <2>4, ZenonT(40) DEF WriteCarriedOut, Sent, Flushed, SendCompletes, RecvCompletes
      <3>3. CASE sq' = sq
        BY <3>1, <3>2, <3>3, OthersOnce
      <3>4. CASE sq # << >> /\ sq' = Tail(sq)
        BY <3>1, <3>2, <3>4, SendOnce
      <3> QED
        BY <3>2, <3>3, <3>4, ZenonT(40)
    <2>5. CASE ServerCloses
      <3>1. /\ UNCHANGED <<script, at, main, answer, op, sq>>
            /\ UNCHANGED <<recv_bl, send_bl, image_mr, flush_type>>
        BY <2>5, Zenon DEF ServerCloses, LinkDown, vars, chVars, queueVars, clientVars, mainVars, flagVars,
             replicaVars
      <3>2. CASE S!Close
        BY <3>1, <3>2, CloseOnce
      <3>3. CASE S!ReplyLeaves \/ S!ReceiveFlushed
        BY <3>1, <3>3, OthersOnce DEF S!ReplyLeaves, S!ReceiveFlushed
      <3> QED
        BY <2>5, <3>2, <3>3 DEF ServerCloses
    <2>6. CASE \/ Idle \/ WriteRefused \/ UNCHANGED allVars
               \/ (LinkUp \/ LinkFails) /\ UNCHANGED serverVars
      <3>1. /\ UNCHANGED <<script, at, main, op, sq, answer>>
            /\ UNCHANGED <<recv_bl, send_bl, image_mr, flush_type>>
        BY <2>6, Zenon DEF Idle, Spinning, Stopped, WriteRefused, LinkUp, LinkFails, LinkDown, allVars, vars,
             chVars, queueVars, clientVars, mainVars, flagVars, replicaVars
      <3>2. UNCHANGED <<request, held, region, reply, open>>
        BY <2>6, Zenon DEF Idle, WriteRefused, allVars, serverVars
      <3> QED
        BY <3>1, <3>2, OthersOnce
    <2> QED
      BY <2>1, <2>2, <2>3, <2>4, <2>5, <2>6, Zenon DEF SystemNext, ClientAlone
  <1>3. /\ ClientInv /\ ServerInv /\ SystemTypes /\ OnceInv /\ TakenInv /\ [SystemNext]_allVars
        => TakenInv'
    <2> SUFFICES ASSUME ClientInv, ServerInv, SystemTypes, OnceInv, TakenInv, [SystemNext]_allVars
                 PROVE  TakenInv'
      OBVIOUS
    <2>1. ServerServes /\ Unclosed /\ main \notin Dead => step \notin Between
      <3>1. ServerServes => request # Nil
        BY DEF ServerServes, S!ServeInit, S!ServeFinished
      <3> QED
        BY <3>1 DEF OnceInv, OneRequest, Unserved, TakenInv, Taken
    <2>2. Describe /\ main \notin Dead /\ Unclosed /\ open => Describes(recv_bl)
      BY DEF OnceInv, Current
    <2> QED
      BY <2>1, <2>2, TakenKept
  <1> QED
    BY <1>1, <1>2, <1>3, SystemTyped, PTL DEF SystemSpec

\* If the replica is opened once and the client's own calls do not fail, then
\* whichever calls of the server fail and however late its reply comes: the
\* descriptor the client goes on to write through is the region the server has
\* registered, and it flushes to persistence exactly if that memory is persistent.
THEOREM DescriptorStaysCurrent ==
  ASSUME ~CallsFail, OpensOnce
  PROVE  SystemSpec => []DescriptorCurrent
  <1>1. SystemTypes /\ OnceInv => DescriptorCurrent
    <2> SUFFICES ASSUME SystemTypes, OnceInv, WritesNext
                 PROVE  /\ image_mr # Nil /\ image_mr = region
                        /\ (flush_type = "PERSISTENT") = held.pmem
      BY DEF DescriptorCurrent
    <2>1. main \notin Dead
      BY DEF WritesNext, Dead
    <2>2. Unclosed
      <3>1. at \in Nat /\ script[at] # "close_replica" /\ \A i \in 1..at - 1 : script[i] # "close_replica"
        BY ScriptsAssumption DEF WritesNext, Before, SystemTypes, MainTypes
      <3>2. \A i \in 1..at : i = at \/ i \in 1..at - 1
        BY <3>1, SMTT(30)
      <3> QED
        BY <3>1, <3>2 DEF Unclosed
    <2> QED
      BY <2>1, <2>2 DEF OnceInv, Current, Opening, WritesNext
  <1> QED
    BY <1>1, SystemTyped, SystemOpensOnce, PTL
-----------------------------------------------------------------------------
(* Writes that are refused.                                                *)

\* A server that has closed has lost its connection, and there is none before th1.
LinkInv == (~open => link = "closed") /\ (step = "none" => link = "none")

LEMMA SystemLinks == SystemSpec => []LinkInv
  <1>1. SystemInit => LinkInv
    BY DEF SystemInit, Init, S!ServerInit, LinkInv
  <1>2. LinkInv /\ [SystemNext]_allVars => LinkInv'
    <2> SUFFICES ASSUME LinkInv, [SystemNext]_allVars PROVE LinkInv'
      OBVIOUS
    <2>1. CASE UNCHANGED <<open, link, step>>
      BY <2>1 DEF LinkInv
    <2>2. CASE MainThread /\ UNCHANGED serverVars
      <3>1. CASE Construct
        BY <2>2, <3>1 DEF Construct, Started, RegisterFails, ConstructorThrows, LinkInv, serverVars
      <3>2. CASE ~Construct
        <4>1. UNCHANGED <<link, step>>
          BY <2>2, <3>2, ZenonT(40) DEF MainThread, WaitEstablished, InitReplica, CloseReplica, Ask, PostRecv,
               PostSend, Inserted, Wait, Answered, Prepare, SetHead, Write, Flush, Post, Spin, Disconnect,
               Join, chVars
        <4> QED
          BY <2>1, <2>2, <4>1 DEF serverVars
      <3> QED
        BY <3>1, <3>2
    <2>3. CASE ReactorThread /\ UNCHANGED serverVars
      <3>1. link' = link
        BY <2>3, ZenonT(40) DEF ReactorThread, WaitOk, GetNone, GetError, WaitFails, GetFails, EventReady,
             ConnectionEvent, GetOp, Describe, RunCallback, Delete
      <3>2. step' # "none"
        BY <2>3, ZenonT(40) DEF ReactorThread, WaitOk, GetNone, GetError, WaitFails, GetFails, EventReady,
             ConnectionEvent, GetOp, Describe, RunCallback, Delete, remove_self
      <3> QED
        BY <2>3, <3>1, <3>2 DEF LinkInv, serverVars
    <2>4. CASE (LinkUp \/ LinkFails) /\ UNCHANGED serverVars
      BY <2>4 DEF LinkUp, LinkFails, LinkDown, LinkInv, serverVars
    <2>5. CASE WriteRefused
      BY <2>5 DEF WriteRefused, LinkDown, LinkInv, serverVars
    <2>6. CASE ServerCloses
      <3>1. CASE link = "closed" /\ UNCHANGED vars
        BY <3>1 DEF LinkInv, vars, chVars
      <3>2. CASE LinkDown
        BY <3>2 DEF LinkDown, LinkInv
      <3> QED
        BY <2>6, <3>1, <3>2 DEF ServerCloses
    <2>7. CASE (Flushed /\ UNCHANGED serverVars) \/ RequestDelivered \/ ReplyDelivered \/ WriteCarriedOut
      <3>1. UNCHANGED <<link, step>>
        BY <2>7, ZenonT(40) DEF Flushed, RequestDelivered, ReplyDelivered, WriteCarriedOut, Sent, ReplyArrives,
             SendCompletes, RecvCompletes
      <3>2. open' = open
        BY <2>7 DEF RequestDelivered, ReplyDelivered, WriteCarriedOut, S!Receive, S!ReplyLeaves, serverVars
      <3> QED
        BY <2>1, <3>1, <3>2
    <2>8. CASE Idle \/ ServerServes \/ UNCHANGED allVars
      <3>1. UNCHANGED <<link, step>>
        BY <2>8, ZenonT(40) DEF Idle, Spinning, Stopped, ServerServes, allVars, vars, chVars
      <3>2. open' = open
        BY <2>8, ZenonT(40) DEF Idle, ServerServes, S!ServeInit, S!ServeFinished, S!Served, allVars, serverVars
      <3> QED
        BY <2>1, <3>1, <3>2
    <2> QED
      BY <2>2, <2>3, <2>4, <2>5, <2>6, <2>7, <2>8, Zenon DEF SystemNext, ClientAlone
  <1> QED
    BY <1>1, <1>2, PTL DEF SystemSpec

\* A write or a flush that was posted goes to the region there is.
Writing == {"write", "flush"}

Aimed == /\ target # Nil => image_mr # Nil /\ (open => Permitted)
         /\ \A o \in Ops : op[o] \in Writing => target # Nil

WriteInv == main \notin Dead /\ Unclosed => Aimed

LEMMA MainAims ==
  ASSUME OnceInv, WriteInv, ClientInv, SystemTypes, MainThread, UNCHANGED serverVars
  PROVE  WriteInv'
  <1>1. /\ main \notin Dead /\ script' = script /\ at' \in {at, at + 1} /\ image_mr' = image_mr
        /\ UNCHANGED <<region, open>>
    BY MainMoves DEF serverVars
  <1>2. Unclosed' => Unclosed
    BY <1>1, BeforeMoves DEF SystemTypes
  <1>3. target' = target \/ (image_mr # Nil /\ target' = image_mr.key)
    BY ZenonT(40) DEF MainThread, Construct, WaitEstablished, InitReplica, CloseReplica, Ask, PostRecv,
         PostSend, Inserted, Wait, Answered, Prepare, SetHead, Write, Flush, Post, Spin, Disconnect, Join
  <1>4. image_mr # Nil => image_mr.key # Nil
    BY ClientAssumption DEF SystemTypes, Messages, Region
  <1> SUFFICES ASSUME main' \notin Dead, Unclosed' PROVE Aimed'
    BY DEF WriteInv
  <1>5. Aimed /\ Current
    BY <1>1, <1>2 DEF WriteInv, OnceInv
  <1>6. target' # Nil => image_mr' # Nil /\ (open' => Permitted')
    BY <1>1, <1>3, <1>5 DEF Aimed, Current, Permitted
  <1>7. ASSUME NEW o \in Ops, op'[o] \in Writing PROVE target' # Nil
    <2>1. op[o] \in Writing \/ (image_mr # Nil /\ target' = image_mr.key)
      BY <1>7, OpsOfMain DEF Writing, Frame
    <2> QED
      BY <1>3, <1>4, <1>5, <2>1 DEF Aimed
  <1> QED
    BY <1>6, <1>7 DEF Aimed

LEMMA ReactorAims ==
  ASSUME ~CallsFail, WriteInv, ClientInv, SystemTypes, ReactorThread, UNCHANGED serverVars
  PROVE  WriteInv'
  <1>1. /\ main \notin Dead /\ UNCHANGED <<script, at, target, region, open>>
        /\ Unclosed' => Unclosed
    BY ReactorMoves DEF serverVars, Unclosed
  <1> SUFFICES ASSUME main' \notin Dead, Unclosed' PROVE Aimed'
    BY DEF WriteInv
  <1>2. Aimed
    BY <1>1 DEF WriteInv
  <1>3. image_mr' = image_mr \/ image_mr' # Nil
    <2>1. CASE Describe
      BY <2>1, DescribeTakes DEF Describe
    <2>2. CASE RunCallback
      BY <2>2, ZenonT(40) DEF RunCallback, InitReplied, FinishReplied, NoCallback, replicaVars
    <2> QED
      BY <2>1, <2>2, ReactorMoves
  <1>4. ASSUME NEW o \in Ops, op'[o] \in Writing PROVE op[o] \in Writing
    <2>1. CASE Delete
      <3>1. op' = [op EXCEPT ![cur] = Free] /\ op \in [Ops -> Callback \cup {Free}]
        BY <2>1 DEF Delete, SetHeap, delete, H0, ClientInv, Typed
      <3> QED
        BY <1>4, <3>1, OpsAssumption DEF Writing, Callback
    <2>2. CASE Describe \/ RunCallback
      BY <1>4, <2>2 DEF Describe, RunCallback
    <2> QED
      BY <1>4, <2>1, <2>2, ReactorMoves
  <1> QED
    BY <1>1, <1>2, <1>3, <1>4 DEF Aimed, Permitted

\* If the replica is opened once and the client's own calls do not fail, then
\* however late the server's reply is read, whatever init_replica returned and
\* whichever calls of the server fail, no write or flush of the client is refused
\* until it comes to close the replica.
THEOREM NoWriteIsRefused ==
  ASSUME ~CallsFail, OpensOnce
  PROVE  SystemSpec => RefusedOnlyAfterClose
  <1>1. SystemInit => WriteInv
    <2> SUFFICES ASSUME SystemInit PROVE Aimed
      BY DEF WriteInv
    <2> QED
      BY OpsAssumption DEF SystemInit, Init, Aimed, Writing, Callback
  <1>2. /\ ClientInv /\ SystemTypes /\ OnceInv /\ WriteInv /\ [SystemNext]_allVars
        => WriteInv'
    <2> SUFFICES ASSUME ClientInv, SystemTypes, OnceInv, WriteInv, [SystemNext]_allVars PROVE WriteInv'
      OBVIOUS
    <2>1. CASE Outside
      <3> SUFFICES ASSUME main' \notin Dead, Unclosed' PROVE Aimed'
        BY DEF WriteInv
      <3>1. Aimed /\ OneRequest
        BY <2>1 DEF Outside, WriteInv, OnceInv, Unclosed
      <3>2. ServerServes => target = Nil
        BY <3>1 DEF ServerServes, S!ServeInit, S!ServeFinished, OneRequest, Unserved, Aimed
      <3>3. UNCHANGED <<region, open>> \/ ~open' \/ target = Nil
        BY <3>2, MemoryMoves
      <3>4. UNCHANGED <<op, target, image_mr>>
        BY <2>1 DEF Outside
      <3> QED
        BY <3>1, <3>3, <3>4 DEF Aimed, Permitted
    <2> QED
      BY <2>1, WhoMoves, MainAims, ReactorAims
  <1>3. ClientInv /\ LinkInv /\ WriteInv /\ [SystemNext]_allVars => [WriteRefused => ~Unclosed]_allVars
    <2> SUFFICES ASSUME ClientInv, LinkInv, WriteInv, WriteRefused, Unclosed PROVE FALSE
      OBVIOUS
    <2>1. open /\ main \notin Dead
      BY DEF WriteRefused, LinkDown, LinkInv
    <2>2. op[Head(sq)] \in Writing /\ ~Permitted /\ sq # << >>
      BY DEF WriteRefused, SqHead, Writing
    <2>3. Head(sq) \in Ops
      BY <2>2, TailFacts DEF ClientInv, Typed
    <2> QED
      BY <2>1, <2>2, <2>3 DEF WriteInv, Aimed
  <1> QED
    BY <1>1, <1>2, <1>3, SystemTyped, SystemOpensOnce, SystemLinks, PTL DEF SystemSpec, RefusedOnlyAfterClose

-----------------------------------------------------------------------------
(* The end of the process.                                                 *)

\* The receive of init_replica, and its callback not run to the end.
Receives(o) == op[o] \in {"init", "stale_init"}
Pending(o)  == Receives(o) /\ ~(cur = o /\ step = "delete")

\* The main thread has not posted the receive of init_replica.
Unreceived == \A i \in 1..at : script[i] = "init_replica" => i = at /\ main \in {"call", "recv"}

\* There is one receive, and no answer before its callback is done.
First ==
  /\ answer # "bad"
  /\ \A o, p \in Ops : Receives(o) /\ Receives(p) => o = p
  /\ \A o \in Ops : Pending(o) => answer = "none"
  /\ Unreceived => \A o \in Ops : ~Receives(o)
  /\ main = "recv" => answer = "none"

FirstInv == main \notin Dead /\ Unclosed => First

\* At the post of the receive of init_replica there is none yet.
LEMMA FirstReceive ==
  ASSUME OpensOnce, OnceInv, SystemTypes, Unclosed, main = "recv"
  PROVE  Unreceived /\ script[at] = "init_replica"
  <1>1. script[at] = "init_replica"
    BY DEF OnceInv, Opening, InCall, Dead
  <1>2. script \in Scripts /\ at \in Nat /\ \A i \in 1..at : i \in DOMAIN script /\ at \in DOMAIN script
    BY ScriptsAssumption DEF SystemTypes, MainTypes
  <1>3. \A i \in 1..at : script[i] = "init_replica" => i = at
    BY <1>1, <1>2, Zenon DEF OpensOnce
  <1> QED
    BY <1>1, <1>3 DEF Unreceived

LEMMA MainFirst ==
  ASSUME OpensOnce, OnceInv, FirstInv, ClientInv, SystemTypes, MainThread
  PROVE  FirstInv'
  <1>1. /\ main \notin Dead /\ script' = script /\ at' \in {at, at + 1} /\ cur' = cur
        /\ answer' \in {answer, "none"}
    BY MainMoves
  <1>2. Unclosed' => Unclosed
    BY <1>1, BeforeMoves DEF SystemTypes
  <1>3. step' = step \/ (step = "none" /\ step' = "epoll")
    BY Zenon DEF MainThread, Construct, Started, RegisterFails, ConstructorThrows,
         WaitEstablished, InitReplica, CloseReplica, Ask, PostRecv, PostSend, Inserted, Wait, Answered,
         Prepare, SetHead, Write, Flush, Post, Spin, Disconnect, Join, chVars
  <1>4. /\ at' = at /\ main' \in {"call", "recv"} => main = "call"
        /\ main' = "recv" => answer' = "none"
    <2>1. at # at + 1
      BY ScriptsAssumption DEF SystemTypes, MainTypes
    <2>2. main' = "recv" => InitReplica \/ CloseReplica
      BY ZenonT(40) DEF MainThread, Construct, Started, RegisterFails, ConstructorThrows, WaitEstablished,
           PostRecv, PostSend, StartWait, Inserted, Wait, Answered, Prepare, SetHead, Write, Flush, Post,
           Spin, Disconnect, Join, Return, Go
    <2>3. at' = at => main' # "call"
      BY <2>1, ZenonT(40) DEF MainThread, Construct, Started, RegisterFails, ConstructorThrows, WaitEstablished,
           InitReplica, CloseReplica, Ask, PostRecv, PostSend, StartWait, Inserted, Wait, Answered, Prepare,
           SetHead, Write, Flush, Post, Spin, Disconnect, Join, Return, Go
    <2> QED
      BY <2>2, <2>3 DEF InitReplica, CloseReplica, Ask, Call
  <1> SUFFICES ASSUME main' \notin Dead, Unclosed' PROVE First'
    BY DEF FirstInv
  <1>5. First
    BY <1>1, <1>2 DEF FirstInv
  <1>6. Unreceived' => Unreceived
    <2>1. at \in Nat \ {0}
      BY ScriptsAssumption DEF SystemTypes, MainTypes
    <2>2. \A i \in 1..at : i \in 1..at' /\ i # at + 1
      BY <1>1, <2>1
    <2> QED
      BY <1>1, <1>4, <2>2 DEF Unreceived
  <1>7. CASE PostRecv /\ \E o \in Ops : ~Receives(o) /\ Receives(o)'
    <2>1. main' \in {"insert_recv", "send"}
      BY <1>7 DEF PostRecv, Go
    <2>2. main = "recv" /\ answer = "none" /\ at' = at
      BY <1>5, <1>7 DEF PostRecv, Go, First
    <2>3. Unreceived /\ script[at] = "init_replica" /\ \A p \in Ops : ~Receives(p)
      BY <1>2, <1>5, <2>2, FirstReceive DEF First
    <2>4. ~Unreceived'
      <3>1. at \in 1..at
        BY ScriptsAssumption DEF SystemTypes, MainTypes
      <3> QED
        BY <1>1, <2>1, <2>2, <2>3, <3>1 DEF Unreceived
    <2>5. \A p, q \in Ops : Receives(p)' /\ Receives(q)' => p = q
      <3>1. PICK o \in Ops \ Allocated : op' = [op EXCEPT ![o] = Frame] \/ op' = op
        BY <1>7, ZenonT(40) DEF PostRecv, Receives
      <3>2. \A p \in Ops : p # o => op'[p] = op[p]
        BY <3>1 DEF ClientInv, Typed
      <3> QED
        BY <2>3, <3>2 DEF Receives
    <2> QED
      BY <1>1, <2>1, <2>2, <2>4, <2>5 DEF First
  <1>8. CASE \A o \in Ops : Receives(o)' => Receives(o)
    <2>1. \A o \in Ops : Pending(o)' => Pending(o)
      BY <1>1, <1>3, <1>8 DEF Pending
    <2> QED
      BY <1>1, <1>4, <1>5, <1>6, <1>8, <2>1 DEF First
  <1>9. ASSUME NEW o \in Ops, Receives(o)', ~Receives(o) PROVE PostRecv
    BY <1>9, OpsOfMain DEF Receives
  <1> QED
    BY <1>7, <1>8, <1>9, Zenon

LEMMA ReactorFirst ==
  ASSUME ~CallsFail, OpensOnce, OnceInv, FirstInv, ClientInv, SystemTypes, ReactorThread
  PROVE  FirstInv'
  <1>1. main \notin Dead /\ UNCHANGED <<script, at>> /\ (Unclosed' => Unclosed)
    BY ReactorMoves DEF Unclosed
  <1> SUFFICES ASSUME main' \notin Dead, Unclosed' PROVE First'
    BY DEF FirstInv
  <1>2. First /\ Opening
    BY <1>1 DEF FirstInv, OnceInv
  <1>3. main' = main /\ (Unreceived' => Unreceived)
    <2>1. main' = main
      BY ReactorMoves, ZenonT(40) DEF Describe, RunCallback, InitReplied, DeadFrame, FinishReplied, NoCallback, Dead
    <2> QED
      BY <1>1, <2>1 DEF Unreceived
  <1>4. ASSUME answer' = answer, \A o \in Ops : Receives(o)' => Receives(o),
               \A o \in Ops : Pending(o)' => Pending(o)
        PROVE  First'
    BY <1>2, <1>3, <1>4 DEF First
  <1>5. CASE Describe
    <2>1. UNCHANGED <<answer, op, cur>> /\ step # "delete"
      BY <1>5 DEF Describe, flagVars
    <2> QED
      BY <1>4, <2>1 DEF Receives, Pending
  <1>6. CASE RunCallback
    <2>0. step # "delete" /\ step' = "delete" /\ UNCHANGED <<op, cur>> /\ cur \in Ops
      BY <1>1, <1>6 DEF RunCallback, SystemTypes, Working
    <2>1. CASE Receives(cur)
      <3>1. Pending(cur) /\ \A o \in Ops : ~Pending(o)' /\ (Receives(o)' => Receives(o))
        BY <1>2, <2>0, <2>1 DEF First, Pending, Receives
      <3>2. main # "recv" /\ ~Unreceived
        BY <1>1, <1>2, <2>0, <2>1, FirstReceive DEF First
      <3>3. answer' # "bad"
        <4>1. answer' \in {answer, "ok"}
          BY <1>6, <2>1, ZenonT(40) DEF RunCallback, Receives, InitReplied, DeadFrame
        <4> QED
          BY <1>2, <4>1 DEF First
      <3> QED
        BY <1>2, <1>3, <3>1, <3>2, <3>3 DEF First
    <2>2. CASE ~Receives(cur)
      <3>1. op[cur] \notin {"finish", "stale_finish"}
        BY <1>2, <2>0 DEF Opening
      <3>2. answer' = answer
        BY <1>6, <2>2, <3>1, ZenonT(40) DEF RunCallback, Receives, NoCallback, flagVars
      <3> QED
        BY <1>4, <2>0, <2>2, <3>2 DEF Receives, Pending
    <2> QED
      BY <2>1, <2>2
  <1>7. CASE Delete
    <2>1. /\ op' = [op EXCEPT ![cur] = Free] /\ op \in [Ops -> Callback \cup {Free}]
          /\ answer' = answer
      BY <1>7 DEF Delete, SetHeap, delete, H0, ClientInv, Typed, flagVars
    <2>2. \A o \in Ops : Receives(o)' => Receives(o) /\ o # cur
      BY <2>1, OpsAssumption DEF Receives, Callback
    <2> QED
      BY <1>4, <2>1, <2>2 DEF Pending
  <1>8. CASE op' = op /\ step \notin Working /\ answer' = answer
    BY <1>4, <1>8 DEF Receives, Pending, Working
  <1> QED
    BY <1>5, <1>6, <1>7, <1>8, ReactorMoves

\* set_head has set the source buffer.
SourceInv ==
  main \notin Dead => /\ main # "call" => script[at] # "set_head"
                      /\ Before("set_head") => data_mr

LEMMA MainSource ==
  ASSUME ~CallsFail, SourceInv, SystemTypes, MainThread
  PROVE  SourceInv'
  <1>1. main \notin Dead /\ script' = script /\ at' \in {at, at + 1}
    BY MainMoves
  <1>2. data_mr => data_mr'
    BY ZenonT(40) DEF MainThread, Construct, WaitEstablished, InitReplica, CloseReplica, Ask, PostRecv,
         PostSend, Inserted, Wait, Answered, Prepare, SetHead, Write, Flush, Post, Spin, Disconnect, Join
  <1>3. main = "call" /\ at' # at /\ script[at] = "set_head" => data_mr'
    <2>1. SetHead => data_mr'
      BY Zenon DEF SetHead, Ok
    <2> QED
      BY <2>1, ZenonT(40) DEF MainThread, Construct, WaitEstablished, InitReplica, CloseReplica, Ask,
           PostRecv, PostSend, Inserted, Wait, Answered, WaitEnds, Prepare, Write, Flush, Post, Spin, Disconnect,
           Join, Joined, Call
  <1>4. ASSUME main' \notin Dead, main' # "call"
        PROVE  at' = at /\ (main # "call" \/ script[at] # "set_head")
    <2>1. at' = at
      BY <1>4, ZenonT(40) DEF MainThread, Construct, Started, RegisterFails, ConstructorThrows, WaitEstablished,
           InitReplica, CloseReplica, Ask, PostRecv, PostSend, StartWait, Inserted, Wait, Answered, Prepare,
           SetHead, Write, Flush, Post, Spin, Disconnect, Join, Return, Go
    <2>2. ~SetHead
      BY <1>4 DEF SetHead, Return
    <2> QED
      BY <2>1, <2>2, ZenonT(40) DEF MainThread, Construct, WaitEstablished, InitReplica, CloseReplica, Ask,
           PostRecv, PostSend, Inserted, Wait, Answered, WaitEnds, Prepare, Write, Flush, Post, Spin, Disconnect,
           Join, Joined, Call
  <1>5. Before("set_head")' => Before("set_head") \/ (at' = at + 1 /\ script[at] = "set_head")
    BY <1>1, BeforeMoves DEF SystemTypes
  <1>6. at # at + 1
    BY ScriptsAssumption DEF SystemTypes, MainTypes
  <1> QED
    BY <1>1, <1>2, <1>3, <1>4, <1>5, <1>6 DEF SourceInv

\* Every script that writes or flushes has opened the replica and set the source
\* buffer before, as client.cc does.
WritesPrepared ==
  \A s \in Scripts : \A i \in DOMAIN s :
    s[i] \in {"write", "flush"} =>
      \A c \in {"init_replica", "set_head"} : \E j \in 1..i - 1 : s[j] = c

\* A write that finds no memory is that of a client without an answer.
LEMMA WriteCrashes ==
  ASSUME WritesPrepared, OnceInv, FirstInv, SourceInv, SystemTypes, Unclosed,
         NEW c \in Writing, Post(c), main' = "crashed"
  PROVE  answer = "none" /\ answer' = answer
  <1>1. main = "call" /\ main \notin Dead /\ script[at] = c /\ answer' = answer
    BY DEF Post, Call, Dead
  <1>2. ~data_mr \/ image_mr = Nil
    BY <1>1 DEF Post, Return, Go
  <1>3. script \in Scripts /\ at \in DOMAIN script
    BY ScriptsAssumption DEF SystemTypes, MainTypes
  <1>4. Before("set_head")
    BY <1>1, <1>3, ZenonT(40) DEF WritesPrepared, Before, Writing
  <1>5. answer # "ok"
    BY <1>1, <1>2, <1>4 DEF OnceInv, Opening, SourceInv
  <1>6. answer # "bad"
    BY <1>1 DEF FirstInv, First
  <1> QED
    BY <1>1, <1>5, <1>6 DEF SystemTypes, MainTypes

\* If the replica is opened once, writes are prepared and the client's own calls do
\* not fail, then whatever the server does: the client crashes before it comes to
\* close the replica only if init_replica gave up waiting and no late reply has
\* set its answer since.
THEOREM AnsweredClientLives ==
  ASSUME ~CallsFail, OpensOnce, WritesPrepared
  PROVE  SystemSpec => []CrashesOnlyUnanswered
  <1>1. SystemInit => FirstInv /\ SourceInv /\ CrashesOnlyUnanswered
    <2> SUFFICES ASSUME SystemInit PROVE First /\ SourceInv /\ CrashesOnlyUnanswered
      BY DEF FirstInv
    <2>1. First
      BY OpsAssumption DEF SystemInit, Init, First, Receives, Pending, Callback
    <2>2. SourceInv /\ CrashesOnlyUnanswered
      BY SMTT(30) DEF SystemInit, Init, SourceInv, Before, CrashesOnlyUnanswered
    <2> QED
      BY <2>1, <2>2
  <1>2. /\ ClientInv /\ SystemTypes /\ OnceInv /\ FirstInv /\ SourceInv /\ [SystemNext]_allVars
        => FirstInv' /\ SourceInv'
    <2> SUFFICES ASSUME ClientInv, SystemTypes, OnceInv, FirstInv, SourceInv, [SystemNext]_allVars
                 PROVE  FirstInv' /\ SourceInv'
      OBVIOUS
    <2>1. CASE Outside
      BY <2>1 DEF Outside, FirstInv, First, Unclosed, Unreceived, Receives, Pending, SourceInv, Before
    <2>2. CASE MainThread
      BY <2>2, MainFirst, MainSource
    <2>3. CASE ReactorThread
      <3>1. SourceInv'
        BY <2>3, ReactorMoves, ZenonT(40) DEF Describe, RunCallback, InitReplied, DeadFrame, FinishReplied,
             NoCallback, Dead, SourceInv, Before
      <3> QED
        BY <2>3, <3>1, ReactorFirst
    <2> QED
      BY <2>1, <2>2, <2>3, WhoMoves
  <1>3. /\ SystemTypes /\ OnceInv /\ FirstInv /\ SourceInv /\ CrashesOnlyUnanswered /\ [SystemNext]_allVars
        => CrashesOnlyUnanswered'
    <2> SUFFICES ASSUME SystemTypes, OnceInv, FirstInv, SourceInv, CrashesOnlyUnanswered,
                        [SystemNext]_allVars, main' = "crashed", Unclosed'
                 PROVE  answer' = "none"
      BY DEF CrashesOnlyUnanswered
    <2>1. CASE Outside
      BY <2>1 DEF Outside, CrashesOnlyUnanswered, Unclosed
    <2>2. CASE MainThread
      <3>1. Unclosed
        BY <2>2, MainMoves, BeforeMoves DEF SystemTypes
      <3>2. Write \/ Flush
        <4>1. CASE Construct \/ Prepare
          BY <4>1 DEF Construct, Started, RegisterFails, ConstructorThrows, Prepare, Return
        <4>2. CASE Wait
          BY <4>2 DEF Wait
        <4>3. CASE \/ WaitEstablished \/ InitReplica \/ CloseReplica \/ PostRecv \/ PostSend \/ Inserted
                   \/ Answered \/ SetHead \/ Spin \/ Disconnect \/ Join
          <5>1. main' # "crashed"
            BY <4>3, ZenonT(40) DEF WaitEstablished, InitReplica, CloseReplica, Ask, PostRecv, PostSend,
                 StartWait, Inserted, Answered, SetHead, Spin, Disconnect, Join, Return, Go
          <5> QED
            BY <5>1
        <4> QED
          BY <2>2, <4>1, <4>2, <4>3, Zenon DEF MainThread
      <3> QED
        BY <3>1, <3>2, WriteCrashes DEF Write, Flush, Writing
    <2>3. CASE ReactorThread
      <3>1. main \notin Dead /\ Unclosed /\ (step \in Working => cur \in Ops)
        BY <2>3, ReactorMoves DEF Unclosed, SystemTypes
      <3>2. First /\ Opening
        BY <3>1 DEF FirstInv, OnceInv
      <3>3. CASE Describe
        <4>1. answer' = answer /\ cur \in Ops /\ Pending(cur)
          BY <3>1, <3>3 DEF Describe, flagVars, Working, Pending, Receives
        <4> QED
          BY <3>2, <4>1 DEF First
      <3>4. CASE RunCallback
        <4>1. cur \in Ops /\ step # "delete" /\ main # "crashed"
          BY <3>1, <3>4 DEF RunCallback, Working, Dead
        <4>2. op[cur] \notin {"finish", "stale_finish"}
          BY <3>2, <4>1 DEF Opening
        <4>3. Receives(cur) /\ answer' = answer
          BY <3>4, <4>1, <4>2, ZenonT(40) DEF RunCallback, Receives, InitReplied, DeadFrame, NoCallback
        <4> QED
          BY <3>2, <4>1, <4>3 DEF First, Pending
      <3>5. CASE main' = main
        BY <3>1, <3>5 DEF Dead
      <3> QED
        BY <2>3, <3>3, <3>4, <3>5, ReactorMoves
    <2> QED
      BY <2>1, <2>2, <2>3, WhoMoves
  <1> QED
    BY <1>1, <1>2, <1>3, SystemTyped, SystemOpensOnce, PTL DEF SystemSpec
=============================================================================
