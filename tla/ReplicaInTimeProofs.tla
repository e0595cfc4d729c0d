------------------------- MODULE ReplicaInTimeProofs -------------------------
(* The client with a server that works and replies in time: however often  *)
(* the replica is opened there is one message at a time on its way, the    *)
(* descriptor stays current, and the client does not crash before it opens *)
(* the replica again after closing it.                                     *)
EXTENDS ReplicaProofs

Frames  == {"init", "finish"}
Unsent  == {"recv", "insert_recv", "send"}
Waiting == {"insert_send", "wait"}
Calling == {"callback", "described", "typed"}

\* The reply is in the client's buffer, and the callback of o has not run to its end.
Replied(o) ==
  /\ op[o] \in Frames
  /\ \/ \E i \in DOMAIN cq : cq[i].ctx = o /\ cq[i].status = "success"
     \/ step \in Calling /\ cur = o

\* What the calls of the main thread leave behind them.
Calls ==
  /\ main \in InCall => script[at] \in {"init_replica", "close_replica"}
  /\ main \in {"insert", "disconnecting"} => script[at] \notin {"init_replica", "set_head"}
  /\ \A o \in Ops : Outlives(o) => op[o] = Frame
  /\ \A i \in DOMAIN sq : op[sq[i]] \notin Frames
  /\ Before("set_head") => data_mr
  /\ Before("init_replica") => image_mr # Nil
  /\ main \in InCall /\ script[at] = "init_replica" /\ answer # "none" => image_mr # Nil

\* What the messages can say: a reply that leaves was written, and before the first
\* close_replica there is no FINISHED.
Said ==
  /\ reply.type # "INIT_FAILED" /\ recv_bl.type # "INIT_FAILED"
  /\ owed # 0 => reply.type # "garbage"
  /\ \A o \in Ops : Replied(o) => recv_bl.type # "garbage"
  /\ Unclosed => /\ reply.type \in {"garbage", "INIT_SUCCESSED"}
                 /\ recv_bl.type \in {"garbage", "INIT_SUCCESSED"}
                 /\ send_bl.type # "FINISHED_REQUEST"
                 /\ request # Nil => request.type # "FINISHED_REQUEST"

\* A request is posted, received, answered or its answer read, one at a time, and
\* only while init_replica waits for it.
Turns ==
  /\ \A i, j \in Posted : i = j
  /\ Posted # {} => request = Nil /\ owed = 0
  /\ request # Nil => owed = 0
  /\ owed \in {0, 1}
  /\ \A o \in Ops : Replied(o) => Posted = {} /\ request = Nil /\ owed = 0
  /\ \/ Posted # {} \/ request # Nil \/ owed # 0
     \/ \E o \in Ops : Replied(o)
     => main \in Waiting /\ answer = "none"
  /\ main \in Unsent => answer = "none"

\* What is on its way to the client, and what it has taken, is the region there is.
Known ==
  /\ answer = "ok" => image_mr # Nil
  /\ open => /\ owed # 0 => Describes(reply)
             /\ \A o \in Ops : Replied(o) => Describes(recv_bl)
             /\ answer = "ok" => image_mr = region /\ (flush_type = "PERSISTENT") = held.pmem

\* The inductive invariant.
TripInv == main \notin Dead => Calls /\ Said /\ (Unclosed => Turns /\ Known)

\* The main thread moves on within its call, or to the next one once this one has
\* done its part.
Moves ==
  /\ script' = script /\ at' \in {at, at + 1}
  /\ main' \in InCall => main \in InCall /\ at' = at
  /\ main' \in Unsent => main \in Unsent
  /\ main \in Waiting /\ answer = "none" => main' \in Waiting
  /\ main' \in {"insert", "disconnecting"} => at' = at /\ script[at] \notin {"init_replica", "set_head"}
  /\ at' = at + 1 => /\ script[at] = "init_replica" => image_mr # Nil
                     /\ script[at] = "set_head" => data_mr'
  /\ data_mr => data_mr'

\* No reply comes, and a receive is posted only for the call in progress.
NoReply ==
  /\ \A i \in DOMAIN sq' : op'[sq'[i]] \notin Frames
  /\ \A o \in Ops : Outlives(o)' => op'[o] = Frame'
  /\ \A o \in Ops : Replied(o)' => Replied(o)

\* No request is posted.
NoRequest ==
  /\ Posted = {} => Posted' = {}
  /\ (\A i, j \in Posted : i = j) => (\A i, j \in Posted' : i = j)

LEMMA CallsStay ==
  ASSUME MainTypes, Calls, Moves, NoReply, UNCHANGED <<image_mr, answer>>
  PROVE  Calls'
  <1>1. /\ (main \in InCall => script[at] \in {"init_replica", "close_replica"})'
        /\ (main \in {"insert", "disconnecting"} => script[at] \notin {"init_replica", "set_head"})'
        /\ (main \in InCall /\ script[at] = "init_replica" /\ answer # "none" => image_mr # Nil)'
    BY DEF Calls, Moves
  <1>2. (Before("set_head") => data_mr)'
    BY BeforeMoves DEF Calls, Moves
  <1>3. (Before("init_replica") => image_mr # Nil)'
    BY BeforeMoves DEF Calls, Moves
  <1> QED
    BY <1>1, <1>2, <1>3 DEF Calls, NoReply

LEMMA SaidStays ==
  ASSUME Said, Unclosed' => Unclosed, NoReply, UNCHANGED <<request, reply, owed, recv_bl, send_bl>>
  PROVE  Said'
  BY DEF Said, NoReply

LEMMA TurnsStay ==
  ASSUME Turns, Moves, NoReply, NoRequest, UNCHANGED <<request, owed, answer>>
  PROVE  Turns'
  BY DEF Turns, Moves, NoReply, NoRequest

LEMMA KnownStays ==
  ASSUME Known, NoReply, UNCHANGED <<held, region, reply, owed, open>>,
         UNCHANGED <<recv_bl, image_mr, flush_type, answer>>
  PROVE  Known'
  <1>1. Describes(reply)' = Describes(reply) /\ Describes(recv_bl)' = Describes(recv_bl)
    BY DEF Describes
  <1> QED
    BY <1>1 DEF Known, NoReply

\* A step that leaves the messages and the descriptor alone.
LEMMA TripStays ==
  ASSUME TripInv, MainTypes, main \notin Dead, Moves, NoReply, NoRequest,
         UNCHANGED <<request, held, region, reply, owed, open>>,
         UNCHANGED <<recv_bl, send_bl, image_mr, flush_type, answer>>
  PROVE  TripInv'
  <1>1. Unclosed' => Unclosed
    BY BeforeMoves DEF Moves
  <1>2. Calls' /\ Said'
    BY <1>1, CallsStay, SaidStays DEF TripInv
  <1>3. Unclosed' => Turns' /\ Known'
    BY <1>1, TurnsStay, KnownStays DEF TripInv
  <1> QED
    BY <1>2, <1>3 DEF TripInv

\* The process is over.
LEMMA TripEnds ==
  ASSUME main' \in Dead
  PROVE  TripInv'
  BY DEF TripInv

\* The same for a step that is not the main thread's.
LEMMA TripAway ==
  ASSUME TripInv, MainTypes, main \notin Dead, UNCHANGED <<script, at, main, data_mr>>,
         NoReply, NoRequest,
         UNCHANGED <<request, held, region, reply, owed, open>>,
         UNCHANGED <<recv_bl, send_bl, image_mr, flush_type, answer>>
  PROVE  TripInv'
  <1>1. at # at + 1
    BY ScriptsAssumption DEF MainTypes
  <1>2. Moves
    BY <1>1 DEF Moves, TripInv, Calls
  <1> QED
    BY <1>2, TripStays, Zenon

\* Nothing is posted and nothing completes.
LEMMA NothingPosted ==
  ASSUME TripInv, main \notin Dead, UNCHANGED <<op, sq, cq, cur>>,
         step' = step \/ {step, step'} \cap Working = {},
         \A o \in Ops : Outlives(o) => Frame' = Frame
  PROVE  NoReply /\ NoRequest
  <1>1. \A o \in Ops : (Outlives(o)' => Outlives(o)) /\ (Replied(o)' => Replied(o))
    BY Zenon DEF Outlives, Replied, Working, Calling
  <1>2. Posted' = Posted
    BY PostedStays
  <1>3. NoReply
    BY <1>1 DEF NoReply, TripInv, Calls
  <1> QED
    BY <1>2, <1>3 DEF NoRequest

\* A step of the main thread that touches no op.
LEMMA TripMain ==
  ASSUME TripInv, FrameInv, MainTypes, main \notin Dead, Moves, UNCHANGED <<op, sq, cq, cur>>,
         step' = step \/ {step, step'} \cap Working = {},
         at' # at => main \notin InFrame,
         UNCHANGED <<request, held, region, reply, owed, open>>,
         UNCHANGED <<recv_bl, send_bl, image_mr, flush_type, answer>>
  PROVE  TripInv'
  <1>1. \A o \in Ops : Outlives(o) => Frame' = Frame
    BY DEF FrameInv, Frame, Moves
  <1>2. NoReply /\ NoRequest
    BY <1>1, NothingPosted
  <1> QED
    BY <1>2, TripStays

\* init_replica and close_replica start: nothing is on its way.
LEMMA TripAsks ==
  ASSUME TripInv, FrameInv, MainTypes, InitReplica \/ CloseReplica,
         UNCHANGED <<request, held, region, reply, owed, open>>
  PROVE  TripInv'
  <1>1. /\ main = "call" /\ main' = "recv" /\ answer' = "none" /\ UNCHANGED <<script, at>>
        /\ \/ script[at] = "init_replica" /\ send_bl'.type = "INIT_REQUEST"
           \/ script[at] = "close_replica"
        /\ UNCHANGED <<op, sq, cq, cur, step>> /\ UNCHANGED <<recv_bl, image_mr, flush_type, data_mr>>
    BY DEF InitReplica, CloseReplica, Ask, Call, Go, chVars, replicaVars
  <1>2. main \notin Dead /\ \A o \in Ops : ~Outlives(o)
    BY <1>1 DEF FrameInv, InFrame, Dead
  <1>3. NoReply /\ NoRequest
    BY <1>1, <1>2, NothingPosted
  <1>4. Calls /\ Said /\ (Unclosed => Turns /\ Known)
    BY <1>2 DEF TripInv
  <1>5. \A c : Before(c)' => Before(c)
    BY <1>1, ZenonT(40) DEF Before
  <1>6. Calls'
    BY <1>1, <1>3, <1>4, <1>5 DEF Calls, NoReply
  <1>7. Unclosed' => Unclosed /\ script[at] # "close_replica"
    <2>1. at \in 1..at
      BY ScriptsAssumption DEF MainTypes
    <2> QED
      BY <1>1, <2>1 DEF Unclosed
  <1>8. Said'
    BY <1>1, <1>3, <1>4, <1>7, ZenonT(40) DEF Said, NoReply
  <1>9. ASSUME Unclosed' PROVE Turns' /\ Known'
    <2>1. Turns /\ Known
      BY <1>4, <1>7, <1>9
    <2>2. Posted = {} /\ request = Nil /\ owed = 0 /\ \A o \in Ops : ~Replied(o)
      BY <1>1, <2>1 DEF Turns, Waiting
    <2>3. Posted' = {} /\ request' = Nil /\ owed' = 0 /\ \A o \in Ops : ~Replied(o)'
      BY <1>3, <2>2 DEF NoReply, NoRequest
    <2> QED
      BY <1>1, <2>3 DEF Turns, Known
  <1> QED
    BY <1>6, <1>8, <1>9, ZenonT(40) DEF TripInv

\* An op that is new has no completion.
LEMMA NewOp ==
  ASSUME ClientInv, main \notin Dead, NEW o \in Ops \ Allocated, NEW c \in Callback,
         op' = [op EXCEPT ![o] = c], UNCHANGED <<cq, cur, step>>
  PROVE  /\ \A p \in Ops : op'[p] = IF p = o THEN c ELSE op[p]
         /\ \A p \in Ops : Replied(p)' => Replied(p)
         /\ \A p \in Ops : Outlives(p)' => Outlives(p) \/ p = o
  <1>1. op \in [Ops -> Callback \cup {Free}]
    BY DEF ClientInv, Typed
  <1>2. \A p \in Ops : op'[p] = IF p = o THEN c ELSE op[p]
    BY <1>1
  <1>3. cur # o /\ \A i \in DOMAIN cq : cq[i].ctx # o
    BY OpsAssumption DEF ClientInv, ContextsLive, Allocated
  <1>4. \A p \in Ops : Replied(p)' => Replied(p)
    BY <1>2, <1>3, ZenonT(40) DEF Replied
  <1>5. \A p \in Ops : Outlives(p)' => Outlives(p) \/ p = o
    BY <1>2 DEF Outlives
  <1> QED
    BY <1>2, <1>4, <1>5

\* The receive of a call is posted.
LEMMA TripReceives ==
  ASSUME ~CallsFail, TripInv, ClientInv, MainTypes, PostRecv,
         UNCHANGED <<request, held, region, reply, owed, open>>
  PROVE  TripInv'
  <1>1. PICK o \in Ops \ Allocated : op' = [op EXCEPT ![o] = Frame]
    BY Zenon DEF PostRecv
  <1>2. main = "recv" /\ main' = "insert_recv" /\ UNCHANGED <<script, at, data_mr>>
    BY DEF PostRecv, Go
  <1>3. /\ UNCHANGED <<sq, cq, cur, step>>
        /\ UNCHANGED <<recv_bl, send_bl, image_mr, flush_type, answer>>
    BY DEF PostRecv, flagVars, replicaVars
  <1>4. main \notin Dead /\ Frame \in Frames /\ Frame \in Callback /\ Frame' = Frame
    BY <1>2 DEF Dead, Frame, Frames, Callback
  <1>5. /\ \A p \in Ops : op'[p] = IF p = o THEN Frame ELSE op[p]
        /\ \A p \in Ops : Replied(p)' => Replied(p)
        /\ \A p \in Ops : Outlives(p)' => Outlives(p) \/ p = o
    BY <1>1, <1>3, <1>4, NewOp, ZenonT(40)
  <1>6. \A i \in DOMAIN sq : sq[i] \in Ops /\ sq[i] # o
    BY <1>4 DEF ClientInv, ContextsLive, Allocated
  <1>7. NoReply
    <2>1. Calls
      BY <1>4 DEF TripInv
    <2>2. \A i \in DOMAIN sq' : op'[sq'[i]] \notin Frames
      BY <1>3, <1>5, <1>6, <2>1, ZenonT(40) DEF Calls
    <2>3. \A p \in Ops : Outlives(p)' => op'[p] = Frame'
      BY <1>4, <1>5, <2>1 DEF Calls
    <2> QED
      BY <1>5, <2>2, <2>3 DEF NoReply
  <1>8. NoRequest
    <2>1. Posted' = Posted
      BY <1>3, <1>5, <1>6, PostedStays, ZenonT(40)
    <2> QED
      BY <2>1 DEF NoRequest
  <1>9. Moves
    <2>1. at # at + 1
      BY ScriptsAssumption DEF MainTypes
    <2> QED
      BY <1>2, <2>1 DEF Moves, InCall, Unsent, Waiting
  <1> QED
    BY <1>3, <1>4, <1>7, <1>8, <1>9, TripStays, Zenon

\* An op that is no receive is posted to the send queue.
LEMMA TripPosts ==
  ASSUME TripInv, ClientInv, main \notin Dead, NEW o \in Ops \ Allocated,
         NEW c \in {"none", "write", "flush"}, op' = [op EXCEPT ![o] = c], sq' = Append(sq, o),
         UNCHANGED <<cq, cur, step, script, at>>
  PROVE  NoReply
  <1>1. c \in Callback /\ c \notin Frames
    BY DEF Callback, Frames
  <1>2. /\ \A p \in Ops : op'[p] = IF p = o THEN c ELSE op[p]
        /\ \A p \in Ops : Replied(p)' => Replied(p)
    BY <1>1, NewOp, ZenonT(40)
  <1>3. \A p \in Ops : Outlives(p)' => Outlives(p) /\ p # o
    BY <1>1, <1>2, ZenonT(40) DEF Outlives, Frames
  <1>4. /\ sq \in Seq(Ops) /\ \A i \in DOMAIN sq : sq[i] \in Ops /\ sq[i] # o
    BY DEF ClientInv, Typed, ContextsLive, Allocated
  <1>5. /\ DOMAIN sq' = DOMAIN sq \cup {Len(sq) + 1} /\ sq'[Len(sq) + 1] = o
        /\ \A i \in DOMAIN sq : sq'[i] = sq[i]
    BY <1>4, AppendFacts
  <1>6. Calls
    BY DEF TripInv
  <1>7. \A i \in DOMAIN sq' : op'[sq'[i]] \notin Frames
    <2>1. \A i \in DOMAIN sq : op[sq[i]] \notin Frames
      BY <1>6 DEF Calls
    <2>2. \A i \in DOMAIN sq : op'[sq'[i]] \notin Frames
      BY <1>2, <1>4, <1>5, <2>1
    <2>3. op'[o] \notin Frames
      BY <1>1, <1>2
    <2> QED
      BY <1>5, <2>2, <2>3, Zenon
  <1>8. \A p \in Ops : Outlives(p)' => op'[p] = Frame'
    BY <1>2, <1>3, <1>6 DEF Calls, Frame
  <1> QED
    BY <1>2, <1>7, <1>8 DEF NoReply

\* The request is posted: it is the only one.
LEMMA TripSends ==
  ASSUME ~CallsFail, TripInv, FrameInv, ClientInv, MainTypes, PostSend,
         UNCHANGED <<request, held, region, reply, owed, open>>
  PROVE  TripInv'
  <1>1. /\ main = "send" /\ UNCHANGED <<script, at, data_mr>> /\ UNCHANGED <<cq, cur, step>>
        /\ UNCHANGED <<recv_bl, send_bl, image_mr, flush_type, answer>>
    BY DEF PostSend, flagVars, replicaVars
  <1>2. main \notin Dead /\ main' \in Waiting
    BY <1>1 DEF Dead, PostSend, StartWait, Waiting
  <1>3. Moves
    <2>1. at # at + 1
      BY ScriptsAssumption DEF MainTypes
    <2> QED
      BY <1>1, <1>2, <2>1 DEF Moves, InCall, Unsent, Waiting
  <1>4. CASE UNCHANGED <<op, sq>>
    BY <1>1, <1>2, <1>3, <1>4, TripMain, ZenonT(40)
  <1>5. CASE \E o \in Ops \ Allocated : op' = [op EXCEPT ![o] = "none"] /\ sq' = Append(sq, o)
    <2>1. PICK o \in Ops \ Allocated : op' = [op EXCEPT ![o] = "none"] /\ sq' = Append(sq, o)
      BY <1>5, Zenon
    <2>2. NoReply
      BY <1>1, <1>2, <2>1, TripPosts, Zenon
    <2>3. Posted' = Posted \cup {i \in {Len(sq) + 1} : "none" = "none"}
      BY <1>2, <2>1, PostedNow, Zenon DEF Callback
    <2>4. Calls /\ Said /\ (Unclosed => Turns /\ Known) /\ Unclosed' = Unclosed
      BY <1>1, <1>2 DEF TripInv, Unclosed
    <2>5. Calls' /\ Said'
      BY <1>1, <1>3, <2>2, <2>4, CallsStay, SaidStays, ZenonT(40)
    <2>6. ASSUME Unclosed PROVE Turns' /\ Known'
      <3>1. Turns /\ Known
        BY <2>4, <2>6
      <3>2. answer = "none" /\ Posted = {} /\ request = Nil /\ owed = 0 /\ \A p \in Ops : ~Replied(p)
        BY <1>1, <3>1, ZenonT(40) DEF Turns, Unsent, Waiting
      <3>3. Posted' = {Len(sq) + 1} /\ \A p \in Ops : ~Replied(p)'
        BY <2>2, <2>3, <3>2 DEF NoReply
      <3>4. Turns'
        BY <1>1, <1>2, <3>2, <3>3 DEF Turns
      <3> QED
        BY <1>1, <2>2, <3>1, <3>4, KnownStays
    <2> QED
      BY <2>4, <2>5, <2>6 DEF TripInv
  <1> QED
    BY <1>4, <1>5, Zenon DEF PostSend

\* write and flush.
LEMMA TripWrites ==
  ASSUME TripInv, FrameInv, ClientInv, MainTypes, NEW c \in {"write", "flush"}, Post(c),
         UNCHANGED <<request, held, region, reply, owed, open>>
  PROVE  TripInv'
  <1>1. /\ main = "call" /\ script[at] = c /\ UNCHANGED data_mr /\ UNCHANGED <<cq, cur, step>>
        /\ UNCHANGED <<recv_bl, send_bl, image_mr, flush_type, answer>>
    BY DEF Post, Call, replicaVars
  <1>2. main \notin Dead /\ at # at + 1
    BY <1>1, ScriptsAssumption DEF Dead, MainTypes
  <1>3. CASE main' = "crashed"
    BY <1>3, TripEnds DEF Dead
  <1>4. CASE Return /\ UNCHANGED <<op, sq>>
    <2>1. Moves
      BY <1>1, <1>2, <1>4 DEF Moves, Return, InCall, Unsent, Waiting
    <2> QED
      BY <1>1, <1>2, <1>4, <2>1, TripMain, ZenonT(40) DEF InFrame
  <1>5. CASE /\ \E o \in Ops \ Allocated : op' = [op EXCEPT ![o] = c] /\ sq' = Append(sq, o)
             /\ Go("insert")
    <2>1. PICK o \in Ops \ Allocated : op' = [op EXCEPT ![o] = c] /\ sq' = Append(sq, o)
      BY <1>5, Zenon
    <2>2. main' = "insert" /\ UNCHANGED <<script, at>>
      BY <1>5 DEF Go
    <2>3. Moves
      BY <1>1, <1>2, <2>2 DEF Moves, InCall, Unsent, Waiting
    <2>4. NoReply
      BY <1>1, <1>2, <2>1, <2>2, TripPosts, Zenon
    <2>5. Posted' = Posted
      <3>1. c \in Callback /\ c # "none"
        BY DEF Callback
      <3> QED
        BY <1>2, <2>1, <3>1, PostedNow, Zenon
    <2>6. NoRequest
      BY <2>5 DEF NoRequest
    <2> QED
      BY <1>1, <1>2, <2>3, <2>4, <2>6, TripStays, Zenon
  <1> QED
    BY <1>3, <1>4, <1>5, Zenon DEF Post, Go

\* A call that got its answer returns; the answer of init_replica has set the descriptor.
LEMMA TripReturns ==
  ASSUME TripInv, FrameInv, InTime, ClientInv, MainTypes, Answered,
         UNCHANGED <<request, held, region, reply, owed, open>>
  PROVE  TripInv'
  <1>1. /\ main = "wait" /\ main' = "call" /\ at' = at + 1 /\ script' = script /\ answer # "none"
        /\ op' = [o \in Ops |-> IF ~Outlives(o) THEN op[o]
                                ELSE IF op[o] = "init" THEN "stale_init" ELSE "stale_finish"]
        /\ UNCHANGED <<sq, cq, cur, step, data_mr>>
        /\ UNCHANGED <<recv_bl, send_bl, image_mr, flush_type, answer>>
    BY DEF Answered, WaitEnds, InTime, Return, queueVars, flagVars, replicaVars
  <1>2. main \notin Dead /\ at # at + 1
    BY <1>1, ScriptsAssumption DEF Dead, MainTypes
  <1>3. \A o \in Ops : ~Outlives(o)
    BY <1>1, <1>2 DEF FrameInv
  <1>4. op' = op
    <2>1. op \in [Ops -> Callback \cup {Free}]
      BY DEF ClientInv, Typed
    <2> QED
      BY <1>1, <1>3, <2>1
  <1>5. Calls
    BY <1>2, ZenonT(40) DEF TripInv
  <1>6. Moves
    BY <1>1, <1>2, <1>5, ZenonT(40) DEF Moves, Calls, InCall, Unsent, Waiting
  <1>7. NoReply /\ NoRequest
    BY <1>1, <1>2, <1>3, <1>4, NothingPosted
  <1> QED
    BY <1>1, <1>2, <1>6, <1>7, TripStays, ZenonT(40)

\* The main thread.
LEMMA TripOfMain ==
  ASSUME ~CallsFail, TripInv, FrameInv, InTime, ClientInv, MainTypes, MainThread,
         UNCHANGED <<request, held, region, reply, owed, open>>
  PROVE  TripInv'
  <1>0. at # at + 1
    BY ScriptsAssumption DEF MainTypes
  <1>1. CASE Construct \/ WaitEstablished \/ Prepare \/ SetHead \/ Spin
    <2>1. /\ main = "call" /\ main' = "call" /\ script' = script /\ at' = at + 1
          /\ script[at] # "init_replica" /\ (script[at] = "set_head" => data_mr')
          /\ data_mr => data_mr'
      <3>1. CASE SetHead
        <4>1. data_mr' = TRUE
          BY <3>1, Zenon DEF SetHead, Ok
        <4> QED
          BY <3>1, <4>1 DEF SetHead, Call, Return
      <3>2. CASE Construct \/ WaitEstablished \/ Prepare \/ Spin
        BY <3>2, SMTT(30) DEF Construct, Started, RegisterFails, ConstructorThrows, WaitEstablished, Prepare,
                    Spin, Call, Return
      <3> QED
        BY <1>1, <3>1, <3>2, ZenonT(40)
    <2>2. /\ UNCHANGED <<op, sq, cq, cur>>
          /\ UNCHANGED <<recv_bl, send_bl, image_mr, flush_type, answer>>
      BY <1>1, ZenonT(40) DEF Construct, WaitEstablished, Prepare, SetHead, Spin, chVars, flagVars, replicaVars
    <2>3. step' = step \/ {step, step'} \cap Working = {}
      BY <1>1 DEF Construct, Started, RegisterFails, ConstructorThrows, WaitEstablished, Prepare,
                  SetHead, Spin, chVars, Working
    <2>4. Moves /\ main \notin Dead /\ main \notin InFrame
      BY <1>0, <2>1 DEF Moves, InCall, Unsent, Waiting, Dead, InFrame
    <2> QED
      BY <2>2, <2>3, <2>4, TripMain
  <1>2. CASE Inserted \/ Wait \/ Disconnect
    <2>1. /\ \/ main = "insert_recv" /\ main' = "send" /\ at' = at
             \/ main = "insert_send" /\ main' = "wait" /\ at' = at
             \/ main = "insert" /\ main' = "call" /\ at' = at + 1
             \/ main = "wait" /\ main' = "wait" /\ at' = at
             \/ main = "call" /\ script[at] = "disconnect" /\ main' = "disconnecting" /\ at' = at
             \/ main = "disconnecting" /\ main' = "call" /\ at' = at + 1
          /\ script' = script
      BY <1>2, ZenonT(40) DEF Inserted, StartWait, Wait, Disconnect, Call, Go, Return
    <2>2. /\ UNCHANGED <<op, sq, cq, cur, step, data_mr>>
          /\ UNCHANGED <<recv_bl, send_bl, image_mr, flush_type, answer>>
      BY <1>2, ZenonT(40) DEF Inserted, Wait, Disconnect, chVars, queueVars, flagVars, replicaVars
    <2>3. main \notin Dead /\ (at' # at => main \notin InFrame)
      BY <2>1 DEF Dead, InFrame
    <2>4. Calls
      BY <2>3, ZenonT(40) DEF TripInv
    <2>5. Moves
      BY <1>0, <2>1, <2>2, <2>4 DEF Moves, Calls, InCall, Unsent, Waiting
    <2> QED
      BY <2>2, <2>3, <2>5, TripMain
  <1>3. CASE InitReplica \/ CloseReplica
    BY <1>3, TripAsks
  <1>4. CASE PostRecv
    BY <1>4, TripReceives
  <1>5. CASE PostSend
    BY <1>5, TripSends
  <1>6. CASE Answered
    BY <1>6, TripReturns
  <1>7. CASE Write \/ Flush
    BY <1>7, TripWrites DEF Write, Flush
  <1>8. CASE Join
    BY <1>8, TripEnds DEF Join, Go, Dead
  <1> QED
    BY <1>1, <1>2, <1>3, <1>4, <1>5, <1>6, <1>7, <1>8, Zenon DEF MainThread

\* The completion read first is not there any more.
LEMMA TripReads ==
  ASSUME ClientInv, cq # << >>, cq' = Tail(cq), op' = op, NEW o \in Ops,
         \E i \in DOMAIN cq' : cq'[i].ctx = o /\ cq'[i].status = "success"
  PROVE  \E i \in DOMAIN cq : cq[i].ctx = o /\ cq[i].status = "success"
  <1>1. \A i \in DOMAIN Tail(cq) : i + 1 \in DOMAIN cq /\ Tail(cq)[i] = cq[i + 1]
    BY TailFacts DEF ClientInv, Typed
  <1> QED
    BY <1>1

\* th1, except for the callbacks.
LEMMA TripOfLoop ==
  ASSUME TripInv, FrameInv, ClientInv, MainTypes, main \notin Dead,
         \/ (WaitOk \/ GetNone \/ GetError) /\ UNCHANGED clientVars
         \/ EventReady \/ ConnectionEvent \/ GetOp \/ Delete,
         UNCHANGED <<request, held, region, reply, owed, open>>
  PROVE  TripInv'
  <1>0. Calls
    BY DEF TripInv
  <1>1. /\ UNCHANGED <<script, at, main, data_mr>> /\ UNCHANGED sq
        /\ UNCHANGED <<recv_bl, send_bl, image_mr, flush_type, answer>>
    <2>1. UNCHANGED sq
      BY DEF WaitOk, GetNone, GetError, EventReady, ConnectionEvent, GetOp, Delete, queueVars,
             SetHeap, erase, delete, H0
    <2>2. /\ UNCHANGED <<script, at, main, data_mr>>
          /\ UNCHANGED <<recv_bl, send_bl, image_mr, flush_type, answer>>
      BY ZenonT(40) DEF EventReady, ConnectionEvent, GetOp, Delete, clientVars, mainVars, flagVars,
           replicaVars
    <2> QED
      BY <2>1, <2>2
  <1>2. Frame' = Frame
    BY <1>1 DEF Frame
  <1>3. CASE WaitOk \/ GetNone \/ EventReady \/ ConnectionEvent
    <2>1. UNCHANGED <<op, cq, cur>> /\ {step, step'} \cap Working = {}
      <3>1. UNCHANGED <<op, cq>>
        BY <1>3, ZenonT(40) DEF WaitOk, GetNone, EventReady, ConnectionEvent, queueVars
      <3>2. UNCHANGED cur
        BY <1>3, ZenonT(40) DEF WaitOk, GetNone, GetOp, GetError, Delete, EventReady, ConnectionEvent, clientVars
      <3>3. {step, step'} \cap Working = {}
        BY <1>3 DEF WaitOk, GetNone, EventReady, ConnectionEvent, remove_self, Working
      <3> QED
        BY <3>1, <3>2, <3>3
    <2>2. NoReply /\ NoRequest
      BY <1>1, <1>2, <2>1, NothingPosted
    <2> QED
      BY <1>1, <2>2, TripAway
  <1>4. ASSUME op' = op, \A o \in Ops : Outlives(o)' => Outlives(o),
               \A o \in Ops : Replied(o)' => Replied(o)
        PROVE  TripInv'
    <2>1. NoReply
      BY <1>0, <1>1, <1>2, <1>4, ZenonT(40) DEF NoReply, Calls
    <2>2. NoRequest
      BY <1>1, <1>4, PostedStays DEF NoRequest
    <2> QED
      BY <1>1, <2>1, <2>2, TripAway, Zenon
  <1>5. CASE GetError /\ UNCHANGED clientVars
    <2>1. /\ step = "get" /\ step' = "epoll" /\ cq # << >> /\ cq' = Tail(cq) /\ UNCHANGED <<op, cur>>
      BY <1>5 DEF GetError, clientVars
    <2>2. \A o \in Ops : Replied(o)' => Replied(o)
      BY <2>1, TripReads, ZenonT(40) DEF Replied, Calling
    <2> QED
      BY <1>4, <2>1, <2>2, ZenonT(40) DEF Outlives
  <1>6. CASE GetOp
    <2>1. /\ step = "get" /\ step' = "callback" /\ cq # << >> /\ cq' = Tail(cq) /\ op' = op
          /\ cur' = Head(cq).ctx /\ Head(cq).status = "success"
      BY <1>6 DEF GetOp, SetHeap, erase, H0
    <2>2. 1 \in DOMAIN cq /\ Head(cq) = cq[1]
      BY <2>1, TailFacts, ZenonT(40) DEF ClientInv, Typed
    <2>3. \A o \in Ops : Replied(o)' => Replied(o)
      BY <2>1, <2>2, TripReads, ZenonT(40) DEF Replied
    <2> QED
      BY <1>4, <2>1, <2>3 DEF Outlives
  <1>7. CASE Delete
    <2>1. /\ step = "delete" /\ step' = "epoll" /\ op' = [op EXCEPT ![cur] = Free] /\ cq' = cq
      BY <1>7, ZenonT(40) DEF Delete, SetHeap, delete, H0
    <2>2. /\ op \in [Ops -> Callback \cup {Free}] /\ Free \notin Callback
          /\ \A i \in DOMAIN sq : sq[i] \in Ops /\ sq[i] # cur
      BY OpsAssumption DEF ClientInv, Typed, ContextsLive, Allocated
    <2>3. \A o \in Ops : op'[o] = IF o = cur THEN Free ELSE op[o]
      BY <2>1, <2>2
    <2>4. Free \notin Frames
      BY <2>2, ZenonT(40) DEF Frames, Callback
    <2>5. \A o \in Ops : (Replied(o)' => Replied(o)) /\ (Outlives(o)' => Outlives(o) /\ op'[o] = op[o])
      <3>1. ASSUME NEW o \in Ops PROVE Replied(o)' => Replied(o)
        BY <2>1, <2>3, <2>4, ZenonT(40) DEF Replied, Calling
      <3>2. ASSUME NEW o \in Ops PROVE Outlives(o)' => Outlives(o) /\ op'[o] = op[o]
        BY <2>1, <2>3, <2>4, ZenonT(40) DEF Outlives, Frames
      <3> QED
        BY <3>1, <3>2, ZenonT(40)
    <2>6. NoReply
      <3>1. \A i \in DOMAIN sq' : op'[sq'[i]] \notin Frames
        BY <1>0, <1>1, <2>2, <2>3, ZenonT(40) DEF Calls
      <3>2. \A o \in Ops : Outlives(o)' => op'[o] = Frame'
        BY <1>0, <1>2, <2>5, ZenonT(40) DEF Calls
      <3> QED
        BY <2>5, <3>1, <3>2, ZenonT(40) DEF NoReply
    <2>7. NoRequest
      BY <1>1, <2>2, <2>3, PostedStays, ZenonT(40) DEF NoRequest
    <2> QED
      BY <1>1, <2>6, <2>7, TripAway, Zenon
  <1> QED
    BY <1>3, <1>5, <1>6, <1>7

LEMMA CallsAway ==
  ASSUME Calls, UNCHANGED <<script, at, main, data_mr, op, sq, cur, step, image_mr, answer>>
  PROVE  Calls'
  BY DEF Calls, Outlives, Frame, Before

\* The callback that runs is the only one that waits for a reply.
LEMMA OnlyReplied ==
  ASSUME FrameInv, ClientInv, main \notin Dead, RunCallback, op[cur] \in Frames
  PROVE  /\ main \in InFrame /\ answer = "none" /\ Replied(cur)
         /\ \A o \in Ops : ~Outlives(o)' /\ ~Replied(o)'
  <1>1. step \in Calling /\ step' = "delete" /\ UNCHANGED <<op, cq, cur>>
    BY ZenonT(40) DEF RunCallback, queueVars, Calling
  <1>2. cur \in Ops /\ Outlives(cur) /\ Replied(cur)
    BY <1>1 DEF FrameInv, Working, Outlives, Replied, Frames, Calling
  <1>3. \A o \in Ops : Outlives(o) => o = cur
    BY <1>2 DEF FrameInv
  <1>4. \A i \in DOMAIN cq : cq[i].ctx # cur
    BY DEF ClientInv, ContextsLive
  <1>5. \A o \in Ops : ~Outlives(o)'
    BY <1>1, <1>3 DEF Outlives
  <1>6. \A o \in Ops : op[o] \in Frames => o = cur
    BY <1>1, <1>3 DEF Outlives, Frames, Calling
  <1>7. \A o \in Ops : ~Replied(o)'
    BY <1>1, <1>4, <1>6 DEF Replied, Calling
  <1> QED
    BY <1>2, <1>5, <1>7, ZenonT(40) DEF FrameInv

\* While the descriptor is taken nothing is on its way.
LEMMA TripDescribes ==
  ASSUME ~CallsFail, TripInv, FrameInv, ClientInv, SystemTypes, main \notin Dead, Describe,
         UNCHANGED <<request, held, region, reply, owed, open>>
  PROVE  TripInv'
  <1>1. CASE main' \in Dead
    BY <1>1, TripEnds
  <1>2. CASE main' \notin Dead
    <2>1. /\ UNCHANGED <<script, at, main, data_mr>> /\ UNCHANGED <<op, sq, cq, cur>>
          /\ UNCHANGED <<recv_bl, send_bl, answer>> /\ {step, step'} \subseteq Calling
      BY <1>2, ZenonT(40) DEF Describe, queueVars, flagVars, Dead, Calling
    <2>2. image_mr' = image_mr \/ image_mr' # Nil
      BY <1>2, DescribeTakes DEF Describe
    <2>3. Replied(cur) /\ cur \in Ops
      <3>1. cur \in Ops /\ op[cur] \notin Stale
        BY <2>1 DEF FrameInv, Working, Calling
      <3> QED
        BY <2>1, <3>1 DEF Describe, Replied, Stale, Frames
    <2>4. \A o \in Ops : Replied(o)' = Replied(o) /\ Outlives(o)' = Outlives(o)
      BY <2>1 DEF Replied, Outlives, Calling
    <2>5. Calls /\ Said /\ (Unclosed => Turns /\ Known) /\ Unclosed' = Unclosed
      BY <2>1 DEF TripInv, Unclosed
    <2>6. NoReply /\ Posted' = Posted
      BY <2>1, <2>4, <2>5, PostedStays DEF NoReply, Calls, Frame
    <2>7. Calls'
      <3>1. \A c : Before(c)' => Before(c)
        BY <2>1 DEF Before
      <3> QED
        BY <2>1, <2>2, <2>5, <2>6, <3>1 DEF Calls, NoReply
    <2>8. Said'
      BY <2>1, <2>5, <2>6, SaidStays
    <2>9. ASSUME Unclosed PROVE Turns' /\ Known'
      <3>1. Turns /\ Known /\ answer = "none"
        BY <2>3, <2>5, <2>9 DEF Turns
      <3>2. Turns'
        BY <2>1, <2>4, <2>6, <3>1 DEF Turns
      <3>3. Describes(reply)' = Describes(reply) /\ Describes(recv_bl)' = Describes(recv_bl)
        BY <2>1 DEF Describes
      <3>4. Known'
        BY <2>1, <2>4, <3>1, <3>3 DEF Known
      <3> QED
        BY <3>2, <3>4
    <2> QED
      BY <2>5, <2>7, <2>8, <2>9 DEF TripInv
  <1> QED
    BY <1>1, <1>2

\* init_replica gets its answer when the descriptor has been taken.
LEMMA TripOpens ==
  ASSUME TripInv, TakenInv, FrameInv, ClientInv, main \notin Dead, cur \in Ops, RunCallback,
         op[cur] = "init", answer' = "ok", UNCHANGED <<main, image_mr, flush_type>>,
         UNCHANGED <<request, held, region, reply, owed, open>>
  PROVE  TripInv'
  <1>1. UNCHANGED <<op, sq, script, at, data_mr, recv_bl, send_bl>> /\ step = "typed"
    BY DEF RunCallback, queueVars
  <1>2. /\ main \in InFrame /\ answer = "none" /\ Replied(cur)
        /\ \A o \in Ops : ~Outlives(o)' /\ ~Replied(o)'
    BY OnlyReplied DEF Frames
  <1>3. Calls /\ Said /\ (Unclosed => Turns /\ Known) /\ Unclosed' = Unclosed
    BY <1>1, ZenonT(40) DEF TripInv, Unclosed
  <1>4. Taken /\ TakenType = flush_type
    BY <1>1 DEF TakenInv, Between, TakenType
  <1>5. Calls'
    <2>1. \A c : Before(c)' => Before(c)
      BY <1>1, ZenonT(40) DEF Before
    <2> QED
      BY <1>1, <1>2, <1>3, <1>4, <2>1, ZenonT(40) DEF Calls, Taken
  <1>6. Said'
    BY <1>1, <1>2, <1>3 DEF Said
  <1>7. ASSUME Unclosed PROVE Turns' /\ Known'
    <2>1. Turns /\ Known
      BY <1>3, <1>7
    <2>2. Posted = {} /\ request = Nil /\ owed = 0 /\ main \in Waiting
      BY <1>2, <2>1 DEF Turns
    <2>3. Posted' = {}
      BY <1>1, <2>2, PostedStays
    <2>4. Turns'
      BY <1>2, <2>2, <2>3, ZenonT(40) DEF Turns, Waiting, Unsent
    <2>5. Known'
      BY <1>2, <1>4, <1>7, <2>2 DEF Known, Taken
    <2> QED
      BY <2>4, <2>5
  <1> QED
    BY <1>3, <1>5, <1>6, <1>7, ZenonT(40) DEF TripInv

\* The reply to close_replica is taken.
LEMMA TripFinishes ==
  ASSUME TripInv, FrameInv, ClientInv, MainTypes, main \notin Dead, cur \in Ops, RunCallback,
         op[cur] = "finish", UNCHANGED <<main, image_mr>>,
         UNCHANGED <<request, held, region, reply, owed, open>>
  PROVE  TripInv'
  <1>1. UNCHANGED <<op, sq, script, at, data_mr, recv_bl, send_bl>> /\ step = "callback"
    BY DEF RunCallback, queueVars
  <1>2. main \in InFrame /\ \A o \in Ops : ~Outlives(o)' /\ ~Replied(o)'
    BY OnlyReplied DEF Frames
  <1>3. Calls /\ Said
    BY DEF TripInv
  <1>4. script[at] = "close_replica"
    <2>1. Outlives(cur)
      BY <1>1, ZenonT(40) DEF Outlives
    <2>2. Frame = "finish" /\ script[at] \in {"init_replica", "close_replica"}
      BY <1>2, <1>3, <2>1 DEF Calls, InFrame, InCall
    <2> QED
      BY <2>2 DEF Frame
  <1>5. ~Unclosed'
    <2>1. at \in 1..at
      BY ScriptsAssumption, SMTT(30) DEF MainTypes
    <2> QED
      BY <1>1, <1>4, <2>1 DEF Unclosed
  <1>6. Calls'
    <2>1. \A c : Before(c)' => Before(c)
      BY <1>1 DEF Before
    <2> QED
      BY <1>1, <1>2, <1>3, <1>4, <2>1 DEF Calls
  <1>7. Said'
    BY <1>1, <1>2, <1>3, <1>5, ZenonT(40) DEF Said
  <1> QED
    BY <1>5, <1>6, <1>7 DEF TripInv

LEMMA TripOfCallback ==
  ASSUME TripInv, TakenInv, FrameInv, ClientInv, MainTypes, main \notin Dead, RunCallback,
         UNCHANGED <<request, held, region, reply, owed, open>>
  PROVE  TripInv'
  <1>0. cur \in Ops /\ op[cur] \notin Stale
    BY DEF FrameInv, RunCallback, Working
  <1>1. CASE main' \in Dead
    BY <1>1, TripEnds
  <1>2. CASE op[cur] = "init" /\ main' \notin Dead
    <2>1. InitReplied
      BY <1>2 DEF RunCallback
    <2>2. answer' = "ok" /\ UNCHANGED <<main, image_mr, flush_type>>
      BY <1>2, <2>1 DEF InitReplied, replicaVars
    <2> QED
      BY <1>0, <1>2, <2>2, TripOpens
  <1>3. CASE op[cur] = "finish" /\ main' \notin Dead
    <2>1. FinishReplied
      BY <1>3 DEF RunCallback
    <2>2. UNCHANGED <<main, image_mr>>
      BY <1>3, <2>1 DEF FinishReplied, Dead, replicaVars
    <2> QED
      BY <1>0, <1>3, <2>2, TripFinishes, ZenonT(40)
  <1>4. CASE op[cur] \in {"none", "write", "flush"}
    <2>1. /\ UNCHANGED <<script, at, main, data_mr>> /\ UNCHANGED <<op, sq, cq, cur>>
          /\ UNCHANGED <<recv_bl, send_bl, image_mr, flush_type, answer>>
          /\ step = "callback" /\ step' = "delete"
      BY <1>4, ZenonT(40) DEF RunCallback, NoCallback, flagVars, replicaVars, queueVars
    <2>2. \A o \in Ops : (Replied(o)' => Replied(o)) /\ (Outlives(o)' => Outlives(o))
      BY <2>1, ZenonT(40) DEF Replied, Outlives, Calling
    <2>3. NoReply
      BY <2>1, <2>2, ZenonT(40) DEF NoReply, TripInv, Calls, Frame
    <2>4. NoRequest
      BY <2>1, PostedStays, ZenonT(40) DEF NoRequest
    <2> QED
      BY <2>1, <2>3, <2>4, TripAway, ZenonT(40)
  <1> QED
    BY <1>0, <1>1, <1>2, <1>3, <1>4, ZenonT(40) DEF RunCallback, Stale

\* A completion that answers nothing is queued.
LEMMA NoAnswerQueued ==
  ASSUME ClientInv, UNCHANGED <<op, cur, step>>, NEW p \in Ops, NEW s \in {"success", "error"},
         cq' = Append(cq, [ctx |-> p, status |-> s]), s = "success" => op[p] \notin Frames
  PROVE  \A o \in Ops : Replied(o)' => Replied(o)
  <1> DEFINE c == [ctx |-> p, status |-> s]
  <1>1. cq \in Seq(Completion) /\ c \in Completion
    BY DEF ClientInv, Typed, Completion, Context
  <1>2. /\ DOMAIN cq' = DOMAIN cq \cup {Len(cq) + 1} /\ cq'[Len(cq) + 1] = c
        /\ \A i \in DOMAIN cq : cq'[i] = cq[i]
    <2>1. cq' = Append(cq, c)
      OBVIOUS
    <2> HIDE DEF c
    <2> QED
      BY <1>1, <2>1, AppendFacts, SMTT(30)
  <1>3. c.ctx = p /\ c.status = s
    BY ZenonT(40)
  <1> SUFFICES ASSUME NEW o \in Ops, op[o] \in Frames,
                      NEW i \in DOMAIN cq', cq'[i].ctx = o, cq'[i].status = "success"
               PROVE  Replied(o)
    BY ZenonT(40) DEF Replied
  <1>4. i # Len(cq) + 1
    BY <1>2, <1>3, ZenonT(40)
  <1> QED
    BY <1>2, <1>4 DEF Replied

\* An op leaves the send queue, with whatever status.
LEMMA SentOp ==
  ASSUME TripInv, ClientInv, main \notin Dead, NEW s \in {"success", "error"}, SendCompletes(s),
         UNCHANGED <<script, at, cur>>
  PROVE  NoReply /\ sq # << >> /\ sq' = Tail(sq) /\ op' = op
  <1>1. /\ sq # << >> /\ sq' = Tail(sq) /\ UNCHANGED <<op, step>>
        /\ cq' = Append(cq, [ctx |-> Head(sq), status |-> s])
    BY DEF SendCompletes, Push
  <1>2. /\ Head(sq) \in Ops /\ 1 \in DOMAIN sq /\ Head(sq) = sq[1]
        /\ \A i \in DOMAIN Tail(sq) : i + 1 \in DOMAIN sq /\ Tail(sq)[i] = sq[i + 1]
    BY <1>1, TailFacts, ZenonT(40) DEF ClientInv, Typed
  <1>3. \A i \in DOMAIN sq : op[sq[i]] \notin Frames
    BY DEF TripInv, Calls
  <1>4. \A o \in Ops : Replied(o)' => Replied(o)
    BY <1>1, <1>2, <1>3, NoAnswerQueued, ZenonT(40)
  <1>5. \A i \in DOMAIN sq' : op'[sq'[i]] \notin Frames
    BY <1>1, <1>2, <1>3, ZenonT(40)
  <1>6. \A o \in Ops : Outlives(o)' => op'[o] = Frame'
    BY <1>1 DEF TripInv, Calls, Outlives, Frame
  <1> QED
    BY <1>1, <1>4, <1>5, <1>6, ZenonT(40) DEF NoReply

\* A write is carried out, or an op is flushed.
LEMMA TripOfCard ==
  ASSUME TripInv, ClientInv, MainTypes, Sent \/ Flushed,
         UNCHANGED <<request, held, region, reply, owed, open>>
  PROVE  TripInv'
  <1>1. /\ main \notin Dead /\ UNCHANGED <<script, at, main, data_mr, cur>>
        /\ UNCHANGED <<recv_bl, send_bl, image_mr, flush_type, answer>>
    BY ZenonT(40) DEF Sent, Flushed, clientVars, mainVars, flagVars, replicaVars
  <1>2. ASSUME NEW s \in {"success", "error"}, SendCompletes(s) PROVE TripInv'
    <2>1. NoReply /\ sq # << >> /\ sq' = Tail(sq) /\ op' = op
      BY <1>1, <1>2, SentOp
    <2>2. NoRequest
      BY <2>1, PostedLess DEF NoRequest
    <2> QED
      BY <1>1, <2>1, <2>2, TripAway, ZenonT(40)
  <1>3. ASSUME NEW p \in rq, RecvCompletes(p, "error") PROVE TripInv'
    <2>1. /\ cq' = Append(cq, [ctx |-> p, status |-> "error"]) /\ UNCHANGED <<op, sq, step>>
          /\ p \in Ops
      BY <1>3 DEF RecvCompletes, Push, ClientInv, Typed
    <2>2. \A o \in Ops : Replied(o)' => Replied(o)
      BY <1>1, <2>1, NoAnswerQueued, ZenonT(40)
    <2>3. NoReply
      BY <1>1, <2>1, <2>2, ZenonT(40) DEF NoReply, TripInv, Calls, Outlives, Frame
    <2>4. NoRequest
      BY <2>1, PostedStays, ZenonT(40) DEF NoRequest
    <2> QED
      BY <1>1, <2>3, <2>4, TripAway, ZenonT(40)
  <1> QED
    BY <1>2, <1>3, ZenonT(40) DEF Sent, Flushed

\* The request is received: it was the only one.
LEMMA TripRequested ==
  ASSUME TripInv, ClientInv, MainTypes, RequestDelivered
  PROVE  TripInv'
  <1>1. /\ main \notin Dead /\ UNCHANGED <<script, at, main, data_mr, cur>>
        /\ UNCHANGED <<recv_bl, send_bl, image_mr, flush_type, answer>>
        /\ op[Head(sq)] = "none" /\ SendCompletes("success")
    BY DEF RequestDelivered, SqHead, Sent, clientVars, mainVars, flagVars, replicaVars
  <1>2. /\ request' = IF send_bl.type = "INIT_REQUEST"
                      THEN [type |-> "INIT_REQUEST", size |-> ImageSize] ELSE send_bl
        /\ UNCHANGED <<held, region, reply, owed, open>>
    BY DEF RequestDelivered, S!Receive
  <1>3. NoReply /\ sq # << >> /\ sq' = Tail(sq) /\ op' = op
    BY <1>1, SentOp
  <1>4. Calls /\ Said /\ (Unclosed => Turns /\ Known) /\ Unclosed' = Unclosed
    BY <1>1 DEF TripInv, Unclosed
  <1>5. Calls'
    <2>1. Moves
      <3>1. at # at + 1
        BY ScriptsAssumption, SMTT(30) DEF MainTypes
      <3> QED
        BY <1>1, <1>4, <3>1 DEF Moves, Calls
    <2> QED
      BY <1>1, <1>3, <1>4, <2>1, CallsStay, ZenonT(40)
  <1>6. Said'
    <2>1. Unclosed => request'.type # "FINISHED_REQUEST"
      BY <1>2, <1>4, ZenonT(40) DEF Said
    <2> QED
      BY <1>1, <1>2, <1>3, <1>4, <2>1, ZenonT(40) DEF Said, NoReply
  <1>7. ASSUME Unclosed PROVE Turns' /\ Known'
    <2>1. Turns /\ Known
      BY <1>4, <1>7
    <2>2. /\ \A i \in Posted' : i + 1 \in Posted /\ i + 1 # 1
          /\ 1 \in DOMAIN sq /\ Head(sq) = sq[1]
      BY <1>3, PostedLess, ZenonT(40)
    <2>3. 1 \in Posted
      BY <1>1, <2>2 DEF Posted
    <2>4. Posted' = {}
      BY <2>1, <2>2, <2>3, Zenon DEF Turns
    <2>5. owed = 0 /\ main \in Waiting /\ answer = "none" /\ \A o \in Ops : ~Replied(o)'
      BY <1>3, <2>1, <2>3, ZenonT(40) DEF Turns, NoReply
    <2>6. Turns'
      BY <1>1, <1>2, <2>4, <2>5 DEF Turns
    <2> QED
      BY <1>1, <1>2, <1>3, <2>1, <2>6, KnownStays
  <1> QED
    BY <1>4, <1>5, <1>6, <1>7, ZenonT(40) DEF TripInv

\* The reply arrives: it is the only one, and describes the region there is.
LEMMA TripReplied ==
  ASSUME TripInv, ReplyDelivered
  PROVE  TripInv'
  <1>1. /\ main \notin Dead /\ UNCHANGED <<script, at, main, data_mr, op, sq, cur, step>>
        /\ UNCHANGED <<send_bl, image_mr, flush_type, answer>> /\ recv_bl' = reply
    BY DEF ReplyDelivered, ReplyArrives, RecvCompletes, mainVars, flagVars, replicaVars
  <1>2. owed > 0 /\ owed' = owed - 1 /\ UNCHANGED <<request, held, region, reply, open>>
    BY DEF ReplyDelivered, S!ReplyLeaves
  <1>3. owed # 0
    BY <1>2
  <1>4. Calls /\ Said /\ (Unclosed => Turns /\ Known) /\ Unclosed' = Unclosed
    BY <1>1 DEF TripInv, Unclosed
  <1>5. Calls'
    BY <1>1, <1>4, CallsAway, ZenonT(40)
  <1>6. Said'
    BY <1>1, <1>2, <1>3, <1>4 DEF Said
  <1>7. ASSUME Unclosed PROVE Turns' /\ Known'
    <2>1. Turns /\ Known
      BY <1>4, <1>7, ZenonT(40)
    <2>2. Posted' = Posted
      BY <1>1, PostedStays
    <2>3. Posted = {} /\ request = Nil /\ owed' = 0 /\ main \in Waiting /\ answer = "none"
      BY <1>2, <1>3, <2>1 DEF Turns
    <2>4. Turns'
      BY <1>1, <1>2, <2>2, <2>3, ZenonT(40) DEF Turns
    <2>5. open => Describes(recv_bl)'
      BY <1>1, <1>2, <1>3, <2>1, ZenonT(40) DEF Known, Describes
    <2>6. Known'
      BY <1>1, <1>2, <2>3, <2>5, ZenonT(40) DEF Known
    <2> QED
      BY <2>4, <2>6
  <1> QED
    BY <1>4, <1>5, <1>6, <1>7, ZenonT(40) DEF TripInv

\* The request is served: nothing else was on its way.
LEMMA TripServed ==
  ASSUME ~Faulty, TripInv, ServerInv, SizeAsked, MainTypes, S!ServeInit \/ S!ServeFinished,
         UNCHANGED vars
  PROVE  TripInv'
  <1>1. /\ UNCHANGED <<script, at, main, data_mr, op, sq, cq, cur, step>>
        /\ UNCHANGED <<recv_bl, send_bl, image_mr, flush_type, answer>>
    BY ZenonT(40) DEF vars, chVars, clientVars, mainVars, flagVars, replicaVars
  <1>2. open /\ request # Nil /\ request' = Nil /\ open' = open
    BY DEF S!ServeInit, S!ServeFinished, S!Served
  <1> SUFFICES ASSUME main \notin Dead PROVE Calls' /\ Said' /\ (Unclosed' => Turns' /\ Known')
    BY <1>1 DEF TripInv
  <1>3. Calls /\ Said /\ (Unclosed => Turns /\ Known) /\ Unclosed' = Unclosed
    BY <1>1, ZenonT(40) DEF TripInv, Unclosed
  <1>4. /\ Posted' = Posted /\ \A o \in Ops : Replied(o)' = Replied(o)
    BY <1>1, PostedStays DEF Replied
  <1>5. Calls'
    BY <1>1, <1>3, CallsAway
  <1>6. CASE S!ServeFinished
    <2>1. reply'.type \in {"FINISHED_SUCCESSED", "FINISHED_FAILED"} /\ request.type = "FINISHED_REQUEST"
      BY <1>6 DEF S!ServeFinished
    <2>2. ~Unclosed'
      BY <1>2, <1>3, <2>1, ZenonT(40) DEF Said
    <2>3. Said'
      BY <1>1, <1>3, <1>4, <2>1, <2>2 DEF Said
    <2> QED
      BY <1>5, <2>2, <2>3
  <1>7. CASE S!ServeInit
    <2>1. PICK k \in Keys : /\ region' = [key |-> k, size |-> held'.size]
                            /\ reply' = [type |-> "INIT_SUCCESSED", key |-> k,
                                         size |-> held'.size, pmem |-> held'.pmem]
      BY <1>7, ZenonT(40) DEF S!ServeInit
    <2>2. Said'
      BY <1>1, <1>2, <1>3, <1>4, <2>1, ZenonT(40) DEF Said
    <2>3. ASSUME Unclosed PROVE Turns' /\ Known'
      <3>1. Turns /\ Known
        BY <1>3, <2>3
      <3>2. /\ Posted = {} /\ owed = 0 /\ main \in Waiting /\ answer = "none"
            /\ \A o \in Ops : ~Replied(o)
        BY <1>2, <3>1 DEF Turns
      <3>3. owed' \in {0, 1}
        <4>1. owed' = IF owed + 1 <= SqSize THEN owed + 1 ELSE SqSize
          BY <1>7, ZenonT(40) DEF S!ServeInit, S!Served
        <4> QED
          BY <3>2, <4>1, QueuesAssumption
      <3>4. Turns'
        BY <1>1, <1>2, <1>4, <3>2, <3>3, ZenonT(40) DEF Turns, Waiting, Unsent
      <3>5. Describes(reply)'
        <4>1. held'.size = ImageSize
          BY <1>7, HeldByInit, Zenon DEF SizeAsked, S!ServeInit, S!MemoryFor
        <4>2. region' # Nil
          BY <2>1, <4>1, ReplicaAssumption, SMTT(30) DEF Region
        <4> QED
          BY <2>1, <4>2 DEF Describes
      <3>6. Known'
        BY <1>1, <1>4, <3>2, <3>5 DEF Known
      <3> QED
        BY <3>4, <3>6
    <2> QED
      BY <1>3, <1>5, <2>2, <2>3, ZenonT(40)
  <1> QED
    BY <1>6, <1>7, ZenonT(40)

\* The connection is down: replies are dropped, and the server closes.
LEMMA TripCloses ==
  ASSUME ~Faulty, TripInv, MainTypes, ServerCloses
  PROVE  TripInv'
  <1>1. UNCHANGED vars /\ (S!ReplyLeaves \/ S!ReceiveFlushed \/ S!Close)
    BY DEF ServerCloses
  <1>2. /\ UNCHANGED <<script, at, main, data_mr, op, sq, cq, cur, step>>
        /\ UNCHANGED <<recv_bl, send_bl, image_mr, flush_type, answer>>
    BY <1>1 DEF vars, chVars, clientVars, mainVars, flagVars, replicaVars
  <1> SUFFICES ASSUME main \notin Dead PROVE Calls' /\ Said' /\ (Unclosed' => Turns' /\ Known')
    BY <1>2 DEF TripInv
  <1>3. Calls /\ Said /\ (Unclosed => Turns /\ Known) /\ Unclosed' = Unclosed
    BY <1>2, ZenonT(40) DEF TripInv, Unclosed
  <1>4. /\ Posted' = Posted /\ \A o \in Ops : Replied(o)' = Replied(o)
    BY <1>2, PostedStays DEF Replied
  <1>5. Calls'
    BY <1>2, <1>3, CallsAway
  <1>6. CASE S!Close
    <2>1. ~open' /\ request' = Nil /\ owed' = 0 /\ reply'.type = "garbage"
      BY <1>6 DEF S!Close, S!Unwritten
    <2>2. Said'
      BY <1>2, <1>3, <1>4, <2>1, ZenonT(40) DEF Said
    <2>3. Unclosed => Turns'
      BY <1>2, <1>3, <1>4, <2>1, ZenonT(40) DEF Turns
    <2>4. Unclosed => Known'
      BY <1>2, <1>3, <2>1 DEF Known
    <2> QED
      BY <1>3, <1>5, <2>2, <2>3, <2>4
  <1>7. CASE S!ReplyLeaves \/ S!ReceiveFlushed
    <2>1. /\ UNCHANGED <<request, held, region, reply, open>>
          /\ owed' = owed \/ (owed > 0 /\ owed' = owed - 1)
      BY <1>7 DEF S!ReplyLeaves, S!ReceiveFlushed
    <2>2. owed' # 0 => owed # 0
      BY <2>1, SMTT(30)
    <2>3. Said'
      BY <1>2, <1>3, <1>4, <2>1, <2>2 DEF Said
    <2>4. ASSUME Unclosed PROVE Turns' /\ Known'
      <3>1. Turns /\ Known
        BY <1>3, <2>4
      <3>2. owed \in {0, 1} /\ (owed = 0 => owed' = 0) /\ owed' \in {0, 1}
        BY <2>1, <3>1, SMTT(30) DEF Turns
      <3>3. Turns'
        BY <1>2, <1>4, <2>1, <3>1, <3>2, ZenonT(40) DEF Turns
      <3>4. Describes(reply)' = Describes(reply) /\ Describes(recv_bl)' = Describes(recv_bl)
        BY <1>2, <2>1, ZenonT(40) DEF Describes
      <3>5. Known'
        BY <1>2, <1>4, <2>1, <2>2, <3>1, <3>4 DEF Known
      <3> QED
        BY <3>3, <3>5
    <2> QED
      BY <1>3, <1>5, <2>3, <2>4
  <1> QED
    BY <1>1, <1>6, <1>7

-----------------------------------------------------------------------------

\* Both threads of the client keep to the frames in the composed system, too.
LEMMA SystemFrames == SystemSpec /\ []InTime => []FrameInv
  <1>1. SystemInit => FrameInv
    <2> SUFFICES ASSUME Init PROVE FrameInv
      BY DEF SystemInit
    <2>1. \A o \in Ops : op[o] = Free /\ Free \notin Stale /\ Free \notin {"init", "finish"}
      BY OpsAssumption DEF Init, Stale, Callback
    <2> QED
      BY <2>1 DEF Init, FrameInv, Outlives, Working
  <1>2. ASSUME ClientInv, FrameInv, InTime, [SystemNext]_allVars
        PROVE  FrameInv'
    <2>1. CASE MainThread
      BY <1>2, <2>1, FrameOfMain
    <2>2. CASE ReactorThread
      BY <1>2, <2>2, FrameOfReactor
    <2>3. CASE LinkUp \/ LinkFails \/ Flushed \/ Sent \/ ReplyDelivered \/ WriteRefused
      <3>1. UNCHANGED <<op, cur, step, answer, main>>
        BY <2>3, ZenonT(40) DEF LinkUp, LinkFails, LinkDown, Flushed, Sent, ReplyDelivered, ReplyArrives,
             RecvCompletes, SendCompletes, WriteRefused, clientVars, mainVars, flagVars
      <3> QED
        BY <1>2, <3>1, FrameOfOthers
    <2>4. CASE Idle \/ ServerServes \/ ServerCloses \/ UNCHANGED allVars
      <3>1. UNCHANGED <<op, cur, step, answer, main>>
        BY <2>4, ZenonT(40) DEF Idle, Spinning, Stopped, ServerServes, ServerCloses, LinkDown, allVars, vars,
             chVars, clientVars, mainVars, flagVars
      <3> QED
        BY <1>2, <3>1, FrameOfOthers
    <2> QED
      BY <1>2, <2>1, <2>2, <2>3, <2>4, Zenon DEF SystemNext, ClientAlone, RequestDelivered, WriteCarriedOut
  <1> QED
    BY <1>1, <1>2, SystemKeepsClient, PTL DEF SystemSpec

LEMMA SystemTrips ==
  ASSUME ~CallsFail, ~Faulty
  PROVE  SystemSpec /\ []InTime => [](TripInv /\ TakenInv)
  <1>1. SystemInit => TripInv /\ TakenInv
    <2> SUFFICES ASSUME SystemInit PROVE Calls /\ Said /\ Turns /\ Known /\ step \notin Between
      BY DEF TripInv, TakenInv
    <2>1. Posted = {} /\ request = Nil /\ owed = 0 /\ reply.type = "garbage" /\ recv_bl.type = "garbage"
      BY DEF SystemInit, Init, S!ServerInit, S!Unwritten, Posted
    <2>2. \A o \in Ops : ~Outlives(o) /\ ~Replied(o)
      <3>1. \A o \in Ops : op[o] = Free /\ Free \notin {"init", "finish"}
        BY OpsAssumption DEF SystemInit, Init, Callback
      <3> QED
        BY <3>1 DEF Outlives, Replied, Frames
    <2>3. \A c : ~Before(c)
      BY SMTT(30) DEF SystemInit, Init, Before
    <2>4. Calls
      BY <2>2, <2>3, SMTT(30) DEF SystemInit, Init, Calls, InCall
    <2>5. Said
      BY <2>1, <2>2, ZenonT(40) DEF SystemInit, Init, Said
    <2>6. Turns /\ Known
      BY <2>1, <2>2 DEF SystemInit, Init, Turns, Known
    <2>7. step \notin Between
      BY DEF SystemInit, Init, Between
    <2> QED
      BY <2>4, <2>5, <2>6, <2>7
  <1>2. /\ ClientInv /\ ServerInv /\ SystemTypes /\ FrameInv /\ InTime /\ TripInv /\ TakenInv
        /\ [SystemNext]_allVars
        => TripInv'
    <2> SUFFICES ASSUME ClientInv, ServerInv, SystemTypes, FrameInv, InTime, TripInv, TakenInv,
                        [SystemNext]_allVars
                 PROVE  TripInv'
      OBVIOUS
    <2>0. MainTypes /\ SizeAsked
      BY DEF SystemTypes
    <2>1. UNCHANGED serverVars => UNCHANGED <<request, held, region, reply, owed, open>>
      BY DEF serverVars
    <2>2. CASE MainThread /\ UNCHANGED serverVars
      BY <2>0, <2>1, <2>2, TripOfMain
    <2>3. CASE ReactorThread /\ UNCHANGED serverVars
      <3>1. main \notin Dead
        BY <2>3 DEF ReactorThread
      <3>2. CASE Describe \/ RunCallback
        BY <2>0, <2>1, <2>3, <3>1, <3>2, TripDescribes, TripOfCallback, ZenonT(40)
      <3>3. CASE \/ (WaitOk \/ GetNone \/ GetError) /\ UNCHANGED clientVars
                 \/ EventReady \/ ConnectionEvent \/ GetOp \/ Delete
        BY <2>0, <2>1, <2>3, <3>1, <3>3, TripOfLoop, ZenonT(40)
      <3> QED
        BY <2>3, <3>2, <3>3 DEF ReactorThread
    <2>4. CASE WriteCarriedOut \/ (Flushed /\ UNCHANGED serverVars)
      BY <2>0, <2>1, <2>4, TripOfCard DEF WriteCarriedOut
    <2>5. CASE RequestDelivered \/ ReplyDelivered
      BY <2>0, <2>5, TripRequested, TripReplied
    <2>6. CASE ServerServes \/ ServerCloses
      BY <2>0, <2>6, TripServed, TripCloses DEF ServerServes
    <2>7. CASE \/ Idle \/ WriteRefused \/ UNCHANGED allVars
               \/ (LinkUp \/ LinkFails) /\ UNCHANGED serverVars
      <3>1. /\ UNCHANGED <<script, at, main, data_mr>> /\ UNCHANGED <<op, sq, cq, cur, step>>
            /\ UNCHANGED <<recv_bl, send_bl, image_mr, flush_type, answer>>
        BY <2>7, ZenonT(40) DEF Idle, Spinning, Stopped, WriteRefused, LinkUp, LinkFails, LinkDown, allVars,
             vars, chVars, queueVars, clientVars, mainVars, flagVars, replicaVars
      <3>2. UNCHANGED <<request, held, region, reply, owed, open>>
        BY <2>7, Zenon DEF Idle, WriteRefused, allVars, serverVars
      <3>3. CASE main \in Dead
        BY <3>1, <3>3, TripEnds, ZenonT(40)
      <3>4. CASE main \notin Dead
        <4>1. NoReply /\ NoRequest
          BY <3>1, <3>4, NothingPosted DEF Frame
        <4> QED
          BY <2>0, <3>1, <3>2, <3>4, <4>1, TripAway, ZenonT(40)
      <3> QED
        BY <3>3, <3>4
    <2> QED
      BY <2>2, <2>3, <2>4, <2>5, <2>6, <2>7, Zenon DEF SystemNext, ClientAlone
  <1>3. /\ ClientInv /\ ServerInv /\ SystemTypes /\ FrameInv /\ TripInv /\ TakenInv
        /\ [SystemNext]_allVars
        => TakenInv'
    <2> SUFFICES ASSUME ClientInv, ServerInv, SystemTypes, FrameInv, TripInv, TakenInv,
                        [SystemNext]_allVars
                 PROVE  TakenInv'
      OBVIOUS
    <2>1. ASSUME main \notin Dead, step \in Calling, op[cur] \in {"init", "stale_init"}
          PROVE  cur \in Ops /\ Replied(cur)
      BY <2>1 DEF FrameInv, Working, Calling, Replied, Stale, Frames
    <2>2. ServerServes /\ Unclosed /\ main \notin Dead => step \notin Between
      <3> SUFFICES ASSUME ServerServes, Unclosed, main \notin Dead, step \in Between PROVE FALSE
        OBVIOUS
      <3>1. request # Nil
        BY DEF ServerServes, S!ServeInit, S!ServeFinished
      <3>2. cur \in Ops /\ Replied(cur)
        BY <2>1 DEF TakenInv, Taken, Between, Calling
      <3> QED
        BY <3>1, <3>2 DEF TripInv, Turns
    <2>3. Describe /\ main \notin Dead /\ Unclosed /\ open => Describes(recv_bl)
      <3>1. Describe => step \in Calling /\ op[cur] \in {"init", "stale_init"}
        BY DEF Describe, Calling
      <3> QED
        BY <2>1, <3>1 DEF TripInv, Known
    <2> QED
      BY <2>2, <2>3, TakenKept
  <1> QED
    BY <1>1, <1>2, <1>3, SystemTyped, SystemFrames, PTL DEF SystemSpec

\* However often the replica is opened: if neither side's calls fail and every
\* reply comes in time, the descriptor the client goes on to write through is the
\* region the server has registered, and it flushes to persistence exactly if that
\* memory is persistent.
THEOREM DescriptorCurrentInTime ==
  ASSUME ~CallsFail, ~Faulty
  PROVE  SystemSpec /\ []InTime => []DescriptorCurrent
  <1>1. SystemTypes /\ TripInv => DescriptorCurrent
    <2> SUFFICES ASSUME SystemTypes, TripInv, WritesNext
                 PROVE  /\ image_mr # Nil /\ image_mr = region
                        /\ (flush_type = "PERSISTENT") = held.pmem
      BY DEF DescriptorCurrent
    <2>1. Unclosed
      <3>1. at \in Nat /\ script[at] # "close_replica" /\ \A i \in 1..at - 1 : script[i] # "close_replica"
        BY ScriptsAssumption DEF WritesNext, Before, SystemTypes, MainTypes
      <3>2. \A i \in 1..at : i = at \/ i \in 1..at - 1
        BY <3>1, SMTT(30)
      <3> QED
        BY <3>1, <3>2 DEF Unclosed
    <2> QED
      BY <2>1 DEF TripInv, Known, WritesNext, Dead
  <1> QED
    BY <1>1, SystemTyped, SystemTrips, PTL

\* write and flush find the source buffer and the remote memory.
LEMMA WriteFindsMemory ==
  ASSUME WritesPrepared, TripInv, MainTypes, NEW c \in {"write", "flush"}, Call(c)
  PROVE  data_mr /\ image_mr # Nil
  <1>1. main = "call" /\ script[at] = c /\ main \notin Dead
    BY DEF Call, Dead
  <1>2. script \in Scripts /\ at \in DOMAIN script
    BY ScriptsAssumption DEF MainTypes
  <1>3. Before("init_replica") /\ Before("set_head")
    BY <1>1, <1>2, ZenonT(40) DEF WritesPrepared, Before
  <1> QED
    BY <1>1, <1>3 DEF TripInv, Calls

\* A callback ends the process only in init_replica, on the reply to a close_replica.
LEMMA DescribeCrashes ==
  ASSUME ~CallsFail, TripInv, FrameInv, MainTypes, main \notin Dead, Describe, main' = "crashed"
  PROVE  script[at] = "init_replica" /\ Before("close_replica")
  <1>1. step = "callback" /\ op[cur] = "init" /\ cur \in Ops
    <2>1. step = "callback"
      BY DEF Describe, Dead
    <2>2. cur \in Ops /\ op[cur] \notin Stale
      BY <2>1 DEF FrameInv, Working
    <2> QED
      BY <2>1, <2>2 DEF Describe, Stale
  <1>2. Calls /\ Said
    BY DEF TripInv
  <1>3. Outlives(cur) /\ Replied(cur)
    BY <1>1 DEF Outlives, Replied, Frames, Calling
  <1>4. script[at] = "init_replica" /\ recv_bl.type \notin {"garbage", "INIT_FAILED"}
    BY <1>1, <1>2, <1>3 DEF Calls, Said, Frame
  <1>5. recv_bl.type # "INIT_SUCCESSED"
    <2> DEFINE known == [mr |-> image_mr, ft |-> flush_type, threw |-> FALSE]
               type(pmem) == IF pmem THEN "PERSISTENT" ELSE "VISIBILITY"
               mr == [key |-> recv_bl.key, size |-> recv_bl.size]
               ft == IF recv_bl.size < ImageSize THEN flush_type ELSE type(recv_bl.pmem /\ TRUE)
    <2>1. SUFFICES ASSUME recv_bl.type = "INIT_SUCCESSED" PROVE FALSE
      BY ZenonT(40)
    <2>2. PICK g \in get_remote_descriptor(recv_bl) : g.threw
      BY <1>1 DEF Describe, Dead
    <2>3. g = [known EXCEPT !.mr = mr, !.ft = ft]
      BY <2>1, Zenon DEF get_remote_descriptor, Ok
    <2> QED
      BY <2>2, <2>3
  <1>6. PICK i \in 1..at : script[i] = "close_replica"
    BY <1>2, <1>4, <1>5 DEF Said, Unclosed
  <1>7. i \in 1..at - 1
    <2>1. i # at
      BY <1>4, <1>6
    <2>2. at \in Nat
      BY ScriptsAssumption, SMTT(30) DEF MainTypes
    <2> QED
      BY <2>1, <2>2
  <1> QED
    BY <1>4, <1>6, <1>7, ZenonT(40) DEF Before

LEMMA NoCallbackCrashes ==
  ASSUME TripInv, FrameInv, main \notin Dead, RunCallback
  PROVE  main' = main
  <1>1. step \in {"callback", "typed"} /\ cur \in Ops /\ op[cur] \notin Stale
    BY DEF FrameInv, RunCallback, Working
  <1>2. CASE op[cur] = "init"
    BY <1>2 DEF RunCallback, InitReplied
  <1>3. CASE op[cur] = "finish"
    <2>1. Replied(cur)
      BY <1>1, <1>3 DEF Replied, Frames, Calling
    <2>2. recv_bl.type # "garbage"
      BY <1>1, <2>1 DEF TripInv, Said
    <2> QED
      BY <1>3, <2>2 DEF RunCallback, FinishReplied
  <1>4. CASE op[cur] \in {"none", "write", "flush"}
    BY <1>4 DEF RunCallback, NoCallback
  <1> QED
    BY <1>1, <1>2, <1>3, <1>4, ZenonT(40) DEF RunCallback, Stale

\* If neither side's calls fail, every reply comes in time and writes are prepared,
\* the client crashes nowhere but in an init_replica after a close_replica: no
\* descriptor or source buffer is used before it is set, no callback writes to a
\* frame that is gone, and no other reply fails to decode.
THEOREM CrashesOnlyReopeningInTime ==
  ASSUME ~CallsFail, ~Faulty, WritesPrepared
  PROVE  SystemSpec /\ []InTime => []CrashesOnlyReopening
  <1>1. SystemInit => CrashesOnlyReopening
    BY DEF SystemInit, Init, CrashesOnlyReopening
  <1>2. /\ SystemTypes /\ FrameInv /\ TripInv /\ CrashesOnlyReopening /\ [SystemNext]_allVars
        => CrashesOnlyReopening'
    <2> SUFFICES ASSUME SystemTypes, FrameInv, TripInv, CrashesOnlyReopening,
                        [SystemNext]_allVars, main' = "crashed"
                 PROVE  (script[at] = "init_replica" /\ Before("close_replica"))'
      BY DEF CrashesOnlyReopening
    <2>0. MainTypes
      BY DEF SystemTypes
    <2>1. CASE UNCHANGED <<script, at, main>>
      BY <2>1 DEF CrashesOnlyReopening, Before
    <2>2. CASE MainThread
      <3>1. CASE Write \/ Flush
        <4>1. PICK c \in {"write", "flush"} : Post(c)
          BY <3>1, ZenonT(40) DEF Write, Flush
        <4>2. data_mr /\ image_mr # Nil
          BY <2>0, <4>1, WriteFindsMemory, ZenonT(40) DEF Post
        <4> QED
          BY <4>1, <4>2 DEF Post, Return, Go
      <3>2. CASE Construct \/ Prepare
        BY <3>2 DEF Construct, Started, RegisterFails, ConstructorThrows, Prepare, Return
      <3>3. CASE Wait
        BY <3>3 DEF Wait
      <3>4. CASE \/ WaitEstablished \/ InitReplica \/ CloseReplica \/ PostRecv \/ PostSend \/ Inserted
                 \/ Answered \/ SetHead \/ Spin \/ Disconnect \/ Join
        <4>1. main' # "crashed"
          BY <3>4, ZenonT(40) DEF WaitEstablished, InitReplica, CloseReplica, Ask, PostRecv, PostSend, StartWait,
               Inserted, Answered, SetHead, Spin, Disconnect, Join, Return, Go
        <4> QED
          BY <4>1
      <3> QED
        BY <2>2, <3>1, <3>2, <3>3, <3>4, Zenon DEF MainThread
    <2>3. CASE ReactorThread
      <3>0. main \notin Dead
        BY <2>3 DEF ReactorThread
      <3>1. CASE Describe
        <4>1. UNCHANGED <<script, at>>
          BY <3>1 DEF Describe
        <4>2. script[at] = "init_replica" /\ Before("close_replica")
          BY <2>0, <3>0, <3>1, DescribeCrashes, ZenonT(40)
        <4> QED
          BY <4>1, <4>2, ZenonT(40) DEF Before
      <3>3. CASE RunCallback
        BY <3>0, <3>3, NoCallbackCrashes DEF Dead
      <3>2. CASE \/ (WaitOk \/ GetNone \/ GetError) /\ UNCHANGED clientVars
                 \/ EventReady \/ ConnectionEvent \/ GetOp \/ Delete
        <4>1. UNCHANGED <<script, at, main>>
          BY <3>2, ZenonT(40) DEF EventReady, ConnectionEvent, GetOp, Delete, clientVars, mainVars
        <4> QED
          BY <2>1, <4>1
      <3> QED
        BY <2>3, <3>1, <3>2, <3>3 DEF ReactorThread
    <2>4. CASE LinkUp \/ LinkFails \/ Flushed \/ Sent \/ ReplyDelivered \/ WriteRefused
      <3>1. UNCHANGED <<script, at, main>>
        BY <2>4, ZenonT(40) DEF LinkUp, LinkFails, Flushed, Sent, ReplyDelivered, ReplyArrives, WriteRefused,
             clientVars, mainVars
      <3> QED
        BY <2>1, <3>1
    <2>5. CASE Idle \/ ServerServes \/ ServerCloses \/ UNCHANGED allVars
      <3>1. UNCHANGED <<script, at, main>>
        BY <2>5, ZenonT(40) DEF Idle, Spinning, Stopped, ServerServes, ServerCloses, allVars, vars, clientVars,
             mainVars
      <3> QED
        BY <2>1, <3>1
    <2> QED
      BY <2>2, <2>3, <2>4, <2>5, Zenon DEF SystemNext, ClientAlone, RequestDelivered, WriteCarriedOut
  <1> QED
    BY <1>1, <1>2, SystemTyped, SystemFrames, SystemTrips, PTL DEF SystemSpec

\* The hypothesis on time, from the constants: a build that starts cost_time at 0,
\* and a server whose reply is there before the timeout.
LEMMA RepliesInTime ==
  ASSUME ~UnsetFails, Slowest < Timeout
  PROVE  SystemSpec => []InTime
  <1>1. SystemInit => cost_time # Unset
    BY ClientAssumption DEF SystemInit, Init
  <1>2. SystemTypes /\ cost_time # Unset /\ [SystemNext]_allVars => (cost_time # Unset)'
    <2> SUFFICES ASSUME SystemTypes, cost_time # Unset, [SystemNext]_allVars PROVE cost_time' # Unset
      OBVIOUS
    <2>1. cost_time \in Nat
      BY ClientAssumption DEF SystemTypes, MainTypes
    <2>2. CASE cost_time' \in {0, cost_time, cost_time + 1}
      BY <2>1, <2>2, ClientAssumption
    <2>3. CASE MainThread
      <3>1. CASE PostSend \/ Inserted \/ Wait \/ Answered
        BY <2>2, <3>1, ZenonT(40) DEF PostSend, Inserted, StartWait, Wait, Answered
      <3>2. CASE \/ Construct \/ WaitEstablished \/ InitReplica \/ CloseReplica \/ PostRecv \/ Prepare
                 \/ SetHead \/ Write \/ Flush \/ Spin \/ Disconnect \/ Join
        <4>1. cost_time' = cost_time
          BY <3>2, ZenonT(40) DEF Construct, WaitEstablished, InitReplica, CloseReplica, Ask, PostRecv, Prepare,
               SetHead, Write, Flush, Post, Spin, Disconnect, Join
        <4> QED
          BY <4>1
      <3> QED
        BY <2>3, <3>1, <3>2, Zenon DEF MainThread
    <2>4. CASE \/ ReactorThread \/ LinkUp \/ LinkFails \/ Flushed \/ Sent \/ ReplyDelivered
               \/ WriteRefused
      <3>1. cost_time' = cost_time
        BY <2>4, ZenonT(40) DEF ReactorThread, EventReady, ConnectionEvent, GetOp, Describe, RunCallback, Delete,
             LinkUp, LinkFails, Flushed, Sent, ReplyDelivered, ReplyArrives, WriteRefused, clientVars, mainVars
      <3> QED
        BY <3>1
    <2>5. CASE Idle \/ ServerServes \/ ServerCloses \/ UNCHANGED allVars
      <3>1. cost_time' = cost_time
        BY <2>5, ZenonT(40) DEF Idle, Spinning, Stopped, ServerServes, ServerCloses, allVars, vars, clientVars,
             mainVars
      <3> QED
        BY <3>1
    <2> QED
      BY <2>3, <2>4, <2>5, Zenon DEF SystemNext, ClientAlone, RequestDelivered, WriteCarriedOut
  <1>3. SystemTypes /\ cost_time # Unset => InTime
    BY ClientAssumption DEF SystemTypes, MainTypes, InTime, TimedOut
  <1> QED
    BY <1>1, <1>2, <1>3, SystemTyped, PTL DEF SystemSpec

\* With such constants both hold of every behaviour.
THEOREM ReplicaInTime ==
  ASSUME ~CallsFail, ~Faulty, ~UnsetFails, Slowest < Timeout, WritesPrepared
  PROVE  SystemSpec => [](DescriptorCurrent /\ CrashesOnlyReopening)
  BY RepliesInTime, DescriptorCurrentInTime, CrashesOnlyReopeningInTime, PTL
=============================================================================
