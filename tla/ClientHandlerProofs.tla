------------------------- MODULE ClientHandlerProofs -------------------------
(* Who owns the operations of the client while two threads work on them,   *)
(* for every script, every server, any number of operations and queues of  *)
(* any length.                                                             *)
EXTENDS ClientHandler, SequenceTheorems, TLAPS

(* Queues, by position.                                                    *)

\* What Append adds, by position.
LEMMA AppendFacts ==
  ASSUME NEW S, NEW s \in Seq(S), NEW e \in S
  PROVE  /\ Append(s, e) \in Seq(S)
         /\ DOMAIN Append(s, e) = DOMAIN s \cup {Len(s) + 1}
         /\ Len(s) + 1 \notin DOMAIN s
         /\ Append(s, e)[Len(s) + 1] = e
         /\ \A i \in DOMAIN s : Append(s, e)[i] = s[i]
  <1>1. Len(s) \in Nat /\ DOMAIN s = 1..Len(s)
    BY LenProperties
  <1>2. /\ Append(s, e) \in Seq(S) /\ Len(Append(s, e)) = Len(s) + 1
        /\ \A i \in 1..Len(s) : Append(s, e)[i] = s[i]
        /\ Append(s, e)[Len(s) + 1] = e
    BY AppendProperties
  <1>3. DOMAIN Append(s, e) = 1..(Len(s) + 1)
    BY <1>2, LenProperties
  <1> QED
    BY <1>1, <1>2, <1>3

\* What Tail keeps, by position.
LEMMA TailFacts ==
  ASSUME NEW S, NEW s \in Seq(S), s # << >>
  PROVE  /\ Tail(s) \in Seq(S) /\ Head(s) \in S
         /\ 1 \in DOMAIN s /\ Head(s) = s[1]
         /\ \A i \in DOMAIN Tail(s) : i + 1 \in DOMAIN s /\ i + 1 # 1 /\ Tail(s)[i] = s[i + 1]
         /\ \A i, j \in DOMAIN Tail(s) : i # j => i + 1 # j + 1
  <1>1. Len(s) \in Nat \ {0} /\ DOMAIN s = 1..Len(s)
    BY LenProperties, EmptySeq
  <1>2. /\ Tail(s) \in Seq(S) /\ Head(s) \in S /\ Len(Tail(s)) = Len(s) - 1
        /\ \A i \in 1..Len(Tail(s)) : Tail(s)[i] = s[i + 1]
    BY HeadTailProperties
  <1>3. DOMAIN Tail(s) = 1..(Len(s) - 1)
    BY <1>2, LenProperties
  <1>4. Head(s) = s[1]
    OBVIOUS
  <1> QED
    BY <1>1, <1>2, <1>3, <1>4

-----------------------------------------------------------------------------

\* The main thread is between posting an op and entering it into the table.
Inserting == {"insert_recv", "insert_send", "insert"}

\* th1 is between taking an op from the completion queue and deleting it.
Working == {"callback", "described", "typed", "delete"}

Typed ==
  /\ op \in [Ops -> Callback \cup {Free}] /\ callback_table \subseteq Ops
  /\ rq \subseteq Ops /\ sq \in Seq(Ops) /\ cq \in Seq(Completion)

\* Each thread holds an op only where its code does: an op it had already would
\* be lost with the next one.
HeldInTurn ==
  main \notin Dead => /\ main \in Inserting => posted \in Ops
                      /\ main \notin Inserting => posted = Nullptr
                      /\ step \notin Working => cur = Nullptr

ClientInv == Typed /\ HeldInTurn /\ NoOpLost /\ ContextsLive

-----------------------------------------------------------------------------
(* Kinds of steps.                                                         *)

\* A step that touches no op and no queue.
LEMMA QuietStep ==
  ASSUME ClientInv, main \notin Dead,
         UNCHANGED <<op, callback_table, rq, sq, cq, posted, cur>>,
         main' \in Dead \/ (main' \in Inserting <=> main \in Inserting),
         main' \notin Dead /\ step' \notin Working => cur = Nullptr
  PROVE  ClientInv'
  BY DEF ClientInv, Typed, HeldInTurn, NoOpLost, ContextsLive, Allocated

\* A receive is posted.
LEMMA RecvPosted ==
  ASSUME ClientInv, main \notin Dead, main \notin Inserting, main' \in Inserting,
         NEW o \in Ops \ Allocated, NEW cb \in Callback,
         op' = [op EXCEPT ![o] = cb], rq' = rq \cup {o}, posted' = o,
         UNCHANGED <<callback_table, sq, cq, cur, step>>
  PROVE  ClientInv'
  <1>1. Allocated' = Allocated \cup {o} /\ op' \in [Ops -> Callback \cup {Free}]
    BY OpsAssumption DEF ClientInv, Typed, Allocated
  <1>2. Typed'
    BY <1>1 DEF ClientInv, Typed
  <1>3. HeldInTurn'
    BY DEF ClientInv, HeldInTurn
  <1>4. NoOpLost'
    BY <1>1, OpsAssumption DEF ClientInv, HeldInTurn, NoOpLost, Allocated
  <1>5. ContextsLive'
    BY <1>1, OpsAssumption DEF ClientInv, ContextsLive, Allocated
  <1> QED
    BY <1>2, <1>3, <1>4, <1>5 DEF ClientInv

\* A send, a write or a flush is posted.
LEMMA SendPosted ==
  ASSUME ClientInv, main \notin Dead, main \notin Inserting, main' \in Inserting,
         NEW o \in Ops \ Allocated, NEW cb \in Callback,
         op' = [op EXCEPT ![o] = cb], sq' = Append(sq, o), posted' = o,
         UNCHANGED <<callback_table, rq, cq, cur, step>>
  PROVE  ClientInv'
  <1>1. Allocated' = Allocated \cup {o} /\ op' \in [Ops -> Callback \cup {Free}]
    BY OpsAssumption DEF ClientInv, Typed, Allocated
  <1>2. /\ sq' \in Seq(Ops) /\ DOMAIN sq' = DOMAIN sq \cup {Len(sq) + 1}
        /\ Len(sq) + 1 \notin DOMAIN sq /\ sq'[Len(sq) + 1] = o
        /\ \A i \in DOMAIN sq : sq'[i] = sq[i]
    BY AppendFacts DEF ClientInv, Typed
  <1>3. Typed'
    BY <1>1, <1>2 DEF ClientInv, Typed
  <1>4. HeldInTurn'
    BY DEF ClientInv, HeldInTurn
  <1>5. NoOpLost'
    BY <1>1, OpsAssumption DEF ClientInv, HeldInTurn, NoOpLost, Allocated
  <1>6. ContextsLive'
    BY <1>1, <1>2, OpsAssumption DEF ClientInv, ContextsLive, Allocated
  <1> QED
    BY <1>3, <1>4, <1>5, <1>6 DEF ClientInv

\* The posted op is entered into callback_table, whether or not it still exists.
LEMMA InsertStep ==
  ASSUME ClientInv, main \in Inserting, main' \notin Inserting, Insert,
         UNCHANGED <<op, rq, sq, cq, cur, step>>
  PROVE  ClientInv'
  <1>1. main \notin Dead /\ posted \in Ops
    BY DEF Inserting, Dead, ClientInv, HeldInTurn
  <1> QED
    BY <1>1 DEF Insert, ClientInv, Typed, HeldInTurn, NoOpLost, ContextsLive, Allocated

\* A failed completion is dropped; its op stays in callback_table.
LEMMA DroppedCompletion ==
  ASSUME ClientInv, main \notin Dead, cq # << >>, cq' = Tail(cq), step \notin Working,
         UNCHANGED <<op, callback_table, rq, sq, main, posted, cur>>
  PROVE  ClientInv'
  <1>1. /\ cq' \in Seq(Completion)
        /\ \A i \in DOMAIN cq' : i + 1 \in DOMAIN cq /\ cq'[i] = cq[i + 1]
        /\ \A i, j \in DOMAIN cq' : i # j => i + 1 # j + 1
    BY TailFacts DEF ClientInv, Typed
  <1>2. ContextsLive'
    BY <1>1 DEF ClientInv, ContextsLive, Allocated
  <1> QED
    BY <1>1, <1>2 DEF ClientInv, Typed, HeldInTurn, NoOpLost, Allocated

\* A successful completion: its op goes from callback_table to th1.
LEMMA TakenCompletion ==
  ASSUME ClientInv, main \notin Dead, GetOp
  PROVE  ClientInv'
  <1>1. /\ cq # << >> /\ cq' = Tail(cq) /\ cur' = Head(cq).ctx /\ step = "get" /\ step' = "callback"
        /\ callback_table' = callback_table \ {Head(cq).ctx}
        /\ UNCHANGED <<op, rq, sq, main, posted>>
    BY DEF GetOp, SetHeap, erase, H0, mainVars
  <1>2. /\ cq' \in Seq(Completion) /\ 1 \in DOMAIN cq /\ cur' = cq[1].ctx
        /\ \A i \in DOMAIN cq' : i + 1 \in DOMAIN cq /\ i + 1 # 1 /\ cq'[i] = cq[i + 1]
        /\ \A i, j \in DOMAIN cq' : i # j => i + 1 # j + 1
    BY <1>1, TailFacts DEF ClientInv, Typed
  <1>3. cur = Nullptr
    BY <1>1 DEF ClientInv, HeldInTurn, Working
  <1>4. cur' \in Allocated
    BY <1>2 DEF ClientInv, ContextsLive
  <1>5. Typed' /\ HeldInTurn'
    BY <1>1, <1>2 DEF ClientInv, Typed, HeldInTurn, Working
  <1>6. NoOpLost'
    BY <1>1, <1>2, <1>3, OpsAssumption DEF ClientInv, NoOpLost, Allocated
  <1>7. ContextsLive'
    BY <1>1, <1>2, <1>4 DEF ClientInv, ContextsLive, Allocated
  <1> QED
    BY <1>5, <1>6, <1>7 DEF ClientInv

\* th1 deletes the op it has worked on: nothing else refers to it.
LEMMA DeleteStep ==
  ASSUME ClientInv, main \notin Dead, Delete
  PROVE  ClientInv'
  <1>1. /\ step = "delete" /\ step' = "epoll" /\ cur' = Nullptr
        /\ op' = [op EXCEPT ![cur] = Free]
        /\ UNCHANGED <<callback_table, rq, sq, cq, main, posted>>
    BY DEF Delete, SetHeap, delete, H0, mainVars
  <1>2. Allocated' = Allocated \ {cur} /\ op' \in [Ops -> Callback \cup {Free}]
    BY <1>1, Zenon DEF ClientInv, Typed, Allocated
  <1>3. Typed' /\ HeldInTurn'
    BY <1>1, <1>2 DEF ClientInv, Typed, HeldInTurn, Working
  <1>4. NoOpLost'
    BY <1>1, <1>2 DEF ClientInv, NoOpLost
  <1>5. ContextsLive'
    BY <1>1, <1>2, OpsAssumption DEF ClientInv, ContextsLive, Allocated
  <1> QED
    BY <1>3, <1>4, <1>5 DEF ClientInv

\* init_replica or close_replica returns: ops change their mark and no more.
LEMMA AnsweredStep ==
  ASSUME ClientInv, Answered
  PROVE  ClientInv'
  <1>1. /\ main = "wait" /\ main' = "call"
        /\ UNCHANGED <<callback_table, rq, sq, cq, posted, cur, step>>
        /\ op' = [o \in Ops |-> IF ~Outlives(o) THEN op[o]
                                ELSE IF op[o] = "init" THEN "stale_init" ELSE "stale_finish"]
    BY DEF Answered, WaitEnds, Return, queueVars
  <1>2. main \notin Dead /\ main' \notin Dead /\ main \notin Inserting /\ main' \notin Inserting
    BY <1>1 DEF Dead, Inserting
  <1>3. \A o \in Ops : Outlives(o) => op[o] \in Callback
    BY DEF Outlives, Callback
  <1>4. op' \in [Ops -> Callback \cup {Free}] /\ Allocated' = Allocated
    BY <1>1, <1>3, OpsAssumption DEF ClientInv, Typed, Allocated, Callback
  <1> QED
    BY <1>1, <1>2, <1>4 DEF ClientInv, Typed, HeldInTurn, NoOpLost, ContextsLive

-----------------------------------------------------------------------------
(* The card.                                                               *)

\* The oldest send completes.
LEMMA SendCompleted ==
  ASSUME ClientInv, main \notin Dead, NEW status \in {"success", "error"},
         SendCompletes(status), UNCHANGED clientVars
  PROVE  ClientInv'
  <1> DEFINE e == [ctx |-> Head(sq), status |-> status]
  <1>1. /\ sq # << >> /\ sq' = Tail(sq) /\ cq' = Append(cq, e)
        /\ UNCHANGED <<op, callback_table, rq, step, main, posted, cur>>
    BY DEF SendCompletes, Push, clientVars, mainVars
  <1>2. /\ sq' \in Seq(Ops) /\ Head(sq) \in Ops /\ 1 \in DOMAIN sq /\ Head(sq) = sq[1]
        /\ \A i \in DOMAIN sq' : i + 1 \in DOMAIN sq /\ i + 1 # 1 /\ sq'[i] = sq[i + 1]
        /\ \A i, j \in DOMAIN sq' : i # j => i + 1 # j + 1
    BY <1>1, TailFacts DEF ClientInv, Typed
  <1>3. e \in Completion /\ e.ctx = sq[1]
    BY <1>2 DEF Completion, Context
  <1> HIDE DEF e
  <1>4. /\ cq' \in Seq(Completion) /\ DOMAIN cq' = DOMAIN cq \cup {Len(cq) + 1}
        /\ Len(cq) + 1 \notin DOMAIN cq /\ cq'[Len(cq) + 1] = e
        /\ \A i \in DOMAIN cq : cq'[i] = cq[i]
    BY <1>1, <1>3, AppendFacts DEF ClientInv, Typed
  <1>5. ContextsLive'
    BY <1>1, <1>2, <1>3, <1>4 DEF ClientInv, ContextsLive, Allocated
  <1> QED
    BY <1>1, <1>2, <1>4, <1>5 DEF ClientInv, Typed, HeldInTurn, NoOpLost, Allocated

\* A receive completes.
LEMMA RecvCompleted ==
  ASSUME ClientInv, main \notin Dead, NEW status \in {"success", "error"},
         NEW o \in rq, RecvCompletes(o, status), UNCHANGED <<main, posted, cur>>
  PROVE  ClientInv'
  <1> DEFINE e == [ctx |-> o, status |-> status]
  <1>1. /\ rq' = rq \ {o} /\ cq' = Append(cq, e)
        /\ UNCHANGED <<op, callback_table, sq, step>>
    BY ZenonT(40) DEF RecvCompletes, Push
  <1>2. e \in Completion /\ e.ctx = o /\ o \in Allocated
    BY ZenonT(40) DEF ClientInv, Typed, ContextsLive, Completion, Context
  <1> HIDE DEF e
  <1>3. /\ cq' \in Seq(Completion) /\ DOMAIN cq' = DOMAIN cq \cup {Len(cq) + 1}
        /\ Len(cq) + 1 \notin DOMAIN cq /\ cq'[Len(cq) + 1] = e
        /\ \A i \in DOMAIN cq : cq'[i] = cq[i]
    <2>1. cq \in Seq(Completion)
      BY DEF ClientInv, Typed
    <2> QED
      BY <1>1, <1>2, <2>1, AppendFacts, SMTT(30)
  <1>4. ContextsLive'
    <2>1. /\ rq \subseteq Allocated /\ Allocated' = Allocated
          /\ \A k \in DOMAIN sq : sq[k] \in Allocated \ rq /\ sq[k] # cur
          /\ \A k \in DOMAIN cq : cq[k].ctx \in Allocated \ rq /\ cq[k].ctx # cur
          /\ \A k, l \in DOMAIN sq : sq[k] = sq[l] => k = l
          /\ \A k, l \in DOMAIN cq : cq[k].ctx = cq[l].ctx => k = l
          /\ \A k \in DOMAIN sq, l \in DOMAIN cq : sq[k] # cq[l].ctx
          /\ cur # Nullptr => cur \in Allocated \ rq
      BY <1>1 DEF ClientInv, ContextsLive, Allocated
    <2>2. \A k \in DOMAIN cq' : cq'[k].ctx \in Allocated' \ rq' /\ cq'[k].ctx # cur
      <3>1. o # cur
        BY <1>2, <2>1, OpsAssumption, ZenonT(40) DEF Allocated
      <3> QED
        BY <1>1, <1>2, <1>3, <2>1, <3>1, ZenonT(40)
    <2>3. \A k, l \in DOMAIN cq' : cq'[k].ctx = cq'[l].ctx => k = l
      BY <1>2, <1>3, <2>1
    <2>4. \A k \in DOMAIN sq, l \in DOMAIN cq' : sq[k] # cq'[l].ctx
      BY <1>2, <1>3, <2>1
    <2> QED
      BY <1>1, <2>1, <2>2, <2>3, <2>4, ZenonT(40) DEF ContextsLive
  <1> QED
    BY <1>1, <1>3, <1>4 DEF ClientInv, Typed, HeldInTurn, NoOpLost, Allocated

-----------------------------------------------------------------------------
(* The two threads and the invariant.                                      *)

\* Every step of the main thread.
LEMMA MainKeeps ==
  ASSUME ClientInv, MainThread
  PROVE  ClientInv'
  <1> USE DEF Call, Go, Return, Dead, Inserting
  <1>0. main \notin Dead
    BY ZenonT(40) DEF MainThread, Construct, WaitEstablished, InitReplica, CloseReplica, Ask, PostRecv,
           PostSend, Inserted, Wait, Answered, WaitEnds, Prepare, SetHead, Write, Flush, Post,
           Spin, Disconnect, Join, Joined
  <1>1. CASE Construct
    <2>1. /\ UNCHANGED <<op, callback_table, rq, sq, cq, posted, cur>>
          /\ main = "call" /\ main' \in {"call", "exited", "crashed"}
          /\ step = "none"
      BY <1>1 DEF Construct, Started, RegisterFails, ConstructorThrows
    <2>2. cur = Nullptr
      BY <1>0, <2>1 DEF ClientInv, HeldInTurn, Working
    <2> QED
      BY <1>0, <2>1, <2>2, QuietStep
  <1>2. CASE WaitEstablished \/ InitReplica \/ CloseReplica \/ Prepare \/ SetHead \/ Spin
    <2>1. /\ UNCHANGED <<op, callback_table, rq, sq, cq, posted, cur, step>>
          /\ main = "call" /\ main' \in {"call", "recv", "crashed"}
      BY <1>2 DEF WaitEstablished, InitReplica, CloseReplica, Ask, Prepare, SetHead, Spin, chVars
    <2> QED
      BY <1>0, <2>1, QuietStep, ZenonT(40) DEF ClientInv, HeldInTurn
  <1>3. CASE Wait \/ Disconnect
    <2>1. /\ UNCHANGED <<op, callback_table, rq, sq, cq, posted, cur, step>>
          /\ {main, main'} \subseteq {"call", "wait", "disconnecting"}
      BY <1>3 DEF Wait, Disconnect, chVars, queueVars
    <2> QED
      BY <1>0, <2>1, QuietStep DEF ClientInv, HeldInTurn
  <1>4. CASE PostRecv
    <2>1. main = "recv" /\ UNCHANGED <<callback_table, sq, cq, cur, step>>
      BY <1>4 DEF PostRecv
    <2>2. CASE UNCHANGED <<op, rq, posted>> /\ main' = "send"
      BY <1>0, <2>1, <2>2, QuietStep DEF ClientInv, HeldInTurn
    <2>3. CASE \E o \in Ops \ Allocated :
                 op' = [op EXCEPT ![o] = Frame] /\ rq' = rq \cup {o} /\ posted' = o
                 /\ main' = "insert_recv"
      <3>1. PICK o \in Ops \ Allocated :
                 op' = [op EXCEPT ![o] = Frame] /\ rq' = rq \cup {o} /\ posted' = o
                 /\ main' = "insert_recv"
        BY <2>3, Zenon
      <3>2. Frame \in Callback
        BY DEF Frame, Callback
      <3> QED
        BY <1>0, <2>1, <3>1, <3>2, RecvPosted, Zenon
    <2> QED
      BY <1>4, <2>2, <2>3 DEF PostRecv
  <1>5. CASE PostSend
    <2>1. main = "send" /\ UNCHANGED <<callback_table, rq, cq, cur, step>>
      BY <1>5 DEF PostSend
    <2>2. CASE UNCHANGED <<op, sq, posted>> /\ main' = "wait"
      BY <1>0, <2>1, <2>2, QuietStep DEF ClientInv, HeldInTurn
    <2>3. CASE \E o \in Ops \ Allocated :
                 op' = [op EXCEPT ![o] = "none"] /\ sq' = Append(sq, o) /\ posted' = o
                 /\ main' = "insert_send"
      <3>1. "none" \in Callback
        BY DEF Callback
      <3> QED
        BY <1>0, <2>1, <2>3, <3>1, SendPosted, Zenon
    <2> QED
      BY <1>5, <2>2, <2>3 DEF PostSend, StartWait
  <1>6. CASE Inserted
    <2>1. /\ main \in Inserting /\ main' \notin Inserting /\ Insert
          /\ UNCHANGED <<op, rq, sq, cq, cur, step>>
      BY <1>6 DEF Inserted, StartWait
    <2> QED
      BY <2>1, InsertStep
  <1>7. CASE Answered
    BY <1>7, AnsweredStep
  <1>8. CASE Write \/ Flush
    <2>1. PICK c \in {"write", "flush"} : Post(c)
      BY <1>8 DEF Write, Flush
    <2>2. main = "call" /\ UNCHANGED <<callback_table, rq, cq, cur, step>>
      BY <2>1 DEF Post
    <2>3. CASE UNCHANGED <<op, sq, posted>> /\ main' \in {"call", "crashed"}
      BY <1>0, <2>2, <2>3, QuietStep DEF ClientInv, HeldInTurn
    <2>4. CASE \E o \in Ops \ Allocated :
                 op' = [op EXCEPT ![o] = c] /\ sq' = Append(sq, o) /\ posted' = o
                 /\ main' = "insert"
      <3>1. c \in Callback
        BY <2>1 DEF Callback
      <3> QED
        BY <1>0, <2>2, <2>4, <3>1, SendPosted, Zenon
    <2> QED
      BY <2>1, <2>3, <2>4 DEF Post
  <1>9. CASE Join
    <2>1. /\ main' \in Dead /\ UNCHANGED <<rq, sq, cq, posted, cur, step>>
          /\ \/ /\ callback_table' = {}
                /\ op' = [o \in Ops |-> IF o \in callback_table THEN Free ELSE op[o]]
             \/ UNCHANGED <<op, callback_table>>
      BY <1>9 DEF Join, queueVars
    <2> QED
      BY <2>1 DEF ClientInv, Typed, HeldInTurn, NoOpLost, ContextsLive
  <1> QED
    BY <1>1, <1>2, <1>3, <1>4, <1>5, <1>6, <1>7, <1>8, <1>9, ZenonT(40) DEF MainThread

\* Every step of th1.
LEMMA ReactorKeeps ==
  ASSUME ClientInv, ReactorThread
  PROVE  ClientInv'
  <1>0. main \notin Dead
    BY DEF ReactorThread
  <1>1. CASE (WaitOk \/ WaitFails \/ GetNone) /\ UNCHANGED clientVars
    <2>1. /\ UNCHANGED <<op, callback_table, rq, sq, cq, posted, cur, main>>
          /\ step \in {"epoll", "get"}
      BY <1>1 DEF WaitOk, WaitFails, GetNone, clientVars, mainVars, queueVars
    <2>2. cur = Nullptr
      BY <1>0, <2>1 DEF ClientInv, HeldInTurn, Working
    <2> QED
      BY <1>0, <2>1, <2>2, QuietStep
  <1>2. CASE (GetError \/ GetFails) /\ UNCHANGED clientVars
    <2>1. /\ UNCHANGED <<op, callback_table, rq, sq, posted, cur, main>>
          /\ step = "get" /\ (cq' = cq \/ (cq # << >> /\ cq' = Tail(cq)))
      BY <1>2 DEF GetError, GetFails, clientVars, mainVars
    <2>2. step \notin Working /\ cur = Nullptr
      BY <1>0, <2>1 DEF ClientInv, HeldInTurn, Working
    <2>3. CASE cq' = cq
      BY <1>0, <2>1, <2>2, <2>3, QuietStep
    <2>4. CASE cq # << >> /\ cq' = Tail(cq)
      BY <1>0, <2>1, <2>2, <2>4, DroppedCompletion
    <2> QED
      BY <2>1, <2>3, <2>4
  <1>3. CASE EventReady \/ ConnectionEvent
    <2>1. /\ UNCHANGED <<op, callback_table, rq, sq, cq, posted, cur, main>>
          /\ step \in {"epoll", "event"}
      BY <1>3 DEF EventReady, ConnectionEvent, clientVars, mainVars, queueVars
    <2>2. cur = Nullptr
      BY <1>0, <2>1 DEF ClientInv, HeldInTurn, Working
    <2> QED
      BY <1>0, <2>1, <2>2, QuietStep
  <1>4. CASE GetOp
    BY <1>0, <1>4, TakenCompletion
  <1>5. CASE Describe \/ RunCallback
    <2>1. /\ UNCHANGED <<op, callback_table, rq, sq, cq, posted, cur>>
          /\ main' \in {main, "crashed"} /\ step' \in Working
      BY <1>5, ZenonT(40) DEF Describe, RunCallback, InitReplied, FinishReplied, DeadFrame, NoCallback,
                              queueVars, Working
    <2> QED
      BY <1>0, <2>1, QuietStep DEF Dead
  <1>6. CASE Delete
    BY <1>0, <1>6, DeleteStep
  <1> QED
    BY <1>1, <1>2, <1>3, <1>4, <1>5, <1>6 DEF ReactorThread

\* A reply arrives, whatever it says.
LEMMA ReplyKeeps ==
  ASSUME ClientInv, NEW r, ReplyArrives(r)
  PROVE  ClientInv'
  BY RecvCompleted DEF ReplyArrives, mainVars

\* The connection goes down.
LEMMA LinkKeeps ==
  ASSUME ClientInv, main \notin Dead, LinkDown, UNCHANGED <<mainVars, cur>>
  PROVE  ClientInv'
  <1>1. UNCHANGED <<op, callback_table, rq, sq, cq, posted, cur, main, step>>
    BY DEF LinkDown, mainVars, queueVars
  <1> QED
    BY <1>1, QuietStep DEF ClientInv, HeldInTurn

\* Every other step of the card and the network.
LEMMA CardKeeps ==
  ASSUME ClientInv, LinkUp \/ LinkFails \/ Sent \/ Flushed
  PROVE  ClientInv'
  <1>0. main \notin Dead
    BY DEF LinkUp, LinkFails, Sent, Flushed
  <1>1. CASE LinkFails
    BY <1>1, LinkKeeps DEF LinkFails
  <1>2. CASE LinkUp
    <2>1. UNCHANGED <<op, callback_table, rq, sq, cq, posted, cur, main, step>>
      BY <1>2 DEF LinkUp, mainVars, queueVars
    <2> QED
      BY <1>0, <2>1, QuietStep DEF ClientInv, HeldInTurn
  <1>3. CASE Sent
    BY <1>0, <1>3, SendCompleted DEF Sent
  <1>4. CASE Flushed
    <2>1. CASE SendCompletes("error") /\ UNCHANGED clientVars
      BY <1>0, <2>1, SendCompleted
    <2>2. CASE (\E o \in rq : RecvCompletes(o, "error")) /\ UNCHANGED clientVars
      BY <1>0, <2>2, RecvCompleted, ZenonT(40) DEF clientVars, mainVars
    <2> QED
      BY <1>4, <2>1, <2>2 DEF Flushed
  <1> QED
    BY <1>1, <1>2, <1>3, <1>4

\* Nothing that matters changes when nothing changes.
LEMMA StutterKeeps == ClientInv /\ UNCHANGED vars => ClientInv'
  BY DEF vars, chVars, clientVars, mainVars, ClientInv, Typed, HeldInTurn, NoOpLost, ContextsLive,
         Allocated, Outlives

\* The client starts without ops.
LEMMA InitClient == Init => ClientInv
  <1> SUFFICES ASSUME Init PROVE ClientInv
    OBVIOUS
  <1>1. Allocated = {}
    BY DEF Init, Allocated
  <1>2. << >> \in Seq(Ops) /\ << >> \in Seq(Completion) /\ DOMAIN << >> = {}
    OBVIOUS
  <1>3. Typed
    BY <1>2 DEF Init, Typed
  <1>4. HeldInTurn /\ NoOpLost
    BY <1>1, ZenonT(40) DEF Init, HeldInTurn, NoOpLost, Inserting
  <1>5. ContextsLive
    BY <1>1, <1>2, ZenonT(40) DEF Init, ContextsLive
  <1> QED
    BY <1>3, <1>4, <1>5 DEF ClientInv

LEMMA ClientInvariant == Spec => []ClientInv
  <1>1. ClientInv /\ [Next]_vars => ClientInv'
    BY MainKeeps, ReactorKeeps, CardKeeps, ReplyKeeps, StutterKeeps DEF Next, Spinning, Stopped
  <1> QED
    BY <1>1, InitClient, PTL DEF Spec

\* However the two threads interleave post, completion, insert and delete, no op
\* that exists drops out of callback_table, the main thread and th1 at once: the
\* race between them can free an op twice, but never leaks one.
THEOREM NoOpIsLost == Spec => []NoOpLost
  BY ClientInvariant, PTL DEF ClientInv

\* An op_context th1 gets back from the card, on either side of the race, is an op
\* that exists and that nothing else in flight refers to.
THEOREM ContextsAreLive == Spec => []ContextsLive
  BY ClientInvariant, PTL DEF ClientInv

-----------------------------------------------------------------------------
(* The end of the client.                                                  *)

Down == {"CLOSED", "UNEXPECTED"}

\* th1 ends only after an event that says the connection is down, and main only
\* after th1, or before there was one.
EndsInTurn ==
  /\ cm \in Seq({"ESTABLISHED"} \cup Down)
  /\ step = "none" => link = "none" /\ cm = << >>
  /\ step = "event" => cm # << >>
  /\ step = "exited" \/ (\E i \in DOMAIN cm : cm[i] \in Down) => link = "closed"
  /\ main \in {"exited", "freed_twice"} => step \in {"none", "exited"}

\* An event comes in, and the link is up or down accordingly.
LEMMA EventComes ==
  ASSUME EndsInTurn, NEW e \in {"ESTABLISHED"} \cup Down, cm' = Append(cm, e),
         link # "none", e \in Down => link' = "closed", link = "closed" => link' = "closed",
         UNCHANGED <<step, main>>
  PROVE  EndsInTurn'
  <1>1. /\ cm' \in Seq({"ESTABLISHED"} \cup Down)
        /\ DOMAIN cm' = DOMAIN cm \cup {Len(cm) + 1} /\ cm'[Len(cm) + 1] = e
        /\ \A i \in DOMAIN cm : cm'[i] = cm[i]
    BY AppendFacts DEF EndsInTurn
  <1>2. cm' # << >>
    BY <1>1
  <1> QED
    BY <1>1, <1>2 DEF EndsInTurn

\* The main thread ends last.
LEMMA MainEnds ==
  ASSUME EndsInTurn, MainThread
  PROVE  EndsInTurn'
  <1> USE DEF Call, Go, Return, Dead
  <1>1. CASE Construct
    <2>1. /\ step = "none" /\ cm' = cm /\ main = "call"
          /\ \/ main' = "call" /\ step' = "epoll" /\ link' = "connecting"
             \/ main' \in {"exited", "crashed"} /\ UNCHANGED <<step, link>>
      BY <1>1 DEF Construct, Started, RegisterFails, ConstructorThrows
    <2>2. DOMAIN << >> = {}
      OBVIOUS
    <2> QED
      BY <2>1, <2>2 DEF EndsInTurn
  <1>2. CASE Join
    <2>1. UNCHANGED <<cm, link, step>> /\ step = "exited" /\ main = "call"
      BY <1>2 DEF Join, Joined
    <2> QED
      BY <2>1 DEF EndsInTurn
  <1>3. CASE \/ WaitEstablished \/ InitReplica \/ CloseReplica \/ PostRecv \/ PostSend \/ Inserted
             \/ Wait \/ Answered \/ Prepare \/ SetHead \/ Write \/ Flush \/ Spin \/ Disconnect
    <2>1. UNCHANGED <<cm, link, step>> /\ main' \notin {"exited", "freed_twice"}
      BY <1>3, Zenon DEF WaitEstablished, InitReplica, CloseReplica, Ask, PostRecv, PostSend, StartWait,
                  Inserted, Wait, Answered, WaitEnds, Prepare, SetHead, Write, Flush, Post, Spin,
                  Disconnect, chVars
    <2> QED
      BY <2>1 DEF EndsInTurn
  <1> QED
    BY <1>1, <1>2, <1>3 DEF MainThread

\* th1 ends on an event that says the connection is down.
LEMMA ReactorEnds ==
  ASSUME EndsInTurn, ReactorThread
  PROVE  EndsInTurn'
  <1>0. main \notin Dead
    BY DEF ReactorThread
  <1>1. CASE ConnectionEvent
    <2>1. /\ step = "event" /\ cm' \in {cm, Tail(cm)} /\ UNCHANGED <<link, main>>
          /\ step' = "epoll" \/ (Head(cm) = "CLOSED" /\ step' = "exited")
      BY <1>1 DEF ConnectionEvent, remove_self, mainVars
    <2>2. /\ cm' \in Seq({"ESTABLISHED"} \cup Down) /\ 1 \in DOMAIN cm /\ Head(cm) = cm[1]
          /\ \A i \in DOMAIN cm' : \E j \in DOMAIN cm : cm'[i] = cm[j]
      BY <2>1, TailFacts DEF EndsInTurn
    <2>3. step' = "exited" => link = "closed"
      BY <2>1, <2>2 DEF EndsInTurn, Down
    <2> QED
      BY <1>0, <2>1, <2>2, <2>3 DEF EndsInTurn, Dead
  <1>2. CASE \/ (WaitOk \/ GetNone \/ GetError \/ WaitFails \/ GetFails) /\ UNCHANGED clientVars
             \/ EventReady \/ GetOp \/ Describe \/ RunCallback \/ Delete
    <2>1. /\ UNCHANGED <<cm, link>> /\ main' \in {main, "crashed"}
          /\ step \notin {"none", "exited"} /\ step' \notin {"none", "exited"}
          /\ step' = "event" => cm # << >>
      BY <1>2, ZenonT(40) DEF WaitOk, GetNone, GetError, WaitFails, GetFails, EventReady, GetOp,
                  Describe, RunCallback, InitReplied, FinishReplied, DeadFrame, NoCallback, Delete, clientVars, mainVars
    <2> QED
      BY <1>0, <2>1, ZenonT(40) DEF EndsInTurn, Dead
  <1> QED
    BY <1>1, <1>2 DEF ReactorThread

\* The card reports that the connection came up or went down.
LEMMA CardEnds ==
  ASSUME EndsInTurn,
         \/ LinkUp \/ LinkFails \/ Sent \/ Flushed
         \/ \E r \in Reply : ReplyArrives(r)
  PROVE  EndsInTurn'
  <1>1. CASE LinkUp
    <2>1. /\ link = "connecting" /\ UNCHANGED <<step, main>>
          /\ \E e \in {"ESTABLISHED"} \cup Down :
               cm' = Append(cm, e) /\ (e \in Down => link' = "closed")
      BY <1>1 DEF LinkUp, mainVars, Down
    <2> QED
      BY <2>1, EventComes
  <1>2. CASE LinkFails
    <2>1. /\ link = "up" /\ link' = "closed" /\ UNCHANGED <<step, main>>
          /\ cm' = Append(cm, "CLOSED") /\ "CLOSED" \in Down
      BY <1>2 DEF LinkFails, LinkDown, mainVars, Down
    <2> QED
      BY <2>1, EventComes
  <1>3. CASE Sent \/ Flushed \/ \E r \in Reply : ReplyArrives(r)
    <2>1. UNCHANGED <<cm, link, step, main>>
      BY <1>3, Zenon DEF Sent, Flushed, ReplyArrives, SendCompletes, RecvCompletes, clientVars, mainVars
    <2> QED
      BY <2>1 DEF EndsInTurn
  <1> QED
    BY <1>1, <1>2, <1>3

\* The end of the client comes in turn.
LEMMA ClientEnds == Spec => []EndsInTurn
  <1>1. Init => EndsInTurn
    <2> SUFFICES ASSUME Init PROVE EndsInTurn
      OBVIOUS
    <2>1. << >> \in Seq({"ESTABLISHED"} \cup Down) /\ DOMAIN << >> = {}
      OBVIOUS
    <2> QED
      BY <2>1 DEF Init, EndsInTurn
  <1>2. EndsInTurn /\ UNCHANGED vars => EndsInTurn'
    BY DEF vars, chVars, clientVars, mainVars, EndsInTurn
  <1>3. EndsInTurn /\ [Next]_vars => EndsInTurn'
    BY <1>2, MainEnds, ReactorEnds, CardEnds DEF Next, Spinning, Stopped
  <1> QED
    BY <1>1, <1>3, PTL DEF Spec

\* When main has freed the source data, with th1 joined or never started, the
\* connection is not up: the card carries out no write from it any more.
THEOREM SourceIsSafe == Spec => []SourceOutlivesWrites
  <1>1. EndsInTurn => SourceOutlivesWrites
    BY DEF EndsInTurn, SourceOutlivesWrites
  <1> QED
    BY <1>1, ClientEnds, PTL

-----------------------------------------------------------------------------
(* Types.                                                                  *)

Flags == {armed, notified, disconnected, completed, connected, data_mr} \subseteq BOOLEAN

Places ==
  /\ step \in {"none", "epoll", "event", "get", "callback", "described", "typed", "delete", "exited"}
  /\ link \in {"none", "connecting", "up", "closed"}
  /\ posted \in Context /\ cur \in Context

\* Where the main thread is inside a call that comes back.
Within == {"recv", "insert_recv", "send", "insert_send", "wait", "insert", "disconnecting"}

\* The main thread stays within its script because only the last call is the end.
MainTypes ==
  /\ script \in Scripts /\ at \in 1..Len(script)
  /\ main \in Dead \cup {"call"} \cup Within
  /\ main \in Within => script[at] # "join"
  /\ answer \in {"none", "ok", "bad"} /\ cost_time \in 0..Slowest \cup {Unset}

Messages ==
  /\ image_mr \in Region \cup {Nil} /\ {flush_type, got} \subseteq {"PERSISTENT", "VISIBILITY", Nil}
  /\ target \in Keys \cup {Nil}
  /\ recv_bl \in Reply /\ send_bl \in [type : {"garbage", "INIT_REQUEST", "FINISHED_REQUEST"}]

\* The flags of both threads and of the card.
LEMMA FlagsKept ==
  ASSUME Flags, Next
  PROVE  Flags'
  <1> USE DEF Flags
  <1>1. CASE Construct
    BY <1>1, Zenon DEF Construct, Started, RegisterFails, ConstructorThrows, flagVars
  <1>2. CASE SetHead
    BY <1>2, Zenon DEF SetHead, chVars, flagVars, Ok
  <1>3. CASE Write \/ Flush \/ Disconnect
    BY <1>3, ZenonT(40) DEF Write, Flush, Post, Disconnect, disconnect, flagVars, queueVars
  <1>4. CASE \/ WaitEstablished \/ InitReplica \/ CloseReplica \/ PostRecv \/ PostSend \/ Inserted
             \/ Wait \/ Answered \/ Prepare \/ Spin \/ Join \/ Spinning \/ Stopped
    <2>1. UNCHANGED <<armed, notified, disconnected, completed, connected, data_mr>>
      BY <1>4, Zenon DEF WaitEstablished, InitReplica, CloseReplica, Ask, PostRecv, PostSend, Inserted,
           Wait, Answered, Prepare, Spin, Join, Spinning, Stopped, vars, chVars, queueVars,
           clientVars, flagVars
    <2> QED
      BY <2>1
  <1>5. CASE ReactorThread
    <2>1. CASE (WaitOk \/ GetNone \/ GetError \/ WaitFails \/ GetFails) /\ UNCHANGED clientVars
      BY <2>1, QueuesAssumption, ZenonT(40) DEF WaitOk, completion_wait, GetNone, GetError, WaitFails, GetFails,
           disconnect, queueVars, clientVars, flagVars
    <2>2. CASE EventReady \/ ConnectionEvent
      BY <2>2, ZenonT(40) DEF EventReady, ConnectionEvent, disconnect, queueVars, clientVars, flagVars
    <2>3. CASE GetOp \/ Describe \/ RunCallback \/ Delete
      BY <2>3, ZenonT(40) DEF GetOp, Describe, RunCallback, NoCallback, Delete, queueVars, flagVars
    <2> QED
      BY <1>5, <2>1, <2>2, <2>3, ZenonT(40) DEF ReactorThread
  <1>6. CASE LinkUp \/ LinkFails
    BY <1>6, ZenonT(40) DEF LinkUp, LinkFails, LinkDown, queueVars, flagVars
  <1>7. CASE (\E r \in Reply : ReplyArrives(r)) \/ Sent \/ Flushed
    BY <1>7, ZenonT(40) DEF ReplyArrives, Sent, Flushed, SendCompletes, RecvCompletes, Push, clientVars, flagVars
  <1> QED
    BY <1>1, <1>2, <1>3, <1>4, <1>5, <1>6, <1>7 DEF Next, MainThread

\* Where the threads are and what they hold.
LEMMA PlacesKept ==
  ASSUME ClientInv, Places, Next
  PROVE  Places'
  <1> USE DEF Places
  <1>1. CASE Construct
    BY <1>1 DEF Construct, Started, RegisterFails, ConstructorThrows
  <1>2. CASE PostRecv \/ PostSend \/ Write \/ Flush \/ Inserted
    <2>1. UNCHANGED <<step, link, cur>> /\ posted' \in Context
      BY <1>2 DEF PostRecv, PostSend, Write, Flush, Post, Inserted, Insert, Context
    <2> QED
      BY <2>1, ZenonT(40)
  <1>3. CASE \/ WaitEstablished \/ InitReplica \/ CloseReplica \/ Wait \/ Answered \/ Prepare
             \/ SetHead \/ Spin \/ Disconnect \/ Join \/ Spinning \/ Stopped
    <2>1. UNCHANGED <<step, link, posted, cur>>
      BY <1>3, Zenon DEF WaitEstablished, InitReplica, CloseReplica, Ask, Wait, Answered, Prepare,
           SetHead, Spin, Disconnect, Join, Spinning, Stopped, vars, chVars, clientVars, mainVars
    <2> QED
      BY <2>1
  <1>4. CASE ReactorThread
    <2>1. CASE (WaitOk \/ GetNone \/ GetError \/ WaitFails \/ GetFails) /\ UNCHANGED clientVars
      BY <2>1 DEF WaitOk, GetNone, GetError, WaitFails, GetFails, clientVars, mainVars
    <2>2. CASE EventReady \/ ConnectionEvent
      BY <2>2, ZenonT(40) DEF EventReady, ConnectionEvent, remove_self, clientVars, mainVars
    <2>3. CASE GetOp
      <3>1. cq # << >> /\ cq \in Seq(Completion) /\ cur' = Head(cq).ctx
        BY <2>3, ZenonT(40) DEF GetOp, ClientInv, Typed
      <3>2. Head(cq) \in Completion
        BY <3>1, TailFacts
      <3> QED
        BY <2>3, <3>1, <3>2, ZenonT(40) DEF GetOp, mainVars, Completion
    <2>4. CASE Describe \/ RunCallback \/ Delete
      BY <2>4, ZenonT(40) DEF Describe, RunCallback, Delete, mainVars, Context
    <2> QED
      BY <1>4, <2>1, <2>2, <2>3, <2>4, ZenonT(40) DEF ReactorThread
  <1>5. CASE LinkUp \/ LinkFails
    BY <1>5, Zenon DEF LinkUp, LinkFails, LinkDown, mainVars
  <1>6. CASE (\E r \in Reply : ReplyArrives(r)) \/ Sent \/ Flushed
    BY <1>6, ZenonT(40) DEF ReplyArrives, Sent, Flushed, SendCompletes, RecvCompletes, clientVars, mainVars
  <1> QED
    BY <1>1, <1>2, <1>3, <1>4, <1>5, <1>6 DEF Next, MainThread

\* A call that is not the last one is followed by another.
LEMMA CallFollows ==
  ASSUME MainTypes, script[at] # "join"
  PROVE  at + 1 \in 1..Len(script)
  <1>1. script \in Seq(STRING) /\ script[Len(script)] = "join" /\ at \in 1..Len(script)
    BY ScriptsAssumption DEF MainTypes
  <1> QED
    BY <1>1

\* The main thread moves on within its script.
LEMMA MainKept ==
  ASSUME MainTypes, Next
  PROVE  MainTypes'
  <1> USE DEF MainTypes, Within, Dead
  <1>1. CASE Construct \/ Prepare
    <2>1. /\ script[at] # "join" /\ UNCHANGED <<script, answer, cost_time>>
          /\ (main' = "call" /\ at' = at + 1) \/ (main' \in Dead /\ at' = at)
      BY <1>1 DEF Construct, Started, RegisterFails, ConstructorThrows, Prepare, Call, Return, Go, flagVars
    <2> QED
      BY <2>1, CallFollows
  <1>2. CASE WaitEstablished \/ SetHead \/ Spin
    <2>1. /\ script[at] # "join" /\ UNCHANGED <<script, answer, cost_time>>
          /\ main' = "call" /\ at' = at + 1
      BY <1>2 DEF WaitEstablished, SetHead, Spin, Call, Return, flagVars
    <2> QED
      BY <2>1, CallFollows
  <1>3. CASE InitReplica \/ CloseReplica
    BY <1>3 DEF InitReplica, CloseReplica, Ask, Call, Go
  <1>4. CASE PostRecv
    BY <1>4 DEF PostRecv, Go, flagVars
  <1>5. CASE PostSend \/ Inserted
    <2>1. /\ main \in Within /\ UNCHANGED <<script, answer>>
          /\ cost_time' \in {cost_time, 0, Unset}
          /\ (main' \in Within /\ at' = at) \/ (main' = "call" /\ at' = at + 1)
      BY <1>5 DEF PostSend, Inserted, StartWait, Return, Go, flagVars
    <2> QED
      BY <2>1, CallFollows, ClientAssumption
  <1>6. CASE Wait
    <2>1. UNCHANGED <<script, at, main, answer>>
      BY <1>6 DEF Wait, flagVars
    <2>2. cost_time' \in 0..Slowest
      <3>1. cost_time \in 0..Timeout - 1 /\ cost_time' \in {cost_time, cost_time + 1} /\ cost_time' <= Slowest
        BY <1>6 DEF Wait, TimedOut
      <3> QED
        BY <3>1, ClientAssumption
    <2> QED
      BY <2>1, <2>2
  <1>7. CASE Answered
    <2>1. main = "wait" /\ main' = "call" /\ at' = at + 1 /\ cost_time' = 0 /\ UNCHANGED <<script, answer>>
      BY <1>7 DEF Answered, WaitEnds, Return, flagVars
    <2> QED
      BY <2>1, CallFollows, ClientAssumption
  <1>8. CASE Write \/ Flush
    <2>1. /\ script[at] # "join" /\ UNCHANGED <<script, answer, cost_time>>
          /\ (main' = "call" /\ at' = at + 1) \/ (main' \in {"crashed", "insert"} /\ at' = at)
      BY <1>8 DEF Write, Flush, Post, Call, Return, Go
    <2> QED
      BY <2>1, CallFollows
  <1>9. CASE Disconnect
    <2>1. /\ script[at] # "join" /\ UNCHANGED <<script, answer, cost_time>>
          /\ (main' = "disconnecting" /\ at' = at) \/ (main' = "call" /\ at' = at + 1)
      BY <1>9 DEF Disconnect, Call, Return, Go, flagVars
    <2> QED
      BY <2>1, CallFollows
  <1>10. CASE Join
    BY <1>10 DEF Join, Go, flagVars
  <1>11. CASE Describe \/ RunCallback
    <2>1. UNCHANGED <<script, at, cost_time>> /\ main' \in {main, "crashed"}
      BY <1>11, ZenonT(40) DEF Describe, RunCallback, InitReplied, FinishReplied, DeadFrame, NoCallback
    <2>2. answer' \in {answer, "ok", "bad"}
      BY <1>11, ZenonT(40) DEF Describe, RunCallback, InitReplied, FinishReplied, DeadFrame, NoCallback,
                               flagVars
    <2> QED
      BY <2>1, <2>2, ZenonT(40)
  <1>12. CASE \/ (WaitOk \/ GetNone \/ GetError \/ WaitFails \/ GetFails) /\ UNCHANGED clientVars
              \/ EventReady \/ ConnectionEvent \/ GetOp \/ Delete
              \/ Spinning \/ LinkUp \/ LinkFails \/ (\E r \in Reply : ReplyArrives(r))
              \/ Sent \/ Flushed \/ Stopped
    <2>1. UNCHANGED <<script, at, main, answer, cost_time>>
      BY <1>12, Zenon DEF EventReady, ConnectionEvent, GetOp, Delete, Spinning, LinkUp, LinkFails,
           ReplyArrives, Sent, Flushed, Stopped, vars, clientVars, mainVars, flagVars
    <2> QED
      BY <2>1
  <1> QED
    BY <1>1, <1>2, <1>3, <1>4, <1>5, <1>6, <1>7, <1>8, <1>9, <1>10, <1>11, <1>12, ZenonT(40)
    DEF Next, MainThread, ReactorThread

\* What get_remote_descriptor leaves behind, for any reply.
LEMMA DescriptorTypes ==
  ASSUME Messages, NEW g \in get_remote_descriptor(recv_bl)
  PROVE  g.mr \in Region \cup {Nil} /\ g.ft \in {"PERSISTENT", "VISIBILITY", Nil}
  <1> DEFINE known == [mr |-> image_mr, ft |-> flush_type, threw |-> FALSE]
             type(pmem) == IF pmem THEN "PERSISTENT" ELSE "VISIBILITY"
  <1>1. CASE recv_bl.type = "INIT_SUCCESSED"
    <2>1. [key |-> recv_bl.key, size |-> recv_bl.size] \in Region
      BY <1>1, Zenon DEF Messages, Reply, Region
    <2>2. \/ \E ok \in Ok : g = [known EXCEPT !.mr = [key |-> recv_bl.key, size |-> recv_bl.size],
                                              !.ft = IF recv_bl.size < ImageSize THEN @ ELSE type(recv_bl.pmem /\ ok)]
          \/ \E t \in {flush_type, type(recv_bl.pmem)} : g = [known EXCEPT !.ft = t]
          \/ g = [known EXCEPT !.threw = TRUE]
      BY <1>1, Zenon DEF get_remote_descriptor
    <2> QED
      BY <2>1, <2>2, Zenon DEF Messages
  <1>2. CASE recv_bl.type # "INIT_SUCCESSED"
    <2>1. g = known \/ g = [known EXCEPT !.threw = TRUE]
      BY <1>2, Zenon DEF get_remote_descriptor
    <2>2. g.mr = image_mr /\ g.ft = flush_type
      <3>1. CASE g = known
        BY <3>1, Zenon
      <3>2. CASE g = [known EXCEPT !.threw = TRUE]
        BY <3>2, Zenon
      <3> QED
        BY <2>1, <3>1, <3>2, Zenon
    <2> QED
      BY <2>2, Zenon DEF Messages
  <1> QED
    BY <1>1, <1>2, Zenon

\* The message buffers and what the client knows of the remote memory.
LEMMA MessagesKept ==
  ASSUME Messages, Next
  PROVE  Messages'
  <1>1. CASE InitReplica \/ CloseReplica
    BY <1>1, SMTT(30) DEF InitReplica, CloseReplica, Ask, replicaVars, Messages
  <1>2. CASE Write \/ Flush
    <2>1. /\ UNCHANGED <<replicaVars, recv_bl, send_bl>>
          /\ target' = target \/ (image_mr # Nil /\ target' = image_mr.key)
      BY <1>2 DEF Write, Flush, Post
    <2> QED
      BY <2>1, ZenonT(40) DEF Messages, replicaVars, Region
  <1>3. CASE Describe \/ RunCallback
    <2>1. /\ UNCHANGED <<target, recv_bl, send_bl>>
          /\ \/ UNCHANGED <<image_mr, flush_type, got>>
             \/ flush_type' = got /\ got' = Nil /\ image_mr' = image_mr
             \/ /\ \E g \in get_remote_descriptor(recv_bl) : image_mr' = g.mr /\ got' = g.ft
                /\ flush_type' = flush_type
      BY <1>3, ZenonT(40) DEF Describe, RunCallback, InitReplied, FinishReplied, NoCallback, replicaVars
    <2> QED
      BY <2>1, DescriptorTypes DEF Messages
  <1>4. CASE \E r \in Reply : ReplyArrives(r)
    BY <1>4 DEF ReplyArrives, Messages, replicaVars
  <1>5. CASE \/ Construct \/ WaitEstablished \/ PostRecv \/ PostSend \/ Inserted \/ Wait \/ Answered
             \/ Prepare \/ SetHead \/ Spin \/ Disconnect \/ Join \/ Spinning
             \/ (WaitOk \/ GetNone \/ GetError \/ WaitFails \/ GetFails) /\ UNCHANGED clientVars
             \/ EventReady \/ ConnectionEvent \/ GetOp \/ Delete
             \/ LinkUp \/ LinkFails \/ Sent \/ Flushed \/ Stopped
    <2>1. UNCHANGED <<replicaVars, target, recv_bl, send_bl>>
      BY <1>5, Zenon DEF Construct, WaitEstablished, PostRecv, PostSend, Inserted, Wait, Answered, Prepare,
           SetHead, Spin, Disconnect, Join, Spinning, EventReady, ConnectionEvent, GetOp, Delete, LinkUp,
           LinkFails, Sent, Flushed, Stopped, vars, clientVars
    <2> QED
      BY <2>1 DEF Messages, replicaVars
  <1> QED
    BY <1>1, <1>2, <1>3, <1>4, <1>5 DEF Next, MainThread, ReactorThread

\* Every variable of the client keeps its type, for every script that ends with
\* the destructor, any replies and whichever calls fail; in particular the main
\* thread never runs off its script, no time is counted beyond the bound, and the
\* descriptor is the one of some reply or was never set.
THEOREM ClientTypes == Spec => []TypeOK
  <1> DEFINE T == Flags /\ Places /\ MainTypes /\ Messages
  <1>1. Init => T
    <2> SUFFICES ASSUME Init PROVE T
      OBVIOUS
    <2>1. Flags /\ Places
      BY Zenon DEF Init, Flags, Places, Context
    <2>2. MainTypes
      BY ScriptsAssumption, ClientAssumption, SMTT(30) DEF Init, MainTypes, Within
    <2>3. Messages
      BY ZenonT(40) DEF Init, Messages, Reply
    <2> QED
      BY <2>1, <2>2, <2>3
  <1>2. T /\ UNCHANGED vars => T'
    BY ZenonT(40) DEF vars, chVars, clientVars, mainVars, flagVars, replicaVars, Flags, Places, MainTypes, Messages
  <1>3. ClientInv /\ T /\ [Next]_vars => T'
    BY <1>2, FlagsKept, PlacesKept, MainKept, MessagesKept
  <1>4. ClientInv /\ EndsInTurn /\ T => TypeOK
    BY ZenonT(40) DEF ClientInv, Typed, EndsInTurn, Down, Flags, Places, MainTypes, Within, Messages, TypeOK
  <1> HIDE DEF T
  <1> QED
    BY <1>1, <1>3, <1>4, ClientInvariant, ClientEnds, PTL DEF Spec

-----------------------------------------------------------------------------
(* The frames the callbacks of init_replica and close_replica refer to.    *)

\* Where the main thread waits for the reply, its receive being posted or used.
InFrame == {"insert_recv", "send", "insert_send", "wait"}

Stale == {"stale_init", "stale_finish"}

\* A callback that still refers to a frame refers to that of the call in progress,
\* which has not got its answer; there is only one.
FrameInv ==
  main \notin Dead =>
    /\ step \in Working => cur \in Ops
    /\ \A o \in Ops : op[o] \notin Stale
    /\ \A o \in Ops : Outlives(o) => main \in InFrame /\ answer = "none"
    /\ \A o, p \in Ops : Outlives(o) /\ Outlives(p) => o = p
    /\ main = "recv" => answer = "none"

\* No wait ends before its reply is there.
InTime == main = "wait" => ~TimedOut

\* A step that answers nothing and posts no receive.
LEMMA FrameStep ==
  ASSUME FrameInv, main \notin Dead, UNCHANGED answer,
         step' \in Working /\ main' \notin Dead => cur' \in Ops,
         \A o \in Ops : Outlives(o)' => Outlives(o),
         \A o \in Ops : op'[o] \in Stale => op'[o] = op[o],
         main' \notin Dead => /\ main' = "recv" => main = "recv"
                              /\ main \in InFrame => main' \in InFrame
  PROVE  FrameInv'
  BY DEF FrameInv

\* The callback of the current frame runs, and with it the only reference goes.
LEMMA FrameAnswered ==
  ASSUME FrameInv, main \notin Dead, RunCallback
  PROVE  FrameInv'
  <1>1. /\ step \in {"callback", "typed"} /\ step' = "delete"
        /\ UNCHANGED <<op, cur>> /\ main' \in {main, "crashed"}
    BY ZenonT(40) DEF RunCallback, InitReplied, FinishReplied, DeadFrame, NoCallback
  <1>2. cur \in Ops /\ op[cur] \notin Stale
    BY <1>1 DEF FrameInv, Working
  <1>3. \A o \in Ops : Outlives(o)' => Outlives(o) /\ o # cur
    BY <1>1, ZenonT(40) DEF Outlives
  <1>4. CASE main' = "crashed"
    BY <1>4 DEF FrameInv, Dead
  <1>5. CASE main' = main /\ op[cur] \in {"init", "finish"}
    <2>1. Outlives(cur)
      BY <1>1, <1>5 DEF Outlives
    <2>2. \A o \in Ops : ~Outlives(o)'
      BY <1>2, <1>3, <2>1 DEF FrameInv
    <2>3. main \in InFrame /\ main # "recv"
      BY <1>2, <2>1 DEF FrameInv, InFrame
    <2> QED
      BY <1>1, <1>2, <1>5, <2>2, <2>3 DEF FrameInv
  <1>6. CASE main' = main /\ op[cur] \notin {"init", "finish"}
    <2>1. UNCHANGED answer
      BY <1>2, <1>6 DEF RunCallback, NoCallback, flagVars, Stale
    <2> QED
      BY <1>1, <1>2, <1>3, <1>6, <2>1, FrameStep
  <1> QED
    BY <1>1, <1>4, <1>5, <1>6

\* The main thread posts the receive of a call, and returns only without one.
LEMMA FrameOfMain ==
  ASSUME ClientInv, FrameInv, InTime, MainThread
  PROVE  FrameInv'
  <1> USE DEF Call, Go, Return
  <1>0. main \notin Dead
    BY ZenonT(40) DEF MainThread, Construct, WaitEstablished, InitReplica, CloseReplica, Ask, PostRecv,
           PostSend, Inserted, Wait, Answered, WaitEnds, Prepare, SetHead, Write, Flush, Post,
           Spin, Disconnect, Join, Joined, Dead
  <1>1. CASE InitReplica \/ CloseReplica
    <2>1. main = "call" /\ main' = "recv" /\ answer' = "none" /\ UNCHANGED <<op, cur, step>>
      BY <1>1 DEF InitReplica, CloseReplica, Ask, chVars
    <2>2. \A o \in Ops : ~Outlives(o) /\ ~Outlives(o)'
      BY <1>0, <2>1 DEF FrameInv, Outlives, InFrame
    <2> QED
      BY <1>0, <2>1, <2>2 DEF FrameInv
  <1>2. CASE PostRecv
    <2>1. main = "recv" /\ UNCHANGED <<answer, cur, step>> /\ main' \in InFrame
      BY <1>2 DEF PostRecv, InFrame, flagVars
    <2>2. \A o \in Ops : ~Outlives(o)
      BY <1>0, <2>1 DEF FrameInv, InFrame
    <2>3. CASE UNCHANGED op
      <3>1. \A o \in Ops : ~Outlives(o)'
        BY <2>1, <2>2, <2>3, ZenonT(40) DEF Outlives
      <3> QED
        BY <1>0, <2>1, <2>3, <3>1 DEF FrameInv, InFrame
    <2>4. CASE \E o \in Ops : op' = [op EXCEPT ![o] = Frame]
      <3>1. PICK o \in Ops : op' = [op EXCEPT ![o] = Frame]
        BY <2>4, Zenon
      <3>2. Frame \notin Stale /\ op \in [Ops -> Callback \cup {Free}]
        BY DEF Frame, Stale, ClientInv, Typed
      <3>3. \A p \in Ops : (p # o => op'[p] = op[p]) /\ op'[p] \notin Stale
        BY <1>0, <3>1, <3>2 DEF FrameInv
      <3>4. \A p \in Ops : Outlives(p)' => p = o
        BY <2>1, <2>2, <3>3, ZenonT(40) DEF Outlives
      <3> QED
        BY <1>0, <2>1, <3>3, <3>4 DEF FrameInv, InFrame
    <2> QED
      BY <1>2, <2>3, <2>4 DEF PostRecv
  <1>3. CASE PostSend \/ Write \/ Flush
    <2>1. /\ UNCHANGED <<answer, cur, step>> /\ main \in {"send", "call"}
          /\ main' \in {"wait", "insert_send", "insert", "call", "crashed"}
          /\ main = "send" => main' \in InFrame
          /\ UNCHANGED op \/ \E o \in Ops, c \in {"none", "write", "flush"} : op' = [op EXCEPT ![o] = c]
      BY <1>3, ZenonT(40) DEF PostSend, StartWait, Write, Flush, Post, InFrame, flagVars
    <2>2. op \in [Ops -> Callback \cup {Free}]
      BY DEF ClientInv, Typed
    <2>3. \A o \in Ops : op'[o] = op[o] \/ op'[o] \in {"none", "write", "flush"}
      BY <2>1, <2>2
    <2>4. \A o \in Ops : (Outlives(o)' => Outlives(o)) /\ (op'[o] \in Stale => op'[o] = op[o])
      BY <2>1, <2>3 DEF Outlives, Stale
    <2> QED
      BY <1>0, <2>1, <2>4, FrameStep DEF FrameInv, InFrame
  <1>4. CASE Answered
    <2>1. /\ main = "wait" /\ main' = "call" /\ UNCHANGED <<answer, cur, step>>
          /\ answer # "none" \/ TimedOut
          /\ op' = [o \in Ops |-> IF ~Outlives(o) THEN op[o]
                                  ELSE IF op[o] = "init" THEN "stale_init" ELSE "stale_finish"]
      BY <1>4 DEF Answered, WaitEnds, flagVars
    <2>2. \A o \in Ops : ~Outlives(o)
      BY <1>0, <2>1 DEF FrameInv, InTime
    <2>3. \A o \in Ops : op'[o] = op[o] /\ ~Outlives(o)'
      BY <2>1, <2>2, ZenonT(40) DEF Outlives
    <2> QED
      BY <1>0, <2>1, <2>3 DEF FrameInv
  <1>5. CASE Join
    <2>1. main' \in Dead
      BY <1>5 DEF Join, Dead
    <2> QED
      BY <2>1 DEF FrameInv
  <1>6. CASE Construct
    <2>1. /\ main = "call" /\ main' \in Dead \cup {"call"} /\ UNCHANGED <<op, cur, answer>>
          /\ step = "none" /\ step' \in {"none", "epoll"}
      BY <1>6 DEF Construct, Started, RegisterFails, ConstructorThrows, Dead, flagVars
    <2>2. \A o \in Ops : Outlives(o)' => Outlives(o)
      BY <2>1 DEF Outlives
    <2> QED
      BY <1>0, <2>1, <2>2, FrameStep DEF Working, InFrame
  <1>7. CASE WaitEstablished \/ Inserted \/ Wait \/ Prepare \/ SetHead \/ Spin \/ Disconnect
    <2>1. /\ UNCHANGED <<op, cur, answer, step>> /\ main' # "recv"
          /\ main \in InFrame => main' \in InFrame
      BY <1>7, ZenonT(40) DEF WaitEstablished, Inserted, StartWait, Wait, Prepare, SetHead, Spin, Disconnect,
           chVars, flagVars, InFrame
    <2>2. \A o \in Ops : Outlives(o)' => Outlives(o)
      BY <2>1 DEF Outlives
    <2> QED
      BY <1>0, <2>1, <2>2, FrameStep DEF FrameInv
  <1> QED
    BY <1>1, <1>2, <1>3, <1>4, <1>5, <1>6, <1>7, ZenonT(40) DEF MainThread

\* th1 gives up the op of a frame only after its callback.
LEMMA FrameOfReactor ==
  ASSUME ClientInv, FrameInv, ReactorThread
  PROVE  FrameInv'
  <1>0. main \notin Dead
    BY ZenonT(40) DEF ReactorThread
  <1>1. CASE GetOp
    <2>1. /\ step = "get" /\ step' = "callback" /\ cq # << >> /\ cur' = Head(cq).ctx
          /\ UNCHANGED <<op, answer, main>>
      BY <1>1 DEF GetOp, SetHeap, erase, H0, mainVars, flagVars
    <2>2. 1 \in DOMAIN cq /\ Head(cq) = cq[1]
      BY <2>1, TailFacts DEF ClientInv, Typed
    <2>3. cur' \in Ops
      BY <1>0, <2>1, <2>2 DEF ClientInv, ContextsLive, Allocated
    <2>4. \A o \in Ops : Outlives(o)' => Outlives(o)
      BY <2>1 DEF Outlives
    <2> QED
      BY <1>0, <2>1, <2>3, <2>4, FrameStep
  <1>2. CASE RunCallback
    BY <1>0, <1>2, FrameAnswered
  <1>3. CASE Delete
    <2>1. /\ step = "delete" /\ step' = "epoll" /\ op' = [op EXCEPT ![cur] = Free]
          /\ UNCHANGED <<answer, main>>
      BY <1>3 DEF Delete, SetHeap, delete, H0, mainVars, flagVars
    <2>2. cur \in Ops /\ op \in [Ops -> Callback \cup {Free}] /\ Free \notin Callback
      BY <1>0, <2>1, OpsAssumption DEF FrameInv, Working, ClientInv, Typed
    <2>3. \A o \in Ops : op'[o] = IF o = cur THEN Free ELSE op[o]
      BY <2>1, <2>2
    <2>4. \A o \in Ops : (Outlives(o)' => Outlives(o)) /\ (op'[o] \in Stale => op'[o] = op[o])
      BY <2>1, <2>2, <2>3 DEF Outlives, Stale, Callback
    <2> QED
      BY <1>0, <2>1, <2>4, FrameStep DEF Working
  <1>4. CASE \/ (WaitOk \/ GetNone \/ GetError \/ WaitFails \/ GetFails) /\ UNCHANGED clientVars
             \/ EventReady \/ ConnectionEvent
    <2>1. /\ UNCHANGED <<op, cur, answer, main>>
          /\ step \in {"epoll", "get", "event"} /\ step' \in {"epoll", "get", "event", "exited"}
      BY <1>4, ZenonT(40) DEF WaitOk, GetNone, GetError, WaitFails, GetFails, EventReady, ConnectionEvent,
           remove_self, clientVars, mainVars, flagVars
    <2>2. \A o \in Ops : Outlives(o)' => Outlives(o)
      BY <2>1 DEF Outlives
    <2> QED
      BY <1>0, <2>1, <2>2, FrameStep DEF Working
  <1>5. CASE Describe
    <2>1. /\ UNCHANGED <<op, cur, answer>> /\ main' \in {main, "crashed"}
          /\ step \in {"callback", "described"} /\ step' \in {"described", "typed"}
      BY <1>5, ZenonT(40) DEF Describe, flagVars
    <2>2. \A o \in Ops : Outlives(o)' => Outlives(o)
      BY <2>1 DEF Outlives
    <2>3. cur \in Ops
      BY <1>0, <2>1 DEF FrameInv, Working
    <2> QED
      BY <1>0, <2>1, <2>2, <2>3, FrameStep DEF Dead
  <1> QED
    BY <1>1, <1>2, <1>3, <1>4, <1>5 DEF ReactorThread

\* The card does not touch what a callback refers to.
LEMMA FrameOfOthers ==
  ASSUME FrameInv, UNCHANGED <<op, cur, step, answer, main>>
  PROVE  FrameInv'
  BY DEF FrameInv, Outlives

\* The frame of a call is referred to only while the call waits.
LEMMA FrameInvariant == Spec /\ []InTime => []FrameInv
  <1>1. Init => FrameInv
    <2> SUFFICES ASSUME Init PROVE FrameInv
      OBVIOUS
    <2>1. \A o \in Ops : op[o] = Free /\ Free \notin Stale /\ Free \notin {"init", "finish"}
      BY OpsAssumption DEF Init, Stale, Callback
    <2> QED
      BY <2>1 DEF Init, FrameInv, Outlives, Working
  <1>2. ASSUME ClientInv, FrameInv, InTime, [Next]_vars
        PROVE  FrameInv'
    <2>1. CASE MainThread
      BY <1>2, <2>1, FrameOfMain
    <2>2. CASE ReactorThread
      BY <1>2, <2>2, FrameOfReactor
    <2>3. CASE \/ LinkUp \/ LinkFails \/ (\E r \in Reply : ReplyArrives(r)) \/ Sent \/ Flushed
               \/ UNCHANGED vars
      <3>1. UNCHANGED <<op, cur, step, answer, main>>
        BY <2>3, ZenonT(40) DEF LinkUp, LinkFails, LinkDown, ReplyArrives, RecvCompletes, Sent, Flushed,
             SendCompletes, vars, chVars, clientVars, mainVars, flagVars
      <3> QED
        BY <1>2, <3>1, FrameOfOthers
    <2> QED
      BY <1>2, <2>1, <2>2, <2>3 DEF Next, Spinning, Stopped
  <1> QED
    BY <1>1, <1>2, ClientInvariant, PTL DEF Spec

\* In every behaviour in which no wait times out, for every script, any replies
\* and whichever calls fail: when init_replica or close_replica returns, th1 holds
\* no callback that will still write to the flags in its frame.  (Once a wait has
\* timed out, the late reply may answer the next call instead.)
THEOREM AnswersFreeFrames == Spec /\ []InTime => AnswerFreesFrame
  <1>1. FrameInv => [Answered /\ answer # "none" => \A o \in Ops : ~Outlives(o)]_vars
    BY DEF FrameInv, Answered, WaitEnds, Dead
  <1> QED
    BY <1>1, FrameInvariant, PTL DEF AnswerFreesFrame
=============================================================================
