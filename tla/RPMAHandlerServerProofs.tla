----------------------- MODULE RPMAHandlerServerProofs -----------------------
(* What the client can rely on: there is never more than one receive posted *)
(* or request waiting, so that one receive buffer is enough; and so the     *)
(* handler implements ReplicaServer.                                        *)
EXTENDS RPMAHandlerProofs

\* The op of a receive.
IsReceive(H, o) == o # Nullptr /\ H.op[o] = "deal_require"

NoneSent(H) == \A i \in DOMAIN H.sq : ~IsReceive(H, H.sq[i])

NoneQueued(H, q) == \A i \in DOMAIN q : ~IsReceive(H, q[i].ctx)

\* Nothing is posted or queued that could bring a request.
Calm(H, q) == H.rq = {} /\ NoneSent(H) /\ NoneQueued(H, q)

\* At most one receive is posted or queued as a completion.
Single(H, q) ==
  /\ NoneSent(H)
  /\ \A o \in H.rq : IsReceive(H, o)
  /\ \A o, p \in H.rq : o = p
  /\ \A i \in DOMAIN q : IsReceive(H, q[i].ctx) =>
       H.rq = {} /\ \A j \in DOMAIN q : IsReceive(H, q[j].ctx) => i = j

SingleInv == Running => Single(H0, cq)

-----------------------------------------------------------------------------
(* The callback.                                                           *)

\* The reply of close() brings no request.
LEMMA SendStaysCalm ==
  ASSUME NEW H, NEW q, NEW c, InCallback(H, q, c), Calm(H, q), NEW o \in Ops \ Alive(H),
         NEW ok \in BOOLEAN
  PROVE  Calm(send(H, o, "none", ok), q)
  <1> DEFINE K == [op |-> [H.op EXCEPT ![o] = "none"], table |-> H.table \cup {o},
                   rq |-> H.rq, sq |-> Append(H.sq, o)]
  <1>1. CASE ~(ok /\ CanSend(H))
    BY <1>1 DEF send
  <1>2. CASE ok /\ CanSend(H)
    <2>1. send(H, o, "none", ok) = K
      BY <1>2 DEF send
    <2>2. H.op \in [Ops -> Callback \cup {Free}] /\ o \in Context /\ H.sq \in Seq(Context)
      BY DEF InCallback, HeapState, Context
    <2>3. K.op = [H.op EXCEPT ![o] = "none"] /\ K.rq = H.rq /\ K.sq = Append(H.sq, o)
      OBVIOUS
    <2> HIDE DEF K
    <2>4. /\ DOMAIN K.sq = DOMAIN H.sq \cup {Len(H.sq) + 1} /\ K.sq[Len(H.sq) + 1] = o
          /\ \A i \in DOMAIN H.sq : K.sq[i] = H.sq[i]
      BY <2>2, <2>3, AppendFacts
    <2>5. ASSUME NEW x, x # Nullptr => x \in Ops, ~IsReceive(H, x)
          PROVE  ~IsReceive(K, x)
      BY <2>2, <2>3, <2>5 DEF IsReceive
    <2>6. ~IsReceive(K, o)
      BY <2>2, <2>3 DEF IsReceive
    <2>7. /\ \A i \in DOMAIN H.sq : H.sq[i] # Nullptr => H.sq[i] \in Ops
          /\ \A i \in DOMAIN q : q[i].ctx # Nullptr => q[i].ctx \in Ops
      BY DEF InCallback, Live, Alive
    <2>8. NoneSent(K)
      BY <2>4, <2>5, <2>6, <2>7 DEF Calm, NoneSent
    <2>9. Calm(K, q)
      BY <2>3, <2>5, <2>7, <2>8 DEF Calm, NoneQueued
    <2> QED
      BY <2>1, <2>9
  <1> QED
    BY <1>1, <1>2

\* The next receive is the only one.
LEMMA RecvIsSingle ==
  ASSUME NEW H, NEW q, NEW c, InCallback(H, q, c), Calm(H, q), NEW p \in Ops \ Alive(H),
         NEW ok \in BOOLEAN
  PROVE  /\ Single(recv(H, p, "deal_require", ok), q)
         /\ NoneQueued(recv(H, p, "deal_require", ok), q)
  <1> DEFINE K == [op |-> [H.op EXCEPT ![p] = "deal_require"], table |-> H.table \cup {p},
                   rq |-> H.rq \cup {p}, sq |-> H.sq]
  <1>1. CASE ~ok
    BY <1>1 DEF recv, Calm, Single, NoneQueued
  <1>2. CASE ok
    <2>1. recv(H, p, "deal_require", ok) = K
      BY <1>2 DEF recv
    <2>2. H.op \in [Ops -> Callback \cup {Free}]
      BY DEF InCallback, HeapState
    <2>3. K.op = [H.op EXCEPT ![p] = "deal_require"] /\ K.rq = {p} /\ K.sq = H.sq
      BY DEF Calm
    <2> HIDE DEF K
    <2>4. ASSUME NEW x, x # Nullptr => x \in Alive(H), ~IsReceive(H, x)
          PROVE  ~IsReceive(K, x)
      BY <2>2, <2>3, <2>4 DEF IsReceive, Alive
    <2>5. IsReceive(K, p)
      BY <2>2, <2>3, OpsAssumption, ZenonT(40) DEF IsReceive
    <2>6. /\ \A i \in DOMAIN H.sq : H.sq[i] # Nullptr => H.sq[i] \in Alive(H)
          /\ \A i \in DOMAIN q : q[i].ctx # Nullptr => q[i].ctx \in Alive(H)
      BY DEF InCallback, Live
    <2>7. NoneSent(K) /\ NoneQueued(K, q)
      BY <2>3, <2>4, <2>6 DEF Calm, NoneSent, NoneQueued
    <2>8. Single(K, q)
      BY <2>3, <2>5, <2>7 DEF Single, NoneQueued
    <2> QED
      BY <2>1, <2>7, <2>8
  <1> QED
    BY <1>1, <1>2

\* The reply has no op.
LEMMA ReplyStaysSingle ==
  ASSUME NEW H, NEW q, NEW c, InCallback(H, q, c), Single(H, q), NEW ok \in BOOLEAN
  PROVE  /\ Single(rpma_send(H, ok), q)
         /\ NoneQueued(H, q) => NoneQueued(rpma_send(H, ok), q)
  <1> DEFINE K == [H EXCEPT !.sq = Append(@, Nullptr)]
  <1>1. CASE ~(ok /\ CanSend(H))
    BY <1>1 DEF rpma_send
  <1>2. CASE ok /\ CanSend(H)
    <2>1. rpma_send(H, ok) = K
      BY <1>2 DEF rpma_send
    <2>2. H \in HeapState /\ Nullptr \in Context /\ H.sq \in Seq(Context)
      BY DEF InCallback, HeapState, Context
    <2>3. K.op = H.op /\ K.rq = H.rq /\ K.sq = Append(H.sq, Nullptr)
      BY <2>2 DEF HeapState
    <2> HIDE DEF K
    <2>4. /\ DOMAIN K.sq = DOMAIN H.sq \cup {Len(H.sq) + 1} /\ K.sq[Len(H.sq) + 1] = Nullptr
          /\ \A i \in DOMAIN H.sq : K.sq[i] = H.sq[i]
      BY <2>2, <2>3, AppendFacts
    <2>5. NoneSent(K)
      BY <2>3, <2>4 DEF Single, NoneSent, IsReceive
    <2>6. Single(K, q) /\ (NoneQueued(H, q) => NoneQueued(K, q))
      BY <2>3, <2>5 DEF Single, IsReceive, NoneQueued
    <2> QED
      BY <2>1, <2>6
  <1> QED
    BY <1>1, <1>2

\* The op that is deleted is in no queue.
LEMMA DeleteStaysSingle ==
  ASSUME NEW H, NEW q, NEW c, InCallback(H, q, c), Single(H, q)
  PROVE  /\ Single(delete(H, c), q)
         /\ NoneQueued(H, q) => NoneQueued(delete(H, c), q)
         /\ \A i \in DOMAIN q : IsReceive(delete(H, c), q[i].ctx) <=> IsReceive(H, q[i].ctx)
  <1> DEFINE K == delete(H, c)
  <1>1. K.rq = H.rq /\ K.sq = H.sq /\ K.op = [H.op EXCEPT ![c] = Free]
    BY DEF delete, InCallback, HeapState
  <1>2. H.op \in [Ops -> Callback \cup {Free}] /\ c \in Ops
    BY DEF InCallback, HeapState, Alive
  <1> HIDE DEF K
  <1>3. ASSUME NEW x \in Ops \cup {Nullptr}, x # c
        PROVE  IsReceive(K, x) <=> IsReceive(H, x)
    BY <1>1, <1>2, <1>3, ZenonT(40) DEF IsReceive
  <1>4. /\ \A i \in DOMAIN H.sq : H.sq[i] \in Ops \cup {Nullptr} /\ H.sq[i] # c
        /\ \A i \in DOMAIN q : q[i].ctx \in Ops \cup {Nullptr} /\ q[i].ctx # c
        /\ \A o \in H.rq : o \in Ops /\ o # c
    BY DEF InCallback, Live, Gone, Alive
  <1>5. NoneSent(K)
    BY <1>1, <1>3, <1>4, ZenonT(40) DEF Single, NoneSent
  <1>6. Single(K, q)
    BY <1>1, <1>3, <1>4, <1>5 DEF Single
  <1>7. \A i \in DOMAIN q : IsReceive(K, q[i].ctx) <=> IsReceive(H, q[i].ctx)
    BY <1>3, <1>4, ZenonT(40)
  <1> QED
    BY <1>6, <1>7 DEF K, NoneQueued

\* Reading a completion leaves at most one receive, and none if it was it.
LEMMA TailStaysSingle ==
  ASSUME NEW H, NEW q \in Seq(Completion), Single(H, q), q # << >>
  PROVE  /\ Single(H, Tail(q))
         /\ IsReceive(H, Head(q).ctx) => Calm(H, Tail(q))
  <1>1. /\ 1 \in DOMAIN q /\ Head(q) = q[1]
        /\ \A i \in DOMAIN Tail(q) : i + 1 \in DOMAIN q /\ i + 1 # 1 /\ Tail(q)[i] = q[i + 1]
        /\ \A i, j \in DOMAIN Tail(q) : i # j => i + 1 # j + 1
    BY TailFacts
  <1> QED
    BY <1>1 DEF Single, Calm, NoneQueued

\* erase touches the table only.
LEMMA EraseStays ==
  ASSUME NEW H \in HeapState, NEW q, NEW c
  PROVE  /\ Single(H, q) => Single(erase(H, c), q)
         /\ Calm(H, q) => Calm(erase(H, c), q)
         /\ \A x : IsReceive(erase(H, c), x) <=> IsReceive(H, x)
  <1>1. erase(H, c).op = H.op /\ erase(H, c).rq = H.rq /\ erase(H, c).sq = H.sq
    BY DEF erase, HeapState
  <1> QED
    BY <1>1 DEF Single, Calm, NoneSent, NoneQueued, IsReceive

\* The whole callback of the one request: it posts one receive at most.
LEMMA DealRequireIsSingle ==
  ASSUME NEW H, NEW q, NEW c, InCallback(H, q, c), Calm(H, q), NEW posts,
         NEW o \in Ops \ Alive(H), NEW p \in Ops \ Alive(H), o # p,
         NEW ok1 \in BOOLEAN, NEW ok2 \in BOOLEAN, NEW ok3 \in BOOLEAN
  PROVE  /\ Single(deal_require(H, posts, o, p, ok1, ok2, ok3), q)
         /\ NoneQueued(deal_require(H, posts, o, p, ok1, ok2, ok3), q)
  <1> DEFINE H1 == IF posts THEN send(H, o, "none", ok1) ELSE H
             H2 == recv(H1, p, "deal_require", ok2)
  <1>1. "none" \in Callback /\ "deal_require" \in Callback
    BY DEF Callback
  <1>2. InCallback(H1, q, c) /\ Alive(H1) \subseteq Alive(H) \cup {o}
    BY <1>1, SendKeeps
  <1>3. Calm(H1, q)
    BY SendStaysCalm
  <1>4. deal_require(H, posts, o, p, ok1, ok2, ok3) = rpma_send(H2, ok3)
    BY DEF deal_require
  <1> HIDE DEF H1
  <1>5. p \in Ops \ Alive(H1)
    BY <1>2
  <1>6. InCallback(H2, q, c) /\ Single(H2, q) /\ NoneQueued(H2, q)
    BY <1>1, <1>2, <1>3, <1>5, RecvKeeps, RecvIsSingle, ZenonT(40)
  <1> HIDE DEF H2
  <1> QED
    BY <1>4, <1>6, ReplyStaysSingle

-----------------------------------------------------------------------------
(* The steps.                                                              *)

\* A step of the server that ends in a heap with at most one receive.
LEMMA SingleNext ==
  ASSUME NEW H \in HeapState, Single(H, cq'), SetHeap(H)
  PROVE  SingleInv'
  <1>1. H0' = H
    <2>1. H = [op |-> H.op, table |-> H.table, rq |-> H.rq, sq |-> H.sq]
      BY DEF HeapState
    <2> QED
      BY <2>1 DEF H0, SetHeap
  <1>2. Single(H0', cq')
    BY <1>1
  <1> QED
    BY <1>2 DEF SingleInv

\* Nothing the invariant speaks of changes.
LEMMA IdleStaysSingle ==
  ASSUME SingleInv, UNCHANGED <<op, callback_table, rq, sq, cq>>, Running' => Running
  PROVE  SingleInv'
  BY DEF SingleInv, H0, Single, NoneSent, IsReceive

\* A reply that completes is no receive.
LEMMA SendCompletesSingle ==
  ASSUME OpsInv, SingleInv, NEW status \in {"success", "error"}, SendCompletes(status),
         ends' = ends
  PROVE  SingleInv'
  <1> DEFINE e == [ctx |-> Head(sq), status |-> status]
  <1>1. SUFFICES ASSUME Running PROVE Single(H0, cq)'
    BY DEF SingleInv, Running
  <1>2. /\ sq # << >> /\ sq' = Tail(sq) /\ cq' = Append(cq, e)
        /\ UNCHANGED <<op, callback_table, rq>>
    BY DEF SendCompletes, Push
  <1>3. sq \in Seq(Context) /\ cq \in Seq(Completion) /\ Single(H0, cq)
    BY <1>1 DEF OpsInv, SingleInv, H0, HeapState
  <1>4. /\ Head(sq) \in Context /\ 1 \in DOMAIN sq /\ Head(sq) = sq[1]
        /\ \A i \in DOMAIN Tail(sq) : i + 1 \in DOMAIN sq /\ Tail(sq)[i] = sq[i + 1]
    BY <1>2, <1>3, TailFacts
  <1>5. e \in Completion /\ e.ctx = sq[1]
    BY <1>4 DEF Completion
  <1> HIDE DEF e
  <1>6. /\ DOMAIN cq' = DOMAIN cq \cup {Len(cq) + 1} /\ cq'[Len(cq) + 1] = e
        /\ \A i \in DOMAIN cq : cq'[i] = cq[i]
    BY <1>2, <1>3, <1>5, AppendFacts
  <1>7. /\ H0'.op = H0.op /\ H0'.rq = H0.rq /\ H0'.sq = Tail(sq) /\ H0.sq = sq
        /\ \A x : IsReceive(H0', x) <=> IsReceive(H0, x)
    BY <1>2 DEF H0, IsReceive
  <1>8. NoneSent(H0') /\ ~IsReceive(H0', e.ctx)
    BY <1>3, <1>4, <1>5, <1>7, ZenonT(40) DEF Single, NoneSent
  <1>9. Single(H0', cq')
    BY <1>3, <1>6, <1>7, <1>8 DEF Single
  <1> QED
    BY <1>9

\* The receive that completes was the only one.
LEMMA RecvCompletesSingle ==
  ASSUME OpsInv, SingleInv, NEW o, NEW status \in {"success", "error"},
         RecvCompletes(o, status), ends' = ends
  PROVE  SingleInv'
  <1> DEFINE e == [ctx |-> o, status |-> status]
  <1>1. SUFFICES ASSUME Running PROVE Single(H0, cq)'
    BY DEF SingleInv, Running
  <1>2. /\ o \in rq /\ rq' = rq \ {o} /\ cq' = Append(cq, e)
        /\ UNCHANGED <<op, callback_table, sq>>
    BY DEF RecvCompletes, Push
  <1>3. rq \subseteq Ops /\ cq \in Seq(Completion) /\ Single(H0, cq)
    BY <1>1 DEF OpsInv, SingleInv, H0, HeapState
  <1>4. e \in Completion /\ e.ctx = o
    BY <1>2, <1>3 DEF Completion, Context
  <1> HIDE DEF e
  <1>5. /\ DOMAIN cq' = DOMAIN cq \cup {Len(cq) + 1} /\ cq'[Len(cq) + 1] = e
        /\ \A i \in DOMAIN cq : cq'[i] = cq[i]
    BY <1>2, <1>3, <1>4, AppendFacts
  <1>6. /\ H0'.rq = rq \ {o} /\ H0.rq = rq /\ H0'.sq = H0.sq
        /\ \A x : IsReceive(H0', x) <=> IsReceive(H0, x)
    BY <1>2 DEF H0, IsReceive
  <1>7. H0'.rq = {} /\ NoneSent(H0')
    BY <1>2, <1>3, <1>6 DEF Single, NoneSent
  <1>8. \A i \in DOMAIN cq : ~IsReceive(H0', cq'[i].ctx)
    BY <1>2, <1>3, <1>5, <1>6, ZenonT(40) DEF Single
  <1>9. Single(H0', cq')
    BY <1>5, <1>7, <1>8 DEF Single
  <1> QED
    BY <1>9

\* A completion is read, and its op runs and dies.
LEMMA HandleCompletionSingle ==
  ASSUME OpsInv, SingleInv, HandleCompletion
  PROVE  SingleInv'
  <1>1. Running /\ Owned(H0, cq) /\ Single(H0, cq)
    BY OwnedState DEF HandleCompletion, Running, SingleInv
  <1>2. H0 \in HeapState /\ cq \in Seq(Completion)
    BY <1>1 DEF Owned
  <1>3. CASE WaitOk \/ WaitFails \/ GetNone
    BY <1>1, <1>3, IdleStaysSingle DEF WaitOk, WaitFails, GetNone, queueVars
  <1>4. CASE UNCHANGED <<op, callback_table, rq, sq>>
             /\ (cq' = cq \/ (cq # << >> /\ cq' = Tail(cq)))
    <2>1. Single(H0, cq') /\ SetHeap(H0)
      BY <1>1, <1>2, <1>4, TailStaysSingle, SameHeap, Zenon
    <2> QED
      BY <1>2, <2>1, SingleNext
  <1>5. CASE /\ cq # << >> /\ cq' = Tail(cq) /\ Head(cq).ctx # Nullptr
             /\ SetHeap(delete(erase(H0, Head(cq).ctx), Head(cq).ctx))
    <2> DEFINE c == Head(cq).ctx
               E == erase(H0, c)
    <2>1. InCallback(E, cq', c)
      BY <1>1, <1>5, EraseEnters
    <2>2. Single(E, cq')
      BY <1>1, <1>2, <1>5, TailStaysSingle, EraseStays, ZenonT(40)
    <2>3. SetHeap(delete(E, c))
      BY <1>5
    <2> HIDE DEF c, E
    <2>4. Single(delete(E, c), cq') /\ delete(E, c) \in HeapState
      BY <2>1, <2>2, DeleteStaysSingle, DeleteLeaves, ZenonT(40) DEF Owned
    <2> QED
      BY <2>3, <2>4, SingleNext, ZenonT(40)
  <1>6. CASE GetFails \/ GetError
    BY <1>4, <1>6, ZenonT(40) DEF GetFails, GetError
  <1>7. CASE GetQuiet
    BY <1>4, <1>5, <1>7, ZenonT(40) DEF GetQuiet
  <1>8. CASE GetThrows
    BY <1>5, <1>8 DEF GetThrows, IsRequest
  <1>9. CASE GetRequest
    <2> DEFINE c == Head(cq).ctx
               E == erase(H0, c)
    <2>1. cq # << >> /\ cq' = Tail(cq) /\ c # Nullptr /\ IsReceive(H0, c)
      BY <1>9 DEF GetRequest, IsRequest, IsReceive, H0
    <2>2. PICK M \in get_descriptor(M0, recv_bl) :
            \E o, p \in Ops \ Allocated, ok1, ok2, ok3 \in BOOLEAN :
              /\ o # p
              /\ SetHeap(delete(deal_require(E, M.posts, o, p, ok1, ok2, ok3), c))
      BY <1>9 DEF GetRequest
    <2>3. PICK o \in Ops \ Allocated, p \in Ops \ Allocated,
               ok1 \in BOOLEAN, ok2 \in BOOLEAN, ok3 \in BOOLEAN :
            /\ o # p
            /\ SetHeap(delete(deal_require(E, M.posts, o, p, ok1, ok2, ok3), c))
      BY <2>2
    <2> DEFINE D == deal_require(E, M.posts, o, p, ok1, ok2, ok3)
    <2>4. InCallback(E, cq', c) /\ Alive(E) = Allocated
      <3>1. InCallback(E, cq', c) /\ Alive(E) = Alive(H0)
        BY <1>1, <2>1, EraseEnters, ZenonT(40)
      <3>2. Alive(H0) = Allocated
        BY DEF Allocated, Alive, H0
      <3> QED
        BY <3>1, <3>2, ZenonT(40)
    <2>5. Calm(E, cq')
      BY <1>1, <1>2, <2>1, TailStaysSingle, EraseStays, ZenonT(40)
    <2>6. SetHeap(delete(D, c))
      BY <2>3
    <2> HIDE DEF c, E
    <2>7. InCallback(D, cq', c) /\ Single(D, cq')
      BY <2>3, <2>4, <2>5, DealRequireKeeps, DealRequireIsSingle, ZenonT(40)
    <2> HIDE DEF D
    <2>8. Single(delete(D, c), cq') /\ delete(D, c) \in HeapState
      BY <2>7, DeleteStaysSingle, DeleteLeaves DEF Owned
    <2> QED
      BY <2>6, <2>8, SingleNext, ZenonT(40)
  <1> QED
    BY <1>3, <1>6, <1>7, <1>8, <1>9, ZenonT(40) DEF HandleCompletion

\* Every step keeps the invariant.
LEMMA NextSingle == OpsInv /\ SingleInv /\ [Next]_vars => SingleInv'
  <1>1. SUFFICES ASSUME OpsInv, SingleInv, [Next]_vars PROVE SingleInv'
    OBVIOUS
  <1>2. CASE HandleCompletion
    BY <1>1, <1>2, HandleCompletionSingle
  <1>3. CASE ConnectionClosed
    BY <1>1, <1>3, IdleStaysSingle DEF ConnectionClosed, chVars, Running
  <1>4. CASE Teardown
    <2>1. ends \in Nat /\ ends' = ends + 1
      BY <1>4 DEF Teardown, TeardownOrder
    <2> QED
      BY <2>1 DEF SingleInv, Running
  <1>5. CASE RequestArrives
    BY <1>1, <1>5, RecvCompletesSingle DEF RequestArrives
  <1>6. CASE Flushed
    BY <1>1, <1>6, RecvCompletesSingle, SendCompletesSingle, ZenonT(40) DEF Flushed
  <1>7. CASE ReplySent
    BY <1>1, <1>7, SendCompletesSingle DEF ReplySent
  <1>8. CASE LinkFails
    BY <1>1, <1>8, IdleStaysSingle, ZenonT(40) DEF LinkFails, LinkDown, queueVars, Running
  <1>9. CASE Stopped \/ UNCHANGED vars
    BY <1>1, <1>9, IdleStaysSingle DEF Stopped, vars, chVars, Running
  <1> QED
    BY <1>1, <1>2, <1>3, <1>4, <1>5, <1>6, <1>7, <1>8, <1>9, ZenonT(40) DEF Next

\* The constructor posts the first receive.
LEMMA InitSingle == Init => SingleInv
  <1>1. SUFFICES ASSUME Init PROVE Single(H0, cq)
    BY DEF SingleInv
  <1>2. PICK o \in Ops : op = [p \in Ops |-> IF p = o THEN "deal_require" ELSE Free] /\ rq = {o}
    BY <1>1 DEF Init
  <1>3. H0.op = op /\ H0.rq = {o} /\ H0.sq = << >> /\ cq = << >>
    BY <1>1, <1>2 DEF Init, H0
  <1>4. IsReceive(H0, o)
    BY <1>2, <1>3, OpsAssumption, ZenonT(40) DEF IsReceive
  <1>5. DOMAIN H0.sq = {} /\ DOMAIN cq = {}
    BY <1>3
  <1> QED
    BY <1>3, <1>4, <1>5 DEF Single, NoneSent

\* One receive buffer is enough for any queue sizes, requests and failures of
\* the card: deal_require posts the next receive only after get_descriptor has
\* used the request, and nothing else posts one.
THEOREM RequestIsStable == Spec => []RequestStable
  <1>1. SingleInv => RequestStable
    BY DEF SingleInv, Single, RequestStable, IsRequest, IsReceive, H0
  <1> QED
    BY <1>1, InitSingle, NextSingle, OpsInvariant, PTL DEF Spec

-----------------------------------------------------------------------------
(* What a request does to the memory, as the client sees it.               *)

\* A region and a reply after INIT, from those before and the memory.
Registers(mm, mr, snd, R) ==
  \/ R.mr = mr /\ R.send = snd
  \/ \E k \in {k \in Keys : mr = Nil \/ k # mr.key} :
       /\ R.mr = [key |-> k, size |-> mm.size]
       /\ \/ R.send = [type |-> "INIT_SUCCESSED", key |-> k, size |-> mm.size,
                       pmem |-> mm.data = "pmem"]
          \/ R.send = snd

\* register_mr_to_descriptor, wherever it fails.
LEMMA RegisterResult ==
  ASSUME NEW mm, NEW files, NEW mr, NEW snd, NEW posts, NEW threw,
         NEW R \in register_mr_to_descriptor(Results(mm, files, mr, snd, posts, threw))
  PROVE  R.mm = mm /\ R.posts = posts /\ Registers(mm, mr, snd, R)
  <1> DEFINE M == Results(mm, files, mr, snd, posts, threw)
             fresh == {k \in Keys : M.mr = Nil \/ k # M.mr.key}
             new(k) == [key |-> k, size |-> M.mm.size]
             told(k) == [type |-> "INIT_SUCCESSED", key |-> k, size |-> M.mm.size,
                         pmem |-> M.mm.data = "pmem"]
             dram == (M.mm.data = "dram")
             kept(k)      == [[M EXCEPT !.mr = new(k)] EXCEPT !.threw = dram]
             described(k) == [[M EXCEPT !.mr = new(k)] EXCEPT !.send = told(k)]
  <1>1. M.mm = mm /\ M.mr = mr
    BY DEF Results
  <1>2. R \in {M} \cup {kept(k) : k \in fresh} \cup {described(k) : k \in fresh}
    <2>1. R \in register_mr_to_descriptor(M)
      OBVIOUS
    <2> HIDE DEF M
    <2> QED
      BY <2>1, Zenon DEF register_mr_to_descriptor
  <1>3. ASSUME NEW k
        PROVE  /\ kept(k) = Results(mm, files, new(k), snd, posts, dram)
               /\ described(k) = Results(mm, files, new(k), told(k), posts, threw)
    <2> HIDE DEF new, told, dram
    <2>1. [M EXCEPT !.mr = new(k)] = Results(mm, files, new(k), snd, posts, threw)
      BY DEF Results
    <2>2. [Results(mm, files, new(k), snd, posts, threw) EXCEPT !.threw = dram]
            = Results(mm, files, new(k), snd, posts, dram)
      BY DEF Results
    <2>3. [Results(mm, files, new(k), snd, posts, threw) EXCEPT !.send = told(k)]
            = Results(mm, files, new(k), told(k), posts, threw)
      BY DEF Results
    <2> QED
      BY <2>1, <2>2, <2>3, ZenonT(40)
  <1>4. \/ R = M
        \/ \E k \in fresh : R = Results(mm, files, new(k), snd, posts, dram)
        \/ \E k \in fresh : R = Results(mm, files, new(k), told(k), posts, threw)
    <2> HIDE DEF M, fresh, new, told, dram, kept, described
    <2> QED
      BY <1>2, <1>3
  <1>5. CASE R = M
    BY <1>5 DEF Results, Registers
  <1>6. CASE \E k \in fresh : R = Results(mm, files, new(k), snd, posts, dram)
    BY <1>1, <1>6 DEF Results, Registers
  <1>7. CASE \E k \in fresh : R = Results(mm, files, new(k), told(k), posts, threw)
    BY <1>1, <1>7, SMTT(30) DEF Results, Registers
  <1> QED
    BY <1>4, <1>5, <1>6, <1>7, Zenon

\* INIT uses the memory that is there or gets what was asked for, or throws.
LEMMA InitRequestResult ==
  ASSUME NEW mm, NEW files, NEW mr, NEW snd, NEW posts, NEW threw, NEW req,
         NEW R \in get_descriptor_for_write(Results(mm, files, mr, snd, posts, threw), req),
         ~R.threw, "data" \in DOMAIN mm
  PROVE  /\ R.mm.data # "null" /\ R.posts = posts /\ "data" \in DOMAIN R.mm
         /\ mm.data # "null" => R.mm = mm
         /\ mm.data = "null" => R.mm.size = req.size
         /\ Registers(R.mm, mr, snd, R)
  <1> DEFINE M == Results(mm, files, mr, snd, posts, threw)
  <1>0. M.mm = mm /\ M.fs = files
    BY DEF Results
  <1>1. CASE mm.data # "null"
    <2>1. R \in register_mr_to_descriptor(M)
      BY <1>0, <1>1 DEF get_descriptor_for_write, NeedsInit
    <2> QED
      BY <1>1, <2>1, RegisterResult
  <1>2. CASE mm.data = "null"
    <2>1. PICK r \in Mem!init(files, req.path, req.size) :
            R \in IF r.mm.data = "null"
                  THEN {[M EXCEPT !.mm = Mem!Fresh, !.fs = r.fs, !.threw = TRUE]}
                  ELSE register_mr_to_descriptor([M EXCEPT !.mm = r.mm, !.fs = r.fs])
      BY <1>0, <1>2, ZenonT(40) DEF get_descriptor_for_write, NeedsInit
    <2>2. r.mm.size = req.size /\ "data" \in DOMAIN r.mm
      BY DEF Mem!init
    <2>3. r.mm.data # "null"
      <3>1. [M EXCEPT !.mm = Mem!Fresh, !.fs = r.fs, !.threw = TRUE].threw = TRUE
        BY DEF Results
      <3>2. CASE r.mm.data = "null"
        <4>1. R.threw = TRUE
          BY <2>1, <3>1, <3>2, Zenon
        <4> QED
          BY <4>1, Zenon
      <3> QED
        BY <3>2
    <2>4. [M EXCEPT !.mm = r.mm, !.fs = r.fs] = Results(r.mm, r.fs, mr, snd, posts, threw)
      <3>1. [M EXCEPT !.mm = r.mm] = Results(r.mm, files, mr, snd, posts, threw)
        BY DEF Results
      <3>2. [Results(r.mm, files, mr, snd, posts, threw) EXCEPT !.fs = r.fs]
              = Results(r.mm, r.fs, mr, snd, posts, threw)
        BY DEF Results
      <3> HIDE DEF M
      <3>3. [M EXCEPT !.mm = r.mm, !.fs = r.fs] = [[M EXCEPT !.mm = r.mm] EXCEPT !.fs = r.fs]
        OBVIOUS
      <3> QED
        BY <3>1, <3>2, <3>3, Zenon
    <2>5. R.mm = r.mm /\ R.posts = posts /\ Registers(r.mm, mr, snd, R)
      BY <2>1, <2>3, <2>4, RegisterResult, SMTT(30)
    <2> QED
      BY <1>2, <2>2, <2>3, <2>5
  <1> QED
    BY <1>1, <1>2

\* FINISHED leaves no memory and no registration.
LEMMA CloseRequestResult ==
  ASSUME NEW mm, NEW files, NEW mr, NEW snd, NEW posts, NEW threw,
         "data" \in DOMAIN mm,
         NEW R \in close(Results(mm, files, mr, snd, posts, threw))
  PROVE  /\ R.mm.data = "null" /\ R.mr = Nil /\ R.posts = TRUE /\ "data" \in DOMAIN R.mm
         /\ R.send \in [type : {"FINISHED_SUCCESSED", "FINISHED_FAILED"}]
  <1> DEFINE M == Results(mm, files, mr, snd, posts, threw)
  <1>1. PICK r \in Mem!close_and_remove(mm, files) :
          R = [M EXCEPT !.mr = Nil, !.mm = r.mm, !.fs = r.fs, !.posts = TRUE,
                        !.send = [type |-> IF r.failed THEN "FINISHED_FAILED"
                                           ELSE "FINISHED_SUCCESSED"]]
    BY Zenon DEF close, Results
  <1>2. /\ R.mr = Nil /\ R.mm = r.mm /\ R.posts = TRUE
        /\ R.send = [type |-> IF r.failed THEN "FINISHED_FAILED" ELSE "FINISHED_SUCCESSED"]
    BY <1>1 DEF Results
  <1>3. r.mm.data = "null" /\ "data" \in DOMAIN r.mm
    BY DEF Mem!close_and_remove
  <1> QED
    BY <1>2, <1>3

-----------------------------------------------------------------------------
(* What the client sees of the queues.                                     *)

\* What else the refinement rests on.
SeenInv ==
  Running => /\ Len(sq) <= SqSize
             /\ Waiting => recv_bl \in Request
             /\ "data" \in DOMAIN data_manager
             /\ data_manager.data # "null" => data_manager.size \in Sizes

\* Posts of the callback: one reply, or two with that of close().
LEMMA DealRequirePosts ==
  ASSUME NEW H \in HeapState, NEW posts \in BOOLEAN, NEW o \in Ops, NEW p \in Ops,
         NEW ok1 \in BOOLEAN, NEW ok2 \in BOOLEAN, NEW ok3 \in BOOLEAN, Len(H.sq) <= SqSize
  PROVE  LET n == Len(deal_require(H, posts, o, p, ok1, ok2, ok3).sq) IN
         n \in Len(H.sq)..Len(H.sq) + (IF posts THEN 2 ELSE 1) /\ n <= SqSize
  <1> DEFINE H1 == IF posts THEN send(H, o, "none", ok1) ELSE H
             H2 == recv(H1, p, "deal_require", ok2)
             H3 == rpma_send(H2, ok3)
  <1>1. H.sq \in Seq(Context) /\ o \in Context /\ Nullptr \in Context
    BY DEF HeapState, Context
  <1>2. Len(H.sq) \in Nat /\ Len(Append(H.sq, o)) = Len(H.sq) + 1 /\ Append(H.sq, o) \in Seq(Context)
    BY <1>1, QueueFacts, AppendFacts
  <1>3. H1.sq = H.sq \/ (posts /\ H1.sq = Append(H.sq, o) /\ Len(H.sq) < SqSize)
    BY DEF send, CanSend
  <1>4. deal_require(H, posts, o, p, ok1, ok2, ok3) = H3
    BY DEF deal_require
  <1> HIDE DEF H1
  <1>5. H2.sq = H1.sq
    BY DEF recv
  <1> HIDE DEF H2
  <1>6. H2.sq \in Seq(Context)
    BY <1>1, <1>2, <1>3, <1>5, ZenonT(40)
  <1>7. Len(Append(H2.sq, Nullptr)) = Len(H2.sq) + 1
    BY <1>1, <1>6, QueueFacts
  <1>8. H3.sq = H2.sq \/ (H3.sq = Append(H2.sq, Nullptr) /\ Len(H2.sq) < SqSize)
    <2>1. [H2 EXCEPT !.sq = Append(@, Nullptr)].sq \in {H2.sq, Append(H2.sq, Nullptr)}
      <3>1. H2 \in HeapState
        <4>1. H1 \in HeapState
          BY <1>2, OpsAssumption DEF H1, send, HeapState, Callback
        <4> QED
          BY <4>1 DEF H2, recv, HeapState, Callback
      <3> QED
        BY <3>1 DEF HeapState
    <2> QED
      BY <2>1 DEF rpma_send, CanSend
  <1> HIDE DEF H3
  <1>9. SqSize \in Nat
    BY QueuesAssumption
  <1> DEFINE n == Len(H.sq)
             n2 == Len(H2.sq)
             n3 == Len(H3.sq)
  <1>10. n \in Nat /\ n <= SqSize /\ (n2 = n \/ (posts /\ n2 = n + 1 /\ n < SqSize))
    BY <1>2, <1>3, <1>5
  <1>11. n3 = n2 \/ (n3 = n2 + 1 /\ n2 < SqSize)
    BY <1>7, <1>8
  <1> HIDE DEF n, n2, n3
  <1>12. n3 \in n..n + (IF posts THEN 2 ELSE 1) /\ n3 <= SqSize
    <2>1. CASE posts
      BY <1>9, <1>10, <1>11, <2>1
    <2>2. CASE ~posts
      BY <1>9, <1>10, <1>11, <2>2, SMTT(30)
    <2> QED
      BY <2>1, <2>2
  <1> QED
    BY <1>4, <1>12, Zenon DEF n, n3

\* The request that waits is a successful completion of a receive.
LEMMA WaitingMeans ==
  Waiting <=> \E i \in DOMAIN cq : cq[i].status = "success" /\ IsReceive(H0, cq[i].ctx)
  BY DEF Waiting, IsRequest, IsReceive, H0

\* A completion that is no request is read.
LEMMA TailWaiting ==
  ASSUME cq \in Seq(Completion), cq # << >>, cq' = Tail(cq), ~IsRequest(Head(cq)),
         \A i \in DOMAIN cq' : IsReceive(H0', cq'[i].ctx) <=> IsReceive(H0, cq'[i].ctx)
  PROVE  Waiting' <=> Waiting
  <1>1. /\ Head(cq) = cq[1] /\ 1 \in DOMAIN cq
        /\ \A i \in DOMAIN cq' : i + 1 \in DOMAIN cq /\ cq'[i] = cq[i + 1]
    BY TailFacts
  <1>2. \A i \in DOMAIN cq \ {1} : i - 1 \in DOMAIN cq' /\ cq'[i - 1] = cq[i]
    BY QueueFacts
  <1>3. Waiting' <=> \E i \in DOMAIN cq' : cq'[i].status = "success" /\ IsReceive(H0', cq'[i].ctx)
    BY DEF Waiting, IsRequest, IsReceive, H0
  <1>4. ~(cq[1].status = "success" /\ IsReceive(H0, cq[1].ctx))
    BY <1>1 DEF IsRequest, IsReceive, H0
  <1>5. ASSUME NEW i \in DOMAIN cq', cq'[i].status = "success", IsReceive(H0', cq'[i].ctx)
        PROVE  Waiting
    BY <1>1, <1>5, WaitingMeans
  <1>6. ASSUME NEW i \in DOMAIN cq, cq[i].status = "success", IsReceive(H0, cq[i].ctx)
        PROVE  Waiting'
    <2>1. i - 1 \in DOMAIN cq' /\ cq'[i - 1] = cq[i]
      BY <1>2, <1>4, <1>6
    <2> QED
      BY <1>3, <1>6, <2>1
  <1> QED
    BY <1>3, <1>5, <1>6, WaitingMeans, ZenonT(40)

\* A completion comes in.
LEMMA AppendWaiting ==
  ASSUME NEW e \in Completion, cq \in Seq(Completion), cq' = Append(cq, e), op' = op
  PROVE  Waiting' <=> Waiting \/ IsRequest(e)
  <1>1. /\ DOMAIN cq' = DOMAIN cq \cup {Len(cq) + 1} /\ cq'[Len(cq) + 1] = e
        /\ \A i \in DOMAIN cq : cq'[i] = cq[i]
    BY AppendFacts
  <1> QED
    BY <1>1 DEF Waiting, IsRequest

-----------------------------------------------------------------------------
(* Steps the client does not see, and the end.                             *)

\* Nothing changes that the client can see.
LEMMA SameSeen ==
  ASSUME SeenInv, Running' <=> Running, Len(sq') = Len(sq), rq' = {} <=> rq = {},
         Waiting' <=> Waiting, UNCHANGED <<recv_bl, send_bl, data_manager, data_mr>>
  PROVE  SeenInv' /\ UNCHANGED Server!serverVars
  <1>1. SeenInv'
    BY DEF SeenInv
  <1>2. /\ Running' = Running /\ listeningSeen' = listeningSeen
        /\ requestSeen' = requestSeen /\ heldSeen' = heldSeen
    BY DEF listeningSeen, requestSeen, heldSeen, Running
  <1>3. regionSeen' = regionSeen /\ replySeen' = replySeen /\ owedSeen' = owedSeen
    BY DEF regionSeen, replySeen, owedSeen
  <1> QED
    BY <1>1, <1>2, <1>3 DEF Server!serverVars

\* The handler is gone, and stays so.
LEMMA GoneSeen ==
  ASSUME ~Running, ~Running'
  PROVE  SeenInv' /\ UNCHANGED Server!serverVars
  <1>1. SeenInv'
    BY DEF SeenInv
  <1>2. /\ Running' = Running /\ listeningSeen' = listeningSeen
        /\ requestSeen' = requestSeen /\ heldSeen' = heldSeen
    BY DEF listeningSeen, requestSeen, heldSeen, Running
  <1>3. regionSeen' = regionSeen /\ replySeen' = replySeen /\ owedSeen' = owedSeen
    BY DEF regionSeen, replySeen, owedSeen
  <1> QED
    BY <1>1, <1>2, <1>3 DEF Server!serverVars

\* The destruction begins.
LEMMA EndSeen ==
  ASSUME Running, ~Running'
  PROVE  SeenInv' /\ Server!Close
  <1>1. SeenInv'
    BY DEF SeenInv
  <1>2. Running = TRUE /\ Running' = FALSE /\ listeningSeen' = FALSE
    BY DEF Running, listeningSeen
  <1>3. /\ requestSeen' = Nil /\ heldSeen' = Nil /\ regionSeen' = Nil
        /\ replySeen' = Server!Unwritten /\ owedSeen' = 0
    BY DEF requestSeen, heldSeen, regionSeen, replySeen, owedSeen, Unwritten, Server!Unwritten
  <1> QED
    BY <1>1, <1>2, <1>3 DEF Server!Close

-----------------------------------------------------------------------------
(* Requests.                                                               *)

\* What all requests have in common.
LEMMA RequestServed ==
  ASSUME NEW n \in Nat, Running, Running', ~Waiting',
         Len(sq') \in Len(sq)..Len(sq) + n, Len(sq') <= SqSize
  PROVE  Server!Served(n)
  <1>1. requestSeen' = Nil /\ owedSeen' = Len(sq') /\ owedSeen = Len(sq)
    BY DEF requestSeen, owedSeen
  <1>2. Running' = Running /\ listeningSeen' \in BOOLEAN
    BY DEF Running, listeningSeen
  <1> QED
    BY <1>1, <1>2 DEF Server!Served

\* The request in the buffer is what the client asked for.
LEMMA RequestSeenIs ==
  ASSUME Running, Waiting, recv_bl \in Request
  PROVE  /\ requestSeen # Nil /\ requestSeen.type = recv_bl.type
         /\ recv_bl.type = "INIT_REQUEST" => recv_bl.size \in Sizes /\ requestSeen.size = recv_bl.size
         /\ recv_bl.type \in {"INIT_REQUEST", "FINISHED_REQUEST", "UNSUPPORTED"}
  <1>1. CASE recv_bl \in InitRequest
    <2>1. recv_bl.type = "INIT_REQUEST" /\ recv_bl.size \in Sizes
      BY <1>1 DEF InitRequest
    <2>2. requestSeen = [type |-> "INIT_REQUEST", size |-> recv_bl.size]
      BY <2>1, ZenonT(40) DEF requestSeen
    <2>3. requestSeen \in Server!Request
      BY <2>1, <2>2 DEF Server!Request
    <2> QED
      BY <2>1, <2>2, <2>3, NilAssumption, ZenonT(40)
  <1>2. CASE recv_bl \in [type : {"FINISHED_REQUEST", "UNSUPPORTED"}]
    <2>1. recv_bl.type \in {"FINISHED_REQUEST", "UNSUPPORTED"}
      BY <1>2
    <2>2. requestSeen = recv_bl
      BY <2>1 DEF requestSeen
    <2>3. requestSeen \in Server!Request
      BY <1>2, <2>2, ZenonT(40) DEF Server!Request
    <2> QED
      BY <2>1, <2>2, <2>3, NilAssumption
  <1> QED
    BY <1>1, <1>2 DEF Request

\* Memory is seen exactly when it is there.
LEMMA HeldSeenIs ==
  ASSUME Running, data_manager.data # "null" => data_manager.size \in Sizes
  PROVE  /\ data_manager.data = "null" => heldSeen = Nil
         /\ data_manager.data # "null" =>
              /\ heldSeen # Nil
              /\ heldSeen = [size |-> data_manager.size, pmem |-> data_manager.data = "pmem"]
  <1>1. CASE data_manager.data = "null"
    BY <1>1 DEF heldSeen
  <1>2. CASE data_manager.data # "null"
    <2>1. heldSeen = [size |-> data_manager.size, pmem |-> data_manager.data = "pmem"]
      BY <1>2 DEF heldSeen
    <2>2. heldSeen \in Server!Memory
      BY <1>2, <2>1 DEF Server!Memory
    <2> QED
      BY <1>2, <2>1, <2>2, NilAssumption, ZenonT(40)
  <1> QED
    BY <1>1, <1>2, ZenonT(40)

\* The callback has run, with the reply of close() or without.
Replied(posts) ==
  \E o, p \in Ops \ Allocated, ok1, ok2, ok3 \in BOOLEAN :
    LET c == Head(cq).ctx IN
    /\ o # p
    /\ SetHeap(delete(deal_require(erase(H0, c), posts, o, p, ok1, ok2, ok3), c))

\* The heap and the queues after a request.
LEMMA RequestPosts ==
  ASSUME OpsInv, SingleInv, Running, Len(sq) <= SqSize, NEW posts \in BOOLEAN,
         cq # << >>, IsRequest(Head(cq)), cq' = Tail(cq), Replied(posts)
  PROVE  /\ ~Waiting' /\ Len(sq') <= SqSize
         /\ Len(sq') \in Len(sq)..Len(sq) + (IF posts THEN 2 ELSE 1)
  <1> DEFINE c == Head(cq).ctx
             E == erase(H0, c)
  <1>1. PICK o \in Ops \ Allocated, p \in Ops \ Allocated,
             ok1 \in BOOLEAN, ok2 \in BOOLEAN, ok3 \in BOOLEAN :
          /\ o # p
          /\ SetHeap(delete(deal_require(E, posts, o, p, ok1, ok2, ok3), c))
    BY DEF Replied
  <1> DEFINE D == deal_require(E, posts, o, p, ok1, ok2, ok3)
  <1>2. Owned(H0, cq) /\ Single(H0, cq) /\ H0 \in HeapState /\ cq \in Seq(Completion)
    BY OwnedState DEF SingleInv, OpsInv
  <1>3. c # Nullptr /\ IsReceive(H0, c)
    BY ZenonT(40) DEF IsRequest, IsReceive, H0
  <1>4. InCallback(E, cq', c) /\ Alive(E) = Allocated
    <2>1. InCallback(E, cq', c) /\ Alive(E) = Alive(H0)
      BY <1>2, <1>3, EraseEnters, ZenonT(40)
    <2>2. Alive(H0) = Allocated
      BY ZenonT(40) DEF Allocated, Alive, H0
    <2> QED
      BY <2>1, <2>2, ZenonT(40)
  <1>5. Calm(E, cq')
    BY <1>2, <1>3, TailStaysSingle, EraseStays
  <1>6. E \in HeapState /\ E.sq = sq
    BY <1>2 DEF erase, H0, HeapState
  <1>7. SetHeap(delete(D, c))
    BY <1>1
  <1> HIDE DEF c, E
  <1>8. /\ InCallback(D, cq', c) /\ Single(D, cq') /\ NoneQueued(D, cq')
        /\ Len(D.sq) \in Len(sq)..Len(sq) + (IF posts THEN 2 ELSE 1) /\ Len(D.sq) <= SqSize
    <2>1. InCallback(D, cq', c)
      BY <1>1, <1>4, DealRequireKeeps, ZenonT(40)
    <2>2. Single(D, cq') /\ NoneQueued(D, cq')
      BY <1>1, <1>4, <1>5, DealRequireIsSingle
    <2>3. Len(D.sq) \in Len(E.sq)..Len(E.sq) + (IF posts THEN 2 ELSE 1) /\ Len(D.sq) <= SqSize
      BY <1>1, <1>6, DealRequirePosts, ZenonT(40)
    <2> HIDE DEF D
    <2> QED
      BY <1>6, <2>1, <2>2, <2>3, ZenonT(40)
  <1> HIDE DEF D
  <1>9. NoneQueued(delete(D, c), cq')
    BY <1>8, DeleteStaysSingle
  <1>10. op' = delete(D, c).op /\ sq' = D.sq
    BY <1>7, <1>8, ZenonT(40) DEF SetHeap, delete, InCallback, HeapState
  <1>11. ~Waiting'
    BY <1>9, <1>10 DEF Waiting, IsRequest, NoneQueued, IsReceive
  <1> QED
    BY <1>8, <1>10, <1>11, ZenonT(40)

\* A request is served as ReplicaServer says.
LEMMA GetRequestServes ==
  ASSUME OpsInv, SingleInv, SeenInv, Running, GetRequest
  PROVE  SeenInv' /\ Server!Serve
  <1>1. PICK M \in get_descriptor(M0, recv_bl) :
          ~M.threw /\ SetMemory(M) /\ Replied(M.posts)
    BY DEF GetRequest, Replied
  <1>2. cq # << >> /\ IsRequest(Head(cq)) /\ cq' = Tail(cq) /\ Running'
    BY DEF GetRequest, Running
  <1>3. /\ Len(sq) <= SqSize /\ "data" \in DOMAIN data_manager
        /\ data_manager.data # "null" => data_manager.size \in Sizes
    BY DEF SeenInv
  <1>4. Waiting /\ recv_bl \in Request
    <2>1. 1 \in DOMAIN cq /\ Head(cq) = cq[1]
      BY <1>2, TailFacts DEF OpsInv
    <2> QED
      BY <1>2, <2>1 DEF Waiting, SeenInv
  <1>5. M0 = Results(data_manager, fs, data_mr, send_bl, FALSE, FALSE)
    BY DEF M0, Results
  <1>6. data_manager' = M.mm /\ data_mr' = M.mr /\ send_bl' = M.send
    BY <1>1 DEF SetMemory
  <1>7. regionSeen' = M.mr /\ replySeen' = M.send /\ regionSeen = data_mr /\ replySeen = send_bl
    BY <1>2, <1>6, ZenonT(40) DEF regionSeen, replySeen
  <1>8. ASSUME M.posts \in BOOLEAN
        PROVE  /\ ~Waiting' /\ Len(sq') <= SqSize
               /\ Len(sq') \in Len(sq)..Len(sq) + (IF M.posts THEN 2 ELSE 1)
    BY <1>1, <1>2, <1>3, <1>8, RequestPosts, ZenonT(40)
  <1>9. ASSUME M.posts \in BOOLEAN, "data" \in DOMAIN M.mm,
               M.mm.data # "null" => M.mm.size \in Sizes
        PROVE  SeenInv'
    BY <1>6, <1>8, <1>9 DEF SeenInv
  <1>10. CASE recv_bl.type = "INIT_REQUEST"
    <2>1. M \in get_descriptor_for_write(Results(data_manager, fs, data_mr, send_bl, FALSE, FALSE),
                                         recv_bl)
      BY <1>1, <1>5, <1>10, Zenon DEF get_descriptor
    <2>2. /\ M.mm.data # "null" /\ M.posts = FALSE /\ "data" \in DOMAIN M.mm
          /\ data_manager.data # "null" => M.mm = data_manager
          /\ data_manager.data = "null" => M.mm.size = recv_bl.size
          /\ Registers(M.mm, data_mr, send_bl, M)
      BY <1>1, <1>3, <2>1, InitRequestResult, ZenonT(40)
    <2>3. /\ requestSeen # Nil /\ requestSeen.type = "INIT_REQUEST"
          /\ requestSeen.size = recv_bl.size /\ recv_bl.size \in Sizes
      BY <1>4, <1>10, RequestSeenIs
    <2>4. M.mm.size \in Sizes
      BY <1>3, <2>2, <2>3, ZenonT(40)
    <2>5. heldSeen' = [size |-> M.mm.size, pmem |-> M.mm.data = "pmem"]
      BY <1>2, <1>6, <2>2 DEF heldSeen
    <2>6. heldSeen' \in Server!MemoryFor(requestSeen)
      <3>1. CASE data_manager.data # "null"
        BY <1>3, <2>2, <2>5, <3>1, HeldSeenIs, ZenonT(40) DEF Server!MemoryFor
      <3>2. CASE data_manager.data = "null"
        BY <1>3, <2>2, <2>3, <2>5, <3>2, HeldSeenIs, ZenonT(40) DEF Server!MemoryFor
      <3> QED
        BY <3>1, <3>2, ZenonT(40)
    <2>7. \/ TRUE /\ UNCHANGED <<regionSeen, replySeen>>
          \/ \E k \in {k \in Keys : regionSeen = Nil \/ k # regionSeen.key} :
               /\ regionSeen' = [key |-> k, size |-> heldSeen'.size]
               /\ \/ replySeen' = [type |-> "INIT_SUCCESSED", key |-> k,
                                   size |-> heldSeen'.size, pmem |-> heldSeen'.pmem]
                  \/ TRUE /\ UNCHANGED replySeen
      <3>1. heldSeen'.size = M.mm.size /\ heldSeen'.pmem = (M.mm.data = "pmem")
        BY <2>5
      <3> QED
        BY <1>7, <2>2, <3>1, ZenonT(40) DEF Registers
    <2>8. Server!Served(1)
      BY <1>2, <1>8, <2>2, RequestServed, Zenon
    <2>9. Server!ServeInit
      BY <2>3, <2>6, <2>7, <2>8 DEF Server!ServeInit
    <2> QED
      BY <1>9, <2>2, <2>4, <2>9, Zenon DEF Server!Serve
  <1>11. CASE recv_bl.type = "FINISHED_REQUEST"
    <2>1. M \in close(Results(data_manager, fs, data_mr, send_bl, FALSE, FALSE))
      BY <1>1, <1>5, <1>11, Zenon DEF get_descriptor
    <2>2. /\ M.mm.data = "null" /\ M.mr = Nil /\ M.posts = TRUE /\ "data" \in DOMAIN M.mm
          /\ M.send \in [type : {"FINISHED_SUCCESSED", "FINISHED_FAILED"}]
      BY <1>3, <2>1, CloseRequestResult, Zenon
    <2>3. requestSeen # Nil /\ requestSeen.type = "FINISHED_REQUEST"
      BY <1>4, <1>11, RequestSeenIs
    <2>4. heldSeen' = Nil
      BY <1>6, <2>2 DEF heldSeen
    <2>5. Server!Served(2)
      BY <1>2, <1>8, <2>2, RequestServed, Zenon
    <2>6. Server!ServeFinished
      BY <1>7, <2>2, <2>3, <2>4, <2>5 DEF Server!ServeFinished
    <2> QED
      BY <1>9, <2>2, <2>6, Zenon DEF Server!Serve
  <1>12. CASE recv_bl.type = "UNSUPPORTED"
    <2>1. M = Results(data_manager, fs, data_mr, send_bl, FALSE, FALSE)
      BY <1>1, <1>5, <1>12 DEF get_descriptor
    <2>2. M.mm = data_manager /\ M.mr = data_mr /\ M.send = send_bl /\ M.posts = FALSE
      BY <2>1 DEF Results
    <2>3. requestSeen # Nil /\ requestSeen.type = "UNSUPPORTED"
      BY <1>4, <1>12, RequestSeenIs, ZenonT(40)
    <2>4. UNCHANGED <<heldSeen, regionSeen, replySeen>>
      BY <1>2, <1>6, <1>7, <2>2 DEF heldSeen
    <2>5. Server!Served(1)
      BY <1>2, <1>8, <2>2, RequestServed, Zenon
    <2>6. Server!ServeUnsupported
      BY <2>3, <2>4, <2>5 DEF Server!ServeUnsupported
    <2> QED
      BY <1>3, <1>9, <2>2, <2>6, ZenonT(40) DEF Server!Serve
  <1> QED
    BY <1>4, <1>10, <1>11, <1>12, RequestSeenIs, ZenonT(40)

-----------------------------------------------------------------------------
(* The other steps, and the theorem.                                       *)

\* Completions that are no requests go unseen.
LEMMA CompletionSeen ==
  ASSUME OpsInv, SingleInv, SeenInv, HandleCompletion
  PROVE  SeenInv' /\ (Server!ServerNext \/ UNCHANGED Server!serverVars)
  <1>1. Running /\ Owned(H0, cq)
    BY OwnedState DEF HandleCompletion, Running
  <1>2. H0 \in HeapState /\ cq \in Seq(Completion)
    BY <1>1 DEF Owned
  <1>3. CASE GetRequest
    BY <1>1, <1>3, GetRequestServes DEF Server!ServerNext
  <1>4. CASE GetThrows
    BY <1>1, <1>4, EndSeen DEF GetThrows, Running, Server!ServerNext
  <1>5. CASE /\ ~(GetRequest \/ GetThrows)
             /\ WaitOk \/ WaitFails \/ GetNone \/ GetFails \/ GetError \/ GetQuiet
    <2>1. UNCHANGED <<recv_bl, send_bl, data_manager, data_mr, ends>>
      BY <1>5 DEF HandleCompletion, memVars
    <2>2. Running' <=> Running
      BY <2>1 DEF Running
    <2>3. CASE UNCHANGED <<op, callback_table, rq, sq, cq>>
      <3>1. Waiting' <=> Waiting
        BY <2>3 DEF Waiting, IsRequest
      <3> QED
        BY <2>1, <2>2, <2>3, <3>1, SameSeen
    <2>4. CASE /\ cq # << >> /\ cq' = Tail(cq) /\ ~IsRequest(Head(cq))
               /\ UNCHANGED <<op, callback_table, rq, sq>>
      <3>1. \A x : IsReceive(H0', x) <=> IsReceive(H0, x)
        BY <2>4 DEF IsReceive, H0
      <3>2. Waiting' <=> Waiting
        BY <1>2, <2>4, <3>1, TailWaiting
      <3> QED
        BY <2>1, <2>2, <2>4, <3>2, SameSeen, ZenonT(40)
    <2>5. CASE /\ cq # << >> /\ cq' = Tail(cq) /\ ~IsRequest(Head(cq)) /\ Head(cq).ctx # Nullptr
               /\ SetHeap(delete(erase(H0, Head(cq).ctx), Head(cq).ctx))
      <3> DEFINE c == Head(cq).ctx
                 E == erase(H0, c)
      <3>1. InCallback(E, cq', c) /\ Single(E, cq')
        BY <1>1, <1>2, <2>5, EraseEnters, TailStaysSingle, EraseStays, ZenonT(40) DEF SingleInv
      <3>2. \A x : IsReceive(E, x) <=> IsReceive(H0, x)
        BY <1>2, EraseStays, Zenon
      <3>3. SetHeap(delete(E, c)) /\ E.rq = rq /\ E.sq = sq
        BY <1>2, <2>5 DEF erase, H0, HeapState
      <3> HIDE DEF c, E
      <3>4. /\ op' = delete(E, c).op /\ rq' = rq /\ sq' = sq
        BY <3>1, <3>3, ZenonT(40) DEF SetHeap, delete, InCallback, HeapState
      <3>5. \A i \in DOMAIN cq' : IsReceive(H0', cq'[i].ctx) <=> IsReceive(delete(E, c), cq'[i].ctx)
        BY <3>4 DEF IsReceive, H0
      <3>6. \A i \in DOMAIN cq' : IsReceive(H0', cq'[i].ctx) <=> IsReceive(H0, cq'[i].ctx)
        BY <3>1, <3>2, <3>5, DeleteStaysSingle, ZenonT(40)
      <3>7. Waiting' <=> Waiting
        BY <1>2, <2>5, <3>6, TailWaiting
      <3> QED
        BY <2>1, <2>2, <3>4, <3>7, SameSeen
    <2>6. CASE WaitOk \/ WaitFails \/ GetNone
      BY <2>3, <2>6, ZenonT(40) DEF WaitOk, WaitFails, GetNone, queueVars
    <2>7. CASE GetFails \/ GetError
      BY <2>3, <2>4, <2>7, ZenonT(40) DEF GetFails, GetError, IsRequest
    <2>8. CASE GetQuiet
      BY <2>4, <2>5, <2>8 DEF GetQuiet, IsRequest
    <2> QED
      BY <1>5, <2>6, <2>7, <2>8
  <1> QED
    BY <1>3, <1>4, <1>5 DEF HandleCompletion

\* A reply leaves, or is flushed.
LEMMA SendSeen ==
  ASSUME OpsInv, SingleInv, SeenInv, Running, NEW status \in {"success", "error"},
         SendCompletes(status), UNCHANGED <<memVars, ends>>
  PROVE  SeenInv' /\ Server!ReplyLeaves
  <1> DEFINE e == [ctx |-> Head(sq), status |-> status]
  <1>1. /\ sq # << >> /\ sq' = Tail(sq) /\ cq' = Append(cq, e)
        /\ UNCHANGED <<op, rq>>
    BY ZenonT(40) DEF SendCompletes, Push
  <1>2. /\ sq \in Seq(Context) /\ cq \in Seq(Completion) /\ NoneSent(H0)
        /\ H0.sq = sq /\ H0.op = op
    BY DEF OpsInv, SingleInv, Single, H0, HeapState
  <1>3. Head(sq) \in Context /\ 1 \in DOMAIN sq /\ Head(sq) = sq[1]
    BY <1>1, <1>2, TailFacts, ZenonT(40)
  <1>4. e \in Completion /\ ~IsRequest(e)
    BY <1>2, <1>3, ZenonT(40) DEF Completion, IsRequest, NoneSent, IsReceive
  <1> HIDE DEF e
  <1>5. Waiting' <=> Waiting
    BY <1>1, <1>2, <1>4, AppendWaiting, ZenonT(40)
  <1>6. Len(sq) \in Nat /\ Len(sq) > 0 /\ Len(sq') = Len(sq) - 1
    BY <1>1, <1>2, QueueFacts
  <1>7. UNCHANGED <<recv_bl, send_bl, data_manager, data_mr>> /\ (Running' <=> Running)
    BY DEF memVars, Running
  <1>8. SeenInv'
    BY <1>5, <1>6, <1>7, QueuesAssumption, SMTT(30) DEF SeenInv
  <1>9. /\ Running' = Running /\ listeningSeen' = listeningSeen
        /\ requestSeen' = requestSeen /\ heldSeen' = heldSeen
    BY <1>1, <1>5, <1>7 DEF listeningSeen, requestSeen, heldSeen, Running
  <1>10. /\ regionSeen' = regionSeen /\ replySeen' = replySeen
         /\ owedSeen = Len(sq) /\ owedSeen' = Len(sq')
    BY <1>7 DEF regionSeen, replySeen, owedSeen
  <1>11. owedSeen > 0 /\ owedSeen' = owedSeen - 1
    BY <1>6, <1>10
  <1> QED
    BY <1>8, <1>9, <1>10, <1>11, ZenonT(40) DEF Server!ReplyLeaves

\* A request comes in through the posted receive, or the receive is flushed.
LEMMA RecvSeen ==
  ASSUME OpsInv, SingleInv, SeenInv, Running, NEW o, NEW status \in {"success", "error"},
         RecvCompletes(o, status), UNCHANGED <<send_bl, data_manager, data_mr, ends>>,
         IF status = "success" THEN recv_bl' \in Request ELSE recv_bl' = recv_bl
  PROVE  SeenInv' /\ Server!ServerNext
  <1> DEFINE e == [ctx |-> o, status |-> status]
  <1>1. o \in rq /\ rq' = rq \ {o} /\ cq' = Append(cq, e) /\ UNCHANGED <<op, sq>>
    BY DEF RecvCompletes, Push
  <1>2. /\ rq \subseteq Ops /\ cq \in Seq(Completion) /\ Single(H0, cq)
        /\ H0.rq = rq /\ H0.op = op
    BY DEF OpsInv, SingleInv, H0, HeapState
  <1>3. e \in Completion /\ (IsRequest(e) <=> status = "success")
    BY <1>1, <1>2, ZenonT(40) DEF Completion, Context, IsRequest, Single, IsReceive
  <1> HIDE DEF e
  <1>4. rq # {} /\ rq' = {}
    BY <1>1, <1>2, ZenonT(40) DEF Single
  <1>5. ~Waiting
    BY <1>1, <1>2, WaitingMeans, ZenonT(40) DEF Single
  <1>6. Waiting' <=> status = "success"
    BY <1>1, <1>2, <1>3, <1>5, AppendWaiting
  <1>7. Running'
    BY DEF Running
  <1>8. SeenInv'
    BY <1>1, <1>6 DEF SeenInv
  <1>9. /\ Running' = Running /\ listeningSeen = TRUE /\ listeningSeen' = FALSE
    BY <1>4, <1>7, ZenonT(40) DEF listeningSeen, Running
  <1>10. /\ requestSeen = Nil /\ heldSeen' = heldSeen
         /\ regionSeen' = regionSeen /\ replySeen' = replySeen /\ owedSeen' = owedSeen
    BY <1>1, <1>5, <1>7 DEF requestSeen, heldSeen, regionSeen, replySeen, owedSeen
  <1>11. CASE status = "success"
    <2>1. requestSeen' = IF recv_bl'.type = "INIT_REQUEST"
                         THEN [type |-> "INIT_REQUEST", size |-> recv_bl'.size] ELSE recv_bl'
      BY <1>6, <1>7, <1>11 DEF requestSeen
    <2>2. requestSeen' \in Server!Request
      BY <1>11, <2>1 DEF Server!Request, Request, InitRequest
    <2>3. Server!Receive(requestSeen')
      BY <1>9, <1>10 DEF Server!Receive
    <2> QED
      BY <1>8, <2>2, <2>3 DEF Server!ServerNext
  <1>12. CASE status = "error"
    <2>1. requestSeen' = Nil
      BY <1>6, <1>12 DEF requestSeen
    <2>2. Server!ReceiveFlushed
      BY <1>9, <1>10, <2>1 DEF Server!ReceiveFlushed
    <2> QED
      BY <1>8, <2>2 DEF Server!ServerNext
  <1> QED
    BY <1>11, <1>12

\* Every step.
LEMMA StepSeen ==
  ASSUME OpsInv, SingleInv, SeenInv, [Next]_vars
  PROVE  SeenInv' /\ [Server!ServerNext]_Server!serverVars
  <1>1. CASE ~Running
    <2>1. ~Running'
      <3>1. CASE Teardown
        <4>1. ends \in Nat /\ ends' = ends + 1
          BY <3>1, SMTT(30) DEF Teardown, TeardownOrder
        <4> QED
          BY <4>1 DEF Running
      <3>2. CASE ends' = ends
        BY <1>1, <3>2 DEF Running
      <3> QED
        BY <1>1, <3>1, <3>2 DEF Next, HandleCompletion, ConnectionClosed, RequestArrives, Flushed,
                                ReplySent, LinkFails, Stopped, vars, Running
    <2> QED
      BY <1>1, <2>1, GoneSeen
  <1>2. CASE Running
    <2>1. CASE HandleCompletion
      BY <2>1, CompletionSeen
    <2>2. CASE ConnectionClosed
      BY <1>2, <2>2, EndSeen DEF ConnectionClosed, Running, Server!ServerNext
    <2>3. CASE Teardown
      BY <1>2, <2>3, SMTT(30) DEF Teardown, Running
    <2>4. CASE RequestArrives
      BY <1>2, <2>4, RecvSeen DEF RequestArrives
    <2>5. CASE Flushed
      <3>1. UNCHANGED <<memVars, ends>>
        BY <2>5 DEF Flushed
      <3>2. CASE SendCompletes("error")
        BY <1>2, <3>1, <3>2, SendSeen DEF Server!ServerNext
      <3>3. CASE \E o \in rq : RecvCompletes(o, "error")
        BY <1>2, <3>1, <3>3, RecvSeen DEF memVars
      <3> QED
        BY <2>5, <3>2, <3>3 DEF Flushed
    <2>6. CASE ReplySent
      BY <1>2, <2>6, SendSeen DEF ReplySent, Server!ServerNext
    <2>7. CASE LinkFails \/ Stopped \/ UNCHANGED vars
      <3>1. UNCHANGED <<op, rq, sq, cq, recv_bl, send_bl, data_manager, data_mr, ends>>
        BY <2>7, ZenonT(40) DEF LinkFails, LinkDown, Stopped, vars, chVars, queueVars, memVars
      <3>2. (Waiting' <=> Waiting) /\ (Running' <=> Running)
        BY <3>1 DEF Waiting, IsRequest, Running
      <3> QED
        BY <3>1, <3>2, SameSeen, ZenonT(40)
    <2> QED
      BY <2>1, <2>2, <2>3, <2>4, <2>5, <2>6, <2>7, ZenonT(40) DEF Next
  <1> QED
    BY <1>1, <1>2

\* The constructor.
LEMMA InitSeen == Init => SeenInv /\ Server!ServerInit
  <1>1. SUFFICES ASSUME Init PROVE SeenInv /\ Server!ServerInit
    OBVIOUS
  <1>2. /\ ends = 0 /\ sq = << >> /\ cq = << >> /\ rq # {} /\ data_mr = Nil
        /\ data_manager = Mem!Fresh /\ send_bl = Unwritten
    BY <1>1 DEF Init, init_send_recv_buffer
  <1>3. Running = TRUE /\ DOMAIN cq = {} /\ Len(sq) = 0
    BY <1>2 DEF Running
  <1>4. ~Waiting
    BY <1>3 DEF Waiting
  <1>5. data_manager.data = "null" /\ "data" \in DOMAIN data_manager
    BY <1>2 DEF Mem!Fresh
  <1>6. SeenInv
    BY <1>3, <1>4, <1>5, QueuesAssumption, SMTT(30) DEF SeenInv
  <1>7. listeningSeen = TRUE /\ requestSeen = Nil /\ heldSeen = Nil
    BY <1>2, <1>3, <1>4, <1>5, ZenonT(40) DEF listeningSeen, requestSeen, heldSeen
  <1>8. regionSeen = Nil /\ replySeen = Server!Unwritten /\ owedSeen = 0
    BY <1>2, <1>3 DEF regionSeen, replySeen, owedSeen, Unwritten, Server!Unwritten
  <1> QED
    BY <1>3, <1>6, <1>7, <1>8 DEF Server!ServerInit

\* For any queues, sizes, keys and failures, what a connection of the server does
\* is what ReplicaServer promises: the client composed with the promise in Replica
\* is composed with the code.
THEOREM HandlerIsServer == Spec => ImplementsServer
  <1>1. Spec => [](OpsInv /\ SingleInv)
    BY InitSingle, NextSingle, OpsInvariant, PTL DEF Spec
  <1>2. OpsInv /\ SingleInv /\ SeenInv /\ [Next]_vars
          => SeenInv' /\ [Server!ServerNext]_Server!serverVars
    BY StepSeen
  <1> QED
    BY <1>1, <1>2, InitSeen, PTL DEF Spec, ImplementsServer, Server!ServerSpec

-----------------------------------------------------------------------------
(* Types, from all of the invariants.                                      *)

\* Every variable keeps its type: in particular what is registered and what is
\* sent is of a key and a size there are, through every failing call.
THEOREM HandlerTypes == Spec => []TypeOK
  <1>1. ASSUME OpsInv, MemProofs!Inv, MemoryInv, FlagTypes, BufferTypes PROVE TypeOK
    <2>1. /\ op \in [Ops -> Callback \cup {Free}] /\ callback_table \subseteq Ops
          /\ rq \subseteq Ops /\ sq \in Seq(Context) /\ cq \in Seq(Completion)
      BY <1>1, ZenonT(40) DEF OpsInv, H0, HeapState
    <2>2. data_manager \in Mem!Manager /\ fs \in Mem!Files
      BY <1>1 DEF MemProofs!Inv, MemProofs!TypeOK, MemProofs!Manager, Mem!Manager,
                  MemProofs!Files, Mem!Files
    <2> QED
      BY <1>1, <2>1, <2>2, ZenonT(40) DEF TypeOK, MemoryInv, FlagTypes, BufferTypes, Received
  <1> QED
    BY <1>1, OpsInvariant, ManagerInvariant, MemoryInvariant, FlagsTyped, BuffersTyped, PTL
=============================================================================
