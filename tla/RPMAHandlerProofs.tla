-------------------------- MODULE RPMAHandlerProofs --------------------------
(* The operations of one server connection, for queues and heaps of any    *)
(* size: what callback_table owns and what the card's queues refer to.     *)
(* Then its memory: what is registered and what the send buffer promises,  *)
(* through every order of INIT and FINISHED, every failing call and the    *)
(* destruction.                                                            *)
EXTENDS RPMAHandler, SequenceTheorems, TLAPS

(* Queues, by position.                                                    *)

\* What Append adds, by position.
LEMMA AppendFacts ==
  ASSUME NEW S, NEW s \in Seq(S), NEW e \in S
  PROVE  /\ Append(s, e) \in Seq(S)
         /\ DOMAIN Append(s, e) = DOMAIN s \cup {Len(s) + 1}
         /\ Len(s) + 1 \notin DOMAIN s
         /\ Append(s, e)[Len(s) + 1] = e
         /\ \A i \in DOMAIN s : Append(s, e)[i] = s[i]
  <1>1. Len(s) \in Nat /\ DOMAIN s = 1..Len(s)
    BY LenProperties
  <1>2. /\ Append(s, e) \in Seq(S) /\ Len(Append(s, e)) = Len(s) + 1
        /\ \A i \in 1..Len(s) : Append(s, e)[i] = s[i]
        /\ Append(s, e)[Len(s) + 1] = e
    BY AppendProperties
  <1>3. DOMAIN Append(s, e) = 1..(Len(s) + 1)
    BY <1>2, LenProperties
  <1> QED
    BY <1>1, <1>2, <1>3

\* What Tail keeps, by position.
LEMMA TailFacts ==
  ASSUME NEW S, NEW s \in Seq(S), s # << >>
  PROVE  /\ Tail(s) \in Seq(S) /\ Head(s) \in S
         /\ 1 \in DOMAIN s /\ Head(s) = s[1]
         /\ \A i \in DOMAIN Tail(s) : i + 1 \in DOMAIN s /\ i + 1 # 1 /\ Tail(s)[i] = s[i + 1]
         /\ \A i, j \in DOMAIN Tail(s) : i # j => i + 1 # j + 1
  <1>1. Len(s) \in Nat \ {0} /\ DOMAIN s = 1..Len(s)
    BY LenProperties, EmptySeq
  <1>2. /\ Tail(s) \in Seq(S) /\ Head(s) \in S /\ Len(Tail(s)) = Len(s) - 1
        /\ \A i \in 1..Len(Tail(s)) : Tail(s)[i] = s[i + 1]
    BY HeadTailProperties
  <1>3. DOMAIN Tail(s) = 1..(Len(s) - 1)
    BY <1>2, LenProperties
  <1>4. Head(s) = s[1]
    OBVIOUS
  <1> QED
    BY <1>1, <1>2, <1>3, <1>4

\* Lengths, and that Tail forgets nothing but the first element.
LEMMA QueueFacts ==
  ASSUME NEW S, NEW s \in Seq(S)
  PROVE  /\ Len(s) \in Nat
         /\ \A e \in S : Len(Append(s, e)) = Len(s) + 1
         /\ s # << >> => /\ Len(s) > 0 /\ Len(Tail(s)) = Len(s) - 1
                         /\ \A i \in DOMAIN s \ {1} : i - 1 \in DOMAIN Tail(s) /\ Tail(s)[i - 1] = s[i]
  <1>1. Len(s) \in Nat /\ DOMAIN s = 1..Len(s)
    BY LenProperties
  <1>2. ASSUME s # << >>
        PROVE  /\ Len(s) > 0 /\ Len(Tail(s)) = Len(s) - 1
               /\ \A i \in DOMAIN s \ {1} : i - 1 \in DOMAIN Tail(s) /\ Tail(s)[i - 1] = s[i]
    <2>1. Len(s) \in Nat \ {0}
      BY <1>1, <1>2, EmptySeq
    <2>2. /\ Tail(s) \in Seq(S) /\ Len(Tail(s)) = Len(s) - 1
          /\ \A i \in 1..Len(Tail(s)) : Tail(s)[i] = s[i + 1]
      BY <1>2, HeadTailProperties
    <2>3. DOMAIN Tail(s) = 1..(Len(s) - 1)
      BY <2>2, LenProperties
    <2>4. ASSUME NEW i \in DOMAIN s \ {1}
          PROVE  i - 1 \in DOMAIN Tail(s) /\ Tail(s)[i - 1] = s[i]
      <3>1. i - 1 \in 1..(Len(s) - 1) /\ (i - 1) + 1 = i
        BY <1>1, <2>1
      <3> QED
        BY <2>2, <2>3, <3>1
    <2> QED
      BY <2>1, <2>2, <2>4
  <1>3. \A e \in S : Len(Append(s, e)) = Len(s) + 1
    BY AppendProperties
  <1> QED
    BY <1>1, <1>2, <1>3

-----------------------------------------------------------------------------

HeapState == [op : [Ops -> Callback \cup {Free}], table : SUBSET Ops,
              rq : SUBSET Ops, sq : Seq(Context)]

\* The objects on the heap of H.
Alive(H) == {o \in Ops : H.op[o] # Free}

\* ContextsLive for the heap and the queues of H and a completion queue q.
Live(H, q) ==
  /\ H.rq \subseteq Alive(H)
  /\ \A i \in DOMAIN H.sq : H.sq[i] # Nullptr => H.sq[i] \in Alive(H) \ H.rq
  /\ \A i \in DOMAIN q : q[i].ctx # Nullptr => q[i].ctx \in Alive(H) \ H.rq
  /\ \A i, j \in DOMAIN H.sq : H.sq[i] = H.sq[j] /\ i # j => H.sq[i] = Nullptr
  /\ \A i, j \in DOMAIN q : q[i].ctx = q[j].ctx /\ i # j => q[i].ctx = Nullptr
  /\ \A i \in DOMAIN H.sq, j \in DOMAIN q : H.sq[i] = q[j].ctx => H.sq[i] = Nullptr

\* No queue refers to c.
Gone(H, q, c) == /\ c \notin H.rq
                 /\ \A i \in DOMAIN H.sq : H.sq[i] # c
                 /\ \A i \in DOMAIN q : q[i].ctx # c

\* While the callback of op c runs: c is alive and owned by handle_completion,
\* every other op by callback_table.
InCallback(H, q, c) ==
  /\ H \in HeapState /\ q \in Seq(Completion) /\ c \in Alive(H)
  /\ H.table = Alive(H) \ {c} /\ Live(H, q) /\ Gone(H, q, c)

-----------------------------------------------------------------------------
(* Posting inside a callback.                                              *)

\* send() inside a callback, whether or not the card takes it.
LEMMA SendKeeps ==
  ASSUME NEW H, NEW q, NEW c, InCallback(H, q, c), NEW o \in Ops \ Alive(H),
         NEW cb \in Callback, NEW ok \in BOOLEAN
  PROVE  /\ InCallback(send(H, o, cb, ok), q, c)
         /\ Alive(send(H, o, cb, ok)) \subseteq Alive(H) \cup {o}
  <1> DEFINE K == [op |-> [H.op EXCEPT ![o] = cb], table |-> H.table \cup {o},
                   rq |-> H.rq, sq |-> Append(H.sq, o)]
  <1>1. CASE ~(ok /\ CanSend(H))
    BY <1>1 DEF send
  <1>2. CASE ok /\ CanSend(H)
    <2>1. send(H, o, cb, ok) = K
      BY <1>2 DEF send
    <2>2. H \in HeapState /\ o \in Context /\ H.sq \in Seq(Context)
      BY DEF InCallback, HeapState, Context
    <2>3. K \in HeapState /\ Alive(K) = Alive(H) \cup {o}
      <3>1. Append(H.sq, o) \in Seq(Context)
        BY <2>2, AppendFacts
      <3> QED
        BY <2>2, <3>1, OpsAssumption DEF HeapState, Alive
    <2>4. /\ DOMAIN K.sq = DOMAIN H.sq \cup {Len(H.sq) + 1}
          /\ Len(H.sq) + 1 \notin DOMAIN H.sq
          /\ K.sq[Len(H.sq) + 1] = o
          /\ \A i \in DOMAIN H.sq : K.sq[i] = H.sq[i]
      BY <2>2, AppendFacts
    <2>5. K.rq = H.rq /\ K.table = H.table \cup {o}
      OBVIOUS
    <2> HIDE DEF K
    <2>6. o # Nullptr /\ o # c
      BY OpsAssumption DEF InCallback
    <2>7. Gone(H, q, o)
      BY <2>6 DEF InCallback, Live, Gone
    <2>8. Live(K, q)
      BY <2>3, <2>4, <2>5, <2>7 DEF InCallback, Live, Gone
    <2>9. Gone(K, q, c)
      BY <2>4, <2>5, <2>6 DEF InCallback, Gone
    <2>10. InCallback(K, q, c)
      BY <2>3, <2>5, <2>6, <2>8, <2>9 DEF InCallback
    <2> QED
      BY <2>1, <2>3, <2>10
  <1> QED
    BY <1>1, <1>2

\* recv() inside a callback, likewise.
LEMMA RecvKeeps ==
  ASSUME NEW H, NEW q, NEW c, InCallback(H, q, c), NEW o \in Ops \ Alive(H),
         NEW cb \in Callback, NEW ok \in BOOLEAN
  PROVE  InCallback(recv(H, o, cb, ok), q, c)
  <1> DEFINE K == [op |-> [H.op EXCEPT ![o] = cb], table |-> H.table \cup {o},
                   rq |-> H.rq \cup {o}, sq |-> H.sq]
  <1>1. CASE ~ok
    BY <1>1 DEF recv
  <1>2. CASE ok
    <2>1. recv(H, o, cb, ok) = K
      BY <1>2 DEF recv
    <2>2. K \in HeapState /\ Alive(K) = Alive(H) \cup {o}
      BY OpsAssumption DEF InCallback, HeapState, Alive
    <2>3. K.rq = H.rq \cup {o} /\ K.table = H.table \cup {o} /\ K.sq = H.sq
      OBVIOUS
    <2> HIDE DEF K
    <2>4. o # Nullptr /\ o # c
      BY OpsAssumption DEF InCallback
    <2>5. Gone(H, q, o)
      BY <2>4 DEF InCallback, Live, Gone
    <2>6. Live(K, q)
      BY <2>2, <2>3, <2>5 DEF InCallback, Live, Gone
    <2>7. Gone(K, q, c)
      BY <2>3, <2>4 DEF InCallback, Gone
    <2>8. InCallback(K, q, c)
      BY <2>2, <2>3, <2>4, <2>6, <2>7 DEF InCallback
    <2> QED
      BY <2>1, <2>8
  <1> QED
    BY <1>1, <1>2

\* The reply with a null context refers to no op.
LEMMA ReplyKeeps ==
  ASSUME NEW H, NEW q, NEW c, InCallback(H, q, c), NEW ok \in BOOLEAN
  PROVE  InCallback(rpma_send(H, ok), q, c)
  <1> DEFINE K == [H EXCEPT !.sq = Append(@, Nullptr)]
  <1>1. CASE ~(ok /\ CanSend(H))
    BY <1>1 DEF rpma_send
  <1>2. CASE ok /\ CanSend(H)
    <2>1. rpma_send(H, ok) = K
      BY <1>2 DEF rpma_send
    <2>2. H \in HeapState /\ Nullptr \in Context /\ H.sq \in Seq(Context)
      BY DEF InCallback, HeapState, Context
    <2>3. Append(H.sq, Nullptr) \in Seq(Context)
      BY <2>2, AppendFacts
    <2>4. /\ K \in HeapState /\ K.op = H.op /\ K.rq = H.rq /\ K.table = H.table
          /\ K.sq = Append(H.sq, Nullptr)
      BY <2>2, <2>3, Zenon DEF HeapState
    <2> HIDE DEF K
    <2>5. /\ DOMAIN K.sq = DOMAIN H.sq \cup {Len(H.sq) + 1}
          /\ K.sq[Len(H.sq) + 1] = Nullptr
          /\ \A i \in DOMAIN H.sq : K.sq[i] = H.sq[i]
      BY <2>2, <2>4, AppendFacts
    <2>6. Alive(K) = Alive(H)
      BY <2>4 DEF Alive
    <2>7. Live(K, q)
      BY <2>4, <2>5, <2>6 DEF InCallback, Live
    <2>8. Gone(K, q, c) /\ c # Nullptr
      BY <2>4, <2>5, OpsAssumption DEF InCallback, Gone, Alive
    <2> QED
      BY <2>1, <2>4, <2>6, <2>7, <2>8 DEF InCallback
  <1> QED
    BY <1>1, <1>2

\* The whole callback.
LEMMA DealRequireKeeps ==
  ASSUME NEW H, NEW q, NEW c, InCallback(H, q, c), NEW posts,
         NEW o \in Ops \ Alive(H), NEW p \in Ops \ Alive(H), o # p,
         NEW ok1 \in BOOLEAN, NEW ok2 \in BOOLEAN, NEW ok3 \in BOOLEAN
  PROVE  InCallback(deal_require(H, posts, o, p, ok1, ok2, ok3), q, c)
  <1> DEFINE H1 == IF posts THEN send(H, o, "none", ok1) ELSE H
  <1>1. "none" \in Callback /\ "deal_require" \in Callback
    BY DEF Callback
  <1>2. InCallback(H1, q, c) /\ Alive(H1) \subseteq Alive(H) \cup {o}
    BY <1>1, SendKeeps
  <1>3. deal_require(H, posts, o, p, ok1, ok2, ok3)
          = rpma_send(recv(H1, p, "deal_require", ok2), ok3)
    BY DEF deal_require
  <1> HIDE DEF H1
  <1>4. p \in Ops \ Alive(H1)
    BY <1>2
  <1>5. InCallback(recv(H1, p, "deal_require", ok2), q, c)
    BY <1>1, <1>2, <1>4, RecvKeeps
  <1> QED
    BY <1>3, <1>5, ReplyKeeps

-----------------------------------------------------------------------------
(* The invariant.                                                          *)

\* A heap and a completion queue outside a callback.
Owned(H, q) == H \in HeapState /\ q \in Seq(Completion) /\ H.table = Alive(H) /\ Live(H, q)

\* During the destruction only the ownership remains: the queues refer to ops
\* that are gone until the connection is deleted.
OpsInv == /\ H0 \in HeapState /\ cq \in Seq(Completion)
          /\ TableIsHeap
          /\ ContextsLive

\* Outside a callback of a running server the invariant says Owned.
LEMMA OwnedState ==
  ASSUME OpsInv, Running
  PROVE  Owned(H0, cq)
  BY DEF OpsInv, Owned, H0, TableIsHeap, Allocated, Alive, ContextsLive, Live

\* A step that ends in an Owned heap and queue restores the invariant.
LEMMA OwnedNext ==
  ASSUME NEW H, Owned(H, cq'), SetHeap(H)
  PROVE  OpsInv'
  <1>1. H0' = H
    <2>1. H = [op |-> H.op, table |-> H.table, rq |-> H.rq, sq |-> H.sq]
      BY DEF Owned, HeapState
    <2> QED
      BY <2>1 DEF H0, SetHeap
  <1>2. H0' \in HeapState /\ cq' \in Seq(Completion)
    BY <1>1 DEF Owned
  <1>3. TableIsHeap'
    BY DEF Owned, SetHeap, TableIsHeap, Allocated, Alive
  <1>4. ContextsLive'
    BY DEF Owned, SetHeap, ContextsLive, Live, Allocated, Alive
  <1> QED
    BY <1>2, <1>3, <1>4 DEF OpsInv

\* Reading the first completion and erasing its op.
LEMMA EraseEnters ==
  ASSUME NEW H, NEW q, Owned(H, q), q # << >>, Head(q).ctx # Nullptr
  PROVE  /\ InCallback(erase(H, Head(q).ctx), Tail(q), Head(q).ctx)
         /\ Alive(erase(H, Head(q).ctx)) = Alive(H)
  <1> DEFINE c == Head(q).ctx
             K == erase(H, c)
  <1>1. /\ q \in Seq(Completion) /\ Tail(q) \in Seq(Completion)
        /\ 1 \in DOMAIN q /\ Head(q) = q[1]
        /\ \A i \in DOMAIN Tail(q) : i + 1 \in DOMAIN q /\ i + 1 # 1 /\ Tail(q)[i] = q[i + 1]
        /\ \A i, j \in DOMAIN Tail(q) : i # j => i + 1 # j + 1
    BY TailFacts DEF Owned
  <1>2. c = q[1].ctx /\ c # Nullptr
    BY <1>1
  <1>3. /\ K \in HeapState /\ K.op = H.op /\ K.rq = H.rq /\ K.sq = H.sq
        /\ K.table = H.table \ {c}
    BY ZenonT(40) DEF erase, Owned, HeapState
  <1> HIDE DEF c, K
  <1>4. Alive(K) = Alive(H)
    BY <1>3 DEF Alive
  <1>5. c \in Alive(H) \ H.rq
    BY <1>1, <1>2 DEF Owned, Live
  <1>6. Live(K, Tail(q))
    BY <1>1, <1>3, <1>4 DEF Owned, Live
  <1>7. Gone(K, Tail(q), c)
    BY <1>1, <1>2, <1>3, <1>5 DEF Owned, Live, Gone
  <1>8. InCallback(K, Tail(q), c)
    BY <1>1, <1>3, <1>4, <1>5, <1>6, <1>7 DEF Owned, InCallback
  <1> QED
    BY <1>4, <1>8 DEF c, K

\* Deleting the op at the end of the callback.
LEMMA DeleteLeaves ==
  ASSUME NEW H, NEW q, NEW c, InCallback(H, q, c)
  PROVE  Owned(delete(H, c), q)
  <1> DEFINE K == delete(H, c)
  <1>1. /\ K \in HeapState /\ K.table = H.table /\ K.rq = H.rq /\ K.sq = H.sq
        /\ K.op = [H.op EXCEPT ![c] = Free]
    BY Zenon DEF delete, InCallback, HeapState
  <1>2. Alive(K) = Alive(H) \ {c}
    BY <1>1 DEF Alive, InCallback, HeapState
  <1> HIDE DEF K
  <1>3. Live(K, q)
    BY <1>1, <1>2 DEF InCallback, Live, Gone
  <1>4. Owned(K, q)
    BY <1>1, <1>2, <1>3 DEF InCallback, Owned
  <1> QED
    BY <1>4 DEF K

\* A completion that carries no op, or whose op stays in callback_table.
LEMMA TailLeaves ==
  ASSUME NEW H, NEW q, Owned(H, q), q # << >>
  PROVE  Owned(H, Tail(q))
  <1>1. /\ Tail(q) \in Seq(Completion)
        /\ \A i \in DOMAIN Tail(q) : i + 1 \in DOMAIN q /\ Tail(q)[i] = q[i + 1]
        /\ \A i, j \in DOMAIN Tail(q) : i # j => i + 1 # j + 1
    BY TailFacts DEF Owned
  <1>2. Live(H, Tail(q))
    BY <1>1 DEF Owned, Live
  <1> QED
    BY <1>1, <1>2 DEF Owned

\* A step that leaves heap and queues alone sets the heap to itself.
LEMMA SameHeap == UNCHANGED <<op, callback_table, rq, sq>> => SetHeap(H0)
  BY DEF SetHeap, H0

-----------------------------------------------------------------------------
(* Steps of the card.                                                      *)

\* The card moves the oldest send to the completion queue.
LEMMA SendCompletesKeeps ==
  ASSUME OpsInv, NEW status \in {"success", "error"}, SendCompletes(status), ends' = ends
  PROVE  OpsInv'
  <1> DEFINE e == [ctx |-> Head(sq), status |-> status]
  <1>1. /\ sq # << >> /\ sq' = Tail(sq) /\ cq' = Append(cq, e)
        /\ UNCHANGED <<op, callback_table, rq>>
    BY DEF SendCompletes, Push
  <1>2. sq \in Seq(Context) /\ cq \in Seq(Completion)
    BY DEF OpsInv, H0, HeapState
  <1>3. /\ Tail(sq) \in Seq(Context) /\ Head(sq) \in Context
        /\ 1 \in DOMAIN sq /\ Head(sq) = sq[1]
        /\ \A i \in DOMAIN Tail(sq) : i + 1 \in DOMAIN sq /\ i + 1 # 1 /\ Tail(sq)[i] = sq[i + 1]
        /\ \A i, j \in DOMAIN Tail(sq) : i # j => i + 1 # j + 1
    BY <1>1, <1>2, TailFacts
  <1>4. e \in Completion /\ e.ctx = sq[1]
    BY <1>3 DEF Completion
  <1> HIDE DEF e
  <1>5. /\ cq' \in Seq(Completion)
        /\ DOMAIN cq' = DOMAIN cq \cup {Len(cq) + 1} /\ Len(cq) + 1 \notin DOMAIN cq
        /\ cq'[Len(cq) + 1] = e
        /\ \A i \in DOMAIN cq : cq'[i] = cq[i]
    BY <1>1, <1>2, <1>4, AppendFacts
  <1>6. H0' \in HeapState
    BY <1>1, <1>3 DEF OpsInv, H0, HeapState
  <1>7. Allocated' = Allocated /\ TableIsHeap'
    BY <1>1 DEF OpsInv, TableIsHeap, Allocated
  <1>8. ASSUME Running PROVE ContextsLive'
    <2>1. ContextsLive!2
      BY <1>8 DEF OpsInv, ContextsLive
    <2>2. ASSUME NEW i \in DOMAIN sq', sq'[i] # Nullptr
          PROVE  /\ sq'[i] \in Allocated \ rq
                 /\ sq'[i] # sq[1]
                 /\ \A j \in DOMAIN cq : sq'[i] # cq[j].ctx
      BY <1>1, <1>3, <2>1, <2>2
    <2>3. \A i, j \in DOMAIN sq' : sq'[i] = sq'[j] /\ i # j => sq'[i] = Nullptr
      BY <1>1, <1>3, <2>1
    <2>4. sq[1] # Nullptr => /\ sq[1] \in Allocated \ rq
                             /\ \A j \in DOMAIN cq : sq[1] # cq[j].ctx
      BY <1>3, <2>1
    <2> QED
      BY <1>1, <1>4, <1>5, <1>7, <2>1, <2>2, <2>3, <2>4 DEF ContextsLive
  <1>9. ContextsLive'
    BY <1>8 DEF ContextsLive, Running
  <1> QED
    BY <1>5, <1>6, <1>7, <1>9 DEF OpsInv

\* The card moves a receive to the completion queue.
LEMMA RecvCompletesKeeps ==
  ASSUME OpsInv, NEW o, NEW status \in {"success", "error"}, RecvCompletes(o, status), ends' = ends
  PROVE  OpsInv'
  <1> DEFINE e == [ctx |-> o, status |-> status]
  <1>1. /\ o \in rq /\ rq' = rq \ {o} /\ cq' = Append(cq, e)
        /\ UNCHANGED <<op, callback_table, sq>>
    BY DEF RecvCompletes, Push
  <1>2. rq \subseteq Ops /\ cq \in Seq(Completion)
    BY DEF OpsInv, H0, HeapState
  <1>3. e \in Completion /\ e.ctx = o
    BY <1>1, <1>2 DEF Completion, Context
  <1> HIDE DEF e
  <1>4. /\ cq' \in Seq(Completion)
        /\ DOMAIN cq' = DOMAIN cq \cup {Len(cq) + 1} /\ Len(cq) + 1 \notin DOMAIN cq
        /\ cq'[Len(cq) + 1] = e
        /\ \A i \in DOMAIN cq : cq'[i] = cq[i]
    BY <1>1, <1>2, <1>3, AppendFacts, SMTT(30)
  <1>5. H0' \in HeapState
    BY <1>1 DEF OpsInv, H0, HeapState
  <1>6. Allocated' = Allocated /\ TableIsHeap'
    BY <1>1 DEF OpsInv, TableIsHeap, Allocated
  <1>7. o # Nullptr
    BY <1>1, <1>2, OpsAssumption, ZenonT(40)
  <1>8. ASSUME Running PROVE ContextsLive'
    <2>1. ContextsLive!2
      BY <1>8 DEF OpsInv, ContextsLive
    <2>2. /\ \A i \in DOMAIN sq : sq[i] # o
          /\ \A i \in DOMAIN cq : cq[i].ctx # o
      BY <1>1, <1>7, <2>1
    <2> QED
      BY <1>1, <1>3, <1>4, <1>6, <1>7, <2>1, <2>2, SMTT(30) DEF ContextsLive
  <1>9. ContextsLive'
    BY <1>8, ZenonT(40) DEF ContextsLive, Running
  <1> QED
    BY <1>4, <1>5, <1>6, <1>9 DEF OpsInv

\* Nothing the invariant speaks of changes.
LEMMA IdleKeeps ==
  ASSUME OpsInv, UNCHANGED <<op, callback_table, rq, sq, cq>>, Running' => Running
  PROVE  OpsInv'
  BY DEF OpsInv, H0, HeapState, TableIsHeap, ContextsLive, Allocated

-----------------------------------------------------------------------------
(* Steps of the server.                                                    *)

\* A completion is read and its op runs and dies, or nothing happens to ops.
LEMMA HandleCompletionKeeps ==
  ASSUME OpsInv, HandleCompletion
  PROVE  OpsInv'
  <1>1. Running /\ Owned(H0, cq)
    BY OwnedState DEF HandleCompletion, Running
  <1>2. CASE WaitOk \/ WaitFails \/ GetNone
    BY <1>1, <1>2, IdleKeeps DEF WaitOk, WaitFails, GetNone, queueVars
  <1>3. CASE GetFails \/ GetError
    <2>1. /\ UNCHANGED <<op, callback_table, rq, sq>>
          /\ cq' = cq \/ (cq # << >> /\ cq' = Tail(cq))
      BY <1>3 DEF GetFails, GetError
    <2>2. Owned(H0, cq') /\ SetHeap(H0)
      BY <1>1, <2>1, TailLeaves, SameHeap, Zenon
    <2> QED
      BY <2>2, OwnedNext
  <1>4. CASE GetQuiet
    <2> DEFINE c == Head(cq).ctx
    <2>1. cq # << >> /\ cq' = Tail(cq)
      BY <1>4 DEF GetQuiet
    <2>2. CASE c = Nullptr /\ UNCHANGED <<op, callback_table, rq, sq>>
      <3>1. Owned(H0, cq') /\ SetHeap(H0)
        BY <1>1, <2>1, <2>2, TailLeaves, SameHeap
      <3> QED
        BY <3>1, OwnedNext
    <2>3. CASE c # Nullptr /\ SetHeap(delete(erase(H0, c), c))
      <3>1. Owned(delete(erase(H0, c), c), cq')
        BY <1>1, <2>1, <2>3, EraseEnters, DeleteLeaves
      <3> QED
        BY <2>3, <3>1, OwnedNext
    <2> QED
      BY <1>4, <2>2, <2>3 DEF GetQuiet
  <1>5. CASE GetRequest
    <2> DEFINE c == Head(cq).ctx
    <2>1. cq # << >> /\ cq' = Tail(cq) /\ c # Nullptr
      BY <1>5, ZenonT(40) DEF GetRequest, IsRequest
    <2>2. PICK M \in get_descriptor(M0, recv_bl) :
            \E o, p \in Ops \ Allocated, ok1, ok2, ok3 \in BOOLEAN :
              /\ o # p
              /\ SetHeap(delete(deal_require(erase(H0, c), M.posts, o, p, ok1, ok2, ok3), c))
      BY <1>5, ZenonT(40) DEF GetRequest
    <2>3. PICK o \in Ops \ Allocated, p \in Ops \ Allocated,
               ok1 \in BOOLEAN, ok2 \in BOOLEAN, ok3 \in BOOLEAN :
            /\ o # p
            /\ SetHeap(delete(deal_require(erase(H0, c), M.posts, o, p, ok1, ok2, ok3), c))
      BY <2>2
    <2>4. InCallback(erase(H0, c), cq', c) /\ Alive(erase(H0, c)) = Allocated
      BY <1>1, <2>1, EraseEnters DEF Allocated, Alive, H0
    <2> HIDE DEF c
    <2>5. InCallback(deal_require(erase(H0, c), M.posts, o, p, ok1, ok2, ok3), cq', c)
      BY <2>3, <2>4, DealRequireKeeps
    <2>6. Owned(delete(deal_require(erase(H0, c), M.posts, o, p, ok1, ok2, ok3), c), cq')
      BY <2>5, DeleteLeaves
    <2> QED
      BY <2>3, <2>6, OwnedNext
  <1>6. CASE GetThrows
    <2> DEFINE c == Head(cq).ctx
    <2>1. cq # << >> /\ cq' = Tail(cq) /\ c # Nullptr /\ SetHeap(delete(erase(H0, c), c))
      BY <1>6 DEF GetThrows, IsRequest
    <2>2. Owned(delete(erase(H0, c), c), cq')
      BY <1>1, <2>1, EraseEnters, DeleteLeaves
    <2> QED
      BY <2>1, <2>2, OwnedNext
  <1> QED
    BY <1>2, <1>3, <1>4, <1>5, <1>6 DEF HandleCompletion

\* ~RPMAHandler and ~ConnectionHandler free the ops with their table.
LEMMA TeardownKeeps ==
  ASSUME OpsInv, Teardown
  PROVE  OpsInv'
  <1> DEFINE going(r) == TeardownOrder[ends] = r
  <1>1. ~Running'
    <2>1. ends \in Nat /\ ends' = ends + 1
      BY DEF Teardown, TeardownOrder
    <2> QED
      BY <2>1 DEF Running
  <1>2. /\ op' = [o \in Ops |-> IF going("ops") /\ o \in callback_table THEN Free ELSE op[o]]
        /\ callback_table' = IF going("ops") THEN {} ELSE callback_table
        /\ \/ UNCHANGED <<rq, sq, cq>>
           \/ rq' = {} /\ sq' = << >> /\ cq' = << >>
    BY DEF Teardown, queueVars
  <1> HIDE DEF going
  <1>3. H0' \in HeapState /\ cq' \in Seq(Completion)
    <2>1. << >> \in Seq(Context) /\ << >> \in Seq(Completion)
      OBVIOUS
    <2> QED
      BY <1>2, <2>1, Zenon DEF OpsInv, H0, HeapState
  <1>4. TableIsHeap'
    BY <1>2 DEF OpsInv, TableIsHeap, Allocated, H0, HeapState
  <1>5. ContextsLive'
    BY <1>1 DEF ContextsLive, Running
  <1> QED
    BY <1>3, <1>4, <1>5 DEF OpsInv

-----------------------------------------------------------------------------
(* Ownership and liveness of contexts.                                     *)

\* The constructor posts one receive, whose op is the table's only entry.
LEMMA InitOps == Init => OpsInv
  <1>1. SUFFICES ASSUME Init PROVE OpsInv
    OBVIOUS
  <1>2. PICK o \in Ops : /\ op = [p \in Ops |-> IF p = o THEN "deal_require" ELSE Free]
                         /\ callback_table = {o} /\ rq = {o}
    BY <1>1 DEF Init
  <1>3. sq = << >> /\ cq = << >>
    BY <1>1 DEF Init
  <1>4. H0 \in HeapState /\ cq \in Seq(Completion)
    <2>1. << >> \in Seq(Context) /\ << >> \in Seq(Completion)
      OBVIOUS
    <2> QED
      BY <1>2, <1>3, <2>1 DEF H0, HeapState, Callback
  <1>5. Allocated = {o}
    BY <1>2, OpsAssumption DEF Allocated, Callback
  <1>6. DOMAIN sq = {} /\ DOMAIN cq = {}
    BY <1>3
  <1>7. TableIsHeap /\ ContextsLive
    BY <1>2, <1>5, <1>6 DEF TableIsHeap, ContextsLive
  <1> QED
    BY <1>4, <1>7 DEF OpsInv

\* Every step of the server and of the card keeps the invariant.
LEMMA NextOps == OpsInv /\ [Next]_vars => OpsInv'
  <1>1. SUFFICES ASSUME OpsInv, [Next]_vars PROVE OpsInv'
    OBVIOUS
  <1>2. CASE HandleCompletion
    BY <1>1, <1>2, HandleCompletionKeeps
  <1>3. CASE ConnectionClosed
    BY <1>1, <1>3, IdleKeeps DEF ConnectionClosed, chVars, Running
  <1>4. CASE Teardown
    BY <1>1, <1>4, TeardownKeeps
  <1>5. CASE RequestArrives
    BY <1>1, <1>5, RecvCompletesKeeps DEF RequestArrives
  <1>6. CASE Flushed
    BY <1>1, <1>6, RecvCompletesKeeps, SendCompletesKeeps DEF Flushed
  <1>7. CASE ReplySent
    BY <1>1, <1>7, SendCompletesKeeps DEF ReplySent
  <1>8. CASE LinkFails
    BY <1>1, <1>8, IdleKeeps DEF LinkFails, LinkDown, queueVars, Running
  <1>9. CASE Stopped \/ UNCHANGED vars
    BY <1>1, <1>9, IdleKeeps DEF Stopped, vars, chVars, Running
  <1> QED
    BY <1>1, <1>2, <1>3, <1>4, <1>5, <1>6, <1>7, <1>8, <1>9 DEF Next

\* The ops, their table and the queues stay consistent in every behaviour.
THEOREM OpsInvariant == Spec => []OpsInv
  BY InitOps, NextOps, PTL DEF Spec

\* callback_table owns exactly the live ops, so ~ConnectionHandler frees each
\* once, on every path through send, recv, handle_completion and destruction.
THEOREM OpsAreOwned == Spec => []TableIsHeap
  <1>1. OpsInv => TableIsHeap
    BY DEF OpsInv
  <1> QED
    BY <1>1, OpsInvariant, PTL

\* The op_context that handle_completion turns into a unique_ptr is a live op
\* that nothing else refers to.
THEOREM ContextsAreLive == Spec => []ContextsLive
  <1>1. OpsInv => ContextsLive
    BY DEF OpsInv
  <1> QED
    BY <1>1, OpsInvariant, PTL

-----------------------------------------------------------------------------
(* The completion channel.                                                 *)

\* Also between the two calls of handle_completion.
Listening == Running /\ ~disconnected => armed \/ notified

\* The server notices completions: outside handle_completion its queue is armed
\* or a notification is waiting.
THEOREM QueueStaysArmed == Spec => []NeverDeaf
  <1>1. Init => Listening
    BY DEF Init, Listening
  <1>2. Listening /\ [Next]_vars => Listening'
    <2>1. SUFFICES ASSUME Listening, [Next]_vars PROVE Listening'
      OBVIOUS
    <2>2. CASE UNCHANGED <<armed, notified>> /\ (Running' => Running)
               /\ (disconnected' = disconnected \/ disconnected')
      BY <2>1, <2>2 DEF Listening
    <2>3. CASE \E c : Push(c) /\ UNCHANGED <<disconnected, ends>>
      <3>1. notified' = (notified \/ armed) /\ disconnected' = disconnected /\ ends' = ends
        BY <2>3 DEF Push
      <3>2. (Running' => Running) /\ (notified \/ armed => notified')
        BY <3>1, Zenon DEF Running
      <3> QED
        BY <2>1, <3>1, <3>2 DEF Listening
    <2>4. CASE HandleCompletion
      <3>1. CASE WaitOk
        BY <3>1, Zenon DEF WaitOk, completion_wait, Listening
      <3>2. CASE WaitFails
        BY <3>2 DEF WaitFails, disconnect, Listening
      <3>3. CASE GetNone \/ GetFails \/ GetError \/ GetQuiet \/ GetRequest \/ GetThrows
        <4>1. Running
          BY <2>4, ZenonT(40) DEF HandleCompletion, Running
        <4>2. UNCHANGED <<armed, notified>> /\ (disconnected' = disconnected \/ disconnected')
          BY <3>3 DEF GetNone, GetFails, GetError, GetQuiet, GetRequest, GetThrows, queueVars,
                      disconnect
        <4> QED
          BY <2>2, <4>1, <4>2
      <3> QED
        BY <2>4, <3>1, <3>2, <3>3 DEF HandleCompletion
    <2>5. CASE ConnectionClosed \/ LinkFails \/ Stopped \/ UNCHANGED vars
      BY <2>2, <2>5 DEF ConnectionClosed, LinkFails, LinkDown, Stopped, vars, chVars, queueVars,
                        Running
    <2>6. CASE Teardown
      <3>1. ends \in Nat \ {0} /\ ends' = ends + 1
        BY <2>6 DEF Teardown, TeardownOrder
      <3> QED
        BY <3>1 DEF Listening, Running
    <2>7. CASE RequestArrives \/ Flushed \/ ReplySent
      BY <2>3, <2>7, Zenon DEF RequestArrives, Flushed, ReplySent, RecvCompletes, SendCompletes
    <2> QED
      BY <2>1, <2>4, <2>5, <2>6, <2>7 DEF Next
  <1>3. Listening => NeverDeaf
    BY DEF Listening, NeverDeaf
  <1> QED
    BY <1>1, <1>2, <1>3, PTL DEF Spec

-----------------------------------------------------------------------------
(* Every op waits somewhere.                                               *)

\* A queue will bring o back.
Waits(H, q, o) == \/ o \in H.rq
                  \/ \E i \in DOMAIN H.sq : H.sq[i] = o
                  \/ \E i \in DOMAIN q : q[i].ctx = o

\* That is so of every op on the heap but c, which a callback holds.
OthersWait(H, q, c) == \A o \in Alive(H) \ {c} : Waits(H, q, o)

\* Whatever is posted during a callback waits, and what waited still does; what
\* the card did not take was freed.
LEMMA SendWaits ==
  ASSUME NEW H \in HeapState, NEW q, NEW c, OthersWait(H, q, c), NEW o \in Ops,
         NEW cb \in Callback, NEW ok \in BOOLEAN
  PROVE  OthersWait(send(H, o, cb, ok), q, c)
  <1> DEFINE K == [op |-> [H.op EXCEPT ![o] = cb], table |-> H.table \cup {o},
                   rq |-> H.rq, sq |-> Append(H.sq, o)]
  <1>1. CASE ~(ok /\ CanSend(H))
    BY <1>1 DEF send
  <1>2. CASE ok /\ CanSend(H)
    <2>1. send(H, o, cb, ok) = K
      BY <1>2 DEF send
    <2>2. o \in Context /\ H.sq \in Seq(Context) /\ H.op \in [Ops -> Callback \cup {Free}]
      BY DEF HeapState, Context
    <2>3. Alive(K) \subseteq Alive(H) \cup {o} /\ K.rq = H.rq
      BY <2>2, ZenonT(40) DEF Alive
    <2>4. /\ Len(H.sq) + 1 \in DOMAIN K.sq /\ K.sq[Len(H.sq) + 1] = o
          /\ \A i \in DOMAIN H.sq : i \in DOMAIN K.sq /\ K.sq[i] = H.sq[i]
      BY <2>2, AppendFacts
    <2> HIDE DEF K
    <2>5. OthersWait(K, q, c)
      BY <2>3, <2>4 DEF OthersWait, Waits
    <2> QED
      BY <2>1, <2>5
  <1> QED
    BY <1>1, <1>2

LEMMA RecvWaits ==
  ASSUME NEW H \in HeapState, NEW q, NEW c, OthersWait(H, q, c), NEW o \in Ops,
         NEW cb \in Callback, NEW ok \in BOOLEAN
  PROVE  OthersWait(recv(H, o, cb, ok), q, c)
  <1> DEFINE K == [op |-> [H.op EXCEPT ![o] = cb], table |-> H.table \cup {o},
                   rq |-> H.rq \cup {o}, sq |-> H.sq]
  <1>1. CASE ~ok
    BY <1>1 DEF recv
  <1>2. CASE ok
    <2>1. recv(H, o, cb, ok) = K
      BY <1>2 DEF recv
    <2>2. Alive(K) \subseteq Alive(H) \cup {o} /\ K.rq = H.rq \cup {o} /\ K.sq = H.sq
      BY DEF Alive, HeapState
    <2> HIDE DEF K
    <2>3. OthersWait(K, q, c)
      BY <2>2 DEF OthersWait, Waits
    <2> QED
      BY <2>1, <2>3
  <1> QED
    BY <1>1, <1>2

LEMMA ReplyWaits ==
  ASSUME NEW H \in HeapState, NEW q, NEW c, OthersWait(H, q, c), NEW ok \in BOOLEAN
  PROVE  OthersWait(rpma_send(H, ok), q, c)
  <1> DEFINE K == [H EXCEPT !.sq = Append(@, Nullptr)]
  <1>1. CASE ~(ok /\ CanSend(H))
    BY <1>1 DEF rpma_send
  <1>2. CASE ok /\ CanSend(H)
    <2>1. rpma_send(H, ok) = K
      BY <1>2 DEF rpma_send
    <2>2. Nullptr \in Context /\ H.sq \in Seq(Context)
      BY DEF HeapState, Context
    <2>3. K.op = H.op /\ K.rq = H.rq /\ K.sq = Append(H.sq, Nullptr)
      BY Zenon DEF HeapState
    <2> HIDE DEF K
    <2>4. \A i \in DOMAIN H.sq : i \in DOMAIN K.sq /\ K.sq[i] = H.sq[i]
      BY <2>2, <2>3, AppendFacts
    <2>5. OthersWait(K, q, c)
      BY <2>3, <2>4 DEF OthersWait, Waits, Alive
    <2> QED
      BY <2>1, <2>5
  <1> QED
    BY <1>1, <1>2

\* The whole callback.
LEMMA DealRequireWaits ==
  ASSUME NEW H, NEW q, NEW c, InCallback(H, q, c), OthersWait(H, q, c), NEW posts,
         NEW o \in Ops \ Alive(H), NEW p \in Ops \ Alive(H), o # p,
         NEW ok1 \in BOOLEAN, NEW ok2 \in BOOLEAN, NEW ok3 \in BOOLEAN
  PROVE  OthersWait(deal_require(H, posts, o, p, ok1, ok2, ok3), q, c)
  <1> DEFINE H1 == IF posts THEN send(H, o, "none", ok1) ELSE H
             H2 == recv(H1, p, "deal_require", ok2)
  <1>1. "none" \in Callback /\ "deal_require" \in Callback /\ H \in HeapState
    BY DEF Callback, InCallback
  <1>2. InCallback(H1, q, c) /\ Alive(H1) \subseteq Alive(H) \cup {o} /\ OthersWait(H1, q, c)
    BY <1>1, SendKeeps, SendWaits
  <1>3. deal_require(H, posts, o, p, ok1, ok2, ok3) = rpma_send(H2, ok3)
    BY ZenonT(40) DEF deal_require
  <1>4. H1 \in HeapState /\ p \in Ops \ Alive(H1)
    BY <1>2 DEF InCallback
  <1> HIDE DEF H1
  <1>5. InCallback(H2, q, c) /\ OthersWait(H2, q, c)
    BY <1>1, <1>2, <1>4, RecvKeeps, RecvWaits, ZenonT(40)
  <1>6. H2 \in HeapState
    BY <1>5, ZenonT(40) DEF InCallback
  <1> HIDE DEF H2
  <1> QED
    BY <1>3, <1>5, <1>6, ReplyWaits, ZenonT(40)

\* Of the ops that wait only the one of the first completion is taken out of its
\* queue; the callback holds it until it is deleted.
LEMMA TailWaits ==
  ASSUME NEW H \in HeapState, NEW q \in Seq(Completion), q # << >>,
         OthersWait(H, q, Nullptr)
  PROVE  OthersWait(H, Tail(q), Head(q).ctx)
  <1>1. /\ 1 \in DOMAIN q /\ Head(q) = q[1]
        /\ \A i \in DOMAIN q \ {1} : i - 1 \in DOMAIN Tail(q) /\ Tail(q)[i - 1] = q[i]
    BY QueueFacts, TailFacts
  <1>2. SUFFICES ASSUME NEW o \in Alive(H) \ {Head(q).ctx} PROVE Waits(H, Tail(q), o)
    BY DEF OthersWait
  <1>3. o # Nullptr
    BY OpsAssumption DEF Alive
  <1>4. Waits(H, q, o)
    BY <1>2, <1>3 DEF OthersWait
  <1>5. ASSUME NEW i \in DOMAIN q, q[i].ctx = o PROVE Waits(H, Tail(q), o)
    <2>1. i # 1
      BY <1>1, <1>2, <1>5
    <2> QED
      BY Zenon, <1>1, <1>5, <2>1 DEF Waits
  <1> QED
    BY <1>4, <1>5 DEF Waits

LEMMA EraseWaits ==
  ASSUME NEW H \in HeapState, NEW q, NEW c, OthersWait(H, q, c)
  PROVE  OthersWait(erase(H, c), q, c)
  <1>1. /\ erase(H, c).op = H.op /\ erase(H, c).rq = H.rq /\ erase(H, c).sq = H.sq
    BY Zenon DEF erase, HeapState
  <1> QED
    BY <1>1 DEF OthersWait, Waits, Alive

LEMMA DeleteWaits ==
  ASSUME NEW H \in HeapState, NEW q, NEW c \in Ops, OthersWait(H, q, c)
  PROVE  OthersWait(delete(H, c), q, Nullptr)
  <1> DEFINE K == delete(H, c)
  <1>1. K.rq = H.rq /\ K.sq = H.sq /\ K.op = [H.op EXCEPT ![c] = Free]
    BY Zenon DEF delete, HeapState
  <1>2. Alive(K) \subseteq Alive(H) \ {c}
    BY <1>1 DEF Alive, HeapState
  <1> HIDE DEF K
  <1>3. OthersWait(K, q, Nullptr)
    BY <1>1, <1>2 DEF OthersWait, Waits
  <1> QED
    BY <1>3 DEF K

\* While the link is up nothing fails to complete, so no completion is ignored;
\* until the handler gives up, every op then waits in a queue.
WaitInv ==
  Running =>
    /\ recv_mr = TRUE /\ send_mr = TRUE
    /\ link = "up" =>
         /\ \A i \in DOMAIN cq : cq[i].status = "success"
         /\ disconnected \/ OthersWait(H0, cq, Nullptr)

\* A step of handle_completion that ends with every op waiting, or disconnected.
LEMMA WaitNext ==
  ASSUME WaitInv, Running, NEW H \in HeapState, SetHeap(H), UNCHANGED <<link, recv_mr, send_mr>>,
         link = "up" => \A i \in DOMAIN cq' : cq'[i].status = "success",
         link = "up" => disconnected' \/ OthersWait(H, cq', Nullptr)
  PROVE  WaitInv'
  <1>1. H0' = H
    <2>1. H = [op |-> H.op, table |-> H.table, rq |-> H.rq, sq |-> H.sq]
      BY DEF HeapState
    <2> QED
      BY <2>1 DEF H0, SetHeap
  <1> QED
    BY <1>1 DEF WaitInv

\* A completion is read: with the link up it is a success, its op runs and dies.
LEMMA HandleCompletionWaits ==
  ASSUME OpsInv, WaitInv, HandleCompletion
  PROVE  WaitInv'
  <1>1. Running /\ Owned(H0, cq) /\ H0 \in HeapState /\ cq \in Seq(Completion)
    BY OwnedState DEF HandleCompletion, Running, Owned
  <1>2. link = "up" => \A i \in DOMAIN cq : cq[i].status = "success"
    BY <1>1 DEF WaitInv
  <1>3. UNCHANGED <<link, recv_mr, send_mr>>
    BY ZenonT(40) DEF HandleCompletion, WaitOk, WaitFails, GetNone, GetFails, GetError, GetQuiet,
                      GetRequest, GetThrows, memVars
  <1>4. CASE WaitOk \/ WaitFails \/ GetNone
    <2>1. UNCHANGED <<op, callback_table, rq, sq, cq>> /\ (disconnected => disconnected')
      BY <1>4 DEF WaitOk, WaitFails, GetNone, queueVars, disconnect
    <2>2. H0' = H0 /\ (Running' => Running)
      BY <1>1, <2>1 DEF H0
    <2> QED
      BY <1>3, <2>1, <2>2 DEF WaitInv
  <1>5. ASSUME cq # << >>
        PROVE  /\ 1 \in DOMAIN cq /\ Head(cq) = cq[1]
               /\ \A i \in DOMAIN Tail(cq) : i + 1 \in DOMAIN cq /\ Tail(cq)[i] = cq[i + 1]
               /\ link = "up" => /\ Head(cq).status = "success"
                                 /\ \A i \in DOMAIN Tail(cq) : Tail(cq)[i].status = "success"
    <2>1. /\ 1 \in DOMAIN cq /\ Head(cq) = cq[1]
          /\ \A i \in DOMAIN Tail(cq) : i + 1 \in DOMAIN cq /\ Tail(cq)[i] = cq[i + 1]
      BY <1>1, <1>5, TailFacts
    <2> QED
      BY <1>2, <2>1
  <1>6. CASE GetFails \/ GetError
    <2>1. /\ UNCHANGED <<op, callback_table, rq, sq>>
          /\ cq' = cq \/ (cq # << >> /\ cq' = Tail(cq))
          /\ disconnected' \/ (cq # << >> /\ Head(cq).status = "error")
      BY <1>6 DEF GetFails, GetError, disconnect
    <2>2. link = "up" => disconnected' /\ \A i \in DOMAIN cq' : cq'[i].status = "success"
      BY <1>2, <1>5, <2>1, ZenonT(40)
    <2> QED
      BY <1>1, <1>3, <2>1, <2>2, SameHeap, WaitNext
  <1>7. ASSUME cq # << >>, cq' = Tail(cq), link = "up"
        PROVE  /\ \A i \in DOMAIN cq' : cq'[i].status = "success"
               /\ disconnected \/ OthersWait(H0, cq', Head(cq).ctx)
    BY <1>1, <1>5, <1>7, TailWaits DEF WaitInv
  <1>8. CASE GetQuiet
    <2> DEFINE c == Head(cq).ctx
    <2>1. cq # << >> /\ cq' = Tail(cq) /\ disconnected' = disconnected
      BY <1>8 DEF GetQuiet
    <2>2. CASE c = Nullptr /\ UNCHANGED <<op, callback_table, rq, sq>>
      BY <1>1, <1>3, <1>7, <2>1, <2>2, SameHeap, WaitNext, ZenonT(40)
    <2>3. CASE c # Nullptr /\ SetHeap(delete(erase(H0, c), c))
      <3>1. InCallback(erase(H0, c), cq', c)
        BY <1>1, <2>1, <2>3, EraseEnters, ZenonT(40)
      <3> HIDE DEF c
      <3>2. erase(H0, c) \in HeapState /\ c \in Ops
        BY <3>1 DEF InCallback, Alive
      <3>3. delete(erase(H0, c), c) \in HeapState
        BY <3>1, DeleteLeaves DEF Owned
      <3>4. link = "up" => disconnected \/ OthersWait(H0, cq', c)
        BY <1>7, <2>1 DEF c
      <3>5. link = "up" => disconnected \/ OthersWait(delete(erase(H0, c), c), cq', Nullptr)
        BY <1>1, <3>2, <3>4, EraseWaits, DeleteWaits, ZenonT(40)
      <3> QED
        BY <1>1, <1>3, <1>7, <2>1, <2>3, <3>3, <3>5, WaitNext, ZenonT(40)
    <2> QED
      BY <1>8, <2>2, <2>3 DEF GetQuiet
  <1>9. CASE GetRequest
    <2> DEFINE c == Head(cq).ctx
    <2>1. cq # << >> /\ cq' = Tail(cq) /\ c # Nullptr /\ disconnected' = disconnected
      BY <1>9, ZenonT(40) DEF GetRequest, IsRequest
    <2>2. PICK M \in get_descriptor(M0, recv_bl) :
            \E o, p \in Ops \ Allocated, ok1, ok2, ok3 \in BOOLEAN :
              /\ o # p
              /\ SetHeap(delete(deal_require(erase(H0, c), M.posts, o, p, ok1, ok2, ok3), c))
      BY <1>9, ZenonT(40) DEF GetRequest
    <2>3. PICK o \in Ops \ Allocated, p \in Ops \ Allocated,
               ok1 \in BOOLEAN, ok2 \in BOOLEAN, ok3 \in BOOLEAN :
            /\ o # p
            /\ SetHeap(delete(deal_require(erase(H0, c), M.posts, o, p, ok1, ok2, ok3), c))
      BY <2>2, ZenonT(40)
    <2> DEFINE D == deal_require(erase(H0, c), M.posts, o, p, ok1, ok2, ok3)
    <2>4. InCallback(erase(H0, c), cq', c) /\ Alive(erase(H0, c)) = Allocated
      BY <1>1, <2>1, EraseEnters, SMTT(30) DEF Allocated, Alive, H0
    <2>5. link = "up" => disconnected \/ OthersWait(H0, cq', c)
      BY <1>7, <2>1
    <2> HIDE DEF c
    <2>6. link = "up" => disconnected \/ OthersWait(erase(H0, c), cq', c)
      BY <1>1, <2>5, EraseWaits
    <2>7. InCallback(D, cq', c)
      BY <2>3, <2>4, DealRequireKeeps
    <2>8. link = "up" => disconnected \/ OthersWait(D, cq', c)
      BY <2>3, <2>4, <2>6, DealRequireWaits, ZenonT(40)
    <2> HIDE DEF D
    <2>9. D \in HeapState /\ c \in Ops /\ delete(D, c) \in HeapState
      BY <2>7, DeleteLeaves DEF InCallback, Alive, Owned
    <2>10. link = "up" => disconnected \/ OthersWait(delete(D, c), cq', Nullptr)
      BY <2>8, <2>9, DeleteWaits
    <2>11. SetHeap(delete(D, c))
      BY <2>3 DEF D
    <2> QED
      BY <1>1, <1>3, <1>7, <2>1, <2>9, <2>10, <2>11, WaitNext, ZenonT(40)
  <1>10. CASE GetThrows
    <2>1. ends' = 1
      BY <1>10 DEF GetThrows
    <2> QED
      BY <2>1 DEF WaitInv, Running
  <1> QED
    BY <1>4, <1>6, <1>8, <1>9, <1>10 DEF HandleCompletion

\* The card completes a request: the op moves from its queue to the completions,
\* and only a link that is down or a buffer that is not registered makes it fail.
LEMMA CompletionWaits ==
  ASSUME OpsInv, WaitInv, RequestArrives \/ Flushed \/ ReplySent
  PROVE  WaitInv'
  <1>1. SUFFICES ASSUME Running, link = "up" PROVE WaitInv'
    <2>1. UNCHANGED <<link, ends, recv_mr, send_mr>>
      BY ZenonT(40) DEF RequestArrives, Flushed, ReplySent, RecvCompletes, SendCompletes, memVars
    <2> QED
      BY <1>1, <2>1 DEF WaitInv, Running
  <1>2. recv_mr = TRUE /\ send_mr = TRUE /\ \A i \in DOMAIN cq : cq[i].status = "success"
    BY <1>1 DEF WaitInv
  <1>3. UNCHANGED <<link, ends, recv_mr, send_mr, op, callback_table, disconnected>>
    BY ZenonT(40) DEF RequestArrives, Flushed, ReplySent, RecvCompletes, SendCompletes, memVars
  <1>4. H0 \in HeapState /\ cq \in Seq(Completion) /\ rq \subseteq Ops /\ sq \in Seq(Context)
    BY ZenonT(40) DEF OpsInv, H0, HeapState
  <1>5. ASSUME NEW x \in Context, cq' = Append(cq, [ctx |-> x, status |-> "success"]),
               \A o \in Ops : Waits(H0, cq, o) => Waits(H0', cq, o) \/ o = x
        PROVE  WaitInv'
    <2> DEFINE e == [ctx |-> x, status |-> "success"]
    <2>1. e \in Completion /\ e.ctx = x /\ e.status = "success"
      BY DEF Completion
    <2> HIDE DEF e
    <2>2. /\ DOMAIN cq' = DOMAIN cq \cup {Len(cq) + 1} /\ cq'[Len(cq) + 1] = e
          /\ \A i \in DOMAIN cq : cq'[i] = cq[i]
      BY <1>4, <1>5, <2>1, AppendFacts DEF e
    <2>3. \A i \in DOMAIN cq' : cq'[i].status = "success"
      BY <1>2, <2>1, <2>2
    <2>4. \A o \in Ops : Waits(H0, cq, o) => Waits(H0', cq', o)
      BY <1>5, <2>1, <2>2 DEF Waits
    <2>5. Alive(H0') = Alive(H0) /\ Alive(H0) \subseteq Ops
      BY <1>3 DEF Alive, H0
    <2>6. OthersWait(H0, cq, Nullptr) => OthersWait(H0', cq', Nullptr)
      BY <2>4, <2>5 DEF OthersWait
    <2> QED
      BY <1>1, <1>2, <1>3, <2>3, <2>6 DEF WaitInv
  <1>6. CASE \E o \in rq : RecvCompletes(o, "success")
    <2>1. PICK o \in rq : RecvCompletes(o, "success")
      BY <1>6
    <2>2. rq' = rq \ {o} /\ sq' = sq /\ cq' = Append(cq, [ctx |-> o, status |-> "success"])
      BY <2>1, ZenonT(40) DEF RecvCompletes, Push
    <2>3. \A p \in Ops : Waits(H0, cq, p) => Waits(H0', cq, p) \/ p = o
      BY <2>2 DEF Waits, H0
    <2> QED
      BY <1>4, <1>5, <2>2, <2>3 DEF Context
  <1>7. CASE SendCompletes("success")
    <2>1. sq # << >> /\ sq' = Tail(sq) /\ cq' = Append(cq, [ctx |-> Head(sq), status |-> "success"])
          /\ rq' = rq
      BY <1>7 DEF SendCompletes, Push
    <2>2. /\ Head(sq) \in Context /\ Head(sq) = sq[1]
          /\ \A i \in DOMAIN sq \ {1} : i - 1 \in DOMAIN Tail(sq) /\ Tail(sq)[i - 1] = sq[i]
      BY <1>4, <2>1, TailFacts, QueueFacts, ZenonT(40)
    <2>3. \A p \in Ops : Waits(H0, cq, p) => Waits(H0', cq, p) \/ p = Head(sq)
      BY <2>1, <2>2 DEF Waits, H0
    <2> QED
      BY <1>5, <2>1, <2>2, <2>3
  <1> QED
    BY Zenon, <1>1, <1>2, <1>6, <1>7 DEF RequestArrives, Flushed, ReplySent

\* The constructor's receive waits for the first request; from then on no op of
\* a connection that is up is forgotten, whatever could not be posted.
THEOREM OpsWait == Spec => []NoOpForgotten
  <1>1. Init => WaitInv
    <2> SUFFICES ASSUME Init PROVE WaitInv
      OBVIOUS
    <2>1. PICK o \in Ops : op = [p \in Ops |-> IF p = o THEN "deal_require" ELSE Free] /\ rq = {o}
      BY DEF Init
    <2>2. Alive(H0) \subseteq {o} /\ H0.rq = {o}
      BY <2>1 DEF Alive, H0
    <2>3. OthersWait(H0, cq, Nullptr)
      BY <2>2 DEF OthersWait, Waits
    <2>4. DOMAIN cq = {} /\ recv_mr = TRUE /\ send_mr = TRUE
      BY DEF Init, init_send_recv_buffer
    <2> QED
      BY <2>3, <2>4 DEF WaitInv
  <1>2. OpsInv /\ WaitInv /\ [Next]_vars => WaitInv'
    <2> SUFFICES ASSUME OpsInv, WaitInv, [Next]_vars PROVE WaitInv'
      OBVIOUS
    <2>1. CASE HandleCompletion
      BY <2>1, HandleCompletionWaits
    <2>2. CASE RequestArrives \/ Flushed \/ ReplySent
      BY <2>2, CompletionWaits
    <2>3. CASE ConnectionClosed \/ Teardown
      <3>1. ends' # 0
        BY <2>3, SMTT(30) DEF ConnectionClosed, Teardown, TeardownOrder
      <3> QED
        BY <3>1, ZenonT(40) DEF WaitInv, Running
    <2>4. CASE LinkFails
      BY <2>4, ZenonT(40) DEF LinkFails, LinkDown, memVars, WaitInv, Running
    <2>5. CASE UNCHANGED vars
      BY <2>5 DEF vars, chVars, memVars, WaitInv, Running, H0
    <2> QED
      BY <2>1, <2>2, <2>3, <2>4, <2>5 DEF Next, Stopped
  <1>3. WaitInv => NoOpForgotten
    <2> SUFFICES ASSUME WaitInv, Running, link = "up", ~disconnected, NEW o \in Allocated
                 PROVE  Waits(H0, cq, o)
      BY DEF NoOpForgotten, Waits, H0
    <2>1. o \in Alive(H0) \ {Nullptr}
      BY OpsAssumption DEF Allocated, Alive, H0
    <2> QED
      BY <2>1 DEF WaitInv, OthersWait
  <1> QED
    BY <1>1, <1>2, <1>3, OpsInvariant, PTL DEF Spec

-----------------------------------------------------------------------------
(* get_descriptor.                                                         *)

Results(mm, files, mr, snd, posts, threw) ==
  [mm |-> mm, fs |-> files, mr |-> mr, send |-> snd, posts |-> posts, threw |-> threw]

IsResults(M) ==
  \E mm, files, mr, snd, posts, threw : M = Results(mm, files, mr, snd, posts, threw)

Region0(k, mm) == [key |-> k, size |-> mm.size]
Told(k, mm) == [type |-> "INIT_SUCCESSED", key |-> k, size |-> mm.size, pmem |-> mm.data = "pmem"]
Done(r) == [type |-> IF r.failed THEN "FINISHED_FAILED" ELSE "FINISHED_SUCCESSED"]

\* What registering mm makes of the registration and the reply of M, wherever it fails.
Registered(M, mm, R) ==
  \/ R.mr = M.mr /\ R.send = M.send
  \/ \E k \in Keys : R.mr = Region0(k, mm) /\ R.send \in {M.send, Told(k, mm)}

\* What a request makes of M.
Answers(M, req, R) ==
  \/ R = M
  \/ /\ req.type = "INIT_REQUEST" /\ M.mm.data # "null"
     /\ R.mm = M.mm /\ R.fs = M.fs /\ Registered(M, M.mm, R)
  \/ /\ req.type = "INIT_REQUEST" /\ M.mm.data = "null"
     /\ \E r \in Mem!init(M.fs, req.path, req.size) :
          /\ R.fs = r.fs
          /\ IF r.mm.data = "null" THEN R.mm = Mem!Fresh /\ R.mr = M.mr /\ R.send = M.send
             ELSE R.mm = r.mm /\ Registered(M, r.mm, R)
  \/ \E r \in Mem!close_and_remove(M.mm, M.fs) :
       R.mm = r.mm /\ R.fs = r.fs /\ R.mr = Nil /\ R.send = Done(r)

LEMMA RegisterResults ==
  ASSUME NEW M, IsResults(M), NEW R \in register_mr_to_descriptor(M)
  PROVE  R.mm = M.mm /\ R.fs = M.fs /\ Registered(M, M.mm, R)
  <1>1. PICK mm, files, mr, snd, posts, threw : M = Results(mm, files, mr, snd, posts, threw)
    BY Zenon DEF IsResults
  <1>2. M.mm = mm /\ M.fs = files /\ M.mr = mr /\ M.send = snd
    BY <1>1 DEF Results
  <1>3. \/ R = M
        \/ \E k \in Keys : R = Results(mm, files, Region0(k, mm), snd, posts, mm.data = "dram")
        \/ \E k \in Keys : R = Results(mm, files, Region0(k, mm), Told(k, mm), posts, threw)
    BY <1>1, ZenonT(40) DEF register_mr_to_descriptor, Results, Region0, Told
  <1>4. CASE R = M
    BY <1>4, Zenon DEF Registered
  <1>5. ASSUME NEW k \in Keys, R = Results(mm, files, Region0(k, mm), snd, posts, mm.data = "dram")
        PROVE  R.mm = mm /\ R.fs = files /\ R.mr = Region0(k, mm) /\ R.send = snd
    BY <1>5 DEF Results
  <1>6. ASSUME NEW k \in Keys, R = Results(mm, files, Region0(k, mm), Told(k, mm), posts, threw)
        PROVE  R.mm = mm /\ R.fs = files /\ R.mr = Region0(k, mm) /\ R.send = Told(k, mm)
    BY <1>6 DEF Results
  <1> QED
    BY <1>2, <1>3, <1>4, <1>5, <1>6, Zenon DEF Registered

LEMMA RequestAnswers ==
  ASSUME NEW M, IsResults(M), NEW req, NEW R \in get_descriptor(M, req)
  PROVE  Answers(M, req, R)
  <1>0. PICK mm, files, mr, snd, posts, threw : M = Results(mm, files, mr, snd, posts, threw)
    BY Zenon DEF IsResults
  <1>1. CASE req.type = "INIT_REQUEST" /\ M.mm.data # "null"
    <2>1. R \in register_mr_to_descriptor(M)
      BY <1>1, Zenon DEF get_descriptor, get_descriptor_for_write, NeedsInit
    <2> QED
      BY <1>1, <2>1, RegisterResults, Zenon DEF Answers
  <1>2. CASE req.type = "INIT_REQUEST" /\ M.mm.data = "null"
    <2>1. PICK r \in Mem!init(M.fs, req.path, req.size) :
            R \in IF r.mm.data = "null"
                  THEN {[M EXCEPT !.mm = Mem!Fresh, !.fs = r.fs, !.threw = TRUE]}
                  ELSE register_mr_to_descriptor([M EXCEPT !.mm = r.mm, !.fs = r.fs])
      BY <1>2, Zenon DEF get_descriptor, get_descriptor_for_write, NeedsInit
    <2>2. CASE r.mm.data = "null"
      <3>1. R.mm = Mem!Fresh /\ R.fs = r.fs /\ R.mr = M.mr /\ R.send = M.send
        BY <1>0, <2>1, <2>2, Zenon DEF Results
      <3> QED
        BY <1>2, <2>2, <3>1, Zenon DEF Answers
    <2>3. CASE r.mm.data # "null"
      <3> DEFINE N == [M EXCEPT !.mm = r.mm, !.fs = r.fs]
      <3>1. N = Results(r.mm, r.fs, mr, snd, posts, threw)
        <4>1. [M EXCEPT !.mm = r.mm] = Results(r.mm, files, mr, snd, posts, threw)
          BY <1>0 DEF Results
        <4>2. [Results(r.mm, files, mr, snd, posts, threw) EXCEPT !.fs = r.fs]
                = Results(r.mm, r.fs, mr, snd, posts, threw)
          BY DEF Results
        <4>3. N = [[M EXCEPT !.mm = r.mm] EXCEPT !.fs = r.fs]
          OBVIOUS
        <4> QED
          BY <4>1, <4>2, <4>3, Zenon
      <3>2. R \in register_mr_to_descriptor(N)
        BY <2>1, <2>3, Zenon
      <3> HIDE DEF N
      <3>3. IsResults(N)
        BY <3>1, Zenon DEF IsResults
      <3>4. N.mm = r.mm /\ N.fs = r.fs /\ N.mr = M.mr /\ N.send = M.send
        BY <1>0, <3>1 DEF Results
      <3>5. R.mm = r.mm /\ R.fs = r.fs /\ Registered(N, r.mm, R)
        BY <3>2, <3>3, <3>4, RegisterResults, Zenon
      <3>6. Registered(M, r.mm, R)
        BY <3>4, <3>5, Zenon DEF Registered
      <3> QED
        BY <1>2, <2>3, <3>5, <3>6, Zenon DEF Answers
    <2> QED
      BY <2>2, <2>3, Zenon
  <1>3. CASE req.type = "FINISHED_REQUEST"
    <2>1. PICK r \in Mem!close_and_remove(M.mm, M.fs) :
            R = [M EXCEPT !.mr = Nil, !.mm = r.mm, !.fs = r.fs, !.posts = TRUE, !.send = Done(r)]
      BY <1>3, Zenon DEF get_descriptor, close, Done
    <2>2. R.mm = r.mm /\ R.fs = r.fs /\ R.mr = Nil /\ R.send = Done(r)
      BY <1>0, <2>1 DEF Results
    <2> QED
      BY <2>2, Zenon DEF Answers
  <1>4. CASE req.type \notin {"INIT_REQUEST", "FINISHED_REQUEST"}
    <2>1. R = M
      BY <1>4, Zenon DEF get_descriptor
    <2> QED
      BY <2>1, Zenon DEF Answers
  <1> QED
    BY <1>1, <1>2, <1>3, <1>4, Zenon

LEMMA CurrentResults ==
  /\ IsResults(M0)
  /\ M0.mm = data_manager /\ M0.fs = fs /\ M0.mr = data_mr /\ M0.send = send_bl
  BY Zenon DEF M0, IsResults, Results

\* A registration and a descriptor are of the memory that is there.
Covers(mm, mr, snd) ==
  /\ mr # Nil => mm.data # "null" /\ mr.size = mm.size
  /\ snd.type = "INIT_SUCCESSED" => mm.data # "null" /\ mm.size = snd.size

\* Registering keeps this wherever it fails.
LEMMA RegisteredCovers ==
  ASSUME NEW M, NEW mm, NEW R, Registered(M, mm, R), mm.data # "null",
         Covers(mm, M.mr, M.send), M.send # Freed
  PROVE  Covers(mm, R.mr, R.send) /\ R.send # Freed
  <1>1. ASSUME NEW k \in Keys
        PROVE  /\ Region0(k, mm).size = mm.size
               /\ Told(k, mm).size = mm.size /\ Told(k, mm) # Freed
    BY DEF Region0, Told, Freed
  <1> QED
    BY <1>1, Zenon DEF Registered, Covers

\* Every request does: without memory nothing is registered or promised before it is there.
LEMMA AnswersCovers ==
  ASSUME NEW M, NEW req, NEW R, Answers(M, req, R), Covers(M.mm, M.mr, M.send), M.send # Freed
  PROVE  Covers(R.mm, R.mr, R.send) /\ R.send # Freed
  <1>1. CASE R = M
    BY <1>1, Zenon
  <1>2. CASE M.mm.data # "null" /\ R.mm = M.mm /\ Registered(M, M.mm, R)
    BY <1>2, RegisteredCovers, Zenon
  <1>3. ASSUME M.mm.data = "null", NEW mm, mm.data # "null", R.mm = mm, Registered(M, mm, R)
        PROVE  Covers(R.mm, R.mr, R.send) /\ R.send # Freed
    <2>1. Covers(mm, M.mr, M.send)
      BY <1>3, Zenon DEF Covers
    <2> QED
      BY <1>3, <2>1, RegisteredCovers, Zenon
  <1>4. CASE M.mm.data = "null" /\ R.mr = M.mr /\ R.send = M.send
    BY <1>4, Zenon DEF Covers
  <1>5. ASSUME NEW r, R.mr = Nil, R.send = Done(r)
        PROVE  Covers(R.mm, R.mr, R.send) /\ R.send # Freed
    <2>1. Done(r).type # "INIT_SUCCESSED" /\ Done(r) # Freed
      BY DEF Done, Freed
    <2> QED
      BY <1>5, <2>1, Zenon DEF Covers
  <1> QED
    BY <1>1, <1>2, <1>3, <1>4, <1>5, Zenon DEF Answers

-----------------------------------------------------------------------------
(* The invariant.                                                          *)

\* While the handler exists the buffers do; during its destruction each goes
\* after its registration.
MemoryInv ==
  /\ ends \in 0..Ended
  /\ Covers(data_manager, data_mr, [type |-> "garbage"])
  /\ Running => Covers(data_manager, data_mr, send_bl)
  /\ ends > 1 => data_mr = Nil
  /\ recv_bl = Freed => ends > 5
  /\ send_bl = Freed => ends > 7
  /\ ends > 4 => recv_mr = FALSE
  /\ ends > 6 => send_mr = FALSE

\* A request is answered, or an exception leaves the handler.
LEMMA RequestsKeepMemory ==
  ASSUME MemoryInv, Running, GetRequest \/ GetThrows
  PROVE  MemoryInv'
  <1>1. send_bl # Freed /\ recv_bl # Freed /\ Covers(data_manager, data_mr, send_bl) /\ ends = 0
    BY SMTT(30) DEF MemoryInv, Running
  <1>2. PICK R \in get_descriptor(M0, recv_bl) : SetMemory(R)
    BY Zenon DEF GetRequest, GetThrows
  <1>3. Covers(R.mm, R.mr, R.send) /\ R.send # Freed
    BY <1>1, <1>2, CurrentResults, RequestAnswers, AnswersCovers, Zenon
  <1>4. Covers(data_manager', data_mr', send_bl') /\ send_bl' # Freed
    BY <1>2, <1>3, Zenon DEF SetMemory
  <1>5. UNCHANGED <<recv_bl, recv_mr, send_mr>> /\ ends' \in {0, 1}
    BY <1>1, ZenonT(40) DEF GetRequest, GetThrows
  <1>6. Covers(data_manager', data_mr', [type |-> "garbage"])
    BY <1>4 DEF Covers
  <1> QED
    BY <1>1, <1>4, <1>5, <1>6 DEF MemoryInv, Running, Ended, TeardownOrder


\* One member after the other is destroyed.
LEMMA TeardownKeepsMemory ==
  ASSUME MemoryInv, Teardown
  PROVE  MemoryInv'
  <1>1. /\ ends \in 1..8 /\ ends' = ends + 1
        /\ TeardownOrder[1] = "data_mr" /\ TeardownOrder[2] = "data_manager"
        /\ TeardownOrder[3] = "ops" /\ TeardownOrder[4] = "recv_mr"
        /\ TeardownOrder[5] = "recv_bl" /\ TeardownOrder[6] = "send_mr"
        /\ TeardownOrder[7] = "send_bl" /\ TeardownOrder[8] = "_conn"
    BY DEF Teardown, TeardownOrder
  <1>2. /\ data_mr' = IF ends = 1 THEN Nil ELSE data_mr
        /\ data_manager' = IF ends = 2 THEN Mem!Fresh ELSE data_manager
        /\ recv_bl' = IF ends = 5 THEN Freed ELSE recv_bl
        /\ send_bl' = IF ends = 7 THEN Freed ELSE send_bl
    BY <1>1 DEF Teardown
  <1>3. /\ recv_mr' = (recv_mr /\ ends # 4)
        /\ send_mr' = (send_mr /\ ends # 6)
    BY <1>1 DEF Teardown
  <1>4. ends' \in 0..Ended /\ ends' > 1 /\ ~Running'
    BY <1>1, SMTT(30) DEF Ended, TeardownOrder, Running
  <1>5. data_mr' = Nil
    BY <1>1, <1>2, SMTT(30) DEF MemoryInv
  <1>6. (recv_bl' = Freed => ends' > 5) /\ (send_bl' = Freed => ends' > 7)
    BY <1>1, <1>2 DEF MemoryInv
  <1>7. ends' > 4 => recv_mr' = FALSE
    <2>1. ends' > 4 => ends = 4 \/ ends > 4
      BY <1>1
    <2>2. ends > 4 => recv_mr = FALSE
      BY DEF MemoryInv
    <2> QED
      BY <1>3, <2>1, <2>2, Zenon
  <1>8. ends' > 6 => send_mr' = FALSE
    <2>1. ends' > 6 => ends = 6 \/ ends > 6
      BY <1>1
    <2>2. ends > 6 => send_mr = FALSE
      BY DEF MemoryInv
    <2> QED
      BY <1>3, <2>1, <2>2, Zenon
  <1>9. Covers(data_manager', data_mr', [type |-> "garbage"])
    BY <1>5, ZenonT(40) DEF Covers
  <1> QED
    BY <1>4, <1>5, <1>6, <1>7, <1>8, <1>9, ZenonT(40) DEF MemoryInv

\* Steps of the card and of the event loop that leave the memory alone; a request
\* is written only into a buffer that is registered.
LEMMA OthersKeepMemory ==
  ASSUME MemoryInv, recv_bl' = recv_bl \/ (recv_bl' \in Request /\ UNCHANGED ends),
         ends' = ends \/ (ends = 0 /\ ends' = 1),
         UNCHANGED <<send_bl, recv_mr, send_mr, data_manager, data_mr>>
  PROVE  MemoryInv'
  <1>1. recv_bl' = Freed => recv_bl = Freed
    BY DEF Request, InitRequest, Freed
  <1>2. ends' \in 0..Ended
    BY DEF MemoryInv, Ended, TeardownOrder
  <1> QED
    BY <1>1, <1>2, SMTT(30) DEF MemoryInv, Running, Covers, Ended, TeardownOrder

LEMMA MemoryInvariant == Spec => []MemoryInv
  <1>1. Init => MemoryInv
    BY DEF Init, init_send_recv_buffer, MemoryInv, Covers, Running, Unwritten, Freed, Ended,
           TeardownOrder
  <1>2. ASSUME MemoryInv, [Next]_vars
        PROVE  MemoryInv'
    <2>1. CASE HandleCompletion /\ (GetRequest \/ GetThrows)
      BY <1>2, <2>1, RequestsKeepMemory DEF HandleCompletion, Running
    <2>2. CASE Teardown
      BY <1>2, <2>2, TeardownKeepsMemory
    <2>3. CASE RequestArrives
      BY <1>2, <2>3, OthersKeepMemory DEF RequestArrives
    <2>4. CASE ConnectionClosed \/ UNCHANGED <<memVars, ends>>
      BY <1>2, <2>4, OthersKeepMemory DEF ConnectionClosed, memVars
    <2> QED
      BY <1>2, <2>1, <2>2, <2>3, <2>4
         DEF Next, HandleCompletion, Flushed, ReplySent, LinkFails, Stopped, vars
  <1> QED
    BY <1>1, <1>2, PTL DEF Spec

\* At every point of a request, of close() and of the destruction, what the card
\* may access is allocated: no registration outlives its memory or its buffer.
THEOREM RegistrationsHaveMemory == Spec => []RegisteredIsAllocated
  <1>1. MemoryInv => RegisteredIsAllocated
    <2> SUFFICES ASSUME MemoryInv PROVE RegisteredIsAllocated
      OBVIOUS
    <2>1. data_mr # Nil => data_manager.data # "null" /\ data_mr.size = data_manager.size
      BY DEF MemoryInv, Covers
    <2>2. ends \in Nat
      BY DEF MemoryInv, Ended, TeardownOrder
    <2>3. recv_bl = Freed => recv_mr = FALSE
      BY <2>2 DEF MemoryInv
    <2>4. send_bl = Freed => send_mr = FALSE
      BY <2>2 DEF MemoryInv
    <2> QED
      BY <2>1, <2>3, <2>4 DEF RegisteredIsAllocated
  <1> QED
    BY <1>1, MemoryInvariant, PTL

\* The descriptor the server sends, or sends again after a request that failed,
\* is always of memory it still has, with its length.
THEOREM PromisesHaveMemory == Spec => []PromisedIsMapped
  <1>1. MemoryInv => PromisedIsMapped
    BY DEF MemoryInv, Covers, PromisedIsMapped
  <1> QED
    BY <1>1, MemoryInvariant, PTL

-----------------------------------------------------------------------------
(* The handler uses its MemoryManager as that module says.                 *)

\* What is in the receive buffer came from a client, or is no request.
Received == recv_bl \in Request \cup {Unwritten, Freed}

\* A request is a step of the manager.
LEMMA RequestManages ==
  ASSUME Received, GetRequest \/ GetThrows
  PROVE  Mem!Next \/ UNCHANGED Mem!vars
  <1> DEFINE bar(m) == [s \in {Self} |-> m]
  <1>1. PICK R \in get_descriptor(M0, recv_bl) : data_manager' = R.mm /\ fs' = R.fs
    BY Zenon DEF GetRequest, GetThrows, SetMemory
  <1>2. Answers(M0, recv_bl, R)
    BY <1>1, CurrentResults, RequestAnswers, Zenon
  <1>3. \/ R.mm = data_manager /\ R.fs = fs
        \/ /\ recv_bl.type = "INIT_REQUEST" /\ data_manager.data = "null"
           /\ \E r \in Mem!init(fs, recv_bl.path, recv_bl.size) :
                R.fs = r.fs /\ R.mm = IF r.mm.data = "null" THEN Mem!Fresh ELSE r.mm
        \/ \E r \in Mem!close_and_remove(data_manager, fs) : R.mm = r.mm /\ R.fs = r.fs
    BY <1>2, CurrentResults, ZenonT(40) DEF Answers
  <1>4. /\ \A m : bar(m)[Self] = m
        /\ \A m, n : [bar(m) EXCEPT ![Self] = n] = bar(n)
    BY Zenon
  <1>5. CASE R.mm = data_manager /\ R.fs = fs
    BY <1>1, <1>5 DEF Mem!vars
  <1>6. CASE /\ recv_bl.type = "INIT_REQUEST" /\ data_manager.data = "null"
             /\ \E r \in Mem!init(fs, recv_bl.path, recv_bl.size) :
                  R.fs = r.fs /\ R.mm = IF r.mm.data = "null" THEN Mem!Fresh ELSE r.mm
    <2>1. recv_bl.path \in Paths /\ recv_bl.size \in Sizes
      BY <1>6, SMTT(30) DEF Received, Request, InitRequest, Unwritten, Freed
    <2>2. PICK r \in Mem!init(fs, recv_bl.path, recv_bl.size) :
            R.fs = r.fs /\ R.mm = IF r.mm.data = "null" THEN Mem!Fresh ELSE r.mm
      BY <1>6, ZenonT(40)
    <2>3. bar(data_manager)[Self].data = "null" /\ [m \in {Self} |-> Paths][Self] = Paths
      BY <1>4, <1>6
    <2>4. CASE r.mm.data = "null"
      <3>1. bar(data_manager') = bar(Mem!Fresh) /\ fs' = r.fs
        BY <1>1, <2>2, <2>4, ZenonT(40)
      <3>2. Mem!InitThrows(Self)
        BY <2>1, <2>2, <2>3, <2>4, <3>1 DEF Mem!InitThrows
      <3> QED
        BY <3>2 DEF Mem!Next
    <2>5. CASE r.mm.data # "null"
      <3>1. bar(data_manager') = [bar(data_manager) EXCEPT ![Self] = r.mm] /\ fs' = r.fs
        BY <1>1, <1>4, <2>2, <2>5, ZenonT(40)
      <3>2. Mem!InitMemory(Self)
        BY <2>1, <2>2, <2>3, <2>5, <3>1 DEF Mem!InitMemory
      <3> QED
        BY <3>2, ZenonT(40) DEF Mem!Next
    <2> QED
      BY <2>4, <2>5, ZenonT(40)
  <1>7. CASE \E r \in Mem!close_and_remove(data_manager, fs) : R.mm = r.mm /\ R.fs = r.fs
    <2>1. PICK r \in Mem!close_and_remove(bar(data_manager)[Self], fs) : R.mm = r.mm /\ R.fs = r.fs
      BY <1>4, <1>7, ZenonT(40)
    <2>2. bar(data_manager') = [bar(data_manager) EXCEPT ![Self] = r.mm] /\ fs' = r.fs
      BY <1>1, <1>4, <2>1, ZenonT(40)
    <2>3. Mem!Close(Self)
      BY <2>1, <2>2 DEF Mem!Close
    <2> QED
      BY <2>3 DEF Mem!Next
  <1> QED
    BY <1>3, <1>5, <1>6, <1>7, Zenon

\* In every order of requests, failures and destruction the manager of a connection
\* is used as MemoryManager.tla describes, so that what holds there of files
\* and mappings holds of the handler.
THEOREM MemoryIsManaged == Spec => UsesMemoryManager
  <1>1. Init => Received /\ Mem!Init
    BY ZenonT(40) DEF Init, init_send_recv_buffer, Received, Mem!Init
  <1>2. ASSUME Received, [Next]_vars
        PROVE  Received' /\ [Mem!Next]_Mem!vars
    <2>1. CASE HandleCompletion /\ (GetRequest \/ GetThrows)
      <3>1. Received'
        BY <1>2, <2>1, ZenonT(40) DEF GetRequest, GetThrows, Received
      <3> QED
        BY <1>2, <2>1, <3>1, RequestManages, ZenonT(40)
    <2>2. CASE Teardown
      <3>1. Received'
        BY <1>2, <2>2 DEF Teardown, Received
      <3>2. \/ data_manager' = Mem!Fresh /\ fs' = Mem!destructor(data_manager, fs)
            \/ data_manager' = data_manager /\ fs' = fs
        BY <2>2 DEF Teardown
      <3>3. CASE data_manager' = Mem!Fresh /\ fs' = Mem!destructor(data_manager, fs)
        <4>1. Mem!Destroy(Self)
          BY <3>3 DEF Mem!Destroy, Mem!destructor
        <4> QED
          BY <3>1, <4>1 DEF Mem!Next
      <3>4. CASE data_manager' = data_manager /\ fs' = fs
        BY <3>1, <3>4 DEF Mem!vars
      <3> QED
        BY <3>2, <3>3, <3>4, ZenonT(40)
    <2>3. CASE /\ recv_bl' = recv_bl \/ recv_bl' \in Request
               /\ UNCHANGED <<data_manager, fs>>
      BY <1>2, <2>3 DEF Received, Mem!vars
    <2> QED
      BY <1>2, <2>1, <2>2, <2>3
         DEF Next, HandleCompletion, ConnectionClosed, RequestArrives, Flushed, ReplySent,
             LinkFails, Stopped, vars, memVars
  <1> QED
    BY <1>1, <1>2, PTL DEF Spec, UsesMemoryManager, Mem!Spec

-----------------------------------------------------------------------------
(* What is proved of MemoryManager holds of the handler's.                 *)

MemProofs == INSTANCE MemoryManagerProofs WITH
               Managers <- {Self}, PathsOf <- [m \in {Self} |-> Paths],
               mm <- [m \in {Self} |-> data_manager], fs <- fs

LEMMA MemAssumptions == MemProofs!SizesAssumption /\ MemProofs!PathsAssumption
  BY MessagesAssumption DEF MemProofs!SizesAssumption, MemProofs!PathsAssumption

LEMMA SameManager == UsesMemoryManager => MemProofs!Spec
  <1>1. Mem!Init => MemProofs!Init
    BY DEF Mem!Init, MemProofs!Init, Mem!Fresh, MemProofs!Fresh, Mem!Files, MemProofs!Files
  <1>2. [Mem!Next]_Mem!vars => [MemProofs!Next]_MemProofs!vars
    BY Zenon DEF Mem!vars, MemProofs!vars, Mem!Next, MemProofs!Next, Mem!InitMemory,
             MemProofs!InitMemory, Mem!InitThrows, MemProofs!InitThrows, Mem!Close,
             MemProofs!Close, Mem!Destroy, MemProofs!Destroy, Mem!Restart,
             MemProofs!Restart, Mem!init, MemProofs!init, Mem!get_memory_from_pmem,
             MemProofs!get_memory_from_pmem, Mem!MapFile, MemProofs!MapFile,
             Mem!Usable, MemProofs!Usable, Mem!close_and_remove,
             MemProofs!close_and_remove, Mem!destructor, MemProofs!destructor,
             Mem!Fresh, MemProofs!Fresh
  <1> QED
    BY <1>1, <1>2, PTL DEF UsesMemoryManager, Mem!Spec, MemProofs!Spec

\* The manager holds what a client asked for, and the files have their types.
LEMMA ManagerInvariant == Spec => []MemProofs!Inv
  BY MemoryIsManaged, SameManager, MemAssumptions, MemProofs!Invariant, PTL

\* Whatever requests come in and fail, the connection itself never resizes a
\* replica file, and only its close() removes one, of memory it held.  Several
\* connections with the same files are the subject of MemoryManagerProofs.
THEOREM HandlerKeepsFiles == Spec => Mem!NeverResized /\ Mem!RemovedByClose
  <1>1. MemProofs!NeverResized => Mem!NeverResized
    BY PTL DEF MemProofs!NeverResized, Mem!NeverResized, MemProofs!vars, Mem!vars
  <1>2. MemProofs!RemovedByClose => Mem!RemovedByClose
    BY PTL DEF MemProofs!RemovedByClose, Mem!RemovedByClose, MemProofs!vars, Mem!vars
  <1> QED
    BY <1>1, <1>2, MemoryIsManaged, SameManager, MemAssumptions, MemProofs!FilesKeepLength,
       MemProofs!FilesOutliveConnections, PTL

-----------------------------------------------------------------------------
(* Types.                                                                  *)

\* Registering memory of a size a client asked for.
LEMMA RegisteredTypes ==
  ASSUME NEW M, NEW mm, NEW R, Registered(M, mm, R), mm.size \in Sizes,
         M.mr \in Region \cup {Nil}, M.send \in Reply \cup {Unwritten, Freed}
  PROVE  R.mr \in Region \cup {Nil} /\ R.send \in Reply \cup {Unwritten, Freed}
  <1>1. ASSUME NEW k \in Keys
        PROVE  Region0(k, mm) \in Region /\ Told(k, mm) \in Reply
    <2>1. (mm.data = "pmem") \in BOOLEAN
      BY Zenon
    <2> QED
      BY <2>1, Zenon DEF Region0, Region, Told, Reply
  <1> QED
    BY <1>1, Zenon DEF Registered

\* Every request, when the memory it leaves has such a size.
LEMMA AnswersTypes ==
  ASSUME NEW M, NEW req, NEW R, Answers(M, req, R), R.mm.data # "null" => R.mm.size \in Sizes,
         M.mr \in Region \cup {Nil}, M.send \in Reply \cup {Unwritten, Freed}
  PROVE  R.mr \in Region \cup {Nil} /\ R.send \in Reply \cup {Unwritten, Freed}
  <1>1. CASE R.mr = M.mr /\ R.send = M.send
    BY <1>1, Zenon
  <1>2. ASSUME NEW mm, mm.data # "null", R.mm = mm, Registered(M, mm, R)
        PROVE  R.mr \in Region \cup {Nil} /\ R.send \in Reply \cup {Unwritten, Freed}
    BY <1>2, RegisteredTypes, Zenon
  <1>3. ASSUME NEW r, R.mr = Nil, R.send = Done(r)
        PROVE  R.mr \in Region \cup {Nil} /\ R.send \in Reply \cup {Unwritten, Freed}
    <2>1. Done(r) \in Reply
      BY DEF Done, Reply
    <2> QED
      BY <1>3, <2>1, Zenon
  <1> QED
    BY <1>1, <1>2, <1>3, Zenon DEF Answers

FlagTypes ==
  /\ {armed, notified, disconnected, recv_mr, send_mr} \subseteq BOOLEAN
  /\ step \in {"epoll", "get"} /\ link \in {"up", "closed"}

LEMMA FlagsTyped == Spec => []FlagTypes
  <1>1. Init => FlagTypes
    BY Zenon DEF Init, init_send_recv_buffer, FlagTypes
  <1>2. ASSUME FlagTypes, [Next]_vars PROVE FlagTypes'
    <2> USE <1>2 DEF FlagTypes
    <2>1. CASE WaitOk /\ UNCHANGED memVars
      <3>1. notified' \in BOOLEAN /\ armed' \in BOOLEAN
        BY <2>1, Zenon DEF WaitOk, completion_wait
      <3> QED
        BY <2>1, <3>1 DEF WaitOk, memVars
    <2>2. CASE (WaitFails \/ GetNone \/ GetFails \/ GetError \/ GetQuiet) /\ UNCHANGED memVars
      BY <2>2, ZenonT(40)
         DEF WaitFails, GetNone, GetFails, GetError, GetQuiet, disconnect, queueVars, memVars
    <2>3. CASE GetRequest \/ GetThrows
      BY <2>3, ZenonT(40) DEF GetRequest, GetThrows
    <2>4. CASE RequestArrives \/ Flushed \/ ReplySent
      <3>1. /\ notified' = (notified \/ armed) /\ armed' = FALSE
            /\ UNCHANGED <<disconnected, recv_mr, send_mr, step, link>>
        BY <2>4, ZenonT(40) DEF RequestArrives, Flushed, ReplySent, RecvCompletes, SendCompletes,
                                Push, memVars
      <3>2. notified' \in BOOLEAN
        BY <3>1, Zenon
      <3> QED
        BY <3>1, <3>2, ZenonT(40)
    <2>5. CASE Teardown
      <3>1. recv_mr' \in BOOLEAN /\ send_mr' \in BOOLEAN
        BY <2>5, Zenon DEF Teardown
      <3>2. /\ UNCHANGED step
            /\ \/ armed' = FALSE /\ notified' = FALSE /\ disconnected' = TRUE /\ link' = "closed"
               \/ UNCHANGED <<armed, notified, disconnected, link>>
        BY <2>5, Zenon DEF Teardown, queueVars
      <3> QED
        BY <3>1, <3>2, ZenonT(40)
    <2>6. CASE ConnectionClosed \/ LinkFails \/ Stopped \/ UNCHANGED vars
      BY <2>6 DEF ConnectionClosed, LinkFails, LinkDown, Stopped, vars, chVars, queueVars, memVars
    <2> QED
      BY <1>2, <2>1, <2>2, <2>3, <2>4, <2>5, <2>6, ZenonT(40) DEF Next, HandleCompletion
  <1> QED
    BY <1>1, <1>2, PTL DEF Spec

BufferTypes == /\ Received
               /\ send_bl \in Reply \cup {Unwritten, Freed}
               /\ data_mr \in Region \cup {Nil}

LEMMA BuffersTyped == Spec => []BufferTypes
  <1>1. Init => BufferTypes
    BY ZenonT(40) DEF Init, init_send_recv_buffer, BufferTypes, Received
  <1>2. ASSUME BufferTypes, MemProofs!Inv', [Next]_vars PROVE BufferTypes'
    <2>1. CASE GetRequest \/ GetThrows
      <3>1. PICK R \in get_descriptor(M0, recv_bl) : SetMemory(R)
        BY <2>1, Zenon DEF GetRequest, GetThrows
      <3>2. R.mm.data # "null" => R.mm.size \in Sizes
        BY <1>2, <3>1, Zenon DEF MemProofs!Inv, MemProofs!NamedByClient, SetMemory
      <3>3. Answers(M0, recv_bl, R)
        BY CurrentResults, RequestAnswers, Zenon
      <3>4. R.mr \in Region \cup {Nil} /\ R.send \in Reply \cup {Unwritten, Freed}
        BY <1>2, <3>2, <3>3, AnswersTypes, CurrentResults, Zenon DEF BufferTypes
      <3>5. recv_bl' = recv_bl
        BY <2>1, Zenon DEF GetRequest, GetThrows
      <3> QED
        BY <1>2, <3>1, <3>4, <3>5, Zenon DEF BufferTypes, Received, SetMemory
    <2>2. CASE Teardown
      BY <1>2, <2>2 DEF Teardown, BufferTypes, Received
    <2>3. CASE /\ recv_bl' = recv_bl \/ recv_bl' \in Request
               /\ UNCHANGED <<send_bl, data_mr>>
      BY <1>2, <2>3 DEF BufferTypes, Received
    <2> QED
      BY <1>2, <2>1, <2>2, <2>3
         DEF Next, HandleCompletion, ConnectionClosed, RequestArrives, Flushed, ReplySent,
             LinkFails, Stopped, vars, memVars
  <1> QED
    BY <1>1, <1>2, ManagerInvariant, PTL DEF Spec
=============================================================================
