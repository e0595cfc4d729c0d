---------------------------- MODULE ReactorProofs ----------------------------
(* What holds of the server process for any number of connections and      *)
(* descriptors.                                                            *)
EXTENDS Reactor, SequenceTheorems, TLAPS

\* Before the loop and after it nothing is registered, open or alive.
IdleOutside ==
  ~Serving => /\ acc_fd = Nil /\ open = {} /\ epoll = {}
              /\ \A fd \in Fds : event_table[fd] = Nil
              /\ \A h \in Handlers : obj[h] = Nil

\* The loop handles one event at a time.
OneEvent == /\ pc = "dispatch" => \E fd \in Fds : pending = {fd}
            /\ pc # "dispatch" => pending = {}

\* What epoll_wait reported is still readable when it is handled: nobody else
\* reads it.
PendingReadable == \A fd \in pending : Readable(fd)

\* The acceptor has a descriptor; a handler's two descriptors differ.
Distinct == /\ Serving => acc_fd \in Fds
            /\ \A h \in Handlers : obj[h] # Nil => obj[h].conn_fd # obj[h].comp_fd

\* The registrations: event_table, epoll, the descriptors and the objects agree.
Registry == /\ EpollMatchesTable /\ RegistrationsExact /\ DescriptorsExact
            /\ IdleOutside /\ Distinct

\* The inductive invariant.
Inv == TypeOK /\ Registry /\ NoStaleDispatch /\ OneEvent /\ PendingReadable

-----------------------------------------------------------------------------
(* The reactor's operations.                                               *)

ReactorState == [table : [Fds -> EventHandle \cup {Nil}], epoll : SUBSET Fds]

\* Erasing an entry that is not there changes nothing.
LEMMA EraseNothing ==
  ASSUME NEW R \in ReactorState, NEW fd \in Fds, R.table[fd] = Nil
  PROVE  [table |-> [R.table EXCEPT ![fd] = Nil], epoll |-> R.epoll] = R
  <1>1. [R.table EXCEPT ![fd] = Nil] = R.table
    BY DEF ReactorState
  <1> QED
    BY <1>1 DEF ReactorState

\* R with both registrations of handler h.
Added(R, h, f, g) ==
  [table |-> [R.table EXCEPT ![f] = [type |-> "CONNECTION_EVENT", handler |-> h],
                             ![g] = [type |-> "COMPLETION_EVENT", handler |-> h]],
   epoll |-> R.epoll \cup {f, g}]

\* register_self adds both descriptors of the handler, or none.
LEMMA RegisterSelf ==
  ASSUME NEW R \in ReactorState, NEW h \in Handlers, NEW o \in HandlerObj,
         NEW res1 \in CallResult, NEW res2 \in CallResult,
         o.conn_fd # o.comp_fd, o.conn_fd \notin R.epoll, o.comp_fd \notin R.epoll,
         R.table[o.conn_fd] = Nil, R.table[o.comp_fd] = Nil
  PROVE  \/ register_self(R, h, o, res1, res2) = R
         \/ register_self(R, h, o, res1, res2) = Added(R, h, o.conn_fd, o.comp_fd)
  <1> DEFINE c == o.conn_fd
             p == o.comp_fd
             eC == [type |-> "CONNECTION_EVENT", handler |-> h]
             eP == [type |-> "COMPLETION_EVENT", handler |-> h]
             R1 == register_handler(R, c, h, "CONNECTION_EVENT", res1)
             R2 == register_handler(R1, p, h, "COMPLETION_EVENT", res2)
  <1>0. c \in Fds /\ p \in Fds /\ eC \in EventHandle /\ eP \in EventHandle
    BY DEF HandlerObj, EventHandle, EventType
  <1>1. /\ res1 = "ok" => R1 = [table |-> [R.table EXCEPT ![c] = eC], epoll |-> R.epoll \cup {c}]
        /\ res1 # "ok" => R1 = R
    <2>1. [table |-> [R.table EXCEPT ![c] = Nil], epoll |-> R.epoll] = R
      BY <1>0, EraseNothing
    <2> QED
      BY <1>0, <2>1 DEF register_handler, CallResult
  <1>2. CASE res1 # "ok"
    BY <1>1, <1>2 DEF register_self, registered
  <1>3. CASE res1 = "ok"
    <2>1. R1.table = [R.table EXCEPT ![c] = eC] /\ R1.epoll = R.epoll \cup {c}
      BY <1>1, <1>3
    <2>2. R1 \in ReactorState /\ R1.table[p] = Nil /\ p \notin R1.epoll
      BY <1>0, <1>1, <1>3, <2>1 DEF ReactorState
    <2>3. /\ res2 = "ok" => R2 = [table |-> [R1.table EXCEPT ![p] = eP],
                                  epoll |-> R1.epoll \cup {p}]
          /\ res2 # "ok" => R2 = R1
      <3> HIDE DEF R1
      <3>1. [table |-> [R1.table EXCEPT ![p] = Nil], epoll |-> R1.epoll] = R1
        BY <1>0, <2>2, EraseNothing
      <3> QED
        BY <1>0, <2>2, <3>1 DEF register_handler, CallResult
    <2>4. CASE res2 = "ok"
      <3>1. register_self(R, h, o, res1, res2) = R2
        BY <1>3, <2>2, <2>4 DEF register_self, registered
      <3>2. R2.table = [R.table EXCEPT ![c] = eC, ![p] = eP] /\ R2.epoll = R.epoll \cup {c, p}
        BY <2>1, <2>3, <2>4
      <3> QED
        BY <2>1, <2>3, <2>4, <3>1, <3>2 DEF Added
    <2>5. CASE res2 # "ok"
      <3>1. register_self(R, h, o, res1, res2) = remove_handler(R1, c)
        BY <1>3, <2>3, <2>5 DEF register_self, registered
      <3>2. [R1.table EXCEPT ![c] = Nil] = R.table /\ R1.epoll \ {c} = R.epoll
        BY <1>0, <2>1 DEF ReactorState
      <3>3. R = [table |-> R.table, epoll |-> R.epoll]
        BY DEF ReactorState
      <3> QED
        BY <3>1, <3>2, <3>3 DEF remove_handler
    <2> QED
      BY <2>4, <2>5
  <1> QED
    BY <1>2, <1>3

\* remove_self takes both descriptors out.
LEMMA RemoveSelf ==
  ASSUME NEW R \in ReactorState, NEW o \in HandlerObj
  PROVE  LET S == remove_self(R, o) IN
         /\ S.table = [fd \in Fds |-> IF fd \in ClosedFds(o) THEN Nil ELSE R.table[fd]]
         /\ S.epoll = R.epoll \ ClosedFds(o)
  BY DEF remove_self, remove_handler, ReactorState, HandlerObj, ClosedFds

-----------------------------------------------------------------------------
(* What the two handlers that change registrations do.                     *)

\* The reactor's state in a state that satisfies the invariant.
LEMMA R0State == TypeOK => R0 \in ReactorState
  BY DEF TypeOK, ReactorState, R0

\* Whose entry a descriptor has.
LEMMA EntryOwner ==
  ASSUME TypeOK, Registry, NEW fd \in Fds, event_table[fd] # Nil
  PROVE  /\ fd \in open
         /\ \/ Owner(fd) = Acceptor /\ fd = acc_fd
            \/ Owner(fd) \in Handlers /\ Owns(fd, Owner(fd))
  <1>1. Owner(fd) \in Handlers \cup {Acceptor}
    BY DEF TypeOK, EventHandle, Owner
  <1>2. IF Owner(fd) = Acceptor THEN fd = acc_fd ELSE Owns(fd, Owner(fd))
    BY DEF Registry, RegistrationsExact
  <1> QED
    BY <1>1, <1>2 DEF Registry, DescriptorsExact

\* AcceptorHandler::handle adds a handler with both its registrations and two
\* descriptors that were not in use, or changes nothing.
AcceptAdds(h, f, g) ==
  LET o == [conn_fd |-> f, comp_fd |-> g, disconnected |-> FALSE, connected |-> FALSE] IN
  /\ event_table' = Added(R0, h, f, g).table /\ epoll' = Added(R0, h, f, g).epoll
  /\ open' = open \cup {f, g}
  /\ obj' = [obj EXCEPT ![h] = o]

\* Accepting adds one complete handler or changes nothing.
LEMMA AcceptEffect ==
  ASSUME TypeOK, Registry, NEW fd \in Fds, Accept(fd)
  PROVE  /\ \/ UNCHANGED <<event_table, epoll, open, obj>>
            \/ \E h \in Handlers, f, g \in Fds \ open : obj[h] = Nil /\ f # g /\ AcceptAdds(h, f, g)
         /\ completion' \subseteq completion
         /\ cm' \in [Handlers -> Seq(ConnEvent)]
         /\ \A h \in Handlers : obj[h] # Nil => cm'[h] = cm[h] /\ (h \in completion => h \in completion')
         /\ link' \in [Handlers -> LinkState]
  <1>1. PICK h \in Handlers, f \in Fds \ open, g \in Fds \ open, res1 \in CallResult, res2 \in CallResult :
          LET o == [conn_fd |-> f, comp_fd |-> g, disconnected |-> FALSE, connected |-> FALSE]
              R == register_self(R0, h, o, res1, res2)
          IN /\ obj[h] = Nil /\ f # g
             /\ Settle(R, h, o, open \cup {f, g}, << >>, "connecting")
    BY Zenon DEF Accept, init_conn_fd
  <1> DEFINE o == [conn_fd |-> f, comp_fd |-> g, disconnected |-> FALSE, connected |-> FALSE]
             R == register_self(R0, h, o, res1, res2)
             S == Added(R0, h, f, g)
  <1>2. o \in HandlerObj /\ o.conn_fd = f /\ o.comp_fd = g
    BY DEF HandlerObj
  <1>3. R0 \in ReactorState /\ R0.table = event_table /\ R0.epoll = epoll
    BY R0State DEF R0
  <1>4. event_table[f] = Nil /\ event_table[g] = Nil /\ f \notin epoll /\ g \notin epoll
    BY EntryOwner DEF Registry, EpollMatchesTable
  <1>5. R = R0 \/ R = S
    <2>1. /\ o.conn_fd # o.comp_fd /\ o.conn_fd \notin R0.epoll /\ o.comp_fd \notin R0.epoll
          /\ R0.table[o.conn_fd] = Nil /\ R0.table[o.comp_fd] = Nil
      BY <1>1, <1>2, <1>3, <1>4
    <2> HIDE DEF o
    <2>2. R = R0 \/ R = Added(R0, h, o.conn_fd, o.comp_fd)
      BY <1>2, <1>3, <2>1, RegisterSelf
    <2> QED
      BY <1>2, <2>2
  <1> HIDE DEF R, o
  <1>6. Settle(R, h, o, open \cup {f, g}, << >>, "connecting") /\ obj[h] = Nil /\ f # g
    BY <1>1 DEF R, o
  <1>7. cm' \in [Handlers -> Seq(ConnEvent)] /\ completion' \subseteq completion
        /\ (\A k \in Handlers : k # h => cm'[k] = cm[k] /\ (k \in completion => k \in completion'))
        /\ link' \in [Handlers -> LinkState]
    BY <1>6 DEF Settle, TypeOK, LinkState
  <1>8. CASE R = R0
    <2>1. ~Referenced(R, h)
      BY <1>3, <1>6, <1>8, ObjectsAssumption
         DEF Referenced, Registry, RegistrationsExact, Owner, Owns
    <2>2. event_table' = event_table
      BY <1>3, <1>6, <1>8 DEF Settle
    <2>3. epoll' = epoll /\ open' = open
      BY <1>2, <1>3, <1>4, <1>6, <1>8, <2>1 DEF Settle, ClosedFds
    <2>4. obj' = obj
      BY <1>6, <2>1 DEF Settle, TypeOK
    <2> QED
      BY <1>6, <1>7, <2>2, <2>3, <2>4
  <1>9. CASE R = S
    <2>1. S.table[f] = [type |-> "CONNECTION_EVENT", handler |-> h]
      BY <1>6 DEF TypeOK, Added, R0
    <2>2. S.table[f] # Nil /\ S.table[f].handler = h
      BY <2>1, NilAssumption DEF EventHandle, EventType
    <2>3. Referenced(R, h)
      BY <1>9, <2>2 DEF Referenced
    <2>4. event_table' = S.table /\ epoll' = S.epoll /\ open' = open \cup {f, g}
          /\ obj' = [obj EXCEPT ![h] = o]
      BY <1>6, <1>9, <2>3 DEF Settle
    <2>5. AcceptAdds(h, f, g)
      BY <2>4 DEF AcceptAdds, o
    <2> QED
      BY <1>6, <1>7, <2>5
  <1> QED
    BY <1>5, <1>8, <1>9

\* The handler that an event other than ACCEPT_EVENT is dispatched to is alive
\* and owns the descriptor; a connection event is there to be read.
LEMMA DispatchedHandler ==
  ASSUME Inv, NEW fd \in Fds, NEW et \in {"CONNECTION_EVENT", "COMPLETION_EVENT"},
         Dispatching(fd, et)
  PROVE  /\ Owner(fd) \in Handlers /\ obj[Owner(fd)] \in HandlerObj /\ Owns(fd, Owner(fd))
         /\ et = "CONNECTION_EVENT" => cm[Owner(fd)] # << >>
         /\ Serving
  <1> USE DEF Inv
  <1>1. Serving /\ event_table[fd] # Nil /\ event_table[fd].type = et /\ fd \in pending
    BY DEF Dispatching, Serving
  <1>2. fd # acc_fd
    BY <1>1 DEF Registry, RegistrationsExact
  <1>3. Owner(fd) \in Handlers /\ Owns(fd, Owner(fd))
    BY <1>1, <1>2, EntryOwner
  <1>4. obj[Owner(fd)] \in HandlerObj
    BY <1>3 DEF TypeOK, Owns
  <1>5. ASSUME et = "CONNECTION_EVENT" PROVE cm[Owner(fd)] # << >>
    <2>1. PICK k \in Handlers : /\ obj[k] # Nil
                                /\ \/ fd = obj[k].conn_fd /\ cm[k] # << >>
                                   \/ fd = obj[k].comp_fd
      BY <1>1, <1>2 DEF PendingReadable, Readable
    <2>2. Owns(fd, k)
      BY <2>1 DEF Owns
    <2>3. k = Owner(fd)
      BY <1>3, <2>2 DEF Registry, DescriptorsExact
    <2>4. fd # obj[k].comp_fd
      <3>1. obj[k] # Nil
        BY <2>1
      <3>2. event_table[obj[k].comp_fd] = [type |-> "COMPLETION_EVENT", handler |-> k]
        BY <3>1, Zenon DEF Registry, RegistrationsExact
      <3> QED
        BY <1>1, <1>5, <3>2
    <2> QED
      BY <2>1, <2>3, <2>4
  <1> QED
    BY <1>1, <1>3, <1>4, <1>5

\* ConnectionHandler::handle on CLOSED or LOST destroys the handler: both
\* entries gone, both descriptors closed.
Destroys(h) ==
  /\ event_table' = [f \in Fds |-> IF Owns(f, h) THEN Nil ELSE event_table[f]]
  /\ epoll' = {f \in epoll : ~Owns(f, h)} /\ open' = {f \in open : ~Owns(f, h)}
  /\ obj' = [obj EXCEPT ![h] = Nil]
  /\ completion' = completion \ {h}
  /\ cm' = [cm EXCEPT ![h] = << >>]
  /\ link' = [link EXCEPT ![h] = "none"]

\* Handling CLOSED or LOST removes one handler completely.
LEMMA ClosedEffect ==
  ASSUME Inv, NEW fd \in Fds, Closed(fd)
  PROVE  Owner(fd) \in Handlers /\ obj[Owner(fd)] # Nil /\ Destroys(Owner(fd))
  <1> DEFINE h == Owner(fd)
             o == [obj[h] EXCEPT !.connected = FALSE]
             R == remove_self(R0, o)
  <1>1. h \in Handlers /\ obj[h] \in HandlerObj /\ Owns(fd, h)
    BY DispatchedHandler DEF Closed
  <1>2. Settle(R, h, o, open, Tail(cm[h]), link[h])
    BY DEF Closed
  <1> HIDE DEF h
  <1>3. o \in HandlerObj /\ o.conn_fd = obj[h].conn_fd /\ o.comp_fd = obj[h].comp_fd
    BY <1>1, Zenon DEF HandlerObj
  <1>4. \A f \in Fds : f \in ClosedFds(o) <=> Owns(f, h)
    BY <1>1, <1>3 DEF ClosedFds, Owns
  <1> HIDE DEF o
  <1>5. /\ R.table = [f \in Fds |-> IF f \in ClosedFds(o) THEN Nil ELSE event_table[f]]
        /\ R.epoll = epoll \ ClosedFds(o)
    <2>1. R0 \in ReactorState /\ R0.table = event_table /\ R0.epoll = epoll
      BY R0State DEF Inv, R0
    <2> QED
      BY <1>3, <2>1, RemoveSelf
  <1> HIDE DEF R
  <1>6. R.table = [f \in Fds |-> IF Owns(f, h) THEN Nil ELSE event_table[f]]
    BY <1>4, <1>5
  <1>7. ~Referenced(R, h)
    <2>1. SUFFICES ASSUME NEW f \in Fds, R.table[f] # Nil, R.table[f].handler = h PROVE FALSE
      BY DEF Referenced
    <2>2. ~Owns(f, h) /\ event_table[f] # Nil /\ Owner(f) = h
      BY <1>6, <2>1 DEF Owner
    <2> QED
      BY <1>1, <2>2, ObjectsAssumption, EntryOwner DEF Inv
  <1>8. /\ epoll' = (epoll \ ClosedFds(o)) \ ClosedFds(o) /\ open' = open \ ClosedFds(o)
        /\ event_table' = R.table /\ obj' = [obj EXCEPT ![h] = Nil]
        /\ completion' = completion \ {h} /\ cm' = [cm EXCEPT ![h] = << >>]
        /\ link' = [link EXCEPT ![h] = "none"]
    BY <1>2, <1>5, <1>7 DEF Settle
  <1>9. epoll \subseteq Fds /\ open \subseteq Fds
    BY DEF Inv, TypeOK
  <1>10. epoll' = {f \in epoll : ~Owns(f, h)} /\ open' = {f \in open : ~Owns(f, h)}
    BY <1>4, <1>8, <1>9
  <1>11. Destroys(h) /\ obj[h] # Nil
    BY <1>1, <1>6, <1>8, <1>10, NilAssumption DEF Destroys
  <1> QED
    BY <1>1, <1>11 DEF h

-----------------------------------------------------------------------------
(* Each kind of change keeps the registrations consistent.                 *)

\* The objects change in nothing but their flags.
SameObjects ==
  /\ obj' \in [Handlers -> HandlerObj \cup {Nil}]
  /\ \A h \in Handlers : /\ obj[h] = Nil <=> obj'[h] = Nil
                         /\ obj[h] # Nil => /\ obj'[h].conn_fd = obj[h].conn_fd
                                            /\ obj'[h].comp_fd = obj[h].comp_fd

\* Steps that leave the registry alone keep it.
LEMMA SameKeeps ==
  ASSUME TypeOK, Registry, UNCHANGED <<event_table, epoll, open, acc_fd>>, SameObjects,
         Serving <=> Serving'
  PROVE  Registry'
  <1>1. \A h \in Handlers, f \in Fds : Owns(f, h)' <=> Owns(f, h)
    BY DEF SameObjects, Owns
  <1>2. EpollMatchesTable'
    BY DEF Registry, EpollMatchesTable
  <1>3. RegistrationsExact'
    <2>1. \A h \in Handlers : obj'[h] # Nil =>
            /\ event_table'[obj'[h].conn_fd] = [type |-> "CONNECTION_EVENT", handler |-> h]
            /\ event_table'[obj'[h].comp_fd] = [type |-> "COMPLETION_EVENT", handler |-> h]
      BY DEF Registry, RegistrationsExact, SameObjects
    <2>2. ASSUME NEW f \in Fds, event_table'[f] # Nil
          PROVE  (IF Owner(f) = Acceptor THEN f = acc_fd ELSE Owns(f, Owner(f)))'
      BY <1>1, <2>2, EntryOwner, ObjectsAssumption DEF Owner, Owns, SameObjects
    <2> QED
      BY <2>1, <2>2 DEF Registry, RegistrationsExact
  <1>4. DescriptorsExact'
    BY <1>1 DEF Registry, DescriptorsExact
  <1>5. IdleOutside' /\ Distinct'
    BY DEF Registry, IdleOutside, Distinct, SameObjects
  <1> QED
    BY <1>2, <1>3, <1>4, <1>5 DEF Registry

\* Adding a complete handler on two unused descriptors keeps the registry.
LEMMA AcceptKeeps ==
  ASSUME TypeOK, Registry, Serving, Serving', UNCHANGED acc_fd,
         NEW h \in Handlers, NEW f \in Fds \ open, NEW g \in Fds \ open,
         obj[h] = Nil, f # g, AcceptAdds(h, f, g)
  PROVE  Registry'
  <1>1. /\ event_table' \in [Fds -> EventHandle \cup {Nil}]
        /\ event_table'[f] = [type |-> "CONNECTION_EVENT", handler |-> h]
        /\ event_table'[g] = [type |-> "COMPLETION_EVENT", handler |-> h]
        /\ \A fd \in Fds \ {f, g} : event_table'[fd] = event_table[fd]
        /\ epoll' = epoll \cup {f, g}
    BY DEF AcceptAdds, Added, R0, TypeOK, EventHandle, EventType
  <1>2. /\ obj'[h] \in HandlerObj /\ obj'[h].conn_fd = f /\ obj'[h].comp_fd = g
        /\ obj'[h] # Nil
        /\ \A k \in Handlers : k # h => obj'[k] = obj[k]
    <2> DEFINE o == [conn_fd |-> f, comp_fd |-> g, disconnected |-> FALSE, connected |-> FALSE]
    <2>1. obj'[h] = o /\ \A k \in Handlers : k # h => obj'[k] = obj[k]
      BY DEF AcceptAdds, TypeOK
    <2>2. o \in HandlerObj /\ o.conn_fd = f /\ o.comp_fd = g
      BY DEF HandlerObj
    <2> HIDE DEF o
    <2>3. o # Nil
      BY <2>2, NilAssumption
    <2> QED
      BY <2>1, <2>2, <2>3
  <1>3. \A fd \in Fds : Owns(fd, h)' <=> fd \in {f, g}
    BY <1>2 DEF Owns
  <1>4. \A k \in Handlers, fd \in Fds : k # h => (Owns(fd, k)' <=> Owns(fd, k))
    BY <1>2 DEF Owns
  <1>5. \A fd \in {f, g} : fd # acc_fd /\ \A k \in Handlers : ~Owns(fd, k)
    BY DEF Registry, DescriptorsExact
  <1>6. event_table'[f] # Nil /\ event_table'[g] # Nil
    BY <1>1, NilAssumption DEF EventHandle, EventType
  <1>7. EpollMatchesTable'
    BY <1>1, <1>6 DEF Registry, EpollMatchesTable
  <1>8. RegistrationsExact'
    <2>1. ASSUME NEW k \in Handlers, obj'[k] # Nil
          PROVE  /\ event_table'[obj'[k].conn_fd] = [type |-> "CONNECTION_EVENT", handler |-> k]
                 /\ event_table'[obj'[k].comp_fd] = [type |-> "COMPLETION_EVENT", handler |-> k]
      <3>1. CASE k = h
        BY <1>1, <1>2, <3>1
      <3>2. CASE k # h
        <4>1. obj[k] # Nil /\ obj'[k] = obj[k] /\ obj[k] \in HandlerObj
          BY <1>2, <2>1, <3>2 DEF TypeOK
        <4>2. Owns(obj[k].conn_fd, k) /\ Owns(obj[k].comp_fd, k)
              /\ obj[k].conn_fd \in Fds /\ obj[k].comp_fd \in Fds
          BY <4>1 DEF Owns, HandlerObj
        <4>3. obj[k].conn_fd \notin {f, g} /\ obj[k].comp_fd \notin {f, g}
          BY <1>5, <4>2
        <4> QED
          BY <1>1, <4>1, <4>2, <4>3 DEF Registry, RegistrationsExact
      <3> QED
        BY <3>1, <3>2
    <2>2. ASSUME NEW fd \in Fds, event_table'[fd] # Nil
          PROVE  (IF Owner(fd) = Acceptor THEN fd = acc_fd ELSE Owns(fd, Owner(fd)))'
      <3>1. CASE fd \in {f, g}
        <4>1. event_table'[fd].handler = h
          BY <1>1, <3>1
        <4>2. Owner(fd)' = h
          BY <4>1 DEF Owner
        <4>3. Owns(fd, h)'
          BY <1>3, <3>1
        <4> QED
          BY <4>2, <4>3, ObjectsAssumption DEF Owns
      <3>2. CASE fd \notin {f, g}
        <4>1. event_table'[fd] = event_table[fd] /\ event_table[fd] # Nil
          BY <1>1, <2>2, <3>2
        <4>2. Owner(fd)' = Owner(fd)
          BY <4>1 DEF Owner
        <4>3. \/ Owner(fd) = Acceptor /\ fd = acc_fd
              \/ Owner(fd) \in Handlers /\ Owns(fd, Owner(fd))
          BY <4>1, EntryOwner
        <4>4. Owner(fd) \in Handlers /\ Owns(fd, Owner(fd)) =>
                 obj'[Owner(fd)] = obj[Owner(fd)]
          BY <1>2 DEF Owns
        <4> QED
          BY <4>2, <4>3, <4>4, ObjectsAssumption DEF Owns
      <3> QED
        BY <3>1, <3>2
    <2>3. event_table'[acc_fd'] = [type |-> "ACCEPT_EVENT", handler |-> Acceptor]
      BY <1>1, <1>5 DEF Registry, RegistrationsExact, Distinct
    <2> QED
      BY <2>1, <2>2, <2>3 DEF RegistrationsExact
  <1>9. DescriptorsExact'
    <2>1. open' = open \cup {f, g}
      BY DEF AcceptAdds
    <2>2. \A fd \in Fds : fd \in open' <=> (fd = acc_fd' \/ \E k \in Handlers : Owns(fd, k)')
      BY <1>3, <1>4, <1>5, <2>1 DEF Registry, DescriptorsExact, Owns
    <2>3. \A k, m \in Handlers, fd \in Fds :
            Owns(fd, k)' => fd # acc_fd' /\ (Owns(fd, m)' => m = k)
      BY <1>3, <1>4, <1>5 DEF Registry, DescriptorsExact
    <2> QED
      BY <2>2, <2>3 DEF DescriptorsExact
  <1>10. IdleOutside' /\ Distinct'
    BY <1>2 DEF Registry, IdleOutside, Distinct
  <1> QED
    BY <1>7, <1>8, <1>9, <1>10 DEF Registry

\* Removing a handler with its entries and descriptors keeps the registry.
LEMMA DestroyKeeps ==
  ASSUME TypeOK, Registry, Serving, Serving', UNCHANGED acc_fd,
         NEW h \in Handlers, obj[h] # Nil, Destroys(h)
  PROVE  Registry'
  <1>1. /\ obj'[h] = Nil /\ \A k \in Handlers : k # h => obj'[k] = obj[k]
        /\ \A fd \in Fds : event_table'[fd] = IF Owns(fd, h) THEN Nil ELSE event_table[fd]
        /\ epoll' = {f \in epoll : ~Owns(f, h)} /\ open' = {f \in open : ~Owns(f, h)}
    BY DEF Destroys, TypeOK
  <1>2. \A fd \in Fds : ~Owns(fd, h)'
    BY <1>1 DEF Owns
  <1>3. \A k \in Handlers, fd \in Fds : k # h => (Owns(fd, k)' <=> Owns(fd, k))
    BY <1>1 DEF Owns
  <1>4. \A k \in Handlers, fd \in Fds : Owns(fd, k) => fd # acc_fd /\ (Owns(fd, h) => k = h)
    BY DEF Registry, DescriptorsExact
  <1>5. EpollMatchesTable'
    BY <1>1 DEF Registry, EpollMatchesTable
  <1>6. RegistrationsExact'
    <2>1. ASSUME NEW k \in Handlers, obj'[k] # Nil
          PROVE  /\ event_table'[obj'[k].conn_fd] = [type |-> "CONNECTION_EVENT", handler |-> k]
                 /\ event_table'[obj'[k].comp_fd] = [type |-> "COMPLETION_EVENT", handler |-> k]
      <3>1. k # h /\ obj'[k] = obj[k] /\ obj[k] # Nil /\ obj[k] \in HandlerObj
        BY <1>1, <2>1 DEF TypeOK
      <3>2. /\ obj[k].conn_fd \in Fds /\ obj[k].comp_fd \in Fds
            /\ ~Owns(obj[k].conn_fd, h) /\ ~Owns(obj[k].comp_fd, h)
        <4>1. obj[k].conn_fd \in Fds /\ obj[k].comp_fd \in Fds
          BY <3>1 DEF HandlerObj
        <4>2. Owns(obj[k].conn_fd, k) /\ Owns(obj[k].comp_fd, k)
          BY <3>1 DEF Owns
        <4> QED
          BY <1>4, <3>1, <4>1, <4>2
      <3> QED
        BY <1>1, <3>1, <3>2 DEF Registry, RegistrationsExact
    <2>2. ASSUME NEW fd \in Fds, event_table'[fd] # Nil
          PROVE  (IF Owner(fd) = Acceptor THEN fd = acc_fd ELSE Owns(fd, Owner(fd)))'
      <3>1. event_table'[fd] = event_table[fd] /\ event_table[fd] # Nil /\ ~Owns(fd, h)
        BY <1>1, <2>2
      <3>2. Owner(fd)' = Owner(fd)
        BY <3>1 DEF Owner
      <3>3. \/ Owner(fd) = Acceptor /\ fd = acc_fd
            \/ Owner(fd) \in Handlers /\ Owns(fd, Owner(fd)) /\ obj'[Owner(fd)] = obj[Owner(fd)]
        BY <1>1, <3>1, EntryOwner, ZenonT(40)
      <3> QED
        BY <3>2, <3>3, ObjectsAssumption DEF Owns
    <2>3. event_table'[acc_fd'] = [type |-> "ACCEPT_EVENT", handler |-> Acceptor]
      BY <1>1, <1>4 DEF Registry, RegistrationsExact, Distinct
    <2> QED
      BY <2>1, <2>2, <2>3 DEF RegistrationsExact
  <1>7. DescriptorsExact'
    <2>1. \A fd \in Fds : fd \in open' <=> (fd = acc_fd' \/ \E k \in Handlers : Owns(fd, k)')
      BY <1>1, <1>2, <1>3, <1>4 DEF Registry, DescriptorsExact
    <2>2. \A k, m \in Handlers, fd \in Fds :
            Owns(fd, k)' => fd # acc_fd' /\ (Owns(fd, m)' => m = k)
      BY <1>2, <1>3 DEF Registry, DescriptorsExact
    <2> QED
      BY <2>1, <2>2 DEF DescriptorsExact
  <1>8. IdleOutside' /\ Distinct'
    BY <1>1 DEF Registry, IdleOutside, Distinct
  <1> QED
    BY <1>5, <1>6, <1>7, <1>8 DEF Registry

\* Leaving main() empties everything.
LEMMA ExitKeeps ==
  ASSUME Inv, NEW fd \in Fds, CompletionThrows(fd)
  PROVE  Inv'
  <1> USE DEF CompletionThrows
  <1>1. TypeOK'
    <2>1. << >> \in Seq(ConnEvent) /\ 0 \in 0..Backlog
      BY BoundsAssumption
    <2> QED
      BY <2>1 DEF TypeOK, LinkState
  <1>2. ~Serving' /\ \A h \in Handlers, f \in Fds : ~Owns(f, h)'
    BY DEF Serving, Owns
  <1>3. EpollMatchesTable' /\ RegistrationsExact'
    BY <1>2 DEF EpollMatchesTable, RegistrationsExact
  <1>4. DescriptorsExact'
    BY <1>2, ObjectsAssumption DEF DescriptorsExact
  <1>5. IdleOutside' /\ Distinct'
    BY <1>2 DEF IdleOutside, Distinct
  <1>6. NoStaleDispatch' /\ OneEvent' /\ PendingReadable'
    BY DEF NoStaleDispatch, OneEvent, PendingReadable
  <1> QED
    BY <1>1, <1>3, <1>4, <1>5, <1>6 DEF Inv, Registry

-----------------------------------------------------------------------------
(* The invariant is inductive.                                             *)

\* A handler leaves the loop with nothing pending.
LEMMA BackToWait ==
  ASSUME Inv, NEW fd \in Fds, NEW et \in EventType, Dispatching(fd, et), Handled(fd)
  PROVE  /\ pc' = "wait" /\ pending' = {} /\ acc_fd' = acc_fd
         /\ Serving /\ Serving' /\ fd \in pending
         /\ NoStaleDispatch' /\ OneEvent' /\ PendingReadable'
  <1>1. pc = "dispatch" /\ fd \in pending /\ pending = {fd}
    BY DEF Inv, OneEvent, Dispatching
  <1>2. pc' = "wait" /\ pending' = {} /\ acc_fd' = acc_fd
    BY <1>1 DEF Handled
  <1> QED
    BY <1>1, <1>2 DEF Serving, NoStaleDispatch, OneEvent, PendingReadable

\* An ACCEPT_EVENT is dispatched while a request is pending.
LEMMA RequestThere ==
  ASSUME Inv, NEW fd \in Fds, Dispatching(fd, "ACCEPT_EVENT")
  PROVE  requests \in 1..Backlog
  <1>1. fd \in pending /\ event_table[fd] # Nil /\ event_table[fd].type = "ACCEPT_EVENT"
    BY DEF Dispatching
  <1>2. ASSUME NEW h \in Handlers, obj[h] # Nil PROVE fd # obj[h].conn_fd /\ fd # obj[h].comp_fd
    <2>1. /\ event_table[obj[h].conn_fd] = [type |-> "CONNECTION_EVENT", handler |-> h]
          /\ event_table[obj[h].comp_fd] = [type |-> "COMPLETION_EVENT", handler |-> h]
      BY <1>2 DEF Inv, Registry, RegistrationsExact
    <2> QED
      BY <1>1, <2>1
  <1>3. requests > 0
    BY <1>1, <1>2 DEF Inv, PendingReadable, Readable
  <1> QED
    BY <1>3, BoundsAssumption DEF Inv, TypeOK

\* main() up to the loop: the acceptor is registered.
LEMMA StartKeeps ==
  ASSUME Inv, Start
  PROVE  Inv'
  <1>1. ~Serving /\ pending = {}
    BY DEF Inv, OneEvent, Start, Serving
  <1>2. /\ acc_fd = Nil /\ open = {} /\ epoll = {}
        /\ \A f \in Fds : event_table[f] = Nil
        /\ \A h \in Handlers : obj[h] = Nil
    BY <1>1 DEF Inv, Registry, IdleOutside
  <1>3. pending' = {} /\ obj' = obj /\ link' = link /\ cm' = cm /\ completion' = completion
        /\ requests' = requests
    BY <1>1 DEF Start, kernelVars
  <1>4. pc' \in {"wait", "failed"}
    BY DEF Start
  <1>5. NoStaleDispatch' /\ OneEvent' /\ PendingReadable'
    BY <1>3, <1>4 DEF NoStaleDispatch, OneEvent, PendingReadable
  <1>6. \A h \in Handlers, f \in Fds : ~Owns(f, h)'
    BY <1>2, <1>3 DEF Owns
  <1>7. CASE pc' = "failed" /\ UNCHANGED <<event_table, epoll, open, acc_fd>>
    <2>1. ~Serving'
      BY <1>7 DEF Serving
    <2>2. TypeOK'
      BY <1>3, <1>7 DEF Inv, TypeOK
    <2>3. SameObjects
      BY <1>3 DEF SameObjects, Inv, TypeOK
    <2>4. Registry'
      BY <1>1, <1>7, <2>1, <2>3, SameKeeps DEF Inv
    <2> QED
      BY <1>5, <2>2, <2>4 DEF Inv
  <1>8. ASSUME NEW fd \in Fds,
               LET R == register_handler(R0, fd, Acceptor, "ACCEPT_EVENT", "ok") IN
               /\ event_table' = R.table /\ epoll' = R.epoll
               /\ pc' = "wait" /\ open' = {fd} /\ acc_fd' = fd
        PROVE  Inv'
    <2> DEFINE e == [type |-> "ACCEPT_EVENT", handler |-> Acceptor]
    <2>1. e \in EventHandle /\ e.handler = Acceptor
      BY DEF EventHandle, EventType
    <2>2. event_table' = [event_table EXCEPT ![fd] = e] /\ epoll' = {fd}
      BY <1>2, <1>8, Zenon DEF register_handler, R0
    <2> HIDE DEF e
    <2>3. e # Nil
      BY <2>1, NilAssumption
    <2>4. TypeOK'
      BY <1>3, <1>8, <2>1, <2>2, ZenonT(40) DEF Inv, TypeOK
    <2>5. event_table'[fd] = e /\ \A f \in Fds : f # fd => event_table'[f] = Nil
      BY <1>2, <2>2 DEF Inv, TypeOK
    <2>6. EpollMatchesTable'
      BY <2>2, <2>3, <2>5 DEF EpollMatchesTable
    <2>7. RegistrationsExact'
      BY <1>2, <1>3, <1>8, <2>1, <2>5 DEF RegistrationsExact, Owner, e
    <2>8. DescriptorsExact'
      BY <1>6, <1>8 DEF DescriptorsExact
    <2>9. IdleOutside' /\ Distinct'
      BY <1>2, <1>3, <1>8 DEF IdleOutside, Distinct, Serving
    <2> QED
      BY <1>5, <2>4, <2>6, <2>7, <2>8, <2>9 DEF Inv, Registry
  <1> QED
    BY <1>7, <1>8 DEF Start

\* epoll_wait reports a readable descriptor of the epoll set.
LEMMA EpollWaitKeeps ==
  ASSUME Inv, EpollWait
  PROVE  Inv'
  <1>1. PICK fd \in epoll : Readable(fd) /\ pending' = {fd}
    BY DEF EpollWait, epoll_wait
  <1>2. fd \in Fds /\ event_table[fd] # Nil
    BY <1>1 DEF Inv, Registry, EpollMatchesTable
  <1>3. /\ pc = "wait" /\ pc' = "dispatch"
        /\ UNCHANGED <<acc_fd, event_table, epoll, open, obj, link, cm, completion, requests>>
    BY DEF EpollWait, reactorVars, kernelVars
  <1>4. TypeOK'
    BY <1>1, <1>2, <1>3 DEF Inv, TypeOK
  <1>5. Registry'
    <2>1. SameObjects
      BY <1>3 DEF SameObjects, Inv, TypeOK
    <2> QED
      BY <1>3, <2>1, SameKeeps DEF Inv, Serving
  <1>6. NoStaleDispatch'
    <2>1. Owner(fd) \in Handlers => obj[Owner(fd)] # Nil
      BY <1>2, EntryOwner, ObjectsAssumption DEF Inv, Owns
    <2> QED
      BY <1>1, <1>2, <1>3, <2>1 DEF NoStaleDispatch, Owner
  <1>7. OneEvent'
    BY <1>1, <1>2, <1>3 DEF OneEvent
  <1>8. PendingReadable'
    BY <1>1, <1>3 DEF PendingReadable, Readable
  <1> QED
    BY <1>4, <1>5, <1>6, <1>7, <1>8 DEF Inv

\* An event that arrives makes more descriptors readable and nothing else.
LEMMA KernelKeeps ==
  ASSUME Inv, Kernel
  PROVE  Inv'
  <1>1. /\ UNCHANGED <<pc, pending, acc_fd, event_table, epoll, open, obj>>
        /\ requests' \in 0..Backlog /\ requests' >= requests
        /\ completion \subseteq completion' /\ completion' \subseteq Handlers
        /\ cm' \in [Handlers -> Seq(ConnEvent)]
        /\ \A h \in Handlers : cm[h] # << >> => cm'[h] # << >>
        /\ link' \in [Handlers -> LinkState]
    <2>1. CASE ConnectionRequest
      BY <2>1, BoundsAssumption DEF ConnectionRequest, reactorVars, Inv, TypeOK
    <2>2. ASSUME NEW h \in Handlers, CompletionArrives(h)
          PROVE  <1>1!:
      BY <2>2 DEF CompletionArrives, reactorVars, Inv, TypeOK
    <2>3. ASSUME NEW h \in Handlers, NEW e \in ConnEvent,
                 NEW l \in LinkState, CmEvent(h, e, l)
          PROVE  <1>1!:
      <3>1. Append(cm[h], e) \in Seq(ConnEvent) /\ Append(cm[h], e) # << >>
        <4>1. cm[h] \in Seq(ConnEvent)
          BY DEF Inv, TypeOK
        <4> QED
          BY <2>3, <4>1, AppendProperties
      <3> QED
        BY <2>3, <3>1 DEF CmEvent, reactorVars, Inv, TypeOK
    <2>4. ASSUME NEW h \in Handlers, LinkUp(h) \/ LinkOdd(h) \/ LinkDown(h) \/ TimewaitExit(h)
          PROVE  \E e \in ConnEvent, l \in LinkState : CmEvent(h, e, l)
      BY <2>4 DEF LinkUp, LinkOdd, LinkDown, TimewaitExit, ConnEvent, LinkState
    <2> QED
      BY <2>1, <2>2, <2>3, <2>4 DEF Kernel
  <1>2. TypeOK'
    BY <1>1 DEF Inv, TypeOK
  <1>3. Registry'
    <2>1. SameObjects
      BY <1>1 DEF SameObjects, Inv, TypeOK
    <2> QED
      BY <1>1, <2>1, SameKeeps DEF Inv, Serving
  <1>4. NoStaleDispatch' /\ OneEvent'
    BY <1>1 DEF Inv, NoStaleDispatch, OneEvent, Owner
  <1>5. PendingReadable'
    <2>1. requests \in Nat /\ requests' \in Nat
      BY <1>1, BoundsAssumption DEF Inv, TypeOK
    <2> QED
      BY <1>1, <2>1 DEF Inv, PendingReadable, Readable
  <1> QED
    BY <1>2, <1>3, <1>4, <1>5, ZenonT(40) DEF Inv

\* A handler that changes no registration and no object but its flags.
LEMMA FlagsKeep ==
  ASSUME Inv, NEW fd \in Fds, NEW et \in EventType, Dispatching(fd, et), Handled(fd),
         UNCHANGED <<event_table, epoll, open>>, SameObjects,
         link' \in [Handlers -> LinkState], cm' \in [Handlers -> Seq(ConnEvent)],
         completion' \subseteq Handlers, requests' \in 0..Backlog
  PROVE  Inv'
  <1>1. /\ pc' = "wait" /\ pending' = {} /\ acc_fd' = acc_fd /\ Serving /\ Serving'
        /\ NoStaleDispatch' /\ OneEvent' /\ PendingReadable'
    BY BackToWait
  <1>2. TypeOK'
    BY <1>1 DEF Inv, TypeOK, SameObjects
  <1>3. Registry'
    BY <1>1, SameKeeps DEF Inv
  <1> QED
    BY <1>1, <1>2, <1>3 DEF Inv

\* A disconnect sets a flag, and the connection may be on its way down.
LEMMA DisconnectIs ==
  ASSUME TypeOK, NEW h \in Handlers, disconnect(h)
  PROVE  /\ obj' = [obj EXCEPT ![h].disconnected = TRUE]
         /\ link' \in [Handlers -> LinkState]
  <1>1. link' = link \/ link' = [link EXCEPT ![h] = "closing"]
    BY DEF disconnect
  <1>2. link \in [Handlers -> LinkState] /\ "closing" \in LinkState
    BY DEF TypeOK, LinkState
  <1> QED
    BY <1>1, <1>2 DEF disconnect

\* A flag of one live handler is set.
LEMMA FlagSet ==
  ASSUME TypeOK, NEW h \in Handlers, obj[h] \in HandlerObj,
         \/ obj' = obj
         \/ obj' = [obj EXCEPT ![h].disconnected = TRUE]
         \/ obj' = [obj EXCEPT ![h].connected = TRUE]
  PROVE  SameObjects
  <1> DEFINE d == [obj[h] EXCEPT !.disconnected = TRUE]
             c == [obj[h] EXCEPT !.connected = TRUE]
  <1>1. /\ d \in HandlerObj /\ d.conn_fd = obj[h].conn_fd /\ d.comp_fd = obj[h].comp_fd
        /\ c \in HandlerObj /\ c.conn_fd = obj[h].conn_fd /\ c.comp_fd = obj[h].comp_fd
    BY Zenon DEF HandlerObj
  <1>2. obj' = obj \/ obj' = [obj EXCEPT ![h] = d] \/ obj' = [obj EXCEPT ![h] = c]
    OBVIOUS
  <1> HIDE DEF d, c
  <1>3. d # Nil /\ c # Nil /\ obj[h] # Nil
    BY <1>1, NilAssumption
  <1> QED
    BY <1>1, <1>2, <1>3, Zenon DEF TypeOK, SameObjects

\* Reading a CM event.
LEMMA TailKeeps ==
  ASSUME TypeOK, NEW h \in Handlers, cm[h] # << >>, cm' = [cm EXCEPT ![h] = Tail(@)]
  PROVE  cm' \in [Handlers -> Seq(ConnEvent)]
  <1>1. cm[h] \in Seq(ConnEvent)
    BY DEF TypeOK
  <1>2. Tail(cm[h]) \in Seq(ConnEvent)
    BY <1>1, HeadTailProperties, ZenonT(40)
  <1> QED
    BY <1>2 DEF TypeOK

\* AcceptorHandler::handle, in all its outcomes.
LEMMA AcceptStep ==
  ASSUME Inv, NEW fd \in Fds, Accept(fd)
  PROVE  Inv'
  <1>1. Dispatching(fd, "ACCEPT_EVENT") /\ Handled(fd) /\ "ACCEPT_EVENT" \in EventType
    BY DEF Accept, EventType
  <1>2. /\ pc' = "wait" /\ pending' = {} /\ acc_fd' = acc_fd /\ Serving /\ Serving'
        /\ NoStaleDispatch' /\ OneEvent' /\ PendingReadable'
    BY <1>1, BackToWait
  <1>3. requests' \in 0..Backlog
    <2>1. requests \in 1..Backlog /\ requests' = requests - 1
      BY <1>1, RequestThere, ZenonT(40) DEF Accept
    <2> QED
      BY <2>1, BoundsAssumption
  <1>4. /\ completion' \subseteq completion
        /\ cm' \in [Handlers -> Seq(ConnEvent)]
        /\ link' \in [Handlers -> LinkState]
    BY AcceptEffect DEF Inv
  <1>5. CASE UNCHANGED <<event_table, epoll, open, obj>>
    <2>1. TypeOK' /\ SameObjects
      BY <1>2, <1>3, <1>4, <1>5 DEF Inv, TypeOK, SameObjects
    <2>2. Registry'
      BY <1>2, <1>5, <2>1, SameKeeps DEF Inv
    <2> QED
      BY <1>2, <2>1, <2>2 DEF Inv
  <1>6. ASSUME NEW h \in Handlers, NEW f \in Fds \ open, NEW g \in Fds \ open,
               obj[h] = Nil, f # g, AcceptAdds(h, f, g)
        PROVE  Inv'
    <2>1. /\ event_table' \in [Fds -> EventHandle \cup {Nil}] /\ epoll' \subseteq Fds
          /\ open' \subseteq Fds
      BY <1>6, ZenonT(40) DEF AcceptAdds, Added, R0, Inv, TypeOK, EventHandle, EventType
    <2>2. obj' \in [Handlers -> HandlerObj \cup {Nil}]
      BY <1>6, ZenonT(40) DEF AcceptAdds, Inv, TypeOK, HandlerObj
    <2>3. TypeOK'
      BY <1>2, <1>3, <1>4, <2>1, <2>2 DEF Inv, TypeOK
    <2>4. Registry'
      BY <1>2, <1>6, AcceptKeeps DEF Inv
    <2> QED
      BY <1>2, <2>3, <2>4 DEF Inv
  <1> QED
    BY <1>5, <1>6, AcceptEffect DEF Inv

\* ConnectionHandler::handle_connection_event for CLOSED and LOST.
LEMMA ClosedStep ==
  ASSUME Inv, NEW fd \in Fds, Closed(fd)
  PROVE  Inv'
  <1>1. Dispatching(fd, "CONNECTION_EVENT") /\ Handled(fd) /\ "CONNECTION_EVENT" \in EventType
    BY DEF Closed, EventType
  <1>2. /\ pc' = "wait" /\ pending' = {} /\ acc_fd' = acc_fd /\ Serving /\ Serving'
        /\ NoStaleDispatch' /\ OneEvent' /\ PendingReadable'
    BY <1>1, BackToWait
  <1>3. PICK h \in Handlers : obj[h] # Nil /\ Destroys(h)
    BY ClosedEffect
  <1>4. TypeOK'
    <2>1. requests' = requests /\ << >> \in Seq(ConnEvent) /\ "none" \in LinkState
      BY DEF Closed, LinkState
    <2> QED
      BY <1>2, <1>3, <2>1 DEF Inv, TypeOK, Destroys
  <1>5. Registry'
    BY <1>2, <1>3, DestroyKeeps DEF Inv
  <1> QED
    BY <1>2, <1>4, <1>5 DEF Inv

\* Handling any event.
LEMMA HandleKeeps ==
  ASSUME Inv, NEW fd \in Fds, Handle(fd)
  PROVE  Inv'
  <1> DEFINE h == Owner(fd)
  <1>1. /\ cm \in [Handlers -> Seq(ConnEvent)] /\ completion \subseteq Handlers
        /\ requests \in 0..Backlog /\ TypeOK
    BY DEF Inv, TypeOK
  <1>2. CASE AcceptThrows(fd)
    <2>1. Dispatching(fd, "ACCEPT_EVENT") /\ Handled(fd) /\ "ACCEPT_EVENT" \in EventType
      BY <1>2 DEF AcceptThrows, EventType
    <2>2. requests' \in 0..Backlog
      <3>1. requests \in 1..Backlog /\ requests' \in {requests, requests - 1}
        BY <1>2, <2>1, RequestThere DEF AcceptThrows
      <3> QED
        BY <3>1, BoundsAssumption
    <2>3. UNCHANGED <<event_table, epoll, open, obj, link, cm, completion>>
      BY <1>2 DEF AcceptThrows, reactorVars
    <2>4. SameObjects /\ link' \in [Handlers -> LinkState] /\ cm' \in [Handlers -> Seq(ConnEvent)]
          /\ completion' \subseteq Handlers
      BY <2>3 DEF Inv, TypeOK, SameObjects
    <2> QED
      BY <2>1, <2>2, <2>3, <2>4, FlagsKeep
  <1>3. CASE Accept(fd)
    BY <1>3, AcceptStep
  <1>4. CASE NoEvent(fd)
    <2>1. Dispatching(fd, "CONNECTION_EVENT") /\ Handled(fd) /\ "CONNECTION_EVENT" \in EventType
      BY <1>4 DEF NoEvent, EventType
    <2>2. UNCHANGED <<event_table, epoll, open, obj, link, cm, completion, requests>>
      BY <1>4 DEF NoEvent, reactorVars, kernelVars
    <2>3. SameObjects /\ link' \in [Handlers -> LinkState] /\ cm' \in [Handlers -> Seq(ConnEvent)]
          /\ completion' \subseteq Handlers /\ requests' \in 0..Backlog
      BY <2>2 DEF Inv, TypeOK, SameObjects
    <2> QED
      BY <2>1, <2>2, <2>3, FlagsKeep
  <1>5. CASE NextEventFails(fd) \/ Established(fd)
    <2>1. Dispatching(fd, "CONNECTION_EVENT") /\ Handled(fd) /\ "CONNECTION_EVENT" \in EventType
      BY <1>5 DEF NextEventFails, Established, EventType
    <2>2. h \in Handlers /\ obj[h] \in HandlerObj /\ cm[h] # << >>
      BY <2>1, DispatchedHandler
    <2>3. /\ UNCHANGED <<event_table, epoll, open, completion, requests>>
          /\ cm' = cm \/ cm' = [cm EXCEPT ![h] = Tail(@)]
          /\ disconnect(h) \/ (obj' = [obj EXCEPT ![h].connected = TRUE] /\ link' = link)
      BY <1>5 DEF NextEventFails, Established
    <2> HIDE DEF h
    <2>4. cm' \in [Handlers -> Seq(ConnEvent)]
      BY <1>1, <2>2, <2>3, TailKeeps
    <2>5. SameObjects /\ link' \in [Handlers -> LinkState]
      <3>1. CASE disconnect(h)
        BY <1>1, <2>2, <3>1, DisconnectIs, FlagSet
      <3>2. CASE obj' = [obj EXCEPT ![h].connected = TRUE] /\ link' = link
        BY <1>1, <2>2, <3>2, FlagSet DEF TypeOK
      <3> QED
        BY <2>3, <3>1, <3>2
    <2> QED
      BY <1>1, <2>1, <2>3, <2>4, <2>5, FlagsKeep
  <1>6. CASE Closed(fd)
    BY <1>6, ClosedStep
  <1>7. CASE Completion(fd)
    <2>1. Dispatching(fd, "COMPLETION_EVENT") /\ Handled(fd) /\ "COMPLETION_EVENT" \in EventType
      BY <1>7 DEF Completion, EventType
    <2>2. h \in Handlers /\ obj[h] \in HandlerObj
      BY <2>1, DispatchedHandler
    <2>3. /\ UNCHANGED <<event_table, epoll, open, cm, requests>>
          /\ completion' \subseteq completion
          /\ disconnect(h) \/ (obj' = obj /\ link' = link)
      BY <1>7 DEF Completion
    <2> HIDE DEF h
    <2>4. SameObjects /\ link' \in [Handlers -> LinkState]
      <3>1. CASE disconnect(h)
        BY <1>1, <2>2, <3>1, DisconnectIs, FlagSet
      <3>2. CASE obj' = obj /\ link' = link
        BY <1>1, <2>2, <3>2, FlagSet DEF TypeOK
      <3> QED
        BY <2>3, <3>1, <3>2
    <2> QED
      BY <1>1, <2>1, <2>3, <2>4, FlagsKeep
  <1>8. CASE CompletionThrows(fd)
    BY <1>8, ExitKeeps
  <1> QED
    BY <1>2, <1>3, <1>4, <1>5, <1>6, <1>7, <1>8 DEF Handle

\* The invariant holds in every reachable state: main() starts with empty
\* tables, and each handler, each kernel event and the exit preserve it.
THEOREM Invariant == Spec => []Inv
  <1>1. Init => Inv
    <2>1. SUFFICES ASSUME Init PROVE Inv
      OBVIOUS
    <2>2. TypeOK
      <3>1. << >> \in Seq(ConnEvent) /\ 0 \in 0..Backlog
        BY BoundsAssumption
      <3> QED
        BY <2>1, <3>1 DEF Init, TypeOK, LinkState
    <2>3. Registry
      BY <2>1, ObjectsAssumption
         DEF Init, Registry, EpollMatchesTable, RegistrationsExact, DescriptorsExact, Owns,
             IdleOutside, Distinct, Serving
    <2>4. NoStaleDispatch /\ OneEvent /\ PendingReadable
      BY <2>1 DEF Init, NoStaleDispatch, OneEvent, PendingReadable
    <2> QED
      BY <2>2, <2>3, <2>4 DEF Inv
  <1>2. Inv /\ [Next]_vars => Inv'
    <2>1. ASSUME Inv, UNCHANGED vars PROVE Inv'
      <3>1. TypeOK'
        BY <2>1, Zenon DEF vars, Inv, TypeOK
      <3>2. Registry'
        BY <2>1, ZenonT(40) DEF vars, Inv, Registry, EpollMatchesTable, RegistrationsExact, Owner, Owns,
                    DescriptorsExact, IdleOutside, Distinct, Serving
      <3>3. NoStaleDispatch' /\ OneEvent'
        BY <2>1, ZenonT(40) DEF vars, Inv, NoStaleDispatch, Owner, OneEvent
      <3>4. PendingReadable'
        BY <2>1 DEF vars, Inv, PendingReadable, Readable
      <3> QED
        BY <3>1, <3>2, <3>3, <3>4 DEF Inv
    <2> QED
      BY <2>1, StartKeeps, EpollWaitKeeps, HandleKeeps, KernelKeeps, ZenonT(40)
         DEF Next, EpollTimeout, Stopped
  <1> QED
    BY <1>1, <1>2, PTL DEF Spec

\* Type correctness of the server process.
THEOREM TypesCorrect == Spec => []TypeOK
  <1>1. Inv => TypeOK
    BY DEF Inv
  <1> QED
    BY <1>1, Invariant, PTL

\* handle_events never follows a dangling event.data.ptr: with maxevents = 1
\* nothing runs between epoll_wait and the dispatch that could erase the entry.
THEOREM DispatchIsSafe == Spec => []NoStaleDispatch
  <1>1. Inv => NoStaleDispatch
    BY DEF Inv
  <1> QED
    BY <1>1, Invariant, PTL

\* The epoll set and event_table agree, whatever registration calls fail.
THEOREM EpollIsTable == Spec => []EpollMatchesTable
  <1>1. Inv => EpollMatchesTable
    BY DEF Inv, Registry
  <1> QED
    BY <1>1, Invariant, PTL

\* register_self is all or nothing and remove_self complete, for any number of
\* connections and any reuse of descriptors.
THEOREM RegistrationIsExact == Spec => []RegistrationsExact
  <1>1. Inv => RegistrationsExact
    BY DEF Inv, Registry
  <1> QED
    BY <1>1, Invariant, PTL

\* No descriptor leaks, none is shared by two handlers.
THEOREM NoDescriptorLeaks == Spec => []DescriptorsExact
  <1>1. Inv => DescriptorsExact
    BY DEF Inv, Registry
  <1> QED
    BY <1>1, Invariant, PTL
=============================================================================
