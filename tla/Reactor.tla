------------------------------- MODULE Reactor -------------------------------
(***************************************************************************)
(* The server process: the epoll reactor (Reactor.cc), the acceptor and    *)
(* the lifetime of one RPMAHandler object per connection (EventOp.cc), and *)
(* main() of server.cc.  The process has one thread; what interleaves with *)
(* it is the kernel: connection requests, connection manager (CM) events   *)
(* and completion notifications that arrive between any two of its steps.  *)
(*                                                                         *)
(* An RPMAHandler is owned by the shared_ptrs of event_table and nothing   *)
(* else once AcceptorHandler::handle has returned, so registering,         *)
(* removing and destroying are one story: erasing the last entry runs the  *)
(* destructor, which closes the descriptors, whose numbers are then reused.*)
(***************************************************************************)
EXTENDS Naturals, Sequences, FiniteSets

CONSTANTS Handlers,   \* addresses at which RPMAHandler objects can live
          Fds,        \* file descriptor numbers
          Acceptor,   \* the AcceptorHandler object
          Nil,        \* nullptr, "no entry", "no descriptor"
          Backlog,    \* bound: connection requests pending at the endpoint
          CmBound     \* bound: CM events pending at one connection

ASSUME ObjectsAssumption == Acceptor \notin Handlers /\ Nil \notin Fds
ASSUME BoundsAssumption == Backlog \in Nat /\ CmBound \in Nat

VARIABLES
  pc,           \* main(): "start", "wait" (epoll_wait), "dispatch", "failed", "exited"
  pending,      \* descriptors whose event epoll_wait returned, not yet handled
  event_table,  \* Reactor::event_table: fd -> EventHandle
  epoll,        \* kernel: descriptors in the epoll set (data.ptr = the entry of fd)
  open,         \* kernel: open descriptors
  acc_fd,       \* AcceptorHandler::_fd
  obj,          \* RPMAHandler objects on the heap, Nil where there is none
  link,         \* kernel: state of the RDMA connection of each handler
  cm,           \* kernel: CM events not yet read by rpma_conn_next_event
  completion,   \* kernel: handlers whose completion channel is readable
  requests      \* kernel: connection requests not yet taken by the acceptor

reactorVars == <<event_table, epoll, open, obj>>
kernelVars  == <<link, cm, completion, requests>>
vars == <<pc, pending, event_table, epoll, open, acc_fd, obj, link, cm, completion, requests>>

EventType   == {"ACCEPT_EVENT", "CONNECTION_EVENT", "COMPLETION_EVENT"}
EventHandle == [type : EventType, handler : Handlers \cup {Acceptor}]
HandlerObj  == [conn_fd : Fds, comp_fd : Fds, disconnected : BOOLEAN, connected : BOOLEAN]
ConnEvent   == {"ESTABLISHED", "UNEXPECTED", "CLOSED", "LOST"}
\* "closing": a disconnect was asked for; "closed": TIMEWAIT_EXIT is still to come.
LinkState   == {"none", "connecting", "established", "closing", "closed", "timewait", "lost"}

ASSUME NilAssumption == Nil \notin EventHandle /\ Nil \notin HandlerObj

-----------------------------------------------------------------------------
(* Reactor.  A reactor state R is a record of event_table and the epoll    *)
(* set; res is what the system calls of one registration return.           *)

CallResult == {"ok", "fcntl_failed", "epoll_ctl_failed"}

R0 == [table |-> event_table, epoll |-> epoll]

\* Mutation of register_handler: a failed EPOLL_CTL_ADD keeps the entry.
register_handler_keeps(R, fd, eh, et, res) ==
  IF res = "fcntl_failed" THEN R
  ELSE [table |-> [R.table EXCEPT ![fd] = [type |-> et, handler |-> eh]],
        epoll |-> IF res = "ok" THEN R.epoll \cup {fd} ELSE R.epoll]

\* emplace + overwrite, then EPOLL_CTL_ADD, which also fails when fd is
\* already in the epoll set; a failed ADD erases the entry again.
register_handler(R, fd, eh, et, res) ==
  CASE res = "fcntl_failed" -> R
    [] res = "ok" /\ fd \notin R.epoll ->
         [table |-> [R.table EXCEPT ![fd] = [type |-> et, handler |-> eh]],
          epoll |-> R.epoll \cup {fd}]
    [] OTHER -> [table |-> [R.table EXCEPT ![fd] = Nil], epoll |-> R.epoll]

registered(R, fd, res) == res = "ok" /\ fd \notin R.epoll

\* EPOLL_CTL_DEL, then erase.
remove_handler(R, fd) == [table |-> [R.table EXCEPT ![fd] = Nil], epoll |-> R.epoll \ {fd}]

-----------------------------------------------------------------------------
(* RPMAHandler: registration, removal, destruction.                        *)

\* Mutation of register_self: no roll-back when the second registration fails.
register_self_half(R, h, o, res1, res2) ==
  LET R1 == register_handler(R, o.conn_fd, h, "CONNECTION_EVENT", res1)
  IN IF ~registered(R, o.conn_fd, res1) THEN R1
     ELSE register_handler(R1, o.comp_fd, h, "COMPLETION_EVENT", res2)

register_self(R, h, o, res1, res2) ==
  LET R1 == register_handler(R, o.conn_fd, h, "CONNECTION_EVENT", res1)
      R2 == register_handler(R1, o.comp_fd, h, "COMPLETION_EVENT", res2)
  IN IF ~registered(R, o.conn_fd, res1) THEN R1
     ELSE IF ~registered(R1, o.comp_fd, res2) THEN remove_handler(R2, o.conn_fd)
     ELSE R2

\* Mutation of remove_self: the completion descriptor stays registered.
remove_self_half(R, o) == remove_handler(R, o.conn_fd)

remove_self(R, o) == remove_handler(remove_handler(R, o.conn_fd), o.comp_fd)

Referenced(R, h) == \E fd \in Fds : R.table[fd] # Nil /\ R.table[fd].handler = h

\* Mutation of ClosedFds: ~RpmaConn returns early after a disconnect.
ClosedFdsEarly(o) == IF o.disconnected THEN {} ELSE {o.conn_fd, o.comp_fd}

\* ~RpmaConn: rpma_conn_delete closes both descriptors of the connection.
ClosedFds(o) == {o.conn_fd, o.comp_fd}

\* The object o at address h after its handler code left the reactor in state
\* R with descriptors fds open: the last shared_ptr gone, ~RPMAHandler runs and
\* the kernel drops what it kept for the connection (closing a descriptor takes
\* it out of epoll).
Settle(R, h, o, fds, evts, lnk) ==
  LET dead == ~Referenced(R, h)
  IN /\ event_table' = R.table
     /\ epoll' = IF dead THEN R.epoll \ ClosedFds(o) ELSE R.epoll
     /\ open' = IF dead THEN fds \ ClosedFds(o) ELSE fds
     /\ obj' = [obj EXCEPT ![h] = IF dead THEN Nil ELSE o]
     /\ completion' = IF dead THEN completion \ {h} ELSE completion
     /\ cm' = [cm EXCEPT ![h] = IF dead THEN << >> ELSE evts]
     /\ link' = [link EXCEPT ![h] = IF dead THEN "none" ELSE lnk]

-----------------------------------------------------------------------------
(* main() and the event loop.                                              *)

Init == /\ pc = "start" /\ pending = {} /\ open = {} /\ epoll = {} /\ acc_fd = Nil
        /\ event_table = [fd \in Fds |-> Nil]
        /\ obj = [h \in Handlers |-> Nil]
        /\ link = [h \in Handlers |-> "none"]
        /\ cm = [h \in Handlers |-> << >>]
        /\ completion = {} /\ requests = 0

\* AcceptorHandler() and its register_self(); main gives up if either fails.
Start ==
  /\ pc = "start"
  /\ \/ \E fd \in Fds :
          LET R == register_handler(R0, fd, Acceptor, "ACCEPT_EVENT", "ok") IN
          /\ event_table' = R.table /\ epoll' = R.epoll
          /\ pc' = "wait" /\ open' = {fd} /\ acc_fd' = fd
     \/ pc' = "failed" /\ UNCHANGED <<event_table, epoll, open, acc_fd>>
  /\ UNCHANGED <<pending, obj, kernelVars>>

Readable(fd) ==
  \/ fd = acc_fd /\ requests > 0
  \/ \E h \in Handlers : obj[h] # Nil /\ fd = obj[h].conn_fd /\ cm[h] # << >>
  \/ \E h \in Handlers : obj[h] # Nil /\ fd = obj[h].comp_fd /\ h \in completion

\* Mutation of epoll_wait: maxevents is 2.
epoll_wait_two(ready) == {S \in SUBSET ready : Cardinality(S) \in 1..2}

\* What one epoll_wait call may return: maxevents is 1.
epoll_wait(ready) == {{fd} : fd \in ready}

EpollWait ==
  /\ pc = "wait"
  /\ pending' \in epoll_wait({fd \in epoll : Readable(fd)})
  /\ pc' = "dispatch"
  /\ UNCHANGED <<acc_fd, reactorVars, kernelVars>>

\* 1500 s without an event: handle_events returns 0 and main calls it again.
EpollTimeout == pc = "wait" /\ UNCHANGED vars

\* The loop goes on with the rest of what epoll_wait returned, then waits.
Handled(fd) ==
  /\ pending' = pending \ {fd}
  /\ pc' = IF pending' = {} THEN "wait" ELSE "dispatch"
  /\ UNCHANGED acc_fd

Dispatching(fd, et) == pc = "dispatch" /\ fd \in pending
                       /\ event_table[fd] # Nil /\ event_table[fd].type = et

\* The RPMAHandler constructor throws before or after it took the request; the
\* acceptor catches it and carries on.
AcceptThrows(fd) ==
  /\ Dispatching(fd, "ACCEPT_EVENT") /\ Handled(fd)
  /\ requests' \in {requests, requests - 1}
  /\ UNCHANGED <<reactorVars, link, cm, completion>>

\* Mutation of init_conn_fd: a failing call leaves the descriptor unset.
init_conn_fd_unchecked == (Fds \ open) \cup {Nil}

\* The constructor throws unless it gets both descriptors, which are new.
init_conn_fd == Fds \ open

\* A handler is built with two new descriptors and registers itself; the
\* result of register_self is ignored and the local shared_ptr goes away.
Accept(fd) ==
  /\ Dispatching(fd, "ACCEPT_EVENT") /\ Handled(fd)
  /\ requests' = requests - 1
  /\ \E h \in Handlers, f, g \in init_conn_fd, res1, res2 \in CallResult :
       LET o == [conn_fd |-> f, comp_fd |-> g, disconnected |-> FALSE, connected |-> FALSE]
           R == register_self(R0, h, o, res1, res2)
       IN /\ obj[h] = Nil /\ f # g
          /\ Settle(R, h, o, open \cup {f, g}, << >>, "connecting")

-----------------------------------------------------------------------------
(* ConnectionHandler::handle for the object that owns fd.                  *)

Owner(fd) == event_table[fd].handler

\* rpma_conn_next_event returned RPMA_E_NO_EVENT.
NoEvent(fd) ==
  /\ Dispatching(fd, "CONNECTION_EVENT") /\ Handled(fd)
  /\ UNCHANGED <<reactorVars, kernelVars>>

\* RpmaConn::disconnect: the flag is set first; rpma_conn_disconnect may fail,
\* and its result is looked at by nobody.
disconnect(h) ==
  /\ obj' = [obj EXCEPT ![h].disconnected = TRUE]
  /\ \/ UNCHANGED link
     \/ link[h] \in {"connecting", "established"} /\ link' = [link EXCEPT ![h] = "closing"]

\* rpma_conn_next_event failed: nothing was read (rdma_get_cm_event), or the
\* event, whichever it is, was read and dropped (unexpected event; no memory for
\* its private data; rdma_ack_cm_event).  The handler disconnects and stays
\* registered.
NextEventFails(fd) ==
  LET h == Owner(fd) IN
  /\ Dispatching(fd, "CONNECTION_EVENT") /\ Handled(fd)
  /\ cm' \in {cm, [cm EXCEPT ![h] = Tail(@)]}
  /\ disconnect(h)
  /\ UNCHANGED <<event_table, epoll, open, completion, requests>>

Established(fd) ==
  LET h == Owner(fd) IN
  /\ Dispatching(fd, "CONNECTION_EVENT") /\ Handled(fd)
  /\ Head(cm[h]) = "ESTABLISHED"
  /\ cm' = [cm EXCEPT ![h] = Tail(@)]
  /\ obj' = [obj EXCEPT ![h].connected = TRUE]
  /\ UNCHANGED <<event_table, epoll, open, link, completion, requests>>

\* CLOSED or LOST: remove_self erases both entries, so the object dies here.
Closed(fd) ==
  LET h == Owner(fd)
      o == [obj[h] EXCEPT !.connected = FALSE]
  IN /\ Dispatching(fd, "CONNECTION_EVENT") /\ Handled(fd)
     /\ Head(cm[h]) \in {"CLOSED", "LOST"}
     /\ Settle(remove_self(R0, o), h, o, open, Tail(cm[h]), link[h])
     /\ UNCHANGED requests

\* handle_completion returned: the notification was consumed, or not when
\* ibv_get_cq_event failed.  Completion errors disconnect.
Completion(fd) ==
  LET h == Owner(fd) IN
  /\ Dispatching(fd, "COMPLETION_EVENT") /\ Handled(fd)
  /\ completion' \in {completion, completion \ {h}}
  /\ disconnect(h) \/ UNCHANGED <<obj, link>>
  /\ UNCHANGED <<event_table, epoll, open, cm, requests>>

\* A callback threw (no memory for the replica, a request that does not
\* decode): nobody between it and main() catches it; main unwinds the acceptor
\* and the reactor, hence every handler, and returns.
CompletionThrows(fd) ==
  /\ Dispatching(fd, "COMPLETION_EVENT")
  /\ pc' = "exited" /\ pending' = {} /\ open' = {} /\ epoll' = {} /\ acc_fd' = Nil
  /\ event_table' = [f \in Fds |-> Nil]
  /\ obj' = [h \in Handlers |-> Nil]
  /\ link' = [h \in Handlers |-> "none"]
  /\ cm' = [h \in Handlers |-> << >>]
  /\ completion' = {} /\ requests' = 0

-----------------------------------------------------------------------------
(* The kernel and the peers.                                               *)

Serving == pc \in {"wait", "dispatch"}

ConnectionRequest == /\ Serving /\ requests < Backlog /\ requests' = requests + 1
                     /\ UNCHANGED <<pc, pending, acc_fd, reactorVars, link, cm, completion>>

CmEvent(h, e, l) ==
  /\ Serving /\ Len(cm[h]) < CmBound
  /\ cm' = [cm EXCEPT ![h] = Append(@, e)] /\ link' = [link EXCEPT ![h] = l]
  /\ UNCHANGED <<pc, pending, acc_fd, reactorVars, completion, requests>>

LinkUp(h)      == link[h] = "connecting" /\ CmEvent(h, "ESTABLISHED", "established")
LinkOdd(h)     == /\ link[h] \in {"connecting", "established", "closing"}
                  /\ CmEvent(h, "UNEXPECTED", link[h])
LinkDown(h)    == /\ link[h] \in {"connecting", "established", "closing"}
                  /\ CmEvent(h, "CLOSED", "closed") \/ CmEvent(h, "LOST", "lost")
TimewaitExit(h) == link[h] = "closed" /\ CmEvent(h, "CLOSED", "timewait")

CompletionArrives(h) ==
  /\ Serving /\ link[h] # "none" /\ h \notin completion
  /\ completion' = completion \cup {h}
  /\ UNCHANGED <<pc, pending, acc_fd, reactorVars, link, cm, requests>>

Handle(fd) == \/ AcceptThrows(fd) \/ Accept(fd)
              \/ NoEvent(fd) \/ NextEventFails(fd) \/ Established(fd) \/ Closed(fd)
              \/ Completion(fd) \/ CompletionThrows(fd)

Kernel == \/ ConnectionRequest
          \/ \E h \in Handlers : \/ LinkUp(h) \/ LinkOdd(h) \/ LinkDown(h) \/ TimewaitExit(h)
                                 \/ CompletionArrives(h)

Stopped == pc \in {"failed", "exited"} /\ UNCHANGED vars

Next == Start \/ EpollWait \/ EpollTimeout \/ (\E fd \in Fds : Handle(fd)) \/ Kernel \/ Stopped

Spec == Init /\ [][Next]_vars

-----------------------------------------------------------------------------
(* Fairness.  The loop never stops by itself.  epoll hands out ready       *)
(* descriptors in turn (a level-triggered one goes to the tail of the      *)
(* ready list), so no readable descriptor is passed over for ever.  A CM   *)
(* event that is there is eventually read (to be handled or dropped), not  *)
(* failed over and over.  The connection manager reports the end of a      *)
(* connection it was asked to disconnect, and the end of its time-wait.    *)

EventRead(fd) == (NextEventFails(fd) \/ Established(fd) \/ Closed(fd)) /\ cm' # cm

Fairness ==
  /\ \A fd \in Fds : /\ SF_vars(EpollWait /\ fd \in pending')
                     /\ WF_vars(Handle(fd))
                     /\ SF_vars(EventRead(fd))
  /\ \A h \in Handlers : /\ SF_vars(link[h] = "closing" /\ LinkDown(h))
                          /\ SF_vars(TimewaitExit(h))

FairSpec == Spec /\ Fairness

-----------------------------------------------------------------------------
(* Properties.                                                             *)

\* Every variable keeps its type.
TypeOK ==
  /\ pc \in {"start", "wait", "dispatch", "failed", "exited"}
  /\ pending \subseteq Fds /\ epoll \subseteq Fds /\ open \subseteq Fds
  /\ acc_fd \in Fds \cup {Nil}
  /\ event_table \in [Fds -> EventHandle \cup {Nil}]
  /\ obj \in [Handlers -> HandlerObj \cup {Nil}]
  /\ link \in [Handlers -> LinkState]
  /\ cm \in [Handlers -> Seq(ConnEvent)]
  /\ completion \subseteq Handlers /\ requests \in 0..Backlog

\* handle_events follows the raw pointer event.data.ptr: the entry it points
\* into, and the object behind the entry, exist when it is followed, although
\* handlers erase entries and die inside handle().
NoStaleDispatch ==
  \A fd \in pending : /\ event_table[fd] # Nil
                      /\ Owner(fd) \in Handlers => obj[Owner(fd)] # Nil

\* The epoll set never outlives event_table or lags behind it, whatever fails
\* in register_handler: a descriptor in the set without an entry is a dangling
\* event.data.ptr, an entry without a descriptor is a handler never called.
EpollMatchesTable == epoll = {fd \in Fds : event_table[fd] # Nil}

Owns(fd, h) == obj[h] # Nil /\ fd \in {obj[h].conn_fd, obj[h].comp_fd}

\* register_self is all or nothing and remove_self complete: each RPMAHandler
\* on the heap has exactly its two entries, with the right event types; no
\* entry belongs to a dead object or to another one's reused descriptor; the
\* acceptor stays registered while the server runs.
RegistrationsExact ==
  /\ \A h \in Handlers : obj[h] # Nil =>
       /\ event_table[obj[h].conn_fd] = [type |-> "CONNECTION_EVENT", handler |-> h]
       /\ event_table[obj[h].comp_fd] = [type |-> "COMPLETION_EVENT", handler |-> h]
  /\ \A fd \in Fds : event_table[fd] # Nil =>
       IF Owner(fd) = Acceptor THEN fd = acc_fd ELSE Owns(fd, Owner(fd))
  /\ Serving => event_table[acc_fd] = [type |-> "ACCEPT_EVENT", handler |-> Acceptor]

\* No descriptor leaks and none is closed twice: the open descriptors are
\* those of the endpoint and of the live handlers, each owned by one of them.
DescriptorsExact ==
  /\ \A fd \in Fds : fd \in open <=> (fd = acc_fd \/ \E h \in Handlers : Owns(fd, h))
  /\ \A h, k \in Handlers, fd \in Fds : Owns(fd, h) => fd # acc_fd /\ (Owns(fd, k) => k = h)

\* Every event that reports the end of the connection was read and dropped, and
\* none is to come: nothing will wake the handler again.
Unheard(h) == link[h] \in {"timewait", "lost"} /\ cm[h] = << >>

\* A connection that was closed or lost, or that the handler asked to disconnect
\* after a failed call, is given up: its handler is destroyed (or the server has
\* exited), even if the event that says so is dropped once, because the end of
\* the time-wait is reported too.  The handler stays only if both are dropped, or
\* the one event of a lost connection.
ClosedIsReleased ==
  \A h \in Handlers :
    (obj[h] # Nil /\ link[h] \in {"closing", "closed", "lost"})
      ~> (obj[h] = Nil \/ pc = "exited" \/ Unheard(h))
=============================================================================
