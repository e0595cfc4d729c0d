-------------------------- MODULE ConnectionHandler --------------------------
(***************************************************************************)
(* What every connection handler shares (ConnectionHandler of EventOp.cc,  *)
(* RpmaOp.h): the RpmaOp objects whose addresses travel through the        *)
(* network card as op_context, the callback_table that owns them, and      *)
(* handle_completion.  RPMAHandler and ClientHandler extend this module.   *)
(*                                                                         *)
(* The queues of the card (librpma over verbs) are external.  A receive is *)
(* taken from an unordered set, sends finish in order, and completions are *)
(* read in order.  A completion raises a notification only if the queue is *)
(* armed, which disarms it.                                                *)
(***************************************************************************)
EXTENDS Naturals, Sequences, FiniteSets

CONSTANTS Ops,          \* addresses at which RpmaOp objects can live
          Nullptr,      \* a null op_context
          Free,         \* no object at this address
          RearmSees,    \* does re-arming report completions that are already queued?
          SqSize,       \* capacity of the send queue
          CqSize        \* bound: completions the card queues before they are read

ASSUME QueuesAssumption == RearmSees \in BOOLEAN /\ SqSize \in Nat /\ CqSize \in Nat

VARIABLES
  op,              \* heap: the callback of the RpmaOp at each address, or Free
  callback_table,  \* ConnectionHandler::callback_table
  rq, sq,          \* card: op_contexts of posted receives and sends
  cq,              \* card: completions not yet read
  armed,           \* card: the next completion raises a notification
  notified,        \* the completion channel is readable
  step,            \* where the event loop is: "epoll", or "get" inside handle_completion
  disconnected,    \* RpmaConn::disconnected
  link             \* card: "up" or "closed"

queueVars == <<rq, sq, cq, armed, notified>>
chVars == <<op, callback_table, rq, sq, cq, armed, notified, step, disconnected, link>>

Context    == Ops \cup {Nullptr}
Completion == [ctx : Context, status : {"success", "error"}]
Callback   == {"none", "deal_require",                  \* of the server
               "init", "finish", "write", "flush",        \* of the client
               "stale_init", "stale_finish"}              \* of a call that has returned

ASSUME OpsAssumption == Nullptr \notin Ops /\ Free \notin Callback

Allocated == {o \in Ops : op[o] # Free}

-----------------------------------------------------------------------------
(* Posting.  H is a record of the heap, callback_table and the two queues; *)
(* ok says whether the card took the request.                              *)

H0 == [op |-> op, table |-> callback_table, rq |-> rq, sq |-> sq]

\* Mutation of recv: the op is not entered into callback_table.
recv_unlisted(H, o, callback, ok) ==
  IF ok THEN [H EXCEPT !.op[o] = callback, !.rq = @ \cup {o}] ELSE H

\* recv(): the op joins callback_table once it is posted, and is freed if not.
recv(H, o, callback, ok) ==
  IF ok THEN [op |-> [H.op EXCEPT ![o] = callback], table |-> H.table \cup {o},
              rq |-> H.rq \cup {o}, sq |-> H.sq]
  ELSE H

\* A full send queue takes nothing.
CanSend(H) == Len(H.sq) < SqSize

\* Mutations of send: the posted op is freed when send() returns; an op that
\* was not posted is kept.
send_unreleased(H, o, callback, ok) ==
  IF ok /\ CanSend(H) THEN [H EXCEPT !.sq = Append(@, o)] ELSE H
send_leaks(H, o, callback, ok) ==
  [H EXCEPT !.op[o] = callback, !.table = @ \cup {o},
            !.sq = IF ok /\ CanSend(H) THEN Append(@, o) ELSE @]

\* send(): the same for the send queue.
send(H, o, callback, ok) ==
  IF ok /\ CanSend(H)
  THEN [op |-> [H.op EXCEPT ![o] = callback], table |-> H.table \cup {o},
        rq |-> H.rq, sq |-> Append(H.sq, o)]
  ELSE H

\* rpma_send with a null context.
rpma_send(H, ok) == IF ok /\ CanSend(H) THEN [H EXCEPT !.sq = Append(@, Nullptr)] ELSE H

\* The unique_ptr of handle_completion: erase before, delete after the callback.
erase(H, o)  == [H EXCEPT !.table = @ \ {o}]
delete(H, o) == [H EXCEPT !.op = [@ EXCEPT ![o] = Free]]

SetHeap(H) == op' = H.op /\ callback_table' = H.table /\ rq' = H.rq /\ sq' = H.sq

-----------------------------------------------------------------------------
(* handle_completion, in the two calls between which the card may act.     *)

disconnect == disconnected' = TRUE

\* Mutation of completion_wait: the queue is not armed again.
completion_wait_unarmed == notified' = FALSE /\ armed' = armed

\* rpma_conn_completion_wait: take the notification and re-arm the queue.
completion_wait ==
  /\ notified' = (RearmSees /\ cq # << >>)
  /\ armed' = ~notified'

WaitOk ==
  /\ step = "epoll" /\ notified
  /\ completion_wait /\ step' = "get"
  /\ UNCHANGED <<op, callback_table, rq, sq, cq, disconnected, link>>

\* Mutation of WaitFails: the handler returns without disconnecting.
WaitFailsQuietly ==
  /\ step = "epoll" /\ notified
  /\ notified' = FALSE
  /\ UNCHANGED <<op, callback_table, rq, sq, cq, armed, step, disconnected, link>>

\* Re-arming failed: the notification is gone and the handler disconnects.
WaitFails ==
  /\ step = "epoll" /\ notified
  /\ notified' = FALSE /\ disconnect
  /\ UNCHANGED <<op, callback_table, rq, sq, cq, armed, step, link>>

\* rpma_conn_completion_get found nothing.
GetNone ==
  /\ step = "get" /\ cq = << >>
  /\ step' = "epoll"
  /\ UNCHANGED <<op, callback_table, queueVars, disconnected, link>>

\* It failed: reading nothing, whether or not something was there, or dropping a
\* failed completion whose opcode the library does not know.
GetFails ==
  /\ step = "get"
  /\ step' = "epoll" /\ disconnect
  /\ cq' = cq \/ (cq # << >> /\ Head(cq).status = "error" /\ cq' = Tail(cq))
  /\ UNCHANGED <<op, callback_table, rq, sq, armed, notified, link>>

\* A failed completion is read and ignored: its op stays in callback_table.
GetError ==
  /\ step = "get" /\ cq # << >> /\ Head(cq).status = "error"
  /\ step' = "epoll" /\ cq' = Tail(cq)
  /\ UNCHANGED <<op, callback_table, rq, sq, armed, notified, disconnected, link>>

\* A successful completion without an op, or of an op without a callback.
GetQuiet ==
  /\ step = "get" /\ cq # << >> /\ Head(cq).status = "success"
  /\ LET o == Head(cq).ctx IN
     \/ o = Nullptr /\ UNCHANGED <<op, callback_table, rq, sq>>
     \/ o # Nullptr /\ op[o] = "none" /\ SetHeap(delete(erase(H0, o), o))
  /\ step' = "epoll" /\ cq' = Tail(cq)
  /\ UNCHANGED <<armed, notified, disconnected, link>>

-----------------------------------------------------------------------------
(* The card.                                                               *)

Push(c) == /\ cq' = Append(cq, c)
           /\ notified' = (notified \/ armed)
           /\ armed' = FALSE

SendCompletes(status) ==
  /\ sq # << >> /\ Len(cq) < CqSize
  /\ Push([ctx |-> Head(sq), status |-> status]) /\ sq' = Tail(sq)
  /\ UNCHANGED <<op, callback_table, rq, step, disconnected, link>>

RecvCompletes(o, status) ==
  /\ o \in rq /\ Len(cq) < CqSize
  /\ Push([ctx |-> o, status |-> status]) /\ rq' = rq \ {o}
  /\ UNCHANGED <<op, callback_table, sq, step, disconnected, link>>

LinkDown == /\ link = "up" /\ link' = "closed"
            /\ UNCHANGED <<op, callback_table, queueVars, step, disconnected>>
=============================================================================
