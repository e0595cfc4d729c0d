---------------------------- MODULE ClientHandler ----------------------------
(***************************************************************************)
(* The client (ClientHandler of EventOp.cc, main of client.cc): the main   *)
(* thread makes the calls of a script, and th1, the reactor thread, runs   *)
(* handle_events.  They share the handler, its callback_table and the one  *)
(* rpma_conn, without a lock.  handle_completion is ConnectionHandler's,   *)
(* taken apart where the main thread can tell the difference.              *)
(*                                                                         *)
(* init_replica and close_replica give the reply's callback a reference to *)
(* a flag in their own stack frame.  A callback that is still posted when  *)
(* its call returns is marked stale: it writes into a frame that is gone.  *)
(*                                                                         *)
(* The server is the environment here: any reply may arrive at any time.   *)
(* Replica.tla puts the server in its place.                               *)
(***************************************************************************)
EXTENDS ConnectionHandler

CONSTANTS Scripts,     \* the sequences of calls the main thread may make
          Keys, Sizes, Nil,
          ImageSize,   \* the cache_size of init_replica
          Timeout,     \* 10e6 us, in the units in which the model counts time
          Slowest,     \* bound: the longest an unanswered wait gets to see
          Unset,       \* a cost_time that was never set and fails the first test
          UnsetFails,  \* can the build leave such a value there?
          CallsFail    \* can calls of the library and the connection fail?

ASSUME ClientAssumption ==
  /\ Sizes \subseteq Nat /\ ImageSize \in Nat /\ Timeout \in Nat /\ Slowest \in Nat
  /\ {UnsetFails, CallsFail} \subseteq BOOLEAN /\ Unset \notin Nat /\ Nil \notin Keys

\* The handler lives as long as main does: its destructor is the last call.
ASSUME ScriptsAssumption ==
  \A s \in Scripts : s \in Seq(STRING) /\ s # << >> /\ s[Len(s)] = "join"

VARIABLES
  script, at,             \* the calls of the main thread and the one it is at
  main,                   \* "call", or where it is inside the call
  posted,                 \* the op it has posted but not yet put into callback_table
  answer,                 \* completed and successed of init_replica, close_replica
  cost_time,              \* of the loop that waits for the reply
  completed,              \* the flag of client.cc that write and flush set
  cur,                    \* the op_context th1 is working on
  connected, cm,          \* ConnectionHandler::connected; queued connection events
  image_mr, flush_type,   \* the remote memory and how to flush it, Nil: never set
  got,                    \* the flush_type get_remote_descriptor is about to set
  data_mr,                \* is the source buffer registered?
  target,                 \* the remote key of the write or flush posted last
  recv_bl, send_bl        \* contents of the message buffers

mainVars  == <<script, at, main, posted, cost_time>>
flagVars  == <<answer, completed>>
replicaVars == <<image_mr, flush_type, got>>
clientVars == <<mainVars, flagVars, replicaVars, cur, connected, cm, data_mr, target, recv_bl, send_bl>>
vars == <<chVars, clientVars>>

Reply == [type : {"INIT_SUCCESSED"}, key : Keys, size : Sizes, pmem : BOOLEAN]
         \cup [type : {"INIT_FAILED", "FINISHED_SUCCESSED", "FINISHED_FAILED", "garbage"}]
Region == [key : Keys, size : Sizes]

\* The end of the process: main returned; it was killed; the destructor found
\* an op in callback_table that was freed before.
Dead == {"exited", "crashed", "freed_twice"}

\* Outcomes of a call that the code does not expect to fail.
Ok == IF CallsFail THEN BOOLEAN ELSE {TRUE}

-----------------------------------------------------------------------------
(* The main thread.                                                        *)

\* main() of client.cc; "spin" is while(completed == false).
ClientMain == <<"construct", "wait_established", "init_replica", "prepare", "set_head",
                "write", "spin", "flush", "spin", "disconnect", "join">>

Call(c)  == main = "call" /\ script[at] = c
Return   == main' = "call" /\ at' = at + 1 /\ script' = script
Go(m)    == main' = m /\ UNCHANGED <<script, at>>
Exchange == main \in {"recv", "insert_recv", "send", "insert_send", "wait"}

\* The constructor throws: the runtime_error is caught, main goes on without a
\* handler, and the next call dereferences a null pointer.
ConstructorThrows == CallsFail /\ Go("crashed") /\ UNCHANGED <<step, link, armed>>

\* register_self fails, with both registrations taken back, and main returns.
RegisterFails == CallsFail /\ Go("exited") /\ UNCHANGED <<step, link, armed>>

\* The connection is on its way, and th1 starts.
Started == Return /\ step' = "epoll" /\ link' = "connecting" /\ armed' = TRUE

\* Before there is a th1.
Construct ==
  /\ Call("construct") /\ step = "none"
  /\ Started \/ RegisterFails \/ ConstructorThrows
  /\ UNCHANGED <<op, callback_table, rq, sq, cq, notified, disconnected, posted, cost_time,
                 flagVars, replicaVars, cur, connected, cm, data_mr, target, recv_bl, send_bl>>

WaitEstablished ==
  /\ Call("wait_established") /\ connected /\ Return
  /\ UNCHANGED <<chVars, posted, cost_time, flagVars, replicaVars, cur, connected, cm, data_mr,
                 target, recv_bl, send_bl>>

\* init_replica and close_replica up to their first post.
Ask(c, request) ==
  /\ Call(c) /\ Go("recv") /\ send_bl' = [type |-> request] /\ answer' = "none"
  /\ UNCHANGED <<chVars, posted, cost_time, completed, replicaVars, cur, connected, cm, data_mr,
                 target, recv_bl>>

InitReplica  == Ask("init_replica", "INIT_REQUEST")
CloseReplica == Ask("close_replica", "FINISHED_REQUEST")

Frame == IF script[at] = "init_replica" THEN "init" ELSE "finish"

\* The wait starts with a cost_time nothing was assigned to: it passes the first
\* test like 0 does, or it does not.
StartWait == main' = "wait" /\ cost_time' \in {0} \cup (IF UnsetFails THEN {Unset} ELSE {})

\* recv(): post, whose failure nobody looks at, and then enter the table.
PostRecv ==
  /\ main = "recv"
  /\ \/ CallsFail /\ Go("send") /\ UNCHANGED <<op, rq, posted>>
     \/ \E o \in Ops \ Allocated :
          op' = [op EXCEPT ![o] = Frame] /\ rq' = rq \cup {o} /\ posted' = o /\ Go("insert_recv")
  /\ UNCHANGED <<callback_table, sq, cq, armed, notified, step, disconnected, link, cost_time,
                 flagVars, replicaVars, cur, connected, cm, data_mr, target, recv_bl, send_bl>>

\* send(nullptr).
PostSend ==
  /\ main = "send" /\ UNCHANGED <<script, at>>
  /\ \/ (CallsFail \/ ~CanSend(H0)) /\ StartWait /\ UNCHANGED <<op, sq, posted>>
     \/ /\ CanSend(H0)
        /\ \E o \in Ops \ Allocated :
             op' = [op EXCEPT ![o] = "none"] /\ sq' = Append(sq, o) /\ posted' = o
        /\ main' = "insert_send" /\ UNCHANGED cost_time
  /\ UNCHANGED <<callback_table, rq, cq, armed, notified, step, disconnected, link,
                 flagVars, replicaVars, cur, connected, cm, data_mr, target, recv_bl, send_bl>>

\* Mutation of Insert: the table is left as it is.
InsertNothing == callback_table' = callback_table /\ posted' = Nullptr

\* Mutation of Insert: release() comes before get().
InsertReleased == callback_table' = callback_table \cup {Nullptr} /\ posted' = Nullptr

\* callback_table.insert(op), op.release()
Insert == callback_table' = callback_table \cup {posted} /\ posted' = Nullptr

Inserted ==
  /\ \/ main = "insert_recv" /\ Go("send") /\ UNCHANGED cost_time
     \/ main = "insert_send" /\ StartWait /\ UNCHANGED <<script, at>>
     \/ main = "insert" /\ Return /\ UNCHANGED cost_time
  /\ Insert
  /\ UNCHANGED <<op, rq, sq, cq, armed, notified, step, disconnected, link,
                 flagVars, replicaVars, cur, connected, cm, data_mr, target, recv_bl, send_bl>>

TimedOut == cost_time \notin 0..Timeout - 1

\* The loop: time passes, and the thread looks again.
Wait ==
  /\ main = "wait" /\ answer = "none" /\ ~TimedOut
  /\ cost_time' \in {cost_time, cost_time + 1} /\ cost_time' <= Slowest
  /\ UNCHANGED <<chVars, script, at, main, posted, flagVars, replicaVars, cur, connected, cm,
                 data_mr, target, recv_bl, send_bl>>

\* The callback has not run to its end although the frame it refers to ends.
Outlives(o) == op[o] \in {"init", "finish"} /\ ~(cur = o /\ step = "delete")

\* Mutation of WaitEnds: the thread does not wait for the reply.
WaitEndsAtOnce == main = "wait"

WaitEnds == main = "wait" /\ (answer # "none" \/ TimedOut)

\* init_replica and close_replica return.
Answered ==
  /\ WaitEnds /\ Return /\ cost_time' = 0
  /\ op' = [o \in Ops |-> IF ~Outlives(o) THEN op[o]
                          ELSE IF op[o] = "init" THEN "stale_init" ELSE "stale_finish"]
  /\ UNCHANGED <<callback_table, queueVars, step, disconnected, link, posted, flagVars,
                 replicaVars, cur, connected, cm, data_mr, target, recv_bl, send_bl>>

\* A gigabyte of source data.
Prepare ==
  /\ Call("prepare")
  /\ Return \/ (CallsFail /\ Go("crashed"))
  /\ UNCHANGED <<chVars, posted, cost_time, flagVars, replicaVars, cur, connected, cm, data_mr,
                 target, recv_bl, send_bl>>

SetHead ==
  /\ Call("set_head") /\ Return /\ \E ok \in Ok : data_mr' = (data_mr \/ ok)
  /\ UNCHANGED <<chVars, posted, cost_time, flagVars, replicaVars, cur, connected, cm, target,
                 recv_bl, send_bl>>

\* write and flush up to the insert, and the reset of the flag before them.  A
\* failed assert(data_mr) ends the process in a build with asserts; in one without
\* librpma refuses to write from nowhere.  An _image_mr that was never set crashes
\* or is refused (a null pointer), a _flush_type that was never set may be refused.
Post(c) ==
  /\ Call(c) /\ completed' = FALSE
  /\ \/ (~data_mr \/ image_mr = Nil) /\ Go("crashed") /\ UNCHANGED <<op, sq, posted, target>>
     \/ /\ \/ CallsFail \/ ~CanSend(H0) \/ image_mr = Nil
           \/ c = "write" /\ ~data_mr
           \/ c = "flush" /\ flush_type = Nil
        /\ Return /\ UNCHANGED <<op, sq, posted, target>>
     \/ /\ (data_mr \/ c = "flush") /\ image_mr # Nil /\ CanSend(H0)
        /\ \E o \in Ops \ Allocated :
             op' = [op EXCEPT ![o] = c] /\ sq' = Append(sq, o) /\ posted' = o
        /\ target' = image_mr.key /\ Go("insert")
  /\ UNCHANGED <<callback_table, rq, cq, armed, notified, step, disconnected, link, cost_time,
                 answer, replicaVars, cur, connected, cm, data_mr, recv_bl, send_bl>>

Write == Post("write")
Flush == Post("flush")

Spin ==
  /\ Call("spin") /\ completed /\ Return
  /\ UNCHANGED <<chVars, posted, cost_time, flagVars, replicaVars, cur, connected, cm, data_mr,
                 target, recv_bl, send_bl>>

\* The calls that poll a flag go round once more.
Spinning == /\ \/ Call("spin") /\ ~completed
               \/ Call("wait_established") /\ ~connected
            /\ UNCHANGED vars

\* RpmaConn::disconnect: the flag, then rpma_conn_disconnect, which takes a while.
Disconnect ==
  /\ \/ Call("disconnect") /\ Go("disconnecting") /\ disconnect
     \/ main = "disconnecting" /\ Return /\ UNCHANGED disconnected
  /\ UNCHANGED <<op, callback_table, queueVars, step, link, posted, cost_time, flagVars,
                 replicaVars, cur, connected, cm, data_mr, target, recv_bl, send_bl>>

\* Mutation of Joined: main does not wait for th1.
JoinedNot == Call("join")

Joined == Call("join") /\ step = "exited"

\* th1 is joined, the source data is freed, and the handler is destroyed: every
\* op in callback_table is deleted.
Join ==
  /\ Joined
  /\ IF callback_table \subseteq Allocated
     THEN /\ Go("exited") /\ callback_table' = {}
          /\ op' = [o \in Ops |-> IF o \in callback_table THEN Free ELSE op[o]]
     ELSE Go("freed_twice") /\ UNCHANGED <<op, callback_table>>
  /\ UNCHANGED <<queueVars, step, disconnected, link, posted, cost_time, flagVars, replicaVars,
                 cur, connected, cm, data_mr, target, recv_bl, send_bl>>

MainThread == Construct \/ WaitEstablished \/ InitReplica \/ CloseReplica \/ PostRecv \/ PostSend
              \/ Inserted \/ Wait \/ Answered \/ Prepare \/ SetHead \/ Write \/ Flush \/ Spin
              \/ Disconnect \/ Join

-----------------------------------------------------------------------------
(* th1, the reactor thread.                                                *)

\* epoll_wait finds the connection's fd readable, and th1 is inside
\* rpma_conn_next_event.
EventReady ==
  /\ step = "epoll" /\ cm # << >> /\ step' = "event"
  /\ UNCHANGED <<op, callback_table, queueVars, disconnected, link, clientVars>>

\* The table of the reactor is empty then, and th1 leaves its loop.
remove_self == step' = "exited"

\* handle_connection_event; CLOSED stands for LOST and UNDEFINED too, and
\* UNEXPECTED is an event the library refuses.  When rpma_conn_next_event fails
\* for another reason, the event is still there or is lost.
ConnectionEvent ==
  /\ step = "event"
  /\ \/ /\ Head(cm) = "ESTABLISHED" /\ cm' = Tail(cm) /\ connected' = TRUE /\ step' = "epoll"
        /\ UNCHANGED disconnected
     \/ /\ Head(cm) = "CLOSED" /\ cm' = Tail(cm) /\ connected' = FALSE /\ remove_self
        /\ UNCHANGED disconnected
     \/ /\ \/ Head(cm) = "UNEXPECTED" /\ cm' = Tail(cm)
           \/ CallsFail /\ cm' \in {cm, Tail(cm)}
        /\ disconnect /\ step' = "epoll" /\ UNCHANGED connected
  /\ UNCHANGED <<op, callback_table, queueVars, link, mainVars, flagVars, replicaVars, cur,
                 data_mr, target, recv_bl, send_bl>>

\* Mutation of GetOp: the completion stays in the queue.
GetOpTwice ==
  /\ step = "get" /\ cq # << >> /\ Head(cq).status = "success"
  /\ cur' = Head(cq).ctx /\ cq' = cq /\ SetHeap(erase(H0, Head(cq).ctx)) /\ step' = "callback"
  /\ UNCHANGED <<armed, notified, disconnected, link, mainVars, flagVars, replicaVars, connected,
                 cm, data_mr, target, recv_bl, send_bl>>

\* A successful completion: its op leaves callback_table, and comes next.
GetOp ==
  /\ step = "get" /\ cq # << >> /\ Head(cq).status = "success"
  /\ cur' = Head(cq).ctx /\ cq' = Tail(cq) /\ SetHeap(erase(H0, Head(cq).ctx)) /\ step' = "callback"
  /\ UNCHANGED <<armed, notified, disconnected, link, mainVars, flagVars, replicaVars, connected,
                 cm, data_mr, target, recv_bl, send_bl>>

\* Mutations of get_remote_descriptor: a flush is always to persistence; the first
\* descriptor is kept.
get_remote_descriptor_persistent(r) ==
  {[mr |-> IF r.type = "INIT_SUCCESSED" THEN [key |-> r.key, size |-> r.size] ELSE image_mr,
    ft |-> "PERSISTENT", threw |-> r.type \notin {"INIT_SUCCESSED", "INIT_FAILED"}]}
get_remote_descriptor_once(r) ==
  {[mr |-> IF r.type = "INIT_SUCCESSED" /\ image_mr = Nil THEN [key |-> r.key, size |-> r.size]
           ELSE image_mr,
    ft |-> "VISIBILITY", threw |-> r.type \notin {"INIT_SUCCESSED", "INIT_FAILED"}]}

\* get_remote_descriptor: what _image_mr and _flush_type can be after it.  A
\* reply that is not an INIT reply does not decode (Types.tla); an _image_mr that
\* was never set is dereferenced when the new one cannot be made.  A remote
\* memory that is too small is noticed after it was taken.
get_remote_descriptor(r) ==
  LET type(pmem) == IF pmem THEN "PERSISTENT" ELSE "VISIBILITY"
      known      == [mr |-> image_mr, ft |-> flush_type, threw |-> FALSE]
      threw      == [known EXCEPT !.threw = TRUE]
  IN CASE r.type = "INIT_SUCCESSED" ->
            {[known EXCEPT !.mr = [key |-> r.key, size |-> r.size],
                           !.ft = IF r.size < ImageSize THEN @ ELSE type(r.pmem /\ ok)]
               : ok \in Ok}
            \cup (IF ~CallsFail THEN {}
                  ELSE {[known EXCEPT !.ft = t] : t \in {flush_type, type(r.pmem)}}
                       \cup (IF image_mr = Nil THEN {threw} ELSE {}))
       [] r.type = "INIT_FAILED" -> {known}
       [] OTHER -> {threw}

\* A write to a frame that is gone: it may hit the flag of the same call made
\* again, something that matters, or nothing.
DeadFrame(value) ==
  \/ UNCHANGED <<answer, main>>
  \/ Exchange /\ answer' = value /\ UNCHANGED main
  \/ main' = "crashed" /\ UNCHANGED answer

\* The callback of init_replica's receive: the reply is decoded and _image_mr set,
\* then _flush_type, and then the flag.  A main thread that has given up waiting
\* may look in between.
Describe ==
  /\ step \in {"callback", "described"} /\ op[cur] \in {"init", "stale_init"}
  /\ \/ /\ step = "callback" /\ step' = "described" /\ UNCHANGED flush_type
        /\ \E g \in get_remote_descriptor(recv_bl) :
             \/ g.threw /\ main' = "crashed" /\ UNCHANGED <<image_mr, got>>
             \/ ~g.threw /\ image_mr' = g.mr /\ got' = g.ft /\ UNCHANGED main
     \/ /\ step = "described" /\ step' = "typed"
        /\ flush_type' = got /\ got' = Nil /\ UNCHANGED <<main, image_mr>>
  /\ UNCHANGED <<op, callback_table, queueVars, disconnected, link, script, at, posted, cost_time,
                 flagVars, cur, connected, cm, data_mr, target, recv_bl, send_bl>>

InitReplied ==
  /\ IF op[cur] = "init" THEN answer' = "ok" /\ UNCHANGED main ELSE DeadFrame("ok")
  /\ UNCHANGED replicaVars

\* The callback of close_replica's receive.
FinishReplied ==
  LET result == IF recv_bl.type = "FINISHED_SUCCESSED" THEN "ok" ELSE "bad" IN
  /\ IF recv_bl.type = "garbage" THEN main' = "crashed" /\ UNCHANGED answer
     ELSE IF op[cur] = "finish" THEN answer' = result /\ UNCHANGED main ELSE DeadFrame(result)
  /\ UNCHANGED replicaVars

\* Mutation of NoCallback: the completion of the send ends the wait.
NoCallbackAnswers == answer' = "ok" /\ UNCHANGED <<completed, main, replicaVars>>

\* do_callback of an op without a callback.
NoCallback == UNCHANGED <<flagVars, main, replicaVars>>

\* The rest of the callback.
RunCallback ==
  /\ step \in {"callback", "typed"} /\ step' = "delete"
  /\ step = "typed" <=> op[cur] \in {"init", "stale_init"}
  /\ \/ op[cur] \in {"init", "stale_init"} /\ InitReplied /\ UNCHANGED completed
     \/ op[cur] \in {"finish", "stale_finish"} /\ FinishReplied /\ UNCHANGED completed
     \/ op[cur] \in {"write", "flush"} /\ completed' = TRUE /\ UNCHANGED <<answer, main, replicaVars>>
     \/ op[cur] = "none" /\ NoCallback
  /\ UNCHANGED <<op, callback_table, queueVars, disconnected, link, script, at, posted, cost_time,
                 cur, connected, cm, data_mr, target, recv_bl, send_bl>>

\* The unique_ptr of handle_completion goes.
Delete ==
  /\ step = "delete" /\ step' = "epoll" /\ cur' = Nullptr /\ SetHeap(delete(H0, cur))
  /\ UNCHANGED <<cq, armed, notified, disconnected, link, mainVars, flagVars, replicaVars,
                 connected, cm, data_mr, target, recv_bl, send_bl>>

ReactorThread ==
  /\ main \notin Dead
  /\ \/ (WaitOk \/ GetNone \/ GetError) /\ UNCHANGED clientVars
     \/ CallsFail /\ (WaitFails \/ GetFails) /\ UNCHANGED clientVars
     \/ EventReady \/ ConnectionEvent \/ GetOp \/ Describe \/ RunCallback \/ Delete

-----------------------------------------------------------------------------
(* The card and the network.                                               *)

\* The connection comes up; it is refused; it goes down.
LinkUp ==
  /\ link = "connecting" /\ main \notin Dead
  /\ \/ link' = "up" /\ cm' = Append(cm, "ESTABLISHED")
     \/ CallsFail /\ link' = "closed" /\ cm' \in {Append(cm, "CLOSED"), Append(cm, "UNEXPECTED")}
  /\ UNCHANGED <<op, callback_table, queueVars, step, disconnected, mainVars, flagVars, replicaVars,
                 cur, connected, data_mr, target, recv_bl, send_bl>>

LinkFails ==
  /\ CallsFail \/ disconnected
  /\ main \notin Dead /\ LinkDown /\ cm' = Append(cm, "CLOSED")
  /\ UNCHANGED <<mainVars, flagVars, replicaVars, cur, connected, data_mr, target, recv_bl, send_bl>>

\* Receives are used in the order in which they were posted: those of calls that
\* have returned come before the one of the call in progress.
NextReceive(o) ==
  o \in rq /\ (op[o] \in {"init", "finish"} =>
                 \A p \in rq : op[p] \notin {"stale_init", "stale_finish"})

ReplyArrives(reply) ==
  /\ link = "up" /\ main \notin Dead
  /\ \E o \in rq : NextReceive(o) /\ RecvCompletes(o, "success")
  /\ recv_bl' = reply
  /\ UNCHANGED <<mainVars, flagVars, replicaVars, cur, connected, cm, data_mr, target, send_bl>>

Sent == /\ link = "up" /\ main \notin Dead /\ SendCompletes("success")
        /\ UNCHANGED clientVars

Flushed == /\ link = "closed" /\ main \notin Dead
           /\ SendCompletes("error") \/ \E o \in rq : RecvCompletes(o, "error")
           /\ UNCHANGED clientVars

\* The event that would have ended th1 is lost: th1 waits for it, and main for th1.
Stuck == CallsFail /\ Call("join") /\ step = "epoll" /\ link = "closed" /\ cm = << >>

Stopped == (main \in Dead \/ Stuck) /\ UNCHANGED vars

-----------------------------------------------------------------------------

Init ==
  /\ op = [o \in Ops |-> Free] /\ callback_table = {} /\ rq = {} /\ sq = << >> /\ cq = << >>
  /\ armed = FALSE /\ notified = FALSE /\ step = "none" /\ disconnected = FALSE /\ link = "none"
  /\ script \in Scripts /\ at = 1 /\ main = "call" /\ posted = Nullptr /\ cost_time = 0
  /\ answer = "none" /\ completed = FALSE /\ cur = Nullptr /\ connected = FALSE /\ cm = << >>
  /\ image_mr = Nil /\ flush_type = Nil /\ got = Nil /\ data_mr = FALSE /\ target = Nil
  /\ recv_bl = [type |-> "garbage"] /\ send_bl = [type |-> "garbage"]

Next == MainThread \/ Spinning \/ ReactorThread \/ LinkUp \/ LinkFails
        \/ (\E r \in Reply : ReplyArrives(r)) \/ Sent \/ Flushed \/ Stopped

Spec == Init /\ [][Next]_vars

-----------------------------------------------------------------------------
(* Properties.                                                             *)

\* Every variable keeps its type.
TypeOK ==
  /\ op \in [Ops -> Callback \cup {Free}] /\ callback_table \subseteq Ops
  /\ rq \subseteq Ops /\ sq \in Seq(Ops) /\ cq \in Seq(Completion)
  /\ {armed, notified, disconnected, completed, connected, data_mr} \subseteq BOOLEAN
  /\ step \in {"none", "epoll", "event", "get", "callback", "described", "typed", "delete", "exited"}
  /\ link \in {"none", "connecting", "up", "closed"}
  /\ script \in Scripts /\ at \in 1..Len(script) /\ posted \in Context /\ cur \in Context
  /\ main \in Dead \cup {"call", "recv", "insert_recv", "send", "insert_send", "wait", "insert",
                         "disconnecting"}
  /\ answer \in {"none", "ok", "bad"} /\ cost_time \in 0..Slowest \cup {Unset}
  /\ cm \in Seq({"ESTABLISHED", "CLOSED", "UNEXPECTED"})
  /\ image_mr \in Region \cup {Nil} /\ {flush_type, got} \subseteq {"PERSISTENT", "VISIBILITY", Nil}
  /\ target \in Keys \cup {Nil}
  /\ recv_bl \in Reply /\ send_bl \in [type : {"garbage", "INIT_REQUEST", "FINISHED_REQUEST"}]

\* Two threads post and complete, and yet an op_context that is posted, queued
\* as a completion or being worked on is an op that exists, and only one of them
\* carries it.
ContextsLive ==
  main \notin Dead =>
    /\ rq \subseteq Allocated
    /\ \A i \in DOMAIN sq : sq[i] \in Allocated \ rq /\ sq[i] # cur
    /\ \A i \in DOMAIN cq : cq[i].ctx \in Allocated \ rq /\ cq[i].ctx # cur
    /\ \A i, j \in DOMAIN sq : sq[i] = sq[j] => i = j
    /\ \A i, j \in DOMAIN cq : cq[i].ctx = cq[j].ctx => i = j
    /\ \A i \in DOMAIN sq, j \in DOMAIN cq : sq[i] # cq[j].ctx
    /\ cur # Nullptr => cur \in Allocated \ rq

\* Whatever the order in which the main thread enters an op into callback_table
\* and th1 takes it out, no op that exists is missing from the table for good:
\* it is in it, about to be, or being worked on.
NoOpLost ==
  main \notin Dead => Allocated \subseteq callback_table \cup {posted, cur}

\* When init_replica or close_replica returns because it got the reply, no
\* posted receive refers to its frame any more (the return is the step that
\* marks those that do).
AnswerFreesFrame ==
  [][ Answered /\ answer # "none" => \A o \in Ops : ~Outlives(o) ]_vars

\* The source data is freed before the handler that registered it is destroyed.
\* That is safe: nothing is left that the card could still carry out.
SourceOutlivesWrites == main \in {"exited", "freed_twice"} /\ link = "up" => sq = << >>

\* README: the client writes, "when to end, disconnects"; so the destructor at the
\* end of main frees every op once.
FreedOnce == main # "freed_twice"
=============================================================================
