------------------------------- MODULE Replica -------------------------------
(***************************************************************************)
(* The client of ClientHandler.tla connected to one server connection as   *)
(* ReplicaServer.tla promises it.  The two exchange requests and replies   *)
(* through the card, which delivers them reliably and in order, and only   *)
(* into a receive that is posted; and the client writes to the server's    *)
(* memory, which the server's card allows or refuses by the remote key.    *)
(***************************************************************************)
EXTENDS ClientHandler

CONSTANT Faulty     \* can calls that the server makes fail?

VARIABLES open, listening, request, held, region, reply, owed    \* of the server

S == INSTANCE ReplicaServer WITH Capacity <- SqSize

ASSUME ReplicaAssumption ==
  ImageSize \in Sizes /\ Nil \notin S!Memory \cup Region /\ Faulty \in BOOLEAN

serverVars == <<open, listening, request, held, region, reply, owed>>
allVars == <<vars, serverVars>>

SystemInit == Init /\ S!ServerInit

SqHead == op[Head(sq)]

\* A request is what the client's send buffer says when it leaves.
RequestDelivered ==
  /\ sq # << >> /\ SqHead = "none" /\ Sent
  /\ S!Receive(IF send_bl.type = "INIT_REQUEST"
               THEN [type |-> "INIT_REQUEST", size |-> ImageSize] ELSE send_bl)

\* Without a receive at the client the reply waits.
ReplyDelivered == S!ReplyLeaves /\ ReplyArrives(reply)

\* The server's card compares the remote key.  A refused write breaks the
\* connection; the server's event loop has no part in it.
Permitted == region # Nil /\ region.key = target

WriteCarriedOut ==
  /\ sq # << >> /\ SqHead \in {"write", "flush"}
  /\ Permitted
  /\ Sent /\ UNCHANGED serverVars

WriteRefused ==
  /\ sq # << >> /\ SqHead \in {"write", "flush"}
  /\ ~Permitted
  /\ main \notin Dead /\ LinkDown /\ cm' = Append(cm, "CLOSED")
  /\ UNCHANGED <<mainVars, flagVars, replicaVars, cur, connected, data_mr, target, recv_bl, send_bl>>
  /\ UNCHANGED serverVars

ServerServes == (S!ServeInit \/ S!ServeFinished) /\ UNCHANGED vars

\* The server sees the connection go down, or gives it up on an exception.
ServerCloses ==
  \/ link = "closed" /\ (S!ReplyLeaves \/ S!ReceiveFlushed \/ S!Close) /\ UNCHANGED vars
  \/ /\ Faulty /\ S!Close /\ main \notin Dead /\ LinkDown /\ cm' = Append(cm, "CLOSED")
     /\ UNCHANGED <<mainVars, flagVars, replicaVars, cur, connected, data_mr, target, recv_bl, send_bl>>

ClientAlone == /\ MainThread \/ ReactorThread \/ LinkUp \/ LinkFails \/ Flushed
               /\ UNCHANGED serverVars

Idle == (Spinning \/ Stopped) /\ UNCHANGED serverVars

SystemNext == ClientAlone \/ Idle \/ RequestDelivered \/ ReplyDelivered \/ WriteCarriedOut
              \/ WriteRefused \/ ServerServes \/ ServerCloses

SystemSpec == SystemInit /\ [][SystemNext]_allVars

-----------------------------------------------------------------------------
(* Fairness: both threads of the client and the server's loop keep running *)
(* when they have something to do; the card carries out what is posted;    *)
(* the connection comes up, and comes down once it is asked to.            *)

FairSystem ==
  /\ SystemSpec
  /\ WF_allVars(MainThread /\ UNCHANGED serverVars)
  /\ WF_allVars(ReactorThread /\ UNCHANGED serverVars)
  /\ WF_allVars(ServerServes)
  /\ WF_allVars(RequestDelivered) /\ WF_allVars(ReplyDelivered) /\ WF_allVars(WriteCarriedOut)
  /\ WF_allVars(LinkUp /\ UNCHANGED serverVars)
  /\ WF_allVars(LinkFails /\ disconnected /\ UNCHANGED serverVars)

-----------------------------------------------------------------------------
(* Properties.                                                             *)

\* The server's two promises, whichever of its calls fail.
ServerKeepsPromise == S!RegionIsHeld /\ S!PromiseIsHeld

Before(c) == \E i \in 1..at - 1 : script[i] = c

\* The main thread has not come to a close_replica.
Unclosed == \A i \in 1..at : script[i] # "close_replica"

WritesNext == /\ main = "call" /\ script[at] \in {"write", "flush"} /\ link = "up" /\ open
              /\ answer = "ok" /\ ~Before("close_replica")

\* When init_replica got its answer, and nothing was closed since, the descriptor
\* the client goes on to write through is the one region the server has
\* registered, and it flushes to persistence exactly if that memory is persistent.
DescriptorCurrent ==
  WritesNext => /\ image_mr # Nil /\ image_mr = region
                /\ (flush_type = "PERSISTENT") = held.pmem

\* A replica opened once and not closed: whenever the reply came, before or after
\* init_replica gave up on it, and whichever of the server's calls failed, the key
\* the client writes with is the one that is registered: no write is refused.
RefusedOnlyAfterClose == [][WriteRefused => ~Unclosed]_allVars

\* client.cc goes on whatever init_replica returns.  That is what it takes to
\* crash: a client whose init_replica got its answer does not, until it closes.
CrashesOnlyUnanswered == main = "crashed" /\ Unclosed => answer = "none"

\* With a server that works, calls that do not fail and replies in time, the
\* client never dereferences what was never set, fails an assert or chokes on a
\* reply; except that init_replica after close_replica takes the second reply to
\* FINISHED for its own.
CrashesOnlyReopening ==
  main = "crashed" => script[at] = "init_replica" /\ Before("close_replica")

\* README: the client connects, sends what it needs, gets the descriptor, writes,
\* and when to end disconnects; so main gets to its last line (unless it gave the
\* memory back before: then the write is refused, and main waits for ever).
ReachesEnd ==
  (\A i \in DOMAIN script : script[i] # "close_replica") => <>(main \in {"exited", "freed_twice"})
=============================================================================
