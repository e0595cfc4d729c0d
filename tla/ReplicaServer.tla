---------------------------- MODULE ReplicaServer ----------------------------
(***************************************************************************)
(* What one connection of the server promises its client: an abstract      *)
(* specification of RPMAHandler (EventOp.cc).  It takes one request at a   *)
(* time, holds at most one piece of memory, lets the client write to at    *)
(* most one registered region, and owes replies.  All replies leave from   *)
(* one buffer, so a reply says what the buffer says when it leaves.        *)
(*                                                                         *)
(* RPMAHandler.tla implements this specification (its ImplementsServer),   *)
(* and Replica.tla composes it with the client.                            *)
(***************************************************************************)
EXTENDS Naturals

CONSTANTS Keys, Sizes, Nil,
          Capacity,  \* of the send queue
          Faulty     \* can calls that the server makes fail?

VARIABLES open,      \* the handler exists
          listening, \* a receive is posted
          request,   \* the request that waits to be served, or Nil
          held,      \* the memory of the replica, or Nil
          region,    \* what the client may write to, or Nil
          reply,     \* the content of the reply buffer
          owed       \* replies that have not left yet

serverVars == <<open, listening, request, held, region, reply, owed>>

Request == [type : {"INIT_REQUEST"}, size : Sizes]
           \cup [type : {"FINISHED_REQUEST", "UNSUPPORTED"}]
Memory  == [size : Sizes, pmem : BOOLEAN]
Region  == [key : Keys, size : Sizes]
Reply   == [type : {"INIT_SUCCESSED"}, key : Keys, size : Sizes, pmem : BOOLEAN]
           \cup [type : {"FINISHED_SUCCESSED", "FINISHED_FAILED", "garbage"}]

Unwritten == [type |-> "garbage"]

ServerInit == /\ open = TRUE /\ listening = TRUE /\ request = Nil /\ held = Nil /\ region = Nil
              /\ reply = Unwritten /\ owed = 0

-----------------------------------------------------------------------------

Receive(r) == /\ open /\ listening /\ request = Nil
              /\ request' = r /\ listening' = FALSE
              /\ UNCHANGED <<open, held, region, reply, owed>>

\* The request is done with, n replies are posted and the next receive is,
\* except for those the card refuses.
Served(n) ==
  /\ request' = Nil /\ UNCHANGED open
  /\ IF Faulty THEN owed' \in {m \in owed..owed + n : m <= Capacity} /\ listening' \in BOOLEAN
     ELSE owed' = (IF owed + n <= Capacity THEN owed + n ELSE Capacity) /\ listening' = TRUE

\* INIT uses the memory that is there, or allocates what is asked for.
MemoryFor(r) == IF held # Nil THEN {held} ELSE [size : {r.size}, pmem : BOOLEAN]

\* Mutation of ServeInit: when the registration fails, the reply describes the
\* key it would have had.
ServeInitUnchecked ==
  /\ open /\ request # Nil /\ request.type = "INIT_REQUEST"
  /\ held' \in MemoryFor(request)
  /\ \E k \in {k \in Keys : region = Nil \/ k # region.key} :
       /\ \/ region' = [key |-> k, size |-> held'.size]
          \/ Faulty /\ UNCHANGED region
       /\ reply' = [type |-> "INIT_SUCCESSED", key |-> k,
                    size |-> held'.size, pmem |-> held'.pmem]
  /\ Served(1)

\* Registered anew, with the descriptor in the reply; a call that fails leaves
\* the old registration and the old reply, or just the old reply.
ServeInit ==
  /\ open /\ request # Nil /\ request.type = "INIT_REQUEST"
  /\ held' \in MemoryFor(request)
  /\ \/ Faulty /\ UNCHANGED <<region, reply>>
     \/ \E k \in {k \in Keys : region = Nil \/ k # region.key} :
          /\ region' = [key |-> k, size |-> held'.size]
          /\ \/ reply' = [type |-> "INIT_SUCCESSED", key |-> k,
                          size |-> held'.size, pmem |-> held'.pmem]
             \/ Faulty /\ UNCHANGED reply
  /\ Served(1)

\* Mutation of ServeFinished: the region stays registered.
ServeFinishedRegistered ==
  /\ open /\ request # Nil /\ request.type = "FINISHED_REQUEST"
  /\ held' = Nil /\ UNCHANGED region
  /\ reply' \in [type : {"FINISHED_SUCCESSED", "FINISHED_FAILED"}]
  /\ Served(2)

\* FINISHED gives everything back, and is answered twice.
ServeFinished ==
  /\ open /\ request # Nil /\ request.type = "FINISHED_REQUEST"
  /\ held' = Nil /\ region' = Nil
  /\ reply' \in [type : {"FINISHED_SUCCESSED", "FINISHED_FAILED"}]
  /\ Served(2)

ServeUnsupported ==
  /\ open /\ request # Nil /\ request.type = "UNSUPPORTED"
  /\ UNCHANGED <<held, region, reply>>
  /\ Served(1)

\* A reply leaves; a reply or the posted receive is flushed.
ReplyLeaves ==
  /\ open /\ owed > 0 /\ owed' = owed - 1
  /\ UNCHANGED <<open, listening, request, held, region, reply>>

ReceiveFlushed ==
  /\ open /\ listening /\ listening' = FALSE
  /\ UNCHANGED <<open, request, held, region, reply, owed>>

\* The handler is destroyed, with whatever it holds.
Close ==
  /\ open /\ open' = FALSE /\ listening' = FALSE /\ request' = Nil
  /\ held' = Nil /\ region' = Nil /\ reply' = Unwritten /\ owed' = 0

Serve == ServeInit \/ ServeFinished \/ ServeUnsupported

ServerNext == (\E r \in Request : Receive(r)) \/ Serve \/ ReplyLeaves \/ ReceiveFlushed \/ Close

ServerSpec == ServerInit /\ [][ServerNext]_serverVars

-----------------------------------------------------------------------------
(* Properties.                                                             *)

\* Every variable keeps its type (the proofs rest on it).
TypeOK ==
  /\ open \in BOOLEAN /\ listening \in BOOLEAN /\ request \in Request \cup {Nil}
  /\ held \in Memory \cup {Nil} /\ region \in Region \cup {Nil}
  /\ reply \in Reply /\ owed \in 0..Capacity

\* Whatever the order of INIT and FINISHED and whichever calls fail, a region the
\* client may write to is memory the server holds, all of it.
RegionIsHeld == region # Nil => held # Nil /\ region.size = held.size

\* A descriptor in the reply buffer describes memory the server holds, with its
\* length and kind, even when it is sent again for a request that failed.
PromiseIsHeld ==
  reply.type = "INIT_SUCCESSED" =>
    held # Nil /\ reply.size = held.size /\ reply.pmem = held.pmem
=============================================================================
