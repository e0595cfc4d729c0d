# Verification of the RPMA replication demo

TLA+ models of the program in `src/`, checked with TLC on small instances and,
for the properties listed under Proofs, proved with TLAPS for every value of the
constants. `PROJECT.json` holds components, runs, mutations, the map from
definitions to source lines, findings, hazards and theorems in machine-readable
form.

## The system

A **server** offers memory for replicas. A client connects over RDMA (librpma),
sends `INIT` with a size and a name, gets back the descriptor of a memory region
(a file mapped from persistent memory, or malloc), writes into it remotely, and
may end with `FINISHED`, which gives the memory back and removes the file. The
server has one thread: an epoll loop. The **client** has two: the main thread
makes calls and waits for flags; `th1` runs the same loop. They share a
connection and its `callback_table` without a lock.

| Part | Source | Hard part | Module |
|---|---|---|---|
| Reactor, acceptor, connection events, server main | `Reactor.cc`, `EventOp.cc:80-256`, `server.cc` | a raw pointer into the table is followed after other handlers ran; handlers destroy themselves; constructors throw half-way | `Reactor` |
| Operations of a connection | `EventOp.cc:258-356`, `RpmaOp.*` | addresses of operation objects travel through the card and come back | `ConnectionHandler` |
| Server's side of a connection | `EventOp.cc:358-566` | one buffer each way; the card runs during destruction | `RPMAHandler` |
| Memory of replicas | `MemoryManager.cc` | files outlive connections and restarts and may have any length | `MemoryManager`, `Mappings` |
| Client | `EventOp.cc:569-796`, `client.cc` | two threads, post before insert, timeouts, references into stack frames | `ClientHandler` |
| Messages | `Types.*`, `test_demo.cc` | variable-length fields copied over one fixed buffer | `Types` |
| The protocol | client and server together | two replies to one request, one reply buffer, remote keys | `ReplicaServer`, `Replica` |

## Modules

* **`Reactor`** is the whole server process; connections are objects with two
  descriptors. `event_table`, `epoll`, `open` and `obj` are the table, the kernel's
  epoll set, the open descriptors and the handlers on the heap. There is one action
  per outcome of each handler; `Kernel` is what may arrive between two steps.
  `Settle` is the reference count: when a handler's last entry goes, its destructor
  runs in the same step.
* **`ConnectionHandler`** is what server and client connections share. `op` is the
  heap of operations, `rq`/`sq`/`cq` are the card's queues (external),
  `armed`/`notified` the completion channel. `handle_completion` is split between its
  two library calls, where the card can act.
* **`RPMAHandler`** is one server connection. `deal_require`, `get_descriptor`,
  `close` are operators on records that return all results the environment can bring
  about; `GetRequest` is the whole callback. `Teardown` destroys the members in the
  reverse order of `EventOp.h` with the card running in between. The client may send
  any well-formed request whenever a receive is posted. The module implements two
  others: `MemoryManager` (`UsesMemoryManager`) and `ReplicaServer`
  (`ImplementsServer`). The mapping to `ReplicaServer` is what a client can see:
  `requestSeen` is the receive buffer while a request is queued, `heldSeen` the
  memory without its file, `owedSeen` the length of the send queue, `replySeen` the
  send buffer, because a reply says what the buffer says when it leaves.
* **`MemoryManager`** is all memory managers of a server over one file system.
  **`Mappings`** adds the address space they share, for `pmem_unmap`.
* **`ClientHandler`** is both threads of the client. The main thread makes the calls
  of a script, `ClientMain` being `client.cc` as it is; each call is taken apart at
  every point where `th1` can tell the difference (after the post, after the insert,
  in the loop that waits). The callback of a receive refers to a flag on the stack of
  `init_replica` or `close_replica`; when the call returns first, `Answered` marks the
  operation stale and its callback writes into a dead frame (`DeadFrame`). That callback
  is three steps (`Describe` twice, then `InitReplied`): a main thread that no longer waits
  may write after `_image_mr` is set and before `_flush_type` is. A failed
  `rpma_conn_next_event` may drop the event it was to read; if that was the one that ends
  `th1`, main waits in the join for ever (`Stuck`). An
  uninitialised `cost_time` is any value: one that passes the first test, or `Unset`,
  which does not. Any reply may arrive.
* **`ReplicaServer`** is the abstract server connection: one request at a time, at
  most one piece of memory and one region, replies owed.
* **`Replica`** composes `ClientHandler` with `ReplicaServer`: requests and replies go
  through posted receives, and a write is carried out or refused by its remote key.
* **`Types`** has every encoder and decoder as a function on bytes, over ceph's
  encoding (external), and the message buffer with the tail earlier messages leave.
* `MC*` are instances for TLC; `*Proofs` hold lemmas and theorems.

Data is abstracted to what the properties distinguish: contents of memory, private
data and logging are left out; outside `Types` a message is a record with its kind and
the fields the protocol uses.

Definitions marked *Mutation of X* restate one definition with a plausible bug. They
are used by no specification; substituting one for X must break the property that
`PROJECT.json` pairs it with.

## Runs

| Run | Question | Result |
|---|---|---|
| `reactor` | do dispatch pointers, registrations, epoll set, objects and descriptors stay consistent while two connections come and go and any call fails? | holds, 63,628 states |
| `reactor_live` | is a closed, lost or disconnected connection released, although the event that says so may be dropped? | holds under `Fairness`, 4,164 states |
| `memory` | lengths and files when connections name shared and own files, with any sizes, across restarts | holds, 717 states |
| `mappings_resized` | is what is unmapped what was mapped? | **violated** |
| `handler_ops` | ownership of operations, the single receive buffer, arming; is `ReplicaServer` implemented? | holds, 207,704 states |
| `handler_live` | registrations and descriptors against memory; refinement of `MemoryManager`; is every request handled, if re-arming reports what is already queued? | holds under `FairSpec`, 1,785,121 states |
| `handler_stranded` | is every request handled with verbs notifications, which report only later completions? | **violated** |
| `types` | is every sequence of messages through one buffer read as it was written? | holds, 25,970 states |
| `client` | ownership between the two threads, stack frames, the end of main, against any server with failing calls | holds, 1,554,616 states |
| `client_twice` | is every operation freed once? | **violated** |
| `replica_faults` | with failing server calls, broken connections, timeouts and late replies: does the client write through the registered descriptor, to memory that is held, is no write refused, and what does it take to crash? | holds, 486,725 states |
| `replica` | without failures: which repeated exchanges work, and does main get to its end? | holds under `FairSystem`, 996,540 states |

### Findings

* **handler_stranded.** `handle_completion` takes the notification, re-arms, and reads
  one completion. If the completion of the last reply and the next request were both
  queued before the re-arming, the request stays in the queue and nothing wakes the
  loop for it. Reading until the queue is empty would fix it: `handler_live` shows that
  the missing wake-up is the only cause.
* **mappings_resized.** A file that exists with another length is mapped whole and
  unmapped with the length asked for. If that is larger, pages behind the mapping go
  too, which may be another connection's replica.
* **client_twice.** `write`, `flush`, `send` and `recv` post first and insert into
  `callback_table` afterwards. If `th1` handles the completion in between, it erases
  nothing and frees the operation; the insert leaves a dangling pointer, and the
  destructor deletes it again when main returns. `NoOpLost` shows that the race never
  goes the other way: no operation leaks.

Other disagreements met while modelling, which the models contain and no run is about:

* `server.cc:31` says "NOT REACHED" at the end of main. An exception from a callback
  (no memory for one client's replica) leaves `handle_events` and ends the server with
  all connections (`CompletionThrows` in `Reactor`).
* `INIT_FAILED` (`Types.h:77`) is never sent: `deal_require` ignores the result of
  `get_descriptor` (`EventOp.cc:552`) and sends whatever the buffer held.
* `Types.h:78` lists the answers to `FINISHED` as types of the `INIT` reply; they are
  encoded without the descriptor and do not decode as one. `FINISHED` is answered twice,
  so `init_replica` after `close_replica` reads the second answer and throws
  (`CrashesOnlyReopening` shows this is the only way to crash without failures).
* `close_and_remove` reports the failure to remove a file that malloc'ed memory may
  never have had, so that `FINISHED_FAILED` can be the answer to a request that
  succeeded (`MemoryManager.cc:56`).
* The wait of `init_replica` tests `cost_time < 10e6` microseconds with the comment
  "< 1s", and tests it before anything was assigned (`EventOp.cc:711-712`). After a
  timeout the receive is still posted: a late reply writes into a dead stack frame.
* `client.cc` prints what `init_replica` returns and goes on. Without an answer it may
  write without a descriptor and crash (`CrashesOnlyUnanswered` shows that this is what it
  takes); a descriptor that comes late is still the right one (`RefusedOnlyAfterClose`).
* `set_head` can fail with no consequence in `client.cc`; `write` asserts `data_mr`.
* `client.cc` polls flags without a timeout: a refused write or a lost connection
  leaves main in `while(completed == false)` for ever.
* `disconnect` on the main thread can overlap `rpma_conn_next_event` on `th1`, on the
  same connection object.

### Bounds

* `reactor`: 2 handlers, 5 descriptors. One acceptor and two connections need exactly
  five, so every closed number is reused, in another role. One pending connection
  request (`Backlog`) and two pending events per connection (`CmBound`: an event behind
  another) suffice for every order; the safety part is proved without these bounds.
  `reactor_live` has one connection, whose address and descriptors are reused.
* `memory`, `mappings_resized`: 2 connections, 2 files, 2 sizes: an existing file of the
  right and of a wrong length. `Top` = 4 pages hold two mappings side by side.
* `handler_*`: a send queue of 2 is what the two replies of `close()` fill, 1 makes the
  second fail; a completion queue of 2 holds a reply's completion and a request; 5 (4)
  operations leave one free at every post. Two keys tell a new registration from the
  old, two sizes (`handler_live`) the memory asked for from the memory there.
* `client`, `replica*`: scripts are `client.cc` and calls mixed as another user of the
  interface could (a second `init_replica`, `close_replica` before the end or before a
  write). Queues of 3 hold all that such a script posts at a time. Time is counted in
  units of `Timeout`; `Slowest` bounds the longest wait: 0 means the reply is in time, 1
  that the wait may time out. Timeouts and the uninitialised `cost_time` are explored in
  `replica_faults`, with scripts that open the replica once: after a timeout a *second*
  `init_replica` takes the late reply to the first for its own.
* `types`: strings of zero to five bytes, one of which looks like the head of a struct,
  a buffer that the longest message exactly fails to fit, and a new buffer of zeros or with
  an old reply in it.
* Operations (in `reactor` handlers and descriptors, in `handler_ops` also keys) are
  interchangeable, so symmetry is used, in runs without liveness only.

### Fairness

* `Reactor`: the loop runs; epoll moves a reported level-triggered descriptor to the end
  of its ready list, so each readable one is reported again and again until served
  (strong fairness per descriptor); an event that is there is not failed over for ever,
  but read, to be handled or dropped; the connection manager reports the end of a
  connection it was asked to disconnect, and the end of its time-wait. Nothing is assumed
  of `rpma_conn_disconnect`, whose result the code ignores: where it fails, the connection
  goes on, and `ClosedIsReleased` claims nothing until it ends. A handler that stays then
  is one for which every closing event was dropped (`Unheard`): CLOSED and the one at the
  end of the time-wait, or LOST.
* `RPMAHandler`: weak fairness of the event loop and of the card's sending. Nothing is
  assumed of the client.
* `Replica`: weak fairness of both client threads, of the server's loop, of the card for
  each kind of work it is given, and of the connection manager, which brings the
  connection up and, once asked, down. `ReachesEnd` is about calls that do not fail,
  replies in time and `RearmSees`: without it the stranded completion of
  `handler_stranded` stops either side.

## Proofs

`tlapm` on each `*Proofs.tla` checks everything. The theorems assume of the constants only
what the `ASSUME`s of the modules say: null values differ from real ones, sizes are
positive, bounds are naturals, the image's size is a size, a script is not empty and ends
with the join that `client.cc` ends with (`ScriptsAssumption`), field values fit the width
the wire gives them (`TypesAssumption`). The theorems on the client's frames, its
descriptor and its crashes have hypotheses of their own, which are named below.

**Reactor** (`TypesCorrect`, `DispatchIsSafe`, `EpollIsTable`, `RegistrationIsExact`,
`NoDescriptorLeaks`). `Inv` adds to the checked invariants: nothing exists outside the
loop (`IdleOutside`), one event is handled at a time (`OneEvent`, from `maxevents` = 1),
a reported descriptor is still readable when handled (`PendingReadable`), and a
handler's two descriptors differ. `RegisterSelf` and `RemoveSelf` say what the two
reactor operations compute; `AcceptEffect` and `ClosedEffect` turn the handlers that
change registrations into "adds one complete handler or nothing" and "removes one
completely"; one lemma per kind of change concludes.

**MemoryManager** (`TypesCorrect`, `LengthsCorrect`, `FilesKeepLength`,
`FilesOutliveConnections`, `MappedStaysBacked`). `InitResult` and `CloseResult` describe
the results of the operations. The invariant adds `NamedByClient`: a manager's path is
one its own client names, so that a file only one client names is removed only by it.

**RPMAHandler, operations** (`OpsAreOwned`, `ContextsAreLive`, `QueueStaysArmed`,
`OpsWait`). Inside `handle_completion` ownership is split: the operation whose callback
runs has left `callback_table` and belongs to a `unique_ptr`. `InCallback` describes that
state, `Owned` the one outside; `EraseEnters` goes from the second to the first,
`DealRequireKeeps` and the lemmas under it stay there, `DeleteLeaves` goes back. The card
only moves contexts between queues. `Listening` strengthens `NeverDeaf` to the point
between the two library calls. For `OpsWait` the same path is walked once more with
`OthersWait`: every operation but the one a callback holds is in a queue; what the card
did not take was freed in the same call. A completion with an error is dropped without
its operation (`EventOp.cc:303-309`) and asks for no disconnect; it does not count, because
the card reports errors only once the connection is down, where the claim ends. A failed
`rpma_conn_completion_wait` or `_get` disconnects, which ends it too.

**RPMAHandler, memory** (`RegistrationsHaveMemory`, `PromisesHaveMemory`,
`MemoryIsManaged`, `HandlerKeepsFiles`). `Covers` relates
registration, memory and the descriptor in the send buffer through each operator;
`MemoryInv` says in which phase of the destruction each member is still there. For the
refinement of `MemoryManager` only `Received` is needed: the receive buffer holds a
client's request or none. `HandlerKeepsFiles` is `MemoryManager`'s own theorem, carried
over the refinement to the connection: it resizes no file, and removes one only in
`close()`. Both are about one connection and the files it names; what another connection
on the same replica does to them is in `MemoryManager` and its runs.

**RPMAHandler, client's view** (`RequestIsStable`, `HandlerIsServer`, `HandlerTypes`).
`SingleInv`: at most one receive is posted or queued, and the send queue has none; every
callback posts one receive for the one it consumed. With `SeenInv` (the send queue is
within its size; a queued request is in the buffer; sizes are sizes) each step of the
handler is a step of `ReplicaServer` or leaves what the client sees unchanged: a callback
is `ServeInit`, `ServeFinished` or `ServeUnsupported`, an exception or disconnect is
`Close`, completions are `ReplyLeaves` and `ReceiveFlushed`.

**ClientHandler** (`NoOpIsLost`, `ContextsAreLive`, `SourceIsSafe`, `ClientTypes`,
`AnswersFreeFrames`). `ClientInv` adds `HeldInTurn`: each thread holds an operation only
where its code does. `EndsInTurn` orders the end: `th1` leaves only after an event that
says the connection is down, main only after `th1`. `AnswersFreeFrames` is about the
behaviours in which no wait times out (`[]InTime`; after a timeout the late reply may
answer the next call). Its invariant `FrameInv` says that at most one callback refers to a
frame, that this is the frame of the call in progress, and that the call has no answer
yet; so the callback that answers it is the only one, and after it none is left.

**Types** (`BufferTypes`, `MessagesRoundTrip`, `KindsReadable`, `PairsReadable`,
`StaleDescriptorRefused`), for any buffer size, any strings and all numbers of their
widths. `BufferInv` says that the encoding of the message put last is what the buffer
starts with (`At`): `Overlay` keeps the length and the new bytes, and says nothing of the
tail. The rest is about bytes, not steps: `CacheInfoAt`, `DescriptorAt`, `RequestAt`,
`InitRequestAt`, `InitReplyAt` say of each class that wherever its encoding stands in any
buffer its decoder finds the value and stops behind it. They go through the fields in
order, from two lemmas on integers (the bytes of a number joined again are the number) and
one on strings. `StaleDescriptorRefused` goes the other way: the length in the header of a
plain message leaves no room for a descriptor, and a decoder that succeeded has moved on,
so `DECODE_FINISH` throws. A new buffer holds any bytes (`Fresh`: `bufferptr` does not
clear it); of an unwritten one the theorem speaks only where it is zeros.

**Replica** (`PromisesAreKept`, `SystemLosesNoOp`, `SystemContextsLive`,
`DescriptorStaysCurrent`, `NoWriteIsRefused`, `AnsweredClientLives`). `ServerInv` is the server's two promises with `Asked`; steps of
the composition are steps of the client or leave it alone, so the client's invariant
carries over. With `HandlerIsServer` the promises are those of the code.
`DescriptorStaysCurrent` is for scripts that call `init_replica` once, as `client.cc` does
(`OpensOnce`), and client calls that do not fail; the server's calls may fail, the
connection may break and the wait may time out. `DescriptorCurrent` alone is not
inductive: a request on its way would register a second region. `OnceInv` counts: there is
one request, which is not posted yet, posted, received or served; until it is served
nobody knows of a region, and from then on the server's reply buffer, the client's receive
buffer and the client's descriptor all say what is registered. Because the callback takes
three steps, `TakenInv` says what it has taken in between: the region there is, and the
flush type that is in `_flush_type` or about to be.

`NoWriteIsRefused` has the same hypotheses and says what holds of a reply that comes after
`init_replica` gave up. `Aimed`: a posted write or flush goes to the key of the region there
is, as long as the server is there and nothing was closed; `LinkInv`: a server that is gone
has lost its connection, so that no card is left to refuse. `AnsweredClientLives` also needs
scripts that open the replica and set the source before they write (`WritesPrepared`).
`First` says that there is one receive, and no answer before its callback is done; so a
callback that cannot decode its reply, or writes into a dead frame, runs while there is no
answer. `SourceInv` says that `set_head` has set the source, so an answered client has all
that `write` needs.

**Replica, in time** (`DescriptorCurrentInTime`, `CrashesOnlyReopeningInTime`,
`ReplicaInTime`; module `ReplicaInTimeProofs`). These are for any script, however often it
opens and closes the replica. They need what the run `replica` has: no call of either side
fails (a server that could not register sends its old reply again, a client that could not
keeps its old descriptor), and no wait ends before its reply (`[]InTime`). For the crashes
a script must also call `init_replica` and `set_head` before it writes (`WritesPrepared`).
`ReplicaInTime` derives `[]InTime` from the constants: `cost_time` starts at 0 and
`Slowest < Timeout`. Neither property is inductive; `TripInv`, with the client's
`FrameInv`, is:

* `Calls`: what each call leaves behind when it has returned. A callback belongs to the
  call in progress, `set_head` has set the source, and an answered `init_replica` has set
  the descriptor;
* `Said`: a reply that leaves was written, and before the first `close_replica` nobody says
  FINISHED. So an `init_replica` that gets a reply it cannot decode comes after a
  `close_replica`: the one crash that is left;
* `Turns`, until the first `close_replica`: at most one request is posted, received,
  answered or its answer read, and only while `init_replica` waits without an answer. So
  no region is registered once a call is answered;
* `Known`: a reply on its way describes the region there is, and so does the descriptor
  from the answer until the next request.

After a `close_replica` the second reply to FINISHED breaks `Turns`, which is why both
properties except what comes later.

Only model-checked: liveness (`ClosedIsReleased`, `RequestHandled`, `ReachesEnd`), which is
out of the prover's reach. The invariants and action properties of the passing runs are all
proved, under the hypotheses above; `RequestHandled`, `UnmapsWhatItMapped` and `FreedOnce`
of the violation runs do not hold.

## Not modelled

* `RpmaRead`, `RpmaWriteAtomic` and the two-argument `MemoryManager` constructor have no
  callers; `write_atomic` and `prepare_for_send` have no definitions.
* Logging, command lines, printing, and the file that `client.cc` reads back.
* Failure of small allocations (`make_shared`, `std::set`), and data races as such: where
  the two client threads touch `callback_table` at once the model orders their accesses.
* An overrun completion queue: the card waits for room instead.
* A wait that returns `NO_COMPLETION` changes nothing and is a stuttering step.
* A request that does not decode ends the server like any exception (`CompletionThrows`
  in `Reactor`) and is not among the requests of `RPMAHandler`.
* Outside `Types` a reply buffer nothing was put into does not decode, as a page of zeros
  does not (`StaleDescriptorRefused`); other old contents of that page are left out.
* librpma and the card beyond what the code relies on.
