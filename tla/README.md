# A verification of rtmp_platform

TLA+ models of the RTMP/RTSP server in `src/src`, checked with TLC and, where
it matters most, proved with TLAPS. Paths below are relative to `src/src`.

## 1. The system

The program accepts TCP connections (RTMP, RTSP, a plain echo socket), parses
what they send, and relays the streams some connections publish to those that
play them. Everything runs on four threads, each a *pool* of tasks:

| thread | handler of | does |
|---|---|---|
| Receiver (`receiver.cpp`) | `m_rcv_task` | polls and reads the sockets, parses, dispatches messages to the dealer |
| Dealer (`dealer.cpp`) | `m_deal_task` | handles messages: handshakes, commands, streams, relaying |
| Sender (`sender.cpp`) | `m_snd_task` | polls and writes the sockets |
| Director (`director.cpp`) | `m_cmd_task` | registers, closes and destroys the nodes |

Every connection, listener, timer and control channel is a *node* (`NodeBase`,
`datatype.h`) with one task and one message queue per thread.

### Components, their state and what makes them correct

* **Task words** (`BitDoor`, `tasker.cpp`): one 32-bit word per task; the low
  half has a bit for every event that came, the high half one for every event
  waited for. *Correct when* exactly one poster claims an idle or waiting task,
  none claims one that is owned, and END gets through any state.
* **Pools** (`Pooler`, `Service`, `Tasker`, `TaskWorker`): two intrusive lists
  (`m_tmp_list` under a spin lock, `m_node_list` private to the worker), a door
  word, an eventfd, `m_running`. *Correct when* no node is linked twice, no
  event is lost, the worker never sleeps on work, nothing follows the end of a
  task, and a stop is obeyed.
* **Director, receiver, sender, dealer, control node**: per node the run
  lists, `m_can_rd`, `m_can_wr`, `m_reason`, `m_fd_status`, `m_stop_deal` and
  the queues. They interact only by messages and posts. *Correct when* a node
  is taken from the threads one by one and destroyed once nobody uses it, every
  close completes, and data queued is written.
* **Timers** (`ticktimer.cpp`, `timernode.cpp`): two wheels of slots per
  thread, one timerfd. *Correct when* each timer is linked once, and fires at
  its tick.
* **Streams** (`payloads/streamcenter.cpp`, `invokepld.cpp`): streams by name,
  one publisher and many players, units (sub-streams) of a connection. All in
  the dealer. *Correct when* players and publisher always name live units and
  at most one publishes.
* **RTMP connection** (`rtmpnode.cpp`, `payloads/inputstream.cpp`): chunk
  reassembly in the receiver, header compression and chunking on output, the
  acknowledgement window. *Correct when* the reader makes of the bytes what the
  writer meant.
* **RTSP and RTP** (`rtp/`): a listener and its two RTP nodes, parent and
  children, which close together. *Correct when* none is let go while another
  still refers to it, and none waits for ever.
* **Message memory** (`cache.cpp`, `payloads/outputstream.cpp`): headers queued
  once, bodies shared and reference-counted with atomic instructions, vectors
  and partial writes. *Correct when* a body is freed with its last reference,
  never before and not later, and each byte queued is written once, in order.
* Left aside: configuration, text and number conversion, the handshake digest
  (OpenSSL), FLV dumps, HTTP text parsing, test programs, the OpenSSL headers.

### What is hard here

Interleavings of posters and workers on the task words; wake-ups; stop racing
start; the close protocol, which passes through eight queues and may be
triggered by three threads at once; the window between queueing a message and
posting its task; blocked writes, and writes that end anywhere in a vector;
counts that three threads change; the order of stream commands and of the
frames that cross them; compressed headers, which two ends must understand
alike; timers that pass from one wheel to the other under a counter that wraps;
parents and children that ask for each other's exit.
`PROJECT.json` ("hazards") lists each with its line and the property about it.

## 2. The modules

| module | models |
|---|---|
| `BitDoor` | the task word: what each operation leaves and answers |
| `TaskPromise` | what a pool promises: mailboxes served one at a time, ended once |
| `TaskPool` | a pool in detail: posters, worker, stoppers |
| `TaskPoolProofs` | invariants of `TaskPool`, and that it implements `TaskPromise`, proved |
| `NodeClose` | the order in which a connection is taken apart |
| `NodeLife` | connections in the hands of the four threads |
| `NodeLifeProofs` | its types, that no message is stranded, and that it implements `NodeClose`, proved |
| `NodeReachProofs` | that what a thread has ended is out of reach, and a destroyed node named nowhere, proved |
| `Family` | a parent and its children on top of `NodeClose` |
| `FamilyProofs` | that none of them is let go too soon, proved |
| `StreamCenter` | streams, publishers, players and the commands that change them |
| `StreamCenterProofs` | the references between streams and units, proved |
| `RtmpChunk` | header compression, cutting into chunks, and the reader |
| `RtmpChunkProofs` | all its properties, and the choice of headers, proved |
| `Delivery` | message bodies from receiver to senders, their counts and their bytes |
| `DeliveryProofs` | that the counts are those of the holders, and the bytes in order, proved |
| `Deadlines` | what a timer wheel promises |
| `TickTimer` | the two wheels |
| `TickTimerProofs` | that every timer is in its slot, and that the wheels implement `Deadlines`, proved |
| `MC...` (`TaskPool`, `NodeLife`, `Family`, `StreamCenter`, `RtmpChunk`, `Delivery`, `TickTimer`) | instances for TLC |

The parts fit together as the threads do. `NodeLife` takes of `TaskPool` what
`TaskPromise` says and the word operators of `BitDoor`; it assumes of the
dealer's sessions that nothing is sent or relayed to a connection after its
`onClose` (`Reachable`), which is `NoRelayAfterClose` of `StreamCenter` for
connections whose units keep their roles (`stopped_player` shows what becomes of
the others); and `StreamCenter` handles
whole messages, which is what `RtmpChunk` delivers. `Family` puts several nodes
together and takes of the close of each what `NodeClose` orders and
`CloseCompletes` says. `Delivery` follows what `StreamCenter` relays below the
level of messages, with joining, leaving and closing reduced to what they do to
bodies and bytes. `TickTimer` stands alone: each thread has a wheel of its own,
and the dealer's only callback is that of its timer.

Each module with a state machine also holds a few definitions marked *Mutant*:
plausible bugs, never used by the specification, that show that a property
depends on the code (`PROJECT.json`, "mutants").

### TaskPool

`Checkin` is the atomic instruction of `checkin`; a poster that has claimed the
task goes on with `Push` (`pushNode` under the lock), `Login` (the door),
`Fire` (the test of `m_running`) and `Alarm` (the eventfd). The worker goes
`lock`, `test`, `splice`, `walk` with `Visit`, then `ProcTask` or
`ProcTaskEnd` for each task, `release`, `wait`. `stopSvc` is `StopTest`,
`StopClear`, `StopAlarm`. A step of the model is one atomic instruction or one
critical section; the handlers' own work is not modelled here: a handler takes
some time (`cpc = "proc"`), during which anything may be posted, and returns
any value.

The lists are sets. Order is not lost by accident: no property depends on it,
and the worker may visit its list in any order, which includes the real one. A
node pushed twice would tear the C list; here it shows as a violation of
`SingleOwner`. `addBit` is a compare-and-swap loop and is taken as the one
successful exchange. The atomics of the code are full barriers; `m_running` is
a plain (volatile) flag, read and written in steps of its own.

`TimedWait` distinguishes the wait of the director and the dealer (blocking
read of the eventfd) from the poll with a time-out of receiver and sender. The
liveness runs use the blocking wait, where a lost wake-up would not be healed.

### NodeLife

Uses the pools through what they promise: a task is claimed by `Post` with the
operators of `BitDoor` and served by its thread. A handler's changes to fields
of a node are one step, since each field belongs to one thread; its effects on
other threads stay in `plan[th]` and are done one at a time: `queue` (under the
node's lock), `post` (after the unlock), handling the next message, `return`.
So every interleaving of queueing and posting among the four threads is there.
A queue and its task share a name `<<node, thread>>`; `m_xx_que_tmp` and
`m_xx_que` are one sequence, since only the serving thread moves messages from
one to the other and it does so before it uses them.

What a read parses to is abstract (any number of reports to be sent and of
messages for the dealer), and so is what the dealer does with a message
(`DealMsg`): it sends any number of units of data (`Director::send`) and relays
any number (`StreamCenter::publish`, `RtmpProto::recv`, `RtmpNode` `recv`,
`Director::dispatch`), in any order and each to any connection, its own among
them, whose session is not closed (`Reachable`), and then it may fail. A relay
is a message in the dealer's queue of the player, posted as any other, so that
frames pass from connection to connection. Data is counted in units; a write
may take all, some or none of what is queued, and a partial one at least one
unit and not all (`Unsent`). Failures happen where `Failing` says.

`Reachable` stands for what `streamcenter.cpp` guarantees while the units of a
connection keep their roles. A connection whose unit has left a stream for
another role may still be named by that stream when it is closed, and a relay
then follows a freed unit. That is undefined in the program and not modelled
here; it is the finding of `stopped_player`. Once a node is destroyed, what an operation does to its memory is not
modelled: the operation has no effect, and the properties speak of operations
that are still to be done.

### StreamCenter

All of it runs in the dealer thread, one message at a time, so an action is a
whole handler (`dealPlay`, `dealDelStream`, ...), with the calls into
`StreamCenter` it makes. What is concurrent is what waits in the deal queues: a
frame that was relayed (`relays`) names its unit by a sid, and any number of
commands may be handled before it. Commands and frames of the peer itself need
not be kept in a queue: nobody looks at them before they are handled.

`unit` is `m_unit`, with `m_ctx`, `m_oper_auth`, `m_blocked` and `m_is_pause`;
`publisher`, `players` and `avc` are the fields of a stream. A stream that has
not been created is the same as one nobody uses. The frames have a kind and,
as history, the versions of the headers they were published under.

`play`, `publish` and `pause` for a sid without a unit dereference a null pointer
in the log of their failure, and the process ends there; so does the behaviour.

Nothing else is asked of the unit: one that plays or publishes may be asked to
do so on another stream, or to do the other on the same stream. `m_ctx` and
`m_oper_auth` are overwritten and the stream it had goes on naming it, after the
unit has been freed, too. The model does the same. `moved` remembers, for the
properties only, the pairs of a connection and a stream that one of its units has
left in this way (`Leaves`), and `MaxMoves` bounds how many there are in a run.
What the stream then follows is freed memory, of which the model assumes no
more than that it still holds the connection and the sid.
`StreamsNamePublishers`, `StreamsNamePlayers` and `ClosedIsForgotten` hold of
every pair that is not in `moved`, `NoRelayAfterClose` of connections that have
none there, `UnitsAreNamed` and `SkipsToKeyFrame` of all; and
`StoppedIsNotPlayedTo`, which excepts nothing, is violated.

A handler that fails stops dealing with the messages of its connection and asks
for the close (`Fail`: `m_stop_deal`); its units stay, and are relayed to, until
the `STOP` of the close protocol comes (`Close`), which it does to connections
that have not failed as well.

### RtmpChunk

The wire is a sequence of *parts*: the fields the reader takes at once, each
with its length, so that a piece of any size may arrive (`FillSome`, `Filled`,
which are the two ways out of `fill`). The bytes are not modelled, but where
each part ends is: a reader that expects another part, or another length, than
the one on the wire has lost its place in the stream of bytes (`InStep`).

A writer starts a message (`Start`: `adjustHeader` with its update of
`m_chnnOut`), then sends one chunk at a time (`SendChunk`, a turn of the loop
in `sendPkg` or `sendPayload`), the first behind the header as `buildHeader`
makes it. `StartOurs` takes the format this program chooses, `StartPeers` any
format the protocol allows; the chunks of different chunk streams alternate
freely. A peer does, as this program, not repeat the long time field in the
chunks that continue a message. The reader has an action for each state of
`m_rd_stat`; `begChunk` and `endChunk` are operators that all of them use.

This program never sends a message without payload, but it updates
`m_chnnOut` for it (`SkipOurs`). From then on the writer counts on a header
the reader has never seen, until it sends a full one. `skewed` remembers the
chunk streams where that is so; the properties hold of all others, and, with
the first full header, of these again.

Each chunk stream has one writer at a time. That is so for all but the control
stream, which the receiver (`sendBytesReport`) and the dealer write.

### Delivery

The receiver of a publisher, the dealer and the senders share bodies and change
their counts with atomic instructions. So a step changes one count (only
`CacheAvc`, which drops one body and takes another, changes two): what a
handler of the dealer does is a `job`, the list of the calls it has yet to
make (`Relay`, `SendData`, `Cache`, `FreeMsg`, ...), and every other thread may
come between two of them. The message that is being handled is counted until the
`free` of the job. A body is counted by who holds it (`Holders`), never by the
steps that were taken.

What a body contains is left out; the *bytes* of a player are numbered as they
are queued. `Offered` is what `sendQue` gives the socket, cut at the pieces of
a vector and at the size of one send, and the socket takes any number of them
(`Write`). From then on `owed` is the `maxlen` of `prune`: what the socket has
taken and the queue still holds. `Prune` is one turn of its loop, which takes
the first message from the queue and frees it (`Sent`) or leaves a part of it
(`Remains`); messages are queued meanwhile, as in the code, where the sender has
moved those it writes to a list of its own. A reply (`sendData2`) is copied
and refers to no body; it may be queued by the receiver, too, while the dealer
is in the middle of a message of several chunks.

The headers a stream keeps are one kind here. `RecvCtrl` are the messages that
are used up where they are read. `Unpublish` is the notice that `FCUnpublish`
sends to each player (`Notice`) and lets go of before it drops the headers.
A connection that is destroyed frees the messages in its queues one by one
(`FreeSends`, `FreeDeals`), then those it was in the middle of reading
(`FreeInput`), while the other threads go on with the same bodies.

### TickTimer and Deadlines

`Tick` is one call of `tick`: the wheel goes on by one, however many
expirations the timerfd reports (`tick(cnt)` does not use `cnt` to move). A slot is a set;
the order in a list decides in which order timers of one tick fire, and nothing
else. `m_time`, which nobody reads, and `m_base`, which names the one wheel of
the thread, are left out. `procTimeout`, the only callback, arms the timer
again, so `Tick` takes a due timer from its slot and places it with its
interval.

`Deadlines` knows no wheels: an armed timer has a number of ticks left.
`Promised` says what an interval comes to in this code: exactly itself from one
to a full turn of both wheels, a turn of the first wheel for zero, and for a
longer one some full turns of both less. Each of these is what `Left` gives in
the wheels, across the move of a timer from the second wheel to the first and
the wrap of the counter.

### Family

The RTSP listener creates an RTP and an RTCP node and is their parent. All
handlers are the dealer's (`onClose`, `onChildExit`, `ALLOW_EXIT`); the other
threads appear as far as they take a node through the phases of `NodeClose`
and put a `STOP` into its queue. A child that is closed reports to its parent
and waits; the parent strikes it off and allows it; a parent that is closed asks
the director to close its children and allows itself when it has none left.
Children may fail before, while or after the parent does, and any number of
requests may be under way for one node; the first counts.

## 3. The runs

| run | instance | shows |
|---|---|---|
| `pool_safety` | 2 tasks, 2 posters, 1 stopper, one condition, timed wait | no task linked twice (`SingleOwner`), none touched after its end (`NothingAfterEnd`), no END lost (`EndNotLost`), no sleep on work (`NoSleepOnWork`), the invariants behind them (`OwnershipInv`, `WakeInv`), refinement of `TaskPromise` |
| `pool_live` | 2 tasks, 1 poster, 1 stopper, blocking wait | every event and every end is served while nobody stops the service (`EventsServed`, `EndServed`), the fairness of `TaskPromise` (`ImplementsFairPromise`), a stop that found the service running ends the worker (`StopServed`) |
| `life_two` | a publisher, and a player that fails anywhere, 2 units of data | with relays into the queues of a connection that is being taken apart: no stranded message (`MailHasBell`), ended tasks out of reach (`EndedIsUnreferenced`), nothing refers to a destroyed node (`NothingLeftBehind`), the order of `NodeClose` (`ImplementsClose`) |
| `life_live` | 1 connection failing in receiver and sender, 2 units of data, fair threads | a close completes (`CloseCompletes`); whatever writes take and however they block, data is written to a peer that reads, or the connection is closed (`DataSent`) |
| `late_post` | 1 connection, no data | **violated**: a post to a destroyed node |
| `family` | the listener and its two children, fair dealer | none is let go while a pointer, a report or a message still names it (`NobodyLeftTooSoon`), a child that fails and a family whose parent fails are destroyed (`FamilyCloses`) |
| `stream_refs` | 2 connections with one unit each, 2 streams, every command, 2 streams left by a unit for another role | but for the streams left, streams and units name each other rightly (`StreamsNamePublishers`, `StreamsNamePlayers`, `UnitsAreNamed`) and a closed connection is forgotten (`ClosedIsForgotten`, `NoRelayAfterClose`); resuming starts with a key frame (`SkipsToKeyFrame`) |
| `stream_headers` | 1 stream, up to 3 headers, units that keep their roles | no frame is sent before the headers it was published under (`HeaderFirst`) |
| `stopped_player` | 1 connection, 2 streams | **violated**: a stream goes on relaying to a unit that has played another one since and has been freed |
| `chunks` | 3 chunk streams, one of them of 2 message streams | the reader stays in step (`InStep`), has the writer's header between messages (`HeadersAgree`), and receives what was sent (`DeliveredAsSent`) |
| `delivery` | a publisher and a player, both of which may close, 2 bodies, messages of 2 chunks | a count is the number of holders, and a body is freed with the last (`RefsCountHolders`); no byte is lost, doubled or swapped (`BytesInOrder`) |
| `timers` | 2 timers, wheels of 3 and 2 slots, a counter that wraps at 12 | a timer is in one slot, its own, and counted once (`InOwnSlot`); refinement of `Deadlines` (`KeepsDeadlines`) |

**Bounds.** Two posters are enough to race for one task, and the third racer is
the worker. Two tasks give a list with a head and a tail; tasks interact only
through the list, the door and the eventfd. One condition is enough, since a
task waits for one at a time; events other than it behave like `NORM`. For
`NodeLife` one connection already has four threads and six queues, two of them
the control queues; `MaxData` bounds the units of data, each of which takes
part in several races. Two of them are needed for a partial write, which takes
one and leaves the other (`life_live`), and for a relay, which is a message to
the publisher and one to the player (`life_two`). In `life_two` the constraint
`PublisherAndPlayer` keeps the first connection to its part (its socket is never
writable, and the player's never readable) and accepts the player when the
publisher is known to receiver and sender; the player may fail in all three
threads, so that its close meets relays under way. Its properties are safety
only, so that a constraint is sound: it leaves states out and adds none. Two
connections that both publish, play and fail are the subject of the theorems,
which have no such bound.
In `Family` the two children are all the code has; one datagram at a time waits
for a node, as more would be handled alike.
For `StreamCenter` two connections are a publisher and a player, and either may
be both; two streams let a unit be registered with the wrong one and leave one
for the other, twice (`MaxMoves`); `MaxRelays` frames wait at once, in all queues
together, so that the unit a frame names can change under it, and `MaxVersion`
headers follow each other. `stream_headers` has `MaxMoves = 0`: `HeaderFirst`
says nothing once a unit has left a stream for another role. (The theorems are
for any number of all of these.) In `RtmpChunk` the constants are scaled down: times run modulo 4
with the long field from 2 on, so that all three of a plain, a long and a
wrapped time occur with every format; chunks start at one byte and grow to two,
messages have two, so that they are cut or not; headers have fewer bytes, but
more than one. `MaxDue` and `MaxWire` keep one message of each chunk stream and
one chunk on their way; three chunk streams may all be in the middle of a
message. A writer that is further ahead writes the same chunks, as it does not
look at the reader, and the reader reads them one after the other, so nothing
new would be found; the theorems are for any bounds and sizes.
In `Delivery` two bodies let one be kept as a header or be freed while another
is on its way. A message is cut into two chunks, the second with a head of one
byte, and four bytes and three pieces are offered at a time, so that a write can
end in a head, at its end, in a body and in a second message, and the vector
can be cut within a chunk. Joining and replies stop at `MaxBytes` queued bytes.
A second player takes its share of a body in the same steps; with one player
bodies are shared already, by the stream, both its queues and the publisher's.
In `TickTimer` the intervals (`Edges`) lie on both sides of every boundary: zero,
a turn of the first wheel, one of both, and beyond, and the counter wraps after
two turns of both wheels.

**Deadlock** is checked for the pools and the timers. In `NodeLife` and `Family`
it is not: the behaviour ends when all of the few nodes have been destroyed.
`StreamCenter` and `Delivery` end when all connections are closed. In
`RtmpChunk` a stream of bytes may end at any point, and reads and writes
alternate under the bounds.

**Fairness.** Threads are scheduled (weak fairness of the worker, of a poster
in the middle of a post, of a stopper in the middle of a stop) and handlers
return. That events are served is claimed of behaviours in which nobody stops
the service. In `NodeLife`, strong fairness of serving a task is what
`pool_live` establishes of a pool (`ImplementsFairPromise`); `life_live` assumes
a little less (`OneFairSpec`): with one connection, dealer and director have one
task each, and weak fairness of serving it is enough. Which thread asks for a
close makes no difference to what follows (the request is the same message), but
receiver and sender also give up a task they have failed with; so these two may
fail in `life_live`, and the dealer, too, in the other runs. In `Family`, that
the close of one node goes on is `CloseCompletes`, and that the dealer serves
each node `EventsServed`. Nobody is assumed to post, to fail or to close.
`DataSent` assumes a peer that reads (`PeerReads`). The other modules state
safety only and assume no fairness.

**The two violations.** `late_post`: `direct()` posts a node's command
task after releasing the lock. If the posting thread is delayed there, and an
earlier request to close the same node has its post still to be served, the
director finds the message in the queue, the close runs to its end, and the
delayed post writes to the freed node. `NothingLeftBehind` shows that this post
is the only such access. `stopped_player`: a unit that plays a stream is asked
to play another one and is then deleted; `stopUnit` takes it from the second
only, and the first goes on naming it. In the program the next frame of the
first stream is then relayed through freed memory. The same holds of a
publisher, whom `releaseStream` follows.

**Not claimed.** Two more things the models do, as the code does, and that no
property forbids. `stopSvc` is a no-op until the new thread has set `m_running`
(`StopTest`), so a signal during `Director::start`, or the teardown of a thread
that has already ended, misses the threads not yet running, and `Director::join`
waits for ever; `StopServed` speaks of the other stops. And a player may delete
its stream while a frame waits in its deal queue: `dealFlvData` then finds no
unit, or another one that has got its sid, and returns -1 if there is none, for
which the dealer closes the connection, though the peer did nothing wrong
(`NoFlv`).

## 4. The proofs

### Pools

For any sets of tasks, posters, stoppers and conditions, from
`CondsAssumption` (no condition is called LOCK, NORM or END) and
`PoolAssumption` (`NoTask` is not a task) only.

* `TypeCorrect`: types, and which thread is where when it holds a task.
* `Ownership`: the invariant `OwnershipInv`. `SingleOwner` is not inductive:
  that no second poster claims a task depends on its word. So `TaskInv(t)`
  relates the word of each task to its place: an owned task has a word no event
  claims (`OwnedWord`), an unowned one that has not ended waits for one event
  or none (`WaitingWord`), an ended one stays locked. Each action has a lemma
  (`OwnCheckin`, `OwnPush`, ...), since at most one task is touched by a step
  and the others are covered by `Untouched`.
* `SingleOwnership`, `EndIsFinal`, `EndIsKept` follow.
* `WakeUp`: `WakeInv` relates the door, the eventfd, the place of the worker
  and the posters in flight; `NoLostWakeUp` follows.
* `Refinement`: every step of `TaskPool` is a step of `TaskPromise` or leaves
  its variables unchanged; one more invariant (`ArrivalInv`) says what a task
  in `m_tmp_list` looks like.

### The life of a connection

For any connections, from `LifeAssumption` (the control node is no connection,
no status of a descriptor is one, as a message carries either, and the
conditions are the three of the code), wherever they may fail.

* `TypeCorrect`: every message is one its queue can have, every planned
  operation one its thread can do. `TypeOK` alone is not inductive: that a
  handler finds only messages it knows depends on where they are queued. So
  `FittingOps(th)` says which operations a plan of `th` may have, and each
  handler has a lemma (`ReadTypes`, `WriteTypes`, `HandleTypes`, ...).
* `NoStrandedMail`: `MailHasBell`. It rests on two facts it does not say. First,
  whoever queues a message posts the task of that queue next (`Paired`), so that
  there is no moment in which nobody is about to. Second, a handler that
  returns without waiting for a condition has emptied the queue before, so that
  what is in it came later and was posted after; a `NORM` is kept in the word
  of an owned task and lets no return give the task up (`EventStays`,
  `CheckoutWaits`). `Bell(x)` says of every task that has not ended where its
  bell is, and is inductive.
* `ClosesInOrder`: every step of `NodeLife` is a step of
  `NodeClose` or leaves the phases unchanged. What makes the order hold is that
  each stage of a close waits for one message, its letter, or for the END of
  one task, and that there is only one of these on its way. `Letters(n)` are
  the eight letters, with the thread that writes each and the task it is for;
  `Once(k)` says that it is at most once in the plan of its writer, in the
  queue or among the messages being handled, in one of the three only. The
  invariant `CloseOK(n)` says that only the letter of the present stage is out,
  that an END is out only when no letter is, and that the marks of the node
  (status, reason, ended tasks, session) are those of its stage. Each step is
  one of four kinds for a node: it leaves the node alone (`QuietStep`), moves a
  letter (`LetterQueue`, `LetterDrain`), answers a letter or an END by the next
  letter (`Advance`), or answers a letter by an END (`Finish`).
* `EndedIsOutOfReach` (`NodeReachProofs`): `EndedIsUnreferenced`. The property
  says that nobody may reach an ended task; the invariant `ReachInv` says who
  may reach a task at all, and why that is nobody once it has ended. `Service`:
  a task that is being handled or has ended is held by its word, so that no post
  claims it; a handler queues and posts before it does anything else and returns
  last, so that a thread that ends its task has nothing more to do for it.
  `AccessOK`: receiver, sender and dealer act on each other's tasks of a
  connection only while they have not ended their own; what the dealer sends to a
  sender, it sends only until `onClose`, and what it relays to its own queue of a
  connection, only before it has ended that task (`ReachableLive`); so the order of the close (`CloseOK`)
  puts every such act before the end of the task acted on. The one exception is
  the director, which posts the dealer's task after the STOP it has queued.
  `Unpolled`: no thread polls for a task it has ended. This last one needs
  `Ordered(n)`: the registration of a connection and the letters ADD_FD come
  once, before DEL_FD and to a thread that has yet to end the task (`RegistOK`,
  `AddOK`), and for a connection not yet registered nothing is under way but its
  registration (`FreshOK`), as data goes to registered ones only; otherwise a
  late ADD_FD would bring back what DEL_FD has removed.
* `DestroyedIsUnnamed` (`NodeReachProofs`): `NothingLeftBehind`. Ended tasks do
  not suffice here: no message, planned or queued, for any task or the control
  node, may carry a destroyed node. The invariant `LeftInv` adds to `ReachInv`
  three facts. Messages keep their address (`AddressOK`): what is queued for a
  task of a connection names that connection or none, and the control node gets
  nothing but ADD_FD and DEL_FD, which the order of the close has used up. A
  thread that has ended its task of a connection plans nothing more for it
  (`MayPlan`; each handler is shown to plan only what is `Proper`). What such a thread had planned before, a request
  to close, comes before the message by which it says that it has ended
  (`AskOK`): when the director has all three of these and destroys the node
  (`GoneOK`), nothing but the late post of its own task is left.

### Parent and children

For any number of children, from `FamilyAssumption` (the parent is no child):
`TypeCorrect` and `LeftInTime` (`NobodyLeftTooSoon`). The invariant `FamilyInv`
follows each child through its reports (`ChildOK`) and the parent through its
wait (`ParentOK`): while the parent names a child its report is still to come
or is in the queue, and once struck off it is allowed exactly once.

### Timers

For wheels of any size, any timers and intervals, from `TimerAssumption` (the
counter wraps at a multiple of a full turn, as 2^32 is of 2^16): `TypeCorrect`
and `SlotsSound` (`InOwnSlot`). The two are inductive together: that `m_size`
is never negative needs that it counts the linked timers.

`MeetsDeadlines` is the refinement of `Deadlines` (`KeepsDeadlines`), under that
invariant. The arithmetic comes first: quotient and remainder are the only ones
(`DivModIs`), so whole turns change no remainder (`Turns`) and the wrap of the
counter no slot (`WrapSlots`). What `Left` shows of a timer drops by one at each
tick in the first wheel (`NextTick1`) and in the second, where at the tick its
slot moves it is what is left to its slot in the first (`NextTick2`); when a
timer is placed it is what its interval promises (`ShortInterval`,
`LongInterval`). Then each action is one of `Deadlines`: adding is `Arm`,
deleting and stopping `Disarm`, and a tick of the wheels is a `Tick`.

### Streams

For any connections, streams, numbers of units and commands, from
`StreamAssumption` (`NoStream` is no stream, `Nobody` no unit).

* `TypeCorrect`: types, and that a unit which plays or publishes has a stream.
* `ReferencesSound`: whatever the peers ask, the stream a unit plays or publishes
  on names it, and a stream names no other unit but those of connections with a
  unit that has left it for another role (`moved`). The inductive invariant is
  `RefInv`: the types of the references, the three properties together (each
  needs the others: `StopUnits` finds the stream to leave through the unit,
  `DealReleaseStream` the unit through the stream), and that a connection that
  is closed has no unit. Only `RegPlayer`, `RegPublisher` and `StopUnits` change
  references, and each has a lemma; `SameOpersOK` is for the steps that change
  flags of a unit only.
* `PublishersNamed` and `PlayersNamed` are the other two parts of it, and
  `Forgotten` and `NothingRelayed` follow: what is relayed goes to players, and
  a closed connection has none, unless a stream it left still names one.
* `SkipsToKey` (`SkipsToKeyFrame`) excepts nothing: a unit that
  missed frames is blocked (`MissedIsBlocked`), and only a key frame, or a new
  start, unblocks it.
* `HeadersFirst` (`HeaderFirst`) is about peers that are `Steadfast` (no use of
  pause, deleteStream or FCUnpublish) and whose units have kept their roles; each
  of these may really part a player from a header. `HeaderInv` says of every player and header that
  they are `InTurn`: what the player has been shown once it has dealt with the
  frames of its queue up to a given one (`ShownAfter`, the last header before it
  or else the one shown already) is what that frame was published under, and
  after the whole queue what the stream keeps. So a frame that is appended finds
  the header its publisher has made, for that is what the stream keeps
  (`MadeIsKept`), a player that joins is shown the same, and a unit waits for
  relayed frames only while it plays (`RelaysPlay`).

### Chunks

For any messages, sizes of headers and chunks, bounds of what is on its way and
any modulus of the times, from `ChunkAssumption` (the sizes are natural numbers, a
message that sets the chunk size has a payload, NULL is not a message).

* `TypeCorrect`, and with it that the reader never expects more than a chunk or
  than the rest of its message.
* `OurHeaderAllowed`: what the header `adjustHeader` chooses leaves out is what
  the last header of the chunk stream said, as the protocol demands of any
  writer. `HeaderUnderstood`: from any header that is allowed after the one it
  has kept, the reader restores the time, across the wrap, and takes over what
  is left out. Both are statements about the operators.
* `OursConform`: so every message this program starts is one a conforming peer
  could start (`StartOurs` is a case of `StartPeers`), until a message without
  payload is left out (`SkipOurs`).
* `ReaderInStep` (`InStep`), `SameHeaders` (`HeadersAgree`) and `AsSent`
  (`DeliveredAsSent`): reader and writer stay together, whatever is on the wire
  and wherever the pieces that are received end.

The last three rest on one invariant, `AgreeInv`. What is on the wire was
written with the writer's state of then and will be read with a state the
reader does not have yet, so the two ends cannot be compared part by part. The
invariant compares them at the end instead: there is a run of the reader, from
its state now over all that is on the wire (`Reads`), each part being the one
that is expected and each message received the one that was due (`Fits`), to a
state the writer counts on (`Synced`): the same chunk size, and for each chunk
stream either the same last header and nothing begun (`Rested`), or just as
much of the message as the writer has sent (`Busy`). Each step of the reader takes
the first part of the run (`ReadsFirst`), or some bytes of it (`ReadsPartly`);
each step of a writer adds to the end (`ReadsOn`, in `SendTail`), or makes one
message more due (`ReadsMore`). `InStep` is then what the invariant says of the
first part, `HeadersAgree` what it says of the end, as a run changes
nothing of a chunk stream of which nothing is due (`Quiet`). For the chunk streams
in `skewed` the run only has to keep the lengths, which is why a message this
program leaves out never costs the reader its place in the bytes: a header that
leaves out the length repeats that of a message of at least one byte, which was
sent. The states in between are under a quantifier, as what a prophecy
variable would hold: the end as a recursive function of the wire would need
induction over the wire in every step.

### Delivery

For any players, bodies, chunks of a message and bounds of a write, from
`DeliveryAssumption` (the publisher is no player, there are finitely many
players, `NoBody` and the mark `STOP` are not bodies, chunks have numbers of
bytes).

* `DeliveryTyped` and `CountsHold` (`RefsCountHolders`) rest on one invariant,
  `Inv`. That each count is right now does not tell that it stays right: a step
  of a job that takes a reference (`Relay`, `SendData`, `Cache`) must find the
  body alive, and one that lets go must own what it gives up. So `JobInv` says
  of what the dealer has yet to do (`Good`): whatever it does with a body comes
  before the `free` of the message in hand, or is the sending of the header the
  stream keeps, to a player that has just joined (`Backed`); there is one
  `free`; and the header is dropped last, by a job that caches none. A body that
  is used has a holder (`WorkHeld`) and, as the counts are right, is not freed.
  The holders in queues are counted as sets of places: a message more or less is
  a place more or less (`PlacesAppend`, `PlacesTail`), in the queues to deal
  with and, through the bodies their messages name, in those to send. Then a
  step gives one reference (`Gains`, `RefsGain`), takes one (`Loses`,
  `RefsLose`) or none.
* `NoByteLost` (`BytesInOrder`): `BytesInv` says the same in a form each step
  can be checked against (`Ordered`): byte i of the socket has the number i, and
  the bytes of the queue go on from there, but for the first `owed` ones, which
  the socket has. What a write is offered are the first bytes of the queue
  wherever the vector is cut (`OfferedFirst`): leaving out empty heads and
  bodies changes nothing of the bytes (`PiecesAll`). Then the four ways to change
  a queue keep the order (`OrderedWrite`, `OrderedQueue`, `OrderedSent`,
  `OrderedRemains`).

`PiecesAll`, and that flattening a prefix gives a prefix (`FlattenPrefix`), are
inductions over sequences. They are done with sets: a set of sequences that has
the empty one, and with each also every one longer by an element, has all
(`InductiveSeq`), by the least number that a set of numbers lacks
(`Inductive`).

### Only model-checked

Everything under fairness, for the prover has no liveness of this kind: that
events and ends are served, that a stop ends the worker and the pools are as
fair as `TaskPromise` says, that a close completes, that a family closes and
that data is written. And the two violations.

## 5. Not modelled

* The acknowledgement window of a connection, whose counters wrap, and the
  header state of the control chunk stream in the hands of two threads (a data
  race, listed in "hazards").
* Time stamps of the streams, the handshake, the replies to commands and the
  control messages: sequential computations over bytes and numbers.
* RTSP requests, which are text answered on the spot, and RTP packets, which
  are decoded and logged only. The sessions and ports of `rtp/sesscenter.cpp`
  and `rtp/resmanage.cpp` are made but never used by the running server.
* Start and join of the threads and `freeNodes` at exit; the tasks of the
  listeners themselves; setup and teardown of the threads; the timerfd, and the
  messages that carry a tick to a thread, which are posted as any other.
* System calls: their outcomes are the nondeterministic answers of polling,
  reading and writing. Locks and threads are the atomic steps of the models.
* Text and number conversion, HTTP parsing, configuration, FLV dumps, test
  programs. Most of the lines of the repository are third-party headers
  (OpenSSL).
