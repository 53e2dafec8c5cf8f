# TLA+ model of py-amqp

py-amqp is an AMQP 0-9-1 client library: an application in one thread calls
methods of a `Connection` and its `Channel`s, the library talks to a broker over
a socket. This directory holds a TLA+ model of its core, TLC configurations that
check it on small instances, and TLAPS proofs for all instances. `PROJECT.json`
maps every definition to the lines it models.

## 1. Inventory

| Component (source in `src/amqp/`) | State | Operations | Hard because |
|---|---|---|---|
| method table (`spec.py`) | - | which reply answers which request | - |
| `AbstractChannel` (`abstract_channel.py`) | `_pending` (one-shot promises), `_callbacks`, `is_closing`, `connection`, `channel_id` | `send_method`, `wait`, `dispatch_method` | `wait` dispatches methods of every channel; handlers call the application, which calls the library again; exceptions of any handler leave through whatever call is waiting |
| `Channel` (`channel.py`) | `is_open`, `callbacks`, `cancel_callbacks`, `no_ack_consumers`, `_confirm_selected` | the AMQP methods, `close`, `collect`, revival after a channel error, the handlers of what the broker sends | crossing closes, revival in the middle of another call, consumers that come and go, publisher confirms |
| `Connection` (`connection.py`) | `channels`, `_used_channel_ids`, `_transport`, `is_closing`, negotiated limits, counters for heartbeats | `connect` and handshake, `channel`, `drain_events`, `close`, `collect`, `heartbeat_tick` | teardown while calls are suspended, ids running out and being reused, broken sockets, timeouts |
| frame handler (`method_framing.py`) | per channel: expected frame type, partial message | `on_frame` | frames of channels and heartbeats interleave |
| frame writer (`method_framing.py`) | shared buffer | `write_frame` | boundary between the one-write path and the frame-by-frame path |
| transport (`transport.py`) | socket, read buffer, `connected` | `connect`, `read_frame`, `write`, `close`, `having_timeout` | timeouts in the middle of a frame |
| serialization (`serialization.py`), message (`basic_message.py`) | - | `dumps`, `loads`, tables, properties | bit packing, widths, nesting |
| SASL (`sasl.py`), exceptions, platform, utils | - | - | - |

Interaction: the application calls `Channel`/`Connection`; these write through
the frame writer and the transport, then loop in `wait`, which calls
`Connection.drain_events`; that reads a frame from the transport and gives it to
the frame handler, which calls `on_inbound_method` for a complete method, which
calls `dispatch_method` of the channel with that id, which runs the handler (and
through it the application) and the one-shot promise of the waiting call.

What makes each part correct:

* wait/dispatch: a reply goes to the call that asked for it; no promise outlives
  its call or is lost; every call ends.
* channels: client and broker agree which channels are open; an id is reused
  only when nothing of its last channel is under way; no method is sent on a
  channel that is not open; a delivery reaches the callback of its consumer; a
  confirmed publish was acknowledged.
* connection: the registry of channels agrees with the objects; close tears
  everything down, also when the socket breaks.
* reading: whole methods reach each channel once and in order, whatever frames,
  heartbeats, timeouts and errors lie between; no byte is lost by a timeout; a
  call with a timeout ends once the broker is silent.
* writing: what is decoded is what was encoded; frames fit frame_max and the
  buffer; the broker reads the methods that were written.
* session: client and broker hold the same limits; `connect` ends; heartbeats
  leave in time, and silence is noticed in time and never falsely.

The hazards are listed, line by line, in `PROJECT.json`, with the properties that
would catch each going wrong. Where the code meets a hazard badly and a property
leaves the case out, the hazard names no property and its note says so.

## 2. Modules

Four models, each with its MC module; a module EXTENDS the ones it names.

| Model | Modules | View of the others |
|---|---|---|
| calls | `AmqpSpec` -> `AbstractChannel` -> `Channel` -> `Broker` -> `Connection` -> `ConnectionProperties` -> `MCConnection` | receives whole methods, as `MethodDelivery` promises; an opened session |
| inbound | `Transport`, `FrameHandler` -> `Reader` -> `MCReader`; abstract `MethodDelivery` | a broker that sends frames |
| outbound | `FrameWriter`, `Serialization` -> `Writer` -> `MCWriter` | a broker that parses frames |
| session | `Handshake`, `Heartbeat` -> `Session` -> `MCSession` | whole methods of channel 0; frames only as traffic |

The seam between the first two is the refinement `Reader!Implements`: what the
reader does with bytes is the delivery of whole methods per channel that
`AbstractChannel` starts from.

The calls:

* **AmqpSpec**: names of methods, requests and their replies, the shape of a
  method on the wire (channel id, name, consumer tag, nowait, no_ack). `rid`
  numbers the call a method results from; it is history that no guard reads.
* **AbstractChannel**: the calls in progress form the variable `stack`. A frame
  is a `wait()` (named for the method it is the tail of), a `drain_events`, or a
  callback of the application. Only the top frame runs. `wait` registers a
  promise in `pending` (the depth of the frame stands for the promise) and
  remembers what it displaces (`prev`, the code's `prev_p`); the frame is popped
  by a return or, while `exc` is set, by unwinding, and both run the finally
  clause (`Restored`). `Dispatches`, `OneShot`, `CallBack`, `Discard` are
  `dispatch_method`; a handler that ends in application code pushes a callback
  frame that carries the one-shot promise still to be called (`shot`).
  Object 0 is the connection, as in the code. A collected connection is
  `~connection[0]`.
* **Channel**: one action per public method and per handler. Methods that differ
  in their arguments only share `Simple`. What follows a wait inside a method is
  an action of its own (`ConsumeReturns`, `CloseReturns`, `ReviveReturns`,
  `SelectReturns`, `PublishWrites`). `basic_publish` is the plain method or
  `basic_publish_confirm`, by `ConfirmPublish`.
* **Broker** (external, modelled from what the client relies on): methods of one
  channel are handled in order, channels independently; a broker that has closed
  a channel drops what arrives until Close-Ok; a method on a channel that is not
  open costs the connection (`bconn = "failed"`). Of its own accord (`Events`) it
  delivers, cancels, closes, blocks, and the socket may break, losing any suffix
  of what is under way to the client. A write that is lost is a write followed
  by a break before the broker reads.
* **Connection**: ids, `channel`, `drain_events`, `close`, `collect`, the
  handlers of channel 0, and the composition. `Idle` stutters only when no call
  is in progress, so a TLC deadlock is a call that hangs.

`alone` in a frame is history: since its request was sent, no other request with
the same reply was outstanding on the channel, those the broker answers but nobody
waits for included (`queue_unbind` with nowait, `basic_recover`). It scopes
`ReplyMatches`: AMQP replies carry no number, so that with two such requests the
client cannot tell the replies apart.

The inbound side:

* **Transport**: `read_frame` and the `_read` of TCP and SSL sockets. A byte is
  its position in the stream, so that a lost, repeated or moved byte shows; seven
  bytes that are not exactly a frame's header unpack to garbage. `reading` is
  where `read_frame` stands; `recv` returns any number of bytes up to what was
  asked for. `mode` is how a recv without data ends: it waits, raises
  `socket.timeout`, or fails with EAGAIN (`timeout=0`, `read_timeout`), which only
  the first read of a frame turns into a timeout.
* **FrameHandler**: `on_frame`, one action per way it ends, with
  `inbound_header` and `inbound_body` in `Received` and `Ready`.
* **Reader**: `drain_events` and `blocking_read`, and a broker (external) that
  sends methods with and without content on two channels, heartbeats, frames of a
  wrong type, frames without frame-end, and that ends the stream. After an
  exception the application may read on.
* **MethodDelivery**: the abstract specification: per channel, methods are sent,
  and delivered once, whole, in order.
* **MCReader**: adds `Renumber`, which starts the numbers of bytes and frames again
  while the stream has carried no method and all of it has been handled. No action
  depends on frames of the past, so this changes nothing but the history, and it
  makes finite a model in which the broker sends heartbeats for ever.

The outbound side:

* **Serialization**: `dumps`, `loads`, tables, arrays, items and properties as
  recursive operators over bytes of `W` bits (two, so that the largest values of
  1, 2, 4 and 8 bytes are small numbers).
* **FrameWriter**: `write_frame`: `WriteSlow` frame by frame, `WriteFast` through
  the shared buffer, `WriteOverflows` when `pack_into` fails; `Tune` changes
  `frame_max` and leaves the buffer. `write` may be cut short by a timeout
  (`connected` stays) or a failure, after any frame or inside one.
* **Writer**: `send_method` and `send_heartbeat` over both, `dumps` on its own
  (`Probes`), and a reference reader of frames (`Parsed`) for `BrokerReads`.

The session:

* **Handshake**: `connect` (returning at once, failing, or going through the
  handshake), the handlers of Start, Secure, Tune, OpenOk and Close, `collect`,
  the choice of a mechanism (`Usable`). The broker (external) offers mechanisms
  and limits, challenges, refuses or vanishes. Handlers run in whichever call
  reads: `connect` or a later `drain_events`.
* **Heartbeat**: `heartbeat_tick`. Times are kept as ages, counters as "changed
  since the last tick", so the state is finite without a clock.
* **Session**: the composition, with time in the first session. The application
  ticks at least every `Period`.

The definitions marked "Mutant" state plausible bugs; TLC finds a property
violated when one of them replaces the definition that follows it. No
specification uses them.

### Constants

`ChannelMax`, `NumChans`, `Tags` size the model of the calls. `Requests` and
`CallbackRequests` say what the application calls, outside and inside callbacks;
`Callbacks` which handlers it has installed; `CallbackCatches` whether callbacks
catch exceptions; `UsesClosing` whether it touches a channel that is inside
`close()`; `TimedOps` which reads may time out; `ConfirmPublish` and
`BlockedCapability` are connection options; `Nowaits`, `NoAcks`, `ExplicitIds`
the arguments used. `MaxCalls` and `MaxEvents` bound the behaviours; so do
`MaxMethods`, `MaxExtras`, `MaxInFlight` (Reader), `MaxWrites` (Writer),
`MaxConnects` (Handshake).

## 3. Runs

| Run | Instance | Checks |
|---|---|---|
| `core` | 2 ids, 3 channel objects, 5 calls, 2 events: broker closes channels, deliveries | `TypeOK`, `PendingLive`, `ReplyMatches`, `IdsConsistent`, `FreedIdIsQuiet`, `NoProtocolError`, `OpenAgrees`, no hang |
| `calls` | every public method, nowait or not, explicit ids, flow, publisher confirms, Nack, Return, blocked, confirm timeout, publishing in callbacks | `PublishedIsAcked`, `PromiseKept`, `ConfirmAgrees`, no hang |
| `consumers` | 2 tags (symmetric), 3 events, cancels by either side; no `nowait`, callbacks that wait for nothing, one channel | `DeliveryReachesConsumer` |
| `nested` | 2 channels, calls and close in callbacks, use of a closing channel, channel errors, timeouts | `ReplyMatches`, `IdsConsistent`, `PendingLive`, `PromiseKept` |
| `faults` | broken socket, timeouts of `open`, revival and both closes, closes by the broker, connection closed in callbacks, caught exceptions, under fairness | `IdsConsistent`, `ClosedIsCollected`, `CallsReturn` |
| `reader` | 2 channels, 2 methods, bodies of 0 and 2 bytes in any chunks, heartbeats and wrong frames without end before the first method and one of them or the end of the stream after it, header of 2 bytes, `SIGNED_INT_MAX` = 1 | `NothingLost`, `HandlerInStep`, `Implements` (refinement of `MethodDelivery`), `TimedDrainReturns`, `EagainDrainReturns`, both once the broker falls silent |
| `writer` | 14 calls, `frame_max` 56 or 64 before and after Tune, 2 writes, 1450 probes of `dumps` | `RoundTrip`, `PropertiesKept`, `ContentFits`, `FramesFit`, `BrokerReads` |
| `session` | 2 mechanisms, 3 offers, 3 connects, with and without `connect_timeout`, intervals 2 and 3, period 2 | `FirstConnectOpens`, `SessionAgrees`, `CollectedStaysClosed`, `ConnectEnds`, `GapBounded`, `NoFalseAlarm`, `SilenceSeen` |

Every model checks its type invariant in one run.

`nested` switches deadlock checking off: a call nested in another one for the
same reply may hang there (run `nested_hang` is about that). So do `reader`,
`writer` and `session`, where the bounds end every behaviour, and a blocking read
of a silent broker may wait for ever. `PromiseKept` is
checked with callbacks that let exceptions pass: `dispatch_method` takes the
promise out of `_pending` before it runs the listener, so a callback that raises
loses the promise of a call further out, and one that catches this exception in
between leaves that call waiting.

`DeliveryReachesConsumer` passes in `consumers` because nothing is dispatched or
raised there between Consume-Ok and the return of `basic_consume`. An error of
another channel does that in `delivery_race`. TLC also refutes it without any
exception, with `basic_qos` called in the callback of another consumer, whose wait
reads Consume-Ok and the first delivery, and with `nowait`.

The timeout of `drain_events` is that of each recv, and `blocking_read` starts it
again with every frame. `TimedDrainReturns` and `EagainDrainReturns` therefore assume
`BrokerFallsSilent`, that the broker sends no more from some time on. In `reader`
this is a real assumption: the broker may also send heartbeats for ever, and without
the assumption TLC refutes both, with heartbeats one after the other that keep a
`drain_events(timeout)` reading.

Runs that TLC refutes, each a documented statement the code does not keep (the
lines are quoted in `PROJECT.json`):

| Run | What happens |
|---|---|
| `delivery_race` | the error of another channel leaves `basic_consume` before it registers the callback; the consumer exists, its messages are rejected |
| `confirm_revived` | after revival `_confirm_selected` is set and the channel is not in confirm mode |
| `nested_hang` | nested calls for the same reply get each other's reply, and of two such replies read in a row the second is dropped: the outer call never returns |
| `heartbeat_rate` | with ticks every half interval and rate 2, as documented, nothing may be written for almost one and a half intervals |

Three bounds are as strong as they can be: `GapBounded` and `SilenceSeen` fail with
any smaller number, and `EagainDrainReturns` fails without its second alternative:
`drain_events(timeout=0)` that has read a part of a frame spins until the rest arrives.

Seen while modelling, and not the subject of a run:

* channels: `_on_basic_cancel` leaves the tag in `no_ack_consumers`; a consumer
  registered without a callback makes `_on_basic_deliver` raise `TypeError`, where
  the docstring of `basic_consume` says that messages are quietly discarded;
  `basic_publish` raises `AttributeError` when the event it drains first closes
  the connection; `close()` ended by another channel's error leaves a dead object
  registered, which `channel(id)` returns; deliveries run callbacks while
  `Connection.close()` waits, since `is_closing` is looked at on their channel, where
  the docstring of `close()` says that they must be discarded;
  `open()` retried after an interruption sends Open twice; `close()` of a channel
  whose `close()` is waiting (from a callback of another channel) sends Close twice,
  the second one on a channel that the broker has closed by then.
* session: after a failed authentication the transport counts as connected, and
  the next `connect()` returns at once; after a lost connection `connect()` makes a
  transport and returns without a handshake (`_handshake_complete` is never
  reset), after `collect()` every method read raises; the mechanism is the first of
  the client's list; a challenge is not answered; the broker's `channel_max` and
  `frame_max` replace the client's, also when they are larger (so `SessionAgrees`
  bounds these two by the broker's offer only).
* framing: a message with an empty body whose properties exceed a frame is
  written without its header; arguments without content may exceed a `frame_max`
  that Tune has made smaller than the buffer, and raise `struct.error` beyond the
  buffer; after a write that timed out the stream is out of step while `connected`
  is still true; the timeout of `drain_events` starts again with every recv;
  `drain_events(timeout=0)` waits inside a frame.
* serialization: `_read_item` reads 'b' as unsigned and 'B' as signed, the reverse
  of its comments; `dumps` writes a 'T' before the bits that precede it, `loads`
  does not end a run of bits at an 'x'. No method has such a format.

**Bounds.** Two ids suffice for one channel's handler to interrupt another's
call; three objects for an id to be reused; two tags for one to be cancelled
while the other delivers; five calls for open, open, consume, a call and a
nested call; two or three events for an event in the middle of handling another.
For the reader two channels and two methods let every frame of one message fall
between any two of another, and a frame of three to five bytes can be cut
everywhere; with `SIGNED_INT_MAX` = 1 the two-part read happens. The writer's
bodies (0, 1, 2, 49, 97 bytes) and tables lie on both sides of each limit of both
frame sizes, and two writes show what the first leaves behind. Three connects
allow a failure, a session and another attempt.

**Fairness.** `faults`, `nested_hang`: weak fairness of the library's steps
(the thread runs), of callbacks returning, and of the broker handling what it
has received. Nothing is assumed of deliveries, closes, timeouts or of the
application calling again. Without a timeout py-amqp waits as long as the
broker is silent, hence the fairness of the broker. `reader`: weak fairness of the
library's own steps only, the raising of a timeout by a recv that gets nothing
among them; bytes may stay on the wire for ever, and the broker may send for ever.
`session`: weak fairness of the library and of the broker answering what it has
read.

## 4. Proofs

A component's proofs are in modules of their own, which EXTEND it. They hold for
every value of the constants, under the assumptions named in the modules that
declare them. TLC evaluates these in its runs; each says no more than that
numbers are numbers and flags are flags, except for three: 0 is no consumer tag
(`SpecAssumption`), a frame has at least 40 bytes of overhead
and `frame_max` exceeds 8 (`FrameWriterAssumption`; 40 is the code's number) and a
call without content has no body (`CallsAssumption`).

| Module | Theorem | States |
|---|---|---|
| `ConnectionProofs` | `TypeCorrect`, `StackCorrect`, `PendingCorrect`, `IdsCorrect` | `TypeOK` of the calls, `PendingLive`, `IdsConsistent` |
| `CallProofs` | `CallsCorrect`, `PromiseAlwaysKept`, `CloseAlwaysCollects` | `PromiseKept` (when callbacks let exceptions pass), `ClosedIsCollected` |
| `ReplyProofs` | `ReplyCorrect`, `RepliesMatch`, `PublishedAlwaysAcked` | `ReplyMatches`, `PublishedIsAcked` |
| `AgreementProofs` | `OpenAlwaysAgrees`, `FreedIdAlwaysQuiet`, `NeverProtocolError`, `ConfirmAlwaysAgrees` | `OpenAgrees`, `FreedIdIsQuiet`, `NoProtocolError`, `ConfirmAgrees`, each under a hypothesis on what application or broker do |
| `ConsumerProofs` | `DeliveryAlwaysReaches` | `DeliveryReachesConsumer`, when nothing disturbs a `basic_consume` that waits |
| `FrameWriterProofs` | `WriterInvariant`, `ContentAlwaysFits`, `FramesAlwaysFit` | `ContentFits`, `FramesFit` |
| `ReaderProofs` | `ReaderTypeCorrect`, `NothingEverLost`, `ReaderInvariant`, `HandlerAlwaysInStep`, `ReaderImplements` | `TypeOK` of the reader, `NothingLost`, `HandlerInStep`, the refinement `Implements` |
| `SessionProofs` | `SessionInvariant`, `SessionTypeCorrect`, `FirstConnectAlwaysOpens`, `SessionAlwaysAgrees`, `CollectedAlwaysStaysClosed`, `GapAlwaysBounded`, `NeverFalseAlarm`, `SilenceAlwaysSeen` | the safety properties of the session |

The arguments, and the inductive invariants they need:

* **Types of the calls.** One lemma per helper (what `wait`, `Leave`, `OneShot`,
  `CallBack`, the two `collect`s do to types), one per operation, combined in
  `TypeNext`.
* **`PendingLive`** is not inductive alone: callback and drain frames are popped
  without touching `pending`, which is safe only because they wait for nothing.
  `StackOK` adds that (`FramesOK`). `PendingLive` depends only on the shape of the
  stack (`op`, `ch`, `on`, `prev`); `wait` pushes a frame whose `prev` points below
  it, and `Restored` puts back exactly what the popped frame displaced.
* **`IdsConsistent`** is inductive with `TypeOK`, `StackOK` (a "close" frame
  belongs to a channel, so its finally clause does not cut off the connection) and
  `NoChannelZero` (the broker sends no Channel.Close-Ok on channel 0, so
  `Channel_collect` never runs on the connection). It rests on `collect` removing
  id and object together, and on `_get_free_channel_id` and `_claim_channel_id`
  refusing ids in use.
* **`PromiseKept` and `ClosedIsCollected`.** The many operations do few things to
  the stack: `StackMove` lists them, and `NextMoves` shows that every step is one
  of them. `MoveKinds` reduces these to three shapes, of which a move has at most
  two in a row: frames stay, one comes, one goes (`Stays`, `Grows`, `Shrinks`).
  For each shape it is shown that `CallsOK` and `Kept` are preserved. `CallsOK`
  is the strengthening: `Order` (what is registered, or will be put back, is never
  further out than the innermost call waiting for it - so a finally clause
  overwrites nothing that is still needed) and `ShotsOK` (the promise a callback
  holds is that of a call further out). `PromiseAlwaysKept` has the hypothesis
  `~CallbackCatches`, without which it is false (see 3). For `ClosedIsCollected`,
  `ClosedGone` says that the promise of `close()` is called only with `collect()`,
  and that a collected connection has no transport; `Linked` is the action
  property behind it, `IdsConsistent` gives the channels.
* **`ReplyMatches` and `PublishedIsAcked`.** `ReplyInv` is about what is under way.
  `RepliesOK` says of every call that is alone, while its object still has the id
  of the request (`Owns`), that every request not yet handled and every reply not
  yet read that can answer the call has its number (`Pipe`); a call that lost its
  id is served no more, and who gets the id later gets the replies. `ItemsOK` says
  which requests are always answered, and `RegistryOK` that no object is
  registered twice. A step is described by what it sends (`Asked`: a request
  leaves alone only calls it cannot answer, but for its own), by what the broker adds
  (`Flowed`: a reply has id and number of a request that was under way) and by what
  happens to the registry (`RegMove`: an object that exists gets no new id); with
  the moves of `CallProofs` these preserve the invariant. The attempt to prove
  this showed that `alone` had missed answered requests that nobody waits for,
  which is corrected in the model.
* **`OpenAgrees`, `FreedIdIsQuiet`, `NoProtocolError`.** What concerns one channel
  id is a conversation. Its state is the set of methods under way to the broker,
  the set under way to the client, what the broker takes the channel for (closed,
  open, closing) and what the client takes it for (no object, opening, open,
  closing, or an object that `close()` has cut off). `Talk` says which of these
  states are possible, `SentOK` and `ComingOK` in which order the methods are under
  way; the three properties are consequences. A step of the client is `Ordinary`
  (it sends a plain method on a channel that may be used, and reads what changes
  nothing) or one of the ten steps that open and close something (`Turns`); one
  lemma shows what each makes of the conversation, and so for the broker. That a
  `basic_publish` interrupted by callbacks does not write on a channel being closed
  needs the stack: `PublishOK` says that it finds its channel closing only while
  the nested `close()` is still in progress above it. The hypotheses are about the
  application. `Orderly`: it does not use a channel that it is closing (a callback
  that does can send Close twice), and leaves `open()` to the library (`open()`
  retried after an interruption sends Open twice). `Steady`, for the last two: it
  does not close the connection either. While `Connection.close()` is under way, a
  channel closed by the broker is not revived and still looks open, and a callback
  that uses it then breaks `NoProtocolError`, which TLC finds when
  `ConnectionClose` is added to `core`; no violation of `FreedIdIsQuiet` has been
  found then, but the invariant it rests on ends there. The instance of `core`
  satisfies all of these hypotheses.
* **`ConfirmAgrees`.** The flag is set before `confirm_select()` sends anything.
  `ConfirmOK`: for a channel that may be used and has the flag, the broker is in
  confirm mode or Select is on its way to it. Only a Close makes the broker forget;
  by `Talk` none is on its way from the client for such a channel, and the
  hypothesis `Unrevived` says that the broker closes none (if it does,
  `confirm_revived` shows what happens). `Unrevived` includes `Orderly`, which the
  run `calls` does not satisfy, as it tries every method, `open()` too.
* **`DeliveryReachesConsumer`.** The callback of a tag is changed when Consume-Ok
  (through `basic_consume`, which registers it when it returns), Cancel-Ok or
  Cancel is read, and the broker's consumer when it sends them: the two are a queue
  apart. `Told` says of every Deliver and Cancel in the queue that the last of these
  methods before it, or the callback of now if there is none, gives the consumer it
  was sent for; and the same of what the broker's consumers will send after the
  whole queue. A method that is appended or read keeps this (`ToldMore`,
  `ToldTaken`), if a Consume-Ok gives what `basic_consume` will register. So
  `OneConsume`: there is one Consume or Consume-Ok on its way at most, it is
  that of the `basic_consume` in progress, and this one reads nothing more between
  Consume-Ok and its return (`Callback` counts its callback as registered by then).
  `Settled` and `CallOK` say that nothing is being closed, that what arrives has a
  callback, and that the stack is a call and at most a callback on top of it;
  `CancelOK` that a callback for messages comes with one for the cancellation, so
  that a Cancel does not raise. All of this holds while the connection lives, which
  either side may end at any time.
  The hypothesis is `Undisturbed`. Part of it is there because a `basic_consume` can
  otherwise end while its Consume-Ok is under way, and leave the tag without a
  callback: no channel is closed by either side and `open()` is left to the library,
  the socket does not break, `basic_consume` has no timeout (other calls may), and
  the application has a callback for whatever the broker sends of its own accord
  (`delivery_race` shows one of the violations). The rest excludes cases that fail
  without any exception, timeout or Close: callbacks call only what does not wait,
  because a nested wait may read Consume-Ok and then a delivery before the outer
  `basic_consume` registers its callback; and no call says `nowait`, because
  `basic_consume` with `nowait` gives the tag its callback at once, while deliveries
  to the consumer that had the tag may be under way. So the theorem
  is about consumers that come and go, and not about the hazard of
  `channel.py:1598`, which it rules out. The instance of `consumers` satisfies it.
* **`ContentFits`, `FramesFit`.** `WriterInv` records of the last `write_frame` that
  every frame it wrote fits and that `pack_into` failed only for a packed size
  above `chunk_size`. The buffer has grown to `chunk_size` before it is used
  (lemma `Sizes`), and `bigbody` and the sizes of methods, properties and bodies
  are related by linear arithmetic, where the overhead of 40 is needed.
* **`NothingLost`.** `StreamInv`: frames lie one after the other (`Geometry`), the
  unpacked header is that of the next frame (`Control`), and what `read_frame`
  holds, what `_read` holds and what is on the wire are runs of positions that
  follow each other (`Pieces`). `NothingLost` alone does not say which part of the
  frame each buffer holds.
* **`HandlerInStep`, `Implements`.** The handler is some frames behind the broker.
  `Delivers` says there is a history of the broker's records, before and after
  each frame of the stream, that ends with the present, and that the handler is
  where the history is after the frames handled. A step of the broker appends to
  the history and a step of the handler goes one frame on in it, so that nothing
  is computed by recursion over frames. Steps that deliver map to `Deliver` of
  `MethodDelivery`, the last frame of a method to its `Send`, all others stutter.
* **Session.** `PhaseInv` says for each phase of the broker what is on its way and
  what has been agreed: client and broker are in lockstep. `FirstInv` is what the
  first `connect()` can have reached. `TimeInv` relates each age to the time since
  the last tick (`sent` implies `write_age <= ticked`, otherwise
  `write_age <= last_heartbeat_sent + Period` and
  `rate * (last_heartbeat_sent - ticked) <= h`; the same for reads).

Only model-checked:

* `CallsReturn`, `TimedDrainReturns`, `EagainDrainReturns`, `ConnectEnds`: liveness
  under fairness, out of the prover's reach.
* `RoundTrip`, `PropertiesKept`, `BrokerReads` and `TypeOK` of the writer: they
  reach `Serialization`, which is recursive, and induction over data is out of the
  prover's reach. What `FrameWriter` needs of it is in `CallsAssumption`.

## 5. Not modelled

Arguments without influence on control; the contents of messages beyond what
framing needs; use of one connection from several threads (there is no lock in
the library, and nothing in it supports that); connecting through the deprecated
`transport` property of a connection that is not connected; socket options, SSL
wrapping and certificates, which are calls of the `socket` and `ssl` modules;
login responses of the SASL mechanisms (data); `platform.py`, `protocol.py`,
`utils.py`, which have no state. In the model of the calls a write either
succeeds or is followed by a break of the socket; what a write that times out
does to the stream is in the outbound model, and that `basic_publish` turns it
into `RecoverableChannelError` is not. Time and heartbeats are modelled for the
first session of a connection.

## 6. Plan

1. *(done)* core: AmqpSpec, AbstractChannel, Channel, Broker, Connection, proofs
   of TypeOK, PendingLive, IdsConsistent.
2. *(done)* FrameHandler, Transport, Reader and the refinement of MethodDelivery;
   FrameWriter, Serialization, Writer; Handshake, Heartbeat, Session.
3. *(done)* proofs for the frame writer, the session, the reader and its
   refinement; `PromiseKept` and `ClosedIsCollected` in the model of the calls.
4. *(done)* `ReplyMatches` and `PublishedIsAcked`.
5. *(done)* `OpenAgrees`, `FreedIdIsQuiet`, `NoProtocolError` and `ConfirmAgrees`,
   under hypotheses on what the application calls and the broker does.
