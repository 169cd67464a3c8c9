# A TLA+ model of rsocket (TypeScript)

This directory models the protocol core of this repository: what the two ends
of an RSocket connection do with requests, frames, demand, cancellation,
errors and connection losses. The modules are written from the code of
`src/packages/rsocket-core`, of the transports, and of the RxJS, composite
metadata and messaging packages on top; TLC checks them on small
instances, and TLAPS proves most of the safety properties for every value of
the constants. `PROJECT.json` maps each definition to the lines it stands for.

## 1. Inventory

### Components, their state and their operations

| Component | Source | State it keeps | Operations |
|---|---|---|---|
| Channel streams | `RequestChannelStream.ts` | two direction flags, fragments, deferred error, receiver, registry entry | handleReady/Reject, request, cancel, onNext/Complete/Error/Extension, handle, close; at both ends |
| Stream streams | `RequestStreamStream.ts` | done, fragments, waiting demand, receiver | as above, without the requester's producer side |
| Response streams | `RequestResponseStream.ts` | done, fragments, receiver | as above, without demand |
| Fire-and-forget streams | `RequestFnFStream.ts` | done, fragments, cancellable | handleReady/Reject, cancel, handle, close |
| Multiplexer | `ClientServerMultiplexerDemultiplexer.ts` | registry of streams by id, current id, done | createRequestStream, connect, disconnect, handle, send, close |
| Resumable multiplexer | same file, `Resume.ts` | frame store, positions, session timer, session store | send, handle, resume, handleConnectionClose |
| Request facade, stream request handler, leases | `RSocketSupport.ts` | waiting requests, available lease, expiration | requestX, handle, requestLease, cancelRequest, close |
| Keep-alive | `RSocketSupport.ts` | running/paused/closed, last received, timers | handle, start, pause, close, timeoutCheck |
| Fragmenter, reassembler | `Fragmenter.ts`, `Reassembler.ts` | the fragments held by a stream | fragment, add, reassemble, cancel |
| Setup | `RSocketConnector.ts`, `RSocketServer.ts` | session store, installed handlers | connect, bind, accept |
| Transports | `rsocket-tcp-*`, `rsocket-websocket-*` | socket, remaining bytes, done | send, handleData/handleMessage, close |
| Close callbacks | `Deferred.ts` | done, error, callbacks | close, onClose |
| RxJS adapter | `rsocket-adapter-rxjs` | buffer, demand, lock of drain, done; received, scheduled requests | request, cancel, next, error, complete, drain; onNext, onError, onComplete, unsubscribe, subscribe |
| Codecs | `Codecs.ts`, `Bytes.ts` | what is left of a chunk | serialize, size, deserialize of every frame type |
| Composite metadata, messaging | `rsocket-composite-metadata`, `rsocket-messaging` | the registered routes | encode, decode, find the handlers of a path |
| GraphQL, examples | the rest | none across calls | build requests |

### How they interact

An application calls the requester facade. It makes a requester stream, which
goes through the lease handler (if leases are on) to the multiplexer. The
multiplexer gives it an id and calls `handleReady`; the stream registers
itself and sends its request frame. At the other end the multiplexer hands a
request frame to the stream request handler, which makes a responder stream;
its constructor registers it and calls the application's handler, which
returns a receiver. From then on each end's registry leads frames to streams,
and streams call receivers. When a connection closes, its callbacks run in
order: the multiplexer closes all streams, then the connector closes
keep-alive, leases and the rest.

Everything at one end runs on one thread, to completion. What makes the
system hard is therefore not preemption but (a) two ends whose frames cross,
(b) callbacks that run in the middle of a method and call back into it, and
(c) connections that are lost between any two steps.

### What is hard, and what correct means

* **Crossing ends** (channel, stream, response): a cancel, a completion, an
  error and a loss of the connection race. Each direction ends once, at both
  ends; receivers get whole payloads in order and one terminal signal;
  producers are cancelled or have ended; no registry entry outlives its
  stream.
* **Demand**: what is asked for before a stream has an id, while a request is
  reassembled or while a handler runs is granted exactly once.
* **Callbacks in the middle**: a handler that calls its stream, or closes the
  connection, before it returns its receiver; a fire-and-forget's completion
  inside the id generator; receivers told of the close in the middle of the
  close.
* **Chunks**: a TCP chunk holds frames behind the one that closed the
  connection.
* **Ids**: unique among the streams in use at both ends, after a wrap too.
* **Leases**: bounded queue, order, no request passed on without a lease, no
  request left waiting.
* **Resumption**: frames sent again after a loss, and no others; positions of
  both ends that fit; a session timer that ends no live session; connections
  that overlap.
* **Payloads on the wire**: metadata and data cut at every boundary, counted by
  the sizes that positions are made of, put together again from TCP chunks that
  are cut anywhere.
* **Routing**: a request with several metadata entries and paths reaches the
  handler its metadata names, with its own type.
* **Observables**: demand and kept values on both sides of an asynchronous
  boundary; a source, an observer and a connection that end in any order.
* **Setup**: frames cut anywhere by the socket; frames that come while the
  application's acceptor runs, when no handlers are installed; a connection
  that closes in that time; refusals that the client has to hear of.

`PROJECT.json` lists each of these hazards at its line, with the property
that covers it or the reason why none does yet.

## 2. The modules

| Module | Models | Its actions correspond to |
|---|---|---|
| `Frames` | frames and signals as records; what fragmentation puts on the wire | `Frames.ts`, `RSocket.ts`, `Fragmenter.ts` |
| `Interaction` | a FIFO to each end, the connection | `send` and `handleData` of the transports, `Deferred.close` |
| `Subscription` | **abstract**: what one direction of an interaction promises | (refined by `RequestChannel` and `RequestStream`) |
| `Link` | **abstract**: what a resumable session promises to the streams, for one direction | (refined by `Resume`) |
| `RequestChannel` | one REQUEST_CHANNEL | each method and each `case` of `handle` of both classes |
| `RequestStream` | one REQUEST_STREAM | likewise |
| `RequestResponse` | one REQUEST_RESPONSE, on `RequestStream` | what differs; the rest is reused |
| `Multiplexer` | ids, registries, dispatch, close, fire-and-forget | `StreamIdGenerator.next`, `createRequestStream`, `handle`, `close` |
| `Lease` | `LeaseHandler` in front of the `Multiplexer` | `requestLease`, `handle`, `cancelRequest`, `close` |
| `Resume` | a resumable session over several connections, its frame stores, the reconnector, the session store and timer, KEEPALIVE frames | `send`, `handle`, `resume`, `handleConnectionClose` of the resumable multiplexer, `handle` of the awaiting one, `FrameStore`, the reconnector, RESUME in `RSocketServer.bind` |
| `ConnectionSetup` | a server that takes a connection over: whole frames, first frame, acceptor, handlers, keep-alive, session | `create`, `readFirstFrame` and `handleData` of the TCP server's connection, `create` and `handleMessage` of the WebSocket server's, `deserializeFrames`, `RSocketServer.bind` |
| `FrameCodec` | the bytes of every frame: writers, sizes, readers | `Codecs.ts`, `Bytes.ts` |
| `Fragmentation` | the cutting of payloads, and their reassembly, with data and metadata | `Fragmenter.ts`, `Reassembler.ts` |
| `CompositeMetadata` | metadata entries, routes, credentials, and the handlers a request finds | `rsocket-composite-metadata`, `findTypesRegistry` and the request methods of `RSocketResponder` |
| `Transfer` | messages from one end to the other's handlers, on the three above | `send` of the transports, `handleData`/`handleMessage`, `deserializeFrames`, what the responder streams do with fragments |
| `RxAdapter` | observables at both ends of an interaction | `rsocket-adapter-rxjs`, over reduced streams |
| `Interaction_proofs` | lemmas about the wires: what a frame sent, taken or lost changes; fragments as they lie on a wire | |
| `RequestChannel_proofs` | types and registry of the channel | |
| `RequestChannelFlow_proofs` | the channel's half-close and demand | |
| `RequestChannelPromise_proofs` | what is refused, released and told in a channel, with the refinement of `Subscription` by both directions | |
| `RequestStream_proofs` | the theorems about `RequestStream`, with the refinement of `Subscription` | |
| `Lease_proofs` | the theorems about `Multiplexer` and `Lease` | |
| `ConnectionSetup_proofs`, `Resume_proofs` | the theorems about these modules | |
| `MC*` | the instances for TLC | |

**One interaction at a time.** `RequestChannel`, `RequestStream` and
`RequestResponse` model one stream each: streams share nothing but the id, the
registry and the wire, and those are what `Multiplexer` models, with many
streams. A handler is one action. The exception is the application's request
handler, which may call the stream before it returns its receiver: its call
and its return (or throw) are two actions, and frames to that end wait in
between. `phase` says whether the request has its id (with leases it may wait
for one), `served` how far the responder is. `rcv` is what the current receiver
has been told. Only with `Chunked` may the handler be called twice: it closed the
connection and threw, and the rest of the chunk completes a payload. `CallHandler`
then begins anew, with a receiver that has been told nothing yet.

**Data.** The k-th payload of a direction is the sequence `<<k, k>>`, cut into
two fragments or not, so lost, doubled, merged and reordered fragments all
show. The stream modules leave metadata, codes and messages out: no branch of
the code they model depends on them. `Transfer` has the payloads themselves.

**The connection.** `Disconnect` ends it at one end: nothing more is sent or
received there, except that with `Chunked` a prefix of what was on its way is
still dispatched, which is what `handleData` does with the rest of a TCP
chunk. Frames that were sent before still reach the peer (the socket is
ended, not destroyed).

**Multiplexer and Lease** keep the requester's call stack in `running`:
`StreamIdGenerator.next` waiting for a fire-and-forget's `onComplete`, the
loop of the multiplexer's close, the grant and reject loops of the lease
handler. Between their iterations the application may call (`Reentrant` says
in which of them it does).

**Resume** numbers the frames that an end stores; `Position[n]` is the bytes
of its first n frames, so frame n has `Position[n] - Position[n - 1]` bytes,
any positive number. A store is the queue of the frames `shifted + 1 .. sent`:
`store` adds at one end, `dropTo` takes away at the other, in bytes and also
when it then throws. `status` follows a connection at each end: the
handshake's frame is awaited, the multiplexer is attached, or it is closed. A
connection that closes at an end leaves any prefix of what that end had in
flight, and discards what was on its way to it: that covers an orderly end, a
reset and a partition. The other end notices later, and until then goes on
reading what is in flight, which is how two connections overlap at the server
(`overlapped`). Extensions are sent and handled but not stored, as in the
code.

**ConnectionSetup** knows a frame as `FrameLength` bytes, each of which carries
the number of its frame and its place in it, so that a cut at a wrong place
shows in `handled`. `config` is any pair of the two ends' configurations: TCP
or WebSocket, SETUP, RESUME or another first frame, leases and sessions at
either end. On TCP any part of what is on its way is delivered at once, on a
WebSocket one frame. `stage` is how far `RSocketServer.bind` is; while it is
`"accepting"` the socket is paused and what was read behind the first frame
lies in `buffer`. `looping` and `decoding` are the loop of `handleData`, whose
iterations are single actions. `bind` refuses in one action: the ERROR frame,
then the close, in the order of the code. The streams themselves are reduced
to one answer per request, and a session ends with the timer or goes on in
`Resume`.

**FrameCodec, Fragmentation, CompositeMetadata, Transfer** are about bytes. A
byte has `Base` values: every writer and reader is a sum of powers of `Base`, and
with `Base = 8` a sign bit, a length of two bytes and a mask of flags are all
reached by short contents. Flags keep their bits above one another, as in
`Flags`; type and flags share the 16 bits that `writeHeader` gives them. A
message is a payload for a request or a stream, or a frame without fragments.
`Sends` serializes its frames into `wire` in one action (the generators are run
to the end by the streams); `Arrives` takes the next chunk, of `Chunks` bytes or
all there is, reads the whole frames from it and hands them to the receiving
end: an open stream, its reassembly, or a handler found by its metadata.
`position` and `peer.position` are what a resumable session would count.

**RxAdapter** keeps of each stream the two direction flags and the calls the
adapter makes and gets, as they are in the stream modules. `end[e]` is one end:
its source with the buffer, the demand and the lock of `drain`; its observer
with what it got, what was received and what the scheduler still has to run. An
end of a channel is both in one object, as in the code, which is why its
`unsubscribe` cancels what comes in (`WithdrawsInbound`). Sources emit, complete
and fail, observers unsubscribe and connections are lost at any moment.

**Mutants.** Definitions named `<Definition>_<Change>` are the code with a
plausible bug; each property is shown to fail under one of them. They are not
used by any specification.

## 3. The runs

| Run | Instance | What it shows |
|---|---|---|
| `channel_data` | 2 payloads each way, whole or cut; no misuse; fair | each receiver gets the payloads in order and one terminal signal, refining `Subscription` (`PromiseToReceivers`); receivers and producers are released (`Released`); both ends end together |
| `channel_calls` | 1 payload, demands 0 and 1, 1 request(n), 1 extension per end, three such calls together (`FewCalls`), leases, closing handlers | whatever the applications do: the registry is exact, the directions' ends agree, demand is conserved, no frame is refused but for an invalid demand |
| `stream` | 2 payloads, demands 0 and 1, 1 request(n), 1 extension, leases; fair | `Subscription` refined; demand, registry, producer, consumer; both ends end together |
| `response` | 1 extension, leases; fair | one answer, whole; always one if the callee answers; both ends forget the call (`AnsweredOnce`) |
| `lease` | 3 calls, 1 fire-and-forget, 3 ids, 2 leases of 1 or 2, queue of 2, requests from rejection callbacks | answers reach their own call, ids are free at both ends, leases honoured in order, nobody left waiting |
| `multiplexer_reentrant` | requests from `onComplete` of a fire-and-forget | violation: ids do not advance |
| `resume` | 3 connections, 2 frames of the client and 1 of the server of different sizes, extensions, KEEPALIVE with answers, session timer, one restart of the server; fair | frames are handled once, in order and at last, refining `Link` (`PromiseToStreams`); stores keep what is needed; RESUME is never refused by a server that has the session; the timer ends no live session, unless the old connection overlapped |
| `setup` | 5 frames of 2 bytes, every pair of configurations; fair | whole frames reach installed handlers in order; a refusal is told; nothing outlives the connection; every call ends |
| `lease_late` | requests after the close | violation: they wait for ever |
| `transfer` | two messages of every type, with empty, absent and longer parts, fragment sizes none, 7 and 9; TCP in chunks of 1, 5 or all bytes, or WebSocket; routes, credentials, other entries | what is sent arrives whole, once and in order (`Delivered`); both ends count the same positions (`PositionsAgree`); no frame is larger than asked for (`Fits`); a request reaches the handler its metadata names (`Routed`) |
| `fragment` | two payloads, fragment size 9 | violation: a payload of metadata alone never ends |
| `rx` | prefetch 1, 2 and 4; 6 values on a stream, 2 each way on a channel, 2 on a response; fair | values arrive in order and a completion means all of them (`Delivers`); the prefetch is conserved and demand never waits beside kept values (`PrefetchConserved`); observers end and sources are released (`Settles`) |

**Why these bounds are enough.** The code compares no payload with another, so
two payloads per direction already show every order of whole payload,
fragments, completion and error; a third adds states and no new pair of
crossing frames. One `request(n)` and one extension meet every phase of the
stream, since TLC places them everywhere; `channel_calls` leaves out only the
behaviours in which both ends make both of these calls (`FewCalls`). Three calls are what it takes for
one to be cancelled, its answer to be in flight and a third to take its id;
three ids for four requests make the ids wrap. Two frames show a loss, a
repetition and a change of order; three connections show a position that was
exchanged in one resumption and is used in the next. Of KEEPALIVE frames and
extensions one is in flight at a time: a second one on the same connection
carries the same or a later position. Five frames are the first one, two that
lie in the data of the first, whole and cut, and two that come later; a frame
of two bytes can be cut in the one way that a longer one can be cut in many.

In `transfer` a fragment size of 9 has room for 3 bytes of metadata in a request
with a demand and for 6 elsewhere, one of 7 for 1 and 4; metadata of up to 8
bytes and data of up to 10 fill a frame exactly, spill over, and take several
frames. Sizes of 6 and less are not safe (the generators do not end), and
nothing checks them. Chunks of 1 byte cut at every place, chunks of 5 in the
middle of a length and of a header. A second message follows before the first
has arrived, so that a fragment, its successor and another frame lie in one
chunk; it is one of a few (`Followers`), since the receiver's state between two
messages is only what is left of a chunk and of fragments. In `rx` a prefetch of
4 has a limit of 3: six values take two refills and meet the moment when demand
is there before the buffer runs dry; 1 and 2 refill after every value and every
second one. Two values of a channel (the first
comes with the request) show the last one kept, sent and completed.

**Fairness.** A socket delivers what it has received, a handler returns or
throws, the request is answered by the multiplexer or the lease handler (which
the connection's close guarantees at the latest), and the end of a closed
connection is noticed by the peer. Nothing is assumed of applications, except
in `response` and `setup`, where the callee answers what it is given, and in
`setup`, where the acceptor resolves or rejects. In `resume` each end's event
loop runs (it handles what has arrived and notices closed connections) and the
application's `reconnectFunction` resolves or rejects; connections are lost as
long as the bound allows another one, so that the last one shows what must
happen in the end. In `rx` frames arrive and the scheduler runs its tasks;
sources and observers do as they like.

**Deadlock** is not checked: a finished interaction is meant to stop.

**What the violations show** is in `PROJECT.json` under `findings`, with the
lines of the documents or comments that they contradict. More paths are known
to break properties and are kept out of the passing runs, as their hazards say:

* a handler that closes the connection before it returns its receiver
  (`CloseInHandler = TRUE` breaks `Released` of the channel);
* `onError` of a channel request that still waits for a lease: it sets both
  flags, throws on the undefined stream and tells nobody
  (RequestChannelStream.ts:400; `Leased = TRUE` breaks `Released`);
* frames that lie in a TCP chunk behind the one that closed the connection are
  handled by closed streams, which signal their receivers again
  (TcpDuplexConnection.ts:131; `Chunked = TRUE` breaks `PromiseToReceivers`);
* requests made from the callbacks of a closing multiplexer
  (`Reentrant` with `"close"` breaks `RequestsTold`);
* a session with two connections open at the server: its last frames are
  handled after the positions were exchanged, and again when they are sent
  again; the next KEEPALIVE makes the client's `dropTo` throw "State
  inconsistency" (ClientServerMultiplexerDemultiplexer.ts:296; without
  `~overlapped`, `ExactlyOnce` (of `Resume_proofs`) and `NothingForgotten` fail).

`RequestsTold` also leaves out a request that finds every id of its parity in
use: `StreamIdGenerator.next` returns without calling its handler.

**What `Resume` shows besides.** These outcomes are reachable in the model, and
its properties name them as exceptions:

* A connection that is lost between RESUME and RESUME_OK strands the client:
  the awaiting multiplexer has no close callback, so that nothing reconnects
  and no stream is told (`Stranded`).
* The session timer closes the server's streams but not the session: a client
  that comes later is told RESUME_OK (`SessionTimesOut`, then `Resumes`).
* Keep-alive ends with the first connection (`HandleConnectionClose`), so a
  resumed session sends no KEEPALIVE and its stores only grow.
* FORK.md:52 says "EXT now advances the resume position", while `send` and
  `handle` (ClientServerMultiplexerDemultiplexer.ts:252-255, 283-286) leave
  EXT frames out of store and positions, with a comment that says so. The
  model follows the code: both ends leave them out, so positions agree, and an
  extension in flight is lost with its connection.

**What `ConnectionSetup` shows besides**, named as exceptions by
`ReleasedWithConnection`:

* If the connection closes while the acceptor runs, the rest of the first data
  is handled all the same when it resolves (TcpDuplexConnection.ts:170). The
  requests in it reach the application and open streams in a multiplexer that
  is done, which never closes them (`late`).
* If the connection of a new session closes in that time,
  `handleConnectionClose` throws, since there is no connection handler to
  pause yet: the session is already in the store and is never timed
  (`closedIn = "accepting"`).

**What `Transfer` shows besides**, named as exceptions (`NeverEnded`,
`Overdrawn`):

* A payload whose metadata takes fragments and whose data is empty ends with
  FOLLOWS unless it completes its direction (Fragmenter.ts:124-130, 264-270), so
  the other end waits for ever. The run `fragment` shows it.
* The first frame that carries requestN counts three more bytes before its data
  (Fragmenter.ts:286) than its metadata has left: the room is negative, `slice`
  counts from the end, and bytes of data are sent twice (or, without data, the
  generator throws).

**What the codecs show besides**, seen while they were modelled and outside the
messages that `transfer` sends:

* a SETUP with RESUME_ENABLE and an empty token is allocated two bytes less
  than it writes (`sizeOfSetupFrame` looks at the token, the writer at the flag);
* lengths of tokens are read with a sign (`readInt16BE`), while
  `MAX_RESUME_LENGTH` is 0xffff: a token of half of that or more reads as a
  negative length;
* a MIME type of 256 characters or more wraps in its one length byte;
* the first known path decides (`findTypesRegistry`): if its handlers do not
  take this type of request, the request is refused although a later path's
  would.

**What `RxAdapter` shows besides**, named as exceptions (`Swallowed`,
`Abandoned`) or seen in its runs:

* A source that fails while values are kept ends as a completion: `drain` marks
  the last value as the end since `done` is set, and returns before it looks at
  the error (ObserverToBufferingRSocketSubscriber.ts:157-167).
* The responder of a channel unsubscribes from its input: the requester's
  adapter is told to cancel what goes out, and cancels what comes in as well;
  its observer is never told (`Abandoned`).
* A channel's source is never unsubscribed, whatever ends.
* A channel's requester is told that its input is complete: its observer is
  torn down, whose `unsubscribe` cancels the stream
  (RSocketPublisherToPrefetchingObservable.ts:101), and a cancel with the
  inbound direction over is an ERROR, which ends what goes out as well.
* A channel with a prefetch of 1 fails: its responder asks for `prefetch - 1`
  = 0 more values (RSocketPublisher2Prefetching...Subscriber.ts:88), and the
  requester refuses the REQUEST_N.
* A completion or an error waits for demand behind the last value.

## 4. The proofs

Every theorem holds for all constants that satisfy the module's `ASSUME`, all
switches included (`Chunked`, `Leased`, `CloseInHandler`, `Reentrant`, ...),
except for the hypotheses named below. A theorem states the property that the
runs check, of the same specification, so that the runs show on a small
instance what the proof shows for all.

| Module | Theorem | States | Under |
|---|---|---|---|
| `RequestChannel_proofs` | `TypeCorrect` | `TypeOK` | |
| | `RegistryCorrect` | `RegistryExact` | |
| `RequestChannelFlow_proofs` | `HalfCloseAgrees` | `HalfCloseAgreement` | |
| | `DemandIsConserved` | `DemandConserved` | |
| `RequestChannelPromise_proofs` | `NoViolations` | `NoProtocolErrors` | `OneFrameAtATime` |
| | `ProducersReleased` | a producer's half of `Released` | `OneFrameAtATime`, `HandlerKeepsConnection` |
| | `NobodyLeftBehind` | `Released` | these and `StartsAtOnce` |
| | `ImplementsSubscriptions` | `PromiseToReceivers` | `OneFrameAtATime`, `PositiveDemands` |
| `RequestStream_proofs` | `TypeCorrect`, `RegistryCorrect`, `DemandIsConserved` | `TypeOK`, `RegistryExact`, `DemandConserved` | |
| | `NoViolations` | the consumer's and the producer's frames are never refused | `OneFrameAtATime` |
| | `ImplementsSubscription` | `PromiseToConsumer` | `OneFrameAtATime` |
| | `ConsumerIsTold` | a consumer that is done has cancelled or was told | |
| | `NobodyLeftBehind` | `Released` | `OneFrameAtATime`, `HandlerKeepsConnection` |
| `Lease_proofs` | `TypeCorrect`, `LeaseIsRespected`, `NobodyWaits` | `TypeOK`, `LeaseRespected`, `NobodyWaitsInVain` | |
| | `OrderKept` | `InOrder` | `NoCallbackInLoop` |
| | `EverybodyTold` | `RequestsTold` | `NoLateRequests` |
| | `IdsDoAdvance` | `IdsAdvance` | `NoCallbackInLoop` |
| | `StreamsAreOwn`, from `AnswersAreOwn` | `OwnStreams`, no stream gets another's answer | `NoCallbackInLoop` |
| | `NoIdCollides`, `ToldOnce` | an id is free at the responder; a receiver is told once | |
| `ConnectionSetup_proofs` | `TypeCorrect`, `FramesAreInOrder`, `RefusalIsTold`, `NothingOutlives` | `TypeOK`, `FramesInOrder`, `RefusalTold`, `ReleasedWithConnection` | |
| `Resume_proofs` | `TypeCorrect`, `NothingLost`, `ResumeIsAccepted`, `TimerIsStopped` | `TypeOK`, `NothingForgotten`, `ResumeAccepted`, `LiveSessionNotTimed` | |
| | `ImplementsLinks` | `PromiseToStreams` | |
| | `HandledOnce`, `ClientHandledOnce` | `ExactlyOnce`: what an end has handled are the first frames its peer has sent; the client's half of it, overlapped or not | |
| | `NothingIsMissing` | what was sent over all connections has been handled when the current one is idle at both ends | |

**The hypotheses.** Each is a predicate on a switch of the module, satisfied
by an instance of the runs. They keep out paths on which TLC shows a violation:

* `OneFrameAtATime == ~Chunked`: the transport hands over one frame at a time, as
  a WebSocket does. Over TCP, frames behind the one that closed the connection
  are handled by closed streams (section 3), which breaks `NoProtocolErrors`,
  `Released` and the promises to receivers. (Of the stream's `NoProtocolErrors`
  TLC knows no such violation; its proof shares the invariant of the promise,
  and with it the hypothesis.)
* `HandlerKeepsConnection == ~CloseInHandler`: the request handler does not close
  the connection before it returns its receiver. If it does, the receiver is
  never told (RequestChannelStream.ts:873).
* `StartsAtOnce == ~Leased`: requests do not wait for leases. `onError` of a
  channel that waits for one throws and tells nobody (RequestChannelStream.ts:400).
* `PositiveDemands == 0 \notin Demands`: nobody calls `request(0)`. If a requester
  does after the responder has completed, the responder answers with an ERROR
  behind its COMPLETE, of which the requester is told: two last signals. The
  run `channel_data` satisfies it; `channel_calls`, with 0 in `Demands`, checks
  what holds regardless.
* `NoCallbackInLoop == "complete" \notin Reentrant`: no request is made where a
  fire-and-forget is told that it was sent. The run `multiplexer_reentrant`
  shows that ids do not advance otherwise.
* `NoLateRequests == "close" \notin Reentrant /\ ~LateRequests`: no request is made
  in the callbacks of a close or after it. The run `lease_late` shows the rest.

`NoIdCollides` is about one pass through the ids: it states that no id
collides as long as each stream has heard answers to itself only, which is what
`AnswersAreOwn` proves and what needs `NoCallbackInLoop`.

**The arguments.** No property of the runs but the type invariants is
inductive. What was added to it, and why:

* *Registry* (channel, stream). `HandleReady` and the responder's constructor
  rely on the stream not having ended before it started: `RegistryInv` adds
  `Fresh`. An action changes `stream` at one end in one of a few ways
  (`StreamEffects`); one lemma shows that each keeps the entry and the two flags in
  step.
* *Half-close* (channel). The two flags of a direction differ while a frame is
  under way, so `HalfInv` says of every wire what lies on it if they do: the end
  of a direction `Announces` itself or is `Told` by a CANCEL or ERROR, and an
  end that has not started yet `Minds` it. `RequestInv` says where the request
  is, `CutInv` what an end that is cut off still has.
* *Demand* (channel, stream). What was asked for is what was granted plus what
  the frames under way, the request frame and the deferred demand carry.
  `Owes(w, n)` states the last for a wire by a witness of running totals, one for
  each place of the wire, and not by a recursive sum, which the provers cannot
  unfold for all lengths. `DemandInv` is the balance.
* *No violations* (channel). Either end refuses a frame that comes while it holds
  fragments (the requester a REQUEST_N, the responder that and an extension), and
  counts it, so `PartInv` follows the responder's fragments and
  `RequesterPartInv` the requester's: as long as an end holds some, the next frame
  on its way to it is the next fragment. The requester's has to carry NEXT too,
  since a bare COMPLETE leaves its holder as it is
  (RequestChannelStream.ts:176-179). `QuietInv` says that a closed end has nothing
  to receive.
* *Released* (channel). `ReleaseInv`: a producer whose direction has ended was
  cancelled once, or had ended by itself; `InformedInv`: a receiver whose
  direction has ended has been told, has cancelled, or is the one that an
  error is kept for while the handler runs.
* *Promise* (stream). `PromiseInv` relates the consumer's signals, the fragments
  it holds, and the frames under way to what the producer has emitted: the frames
  lead (`Leads`) from where the consumer stands to where the producer stands,
  unless the connection or the stream was cut in between. Each action then is
  a step of `Subscription` or a stutter.
* *Promises* (channel). `Coming` says, for each direction, that the frames under
  way take the receiver from where it stands to where its peer stands
  (`Reaches`), again by a witness of places along the wire; what it says of
  the end of the wire depends on how the peer has ended and whether it was cut
  off. The request frame is itself the first payload of a direction, and CANCEL,
  REQUEST_N and EXT frames of the other direction lie between. `EndInv` relates
  the flags of an end to what its application has been told. A step changes
  a direction at its producer (`Feeds`), at its receiver (`Meets`) or by
  cutting the wire (`CloseKeeps`); one lemma for each shows that `Coming` is kept
  and that the step is one of `Subscription` (`ReceiverKeeps`, `ProducerKeeps`).
* *Leases and ids*. `StackInv` describes `running`, the stack of callbacks under way;
  `WaitInv` and `GrantInv` say what is left of a lease at each place of that stack. Ids are
  about rounds: `LatestInv` and `CollisionInv` relate who was given an id
  last, who is registered under it at either end and what is in flight for it. The
  first free id after a given one is the least element of a set (`LeastNat`), not
  an induction over the search.
* *Setup*. `BytesInv` says that what was handled, what is left in the buffer and what is
  under way are consecutive bytes; `StageInv` ties the stage of `bind` to handlers,
  callbacks and connection.
* *Resume*. For each connection a chain of data frames and one of positions run
  from what the receiver has handled to what the sender has sent; `PositionsInv` says
  which positions a side can `Know`, `HandshakeInv` what RESUME and RESUME_OK in
  flight carry, `TimerInv` when the timer runs. The client's half holds
  unconditionally. The server's holds unless `overlapped`, since then an old
  connection goes on filling it. That a step is one of `Link` follows from what
  one step can do to `sent` and `handled` (`FramesMove`).

The invariants were checked with TLC before they were proved: those of the
resumption on 5.1 million states, those of the channel's releases on two
complete instances of 3.1 and 1.8 million.

A few definitions are written for the provers: a change of one field is an
`EXCEPT` on that field, and `CancelRequest` removes a request from the queue by
the position at which it is.

**What is only model-checked.**

* Liveness (`EndsTogether`, `AnsweredOnce`, `EventuallyDelivered`, `LossNoticed`,
  `EveryCallEnds`, `Settles`): fairness and `ENABLED` are out of the prover's reach.
* `Delivered`, `PositionsAgree`, `Fits` and `Routed` of `Transfer`, `Delivers` and
  `PrefetchConserved` of `RxAdapter`: they are about what folds and recursive functions
  compute from data of any length, which takes induction over that data; the
  induction theorems take an operator, which no prover here can instantiate.
* `RequestResponse`, which uses the handlers of `RequestStream` and whose
  property is a liveness property.

## 5. Plan

Left for later: fire-and-forget through the RxJS adapter; the responder's `cancel`
of a fire-and-forget; the composition of `Transfer` with `Resume`, a
`Transfer` whose messages travel over a resumable session.

## 6. Not modelled, and why

The GraphQL packages and the examples use the interactions modelled here.
`metadataPush` is a single frame to a handler without an answer. There is no
clock: the ttl of a lease, the session timeout and the keep-alive check may
pass at any moment. The listening sockets and the clients' connect are I/O.

Of what is modelled, these parts are left out: the refusals of the encoders
(lengths out of range, text that is not ASCII) and the conversion of text; the
names of the well-known MIME and authentication types but for those that routes
and credentials use; the builders of `RSocketRequester`, which pass their
arguments on; fire-and-forget through the RxJS adapter (an observer without
values); a handler that never subscribes to its channel's input, whose first
refill throws; codecs of the application that throw; a channel's source that
ends before its first value, when no request is made at all.
