---------------------------- MODULE RequestStream ----------------------------
(***************************************************************************)
(* One REQUEST_STREAM interaction: a RequestStreamRequesterStream and a    *)
(* RequestStreamResponderStream (RequestStreamStream.ts) with the registry *)
(* entry each end keeps, the frames between them and the connection.       *)
(*                                                                         *)
(* A handler is one action, except the application's requestStream handler,*)
(* which may call the stream before it returns its receiver: its call and  *)
(* its return are two actions and this end's frames wait in between.       *)
(***************************************************************************)
EXTENDS Interaction

CONSTANTS
    InitialDemands,   \* the initialRequestN the application may pass
    Demands,          \* the n of request(n); 0 is an invalid call
    MaxPayloads,      \* bound: payloads the responder emits
    MaxRequests,      \* bound: request(n) calls
    MaxExtensions,    \* bound: onExtension calls an end makes
    Leased,           \* a LeaseManager holds the request back until a grant
    Chunked,          \* a TCP chunk may hold frames behind the one that closed
    CloseInHandler    \* the handler may close the connection before returning

ASSUME BoundsAssumption ==
    /\ InitialDemands \subseteq Nat
    /\ Demands \subseteq Nat
    /\ MaxPayloads \in Nat /\ MaxRequests \in Nat /\ MaxExtensions \in Nat
    /\ Leased \in BOOLEAN /\ Chunked \in BOOLEAN /\ CloseInHandler \in BOOLEAN

VARIABLES
    phase,     \* the requester: "pending" | "ready" | "rejected" | "dropped"
    held,      \* the requester's initialRequestN and hasExtension
    served,    \* the responder: "none" | "reassembling" | "running" | "active"
               \* | "threw" | "refused"
    initialN,  \* the initialRequestN a fragmented request carried
    stream,    \* per end: done, registry entry, fragments
    consumer,  \* the requester's application: what it called, was called with
    producer,  \* the responder's application, likewise
    extended,  \* per end: onExtension calls
    refused    \* an end has taken a frame for a protocol violation, other than
               \* an invalid demand

local == <<phase, held, served, initialN, consumer, producer, extended, refused>>
vars == <<local, stream, wire, open>>

TypeOK ==
    /\ phase \in {"pending", "ready", "rejected", "dropped"}
    /\ held \in [initialRequestN: Nat, hasExtension: BOOLEAN]
    /\ served \in {"none", "reassembling", "running", "active", "threw",
                   "refused"}
    /\ initialN \in Nat
    /\ stream \in [End -> [done: BOOLEAN, registered: BOOLEAN,
                           hasFragments: BOOLEAN, fragments: Seq(Nat)]]
    /\ consumer \in [asked: Nat, requests: Nat, quit: BOOLEAN,
                     signals: Seq(Signal)]
    /\ producer \in [emitted: Nat, ended: {"no", "complete", "error"},
                     granted: Nat, cancels: Nat]
    /\ extended \in [End -> Nat]
    /\ refused \in BOOLEAN
    /\ wire \in [End -> Seq(Frame)]
    /\ open \in [End -> BOOLEAN]

Init ==
    /\ phase = "pending"
    /\ held \in [initialRequestN: InitialDemands, hasExtension: {FALSE}]
    /\ served = "none"
    /\ initialN = 0
    /\ stream = [e \in End |-> [done |-> FALSE, registered |-> FALSE,
                                hasFragments |-> FALSE, fragments |-> <<>>]]
    /\ consumer = [asked |-> held.initialRequestN, requests |-> 0,
                   quit |-> FALSE, signals |-> <<>>]
    /\ producer = [emitted |-> 0, ended |-> "no", granted |-> 0, cancels |-> 0]
    /\ extended = [e \in End |-> 0]
    /\ refused = FALSE
    /\ wire = [e \in End |-> <<>>]
    /\ open = [e \in End |-> TRUE]

-----------------------------------------------------------------------------
(* What the handlers share *)

Done(e) == stream[e].done
HasStream == served \in {"running", "active", "threw"}
HasReceiver == served = "active"

Arrives(e, type) ==
    /\ wire[e] # <<>>
    /\ Head(wire[e]).type = type
    /\ served # "running" \/ e = Requester

\* Stream handlers see a frame only while the registry holds the stream.
Handles(e, type) == Arrives(e, type) /\ stream[e].registered

\* The stream is done and leaves the registry.
Finish(e) ==
    stream' = [stream EXCEPT ![e].done = TRUE, ![e].registered = FALSE]

\* The same with Reassembler.cancel.
Abort(e) ==
    stream' = [stream EXCEPT ![e] = [done |-> TRUE, registered |-> FALSE,
                                     hasFragments |-> FALSE,
                                     fragments |-> <<>>]]

\* Reassembler.add
AddFragment(e, data) ==
    stream' = [stream EXCEPT ![e].hasFragments = TRUE,
                             ![e].fragments = @ \o data]

\* Reassembler.reassemble
Reassembled(e, data) ==
    IF stream[e].hasFragments THEN stream[e].fragments \o data ELSE data

Told(signal) ==
    consumer' = [consumer EXCEPT !.signals = Append(@, signal)]

Cancelled(b) == producer' = [producer EXCEPT !.cancels = @ + Count(b)]

-----------------------------------------------------------------------------
(* RequestStreamRequesterStream *)

\* Mutant: the demand asked for while waiting for the lease is not added.
HandleReady_InitialDemandOnly(cut) ==
    /\ phase = "pending" /\ open[Requester]
    /\ phase' = "ready"
    /\ stream' = [stream EXCEPT ![Requester].registered = TRUE]
    /\ Send(Requester, RequestFrames(1, FALSE, cut)
                         \o If(held.hasExtension, ExtFrame))
    /\ UNCHANGED <<held, served, initialN, consumer, producer, extended,
                   refused, open>>

\* The lease or the multiplexer answers; what happened meanwhile is sent.
HandleReady(cut) ==
    /\ phase = "pending" /\ open[Requester]
    /\ phase' = "ready"
    /\ stream' = [stream EXCEPT ![Requester].registered = TRUE]
    /\ Send(Requester, RequestFrames(held.initialRequestN, FALSE, cut)
                         \o If(held.hasExtension, ExtFrame))
    /\ UNCHANGED <<held, served, initialN, consumer, producer, extended,
                   refused, open>>

HandleReject ==
    /\ phase = "pending"
    /\ Leased \/ ~open[Requester]
    /\ phase' = "rejected"
    /\ stream' = [stream EXCEPT ![Requester].done = TRUE]
    /\ Told(OnError)
    /\ UNCHANGED <<held, served, initialN, producer, extended, refused, wire,
                   open>>

RequesterRequest(n) ==
    /\ ~Done(Requester)
    /\ consumer.requests < MaxRequests
    /\ consumer' = [consumer EXCEPT !.asked = @ + n, !.requests = @ + 1]
    /\ \/ /\ phase = "pending" /\ Leased
          /\ held' = [held EXCEPT !.initialRequestN = @ + n]
          /\ UNCHANGED wire
       \/ /\ phase = "ready"
          /\ Send(Requester, <<RequestNFrame(n)>>)
          /\ UNCHANGED held
    /\ UNCHANGED <<phase, served, initialN, producer, extended, refused,
                   stream, open>>

\* Mutant: the responder is not told.
RequesterCancel_Silent ==
    /\ ~Done(Requester) /\ phase = "ready"
    /\ consumer' = [consumer EXCEPT !.quit = TRUE]
    /\ Abort(Requester)
    /\ UNCHANGED <<phase, held, served, initialN, producer, extended, refused,
                   wire, open>>

RequesterCancel ==
    /\ ~Done(Requester)
    /\ consumer' = [consumer EXCEPT !.quit = TRUE]
    /\ \/ /\ phase = "pending" /\ Leased        \* LeaseHandler.cancelRequest
          /\ phase' = "dropped"
          /\ stream' = [stream EXCEPT ![Requester].done = TRUE]
          /\ UNCHANGED wire
       \/ /\ phase = "ready"
          /\ Abort(Requester)
          /\ Send(Requester, <<CancelFrame>>)
          /\ UNCHANGED phase
    /\ UNCHANGED <<held, served, initialN, producer, extended, refused, open>>

RequesterOnExtension ==
    /\ ~Done(Requester)
    /\ extended[Requester] < MaxExtensions
    /\ extended' = [extended EXCEPT ![Requester] = @ + 1]
    /\ \/ /\ phase = "pending" /\ Leased
          /\ held' = [held EXCEPT !.hasExtension = TRUE]
          /\ UNCHANGED wire
       \/ /\ phase = "ready"
          /\ Send(Requester, <<ExtFrame>>)
          /\ UNCHANGED held
    /\ UNCHANGED <<phase, served, initialN, consumer, producer, refused,
                   stream, open>>

\* A payload frame with COMPLETE but not NEXT is the end of the stream.
RequesterHandlesComplete ==
    LET f == Head(wire[Requester])
    IN  /\ Handles(Requester, "PAYLOAD")
        /\ f.complete /\ ~f.next
        /\ Finish(Requester)
        /\ Told(OnComplete)
        /\ TakeAndSend(Requester, <<>>)
        /\ UNCHANGED <<phase, held, served, initialN, producer, extended,
                       refused, open>>

\* A payload: whole, or the fragment that completes it.
RequesterHandlesPayload ==
    LET f == Head(wire[Requester])
        s == stream[Requester]
    IN  /\ Handles(Requester, "PAYLOAD")
        /\ f.complete \/ ~f.follows
        /\ f.complete => f.next
        /\ stream' = [stream EXCEPT ![Requester] =
                        [done |-> s.done \/ f.complete,
                         registered |-> ~f.complete,
                         hasFragments |-> FALSE, fragments |-> <<>>]]
        /\ Told(OnNext(Reassembled(Requester, f.data), f.complete))
        /\ TakeAndSend(Requester, <<>>)
        /\ UNCHANGED <<phase, held, served, initialN, producer, extended,
                       refused, open>>

\* Mutant: every fragment replaces the one before.
RequesterHandlesFragment_Replaces ==
    LET f == Head(wire[Requester])
    IN  /\ Handles(Requester, "PAYLOAD")
        /\ f.follows /\ ~f.complete
        /\ stream' = [stream EXCEPT ![Requester].fragments = f.data]
        /\ TakeAndSend(Requester, <<>>)
        /\ UNCHANGED <<local, open>>

RequesterHandlesFragment ==
    LET f == Head(wire[Requester])
    IN  /\ Handles(Requester, "PAYLOAD")
        /\ f.follows /\ ~f.complete
        /\ AddFragment(Requester, f.data)
        /\ TakeAndSend(Requester, <<>>)
        /\ UNCHANGED <<local, open>>

\* Mutant: the receiver gets the frame for an error.
RequesterHandlesError_PassesFrame ==
    /\ Handles(Requester, "ERROR")
    /\ Abort(Requester)
    /\ Told(Head(wire[Requester]))
    /\ TakeAndSend(Requester, <<>>)
    /\ UNCHANGED <<phase, held, served, initialN, producer, extended, refused,
                   open>>

RequesterHandlesError ==
    /\ Handles(Requester, "ERROR")
    /\ Abort(Requester)
    /\ Told(OnError)
    /\ TakeAndSend(Requester, <<>>)
    /\ UNCHANGED <<phase, held, served, initialN, producer, extended, refused,
                   open>>

\* An extension is handed on, except between two fragments: close(error),
\* send CANCEL, disconnect.
RequesterHandlesExtension ==
    /\ Handles(Requester, "EXT")
    /\ IF stream[Requester].hasFragments
       THEN /\ Abort(Requester)
            /\ IF Done(Requester) THEN UNCHANGED consumer ELSE Told(OnError)
            /\ TakeAndSend(Requester, <<CancelFrame>>)
            /\ refused' = TRUE
       ELSE /\ TakeAndSend(Requester, <<>>)
            /\ UNCHANGED <<stream, consumer, refused>>
    /\ UNCHANGED <<phase, held, served, initialN, producer, extended, open>>

-----------------------------------------------------------------------------
(* RequestStreamResponderStream: the request and the application's handler *)

\* The rsocket has no handler for the request: rejectRequest.
ResponderRejects ==
    /\ Arrives(Responder, "REQUEST")
    /\ served = "none"
    /\ served' = "refused"
    /\ TakeAndSend(Responder, <<ErrorFrame>>)
    /\ UNCHANGED <<phase, held, initialN, consumer, producer, extended,
                   refused, stream, open>>

\* The constructor: an invalid initialRequestN errors the stream.
ResponderRefusesDemand ==
    /\ Arrives(Responder, "REQUEST")
    /\ served = "none"
    /\ Head(wire[Responder]).requestN < 1
    /\ served' = "refused"
    /\ stream' = [stream EXCEPT ![Responder].done = TRUE]
    /\ TakeAndSend(Responder, <<ErrorFrame>>)
    /\ UNCHANGED <<phase, held, initialN, consumer, producer, extended,
                   refused, open>>

ResponderReceivesFirstFragment ==
    LET f == Head(wire[Responder])
    IN  /\ Arrives(Responder, "REQUEST")
        /\ served = "none"
        /\ f.requestN >= 1 /\ f.follows
        /\ served' = "reassembling"
        /\ initialN' = f.requestN
        /\ stream' = [stream EXCEPT ![Responder].registered = TRUE,
                                    ![Responder].hasFragments = TRUE,
                                    ![Responder].fragments = f.data]
        /\ TakeAndSend(Responder, <<>>)
        /\ UNCHANGED <<phase, held, consumer, producer, extended, refused,
                       open>>

\* The application's handler is called.
CallHandler(n) ==
    /\ served' = "running"
    /\ producer' = [producer EXCEPT !.granted = n]
    /\ TakeAndSend(Responder, <<>>)
    /\ UNCHANGED <<phase, held, initialN, consumer, extended, refused, open>>

ResponderReceivesRequest ==
    LET f == Head(wire[Responder])
    IN  /\ Arrives(Responder, "REQUEST")
        /\ served = "none"
        /\ f.requestN >= 1 /\ ~f.follows
        /\ stream' = [stream EXCEPT ![Responder].registered = TRUE]
        /\ CallHandler(f.requestN)

\* Without a receiver a whole payload completes the request.
ResponderReassemblesRequest ==
    /\ Handles(Responder, "PAYLOAD")
    /\ ~HasReceiver /\ ~Head(wire[Responder]).follows
    /\ stream' = [stream EXCEPT ![Responder].hasFragments = FALSE,
                                ![Responder].fragments = <<>>]
    /\ CallHandler(initialN)

HandlerReturns ==
    /\ served = "running"
    /\ served' = "active"
    /\ UNCHANGED <<phase, held, initialN, consumer, producer, extended,
                   refused, stream, wire, open>>

\* Mutant: the entry stays in the registry.
HandlerThrows_KeepsEntry ==
    /\ served = "running"
    /\ served' = "threw"
    /\ stream' = [stream EXCEPT ![Responder].done = TRUE]
    /\ Send(Responder, If(~Done(Responder), ErrorFrame))
    /\ UNCHANGED <<phase, held, initialN, consumer, producer, extended,
                   refused, open>>

HandlerThrows ==
    /\ served = "running"
    /\ served' = "threw"
    /\ IF Done(Responder)
       THEN UNCHANGED <<stream, wire>>
       ELSE Finish(Responder) /\ Send(Responder, <<ErrorFrame>>)
    /\ UNCHANGED <<phase, held, initialN, consumer, producer, extended,
                   refused, open>>

-----------------------------------------------------------------------------
(* RequestStreamResponderStream: calls of the application *)

ResponderOnNext(isCompletion, cut) ==
    /\ HasStream
    /\ ~Done(Responder)
    /\ producer.emitted < MaxPayloads
    /\ IF isCompletion THEN Finish(Responder) ELSE UNCHANGED stream
    /\ Send(Responder, PayloadFrames(producer.emitted + 1, isCompletion, cut))
    /\ producer' = [producer EXCEPT !.emitted = @ + 1,
                        !.ended = IF isCompletion THEN "complete" ELSE @]
    /\ UNCHANGED <<phase, held, served, initialN, consumer, extended, refused,
                   open>>

ResponderOnComplete ==
    /\ HasStream
    /\ ~Done(Responder)
    /\ Finish(Responder)
    /\ Send(Responder, <<CompleteFrame>>)
    /\ producer' = [producer EXCEPT !.ended = "complete"]
    /\ UNCHANGED <<phase, held, served, initialN, consumer, extended, refused,
                   open>>

ResponderOnError ==
    /\ HasStream
    /\ ~Done(Responder)
    /\ Finish(Responder)
    /\ Send(Responder, <<ErrorFrame>>)
    /\ producer' = [producer EXCEPT !.ended = "error"]
    /\ UNCHANGED <<phase, held, served, initialN, consumer, extended, refused,
                   open>>

ResponderOnExtension ==
    /\ HasStream
    /\ ~Done(Responder)
    /\ extended[Responder] < MaxExtensions
    /\ extended' = [extended EXCEPT ![Responder] = @ + 1]
    /\ Send(Responder, <<ExtFrame>>)
    /\ UNCHANGED <<phase, held, served, initialN, consumer, producer, refused,
                   stream, open>>

-----------------------------------------------------------------------------
(* RequestStreamResponderStream.handle *)

ResponderHandlesFragment ==
    LET f == Head(wire[Responder])
    IN  /\ Handles(Responder, "PAYLOAD")
        /\ ~HasReceiver /\ f.follows
        /\ AddFragment(Responder, f.data)
        /\ TakeAndSend(Responder, <<>>)
        /\ UNCHANGED <<local, open>>

\* The stream ends: its producer is cancelled, and the peer told (or not).
StopsProducer(frames) ==
    /\ Abort(Responder)
    /\ Cancelled(HasReceiver)
    /\ TakeAndSend(Responder, frames)
    /\ UNCHANGED <<phase, held, served, initialN, consumer, extended, open>>

ResponderHandlesEnd ==
    /\ Handles(Responder, "CANCEL") \/ Handles(Responder, "ERROR")
    /\ StopsProducer(<<>>)
    /\ UNCHANGED refused

ResponderHandlesRequestN ==
    LET n == Head(wire[Responder]).requestN
    IN  /\ Handles(Responder, "REQUEST_N")
        /\ HasReceiver /\ n >= 1
        /\ producer' = [producer EXCEPT !.granted = @ + n]
        /\ TakeAndSend(Responder, <<>>)
        /\ UNCHANGED <<phase, held, served, initialN, consumer, extended,
                       refused, stream, open>>

ResponderHandlesExtension ==
    /\ Handles(Responder, "EXT")
    /\ HasReceiver
    /\ TakeAndSend(Responder, <<>>)
    /\ UNCHANGED <<local, stream, open>>

\* An invalid demand, or a frame that may not come between fragments.
ResponderRefusesFrame ==
    LET f == Head(wire[Responder])
        invalid == f.type = "REQUEST_N" /\ f.requestN < 1
    IN  /\ \/ Handles(Responder, "REQUEST_N") /\ (~HasReceiver \/ invalid)
           \/ Handles(Responder, "EXT") /\ ~HasReceiver
           \/ Handles(Responder, "PAYLOAD") /\ HasReceiver
        /\ StopsProducer(<<ErrorFrame>>)
        /\ refused' = (refused \/ ~invalid)

-----------------------------------------------------------------------------
(* The multiplexers and the connection *)

\* A frame for a stream the registry does not hold is dropped.
DropFrame(e) ==
    /\ wire[e] # <<>>
    /\ Head(wire[e]).type # "REQUEST"
    /\ ~stream[e].registered
    /\ served # "running" \/ e = Requester
    /\ TakeAndSend(e, <<>>)
    /\ UNCHANGED <<local, stream, open>>

\* Mutant: the consumer is not told.
RequesterCloses_Silent ==
    /\ Disconnect(Requester, Chunked)
    /\ stream' = [stream EXCEPT ![Requester].done = TRUE]
    /\ UNCHANGED local

\* The connection closes, then the multiplexer, which closes the stream but
\* leaves it in the registry.
RequesterCloses ==
    /\ Disconnect(Requester, Chunked)
    /\ IF stream[Requester].registered /\ ~Done(Requester)
       THEN /\ stream' = [stream EXCEPT ![Requester] =
                            [@ EXCEPT !.done = TRUE, !.hasFragments = FALSE,
                                      !.fragments = <<>>]]
            /\ Told(OnError)
       ELSE UNCHANGED <<stream, consumer>>
    /\ UNCHANGED <<phase, held, served, initialN, producer, extended, refused>>

\* The responder's close cancels the producer without setting done.
ResponderCloses ==
    /\ CloseInHandler \/ served # "running"
    /\ Disconnect(Responder, Chunked)
    /\ IF stream[Responder].registered /\ ~Done(Responder)
       THEN /\ stream' = [stream EXCEPT ![Responder].hasFragments = FALSE,
                                        ![Responder].fragments = <<>>]
            /\ Cancelled(HasReceiver)
       ELSE UNCHANGED <<stream, producer>>
    /\ UNCHANGED <<phase, held, served, initialN, consumer, extended, refused>>

-----------------------------------------------------------------------------
Answer == (\E cut \in BOOLEAN : HandleReady(cut)) \/ HandleReject
RequesterCalls ==
    \/ \E n \in Demands : RequesterRequest(n)
    \/ RequesterCancel
    \/ RequesterOnExtension
RequesterHandles ==
    \/ RequesterHandlesComplete
    \/ RequesterHandlesPayload
    \/ RequesterHandlesFragment
    \/ RequesterHandlesError
    \/ RequesterHandlesExtension
    \/ DropFrame(Requester)

HandlerEnds == HandlerReturns \/ HandlerThrows
ResponderCalls ==
    \/ \E isCompletion, cut \in BOOLEAN : ResponderOnNext(isCompletion, cut)
    \/ ResponderOnComplete
    \/ ResponderOnError
    \/ ResponderOnExtension
ResponderHandles ==
    \/ ResponderRejects
    \/ ResponderRefusesDemand
    \/ ResponderReceivesFirstFragment
    \/ ResponderReceivesRequest
    \/ ResponderReassemblesRequest
    \/ ResponderHandlesFragment
    \/ ResponderHandlesEnd
    \/ ResponderHandlesRequestN
    \/ ResponderHandlesExtension
    \/ ResponderRefusesFrame
    \/ DropFrame(Responder)

Next ==
    \/ Answer \/ HandlerEnds
    \/ RequesterCalls \/ ResponderCalls
    \/ RequesterHandles \/ ResponderHandles
    \/ RequesterCloses \/ ResponderCloses

Spec == Init /\ [][Next]_vars

\* A socket delivers, a handler returns or throws, the request is answered,
\* and the peer of a closed end notices.
Fairness ==
    /\ WF_vars(Answer) /\ WF_vars(HandlerEnds)
    /\ WF_vars(RequesterHandles) /\ WF_vars(ResponderHandles)
    /\ WF_vars(~open[Responder] /\ RequesterCloses)
    /\ WF_vars(~open[Requester] /\ ResponderCloses)

FairSpec == Spec /\ Fairness

-----------------------------------------------------------------------------
(* Properties *)

Started(e) == IF e = Requester THEN phase = "ready"
              ELSE HasStream \/ served = "reassembling"

(* While the connection is open, an end's registry holds the stream from   *)
(* its first frame until the stream is done, on every path.                *)
RegistryExact ==
    \A e \in End : open[e] => (stream[e].registered <=> Started(e) /\ ~Done(e))

(* Between two ends that both run this code, no frame but an invalid       *)
(* demand is taken for a protocol violation.                               *)
NoProtocolErrors == ~refused

(* The stream keeps what Subscription promises: the producer's payloads in *)
(* order and whole, one terminal signal, no completion without everything; *)
(* and neither end takes the other's frames for a violation.               *)
Promise == INSTANCE Subscription WITH emitted <- producer.emitted,
                                      ended <- producer.ended,
                                      signals <- consumer.signals
PromiseToConsumer == Promise!Spec /\ []NoProtocolErrors

(* The producer is granted no more than the consumer asked for, before or  *)
(* after the stream had an id, and with nothing in flight no less.         *)
DemandConserved ==
    /\ producer.granted <= consumer.asked
    /\ (/\ \A e \in End : open[e] /\ wire[e] = <<>> /\ ~Done(e)
        /\ phase = "ready" /\ served \in {"running", "active"})
       => producer.granted = consumer.asked

(* A producer whose consumer has gone, or whose connection has, has ended  *)
(* by itself or been cancelled, once; one whose consumer waits never was.  *)
ConsumerGone == /\ open[Requester] /\ Done(Requester)
                /\ wire[Responder] = <<>>
ProducerReleased ==
    /\ producer.cancels <= 1
    /\ (HasReceiver /\ (ConsumerGone \/ ~open[Responder]))
          => (producer.cancels = 1 \/ producer.ended # "no")
    /\ (\A e \in End : open[e] /\ ~Done(e)) => producer.cancels = 0

(* A consumer whose stream is done has cancelled or been told.             *)
ConsumerTold ==
    Done(Requester) => \/ consumer.quit
                       \/ \E i \in 1 .. Len(consumer.signals) :
                             consumer.signals[i].last

(* Nobody is left behind by a stream that is over.                         *)
Released == ProducerReleased /\ ConsumerTold

(* A stream that the consumer ends, or loses, stops at the producer's end; *)
(* one that the producer ends, stops at the consumer's.                    *)
EndsTogether ==
    /\ (phase = "ready" /\ Done(Requester)) ~>
          (served \in {"none", "refused"} \/ Done(Responder) \/ ~open[Responder])
    /\ (Started(Responder) /\ Done(Responder)) ~> Done(Requester)
=============================================================================
