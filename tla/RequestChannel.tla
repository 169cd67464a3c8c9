--------------------------- MODULE RequestChannel ---------------------------
(***************************************************************************)
(* One REQUEST_CHANNEL interaction: a RequestChannelRequesterStream and a  *)
(* RequestChannelResponderStream (RequestChannelStream.ts), the registry   *)
(* entry the multiplexer of each end keeps for the stream, the FIFO of     *)
(* frames of each direction, and the connection, which either end may lose *)
(* at any moment.                                                          *)
(*                                                                         *)
(* JavaScript runs one callback at a time, so a handler is one action.     *)
(* The exception is the application's requestChannel handler: it may call  *)
(* the responder stream before it returns its receiver, so its call and    *)
(* its return are two actions and the frames of this end wait in between.  *)
(***************************************************************************)
EXTENDS Interaction

CONSTANTS
    InitialDemands,   \* the initialRequestN the application may pass
    Demands,          \* the n of request(n); 0 is an invalid call
    MaxPayloads,      \* bound: payloads an end emits, the initial one included
    MaxRequests,      \* bound: request(n) calls an end makes
    MaxExtensions,    \* bound: onExtension calls an end makes
    Leased,           \* a LeaseManager holds the request back until a grant
    Chunked,          \* a TCP chunk may hold frames behind the one that closed
    CloseInHandler    \* the handler may close the connection before returning

ASSUME BoundsAssumption ==
    /\ InitialDemands \subseteq Nat
    /\ Demands \subseteq Nat
    /\ MaxPayloads \in Nat /\ MaxRequests \in Nat /\ MaxExtensions \in Nat
    /\ Leased \in BOOLEAN /\ Chunked \in BOOLEAN /\ CloseInHandler \in BOOLEAN

VARIABLES
    phase,    \* the requester: "pending" | "ready" | "rejected" | "dropped"
    held,     \* what the requester keeps until it is ready
    served,   \* the responder: "none" | "reassembling" | "running" | "active"
              \* | "threw" | "refused"
    first,    \* the responder's initialRequestN, isComplete, defferedError
    stream,   \* per end: inboundDone, outboundDone, registry entry, fragments
    app,      \* per end: what the application has called on the stream
    rcv       \* per end: what the stream has called on the application

vars == <<phase, held, served, first, stream, wire, open, app, rcv>>

-----------------------------------------------------------------------------
(* Types *)

Held == [initialRequestN: Nat, isComplete: BOOLEAN, hasExtension: BOOLEAN]
First == [initialRequestN: Nat, isComplete: BOOLEAN, deferred: BOOLEAN]
StreamState == [inDone: BOOLEAN, outDone: BOOLEAN, registered: BOOLEAN,
                hasFragments: BOOLEAN, fragments: Seq(Nat)]
AppState == [emitted: Nat, asked: Nat, requests: Nat, extensions: Nat,
             quit: BOOLEAN, ended: {"no", "complete", "error"}]
RcvState == [signals: Seq(Signal), granted: Nat, cancels: Nat,
             protocolErrors: Nat]

TypeOK ==
    /\ phase \in {"pending", "ready", "rejected", "dropped"}
    /\ held \in Held
    /\ served \in {"none", "reassembling", "running", "active", "threw",
                   "refused"}
    /\ first \in First
    /\ stream \in [End -> StreamState]
    /\ wire \in [End -> Seq(Frame)]
    /\ open \in [End -> BOOLEAN]
    /\ app \in [End -> AppState]
    /\ rcv \in [End -> RcvState]

Init ==
    /\ phase = "pending"
    /\ held \in [initialRequestN: InitialDemands, isComplete: BOOLEAN,
                 hasExtension: {FALSE}]
    /\ served = "none"
    /\ first = [initialRequestN |-> 0, isComplete |-> FALSE,
                deferred |-> FALSE]
    /\ stream = [e \in End |-> [inDone |-> FALSE, outDone |-> FALSE,
                                registered |-> FALSE, hasFragments |-> FALSE,
                                fragments |-> <<>>]]
    /\ wire = [e \in End |-> <<>>]
    /\ open = [e \in End |-> TRUE]
    /\ app = [e \in End |->
                [emitted |-> 0, requests |-> 0, extensions |-> 0,
                 asked |-> IF e = Requester THEN held.initialRequestN ELSE 0,
                 quit |-> FALSE,
                 ended |-> IF e = Requester /\ held.isComplete
                           THEN "complete" ELSE "no"]]
    /\ rcv = [e \in End |-> [signals |-> <<>>, granted |-> 0, cancels |-> 0,
                             protocolErrors |-> 0]]

-----------------------------------------------------------------------------
(* The registry and what the handlers share *)

Arrives(e, type) ==
    /\ wire[e] # <<>>
    /\ Head(wire[e]).type = type
    /\ served # "running" \/ e = Requester

\* Stream handlers see a frame only while the registry holds the stream.
Handles(e, type) == Arrives(e, type) /\ stream[e].registered

InDone(e) == stream[e].inDone
OutDone(e) == stream[e].outDone
Over(e) == InDone(e) /\ OutDone(e)

\* Mutant: the registry entry outlives both directions.
OutEnds_KeepsEntry(e, ends) == [stream EXCEPT ![e].outDone = @ \/ ends]

\* The outbound direction ends (or not), and the registry entry with it if
\* the inbound one has ended.
OutEnds(e, ends) ==
    LET s == stream[e]
    IN  [stream EXCEPT ![e] =
            [s EXCEPT !.outDone = s.outDone \/ ends,
                      !.registered = s.registered /\ ~(ends /\ s.inDone)]]

\* The inbound direction ends, and the entry if the outbound one has ended.
InEnds(e) ==
    LET s == stream[e]
    IN  [stream EXCEPT ![e] =
            [s EXCEPT !.inDone = TRUE,
                      !.registered = s.registered /\ ~s.outDone]]

\* Both directions end and the stream disconnects.
BothEnd(e) ==
    [stream EXCEPT ![e] = [@ EXCEPT !.inDone = TRUE, !.outDone = TRUE,
                                    !.registered = FALSE]]

\* The same with Reassembler.cancel; keep leaves the registry entry.
Ended(e, keep) ==
    [stream EXCEPT ![e] = [inDone |-> TRUE, outDone |-> TRUE,
                           registered |-> keep /\ @.registered,
                           hasFragments |-> FALSE, fragments |-> <<>>]]

\* Reassembler.add
Extended(e, data) ==
    LET s == stream[e]
    IN  [stream EXCEPT ![e] = [s EXCEPT !.hasFragments = TRUE,
                                        !.fragments = s.fragments \o data]]

\* Reassembler.reassemble: the payload a final frame completes
Reassembled(e, data) ==
    IF stream[e].hasFragments THEN stream[e].fragments \o data ELSE data

\* Mutant: reassembly leaves the holder as it is.
Finished_KeepsFragments(e, complete, reassembled) ==
    [stream EXCEPT ![e] =
        [@ EXCEPT !.inDone = @ \/ complete,
                  !.registered = @ /\ ~(complete /\ OutDone(e))]]

\* A final payload frame: the holder is emptied, COMPLETE ends the inbound
\* direction and, if the outbound one has ended, the registry entry.
Finished(e, complete, reassembled) ==
    [stream EXCEPT ![e] =
        [inDone |-> @.inDone \/ complete, outDone |-> @.outDone,
         registered |-> @.registered /\ ~(complete /\ @.outDone),
         hasFragments |-> @.hasFragments /\ ~reassembled,
         fragments |-> IF reassembled THEN <<>> ELSE @.fragments]]

\* What the receiver is called with, and the usual pair of calls when both
\* directions end: cancel() for the outbound one, onError() for the inbound.
Told(e, cancelled, signals) ==
    LET r == rcv[e]
    IN  [rcv EXCEPT ![e] = [r EXCEPT !.cancels = r.cancels + Count(cancelled),
                                     !.signals = r.signals \o signals]]

Stopped(e) == Told(e, ~OutDone(e), If(~InDone(e), OnError))

Granted(e, n) == [rcv EXCEPT ![e].granted = @ + n]

PayloadSignal(e, f) ==
    IF f.complete /\ ~f.next THEN OnComplete
    ELSE OnNext(Reassembled(e, f.data), f.complete)

\* What the application has called
Asked(e, n) ==
    LET a == app[e]
    IN  [app EXCEPT ![e] = [a EXCEPT !.requests = a.requests + 1,
                                     !.asked = a.asked + n]]

Emitted(e, complete) ==
    LET a == app[e]
    IN  [app EXCEPT ![e] =
            [a EXCEPT !.emitted = a.emitted + 1,
                      !.ended = IF complete THEN "complete" ELSE a.ended]]

-----------------------------------------------------------------------------
(* RequestChannelRequesterStream: the lease or the multiplexer answers *)

\* createRequestStream found the multiplexer open.
HandleReady(cut) ==
    /\ phase = "pending" /\ open[Requester]
    /\ ~OutDone(Requester)
    /\ phase' = "ready"
    /\ stream' = [stream EXCEPT ![Requester] =
                    [@ EXCEPT !.registered = TRUE,
                              !.outDone = held.isComplete]]
    /\ Send(Requester,
            RequestFrames(held.initialRequestN, held.isComplete, cut)
              \o If(held.hasExtension, ExtFrame))
    /\ app' = [app EXCEPT ![Requester].emitted = 1]
    /\ UNCHANGED <<held, served, first, open, rcv>>

\* handleReady returns false: the application ended the request before.
HandleReadyDeclined ==
    /\ phase = "pending" /\ open[Requester]
    /\ OutDone(Requester)
    /\ phase' = "dropped"
    /\ UNCHANGED <<held, served, first, stream, wire, open, app, rcv>>

\* The multiplexer is closed, the lease queue is full or the lease handler
\* closes.
HandleReject ==
    /\ phase = "pending"
    /\ Leased \/ ~open[Requester]
    /\ phase' = "rejected"
    /\ IF InDone(Requester)
       THEN UNCHANGED <<stream, rcv>>
       ELSE /\ stream' = BothEnd(Requester)
            /\ rcv' = Told(Requester, FALSE, <<OnError>>)
    /\ UNCHANGED <<held, served, first, wire, open, app>>

-----------------------------------------------------------------------------
(* RequestChannelRequesterStream: calls of the application *)

RequesterRequest(n) ==
    /\ ~InDone(Requester)
    /\ app[Requester].requests < MaxRequests
    /\ app' = Asked(Requester, n)
    /\ \/ /\ phase # "ready" /\ Leased
          /\ held' = [held EXCEPT !.initialRequestN = @ + n]
          /\ UNCHANGED wire
       \/ /\ phase = "ready"
          /\ Send(Requester, <<RequestNFrame(n)>>)
          /\ UNCHANGED held
    /\ UNCHANGED <<phase, served, first, stream, open, rcv>>

\* Mutant: nothing is sent when the inbound direction has ended.
RequesterCancel_Silent ==
    /\ ~Over(Requester) /\ phase = "ready"
    /\ rcv' = Told(Requester, ~OutDone(Requester), <<>>)
    /\ app' = [app EXCEPT ![Requester].quit = TRUE]
    /\ stream' = Ended(Requester, FALSE)
    /\ Send(Requester, If(~InDone(Requester), CancelFrame))
    /\ UNCHANGED <<phase, held, served, first, open>>

\* The application's own producer is cancelled if it had not ended.
RequesterCancel ==
    /\ ~Over(Requester)
    /\ rcv' = Told(Requester, ~OutDone(Requester), <<>>)
    /\ app' = [app EXCEPT ![Requester].quit = TRUE]
    /\ \/ /\ phase # "ready" /\ Leased       \* LeaseHandler.cancelRequest
          /\ phase' = "dropped"
          /\ stream' = BothEnd(Requester)
          /\ UNCHANGED wire
       \/ /\ phase = "ready"
          /\ stream' = Ended(Requester, FALSE)
          /\ Send(Requester,
                  <<IF InDone(Requester) THEN ErrorFrame ELSE CancelFrame>>)
          /\ UNCHANGED phase
    /\ UNCHANGED <<held, served, first, open>>

RequesterOnNext(isComplete, cut) ==
    /\ phase = "ready"
    /\ ~OutDone(Requester)
    /\ app[Requester].emitted < MaxPayloads
    /\ stream' = OutEnds(Requester, isComplete)
    /\ Send(Requester,
            PayloadFrames(app[Requester].emitted + 1, isComplete, cut))
    /\ app' = Emitted(Requester, isComplete)
    /\ UNCHANGED <<phase, held, served, first, open, rcv>>

RequesterOnComplete ==
    \/ /\ phase = "pending" /\ Leased
       /\ ~OutDone(Requester)
       /\ held' = [held EXCEPT !.isComplete = TRUE]
       /\ app' = [app EXCEPT ![Requester].ended = "complete"]
       /\ UNCHANGED <<phase, served, first, stream, wire, open, rcv>>
    \/ /\ phase = "ready"
       /\ ~OutDone(Requester)
       /\ stream' = OutEnds(Requester, TRUE)
       /\ Send(Requester, <<CompleteFrame>>)
       /\ app' = [app EXCEPT ![Requester].ended = "complete"]
       /\ UNCHANGED <<phase, held, served, first, open, rcv>>

RequesterOnError ==
    /\ phase = "ready"
    /\ ~OutDone(Requester)
    /\ stream' = BothEnd(Requester)
    /\ Send(Requester, <<ErrorFrame>>)
    /\ rcv' = Told(Requester, FALSE, If(~InDone(Requester), OnError))
    /\ app' = [app EXCEPT ![Requester].ended = "error"]
    /\ UNCHANGED <<phase, held, served, first, open>>

\* onError and onNext reach for this.stream after they have set the flags;
\* before handleReady it is undefined, so the call throws and the request
\* stays with the lease handler.
RequesterOnErrorThrows ==
    /\ phase = "pending" /\ Leased
    /\ ~OutDone(Requester)
    /\ stream' = BothEnd(Requester)
    /\ app' = [app EXCEPT ![Requester].ended = "error"]
    /\ UNCHANGED <<phase, held, served, first, wire, open, rcv>>

RequesterOnNextThrows ==
    /\ phase = "pending" /\ Leased
    /\ ~OutDone(Requester)
    /\ stream' = [stream EXCEPT ![Requester].outDone = TRUE]
    /\ app' = [app EXCEPT ![Requester].ended = "complete"]
    /\ UNCHANGED <<phase, held, served, first, wire, open, rcv>>

RequesterOnExtension ==
    /\ ~OutDone(Requester)
    /\ app[Requester].extensions < MaxExtensions
    /\ app' = [app EXCEPT ![Requester].extensions = @ + 1]
    /\ \/ /\ phase = "pending" /\ Leased
          /\ held' = [held EXCEPT !.hasExtension = TRUE]
          /\ UNCHANGED wire
       \/ /\ phase = "ready"
          /\ Send(Requester, <<ExtFrame>>)
          /\ UNCHANGED held
    /\ UNCHANGED <<phase, served, first, stream, open, rcv>>

-----------------------------------------------------------------------------
(* RequestChannelRequesterStream.handle *)

RequesterHandlesPayload ==
    LET f == Head(wire[Requester])
    IN  /\ Handles(Requester, "PAYLOAD")
        /\ f.complete \/ ~f.follows
        /\ stream' = Finished(Requester, f.complete, ~f.complete \/ f.next)
        /\ rcv' = Told(Requester, FALSE, <<PayloadSignal(Requester, f)>>)
        /\ TakeAndSend(Requester, <<>>)
        /\ UNCHANGED <<phase, held, served, first, open, app>>

RequesterHandlesFragment ==
    LET f == Head(wire[Requester])
    IN  /\ Handles(Requester, "PAYLOAD")
        /\ f.follows /\ ~f.complete
        /\ stream' = Extended(Requester, f.data)
        /\ TakeAndSend(Requester, <<>>)
        /\ UNCHANGED <<phase, held, served, first, open, app, rcv>>

RequesterHandlesCancel ==
    /\ Handles(Requester, "CANCEL")
    /\ IF OutDone(Requester)
       THEN UNCHANGED <<stream, rcv>>
       ELSE /\ stream' = OutEnds(Requester, TRUE)
            /\ rcv' = Told(Requester, TRUE, <<>>)
    /\ TakeAndSend(Requester, <<>>)
    /\ UNCHANGED <<phase, held, served, first, open, app>>

\* Mutant: the receiver gets the frame for an error.
RequesterHandlesError_PassesFrame ==
    /\ Handles(Requester, "ERROR")
    /\ stream' = Ended(Requester, FALSE)
    /\ rcv' = Told(Requester, ~OutDone(Requester), <<Head(wire[Requester])>>)
    /\ TakeAndSend(Requester, <<>>)
    /\ UNCHANGED <<phase, held, served, first, open, app>>

RequesterHandlesError ==
    /\ Handles(Requester, "ERROR")
    /\ stream' = Ended(Requester, FALSE)
    /\ rcv' = Told(Requester, ~OutDone(Requester), <<OnError>>)
    /\ TakeAndSend(Requester, <<>>)
    /\ UNCHANGED <<phase, held, served, first, open, app>>

\* A REQUEST_N between fragments, which is counted as a violation, or an
\* invalid one: close(error), send CANCEL, disconnect.
RequesterRefusesFrame ==
    /\ stream' = Ended(Requester, FALSE)
    /\ rcv' = [Stopped(Requester) EXCEPT ![Requester].protocolErrors =
                  @ + Count(stream[Requester].hasFragments)]
    /\ TakeAndSend(Requester, <<CancelFrame>>)

RequesterHandlesRequestN ==
    LET n == Head(wire[Requester]).requestN
    IN  /\ Handles(Requester, "REQUEST_N")
        /\ \/ /\ OutDone(Requester)
              /\ TakeAndSend(Requester, <<>>)
              /\ UNCHANGED <<stream, rcv>>
           \/ /\ ~OutDone(Requester)
              /\ stream[Requester].hasFragments \/ n < 1
              /\ RequesterRefusesFrame
           \/ /\ ~OutDone(Requester)
              /\ ~stream[Requester].hasFragments /\ n >= 1
              /\ rcv' = Granted(Requester, n)
              /\ TakeAndSend(Requester, <<>>)
              /\ UNCHANGED stream
        /\ UNCHANGED <<phase, held, served, first, open, app>>

\* The extension is handed on whatever the state of the stream.
RequesterHandlesExtension ==
    /\ Handles(Requester, "EXT")
    /\ TakeAndSend(Requester, <<>>)
    /\ UNCHANGED <<phase, held, served, first, stream, open, app, rcv>>

-----------------------------------------------------------------------------
(* RequestChannelResponderStream: the first payload and the handler *)

HasStream == served \in {"running", "active", "threw"}
HasReceiver == served = "active"

\* The rsocket has no requestChannel handler: rejectRequest.
ResponderRejects ==
    /\ Arrives(Responder, "REQUEST")
    /\ served = "none"
    /\ served' = "refused"
    /\ TakeAndSend(Responder, <<ErrorFrame>>)
    /\ UNCHANGED <<phase, held, first, stream, open, app, rcv>>

\* The constructor: an invalid initialRequestN errors the stream.
ResponderRefusesDemand ==
    /\ Arrives(Responder, "REQUEST")
    /\ served = "none"
    /\ Head(wire[Responder]).requestN < 1
    /\ served' = "refused"
    /\ stream' = Ended(Responder, FALSE)
    /\ TakeAndSend(Responder, <<ErrorFrame>>)
    /\ UNCHANGED <<phase, held, first, open, app, rcv>>

\* The constructor, the request is fragmented.
ResponderReceivesFirstFragment ==
    LET f == Head(wire[Responder])
    IN  /\ Arrives(Responder, "REQUEST")
        /\ served = "none"
        /\ f.requestN >= 1 /\ f.follows
        /\ served' = "reassembling"
        /\ first' = [first EXCEPT !.initialRequestN = f.requestN,
                                  !.isComplete = f.complete]
        /\ stream' = [stream EXCEPT ![Responder] =
                        [@ EXCEPT !.registered = TRUE, !.hasFragments = TRUE,
                                  !.fragments = f.data]]
        /\ TakeAndSend(Responder, <<>>)
        /\ UNCHANGED <<phase, held, open, app, rcv>>

\* The application's handler is called with the first payload.  Each call
\* begins a receiver of its own, with what this payload brings and the demand
\* of the request.
CallHandler(data, n, isComplete) ==
    /\ served' = "running"
    /\ rcv' = [rcv EXCEPT ![Responder] =
                 [@ EXCEPT !.signals = <<OnNext(data, isComplete)>>,
                           !.granted = n]]
    /\ TakeAndSend(Responder, <<>>)

ResponderReceivesRequest ==
    LET f == Head(wire[Responder])
    IN  /\ Arrives(Responder, "REQUEST")
        /\ served = "none"
        /\ f.requestN >= 1 /\ ~f.follows
        /\ stream' = [stream EXCEPT ![Responder] =
                        [@ EXCEPT !.registered = TRUE,
                                  !.inDone = f.complete]]
        /\ CallHandler(f.data, f.requestN, f.complete)
        /\ UNCHANGED <<phase, held, first, open, app>>

\* Mutant: the demand is read from the last fragment, which carries none.
ResponderReassemblesRequest_LastDemand ==
    LET f == Head(wire[Responder])
        isComplete == first.isComplete \/ f.complete
    IN  /\ Handles(Responder, "PAYLOAD")
        /\ ~HasReceiver /\ ~f.follows
        /\ stream' = Finished(Responder, isComplete, TRUE)
        /\ CallHandler(Reassembled(Responder, f.data), f.requestN, isComplete)
        /\ UNCHANGED <<phase, held, first, open, app>>

\* Without a receiver, a whole payload is the request; so it is once more
\* after a handler that closed the connection and threw.
ResponderReassemblesRequest ==
    LET f == Head(wire[Responder])
        isComplete == first.isComplete \/ f.complete
    IN  /\ Handles(Responder, "PAYLOAD")
        /\ ~HasReceiver /\ ~f.follows
        /\ stream' = Finished(Responder, isComplete, TRUE)
        /\ CallHandler(Reassembled(Responder, f.data), first.initialRequestN,
                       isComplete)
        /\ UNCHANGED <<phase, held, first, open, app>>

\* Mutant: the deferred error is forgotten.
HandlerReturns_DropsError ==
    /\ served = "running"
    /\ served' = "active"
    /\ UNCHANGED <<phase, held, first, stream, wire, open, app, rcv>>

\* The handler returns its receiver, which is told of an error the handler
\* signalled meanwhile.
HandlerReturns ==
    /\ served = "running"
    /\ served' = "active"
    /\ rcv' = Told(Responder, FALSE,
                    If(OutDone(Responder) /\ first.deferred, OnError))
    /\ UNCHANGED <<phase, held, first, stream, wire, open, app>>

\* Mutant: an ended outbound direction is taken for an ended stream.
HandlerThrows_NoCancel ==
    /\ served = "running"
    /\ served' = "threw"
    /\ stream' = BothEnd(Responder)
    /\ Send(Responder, If(~OutDone(Responder), ErrorFrame))
    /\ UNCHANGED <<phase, held, first, open, app, rcv>>

\* The handler throws: an ended outbound direction leaves the inbound one to
\* cancel(), otherwise onError ends both.
HandlerThrows ==
    /\ served = "running"
    /\ served' = "threw"
    /\ IF Over(Responder)
       THEN UNCHANGED <<stream, wire>>
       ELSE /\ stream' = BothEnd(Responder)
            /\ Send(Responder, <<IF OutDone(Responder) THEN CancelFrame
                                                       ELSE ErrorFrame>>)
    /\ UNCHANGED <<phase, held, first, open, app, rcv>>

-----------------------------------------------------------------------------
(* RequestChannelResponderStream: calls of the application, which holds the *)
(* stream from the moment its handler is called                            *)

ResponderRequest(n) ==
    /\ HasStream
    /\ ~InDone(Responder)
    /\ app[Responder].requests < MaxRequests
    /\ app' = Asked(Responder, n)
    /\ Send(Responder, <<RequestNFrame(n)>>)
    /\ UNCHANGED <<phase, held, served, first, stream, open, rcv>>

ResponderCancel ==
    /\ HasStream
    /\ ~InDone(Responder)
    /\ stream' = InEnds(Responder)
    /\ Send(Responder, <<CancelFrame>>)
    /\ app' = [app EXCEPT ![Responder].quit = TRUE]
    /\ UNCHANGED <<phase, held, served, first, open, rcv>>

ResponderOnNext(isCompletion, cut) ==
    /\ HasStream
    /\ ~OutDone(Responder)
    /\ app[Responder].emitted < MaxPayloads
    /\ stream' = OutEnds(Responder, isCompletion)
    /\ Send(Responder,
            PayloadFrames(app[Responder].emitted + 1, isCompletion, cut))
    /\ app' = Emitted(Responder, isCompletion)
    /\ UNCHANGED <<phase, held, served, first, open, rcv>>

ResponderOnComplete ==
    /\ HasStream
    /\ ~OutDone(Responder)
    /\ stream' = OutEnds(Responder, TRUE)
    /\ Send(Responder, <<CompleteFrame>>)
    /\ app' = [app EXCEPT ![Responder].ended = "complete"]
    /\ UNCHANGED <<phase, held, served, first, open, rcv>>

\* Without a receiver yet, its error is deferred until the handler returns.
ResponderOnError ==
    /\ HasStream
    /\ ~OutDone(Responder)
    /\ stream' = BothEnd(Responder)
    /\ Send(Responder, <<ErrorFrame>>)
    /\ app' = [app EXCEPT ![Responder].ended = "error"]
    /\ IF HasReceiver
       THEN /\ rcv' = Told(Responder, FALSE, If(~InDone(Responder), OnError))
            /\ UNCHANGED first
       ELSE /\ first' = [first EXCEPT !.deferred = ~InDone(Responder)]
            /\ UNCHANGED rcv
    /\ UNCHANGED <<phase, held, served, open>>

ResponderOnExtension ==
    /\ HasStream
    /\ ~Over(Responder)
    /\ app[Responder].extensions < MaxExtensions
    /\ app' = [app EXCEPT ![Responder].extensions = @ + 1]
    /\ Send(Responder, <<ExtFrame>>)
    /\ UNCHANGED <<phase, held, served, first, stream, open, rcv>>

-----------------------------------------------------------------------------
(* RequestChannelResponderStream.handle *)

ResponderHandlesFragment ==
    LET f == Head(wire[Responder])
    IN  /\ Handles(Responder, "PAYLOAD")
        /\ f.follows
        /\ stream' = Extended(Responder, f.data)
        /\ TakeAndSend(Responder, <<>>)
        /\ UNCHANGED <<phase, held, served, first, open, app, rcv>>

\* The receiver is signalled whether or not it has cancelled meanwhile.
ResponderHandlesPayload ==
    LET f == Head(wire[Responder])
    IN  /\ Handles(Responder, "PAYLOAD")
        /\ HasReceiver /\ ~f.follows
        /\ stream' = Finished(Responder, f.complete, TRUE)
        /\ rcv' = Told(Responder, FALSE, <<PayloadSignal(Responder, f)>>)
        /\ TakeAndSend(Responder, <<>>)
        /\ UNCHANGED <<phase, held, served, first, open, app>>

\* ERROR and CANCEL end both directions.
ResponderHandlesEnd ==
    /\ Handles(Responder, "ERROR") \/ Handles(Responder, "CANCEL")
    /\ stream' = Ended(Responder, FALSE)
    /\ IF HasReceiver
       THEN rcv' = Stopped(Responder)
       ELSE UNCHANGED rcv
    /\ TakeAndSend(Responder, <<>>)
    /\ UNCHANGED <<phase, held, served, first, open, app>>

Reassembling == ~HasReceiver \/ stream[Responder].hasFragments

\* An unexpected frame during reassembly, which is counted as a violation, or
\* an invalid REQUEST_N: send ERROR, disconnect, close(error).
ResponderRefusesFrame ==
    /\ stream' = Ended(Responder, FALSE)
    /\ rcv' = [IF HasReceiver THEN Stopped(Responder) ELSE rcv
                EXCEPT ![Responder].protocolErrors = @ + Count(Reassembling)]
    /\ TakeAndSend(Responder, <<ErrorFrame>>)

ResponderHandlesRequestN ==
    LET n == Head(wire[Responder]).requestN
    IN  /\ Handles(Responder, "REQUEST_N")
        /\ \/ /\ Reassembling \/ n < 1
              /\ ResponderRefusesFrame
           \/ /\ ~Reassembling /\ n >= 1
              /\ rcv' = Granted(Responder, n)
              /\ TakeAndSend(Responder, <<>>)
              /\ UNCHANGED stream
        /\ UNCHANGED <<phase, held, served, first, open, app>>

ResponderHandlesExtension ==
    /\ Handles(Responder, "EXT")
    /\ IF Reassembling
       THEN ResponderRefusesFrame
       ELSE /\ TakeAndSend(Responder, <<>>)
            /\ UNCHANGED <<stream, rcv>>
    /\ UNCHANGED <<phase, held, served, first, open, app>>

-----------------------------------------------------------------------------
(* The multiplexers and the connection *)

\* A frame for a stream the registry does not hold is dropped.
DropFrame(e) ==
    /\ wire[e] # <<>>
    /\ Head(wire[e]).type # "REQUEST"
    /\ ~stream[e].registered
    /\ served # "running" \/ e = Requester
    /\ TakeAndSend(e, <<>>)
    /\ UNCHANGED <<phase, held, served, first, stream, open, app, rcv>>

\* Mutant: the streams are closed without a cause.
Close_NoCause(e) ==
    /\ served # "running" \/ e = Requester
    /\ Disconnect(e, Chunked)
    /\ stream' = IF stream[e].registered THEN Ended(e, TRUE) ELSE stream
    /\ rcv' = IF stream[e].registered /\ (e = Requester \/ HasReceiver)
              THEN Told(e, ~OutDone(e), If(~InDone(e), OnComplete))
              ELSE rcv
    /\ UNCHANGED <<phase, held, served, first, app>>

\* The connection closes, then the multiplexer, which closes the stream but
\* leaves it in the registry.
Close(e) ==
    /\ CloseInHandler \/ served # "running" \/ e = Requester
    /\ Disconnect(e, Chunked)
    /\ IF stream[e].registered /\ ~Over(e)
       THEN /\ stream' = Ended(e, TRUE)
            /\ IF e = Requester \/ HasReceiver
               THEN rcv' = Stopped(e)
               ELSE UNCHANGED rcv
       ELSE UNCHANGED <<stream, rcv>>
    /\ UNCHANGED <<phase, held, served, first, app>>

-----------------------------------------------------------------------------
RequesterCalls ==
    \/ \E n \in Demands : RequesterRequest(n)
    \/ RequesterCancel
    \/ \E complete, cut \in BOOLEAN : RequesterOnNext(complete, cut)
    \/ RequesterOnComplete
    \/ RequesterOnError
    \/ RequesterOnErrorThrows
    \/ RequesterOnNextThrows
    \/ RequesterOnExtension

ResponderCalls ==
    \/ \E n \in Demands : ResponderRequest(n)
    \/ ResponderCancel
    \/ \E complete, cut \in BOOLEAN : ResponderOnNext(complete, cut)
    \/ ResponderOnComplete
    \/ ResponderOnError
    \/ ResponderOnExtension

RequesterHandles ==
    \/ RequesterHandlesPayload
    \/ RequesterHandlesFragment
    \/ RequesterHandlesCancel
    \/ RequesterHandlesError
    \/ RequesterHandlesRequestN
    \/ RequesterHandlesExtension
    \/ DropFrame(Requester)

ResponderHandles ==
    \/ ResponderRejects
    \/ ResponderRefusesDemand
    \/ ResponderReceivesFirstFragment
    \/ ResponderReceivesRequest
    \/ ResponderReassemblesRequest
    \/ ResponderHandlesFragment
    \/ ResponderHandlesPayload
    \/ ResponderHandlesEnd
    \/ ResponderHandlesRequestN
    \/ ResponderHandlesExtension
    \/ DropFrame(Responder)

Answer == (\E cut \in BOOLEAN : HandleReady(cut)) \/ HandleReadyDeclined
            \/ HandleReject
HandlerEnds == HandlerReturns \/ HandlerThrows

Next ==
    \/ Answer
    \/ RequesterCalls \/ ResponderCalls
    \/ RequesterHandles \/ ResponderHandles
    \/ HandlerEnds
    \/ \E e \in End : Close(e)

Spec == Init /\ [][Next]_vars

(***************************************************************************)
(* A socket delivers what it has received, a handler returns or throws,    *)
(* the request is answered, and the peer of a closed end notices.          *)
(***************************************************************************)
Fairness ==
    /\ WF_vars(Answer) /\ WF_vars(HandlerEnds)
    /\ WF_vars(RequesterHandles) /\ WF_vars(ResponderHandles)
    /\ \A e \in End : WF_vars(~open[Peer(e)] /\ Close(e))

FairSpec == Spec /\ Fairness

-----------------------------------------------------------------------------
(* Properties *)

Started(e) == IF e = Requester THEN phase = "ready"
              ELSE served \in {"reassembling", "running", "active", "threw"}

(* While the connection is open a stream is in its end's registry exactly  *)
(* until both of its directions have ended: no exit path leaks the entry   *)
(* (which would block the stream id for ever) and none drops it early      *)
(* (which would lose the other direction's frames).                        *)
RegistryExact ==
    \A e \in End :
        open[e] => (stream[e].registered <=> Started(e) /\ ~Over(e))

(* With nothing in flight between two open ends, each direction has ended  *)
(* at its sender exactly if it has ended at its receiver, however          *)
(* completions, cancellations and errors of the two ends crossed.          *)
HalfCloseAgreement ==
    (/\ \A e \in End : open[e] /\ wire[e] = <<>>
     /\ Started(Requester) /\ Started(Responder))
    => /\ OutDone(Requester) = InDone(Responder)
       /\ OutDone(Responder) = InDone(Requester)

(* Each direction keeps what Subscription promises: payloads in order and  *)
(* whole, one terminal signal, and a completion only if the producer       *)
(* completed and everything it emitted was delivered.  A producer counts   *)
(* from the moment its stream has an id.                                   *)
ToRequester ==
    INSTANCE Subscription WITH emitted <- app[Responder].emitted,
                               ended <- app[Responder].ended,
                               signals <- rcv[Requester].signals
ToResponder ==
    INSTANCE Subscription WITH emitted <- app[Requester].emitted,
                               ended <- IF phase = "ready"
                                        THEN app[Requester].ended ELSE "no",
                               signals <- rcv[Responder].signals

PromiseToReceivers == ToRequester!Spec /\ ToResponder!Spec

(* Demand is never invented, and with nothing in flight none is lost: what *)
(* one application asked for, before or after its stream had an id, the    *)
(* other one has been granted.                                             *)
DemandConserved ==
    \A e \in End :
        /\ rcv[e].granted <= app[Peer(e)].asked
        /\ (/\ \A d \in End : open[d] /\ wire[d] = <<>>
            /\ phase = "ready" /\ served \in {"running", "active"}
            /\ ~OutDone(e))
           => rcv[e].granted = app[Peer(e)].asked

(* Between two ends that both run this code neither ever takes the other's *)
(* frame for a protocol violation, unless it asks for less than one.       *)
NoProtocolErrors == \A e \in End : rcv[e].protocolErrors = 0

(* When a stream that reached the wire is over, its application's own      *)
(* producer has ended by itself or been cancelled, and not twice.          *)
ProducerReleased ==
    \A e \in End :
        /\ rcv[e].cancels <= 1
        /\ (Over(e) /\ (IF e = Requester THEN phase = "ready"
                                         ELSE HasReceiver))
           => (rcv[e].cancels = 1 \/ app[e].ended # "no")

(* When a stream is over, its receiver has been told, or its application   *)
(* has cancelled: no subscriber waits for ever.                            *)
SubscriberTold ==
    \A e \in End :
        (Over(e) /\ (e = Requester \/ HasReceiver))
        => \/ app[e].quit
           \/ \E i \in 1 .. Len(rcv[e].signals) : rcv[e].signals[i].last

(* Whatever way a stream is over, nobody is left behind: neither its       *)
(* producer, which would go on for nothing, nor its receiver.              *)
Released == ProducerReleased /\ SubscriberTold

(* A stream that ends at one end ends at the other, or never began there.  *)
EndsTogether ==
    \A e \in End :
        (Started(e) /\ Over(e)) ~> (Over(Peer(e)) \/ ~Started(Peer(e)))
=============================================================================
