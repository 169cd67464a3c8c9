------------------------ MODULE RequestStream_proofs ------------------------
(***************************************************************************)
(* Theorems about RequestStream, for every value of its constants.         *)
(***************************************************************************)
EXTENDS RequestStream, Interaction_proofs

USE DEF End, Requester, Responder

-----------------------------------------------------------------------------
(* Types of the records, and of the updates of them.                       *)

StreamState == [done: BOOLEAN, registered: BOOLEAN, hasFragments: BOOLEAN,
                fragments: Seq(Nat)]
Consumer == [asked: Nat, requests: Nat, quit: BOOLEAN, signals: Seq(Signal)]
Producer == [emitted: Nat, ended: {"no", "complete", "error"}, granted: Nat,
             cancels: Nat]

LEMMA StreamFields ==
    ASSUME NEW s \in StreamState, NEW b \in BOOLEAN, NEW c \in BOOLEAN,
           NEW h \in BOOLEAN, NEW d \in Seq(Nat)
    PROVE  /\ [done |-> b, registered |-> c, hasFragments |-> h,
               fragments |-> d] \in StreamState
           /\ [s EXCEPT !.registered = TRUE] \in StreamState
           /\ [s EXCEPT !.done = TRUE] \in StreamState
           /\ [s EXCEPT !.done = TRUE, !.registered = FALSE] \in StreamState
           /\ [s EXCEPT !.hasFragments = h, !.fragments = d] \in StreamState
           /\ [s EXCEPT !.registered = TRUE, !.hasFragments = h,
                        !.fragments = d] \in StreamState
           /\ [s EXCEPT !.done = TRUE, !.hasFragments = h, !.fragments = d]
                 \in StreamState
BY DEF StreamState

LEMMA ConsumerFields ==
    ASSUME NEW c \in Consumer, NEW n \in Nat, NEW r \in Nat,
           NEW s \in Seq(Signal)
    PROVE  /\ [c EXCEPT !.signals = s] \in Consumer
           /\ [c EXCEPT !.asked = n, !.requests = r] \in Consumer
           /\ [c EXCEPT !.quit = TRUE] \in Consumer
BY DEF Consumer

LEMMA ProducerFields ==
    ASSUME NEW p \in Producer, NEW n \in Nat,
           NEW c \in {"no", "complete", "error"}
    PROVE  /\ [p EXCEPT !.granted = n] \in Producer
           /\ [p EXCEPT !.cancels = n] \in Producer
           /\ [p EXCEPT !.ended = c] \in Producer
           /\ [p EXCEPT !.emitted = n, !.ended = c] \in Producer
BY DEF Producer

Held == [initialRequestN: Nat, hasExtension: BOOLEAN]
Phases == {"pending", "ready", "rejected", "dropped"}
Services == {"none", "reassembling", "running", "active", "threw", "refused"}

\* What TypeOK says, with the records named.
TypedInv ==
    /\ phase \in Phases /\ held \in Held /\ served \in Services
    /\ initialN \in Nat /\ stream \in [End -> StreamState]
    /\ consumer \in Consumer /\ producer \in Producer
    /\ extended \in [End -> Nat] /\ refused \in BOOLEAN
    /\ wire \in [End -> Seq(Frame)] /\ open \in [End -> BOOLEAN]

LEMMA Typed == TypedInv => TypeOK
BY DEF TypeOK, TypedInv, StreamState, Consumer, Producer, Held, Phases, Services

\* The updates of an end's stream.
LEMMA StreamTyped ==
    ASSUME TypedInv, NEW e \in End
    PROVE  /\ Finish(e) => stream' \in [End -> StreamState]
           /\ Abort(e) => stream' \in [End -> StreamState]
           /\ \A d \in Seq(Nat) :
                 AddFragment(e, d) => stream' \in [End -> StreamState]
           /\ stream' = [stream EXCEPT ![e].done = TRUE]
                 => stream' \in [End -> StreamState]
           /\ stream' = [stream EXCEPT ![e].registered = TRUE]
                 => stream' \in [End -> StreamState]
<1>. stream \in [End -> StreamState] /\ stream[e] \in StreamState
  BY DEF TypedInv
<1>1. ASSUME NEW s \in StreamState, stream' = [stream EXCEPT ![e] = s]
      PROVE  stream' \in [End -> StreamState]
  BY <1>1
<1>2. ASSUME NEW d \in Seq(Nat), AddFragment(e, d)
      PROVE  stream' \in [End -> StreamState]
  <2>1. stream[e].fragments \o d \in Seq(Nat)
    BY DEF StreamState
  <2>2. [stream[e] EXCEPT !.hasFragments = TRUE,
                          !.fragments = stream[e].fragments \o d] \in StreamState
    BY <2>1, StreamFields
  <2>. QED BY <1>2, <2>2 DEF AddFragment
<1>3. <<>> \in Seq(Nat)
  BY ShortSeqs
<1>4. /\ [stream[e] EXCEPT !.done = TRUE, !.registered = FALSE] \in StreamState
      /\ [done |-> TRUE, registered |-> FALSE, hasFragments |-> FALSE,
          fragments |-> <<>>] \in StreamState
      /\ [stream[e] EXCEPT !.done = TRUE] \in StreamState
      /\ [stream[e] EXCEPT !.registered = TRUE] \in StreamState
  BY <1>3, StreamFields
<1>. QED BY <1>2, <1>4 DEF Finish, Abort

LEMMA ConsumerTyped ==
    ASSUME TypedInv
    PROVE  /\ \A t \in Signal : Told(t) => /\ consumer' \in Consumer
                                          /\ consumer'.signals
                                               = Append(consumer.signals, t)
           /\ \A n \in Nat :
                 [consumer EXCEPT !.asked = @ + n, !.requests = @ + 1]
                    \in Consumer
           /\ [consumer EXCEPT !.quit = TRUE] \in Consumer
<1>. consumer \in Consumer
  BY DEF TypedInv
<1>1. /\ consumer.signals \in Seq(Signal)
      /\ consumer.asked \in Nat /\ consumer.requests \in Nat
  BY DEF Consumer
<1>2. ASSUME NEW t \in Signal, Told(t)
      PROVE  consumer' \in Consumer /\ consumer'.signals = Append(consumer.signals, t)
  <2>1. Append(consumer.signals, t) \in Seq(Signal)
    BY <1>1
  <2>2. consumer' = [consumer EXCEPT !.signals = Append(consumer.signals, t)]
    BY <1>2 DEF Told
  <2>. QED BY <2>1, <2>2, ConsumerFields DEF Consumer
<1>3. ASSUME NEW n \in Nat
      PROVE  [consumer EXCEPT !.asked = @ + n, !.requests = @ + 1] \in Consumer
  <2>1. consumer.asked + n \in Nat /\ consumer.requests + 1 \in Nat
    BY <1>1
  <2>. QED BY <2>1 DEF Consumer
<1>4. [consumer EXCEPT !.quit = TRUE] \in Consumer
  BY DEF Consumer
<1>. QED BY <1>2, <1>3, <1>4

LEMMA ProducerTyped ==
    ASSUME TypedInv
    PROVE  /\ \A n \in Nat : [producer EXCEPT !.granted = n] \in Producer
           /\ \A n \in Nat : [producer EXCEPT !.granted = @ + n] \in Producer
           /\ \A b \in BOOLEAN : Cancelled(b) => producer' \in Producer
           /\ \A c \in {"no", "complete", "error"} :
                 /\ [producer EXCEPT !.ended = c] \in Producer
                 /\ [producer EXCEPT !.emitted = @ + 1, !.ended = c]
                       \in Producer
<1>. producer \in Producer
  BY DEF TypedInv
<1>1. producer.granted \in Nat /\ producer.cancels \in Nat
      /\ producer.emitted \in Nat
  BY DEF Producer
<1>2. ASSUME NEW n \in Nat
      PROVE  /\ producer.granted + n \in Nat /\ producer.emitted + 1 \in Nat
             /\ \A b \in BOOLEAN : producer.cancels + Count(b) \in Nat
  BY <1>1 DEF Count
<1>. QED BY <1>1, <1>2 DEF Cancelled, Producer

LEMMA WireTyped ==
    ASSUME TypedInv, NEW e \in End, NEW fs \in Seq(Frame)
    PROVE  /\ Send(e, fs) => wire' \in [End -> Seq(Frame)]
           /\ wire[e] # <<>> /\ TakeAndSend(e, fs) =>
                wire' \in [End -> Seq(Frame)]
           /\ wire[e] # <<>> => /\ Head(wire[e]) \in Frame
                                /\ Head(wire[e]) = wire[e][1]
BY WiresTyped, Zenon DEF TypedInv

-----------------------------------------------------------------------------
(* Type correctness *)

LEMMA InitTyped == Init => TypedInv
<1>. SUFFICES ASSUME Init PROVE TypedInv
  OBVIOUS
<1>1. held \in Held
      /\ held.initialRequestN \in Nat
  BY BoundsAssumption DEF Init, Held
<1>2. stream \in [End -> StreamState] /\ wire \in [End -> Seq(Frame)]
      /\ open \in [End -> BOOLEAN] /\ extended \in [End -> Nat]
  BY ShortSeqs DEF Init, StreamState
<1>3. consumer \in Consumer /\ producer \in Producer
  BY <1>1, ShortSeqs DEF Init, Consumer, Producer
<1>. QED BY <1>1, <1>2, <1>3 DEF Init, TypedInv, Phases, Services

LEMMA AnswerTyped == TypedInv /\ Answer => TypedInv'
<1>. SUFFICES ASSUME TypedInv, Answer PROVE TypedInv'
  OBVIOUS
<1>1. ASSUME NEW cut \in BOOLEAN, HandleReady(cut) PROVE TypedInv'
  <2>1. wire' \in [End -> Seq(Frame)]
    <3>1. If(held.hasExtension, ExtFrame) \in Seq(Frame)
      BY FramesTyped, ShortSeqs DEF If
    <3>2. RequestFrames(held.initialRequestN, FALSE, cut)
            \o If(held.hasExtension, ExtFrame) \in Seq(Frame)
      <4>1. held.initialRequestN \in Nat
        BY DEF TypedInv, Held
      <4>2. RequestFrames(held.initialRequestN, FALSE, cut) \in Seq(Frame)
        BY <4>1, FramesTyped
      <4>. QED BY <3>1, <4>2, ConcatProperties
    <3>. QED BY <1>1, <3>2, WireTyped DEF HandleReady
  <2>2. stream' \in [End -> StreamState]
    BY <1>1, StreamTyped DEF HandleReady
  <2>. QED BY <1>1, <2>1, <2>2 DEF HandleReady, TypedInv, Phases
<1>2. ASSUME HandleReject PROVE TypedInv'
  <2>1. stream' \in [End -> StreamState]
    BY <1>2, StreamTyped DEF HandleReject
  <2>2. consumer' \in Consumer
    BY <1>2, ConsumerTyped, SignalsTyped DEF HandleReject
  <2>. QED BY <1>2, <2>1, <2>2 DEF HandleReject, TypedInv, Phases
<1>. QED BY <1>1, <1>2 DEF Answer

LEMMA RequesterCallsTyped == TypedInv /\ RequesterCalls => TypedInv'
<1>. SUFFICES ASSUME TypedInv, RequesterCalls PROVE TypedInv'
  OBVIOUS
<1>. USE DEF TypedInv, Phases, Services
<1>1. ASSUME NEW n \in Demands, RequesterRequest(n) PROVE TypedInv'
  <2>1. n \in Nat /\ <<RequestNFrame(n)>> \in Seq(Frame)
    BY BoundsAssumption, FramesTyped
  <2>2. held.initialRequestN + n \in Nat
    BY <2>1 DEF Held
  <2>3. [held EXCEPT !.initialRequestN = @ + n] \in Held
    BY <2>2 DEF Held
  <2>4. consumer' \in Consumer
    BY <1>1, <2>1, ConsumerTyped DEF RequesterRequest
  <2>5. wire' \in [End -> Seq(Frame)]
        /\ held' \in Held
    BY <1>1, <2>1, <2>3, WireTyped DEF RequesterRequest
  <2>. QED BY <1>1, <2>4, <2>5 DEF RequesterRequest
<1>2. ASSUME RequesterCancel PROVE TypedInv'
  <2>1. <<CancelFrame>> \in Seq(Frame)
    BY FramesTyped
  <2>2. consumer' \in Consumer
    BY <1>2, ConsumerTyped DEF RequesterCancel
  <2>3. wire' \in [End -> Seq(Frame)] /\ stream' \in [End -> StreamState]
        /\ phase' \in {"pending", "ready", "rejected", "dropped"}
    BY <1>2, <2>1, WireTyped, StreamTyped DEF RequesterCancel
  <2>. QED BY <1>2, <2>2, <2>3 DEF RequesterCancel
<1>3. ASSUME RequesterOnExtension PROVE TypedInv'
  <2>1. <<ExtFrame>> \in Seq(Frame)
    BY FramesTyped
  <2>2. [held EXCEPT !.hasExtension = TRUE] \in Held
    BY DEF Held
  <2>4. [extended EXCEPT ![Requester] = @ + 1] \in [End -> Nat]
    OBVIOUS
  <2>3. wire' \in [End -> Seq(Frame)]
        /\ held' \in Held
    BY <1>3, <2>1, <2>2, <2>4, WireTyped DEF RequesterOnExtension
  <2>. QED BY <1>3, <2>4, <2>3 DEF RequesterOnExtension
<1>. QED BY <1>1, <1>2, <1>3 DEF RequesterCalls

LEMMA RequesterHandlesTyped == TypedInv /\ RequesterHandles => TypedInv'
<1>. SUFFICES ASSUME TypedInv, RequesterHandles PROVE TypedInv'
  OBVIOUS
<1>. DEFINE f == Head(wire[Requester])
<1>0. <<>> \in Seq(Frame) /\ <<CancelFrame>> \in Seq(Frame)
      /\ <<>> \in Seq(Nat)
  BY FramesTyped, ShortSeqs
<1>1. wire[Requester] # <<>> =>
         /\ f.data \in Seq(Nat) /\ f.complete \in BOOLEAN
         /\ f.next \in BOOLEAN /\ f.follows \in BOOLEAN
  BY <1>0, WireTyped, FrameFields
<1>2. /\ wire[Requester] # <<>> /\ TakeAndSend(Requester, <<>>)
            => wire' \in [End -> Seq(Frame)]
      /\ wire[Requester] # <<>> /\ TakeAndSend(Requester, <<CancelFrame>>)
            => wire' \in [End -> Seq(Frame)]
  BY <1>0, WireTyped
<1>. USE DEF TypedInv, Phases, Handles, Arrives
<1>3. ASSUME RequesterHandlesComplete PROVE TypedInv'
  <2>1. wire' \in [End -> Seq(Frame)] /\ stream' \in [End -> StreamState]
        /\ consumer' \in Consumer
    BY <1>3, <1>2, StreamTyped, ConsumerTyped, SignalsTyped
       DEF RequesterHandlesComplete
  <2>. QED BY <1>3, <2>1 DEF RequesterHandlesComplete
<1>4. ASSUME RequesterHandlesPayload PROVE TypedInv'
  <2>1. wire' \in [End -> Seq(Frame)]
    BY <1>4, <1>2 DEF RequesterHandlesPayload
  <2>2. stream' \in [End -> StreamState]
    <3>1. stream[Requester].done \in BOOLEAN
          /\ stream \in [End -> StreamState]
      BY DEF TypedInv, StreamState
    <3>2. [done |-> stream[Requester].done \/ f.complete,
           registered |-> ~f.complete,
           hasFragments |-> FALSE, fragments |-> <<>>] \in StreamState
      BY <1>0, <1>1, <1>4, <3>1 DEF RequesterHandlesPayload, StreamState
    <3>. QED BY <1>4, <3>1, <3>2 DEF RequesterHandlesPayload
  <2>3. OnNext(Reassembled(Requester, f.data), f.complete) \in Signal
    <3>1. stream[Requester].fragments \o f.data \in Seq(Nat)
          /\ f.data \in Seq(Nat) /\ f.complete \in BOOLEAN
      BY <1>1, <1>4 DEF RequesterHandlesPayload, StreamState
    <3>2. Reassembled(Requester, f.data) \in Seq(Nat)
      BY <3>1 DEF Reassembled
    <3>. QED BY <3>1, <3>2 DEF OnNext, Signal, SignalKinds
  <2>4. consumer' \in Consumer
    BY <1>4, <2>3, ConsumerTyped DEF RequesterHandlesPayload
  <2>. QED BY <1>4, <2>1, <2>2, <2>4
           DEF RequesterHandlesPayload
<1>5. ASSUME RequesterHandlesFragment PROVE TypedInv'
  <2>1. wire' \in [End -> Seq(Frame)] /\ stream' \in [End -> StreamState]
    BY <1>1, <1>2, <1>5, StreamTyped DEF RequesterHandlesFragment
  <2>. QED BY <1>5, <2>1 DEF RequesterHandlesFragment, local
<1>6. ASSUME RequesterHandlesError PROVE TypedInv'
  <2>1. wire' \in [End -> Seq(Frame)] /\ stream' \in [End -> StreamState]
        /\ consumer' \in Consumer
    BY <1>6, <1>2, StreamTyped, ConsumerTyped, SignalsTyped
       DEF RequesterHandlesError
  <2>. QED BY <1>6, <2>1 DEF RequesterHandlesError
<1>7. ASSUME RequesterHandlesExtension PROVE TypedInv'
  <2>1. wire' \in [End -> Seq(Frame)] /\ stream' \in [End -> StreamState]
        /\ consumer' \in Consumer /\ refused' \in BOOLEAN
    BY <1>7, <1>2, StreamTyped, ConsumerTyped, SignalsTyped
       DEF RequesterHandlesExtension
  <2>. QED BY <1>7, <2>1 DEF RequesterHandlesExtension
<1>8. ASSUME DropFrame(Requester) PROVE TypedInv'
  BY <1>2, <1>8 DEF DropFrame, local
<1>. QED BY <1>3, <1>4, <1>5, <1>6, <1>7, <1>8 DEF RequesterHandles

LEMMA ResponderCallsTyped == TypedInv /\ (HandlerEnds \/ ResponderCalls) => TypedInv'
<1>. SUFFICES ASSUME TypedInv, HandlerEnds \/ ResponderCalls PROVE TypedInv'
  OBVIOUS
<1>. USE DEF TypedInv, Phases, Services
<1>0. <<ErrorFrame>> \in Seq(Frame) /\ <<CompleteFrame>> \in Seq(Frame)
      /\ <<ExtFrame>> \in Seq(Frame)
  BY FramesTyped
<1>1. ASSUME HandlerReturns PROVE TypedInv'
  BY <1>1 DEF HandlerReturns
<1>2. ASSUME HandlerThrows PROVE TypedInv'
  <2>1. wire' \in [End -> Seq(Frame)] /\ stream' \in [End -> StreamState]
    BY <1>0, <1>2, WireTyped, StreamTyped DEF HandlerThrows
  <2>. QED BY <1>2, <2>1 DEF HandlerThrows
<1>3. ASSUME NEW c \in BOOLEAN, NEW cut \in BOOLEAN, ResponderOnNext(c, cut)
      PROVE  TypedInv'
  <2>1. PayloadFrames(producer.emitted + 1, c, cut) \in Seq(Frame)
    BY FramesTyped, SMTT(60) DEF Producer
  <2>2. wire' \in [End -> Seq(Frame)] /\ stream' \in [End -> StreamState]
    BY <1>3, <2>1, WireTyped, StreamTyped DEF ResponderOnNext
  <2>. DEFINE end == IF c THEN "complete" ELSE producer.ended
  <2>3. end \in {"no", "complete", "error"}
    BY DEF Producer
  <2>4. producer' = [producer EXCEPT !.emitted = @ + 1, !.ended = end]
    BY <1>3 DEF ResponderOnNext
  <2>5. producer' \in Producer
    <3>. HIDE DEF end
    <3>. QED BY <2>3, <2>4, ProducerTyped, Zenon
  <2>. QED BY <1>3, <2>2, <2>5 DEF ResponderOnNext
<1>4. ASSUME ResponderOnComplete PROVE TypedInv'
  <2>1. wire' \in [End -> Seq(Frame)] /\ stream' \in [End -> StreamState]
        /\ producer' \in Producer
    BY <1>0, <1>4, WireTyped, StreamTyped, ProducerTyped
       DEF ResponderOnComplete
  <2>. QED BY <1>4, <2>1 DEF ResponderOnComplete
<1>5. ASSUME ResponderOnError PROVE TypedInv'
  <2>1. wire' \in [End -> Seq(Frame)] /\ stream' \in [End -> StreamState]
        /\ producer' \in Producer
    BY <1>0, <1>5, WireTyped, StreamTyped, ProducerTyped
       DEF ResponderOnError
  <2>. QED BY <1>5, <2>1 DEF ResponderOnError
<1>6. ASSUME ResponderOnExtension PROVE TypedInv'
  <2>1. wire' \in [End -> Seq(Frame)]
    BY <1>0, <1>6, WireTyped DEF ResponderOnExtension
  <2>. QED BY <1>6, <2>1 DEF ResponderOnExtension
<1>. QED BY <1>1, <1>2, <1>3, <1>4, <1>5, <1>6 DEF HandlerEnds, ResponderCalls

LEMMA ResponderHandlesTyped == TypedInv /\ ResponderHandles => TypedInv'
<1>. SUFFICES ASSUME TypedInv, ResponderHandles PROVE TypedInv'
  OBVIOUS
<1>. DEFINE f == Head(wire[Responder])
<1>0. <<>> \in Seq(Frame) /\ <<ErrorFrame>> \in Seq(Frame)
      /\ <<>> \in Seq(Nat)
  BY FramesTyped, ShortSeqs
<1>1. wire[Responder] # <<>> => f.data \in Seq(Nat) /\ f.requestN \in Nat
  BY <1>0, WireTyped, FrameFields
<1>2. /\ wire[Responder] # <<>> /\ TakeAndSend(Responder, <<>>)
            => wire' \in [End -> Seq(Frame)]
      /\ wire[Responder] # <<>> /\ TakeAndSend(Responder, <<ErrorFrame>>)
            => wire' \in [End -> Seq(Frame)]
  BY <1>0, WireTyped
<1>3. /\ stream \in [End -> StreamState] /\ stream[Responder] \in StreamState
      /\ HasReceiver \in BOOLEAN
  BY DEF TypedInv, HasReceiver
<1>. USE DEF TypedInv, Services, Handles, Arrives
<1>4. ASSUME ResponderRejects PROVE TypedInv'
  BY <1>2, <1>4 DEF ResponderRejects
<1>5. ASSUME ResponderRefusesDemand PROVE TypedInv'
  BY <1>2, <1>5, StreamTyped DEF ResponderRefusesDemand
<1>6. ASSUME ResponderReceivesFirstFragment PROVE TypedInv'
  <2>1. f.data \in Seq(Nat) /\ f.requestN \in Nat
    BY <1>1, <1>6 DEF ResponderReceivesFirstFragment
  <2>2. [stream[Responder] EXCEPT !.registered = TRUE, !.hasFragments = TRUE,
                                  !.fragments = f.data] \in StreamState
    BY <1>3, <2>1, StreamFields
  <2>3. stream' \in [End -> StreamState]
    BY <1>3, <1>6, <2>2 DEF ResponderReceivesFirstFragment
  <2>. QED BY <1>2, <1>6, <2>1, <2>3 DEF ResponderReceivesFirstFragment
<1>7. ASSUME NEW n \in Nat, wire[Responder] # <<>>, CallHandler(n),
             stream' \in [End -> StreamState]
      PROVE  TypedInv'
  BY <1>2, <1>7, ProducerTyped DEF CallHandler
<1>8. ASSUME ResponderReceivesRequest PROVE TypedInv'
  BY <1>1, <1>7, <1>8, StreamTyped DEF ResponderReceivesRequest
<1>9. ASSUME ResponderReassemblesRequest PROVE TypedInv'
  <2>1. [stream[Responder] EXCEPT !.hasFragments = FALSE,
                                  !.fragments = <<>>] \in StreamState
    BY <1>0, <1>3, StreamFields
  <2>2. stream' \in [End -> StreamState]
    BY <1>3, <1>9, <2>1 DEF ResponderReassemblesRequest
  <2>. QED BY <1>7, <1>9, <2>2 DEF ResponderReassemblesRequest
<1>10. ASSUME ResponderHandlesFragment PROVE TypedInv'
  <2>1. wire' \in [End -> Seq(Frame)] /\ stream' \in [End -> StreamState]
    BY <1>1, <1>2, <1>10, StreamTyped DEF ResponderHandlesFragment
  <2>. QED BY <1>10, <2>1 DEF ResponderHandlesFragment, local
<1>11. ASSUME ResponderHandlesEnd \/ ResponderRefusesFrame PROVE TypedInv'
  <2>1. /\ StopsProducer(<<>>) \/ StopsProducer(<<ErrorFrame>>)
        /\ wire[Responder] # <<>>
        /\ refused' \in BOOLEAN
    BY <1>11 DEF ResponderHandlesEnd, ResponderRefusesFrame
  <2>2. wire' \in [End -> Seq(Frame)] /\ stream' \in [End -> StreamState]
        /\ producer' \in Producer
    BY <1>2, <1>3, <2>1, StreamTyped, ProducerTyped DEF StopsProducer
  <2>. QED BY <2>1, <2>2 DEF StopsProducer
<1>12. ASSUME ResponderHandlesRequestN PROVE TypedInv'
  <2>1. wire' \in [End -> Seq(Frame)] /\ producer' \in Producer
    BY <1>1, <1>2, <1>12, ProducerTyped DEF ResponderHandlesRequestN
  <2>. QED BY <1>12, <2>1 DEF ResponderHandlesRequestN
<1>13. ASSUME ResponderHandlesExtension PROVE TypedInv'
  BY <1>2, <1>13 DEF ResponderHandlesExtension, local
<1>14. ASSUME DropFrame(Responder) PROVE TypedInv'
  BY <1>2, <1>14 DEF DropFrame, local
<1>. QED BY <1>4, <1>5, <1>6, <1>8, <1>9, <1>10, <1>11, <1>12, <1>13, <1>14
         DEF ResponderHandles

LEMMA ClosesTyped == TypedInv /\ (RequesterCloses \/ ResponderCloses) => TypedInv'
<1>. SUFFICES ASSUME TypedInv, RequesterCloses \/ ResponderCloses
              PROVE  TypedInv'
  OBVIOUS
<1>0. <<>> \in Seq(Nat) /\ HasReceiver \in BOOLEAN /\ Chunked \in BOOLEAN
  BY ShortSeqs, BoundsAssumption DEF HasReceiver
<1>. USE DEF TypedInv
<1>1. ASSUME RequesterCloses PROVE TypedInv'
  <2>1. wire' \in [End -> Seq(Frame)] /\ open' \in [End -> BOOLEAN]
    BY <1>0, <1>1, DisconnectTyped DEF RequesterCloses
  <2>2. [stream[Requester] EXCEPT !.done = TRUE, !.hasFragments = FALSE,
                                  !.fragments = <<>>] \in StreamState
    BY <1>0, StreamFields
  <2>3. stream' \in [End -> StreamState] /\ consumer' \in Consumer
    BY <1>1, <2>2, ConsumerTyped, SignalsTyped DEF RequesterCloses
  <2>. QED BY <1>1, <2>1, <2>3 DEF RequesterCloses
<1>2. ASSUME ResponderCloses PROVE TypedInv'
  <2>1. wire' \in [End -> Seq(Frame)] /\ open' \in [End -> BOOLEAN]
    BY <1>0, <1>2, DisconnectTyped DEF ResponderCloses
  <2>2. [stream[Responder] EXCEPT !.hasFragments = FALSE,
                                  !.fragments = <<>>] \in StreamState
    BY <1>0, StreamFields
  <2>3. stream' \in [End -> StreamState] /\ producer' \in Producer
    BY <1>0, <1>2, <2>2, ProducerTyped DEF ResponderCloses
  <2>. QED BY <1>2, <2>1, <2>3 DEF ResponderCloses
<1>. QED BY <1>1, <1>2

LEMMA TypedAlways == Spec => []TypedInv
<1>1. TypedInv /\ [Next]_vars => TypedInv'
  <2>1. TypedInv /\ Next => TypedInv'
    BY AnswerTyped, RequesterCallsTyped, RequesterHandlesTyped,
       ResponderCallsTyped, ResponderHandlesTyped, ClosesTyped DEF Next
  <2>2. TypedInv /\ UNCHANGED vars => TypedInv'
    BY DEF TypedInv, vars, local
  <2>. QED BY <2>1, <2>2
<1>. QED BY <1>1, InitTyped, PTL DEF Spec

(***************************************************************************)
(* Every variable keeps its type, whatever the bounds and the transport.   *)
(***************************************************************************)
THEOREM TypeCorrect == Spec => []TypeOK
BY Typed, TypedAlways, PTL

-----------------------------------------------------------------------------
(* The registry *)

(***************************************************************************)
(* RegistryExact is not inductive by itself: a step that puts the stream   *)
(* in the registry must know that the stream it finds there is not done,   *)
(* and a frame that is handled, that the stream is one that was started.   *)
(***************************************************************************)
RegistryInv ==
    /\ RegistryExact
    /\ phase = "pending" => ~Done(Requester)
    /\ served \in {"none", "refused"} => ~stream[Responder].registered
    /\ served = "none" => ~Done(Responder)
    /\ served = "threw" => Done(Responder)
    /\ Done(Responder) => ~stream[Responder].registered


\* What the updates of an end's stream do to its fields.
LEMMA Effects ==
    ASSUME TypedInv, NEW e \in End
    PROVE  /\ Finish(e) =>
                /\ stream'[e].done /\ ~stream'[e].registered
                /\ stream'[e].hasFragments = stream[e].hasFragments
                /\ stream'[e].fragments = stream[e].fragments
                /\ stream'[Peer(e)] = stream[Peer(e)]
           /\ Abort(e) =>
                /\ stream'[e].done /\ ~stream'[e].registered
                /\ ~stream'[e].hasFragments
                /\ stream'[e].fragments = <<>>
                /\ stream'[Peer(e)] = stream[Peer(e)]
           /\ \A d : AddFragment(e, d) =>
                /\ stream'[e].done = stream[e].done
                /\ stream'[e].registered = stream[e].registered
                /\ stream'[e].hasFragments
                /\ stream'[e].fragments = stream[e].fragments \o d
                /\ stream'[Peer(e)] = stream[Peer(e)]
           /\ stream' = [stream EXCEPT ![e].done = TRUE] =>
                /\ stream'[e].done
                /\ stream'[e].registered = stream[e].registered
                /\ stream'[e].hasFragments = stream[e].hasFragments
                /\ stream'[e].fragments = stream[e].fragments
                /\ stream'[Peer(e)] = stream[Peer(e)]
           /\ stream' = [stream EXCEPT ![e].registered = TRUE] =>
                /\ stream'[e].done = stream[e].done
                /\ stream'[e].registered
                /\ stream'[e].hasFragments = stream[e].hasFragments
                /\ stream'[e].fragments = stream[e].fragments
                /\ stream'[Peer(e)] = stream[Peer(e)]
<1>. /\ stream \in [End -> StreamState] /\ stream[e] \in StreamState
     /\ Peer(e) \in End /\ Peer(e) # e
  BY DEF TypedInv, Peer
<1>1. ASSUME NEW s, stream' = [stream EXCEPT ![e] = s]
      PROVE  stream'[e] = s /\ stream'[Peer(e)] = stream[Peer(e)]
  BY <1>1
<1>2. Abort(e) => stream'[e] = [done |-> TRUE, registered |-> FALSE,
                                hasFragments |-> FALSE, fragments |-> <<>>]
                  /\ stream'[Peer(e)] = stream[Peer(e)]
  BY DEF Abort
<1>3. Finish(e) => stream'[e] = [stream[e] EXCEPT !.done = TRUE, !.registered = FALSE]
                   /\ stream'[Peer(e)] = stream[Peer(e)]
  BY DEF Finish
<1>4. ASSUME NEW d, AddFragment(e, d)
      PROVE  /\ stream'[e] = [stream[e] EXCEPT !.hasFragments = TRUE,
                               !.fragments = stream[e].fragments \o d]
             /\ stream'[Peer(e)] = stream[Peer(e)]
  BY <1>4 DEF AddFragment
<1>5. stream' = [stream EXCEPT ![e].done = TRUE] =>
         /\ stream'[e] = [stream[e] EXCEPT !.done = TRUE]
         /\ stream'[Peer(e)] = stream[Peer(e)]
  OBVIOUS
<1>6. stream' = [stream EXCEPT ![e].registered = TRUE] =>
         /\ stream'[e] = [stream[e] EXCEPT !.registered = TRUE]
         /\ stream'[Peer(e)] = stream[Peer(e)]
  OBVIOUS
<1>7. ASSUME NEW d
      PROVE  LET s == [stream[e] EXCEPT !.hasFragments = TRUE, !.fragments = d]
             IN  /\ s.done = stream[e].done /\ s.registered = stream[e].registered
                 /\ s.hasFragments /\ s.fragments = d
  BY DEF StreamState
<1>8. LET s == [stream[e] EXCEPT !.done = TRUE, !.registered = FALSE]
          t == [stream[e] EXCEPT !.done = TRUE]
          u == [stream[e] EXCEPT !.registered = TRUE]
      IN  /\ s.done /\ ~s.registered /\ t.done
          /\ s.hasFragments = stream[e].hasFragments
          /\ s.fragments = stream[e].fragments
          /\ t.registered = stream[e].registered
          /\ t.hasFragments = stream[e].hasFragments
          /\ t.fragments = stream[e].fragments
          /\ u.done = stream[e].done /\ u.registered
          /\ u.hasFragments = stream[e].hasFragments
          /\ u.fragments = stream[e].fragments
  BY DEF StreamState
<1>9. ASSUME NEW d, AddFragment(e, d)
      PROVE  /\ stream'[e].done = stream[e].done
             /\ stream'[e].registered = stream[e].registered
             /\ stream'[e].hasFragments
             /\ stream'[e].fragments = stream[e].fragments \o d
             /\ stream'[Peer(e)] = stream[Peer(e)]
  <2>. DEFINE g == stream[e].fragments \o d
              s == [stream[e] EXCEPT !.hasFragments = TRUE, !.fragments = g]
  <2>1. stream'[e] = s /\ stream'[Peer(e)] = stream[Peer(e)]
    BY <1>4, <1>9
  <2>. HIDE DEF g
  <2>2. /\ s.done = stream[e].done /\ s.registered = stream[e].registered
        /\ s.hasFragments /\ s.fragments = g
    BY <1>7
  <2>. QED BY <2>1, <2>2 DEF g
<1>10. Finish(e) => /\ stream'[e].done /\ ~stream'[e].registered
                    /\ stream'[e].hasFragments = stream[e].hasFragments
                    /\ stream'[e].fragments = stream[e].fragments
  BY <1>3, <1>8
<1>11. stream' = [stream EXCEPT ![e].done = TRUE] =>
         /\ stream'[e].done
         /\ stream'[e].registered = stream[e].registered
         /\ stream'[e].hasFragments = stream[e].hasFragments
         /\ stream'[e].fragments = stream[e].fragments
  BY <1>5, <1>8
<1>12. stream' = [stream EXCEPT ![e].registered = TRUE] =>
         /\ stream'[e].done = stream[e].done
         /\ stream'[e].registered
         /\ stream'[e].hasFragments = stream[e].hasFragments
         /\ stream'[e].fragments = stream[e].fragments
  BY <1>6, <1>8
<1>13. Abort(e) => /\ stream'[e].done /\ ~stream'[e].registered
                   /\ ~stream'[e].hasFragments /\ stream'[e].fragments = <<>>
  BY <1>2
<1>. QED BY <1>2, <1>3, <1>5, <1>6, <1>9, <1>10, <1>11, <1>12, <1>13, Zenon

\* Before the request is sent, the responder does not know the stream.
QuietInv ==
    phase # "ready" => /\ ~stream[Requester].registered
                       /\ served = "none"
                       /\ wire[Responder] = <<>>

LEMMA QuietAlways == Spec => []QuietInv
<1>1. Init => QuietInv
  BY DEF Init, QuietInv
<1>2. TypedInv /\ QuietInv /\ [Next]_vars => QuietInv'
  <2>. SUFFICES ASSUME TypedInv, QuietInv, Next, phase' # "ready"
                PROVE  QuietInv'
    BY DEF QuietInv, vars, local
  <2>. /\ stream[Requester] \in StreamState /\ stream \in [End -> StreamState]
       /\ wire \in [End -> Seq(Frame)] /\ open \in [End -> BOOLEAN]
       /\ <<>> \in Seq(Frame)
    BY ShortSeqs DEF TypedInv
  <2>1. CASE phase = "ready"
    <3>1. phase' = "ready"
      BY <2>1 DEF Next, Answer, HandleReady, HandleReject, HandlerEnds,
         HandlerReturns, HandlerThrows, RequesterCalls, RequesterRequest,
         RequesterCancel, RequesterOnExtension, ResponderCalls, ResponderOnNext,
         ResponderOnComplete, ResponderOnError, ResponderOnExtension,
         RequesterHandles, RequesterHandlesComplete, RequesterHandlesPayload,
         RequesterHandlesFragment, RequesterHandlesError,
         RequesterHandlesExtension, DropFrame, ResponderHandles,
         ResponderRejects, ResponderRefusesDemand,
         ResponderReceivesFirstFragment, ResponderReceivesRequest,
         ResponderReassemblesRequest, CallHandler, ResponderHandlesFragment,
         ResponderHandlesEnd, ResponderHandlesRequestN,
         ResponderHandlesExtension, ResponderRefusesFrame, StopsProducer,
         RequesterCloses, ResponderCloses, local
    <3>. QED BY <3>1
  <2>2. CASE phase # "ready"
    <3>. /\ ~stream[Requester].registered /\ served = "none"
         /\ wire[Responder] = <<>>
      BY <2>2 DEF QuietInv
    <3>1. ~HandlerEnds /\ ~ResponderCalls /\ ~ResponderHandles
      BY DEF HandlerEnds, HandlerReturns, HandlerThrows, ResponderCalls,
         ResponderOnNext, ResponderOnComplete, ResponderOnError, HasStream,
         ResponderOnExtension, ResponderHandles, ResponderRejects,
         ResponderRefusesDemand, ResponderReceivesFirstFragment,
         ResponderReceivesRequest, ResponderReassemblesRequest,
         ResponderHandlesFragment, ResponderHandlesEnd,
         ResponderHandlesRequestN, ResponderHandlesExtension,
         ResponderRefusesFrame, DropFrame, Handles, Arrives
    <3>2. CASE Answer \/ RequesterCalls
      <4>1. ~stream'[Requester].registered /\ UNCHANGED <<served, wire>>
        BY <2>2, <3>2, Effects
           DEF Answer, HandleReady, HandleReject, RequesterCalls,
               RequesterRequest, RequesterCancel, RequesterOnExtension
      <4>. QED BY <4>1 DEF QuietInv
    <3>3. CASE RequesterHandles
      <4>1. DropFrame(Requester)
        BY <3>3 DEF RequesterHandles, RequesterHandlesComplete,
           RequesterHandlesPayload, RequesterHandlesFragment,
           RequesterHandlesError, RequesterHandlesExtension, Handles
      <4>2. wire[Requester] # <<>> /\ TakeAndSend(Requester, <<>>)
            /\ UNCHANGED <<stream, served>>
        BY <4>1 DEF DropFrame, local
      <4>3. wire'[Responder] = <<>>
        BY <4>2 DEF TakeAndSend, Sent
      <4>. QED BY <4>2, <4>3 DEF QuietInv
    <3>4. CASE RequesterCloses
      <4>1. wire'[Responder] = wire[Responder] /\ UNCHANGED <<stream, served>>
        BY <3>4 DEF RequesterCloses, Disconnect
      <4>. QED BY <4>1 DEF QuietInv
    <3>5. CASE ResponderCloses
      <4>1. Disconnect(Responder, Chunked) /\ Chunked \in BOOLEAN
            /\ UNCHANGED served
        BY <3>5, BoundsAssumption DEF ResponderCloses
      <4>2. wire'[Responder] \in Seq(Frame) /\ Len(wire'[Responder]) <= 0
        BY <4>1, DisconnectTyped
      <4>3. wire'[Responder] = <<>>
        BY <4>2, EmptySeq
      <4>4. stream'[Requester] = stream[Requester]
        BY <3>5 DEF ResponderCloses
      <4>. QED BY <4>1, <4>3, <4>4 DEF QuietInv
    <3>. QED BY <3>1, <3>2, <3>3, <3>4, <3>5 DEF Next
  <2>. QED BY <2>1, <2>2
<1>. QED BY <1>1, <1>2, TypedAlways, PTL DEF Spec

LEMMA InitRegistry == Init => RegistryInv
BY DEF Init, RegistryInv, RegistryExact, Started, Done, HasStream

LEMMA RequesterRegistry ==
    TypedInv /\ QuietInv /\ RegistryInv /\ (Answer \/ RequesterCalls \/ RequesterHandles)
       => RegistryInv'
<1>. SUFFICES ASSUME TypedInv, QuietInv, RegistryInv,
                     Answer \/ RequesterCalls \/ RequesterHandles
              PROVE  RegistryInv'
  OBVIOUS
<1>. /\ stream[Requester] \in StreamState /\ stream[Responder] \in StreamState
     /\ Peer(Requester) = Responder /\ open \in [End -> BOOLEAN]
  BY DEF TypedInv, Peer
<1>1. ASSUME UNCHANGED <<phase, served, open>>,
             stream'[Responder] = stream[Responder],
             stream'[Requester].registered
                => stream[Requester].registered /\ ~stream'[Requester].done,
             stream[Requester].registered /\ ~stream[Requester].done
                /\ ~stream'[Requester].done => stream'[Requester].registered,
             stream[Requester].done => stream'[Requester].done,
             stream'[Requester].done => phase # "pending"
      PROVE  RegistryInv'
  BY <1>1 DEF RegistryInv, RegistryExact, Started, Done, HasStream
<1>2. ASSUME UNCHANGED <<phase, served, open, stream>> PROVE RegistryInv'
  BY <1>2 DEF RegistryInv, RegistryExact, Started, Done, HasStream
<1>3. ASSUME NEW cut \in BOOLEAN, HandleReady(cut) PROVE RegistryInv'
  BY <1>3, Effects DEF HandleReady, RegistryInv, RegistryExact, Started, Done,
                       HasStream
<1>4. ASSUME HandleReject PROVE RegistryInv'
  BY <1>4, Effects DEF HandleReject, RegistryInv, RegistryExact, Started,
                       Done, HasStream
<1>5. ASSUME NEW n \in Demands, RequesterRequest(n) PROVE RegistryInv'
  BY <1>2, <1>5 DEF RequesterRequest
<1>6. ASSUME RequesterCancel PROVE RegistryInv'
  BY <1>6, Effects DEF RequesterCancel, RegistryInv, RegistryExact, Started,
                       Done, HasStream
<1>7. ASSUME RequesterOnExtension PROVE RegistryInv'
  BY <1>2, <1>7 DEF RequesterOnExtension
<1>8. ASSUME stream[Requester].registered
      PROVE  phase = "ready"
  BY <1>8 DEF QuietInv
<1>9. ASSUME RequesterHandlesComplete \/ RequesterHandlesError PROVE RegistryInv'
  BY <1>1, <1>8, <1>9, Effects
     DEF RequesterHandlesComplete, RequesterHandlesError, Handles
<1>10. ASSUME RequesterHandlesPayload PROVE RegistryInv'
  <2>. DEFINE f == Head(wire[Requester])
  <2>1. f.complete \in BOOLEAN
    <3>1. wire[Requester] # <<>> /\ <<>> \in Seq(Frame)
      BY <1>10, ShortSeqs DEF RequesterHandlesPayload, Handles, Arrives
    <3>. QED BY <3>1, WireTyped, FrameFields
  <2>. HIDE DEF f
  <2>2. /\ stream'[Responder] = stream[Responder]
        /\ stream'[Requester].done = (stream[Requester].done \/ f.complete)
        /\ stream'[Requester].registered = ~f.complete
    BY <1>10 DEF RequesterHandlesPayload, TypedInv, f
  <2>3. UNCHANGED <<phase, served, open>> /\ stream[Requester].registered
    BY <1>10 DEF RequesterHandlesPayload, Handles
  <2>4. stream[Requester].done \in BOOLEAN
    BY DEF StreamState
  <2>5. open[Requester] => ~stream[Requester].done
    BY <2>3 DEF RegistryInv, RegistryExact, Started, Done
  <2>. QED BY <1>8, <2>1, <2>2, <2>3, <2>4, <2>5
           DEF RegistryInv, RegistryExact, Started, Done, HasStream
<1>11. ASSUME RequesterHandlesFragment PROVE RegistryInv'
  <2>1. UNCHANGED <<phase, served, open>>
        /\ stream[Requester].registered
        /\ stream'[Requester].done = stream[Requester].done
        /\ stream'[Requester].registered = stream[Requester].registered
        /\ stream'[Responder] = stream[Responder]
    BY <1>11, Effects DEF RequesterHandlesFragment, local, Handles
  <2>. QED BY <2>1 DEF RegistryInv, RegistryExact, Started, Done, HasStream
<1>12. ASSUME RequesterHandlesExtension PROVE RegistryInv'
  <2>1. CASE UNCHANGED stream
    BY <1>2, <1>12, <2>1 DEF RequesterHandlesExtension
  <2>2. CASE Abort(Requester)
    BY <1>1, <1>8, <1>12, <2>2, Effects DEF RequesterHandlesExtension, Handles
  <2>. QED BY <1>12, <2>1, <2>2 DEF RequesterHandlesExtension
<1>13. ASSUME DropFrame(Requester) PROVE RegistryInv'
  BY <1>2, <1>13 DEF DropFrame, local
<1>. QED BY <1>3, <1>4, <1>5, <1>6, <1>7, <1>9, <1>10, <1>11, <1>12, <1>13
         DEF Answer, RequesterCalls, RequesterHandles

LEMMA ResponderRegistry ==
    TypedInv /\ QuietInv /\ RegistryInv /\ (HandlerEnds \/ ResponderCalls \/ ResponderHandles)
       => RegistryInv'
<1>. SUFFICES ASSUME TypedInv, QuietInv, RegistryInv,
                     HandlerEnds \/ ResponderCalls \/ ResponderHandles
              PROVE  RegistryInv'
  OBVIOUS
<1>. /\ stream[Requester] \in StreamState /\ stream[Responder] \in StreamState
     /\ Peer(Responder) = Requester /\ open \in [End -> BOOLEAN]
     /\ stream \in [End -> StreamState] /\ served \in Services
  BY DEF TypedInv, Peer
<1>. DEFINE same == stream'[Requester] = stream[Requester]
            ends == stream'[Responder].done /\ ~stream'[Responder].registered
            keeps == /\ stream'[Responder].done = stream[Responder].done
                     /\ stream'[Responder].registered
                           = stream[Responder].registered
<1>. USE DEF RegistryInv, RegistryExact, Started, Done, HasStream
<1>1. ASSUME UNCHANGED <<phase, served, open>>, same, ends, served # "none"
      PROVE  RegistryInv'
  BY <1>1
<1>2. ASSUME UNCHANGED <<phase, served, open>>, same, keeps
      PROVE  RegistryInv'
  BY <1>2
<1>3. (Finish(Responder) \/ Abort(Responder)) => same /\ ends
  BY Effects
<1>4. \A d : AddFragment(Responder, d) => same /\ keeps
  BY Effects
<1>5. UNCHANGED stream => same /\ keeps
  OBVIOUS
<1>6. ASSUME HandlerReturns PROVE RegistryInv'
  BY <1>6 DEF HandlerReturns
<1>7. ASSUME HandlerThrows PROVE RegistryInv'
  BY <1>3, <1>7 DEF HandlerThrows
<1>. HIDE DEF same, ends, keeps
<1>8. ASSUME ResponderCalls PROVE RegistryInv'
  BY <1>1, <1>2, <1>3, <1>5, <1>8
     DEF ResponderCalls, ResponderOnNext, ResponderOnComplete,
         ResponderOnError, ResponderOnExtension
<1>9. ASSUME NEW t, Handles(Responder, t) PROVE served # "none"
  BY <1>9 DEF Handles
<1>10. ASSUME ResponderRejects PROVE RegistryInv'
  BY <1>10 DEF ResponderRejects
<1>11. ASSUME ResponderRefusesDemand PROVE RegistryInv'
  BY <1>11, Effects DEF ResponderRefusesDemand
<1>12. ASSUME ResponderReceivesFirstFragment \/ ResponderReceivesRequest
       PROVE  RegistryInv'
  <2>1. /\ stream'[Responder].registered /\ stream'[Requester] = stream[Requester]
        /\ stream'[Responder].done = stream[Responder].done
    <3>1. CASE ResponderReceivesFirstFragment
      BY <3>1, Effects, SMTT(60) DEF ResponderReceivesFirstFragment, StreamState
    <3>2. CASE ResponderReceivesRequest
      BY <3>2, Effects, SMTT(60) DEF ResponderReceivesRequest, StreamState
    <3>. QED BY <1>12, <3>1, <3>2
  <2>2. /\ served = "none" /\ served' \in {"reassembling", "running"}
        /\ UNCHANGED <<phase, open>> /\ wire[Responder] # <<>>
    BY <1>12 DEF ResponderReceivesFirstFragment, ResponderReceivesRequest,
                 CallHandler, Arrives
  <2>. QED BY <2>1, <2>2
<1>13. ASSUME ResponderReassemblesRequest PROVE RegistryInv'
  <2>1. /\ stream'[Responder].registered = stream[Responder].registered
        /\ stream'[Requester] = stream[Requester]
        /\ stream'[Responder].done = stream[Responder].done
    BY <1>13 DEF ResponderReassemblesRequest, StreamState
  <2>2. /\ served' = "running" /\ stream[Responder].registered
        /\ UNCHANGED <<phase, open>>
    BY <1>13 DEF ResponderReassemblesRequest, CallHandler, Handles
  <2>. QED BY <2>1, <2>2
<1>14. ASSUME ResponderHandlesFragment PROVE RegistryInv'
  BY <1>2, <1>4, <1>14 DEF ResponderHandlesFragment, local
<1>15. ASSUME ResponderHandlesEnd \/ ResponderRefusesFrame PROVE RegistryInv'
  <2>1. served # "none" /\ UNCHANGED <<phase, served, open>>
        /\ Abort(Responder)
    BY <1>9, <1>15 DEF ResponderHandlesEnd, ResponderRefusesFrame, StopsProducer
  <2>. QED BY <1>1, <1>3, <2>1
<1>16. ASSUME \/ ResponderHandlesRequestN \/ ResponderHandlesExtension
              \/ DropFrame(Responder)
       PROVE  RegistryInv'
  BY <1>2, <1>5, <1>16 DEF ResponderHandlesRequestN,
     ResponderHandlesExtension, DropFrame, local
<1>. QED BY <1>6, <1>7, <1>8, <1>10, <1>11, <1>12, <1>13, <1>14, <1>15, <1>16
         DEF HandlerEnds, ResponderHandles

LEMMA ClosesRegistry ==
    TypedInv /\ QuietInv /\ RegistryInv /\ (RequesterCloses \/ ResponderCloses)
       => RegistryInv'
<1>. SUFFICES ASSUME TypedInv, QuietInv, RegistryInv, RequesterCloses \/ ResponderCloses
              PROVE  RegistryInv'
  OBVIOUS
<1>. /\ stream[Requester] \in StreamState /\ stream[Responder] \in StreamState
     /\ open \in [End -> BOOLEAN] /\ stream \in [End -> StreamState]
  BY DEF TypedInv
<1>1. ASSUME RequesterCloses PROVE RegistryInv'
  <2>1. /\ stream'[Responder] = stream[Responder]
        /\ stream'[Requester].registered = stream[Requester].registered
        /\ stream[Requester].done => stream'[Requester].done
        /\ ~stream[Requester].registered
              => stream'[Requester] = stream[Requester]
        /\ open'[Responder] = open[Responder] /\ ~open'[Requester]
        /\ UNCHANGED <<phase, served>>
    <3>1. CASE UNCHANGED stream
      BY <1>1, <3>1 DEF RequesterCloses, Disconnect
    <3>2. CASE ~UNCHANGED stream
      <4>. DEFINE s == [stream[Requester] EXCEPT !.done = TRUE,
                          !.hasFragments = FALSE, !.fragments = <<>>]
      <4>1. stream' = [stream EXCEPT ![Requester] = s]
            /\ stream[Requester].registered
        BY <1>1, <3>2 DEF RequesterCloses
      <4>2. s.done /\ s.registered = stream[Requester].registered
        BY DEF StreamState
      <4>. HIDE DEF s
      <4>3. stream'[Requester] = s /\ stream'[Responder] = stream[Responder]
        BY <4>1
      <4>. QED BY <1>1, <4>1, <4>2, <4>3 DEF RequesterCloses, Disconnect
    <3>. QED BY <3>1, <3>2
  <2>. QED BY <2>1 DEF QuietInv, RegistryInv, RegistryExact, Started, Done, HasStream
<1>2. ASSUME ResponderCloses PROVE RegistryInv'
  <2>1. /\ stream'[Requester] = stream[Requester]
        /\ stream'[Responder].registered = stream[Responder].registered
        /\ stream'[Responder].done = stream[Responder].done
        /\ open'[Requester] = open[Requester] /\ ~open'[Responder]
        /\ UNCHANGED <<phase, served>>
    BY <1>2 DEF ResponderCloses, Disconnect, StreamState
  <2>. QED BY <2>1 DEF RegistryInv, RegistryExact, Started, Done, HasStream
<1>. QED BY <1>1, <1>2

LEMMA RegistryAlways == Spec => []RegistryInv
<1>1. TypedInv /\ QuietInv /\ RegistryInv /\ [Next]_vars => RegistryInv'
  <2>1. TypedInv /\ QuietInv /\ RegistryInv /\ Next => RegistryInv'
    BY RequesterRegistry, ResponderRegistry, ClosesRegistry DEF Next
  <2>2. RegistryInv /\ UNCHANGED vars => RegistryInv'
    BY DEF RegistryInv, RegistryExact, Started, Done, HasStream, vars, local
  <2>. QED BY <2>1, <2>2
<1>. QED BY <1>1, InitRegistry, TypedAlways, QuietAlways, PTL DEF Spec

(***************************************************************************)
(* While its connection is open, an end's registry holds the stream from   *)
(* its first frame until it is done, on every path through both classes.   *)
(***************************************************************************)
THEOREM RegistryCorrect == Spec => []RegistryExact
<1>1. RegistryInv => RegistryExact
  BY DEF RegistryInv
<1>. QED BY <1>1, RegistryAlways, PTL

-----------------------------------------------------------------------------
(* What the frames on their way to the responder are: what is left of the  *)
(* request, then what the consumer did later.                              *)

RequestThen(q, fresh, k) ==
    \A i \in 1 .. Len(q) :
       IF i <= k
       THEN /\ q[i].type = (IF fresh /\ i = 1 THEN "REQUEST" ELSE "PAYLOAD")
            /\ (q[i].follows <=> i < k)
       ELSE q[i].type \in {"CANCEL", "REQUEST_N", "EXT"}

LEMMA RequestThenPushed ==
    ASSUME NEW q \in Seq(Frame), NEW f \in Frame, NEW fresh \in BOOLEAN,
           NEW k \in 0 .. Len(q), RequestThen(q, fresh, k),
           f.type \in {"CANCEL", "REQUEST_N", "EXT"}
    PROVE  RequestThen(q \o <<f>>, fresh, k)
<1>. DEFINE r == q \o <<f>>
<1>1. /\ Len(r) = Len(q) + 1 /\ r[Len(q) + 1] = f
      /\ \A i \in 1 .. Len(q) : r[i] = q[i]
  BY Pushed
<1>. HIDE DEF r
<1>2. ASSUME NEW i \in 1 .. Len(r)
      PROVE  IF i <= k
             THEN /\ r[i].type = (IF fresh /\ i = 1 THEN "REQUEST" ELSE "PAYLOAD")
                  /\ (r[i].follows <=> i < k)
             ELSE r[i].type \in {"CANCEL", "REQUEST_N", "EXT"}
  <2>1. CASE i = Len(q) + 1
    BY <1>1, <2>1
  <2>2. CASE i \in 1 .. Len(q)
    BY <1>1, <2>2 DEF RequestThen
  <2>. QED BY <1>1, <2>1, <2>2
<1>. QED BY <1>2 DEF RequestThen, r

LEMMA RequestThenTaken ==
    ASSUME NEW q \in Seq(Frame), q # <<>>, NEW fresh \in BOOLEAN,
           NEW k \in 0 .. Len(q), RequestThen(q, fresh, k)
    PROVE  /\ k = 0 => /\ q[1].type \in {"CANCEL", "REQUEST_N", "EXT"}
                       /\ RequestThen(Tail(q), FALSE, 0)
           /\ k > 0 => /\ q[1].type = (IF fresh THEN "REQUEST" ELSE "PAYLOAD")
                       /\ (q[1].follows <=> 1 < k)
                       /\ k - 1 \in 0 .. Len(Tail(q))
                       /\ RequestThen(Tail(q), FALSE, k - 1)
<1>. DEFINE r == Tail(q)
<1>1. /\ Len(r) \in Nat /\ Len(q) = Len(r) + 1 /\ 1 \in 1 .. Len(q)
      /\ \A i \in 1 .. Len(r) : r[i] = q[i + 1] /\ i + 1 \in 1 .. Len(q)
                                /\ i + 1 # 1
  BY Taken
<1>. HIDE DEF r
<1>2. \A i \in 1 .. Len(r) :
         IF i + 1 <= k
         THEN r[i].type = "PAYLOAD" /\ (r[i].follows <=> i + 1 < k)
         ELSE r[i].type \in {"CANCEL", "REQUEST_N", "EXT"}
  BY <1>1 DEF RequestThen
<1>3. k > 0 => RequestThen(r, FALSE, k - 1)
  BY <1>1, <1>2 DEF RequestThen
<1>4. k = 0 => RequestThen(r, FALSE, 0)
  BY <1>1, <1>2 DEF RequestThen
<1>5. IF 1 <= k
      THEN /\ q[1].type = (IF fresh THEN "REQUEST" ELSE "PAYLOAD")
           /\ (q[1].follows <=> 1 < k)
      ELSE q[1].type \in {"CANCEL", "REQUEST_N", "EXT"}
  BY <1>1 DEF RequestThen
<1>6. /\ k = 0 => q[1].type \in {"CANCEL", "REQUEST_N", "EXT"}
      /\ k > 0 => /\ q[1].type = (IF fresh THEN "REQUEST" ELSE "PAYLOAD")
                  /\ (q[1].follows <=> 1 < k)
  BY <1>5
<1>7. k > 0 => k - 1 \in 0 .. Len(r)
  BY <1>1
<1>. QED BY <1>3, <1>4, <1>6, <1>7 DEF r

\* The frames of a request: its first carries the whole demand.
LEMMA RequestSent ==
    ASSUME NEW n \in Nat, NEW cut \in BOOLEAN, NEW b \in BOOLEAN
    PROVE  LET q == RequestFrames(n, FALSE, cut) \o If(b, ExtFrame)
           IN  /\ q \in Seq(Frame)
               /\ \E k \in 1 .. Len(q) : RequestThen(q, TRUE, k)
               /\ Owes(q, 0, n, TRUE)
<1>. DEFINE r == RequestFrames(n, FALSE, cut)
            q == r \o If(b, ExtFrame)
<1>1. /\ r \in Seq(Frame) /\ If(b, ExtFrame) \in Seq(Frame)
      /\ ExtFrame.type = "EXT" /\ ExtFrame \in Frame
  BY FramesTyped, ShortSeqs DEF If, ExtFrame, Bare
<1>2. \E k \in 1 .. Len(r) : /\ k = Len(r) /\ r # <<>>
         /\ r[1].type = "REQUEST" /\ r[1].requestN = n /\ (r[1].follows <=> 1 < k)
         /\ \A i \in 2 .. k : r[i].type = "PAYLOAD" /\ (r[i].follows <=> i < k)
  <2>1. CASE cut
    <3>. DEFINE x == RequestFrame(n, <<>>, FALSE, TRUE)
                y == PayloadFrame(<<1>>, TRUE, FALSE, TRUE)
                z == PayloadFrame(<<1>>, TRUE, FALSE, FALSE)
    <3>1. r = <<x, y, z>>
      BY <2>1 DEF RequestFrames
    <3>2. /\ x.type = "REQUEST" /\ x.requestN = n /\ x.follows
          /\ y.type = "PAYLOAD" /\ y.follows /\ z.type = "PAYLOAD" /\ ~z.follows
      BY DEF RequestFrame, PayloadFrame
    <3>. HIDE DEF x, y, z, r
    <3>3. Len(r) = 3 /\ r[1] = x /\ r[2] = y /\ r[3] = z
      BY <3>1
    <3>4. /\ 3 \in 1 .. Len(r) /\ 3 = Len(r) /\ r # <<>>
          /\ r[1].type = "REQUEST" /\ r[1].requestN = n /\ (r[1].follows <=> 1 < 3)
          /\ \A i \in 2 .. 3 : r[i].type = "PAYLOAD" /\ (r[i].follows <=> i < 3)
      <4>1. \A i \in 2 .. 3 : i = 2 \/ i = 3
        OBVIOUS
      <4>2. (y.follows <=> 2 < 3) /\ (z.follows <=> 3 < 3)
        BY <3>2 DEF PayloadFrame, y, z
      <4>3. x.follows <=> 1 < 3
        BY DEF RequestFrame, x
      <4>. QED BY <3>1, <3>2, <3>3, <4>1, <4>2, <4>3
    <3>. QED BY <3>4
  <2>2. CASE ~cut
    <3>. DEFINE x == RequestFrame(n, Content(1), FALSE, FALSE)
    <3>1. x.type = "REQUEST" /\ x.requestN = n /\ (x.follows <=> 1 < 1)
      BY DEF RequestFrame
    <3>2. r = <<x>>
      BY <2>2 DEF RequestFrames
    <3>. HIDE DEF x, r
    <3>3. Len(r) = 1 /\ r[1] = x /\ r # <<>>
      BY <3>2
    <3>. QED BY <3>1, <3>3
  <2>. QED BY <2>1, <2>2
<1>3. PICK k \in 1 .. Len(r) : /\ k = Len(r) /\ r # <<>>
         /\ r[1].type = "REQUEST" /\ r[1].requestN = n /\ (r[1].follows <=> 1 < k)
         /\ \A i \in 2 .. k : r[i].type = "PAYLOAD" /\ (r[i].follows <=> i < k)
  BY <1>2
<1>4. /\ q \in Seq(Frame) /\ k \in 1 .. Len(q) /\ Len(q) \in Nat
      /\ \A i \in 1 .. k : q[i] = r[i]
      /\ \A i \in 1 .. Len(q) : i > k => q[i].type = "EXT"
  <2>. HIDE DEF r
  <2>1. CASE b
    BY <1>1, <1>3, <2>1, Pushed DEF If
  <2>2. CASE ~b
    BY <1>1, <1>3, <2>2 DEF If
  <2>. QED BY <2>1, <2>2
<1>. HIDE DEF q, r
<1>5. RequestThen(q, TRUE, k)
  BY <1>3, <1>4 DEF RequestThen
<1>6. Owes(q, 0, n, TRUE)
  <2>. DEFINE F == [i \in 0 .. Len(q) |-> IF i = 0 THEN 0 ELSE n]
  <2>1. F \in [0 .. Len(q) -> 0 .. n] /\ F[0] = 0 /\ F[Len(q)] = n
    BY <1>4
  <2>2. \A i \in 1 .. Len(q) : Demand(q[i]) = IF i = 1 THEN n ELSE 0
    BY <1>3, <1>4 DEF Demand
  <2>3. \A i \in 1 .. Len(q) : F[i] = F[i - 1] + Demand(q[i])
    BY <1>4, <2>2
  <2>. HIDE DEF F
  <2>. QED BY <2>1, <2>3 DEF Owes
<1>. QED BY <1>4, <1>5, <1>6 DEF q, r

-----------------------------------------------------------------------------
(* What a step does to the frames for the responder                        *)

Lossless == open[Requester] /\ open[Responder]

\* A step of the requester appends at most one frame, and counts the demand
\* in it.
RequesterTells(n) ==
    \/ /\ wire'[Responder] = wire[Responder]
       /\ n = 0 \/ ~Lossless \/ phase # "ready"
    \/ \E f \in Frame :
          /\ f.type \in {"CANCEL", "REQUEST_N", "EXT"} /\ Demand(f) = n
          /\ phase = "ready" /\ Lossless
          /\ wire'[Responder] = wire[Responder] \o <<f>>

LEMMA FrameTypeOf ==
    /\ \A n \in Nat : /\ RequestNFrame(n).type = "REQUEST_N"
                      /\ Demand(RequestNFrame(n)) = n
    /\ CancelFrame.type = "CANCEL" /\ Demand(CancelFrame) = 0
    /\ ExtFrame.type = "EXT" /\ Demand(ExtFrame) = 0
BY DEF RequestNFrame, CancelFrame, ExtFrame, Bare, Demand

LEMMA SendTells ==
    ASSUME TypedInv, NEW f \in Frame, phase = "ready",
           f.type \in {"CANCEL", "REQUEST_N", "EXT"},
           \/ Send(Requester, <<f>>)
           \/ wire[Requester] # <<>> /\ TakeAndSend(Requester, <<f>>)
    PROVE  RequesterTells(Demand(f))
<1>. /\ wire \in [End -> Seq(Frame)] /\ open \in [End -> BOOLEAN]
     /\ <<f>> \in Seq(Frame) /\ Peer(Requester) = Responder
  BY DEF TypedInv, Peer
<1>1. wire'[Responder] = wire[Responder] \o Sent(Requester, <<f>>)
  BY WiresTyped
<1>2. CASE Lossless
  <2>1. Sent(Requester, <<f>>) = <<f>>
    BY <1>2 DEF Sent, Lossless
  <2>. QED BY <1>1, <1>2, <2>1 DEF RequesterTells
<1>3. CASE ~Lossless
  <2>1. Sent(Requester, <<f>>) = <<>>
    BY <1>3 DEF Sent, Lossless
  <2>2. wire[Responder] \o <<>> = wire[Responder]
    OBVIOUS
  <2>. QED BY <1>1, <1>3, <2>1, <2>2 DEF RequesterTells
<1>. QED BY <1>2, <1>3

LEMMA TakeTells ==
    ASSUME TypedInv, NEW e \in End, wire[e] # <<>>, TakeAndSend(e, <<>>)
    PROVE  wire'[Peer(e)] = wire[Peer(e)] /\ wire'[e] = Tail(wire[e])
<1>1. Sent(e, <<>>) = <<>> /\ <<>> \in Seq(Frame)
  BY ShortSeqs DEF Sent
<1>2. wire'[Peer(e)] = wire[Peer(e)] \o <<>> /\ wire'[e] = Tail(wire[e])
      /\ wire[Peer(e)] \in Seq(Frame)
  BY <1>1, WiresTyped, ZenonT(60) DEF TypedInv, Peer
<1>. QED BY <1>2

LEMMA RequesterTelling ==
    ASSUME TypedInv, QuietInv,
           RequesterCalls \/ RequesterHandles \/ RequesterCloses
    PROVE  /\ UNCHANGED <<served, initialN, producer>>
           /\ stream'[Responder] = stream[Responder]
           /\ open'[Responder] = open[Responder]
           /\ open'[Requester] => open[Requester]
           /\ phase' = "ready" <=> phase = "ready"
           /\ phase' = "pending" => /\ phase = "pending"
                                    /\ consumer'.asked - consumer.asked
                                         = held'.initialRequestN
                                             - held.initialRequestN
           /\ \E n \in Nat : /\ consumer'.asked = consumer.asked + n
                             /\ RequesterTells(n)
<1>. /\ wire \in [End -> Seq(Frame)] /\ open \in [End -> BOOLEAN]
     /\ stream \in [End -> StreamState] /\ consumer \in Consumer
     /\ held \in Held /\ Peer(Requester) = Responder
     /\ consumer.asked \in Nat /\ held.initialRequestN \in Nat
  BY DEF TypedInv, Peer, Consumer, Held
<1>1. ASSUME UNCHANGED <<served, initialN, producer, phase, held, open>>,
             stream'[Responder] = stream[Responder],
             consumer'.asked = consumer.asked,
             \/ wire'[Responder] = wire[Responder]
             \/ RequesterTells(0)
      PROVE  /\ UNCHANGED <<served, initialN, producer, phase, held, open>>
             /\ stream'[Responder] = stream[Responder]
             /\ consumer'.asked - consumer.asked
                  = held'.initialRequestN - held.initialRequestN
             /\ \E n \in Nat : /\ consumer'.asked = consumer.asked + n
                               /\ RequesterTells(n)
  <2>1. RequesterTells(0)
    BY <1>1 DEF RequesterTells
  <2>2. consumer'.asked = consumer.asked + 0 /\ 0 \in Nat
        /\ consumer'.asked - consumer.asked = 0
    BY <1>1
  <2>3. held'.initialRequestN - held.initialRequestN = 0
    BY <1>1
  <2>. QED BY <1>1, <2>1, <2>2, <2>3
<1>2. \A t : Told(t) => consumer'.asked = consumer.asked
  BY DEF Told, Consumer
<1>3. stream[Requester].registered => phase = "ready"
  BY DEF QuietInv
<1>4. CASE \E n \in Demands : RequesterRequest(n)
  <2>1. PICK n \in Demands : RequesterRequest(n)
    BY <1>4
  <2>2. n \in Nat /\ RequestNFrame(n) \in Frame
    BY BoundsAssumption, FramesTyped
  <2>3. consumer'.asked = consumer.asked + n
    BY <2>1 DEF RequesterRequest, Consumer
  <2>4. CASE phase = "ready"
    <3>1. RequesterTells(n)
      BY <2>1, <2>2, <2>4, SendTells, FrameTypeOf DEF RequesterRequest
    <3>. QED BY <2>1, <2>2, <2>3, <2>4, <3>1 DEF RequesterRequest
  <2>5. CASE phase # "ready"
    <3>1. /\ wire' = wire
          /\ held' = [held EXCEPT !.initialRequestN = held.initialRequestN + n]
      BY <2>1, <2>5 DEF RequesterRequest
    <3>2. held'.initialRequestN = held.initialRequestN + n
      BY <3>1 DEF Held
    <3>3. RequesterTells(n)
      BY <2>5, <3>1 DEF RequesterTells
    <3>. QED BY <2>1, <2>2, <2>3, <2>5, <3>2, <3>3 DEF RequesterRequest
  <2>. QED BY <2>4, <2>5
<1>5. CASE RequesterCancel
  <2>1. consumer'.asked = consumer.asked + 0
    BY <1>5 DEF RequesterCancel, Consumer
  <2>2. CASE phase = "ready"
    <3>1. RequesterTells(0)
      BY <1>5, <2>2, SendTells, FrameTypeOf, FramesTyped DEF RequesterCancel
    <3>2. stream'[Responder] = stream[Responder]
      BY <1>5, <2>2, Effects DEF RequesterCancel
    <3>. QED BY <1>5, <2>1, <2>2, <3>1, <3>2 DEF RequesterCancel
  <2>3. CASE phase # "ready"
    <3>1. RequesterTells(0) /\ phase' = "dropped"
          /\ stream'[Responder] = stream[Responder]
      BY <1>5, <2>3 DEF RequesterCancel, RequesterTells
    <3>. QED BY <1>5, <2>1, <2>3, <3>1 DEF RequesterCancel
  <2>. QED BY <2>2, <2>3
<1>6. CASE RequesterOnExtension
  <2>1. UNCHANGED <<phase, served, initialN, producer, stream, open, consumer>>
        /\ held'.initialRequestN = held.initialRequestN
    BY <1>6 DEF RequesterOnExtension, Held
  <2>2. RequesterTells(0)
    <3>1. CASE phase = "ready"
      BY <1>6, <3>1, SendTells, FrameTypeOf, FramesTyped
         DEF RequesterOnExtension
    <3>2. CASE phase # "ready"
      BY <1>6, <3>2 DEF RequesterOnExtension, RequesterTells
    <3>. QED BY <3>1, <3>2
  <2>3. consumer'.asked = consumer.asked + 0
    BY <2>1
  <2>. QED BY <2>1, <2>2, <2>3
<1>7. CASE RequesterHandles
  <2>1. CASE RequesterHandlesExtension /\ stream[Requester].hasFragments
    <3>1. Abort(Requester) /\ TakeAndSend(Requester, <<CancelFrame>>)
          /\ wire[Requester] # <<>> /\ phase = "ready"
          /\ UNCHANGED <<served, initialN, producer, phase, held, open>>
          /\ consumer'.asked = consumer.asked
      BY <1>2, <1>3, <2>1 DEF RequesterHandlesExtension, Handles, Arrives
    <3>2. RequesterTells(0)
      BY <3>1, SendTells, FrameTypeOf, FramesTyped
    <3>3. stream'[Responder] = stream[Responder]
      BY <3>1, Effects
    <3>. QED BY <1>1, <3>1, <3>2, <3>3
  <2>2. CASE ~(RequesterHandlesExtension /\ stream[Requester].hasFragments)
    <3>1. wire[Requester] # <<>> /\ TakeAndSend(Requester, <<>>)
      BY <1>7, <2>2 DEF RequesterHandles, RequesterHandlesComplete,
         RequesterHandlesPayload, RequesterHandlesFragment,
         RequesterHandlesError, RequesterHandlesExtension, DropFrame, Handles,
         Arrives
    <3>2. wire'[Responder] = wire[Responder]
      BY <3>1, TakeTells
    <3>3. UNCHANGED <<served, initialN, producer, phase, held, open>>
          /\ consumer'.asked = consumer.asked
      BY <1>2, <1>7 DEF RequesterHandles, RequesterHandlesComplete,
         RequesterHandlesPayload, RequesterHandlesFragment,
         RequesterHandlesError, RequesterHandlesExtension, DropFrame, local
    <3>4. stream'[Responder] = stream[Responder]
      <4>1. CASE RequesterHandlesPayload
        BY <4>1 DEF RequesterHandlesPayload
      <4>2. CASE \/ RequesterHandlesComplete \/ RequesterHandlesFragment
                 \/ RequesterHandlesError \/ RequesterHandlesExtension
                 \/ DropFrame(Requester)
        BY <4>2, Effects DEF RequesterHandlesComplete,
           RequesterHandlesFragment, RequesterHandlesError,
           RequesterHandlesExtension, DropFrame
      <4>. QED BY <1>7, <4>1, <4>2 DEF RequesterHandles
    <3>. QED BY <1>1, <3>2, <3>3, <3>4
  <2>. QED BY <2>1, <2>2
<1>8. CASE RequesterCloses
  <2>1. /\ UNCHANGED <<served, initialN, producer, phase, held>>
        /\ stream'[Responder] = stream[Responder]
        /\ open'[Responder] = open[Responder]
        /\ open'[Requester] => open[Requester]
        /\ wire'[Responder] = wire[Responder]
    BY <1>8 DEF RequesterCloses, Disconnect
  <2>2. consumer'.asked = consumer.asked
    BY <1>2, <1>8 DEF RequesterCloses
  <2>3. consumer'.asked = consumer.asked + 0 /\ RequesterTells(0)
    BY <2>1, <2>2 DEF RequesterTells
  <2>. QED BY <2>1, <2>2, <2>3
<1>. QED BY <1>4, <1>5, <1>6, <1>7, <1>8 DEF RequesterCalls

\* What a step of the responder that takes no frame does.
LEMMA ResponderTelling ==
    ASSUME TypedInv, HandlerEnds \/ ResponderCalls
    PROVE  /\ UNCHANGED <<phase, held, initialN, consumer, open>>
           /\ wire'[Responder] = wire[Responder]
           /\ producer'.granted = producer.granted
           /\ stream'[Requester] = stream[Requester]
           /\ stream[Responder].done => stream'[Responder].done
           /\ served \in {"running", "active", "threw"}
           /\ \/ served' = served
              \/ served' = "active"
              \/ served' = "threw" /\ stream'[Responder].done
<1>. /\ wire \in [End -> Seq(Frame)] /\ producer \in Producer
     /\ Peer(Responder) = Requester
  BY DEF TypedInv, Peer
<1>1. \A fs : Send(Responder, fs) => wire'[Responder] = wire[Responder]
  BY DEF Send
<1>2. Finish(Responder) => /\ stream'[Responder].done
                           /\ stream'[Requester] = stream[Requester]
  BY Effects
<1>3. CASE HandlerReturns
  BY <1>3 DEF HandlerReturns
<1>4. CASE HandlerThrows
  BY <1>1, <1>2, <1>4 DEF HandlerThrows, Done
<1>5. CASE ResponderOnComplete \/ ResponderOnError
  BY <1>1, <1>2, <1>5 DEF ResponderOnComplete, ResponderOnError, HasStream, Producer
<1>6. CASE ResponderOnExtension
  BY <1>1, <1>6 DEF ResponderOnExtension, HasStream
<1>7. CASE \E c, cut \in BOOLEAN : ResponderOnNext(c, cut)
  <2>1. PICK c \in BOOLEAN, cut \in BOOLEAN : ResponderOnNext(c, cut)
    BY <1>7
  <2>2. producer'.granted = producer.granted
    BY <2>1 DEF ResponderOnNext, Producer
  <2>. QED BY <1>1, <1>2, <2>1, <2>2 DEF ResponderOnNext, HasStream
<1>. QED BY <1>3, <1>4, <1>5, <1>6, <1>7 DEF HandlerEnds, ResponderCalls

-----------------------------------------------------------------------------
(***************************************************************************)
(* While the responder's connection is open, the frames on their way to it *)
(* are the rest of the request it waits for, then the consumer's calls.    *)
(***************************************************************************)
RequestLeft ==
    \E k \in 0 .. Len(wire[Responder]) :
       /\ RequestThen(wire[Responder], served = "none", k)
       /\ phase = "ready" /\ served \in {"none", "reassembling"} => k > 0
       /\ served \in {"running", "active", "threw"} => k = 0

RequestInv ==
    open[Responder] => /\ RequestLeft
                       /\ served = "reassembling" => ~Done(Responder)

LEMMA RequestSteps ==
    TypedInv /\ QuietInv /\ RegistryInv /\ RequestInv /\ Next => RequestInv'
<1>. SUFFICES ASSUME TypedInv, QuietInv, RegistryInv, RequestInv, Next,
                     open'[Responder]
              PROVE  RequestLeft' /\ (served' = "reassembling" => ~Done(Responder)')
  BY DEF RequestInv
<1>. DEFINE Q == wire[Responder]
<1>. /\ wire \in [End -> Seq(Frame)] /\ open \in [End -> BOOLEAN]
     /\ Q \in Seq(Frame) /\ Len(Q) \in Nat /\ Peer(Requester) = Responder
     /\ served \in Services
  BY DEF TypedInv, Peer
<1>0. ASSUME served' = "reassembling" PROVE ~Done(Responder)'
  <2>1. CASE Answer \/ RequesterCalls \/ RequesterHandles \/ RequesterCloses
    <3>1. /\ stream'[Responder] = stream[Responder] /\ open[Responder]
          /\ served' = served
      <4>1. CASE HandleReject
        BY <4>1 DEF HandleReject, TypedInv
      <4>2. CASE \E cut \in BOOLEAN : HandleReady(cut)
        BY <4>2 DEF HandleReady, TypedInv
      <4>3. CASE RequesterCalls \/ RequesterHandles \/ RequesterCloses
        BY <4>3, RequesterTelling
      <4>. QED BY <2>1, <4>1, <4>2, <4>3 DEF Answer
    <3>. QED BY <1>0, <3>1 DEF RequestInv, Done
  <2>2. CASE HandlerEnds \/ ResponderCalls
    BY <1>0, <2>2, ResponderTelling
  <2>3. CASE ResponderReceivesFirstFragment
    <3>1. ~Done(Responder) /\ stream'[Responder].done = stream[Responder].done
      BY <2>3 DEF ResponderReceivesFirstFragment, RegistryInv, TypedInv,
         StreamState
    <3>. QED BY <3>1 DEF Done
  <2>4. CASE ResponderHandlesFragment
    <3>1. /\ AddFragment(Responder, Head(wire[Responder]).data)
          /\ UNCHANGED <<served, open>>
      BY <2>4 DEF ResponderHandlesFragment, local
    <3>2. stream'[Responder].done = stream[Responder].done
      BY <3>1, Effects
    <3>. QED BY <1>0, <3>1, <3>2 DEF RequestInv, Done
  <2>5. CASE ResponderHandles /\ ~ResponderReceivesFirstFragment
               /\ ~ResponderHandlesFragment
    <3>1. served = "reassembling" /\ open[Responder]
      BY <1>0, <2>5 DEF ResponderHandles, ResponderRejects,
       ResponderRefusesDemand, ResponderReceivesRequest,
       ResponderReassemblesRequest, CallHandler,
       ResponderHandlesEnd, ResponderHandlesRequestN,
       ResponderHandlesExtension, ResponderRefusesFrame, StopsProducer,
       DropFrame, local
    <3>2. /\ Q # <<>>
          /\ Head(Q).type \in {"CANCEL", "REQUEST_N", "EXT", "ERROR"}
             \/ DropFrame(Responder)
      BY <1>0, <2>5, <3>1 DEF ResponderHandles, ResponderRejects,
       ResponderRefusesDemand, ResponderReceivesRequest,
       ResponderReassemblesRequest, CallHandler,
       ResponderHandlesEnd, ResponderHandlesRequestN,
       ResponderHandlesExtension, ResponderRefusesFrame, StopsProducer,
       DropFrame, local, Handles, Arrives, HasReceiver
    <3>3. Head(Q).type = "PAYLOAD"
      <4>1. PICK k \in 0 .. Len(Q) : RequestThen(Q, FALSE, k) /\ k > 0
        BY <3>1, <3>2 DEF RequestInv, RequestLeft, QuietInv
      <4>2. 1 \in 1 .. Len(Q) /\ Head(Q) = Q[1] /\ 1 <= k
        BY <3>2, <4>1
      <4>. QED BY <4>1, <4>2 DEF RequestThen
    <3>4. ~stream[Responder].registered /\ UNCHANGED stream
      BY <3>2, <3>3 DEF DropFrame
    <3>. QED BY <3>1, <3>4 DEF RequestInv, RegistryInv, Done
  <2>6. CASE ResponderCloses
    BY <2>6 DEF ResponderCloses, Disconnect, TypedInv
  <2>. QED BY <2>1, <2>2, <2>3, <2>4, <2>5, <2>6 DEF Next
<1>. SUFFICES RequestLeft'
  BY <1>0
<1>1. CASE Answer
  <2>1. CASE HandleReject
    BY <2>1 DEF HandleReject, RequestInv, RequestLeft
  <2>2. CASE \E cut \in BOOLEAN : HandleReady(cut)
    <3>1. PICK cut \in BOOLEAN : HandleReady(cut)
      BY <2>2
    <3>. DEFINE q == RequestFrames(held.initialRequestN, FALSE, cut)
                       \o If(held.hasExtension, ExtFrame)
    <3>2. held.initialRequestN \in Nat /\ held.hasExtension \in BOOLEAN
      BY DEF TypedInv, Held
    <3>3. /\ q \in Seq(Frame)
          /\ \E k \in 1 .. Len(q) : RequestThen(q, TRUE, k)
      BY <3>2, RequestSent
    <3>4. /\ Send(Requester, q) /\ phase = "pending" /\ open[Requester]
          /\ UNCHANGED <<served, open>>
      BY <3>1 DEF HandleReady
    <3>. HIDE DEF q
    <3>5. wire'[Responder] = Q \o Sent(Requester, q) /\ Sent(Requester, q) = q
          /\ Q = <<>> /\ served = "none"
      BY <3>3, <3>4, WiresTyped DEF QuietInv, Sent
    <3>6. wire'[Responder] = q
      BY <3>3, <3>5
    <3>7. \E k \in 0 .. Len(q) : RequestThen(q, TRUE, k) /\ k > 0
      <4>1. PICK k \in 1 .. Len(q) : RequestThen(q, TRUE, k)
        BY <3>3
      <4>2. k \in 0 .. Len(q) /\ k > 0
        BY <4>1, <3>3
      <4>. QED BY <4>1, <4>2
    <3>. QED BY <3>4, <3>5, <3>6, <3>7 DEF RequestLeft
  <2>. QED BY <1>1, <2>1, <2>2 DEF Answer
<1>2. CASE RequesterCalls \/ RequesterHandles \/ RequesterCloses
  <2>1. /\ UNCHANGED served /\ open[Responder]
        /\ phase' = "ready" <=> phase = "ready"
        /\ \E n \in Nat : RequesterTells(n)
    BY <1>2, RequesterTelling
  <2>2. PICK k \in 0 .. Len(Q) :
           /\ RequestThen(Q, served = "none", k)
           /\ phase = "ready" /\ served \in {"none", "reassembling"} => k > 0
           /\ served \in {"running", "active", "threw"} => k = 0
    BY <2>1 DEF RequestInv, RequestLeft
  <2>3. CASE wire'[Responder] = Q
    BY <2>1, <2>2, <2>3 DEF RequestLeft
  <2>4. CASE \E f \in Frame : /\ f.type \in {"CANCEL", "REQUEST_N", "EXT"}
                              /\ wire'[Responder] = Q \o <<f>>
    <3>1. PICK f \in Frame : /\ f.type \in {"CANCEL", "REQUEST_N", "EXT"}
                             /\ wire'[Responder] = Q \o <<f>>
      BY <2>4
    <3>. DEFINE fresh == served = "none"
    <3>4. fresh \in BOOLEAN /\ RequestThen(Q, fresh, k)
      BY <2>2
    <3>. HIDE DEF fresh, Q
    <3>5. RequestThen(Q \o <<f>>, fresh, k)
      BY <2>2, <3>1, <3>4, RequestThenPushed
    <3>6. Len(Q \o <<f>>) = Len(Q) + 1
      BY <3>1, Pushed
    <3>2. RequestThen(wire'[Responder], served = "none", k)
          /\ Len(wire'[Responder]) = Len(Q) + 1
      BY <3>1, <3>5, <3>6 DEF fresh
    <3>3. k \in 0 .. Len(wire'[Responder])
      BY <3>2
    <3>. QED BY <2>1, <2>2, <3>2, <3>3 DEF RequestLeft
  <2>. QED BY <2>1, <2>3, <2>4 DEF RequesterTells
<1>3. CASE HandlerEnds \/ ResponderCalls
  <2>1. /\ UNCHANGED <<phase, open>> /\ wire'[Responder] = Q
        /\ served \in {"running", "active", "threw"}
        /\ served' \in {"running", "active", "threw"}
    BY <1>3, ResponderTelling
  <2>2. (served = "none") = (served' = "none")
    BY <2>1
  <2>. QED BY <2>1, <2>2 DEF RequestInv, RequestLeft
<1>4. CASE ResponderHandles
  <2>1. /\ Q # <<>> /\ UNCHANGED <<phase, open>>
        /\ \E fs \in {<<>>, <<ErrorFrame>>} : TakeAndSend(Responder, fs)
    BY <1>4 DEF ResponderHandles, ResponderRejects, ResponderRefusesDemand,
       ResponderReceivesFirstFragment, ResponderReceivesRequest,
       ResponderReassemblesRequest, CallHandler, ResponderHandlesFragment,
       ResponderHandlesEnd, ResponderHandlesRequestN,
       ResponderHandlesExtension, ResponderRefusesFrame, StopsProducer,
       DropFrame, Handles, Arrives, local
  <2>2. wire'[Responder] = Tail(Q)
    BY <2>1 DEF TakeAndSend
  <2>3. PICK k \in 0 .. Len(Q) :
           /\ RequestThen(Q, served = "none", k)
           /\ phase = "ready" /\ served \in {"none", "reassembling"} => k > 0
           /\ served \in {"running", "active", "threw"} => k = 0
    BY <2>1 DEF RequestInv, RequestLeft
  <2>4. phase = "ready"
    BY <2>1 DEF QuietInv
  <2>. DEFINE f == Head(Q)
              fresh == served = "none"
  <2>5. /\ k = 0 => /\ f.type \in {"CANCEL", "REQUEST_N", "EXT"}
                    /\ RequestThen(Tail(Q), FALSE, 0)
        /\ k > 0 => /\ f.type = (IF fresh THEN "REQUEST" ELSE "PAYLOAD")
                    /\ (f.follows <=> 1 < k)
                    /\ k - 1 \in 0 .. Len(Tail(Q))
                    /\ RequestThen(Tail(Q), FALSE, k - 1)
    <3>1. f = Q[1] /\ fresh \in BOOLEAN /\ Q # <<>>
      BY <2>1
    <3>2. RequestThen(Q, fresh, k)
      BY <2>3
    <3>. HIDE DEF Q, f, fresh
    <3>3. /\ k = 0 => /\ Q[1].type \in {"CANCEL", "REQUEST_N", "EXT"}
                      /\ RequestThen(Tail(Q), FALSE, 0)
          /\ k > 0 => /\ Q[1].type = (IF fresh THEN "REQUEST" ELSE "PAYLOAD")
                      /\ (Q[1].follows <=> 1 < k)
                      /\ k - 1 \in 0 .. Len(Tail(Q))
                      /\ RequestThen(Tail(Q), FALSE, k - 1)
      BY <2>3, <3>1, <3>2, RequestThenTaken, ZenonT(60)
    <3>. QED BY <3>1, <3>3
  <2>6. Len(Tail(Q)) \in Nat /\ 0 \in 0 .. Len(Tail(Q))
    BY <2>1
  <2>7. open[Responder] /\ wire'[Responder] = Tail(Q)
    BY <2>1, <2>2
  <2>15. k \in Nat /\ (k = 0 \/ k > 0)
    BY <2>3
  <2>16. /\ served = "none" => (k > 0 => f.type = "REQUEST")
         /\ served # "none" => (k > 0 => f.type = "PAYLOAD")
    BY <2>5
  <2>. HIDE DEF Q, f, fresh
  <2>8. ASSUME served' # "none", \E l \in 0 .. Len(Tail(Q)) :
                  /\ RequestThen(Tail(Q), FALSE, l)
                  /\ served' = "reassembling" => l > 0
                  /\ served' \in {"running", "active", "threw"} => l = 0
        PROVE  RequestLeft'
    BY <2>7, <2>8 DEF RequestLeft
  <2>9. CASE ResponderRejects \/ ResponderRefusesDemand
    <3>1. served' = "refused"
      BY <2>9 DEF ResponderRejects, ResponderRefusesDemand
    <3>2. \E l \in 0 .. Len(Tail(Q)) : RequestThen(Tail(Q), FALSE, l)
      <4>1. CASE k = 0
        BY <2>5, <2>6, <4>1
      <4>2. CASE k > 0
        BY <2>5, <4>2
      <4>. QED BY <2>15, <4>1, <4>2
    <3>. QED BY <2>8, <3>1, <3>2
  <2>10. CASE ResponderReceivesFirstFragment
    <3>1. served = "none" /\ served' = "reassembling" /\ f.follows
      BY <2>10 DEF ResponderReceivesFirstFragment, f, Q
    <3>2. k > 0 /\ k > 1 /\ k - 1 > 0
      BY <2>3, <2>4, <2>5, <2>15, <3>1
    <3>. QED BY <2>5, <2>8, <3>1, <3>2
  <2>11. CASE ResponderReceivesRequest
    <3>1. served = "none" /\ served' = "running" /\ ~f.follows
      BY <2>11 DEF ResponderReceivesRequest, CallHandler, f, Q
    <3>3. k > 0
      BY <2>3, <2>4, <3>1
    <3>4. ~(1 < k)
      BY <2>5, <3>1, <3>3
    <3>2. k > 0 /\ k - 1 = 0
      BY <2>15, <3>3, <3>4
    <3>. QED BY <2>5, <2>8, <3>1, <3>2
  <2>12. CASE ResponderReassemblesRequest
    <3>1. f.type = "PAYLOAD" /\ ~f.follows /\ served' = "running"
          /\ served # "none"
      BY <2>12 DEF ResponderReassemblesRequest, CallHandler, Handles, Arrives,
         RegistryInv, f, Q
    <3>3. k > 0
      <4>1. f.type \notin {"CANCEL", "REQUEST_N", "EXT"}
        BY <3>1
      <4>. QED BY <2>5, <2>15, <4>1
    <3>4. ~(1 < k)
      BY <2>5, <3>1, <3>3
    <3>2. k > 0 /\ k - 1 = 0
      BY <2>15, <3>3, <3>4
    <3>. QED BY <2>5, <2>8, <3>1, <3>2
  <2>13. CASE ResponderHandlesFragment
    <3>1. f.type = "PAYLOAD" /\ f.follows /\ served' = served
          /\ served # "none"
      BY <2>13 DEF ResponderHandlesFragment, local, Handles, Arrives,
         RegistryInv, f, Q
    <3>2. k > 0 /\ k > 1 /\ k - 1 > 0
      <4>1. k > 0
        BY <2>5, <2>15, <3>1
      <4>2. 1 < k
        BY <2>5, <3>1, <4>1
      <4>. QED BY <2>15, <4>1, <4>2
    <3>3. served \notin {"running", "active", "threw"}
      BY <2>3, <3>2
    <3>. QED BY <2>5, <2>8, <3>1, <3>2, <3>3
  <2>14. CASE \/ ResponderHandlesEnd \/ ResponderHandlesRequestN
              \/ ResponderHandlesExtension \/ ResponderRefusesFrame
              \/ DropFrame(Responder)
    <3>1. served' = served /\ f.type # "REQUEST"
      BY <2>14 DEF ResponderHandlesEnd, ResponderHandlesRequestN,
         ResponderHandlesExtension, ResponderRefusesFrame, StopsProducer,
         DropFrame, Handles, Arrives, local, f, Q
    <3>2. served # "none"
      <4>1. f.type \notin {"CANCEL", "REQUEST_N", "EXT"} => k > 0
        BY <2>5, <2>15
      <4>2. ASSUME served = "none" PROVE FALSE
        <5>1. k > 0
          BY <2>3, <2>4, <4>2
        <5>. QED BY <2>16, <3>1, <4>2, <5>1
      <4>. QED BY <4>2
    <3>3. served # "reassembling"
      <4>1. SUFFICES ASSUME served = "reassembling" PROVE FALSE
        OBVIOUS
      <4>2. f.type = "PAYLOAD" /\ ~HasReceiver
        <5>1. k > 0
          BY <2>3, <2>4, <4>1
        <5>. QED BY <2>16, <4>1, <5>1 DEF HasReceiver
      <4>3. stream[Responder].registered \/ stream[Responder].done
        BY <2>7, <4>1 DEF RegistryInv, RegistryExact, Started, Done
      <4>4. f.type # "CANCEL" /\ f.type # "ERROR" /\ f.type # "REQUEST_N"
            /\ f.type # "EXT"
        BY <4>2
      <4>5. ~ResponderHandlesEnd /\ ~ResponderHandlesRequestN
            /\ ~ResponderHandlesExtension /\ ~ResponderRefusesFrame
        BY <4>2, <4>4 DEF ResponderHandlesEnd, ResponderHandlesRequestN,
               ResponderHandlesExtension, ResponderRefusesFrame,
               Handles, Arrives, f, Q
      <4>6. DropFrame(Responder) /\ ~stream[Responder].registered
        BY <2>14, <4>5 DEF DropFrame
      <4>7. RegistryExact /\ open[Responder] /\ ~Done(Responder)
        BY <2>7, <4>1 DEF RegistryInv, RequestInv
      <4>. QED BY <4>1, <4>6, <4>7 DEF RegistryExact, Started
    <3>4. CASE k = 0
      BY <2>5, <2>6, <2>8, <3>1, <3>2, <3>3, <3>4 DEF Services
    <3>5. CASE k > 0
      <4>1. served = "refused"
        BY <2>3, <3>2, <3>3, <3>5 DEF Services
      <4>. QED BY <2>5, <2>8, <3>1, <3>5, <4>1
    <3>. QED BY <2>15, <3>4, <3>5
  <2>. QED BY <1>4, <2>9, <2>10, <2>11, <2>12, <2>13, <2>14
       DEF ResponderHandles
<1>5. CASE ResponderCloses
  BY <1>5 DEF ResponderCloses, Disconnect
<1>. QED BY <1>1, <1>2, <1>3, <1>4, <1>5 DEF Next

LEMMA RequestAlways == Spec => []RequestInv
<1>1. Init => RequestInv
  <2>. SUFFICES ASSUME Init PROVE RequestInv
    OBVIOUS
  <2>1. wire[Responder] = <<>> /\ served = "none" /\ phase = "pending"
    BY DEF Init
  <2>2. 0 \in 0 .. Len(wire[Responder]) /\ 1 .. Len(wire[Responder]) = {}
    BY <2>1
  <2>3. RequestThen(wire[Responder], served = "none", 0)
    BY <2>2 DEF RequestThen
  <2>. QED BY <2>1, <2>2, <2>3 DEF RequestInv, RequestLeft
<1>2. RequestInv /\ UNCHANGED vars => RequestInv'
  BY DEF RequestInv, RequestLeft, Done, vars, local
<1>3. TypedInv /\ QuietInv /\ RegistryInv /\ RequestInv /\ [Next]_vars
         => RequestInv'
  BY <1>2, RequestSteps
<1>. QED BY <1>1, <1>3, TypedAlways, QuietAlways, RegistryAlways, PTL DEF Spec

-----------------------------------------------------------------------------
(***************************************************************************)
(* What the consumer has asked for is what the producer was granted and    *)
(* what the frames under way carry; while nothing can be lost, exactly.    *)
(***************************************************************************)
Base == IF served = "reassembling" THEN initialN ELSE producer.granted
Exact == Lossless /\ ~Done(Responder) /\ phase = "ready" /\ served # "refused"

DemandInv ==
    /\ phase = "pending" => consumer.asked = held.initialRequestN
    /\ served \in {"none", "reassembling"} => producer.granted = 0
    /\ Owes(wire[Responder], Base, consumer.asked, Exact)

LEMMA DemandTyped ==
    TypedInv => /\ Base \in Nat /\ consumer.asked \in Nat /\ Exact \in BOOLEAN
                /\ producer.granted \in Nat /\ initialN \in Nat
                /\ wire[Responder] \in Seq(Frame) /\ Len(wire[Responder]) \in Nat
BY DEF TypedInv, Base, Exact, Producer, Consumer

LEMMA InitDemand == Init => DemandInv
<1>. SUFFICES ASSUME Init PROVE DemandInv
  OBVIOUS
<1>1. /\ wire[Responder] = <<>> /\ Base = 0 /\ ~Exact /\ Exact \in BOOLEAN
      /\ consumer.asked = held.initialRequestN /\ held.initialRequestN \in Nat
      /\ producer.granted = 0
  BY BoundsAssumption DEF Init, Base, Exact
<1>2. Owes(<<>>, 0, consumer.asked, FALSE)
  <2>1. consumer.asked \in Nat /\ 0 <= consumer.asked
    BY <1>1
  <2>. QED BY <2>1, OwesNothing
<1>3. Exact = FALSE
  BY <1>1
<1>. QED BY <1>1, <1>2, <1>3 DEF DemandInv

LEMMA AnswerDemand == TypedInv /\ QuietInv /\ DemandInv /\ Answer => DemandInv'
<1>. SUFFICES ASSUME TypedInv, QuietInv, DemandInv, Answer PROVE DemandInv'
  OBVIOUS
<1>. DEFINE Q == wire[Responder]
<1>. /\ Base \in Nat /\ consumer.asked \in Nat /\ Exact \in BOOLEAN
     /\ Q \in Seq(Frame) /\ Len(Q) \in Nat
     /\ wire \in [End -> Seq(Frame)] /\ open \in [End -> BOOLEAN]
     /\ stream \in [End -> StreamState] /\ consumer \in Consumer
     /\ Peer(Requester) = Responder
  BY DemandTyped DEF TypedInv, Peer
<1>1. CASE HandleReject
  <2>1. /\ phase' = "rejected" /\ UNCHANGED <<served, initialN, producer, wire>>
        /\ consumer'.asked = consumer.asked
    BY <1>1 DEF HandleReject, Told, Consumer
  <2>2. Base' = Base /\ Exact' = FALSE
    BY <2>1 DEF Base, Exact
  <2>3. Owes(Q, Base, consumer.asked, FALSE)
    <3>. HIDE DEF Q
    <3>1. Owes(Q, Base, consumer.asked, Exact)
      BY DEF DemandInv, Q
    <3>. QED BY <3>1, OwesStill
  <2>. QED BY <2>1, <2>2, <2>3 DEF DemandInv
<1>2. CASE \E cut \in BOOLEAN : HandleReady(cut)
  <2>1. PICK cut \in BOOLEAN : HandleReady(cut)
    BY <1>2
  <2>. DEFINE q == RequestFrames(held.initialRequestN, FALSE, cut)
                     \o If(held.hasExtension, ExtFrame)
              n == held.initialRequestN
  <2>2. n \in Nat /\ held.hasExtension \in BOOLEAN
    BY DEF TypedInv, Held
  <2>3. q \in Seq(Frame) /\ Owes(q, 0, n, TRUE)
    BY <2>2, RequestSent
  <2>4. /\ Send(Requester, q) /\ phase = "pending" /\ phase' = "ready"
        /\ open[Requester]
        /\ UNCHANGED <<served, open, producer, initialN, consumer, held>>
    BY <2>1 DEF HandleReady
  <2>. HIDE DEF q
  <2>5. /\ wire'[Responder] = Q \o Sent(Requester, q)
        /\ Q = <<>> /\ served = "none" /\ consumer.asked = n
        /\ producer.granted = 0
    BY <2>3, <2>4, WiresTyped DEF QuietInv, DemandInv
  <2>6. Base' = 0
    BY <2>4, <2>5 DEF Base
  <2>7. CASE open[Responder]
    <3>1. wire'[Responder] = q
      BY <2>3, <2>4, <2>5, <2>7 DEF Sent
    <3>2. Exact' \in BOOLEAN
      BY DEF Exact
    <3>4. Owes(q, 0, n, Exact')
      BY <2>3, <3>2, OwesStill
    <3>. QED BY <2>4, <2>5, <2>6, <3>1, <3>4 DEF DemandInv
  <2>8. CASE ~open[Responder]
    <3>1. wire'[Responder] = <<>> /\ Exact' = FALSE
      BY <2>4, <2>5, <2>8 DEF Sent, Peer, Exact, Lossless
    <3>2. Owes(<<>>, 0, n, FALSE)
      <4>1. 0 <= n
        BY <2>2
      <4>. HIDE DEF n
      <4>. QED BY <2>2, <4>1, OwesNothing
    <3>. QED BY <2>4, <2>5, <2>6, <3>1, <3>2 DEF DemandInv
  <2>. QED BY <2>7, <2>8
<1>. QED BY <1>1, <1>2 DEF Answer

LEMMA RequesterDemand ==
    TypedInv /\ QuietInv /\ DemandInv
      /\ (RequesterCalls \/ RequesterHandles \/ RequesterCloses) => DemandInv'
<1>. SUFFICES ASSUME TypedInv, QuietInv, DemandInv,
                     RequesterCalls \/ RequesterHandles \/ RequesterCloses
              PROVE  DemandInv'
  OBVIOUS
<1>. DEFINE Q == wire[Responder]
            a == consumer.asked
<1>. /\ Base \in Nat /\ a \in Nat /\ Exact \in BOOLEAN
     /\ Q \in Seq(Frame) /\ Len(Q) \in Nat
  BY DemandTyped
<1>1. PICK n \in Nat : consumer'.asked = a + n /\ RequesterTells(n)
  BY RequesterTelling
<1>2. /\ UNCHANGED <<served, initialN, producer>>
      /\ stream'[Responder] = stream[Responder]
      /\ open'[Responder] = open[Responder]
      /\ open'[Requester] => open[Requester]
      /\ phase' = "ready" <=> phase = "ready"
      /\ phase' = "pending" => /\ phase = "pending"
                               /\ consumer'.asked - a = held'.initialRequestN
                                                         - held.initialRequestN
  BY RequesterTelling
<1>3. Base' = Base /\ (Exact' => Exact) /\ Exact' \in BOOLEAN
  BY <1>2 DEF Base, Exact, Lossless, Done
<1>4. phase' = "pending" => consumer'.asked = held'.initialRequestN
  <2>1. held'.initialRequestN \in Nat /\ held.initialRequestN \in Nat
    <3>1. TypedInv'
      BY RequesterCallsTyped, RequesterHandlesTyped, ClosesTyped
    <3>. QED BY <3>1 DEF TypedInv, Held
  <2>2. ASSUME phase' = "pending"
        PROVE  /\ a = held.initialRequestN
               /\ (a + n) - a = held'.initialRequestN - held.initialRequestN
    BY <1>1, <1>2, <2>2 DEF DemandInv
  <2>. QED BY <1>1, <2>1, <2>2
<1>5. Owes(Q, Base, a, Exact)
  BY DEF DemandInv
<1>. HIDE DEF Q, a
<1>6. Owes(wire'[Responder], Base, a + n, Exact')
  <2>1. CASE wire'[Responder] = Q /\ n = 0
    <3>1. Owes(Q, Base, a, Exact') /\ a + n = a
      BY <1>3, <1>5, <2>1, OwesStill
    <3>. QED BY <2>1, <3>1
  <2>2. CASE wire'[Responder] = Q /\ (~Lossless \/ phase # "ready")
    <3>1. Exact' = FALSE
      BY <1>3, <2>2 DEF Exact
    <3>2. Base <= Base /\ a <= a + n /\ a + n \in Nat
      OBVIOUS
    <3>3. Owes(Q, Base, a + n, FALSE)
      BY <1>5, <3>2, OwesLess
    <3>. QED BY <2>2, <3>1, <3>3
  <2>3. CASE \E f \in Frame : Demand(f) = n /\ wire'[Responder] = Q \o <<f>>
    <3>1. PICK f \in Frame : Demand(f) = n /\ wire'[Responder] = Q \o <<f>>
      BY <2>3
    <3>. DEFINE r == Q \o <<f>>
    <3>2. Owes(r, Base, a + n, Exact)
      BY <1>5, <3>1, OwesPushed
    <3>4. Owes(r, Base, a + n, Exact')
      BY <1>3, <3>2, OwesStill
    <3>. QED BY <3>1, <3>4
  <2>. QED BY <1>1, <2>1, <2>2, <2>3 DEF RequesterTells, Q
<1>. QED BY <1>1, <1>2, <1>3, <1>4, <1>6 DEF DemandInv

LEMMA ResponderCallsDemand ==
    TypedInv /\ DemandInv /\ (HandlerEnds \/ ResponderCalls) => DemandInv'
<1>. SUFFICES ASSUME TypedInv, DemandInv, HandlerEnds \/ ResponderCalls
              PROVE  DemandInv'
  OBVIOUS
<1>. DEFINE Q == wire[Responder]
<1>. /\ Base \in Nat /\ consumer.asked \in Nat /\ Exact \in BOOLEAN
     /\ Q \in Seq(Frame) /\ Len(Q) \in Nat
  BY DemandTyped
<1>1. /\ UNCHANGED <<phase, held, initialN, consumer, open>>
      /\ wire'[Responder] = wire[Responder]
      /\ producer'.granted = producer.granted
      /\ stream[Responder].done => stream'[Responder].done
      /\ served \in {"running", "active", "threw"}
      /\ served' \in {"running", "active", "threw"}
  BY ResponderTelling
<1>2. Base' = Base /\ (Exact' => Exact) /\ Exact' \in BOOLEAN
  BY <1>1 DEF Base, Exact, Lossless, Done
<1>3. Owes(Q, Base, consumer.asked, Exact)
  BY DEF DemandInv
<1>. HIDE DEF Q
<1>4. Owes(Q, Base, consumer.asked, Exact')
  BY <1>2, <1>3, OwesStill
<1>. QED BY <1>1, <1>2, <1>4 DEF DemandInv, Q

\* What a step that takes a frame for the responder does to the demand.
LEMMA ResponderHandlesDemand ==
    TypedInv /\ QuietInv /\ RegistryInv /\ RequestInv /\ DemandInv
      /\ ResponderHandles => DemandInv'
<1>. SUFFICES ASSUME TypedInv, QuietInv, RegistryInv, RequestInv, DemandInv,
                     ResponderHandles
              PROVE  DemandInv'
  OBVIOUS
<1>. DEFINE Q == wire[Responder]
            f == Head(Q)
            a == consumer.asked
<1>1. /\ Q # <<>>
      /\ \E fs \in {<<>>, <<ErrorFrame>>} : TakeAndSend(Responder, fs)
      /\ UNCHANGED <<phase, open, consumer, held>>
  BY DEF ResponderHandles, ResponderRejects, ResponderRefusesDemand,
     ResponderReceivesFirstFragment, ResponderReceivesRequest,
     ResponderReassemblesRequest, CallHandler, ResponderHandlesFragment,
     ResponderHandlesEnd, ResponderHandlesRequestN,
     ResponderHandlesExtension, ResponderRefusesFrame, StopsProducer,
     DropFrame, Handles, Arrives, local
<1>2. wire'[Responder] = Tail(Q) /\ phase = "ready"
  BY <1>1 DEF TakeAndSend, QuietInv
<1>3. /\ Base \in Nat /\ a \in Nat /\ Exact \in BOOLEAN
      /\ Q \in Seq(Frame) /\ f \in Frame /\ Q[1] = f
      /\ producer \in Producer /\ producer.granted \in Nat /\ initialN \in Nat
      /\ stream \in [End -> StreamState] /\ stream[Responder] \in StreamState
  BY <1>1, DemandTyped, Taken DEF TypedInv
<1>4. f.requestN \in Nat /\ Demand(f) \in Nat
  BY <1>3, FrameFields DEF Demand
<1>5. Tail(Q) \in Seq(Frame)
  BY <1>1, <1>3, Taken
<1>6. Owes(Tail(Q), Base + Demand(f), a, Exact)
  <2>1. Owes(Q, Base, a, Exact)
    BY DEF DemandInv
  <2>. HIDE DEF Q, f, a
  <2>2. Owes(Tail(Q), Base + Demand(Q[1]), a, Exact)
    BY <1>1, <1>3, <2>1, OwesTaken
  <2>. QED BY <1>3, <2>2
<1>7. consumer'.asked = a /\ phase' # "pending" /\ Exact' \in BOOLEAN
  BY <1>1, <1>2 DEF Exact
<1>. HIDE DEF f, Q, a
\* What is left to show: where the demand of the frame went.
<1>8. ASSUME Base' = Base + Demand(f), Exact' => Exact,
             served' \in {"none", "reassembling"} => producer'.granted = 0
      PROVE  DemandInv'
  <2>1. Owes(Tail(Q), Base', a, Exact')
    BY <1>3, <1>6, <1>7, <1>8, OwesStill
  <2>. QED BY <1>2, <1>7, <1>8, <2>1 DEF DemandInv, Q
<1>9. ASSUME Base' = Base, ~Exact',
             served' \in {"none", "reassembling"} => producer'.granted = 0
      PROVE  DemandInv'
  <2>1. Base <= Base + Demand(f) /\ a <= a /\ Base + Demand(f) \in Nat
    BY <1>3, <1>4
  <2>2. Owes(Tail(Q), Base, a, FALSE)
    BY <1>3, <1>5, <1>6, <2>1, OwesLess
  <2>3. Exact' = FALSE
    BY <1>7, <1>9
  <2>. QED BY <1>2, <1>7, <1>9, <2>2, <2>3 DEF DemandInv, Q
<1>10. CASE ResponderRejects \/ ResponderRefusesDemand
  <2>1. served = "none" /\ served' = "refused" /\ UNCHANGED producer
    BY <1>10 DEF ResponderRejects, ResponderRefusesDemand
  <2>2. Base' = Base /\ ~Exact'
    BY <2>1 DEF Base, Exact
  <2>. QED BY <1>9, <2>1, <2>2
<1>11. CASE ResponderReceivesFirstFragment
  <2>1. /\ served = "none" /\ served' = "reassembling" /\ UNCHANGED producer
        /\ initialN' = f.requestN /\ f.type = "REQUEST"
        /\ stream'[Responder].done = stream[Responder].done
    BY <1>3, <1>11 DEF ResponderReceivesFirstFragment, Arrives, f, Q, StreamState
  <2>2. Base = 0 /\ Base' = f.requestN /\ Demand(f) = f.requestN
        /\ producer.granted = 0
    BY <2>1 DEF Base, Demand, DemandInv
  <2>3. Exact' => Exact
    BY <1>1, <2>1 DEF Exact, Lossless, Done
  <2>. QED BY <1>4, <1>8, <2>1, <2>2, <2>3
<1>12. CASE ResponderReceivesRequest
  <2>1. /\ served = "none" /\ served' = "running"
        /\ producer' = [producer EXCEPT !.granted = f.requestN]
        /\ f.type = "REQUEST"
        /\ stream' = [stream EXCEPT ![Responder].registered = TRUE]
    BY <1>12 DEF ResponderReceivesRequest, CallHandler, Arrives, f, Q
  <2>2. Base = 0 /\ Base' = f.requestN /\ Demand(f) = f.requestN
    BY <1>3, <2>1 DEF Base, Demand, DemandInv, Producer
  <2>3. stream'[Responder].done = stream[Responder].done
    BY <2>1, Effects
  <2>4. Exact' => Exact
    BY <1>1, <2>1, <2>3 DEF Exact, Lossless, Done
  <2>. QED BY <1>4, <1>8, <2>1, <2>2, <2>4
<1>13. CASE ResponderReassemblesRequest
  <2>1. /\ stream[Responder].registered /\ ~HasReceiver /\ served # "running"
        /\ served' = "running" /\ f.type = "PAYLOAD"
        /\ producer' = [producer EXCEPT !.granted = initialN]
        /\ stream'[Responder].done = stream[Responder].done
    BY <1>3, <1>13 DEF ResponderReassemblesRequest, CallHandler, Handles,
       Arrives, f, Q, StreamState
  <2>2. served = "reassembling"
    BY <2>1 DEF RegistryInv, HasReceiver, TypedInv, Services
  <2>3. Base = initialN /\ Base' = initialN /\ Demand(f) = 0
    BY <1>3, <2>1, <2>2 DEF Base, Demand, Producer
  <2>4. Exact' => Exact
    BY <1>1, <2>1, <2>2 DEF Exact, Lossless, Done
  <2>. QED BY <1>3, <1>8, <2>1, <2>3, <2>4
<1>14. CASE ResponderHandlesFragment \/ ResponderHandlesExtension
  <2>1. /\ UNCHANGED <<served, producer, initialN>>
        /\ Demand(f) = 0
        /\ stream'[Responder].done = stream[Responder].done
    <3>1. CASE ResponderHandlesFragment
      BY <3>1, Effects DEF ResponderHandlesFragment, Handles, Arrives, f, Q,
         Demand, local
    <3>2. CASE ResponderHandlesExtension
      BY <3>2 DEF ResponderHandlesExtension, Handles, Arrives, f, Q, Demand,
         local
    <3>. QED BY <1>14, <3>1, <3>2
  <2>2. Base' = Base + Demand(f) /\ (Exact' => Exact)
    BY <1>1, <1>3, <2>1 DEF Base, Exact, Lossless, Done
  <2>. QED BY <1>8, <2>1, <2>2 DEF DemandInv
<1>15. CASE ResponderHandlesEnd \/ ResponderRefusesFrame
  <2>1. /\ Abort(Responder) /\ producer'.granted = producer.granted
        /\ UNCHANGED <<served, initialN>>
    BY <1>3, <1>15 DEF ResponderHandlesEnd, ResponderRefusesFrame,
       StopsProducer, Cancelled, Producer
  <2>2. stream'[Responder].done
    BY <2>1, Effects
  <2>3. Base' = Base /\ ~Exact'
    BY <2>1, <2>2 DEF Base, Exact, Done
  <2>. QED BY <1>9, <2>1, <2>3 DEF DemandInv
<1>16. CASE ResponderHandlesRequestN
  <2>1. /\ served = "active" /\ UNCHANGED <<served, stream>>
        /\ producer' = [producer EXCEPT !.granted = @ + f.requestN]
        /\ f.type = "REQUEST_N"
    BY <1>16 DEF ResponderHandlesRequestN, HasReceiver, Handles, Arrives, f, Q
  <2>2. producer'.granted = producer.granted + f.requestN
    BY <1>3, <2>1 DEF Producer
  <2>3. Base' = Base + Demand(f) /\ (Exact' => Exact)
    BY <1>1, <2>1, <2>2 DEF Base, Demand, Exact, Lossless, Done
  <2>. QED BY <1>8, <2>1, <2>3
<1>17. CASE DropFrame(Responder)
  <2>1. /\ UNCHANGED <<served, producer, initialN, stream>>
        /\ ~stream[Responder].registered /\ f.type # "REQUEST"
    BY <1>17 DEF DropFrame, local, f, Q
  <2>2. ~Exact
    <3>1. SUFFICES ASSUME Exact PROVE FALSE
      OBVIOUS
    <3>2. served = "none"
      BY <2>1, <3>1 DEF Exact, Lossless, RegistryInv, RegistryExact, Started,
         Done, HasStream, TypedInv, Services
    <3>3. PICK k \in 0 .. Len(Q) : RequestThen(Q, TRUE, k) /\ k > 0
      BY <1>2, <3>1, <3>2 DEF RequestInv, RequestLeft, Exact, Lossless, Q
    <3>4. 1 \in 1 .. Len(Q) /\ 1 <= k
      BY <1>1, <1>3, <3>3
    <3>. QED BY <1>3, <2>1, <3>3, <3>4 DEF RequestThen
  <2>3. Base' = Base /\ ~Exact'
    BY <1>1, <2>1, <2>2 DEF Base, Exact, Lossless, Done
  <2>. QED BY <1>9, <2>1, <2>3 DEF DemandInv
<1>. QED BY <1>10, <1>11, <1>12, <1>13, <1>14, <1>15, <1>16, <1>17
     DEF ResponderHandles

LEMMA ClosesDemand == TypedInv /\ DemandInv /\ ResponderCloses => DemandInv'
<1>. SUFFICES ASSUME TypedInv, DemandInv, ResponderCloses PROVE DemandInv'
  OBVIOUS
<1>. DEFINE Q == wire[Responder]
<1>. /\ Base \in Nat /\ consumer.asked \in Nat /\ Exact \in BOOLEAN
     /\ Q \in Seq(Frame)
  BY DemandTyped
<1>1. /\ Disconnect(Responder, Chunked)
      /\ producer'.granted = producer.granted
      /\ UNCHANGED <<phase, held, served, initialN, consumer>>
  <2>1. producer \in Producer
    BY DEF TypedInv
  <2>. QED BY <2>1 DEF ResponderCloses, Cancelled, Producer
<1>. DEFINE r == wire'[Responder]
<1>2. /\ ~open'[Responder] /\ r \in Seq(Frame) /\ Len(r) <= Len(Q)
      /\ \A i \in 1 .. Len(r) : r[i] = Q[i]
  BY <1>1, DisconnectTyped, BoundsAssumption DEF TypedInv
<1>3. Base' = Base /\ Exact' = FALSE
  BY <1>1, <1>2 DEF Base, Exact, Lossless
<1>4. Owes(Q, Base, consumer.asked, Exact)
  BY DEF DemandInv
<1>. HIDE DEF Q, r
<1>5. Owes(r, Base, consumer.asked, FALSE)
  BY <1>2, <1>4, OwesCut
<1>. QED BY <1>1, <1>3, <1>5 DEF DemandInv, r

LEMMA DemandAlways == Spec => []DemandInv
<1>1. TypedInv /\ QuietInv /\ RegistryInv /\ RequestInv /\ DemandInv
        /\ [Next]_vars => DemandInv'
  <2>1. DemandInv /\ UNCHANGED vars => DemandInv'
    BY DEF DemandInv, Base, Exact, Lossless, Done, vars, local
  <2>. QED BY <2>1, AnswerDemand, RequesterDemand, ResponderCallsDemand,
              ResponderHandlesDemand, ClosesDemand DEF Next
<1>. QED BY <1>1, InitDemand, TypedAlways, QuietAlways, RegistryAlways,
            RequestAlways, PTL DEF Spec

(***************************************************************************)
(* The producer is granted no more than the consumer asked for, before or  *)
(* after the stream had an id, and with nothing in flight no less.         *)
(***************************************************************************)
THEOREM DemandIsConserved == Spec => []DemandConserved
<1>1. TypedInv /\ DemandInv => DemandConserved
  <2>. SUFFICES ASSUME TypedInv, DemandInv PROVE DemandConserved
    OBVIOUS
  <2>1. /\ Base \in Nat /\ consumer.asked \in Nat /\ Exact \in BOOLEAN
        /\ wire[Responder] \in Seq(Frame) /\ producer.granted \in Nat
    BY DemandTyped
  <2>2. /\ Base <= consumer.asked
        /\ Exact /\ wire[Responder] = <<>> => Base = consumer.asked
    BY <2>1, OwesBounds DEF DemandInv
  <2>3. producer.granted <= consumer.asked
    BY <2>1, <2>2 DEF DemandInv, Base
  <2>4. ASSUME \A e \in End : open[e] /\ wire[e] = <<>> /\ ~Done(e),
               phase = "ready", served \in {"running", "active"}
        PROVE  producer.granted = consumer.asked
    BY <2>2, <2>4 DEF Base, Exact, Lossless
  <2>. QED BY <2>3, <2>4 DEF DemandConserved
<1>. QED BY <1>1, TypedAlways, DemandAlways, PTL

-----------------------------------------------------------------------------
(* The payloads.  From here on a socket hands over one frame at a time:    *)
(* behind a frame that closes the connection, the rest of a TCP chunk is   *)
(* still given to a stream that has told its consumer of the end.          *)

OneFrameAtATime == ~Chunked

\* Where the consumer stands, and where the frames under way take it.
Here == At(Len(consumer.signals), stream[Requester].hasFragments)
All == producer.ended = "complete"

CarryInv ==
    ~Done(Requester) =>
       /\ stream[Requester].fragments =
             IF stream[Requester].hasFragments
             THEN <<Len(consumer.signals) + 1>> ELSE <<>>
       /\ \E m \in Nat : /\ Leads(wire[Requester], Here, At(m, FALSE),
                                  producer.emitted, All)
                         /\ m <= producer.emitted
                         /\ Lossless => m = producer.emitted

EndInv ==
    /\ producer.ended # "no" => Done(Responder)
    /\ Promise!Told => Done(Requester)

EmptyInv ==
    /\ served = "none" => wire[Requester] = <<>>
    /\ \A e \in End : ~open[e] => wire[e] = <<>>

PromiseInv == CarryInv /\ EndInv /\ EmptyInv /\ ~refused

LEMMA InitPromise == Init => PromiseInv
<1>. SUFFICES ASSUME Init PROVE PromiseInv
  OBVIOUS
<1>1. /\ wire = [e \in End |-> <<>>] /\ open = [e \in End |-> TRUE] /\ ~refused
      /\ producer.ended = "no" /\ producer.emitted = 0
      /\ consumer.signals = <<>> /\ Len(consumer.signals) = 0
      /\ stream[Requester].hasFragments = FALSE
      /\ stream[Requester].fragments = <<>>
  BY DEF Init
<1>2. EmptyInv /\ EndInv
  BY <1>1 DEF EmptyInv, EndInv, Promise!Told
<1>3. Here = At(0, FALSE) /\ Here \in [count: Nat, part: BOOLEAN]
  BY <1>1 DEF Here, At
<1>4. Leads(wire[Requester], Here, At(0, FALSE), producer.emitted, All)
  BY <1>1, <1>3, LeadsNowhere
<1>5. CarryInv
  <2>1. 0 \in Nat /\ 0 <= producer.emitted /\ 0 = producer.emitted
    BY <1>1
  <2>2. \E m \in Nat : /\ Leads(wire[Requester], Here, At(m, FALSE),
                                producer.emitted, All)
                       /\ m <= producer.emitted
                       /\ Lossless => m = producer.emitted
    BY <1>4, <2>1
  <2>. QED BY <1>1, <2>2 DEF CarryInv
<1>. QED BY <1>1, <1>2, <1>5 DEF PromiseInv

\* What a signal changes in what the consumer has been told.
LEMMA TellsLast ==
    ASSUME TypedInv, NEW t \in Signal, Told(t)
    PROVE  /\ Promise!Told' <=> Promise!Told \/ t.last
           /\ Len(consumer'.signals) = Len(consumer.signals) + 1
           /\ UNCHANGED <<consumer.asked, consumer.quit>>
<1>. DEFINE s == consumer.signals
            r == consumer'.signals
<1>1. s \in Seq(Signal) /\ consumer \in Consumer
  BY DEF TypedInv, Consumer
<1>2. r = Append(s, t) /\ UNCHANGED <<consumer.asked, consumer.quit>>
  BY <1>1, ConsumerTyped DEF Told, Consumer
<1>3. /\ Len(r) = Len(s) + 1 /\ Len(s) \in Nat /\ r[Len(s) + 1] = t
      /\ \A i \in 1 .. Len(s) : r[i] = s[i]
  BY <1>1, <1>2
<1>. HIDE DEF r, s
<1>4. (\E i \in 1 .. Len(r) : r[i].last) <=> (\E i \in 1 .. Len(s) : s[i].last) \/ t.last
  <2>1. \A i \in 1 .. Len(r) : i = Len(s) + 1 \/ i \in 1 .. Len(s)
    BY <1>3
  <2>2. Len(s) + 1 \in 1 .. Len(r) /\ \A i \in 1 .. Len(s) : i \in 1 .. Len(r)
    BY <1>3
  <2>. QED BY <1>3, <2>1, <2>2
<1>. QED BY <1>2, <1>3, <1>4 DEF Promise!Told, r, s

\* No step puts anything on the wire to a closed end.
LEMMA EmptySteps ==
    ASSUME TypedInv, EmptyInv, OneFrameAtATime, Next
    PROVE  \A e \in End : ~open'[e] => wire'[e] = <<>>
<1>. /\ wire \in [End -> Seq(Frame)] /\ open \in [End -> BOOLEAN]
     /\ \A e \in End : Peer(e) \in End /\ Peer(e) # e /\ Peer(Peer(e)) = e
     /\ \A e \in End : \A d \in End : d = e \/ d = Peer(e)
  BY DEF TypedInv, Peer
<1>1. ASSUME NEW e \in End, NEW fs, UNCHANGED open,
             \/ Send(e, fs)
             \/ wire[e] # <<>> /\ TakeAndSend(e, fs)
             \/ UNCHANGED wire
      PROVE  \A d \in End : ~open'[d] => wire'[d] = <<>>
  <2>1. ASSUME ~open[Peer(e)]
        PROVE  wire[Peer(e)] = <<>> /\ wire[Peer(e)] \o Sent(e, fs) = <<>>
    <3>1. wire[Peer(e)] = <<>> /\ Sent(e, fs) = <<>>
      BY <2>1 DEF EmptyInv, Sent
    <3>2. <<>> \o <<>> = <<>>
      OBVIOUS
    <3>. QED BY <3>1, <3>2
  <2>2. ~open[e] => wire[e] = <<>>
    BY DEF EmptyInv
  <2>. QED BY <1>1, <2>1, <2>2 DEF Send, TakeAndSend
<1>2. ASSUME NEW e \in End, Disconnect(e, Chunked)
      PROVE  \A d \in End : ~open'[d] => wire'[d] = <<>>
  <2>1. /\ wire'[e] = <<>> /\ open'[Peer(e)] = open[Peer(e)]
        /\ wire'[Peer(e)] = wire[Peer(e)]
    BY <1>2, DisconnectTyped, BoundsAssumption DEF OneFrameAtATime
  <2>. QED BY <2>1 DEF EmptyInv
<1>3. CASE Answer \/ RequesterCalls \/ RequesterHandles
  BY <1>1, <1>3 DEF Answer, HandleReady, HandleReject, RequesterCalls,
     RequesterRequest, RequesterCancel, RequesterOnExtension,
     RequesterHandles, RequesterHandlesComplete, RequesterHandlesPayload,
     RequesterHandlesFragment, RequesterHandlesError,
     RequesterHandlesExtension, DropFrame, Handles, Arrives
<1>4. CASE HandlerEnds \/ ResponderCalls
  BY <1>1, <1>4 DEF HandlerEnds, HandlerReturns, HandlerThrows,
     ResponderCalls, ResponderOnNext, ResponderOnComplete, ResponderOnError,
     ResponderOnExtension
<1>5. CASE ResponderHandles
  BY <1>1, <1>5 DEF ResponderHandles, ResponderRejects,
     ResponderRefusesDemand, ResponderReceivesFirstFragment,
     ResponderReceivesRequest, ResponderReassemblesRequest, CallHandler,
     ResponderHandlesFragment, ResponderHandlesEnd, ResponderHandlesRequestN,
     ResponderHandlesExtension, ResponderRefusesFrame, StopsProducer,
     DropFrame, Handles, Arrives
<1>6. CASE RequesterCloses \/ ResponderCloses
  BY <1>2, <1>6 DEF RequesterCloses, ResponderCloses
<1>. QED BY <1>3, <1>4, <1>5, <1>6 DEF Next

\* Steps that leave the payloads under way alone.
LEMMA CarryKept ==
    ASSUME CarryInv, Done(Requester)' \/ stream'[Requester] = stream[Requester]
                       \/ (/\ ~Done(Requester)
                           /\ stream'[Requester].hasFragments
                                = stream[Requester].hasFragments
                           /\ stream'[Requester].fragments
                                = stream[Requester].fragments),
           Done(Requester)' \/ UNCHANGED consumer.signals,
           Done(Requester)' \/ wire'[Requester] = wire[Requester],
           UNCHANGED <<producer.emitted, All>>,
           Lossless' => Lossless
    PROVE  CarryInv'
<1>. SUFFICES ASSUME ~Done(Requester)' PROVE CarryInv'
  BY DEF CarryInv
<1>1. /\ ~Done(Requester)
      /\ stream'[Requester].hasFragments = stream[Requester].hasFragments
      /\ stream'[Requester].fragments = stream[Requester].fragments
      /\ UNCHANGED consumer.signals /\ wire'[Requester] = wire[Requester]
  BY DEF Done
<1>2. Here' = Here /\ All' = All
  BY <1>1 DEF Here
<1>3. PICK m \in Nat :
         /\ Leads(wire[Requester], Here, At(m, FALSE), producer.emitted, All)
         /\ m <= producer.emitted
         /\ Lossless => m = producer.emitted
  BY <1>1 DEF CarryInv
<1>4. Leads(wire'[Requester], Here', At(m, FALSE), producer'.emitted, All')
  BY <1>1, <1>2, <1>3
<1>. QED BY <1>1, <1>3, <1>4 DEF CarryInv

\* The responder sends a frame that carries no payload.
LEMMA CarryPushed ==
    ASSUME TypedInv, CarryInv, stream'[Requester] = stream[Requester],
           UNCHANGED <<consumer, open, producer.emitted, All>>,
           NEW f \in {ErrorFrame, ExtFrame},
           wire'[Requester] = wire[Requester] \o Sent(Responder, <<f>>)
    PROVE  CarryInv'
<1>. DEFINE q == wire[Requester]
<1>. q \in Seq(Frame) /\ f \in Frame /\ producer.emitted \in Nat
  BY FramesTyped DEF TypedInv, Producer
<1>. SUFFICES ASSUME ~Done(Requester)' PROVE CarryInv'
  BY DEF CarryInv
<1>1. ~Done(Requester) /\ Here' = Here /\ All' = All /\ Lossless' = Lossless
  BY DEF Done, Here, Lossless
<1>2. PICK m \in Nat : /\ Leads(q, Here, At(m, FALSE), producer.emitted, All)
                       /\ m <= producer.emitted
                       /\ Lossless => m = producer.emitted
  BY <1>1 DEF CarryInv
<1>3. Leads(wire'[Requester], Here, At(m, FALSE), producer.emitted, All)
  <2>1. CASE Lossless
    <3>1. wire'[Requester] = q \o <<f>>
      BY <2>1 DEF Sent, Lossless, Peer
    <3>2. /\ At(m, FALSE) \in [count: Nat, part: BOOLEAN]
          /\ At(m, FALSE).count <= producer.emitted /\ ~At(m, FALSE).part
      BY <1>2 DEF At
    <3>3. Carried(f, At(m, FALSE), At(m, FALSE), producer.emitted, All)
      BY <3>2 DEF Carried
    <3>4. Leads(q \o <<f>>, Here, At(m, FALSE), producer.emitted, All)
      <4>. HIDE DEF q
      <4>. QED BY <1>2, <3>2, <3>3, LeadsPushed
    <3>. QED BY <3>1, <3>4
  <2>2. CASE ~Lossless
    <3>1. wire'[Requester] = q \o <<>>
      BY <2>2 DEF Sent, Lossless, Peer
    <3>2. wire'[Requester] = q
      BY <3>1
    <3>. QED BY <1>2, <3>2
  <2>. QED BY <2>1, <2>2
<1>. QED BY <1>1, <1>2, <1>3 DEF CarryInv

\* The producer completes without a payload.
LEMMA CarryComplete ==
    ASSUME TypedInv, CarryInv, stream'[Requester] = stream[Requester],
           UNCHANGED <<consumer, open, producer.emitted>>, ~All, All',
           wire'[Requester] = wire[Requester] \o Sent(Responder, <<CompleteFrame>>)
    PROVE  CarryInv'
<1>. DEFINE q == wire[Requester]
            n == producer.emitted
            f == CompleteFrame
<1>. q \in Seq(Frame) /\ f \in Frame /\ n \in Nat
  BY FramesTyped DEF TypedInv, Producer
<1>. SUFFICES ASSUME ~Done(Requester)' PROVE CarryInv'
  BY DEF CarryInv
<1>1. /\ ~Done(Requester) /\ Here' = Here /\ All' = TRUE /\ All = FALSE
      /\ Lossless' = Lossless
  BY DEF Done, Here, Lossless, All
<1>2. PICK m \in Nat : /\ Leads(q, Here, At(m, FALSE), n, FALSE)
                       /\ m <= n /\ (Lossless => m = n)
  BY <1>1 DEF CarryInv
<1>3. Leads(q, Here, At(m, FALSE), n, TRUE)
  <2>1. n <= n
    OBVIOUS
  <2>. HIDE DEF n
  <2>. QED BY <1>2, <2>1, LeadsFurther
<1>4. Leads(wire'[Requester], Here, At(m, FALSE), n, TRUE)
  <2>1. CASE Lossless
    <3>1. wire'[Requester] = q \o <<f>>
      BY <2>1 DEF Sent, Lossless, Peer
    <3>2. /\ At(m, FALSE) \in [count: Nat, part: BOOLEAN]
          /\ At(m, FALSE).count = n /\ n <= n /\ ~At(m, FALSE).part
      BY <1>2, <2>1 DEF At
    <3>3. Carried(f, At(m, FALSE), At(m, FALSE), n, TRUE)
      BY <3>2 DEF Carried
    <3>. HIDE DEF f, n
    <3>4. Leads(q \o <<f>>, Here, At(m, FALSE), n, TRUE)
      <4>. HIDE DEF q
      <4>. QED BY <1>3, <3>2, <3>3, LeadsPushed
    <3>. QED BY <3>1, <3>4
  <2>2. CASE ~Lossless
    <3>1. wire'[Requester] = q \o <<>>
      BY <2>2 DEF Sent, Lossless, Peer
    <3>2. wire'[Requester] = q
      BY <3>1
    <3>. QED BY <1>3, <3>2
  <2>. QED BY <2>1, <2>2
<1>. QED BY <1>1, <1>2, <1>4 DEF CarryInv

\* The producer emits a payload, perhaps its last.
LEMMA CarryPayload ==
    ASSUME TypedInv, CarryInv, stream'[Requester] = stream[Requester],
           UNCHANGED <<consumer, open>>, ~All, NEW c \in BOOLEAN,
           NEW cut \in BOOLEAN, All' = c,
           producer'.emitted = producer.emitted + 1,
           wire'[Requester] = wire[Requester] \o Sent(Responder,
                                 PayloadFrames(producer.emitted + 1, c, cut))
    PROVE  CarryInv'
<1>. DEFINE q == wire[Requester]
            n == producer.emitted
            fs == PayloadFrames(n + 1, c, cut)
<1>. q \in Seq(Frame) /\ n \in Nat
  BY DEF TypedInv, Producer
<1>. SUFFICES ASSUME ~Done(Requester)' PROVE CarryInv'
  BY DEF CarryInv
<1>1. /\ ~Done(Requester) /\ Here' = Here /\ All = FALSE
      /\ Lossless' = Lossless
  BY DEF Done, Here, Lossless, All
<1>2. PICK m \in Nat : /\ Leads(q, Here, At(m, FALSE), n, FALSE)
                       /\ m <= n /\ (Lossless => m = n)
  BY <1>1 DEF CarryInv
<1>3. CASE Lossless
  <2>1. wire'[Requester] = q \o fs /\ m = n
    BY <1>2, <1>3 DEF Sent, Lossless, Peer
  <2>2. Leads(q, Here, At(n, FALSE), n, FALSE)
    BY <1>2, <2>1
  <2>3. Leads(q \o fs, Here, At(n + 1, FALSE), n + 1, c)
    <3>. HIDE DEF n
    <3>. QED BY <2>2, LeadsPayload DEF n
  <2>4. n + 1 <= n + 1 /\ n + 1 \in Nat
    OBVIOUS
  <2>. QED BY <1>1, <2>1, <2>3, <2>4 DEF CarryInv
<1>4. CASE ~Lossless
  <2>1. wire'[Requester] = q \o <<>>
    BY <1>4 DEF Sent, Lossless, Peer
  <2>2. wire'[Requester] = q
    <3>1. q \o <<>> = q
      OBVIOUS
    <3>. QED BY <2>1, <3>1
  <2>3. Leads(q, Here, At(m, FALSE), n + 1, c) /\ m <= n + 1
    <3>1. n + 1 \in Nat /\ n <= n + 1 /\ m <= n + 1
      BY <1>2
    <3>. HIDE DEF n
    <3>. QED BY <1>2, <3>1, LeadsFurther
  <2>. QED BY <1>1, <1>4, <2>2, <2>3 DEF CarryInv
<1>. QED BY <1>3, <1>4

\* A stream that is given a frame is not done; one that drops it is.
LEMMA LiveHandles ==
    ASSUME TypedInv, QuietInv, RegistryInv, PromiseInv
    PROVE  /\ \A type : Handles(Requester, type) => ~Done(Requester)
           /\ DropFrame(Requester) => Done(Requester)
<1>. SUFFICES ASSUME wire[Requester] # <<>>
              PROVE  stream[Requester].registered <=> ~Done(Requester)
  BY DEF Handles, Arrives, DropFrame
<1>1. open[Requester] /\ served # "none"
  BY DEF PromiseInv, EmptyInv
<1>2. phase = "ready"
  BY <1>1 DEF QuietInv
<1>. QED BY <1>1, <1>2 DEF RegistryInv, RegistryExact, Started

\* The frame at the head fits where the consumer stands, and the others go
\* on from there.
LEMMA HeadCarried ==
    ASSUME TypedInv, CarryInv, wire[Requester] # <<>>, ~Done(Requester)
    PROVE  \E t \in [count: Nat, part: BOOLEAN] :
              /\ Carried(Head(wire[Requester]), Here, t, producer.emitted, All)
              /\ \E m \in Nat : /\ Leads(Tail(wire[Requester]), t, At(m, FALSE),
                                         producer.emitted, All)
                                /\ m <= producer.emitted
                                /\ Lossless => m = producer.emitted
<1>. DEFINE q == wire[Requester]
<1>1. q \in Seq(Frame) /\ Head(q) = q[1]
  BY DEF TypedInv
<1>2. PICK m \in Nat : /\ Leads(q, Here, At(m, FALSE), producer.emitted, All)
                       /\ m <= producer.emitted
                       /\ Lossless => m = producer.emitted
  BY DEF CarryInv
<1>. HIDE DEF q
<1>3. PICK u \in [count: Nat, part: BOOLEAN] :
         /\ Carried(q[1], Here, u, producer.emitted, All)
         /\ Leads(Tail(q), u, At(m, FALSE), producer.emitted, All)
  <2>1. q # <<>>
    BY DEF q
  <2>. QED BY <1>1, <1>2, <2>1, LeadsTaken
<1>. QED BY <1>1, <1>2, <1>3 DEF q

\* A frame has been taken, and the consumer stands where it leads.
LEMMA CarryTaken ==
    ASSUME TypedInv, CarryInv, wire[Requester] # <<>>, ~Done(Requester),
           wire'[Requester] = Tail(wire[Requester]),
           UNCHANGED <<producer.emitted, All, Lossless>>,
           \A t \in [count: Nat, part: BOOLEAN] :
              Carried(Head(wire[Requester]), Here, t, producer.emitted, All)
                 => t = Here',
           stream'[Requester].fragments =
              IF stream'[Requester].hasFragments
              THEN <<Len(consumer'.signals) + 1>> ELSE <<>>
    PROVE  CarryInv'
<1>1. PICK t \in [count: Nat, part: BOOLEAN] :
         /\ Carried(Head(wire[Requester]), Here, t, producer.emitted, All)
         /\ \E m \in Nat : /\ Leads(Tail(wire[Requester]), t, At(m, FALSE),
                                    producer.emitted, All)
                           /\ m <= producer.emitted
                           /\ Lossless => m = producer.emitted
  BY HeadCarried
<1>2. t = Here'
  BY <1>1
<1>3. \E m \in Nat : /\ Leads(wire'[Requester], Here', At(m, FALSE),
                              producer'.emitted, All')
                     /\ m <= producer'.emitted
                     /\ Lossless' => m = producer'.emitted
  BY <1>1, <1>2
<1>. QED BY <1>3 DEF CarryInv

LEMMA RequesterHandlesCarry ==
    ASSUME TypedInv, QuietInv, RegistryInv, PromiseInv, RequesterHandles
    PROVE  /\ CarryInv' /\ UNCHANGED <<refused, producer, open, served>>
           /\ wire[Requester] # <<>>
           /\ \/ UNCHANGED consumer /\ (Done(Requester) => Done(Requester)')
              \/ /\ ~Done(Requester)
                 /\ \E t \in Signal : Told(t) /\ (t.last => Done(Requester)')
<1>. DEFINE q == wire[Requester]
            f == Head(q)
            b == stream[Requester].hasFragments
            n == Len(consumer.signals)
            e == producer.emitted
<1>1. /\ q # <<>> /\ UNCHANGED <<producer, open, served>>
      /\ q \in Seq(Frame) /\ f \in Frame /\ consumer \in Consumer
      /\ stream \in [End -> StreamState] /\ stream[Requester] \in StreamState
      /\ b \in BOOLEAN /\ n \in Nat /\ e \in Nat /\ All \in BOOLEAN
      /\ <<>> \in Seq(Frame) /\ Here = At(n, b)
  <2>1. q # <<>> /\ UNCHANGED <<producer, open, served>>
    BY DEF RequesterHandles, RequesterHandlesComplete,
       RequesterHandlesPayload, RequesterHandlesFragment,
       RequesterHandlesError, RequesterHandlesExtension, DropFrame, Handles,
       Arrives, local
  <2>2. consumer.signals \in Seq(Signal)
    BY DEF TypedInv, Consumer
  <2>. QED BY <2>1, <2>2, WireTyped, ShortSeqs
           DEF TypedInv, StreamState, Consumer, Producer, All, Here
<1>2. /\ TakeAndSend(Requester, <<>>) => wire'[Requester] = Tail(q)
      /\ UNCHANGED <<producer.emitted, All, Lossless>>
  BY <1>1 DEF TakeAndSend, All, Lossless
<1>3. \A type : Handles(Requester, type) => ~Done(Requester) /\ f.type = type
  BY LiveHandles DEF Handles, Arrives
<1>4. CarryInv /\ ~refused
  BY DEF PromiseInv
<1>5. ASSUME Done(Requester)' PROVE CarryInv'
  BY <1>5 DEF CarryInv
\* What the head may be.
<1>6. ASSUME ~Done(Requester), NEW t \in [count: Nat, part: BOOLEAN],
             Carried(f, Here, t, e, All)
      PROVE  Shape(f, n, b, t, e, All)
  <2>1. Carried(f, At(n, b), t, e, All)
    BY <1>1, <1>6
  <2>2. f \in Frame /\ n \in Nat /\ b \in BOOLEAN /\ e \in Nat /\ All \in BOOLEAN
    BY <1>1
  <2>. HIDE DEF q, f, b, n, e
  <2>. QED BY <2>1, <2>2, CarriedFrame
<1>7. ~Done(Requester) => \E t \in [count: Nat, part: BOOLEAN] :
                             Carried(f, Here, t, e, All)
  BY <1>1, <1>4, HeadCarried
<1>8. OnError \in Signal /\ OnComplete \in Signal
  BY SignalsTyped
<1>9. CASE RequesterHandlesComplete
  <2>1. Finish(Requester) /\ Told(OnComplete) /\ Handles(Requester, "PAYLOAD")
        /\ UNCHANGED refused
    BY <1>9 DEF RequesterHandlesComplete
  <2>2. Done(Requester)'
    BY <2>1, Effects DEF Done
  <2>. QED BY <1>1, <1>3, <1>5, <1>8, <2>1, <2>2
<1>10. CASE RequesterHandlesError
  <2>1. Abort(Requester) /\ Told(OnError) /\ Handles(Requester, "ERROR")
        /\ UNCHANGED refused
    BY <1>10 DEF RequesterHandlesError
  <2>2. Done(Requester)'
    BY <2>1, Effects DEF Done
  <2>. QED BY <1>1, <1>3, <1>5, <1>8, <2>1, <2>2
<1>11. CASE RequesterHandlesPayload
  <2>. DEFINE t == OnNext(Reassembled(Requester, f.data), f.complete)
              s == [done |-> stream[Requester].done \/ f.complete,
                    registered |-> ~f.complete,
                    hasFragments |-> FALSE, fragments |-> <<>>]
  <2>1. /\ Handles(Requester, "PAYLOAD") /\ (f.complete \/ ~f.follows)
        /\ f.complete => f.next
        /\ stream' = [stream EXCEPT ![Requester] = s]
        /\ Told(t) /\ TakeAndSend(Requester, <<>>) /\ UNCHANGED refused
    BY <1>11 DEF RequesterHandlesPayload
  <2>2. t \in Signal /\ t.last = f.complete
    <3>1. f.data \in Seq(Nat) /\ stream[Requester].fragments \in Seq(Nat)
          /\ f.complete \in BOOLEAN
      BY <1>1, FrameFields DEF StreamState
    <3>2. Reassembled(Requester, f.data) \in Seq(Nat)
      BY <3>1 DEF Reassembled
    <3>. HIDE DEF f
    <3>. QED BY <3>1, <3>2 DEF OnNext, Signal, SignalKinds
  <2>3. stream'[Requester] = s
    BY <1>1, <2>1
  <2>4. CASE f.complete
    <3>1. Done(Requester)'
      <4>1. s.done
        BY <2>4
      <4>. QED BY <2>3, <4>1 DEF Done
    <3>. QED BY <1>1, <1>3, <1>5, <2>1, <2>2, <3>1
  <2>5. CASE ~f.complete
    <3>1. /\ ~Done(Requester) /\ f.type = "PAYLOAD" /\ ~f.follows
          /\ ~stream'[Requester].hasFragments
          /\ stream'[Requester].fragments = <<>>
          /\ Len(consumer'.signals) = n + 1
      BY <1>3, <2>1, <2>2, <2>3, <2>5, TellsLast
    <3>2. ASSUME NEW u \in [count: Nat, part: BOOLEAN], Carried(f, Here, u, e, All)
          PROVE  u = Here'
      <4>1. f.next
        BY <1>6, <2>5, <3>1, <3>2 DEF Shape
      <4>2. u = At(n + 1, FALSE)
        BY <1>6, <3>1, <3>2, <4>1 DEF Shape
      <4>3. stream'[Requester].hasFragments = FALSE
        BY <2>3
      <4>. QED BY <3>1, <4>2, <4>3 DEF Here
    <3>3. CarryInv'
      BY <1>1, <1>2, <1>4, <2>1, <3>1, <3>2, CarryTaken
    <3>. QED BY <1>1, <2>1, <2>2, <2>5, <3>1, <3>3
  <2>. QED BY <2>4, <2>5
<1>12. CASE RequesterHandlesFragment
  <2>1. /\ Handles(Requester, "PAYLOAD") /\ f.follows /\ ~f.complete
        /\ AddFragment(Requester, f.data) /\ TakeAndSend(Requester, <<>>)
        /\ UNCHANGED <<refused, consumer>>
    BY <1>12 DEF RequesterHandlesFragment, local
  <2>2. /\ ~Done(Requester) /\ f.type = "PAYLOAD"
        /\ stream'[Requester].done = stream[Requester].done
        /\ stream'[Requester].hasFragments
        /\ stream'[Requester].fragments = stream[Requester].fragments \o f.data
    BY <1>3, <2>1, Effects
  <2>3. ~b /\ f.data = <<n + 1>>
    BY <1>6, <1>7, <2>1, <2>2 DEF Shape
  <2>4. stream'[Requester].fragments = <<n + 1>>
    <3>1. stream[Requester].fragments = <<>>
      BY <1>4, <2>2, <2>3 DEF CarryInv
    <3>2. <<>> \o <<n + 1>> = <<n + 1>>
      BY <1>1
    <3>. QED BY <2>2, <2>3, <3>1, <3>2
  <2>5. ASSUME NEW u \in [count: Nat, part: BOOLEAN], Carried(f, Here, u, e, All)
        PROVE  u = Here'
    <3>1. u = At(n, TRUE)
      BY <1>6, <2>1, <2>2, <2>5 DEF Shape
    <3>2. stream'[Requester].hasFragments = TRUE
      <4>1. TypedInv'
        BY RequesterHandlesTyped
      <4>. QED BY <2>2, <4>1 DEF TypedInv, StreamState
    <3>. QED BY <2>1, <3>1, <3>2 DEF Here
  <2>6. CarryInv'
    BY <1>1, <1>2, <1>4, <2>1, <2>2, <2>4, <2>5, CarryTaken
  <2>. QED BY <1>1, <2>1, <2>2, <2>6 DEF Done
<1>13. CASE RequesterHandlesExtension
  <2>1. Handles(Requester, "EXT") /\ ~Done(Requester) /\ f.type = "EXT"
    BY <1>3, <1>13 DEF RequesterHandlesExtension
  <2>2. ~b
    BY <1>6, <1>7, <2>1 DEF Shape
  <2>3. TakeAndSend(Requester, <<>>) /\ UNCHANGED <<stream, consumer, refused>>
    BY <1>13, <2>2 DEF RequesterHandlesExtension
  <2>4. ASSUME NEW u \in [count: Nat, part: BOOLEAN], Carried(f, Here, u, e, All)
        PROVE  u = Here'
    <3>1. u = At(n, FALSE) /\ b = FALSE
      BY <1>1, <1>6, <2>1, <2>2, <2>4 DEF Shape
    <3>. QED BY <2>3, <3>1 DEF Here
  <2>5. CarryInv'
    BY <1>1, <1>2, <1>4, <2>1, <2>3, <2>4, CarryTaken DEF CarryInv
  <2>. QED BY <1>1, <2>1, <2>3, <2>5 DEF Done
<1>14. CASE DropFrame(Requester)
  <2>1. UNCHANGED <<stream, consumer, refused>> /\ Done(Requester)
    BY <1>14, LiveHandles DEF DropFrame, local
  <2>. QED BY <1>1, <1>5, <2>1 DEF Done
<1>. QED BY <1>9, <1>10, <1>11, <1>12, <1>13, <1>14 DEF RequesterHandles

\* The requester's other steps.
LEMMA RequesterCarry ==
    ASSUME TypedInv, QuietInv, RegistryInv, PromiseInv, OneFrameAtATime,
           Answer \/ RequesterCalls \/ RequesterCloses
    PROVE  /\ CarryInv' /\ UNCHANGED <<refused, producer, served>>
           /\ served = "none" => wire'[Requester] = wire[Requester]
           /\ \/ UNCHANGED consumer.signals /\ (Done(Requester) => Done(Requester)')
              \/ /\ ~Done(Requester)
                 /\ \E t \in Signal : Told(t) /\ (t.last => Done(Requester)')
           /\ stream'[Responder] = stream[Responder]
<1>1. /\ wire \in [End -> Seq(Frame)] /\ stream \in [End -> StreamState]
      /\ consumer \in Consumer /\ Peer(Requester) = Responder
      /\ stream[Requester] \in StreamState /\ OnError \in Signal
  BY SignalsTyped DEF TypedInv, Peer
<1>2. \A fs : Send(Requester, fs) => wire'[Requester] = wire[Requester]
  BY <1>1 DEF Send
<1>3. ASSUME Done(Requester)' PROVE CarryInv'
  BY <1>3 DEF CarryInv
<1>4. CarryInv
  BY DEF PromiseInv
<1>5. UNCHANGED <<producer, open>> => UNCHANGED <<producer.emitted, All, Lossless>>
  BY DEF All, Lossless
<1>6. CASE HandleReject
  <2>1. /\ stream' = [stream EXCEPT ![Requester].done = TRUE] /\ Told(OnError)
        /\ UNCHANGED <<refused, producer, served, wire>> /\ phase = "pending"
    BY <1>6 DEF HandleReject
  <2>2. Done(Requester)' /\ stream'[Responder] = stream[Responder]
    BY <1>1, <2>1, Effects DEF Done
  <2>3. ~Done(Requester)
    BY <2>1 DEF RegistryInv
  <2>. QED BY <1>1, <1>3, <2>1, <2>2, <2>3
<1>7. CASE \E cut \in BOOLEAN : HandleReady(cut)
  <2>1. PICK cut \in BOOLEAN : HandleReady(cut)
    BY <1>7
  <2>2. /\ stream' = [stream EXCEPT ![Requester].registered = TRUE]
        /\ UNCHANGED <<refused, producer, served, consumer, open>>
        /\ wire'[Requester] = wire[Requester] /\ phase = "pending"
    BY <1>2, <2>1 DEF HandleReady
  <2>3. /\ stream'[Requester].done = stream[Requester].done
        /\ stream'[Requester].hasFragments = stream[Requester].hasFragments
        /\ stream'[Requester].fragments = stream[Requester].fragments
        /\ stream'[Responder] = stream[Responder]
    BY <1>1, <2>2, Effects
  <2>4. ~Done(Requester)
    BY <2>2 DEF RegistryInv
  <2>5. CarryInv'
    BY <1>4, <1>5, <2>2, <2>3, <2>4, CarryKept
  <2>. QED BY <2>2, <2>3, <2>5 DEF Done
<1>8. CASE (\E n \in Demands : RequesterRequest(n)) \/ RequesterOnExtension
  <2>1. /\ UNCHANGED <<refused, producer, served, open, stream, consumer.signals>>
        /\ wire'[Requester] = wire[Requester]
    BY <1>1, <1>2, <1>8 DEF RequesterRequest, RequesterOnExtension, Consumer
  <2>2. CarryInv'
    BY <1>4, <1>5, <2>1, CarryKept
  <2>. QED BY <2>1, <2>2 DEF Done
<1>9. CASE RequesterCancel
  <2>1. /\ UNCHANGED <<refused, producer, served, consumer.signals>>
        /\ wire'[Requester] = wire[Requester]
        /\ \/ stream' = [stream EXCEPT ![Requester].done = TRUE]
           \/ Abort(Requester)
    BY <1>1, <1>2, <1>9 DEF RequesterCancel, Consumer
  <2>2. Done(Requester)' /\ stream'[Responder] = stream[Responder]
    BY <1>1, <2>1, Effects DEF Done
  <2>. QED BY <1>3, <2>1, <2>2
<1>10. CASE RequesterCloses
  <2>1. Disconnect(Requester, Chunked) /\ UNCHANGED <<refused, producer, served>>
    BY <1>10 DEF RequesterCloses
  <2>2. wire'[Requester] = <<>> /\ ~Lossless'
    BY <2>1, DisconnectTyped, BoundsAssumption
       DEF OneFrameAtATime, Lossless, TypedInv
  <2>3. served = "none" => wire'[Requester] = wire[Requester]
    BY <2>2 DEF PromiseInv, EmptyInv
  <2>4. CASE stream[Requester].registered /\ ~Done(Requester)
    <3>. DEFINE s == [stream[Requester] EXCEPT !.done = TRUE,
                              !.hasFragments = FALSE, !.fragments = <<>>]
    <3>1. stream' = [stream EXCEPT ![Requester] = s] /\ Told(OnError)
      BY <1>10, <2>4 DEF RequesterCloses
    <3>2. s.done
      BY <1>1 DEF StreamState
    <3>. HIDE DEF s
    <3>3. Done(Requester)' /\ stream'[Responder] = stream[Responder]
      BY <1>1, <3>1, <3>2 DEF Done
    <3>. QED BY <1>1, <1>3, <2>1, <2>3, <2>4, <3>1, <3>3
  <2>5. CASE ~(stream[Requester].registered /\ ~Done(Requester))
    <3>1. UNCHANGED <<stream, consumer>>
      BY <1>10, <2>5 DEF RequesterCloses
    <3>2. ~Done(Requester) => wire'[Requester] = wire[Requester]
      <4>1. SUFFICES ASSUME ~stream[Requester].registered, ~Done(Requester)
                     PROVE  served = "none"
        BY <2>3, <2>5
      <4>2. open[Requester]
        BY <2>1 DEF Disconnect
      <4>. QED BY <4>1, <4>2 DEF RegistryInv, RegistryExact, Started, QuietInv
    <3>3. CarryInv'
      BY <1>4, <2>1, <2>2, <3>1, <3>2, CarryKept DEF Done, All
    <3>. QED BY <2>1, <2>3, <3>1, <3>3 DEF Done
  <2>. QED BY <2>4, <2>5
<1>. QED BY <1>6, <1>7, <1>8, <1>9, <1>10 DEF Answer, RequesterCalls

\* The responder's steps: what they add to the frames for the consumer.
LEMMA ResponderCarry ==
    ASSUME TypedInv, QuietInv, RegistryInv, RequestInv, PromiseInv,
           \/ HandlerEnds \/ ResponderCalls \/ ResponderHandles
           \/ ResponderCloses
    PROVE  /\ CarryInv' /\ ~refused'
           /\ served' = "none" => wire'[Requester] = wire[Requester]
                                  /\ served = "none"
           /\ producer'.ended # "no" => Done(Responder)'
           /\ UNCHANGED consumer /\ stream'[Requester] = stream[Requester]
<1>1. /\ wire \in [End -> Seq(Frame)] /\ stream \in [End -> StreamState]
      /\ producer \in Producer /\ Peer(Responder) = Requester
      /\ stream[Responder] \in StreamState /\ open \in [End -> BOOLEAN]
      /\ ErrorFrame \in {ErrorFrame, ExtFrame}
      /\ ExtFrame \in {ErrorFrame, ExtFrame}
  BY DEF TypedInv, Peer
<1>2. \A fs : \/ Send(Responder, fs)
              \/ wire[Responder] # <<>> /\ TakeAndSend(Responder, fs)
         => wire'[Requester] = wire[Requester] \o Sent(Responder, fs)
  BY <1>1 DEF Send, TakeAndSend
<1>3. ASSUME \/ Send(Responder, <<>>)
             \/ wire[Responder] # <<>> /\ TakeAndSend(Responder, <<>>)
      PROVE  wire'[Requester] = wire[Requester]
  <2>1. Sent(Responder, <<>>) = <<>> /\ wire[Requester] \o <<>> = wire[Requester]
    BY <1>1 DEF Sent
  <2>. QED BY <1>2, <1>3, <2>1
<1>4. CarryInv /\ ~refused /\ (producer.ended # "no" => Done(Responder))
  BY DEF PromiseInv, EndInv
\* Steps that send nothing to the consumer, and steps that send it a frame
\* without a payload.
<1>5. ASSUME UNCHANGED <<consumer, producer.emitted, producer.ended>>,
             stream'[Requester] = stream[Requester],
             \/ wire'[Requester] = wire[Requester] /\ (Lossless' => Lossless)
             \/ /\ \E f \in {ErrorFrame, ExtFrame} :
                      wire'[Requester] = wire[Requester] \o Sent(Responder, <<f>>)
                /\ UNCHANGED open
      PROVE  CarryInv'
  <2>1. UNCHANGED <<producer.emitted, All, consumer.signals>>
    BY <1>5 DEF All
  <2>. QED BY <1>4, <1>5, <2>1, CarryKept, CarryPushed
<1>6. CASE HandlerReturns
  <2>1. /\ UNCHANGED <<consumer, producer, open, stream, wire, refused>>
        /\ served' = "active"
    BY <1>6 DEF HandlerReturns
  <2>. QED BY <1>4, <1>5, <2>1 DEF Done, Lossless
<1>7. CASE HandlerThrows
  <2>1. /\ UNCHANGED <<consumer, producer, open, refused>> /\ served' = "threw"
        /\ \/ UNCHANGED <<stream, wire>>
           \/ Finish(Responder) /\ Send(Responder, <<ErrorFrame>>)
    BY <1>7 DEF HandlerThrows
  <2>2. /\ stream'[Requester] = stream[Requester]
        /\ stream[Responder].done => stream'[Responder].done
    BY <1>1, <2>1, Effects
  <2>3. CarryInv'
    BY <1>1, <1>2, <1>5, <2>1, <2>2 DEF Lossless
  <2>. QED BY <1>4, <2>1, <2>2, <2>3 DEF Done
<1>8. CASE \E c \in BOOLEAN, cut \in BOOLEAN : ResponderOnNext(c, cut)
  <2>1. PICK c \in BOOLEAN, cut \in BOOLEAN : ResponderOnNext(c, cut)
    BY <1>8
  <2>. DEFINE fs == PayloadFrames(producer.emitted + 1, c, cut)
  <2>2. /\ UNCHANGED <<consumer, open, refused, served>> /\ HasStream
        /\ ~Done(Responder)
        /\ IF c THEN Finish(Responder) ELSE UNCHANGED stream
        /\ Send(Responder, fs)
        /\ producer' = [producer EXCEPT !.emitted = @ + 1,
                            !.ended = IF c THEN "complete" ELSE @]
    BY <2>1 DEF ResponderOnNext
  <2>3. /\ producer'.emitted = producer.emitted + 1 /\ producer.ended = "no"
        /\ producer'.ended = IF c THEN "complete" ELSE "no"
    BY <1>1, <1>4, <2>2 DEF Producer
  <2>4. ~All /\ (All' <=> c) /\ All' \in BOOLEAN
    BY <2>3 DEF All
  <2>5. /\ stream'[Requester] = stream[Requester]
        /\ c => stream'[Responder].done
    BY <1>1, <2>2, Effects
  <2>6. wire'[Requester] = wire[Requester] \o Sent(Responder, fs)
    BY <1>2, <2>2
  <2>7. All' = c
    BY <2>4
  <2>8. CarryInv'
    BY <1>4, <2>2, <2>3, <2>4, <2>5, <2>6, <2>7, CarryPayload
  <2>. QED BY <1>4, <2>2, <2>3, <2>5, <2>8 DEF HasStream, Done
<1>9. CASE ResponderOnComplete
  <2>1. /\ UNCHANGED <<consumer, open, refused, served>> /\ HasStream
        /\ ~Done(Responder) /\ Finish(Responder)
        /\ Send(Responder, <<CompleteFrame>>)
        /\ producer' = [producer EXCEPT !.ended = "complete"]
    BY <1>9 DEF ResponderOnComplete
  <2>2. ~All /\ All' /\ producer'.emitted = producer.emitted
    BY <1>1, <1>4, <2>1 DEF All, Producer
  <2>3. stream'[Requester] = stream[Requester] /\ stream'[Responder].done
    BY <1>1, <2>1, Effects
  <2>4. wire'[Requester] = wire[Requester] \o Sent(Responder, <<CompleteFrame>>)
    BY <1>2, <2>1
  <2>5. CarryInv'
    BY <1>4, <2>1, <2>2, <2>3, <2>4, CarryComplete
  <2>. QED BY <1>4, <2>1, <2>3, <2>5 DEF HasStream, Done
<1>10. CASE ResponderOnError
  <2>1. /\ UNCHANGED <<consumer, open, refused, served>> /\ HasStream
        /\ ~Done(Responder) /\ Finish(Responder)
        /\ Send(Responder, <<ErrorFrame>>)
        /\ producer' = [producer EXCEPT !.ended = "error"]
    BY <1>10 DEF ResponderOnError
  <2>2. UNCHANGED <<All, producer.emitted>>
    BY <1>1, <1>4, <2>1 DEF All, Producer
  <2>3. stream'[Requester] = stream[Requester] /\ stream'[Responder].done
    BY <1>1, <2>1, Effects
  <2>4. wire'[Requester] = wire[Requester] \o Sent(Responder, <<ErrorFrame>>)
    BY <1>2, <2>1
  <2>5. CarryInv'
    BY <1>1, <1>4, <2>1, <2>2, <2>3, <2>4, CarryPushed
  <2>. QED BY <1>4, <2>1, <2>3, <2>5 DEF HasStream, Done
<1>11. CASE ResponderOnExtension
  <2>1. /\ UNCHANGED <<consumer, producer, open, refused, served, stream>>
        /\ HasStream /\ Send(Responder, <<ExtFrame>>)
    BY <1>11 DEF ResponderOnExtension
  <2>2. wire'[Requester] = wire[Requester] \o Sent(Responder, <<ExtFrame>>)
    BY <1>2, <2>1
  <2>3. CarryInv'
    BY <1>1, <1>5, <2>1, <2>2
  <2>. QED BY <1>4, <2>1, <2>3 DEF HasStream, Done
<1>12. CASE ResponderRejects \/ ResponderRefusesDemand
  <2>1. /\ UNCHANGED <<consumer, producer, open, refused>> /\ served' = "refused"
        /\ wire[Responder] # <<>> /\ TakeAndSend(Responder, <<ErrorFrame>>)
        /\ \/ UNCHANGED stream
           \/ stream' = [stream EXCEPT ![Responder].done = TRUE]
    BY <1>12 DEF ResponderRejects, ResponderRefusesDemand, Arrives
  <2>2. /\ stream'[Requester] = stream[Requester]
        /\ stream[Responder].done => stream'[Responder].done
    BY <1>1, <2>1, Effects
  <2>3. wire'[Requester] = wire[Requester] \o Sent(Responder, <<ErrorFrame>>)
    BY <1>2, <2>1
  <2>4. CarryInv'
    BY <1>1, <1>5, <2>1, <2>2, <2>3
  <2>. QED BY <1>4, <2>1, <2>2, <2>4 DEF Done
<1>13. CASE \/ ResponderReceivesFirstFragment \/ ResponderReceivesRequest
            \/ ResponderReassemblesRequest
  <2>1. /\ UNCHANGED <<consumer, open, refused, producer.emitted, producer.ended>>
        /\ served' # "none"
        /\ wire[Responder] # <<>> /\ TakeAndSend(Responder, <<>>)
    BY <1>1, <1>13 DEF ResponderReceivesFirstFragment, ResponderReceivesRequest,
       ResponderReassemblesRequest, CallHandler, Handles, Arrives, Producer
  <2>2. /\ stream'[Requester] = stream[Requester]
        /\ stream'[Responder].done = stream[Responder].done
    BY <1>1, <1>13, Effects, SMTT(60) DEF ResponderReceivesFirstFragment,
       ResponderReceivesRequest, ResponderReassemblesRequest, StreamState
  <2>3. CarryInv'
    BY <1>3, <1>5, <2>1, <2>2 DEF Lossless
  <2>. QED BY <1>4, <2>1, <2>2, <2>3 DEF Done
<1>14. CASE \/ ResponderHandlesFragment \/ ResponderHandlesRequestN
            \/ ResponderHandlesExtension \/ DropFrame(Responder)
  <2>1. /\ UNCHANGED <<consumer, open, refused, producer.emitted,
                       producer.ended, served>>
        /\ wire[Responder] # <<>> /\ TakeAndSend(Responder, <<>>)
    BY <1>1, <1>14 DEF ResponderHandlesFragment, ResponderHandlesRequestN,
       ResponderHandlesExtension, DropFrame, local, Handles, Arrives, Producer
  <2>2. /\ stream'[Requester] = stream[Requester]
        /\ stream'[Responder].done = stream[Responder].done
    BY <1>1, <1>14, Effects DEF ResponderHandlesFragment,
       ResponderHandlesRequestN, ResponderHandlesExtension, DropFrame
  <2>3. CarryInv' /\ wire'[Requester] = wire[Requester]
    BY <1>3, <1>5, <2>1, <2>2 DEF Lossless
  <2>. QED BY <1>4, <2>1, <2>2, <2>3 DEF Done
<1>15. CASE ResponderHandlesEnd \/ ResponderRefusesFrame
  <2>1. /\ UNCHANGED <<consumer, open, producer.emitted, producer.ended, served>>
        /\ wire[Responder] # <<>> /\ Abort(Responder)
        /\ stream[Responder].registered
        /\ \/ TakeAndSend(Responder, <<>>)
           \/ TakeAndSend(Responder, <<ErrorFrame>>)
    BY <1>1, <1>15 DEF ResponderHandlesEnd, ResponderRefusesFrame,
       StopsProducer, Cancelled, Handles, Arrives, Producer
  <2>2. stream'[Requester] = stream[Requester] /\ stream'[Responder].done
    BY <1>1, <2>1, Effects
  <2>3. \/ wire'[Requester] = wire[Requester]
        \/ wire'[Requester] = wire[Requester] \o Sent(Responder, <<ErrorFrame>>)
    BY <1>2, <1>3, <2>1
  <2>4. CarryInv'
    BY <1>1, <1>5, <2>1, <2>2, <2>3 DEF Lossless
  <2>5. served # "none"
    BY <2>1 DEF RegistryInv
  <2>6. ~refused'
    <3>1. CASE ResponderHandlesEnd
      BY <1>4, <3>1 DEF ResponderHandlesEnd
    <3>2. CASE ResponderRefusesFrame
      <4>. DEFINE Q == wire[Responder]
                  f == Head(Q)
      <4>1. served \in {"reassembling", "active"}
        BY <2>1, <2>5, <3>2 DEF RegistryInv, ResponderRefusesFrame, Handles,
           Arrives, TypedInv, Services, Done
      <4>2. open[Responder] /\ phase = "ready"
        BY <2>1 DEF PromiseInv, EmptyInv, QuietInv
      <4>3. PICK k \in 0 .. Len(Q) :
               /\ RequestThen(Q, FALSE, k)
               /\ served = "reassembling" => k > 0
               /\ served = "active" => k = 0
        BY <4>1, <4>2 DEF RequestInv, RequestLeft
      <4>4. /\ served = "reassembling" => f.type = "PAYLOAD"
            /\ served = "active" => f.type \in {"CANCEL", "REQUEST_N", "EXT"}
        <5>1. /\ 1 \in 1 .. Len(Q) /\ f = Q[1] /\ k \in Nat
              /\ (k > 0 => 1 <= k) /\ (k = 0 => ~(1 <= k))
          BY <1>1, <2>1, <4>3
        <5>. QED BY <4>3, <5>1 DEF RequestThen
      <4>5. f.type = "REQUEST_N" /\ f.requestN < 1
        BY <3>2, <4>1, <4>4 DEF ResponderRefusesFrame, Handles, Arrives,
           HasReceiver
      <4>. QED BY <1>4, <3>2, <4>5 DEF ResponderRefusesFrame
    <3>. QED BY <1>15, <3>1, <3>2
  <2>. QED BY <2>1, <2>2, <2>4, <2>5, <2>6 DEF Done
<1>16. CASE ResponderCloses
  <2>1. /\ Disconnect(Responder, Chunked)
        /\ UNCHANGED <<consumer, refused, served, producer.emitted, producer.ended>>
    BY <1>1, <1>16 DEF ResponderCloses, Cancelled, Producer
  <2>2. wire'[Requester] = wire[Requester] /\ (Lossless' => Lossless)
    BY <1>1, <2>1, DisconnectTyped, BoundsAssumption DEF Lossless
  <2>3. /\ stream'[Requester] = stream[Requester]
        /\ stream'[Responder].done = stream[Responder].done
    BY <1>1, <1>16 DEF ResponderCloses, StreamState
  <2>4. CarryInv'
    BY <1>5, <2>1, <2>2, <2>3
  <2>. QED BY <1>4, <2>1, <2>2, <2>3, <2>4 DEF Done
<1>. QED BY <1>6, <1>7, <1>8, <1>9, <1>10, <1>11, <1>12, <1>13, <1>14, <1>15,
            <1>16 DEF HandlerEnds, ResponderCalls, ResponderHandles

LEMMA PromiseSteps ==
    ASSUME TypedInv, QuietInv, RegistryInv, RequestInv, PromiseInv,
           OneFrameAtATime, Next
    PROVE  PromiseInv'
<1>1. \A e \in End : ~open'[e] => wire'[e] = <<>>
  BY EmptySteps DEF PromiseInv
<1>2. EndInv /\ EmptyInv /\ ~refused
  BY DEF PromiseInv
<1>3. ASSUME \/ UNCHANGED consumer.signals /\ (Done(Requester) => Done(Requester)')
             \/ /\ ~Done(Requester)
                /\ \E t \in Signal : Told(t) /\ (t.last => Done(Requester)')
      PROVE  Promise!Told' => Done(Requester)'
  <2>1. CASE UNCHANGED consumer.signals /\ (Done(Requester) => Done(Requester)')
    BY <1>2, <2>1 DEF EndInv, Promise!Told
  <2>2. CASE /\ ~Done(Requester)
             /\ \E t \in Signal : Told(t) /\ (t.last => Done(Requester)')
    BY <1>2, <2>2, TellsLast DEF EndInv
  <2>. QED BY <1>3, <2>1, <2>2
<1>4. CASE Answer \/ RequesterCalls \/ RequesterCloses
  <2>1. EmptyInv'
    BY <1>1, <1>2, <1>4, RequesterCarry DEF EmptyInv
  <2>2. EndInv'
    BY <1>2, <1>3, <1>4, RequesterCarry DEF EndInv, Done
  <2>. QED BY <1>2, <1>4, <2>1, <2>2, RequesterCarry DEF PromiseInv
<1>5. CASE RequesterHandles
  <2>1. EmptyInv'
    BY <1>1, <1>2, <1>5, RequesterHandlesCarry DEF EmptyInv
  <2>2. stream'[Responder] = stream[Responder]
    BY <1>5, RequesterTelling
  <2>3. UNCHANGED consumer => UNCHANGED consumer.signals
    OBVIOUS
  <2>4. EndInv'
    BY <1>2, <1>3, <1>5, <2>2, <2>3, RequesterHandlesCarry DEF EndInv, Done
  <2>. QED BY <1>2, <1>5, <2>1, <2>4, RequesterHandlesCarry DEF PromiseInv
<1>6. CASE \/ HandlerEnds \/ ResponderCalls \/ ResponderHandles
           \/ ResponderCloses
  <2>1. /\ CarryInv' /\ ~refused'
        /\ served' = "none" => wire'[Requester] = wire[Requester]
                               /\ served = "none"
        /\ producer'.ended # "no" => Done(Responder)'
        /\ UNCHANGED consumer /\ stream'[Requester] = stream[Requester]
    BY <1>6, ResponderCarry
  <2>2. EmptyInv'
    BY <1>1, <1>2, <2>1 DEF EmptyInv
  <2>3. UNCHANGED consumer => UNCHANGED consumer.signals
    OBVIOUS
  <2>4. EndInv'
    BY <1>2, <1>3, <2>1, <2>3 DEF EndInv, Done
  <2>. QED BY <2>1, <2>2, <2>4 DEF PromiseInv
<1>. QED BY <1>4, <1>5, <1>6 DEF Next

LEMMA PromiseAlways ==
    ASSUME OneFrameAtATime
    PROVE  Spec => []PromiseInv
<1>1. PromiseInv /\ UNCHANGED vars => PromiseInv'
  <2>. SUFFICES ASSUME PromiseInv, UNCHANGED vars PROVE PromiseInv'
    OBVIOUS
  <2>1. UNCHANGED <<served, stream, wire, open, producer, consumer, refused>>
    BY DEF vars, local
  <2>2. /\ Here' = Here /\ All' = All /\ Lossless' = Lossless
        /\ Promise!Told' = Promise!Told
        /\ Done(Requester)' = Done(Requester)
        /\ Done(Responder)' = Done(Responder)
    BY <2>1 DEF Here, All, Lossless, Promise!Told, Done
  <2>3. CarryInv'
    <3>1. CarryInv /\ UNCHANGED <<stream, wire, producer, consumer>>
      BY <2>1 DEF PromiseInv
    <3>. QED BY <2>2, <3>1 DEF CarryInv
  <2>. QED BY <2>1, <2>2, <2>3 DEF PromiseInv, EndInv, EmptyInv
<1>2. TypedInv /\ QuietInv /\ RegistryInv /\ RequestInv /\ PromiseInv
        /\ [Next]_vars => PromiseInv'
  BY <1>1, PromiseSteps
<1>. QED BY <1>2, InitPromise, TypedAlways, QuietAlways, RegistryAlways,
            RequestAlways, PTL DEF Spec

(***************************************************************************)
(* Between two ends that run this code, no frame but an invalid demand is  *)
(* taken for a protocol violation: the request's fragments come before     *)
(* anything else, an extension never comes between two fragments, and a    *)
(* frame that overtakes the end of the stream finds no stream.             *)
(***************************************************************************)
THEOREM NoViolations ==
    ASSUME OneFrameAtATime
    PROVE  Spec => []NoProtocolErrors
<1>1. PromiseInv => NoProtocolErrors
  BY DEF PromiseInv, NoProtocolErrors
<1>. QED BY <1>1, PromiseAlways, PTL

-----------------------------------------------------------------------------
(* The stream implements Subscription.                                     *)

LEMMA TellsOne ==
    ASSUME TypedInv, PromiseInv, ~Done(Requester), NEW t, Told(t)
    PROVE  /\ ~Promise!Told
           /\ consumer'.signals = Append(consumer.signals, t)
<1>1. consumer \in Consumer
  BY DEF TypedInv
<1>. QED BY <1>1 DEF Told, PromiseInv, EndInv, Consumer

\* Steps of the responder.
LEMMA ProducerSteps ==
    ASSUME TypedInv, PromiseInv,
           HandlerEnds \/ ResponderCalls \/ ResponderHandles \/ ResponderCloses
    PROVE  Promise!Next \/ UNCHANGED Promise!promise
<1>1. producer \in Producer /\ (producer.ended # "no" => Done(Responder))
  BY DEF TypedInv, PromiseInv, EndInv
<1>2. ASSUME NEW c \in BOOLEAN, NEW cut \in BOOLEAN, ResponderOnNext(c, cut)
      PROVE  Promise!Emit
  <2>1. /\ producer.ended = "no" /\ UNCHANGED consumer
        /\ producer'.emitted = producer.emitted + 1
        /\ producer'.ended = IF c THEN "complete" ELSE "no"
    BY <1>1, <1>2 DEF ResponderOnNext, Producer
  <2>. QED BY <2>1 DEF Promise!Emit
<1>3. ASSUME ResponderOnComplete \/ ResponderOnError
      PROVE  Promise!Stop
  <2>1. /\ producer.ended = "no" /\ UNCHANGED consumer
        /\ producer'.emitted = producer.emitted
        /\ producer'.ended \in {"complete", "error"}
    BY <1>1, <1>3 DEF ResponderOnComplete, ResponderOnError, Producer
  <2>. QED BY <2>1 DEF Promise!Stop
<1>4. ASSUME \/ HandlerEnds \/ ResponderOnExtension \/ ResponderHandles
             \/ ResponderCloses
      PROVE  UNCHANGED <<producer.emitted, producer.ended, consumer.signals>>
  BY <1>1, <1>4 DEF HandlerEnds, HandlerReturns, HandlerThrows,
     ResponderOnExtension, ResponderHandles, ResponderRejects,
     ResponderRefusesDemand, ResponderReceivesFirstFragment,
     ResponderReceivesRequest, ResponderReassemblesRequest, CallHandler,
     ResponderHandlesFragment, ResponderHandlesEnd, ResponderHandlesRequestN,
     ResponderHandlesExtension, ResponderRefusesFrame, StopsProducer,
     Cancelled, DropFrame, ResponderCloses, local, Producer
<1>. QED BY <1>2, <1>3, <1>4 DEF ResponderCalls, Promise!Next, Promise!promise

\* Steps of the requester.
LEMMA ConsumerSteps ==
    ASSUME TypedInv, QuietInv, RegistryInv, PromiseInv,
           Answer \/ RequesterCalls \/ RequesterHandles \/ RequesterCloses
    PROVE  Promise!Next \/ UNCHANGED Promise!promise
<1>1. consumer \in Consumer /\ CarryInv
  BY DEF TypedInv, PromiseInv
<1>2. UNCHANGED producer
  BY DEF Answer, HandleReady, HandleReject, RequesterCalls, RequesterRequest,
     RequesterCancel, RequesterOnExtension, RequesterHandles,
     RequesterHandlesComplete, RequesterHandlesPayload,
     RequesterHandlesFragment, RequesterHandlesError,
     RequesterHandlesExtension, DropFrame, RequesterCloses, local
<1>3. ASSUME UNCHANGED consumer.signals
      PROVE  UNCHANGED Promise!promise
  BY <1>2, <1>3 DEF Promise!promise
<1>4. ASSUME ~Done(Requester), Told(OnError)
      PROVE  Promise!Finish
  BY <1>2, <1>4, TellsOne DEF Promise!Finish, Promise!OnError, OnError
<1>5. CASE HandleReject
  <2>1. ~Done(Requester) /\ Told(OnError)
    BY <1>5 DEF HandleReject, RegistryInv
  <2>. QED BY <1>4, <2>1 DEF Promise!Next
<1>6. CASE RequesterHandlesError
  <2>1. ~Done(Requester) /\ Told(OnError)
    BY <1>6, LiveHandles DEF RequesterHandlesError
  <2>. QED BY <1>4, <2>1 DEF Promise!Next
<1>7. CASE RequesterHandlesExtension \/ RequesterCloses
  <2>1. UNCHANGED consumer \/ (~Done(Requester) /\ Told(OnError))
    BY <1>7 DEF RequesterHandlesExtension, RequesterCloses
  <2>2. UNCHANGED consumer => UNCHANGED consumer.signals
    OBVIOUS
  <2>. QED BY <1>3, <1>4, <2>1, <2>2 DEF Promise!Next
<1>8. CASE \/ (\E cut \in BOOLEAN : HandleReady(cut)) \/ RequesterCalls
           \/ RequesterHandlesFragment \/ DropFrame(Requester)
  <2>1. UNCHANGED consumer.signals
    BY <1>1, <1>8 DEF HandleReady, RequesterCalls, RequesterRequest,
       RequesterCancel, RequesterOnExtension, RequesterHandlesFragment,
       DropFrame, local, Consumer
  <2>. QED BY <1>3, <2>1
\* The two handlers that tell what the producer has done.
<1>. DEFINE q == wire[Requester]
            f == Head(q)
            b == stream[Requester].hasFragments
            n == Len(consumer.signals)
            e == producer.emitted
<1>9. ASSUME Handles(Requester, "PAYLOAD")
      PROVE  /\ ~Done(Requester) /\ f.type = "PAYLOAD" /\ f \in Frame
             /\ \E t \in [count: Nat, part: BOOLEAN] : Shape(f, n, b, t, e, All)
             /\ n \in Nat /\ b \in BOOLEAN
             /\ stream[Requester].fragments = IF b THEN <<n + 1>> ELSE <<>>
  <2>1. ~Done(Requester) /\ f.type = "PAYLOAD" /\ q # <<>>
    BY <1>9, LiveHandles DEF Handles, Arrives
  <2>2. /\ f \in Frame /\ n \in Nat /\ b \in BOOLEAN /\ e \in Nat
        /\ All \in BOOLEAN
    <3>1. consumer.signals \in Seq(Signal) /\ stream[Requester] \in StreamState
          /\ producer \in Producer /\ q \in Seq(Frame)
      BY <1>1 DEF TypedInv, Consumer
    <3>. QED BY <2>1, <3>1 DEF StreamState, Producer, All
  <2>3. \E t \in [count: Nat, part: BOOLEAN] : Carried(f, At(n, b), t, e, All)
    BY <1>1, <2>1, HeadCarried DEF Here
  <2>4. stream[Requester].fragments = IF b THEN <<n + 1>> ELSE <<>>
    BY <1>1, <2>1 DEF CarryInv
  <2>5. \E t \in [count: Nat, part: BOOLEAN] : Shape(f, n, b, t, e, All)
    <3>. HIDE DEF q, f, n, b, e
    <3>. QED BY <2>2, <2>3, CarriedFrame
  <2>. QED BY <2>1, <2>2, <2>4, <2>5
<1>10. CASE RequesterHandlesComplete
  <2>1. /\ Handles(Requester, "PAYLOAD") /\ f.complete /\ ~f.next
        /\ Told(OnComplete)
    BY <1>10 DEF RequesterHandlesComplete
  <2>2. n = e /\ All
    BY <1>9, <2>1 DEF Shape
  <2>3. ~Promise!Told /\ consumer'.signals = Append(consumer.signals, OnComplete)
    BY <1>9, <2>1, TellsOne
  <2>4. Promise!Finish
    BY <1>2, <2>2, <2>3 DEF Promise!Finish, Promise!Everything,
       Promise!Delivered, All, Promise!OnComplete, OnComplete
  <2>. QED BY <2>4 DEF Promise!Next
<1>11. CASE RequesterHandlesPayload
  <2>. DEFINE t == OnNext(Reassembled(Requester, f.data), f.complete)
  <2>1. /\ Handles(Requester, "PAYLOAD") /\ (f.complete \/ ~f.follows)
        /\ (f.complete => f.next) /\ Told(t)
    BY <1>11 DEF RequesterHandlesPayload
  <2>2. /\ n + 1 <= e /\ f.data = IF b THEN <<n + 1>> ELSE Content(n + 1)
        /\ f.complete => All /\ n + 1 = e
    BY <1>9, <2>1 DEF Shape
  <2>3. Reassembled(Requester, f.data) = Content(n + 1)
    <3>1. CASE b
      <4>1. n + 1 \in Nat
        BY <1>9, <2>1
      <4>2. <<n + 1>> \o <<n + 1>> = <<n + 1, n + 1>>
        BY <4>1, Joined
      <4>. QED BY <1>9, <2>1, <2>2, <3>1, <4>2 DEF Reassembled, Content
    <3>2. CASE ~b
      BY <2>2, <3>2 DEF Reassembled
    <3>. QED BY <3>1, <3>2
  <2>4. /\ ~Promise!Told /\ consumer'.signals = Append(consumer.signals, t)
        /\ t = OnNext(Content(n + 1), f.complete) /\ f.complete \in BOOLEAN
    BY <1>9, <2>1, <2>3, TellsOne, FrameFields
  <2>5. n < e /\ e \in Nat
    BY <1>9, <2>2 DEF TypedInv, Producer
  <2>6. Promise!Deliver
    BY <1>2, <2>2, <2>4, <2>5 DEF Promise!Deliver, Promise!Delivered, All,
       Promise!OnNext, OnNext, Promise!Content, Content
  <2>. QED BY <2>6 DEF Promise!Next
<1>. QED BY <1>5, <1>6, <1>7, <1>8, <1>10, <1>11
     DEF Answer, RequesterHandles

(***************************************************************************)
(* The stream keeps what Subscription promises, whatever is cut into       *)
(* fragments, cancelled, refused or lost with the connection: the payloads *)
(* come in order and whole, one terminal signal ends them, and a           *)
(* completion comes only after everything; and no frame is refused.        *)
(***************************************************************************)
THEOREM ImplementsSubscription ==
    ASSUME OneFrameAtATime
    PROVE  Spec => PromiseToConsumer
<1>1. Init => Promise!Init
  BY DEF Init, Promise!Init
<1>2. TypedInv /\ QuietInv /\ RegistryInv /\ PromiseInv /\ [Next]_vars
         => [Promise!Next]_Promise!promise
  <2>1. UNCHANGED vars => UNCHANGED Promise!promise
    BY DEF vars, local, Promise!promise
  <2>. QED BY <2>1, ProducerSteps, ConsumerSteps DEF Next
<1>. QED BY <1>1, <1>2, TypedAlways, QuietAlways, RegistryAlways,
            PromiseAlways, NoViolations, PTL
     DEF Spec, Promise!Spec, PromiseToConsumer

-----------------------------------------------------------------------------
(* Nobody is left behind.  A handler that closes the connection before it  *)
(* returns its receiver escapes the close: nobody cancels what it starts.  *)

HandlerKeepsConnection == ~CloseInHandler

\* The producer's end.
CancelInv ==
    /\ producer.cancels <= 1
    /\ producer.cancels > 0 => Done(Responder) \/ ~open[Responder]
    /\ served \in {"running", "active"} /\ Done(Responder)
          => producer.cancels = 1 \/ producer.ended # "no"
    /\ HasReceiver /\ ~open[Responder]
          => producer.cancels = 1 \/ producer.ended # "no"
    /\ ~open[Responder] => served # "running"

\* Frames that end the stream are sent by a stream that is done, or refused.
NoEnd(q) == \A i \in 1 .. Len(q) : ~q[i].complete /\ q[i].type # "ERROR"
LastFrames == NoEnd(wire[Requester]) \/ Done(Responder) \/ served = "refused"

\* The responder of a consumer that has gone is done, or will be.
GoneInv ==
    Done(Requester) /\ open[Requester] /\ phase = "ready" =>
       \/ Done(Responder) \/ ~open[Responder] \/ served = "refused"
       \/ \E i \in 1 .. Len(wire[Responder]) : wire[Responder][i].type = "CANCEL"

\* The responder's state, where the requester acts.
LEMMA RequesterLeaves ==
    ASSUME TypedInv, QuietInv,
           Answer \/ RequesterCalls \/ RequesterHandles \/ RequesterCloses
    PROVE  /\ UNCHANGED <<served, producer>>
           /\ stream'[Responder] = stream[Responder]
           /\ open'[Responder] = open[Responder]
<1>1. CASE HandleReject
  BY <1>1 DEF HandleReject, TypedInv
<1>2. CASE \E cut \in BOOLEAN : HandleReady(cut)
  BY <1>2 DEF HandleReady, TypedInv
<1>3. CASE RequesterCalls \/ RequesterHandles \/ RequesterCloses
  BY <1>3, RequesterTelling
<1>. QED BY <1>1, <1>2, <1>3 DEF Answer

LEMMA CancelSteps ==
    ASSUME TypedInv, QuietInv, RegistryInv, PromiseInv, CancelInv,
           HandlerKeepsConnection, Next
    PROVE  CancelInv'
<1>1. /\ producer \in Producer /\ stream \in [End -> StreamState]
      /\ open \in [End -> BOOLEAN] /\ producer.cancels \in Nat
      /\ stream[Responder] \in StreamState
  BY DEF TypedInv, Producer
\* A step that cancels nothing, and does not end the stream either.
<1>2. ASSUME UNCHANGED producer.cancels,
             producer.ended # "no" => producer'.ended # "no",
             open'[Responder] = open[Responder],
             stream'[Responder].done = stream[Responder].done,
             served' = served \/ served = "running" \/ open[Responder],
             served' = "running" => served = "running" \/ ~Done(Responder),
             served' = "active" => served \in {"running", "active"}
      PROVE  CancelInv'
  BY <1>2 DEF CancelInv, Done, HasReceiver
\* A step that ends the stream and takes the producer along.
<1>3. ASSUME open'[Responder] = open[Responder], stream'[Responder].done,
             producer'.cancels \in {0, 1},
             producer'.cancels = 0 =>
                served' \notin {"running", "active"} \/ producer'.ended # "no",
             served' # "running" \/ open[Responder]
      PROVE  CancelInv'
  BY <1>3 DEF CancelInv, Done, HasReceiver
<1>4. ~Done(Responder) /\ open[Responder] => producer.cancels = 0
  BY <1>1 DEF CancelInv
<1>5. wire[Responder] # <<>> => open[Responder]
  BY DEF PromiseInv, EmptyInv
<1>6. CASE Answer \/ RequesterCalls \/ RequesterHandles \/ RequesterCloses
  BY <1>6, RequesterLeaves DEF CancelInv, Done, HasReceiver
<1>7. CASE HandlerReturns
  BY <1>1, <1>2, <1>7 DEF HandlerReturns
<1>8. CASE HandlerThrows
  <2>1. /\ served' = "threw" /\ UNCHANGED <<producer, open>>
        /\ IF Done(Responder) THEN UNCHANGED stream ELSE Finish(Responder)
    BY <1>8 DEF HandlerThrows
  <2>2. stream'[Responder].done
    BY <2>1, Effects DEF Done
  <2>3. producer.cancels \in {0, 1}
    BY <1>1 DEF CancelInv
  <2>. QED BY <1>3, <2>1, <2>2, <2>3
<1>9. CASE \E c \in BOOLEAN, cut \in BOOLEAN : ResponderOnNext(c, cut)
  <2>1. PICK c \in BOOLEAN, cut \in BOOLEAN : ResponderOnNext(c, cut)
    BY <1>9
  <2>2. /\ UNCHANGED <<served, open>> /\ ~Done(Responder) /\ HasStream
        /\ IF c THEN Finish(Responder) ELSE UNCHANGED stream
        /\ producer'.cancels = producer.cancels
        /\ producer'.ended = IF c THEN "complete" ELSE producer.ended
    BY <1>1, <2>1 DEF ResponderOnNext, Producer
  <2>3. CASE c
    <3>1. stream'[Responder].done /\ producer'.ended = "complete"
      BY <2>2, <2>3, Effects
    <3>2. producer'.cancels \in {0, 1} /\ (served' # "running" \/ open[Responder])
      BY <1>1, <2>2 DEF CancelInv
    <3>. QED BY <1>3, <2>2, <3>1, <3>2
  <2>4. CASE ~c
    BY <1>2, <2>2, <2>4
  <2>. QED BY <2>3, <2>4
<1>10. CASE ResponderOnComplete \/ ResponderOnError
  <2>1. /\ UNCHANGED <<served, open>> /\ Finish(Responder)
        /\ producer'.cancels = producer.cancels /\ producer'.ended # "no"
    BY <1>1, <1>10 DEF ResponderOnComplete, ResponderOnError, Producer
  <2>2. stream'[Responder].done
    BY <2>1, Effects
  <2>3. producer'.cancels \in {0, 1} /\ (served' # "running" \/ open[Responder])
    BY <1>1, <2>1 DEF CancelInv
  <2>. QED BY <1>3, <2>1, <2>2, <2>3
<1>11. CASE ResponderOnExtension
  BY <1>1, <1>2, <1>11 DEF ResponderOnExtension
<1>12. CASE ResponderRejects
  BY <1>1, <1>2, <1>5, <1>12 DEF ResponderRejects, Arrives
<1>13. CASE ResponderRefusesDemand
  <2>1. /\ served' = "refused" /\ UNCHANGED <<producer, open>>
        /\ stream' = [stream EXCEPT ![Responder].done = TRUE]
    BY <1>13 DEF ResponderRefusesDemand
  <2>2. stream'[Responder].done
    BY <2>1, Effects
  <2>3. producer.cancels \in {0, 1}
    BY <1>1 DEF CancelInv
  <2>. QED BY <1>3, <2>1, <2>2, <2>3
<1>14. CASE \/ ResponderReceivesFirstFragment \/ ResponderReceivesRequest
            \/ ResponderReassemblesRequest
  <2>1. /\ UNCHANGED <<open, producer.cancels, producer.ended>>
        /\ served' \in {"running", "reassembling"}
        /\ wire[Responder] # <<>>
        /\ served = "none" \/ stream[Responder].registered
    BY <1>1, <1>14 DEF ResponderReceivesFirstFragment,
       ResponderReceivesRequest, ResponderReassemblesRequest, CallHandler,
       Handles, Arrives, Producer
  <2>2. stream'[Responder].done = stream[Responder].done
    BY <1>1, <1>14, Effects, SMTT(60) DEF ResponderReceivesFirstFragment,
       ResponderReceivesRequest, ResponderReassemblesRequest, StreamState
  <2>3. ~Done(Responder)
    BY <2>1 DEF RegistryInv
  <2>. QED BY <1>2, <1>5, <2>1, <2>2, <2>3
<1>15. CASE \/ ResponderHandlesFragment \/ ResponderHandlesRequestN
            \/ ResponderHandlesExtension \/ DropFrame(Responder)
  <2>1. UNCHANGED <<open, producer.cancels, producer.ended, served>>
    BY <1>1, <1>15 DEF ResponderHandlesFragment, ResponderHandlesRequestN,
       ResponderHandlesExtension, DropFrame, local, Producer
  <2>2. stream'[Responder].done = stream[Responder].done
    BY <1>1, <1>15, Effects DEF ResponderHandlesFragment,
       ResponderHandlesRequestN, ResponderHandlesExtension, DropFrame
  <2>. QED BY <1>2, <2>1, <2>2
<1>16. CASE ResponderHandlesEnd \/ ResponderRefusesFrame
  <2>1. /\ UNCHANGED <<open, served>> /\ Abort(Responder)
        /\ wire[Responder] # <<>> /\ stream[Responder].registered
        /\ served # "running"
        /\ producer'.cancels = producer.cancels + Count(HasReceiver)
    BY <1>1, <1>16 DEF ResponderHandlesEnd, ResponderRefusesFrame,
       StopsProducer, Cancelled, Handles, Arrives, Producer
  <2>2. stream'[Responder].done
    BY <2>1, Effects
  <2>3. producer.cancels = 0
    BY <1>4, <1>5, <2>1 DEF RegistryInv
  <2>4. producer'.cancels = IF served = "active" THEN 1 ELSE 0
    BY <2>1, <2>3 DEF Count, HasReceiver
  <2>. QED BY <1>3, <2>1, <2>2, <2>4
<1>17. CASE ResponderCloses
  <2>1. /\ Disconnect(Responder, Chunked) /\ served # "running" /\ UNCHANGED served
    BY <1>17 DEF ResponderCloses, HandlerKeepsConnection
  <2>2. /\ ~open'[Responder] /\ open[Responder]
    BY <1>1, <2>1 DEF Disconnect
  <2>3. stream'[Responder].done = stream[Responder].done
        /\ producer'.ended = producer.ended
    BY <1>1, <1>17 DEF ResponderCloses, Cancelled, StreamState, Producer
  <2>4. CASE stream[Responder].registered /\ ~Done(Responder)
    <3>1. producer'.cancels = producer.cancels + Count(HasReceiver)
      BY <1>1, <1>17, <2>4 DEF ResponderCloses, Cancelled, Producer
    <3>2. producer'.cancels = IF served = "active" THEN 1 ELSE 0
      BY <1>4, <2>2, <2>4, <3>1 DEF Count, HasReceiver
    <3>. QED BY <2>1, <2>2, <2>3, <2>4, <3>2 DEF CancelInv, Done, HasReceiver
  <2>5. CASE ~(stream[Responder].registered /\ ~Done(Responder))
    <3>1. UNCHANGED producer
      BY <1>17, <2>5 DEF ResponderCloses
    <3>2. HasReceiver => Done(Responder)
      BY <2>2, <2>5 DEF RegistryInv, RegistryExact, Started, HasStream,
         HasReceiver
    <3>. QED BY <1>1, <2>1, <2>2, <2>3, <3>1, <3>2
             DEF CancelInv, Done, HasReceiver
  <2>. QED BY <2>4, <2>5
<1>. QED BY <1>6, <1>7, <1>8, <1>9, <1>10, <1>11, <1>12, <1>13, <1>14, <1>15,
            <1>16, <1>17
     DEF Next, HandlerEnds, ResponderCalls, ResponderHandles

\* What ends at the responder stays ended.
LEMMA ResponderEnds ==
    ASSUME TypedInv, QuietInv, RegistryInv, Next
    PROVE  /\ Done(Responder) => Done(Responder)'
           /\ served = "refused" => served' = "refused"
           /\ ~open[Responder] => ~open'[Responder]
<1>1. stream \in [End -> StreamState] /\ stream[Responder] \in StreamState
      /\ open \in [End -> BOOLEAN]
  BY DEF TypedInv
<1>2. CASE Answer \/ RequesterCalls \/ RequesterHandles \/ RequesterCloses
  BY <1>2, RequesterLeaves DEF Done
<1>3. CASE HandlerEnds \/ ResponderCalls
  BY <1>3, ResponderTelling DEF Done
<1>4. CASE ResponderHandles
  <2>1. UNCHANGED open
    BY <1>4 DEF ResponderHandles, ResponderRejects, ResponderRefusesDemand,
       ResponderReceivesFirstFragment, ResponderReceivesRequest,
       ResponderReassemblesRequest, CallHandler, ResponderHandlesFragment,
       ResponderHandlesEnd, ResponderHandlesRequestN,
       ResponderHandlesExtension, ResponderRefusesFrame, StopsProducer,
       DropFrame
  <2>2. ASSUME served = "refused" PROVE served' = "refused"
    <3>1. ~stream[Responder].registered
      BY <2>2 DEF RegistryInv
    <3>. QED BY <1>4, <2>2, <3>1 DEF ResponderHandles, ResponderRejects,
       ResponderRefusesDemand, ResponderReceivesFirstFragment,
       ResponderReceivesRequest, ResponderReassemblesRequest,
       ResponderHandlesFragment, ResponderHandlesEnd,
       ResponderHandlesRequestN, ResponderHandlesExtension,
       ResponderRefusesFrame, DropFrame, Handles, local
  <2>3. ASSUME Done(Responder) PROVE Done(Responder)'
    <3>1. ~stream[Responder].registered /\ served # "none"
      BY <2>3 DEF RegistryInv
    <3>2. DropFrame(Responder)
      BY <1>4, <3>1 DEF ResponderHandles, ResponderRejects,
       ResponderRefusesDemand, ResponderReceivesFirstFragment,
       ResponderReceivesRequest, ResponderReassemblesRequest,
       ResponderHandlesFragment, ResponderHandlesEnd,
       ResponderHandlesRequestN, ResponderHandlesExtension,
       ResponderRefusesFrame, Handles
    <3>. QED BY <2>3, <3>2 DEF DropFrame, Done
  <2>. QED BY <2>1, <2>2, <2>3
<1>5. CASE ResponderCloses
  BY <1>1, <1>5 DEF ResponderCloses, Disconnect, Done, StreamState
<1>. QED BY <1>2, <1>3, <1>4, <1>5 DEF Next

LEMMA NoEndLaws ==
    ASSUME NEW q \in Seq(Frame), NEW r \in Seq(Frame), NoEnd(q)
    PROVE  /\ NoEnd(r) => NoEnd(q \o r)
           /\ q # <<>> => /\ NoEnd(Tail(q))
                          /\ ~q[1].complete /\ q[1].type # "ERROR"
<1>1. ASSUME NoEnd(r) PROVE NoEnd(q \o r)
  <2>1. ASSUME NEW i \in 1 .. Len(q \o r)
        PROVE  ~(q \o r)[i].complete /\ (q \o r)[i].type # "ERROR"
    <3>1. CASE i <= Len(q)
      <4>1. i \in 1 .. Len(q) /\ (q \o r)[i] = q[i]
        BY <3>1
      <4>. QED BY <4>1 DEF NoEnd
    <3>2. CASE i > Len(q)
      <4>1. i - Len(q) \in 1 .. Len(r) /\ (q \o r)[i] = r[i - Len(q)]
        BY <3>2
      <4>. QED BY <1>1, <4>1 DEF NoEnd
    <3>. QED BY <3>1, <3>2
  <2>. QED BY <2>1 DEF NoEnd
<1>2. ASSUME q # <<>>
      PROVE  NoEnd(Tail(q)) /\ ~q[1].complete /\ q[1].type # "ERROR"
  <2>1. /\ 1 \in 1 .. Len(q)
        /\ \A i \in 1 .. Len(Tail(q)) : /\ Tail(q)[i] = q[i + 1]
                                        /\ i + 1 \in 1 .. Len(q)
    BY <1>2, Taken
  <2>. QED BY <2>1 DEF NoEnd
<1>. QED BY <1>1, <1>2

LEMMA NoEndFrames ==
    /\ NoEnd(<<>>) /\ NoEnd(<<ExtFrame>>)
    /\ \A n \in Nat, cut \in BOOLEAN : NoEnd(PayloadFrames(n, FALSE, cut))
<1>1. NoEnd(<<>>)
  BY DEF NoEnd
<1>2. ASSUME NEW x \in Frame, ~x.complete, x.type # "ERROR"
      PROVE  /\ NoEnd(<<x>>)
             /\ \A y \in Frame : ~y.complete /\ y.type # "ERROR" => NoEnd(<<x, y>>)
  <2>1. /\ Len(<<x>>) = 1 /\ <<x>>[1] = x /\ \A i \in 1 .. 1 : i = 1
        /\ \A i \in 1 .. 2 : i = 1 \/ i = 2
    OBVIOUS
  <2>2. ASSUME NEW y \in Frame, ~y.complete, y.type # "ERROR"
        PROVE  NoEnd(<<x, y>>)
    <3>1. Len(<<x, y>>) = 2 /\ <<x, y>>[1] = x /\ <<x, y>>[2] = y
      OBVIOUS
    <3>. QED BY <1>2, <2>1, <2>2, <3>1 DEF NoEnd
  <2>. QED BY <1>2, <2>1, <2>2 DEF NoEnd
<1>3. NoEnd(<<ExtFrame>>)
  BY <1>2, FramesTyped DEF ExtFrame, Bare
<1>4. ASSUME NEW n \in Nat, NEW cut \in BOOLEAN
      PROVE  NoEnd(PayloadFrames(n, FALSE, cut))
  <2>. DEFINE x == PayloadFrame(<<n>>, TRUE, FALSE, TRUE)
              y == PayloadFrame(<<n>>, TRUE, FALSE, FALSE)
              z == PayloadFrame(Content(n), TRUE, FALSE, FALSE)
  <2>1. x \in Frame /\ y \in Frame /\ z \in Frame
    BY DEF PayloadFrame, Frame, FrameTypes, Content
  <2>2. /\ ~x.complete /\ ~y.complete /\ ~z.complete
        /\ x.type = "PAYLOAD" /\ y.type = "PAYLOAD" /\ z.type = "PAYLOAD"
    BY DEF PayloadFrame
  <2>3. PayloadFrames(n, FALSE, cut) = IF cut THEN <<x, y>> ELSE <<z>>
    BY DEF PayloadFrames
  <2>. HIDE DEF x, y, z
  <2>. QED BY <1>2, <2>1, <2>2, <2>3
<1>. QED BY <1>1, <1>3, <1>4

LEMMA LastFramesSteps ==
    ASSUME TypedInv, QuietInv, RegistryInv, LastFrames, Next
    PROVE  LastFrames'
<1>. SUFFICES ASSUME ~Done(Responder)', served' # "refused"
              PROVE  NoEnd(wire'[Requester])
  BY DEF LastFrames
<1>. DEFINE q == wire[Requester]
<1>1. /\ wire \in [End -> Seq(Frame)] /\ q \in Seq(Frame)
      /\ stream \in [End -> StreamState] /\ open \in [End -> BOOLEAN]
      /\ Peer(Responder) = Requester /\ Peer(Requester) = Responder
  BY DEF TypedInv, Peer
<1>2. NoEnd(q)
  BY ResponderEnds DEF LastFrames
<1>3. ASSUME NEW fs \in Seq(Frame), NoEnd(fs),
             \/ Send(Responder, fs)
             \/ wire[Responder] # <<>> /\ TakeAndSend(Responder, fs)
      PROVE  NoEnd(wire'[Requester])
  <2>1. wire'[Requester] = q \o Sent(Responder, fs)
    BY <1>1, <1>3 DEF Send, TakeAndSend
  <2>2. Sent(Responder, fs) \in Seq(Frame) /\ NoEnd(Sent(Responder, fs))
    BY <1>3, NoEndFrames, ShortSeqs DEF Sent
  <2>. QED BY <1>1, <1>2, <2>1, <2>2, NoEndLaws
<1>4. ASSUME q # <<>>, \E fs : TakeAndSend(Requester, fs)
      PROVE  NoEnd(wire'[Requester])
  <2>1. wire'[Requester] = Tail(q)
    BY <1>4 DEF TakeAndSend
  <2>. QED BY <1>1, <1>2, <1>4, <2>1, NoEndLaws
<1>5. ASSUME \/ \E fs : Send(Requester, fs)
             \/ UNCHANGED wire
      PROVE  NoEnd(wire'[Requester])
  <2>1. wire'[Requester] = q
    BY <1>1, <1>5 DEF Send
  <2>. QED BY <1>2, <2>1
<1>6. CASE Answer \/ RequesterCalls \/ RequesterHandles
  BY <1>4, <1>5, <1>6 DEF Answer, HandleReady, HandleReject, RequesterCalls,
     RequesterRequest, RequesterCancel, RequesterOnExtension,
     RequesterHandles, RequesterHandlesComplete, RequesterHandlesPayload,
     RequesterHandlesFragment, RequesterHandlesError,
     RequesterHandlesExtension, DropFrame, Handles, Arrives
<1>7. CASE RequesterCloses
  <2>1. Disconnect(Requester, Chunked)
    BY <1>7 DEF RequesterCloses
  <2>2. /\ wire'[Requester] \in Seq(Frame) /\ Len(wire'[Requester]) <= Len(q)
        /\ \A i \in 1 .. Len(wire'[Requester]) : wire'[Requester][i] = q[i]
    BY <1>1, <2>1, DisconnectTyped, BoundsAssumption
  <2>3. \A i \in 1 .. Len(wire'[Requester]) : i \in 1 .. Len(q)
    BY <1>1, <2>2
  <2>. QED BY <1>2, <2>2, <2>3 DEF NoEnd
<1>8. CASE ResponderCloses
  <2>1. Disconnect(Responder, Chunked)
    BY <1>8 DEF ResponderCloses
  <2>2. wire'[Requester] = q
    BY <1>1, <2>1, DisconnectTyped, BoundsAssumption
  <2>. QED BY <1>2, <2>2
<1>9. CASE HandlerEnds
  <2>1. UNCHANGED wire \/ Finish(Responder)
    BY <1>9 DEF HandlerEnds, HandlerReturns, HandlerThrows
  <2>. QED BY <1>5, <2>1, Effects DEF Done
<1>10. CASE ResponderCalls
  <2>1. CASE \E c \in BOOLEAN, cut \in BOOLEAN : ResponderOnNext(c, cut)
    <3>1. PICK c \in BOOLEAN, cut \in BOOLEAN : ResponderOnNext(c, cut)
      BY <2>1
    <3>2. producer.emitted + 1 \in Nat
      BY DEF TypedInv, Producer
    <3>3. CASE c
      BY <3>1, <3>3, Effects DEF ResponderOnNext, Done
    <3>4. CASE ~c
      <4>1. c = FALSE
        BY <3>4
      <4>2. Send(Responder, PayloadFrames(producer.emitted + 1, FALSE, cut))
        BY <3>1, <4>1 DEF ResponderOnNext
      <4>. QED BY <1>3, <3>2, <4>2, NoEndFrames, FramesTyped
    <3>. QED BY <3>3, <3>4
  <2>2. CASE ResponderOnComplete \/ ResponderOnError
    BY <2>2, Effects DEF ResponderOnComplete, ResponderOnError, Done
  <2>3. CASE ResponderOnExtension
    <3>1. <<ExtFrame>> \in Seq(Frame)
      BY FramesTyped
    <3>. QED BY <1>3, <2>3, <3>1, NoEndFrames DEF ResponderOnExtension
  <2>. QED BY <1>10, <2>1, <2>2, <2>3 DEF ResponderCalls
<1>11. CASE ResponderHandles
  <2>1. CASE \/ ResponderRejects \/ ResponderRefusesDemand
             \/ ResponderHandlesEnd \/ ResponderRefusesFrame
    BY <2>1, Effects DEF ResponderRejects, ResponderRefusesDemand,
       ResponderHandlesEnd, ResponderRefusesFrame, StopsProducer, Done
  <2>2. CASE ~(\/ ResponderRejects \/ ResponderRefusesDemand
               \/ ResponderHandlesEnd \/ ResponderRefusesFrame)
    <3>1. wire[Responder] # <<>> /\ TakeAndSend(Responder, <<>>)
      BY <1>11, <2>2 DEF ResponderHandles,
       ResponderReceivesFirstFragment, ResponderReceivesRequest,
       ResponderReassemblesRequest, CallHandler, ResponderHandlesFragment,
       ResponderHandlesRequestN, ResponderHandlesExtension, DropFrame,
       Handles, Arrives
    <3>2. <<>> \in Seq(Frame) /\ NoEnd(<<>>)
      BY NoEndFrames, ShortSeqs
    <3>. QED BY <1>3, <3>1, <3>2
  <2>. QED BY <2>1, <2>2
<1>. QED BY <1>6, <1>7, <1>8, <1>9, <1>10, <1>11 DEF Next

\* What a step of the responder leaves of the requester's stream.
LEMMA ResponderLeaves ==
    ASSUME TypedInv, HandlerEnds \/ ResponderCalls \/ ResponderHandles
    PROVE  /\ stream'[Requester] = stream[Requester]
           /\ UNCHANGED <<phase, open, consumer>>
<1>1. stream \in [End -> StreamState] /\ Peer(Responder) = Requester
  BY DEF TypedInv, Peer
<1>2. CASE HandlerEnds \/ ResponderCalls
  BY <1>2, ResponderTelling
<1>3. CASE ResponderHandles
  <2>1. UNCHANGED <<phase, open, consumer>>
    BY <1>3 DEF ResponderHandles, ResponderRejects, ResponderRefusesDemand,
       ResponderReceivesFirstFragment, ResponderReceivesRequest,
       ResponderReassemblesRequest, CallHandler, ResponderHandlesFragment,
       ResponderHandlesEnd, ResponderHandlesRequestN, StopsProducer,
       ResponderHandlesExtension, ResponderRefusesFrame, DropFrame, local
  <2>2. stream'[Requester] = stream[Requester]
    <3>1. CASE ResponderReceivesFirstFragment \/ ResponderReassemblesRequest
      BY <1>1, <3>1 DEF ResponderReceivesFirstFragment,
         ResponderReassemblesRequest
    <3>2. CASE \/ ResponderRefusesDemand \/ ResponderReceivesRequest
               \/ ResponderHandlesFragment \/ ResponderHandlesEnd
               \/ ResponderRefusesFrame
      BY <1>1, <3>2, Effects DEF ResponderRefusesDemand,
         ResponderReceivesRequest, ResponderHandlesFragment,
         ResponderHandlesEnd, ResponderRefusesFrame, StopsProducer
    <3>3. CASE \/ ResponderRejects \/ ResponderHandlesRequestN
               \/ ResponderHandlesExtension \/ DropFrame(Responder)
      BY <3>3 DEF ResponderRejects, ResponderHandlesRequestN,
         ResponderHandlesExtension, DropFrame
    <3>. QED BY <1>3, <3>1, <3>2, <3>3 DEF ResponderHandles
  <2>. QED BY <2>1, <2>2
<1>. QED BY <1>2, <1>3

LEMMA GoneSteps ==
    ASSUME TypedInv, QuietInv, RegistryInv, RequestInv, PromiseInv, LastFrames,
           GoneInv, Next
    PROVE  GoneInv'
<1>. SUFFICES ASSUME Done(Requester)', open'[Requester], phase' = "ready",
                     ~Done(Responder)', open'[Responder], served' # "refused"
              PROVE  \E i \in 1 .. Len(wire'[Responder]) :
                        wire'[Responder][i].type = "CANCEL"
  BY DEF GoneInv
<1>. DEFINE q == wire[Responder]
<1>1. /\ wire \in [End -> Seq(Frame)] /\ q \in Seq(Frame)
      /\ stream \in [End -> StreamState] /\ open \in [End -> BOOLEAN]
      /\ Peer(Responder) = Requester /\ Peer(Requester) = Responder
  BY DEF TypedInv, Peer
<1>2. ~Done(Responder) /\ open[Responder] /\ served # "refused"
  BY ResponderEnds
<1>3. ~RequesterCloses /\ ~ResponderCloses
  BY <1>1 DEF RequesterCloses, ResponderCloses, Disconnect
<1>4. open[Requester]
  <2>1. CASE Answer
    BY <2>1 DEF Answer, HandleReady, HandleReject
  <2>2. CASE RequesterCalls \/ RequesterHandles
    BY <2>2, RequesterTelling
  <2>3. CASE HandlerEnds \/ ResponderCalls \/ ResponderHandles
    BY <2>3, ResponderLeaves
  <2>. QED BY <1>3, <2>1, <2>2, <2>3 DEF Next
<1>5. ASSUME NEW f \in Frame, wire'[Responder] = q \o <<f>>
      PROVE  /\ Len(wire'[Responder]) = Len(q) + 1
             /\ wire'[Responder][Len(q) + 1] = f
             /\ \A i \in 1 .. Len(q) : wire'[Responder][i] = q[i]
  BY <1>1, <1>5
\* A requester that had gone before has a CANCEL under way.
<1>6. ASSUME Done(Requester)
      PROVE  \E i \in 1 .. Len(wire'[Responder]) :
                wire'[Responder][i].type = "CANCEL"
  <2>1. ~Answer
    BY <1>6 DEF Answer, HandleReady, HandleReject, RegistryInv
  <2>2. phase = "ready"
    BY <1>3, <2>1, RequesterTelling, ResponderLeaves DEF Next
  <2>3. PICK i \in 1 .. Len(q) : q[i].type = "CANCEL"
    BY <1>2, <1>4, <1>6, <2>2 DEF GoneInv
  <2>4. CASE RequesterCalls \/ RequesterHandles
    <3>1. \/ wire'[Responder] = q
          \/ \E f \in Frame : wire'[Responder] = q \o <<f>>
      BY <2>4, RequesterTelling DEF RequesterTells
    <3>2. CASE wire'[Responder] = q
      BY <2>3, <3>2
    <3>3. CASE \E f \in Frame : wire'[Responder] = q \o <<f>>
      <4>1. Len(wire'[Responder]) = Len(q) + 1 /\ wire'[Responder][i] = q[i]
        BY <1>5, <3>3
      <4>2. i \in 1 .. Len(wire'[Responder])
        BY <1>1, <4>1
      <4>. QED BY <2>3, <4>1, <4>2
    <3>. QED BY <3>1, <3>2, <3>3
  <2>5. CASE HandlerEnds \/ ResponderCalls
    BY <2>3, <2>5, ResponderTelling
  <2>6. CASE ResponderHandles
    <3>1. wire'[Responder] = Tail(q) /\ q # <<>> /\ Head(q) = q[1]
      <4>1. q # <<>> /\ Head(q) = q[1]
        BY <1>1, <2>3
      <4>2. CASE \/ ResponderRejects \/ ResponderRefusesDemand
                 \/ ResponderReceivesFirstFragment \/ ResponderReceivesRequest
                 \/ ResponderReassemblesRequest
        BY <1>1, <4>1, <4>2, SMTT(60)
           DEF ResponderRejects, ResponderRefusesDemand,
               ResponderReceivesFirstFragment, ResponderReceivesRequest,
               ResponderReassemblesRequest, CallHandler, TakeAndSend
      <4>3. CASE \/ ResponderHandlesFragment \/ ResponderHandlesEnd
                 \/ ResponderHandlesRequestN \/ ResponderHandlesExtension
                 \/ ResponderRefusesFrame \/ DropFrame(Responder)
        BY <1>1, <4>1, <4>3, SMTT(60)
           DEF ResponderHandlesFragment, ResponderHandlesEnd, StopsProducer,
               ResponderHandlesRequestN, ResponderHandlesExtension,
               ResponderRefusesFrame, DropFrame, TakeAndSend
      <4>. QED BY <2>6, <4>1, <4>2, <4>3 DEF ResponderHandles
    <3>2. CASE i = 1
      <4>1. Head(q).type = "CANCEL"
        BY <2>3, <3>1, <3>2
      <4>2. ~ResponderHandlesEnd
        BY <1>1, Effects DEF ResponderHandlesEnd, StopsProducer, Done
      <4>3. DropFrame(Responder)
        BY <2>6, <4>1, <4>2 DEF ResponderHandles, ResponderRejects,
           ResponderRefusesDemand, ResponderReceivesFirstFragment,
           ResponderReceivesRequest, ResponderReassemblesRequest,
           ResponderHandlesFragment, ResponderHandlesRequestN,
           ResponderHandlesExtension, ResponderRefusesFrame, Handles, Arrives
      <4>4. served = "none"
        <5>1. ~stream[Responder].registered
          BY <4>3 DEF DropFrame
        <5>2. ~Started(Responder)
          BY <1>2, <5>1 DEF RegistryInv, RegistryExact
        <5>3. served \in {"none", "reassembling", "running", "active", "threw",
                          "refused"}
          BY DEF TypedInv, Services
        <5>. QED BY <1>2, <5>2, <5>3 DEF Started, HasStream
      <4>5. PICK k \in 0 .. Len(q) : RequestThen(q, TRUE, k) /\ k > 0
        BY <1>2, <2>2, <4>4 DEF RequestInv, RequestLeft
      <4>6. 1 \in 1 .. Len(q) /\ 1 <= k
        BY <1>1, <4>5
      <4>7. q[1].type = "REQUEST"
        BY <4>5, <4>6 DEF RequestThen
      <4>. QED BY <2>3, <3>2, <4>7
    <3>3. CASE i # 1
      <4>1. /\ i - 1 \in 1 .. Len(Tail(q)) /\ Tail(q)[i - 1] = q[i]
        BY <1>1, <3>1, <3>3
      <4>. QED BY <2>3, <3>1, <4>1
    <3>. QED BY <3>2, <3>3
  <2>. QED BY <1>3, <2>1, <2>4, <2>5, <2>6 DEF Next
\* One that goes now cancels: the responder has sent no end.
<1>7. ASSUME ~Done(Requester)
      PROVE  \E i \in 1 .. Len(wire'[Responder]) :
                wire'[Responder][i].type = "CANCEL"
  <2>1. ~Answer
    BY <1>1, <1>7, Effects
       DEF Answer, HandleReady, HandleReject, Done
  <2>2. ~(HandlerEnds \/ ResponderCalls \/ ResponderHandles)
    BY <1>7, ResponderLeaves DEF Done
  <2>3. CASE RequesterCalls
    <3>1. RequesterCancel /\ phase = "ready"
      BY <1>7, <2>3 DEF RequesterCalls, RequesterRequest, RequesterCancel,
         RequesterOnExtension, Done
    <3>2. Send(Requester, <<CancelFrame>>)
      BY <3>1 DEF RequesterCancel
    <3>3. wire'[Responder] = q \o <<CancelFrame>> /\ CancelFrame \in Frame
      BY <1>1, <1>2, <1>4, <3>2, FramesTyped DEF Send, Sent
    <3>4. Len(q) + 1 \in 1 .. Len(wire'[Responder])
          /\ wire'[Responder][Len(q) + 1].type = "CANCEL"
      BY <1>1, <1>5, <3>3, FrameTypeOf
    <3>. QED BY <3>4
  <2>4. CASE RequesterHandles
    <3>1. UNCHANGED refused /\ ~refused /\ wire[Requester] # <<>>
      BY <2>4, RequesterHandlesCarry DEF PromiseInv
    <3>2. LET f == Head(wire[Requester]) IN ~f.complete /\ f.type # "ERROR"
      <4>1. NoEnd(wire[Requester]) /\ wire[Requester] \in Seq(Frame)
        BY <1>1, <1>2 DEF LastFrames
      <4>2. Head(wire[Requester]) = wire[Requester][1]
        BY <3>1, <4>1
      <4>. QED BY <3>1, <4>1, <4>2, NoEndLaws
    <3>3. CASE RequesterHandlesPayload
      <4>1. stream'[Requester].done = stream[Requester].done
        BY <1>1, <3>2, <3>3 DEF RequesterHandlesPayload, StreamState
      <4>. QED BY <1>7, <4>1 DEF Done
    <3>4. CASE RequesterHandlesFragment
      BY <1>1, <1>7, <3>4, Effects DEF RequesterHandlesFragment, Done
    <3>5. CASE RequesterHandlesExtension \/ DropFrame(Requester)
      BY <1>7, <3>1, <3>5 DEF RequesterHandlesExtension, DropFrame, Done
    <3>6. ~RequesterHandlesComplete /\ ~RequesterHandlesError
      BY <3>2 DEF RequesterHandlesComplete, RequesterHandlesError, Handles,
         Arrives
    <3>. QED BY <2>4, <3>3, <3>4, <3>5, <3>6 DEF RequesterHandles
  <2>. QED BY <1>3, <2>1, <2>2, <2>3, <2>4 DEF Next
<1>. QED BY <1>6, <1>7

\* A consumer whose stream is done has cancelled or been told: no hypotheses.
ToldInv == Done(Requester) => consumer.quit \/ Promise!Told

LEMMA ToldSteps ==
    ASSUME TypedInv, QuietInv, ToldInv, Next
    PROVE  ToldInv'
<1>1. /\ stream \in [End -> StreamState] /\ consumer \in Consumer
      /\ Peer(Responder) = Requester /\ stream[Requester] \in StreamState
  BY DEF TypedInv, Peer
<1>2. ASSUME UNCHANGED consumer,
             stream'[Requester].done = stream[Requester].done
      PROVE  ToldInv'
  BY <1>2 DEF ToldInv, Done, Promise!Told
<1>3. ASSUME NEW t \in Signal, Told(t),
             t.last \/ stream'[Requester].done = stream[Requester].done
      PROVE  ToldInv'
  BY <1>3, TellsLast DEF ToldInv, Done
<1>4. CASE Answer
  <2>1. CASE HandleReject
    BY <1>3, <2>1, SignalsTyped DEF HandleReject, OnError
  <2>2. CASE \E cut \in BOOLEAN : HandleReady(cut)
    BY <1>2, <2>2, Effects DEF HandleReady
  <2>. QED BY <1>4, <2>1, <2>2 DEF Answer
<1>5. CASE RequesterCalls
  <2>1. CASE \E n \in Demands : RequesterRequest(n)
    <3>1. PICK n \in Demands : RequesterRequest(n)
      BY <2>1
    <3>2. UNCHANGED <<stream, consumer.quit, consumer.signals>>
      BY <1>1, <3>1 DEF RequesterRequest, Consumer
    <3>. QED BY <3>2 DEF ToldInv, Done, Promise!Told
  <2>2. CASE RequesterCancel
    <3>1. consumer'.quit
      BY <1>1, <2>2 DEF RequesterCancel, Consumer
    <3>. QED BY <3>1 DEF ToldInv
  <2>3. CASE RequesterOnExtension
    BY <1>2, <2>3 DEF RequesterOnExtension
  <2>. QED BY <1>5, <2>1, <2>2, <2>3 DEF RequesterCalls
<1>6. CASE RequesterHandles
  <2>1. CASE RequesterHandlesComplete
    BY <1>3, <2>1, SignalsTyped DEF RequesterHandlesComplete, OnComplete
  <2>2. CASE RequesterHandlesPayload
    <3>. DEFINE f == Head(wire[Requester])
                d == Reassembled(Requester, f.data)
    <3>1. Told(OnNext(d, f.complete))
      BY <2>2 DEF RequesterHandlesPayload
    <3>2. wire[Requester] \in Seq(Frame) /\ wire[Requester] # <<>>
      BY <2>2 DEF RequesterHandlesPayload, Handles, Arrives, TypedInv
    <3>3. f \in Frame
      BY <3>2
    <3>4. d \in Seq(Nat) /\ f.complete \in BOOLEAN
      BY <1>1, <3>3 DEF Frame, Reassembled, StreamState
    <3>5. OnNext(d, f.complete) \in Signal /\ OnNext(d, f.complete).last = f.complete
      BY <3>4 DEF OnNext, Signal, SignalKinds
    <3>6. ~f.complete => stream'[Requester].done = stream[Requester].done
      BY <1>1, <2>2 DEF RequesterHandlesPayload, StreamState
    <3>. QED BY <1>3, <3>1, <3>5, <3>6
  <2>3. CASE RequesterHandlesFragment
    BY <1>2, <2>3, Effects DEF RequesterHandlesFragment, local
  <2>4. CASE RequesterHandlesError
    BY <1>3, <2>4, SignalsTyped DEF RequesterHandlesError, OnError
  <2>5. CASE RequesterHandlesExtension
    <3>1. CASE stream[Requester].hasFragments /\ Done(Requester)
      BY <1>2, <2>5, <3>1, Effects DEF RequesterHandlesExtension, Done
    <3>2. CASE stream[Requester].hasFragments /\ ~Done(Requester)
      BY <1>3, <2>5, <3>2, SignalsTyped
         DEF RequesterHandlesExtension, OnError
    <3>3. CASE ~stream[Requester].hasFragments
      BY <1>2, <2>5, <3>3 DEF RequesterHandlesExtension
    <3>. QED BY <3>1, <3>2, <3>3
  <2>6. CASE DropFrame(Requester)
    BY <1>2, <2>6 DEF DropFrame, local
  <2>. QED BY <1>6, <2>1, <2>2, <2>3, <2>4, <2>5, <2>6 DEF RequesterHandles
<1>7. CASE HandlerEnds \/ ResponderCalls \/ ResponderHandles
  BY <1>2, <1>7, ResponderLeaves
<1>8. CASE RequesterCloses
  <2>1. CASE stream[Requester].registered /\ ~Done(Requester)
    BY <1>3, <1>8, <2>1, SignalsTyped DEF RequesterCloses, OnError
  <2>2. CASE ~(stream[Requester].registered /\ ~Done(Requester))
    BY <1>2, <1>8, <2>2 DEF RequesterCloses
  <2>. QED BY <2>1, <2>2
<1>9. CASE ResponderCloses
  BY <1>1, <1>2, <1>9 DEF ResponderCloses
<1>. QED BY <1>4, <1>5, <1>6, <1>7, <1>8, <1>9 DEF Next

LEMMA ReleasedInit == Init => CancelInv /\ LastFrames /\ GoneInv /\ ToldInv
<1>. SUFFICES ASSUME Init PROVE CancelInv /\ LastFrames /\ GoneInv /\ ToldInv
  OBVIOUS
<1>1. /\ wire[Requester] = <<>> /\ producer.cancels = 0 /\ served = "none"
      /\ ~Done(Requester) /\ ~Done(Responder) /\ open[Responder]
  BY DEF Init, Done
<1>. QED BY <1>1, NoEndFrames
         DEF CancelInv, LastFrames, GoneInv, ToldInv, HasReceiver

LEMMA LastFramesAlways == Spec => []LastFrames
<1>1. TypedInv /\ QuietInv /\ RegistryInv /\ LastFrames /\ [Next]_vars
         => LastFrames'
  <2>1. LastFrames /\ UNCHANGED vars => LastFrames'
    BY DEF vars, local, LastFrames, Done
  <2>. QED BY <2>1, LastFramesSteps
<1>. QED BY <1>1, ReleasedInit, TypedAlways, QuietAlways, RegistryAlways, PTL
         DEF Spec

LEMMA GoneAlways ==
    ASSUME OneFrameAtATime
    PROVE  Spec => []GoneInv
<1>1. TypedInv /\ QuietInv /\ RegistryInv /\ RequestInv /\ PromiseInv
         /\ LastFrames /\ GoneInv /\ [Next]_vars => GoneInv'
  <2>1. GoneInv /\ UNCHANGED vars => GoneInv'
    BY DEF vars, local, GoneInv, Done
  <2>. QED BY <2>1, GoneSteps
<1>. QED BY <1>1, ReleasedInit, TypedAlways, QuietAlways, RegistryAlways,
            RequestAlways, PromiseAlways, LastFramesAlways, PTL
         DEF Spec

LEMMA CancelAlways ==
    ASSUME OneFrameAtATime, HandlerKeepsConnection
    PROVE  Spec => []CancelInv
<1>1. TypedInv /\ QuietInv /\ RegistryInv /\ PromiseInv /\ CancelInv
         /\ [Next]_vars => CancelInv'
  <2>1. CancelInv /\ UNCHANGED vars => CancelInv'
    BY DEF vars, local, CancelInv, Done, HasReceiver
  <2>. QED BY <2>1, CancelSteps
<1>. QED BY <1>1, ReleasedInit, TypedAlways, QuietAlways, RegistryAlways,
            PromiseAlways, PTL
         DEF Spec

\* A consumer whose stream is done, on whatever path, has cancelled it or
\* been told of its end (RequestStreamRequesterStream.close, .handle,
\* .handleReject): also when a TCP chunk holds frames behind the last one,
\* and when the handler closes the connection.
THEOREM ConsumerIsTold == Spec => []ConsumerTold
<1>1. ToldInv => ConsumerTold
  BY DEF ToldInv, ConsumerTold, Promise!Told
<1>2. TypedInv /\ QuietInv /\ ToldInv /\ [Next]_vars => ToldInv'
  <2>1. ToldInv /\ UNCHANGED vars => ToldInv'
    BY DEF vars, local, ToldInv, Done, Promise!Told
  <2>. QED BY <2>1, ToldSteps
<1>. QED BY <1>1, <1>2, ReleasedInit, TypedAlways, QuietAlways, PTL DEF Spec

\* The producer of a consumer that has gone, or whose connection has, was
\* cancelled once or had ended by itself (RequestStreamResponderStream.close
\* and .handle); one that both ends still know was never cancelled.  With
\* ConsumerIsTold, nobody is left behind by a stream that is over.
THEOREM NobodyLeftBehind ==
    ASSUME OneFrameAtATime, HandlerKeepsConnection
    PROVE  Spec => []Released
<1>1. TypedInv /\ QuietInv /\ CancelInv /\ GoneInv => ProducerReleased
  <2>. SUFFICES ASSUME TypedInv, QuietInv, CancelInv, GoneInv
                PROVE  ProducerReleased
    OBVIOUS
  <2>1. ASSUME HasReceiver, ConsumerGone, open[Responder]
        PROVE  producer.cancels = 1 \/ producer.ended # "no"
    <3>1. phase = "ready" /\ served = "active"
      BY <2>1 DEF HasReceiver, QuietInv
    <3>2. ~ \E i \in 1 .. Len(wire[Responder]) :
               wire[Responder][i].type = "CANCEL"
      BY <2>1 DEF ConsumerGone
    <3>3. Done(Responder)
      BY <2>1, <3>1, <3>2 DEF GoneInv, ConsumerGone
    <3>. QED BY <3>1, <3>3 DEF CancelInv
  <2>2. ASSUME \A e \in End : open[e] /\ ~Done(e)
        PROVE  producer.cancels = 0
    <3>1. ~(producer.cancels > 0)
      BY <2>2 DEF CancelInv
    <3>2. producer.cancels \in Nat
      BY DEF TypedInv, Producer
    <3>. QED BY <3>1, <3>2
  <2>. QED BY <2>1, <2>2 DEF ProducerReleased, CancelInv
<1>2. ProducerReleased /\ ConsumerTold => Released
  BY DEF Released
<1>. QED BY <1>1, <1>2, ConsumerIsTold, TypedAlways, QuietAlways,
            CancelAlways, GoneAlways, PTL
=============================================================================
