----------------------- MODULE RequestChannel_proofs -----------------------
(***************************************************************************)
(* Theorems about RequestChannel, for every value of its constants.        *)
(***************************************************************************)
EXTENDS RequestChannel, Interaction_proofs

USE DEF End, Requester, Responder

(***************************************************************************)
(* Types of the records of one end, and of the updates of them.            *)
(***************************************************************************)
LEMMA StreamFields ==
    ASSUME NEW s \in StreamState, NEW b \in BOOLEAN, NEW d \in Seq(Nat)
    PROVE  /\ [s EXCEPT !.hasFragments = TRUE, !.fragments = d] \in StreamState
           /\ [s EXCEPT !.registered = TRUE, !.hasFragments = TRUE,
                        !.fragments = d] \in StreamState
           /\ [s EXCEPT !.registered = TRUE, !.inDone = b] \in StreamState
           /\ [s EXCEPT !.registered = TRUE, !.outDone = b] \in StreamState
           /\ [s EXCEPT !.inDone = TRUE, !.registered = b] \in StreamState
           /\ [s EXCEPT !.outDone = TRUE] \in StreamState
BY DEF StreamState

LEMMA RcvFields ==
    ASSUME NEW r \in RcvState, NEW n \in Nat, NEW ss \in Seq(Signal)
    PROVE  /\ [r EXCEPT !.cancels = n, !.signals = ss] \in RcvState
           /\ [r EXCEPT !.signals = ss, !.granted = n] \in RcvState
           /\ [r EXCEPT !.granted = n] \in RcvState
           /\ [r EXCEPT !.protocolErrors = n] \in RcvState
BY DEF RcvState

LEMMA AppFields ==
    ASSUME NEW a \in AppState, NEW m \in Nat, NEW n \in Nat,
           NEW c \in {"no", "complete", "error"}
    PROVE  /\ [a EXCEPT !.requests = m, !.asked = n] \in AppState
           /\ [a EXCEPT !.emitted = n, !.ended = c] \in AppState
           /\ [a EXCEPT !.quit = TRUE] \in AppState
           /\ [a EXCEPT !.ended = c] \in AppState
           /\ [a EXCEPT !.extensions = n] \in AppState
           /\ [a EXCEPT !.emitted = n] \in AppState
BY DEF AppState

LEMMA StreamTyped ==
    ASSUME TypeOK, NEW e \in End
    PROVE  /\ BothEnd(e) \in [End -> StreamState]
           /\ \A b \in BOOLEAN : /\ OutEnds(e, b) \in [End -> StreamState]
                                /\ Ended(e, b) \in [End -> StreamState]
           /\ \A d \in Seq(Nat) : Extended(e, d) \in [End -> StreamState]
           /\ \A b, r \in BOOLEAN : Finished(e, b, r) \in [End -> StreamState]
<1>. SUFFICES ASSUME NEW b \in BOOLEAN, NEW r \in BOOLEAN, NEW d \in Seq(Nat)
              PROVE  /\ BothEnd(e) \in [End -> StreamState]
                     /\ OutEnds(e, b) \in [End -> StreamState]
                     /\ Ended(e, b) \in [End -> StreamState]
                     /\ Extended(e, d) \in [End -> StreamState]
                     /\ Finished(e, b, r) \in [End -> StreamState]
  BY ShortSeqs, Zenon
<1>. USE DEF TypeOK, StreamState, InDone, OutDone
<1>1. OutEnds(e, b) \in [End -> StreamState]
  BY ZenonT(60) DEF OutEnds
<1>2. BothEnd(e) \in [End -> StreamState]
  BY ZenonT(60) DEF BothEnd
<1>3. Ended(e, b) \in [End -> StreamState]
  BY ShortSeqs DEF Ended
<1>4. Extended(e, d) \in [End -> StreamState]
  <2>1. stream[e] \in StreamState /\ stream[e].fragments \o d \in Seq(Nat)
    OBVIOUS
  <2>2. [stream[e] EXCEPT !.hasFragments = TRUE,
                          !.fragments = stream[e].fragments \o d]
          \in StreamState
    BY <2>1
  <2>. QED BY <2>2 DEF Extended
<1>5. Finished(e, b, r) \in [End -> StreamState]
  BY ShortSeqs DEF Finished
<1>. QED BY <1>1, <1>2, <1>3, <1>4, <1>5

LEMMA WireTyped ==
    ASSUME TypeOK, NEW e \in End, NEW fs \in Seq(Frame)
    PROVE  /\ Send(e, fs) => wire' \in [End -> Seq(Frame)]
           /\ wire[e] # <<>> /\ TakeAndSend(e, fs) =>
                /\ wire' \in [End -> Seq(Frame)]
                /\ Head(wire[e]) \in Frame
BY WiresTyped, Zenon DEF TypeOK

LEMMA ToldTyped ==
    ASSUME TypeOK, NEW e \in End, NEW c \in BOOLEAN, NEW ts \in Seq(Signal)
    PROVE  Told(e, c, ts) \in [End -> RcvState]
<1>1. rcv[e] \in RcvState
  BY DEF TypeOK
<1>2. rcv[e].cancels + Count(c) \in Nat /\ rcv[e].signals \o ts \in Seq(Signal)
  BY <1>1 DEF Count, RcvState
<1>3. [rcv[e] EXCEPT !.cancels = rcv[e].cancels + Count(c),
                     !.signals = rcv[e].signals \o ts] \in RcvState
  BY <1>1, <1>2, RcvFields
<1>. QED BY <1>3 DEF Told, TypeOK

LEMMA StoppedTyped ==
    ASSUME TypeOK, NEW e \in End
    PROVE  Stopped(e) \in [End -> RcvState]
<1>1. InDone(e) \in BOOLEAN /\ OutDone(e) \in BOOLEAN
  BY DEF TypeOK, StreamState, InDone, OutDone
<1>2. If(~InDone(e), OnError) \in Seq(Signal)
  BY <1>1, SignalsTyped
<1>. QED BY <1>1, <1>2, ToldTyped DEF Stopped

LEMMA ErrorCounted ==
    ASSUME NEW e \in End, NEW r \in [End -> RcvState], NEW b \in BOOLEAN
    PROVE  [r EXCEPT ![e].protocolErrors = @ + Count(b)] \in [End -> RcvState]
<1>1. r[e] \in RcvState /\ r[e].protocolErrors + Count(b) \in Nat
      /\ <<>> \in Seq(Signal)
  BY DEF RcvState, Count
<1>2. [r[e] EXCEPT !.protocolErrors = r[e].protocolErrors + Count(b)]
        \in RcvState
  BY <1>1, RcvFields
<1>. QED BY <1>2

\* The requester refuses a frame: its receiver is stopped, and a violation
\* counted if the frame came between fragments.
LEMMA RequesterRefuses ==
    ASSUME TypeOK, RequesterRefusesFrame
    PROVE  /\ stream' = Ended(Requester, FALSE) /\ TakeAndSend(Requester, <<CancelFrame>>)
           /\ rcv' \in [End -> RcvState] /\ rcv'[Responder] = rcv[Responder]
           /\ rcv'[Requester].signals = Stopped(Requester)[Requester].signals
           /\ rcv'[Requester].cancels = Stopped(Requester)[Requester].cancels
           /\ rcv'[Requester].granted = Stopped(Requester)[Requester].granted
           /\ ~stream[Requester].hasFragments =>
                rcv'[Requester].protocolErrors = Stopped(Requester)[Requester].protocolErrors
<1>. DEFINE s == Stopped(Requester)
            b == stream[Requester].hasFragments
<1>1. /\ Requester \in End /\ Responder \in End /\ Requester # Responder
      /\ b \in BOOLEAN
  BY DEF TypeOK, StreamState
<1>2. s \in [End -> RcvState] /\ s[Responder] = rcv[Responder]
  BY <1>1, StoppedTyped DEF Stopped, Told, TypeOK
<1>3. rcv' = [s EXCEPT ![Requester].protocolErrors = @ + Count(b)]
  BY DEF RequesterRefusesFrame
<1>. HIDE DEF s, b
<1>4. rcv' \in [End -> RcvState]
  BY <1>1, <1>2, <1>3, ErrorCounted
<1>5. /\ rcv'[Responder] = s[Responder]
      /\ rcv'[Requester].signals = s[Requester].signals
      /\ rcv'[Requester].cancels = s[Requester].cancels
      /\ rcv'[Requester].granted = s[Requester].granted
      /\ ~b => rcv'[Requester].protocolErrors = s[Requester].protocolErrors
  BY <1>1, <1>2, <1>3 DEF RcvState, Count
<1>. QED BY <1>2, <1>4, <1>5 DEF RequesterRefusesFrame, s, b

LEMMA GrantedTyped ==
    ASSUME TypeOK, NEW e \in End, NEW n \in Nat
    PROVE  Granted(e, n) \in [End -> RcvState]
<1>1. rcv[e] \in RcvState /\ rcv[e].granted + n \in Nat /\ <<>> \in Seq(Signal)
  BY DEF TypeOK, RcvState
<1>2. [rcv[e] EXCEPT !.granted = rcv[e].granted + n] \in RcvState
  BY <1>1, RcvFields
<1>. QED BY <1>2 DEF Granted, TypeOK

LEMMA PayloadSignalTyped ==
    ASSUME TypeOK, NEW e \in End, NEW f \in Frame
    PROVE  <<PayloadSignal(e, f)>> \in Seq(Signal)
<1>1. Reassembled(e, f.data) \in Seq(Nat)
  BY DEF Frame, TypeOK, StreamState, Reassembled
<1>2. PayloadSignal(e, f) \in Signal
  BY <1>1, SignalsTyped DEF PayloadSignal, OnNext, Signal, SignalKinds, Frame
<1>. QED BY <1>2, ShortSeqs

LEMMA AppTyped ==
    ASSUME TypeOK, NEW e \in End
    PROVE  /\ \A n \in Nat : Asked(e, n) \in [End -> AppState]
           /\ \A b \in BOOLEAN : Emitted(e, b) \in [End -> AppState]
           /\ [app EXCEPT ![e].quit = TRUE] \in [End -> AppState]
           /\ [app EXCEPT ![e].ended = "complete"] \in [End -> AppState]
           /\ [app EXCEPT ![e].ended = "error"] \in [End -> AppState]
           /\ [app EXCEPT ![e].extensions = @ + 1] \in [End -> AppState]
           /\ [app EXCEPT ![e].emitted = 1] \in [End -> AppState]
<1>. SUFFICES ASSUME NEW n \in Nat, NEW b \in BOOLEAN
              PROVE  /\ Asked(e, n) \in [End -> AppState]
                     /\ Emitted(e, b) \in [End -> AppState]
                     /\ [app EXCEPT ![e].quit = TRUE] \in [End -> AppState]
                     /\ [app EXCEPT ![e].ended = "complete"] \in [End -> AppState]
                     /\ [app EXCEPT ![e].ended = "error"] \in [End -> AppState]
                     /\ [app EXCEPT ![e].extensions = @ + 1] \in [End -> AppState]
                     /\ [app EXCEPT ![e].emitted = 1] \in [End -> AppState]
  BY Zenon
<1>. DEFINE a == app[e]
<1>0. a \in AppState
  BY DEF TypeOK
<1>1. /\ a.requests + 1 \in Nat /\ a.asked + n \in Nat
      /\ a.emitted + 1 \in Nat /\ a.extensions + 1 \in Nat
      /\ (IF b THEN "complete" ELSE a.ended) \in {"no", "complete", "error"}
  BY <1>0 DEF AppState
<1>1a. /\ [a EXCEPT !.requests = a.requests + 1, !.asked = a.asked + n]
             \in AppState
       /\ [a EXCEPT !.emitted = a.emitted + 1,
                    !.ended = IF b THEN "complete" ELSE a.ended] \in AppState
       /\ [a EXCEPT !.quit = TRUE] \in AppState
       /\ [a EXCEPT !.ended = "complete"] \in AppState
       /\ [a EXCEPT !.ended = "error"] \in AppState
       /\ [a EXCEPT !.extensions = a.extensions + 1] \in AppState
       /\ [a EXCEPT !.emitted = 1] \in AppState
  BY <1>0, <1>1, AppFields
<1>2. Asked(e, n) \in [End -> AppState]
  BY <1>1a DEF TypeOK, Asked
<1>3. Emitted(e, b) \in [End -> AppState]
  BY <1>1a DEF TypeOK, Emitted
<1>. QED BY <1>1a, <1>2, <1>3 DEF TypeOK

-----------------------------------------------------------------------------
(* Type correctness *)

LEMMA InitTyped == Init => TypeOK
<1>. SUFFICES ASSUME Init PROVE TypeOK
  OBVIOUS
<1>1. held \in Held
  BY BoundsAssumption DEF Init, Held
<1>2. stream \in [End -> StreamState]
  BY ShortSeqs DEF Init, StreamState
<1>3. wire \in [End -> Seq(Frame)] /\ open \in [End -> BOOLEAN]
  BY ShortSeqs DEF Init
<1>4. app \in [End -> AppState]
  BY <1>1 DEF Init, AppState, Held
<1>5. rcv \in [End -> RcvState]
  BY ShortSeqs DEF Init, RcvState
<1>. QED BY <1>1, <1>2, <1>3, <1>4, <1>5 DEF Init, TypeOK, First

LEMMA AnswerTyped == TypeOK /\ Answer => TypeOK'
<1>. SUFFICES ASSUME TypeOK, Answer PROVE TypeOK'
  OBVIOUS
<1>1. ASSUME NEW cut \in BOOLEAN, HandleReady(cut) PROVE TypeOK'
  <2>1. wire' \in [End -> Seq(Frame)]
    <3>1. If(held.hasExtension, ExtFrame) \in Seq(Frame)
      BY FramesTyped, ShortSeqs DEF If
    <3>2. RequestFrames(held.initialRequestN, held.isComplete, cut)
            \o If(held.hasExtension, ExtFrame) \in Seq(Frame)
      BY <3>1, FramesTyped DEF TypeOK, Held
    <3>. QED BY <1>1, <3>2, WireTyped DEF HandleReady
  <2>2. stream' \in [End -> StreamState]
    <3>1. stream[Requester] \in StreamState /\ held.isComplete \in BOOLEAN
      BY DEF TypeOK, Held
    <3>2. [stream[Requester] EXCEPT !.registered = TRUE,
                                    !.outDone = held.isComplete] \in StreamState
      BY <3>1, StreamFields, ShortSeqs
    <3>. QED BY <1>1, <3>2 DEF HandleReady, TypeOK
  <2>3. app' \in [End -> AppState]
    BY <1>1, AppTyped DEF HandleReady
  <2>. QED BY <1>1, <2>1, <2>2, <2>3 DEF HandleReady, TypeOK
<1>2. ASSUME HandleReadyDeclined PROVE TypeOK'
  BY <1>2 DEF HandleReadyDeclined, TypeOK
<1>3. ASSUME HandleReject PROVE TypeOK'
  <2>1. stream' \in [End -> StreamState]
    BY <1>3, StreamTyped, ShortSeqs DEF HandleReject, TypeOK
  <2>2. rcv' \in [End -> RcvState]
    BY <1>3, ToldTyped, SignalsTyped, ZenonT(60) DEF HandleReject, TypeOK
  <2>. QED BY <1>3, <2>1, <2>2 DEF HandleReject, TypeOK
<1>. QED BY <1>1, <1>2, <1>3 DEF Answer

LEMMA RequesterCallsTyped == TypeOK /\ RequesterCalls => TypeOK'
<1>. SUFFICES ASSUME TypeOK, RequesterCalls PROVE TypeOK'
  OBVIOUS
<1>0. Requester \in End /\ InDone(Requester) \in BOOLEAN
      /\ OutDone(Requester) \in BOOLEAN
  BY DEF TypeOK, StreamState, InDone, OutDone
<1>1. ASSUME NEW n \in Demands, RequesterRequest(n) PROVE TypeOK'
  <2>1. n \in Nat
    BY BoundsAssumption
  <2>2. app' \in [End -> AppState]
    BY <1>1, <2>1, AppTyped DEF RequesterRequest
  <2>3. held' \in Held /\ wire' \in [End -> Seq(Frame)]
    <3>1. CASE phase # "ready"
      <4>1. held' = [held EXCEPT !.initialRequestN = held.initialRequestN + n]
            /\ wire' = wire
        BY <1>1, <3>1 DEF RequesterRequest
      <4>2. held \in Held /\ held.initialRequestN + n \in Nat
        BY <2>1 DEF TypeOK, Held
      <4>. QED BY <4>1, <4>2 DEF TypeOK, Held
    <3>2. CASE phase = "ready"
      <4>1. <<RequestNFrame(n)>> \in Seq(Frame)
        BY <2>1, FramesTyped
      <4>. QED BY <1>1, <3>2, <4>1, <1>0, WireTyped DEF RequesterRequest, TypeOK
    <3>. QED BY <3>1, <3>2
  <2>. QED BY <1>1, <2>2, <2>3 DEF RequesterRequest, TypeOK
<1>2. ASSUME RequesterCancel PROVE TypeOK'
  <2>1. rcv' \in [End -> RcvState]
    BY <1>2, <1>0, ToldTyped, SignalsTyped DEF RequesterCancel
  <2>2. app' \in [End -> AppState]
    BY <1>2, AppTyped DEF RequesterCancel
  <2>3. /\ stream' \in [End -> StreamState]
        /\ wire' \in [End -> Seq(Frame)]
        /\ phase' \in {"pending", "ready", "rejected", "dropped"}
    <3>1. CASE phase # "ready"
      BY <1>2, <3>1, StreamTyped DEF RequesterCancel, TypeOK
    <3>2. CASE phase = "ready"
      <4>1. <<IF InDone(Requester) THEN ErrorFrame ELSE CancelFrame>>
              \in Seq(Frame)
        BY FramesTyped
      <4>. QED BY <1>2, <3>2, <4>1, <1>0, WireTyped, StreamTyped
               DEF RequesterCancel, TypeOK
    <3>. QED BY <3>1, <3>2
  <2>. QED BY <1>2, <2>1, <2>2, <2>3 DEF RequesterCancel, TypeOK
<1>3. ASSUME NEW c \in BOOLEAN, NEW cut \in BOOLEAN, RequesterOnNext(c, cut)
      PROVE  TypeOK'
  <2>1. PayloadFrames(app[Requester].emitted + 1, c, cut) \in Seq(Frame)
    BY FramesTyped DEF TypeOK, AppState
  <2>2. wire' \in [End -> Seq(Frame)]
    BY <1>3, <2>1, <1>0, WireTyped DEF RequesterOnNext
  <2>3. stream' \in [End -> StreamState] /\ app' \in [End -> AppState]
    BY <1>3, <1>0, StreamTyped, AppTyped DEF RequesterOnNext
  <2>. QED BY <1>3, <2>2, <2>3 DEF RequesterOnNext, TypeOK
<1>4. ASSUME RequesterOnComplete PROVE TypeOK'
  <2>1. held' \in Held
    BY <1>4 DEF RequesterOnComplete, TypeOK, Held
  <2>2. stream' \in [End -> StreamState] /\ app' \in [End -> AppState]
    BY <1>4, <1>0, StreamTyped, AppTyped, ZenonT(60) DEF RequesterOnComplete, TypeOK
  <2>3. <<CompleteFrame>> \in Seq(Frame)
    BY FramesTyped
  <2>4. wire' \in [End -> Seq(Frame)]
    BY <1>4, <1>0, <2>3, WireTyped DEF RequesterOnComplete, TypeOK
  <2>. QED BY <1>4, <2>1, <2>2, <2>4 DEF RequesterOnComplete, TypeOK
<1>5. ASSUME RequesterOnError PROVE TypeOK'
  <2>1. <<ErrorFrame>> \in Seq(Frame)
    BY FramesTyped
  <2>2. wire' \in [End -> Seq(Frame)]
    BY <1>5, <1>0, <2>1, WireTyped DEF RequesterOnError
  <2>3. stream' \in [End -> StreamState] /\ app' \in [End -> AppState]
    BY <1>5, <1>0, StreamTyped, AppTyped DEF RequesterOnError
  <2>4. If(~InDone(Requester), OnError) \in Seq(Signal)
    BY <1>0, SignalsTyped
  <2>5. rcv' \in [End -> RcvState]
    BY <1>5, <1>0, <2>4, ToldTyped DEF RequesterOnError
  <2>. QED BY <1>5, <2>2, <2>3, <2>5 DEF RequesterOnError, TypeOK
<1>6. ASSUME RequesterOnErrorThrows PROVE TypeOK'
  <2>1. stream' \in [End -> StreamState] /\ app' \in [End -> AppState]
    BY <1>6, <1>0, StreamTyped, AppTyped DEF RequesterOnErrorThrows
  <2>. QED BY <1>6, <2>1 DEF RequesterOnErrorThrows, TypeOK
<1>7. ASSUME RequesterOnNextThrows PROVE TypeOK'
  <2>1. stream' \in [End -> StreamState]
    BY <1>7, <1>0 DEF RequesterOnNextThrows, TypeOK, StreamState
  <2>2. app' \in [End -> AppState]
    BY <1>7, <1>0, AppTyped DEF RequesterOnNextThrows
  <2>. QED BY <1>7, <2>1, <2>2 DEF RequesterOnNextThrows, TypeOK
<1>8. ASSUME RequesterOnExtension PROVE TypeOK'
  <2>1. app' \in [End -> AppState]
    BY <1>8, <1>0, AppTyped DEF RequesterOnExtension
  <2>2. held' \in Held
    BY <1>8 DEF RequesterOnExtension, TypeOK, Held
  <2>3. <<ExtFrame>> \in Seq(Frame)
    BY FramesTyped
  <2>4. wire' \in [End -> Seq(Frame)]
    BY <1>8, <1>0, <2>3, WireTyped DEF RequesterOnExtension, TypeOK
  <2>. QED BY <1>8, <2>1, <2>2, <2>4 DEF RequesterOnExtension, TypeOK
<1>. QED BY <1>1, <1>2, <1>3, <1>4, <1>5, <1>6, <1>7, <1>8 DEF RequesterCalls

LEMMA RequesterHandlesTyped == TypeOK /\ RequesterHandles => TypeOK'
<1>. SUFFICES ASSUME TypeOK, RequesterHandles PROVE TypeOK'
  OBVIOUS
<1>. DEFINE f == Head(wire[Requester])
<1>0. /\ Requester \in End /\ InDone(Requester) \in BOOLEAN
      /\ OutDone(Requester) \in BOOLEAN /\ <<>> \in Seq(Frame)
      /\ <<>> \in Seq(Signal)
  BY DEF TypeOK, StreamState, InDone, OutDone
<1>1. ASSUME wire[Requester] # <<>>
      PROVE  f \in Frame
  BY <1>1 DEF TypeOK
<1>2. ASSUME NEW fs \in Seq(Frame), wire[Requester] # <<>>,
             TakeAndSend(Requester, fs)
      PROVE  wire' \in [End -> Seq(Frame)]
  BY <1>2, <1>0, WireTyped
<1>3. ASSUME RequesterHandlesPayload PROVE TypeOK'
  <2>1. f \in Frame /\ wire' \in [End -> Seq(Frame)]
    BY <1>3, <1>0, <1>1, <1>2 DEF RequesterHandlesPayload, Handles, Arrives
  <2>2. f.complete \in BOOLEAN /\ f.next \in BOOLEAN
    BY <2>1 DEF Frame
  <2>3. stream' \in [End -> StreamState]
    BY <1>3, <1>0, <2>2, StreamTyped DEF RequesterHandlesPayload
  <2>4. <<PayloadSignal(Requester, f)>> \in Seq(Signal)
    BY <2>1, <1>0, PayloadSignalTyped
  <2>5. rcv' \in [End -> RcvState]
    BY <1>3, <1>0, <2>4, ToldTyped DEF RequesterHandlesPayload
  <2>. QED BY <1>3, <2>1, <2>3, <2>5 DEF RequesterHandlesPayload, TypeOK
<1>4. ASSUME RequesterHandlesFragment PROVE TypeOK'
  <2>1. f \in Frame /\ wire' \in [End -> Seq(Frame)]
    BY <1>4, <1>0, <1>1, <1>2 DEF RequesterHandlesFragment, Handles, Arrives
  <2>2. stream' \in [End -> StreamState]
    BY <1>4, <1>0, <2>1, StreamTyped DEF RequesterHandlesFragment, Frame
  <2>. QED BY <1>4, <2>1, <2>2 DEF RequesterHandlesFragment, TypeOK
<1>5. ASSUME RequesterHandlesCancel PROVE TypeOK'
  <2>1. wire' \in [End -> Seq(Frame)]
    BY <1>5, <1>0, <1>2 DEF RequesterHandlesCancel, Handles, Arrives
  <2>2. stream' \in [End -> StreamState]
    BY <1>5, <1>0, StreamTyped DEF RequesterHandlesCancel, TypeOK
  <2>3. rcv' \in [End -> RcvState]
    <3>1. Told(Requester, TRUE, <<>>) \in [End -> RcvState]
      BY <1>0, ToldTyped
    <3>. QED BY <1>5, <3>1 DEF RequesterHandlesCancel, TypeOK
  <2>. QED BY <1>5, <2>1, <2>2, <2>3 DEF RequesterHandlesCancel, TypeOK
<1>6. ASSUME RequesterHandlesError PROVE TypeOK'
  <2>1. wire' \in [End -> Seq(Frame)]
    BY <1>6, <1>0, <1>2 DEF RequesterHandlesError, Handles, Arrives
  <2>2. stream' \in [End -> StreamState]
    BY <1>6, <1>0, StreamTyped DEF RequesterHandlesError
  <2>3. rcv' \in [End -> RcvState]
    BY <1>6, <1>0, ToldTyped, SignalsTyped DEF RequesterHandlesError
  <2>. QED BY <1>6, <2>1, <2>2, <2>3 DEF RequesterHandlesError, TypeOK
<1>7. ASSUME RequesterHandlesRequestN PROVE TypeOK'
  <2>1. f \in Frame
    BY <1>7, <1>1 DEF RequesterHandlesRequestN, Handles, Arrives
  <2>2. <<CancelFrame>> \in Seq(Frame)
    BY FramesTyped
  <2>3. wire' \in [End -> Seq(Frame)]
    BY <1>7, <1>0, <1>2, <2>2
       DEF RequesterHandlesRequestN, RequesterRefusesFrame, Handles, Arrives
  <2>4. stream' \in [End -> StreamState]
    BY <1>7, <1>0, StreamTyped
       DEF RequesterHandlesRequestN, RequesterRefusesFrame, TypeOK
  <2>5. rcv' \in [End -> RcvState]
    <3>1. RequesterRefusesFrame => rcv' \in [End -> RcvState]
      BY <1>0, RequesterRefuses
    <3>2. f.requestN \in Nat
      BY <2>1 DEF Frame
    <3>3. Granted(Requester, f.requestN) \in [End -> RcvState]
      BY <3>2, <1>0, GrantedTyped
    <3>. QED BY <1>7, <1>0, <3>1, <3>3 DEF RequesterHandlesRequestN, TypeOK
  <2>. QED BY <1>7, <2>3, <2>4, <2>5 DEF RequesterHandlesRequestN, TypeOK
<1>8. ASSUME RequesterHandlesExtension PROVE TypeOK'
  <2>1. wire' \in [End -> Seq(Frame)]
    BY <1>8, <1>0, <1>2 DEF RequesterHandlesExtension, Handles, Arrives
  <2>. QED BY <1>8, <2>1 DEF RequesterHandlesExtension, TypeOK
<1>9. ASSUME DropFrame(Requester) PROVE TypeOK'
  <2>1. wire' \in [End -> Seq(Frame)]
    BY <1>9, <1>0, <1>2 DEF DropFrame
  <2>. QED BY <1>9, <2>1 DEF DropFrame, TypeOK
<1>. QED BY <1>3, <1>4, <1>5, <1>6, <1>7, <1>8, <1>9 DEF RequesterHandles

LEMMA ResponderCallsTyped == TypeOK /\ ResponderCalls => TypeOK'
<1>. SUFFICES ASSUME TypeOK, ResponderCalls PROVE TypeOK'
  OBVIOUS
<1>0. Responder \in End /\ InDone(Responder) \in BOOLEAN
      /\ OutDone(Responder) \in BOOLEAN
  BY DEF TypeOK, StreamState, InDone, OutDone
<1>1. ASSUME NEW n \in Demands, ResponderRequest(n) PROVE TypeOK'
  <2>1. n \in Nat /\ <<RequestNFrame(n)>> \in Seq(Frame)
    BY BoundsAssumption, FramesTyped
  <2>2. app' \in [End -> AppState] /\ wire' \in [End -> Seq(Frame)]
    BY <1>1, <1>0, <2>1, AppTyped, WireTyped DEF ResponderRequest
  <2>. QED BY <1>1, <2>2 DEF ResponderRequest, TypeOK
<1>2. ASSUME ResponderCancel PROVE TypeOK'
  <2>1. <<CancelFrame>> \in Seq(Frame)
    BY FramesTyped
  <2>2. wire' \in [End -> Seq(Frame)] /\ app' \in [End -> AppState]
    BY <1>2, <1>0, <2>1, WireTyped, AppTyped DEF ResponderCancel
  <2>3. stream' \in [End -> StreamState]
    BY <1>2, <1>0, ZenonT(60) DEF ResponderCancel, InEnds, TypeOK, StreamState
  <2>. QED BY <1>2, <2>2, <2>3 DEF ResponderCancel, TypeOK
<1>3. ASSUME NEW c \in BOOLEAN, NEW cut \in BOOLEAN, ResponderOnNext(c, cut)
      PROVE  TypeOK'
  <2>1. PayloadFrames(app[Responder].emitted + 1, c, cut) \in Seq(Frame)
    BY FramesTyped DEF TypeOK, AppState
  <2>2. wire' \in [End -> Seq(Frame)]
    BY <1>3, <2>1, <1>0, WireTyped DEF ResponderOnNext
  <2>3. stream' \in [End -> StreamState] /\ app' \in [End -> AppState]
    BY <1>3, <1>0, StreamTyped, AppTyped DEF ResponderOnNext
  <2>. QED BY <1>3, <2>2, <2>3 DEF ResponderOnNext, TypeOK
<1>4. ASSUME ResponderOnComplete PROVE TypeOK'
  <2>1. <<CompleteFrame>> \in Seq(Frame)
    BY FramesTyped
  <2>2. wire' \in [End -> Seq(Frame)]
    BY <1>4, <1>0, <2>1, WireTyped DEF ResponderOnComplete
  <2>3. stream' \in [End -> StreamState] /\ app' \in [End -> AppState]
    BY <1>4, <1>0, StreamTyped, AppTyped DEF ResponderOnComplete
  <2>. QED BY <1>4, <2>2, <2>3 DEF ResponderOnComplete, TypeOK
<1>5. ASSUME ResponderOnError PROVE TypeOK'
  <2>1. <<ErrorFrame>> \in Seq(Frame)
    BY FramesTyped
  <2>2. wire' \in [End -> Seq(Frame)]
    BY <1>5, <1>0, <2>1, WireTyped DEF ResponderOnError
  <2>3. stream' \in [End -> StreamState] /\ app' \in [End -> AppState]
    BY <1>5, <1>0, StreamTyped, AppTyped DEF ResponderOnError
  <2>4. If(~InDone(Responder), OnError) \in Seq(Signal)
    BY <1>0, SignalsTyped
  <2>5. rcv' \in [End -> RcvState]
    BY <1>5, <1>0, <2>4, ToldTyped DEF ResponderOnError, TypeOK
  <2>6. first' \in First
    BY <1>5, <1>0 DEF ResponderOnError, TypeOK, First
  <2>. QED BY <1>5, <2>2, <2>3, <2>5, <2>6 DEF ResponderOnError, TypeOK
<1>6. ASSUME ResponderOnExtension PROVE TypeOK'
  <2>1. <<ExtFrame>> \in Seq(Frame)
    BY FramesTyped
  <2>2. wire' \in [End -> Seq(Frame)] /\ app' \in [End -> AppState]
    BY <1>6, <1>0, <2>1, WireTyped, AppTyped DEF ResponderOnExtension
  <2>. QED BY <1>6, <2>2 DEF ResponderOnExtension, TypeOK
<1>. QED BY <1>1, <1>2, <1>3, <1>4, <1>5, <1>6 DEF ResponderCalls

LEMMA ResponderHandlesTyped == TypeOK /\ ResponderHandles => TypeOK'
<1>. SUFFICES ASSUME TypeOK, ResponderHandles PROVE TypeOK'
  OBVIOUS
<1>. DEFINE f == Head(wire[Responder])
<1>0. /\ Responder \in End /\ InDone(Responder) \in BOOLEAN
      /\ OutDone(Responder) \in BOOLEAN /\ <<>> \in Seq(Frame)
      /\ <<>> \in Seq(Signal) /\ <<ErrorFrame>> \in Seq(Frame)
  <2>1. Responder \in End /\ InDone(Responder) \in BOOLEAN
        /\ OutDone(Responder) \in BOOLEAN
    BY DEF TypeOK, StreamState, InDone, OutDone
  <2>2. <<ErrorFrame>> \in Seq(Frame)
    BY FramesTyped
  <2>. QED BY <2>1, <2>2
<1>1. ASSUME wire[Responder] # <<>>
      PROVE  /\ f \in Frame /\ f.requestN \in Nat /\ f.data \in Seq(Nat)
             /\ f.complete \in BOOLEAN /\ f.follows \in BOOLEAN
  <2>1. f \in Frame
    BY <1>1 DEF TypeOK
  <2>. QED BY <2>1 DEF Frame
<1>2. ASSUME NEW fs \in Seq(Frame), wire[Responder] # <<>>,
             TakeAndSend(Responder, fs)
      PROVE  wire' \in [End -> Seq(Frame)]
  BY <1>2, <1>0, WireTyped
<1>3. ASSUME ResponderRejects PROVE TypeOK'
  <2>1. wire' \in [End -> Seq(Frame)]
    BY <1>3, <1>0, <1>2 DEF ResponderRejects, Arrives
  <2>. QED BY <1>3, <2>1 DEF ResponderRejects, TypeOK
<1>4. ASSUME ResponderRefusesDemand PROVE TypeOK'
  <2>1. wire' \in [End -> Seq(Frame)]
    BY <1>4, <1>0, <1>2 DEF ResponderRefusesDemand, Arrives
  <2>2. stream' \in [End -> StreamState]
    BY <1>4, <1>0, StreamTyped DEF ResponderRefusesDemand
  <2>. QED BY <1>4, <2>1, <2>2 DEF ResponderRefusesDemand, TypeOK
<1>5. ASSUME ResponderReceivesFirstFragment PROVE TypeOK'
  <2>1. /\ wire' \in [End -> Seq(Frame)]
        /\ f.requestN \in Nat /\ f.data \in Seq(Nat) /\ f.complete \in BOOLEAN
    BY <1>5, <1>0, <1>1, <1>2 DEF ResponderReceivesFirstFragment, Arrives
  <2>2. stream[Responder] \in StreamState
    BY DEF TypeOK
  <2>3. [stream[Responder] EXCEPT !.registered = TRUE, !.hasFragments = TRUE,
                                  !.fragments = f.data] \in StreamState
    BY <2>1, <2>2, StreamFields
  <2>4. stream' \in [End -> StreamState]
    BY <1>5, <2>3 DEF ResponderReceivesFirstFragment, TypeOK
  <2>5. first' \in First
    BY <1>5, <2>1 DEF ResponderReceivesFirstFragment, TypeOK, First
  <2>. QED BY <1>5, <2>1, <2>4, <2>5
           DEF ResponderReceivesFirstFragment, TypeOK
<1>6. ASSUME NEW d \in Seq(Nat), NEW n \in Nat, NEW c \in BOOLEAN,
             wire[Responder] # <<>>, CallHandler(d, n, c)
      PROVE  /\ wire' \in [End -> Seq(Frame)]
             /\ rcv' \in [End -> RcvState]
             /\ served' = "running"
  <2>1. rcv[Responder] \in RcvState /\ <<OnNext(d, c)>> \in Seq(Signal)
    <3>1. OnNext(d, c) \in Signal
      BY DEF OnNext, Signal, SignalKinds
    <3>. QED BY <3>1 DEF TypeOK
  <2>2. [rcv[Responder] EXCEPT !.signals = <<OnNext(d, c)>>, !.granted = n]
          \in RcvState
    BY <2>1, RcvFields
  <2>. QED BY <1>6, <1>0, <1>2, <2>2 DEF CallHandler, TypeOK
<1>7. ASSUME ResponderReceivesRequest PROVE TypeOK'
  <2>1. /\ f.requestN \in Nat /\ f.data \in Seq(Nat) /\ f.complete \in BOOLEAN
        /\ wire[Responder] # <<>>
    BY <1>7, <1>1 DEF ResponderReceivesRequest, Arrives
  <2>2. /\ wire' \in [End -> Seq(Frame)] /\ rcv' \in [End -> RcvState]
        /\ served' = "running"
    BY <1>7, <1>6, <2>1 DEF ResponderReceivesRequest
  <2>3. stream[Responder] \in StreamState
    BY DEF TypeOK
  <2>4. [stream[Responder] EXCEPT !.registered = TRUE, !.inDone = f.complete]
          \in StreamState
    BY <2>1, <2>3, StreamFields
  <2>5. stream' \in [End -> StreamState]
    BY <1>7, <2>4 DEF ResponderReceivesRequest, TypeOK
  <2>. QED BY <1>7, <2>2, <2>5 DEF ResponderReceivesRequest, TypeOK
<1>8. ASSUME ResponderReassemblesRequest PROVE TypeOK'
  <2>. DEFINE c == first.isComplete \/ f.complete
  <2>1. /\ f.data \in Seq(Nat) /\ c \in BOOLEAN
        /\ wire[Responder] # <<>> /\ first.initialRequestN \in Nat
    BY <1>8, <1>1 DEF ResponderReassemblesRequest, Handles, Arrives, TypeOK,
                      First
  <2>2. Reassembled(Responder, f.data) \in Seq(Nat)
    BY <2>1 DEF Reassembled, TypeOK, StreamState
  <2>3. /\ wire' \in [End -> Seq(Frame)] /\ rcv' \in [End -> RcvState]
        /\ served' = "running"
    BY <1>8, <1>6, <2>1, <2>2 DEF ResponderReassemblesRequest
  <2>4. stream' \in [End -> StreamState]
    BY <1>8, <1>0, <2>1, StreamTyped DEF ResponderReassemblesRequest
  <2>. QED BY <1>8, <2>3, <2>4 DEF ResponderReassemblesRequest, TypeOK
<1>9. ASSUME ResponderHandlesFragment PROVE TypeOK'
  <2>1. wire' \in [End -> Seq(Frame)] /\ f.data \in Seq(Nat)
    BY <1>9, <1>0, <1>1, <1>2 DEF ResponderHandlesFragment, Handles, Arrives
  <2>2. stream' \in [End -> StreamState]
    BY <1>9, <1>0, <2>1, StreamTyped DEF ResponderHandlesFragment
  <2>. QED BY <1>9, <2>1, <2>2 DEF ResponderHandlesFragment, TypeOK
<1>10. ASSUME ResponderHandlesPayload PROVE TypeOK'
  <2>1. /\ wire' \in [End -> Seq(Frame)] /\ f \in Frame
        /\ f.complete \in BOOLEAN
    BY <1>10, <1>0, <1>1, <1>2 DEF ResponderHandlesPayload, Handles, Arrives
  <2>2. stream' \in [End -> StreamState]
    BY <1>10, <1>0, <2>1, StreamTyped DEF ResponderHandlesPayload
  <2>3. <<PayloadSignal(Responder, f)>> \in Seq(Signal)
    BY <2>1, <1>0, PayloadSignalTyped
  <2>4. rcv' \in [End -> RcvState]
    BY <1>10, <1>0, <2>3, ToldTyped DEF ResponderHandlesPayload
  <2>. QED BY <1>10, <2>1, <2>2, <2>4 DEF ResponderHandlesPayload, TypeOK
<1>11. ASSUME ResponderHandlesEnd PROVE TypeOK'
  <2>1. wire' \in [End -> Seq(Frame)]
    BY <1>11, <1>0, <1>2 DEF ResponderHandlesEnd, Handles, Arrives
  <2>2. stream' \in [End -> StreamState]
    BY <1>11, <1>0, StreamTyped DEF ResponderHandlesEnd
  <2>3. rcv' \in [End -> RcvState]
    BY <1>11, <1>0, StoppedTyped DEF ResponderHandlesEnd, TypeOK
  <2>. QED BY <1>11, <2>1, <2>2, <2>3 DEF ResponderHandlesEnd, TypeOK
<1>12. ASSUME wire[Responder] # <<>>, ResponderRefusesFrame
       PROVE  /\ wire' \in [End -> Seq(Frame)]
              /\ stream' \in [End -> StreamState]
              /\ rcv' \in [End -> RcvState]
  <2>1. wire' \in [End -> Seq(Frame)]
    BY <1>12, <1>0, <1>2 DEF ResponderRefusesFrame
  <2>2. stream' \in [End -> StreamState]
    BY <1>12, <1>0, StreamTyped DEF ResponderRefusesFrame
  <2>3. (IF HasReceiver THEN Stopped(Responder) ELSE rcv) \in [End -> RcvState]
    BY <1>0, StoppedTyped DEF TypeOK
  <2>4. Reassembling \in BOOLEAN
    BY <1>0 DEF Reassembling, HasReceiver, TypeOK, StreamState
  <2>5. rcv' \in [End -> RcvState]
    BY <1>12, <1>0, <2>3, <2>4, ErrorCounted DEF ResponderRefusesFrame
  <2>. QED BY <2>1, <2>2, <2>5
<1>13. ASSUME ResponderHandlesRequestN PROVE TypeOK'
  <2>1. wire[Responder] # <<>> /\ f.requestN \in Nat
    BY <1>13, <1>1 DEF ResponderHandlesRequestN, Handles, Arrives
  <2>2. CASE Reassembling \/ f.requestN < 1
    BY <1>13, <2>1, <2>2, <1>12 DEF ResponderHandlesRequestN, TypeOK
  <2>3. CASE ~Reassembling /\ f.requestN >= 1
    <3>1. ~(f.requestN < 1)
      BY <2>1, <2>3
    <3>2. Granted(Responder, f.requestN) \in [End -> RcvState]
      BY <1>0, <2>1, GrantedTyped
    <3>. QED BY <1>13, <1>0, <1>2, <2>1, <2>3, <3>1, <3>2
             DEF ResponderHandlesRequestN, TypeOK
  <2>. QED BY <1>13, <2>2, <2>3 DEF ResponderHandlesRequestN
<1>14. ASSUME ResponderHandlesExtension PROVE TypeOK'
  <2>1. wire[Responder] # <<>>
    BY <1>14 DEF ResponderHandlesExtension, Handles, Arrives
  <2>. QED BY <1>14, <1>0, <1>2, <2>1, <1>12
           DEF ResponderHandlesExtension, TypeOK
<1>15. ASSUME DropFrame(Responder) PROVE TypeOK'
  <2>1. wire' \in [End -> Seq(Frame)]
    BY <1>15, <1>0, <1>2 DEF DropFrame
  <2>. QED BY <1>15, <2>1 DEF DropFrame, TypeOK
<1>. QED BY <1>3, <1>4, <1>5, <1>7, <1>8, <1>9, <1>10, <1>11, <1>13, <1>14,
            <1>15 DEF ResponderHandles

LEMMA HandlerEndsTyped == TypeOK /\ HandlerEnds => TypeOK'
<1>. SUFFICES ASSUME TypeOK, HandlerEnds PROVE TypeOK'
  OBVIOUS
<1>0. /\ Responder \in End /\ OutDone(Responder) \in BOOLEAN
      /\ first.deferred \in BOOLEAN
  BY DEF TypeOK, StreamState, OutDone, First
<1>1. ASSUME HandlerReturns PROVE TypeOK'
  <2>1. If(OutDone(Responder) /\ first.deferred, OnError) \in Seq(Signal)
    BY <1>0, SignalsTyped
  <2>2. rcv' \in [End -> RcvState]
    BY <1>1, <1>0, <2>1, ToldTyped DEF HandlerReturns
  <2>. QED BY <1>1, <2>2 DEF HandlerReturns, TypeOK
<1>2. ASSUME HandlerThrows PROVE TypeOK'
  <2>1. <<IF OutDone(Responder) THEN CancelFrame ELSE ErrorFrame>>
          \in Seq(Frame)
    BY FramesTyped
  <2>2. wire' \in [End -> Seq(Frame)]
    BY <1>2, <1>0, <2>1, WireTyped DEF HandlerThrows, TypeOK
  <2>3. stream' \in [End -> StreamState]
    BY <1>2, <1>0, StreamTyped DEF HandlerThrows, TypeOK
  <2>. QED BY <1>2, <2>2, <2>3 DEF HandlerThrows, TypeOK
<1>. QED BY <1>1, <1>2 DEF HandlerEnds

LEMMA CloseTyped ==
    ASSUME TypeOK, NEW e \in End, Close(e)
    PROVE  TypeOK'
<1>1. wire' \in [End -> Seq(Frame)]
  <2>1. PICK rest \in 0 .. (IF Chunked THEN Len(wire[e]) ELSE 0) :
            wire' = [wire EXCEPT ![e] = SubSeq(@, 1, rest)]
    BY DEF Close, Disconnect
  <2>2. SubSeq(wire[e], 1, rest) \in Seq(Frame)
    BY <2>1, SubSeqProperties DEF TypeOK
  <2>. QED BY <2>1, <2>2 DEF TypeOK
<1>2. stream' \in [End -> StreamState]
  BY StreamTyped, ZenonT(60) DEF Close, Disconnect, TypeOK
<1>3. rcv' \in [End -> RcvState]
  BY StoppedTyped DEF Close, Disconnect, TypeOK
<1>. QED BY <1>1, <1>2, <1>3 DEF Close, Disconnect, TypeOK

(***************************************************************************)
(* Every variable keeps its type, whatever the bounds and the transport.   *)
(***************************************************************************)
THEOREM TypeCorrect == Spec => []TypeOK
<1>1. Init => TypeOK
  BY InitTyped
<1>2. TypeOK /\ [Next]_vars => TypeOK'
  <2>1. TypeOK /\ Next => TypeOK'
    BY AnswerTyped, RequesterCallsTyped, ResponderCallsTyped, CloseTyped,
       RequesterHandlesTyped, ResponderHandlesTyped, HandlerEndsTyped DEF Next
  <2>2. TypeOK /\ UNCHANGED vars => TypeOK'
    BY DEF TypeOK, vars
  <2>. QED BY <2>1, <2>2
<1>. QED BY <1>1, <1>2, PTL DEF Spec

-----------------------------------------------------------------------------
(* The registry *)

(***************************************************************************)
(* RegistryExact is not inductive by itself: a step that puts the stream   *)
(* in the registry must know that the stream it finds has not ended.       *)
(***************************************************************************)
Fresh ==
    /\ phase = "pending" /\ InDone(Requester) => OutDone(Requester)
    /\ served = "none" => ~InDone(Responder) /\ ~OutDone(Responder)
    /\ phase # "ready" => ~stream[Requester].registered
    /\ served \in {"none", "refused"} => ~stream[Responder].registered

RegistryInv == RegistryExact /\ Fresh

\* What the updates of an end's stream do to the three fields that count.
Effects(e) ==
    /\ stream[e].inDone \in BOOLEAN /\ stream[e].outDone \in BOOLEAN
    /\ stream[e].registered \in BOOLEAN
    /\ \A d \in End \ {e} :
         /\ BothEnd(e)[d] = stream[d]
         /\ InEnds(e)[d] = stream[d]
         /\ \A b \in BOOLEAN : /\ OutEnds(e, b)[d] = stream[d]
                              /\ Ended(e, b)[d] = stream[d]
         /\ \A b, r \in BOOLEAN : Finished(e, b, r)[d] = stream[d]
    /\ BothEnd(e)[e].inDone /\ BothEnd(e)[e].outDone
    /\ ~BothEnd(e)[e].registered
    /\ InEnds(e)[e].inDone
    /\ InEnds(e)[e].outDone = stream[e].outDone
    /\ InEnds(e)[e].registered =
          (stream[e].registered /\ ~stream[e].outDone)
    /\ \A b \in BOOLEAN :
         /\ Ended(e, b)[e].inDone /\ Ended(e, b)[e].outDone
         /\ ~b => ~Ended(e, b)[e].registered
         /\ OutEnds(e, b)[e].inDone = stream[e].inDone
         /\ OutEnds(e, b)[e].outDone = (stream[e].outDone \/ b)
         /\ OutEnds(e, b)[e].registered =
               (stream[e].registered /\ ~(b /\ stream[e].inDone))
    /\ \A b, r \in BOOLEAN :
         /\ Finished(e, b, r)[e].inDone = (stream[e].inDone \/ b)
         /\ Finished(e, b, r)[e].outDone = stream[e].outDone
         /\ Finished(e, b, r)[e].registered =
               (stream[e].registered /\ ~(b /\ stream[e].outDone))

LEMMA StreamEffects ==
    ASSUME TypeOK, NEW e \in End
    PROVE  Effects(e)
<1>. USE DEF TypeOK, StreamState
<1>1. /\ stream[e].inDone \in BOOLEAN /\ stream[e].outDone \in BOOLEAN
      /\ stream[e].registered \in BOOLEAN
  OBVIOUS
<1>2. ASSUME NEW d \in End \ {e}, NEW b \in BOOLEAN, NEW r \in BOOLEAN
      PROVE  /\ BothEnd(e)[d] = stream[d] /\ OutEnds(e, b)[d] = stream[d]
             /\ Ended(e, b)[d] = stream[d] /\ Finished(e, b, r)[d] = stream[d]
             /\ InEnds(e)[d] = stream[d]
  BY DEF InEnds, BothEnd, OutEnds, Ended, Finished
<1>3. BothEnd(e)[e].inDone /\ BothEnd(e)[e].outDone /\ ~BothEnd(e)[e].registered
  BY DEF BothEnd
<1>4. ASSUME NEW b \in BOOLEAN
      PROVE  /\ Ended(e, b)[e].inDone /\ Ended(e, b)[e].outDone
             /\ ~b => ~Ended(e, b)[e].registered
  BY DEF Ended
<1>5. ASSUME NEW b \in BOOLEAN
      PROVE  /\ OutEnds(e, b)[e].inDone = stream[e].inDone
             /\ OutEnds(e, b)[e].outDone = (stream[e].outDone \/ b)
             /\ OutEnds(e, b)[e].registered =
                   (stream[e].registered /\ ~(b /\ stream[e].inDone))
  BY DEF OutEnds, InDone
<1>6. ASSUME NEW b \in BOOLEAN, NEW r \in BOOLEAN
      PROVE  /\ Finished(e, b, r)[e].inDone = (stream[e].inDone \/ b)
             /\ Finished(e, b, r)[e].outDone = stream[e].outDone
             /\ Finished(e, b, r)[e].registered =
                   (stream[e].registered /\ ~(b /\ stream[e].outDone))
  BY DEF Finished
<1>7. /\ InEnds(e)[e].inDone
      /\ InEnds(e)[e].outDone = stream[e].outDone
      /\ InEnds(e)[e].registered =
            (stream[e].registered /\ ~stream[e].outDone)
  BY DEF InEnds
<1>. QED BY <1>1, <1>2, <1>3, <1>4, <1>5, <1>6, <1>7, SMTT(60) DEF Effects

(***************************************************************************)
(* A step that updates one end's stream in one of the ways the handlers    *)
(* and the calls share keeps the invariant.                                *)
(***************************************************************************)
LEMMA UpdateKeepsRegistry ==
    ASSUME TypeOK, RegistryInv, UNCHANGED <<phase, served, open>>,
           NEW e \in End, NEW b \in BOOLEAN, NEW r \in BOOLEAN,
           e = Responder => served # "none",
           \/ stream' = BothEnd(e)
           \/ stream' = OutEnds(e, b)
           \/ stream' = Ended(e, FALSE)
           \/ stream' = Finished(e, b, r) /\ stream[e].registered
    PROVE  RegistryInv'
<1>1. Effects(e) /\ Effects(Peer(e)) /\ Peer(e) \in End \ {e}
  BY StreamEffects DEF Peer
<1>2. /\ stream'[Peer(e)] = stream[Peer(e)]
      /\ stream[e].inDone => stream'[e].inDone
      /\ stream[e].outDone => stream'[e].outDone
      /\ stream'[e].registered => stream[e].registered
      /\ stream'[e].inDone =>
            (stream[e].inDone \/ stream'[e].outDone \/ stream[e].registered)
      /\ (stream[e].registered /\ ~(stream[e].inDone /\ stream[e].outDone))
            => (stream'[e].registered <=>
                  ~(stream'[e].inDone /\ stream'[e].outDone))
  <2>1. CASE stream' = BothEnd(e)
    BY <1>1, <2>1 DEF Effects
  <2>2. CASE stream' = OutEnds(e, b)
    <3>1. /\ stream'[e].inDone = stream[e].inDone
          /\ stream'[e].outDone = (stream[e].outDone \/ b)
          /\ stream'[e].registered =
                (stream[e].registered /\ ~(b /\ stream[e].inDone))
          /\ stream'[Peer(e)] = stream[Peer(e)]
      BY <1>1, <2>2 DEF Effects
    <3>2. /\ stream[e].inDone \in BOOLEAN /\ stream[e].outDone \in BOOLEAN
          /\ stream[e].registered \in BOOLEAN
      BY <1>1 DEF Effects
    <3>. QED BY <3>1, <3>2
  <2>3. CASE stream' = Ended(e, FALSE)
    BY <1>1, <2>3, ZenonT(60) DEF Effects
  <2>4. CASE stream' = Finished(e, b, r) /\ stream[e].registered
    <3>1. /\ stream'[e].inDone = (stream[e].inDone \/ b)
          /\ stream'[e].outDone = stream[e].outDone
          /\ stream'[e].registered =
                (stream[e].registered /\ ~(b /\ stream[e].outDone))
          /\ stream'[Peer(e)] = stream[Peer(e)]
      BY <1>1, <2>4 DEF Effects
    <3>2. /\ stream[e].inDone \in BOOLEAN /\ stream[e].outDone \in BOOLEAN
          /\ stream[e].registered \in BOOLEAN
      BY <1>1 DEF Effects
    <3>. QED BY <2>4, <3>1, <3>2
  <2>. QED BY <2>1, <2>2, <2>3, <2>4
<1>5. Fresh'
  BY <1>2 DEF RegistryInv, Fresh, InDone, OutDone, Peer
<1>6. \A d \in End : open[d] => (stream'[d].registered <=>
            Started(d) /\ ~(stream'[d].inDone /\ stream'[d].outDone))
  <2>1. open[e] => (stream'[e].registered <=>
            Started(e) /\ ~(stream'[e].inDone /\ stream'[e].outDone))
    BY <1>2 DEF RegistryInv, RegistryExact, Over, InDone, OutDone
  <2>2. open[Peer(e)] => (stream'[Peer(e)].registered <=> Started(Peer(e)) /\
            ~(stream'[Peer(e)].inDone /\ stream'[Peer(e)].outDone))
    BY <1>1, <1>2 DEF RegistryInv, RegistryExact, Over, InDone, OutDone
  <2>. QED BY <2>1, <2>2 DEF Peer
<1>7. RegistryExact'
  BY <1>6 DEF RegistryExact, Started, Over, InDone, OutDone
<1>. QED BY <1>5, <1>7 DEF RegistryInv

\* A step that leaves alone what the invariant reads keeps it.
LEMMA UnchangedKeepsRegistry ==
    RegistryInv /\ UNCHANGED <<phase, served, open, stream>> => RegistryInv'
BY DEF RegistryInv, RegistryExact, Fresh, Started, Over, InDone, OutDone

LEMMA RequesterCallsRegistry ==
    TypeOK /\ RegistryInv /\ (Answer \/ RequesterCalls) => RegistryInv'
<1>. SUFFICES ASSUME TypeOK, RegistryInv, Answer \/ RequesterCalls
              PROVE  RegistryInv'
  OBVIOUS
<1>1. ASSUME NEW cut \in BOOLEAN, HandleReady(cut) PROVE RegistryInv'
  BY <1>1 DEF HandleReady, TypeOK, StreamState, Held, RegistryInv,
              RegistryExact, Fresh, Started, Over, InDone, OutDone
<1>2. ASSUME HandleReadyDeclined PROVE RegistryInv'
  BY <1>2 DEF HandleReadyDeclined, TypeOK, StreamState, RegistryInv,
              RegistryExact, Fresh, Started, Over, InDone, OutDone
<1>3. ASSUME HandleReject PROVE RegistryInv'
  BY <1>3, ZenonT(60) DEF HandleReject, BothEnd, TypeOK, StreamState, RegistryInv,
              RegistryExact, Fresh, Started, Over, InDone, OutDone
<1>4. ASSUME NEW n \in Demands, RequesterRequest(n) PROVE RegistryInv'
  BY <1>4, UnchangedKeepsRegistry DEF RequesterRequest
<1>5. ASSUME RequesterCancel PROVE RegistryInv'
  <2>1. CASE phase = "ready"
    BY <1>5, <2>1, UpdateKeepsRegistry DEF RequesterCancel
  <2>2. CASE phase # "ready"
    BY <1>5, <2>2, ZenonT(60) DEF RequesterCancel, BothEnd, TypeOK, StreamState,
       RegistryInv, RegistryExact, Fresh, Started, Over, InDone, OutDone
  <2>. QED BY <2>1, <2>2
<1>6. ASSUME NEW c \in BOOLEAN, NEW cut \in BOOLEAN, RequesterOnNext(c, cut)
      PROVE  RegistryInv'
  BY <1>6, UpdateKeepsRegistry DEF RequesterOnNext
<1>7. ASSUME RequesterOnComplete PROVE RegistryInv'
  <2>1. CASE UNCHANGED stream
    BY <1>7, <2>1, UnchangedKeepsRegistry DEF RequesterOnComplete
  <2>2. CASE stream' = OutEnds(Requester, TRUE)
    BY <1>7, <2>2, UpdateKeepsRegistry DEF RequesterOnComplete
  <2>. QED BY <1>7, <2>1, <2>2 DEF RequesterOnComplete
<1>8. ASSUME RequesterOnError \/ RequesterOnErrorThrows PROVE RegistryInv'
  BY <1>8, UpdateKeepsRegistry DEF RequesterOnError, RequesterOnErrorThrows
<1>9. ASSUME RequesterOnNextThrows PROVE RegistryInv'
  BY <1>9 DEF RequesterOnNextThrows, TypeOK, StreamState, RegistryInv,
              RegistryExact, Fresh, Started, Over, InDone, OutDone
<1>10. ASSUME RequesterOnExtension PROVE RegistryInv'
  BY <1>10, UnchangedKeepsRegistry DEF RequesterOnExtension
<1>. QED BY <1>1, <1>2, <1>3, <1>4, <1>5, <1>6, <1>7, <1>8, <1>9, <1>10
         DEF Answer, RequesterCalls

LEMMA ResponderCallsRegistry ==
    TypeOK /\ RegistryInv /\ (HandlerEnds \/ ResponderCalls) => RegistryInv'
<1>. SUFFICES ASSUME TypeOK, RegistryInv, HandlerEnds \/ ResponderCalls
              PROVE  RegistryInv'
  OBVIOUS
<1>. USE DEF HasStream
<1>1. ASSUME HandlerReturns PROVE RegistryInv'
  BY <1>1 DEF HandlerReturns, RegistryInv, RegistryExact, Fresh, Started,
              Over, InDone, OutDone
<1>2. ASSUME HandlerThrows PROVE RegistryInv'
  <2>1. CASE UNCHANGED stream
    BY <1>2, <2>1 DEF HandlerThrows, RegistryInv, RegistryExact, Fresh,
                      Started, Over, InDone, OutDone
  <2>2. CASE stream' = BothEnd(Responder)
    <3>1. Effects(Responder)
      BY StreamEffects
    <3>2. /\ stream'[Responder].inDone /\ stream'[Responder].outDone
          /\ ~stream'[Responder].registered
          /\ stream'[Requester] = stream[Requester]
      BY <2>2, <3>1 DEF Effects
    <3>. QED BY <1>2, <3>2 DEF HandlerThrows, RegistryInv, RegistryExact,
                Fresh, Started, Over, InDone, OutDone
  <2>. QED BY <1>2, <2>1, <2>2 DEF HandlerThrows
<1>3. ASSUME NEW n \in Demands, ResponderRequest(n) PROVE RegistryInv'
  BY <1>3, UnchangedKeepsRegistry DEF ResponderRequest
<1>4. ASSUME ResponderCancel PROVE RegistryInv'
  <2>1. /\ stream'[Responder].inDone
        /\ stream'[Responder].outDone = stream[Responder].outDone
        /\ stream'[Responder].registered =
              (stream[Responder].registered /\ ~stream[Responder].outDone)
        /\ stream'[Requester] = stream[Requester]
    BY <1>4, StreamEffects DEF ResponderCancel, Effects
  <2>. QED BY <1>4, <2>1 DEF ResponderCancel, RegistryInv, RegistryExact,
              Fresh, Started, Over, InDone, OutDone
<1>5. ASSUME NEW c \in BOOLEAN, NEW cut \in BOOLEAN, ResponderOnNext(c, cut)
      PROVE  RegistryInv'
  BY <1>5, UpdateKeepsRegistry DEF ResponderOnNext
<1>6. ASSUME ResponderOnComplete PROVE RegistryInv'
  BY <1>6, UpdateKeepsRegistry DEF ResponderOnComplete
<1>7. ASSUME ResponderOnError PROVE RegistryInv'
  BY <1>7, UpdateKeepsRegistry DEF ResponderOnError
<1>8. ASSUME ResponderOnExtension PROVE RegistryInv'
  BY <1>8, UnchangedKeepsRegistry DEF ResponderOnExtension
<1>. QED BY <1>1, <1>2, <1>3, <1>4, <1>5, <1>6, <1>7, <1>8
         DEF HandlerEnds, ResponderCalls

LEMMA RequesterHandlesRegistry ==
    TypeOK /\ RegistryInv /\ RequesterHandles => RegistryInv'
<1>. SUFFICES ASSUME TypeOK, RegistryInv, RequesterHandles PROVE RegistryInv'
  OBVIOUS
<1>. USE DEF Handles
<1>1. ASSUME RequesterHandlesPayload PROVE RegistryInv'
  <2>1. Head(wire[Requester]) \in Frame
    BY <1>1 DEF TypeOK, RequesterHandlesPayload, Arrives
  <2>2. /\ Head(wire[Requester]).complete \in BOOLEAN
        /\ Head(wire[Requester]).next \in BOOLEAN
    BY <2>1 DEF Frame
  <2>. QED BY <1>1, <2>2, UpdateKeepsRegistry DEF RequesterHandlesPayload
<1>2. ASSUME RequesterHandlesFragment PROVE RegistryInv'
  BY <1>2 DEF RequesterHandlesFragment, Extended, TypeOK, StreamState,
     RegistryInv, RegistryExact, Fresh, Started, Over, InDone, OutDone
<1>3. ASSUME RequesterHandlesCancel PROVE RegistryInv'
  <2>1. CASE OutDone(Requester)
    BY <1>3, <2>1, UnchangedKeepsRegistry DEF RequesterHandlesCancel
  <2>2. CASE ~OutDone(Requester)
    BY <1>3, <2>2, UpdateKeepsRegistry DEF RequesterHandlesCancel
  <2>. QED BY <2>1, <2>2
<1>4. ASSUME RequesterHandlesError PROVE RegistryInv'
  BY <1>4, UpdateKeepsRegistry DEF RequesterHandlesError
<1>5. ASSUME RequesterHandlesRequestN PROVE RegistryInv'
  <2>1. CASE UNCHANGED stream
    BY <1>5, <2>1, UnchangedKeepsRegistry DEF RequesterHandlesRequestN
  <2>2. CASE stream' = Ended(Requester, FALSE)
    BY <1>5, <2>2, UpdateKeepsRegistry DEF RequesterHandlesRequestN
  <2>. QED BY <1>5, <2>1, <2>2 DEF RequesterHandlesRequestN,
              RequesterRefusesFrame
<1>6. ASSUME RequesterHandlesExtension PROVE RegistryInv'
  BY <1>6, UnchangedKeepsRegistry DEF RequesterHandlesExtension
<1>7. ASSUME DropFrame(Requester) PROVE RegistryInv'
  BY <1>7, UnchangedKeepsRegistry DEF DropFrame
<1>. QED BY <1>1, <1>2, <1>3, <1>4, <1>5, <1>6, <1>7 DEF RequesterHandles

LEMMA ResponderHandlesRegistry ==
    TypeOK /\ RegistryInv /\ ResponderHandles => RegistryInv'
<1>. SUFFICES ASSUME TypeOK, RegistryInv, ResponderHandles PROVE RegistryInv'
  OBVIOUS
<1>1. ASSUME Handles(Responder, "PAYLOAD") PROVE Head(wire[Responder]) \in Frame
  BY <1>1 DEF TypeOK, Handles, Arrives
<1>2. ASSUME NEW t, Handles(Responder, t) PROVE served # "none"
  BY <1>2 DEF Handles, RegistryInv, Fresh
<1>3. ASSUME ResponderRejects PROVE RegistryInv'
  BY <1>3 DEF ResponderRejects, RegistryInv, RegistryExact, Fresh, Started,
              Over, InDone, OutDone
<1>4. ASSUME ResponderRefusesDemand PROVE RegistryInv'
  BY <1>4 DEF ResponderRefusesDemand, Ended, TypeOK, StreamState, RegistryInv,
              RegistryExact, Fresh, Started, Over, InDone, OutDone
<1>5. ASSUME ResponderReceivesFirstFragment PROVE RegistryInv'
  BY <1>5 DEF ResponderReceivesFirstFragment, TypeOK, StreamState, RegistryInv,
              RegistryExact, Fresh, Started, Over, InDone, OutDone
<1>6. ASSUME ResponderReceivesRequest PROVE RegistryInv'
  BY <1>6 DEF ResponderReceivesRequest, CallHandler, TypeOK, StreamState,
     RegistryInv, RegistryExact, Fresh, Started, Over, InDone, OutDone
<1>7. ASSUME ResponderReassemblesRequest PROVE RegistryInv'
  <2>. DEFINE isComplete == first.isComplete \/ Head(wire[Responder]).complete
  <2>1. isComplete \in BOOLEAN
    BY <1>1, <1>7 DEF ResponderReassemblesRequest, Frame, TypeOK, First
  <2>2. stream' = Finished(Responder, isComplete, TRUE)
    BY <1>7 DEF ResponderReassemblesRequest
  <2>3. Effects(Responder)
    BY StreamEffects
  <2>4. /\ stream'[Responder].inDone = (stream[Responder].inDone \/ isComplete)
        /\ stream'[Responder].outDone = stream[Responder].outDone
        /\ stream'[Responder].registered =
              (stream[Responder].registered
                 /\ ~(isComplete /\ stream[Responder].outDone))
        /\ stream'[Requester] = stream[Requester]
    BY <2>1, <2>2, <2>3, ZenonT(60) DEF Effects
  <2>5. /\ stream[Responder].inDone \in BOOLEAN
        /\ stream[Responder].outDone \in BOOLEAN
        /\ stream[Responder].registered \in BOOLEAN
    BY <2>3 DEF Effects
  <2>6. /\ UNCHANGED <<phase, open>> /\ served' = "running"
        /\ served \in {"reassembling", "running", "threw"}
    BY <1>7 DEF ResponderReassemblesRequest, CallHandler, Handles,
                HasReceiver, RegistryInv, Fresh, TypeOK
  <2>. HIDE DEF isComplete
  <2>7. Fresh'
    BY <2>4, <2>6 DEF RegistryInv, Fresh, InDone, OutDone
  <2>8. RegistryExact'
    BY <2>1, <2>4, <2>5, <2>6 DEF RegistryInv, RegistryExact, Started, Over,
       InDone, OutDone
  <2>. QED BY <2>7, <2>8 DEF RegistryInv
<1>8. ASSUME ResponderHandlesFragment PROVE RegistryInv'
  BY <1>8 DEF ResponderHandlesFragment, Extended, TypeOK, StreamState,
     RegistryInv, RegistryExact, Fresh, Started, Over, InDone, OutDone
<1>9. ASSUME ResponderHandlesPayload PROVE RegistryInv'
  <2>1. Head(wire[Responder]).complete \in BOOLEAN
    BY <1>1, <1>9 DEF ResponderHandlesPayload, Frame
  <2>. QED BY <1>2, <1>9, <2>1, UpdateKeepsRegistry
           DEF ResponderHandlesPayload, Handles
<1>10. ASSUME ResponderHandlesEnd PROVE RegistryInv'
  BY <1>2, <1>10, UpdateKeepsRegistry DEF ResponderHandlesEnd
<1>11. ASSUME ResponderHandlesRequestN PROVE RegistryInv'
  <2>1. CASE UNCHANGED stream
    BY <1>11, <2>1, UnchangedKeepsRegistry DEF ResponderHandlesRequestN
  <2>2. CASE stream' = Ended(Responder, FALSE)
    BY <1>2, <1>11, <2>2, UpdateKeepsRegistry DEF ResponderHandlesRequestN
  <2>. QED BY <1>11, <2>1, <2>2 DEF ResponderHandlesRequestN,
              ResponderRefusesFrame
<1>12. ASSUME ResponderHandlesExtension PROVE RegistryInv'
  <2>1. CASE UNCHANGED stream
    BY <1>12, <2>1, UnchangedKeepsRegistry DEF ResponderHandlesExtension
  <2>2. CASE stream' = Ended(Responder, FALSE)
    BY <1>2, <1>12, <2>2, UpdateKeepsRegistry DEF ResponderHandlesExtension
  <2>. QED BY <1>12, <2>1, <2>2 DEF ResponderHandlesExtension,
              ResponderRefusesFrame
<1>13. ASSUME DropFrame(Responder) PROVE RegistryInv'
  BY <1>13, UnchangedKeepsRegistry DEF DropFrame
<1>. QED BY <1>3, <1>4, <1>5, <1>6, <1>7, <1>8, <1>9, <1>10, <1>11, <1>12,
            <1>13 DEF ResponderHandles

LEMMA CloseRegistry ==
    ASSUME TypeOK, RegistryInv, NEW e \in End, Close(e)
    PROVE  RegistryInv'
BY DEF TypeOK, StreamState, RegistryInv, RegistryExact, Fresh, Started,
       Over, InDone, OutDone, Close, Disconnect, Ended

(***************************************************************************)
(* While its connection is open, an end's registry holds the stream        *)
(* exactly as long as one of its directions has not ended, on every path   *)
(* through the two stream classes and for every mix of calls and frames.   *)
(***************************************************************************)
THEOREM RegistryCorrect == Spec => []RegistryExact
<1>1. Init => RegistryInv
  BY DEF Init, RegistryInv, RegistryExact, Fresh, Started, Over, InDone, OutDone
<1>2. TypeOK /\ RegistryInv /\ [Next]_vars => RegistryInv'
  <2>1. TypeOK /\ RegistryInv /\ Next => RegistryInv'
    BY RequesterCallsRegistry, ResponderCallsRegistry, CloseRegistry,
       RequesterHandlesRegistry, ResponderHandlesRegistry DEF Next
  <2>2. RegistryInv /\ UNCHANGED vars => RegistryInv'
    BY DEF RegistryInv, RegistryExact, Fresh, Started, Over, InDone, OutDone,
           vars
  <2>. QED BY <2>1, <2>2
<1>3. RegistryInv => RegistryExact
  BY DEF RegistryInv
<1>. QED BY <1>1, <1>2, <1>3, TypeCorrect, PTL DEF Spec
=============================================================================
