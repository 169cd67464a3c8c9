-------------------- MODULE RequestChannelPromise_proofs --------------------
(***************************************************************************)
(* Theorems about what the two streams of RequestChannel call their        *)
(* applications with: never a protocol error, nobody left behind, and each *)
(* direction a Subscription.                                               *)
(***************************************************************************)
EXTENDS RequestChannelFlow_proofs

USE DEF End, Requester, Responder

(***************************************************************************)
(* A socket hands over one frame at a time (a WebSocket does): behind a    *)
(* frame that closes the connection, the rest of a TCP chunk is still      *)
(* given to a stream that has told its receiver of the end.                *)
(***************************************************************************)
OneFrameAtATime == ~Chunked

-----------------------------------------------------------------------------
(* What the updates of a stream do to its fragments, and what the updates  *)
(* of a receiver do to its signals and its counters.                       *)

FragmentEffects(e) ==
    /\ stream[e].hasFragments \in BOOLEAN /\ stream[e].fragments \in Seq(Nat)
    /\ BothEnd(e)[e].hasFragments = stream[e].hasFragments
    /\ BothEnd(e)[e].fragments = stream[e].fragments
    /\ InEnds(e)[e].hasFragments = stream[e].hasFragments
    /\ InEnds(e)[e].fragments = stream[e].fragments
    /\ \A b \in BOOLEAN :
         /\ OutEnds(e, b)[e].hasFragments = stream[e].hasFragments
         /\ OutEnds(e, b)[e].fragments = stream[e].fragments
         /\ ~Ended(e, b)[e].hasFragments /\ Ended(e, b)[e].fragments = <<>>
         /\ Ended(e, b)[e].registered = (b /\ stream[e].registered)
    /\ \A b, r \in BOOLEAN :
         /\ Finished(e, b, r)[e].hasFragments = (stream[e].hasFragments /\ ~r)
         /\ Finished(e, b, r)[e].fragments = IF r THEN <<>> ELSE stream[e].fragments
    /\ \A d \in Seq(Nat) :
         /\ Extended(e, d)[e].hasFragments
         /\ Extended(e, d)[e].fragments = stream[e].fragments \o d
         /\ Extended(e, d)[e].registered = stream[e].registered
         /\ Extended(e, d)[e].inDone = stream[e].inDone
         /\ Extended(e, d)[e].outDone = stream[e].outDone
         /\ \A p \in End \ {e} : Extended(e, d)[p] = stream[p]

LEMMA StreamFragments ==
    ASSUME TypeOK, NEW e \in End
    PROVE  FragmentEffects(e)
<1>. stream \in [End -> StreamState] /\ stream[e] \in StreamState
  BY DEF TypeOK
<1>1. stream[e].hasFragments \in BOOLEAN /\ stream[e].fragments \in Seq(Nat)
  BY DEF StreamState
<1>2. /\ BothEnd(e)[e].hasFragments = stream[e].hasFragments
      /\ BothEnd(e)[e].fragments = stream[e].fragments
      /\ InEnds(e)[e].hasFragments = stream[e].hasFragments
      /\ InEnds(e)[e].fragments = stream[e].fragments
  BY DEF BothEnd, InEnds, StreamState
<1>3. ASSUME NEW b \in BOOLEAN
      PROVE  /\ OutEnds(e, b)[e].hasFragments = stream[e].hasFragments
             /\ OutEnds(e, b)[e].fragments = stream[e].fragments
  BY DEF OutEnds, StreamState
<1>4. ASSUME NEW b \in BOOLEAN
      PROVE  /\ ~Ended(e, b)[e].hasFragments /\ Ended(e, b)[e].fragments = <<>>
             /\ Ended(e, b)[e].registered = (b /\ stream[e].registered)
  BY DEF Ended, StreamState
<1>5. ASSUME NEW b \in BOOLEAN, NEW r \in BOOLEAN
      PROVE  /\ Finished(e, b, r)[e].hasFragments = (stream[e].hasFragments /\ ~r)
             /\ Finished(e, b, r)[e].fragments = IF r THEN <<>> ELSE stream[e].fragments
  BY DEF Finished, StreamState
<1>6. ASSUME NEW d \in Seq(Nat)
      PROVE  /\ Extended(e, d)[e].hasFragments
             /\ Extended(e, d)[e].fragments = stream[e].fragments \o d
             /\ Extended(e, d)[e].registered = stream[e].registered
             /\ Extended(e, d)[e].inDone = stream[e].inDone
             /\ Extended(e, d)[e].outDone = stream[e].outDone
             /\ \A p \in End \ {e} : Extended(e, d)[p] = stream[p]
  BY DEF Extended, StreamState
<1>7. \A b \in BOOLEAN :
         /\ OutEnds(e, b)[e].hasFragments = stream[e].hasFragments
         /\ OutEnds(e, b)[e].fragments = stream[e].fragments
         /\ ~Ended(e, b)[e].hasFragments /\ Ended(e, b)[e].fragments = <<>>
         /\ Ended(e, b)[e].registered = (b /\ stream[e].registered)
  BY <1>3, <1>4
<1>. QED BY <1>1, <1>2, <1>5, <1>6, <1>7, Zenon DEF FragmentEffects

RcvEffects(e) ==
    /\ rcv[e].signals \in Seq(Signal) /\ rcv[e].cancels \in Nat
    /\ \A c \in BOOLEAN, ss \in Seq(Signal) :
         /\ Told(e, c, ss)[e].signals = rcv[e].signals \o ss
         /\ Told(e, c, ss)[e].cancels = rcv[e].cancels + Count(c)
         /\ Told(e, c, ss)[e].protocolErrors = rcv[e].protocolErrors
         /\ \A d \in End \ {e} : Told(e, c, ss)[d] = rcv[d]
    /\ \A n \in Nat :
         /\ Granted(e, n)[e].signals = rcv[e].signals
         /\ Granted(e, n)[e].cancels = rcv[e].cancels
         /\ Granted(e, n)[e].protocolErrors = rcv[e].protocolErrors
         /\ \A d \in End \ {e} : Granted(e, n)[d] = rcv[d]

LEMMA ReceiverEffects ==
    ASSUME TypeOK, NEW e \in End
    PROVE  RcvEffects(e)
<1>. rcv \in [End -> RcvState] /\ rcv[e] \in RcvState
  BY DEF TypeOK
<1>1. rcv[e].signals \in Seq(Signal) /\ rcv[e].cancels \in Nat
  BY DEF RcvState
<1>2. ASSUME NEW c \in BOOLEAN, NEW ss \in Seq(Signal)
      PROVE  /\ Told(e, c, ss)[e].signals = rcv[e].signals \o ss
             /\ Told(e, c, ss)[e].cancels = rcv[e].cancels + Count(c)
             /\ Told(e, c, ss)[e].protocolErrors = rcv[e].protocolErrors
             /\ \A d \in End \ {e} : Told(e, c, ss)[d] = rcv[d]
  BY DEF Told, RcvState
<1>3. ASSUME NEW n \in Nat
      PROVE  /\ Granted(e, n)[e].signals = rcv[e].signals
             /\ Granted(e, n)[e].cancels = rcv[e].cancels
             /\ Granted(e, n)[e].protocolErrors = rcv[e].protocolErrors
             /\ \A d \in End \ {e} : Granted(e, n)[d] = rcv[d]
  BY DEF Granted, RcvState
<1>. QED BY <1>1, <1>2, <1>3, Zenon DEF RcvEffects

-----------------------------------------------------------------------------
(* Who acts                                                                *)

\* A step of one end leaves what belongs to the other one.
LEMMA RequesterLeaves ==
    ASSUME TypeOK, RequesterActs
    PROVE  /\ UNCHANGED <<served, first, open>>
           /\ stream'[Responder] = stream[Responder]
           /\ rcv'[Responder] = rcv[Responder] /\ app'[Responder] = app[Responder]
<1>. /\ Effects(Requester) /\ FragmentEffects(Requester) /\ RcvEffects(Requester)
     /\ stream \in [End -> StreamState] /\ rcv \in [End -> RcvState]
     /\ app \in [End -> AppState] /\ Responder \in End \ {Requester}
  BY StreamEffects, StreamFragments, ReceiverEffects DEF TypeOK
<1>1. ASSUME Answer \/ RequesterCalls
      PROVE  /\ UNCHANGED <<served, first, open>>
             /\ stream'[Responder] = stream[Responder]
             /\ rcv'[Responder] = rcv[Responder] /\ app'[Responder] = app[Responder]
  BY <1>1 DEF Answer, HandleReady, HandleReadyDeclined, HandleReject,
     RequesterCalls, RequesterRequest, RequesterCancel, RequesterOnNext,
     RequesterOnComplete, RequesterOnError, RequesterOnErrorThrows,
     RequesterOnNextThrows, RequesterOnExtension, BothEnd, OutEnds, Ended, Told,
     Asked, Emitted
<1>2. ASSUME RequesterHandles
      PROVE  /\ UNCHANGED <<served, first, open>>
             /\ stream'[Responder] = stream[Responder]
             /\ rcv'[Responder] = rcv[Responder] /\ app'[Responder] = app[Responder]
  <2>1. UNCHANGED <<served, first, open, app>>
    BY <1>2 DEF RequesterHandles, RequesterHandlesPayload, RequesterHandlesFragment,
       RequesterHandlesCancel, RequesterHandlesError, RequesterHandlesRequestN,
       RequesterHandlesExtension, DropFrame
  <2>2. CASE RequesterRefusesFrame
    BY <2>1, <2>2, RequesterRefuses DEF Ended
  <2>3. CASE ~RequesterRefusesFrame
    BY <1>2, <2>3 DEF RequesterHandles, RequesterHandlesPayload, RequesterHandlesFragment,
       RequesterHandlesCancel, RequesterHandlesError, RequesterHandlesRequestN,
       RequesterHandlesExtension, DropFrame,
       Finished, Extended, OutEnds, Ended, Told, Granted
  <2>. QED BY <2>2, <2>3
<1>. QED BY <1>1, <1>2 DEF RequesterActs

LEMMA ResponderLeaves ==
    ASSUME TypeOK, ResponderActs
    PROVE  /\ UNCHANGED <<phase, held, open>>
           /\ stream'[Requester] = stream[Requester]
           /\ rcv'[Requester] = rcv[Requester] /\ app'[Requester] = app[Requester]
<1>. /\ stream \in [End -> StreamState] /\ rcv \in [End -> RcvState]
     /\ app \in [End -> AppState] /\ Responder # Requester
  BY DEF TypeOK
<1>1. ASSUME ResponderCalls \/ HandlerEnds
      PROVE  /\ UNCHANGED <<phase, held, open>>
             /\ stream'[Requester] = stream[Requester]
             /\ rcv'[Requester] = rcv[Requester] /\ app'[Requester] = app[Requester]
  BY <1>1 DEF ResponderCalls, ResponderRequest, ResponderCancel, ResponderOnNext,
     ResponderOnComplete, ResponderOnError, ResponderOnExtension, HandlerEnds,
     HandlerReturns, HandlerThrows, BothEnd, InEnds, OutEnds, Told, Asked, Emitted
<1>2. ASSUME ResponderHandles
      PROVE  /\ UNCHANGED <<phase, held, open>>
             /\ stream'[Requester] = stream[Requester]
             /\ rcv'[Requester] = rcv[Requester] /\ app'[Requester] = app[Requester]
  BY <1>2 DEF ResponderHandles, ResponderRejects, ResponderRefusesDemand,
     ResponderReceivesFirstFragment, ResponderReceivesRequest,
     ResponderReassemblesRequest, CallHandler, ResponderHandlesFragment,
     ResponderHandlesPayload, ResponderHandlesEnd, ResponderHandlesRequestN,
     ResponderRefusesFrame, ResponderHandlesExtension, DropFrame, Stopped,
     Finished, Extended, Ended, Told, Granted
<1>. QED BY <1>1, <1>2 DEF ResponderActs

LEMMA CloseLeaves ==
    ASSUME TypeOK, NEW e \in End, Close(e)
    PROVE  /\ UNCHANGED <<phase, held, served, first, app>>
           /\ \A d \in End \ {e} : stream'[d] = stream[d] /\ rcv'[d] = rcv[d]
BY StreamEffects, ReceiverEffects
   DEF Close, Stopped, Effects, RcvEffects, Ended, Told, TypeOK

\* What is on its way to an end that has closed: nothing.
QuietInv == \A e \in End : ~open[e] => wire[e] = <<>>

LEMMA QuietSteps ==
    ASSUME OneFrameAtATime, TypeOK, QuietInv, Next PROVE QuietInv'
<1>. wire \in [End -> Seq(Frame)]
  BY DEF TypeOK
<1>1. CASE UNCHANGED <<wire, open>>
  BY <1>1 DEF QuietInv
<1>2. ASSUME NEW e \in End, NEW fs \in Seq(Frame), Speaks(e, fs) PROVE QuietInv'
  <2>. DEFINE p == Peer(e)
  <2>1. Posts(e, fs) /\ UNCHANGED open
    BY <1>2 DEF Speaks
  <2>2. /\ p \in End /\ p # e /\ (~BothOpen => wire'[p] = wire[p])
        /\ wire'[e] = wire[e] \/ wire[e] # <<>>
    BY <2>1, PostsWires DEF Posts, Takes
  <2>3. \A d \in End : d = e \/ d = p
    BY <2>2
  <2>4. \A d \in End : ~open[d] => ~BothOpen
    BY DEF BothOpen
  <2>. HIDE DEF p
  <2>. QED BY <2>1, <2>2, <2>3, <2>4 DEF QuietInv
<1>3. ASSUME NEW e \in End, Close(e) PROVE QuietInv'
  <2>. DEFINE p == Peer(e)
  <2>1. /\ p \in End /\ p # e /\ wire'[p] = wire[p] /\ open'[p] = open[p]
        /\ wire'[e] = <<>>
    BY <1>3, CloseWires DEF OneFrameAtATime
  <2>2. \A d \in End : d = e \/ d = p
    BY <2>1
  <2>. HIDE DEF p
  <2>. QED BY <2>1, <2>2 DEF QuietInv
<1>. QED BY <1>1, <1>2, <1>3, StepsSpeak

-----------------------------------------------------------------------------
(* Never a protocol error                                                  *)

(***************************************************************************)
(* While the responder collects the fragments of a payload, the next frame *)
(* on its way to it is the next fragment: none of the frames it may not    *)
(* get meanwhile.                                                          *)
(***************************************************************************)
Collecting == served = "reassembling" \/ stream[Responder].hasFragments

PartInv ==
    /\ served = "none" => ~stream[Responder].hasFragments
    /\ open[Responder] /\ stream[Responder].registered /\ Collecting
         => wire[Responder] # <<>> /\ wire[Responder][1].type = "PAYLOAD"

\* The same at the requester, which empties its holder for a NEXT only.
RequesterPartInv ==
    /\ phase = "pending" => ~stream[Requester].hasFragments
    /\ open[Requester] /\ stream[Requester].registered /\ stream[Requester].hasFragments
         => /\ wire[Requester] # <<>>
            /\ wire[Requester][1].type = "PAYLOAD" /\ wire[Requester][1].next

\* What is sent to an end is put behind what it waits for.
LEMMA HeadKept ==
    ASSUME NEW q \in Seq(Frame), NEW fs \in Seq(Frame), q # <<>>
    PROVE  q \o fs # <<>> /\ (q \o fs)[1] = q[1]
<1>1. 1 \in 1 .. Len(q)
  OBVIOUS
<1>. QED BY <1>1, ConcatProperties, EmptySeq

LEMMA PartKept ==
    ASSUME TypeOK, PartInv, UNCHANGED <<served, open>>,
           stream'[Responder].registered => stream[Responder].registered,
           stream'[Responder].hasFragments = stream[Responder].hasFragments,
           NEW fs \in Seq(Frame), wire'[Responder] \in {wire[Responder], wire[Responder] \o fs}
    PROVE  PartInv'
<1>. DEFINE q == wire[Responder]
<1>1. q \in Seq(Frame)
  BY DEF TypeOK
<1>2. q # <<>> => q \o fs # <<>> /\ (q \o fs)[1] = q[1]
  BY <1>1, HeadKept
<1>. HIDE DEF q
<1>3. q # <<>> => wire'[Responder] # <<>> /\ wire'[Responder][1] = q[1]
  BY <1>2 DEF q
<1>. QED BY <1>3 DEF PartInv, Collecting, q

LEMMA PartTaken ==
    ASSUME TypeOK, CutInv, NEW e \in End, open[e], wire[e] # <<>>, Head(wire[e]).follows
    PROVE  /\ Tail(wire[e]) # <<>>
           /\ Tail(wire[e])[1].type = "PAYLOAD" /\ Tail(wire[e])[1].next
<1>. DEFINE q == wire[e]
<1>1. q \in Seq(Frame) /\ Contiguous(q) /\ Head(q) = q[1]
  BY DEF TypeOK, CutInv
<1>. HIDE DEF q
<1>2. q # <<>> /\ q[1].follows
  BY <1>1 DEF q
<1>3. Tail(q) # <<>> /\ Tail(q)[1].type = "PAYLOAD" /\ Tail(q)[1].next
  BY <1>1, <1>2, TakenSendable
<1>. QED BY <1>3 DEF q

\* A frame for the responder comes while its end is open.
LEMMA ResponderTakes ==
    ASSUME TypeOK, QuietInv, ResponderHandles
    PROVE  /\ open[Responder] /\ wire[Responder] # <<>>
           /\ wire'[Responder] = Tail(wire[Responder]) /\ UNCHANGED open
<1>1. /\ wire[Responder] # <<>> /\ UNCHANGED open
      /\ TakeAndSend(Responder, <<>>) \/ TakeAndSend(Responder, <<ErrorFrame>>)
  BY DEF ResponderHandles, ResponderRejects, ResponderRefusesDemand,
     ResponderReceivesFirstFragment, ResponderReceivesRequest,
     ResponderReassemblesRequest, CallHandler, ResponderHandlesFragment,
     ResponderHandlesPayload, ResponderHandlesEnd, ResponderHandlesRequestN,
     ResponderRefusesFrame, ResponderHandlesExtension, DropFrame, Handles, Arrives
<1>2. open[Responder]
  BY <1>1 DEF QuietInv
<1>3. wire'[Responder] = Tail(wire[Responder])
  BY <1>1 DEF TakeAndSend
<1>. QED BY <1>1, <1>2, <1>3

LEMMA PartSteps ==
    ASSUME TypeOK, QuietInv, CutInv, RegistryInv, PartInv, Next
    PROVE  PartInv'
<1>. /\ Effects(Responder) /\ FragmentEffects(Responder)
     /\ stream \in [End -> StreamState] /\ wire \in [End -> Seq(Frame)]
     /\ Peer(Requester) = Responder /\ Requester # Responder
  BY StreamEffects, StreamFragments DEF TypeOK, Peer
<1>1. ASSUME RequesterActs PROVE PartInv'
  <2>1. /\ UNCHANGED <<served, open>> /\ stream'[Responder] = stream[Responder]
    BY <1>1, RequesterLeaves
  <2>2. PICK fs \in Seq(Frame) : wire'[Responder] \in {wire[Responder], wire[Responder] \o fs}
    <3>1. CASE UNCHANGED <<wire, open>>
      BY <3>1
    <3>2. ASSUME NEW fs \in Seq(Frame), Speaks(Requester, fs)
          PROVE  wire'[Responder] \in {wire[Responder], wire[Responder] \o fs}
      BY <3>2, PostsWires DEF Speaks
    <3>. QED BY <1>1, <3>1, <3>2, ActorsSpeak
  <2>. QED BY <2>1, <2>2, PartKept
<1>2. ASSUME ResponderCalls \/ HandlerEnds PROVE PartInv'
  <2>1. /\ wire'[Responder] = wire[Responder] /\ UNCHANGED open
        /\ served' = served \/ (served = "running" /\ served' \in {"active", "threw"})
    BY <1>2 DEF ResponderCalls, ResponderRequest, ResponderCancel, ResponderOnNext,
       ResponderOnComplete, ResponderOnError, ResponderOnExtension, HandlerEnds,
       HandlerReturns, HandlerThrows, Send, Peer
  <2>2. /\ stream'[Responder].registered => stream[Responder].registered
        /\ stream'[Responder].hasFragments = stream[Responder].hasFragments
    <3>1. \/ stream' = stream \/ stream' = BothEnd(Responder) \/ stream' = InEnds(Responder)
          \/ \E b \in BOOLEAN : stream' = OutEnds(Responder, b)
      BY <1>2 DEF ResponderCalls, ResponderRequest, ResponderCancel, ResponderOnNext,
         ResponderOnComplete, ResponderOnError, ResponderOnExtension, HandlerEnds,
         HandlerReturns, HandlerThrows
    <3>2. ASSUME NEW b \in BOOLEAN, stream' = OutEnds(Responder, b)
          PROVE  /\ stream'[Responder].registered => stream[Responder].registered
                 /\ stream'[Responder].hasFragments = stream[Responder].hasFragments
      BY <3>2 DEF Effects, FragmentEffects
    <3>3. CASE stream' = BothEnd(Responder) \/ stream' = InEnds(Responder)
      BY <3>3 DEF Effects, FragmentEffects
    <3>. QED BY <3>1, <3>2, <3>3
  <2>. QED BY <2>1, <2>2 DEF PartInv, Collecting
<1>3. ASSUME ResponderHandles PROVE PartInv'
  <2>. DEFINE q == wire[Responder]
  <2>1. open[Responder] /\ q # <<>> /\ wire'[Responder] = Tail(q) /\ UNCHANGED open
    BY <1>3, ResponderTakes
  <2>2. Head(q).follows => Tail(q) # <<>> /\ Tail(q)[1].type = "PAYLOAD"
    BY <2>1, PartTaken
  <2>3. /\ served' = "none" => ~stream'[Responder].hasFragments
        /\ stream'[Responder].registered /\ Collecting' => Head(q).follows
    <3>. HIDE DEF q
    <3>. /\ first.isComplete \in BOOLEAN /\ Head(q).complete \in BOOLEAN
         /\ Head(q) \in Frame
      <4>1. q \in Seq(Frame) /\ first.isComplete \in BOOLEAN
        BY DEF TypeOK, First, q
      <4>2. Head(q) \in Frame
        BY <2>1, <4>1, Taken DEF q
      <4>. QED BY <4>1, <4>2 DEF Frame
    <3>1. CASE ResponderRejects \/ ResponderRefusesDemand
      BY <3>1 DEF ResponderRejects, ResponderRefusesDemand, PartInv, Collecting,
         FragmentEffects
    <3>2. CASE ResponderReceivesFirstFragment
      BY <3>2 DEF ResponderReceivesFirstFragment, q
    <3>3. CASE ResponderReceivesRequest
      BY <3>3 DEF ResponderReceivesRequest, CallHandler, PartInv, Collecting, StreamState
    <3>4. CASE ResponderReassemblesRequest
      <4>. DEFINE c == first.isComplete \/ Head(q).complete
      <4>1. /\ c \in BOOLEAN /\ stream' = Finished(Responder, c, TRUE)
            /\ served' = "running"
        BY <3>4 DEF ResponderReassemblesRequest, CallHandler, q
      <4>. HIDE DEF c
      <4>2. ~stream'[Responder].hasFragments
        BY <4>1 DEF FragmentEffects
      <4>. QED BY <4>1, <4>2 DEF Collecting
    <3>5. CASE ResponderHandlesFragment
      <4>1. Head(q).follows /\ stream[Responder].registered /\ UNCHANGED served
            /\ stream' = Extended(Responder, Head(q).data)
        BY <3>5 DEF ResponderHandlesFragment, Handles, q
      <4>. QED BY <4>1 DEF RegistryInv, Fresh
    <3>6. CASE ResponderHandlesPayload
      <4>1. /\ stream' = Finished(Responder, Head(q).complete, TRUE)
            /\ served' = "active" /\ served = "active"
        BY <3>6 DEF ResponderHandlesPayload, HasReceiver, q
      <4>2. ~stream'[Responder].hasFragments
        BY <4>1 DEF FragmentEffects
      <4>. QED BY <4>1, <4>2 DEF Collecting
    <3>7. ASSUME UNCHANGED served, stream' = Ended(Responder, FALSE)
          PROVE  /\ ~stream'[Responder].registered /\ ~stream'[Responder].hasFragments
                 /\ served' = served
      BY <3>7 DEF FragmentEffects
    <3>8. CASE ResponderHandlesEnd
      BY <3>7, <3>8 DEF ResponderHandlesEnd
    <3>9. CASE ResponderHandlesRequestN
      BY <3>7, <3>9 DEF ResponderHandlesRequestN, ResponderRefusesFrame, Collecting,
         Reassembling, HasReceiver
    <3>10. CASE ResponderHandlesExtension
      BY <3>7, <3>10 DEF ResponderHandlesExtension, ResponderRefusesFrame, Collecting,
         Reassembling, HasReceiver
    <3>11. CASE DropFrame(Responder)
      BY <3>11 DEF DropFrame, PartInv
    <3>. QED BY <1>3, <3>1, <3>2, <3>3, <3>4, <3>5, <3>6, <3>8, <3>9, <3>10, <3>11
             DEF ResponderHandles
  <2>. QED BY <2>1, <2>2, <2>3 DEF PartInv
<1>4. ASSUME NEW e \in End, Close(e) PROVE PartInv'
  <2>1. CASE e = Responder
    <3>1. ~open'[Responder] /\ UNCHANGED served
      BY <1>4, <2>1, CloseWires, CloseLeaves
    <3>2. ~stream[Responder].hasFragments => ~stream'[Responder].hasFragments
      BY <1>4, <2>1 DEF Close, FragmentEffects
    <3>. QED BY <3>1, <3>2 DEF PartInv
  <2>2. CASE e = Requester
    <3>1. /\ UNCHANGED served /\ stream'[Responder] = stream[Responder]
          /\ wire'[Responder] = wire[Responder] /\ open'[Responder] = open[Responder]
      BY <1>4, <2>2, CloseWires, CloseLeaves
    <3>. QED BY <3>1 DEF PartInv, Collecting
  <2>. QED BY <2>1, <2>2
<1>. QED BY <1>1, <1>2, <1>3, <1>4 DEF Next, RequesterActs, ResponderActs

\* A frame for the requester comes while its end is open.
LEMMA RequesterTakes ==
    ASSUME TypeOK, QuietInv, RequesterHandles
    PROVE  /\ open[Requester] /\ wire[Requester] # <<>>
           /\ wire'[Requester] = Tail(wire[Requester]) /\ UNCHANGED <<open, phase>>
<1>1. /\ wire[Requester] # <<>> /\ UNCHANGED <<open, phase>>
      /\ TakeAndSend(Requester, <<>>) \/ TakeAndSend(Requester, <<CancelFrame>>)
  BY DEF RequesterHandles, RequesterHandlesPayload, RequesterHandlesFragment,
     RequesterHandlesCancel, RequesterHandlesError, RequesterHandlesRequestN,
     RequesterRefusesFrame, RequesterHandlesExtension, DropFrame, Handles, Arrives
<1>2. open[Requester]
  BY <1>1 DEF QuietInv
<1>3. wire'[Requester] = Tail(wire[Requester])
  BY <1>1 DEF TakeAndSend
<1>. QED BY <1>1, <1>2, <1>3

LEMMA RequesterPartSteps ==
    ASSUME TypeOK, QuietInv, CutInv, RegistryInv, RequesterPartInv, Next
    PROVE  RequesterPartInv'
<1>. /\ Effects(Requester) /\ FragmentEffects(Requester)
     /\ stream \in [End -> StreamState] /\ wire \in [End -> Seq(Frame)]
     /\ stream[Requester].hasFragments \in BOOLEAN
     /\ Peer(Requester) = Responder /\ Peer(Responder) = Requester /\ Requester # Responder
  BY StreamEffects, StreamFragments DEF TypeOK, Peer, FragmentEffects
<1>1. ASSUME wire'[Requester] = wire[Requester], open' = open,
             phase' = "pending" => phase = "pending",
             stream'[Requester].registered => stream[Requester].registered,
             stream'[Requester].hasFragments => stream[Requester].hasFragments
      PROVE  RequesterPartInv'
  BY <1>1 DEF RequesterPartInv
<1>2. ASSUME Answer PROVE RequesterPartInv'
  <2>1. ASSUME NEW cut \in BOOLEAN, HandleReady(cut) PROVE RequesterPartInv'
    <3>1. ~stream'[Requester].hasFragments
      BY <2>1 DEF HandleReady, RequesterPartInv, StreamState
    <3>. QED BY <3>1 DEF RequesterPartInv
  <2>2. CASE HandleReadyDeclined
    BY <1>1, <2>2 DEF HandleReadyDeclined
  <2>3. CASE HandleReject
    <3>1. /\ UNCHANGED <<wire, open>> /\ phase' = "rejected"
          /\ stream' = stream \/ stream' = BothEnd(Requester)
      BY <2>3 DEF HandleReject
    <3>2. /\ stream'[Requester].registered => stream[Requester].registered
          /\ stream'[Requester].hasFragments = stream[Requester].hasFragments
      BY <3>1 DEF Effects, FragmentEffects
    <3>. QED BY <1>1, <3>1, <3>2
  <2>. QED BY <1>2, <2>1, <2>2, <2>3 DEF Answer
<1>3. ASSUME RequesterCalls PROVE RequesterPartInv'
  <2>1. /\ wire'[Requester] = wire[Requester] /\ UNCHANGED open
        /\ phase' = "pending" => phase = "pending"
    BY <1>3 DEF RequesterCalls, RequesterRequest, RequesterCancel, RequesterOnNext,
       RequesterOnComplete, RequesterOnError, RequesterOnErrorThrows,
       RequesterOnNextThrows, RequesterOnExtension, Send
  <2>2. \/ stream' = stream \/ stream' = BothEnd(Requester)
        \/ stream' = Ended(Requester, FALSE)
        \/ \E b \in BOOLEAN : stream' = OutEnds(Requester, b)
        \/ stream' = [stream EXCEPT ![Requester].outDone = TRUE]
    BY <1>3 DEF RequesterCalls, RequesterRequest, RequesterCancel, RequesterOnNext,
       RequesterOnComplete, RequesterOnError, RequesterOnErrorThrows,
       RequesterOnNextThrows, RequesterOnExtension
  <2>3. CASE stream' = stream \/ stream' = [stream EXCEPT ![Requester].outDone = TRUE]
    <3>1. /\ stream'[Requester].registered = stream[Requester].registered
          /\ stream'[Requester].hasFragments = stream[Requester].hasFragments
      BY <2>3 DEF StreamState
    <3>. QED BY <1>1, <2>1, <3>1
  <2>4. CASE stream' = BothEnd(Requester) \/ stream' = Ended(Requester, FALSE)
    <3>1. /\ ~stream'[Requester].registered
          /\ stream'[Requester].hasFragments => stream[Requester].hasFragments
      BY <2>4 DEF Effects, FragmentEffects
    <3>. QED BY <1>1, <2>1, <3>1
  <2>5. ASSUME NEW b \in BOOLEAN, stream' = OutEnds(Requester, b) PROVE RequesterPartInv'
    <3>1. /\ stream'[Requester].registered => stream[Requester].registered
          /\ stream'[Requester].hasFragments = stream[Requester].hasFragments
      BY <2>5 DEF Effects, FragmentEffects
    <3>. QED BY <1>1, <2>1, <3>1
  <2>. QED BY <2>2, <2>3, <2>4, <2>5
<1>4. ASSUME RequesterHandles PROVE RequesterPartInv'
  <2>. DEFINE q == wire[Requester]
  <2>1. /\ open[Requester] /\ q # <<>> /\ wire'[Requester] = Tail(q)
        /\ UNCHANGED <<open, phase>>
    BY <1>4, RequesterTakes
  <2>2. Head(q).follows =>
          Tail(q) # <<>> /\ Tail(q)[1].type = "PAYLOAD" /\ Tail(q)[1].next
    BY <2>1, PartTaken
  <2>3. Head(q) \in Frame /\ Head(q) = q[1]
    BY <2>1, Taken
  <2>4. stream[Requester].registered =>
          /\ phase # "pending"
          /\ stream[Requester].hasFragments => Head(q).type = "PAYLOAD" /\ Head(q).next
    BY <2>1, <2>3 DEF RequesterPartInv, RegistryInv, RegistryExact, Started
  <2>. HIDE DEF q
  <2>5. /\ Head(q).complete \in BOOLEAN /\ Head(q).next \in BOOLEAN
        /\ Head(q).data \in Seq(Nat)
    BY <2>3 DEF Frame
  <2>6. ASSUME ~stream'[Requester].hasFragments PROVE RequesterPartInv'
    BY <2>6 DEF RequesterPartInv
  <2>7. CASE RequesterHandlesPayload
    <3>. DEFINE r == ~Head(q).complete \/ Head(q).next
    <3>1. /\ stream[Requester].registered
          /\ stream' = Finished(Requester, Head(q).complete, r)
      BY <2>7 DEF RequesterHandlesPayload, Handles, q
    <3>2. stream[Requester].hasFragments => r
      BY <2>4, <3>1
    <3>3. r \in BOOLEAN
      BY <2>5
    <3>. HIDE DEF r
    <3>4. stream'[Requester].hasFragments = (stream[Requester].hasFragments /\ ~r)
      BY <2>5, <3>1, <3>3 DEF FragmentEffects
    <3>. QED BY <2>6, <3>2, <3>4
  <2>8. CASE RequesterHandlesFragment
    <3>1. stream[Requester].registered /\ Head(q).follows
      BY <2>8 DEF RequesterHandlesFragment, Handles, q
    <3>. QED BY <2>1, <2>2, <2>4, <3>1 DEF RequesterPartInv
  <2>9. CASE RequesterHandlesCancel \/ RequesterHandlesError \/ RequesterHandlesRequestN
               \/ RequesterHandlesExtension
    <3>1. /\ stream[Requester].registered /\ Head(q).type # "PAYLOAD"
          /\ \/ stream' = stream \/ stream' = Ended(Requester, FALSE)
             \/ stream' = OutEnds(Requester, TRUE)
      BY <2>9 DEF RequesterHandlesCancel, RequesterHandlesError,
         RequesterHandlesRequestN, RequesterRefusesFrame, RequesterHandlesExtension,
         Handles, Arrives, q
    <3>2. ~stream[Requester].hasFragments
      BY <2>4, <3>1
    <3>3. ~stream'[Requester].hasFragments
      BY <3>1, <3>2 DEF FragmentEffects
    <3>. QED BY <2>6, <3>3
  <2>10. CASE DropFrame(Requester)
    BY <2>1, <2>10 DEF DropFrame, RequesterPartInv
  <2>. QED BY <1>4, <2>7, <2>8, <2>9, <2>10 DEF RequesterHandles
<1>5. ASSUME ResponderActs PROVE RequesterPartInv'
  <2>1. UNCHANGED <<phase, open>> /\ stream'[Requester] = stream[Requester]
    BY <1>5, ResponderLeaves
  <2>2. PICK fs \in Seq(Frame) : wire'[Requester] \in {wire[Requester], wire[Requester] \o fs}
    <3>1. CASE UNCHANGED <<wire, open>>
      BY <3>1
    <3>2. ASSUME NEW fs \in Seq(Frame), Speaks(Responder, fs)
          PROVE  wire'[Requester] \in {wire[Requester], wire[Requester] \o fs}
      BY <3>2, PostsWires DEF Speaks
    <3>. QED BY <1>5, <3>1, <3>2, ActorsSpeak
  <2>3. wire[Requester] # <<>> =>
          wire'[Requester] # <<>> /\ wire'[Requester][1] = wire[Requester][1]
    BY <2>2, HeadKept
  <2>. QED BY <2>1, <2>3 DEF RequesterPartInv
<1>6. ASSUME NEW e \in End, Close(e) PROVE RequesterPartInv'
  <2>1. CASE e = Requester
    <3>1. ~open'[Requester] /\ UNCHANGED phase
      BY <1>6, <2>1, CloseWires, CloseLeaves
    <3>2. stream'[Requester].hasFragments => stream[Requester].hasFragments
      BY <1>6, <2>1 DEF Close, FragmentEffects
    <3>. QED BY <3>1, <3>2 DEF RequesterPartInv
  <2>2. CASE e = Responder
    <3>1. /\ UNCHANGED phase /\ stream'[Requester] = stream[Requester]
          /\ wire'[Requester] = wire[Requester] /\ open'[Requester] = open[Requester]
      BY <1>6, <2>2, CloseWires, CloseLeaves
    <3>. QED BY <3>1 DEF RequesterPartInv
  <2>. QED BY <2>1, <2>2
<1>. QED BY <1>2, <1>3, <1>4, <1>5, <1>6 DEF Next, RequesterActs, ResponderActs

\* How the calls of an application's receiver add up.
Hears(e) ==
    \/ rcv' = rcv
    \/ \E c \in BOOLEAN, ss \in Seq(Signal) : rcv' = Told(e, c, ss)
    \/ \E n \in Nat : rcv' = Granted(e, n)

LEMMA StoppedHears ==
    ASSUME TypeOK, NEW e \in End, rcv' = Stopped(e) PROVE Hears(e)
<1>1. (~OutDone(e)) \in BOOLEAN /\ If(~InDone(e), OnError) \in Seq(Signal)
  BY SignalsTyped
<1>. QED BY <1>1 DEF Hears, Stopped

\* The requester's receiver hears something, or a REQUEST_N is refused.
LEMMA RequesterHears ==
    ASSUME TypeOK, RequesterActs
    PROVE  Hears(Requester) \/ (Handles(Requester, "REQUEST_N") /\ RequesterRefusesFrame)
<1>1. ASSUME NEW c, NEW ss, c \in BOOLEAN, ss \in Seq(Signal), rcv' = Told(Requester, c, ss)
      PROVE  Hears(Requester)
  BY <1>1 DEF Hears
<1>2. /\ <<>> \in Seq(Signal) /\ <<OnError>> \in Seq(Signal)
      /\ If(~InDone(Requester), OnError) \in Seq(Signal)
      /\ (~OutDone(Requester)) \in BOOLEAN
  BY SignalsTyped
<1>3. CASE Answer
  BY <1>1, <1>2, <1>3 DEF Answer, HandleReady, HandleReadyDeclined, HandleReject, Hears
<1>4. CASE RequesterCalls
  BY <1>1, <1>2, <1>4 DEF RequesterCalls, RequesterRequest, RequesterCancel,
     RequesterOnNext, RequesterOnComplete, RequesterOnError, RequesterOnErrorThrows,
     RequesterOnNextThrows, RequesterOnExtension, Hears
<1>5. CASE RequesterHandlesPayload
  <2>. DEFINE f == Head(wire[Requester])
  <2>1. f \in Frame /\ rcv' = Told(Requester, FALSE, <<PayloadSignal(Requester, f)>>)
    BY <1>5, Taken DEF RequesterHandlesPayload, Handles, Arrives, TypeOK
  <2>2. PayloadSignal(Requester, f) \in Signal
    BY <2>1, PayloadSignalTyped
  <2>3. <<PayloadSignal(Requester, f)>> \in Seq(Signal)
    BY <2>2, ShortSeqs
  <2>4. \E ss \in Seq(Signal) : rcv' = Told(Requester, FALSE, ss)
    BY <2>1, <2>3
  <2>. QED BY <2>4 DEF Hears
<1>6. CASE RequesterHandlesRequestN
  <2>1. Head(wire[Requester]) \in Frame
    BY <1>6, Taken DEF RequesterHandlesRequestN, Handles, Arrives, TypeOK
  <2>2. Head(wire[Requester]).requestN \in Nat
    BY <2>1 DEF Frame
  <2>3. ASSUME ~RequesterRefusesFrame PROVE Hears(Requester)
    BY <1>6, <2>2, <2>3 DEF RequesterHandlesRequestN, Hears
  <2>. QED BY <1>6, <2>3 DEF RequesterHandlesRequestN
<1>7. CASE RequesterHandlesFragment \/ RequesterHandlesExtension \/ DropFrame(Requester)
  BY <1>7 DEF RequesterHandlesFragment, RequesterHandlesExtension, DropFrame, Hears
<1>8. CASE RequesterHandlesCancel \/ RequesterHandlesError
  BY <1>1, <1>2, <1>8 DEF RequesterHandlesCancel, RequesterHandlesError, Hears
<1>. QED BY <1>3, <1>4, <1>5, <1>6, <1>7, <1>8 DEF RequesterActs, RequesterHandles

\* Only fragments of the request come before the receiver is there, and no
\* frame of another kind between the fragments of a payload.
LEMMA OthersMeetReceiver ==
    ASSUME TypeOK, QuietInv, RegistryInv, RequestInv, PartInv,
           wire[Responder] # <<>>, stream[Responder].registered,
           served # "running", Head(wire[Responder]).type # "PAYLOAD"
    PROVE  ~Collecting /\ served = "active"
<1>1. open[Responder] /\ Head(wire[Responder]) = wire[Responder][1]
  BY Taken DEF QuietInv, TypeOK
<1>2. ~Collecting
  BY <1>1 DEF PartInv
<1>3. served \notin {"threw", "none", "refused"}
  BY <1>1 DEF RegistryInv, RegistryExact, Fresh, RequestInv
<1>. QED BY <1>2, <1>3 DEF TypeOK, Collecting

\* What makes an end count a frame as a violation.
LEMMA ErrorSteps ==
    ASSUME TypeOK, QuietInv, RegistryInv, RequestInv, PartInv, RequesterPartInv,
           NoProtocolErrors, Next
    PROVE  NoProtocolErrors'
<1>. /\ \A e \in End : RcvEffects(e)
     /\ rcv \in [End -> RcvState] /\ Requester # Responder
  BY ReceiverEffects DEF TypeOK
<1>. DEFINE Same(e) == rcv'[e].protocolErrors = rcv[e].protocolErrors
<1>1. ASSUME Same(Requester), Same(Responder) PROVE NoProtocolErrors'
  BY <1>1 DEF NoProtocolErrors
<1>2. ASSUME NEW e \in End, Hears(e) PROVE Same(e)
  BY <1>2 DEF Hears, RcvEffects
<1>4. ASSUME RequesterActs PROVE NoProtocolErrors'
  <2>1. rcv'[Responder] = rcv[Responder]
    BY <1>4, RequesterLeaves
  <2>2. CASE Hears(Requester)
    BY <1>1, <1>2, <2>1, <2>2
  <2>3. CASE Handles(Requester, "REQUEST_N") /\ RequesterRefusesFrame
    <3>1. /\ open[Requester] /\ stream[Requester].registered
          /\ Head(wire[Requester]).type = "REQUEST_N"
          /\ Head(wire[Requester]) = wire[Requester][1]
      BY <2>3, Taken DEF Handles, Arrives, QuietInv, TypeOK
    <3>2. ~stream[Requester].hasFragments
      BY <3>1 DEF RequesterPartInv
    <3>3. /\ (~OutDone(Requester)) \in BOOLEAN
          /\ If(~InDone(Requester), OnError) \in Seq(Signal)
      BY SignalsTyped
    <3>4. Stopped(Requester)[Requester].protocolErrors = rcv[Requester].protocolErrors
      BY <3>3 DEF Stopped, RcvEffects
    <3>5. Same(Requester)
      BY <2>3, <3>2, <3>4, RequesterRefuses
    <3>. QED BY <1>1, <2>1, <3>5
  <2>. QED BY <1>4, <2>2, <2>3, RequesterHears
<1>5. ASSUME ResponderActs PROVE NoProtocolErrors'
  <2>1. rcv'[Requester] = rcv[Requester]
    BY <1>5, ResponderLeaves
  <2>2. /\ <<>> \in Seq(Signal) /\ <<OnError>> \in Seq(Signal)
        /\ If(~InDone(Responder), OnError) \in Seq(Signal)
        /\ If(OutDone(Responder) /\ first.deferred, OnError) \in Seq(Signal)
    BY SignalsTyped
  <2>3. CASE ResponderCalls \/ HandlerEnds
    <3>1. rcv' = rcv \/ \E ss \in Seq(Signal) : rcv' = Told(Responder, FALSE, ss)
      BY <2>2, <2>3 DEF ResponderCalls, ResponderRequest, ResponderCancel,
         ResponderOnNext, ResponderOnComplete, ResponderOnError, ResponderOnExtension,
         HandlerEnds, HandlerReturns, HandlerThrows
    <3>2. Hears(Responder)
      BY <3>1 DEF Hears
    <3>. QED BY <1>1, <1>2, <2>1, <3>2
  <2>4. ASSUME ResponderHandles PROVE Same(Responder)
    <3>. DEFINE f == Head(wire[Responder])
    <3>1. /\ open[Responder] /\ wire[Responder] # <<>>
          /\ f \in Frame /\ f = wire[Responder][1]
      BY <2>4, ResponderTakes, Taken DEF TypeOK
    <3>2. CASE ResponderRejects \/ ResponderRefusesDemand \/ ResponderReceivesFirstFragment
                 \/ ResponderHandlesFragment \/ DropFrame(Responder)
      BY <3>2 DEF ResponderRejects, ResponderRefusesDemand,
         ResponderReceivesFirstFragment, ResponderHandlesFragment, DropFrame
    <3>3. CASE ResponderReceivesRequest \/ ResponderReassemblesRequest
      BY <3>3 DEF ResponderReceivesRequest, ResponderReassemblesRequest, CallHandler, RcvState
    <3>4. CASE ResponderHandlesPayload
      <4>1. PayloadSignal(Responder, f) \in Signal
        BY <3>1, PayloadSignalTyped
      <4>2. <<PayloadSignal(Responder, f)>> \in Seq(Signal)
        BY <4>1, ShortSeqs
      <4>. QED BY <3>4, <4>2 DEF ResponderHandlesPayload, RcvEffects
    <3>5. CASE ResponderHandlesEnd
      <4>1. rcv' = rcv \/ rcv' = Stopped(Responder)
        BY <3>5 DEF ResponderHandlesEnd
      <4>. QED BY <1>2, <4>1, StoppedHears
    <3>6. ASSUME stream[Responder].registered, f.type # "PAYLOAD", served # "running"
          PROVE  ~Reassembling
      <4>1. ~Collecting /\ served = "active"
        BY <3>1, <3>6, OthersMeetReceiver
      <4>. QED BY <4>1 DEF Collecting, Reassembling, HasReceiver
    <3>7. CASE ResponderHandlesRequestN
      <4>1. /\ stream[Responder].registered /\ f.type = "REQUEST_N"
            /\ served # "running" /\ f.requestN \in Nat
        BY <3>1, <3>7 DEF ResponderHandlesRequestN, Handles, Arrives, Frame
      <4>2. ~Reassembling
        BY <3>6, <4>1
      <4>3. CASE rcv' = Granted(Responder, f.requestN)
        BY <4>1, <4>3 DEF RcvEffects
      <4>4. CASE f.requestN < 1 /\ ResponderRefusesFrame
        <5>1. rcv' = [Stopped(Responder) EXCEPT ![Responder].protocolErrors = @ + 0]
          BY <4>2, <4>4 DEF ResponderRefusesFrame, Reassembling, Count
        <5>2. /\ Stopped(Responder) \in [End -> RcvState]
              /\ Stopped(Responder)[Responder].protocolErrors = rcv[Responder].protocolErrors
          BY <2>2, StoppedTyped DEF Stopped, RcvEffects
        <5>. QED BY <5>1, <5>2 DEF RcvState
      <4>. QED BY <3>7, <4>2, <4>3, <4>4 DEF ResponderHandlesRequestN
    <3>8. CASE ResponderHandlesExtension
      <4>1. ~Reassembling
        BY <3>1, <3>6, <3>8 DEF ResponderHandlesExtension, Handles, Arrives
      <4>. QED BY <3>8, <4>1 DEF ResponderHandlesExtension
    <3>. QED BY <2>4, <3>2, <3>3, <3>4, <3>5, <3>7, <3>8 DEF ResponderHandles
  <2>. QED BY <1>1, <1>5, <2>1, <2>3, <2>4 DEF ResponderActs
<1>6. ASSUME NEW e \in End, Close(e) PROVE NoProtocolErrors'
  <2>1. \A d \in End \ {e} : rcv'[d] = rcv[d]
    BY <1>6, CloseLeaves
  <2>2. Hears(e)
    BY <1>6, StoppedHears DEF Close, Hears
  <2>. QED BY <1>1, <1>2, <2>1, <2>2
<1>. QED BY <1>4, <1>5, <1>6 DEF Next, RequesterActs, ResponderActs

(***************************************************************************)
(* Two ends that run this code never take each other's frames for a        *)
(* protocol violation, however the fragments of one payload and the        *)
(* REQUEST_N and extension frames between payloads interleave              *)
(* (RequestChannelStream.ts, the handle of either class): of a socket that *)
(* hands over one frame at a time.                                         *)
(***************************************************************************)
THEOREM NoViolations ==
    ASSUME OneFrameAtATime
    PROVE  Spec => []NoProtocolErrors
<1>. DEFINE Inv == QuietInv /\ PartInv /\ RequesterPartInv /\ NoProtocolErrors
<1>1. Init => Inv
  BY DEF Init, QuietInv, PartInv, RequesterPartInv, NoProtocolErrors
<1>2. TypeOK /\ FlowInv /\ Inv /\ [Next]_vars => Inv'
  <2>1. TypeOK /\ FlowInv /\ Inv /\ Next => Inv'
    BY QuietSteps, PartSteps, RequesterPartSteps, ErrorSteps DEF FlowInv
  <2>2. Inv /\ UNCHANGED vars => Inv'
    BY DEF vars, QuietInv, PartInv, Collecting, RequesterPartInv, NoProtocolErrors
  <2>. QED BY <2>1, <2>2
<1>3. Inv => NoProtocolErrors
  OBVIOUS
<1>. HIDE DEF Inv
<1>. QED BY <1>1, <1>2, <1>3, TypeCorrect, FlowCorrect, PTL DEF Spec

-----------------------------------------------------------------------------
(* Nobody is left behind                                                   *)

(***************************************************************************)
(* The application keeps the connection while its handler runs.  One that  *)
(* closes it there returns its receiver to a stream that has been closed,  *)
(* and the receiver is never told.                                         *)
(***************************************************************************)
HandlerKeepsConnection == ~CloseInHandler

\* What the calls of an application leave in its state.
AppEffects(e) ==
    /\ app[e].emitted \in Nat /\ app[e].quit \in BOOLEAN
    /\ app[e].ended \in {"no", "complete", "error"}
    /\ \A n \in Nat : /\ Asked(e, n)[e].ended = app[e].ended
                      /\ Asked(e, n)[e].quit = app[e].quit
                      /\ Asked(e, n)[e].emitted = app[e].emitted
    /\ \A b \in BOOLEAN : /\ Emitted(e, b)[e].ended = IF b THEN "complete" ELSE app[e].ended
                          /\ Emitted(e, b)[e].quit = app[e].quit
                          /\ Emitted(e, b)[e].emitted = app[e].emitted + 1
    /\ \A c \in {"complete", "error"} :
          LET a == [app EXCEPT ![e].ended = c]
          IN  a[e].ended = c /\ a[e].quit = app[e].quit /\ a[e].emitted = app[e].emitted
    /\ LET a == [app EXCEPT ![e].quit = TRUE]
       IN  a[e].ended = app[e].ended /\ a[e].quit /\ a[e].emitted = app[e].emitted
    /\ LET a == [app EXCEPT ![e].extensions = @ + 1]
       IN  /\ a[e].ended = app[e].ended /\ a[e].quit = app[e].quit
           /\ a[e].emitted = app[e].emitted
    /\ LET a == [app EXCEPT ![e].emitted = 1]
       IN  a[e].ended = app[e].ended /\ a[e].quit = app[e].quit /\ a[e].emitted = 1

LEMMA ApplicationEffects ==
    ASSUME TypeOK, NEW e \in End
    PROVE  AppEffects(e)
<1>. app \in [End -> AppState] /\ app[e] \in AppState
  BY DEF TypeOK
<1>1. /\ app[e].emitted \in Nat /\ app[e].quit \in BOOLEAN
      /\ app[e].ended \in {"no", "complete", "error"}
  BY DEF AppState
<1>2. ASSUME NEW n \in Nat
      PROVE  /\ Asked(e, n)[e].ended = app[e].ended
             /\ Asked(e, n)[e].quit = app[e].quit
             /\ Asked(e, n)[e].emitted = app[e].emitted
  BY DEF Asked, AppState
<1>3. ASSUME NEW b \in BOOLEAN
      PROVE  /\ Emitted(e, b)[e].ended = IF b THEN "complete" ELSE app[e].ended
             /\ Emitted(e, b)[e].quit = app[e].quit
             /\ Emitted(e, b)[e].emitted = app[e].emitted + 1
  BY DEF Emitted, AppState
<1>4. ASSUME NEW c \in {"complete", "error"}
      PROVE  LET a == [app EXCEPT ![e].ended = c]
             IN  a[e].ended = c /\ a[e].quit = app[e].quit /\ a[e].emitted = app[e].emitted
  BY DEF AppState
<1>5. /\ LET a == [app EXCEPT ![e].quit = TRUE]
         IN  a[e].ended = app[e].ended /\ a[e].quit /\ a[e].emitted = app[e].emitted
      /\ LET a == [app EXCEPT ![e].extensions = @ + 1]
         IN  /\ a[e].ended = app[e].ended /\ a[e].quit = app[e].quit
             /\ a[e].emitted = app[e].emitted
      /\ LET a == [app EXCEPT ![e].emitted = 1]
         IN  a[e].ended = app[e].ended /\ a[e].quit = app[e].quit /\ a[e].emitted = 1
  BY DEF AppState
<1>. QED BY <1>1, <1>2, <1>3, <1>4, <1>5, Zenon DEF AppEffects

\* The producer of an end is cancelled once at most, and then its direction
\* has ended; the direction of a producer that has not ended by itself ends
\* with its cancellation.
Single(e) == rcv[e].cancels <= 1 /\ (rcv[e].cancels = 1 => OutDone(e))
Freed(e) == OutDone(e) => rcv[e].cancels = 1 \/ app[e].ended # "no"

\* How one step of an end may end its outbound direction: not at all, by the
\* application, by cancelling its producer.
Frees(e) ==
    /\ app[e].ended # "no" => app'[e].ended # "no"
    /\ \/ stream'[e].outDone = stream[e].outDone /\ rcv'[e].cancels = rcv[e].cancels
       \/ /\ stream'[e].outDone /\ rcv'[e].cancels = rcv[e].cancels
          /\ app'[e].ended # "no"
       \/ stream'[e].outDone /\ rcv'[e].cancels = rcv[e].cancels + Count(~OutDone(e))

LEMMA FreesKeeps ==
    ASSUME TypeOK, NEW e \in End, Single(e)
    PROVE  /\ Frees(e) => Single(e)' /\ (Freed(e) => Freed(e)')
           /\ stream'[e].outDone /\ rcv'[e].cancels = rcv[e].cancels => Single(e)'
<1>. /\ rcv[e].cancels \in Nat /\ OutDone(e) \in BOOLEAN
     /\ OutDone(e)' = stream'[e].outDone /\ OutDone(e) = stream[e].outDone
  BY DEF TypeOK, RcvState, StreamState, OutDone
<1>. Count(~OutDone(e)) = IF OutDone(e) THEN 0 ELSE 1
  BY DEF Count
<1>1. CASE OutDone(e)
  <2>0. rcv[e].cancels + Count(~OutDone(e)) = rcv[e].cancels
    BY <1>1
  <2>1. Frees(e) => stream'[e].outDone /\ rcv'[e].cancels = rcv[e].cancels
    BY <1>1, <2>0, Zenon DEF Frees
  <2>. QED BY <1>1, <2>1 DEF Frees, Single, Freed
<1>2. CASE ~OutDone(e)
  <2>1. rcv[e].cancels = 0
    BY <1>2 DEF Single
  <2>. QED BY <1>2, <2>1 DEF Frees, Single, Freed, Count
<1>. QED BY <1>1, <1>2

ReleaseInv ==
    /\ Single(Requester) /\ Single(Responder)
    /\ phase \in {"pending", "ready"} => Freed(Requester)
    /\ phase = "pending" /\ held.isComplete => app[Requester].ended # "no"
    /\ served \in {"running", "active"} => Freed(Responder)
    /\ served \in {"none", "reassembling"} /\ open[Responder]
         => ~InDone(Responder) /\ ~OutDone(Responder)

\* The requester's steps.
LEMMA RequesterFrees ==
    ASSUME TypeOK, ReleaseInv, RequesterActs
    PROVE  /\ Single(Requester)'
           /\ phase' \in {"pending", "ready"} => Freed(Requester)'
           /\ phase' = "pending" /\ held'.isComplete => app'[Requester].ended # "no"
<1>. DEFINE Goal == /\ Single(Requester)'
                    /\ phase' \in {"pending", "ready"} => Freed(Requester)'
                    /\ phase' = "pending" /\ held'.isComplete => app'[Requester].ended # "no"
<1>. DEFINE e == Requester
<1>0. /\ e \in End /\ Single(e)
      /\ Effects(e) /\ RcvEffects(e) /\ AppEffects(e) /\ FragmentEffects(e)
      /\ stream \in [End -> StreamState] /\ rcv \in [End -> RcvState]
      /\ app \in [End -> AppState] /\ held \in Held
      /\ held.isComplete \in BOOLEAN
      /\ rcv[e].cancels \in Nat
      /\ OutDone(e) = stream[e].outDone /\ OutDone(e) \in BOOLEAN
  BY StreamEffects, StreamFragments, ReceiverEffects, ApplicationEffects
     DEF ReleaseInv, TypeOK, Held, RcvState, OutDone, StreamState
<1>1. ASSUME Frees(e), phase' \in {"pending", "ready"} => phase \in {"pending", "ready"},
             phase' = "pending" /\ held'.isComplete =>
                app'[e].ended # "no" \/ (phase = "pending" /\ held.isComplete)
      PROVE  Goal
  BY <1>0, <1>1, FreesKeeps DEF ReleaseInv, Frees
<1>2. ASSUME NEW cut \in BOOLEAN, HandleReady(cut) PROVE Goal
  <2>1. /\ phase' = "ready" /\ rcv' = rcv /\ phase = "pending"
        /\ app'[e].ended = app[e].ended
        /\ stream'[e].outDone = held.isComplete /\ ~OutDone(e)
    BY <1>0, <1>2 DEF HandleReady, AppEffects, StreamState
  <2>2. held.isComplete => app'[e].ended # "no"
    BY <2>1 DEF ReleaseInv
  <2>. QED BY <1>0, <2>1, <2>2 DEF Single, Freed, OutDone
<1>3. CASE HandleReadyDeclined
  BY <1>0, <1>3 DEF HandleReadyDeclined, Single, OutDone
<1>4. CASE HandleReject
  <2>1. phase' = "rejected" /\ rcv'[e].cancels = rcv[e].cancels
    <3>1. <<OnError>> \in Seq(Signal) /\ FALSE \in BOOLEAN
      BY SignalsTyped
    <3>2. Told(e, FALSE, <<OnError>>)[e].cancels = rcv[e].cancels + Count(FALSE)
      BY <1>0, <3>1 DEF RcvEffects
    <3>3. rcv[e].cancels + Count(FALSE) = rcv[e].cancels
      BY <1>0 DEF Count
    <3>4. phase' = "rejected" /\ (rcv' = rcv \/ rcv' = Told(e, FALSE, <<OnError>>))
      BY <1>4 DEF HandleReject
    <3>. QED BY <3>2, <3>3, <3>4
  <2>2. stream'[e].outDone = stream[e].outDone \/ stream'[e].outDone
    BY <1>0, <1>4 DEF HandleReject, Effects
  <2>. QED BY <1>0, <2>1, <2>2, FreesKeeps DEF Single, OutDone
<1>5. ASSUME NEW c \in BOOLEAN, NEW ss \in Seq(Signal), rcv' = Told(e, c, ss)
      PROVE  rcv'[e].cancels = rcv[e].cancels + Count(c)
  BY <1>0, <1>5 DEF RcvEffects
<1>6. /\ rcv[e].cancels + Count(FALSE) = rcv[e].cancels
      /\ FALSE \in BOOLEAN /\ (~OutDone(e)) \in BOOLEAN
  BY <1>0 DEF Count
<1>7. /\ <<>> \in Seq(Signal) /\ <<OnError>> \in Seq(Signal)
      /\ If(~InDone(e), OnError) \in Seq(Signal)
  BY SignalsTyped
<1>8. CASE RequesterCalls
  <2>1. phase' = phase \/ phase' = "dropped"
    BY <1>8 DEF RequesterCalls, RequesterRequest, RequesterCancel, RequesterOnNext,
       RequesterOnComplete, RequesterOnError, RequesterOnErrorThrows,
       RequesterOnNextThrows, RequesterOnExtension
  <2>2. /\ Frees(e)
        /\ held'.isComplete => app'[e].ended # "no" \/ held.isComplete
    <3>1. ASSUME NEW n \in Demands, RequesterRequest(n)
          PROVE  Frees(e) /\ held'.isComplete = held.isComplete
      <4>1. app' = Asked(e, n) /\ UNCHANGED <<stream, rcv>> /\ n \in Nat
        BY <3>1, BoundsAssumption DEF RequesterRequest
      <4>2. held'.isComplete = held.isComplete
        BY <1>0, <3>1 DEF RequesterRequest, Held
      <4>. QED BY <1>0, <4>1, <4>2 DEF Frees, AppEffects
    <3>2. CASE RequesterCancel
      <4>1. /\ rcv'[e].cancels = rcv[e].cancels + Count(~OutDone(e))
        BY <1>5, <1>6, <1>7, <3>2 DEF RequesterCancel
      <4>2. stream'[e].outDone /\ app'[e].ended = app[e].ended /\ held' = held
        BY <1>0, <3>2 DEF RequesterCancel, Effects, AppEffects
      <4>. QED BY <4>1, <4>2 DEF Frees
    <3>3. ASSUME NEW c \in BOOLEAN, NEW cut \in BOOLEAN, RequesterOnNext(c, cut)
          PROVE  Frees(e) /\ held' = held
      <4>1. /\ stream' = OutEnds(e, c) /\ app' = Emitted(e, c) /\ rcv' = rcv /\ held' = held
            /\ ~OutDone(e)
        BY <3>3 DEF RequesterOnNext
      <4>2. stream'[e].outDone = (stream[e].outDone \/ c)
        BY <1>0, <4>1 DEF Effects
      <4>3. app'[e].ended = IF c THEN "complete" ELSE app[e].ended
        BY <1>0, <4>1 DEF AppEffects
      <4>. QED BY <1>0, <4>1, <4>2, <4>3 DEF Frees
    <3>4. CASE RequesterOnComplete
      <4>1. /\ app' = [app EXCEPT ![e].ended = "complete"] /\ rcv' = rcv
            /\ stream' = stream \/ stream' = OutEnds(e, TRUE)
        BY <3>4 DEF RequesterOnComplete
      <4>2. app'[e].ended = "complete"
        BY <1>0, <4>1 DEF AppEffects
      <4>3. stream'[e].outDone = stream[e].outDone \/ stream'[e].outDone
        BY <1>0, <4>1 DEF Effects
      <4>. QED BY <4>1, <4>2, <4>3 DEF Frees
    <3>5. CASE RequesterOnError \/ RequesterOnErrorThrows \/ RequesterOnNextThrows
      <4>1. app' = [app EXCEPT ![e].ended = "error"] \/ app' = [app EXCEPT ![e].ended = "complete"]
        BY <3>5 DEF RequesterOnError, RequesterOnErrorThrows, RequesterOnNextThrows
      <4>2. app'[e].ended # "no"
        BY <1>0, <4>1 DEF AppEffects
      <4>3. stream'[e].outDone
        <5>1. stream' = BothEnd(e) \/ stream' = [stream EXCEPT ![e].outDone = TRUE]
          BY <3>5 DEF RequesterOnError, RequesterOnErrorThrows, RequesterOnNextThrows
        <5>2. BothEnd(e)[e].outDone /\ [stream EXCEPT ![e].outDone = TRUE][e].outDone
          BY <1>0 DEF Effects, StreamState
        <5>. QED BY <5>1, <5>2
      <4>4. rcv' = rcv \/ rcv' = Told(e, FALSE, If(~InDone(e), OnError))
        BY <3>5 DEF RequesterOnError, RequesterOnErrorThrows, RequesterOnNextThrows
      <4>5. rcv'[e].cancels = rcv[e].cancels
        BY <1>5, <1>6, <1>7, <4>4
      <4>6. held' = held
        BY <3>5 DEF RequesterOnError, RequesterOnErrorThrows, RequesterOnNextThrows
      <4>. QED BY <4>2, <4>3, <4>5, <4>6 DEF Frees
    <3>6. CASE RequesterOnExtension
      <4>1. /\ app' = [app EXCEPT ![e].extensions = @ + 1] /\ UNCHANGED <<stream, rcv>>
        BY <3>6 DEF RequesterOnExtension
      <4>2. held'.isComplete = held.isComplete
        BY <1>0, <3>6 DEF RequesterOnExtension, Held
      <4>. QED BY <1>0, <4>1, <4>2 DEF Frees, AppEffects
    <3>. QED BY <1>8, <3>1, <3>2, <3>3, <3>4, <3>5, <3>6 DEF RequesterCalls
  <2>. QED BY <1>1, <2>1, <2>2
<1>9. CASE RequesterHandles
  <2>1. UNCHANGED <<phase, held, app>>
    BY <1>9 DEF RequesterHandles, RequesterHandlesPayload, RequesterHandlesFragment,
       RequesterHandlesCancel, RequesterHandlesError, RequesterHandlesRequestN,
       RequesterRefusesFrame, RequesterHandlesExtension, DropFrame
  <2>2. ASSUME \/ stream'[e].outDone = stream[e].outDone /\ rcv'[e].cancels = rcv[e].cancels
               \/ stream'[e].outDone /\ rcv'[e].cancels = rcv[e].cancels + Count(~OutDone(e))
        PROVE  Goal
    BY <1>1, <2>1, <2>2 DEF Frees
  <2>. DEFINE f == Head(wire[e])
  <2>3. f \in Frame /\ f.complete \in BOOLEAN /\ f.data \in Seq(Nat) /\ f.requestN \in Nat
        /\ f.next \in BOOLEAN
    <3>1. wire[e] # <<>> /\ wire[e] \in Seq(Frame)
      BY <1>9 DEF RequesterHandles, RequesterHandlesPayload, RequesterHandlesFragment,
         RequesterHandlesCancel, RequesterHandlesError, RequesterHandlesRequestN,
         RequesterRefusesFrame, RequesterHandlesExtension, DropFrame, Handles, Arrives,
         TypeOK
    <3>2. f \in Frame
      BY <3>1, Taken
    <3>. QED BY <3>2 DEF Frame
  <2>4. CASE RequesterHandlesPayload
    <3>1. <<PayloadSignal(e, f)>> \in Seq(Signal)
      BY <2>3, PayloadSignalTyped
    <3>2. rcv' = Told(e, FALSE, <<PayloadSignal(e, f)>>)
      BY <2>4 DEF RequesterHandlesPayload
    <3>3. rcv'[e].cancels = rcv[e].cancels
      BY <1>5, <1>6, <3>1, <3>2
    <3>4. \E r \in BOOLEAN : stream' = Finished(e, f.complete, r)
      BY <2>3, <2>4 DEF RequesterHandlesPayload
    <3>5. stream'[e].outDone = stream[e].outDone
      BY <1>0, <2>3, <3>4 DEF Effects
    <3>. QED BY <2>2, <3>3, <3>5
  <2>5. CASE RequesterHandlesFragment
    BY <1>0, <2>2, <2>3, <2>5 DEF RequesterHandlesFragment, FragmentEffects
  <2>6. CASE RequesterHandlesCancel
    <3>1. CASE OutDone(e)
      BY <2>2, <2>6, <3>1 DEF RequesterHandlesCancel
    <3>2. CASE ~OutDone(e)
      <4>1. stream' = OutEnds(e, TRUE) /\ rcv' = Told(e, TRUE, <<>>)
        BY <2>6, <3>2 DEF RequesterHandlesCancel
      <4>2. rcv'[e].cancels = rcv[e].cancels + Count(~OutDone(e))
        BY <1>5, <1>7, <3>2, <4>1
      <4>3. stream'[e].outDone
        BY <1>0, <4>1 DEF Effects
      <4>. QED BY <2>2, <4>2, <4>3
    <3>. QED BY <3>1, <3>2
  <2>7. ASSUME stream' = Ended(e, FALSE), NEW ss \in Seq(Signal),
               rcv' = Told(e, ~OutDone(e), ss)
        PROVE  Goal
    <3>1. rcv'[e].cancels = rcv[e].cancels + Count(~OutDone(e))
      BY <1>5, <1>6, <2>7
    <3>2. stream'[e].outDone
      BY <1>0, <2>7 DEF Effects
    <3>. QED BY <2>2, <3>1, <3>2
  <2>8. CASE RequesterHandlesError
    BY <1>7, <2>7, <2>8 DEF RequesterHandlesError
  <2>9. CASE RequesterHandlesRequestN
    <3>1. CASE RequesterRefusesFrame
      <4>1. /\ stream' = Ended(e, FALSE) /\ rcv'[e].cancels = Stopped(e)[e].cancels
        BY <3>1, RequesterRefuses
      <4>2. Stopped(e)[e].cancels = rcv[e].cancels + Count(~OutDone(e))
        BY <1>0, <1>6, <1>7 DEF Stopped, RcvEffects
      <4>3. stream'[e].outDone
        BY <1>0, <4>1 DEF Effects
      <4>. QED BY <2>2, <4>1, <4>2, <4>3
    <3>2. CASE stream' = stream /\ (rcv' = rcv \/ rcv' = Granted(e, f.requestN))
      BY <1>0, <2>2, <2>3, <3>2 DEF RcvEffects
    <3>. QED BY <2>9, <3>1, <3>2 DEF RequesterHandlesRequestN
  <2>10. CASE RequesterHandlesExtension \/ DropFrame(e)
    BY <2>2, <2>10 DEF RequesterHandlesExtension, DropFrame
  <2>. QED BY <1>9, <2>4, <2>5, <2>6, <2>8, <2>9, <2>10 DEF RequesterHandles
<1>10. (\E cut \in BOOLEAN : HandleReady(cut)) => Goal
  BY <1>2
<1>. QED BY <1>3, <1>4, <1>8, <1>9, <1>10 DEF RequesterActs, Answer

\* The responder's steps.
LEMMA ResponderFrees ==
    ASSUME TypeOK, QuietInv, RegistryInv, RequestInv, PartInv, ReleaseInv, ResponderActs
    PROVE  /\ Single(Responder)'
           /\ served' \in {"running", "active"} => Freed(Responder)'
           /\ served' \in {"none", "reassembling"} /\ open[Responder]
                => ~stream'[Responder].inDone /\ ~stream'[Responder].outDone
<1>. DEFINE Goal == /\ Single(Responder)'
                    /\ served' \in {"running", "active"} => Freed(Responder)'
                    /\ served' \in {"none", "reassembling"} /\ open[Responder]
                         => ~stream'[Responder].inDone /\ ~stream'[Responder].outDone
<1>. DEFINE e == Responder
            f == Head(wire[e])
<1>0. /\ e \in End /\ Single(e)
      /\ Effects(e) /\ RcvEffects(e) /\ AppEffects(e) /\ FragmentEffects(e)
      /\ stream \in [End -> StreamState] /\ rcv \in [End -> RcvState]
      /\ app \in [End -> AppState]
      /\ rcv[e].cancels \in Nat
      /\ OutDone(e) = stream[e].outDone /\ OutDone(e) \in BOOLEAN
      /\ InDone(e) = stream[e].inDone
  BY StreamEffects, StreamFragments, ReceiverEffects, ApplicationEffects
     DEF ReleaseInv, TypeOK, RcvState, OutDone, InDone, StreamState
<1>1. ASSUME Frees(e), served \in {"running", "active"},
             served' \notin {"none", "reassembling"}
      PROVE  Goal
  BY <1>0, <1>1, FreesKeeps DEF ReleaseInv
<1>2. ASSUME stream'[e].outDone = stream[e].outDone, rcv'[e].cancels = rcv[e].cancels,
             app'[e].ended = app[e].ended,
             served' = served, served' \in {"none", "reassembling"} =>
                (stream'[e].inDone = stream[e].inDone)
      PROVE  Goal
  BY <1>0, <1>2 DEF ReleaseInv, Single, Freed, OutDone, InDone
<1>3. ASSUME stream'[e].outDone, rcv'[e].cancels = rcv[e].cancels,
             served' \in {"refused", "threw"}
      PROVE  Goal
  BY <1>0, <1>3, FreesKeeps
<1>5. ASSUME NEW c \in BOOLEAN, NEW ss \in Seq(Signal), rcv' = Told(e, c, ss)
      PROVE  rcv'[e].cancels = rcv[e].cancels + Count(c)
  BY <1>0, <1>5 DEF RcvEffects
<1>6. /\ rcv[e].cancels + Count(FALSE) = rcv[e].cancels
      /\ FALSE \in BOOLEAN /\ (~OutDone(e)) \in BOOLEAN
  BY <1>0 DEF Count
<1>7. /\ <<>> \in Seq(Signal) /\ <<OnError>> \in Seq(Signal)
      /\ If(~InDone(e), OnError) \in Seq(Signal)
      /\ If(OutDone(Responder) /\ first.deferred, OnError) \in Seq(Signal)
  BY SignalsTyped
<1>8. CASE ResponderCalls
  <2>0. /\ UNCHANGED served /\ served \in {"running", "active", "threw"}
    BY <1>8 DEF ResponderCalls, ResponderRequest, ResponderCancel, ResponderOnNext,
       ResponderOnComplete, ResponderOnError, ResponderOnExtension, HasStream
  <2>1. served = "threw" => OutDone(e) /\ InDone(e)
    BY DEF RequestInv, Over
  <2>2. ASSUME Frees(e) PROVE Goal
    <3>1. CASE served = "threw"
      BY <1>0, <2>0, <2>2, <3>1, FreesKeeps
    <3>2. CASE served # "threw"
      BY <1>1, <2>0, <2>2, <3>2
    <3>. QED BY <3>1, <3>2
  <2>3. ASSUME NEW n \in Demands, ResponderRequest(n) PROVE Frees(e)
    <3>1. app' = Asked(e, n) /\ UNCHANGED <<stream, rcv>> /\ n \in Nat
      BY <2>3, BoundsAssumption DEF ResponderRequest
    <3>. QED BY <1>0, <3>1 DEF Frees, AppEffects
  <2>4. CASE ResponderCancel
    <3>1. /\ stream' = InEnds(e) /\ app' = [app EXCEPT ![e].quit = TRUE] /\ rcv' = rcv
      BY <2>4 DEF ResponderCancel
    <3>2. stream'[e].outDone = stream[e].outDone /\ app'[e].ended = app[e].ended
      BY <1>0, <3>1 DEF Effects, AppEffects
    <3>3. Frees(e)
      BY <3>1, <3>2 DEF Frees
    <3>. QED BY <2>2, <3>3
  <2>5. ASSUME NEW c \in BOOLEAN, NEW cut \in BOOLEAN, ResponderOnNext(c, cut)
        PROVE  Frees(e)
    <3>1. /\ stream' = OutEnds(e, c) /\ app' = Emitted(e, c) /\ rcv' = rcv
          /\ ~OutDone(e)
      BY <2>5 DEF ResponderOnNext
    <3>2. stream'[e].outDone = (stream[e].outDone \/ c)
      BY <1>0, <3>1 DEF Effects
    <3>3. app'[e].ended = IF c THEN "complete" ELSE app[e].ended
      BY <1>0, <3>1 DEF AppEffects
    <3>. QED BY <1>0, <3>1, <3>2, <3>3 DEF Frees
  <2>6. CASE ResponderOnComplete
    <3>1. /\ app' = [app EXCEPT ![e].ended = "complete"] /\ rcv' = rcv
          /\ stream' = OutEnds(e, TRUE)
      BY <2>6 DEF ResponderOnComplete
    <3>2. app'[e].ended = "complete" /\ stream'[e].outDone
      BY <1>0, <3>1 DEF AppEffects, Effects
    <3>3. Frees(e)
      BY <3>1, <3>2 DEF Frees
    <3>. QED BY <2>2, <3>3
  <2>7. CASE ResponderOnError
    <3>1. /\ app' = [app EXCEPT ![e].ended = "error"] /\ stream' = BothEnd(e)
          /\ rcv' = rcv \/ rcv' = Told(e, FALSE, If(~InDone(e), OnError))
      BY <2>7 DEF ResponderOnError
    <3>2. app'[e].ended = "error" /\ stream'[e].outDone
      BY <1>0, <3>1 DEF AppEffects, Effects
    <3>3. rcv'[e].cancels = rcv[e].cancels
      BY <1>5, <1>6, <1>7, <3>1
    <3>4. Frees(e)
      BY <3>2, <3>3 DEF Frees
    <3>. QED BY <2>2, <3>4
  <2>8. CASE ResponderOnExtension
    <3>1. /\ app' = [app EXCEPT ![e].extensions = @ + 1] /\ UNCHANGED <<stream, rcv>>
      BY <2>8 DEF ResponderOnExtension
    <3>2. Frees(e)
      BY <1>0, <3>1 DEF Frees, AppEffects
    <3>. QED BY <2>2, <3>2
  <2>9. /\ (\E n \in Demands : ResponderRequest(n)) => Goal
        /\ (\E c, cut \in BOOLEAN : ResponderOnNext(c, cut)) => Goal
    BY <2>2, <2>3, <2>5
  <2>. QED BY <1>8, <2>4, <2>6, <2>7, <2>8, <2>9 DEF ResponderCalls
<1>9. CASE HandlerReturns
  <2>1. /\ served = "running" /\ served' = "active" /\ UNCHANGED <<stream, app>>
        /\ rcv' = Told(e, FALSE, If(OutDone(Responder) /\ first.deferred, OnError))
    BY <1>9 DEF HandlerReturns
  <2>2. rcv'[e].cancels = rcv[e].cancels
    BY <1>5, <1>6, <1>7, <2>1
  <2>3. Frees(e)
    BY <2>1, <2>2 DEF Frees
  <2>. QED BY <1>1, <2>1, <2>3
<1>10. CASE HandlerThrows
  <2>1. /\ served' = "threw" /\ rcv' = rcv
        /\ (OutDone(e) /\ stream' = stream) \/ stream' = BothEnd(e)
    BY <1>10 DEF HandlerThrows, Over
  <2>2. stream'[e].outDone
    BY <1>0, <2>1 DEF Effects
  <2>. QED BY <1>3, <2>1, <2>2
<1>11. CASE ResponderHandles
  <2>1. /\ open[e] /\ wire[e] # <<>> /\ UNCHANGED <<open, app>>
    BY <1>11, ResponderTakes DEF ResponderHandles, ResponderRejects,
       ResponderRefusesDemand, ResponderReceivesFirstFragment,
       ResponderReceivesRequest, ResponderReassemblesRequest, CallHandler,
       ResponderHandlesFragment, ResponderHandlesPayload, ResponderHandlesEnd,
       ResponderHandlesRequestN, ResponderHandlesExtension, DropFrame
  <2>2. /\ f \in Frame /\ f.complete \in BOOLEAN /\ f.data \in Seq(Nat)
        /\ f.requestN \in Nat /\ first.isComplete \in BOOLEAN
    <3>1. wire[e] \in Seq(Frame) /\ first.isComplete \in BOOLEAN
      BY DEF TypeOK, First
    <3>2. f \in Frame
      BY <2>1, <3>1, Taken
    <3>. QED BY <3>1, <3>2 DEF Frame
  <2>3. CASE ResponderRejects
    <3>1. served' = "refused" /\ UNCHANGED <<stream, rcv>>
      BY <2>3 DEF ResponderRejects
    <3>. QED BY <1>0, <3>1 DEF Single, OutDone
  <2>4. CASE ResponderRefusesDemand
    <3>1. served' = "refused" /\ rcv' = rcv /\ stream' = Ended(e, FALSE)
      BY <2>4 DEF ResponderRefusesDemand
    <3>2. stream'[e].outDone
      BY <1>0, <3>1 DEF Effects
    <3>. QED BY <1>3, <3>1, <3>2
  <2>5. CASE ResponderReceivesFirstFragment
    <3>1. /\ served = "none" /\ served' = "reassembling" /\ rcv' = rcv
          /\ stream'[e].outDone = stream[e].outDone
          /\ stream'[e].inDone = stream[e].inDone
      BY <1>0, <2>5 DEF ResponderReceivesFirstFragment, StreamState
    <3>. QED BY <1>0, <2>1, <3>1 DEF ReleaseInv, Single, OutDone, InDone
  <2>6. ASSUME served \in {"none", "reassembling"}, served' = "running",
               stream'[e].outDone = stream[e].outDone, rcv'[e].cancels = rcv[e].cancels
        PROVE  Goal
    <3>1. ~OutDone(e)
      BY <2>1, <2>6 DEF ReleaseInv
    <3>. QED BY <1>0, <2>6, <3>1 DEF Single, Freed, OutDone
  <2>7. CASE ResponderReceivesRequest
    <3>1. served = "none" /\ served' = "running" /\ rcv'[e].cancels = rcv[e].cancels
      BY <1>0, <2>7 DEF ResponderReceivesRequest, CallHandler, RcvState
    <3>2. stream'[e].outDone = stream[e].outDone
      BY <1>0, <2>7 DEF ResponderReceivesRequest, StreamState
    <3>. QED BY <2>6, <3>1, <3>2
  <2>8. CASE ResponderReassemblesRequest
    <3>1. /\ served # "running" /\ served # "active" /\ stream[e].registered
          /\ served' = "running" /\ rcv'[e].cancels = rcv[e].cancels
      BY <1>0, <2>8 DEF ResponderReassemblesRequest, CallHandler, RcvState, Handles,
         Arrives, HasReceiver
    <3>2. stream'[e].outDone = stream[e].outDone
      <4>. DEFINE c == first.isComplete \/ f.complete
      <4>1. stream' = Finished(e, c, TRUE) /\ c \in BOOLEAN
        BY <2>8 DEF ResponderReassemblesRequest
      <4>. HIDE DEF c
      <4>. QED BY <1>0, <4>1 DEF Effects
    <3>3. served \notin {"threw", "none", "refused"}
      BY <2>1, <3>1 DEF RegistryInv, RegistryExact, Fresh, RequestInv
    <3>4. served = "reassembling"
      BY <3>1, <3>3 DEF TypeOK
    <3>. QED BY <2>6, <3>1, <3>2, <3>4
  <2>9. CASE ResponderHandlesFragment
    <3>1. stream' = Extended(e, f.data) /\ UNCHANGED <<served, rcv>>
      BY <2>9 DEF ResponderHandlesFragment
    <3>2. stream'[e].outDone = stream[e].outDone /\ stream'[e].inDone = stream[e].inDone
      BY <1>0, <2>2, <3>1 DEF FragmentEffects
    <3>. QED BY <1>2, <2>1, <3>1, <3>2
  <2>10. CASE ResponderHandlesPayload
    <3>1. /\ stream' = Finished(e, f.complete, TRUE)
          /\ rcv' = Told(e, FALSE, <<PayloadSignal(e, f)>>)
          /\ served = "active" /\ UNCHANGED served
      BY <2>10 DEF ResponderHandlesPayload, HasReceiver
    <3>2. <<PayloadSignal(e, f)>> \in Seq(Signal)
      BY <2>2, PayloadSignalTyped
    <3>3. rcv'[e].cancels = rcv[e].cancels
      BY <1>5, <1>6, <3>1, <3>2
    <3>4. stream'[e].outDone = stream[e].outDone
      BY <1>0, <2>2, <3>1 DEF Effects
    <3>. QED BY <1>2, <2>1, <3>1, <3>3, <3>4
  <2>11. ASSUME served = "active", UNCHANGED served, stream' = Ended(e, FALSE),
                rcv'[e].cancels = Stopped(e)[e].cancels
         PROVE  Goal
    <3>1. stream'[e].outDone
      BY <1>0, <2>11 DEF Effects
    <3>2. rcv'[e].cancels = rcv[e].cancels + Count(~OutDone(e))
      BY <1>0, <1>6, <1>7, <2>11 DEF Stopped, RcvEffects
    <3>3. Frees(e)
      BY <2>1, <3>1, <3>2 DEF Frees
    <3>. QED BY <1>1, <2>11, <3>3
  <2>12. CASE ResponderHandlesEnd
    <3>1. /\ stream[e].registered /\ served # "running" /\ f.type # "PAYLOAD"
          /\ stream' = Ended(e, FALSE) /\ UNCHANGED served
          /\ HasReceiver => rcv' = Stopped(e)
      BY <2>12 DEF ResponderHandlesEnd, Handles, Arrives
    <3>2. served = "active"
      BY <2>1, <3>1, OthersMeetReceiver
    <3>. QED BY <2>11, <3>1, <3>2 DEF HasReceiver
  <2>13. CASE ResponderHandlesRequestN
    <3>1. /\ stream[e].registered /\ served # "running" /\ f.type # "PAYLOAD"
          /\ UNCHANGED served
      BY <2>13 DEF ResponderHandlesRequestN, Handles, Arrives
    <3>2. served = "active"
      BY <2>1, <3>1, OthersMeetReceiver
    <3>3. CASE ResponderRefusesFrame
      <4>1. stream' = Ended(e, FALSE)
        BY <3>3 DEF ResponderRefusesFrame
      <4>2. \E b : rcv' = [Stopped(e) EXCEPT ![e].protocolErrors = @ + Count(b)]
        BY <3>2, <3>3 DEF ResponderRefusesFrame, HasReceiver
      <4>3. Stopped(e) \in [End -> RcvState]
        BY StoppedTyped
      <4>4. rcv'[e].cancels = Stopped(e)[e].cancels
        BY <4>2, <4>3 DEF RcvState
      <4>. QED BY <2>11, <3>1, <3>2, <4>1, <4>4
    <3>4. CASE stream' = stream /\ rcv' = Granted(e, f.requestN)
      <4>1. rcv'[e].cancels = rcv[e].cancels
        BY <1>0, <2>2, <3>4 DEF RcvEffects
      <4>. QED BY <1>2, <2>1, <3>1, <3>4, <4>1
    <3>. QED BY <2>13, <3>3, <3>4 DEF ResponderHandlesRequestN
  <2>14. CASE ResponderHandlesExtension
    <3>1. /\ stream[e].registered /\ served # "running" /\ f.type # "PAYLOAD"
          /\ UNCHANGED served
      BY <2>14 DEF ResponderHandlesExtension, Handles, Arrives
    <3>2. ~Reassembling
      BY <2>1, <3>1, OthersMeetReceiver DEF Reassembling, Collecting, HasReceiver
    <3>3. UNCHANGED <<stream, rcv>>
      BY <2>14, <3>2 DEF ResponderHandlesExtension
    <3>. QED BY <1>2, <2>1, <3>1, <3>3
  <2>15. CASE DropFrame(e)
    <3>1. UNCHANGED <<served, stream, rcv>>
      BY <2>15 DEF DropFrame
    <3>. QED BY <1>2, <2>1, <3>1
  <2>. QED BY <1>11, <2>3, <2>4, <2>5, <2>7, <2>8, <2>9, <2>10, <2>12, <2>13, <2>14, <2>15
           DEF ResponderHandles
<1>12. (HandlerEnds => Goal)
  BY <1>9, <1>10 DEF HandlerEnds
<1>. QED BY <1>8, <1>11, <1>12 DEF ResponderActs

\* Closing an end cancels its producer, unless its direction has ended.
LEMMA CloseFrees ==
    ASSUME HandlerKeepsConnection, TypeOK, RegistryInv, ReleaseInv, NEW e \in End, Close(e)
    PROVE  /\ Single(e)'
           /\ e = Requester /\ phase \in {"pending", "ready"} => Freed(e)'
           /\ e = Responder /\ served \in {"running", "active"} => Freed(e)'
<1>0. /\ Single(e) /\ Effects(e) /\ RcvEffects(e)
      /\ OutDone(e) = stream[e].outDone
      /\ (~OutDone(e)) \in BOOLEAN /\ If(~InDone(e), OnError) \in Seq(Signal)
  BY StreamEffects, ReceiverEffects, SignalsTyped DEF ReleaseInv, OutDone
<1>1. /\ UNCHANGED <<phase, served, app>> /\ (e = Responder => served # "running")
      /\ \/ UNCHANGED <<stream, rcv>>
         \/ stream' = Ended(e, TRUE) /\ rcv' = Stopped(e)
         \/ stream' = Ended(e, TRUE) /\ rcv' = rcv /\ e # Requester /\ served # "active"
  BY DEF Close, HandlerKeepsConnection, HasReceiver
<1>2. CASE UNCHANGED <<stream, rcv>>
  BY <1>0, <1>1, <1>2 DEF ReleaseInv, Single, Freed, OutDone
<1>3. CASE stream' = Ended(e, TRUE) /\ rcv' = Stopped(e)
  <2>1. stream'[e].outDone
    BY <1>0, <1>3 DEF Effects
  <2>2. rcv'[e].cancels = rcv[e].cancels + Count(~OutDone(e))
    BY <1>0, <1>3 DEF Stopped, RcvEffects
  <2>3. Frees(e)
    BY <1>1, <2>1, <2>2 DEF Frees
  <2>. QED BY <1>0, <1>1, <2>3, FreesKeeps DEF ReleaseInv
<1>4. CASE stream' = Ended(e, TRUE) /\ rcv' = rcv /\ e # Requester /\ served # "active"
  <2>1. stream'[e].outDone
    BY <1>0, <1>4 DEF Effects
  <2>. QED BY <1>0, <1>1, <1>4, <2>1, FreesKeeps
<1>. QED BY <1>1, <1>2, <1>3, <1>4

LEMMA ReleaseSteps ==
    ASSUME HandlerKeepsConnection, TypeOK, QuietInv, RegistryInv, RequestInv, PartInv,
           ReleaseInv, Next
    PROVE  ReleaseInv'
<1>1. CASE RequesterActs
  <2>1. /\ UNCHANGED <<served, open>> /\ stream'[Responder] = stream[Responder]
        /\ rcv'[Responder] = rcv[Responder] /\ app'[Responder] = app[Responder]
    BY <1>1, RequesterLeaves
  <2>2. /\ Single(Requester)'
        /\ phase' \in {"pending", "ready"} => Freed(Requester)'
        /\ phase' = "pending" /\ held'.isComplete => app'[Requester].ended # "no"
    BY <1>1, RequesterFrees
  <2>. QED BY <2>1, <2>2 DEF ReleaseInv, Single, Freed, OutDone, InDone
<1>2. CASE ResponderActs
  <2>1. /\ UNCHANGED <<phase, held, open>> /\ stream'[Requester] = stream[Requester]
        /\ rcv'[Requester] = rcv[Requester] /\ app'[Requester] = app[Requester]
    BY <1>2, ResponderLeaves
  <2>2. /\ Single(Responder)'
        /\ served' \in {"running", "active"} => Freed(Responder)'
        /\ served' \in {"none", "reassembling"} /\ open[Responder]
             => ~stream'[Responder].inDone /\ ~stream'[Responder].outDone
    BY <1>2, ResponderFrees
  <2>. QED BY <2>1, <2>2 DEF ReleaseInv, Single, Freed, OutDone, InDone
<1>3. ASSUME NEW e \in End, Close(e) PROVE ReleaseInv'
  <2>1. /\ UNCHANGED <<phase, held, served, app>>
        /\ \A d \in End \ {e} : stream'[d] = stream[d] /\ rcv'[d] = rcv[d]
    BY <1>3, CloseLeaves
  <2>2. ~open'[e] /\ \A d \in End \ {e} : open'[d] = open[d]
    BY <1>3, CloseWires DEF Peer
  <2>3. /\ Single(e)'
        /\ e = Requester /\ phase \in {"pending", "ready"} => Freed(e)'
        /\ e = Responder /\ served \in {"running", "active"} => Freed(e)'
    BY <1>3, CloseFrees
  <2>4. CASE e = Requester
    <3>1. /\ stream'[Responder] = stream[Responder] /\ rcv'[Responder] = rcv[Responder]
          /\ open'[Responder] = open[Responder]
      BY <2>1, <2>2, <2>4
    <3>. QED BY <2>1, <2>3, <2>4, <3>1 DEF ReleaseInv, Single, Freed, OutDone, InDone
  <2>5. CASE e = Responder
    <3>1. /\ stream'[Requester] = stream[Requester] /\ rcv'[Requester] = rcv[Requester]
      BY <2>1, <2>5
    <3>. QED BY <2>1, <2>2, <2>3, <2>5, <3>1 DEF ReleaseInv, Single, Freed, OutDone, InDone
  <2>. QED BY <2>4, <2>5
<1>. QED BY <1>1, <1>2, <1>3 DEF Next, RequesterActs, ResponderActs

(***************************************************************************)
(* Whatever ends a stream that has reached the wire - completions, CANCEL, *)
(* ERROR, a refused frame, the connection - its application's producer has *)
(* ended by itself or is cancelled, and once (RequestChannelStream.ts,     *)
(* receiver.cancel() under hasOutboundCompleted in the handlers and in     *)
(* close).                                                                 *)
(***************************************************************************)
THEOREM ProducersReleased ==
    ASSUME OneFrameAtATime, HandlerKeepsConnection
    PROVE  Spec => []ProducerReleased
<1>. DEFINE Inv == QuietInv /\ PartInv /\ ReleaseInv
<1>1. Init => Inv
  BY DEF Init, QuietInv, PartInv, ReleaseInv, Single, Freed, OutDone, InDone
<1>2. TypeOK /\ FlowInv /\ Inv /\ [Next]_vars => Inv'
  <2>1. TypeOK /\ FlowInv /\ Inv /\ Next => Inv'
    BY QuietSteps, PartSteps, ReleaseSteps DEF FlowInv
  <2>2. Inv /\ UNCHANGED vars => Inv'
    BY DEF vars, QuietInv, PartInv, Collecting, ReleaseInv, Single, Freed, OutDone, InDone
  <2>. QED BY <2>1, <2>2
<1>3. Inv => ProducerReleased
  BY DEF ReleaseInv, Single, Freed, ProducerReleased, Over, HasReceiver
<1>. HIDE DEF Inv
<1>. QED BY <1>1, <1>2, <1>3, TypeCorrect, FlowCorrect, PTL DEF Spec

-----------------------------------------------------------------------------
(* The receivers.  A lease that holds a request back lets its application  *)
(* call onError before the stream has an id, which ends the stream and     *)
(* throws before it tells the receiver: here every request starts at once. *)

StartsAtOnce == ~Leased

SaidLast(e) == \E i \in 1 .. Len(rcv[e].signals) : rcv[e].signals[i].last
Informed(e) == InDone(e) => app[e].quit \/ SaidLast(e)

\* How one step of an end may end its inbound direction: with a last signal,
\* by cancel().
Informs(e) ==
    /\ app[e].quit => app'[e].quit
    /\ \E ss \in Seq(Signal) :
         /\ rcv'[e].signals = rcv[e].signals \o ss
         /\ stream'[e].inDone => \/ stream[e].inDone \/ app'[e].quit
                                 \/ \E i \in 1 .. Len(ss) : ss[i].last

LEMMA InformsKeeps ==
    ASSUME TypeOK, NEW e \in End, Informs(e)
    PROVE  /\ Informed(e) => Informed(e)'
           /\ SaidLast(e) => SaidLast(e)'
<1>1. PICK ss \in Seq(Signal) :
         /\ rcv'[e].signals = rcv[e].signals \o ss
         /\ stream'[e].inDone => \/ stream[e].inDone \/ app'[e].quit
                                 \/ \E i \in 1 .. Len(ss) : ss[i].last
  BY DEF Informs
<1>. DEFINE q == rcv[e].signals
            r == q \o ss
<1>2. q \in Seq(Signal)
  BY DEF TypeOK, RcvState
<1>3. /\ Len(q) \in Nat /\ Len(ss) \in Nat /\ Len(r) = Len(q) + Len(ss)
      /\ \A i \in 1 .. Len(q) : r[i] = q[i]
      /\ \A i \in 1 .. Len(ss) : r[Len(q) + i] = ss[i]
  BY <1>2, ConcatProperties
<1>4. rcv'[e].signals = r /\ SaidLast(e) = (\E i \in 1 .. Len(q) : q[i].last)
      /\ SaidLast(e)' = (\E i \in 1 .. Len(rcv'[e].signals) : rcv'[e].signals[i].last)
  BY <1>1 DEF SaidLast
<1>. HIDE DEF q, r
<1>5. SaidLast(e) => SaidLast(e)'
  <2>1. ASSUME NEW i \in 1 .. Len(q), q[i].last PROVE i \in 1 .. Len(r) /\ r[i].last
    BY <1>3, <2>1
  <2>. QED BY <1>4, <2>1
<1>6. (\E i \in 1 .. Len(ss) : ss[i].last) => SaidLast(e)'
  <2>1. ASSUME NEW i \in 1 .. Len(ss), ss[i].last
        PROVE  Len(q) + i \in 1 .. Len(r) /\ r[Len(q) + i].last
    BY <1>3, <2>1
  <2>. QED BY <1>4, <2>1
<1>7. (app[e].quit => app'[e].quit)
  BY DEF Informs
<1>8. Informed(e)' = (stream'[e].inDone => app'[e].quit \/ SaidLast(e)')
      /\ Informed(e) = (stream[e].inDone => app[e].quit \/ SaidLast(e))
  BY DEF Informed, InDone
<1>. QED BY <1>1, <1>5, <1>6, <1>7, <1>8, Zenon

\* The ways a step tells a receiver.
LEMMA WaysToInform ==
    ASSUME TypeOK, NEW e \in End, app[e].quit => app'[e].quit
    PROVE  /\ /\ rcv'[e].signals = rcv[e].signals
              /\ stream'[e].inDone => stream[e].inDone \/ app'[e].quit
              => Informs(e)
           /\ \A c \in BOOLEAN, ss \in Seq(Signal) :
                /\ rcv' = Told(e, c, ss)
                /\ stream'[e].inDone => stream[e].inDone \/ app'[e].quit
                => Informs(e)
           /\ \A c \in BOOLEAN, s \in Signal :
                rcv' = Told(e, c, <<s>>) /\ (stream'[e].inDone => stream[e].inDone \/ s.last)
                => Informs(e)
           /\ \A c \in BOOLEAN : rcv' = Told(e, c, If(~InDone(e), OnError)) => Informs(e)
           /\ rcv'[e].signals = Stopped(e)[e].signals => Informs(e)
<1>1. RcvEffects(e) /\ rcv[e].signals \in Seq(Signal) /\ <<>> \in Seq(Signal)
  BY ReceiverEffects, SignalsTyped DEF RcvEffects
<1>2. ASSUME rcv'[e].signals = rcv[e].signals,
             stream'[e].inDone => stream[e].inDone \/ app'[e].quit
      PROVE  Informs(e)
  <2>1. rcv'[e].signals = rcv[e].signals \o <<>>
    BY <1>1, <1>2, ConcatEmptySeq
  <2>. QED BY <1>1, <1>2, <2>1 DEF Informs
<1>3. ASSUME NEW c \in BOOLEAN, NEW ss \in Seq(Signal), rcv' = Told(e, c, ss),
             stream'[e].inDone => stream[e].inDone \/ app'[e].quit
      PROVE  Informs(e)
  <2>1. rcv'[e].signals = rcv[e].signals \o ss
    BY <1>1, <1>3 DEF RcvEffects
  <2>. QED BY <1>3, <2>1 DEF Informs
<1>4. ASSUME NEW s \in Signal, rcv'[e].signals = rcv[e].signals \o <<s>>,
             stream'[e].inDone => stream[e].inDone \/ s.last
      PROVE  Informs(e)
  <2>1. <<s>> \in Seq(Signal) /\ 1 \in 1 .. Len(<<s>>) /\ <<s>>[1] = s
    OBVIOUS
  <2>2. s.last => \E i \in 1 .. Len(<<s>>) : <<s>>[i].last
    BY <2>1, Zenon
  <2>. DEFINE ss == <<s>>
  <2>3. ss \in Seq(Signal) /\ rcv'[e].signals = rcv[e].signals \o ss
        /\ (s.last => \E i \in 1 .. Len(ss) : ss[i].last)
    BY <1>4, <2>1, <2>2
  <2>. HIDE DEF ss
  <2>. QED BY <1>4, <2>3, Zenon DEF Informs
<1>5. ASSUME NEW c \in BOOLEAN, NEW s \in Signal, rcv' = Told(e, c, <<s>>),
             stream'[e].inDone => stream[e].inDone \/ s.last
      PROVE  Informs(e)
  <2>1. <<s>> \in Seq(Signal)
    OBVIOUS
  <2>2. rcv'[e].signals = rcv[e].signals \o <<s>>
    BY <1>1, <1>5, <2>1 DEF RcvEffects
  <2>. QED BY <1>4, <1>5, <2>2
<1>6. ASSUME rcv'[e].signals = rcv[e].signals \o If(~InDone(e), OnError)
      PROVE  Informs(e)
  <2>1. CASE InDone(e)
    <3>1. If(~InDone(e), OnError) = <<>>
      BY <2>1 DEF If
    <3>2. rcv'[e].signals = rcv[e].signals
      BY <1>1, <1>6, <3>1, ConcatEmptySeq
    <3>. QED BY <1>2, <2>1, <3>2 DEF InDone
  <2>2. CASE ~InDone(e)
    <3>1. If(~InDone(e), OnError) = <<OnError>>
      BY <2>2 DEF If
    <3>2. OnError \in Signal /\ OnError.last
      BY SignalsTyped DEF OnError
    <3>. QED BY <1>4, <1>6, <3>1, <3>2
  <2>. QED BY <2>1, <2>2
<1>7. ASSUME NEW c \in BOOLEAN
      PROVE  Told(e, c, If(~InDone(e), OnError))[e].signals
                = rcv[e].signals \o If(~InDone(e), OnError)
  BY <1>1, SignalsTyped DEF RcvEffects
<1>8. Stopped(e)[e].signals = rcv[e].signals \o If(~InDone(e), OnError)
  <2>1. (~OutDone(e)) \in BOOLEAN
    OBVIOUS
  <2>. QED BY <1>7, <2>1 DEF Stopped
<1>9. ASSUME NEW c \in BOOLEAN, rcv' = Told(e, c, If(~InDone(e), OnError)) PROVE Informs(e)
  BY <1>6, <1>7, <1>9
<1>10. ASSUME rcv'[e].signals = Stopped(e)[e].signals PROVE Informs(e)
  BY <1>6, <1>8, <1>10
<1>. QED BY <1>2, <1>3, <1>5, <1>9, <1>10

InformedInv ==
    /\ Informed(Requester)
    /\ served = "running" => Informed(Responder) \/ (OutDone(Responder) /\ first.deferred)
    /\ served = "active" => Informed(Responder)

\* The requester's receiver is there from the start.
LEMMA RequesterInforms ==
    ASSUME StartsAtOnce, TypeOK, RequesterActs
    PROVE  Informs(Requester)
<1>. DEFINE e == Requester
            f == Head(wire[e])
<1>0. /\ e \in End /\ Effects(e) /\ AppEffects(e) /\ FragmentEffects(e) /\ RcvEffects(e)
      /\ stream \in [End -> StreamState] /\ app \in [End -> AppState]
      /\ InDone(e) = stream[e].inDone
      /\ (~OutDone(e)) \in BOOLEAN /\ <<>> \in Seq(Signal) /\ OnError \in Signal
      /\ OnError.last /\ FALSE \in BOOLEAN /\ TRUE \in BOOLEAN
  BY StreamEffects, StreamFragments, ApplicationEffects, ReceiverEffects, SignalsTyped
     DEF TypeOK, InDone, OnError
<1>1. ASSUME app[e].quit => app'[e].quit, rcv'[e].signals = rcv[e].signals,
             stream'[e].inDone => stream[e].inDone
      PROVE  Informs(e)
  BY <1>1, WaysToInform
<1>2. CASE Answer
  <2>1. ASSUME NEW cut \in BOOLEAN, HandleReady(cut) PROVE Informs(e)
    <3>1. rcv' = rcv /\ app'[e].quit = app[e].quit /\ stream'[e].inDone = stream[e].inDone
      BY <1>0, <2>1 DEF HandleReady, AppEffects, StreamState
    <3>. QED BY <1>1, <3>1
  <2>2. CASE HandleReadyDeclined
    BY <1>1, <2>2 DEF HandleReadyDeclined
  <2>3. CASE HandleReject
    <3>1. CASE InDone(e)
      BY <1>1, <2>3, <3>1 DEF HandleReject
    <3>2. CASE ~InDone(e)
      BY <1>0, <2>3, <3>2, WaysToInform DEF HandleReject
    <3>. QED BY <3>1, <3>2
  <2>. QED BY <1>2, <2>1, <2>2, <2>3 DEF Answer
<1>3. CASE RequesterCalls
  <2>1. ASSUME NEW n \in Demands, RequesterRequest(n) PROVE Informs(e)
    <3>1. rcv' = rcv /\ app' = Asked(e, n) /\ stream' = stream /\ n \in Nat
      BY <2>1, BoundsAssumption DEF RequesterRequest
    <3>2. app'[e].quit = app[e].quit
      BY <1>0, <3>1 DEF AppEffects
    <3>. QED BY <1>1, <3>1, <3>2
  <2>2. CASE RequesterCancel
    <3>1. rcv' = Told(e, ~OutDone(e), <<>>) /\ app' = [app EXCEPT ![e].quit = TRUE]
      BY <2>2 DEF RequesterCancel
    <3>2. app'[e].quit
      BY <1>0, <3>1 DEF AppEffects
    <3>. QED BY <1>0, <3>1, <3>2, WaysToInform
  <2>3. ASSUME NEW c \in BOOLEAN, NEW cut \in BOOLEAN, RequesterOnNext(c, cut)
        PROVE  Informs(e)
    <3>1. rcv' = rcv /\ app' = Emitted(e, c) /\ stream' = OutEnds(e, c)
      BY <2>3 DEF RequesterOnNext
    <3>2. app'[e].quit = app[e].quit /\ stream'[e].inDone = stream[e].inDone
      BY <1>0, <3>1 DEF AppEffects, Effects
    <3>. QED BY <1>1, <3>1, <3>2
  <2>4. CASE RequesterOnComplete
    <3>1. /\ rcv' = rcv /\ app' = [app EXCEPT ![e].ended = "complete"]
          /\ stream' = stream \/ stream' = OutEnds(e, TRUE)
      BY <2>4 DEF RequesterOnComplete
    <3>2. app'[e].quit = app[e].quit
      BY <1>0, <3>1 DEF AppEffects
    <3>3. stream'[e].inDone = stream[e].inDone
      BY <1>0, <3>1 DEF Effects
    <3>. QED BY <1>1, <3>1, <3>2, <3>3
  <2>5. CASE RequesterOnError
    <3>1. /\ rcv' = Told(e, FALSE, If(~InDone(e), OnError))
          /\ app' = [app EXCEPT ![e].ended = "error"]
      BY <2>5 DEF RequesterOnError
    <3>2. app'[e].quit = app[e].quit
      BY <1>0, <3>1 DEF AppEffects
    <3>. QED BY <1>0, <3>1, <3>2, WaysToInform
  <2>6. ~RequesterOnErrorThrows /\ ~RequesterOnNextThrows
    BY DEF StartsAtOnce, RequesterOnErrorThrows, RequesterOnNextThrows
  <2>7. CASE RequesterOnExtension
    <3>1. rcv' = rcv /\ app' = [app EXCEPT ![e].extensions = @ + 1] /\ stream' = stream
      BY <2>7 DEF RequesterOnExtension
    <3>2. app'[e].quit = app[e].quit
      BY <1>0, <3>1 DEF AppEffects
    <3>. QED BY <1>1, <3>1, <3>2
  <2>8. /\ (\E n \in Demands : RequesterRequest(n)) => Informs(e)
        /\ (\E c, cut \in BOOLEAN : RequesterOnNext(c, cut)) => Informs(e)
    BY <2>1, <2>3
  <2>. QED BY <1>3, <2>2, <2>4, <2>5, <2>6, <2>7, <2>8 DEF RequesterCalls
<1>4. CASE RequesterHandles
  <2>1. app' = app
    BY <1>4 DEF RequesterHandles, RequesterHandlesPayload, RequesterHandlesFragment,
       RequesterHandlesCancel, RequesterHandlesError, RequesterHandlesRequestN,
       RequesterRefusesFrame, RequesterHandlesExtension, DropFrame
  <2>2. f \in Frame /\ f.complete \in BOOLEAN /\ f.data \in Seq(Nat) /\ f.requestN \in Nat
        /\ f.next \in BOOLEAN
    <3>1. wire[e] # <<>> /\ wire[e] \in Seq(Frame)
      BY <1>4 DEF RequesterHandles, RequesterHandlesPayload, RequesterHandlesFragment,
         RequesterHandlesCancel, RequesterHandlesError, RequesterHandlesRequestN,
         RequesterRefusesFrame, RequesterHandlesExtension, DropFrame, Handles, Arrives,
         TypeOK
    <3>2. f \in Frame
      BY <3>1, Taken
    <3>. QED BY <3>2 DEF Frame
  <2>3. CASE RequesterHandlesPayload
    <3>. DEFINE s == PayloadSignal(e, f)
    <3>1. s \in Signal /\ (f.complete => s.last)
      <4>1. Reassembled(e, f.data) \in Seq(Nat)
        BY <1>0, <2>2 DEF FragmentEffects, Reassembled
      <4>. QED BY <1>0, <2>2, <4>1, SignalsTyped
               DEF PayloadSignal, OnNext, OnComplete, Signal, SignalKinds
    <3>2. rcv' = Told(e, FALSE, <<s>>) /\ \E r \in BOOLEAN : stream' = Finished(e, f.complete, r)
      BY <2>2, <2>3 DEF RequesterHandlesPayload
    <3>3. stream'[e].inDone => stream[e].inDone \/ f.complete
      BY <1>0, <2>2, <3>2 DEF Effects
    <3>. HIDE DEF s
    <3>. QED BY <1>0, <2>1, <3>1, <3>2, <3>3, WaysToInform
  <2>4. CASE RequesterHandlesFragment
    <3>1. stream'[e].inDone = stream[e].inDone /\ rcv' = rcv
      BY <1>0, <2>2, <2>4 DEF RequesterHandlesFragment, FragmentEffects
    <3>. QED BY <1>1, <2>1, <3>1
  <2>5. CASE RequesterHandlesCancel
    <3>1. \/ UNCHANGED <<stream, rcv>>
          \/ stream' = OutEnds(e, TRUE) /\ rcv' = Told(e, TRUE, <<>>)
      BY <2>5 DEF RequesterHandlesCancel
    <3>2. stream' = OutEnds(e, TRUE) => stream'[e].inDone = stream[e].inDone
      BY <1>0 DEF Effects
    <3>. QED BY <1>0, <1>1, <2>1, <3>1, <3>2, WaysToInform
  <2>6. CASE RequesterHandlesError
    <3>1. rcv' = Told(e, ~OutDone(e), <<OnError>>)
      BY <2>6 DEF RequesterHandlesError
    <3>. QED BY <1>0, <2>1, <3>1, WaysToInform
  <2>7. CASE RequesterHandlesRequestN
    <3>1. \/ stream' = stream /\ (rcv' = rcv \/ rcv' = Granted(e, f.requestN))
          \/ rcv'[e].signals = Stopped(e)[e].signals
      BY <2>7, RequesterRefuses DEF RequesterHandlesRequestN
    <3>2. Granted(e, f.requestN)[e].signals = rcv[e].signals
      BY <1>0, <2>2 DEF RcvEffects
    <3>. QED BY <1>1, <2>1, <3>1, <3>2, WaysToInform
  <2>8. CASE RequesterHandlesExtension \/ DropFrame(e)
    BY <1>1, <2>1, <2>8 DEF RequesterHandlesExtension, DropFrame
  <2>. QED BY <1>4, <2>3, <2>4, <2>5, <2>6, <2>7, <2>8 DEF RequesterHandles
<1>. QED BY <1>2, <1>3, <1>4 DEF RequesterActs

\* The receiver the handler returns is told of what ended before it was there.
LEMMA ResponderInforms ==
    ASSUME TypeOK, QuietInv, FlowInv, PartInv, ReleaseInv, InformedInv, ResponderActs
    PROVE  /\ served' = "running" =>
                Informed(Responder)' \/ (stream'[Responder].outDone /\ first'.deferred)
           /\ served' = "active" => Informed(Responder)'
<1>. DEFINE e == Responder
            f == Head(wire[e])
            Ok == Informed(e) \/ (stream[e].outDone /\ first.deferred)
            Goal == /\ served' = "running" =>
                          Informed(Responder)' \/ (stream'[Responder].outDone /\ first'.deferred)
                    /\ served' = "active" => Informed(Responder)'
<1>0. /\ e \in End /\ Effects(e) /\ AppEffects(e) /\ FragmentEffects(e) /\ RcvEffects(e)
      /\ stream \in [End -> StreamState] /\ app \in [End -> AppState]
      /\ rcv \in [End -> RcvState]
      /\ InDone(e) = stream[e].inDone /\ OutDone(e) = stream[e].outDone
      /\ (~OutDone(e)) \in BOOLEAN /\ <<>> \in Seq(Signal) /\ OnError \in Signal
      /\ OnError.last /\ FALSE \in BOOLEAN /\ TRUE \in BOOLEAN
  BY StreamEffects, StreamFragments, ApplicationEffects, ReceiverEffects, SignalsTyped
     DEF TypeOK, InDone, OutDone, OnError
<1>1. ASSUME Informs(e), UNCHANGED served,
             served = "running" =>
               \/ stream'[e].outDone /\ first'.deferred
               \/ first' = first /\ (stream[e].outDone => stream'[e].outDone)
               \/ ~stream[e].outDone
      PROVE  Goal
  <2>1. Informed(e) => Informed(e)'
    BY <1>0, <1>1, InformsKeeps
  <2>. QED BY <1>0, <1>1, <2>1 DEF InformedInv
<1>2. ASSUME app[e].quit => app'[e].quit, rcv'[e].signals = rcv[e].signals,
             stream'[e].inDone => stream[e].inDone \/ app'[e].quit,
             UNCHANGED <<served, first>>, stream[e].outDone => stream'[e].outDone
      PROVE  Goal
  <2>1. Informs(e)
    BY <1>0, <1>2, WaysToInform
  <2>. QED BY <1>1, <1>2, <2>1
<1>3. CASE ResponderCalls
  <2>0. /\ UNCHANGED served
    BY <1>3 DEF ResponderCalls, ResponderRequest, ResponderCancel, ResponderOnNext,
       ResponderOnComplete, ResponderOnError, ResponderOnExtension
  <2>1. ASSUME NEW n \in Demands, ResponderRequest(n) PROVE Goal
    <3>1. app' = Asked(e, n) /\ UNCHANGED <<stream, rcv, first>> /\ n \in Nat
      BY <2>1, BoundsAssumption DEF ResponderRequest
    <3>2. app'[e].quit = app[e].quit
      BY <1>0, <3>1 DEF AppEffects
    <3>. QED BY <1>2, <2>0, <3>1, <3>2
  <2>2. CASE ResponderCancel
    <3>1. /\ stream' = InEnds(e) /\ app' = [app EXCEPT ![e].quit = TRUE]
          /\ UNCHANGED <<rcv, first>>
      BY <2>2 DEF ResponderCancel
    <3>2. stream'[e].outDone = stream[e].outDone /\ app'[e].quit
      BY <1>0, <3>1 DEF Effects, AppEffects
    <3>. QED BY <1>2, <2>0, <3>1, <3>2
  <2>3. ASSUME NEW c \in BOOLEAN, NEW cut \in BOOLEAN, ResponderOnNext(c, cut) PROVE Goal
    <3>1. /\ stream' = OutEnds(e, c) /\ app' = Emitted(e, c) /\ UNCHANGED <<rcv, first>>
      BY <2>3 DEF ResponderOnNext
    <3>2. /\ stream'[e].outDone = (stream[e].outDone \/ c)
          /\ stream'[e].inDone = stream[e].inDone
      BY <1>0, <3>1 DEF Effects
    <3>3. app'[e].quit = app[e].quit
      BY <1>0, <3>1 DEF AppEffects
    <3>. QED BY <1>2, <2>0, <3>1, <3>2, <3>3
  <2>4. CASE ResponderOnComplete
    <3>1. /\ app' = [app EXCEPT ![e].ended = "complete"] /\ UNCHANGED <<rcv, first>>
          /\ stream' = OutEnds(e, TRUE)
      BY <2>4 DEF ResponderOnComplete
    <3>2. /\ stream'[e].outDone = (stream[e].outDone \/ TRUE)
          /\ stream'[e].inDone = stream[e].inDone
      BY <1>0, <3>1 DEF Effects
    <3>3. app'[e].quit = app[e].quit
      BY <1>0, <3>1 DEF AppEffects
    <3>. QED BY <1>2, <2>0, <3>1, <3>2, <3>3
  <2>5. CASE ResponderOnError
    <3>1. /\ app' = [app EXCEPT ![e].ended = "error"] /\ stream' = BothEnd(e)
          /\ ~stream[e].outDone
          /\ served = "active" => rcv' = Told(e, FALSE, If(~InDone(e), OnError))
          /\ served = "running" => /\ rcv' = rcv
                                  /\ first' = [first EXCEPT !.deferred = ~InDone(e)]
      BY <2>5 DEF ResponderOnError, HasReceiver, OutDone
    <3>2. app'[e].quit = app[e].quit /\ stream'[e].outDone
      BY <1>0, <3>1 DEF AppEffects, Effects
    <3>3. CASE served = "active"
      <4>1. Informs(e)
        BY <1>0, <3>1, <3>2, <3>3, WaysToInform
      <4>. QED BY <1>1, <2>0, <3>1, <4>1
    <3>4. CASE served = "running" /\ InDone(e)
      <4>1. Informs(e)
        BY <1>0, <3>1, <3>2, <3>4, WaysToInform
      <4>. QED BY <1>1, <2>0, <3>1, <4>1
    <3>5. CASE served = "running" /\ ~InDone(e)
      <4>1. first'.deferred
        BY <3>1, <3>5 DEF TypeOK, First
      <4>. QED BY <2>0, <3>2, <3>5, <4>1
    <3>. QED BY <2>0, <3>3, <3>4, <3>5
  <2>6. CASE ResponderOnExtension
    <3>1. /\ app' = [app EXCEPT ![e].extensions = @ + 1] /\ UNCHANGED <<stream, rcv, first>>
      BY <2>6 DEF ResponderOnExtension
    <3>2. app'[e].quit = app[e].quit
      BY <1>0, <3>1 DEF AppEffects
    <3>. QED BY <1>2, <2>0, <3>1, <3>2
  <2>7. /\ (\E n \in Demands : ResponderRequest(n)) => Goal
        /\ (\E c, cut \in BOOLEAN : ResponderOnNext(c, cut)) => Goal
    BY <2>1, <2>3
  <2>. QED BY <1>3, <2>2, <2>4, <2>5, <2>6, <2>7 DEF ResponderCalls
<1>4. CASE HandlerReturns
  <2>1. /\ served = "running" /\ served' = "active" /\ UNCHANGED <<stream, app>>
        /\ rcv' = Told(e, FALSE, If(OutDone(e) /\ first.deferred, OnError))
    BY <1>4 DEF HandlerReturns
  <2>2. CASE OutDone(e) /\ first.deferred
    <3>1. rcv' = Told(e, FALSE, <<OnError>>)
      BY <2>1, <2>2 DEF If
    <3>2. <<OnError>> \in Seq(Signal)
      BY SignalsTyped
    <3>3. rcv'[e].signals = rcv[e].signals \o <<OnError>>
      BY <1>0, <3>1, <3>2 DEF RcvEffects
    <3>4. /\ Len(rcv[e].signals \o <<OnError>>) = Len(rcv[e].signals) + 1
          /\ Len(rcv[e].signals) \in Nat
          /\ (rcv[e].signals \o <<OnError>>)[Len(rcv[e].signals) + 1] = OnError
      BY <1>0, Pushed DEF RcvEffects
    <3>5. Len(rcv[e].signals) + 1 \in 1 .. Len(rcv'[e].signals)
          /\ rcv'[e].signals[Len(rcv[e].signals) + 1].last
      BY <1>0, <3>3, <3>4
    <3>6. SaidLast(e)'
      BY <3>5 DEF SaidLast
    <3>. QED BY <2>1, <3>6 DEF Informed
  <2>3. CASE ~(OutDone(e) /\ first.deferred)
    <3>1. rcv' = Told(e, FALSE, <<>>)
      BY <2>1, <2>3 DEF If
    <3>2. Informs(e)
      BY <1>0, <2>1, <3>1, WaysToInform
    <3>3. Informed(e)
      BY <2>1, <2>3 DEF InformedInv
    <3>. QED BY <1>0, <2>1, <3>2, <3>3, InformsKeeps
  <2>. QED BY <2>2, <2>3
<1>5. CASE HandlerThrows
  BY <1>5 DEF HandlerThrows
<1>6. CASE ResponderHandles
  <2>1. /\ open[e] /\ wire[e] # <<>> /\ UNCHANGED <<open, app>>
    BY <1>6, ResponderTakes DEF ResponderHandles, ResponderRejects,
       ResponderRefusesDemand, ResponderReceivesFirstFragment,
       ResponderReceivesRequest, ResponderReassemblesRequest, CallHandler,
       ResponderHandlesFragment, ResponderHandlesPayload, ResponderHandlesEnd,
       ResponderHandlesRequestN, ResponderHandlesExtension, DropFrame
  <2>2. /\ f \in Frame /\ f.complete \in BOOLEAN /\ f.data \in Seq(Nat)
        /\ f.requestN \in Nat /\ first.isComplete \in BOOLEAN /\ f.next \in BOOLEAN
    <3>1. wire[e] \in Seq(Frame) /\ first.isComplete \in BOOLEAN
      BY DEF TypeOK, First
    <3>2. f \in Frame
      BY <2>1, <3>1, Taken
    <3>. QED BY <3>1, <3>2 DEF Frame
  <2>3. CASE ResponderRejects \/ ResponderRefusesDemand \/ ResponderReceivesFirstFragment
    BY <2>3 DEF ResponderRejects, ResponderRefusesDemand, ResponderReceivesFirstFragment
  <2>4. ASSUME NEW d, NEW c \in BOOLEAN, NEW n, served' = "running",
               rcv' = [rcv EXCEPT ![e] = [@ EXCEPT !.signals = <<OnNext(d, c)>>,
                                                   !.granted = n]],
               stream'[e].inDone => c
        PROVE  Goal
    <3>1. rcv'[e].signals = <<OnNext(d, c)>>
      BY <1>0, <2>4 DEF RcvState
    <3>2. c => 1 \in 1 .. Len(rcv'[e].signals) /\ rcv'[e].signals[1].last
      BY <3>1 DEF OnNext
    <3>3. c => SaidLast(e)'
      BY <3>2 DEF SaidLast
    <3>4. Informed(e)'
      BY <2>4, <3>3 DEF Informed, InDone
    <3>. QED BY <2>4, <3>4
  <2>5. CASE ResponderReceivesRequest
    <3>1. stream'[e].inDone = f.complete
      BY <1>0, <2>5 DEF ResponderReceivesRequest, StreamState
    <3>2. /\ served' = "running"
          /\ rcv' = [rcv EXCEPT ![e] = [@ EXCEPT !.signals = <<OnNext(f.data, f.complete)>>,
                                                 !.granted = f.requestN]]
      BY <2>5 DEF ResponderReceivesRequest, CallHandler
    <3>. QED BY <2>2, <2>4, <3>1, <3>2
  <2>6. CASE ResponderReassemblesRequest
    <3>. DEFINE d == Reassembled(e, f.data)
                n == first.initialRequestN
    <3>1. /\ served # "running" /\ served # "active" /\ stream[e].registered
          /\ served' = "running" /\ stream' = Finished(e, f.complete, TRUE)
          /\ rcv' = [rcv EXCEPT ![e] = [@ EXCEPT !.signals = <<OnNext(d, f.complete)>>,
                                                 !.granted = n]]
      <4>1. (first.isComplete \/ f.complete) = f.complete
        BY <2>2 DEF FlowInv
      <4>. QED BY <2>6, <4>1 DEF ResponderReassemblesRequest, CallHandler, Handles,
                  Arrives, HasReceiver
    <3>2. served \notin {"threw", "none", "refused"}
      BY <2>1, <3>1 DEF FlowInv, RegistryInv, RegistryExact, Fresh, RequestInv
    <3>3. served = "reassembling"
      BY <3>1, <3>2 DEF TypeOK
    <3>4. ~stream[e].inDone
      BY <1>0, <2>1, <3>3 DEF ReleaseInv
    <3>5. stream'[e].inDone => f.complete
      BY <1>0, <2>2, <3>1, <3>4 DEF Effects
    <3>. HIDE DEF d, n
    <3>. QED BY <2>2, <2>4, <3>1, <3>5
  <2>7. CASE ResponderHandlesFragment
    <3>1. stream' = Extended(e, f.data) /\ UNCHANGED <<served, first, rcv>>
      BY <2>7 DEF ResponderHandlesFragment
    <3>2. stream'[e].outDone = stream[e].outDone /\ stream'[e].inDone = stream[e].inDone
      BY <1>0, <2>2, <3>1 DEF FragmentEffects
    <3>. QED BY <1>2, <2>1, <3>1, <3>2
  <2>8. ASSUME served = "active", UNCHANGED served, Informs(e) PROVE Goal
    BY <1>1, <2>8
  <2>9. CASE ResponderHandlesPayload
    <3>. DEFINE s == PayloadSignal(e, f)
    <3>1. s \in Signal /\ (f.complete => s.last)
      <4>1. Reassembled(e, f.data) \in Seq(Nat)
        BY <1>0, <2>2 DEF FragmentEffects, Reassembled
      <4>. QED BY <1>0, <2>2, <4>1, SignalsTyped
               DEF PayloadSignal, OnNext, OnComplete, Signal, SignalKinds
    <3>2. /\ rcv' = Told(e, FALSE, <<s>>) /\ stream' = Finished(e, f.complete, TRUE)
          /\ served = "active" /\ UNCHANGED served
      BY <2>9 DEF ResponderHandlesPayload, HasReceiver
    <3>3. stream'[e].inDone => stream[e].inDone \/ f.complete
      BY <1>0, <2>2, <3>2 DEF Effects
    <3>. HIDE DEF s
    <3>4. Informs(e)
      BY <1>0, <2>1, <3>1, <3>2, <3>3, WaysToInform
    <3>. QED BY <2>8, <3>2, <3>4
  <2>10. CASE ResponderHandlesEnd
    <3>1. /\ stream[e].registered /\ served # "running" /\ f.type # "PAYLOAD"
          /\ UNCHANGED served
          /\ HasReceiver => rcv' = Stopped(e)
      BY <2>10 DEF ResponderHandlesEnd, Handles, Arrives
    <3>2. served = "active"
      BY <2>1, <3>1, OthersMeetReceiver DEF FlowInv
    <3>3. Informs(e)
      BY <1>0, <2>1, <3>1, <3>2, WaysToInform DEF HasReceiver
    <3>. QED BY <2>8, <3>1, <3>2, <3>3
  <2>11. CASE ResponderHandlesRequestN
    <3>1. /\ stream[e].registered /\ served # "running" /\ f.type # "PAYLOAD"
          /\ UNCHANGED served
      BY <2>11 DEF ResponderHandlesRequestN, Handles, Arrives
    <3>2. served = "active"
      BY <2>1, <3>1, OthersMeetReceiver DEF FlowInv
    <3>3. CASE ResponderRefusesFrame
      <4>1. \E b : rcv' = [Stopped(e) EXCEPT ![e].protocolErrors = @ + Count(b)]
        BY <3>2, <3>3 DEF ResponderRefusesFrame, HasReceiver
      <4>2. Stopped(e) \in [End -> RcvState]
        BY StoppedTyped
      <4>3. rcv'[e].signals = Stopped(e)[e].signals
        BY <4>1, <4>2 DEF RcvState
      <4>4. Informs(e)
        BY <1>0, <2>1, <4>3, WaysToInform
      <4>. QED BY <2>8, <3>1, <3>2, <4>4
    <3>4. CASE stream' = stream /\ rcv' = Granted(e, f.requestN)
      <4>1. rcv'[e].signals = rcv[e].signals
        BY <1>0, <2>2, <3>4 DEF RcvEffects
      <4>2. Informs(e)
        BY <1>0, <2>1, <3>4, <4>1, WaysToInform
      <4>. QED BY <2>8, <3>1, <3>2, <4>2
    <3>. QED BY <2>11, <3>3, <3>4 DEF ResponderHandlesRequestN
  <2>12. CASE ResponderHandlesExtension
    <3>1. /\ stream[e].registered /\ served # "running" /\ f.type # "PAYLOAD"
          /\ UNCHANGED <<served, first>>
      BY <2>12 DEF ResponderHandlesExtension, Handles, Arrives
    <3>2. ~Reassembling
      BY <2>1, <3>1, OthersMeetReceiver DEF Reassembling, Collecting, HasReceiver, FlowInv
    <3>3. UNCHANGED <<stream, rcv>>
      BY <2>12, <3>2 DEF ResponderHandlesExtension
    <3>. QED BY <1>2, <2>1, <3>1, <3>3
  <2>13. CASE DropFrame(e)
    <3>1. UNCHANGED <<served, first, stream, rcv>>
      BY <2>13 DEF DropFrame
    <3>. QED BY <1>2, <2>1, <3>1
  <2>. QED BY <1>6, <2>3, <2>5, <2>6, <2>7, <2>9, <2>10, <2>11, <2>12, <2>13
           DEF ResponderHandles
<1>. QED BY <1>3, <1>4, <1>5, <1>6 DEF ResponderActs, HandlerEnds

LEMMA CloseInforms ==
    ASSUME HandlerKeepsConnection, TypeOK, RegistryInv, InformedInv, NEW e \in End, Close(e)
    PROVE  /\ e = Requester => Informed(e)'
           /\ e = Responder /\ served \in {"running", "active"} => Informed(e)'
<1>1. /\ UNCHANGED <<phase, served, app>> /\ (e = Responder => served # "running")
      /\ \/ UNCHANGED <<stream, rcv>>
         \/ rcv' = Stopped(e)
         \/ e # Requester /\ served # "active"
  BY DEF Close, HandlerKeepsConnection, HasReceiver
<1>2. UNCHANGED <<stream, rcv>> \/ rcv' = Stopped(e) => Informs(e)
  BY <1>1, WaysToInform
<1>3. Informs(e) /\ Informed(e) => Informed(e)'
  BY InformsKeeps
<1>. QED BY <1>1, <1>2, <1>3 DEF InformedInv

LEMMA InformedSteps ==
    ASSUME StartsAtOnce, HandlerKeepsConnection, TypeOK, QuietInv, FlowInv, PartInv,
           ReleaseInv, InformedInv, Next
    PROVE  InformedInv'
<1>1. CASE RequesterActs
  <2>1. /\ UNCHANGED <<served, first, open>> /\ stream'[Responder] = stream[Responder]
        /\ rcv'[Responder] = rcv[Responder] /\ app'[Responder] = app[Responder]
    BY <1>1, RequesterLeaves
  <2>2. Informed(Requester)'
    BY <1>1, RequesterInforms, InformsKeeps DEF InformedInv
  <2>. QED BY <2>1, <2>2 DEF InformedInv, Informed, SaidLast, OutDone, InDone
<1>2. CASE ResponderActs
  <2>1. /\ stream'[Requester] = stream[Requester]
        /\ rcv'[Requester] = rcv[Requester] /\ app'[Requester] = app[Requester]
    BY <1>2, ResponderLeaves
  <2>2. Informed(Requester)'
    BY <2>1 DEF InformedInv, Informed, SaidLast, InDone
  <2>3. /\ served' = "running" =>
             Informed(Responder)' \/ (stream'[Responder].outDone /\ first'.deferred)
        /\ served' = "active" => Informed(Responder)'
    BY <1>2, ResponderInforms
  <2>. QED BY <2>2, <2>3 DEF InformedInv, OutDone
<1>3. ASSUME NEW e \in End, Close(e) PROVE InformedInv'
  <2>1. /\ UNCHANGED <<phase, held, served, first, app>>
        /\ \A d \in End \ {e} : stream'[d] = stream[d] /\ rcv'[d] = rcv[d]
    BY <1>3, CloseLeaves
  <2>2. /\ e = Requester => Informed(e)'
        /\ e = Responder /\ served \in {"running", "active"} => Informed(e)'
    BY <1>3, CloseInforms DEF FlowInv
  <2>3. CASE e = Requester
    <3>1. /\ stream'[Responder] = stream[Responder] /\ rcv'[Responder] = rcv[Responder]
      BY <2>1, <2>3
    <3>2. Informed(Responder) => Informed(Responder)'
      BY <2>1, <3>1 DEF Informed, SaidLast, InDone
    <3>. QED BY <2>1, <2>2, <2>3, <3>1, <3>2 DEF InformedInv, OutDone
  <2>4. CASE e = Responder
    <3>1. /\ stream'[Requester] = stream[Requester] /\ rcv'[Requester] = rcv[Requester]
      BY <2>1, <2>4
    <3>2. Informed(Requester)'
      BY <2>1, <3>1 DEF Informed, SaidLast, InDone, InformedInv
    <3>. QED BY <2>1, <2>2, <2>4, <3>2 DEF InformedInv
  <2>. QED BY <2>3, <2>4
<1>. QED BY <1>1, <1>2, <1>3 DEF Next, RequesterActs, ResponderActs

(***************************************************************************)
(* Whatever way a stream is over, both its producer and its receiver know: *)
(* the receiver has got a last signal, or its application has cancelled -  *)
(* also the receiver a handler returns after the stream has ended, which   *)
(* is given the deferred error (RequestChannelStream.ts, close, handle and *)
(* the constructor of RequestChannelResponderStream).                      *)
(***************************************************************************)
THEOREM NobodyLeftBehind ==
    ASSUME OneFrameAtATime, HandlerKeepsConnection, StartsAtOnce
    PROVE  Spec => []Released
<1>. DEFINE Inv == QuietInv /\ PartInv /\ ReleaseInv /\ InformedInv
<1>1. Init => Inv
  BY DEF Init, QuietInv, PartInv, ReleaseInv, Single, Freed, OutDone, InDone,
         InformedInv, Informed
<1>2. TypeOK /\ FlowInv /\ Inv /\ [Next]_vars => Inv'
  <2>1. TypeOK /\ FlowInv /\ Inv /\ Next => Inv'
    BY QuietSteps, PartSteps, ReleaseSteps, InformedSteps DEF FlowInv
  <2>2. QuietInv /\ PartInv /\ ReleaseInv /\ UNCHANGED vars
          => QuietInv' /\ PartInv' /\ ReleaseInv'
    BY DEF vars, QuietInv, PartInv, Collecting, ReleaseInv, Single, Freed, OutDone, InDone
  <2>3. InformedInv /\ UNCHANGED vars => InformedInv'
    BY DEF vars, InformedInv, Informed, SaidLast, OutDone, InDone
  <2>. QED BY <2>1, <2>2, <2>3
<1>3. Inv => SubscriberTold
  BY DEF InformedInv, Informed, SaidLast, SubscriberTold, Over, HasReceiver
<1>. HIDE DEF Inv
<1>4. Spec => []SubscriberTold
  BY <1>1, <1>2, <1>3, TypeCorrect, FlowCorrect, PTL DEF Spec
<1>5. ProducerReleased /\ SubscriberTold => Released
  BY DEF Released
<1>. QED BY <1>4, <1>5, ProducersReleased, PTL

-----------------------------------------------------------------------------
(* How the frames of one direction carry payloads.  A receiver stands at s *)
(* when it has been given s.count signals and (s.part) the first fragment  *)
(* of the next payload, and (s.last) its last signal; frame f takes it to  *)
(* t.  The producer has emitted n payloads in all, and completed if all.   *)

Place(count, part, last) == [count |-> count, part |-> part, last |-> last]
Places == [count: Nat, part: BOOLEAN, last: BOOLEAN]

Silent(f) ==
    /\ f.type \in {"CANCEL", "REQUEST_N", "EXT"}
    /\ f.type = "REQUEST_N" => f.requestN >= 1

Conveys(f, s, t, n, all) ==
    \/ Silent(f) /\ t = s
    \/ /\ f.type = "REQUEST" /\ f.follows /\ ~f.complete /\ f.data = <<>>
       /\ ~s.part /\ t = s
    \/ /\ ~s.last
       /\ \/ f.type = "ERROR" /\ t = Place(s.count + 1, s.part, TRUE)
          \/ /\ f = CompleteFrame /\ ~s.part /\ all /\ s.count = n
             /\ t = Place(s.count + 1, FALSE, TRUE)
          \/ /\ f = PayloadFrame(<<s.count + 1>>, TRUE, FALSE, TRUE)
             /\ ~s.part /\ s.count < n /\ t = Place(s.count, TRUE, FALSE)
          \/ /\ f.type \in {"REQUEST", "PAYLOAD"} /\ f.next /\ ~f.follows
             /\ f.data = IF s.part THEN <<s.count + 1>> ELSE Content(s.count + 1)
             /\ s.count < n /\ (f.complete => all /\ s.count + 1 = n)
             /\ t = Place(s.count + 1, FALSE, f.complete)

\* The frames of q take a receiver from s to t.
Guides(q, s, t, n, all) ==
    \E P \in [0 .. Len(q) -> Places] :
       /\ P[0] = s /\ P[Len(q)] = t
       /\ \A i \in 1 .. Len(q) : Conveys(q[i], P[i - 1], P[i], n, all)

LEMMA GuidesNowhere ==
    ASSUME NEW s \in Places, NEW n, NEW all
    PROVE  /\ Guides(<<>>, s, s, n, all)
           /\ \A t : Guides(<<>>, s, t, n, all) => t = s
<1>. DEFINE P == [i \in 0 .. 0 |-> s]
<1>1. P \in [0 .. 0 -> Places] /\ P[0] = s
  OBVIOUS
<1>. HIDE DEF P
<1>2. Len(<<>>) = 0 /\ 1 .. 0 = {}
  OBVIOUS
<1>3. Guides(<<>>, s, s, n, all)
  BY <1>1, <1>2 DEF Guides
<1>4. ASSUME NEW t, Guides(<<>>, s, t, n, all) PROVE t = s
  BY <1>2, <1>4 DEF Guides
<1>. QED BY <1>3, <1>4

LEMMA GuidesTaken ==
    ASSUME NEW q \in Seq(Frame), q # <<>>, NEW s, NEW t, NEW n, NEW all,
           Guides(q, s, t, n, all)
    PROVE  \E u \in Places :
              Conveys(q[1], s, u, n, all) /\ Guides(Tail(q), u, t, n, all)
<1>. DEFINE r == Tail(q)
<1>1. PICK P \in [0 .. Len(q) -> Places] :
         /\ P[0] = s /\ P[Len(q)] = t
         /\ \A i \in 1 .. Len(q) : Conveys(q[i], P[i - 1], P[i], n, all)
  BY DEF Guides
<1>2. /\ Len(r) \in Nat /\ Len(q) = Len(r) + 1
      /\ \A i \in 1 .. Len(r) : r[i] = q[i + 1]
  BY Taken
<1>. DEFINE G == [i \in 0 .. Len(r) |-> P[i + 1]]
<1>. HIDE DEF r
<1>3. \A i \in 0 .. Len(q) : P[i] \in Places
  OBVIOUS
<1>4. /\ G \in [0 .. Len(r) -> Places]
      /\ \A i \in 0 .. Len(r) : G[i] = P[i + 1]
  BY <1>2, <1>3
<1>. HIDE DEF G
<1>5. ASSUME NEW i \in 1 .. Len(r)
      PROVE  Conveys(r[i], G[i - 1], G[i], n, all)
  <2>1. /\ i \in 0 .. Len(r) /\ i - 1 \in 0 .. Len(r) /\ (i - 1) + 1 = i
        /\ i + 1 \in 1 .. Len(q) /\ (i + 1) - 1 = i
    BY <1>2
  <2>2. Conveys(q[i + 1], P[i], P[i + 1], n, all)
    BY <1>1, <2>1
  <2>. QED BY <1>2, <1>4, <2>1, <2>2
<1>6. /\ 1 \in 1 .. Len(q) /\ 1 - 1 = 0 /\ 0 + 1 = 1 /\ 0 \in 0 .. Len(r)
      /\ Len(r) \in 0 .. Len(r) /\ 1 \in 0 .. Len(q)
  BY <1>2
<1>7. G[0] = P[1] /\ G[Len(r)] = t /\ P[1] \in Places
  BY <1>1, <1>2, <1>3, <1>4, <1>6
<1>8. Conveys(q[1], s, P[1], n, all)
  BY <1>1, <1>6
<1>9. Guides(r, P[1], t, n, all)
  BY <1>4, <1>5, <1>7 DEF Guides
<1>. QED BY <1>7, <1>8, <1>9 DEF r

LEMMA GuidesPushed ==
    ASSUME NEW q \in Seq(Frame), NEW f \in Frame, NEW s, NEW t,
           NEW u \in Places, NEW n, NEW all,
           Guides(q, s, t, n, all), Conveys(f, t, u, n, all)
    PROVE  Guides(q \o <<f>>, s, u, n, all)
<1>. DEFINE r == q \o <<f>>
<1>1. PICK P \in [0 .. Len(q) -> Places] :
         /\ P[0] = s /\ P[Len(q)] = t
         /\ \A i \in 1 .. Len(q) : Conveys(q[i], P[i - 1], P[i], n, all)
  BY DEF Guides
<1>2. /\ Len(r) = Len(q) + 1 /\ r[Len(q) + 1] = f /\ Len(q) \in Nat
      /\ \A i \in 1 .. Len(q) : r[i] = q[i]
  BY Pushed
<1>. DEFINE G == [i \in 0 .. Len(r) |-> IF i <= Len(q) THEN P[i] ELSE u]
<1>3. u \in Places
  OBVIOUS
<1>. HIDE DEF r
<1>4. \A i \in 0 .. Len(q) : P[i] \in Places
  OBVIOUS
<1>5. /\ G \in [0 .. Len(r) -> Places]
      /\ \A i \in 0 .. Len(q) : G[i] = P[i]
      /\ G[Len(r)] = u
  BY <1>2, <1>3, <1>4
<1>. HIDE DEF G
<1>6. ASSUME NEW i \in 1 .. Len(r)
      PROVE  Conveys(r[i], G[i - 1], G[i], n, all)
  <2>1. CASE i = Len(r)
    <3>1. Len(q) \in 0 .. Len(q) /\ i - 1 = Len(q) /\ r[i] = f
      BY <1>2, <2>1
    <3>. QED BY <1>1, <1>5, <2>1, <3>1
  <2>2. CASE i \in 1 .. Len(q)
    <3>1. i \in 0 .. Len(q) /\ i - 1 \in 0 .. Len(q)
      BY <1>2, <2>2
    <3>. QED BY <1>1, <1>2, <1>5, <2>2, <3>1
  <2>. QED BY <1>2, <2>1, <2>2
<1>7. G[0] = s
  <2>1. 0 \in 0 .. Len(q)
    BY <1>2
  <2>. QED BY <1>1, <1>5, <2>1
<1>. QED BY <1>5, <1>6, <1>7 DEF Guides, r

\* Before the producer completes, it may emit more.
LEMMA GuidesFurther ==
    ASSUME NEW q \in Seq(Frame), NEW s, NEW t, NEW n \in Nat, NEW m \in Nat,
           n <= m, NEW all, Guides(q, s, t, n, FALSE)
    PROVE  Guides(q, s, t, m, all)
<1>1. PICK P \in [0 .. Len(q) -> Places] :
         /\ P[0] = s /\ P[Len(q)] = t
         /\ \A i \in 1 .. Len(q) : Conveys(q[i], P[i - 1], P[i], n, FALSE)
  BY DEF Guides
<1>2. ASSUME NEW i \in 1 .. Len(q)
      PROVE  Conveys(q[i], P[i - 1], P[i], m, all)
  <2>1. P[i - 1].count \in Nat
    <3>1. i - 1 \in 0 .. Len(q)
      OBVIOUS
    <3>2. P[i - 1] \in Places
      BY <3>1
    <3>. QED BY <3>2 DEF Places
  <2>2. Conveys(q[i], P[i - 1], P[i], n, FALSE)
    BY <1>1
  <2>3. P[i - 1].count < n => P[i - 1].count < m
    BY <2>1
  <2>. QED BY <2>2, <2>3 DEF Conveys
<1>. QED BY <1>1, <1>2 DEF Guides

\* They take it as far as the producer is, unless the connection was cut in
\* between (exact if not); beyond a last signal no payload follows.
Reaches(q, s, n, all, ceased, exact) ==
    \E m \in Nat, l \in BOOLEAN :
       /\ Guides(q, s, Place(m, FALSE, l), n, all)
       /\ l => ceased
       /\ ~l => m <= n /\ (exact => m = n)

LEMMA ReachesNowhere ==
    ASSUME NEW all, NEW ceased, NEW exact
    PROVE  Reaches(<<>>, Place(0, FALSE, FALSE), 0, all, ceased, exact)
<1>1. Place(0, FALSE, FALSE) \in Places /\ 0 <= 0
  BY DEF Place, Places
<1>2. Guides(<<>>, Place(0, FALSE, FALSE), Place(0, FALSE, FALSE), 0, all)
  BY <1>1, GuidesNowhere
<1>. QED BY <1>1, <1>2 DEF Reaches

LEMMA ReachesStill ==
    ASSUME NEW q, NEW s, NEW n, NEW all, NEW ceased, NEW exact,
           Reaches(q, s, n, all, ceased, exact),
           NEW c, NEW x, ceased => c, x => exact
    PROVE  Reaches(q, s, n, all, c, x)
BY DEF Reaches

LEMMA ReachesFurther ==
    ASSUME NEW q \in Seq(Frame), NEW s, NEW n \in Nat, NEW ceased,
           Reaches(q, s, n, FALSE, ceased, FALSE),
           NEW m \in Nat, n <= m, NEW all
    PROVE  Reaches(q, s, m, all, ceased, FALSE)
<1>1. PICK k \in Nat, l \in BOOLEAN :
         /\ Guides(q, s, Place(k, FALSE, l), n, FALSE)
         /\ l => ceased
         /\ ~l => k <= n
  BY DEF Reaches
<1>2. Guides(q, s, Place(k, FALSE, l), m, all)
  BY <1>1, GuidesFurther
<1>3. ~l => k <= m
  BY <1>1
<1>. QED BY <1>1, <1>2, <1>3 DEF Reaches

\* A frame without payload.
LEMMA ReachesSilent ==
    ASSUME NEW q \in Seq(Frame), NEW s, NEW n, NEW all, NEW ceased, NEW exact,
           Reaches(q, s, n, all, ceased, exact), NEW f \in Frame, Silent(f)
    PROVE  Reaches(q \o <<f>>, s, n, all, ceased, exact)
<1>1. PICK m \in Nat, l \in BOOLEAN :
         /\ Guides(q, s, Place(m, FALSE, l), n, all)
         /\ l => ceased
         /\ ~l => m <= n /\ (exact => m = n)
  BY DEF Reaches
<1>2. Place(m, FALSE, l) \in Places
  BY DEF Place, Places
<1>3. Conveys(f, Place(m, FALSE, l), Place(m, FALSE, l), n, all)
  BY DEF Conveys
<1>4. Guides(q \o <<f>>, s, Place(m, FALSE, l), n, all)
  BY <1>1, <1>2, <1>3, GuidesPushed
<1>. QED BY <1>1, <1>4 DEF Reaches

LEMMA ReachesError ==
    ASSUME NEW q \in Seq(Frame), NEW s, NEW n, NEW all, NEW exact,
           Reaches(q, s, n, all, FALSE, exact)
    PROVE  Reaches(q \o <<ErrorFrame>>, s, n, all, TRUE, exact)
<1>1. PICK m \in Nat : Guides(q, s, Place(m, FALSE, FALSE), n, all)
  BY DEF Reaches
<1>2. Place(m + 1, FALSE, TRUE) \in Places /\ m + 1 \in Nat
  BY DEF Place, Places
<1>3. ErrorFrame \in Frame /\ ErrorFrame.type = "ERROR"
  BY FramesTyped DEF ErrorFrame, Bare
<1>4. Conveys(ErrorFrame, Place(m, FALSE, FALSE), Place(m + 1, FALSE, TRUE), n, all)
  BY <1>3 DEF Conveys, Place
<1>5. Guides(q \o <<ErrorFrame>>, s, Place(m + 1, FALSE, TRUE), n, all)
  BY <1>1, <1>2, <1>3, <1>4, GuidesPushed
<1>. QED BY <1>2, <1>5 DEF Reaches

LEMMA ReachesComplete ==
    ASSUME NEW q \in Seq(Frame), NEW s, NEW n \in Nat,
           Reaches(q, s, n, FALSE, FALSE, TRUE)
    PROVE  Reaches(q \o <<CompleteFrame>>, s, n, TRUE, TRUE, TRUE)
<1>1. Guides(q, s, Place(n, FALSE, FALSE), n, FALSE) /\ n <= n
  BY DEF Reaches
<1>2. Guides(q, s, Place(n, FALSE, FALSE), n, TRUE)
  BY <1>1, GuidesFurther
<1>3. Place(n + 1, FALSE, TRUE) \in Places /\ n + 1 \in Nat /\ CompleteFrame \in Frame
  BY FramesTyped DEF Place, Places
<1>4. Conveys(CompleteFrame, Place(n, FALSE, FALSE), Place(n + 1, FALSE, TRUE), n, TRUE)
  BY DEF Conveys, Place
<1>5. Guides(q \o <<CompleteFrame>>, s, Place(n + 1, FALSE, TRUE), n, TRUE)
  BY <1>2, <1>3, <1>4, GuidesPushed
<1>. QED BY <1>3, <1>5 DEF Reaches

\* The next payload, in one frame or two.
LEMMA GuidesPayload ==
    ASSUME NEW q \in Seq(Frame), NEW s, NEW n \in Nat, NEW c \in BOOLEAN,
           NEW cut \in BOOLEAN, Guides(q, s, Place(n, FALSE, FALSE), n + 1, c)
    PROVE  Guides(q \o PayloadFrames(n + 1, c, cut), s, Place(n + 1, FALSE, c), n + 1, c)
<1>2. Place(n, TRUE, FALSE) \in Places /\ Place(n + 1, FALSE, c) \in Places
  BY DEF Place, Places
<1>3. PayloadFrames(n + 1, c, cut) \in Seq(Frame)
  BY FramesTyped
<1>4. CASE cut
  <2>. DEFINE x == PayloadFrame(<<n + 1>>, TRUE, FALSE, TRUE)
              y == PayloadFrame(<<n + 1>>, TRUE, c, FALSE)
  <2>1. PayloadFrames(n + 1, c, cut) = <<x, y>>
    BY <1>4 DEF PayloadFrames
  <2>2. Conveys(x, Place(n, FALSE, FALSE), Place(n, TRUE, FALSE), n + 1, c)
    <3>1. /\ Place(n, FALSE, FALSE).count = n /\ ~Place(n, FALSE, FALSE).part
          /\ ~Place(n, FALSE, FALSE).last /\ n < n + 1
      BY DEF Place
    <3>. QED BY <3>1, Zenon DEF Conveys
  <2>3. Conveys(y, Place(n, TRUE, FALSE), Place(n + 1, FALSE, c), n + 1, c)
    <3>1. /\ y.type = "PAYLOAD" /\ y.next /\ ~y.follows /\ y.data = <<n + 1>>
          /\ y.complete = c
      BY DEF PayloadFrame
    <3>2. /\ Place(n, TRUE, FALSE).count = n /\ Place(n, TRUE, FALSE).part
          /\ ~Place(n, TRUE, FALSE).last /\ n < n + 1
      BY DEF Place
    <3>. HIDE DEF y
    <3>. QED BY <3>1, <3>2 DEF Conveys
  <2>. HIDE DEF x, y
  <2>4. x \in Frame /\ y \in Frame
    <3>1. <<x, y>> \in Seq(Frame)
      BY <1>3, <2>1
    <3>2. Len(<<x, y>>) = 2 /\ <<x, y>>[1] = x /\ <<x, y>>[2] = y
      OBVIOUS
    <3>. QED BY <3>1, <3>2
  <2>5. Guides(q \o <<x>>, s, Place(n, TRUE, FALSE), n + 1, c)
    BY <1>2, <2>2, <2>4, GuidesPushed
  <2>6. q \o <<x>> \in Seq(Frame) /\ <<x>> \in Seq(Frame) /\ <<y>> \in Seq(Frame)
    BY <2>4
  <2>7. Guides((q \o <<x>>) \o <<y>>, s, Place(n + 1, FALSE, c), n + 1, c)
    BY <1>2, <2>3, <2>4, <2>5, <2>6, GuidesPushed
  <2>8. (q \o <<x>>) \o <<y>> = q \o <<x, y>>
    <3>1. (q \o <<x>>) \o <<y>> = q \o (<<x>> \o <<y>>)
      BY <2>6, ConcatAssociative
    <3>2. <<x>> \o <<y>> = <<x, y>>
      BY <2>4, Joined
    <3>. QED BY <3>1, <3>2
  <2>. QED BY <2>1, <2>7, <2>8
<1>5. CASE ~cut
  <2>. DEFINE x == PayloadFrame(Content(n + 1), TRUE, c, FALSE)
  <2>1. PayloadFrames(n + 1, c, cut) = <<x>>
    BY <1>5 DEF PayloadFrames
  <2>2. Conveys(x, Place(n, FALSE, FALSE), Place(n + 1, FALSE, c), n + 1, c)
    <3>1. /\ x.type = "PAYLOAD" /\ x.next /\ ~x.follows /\ x.data = Content(n + 1)
          /\ x.complete = c
      BY DEF PayloadFrame
    <3>2. /\ Place(n, FALSE, FALSE).count = n /\ ~Place(n, FALSE, FALSE).part
          /\ ~Place(n, FALSE, FALSE).last /\ n < n + 1
      BY DEF Place
    <3>. HIDE DEF x
    <3>. QED BY <3>1, <3>2 DEF Conveys
  <2>3. x \in Frame
    <3>. HIDE DEF x
    <3>1. <<x>> \in Seq(Frame) /\ <<x>>[1] = x /\ Len(<<x>>) = 1
      BY <1>3, <2>1
    <3>. QED BY <3>1
  <2>. HIDE DEF x
  <2>. QED BY <1>2, <2>1, <2>2, <2>3, GuidesPushed
<1>. QED BY <1>4, <1>5

LEMMA ReachesPayload ==
    ASSUME NEW q \in Seq(Frame), NEW s, NEW n \in Nat, NEW c \in BOOLEAN,
           NEW cut \in BOOLEAN, Reaches(q, s, n, FALSE, FALSE, TRUE)
    PROVE  Reaches(q \o PayloadFrames(n + 1, c, cut), s, n + 1, c, c, TRUE)
<1>1. Guides(q, s, Place(n, FALSE, FALSE), n, FALSE)
  BY DEF Reaches
<1>. n <= n + 1 /\ n + 1 \in Nat
  OBVIOUS
<1>2. Guides(q, s, Place(n, FALSE, FALSE), n + 1, c)
  BY <1>1, GuidesFurther
<1>3. Guides(q \o PayloadFrames(n + 1, c, cut), s, Place(n + 1, FALSE, c), n + 1, c)
  BY <1>2, GuidesPayload
<1>4. n + 1 <= n + 1
  BY <1>1
<1>. QED BY <1>1, <1>3, <1>4 DEF Reaches

\* The request frame, with the first payload or the frames of it behind.
LEMMA ReachesRequest ==
    ASSUME NEW q \in Seq(Frame), NEW s, NEW k \in Nat, NEW c \in BOOLEAN,
           NEW cut \in BOOLEAN, NEW exact, Reaches(q, s, 0, FALSE, FALSE, exact)
    PROVE  Reaches(q \o RequestFrames(k, c, cut), s, 1, c, c, TRUE)
<1>1. Guides(q, s, Place(0, FALSE, FALSE), 0, FALSE)
  <2>1. PICK m \in Nat : Guides(q, s, Place(m, FALSE, FALSE), 0, FALSE) /\ m <= 0
    BY DEF Reaches
  <2>2. m = 0
    BY <2>1
  <2>. QED BY <2>1, <2>2
<1>2. Guides(q, s, Place(0, FALSE, FALSE), 1, c)
  <2>1. 0 <= 1
    OBVIOUS
  <2>. QED BY <1>1, <2>1, GuidesFurther
<1>3. RequestFrames(k, c, cut) \in Seq(Frame) /\ Place(0, FALSE, FALSE) \in Places
      /\ Place(1, FALSE, c) \in Places
  BY FramesTyped DEF Place, Places
<1>4. CASE cut
  <2>. DEFINE x == RequestFrame(k, <<>>, FALSE, TRUE)
              y == PayloadFrame(<<1>>, TRUE, FALSE, TRUE)
              z == PayloadFrame(<<1>>, TRUE, c, FALSE)
  <2>1. RequestFrames(k, c, cut) = <<x, y, z>> /\ PayloadFrames(1, c, TRUE) = <<y, z>>
    BY <1>4 DEF RequestFrames, PayloadFrames
  <2>2. Conveys(x, Place(0, FALSE, FALSE), Place(0, FALSE, FALSE), 1, c)
    <3>1. x.type = "REQUEST" /\ x.follows /\ ~x.complete /\ x.data = <<>>
      BY DEF RequestFrame
    <3>2. ~Place(0, FALSE, FALSE).part
      BY DEF Place
    <3>. HIDE DEF x
    <3>. QED BY <3>1, <3>2 DEF Conveys
  <2>. HIDE DEF x, y, z
  <2>3. x \in Frame /\ y \in Frame /\ z \in Frame
    <3>1. <<x, y, z>> \in Seq(Frame)
      BY <1>3, <2>1
    <3>2. Len(<<x, y, z>>) = 3 /\ <<x, y, z>>[1] = x /\ <<x, y, z>>[2] = y /\ <<x, y, z>>[3] = z
      OBVIOUS
    <3>. QED BY <3>1, <3>2
  <2>4. Guides(q \o <<x>>, s, Place(0, FALSE, FALSE), 1, c)
    BY <1>2, <1>3, <2>2, <2>3, GuidesPushed
  <2>5. q \o <<x>> \in Seq(Frame) /\ <<x>> \in Seq(Frame) /\ <<y, z>> \in Seq(Frame)
    BY <2>3
  <2>6. Guides((q \o <<x>>) \o PayloadFrames(0 + 1, c, TRUE), s, Place(0 + 1, FALSE, c), 0 + 1, c)
    <3>1. 0 + 1 = 1 /\ 0 \in Nat /\ TRUE \in BOOLEAN
      OBVIOUS
    <3>. QED BY <2>4, <2>5, <3>1, GuidesPayload
  <2>7. (q \o <<x>>) \o <<y, z>> = q \o <<x, y, z>>
    <3>1. (q \o <<x>>) \o <<y, z>> = q \o (<<x>> \o <<y, z>>)
      BY <2>5, ConcatAssociative
    <3>2. <<x>> \o <<y, z>> = <<x, y, z>>
      <4>1. /\ <<x>> \o <<y, z>> \in Seq(Frame) /\ <<x, y, z>> \in Seq(Frame)
            /\ Len(<<x>> \o <<y, z>>) = 3 /\ Len(<<x, y, z>>) = 3
        BY <2>3, <2>5
      <4>2. /\ (<<x>> \o <<y, z>>)[1] = x /\ (<<x>> \o <<y, z>>)[2] = y
            /\ (<<x>> \o <<y, z>>)[3] = z
        BY <2>3, <2>5
      <4>3. <<x, y, z>>[1] = x /\ <<x, y, z>>[2] = y /\ <<x, y, z>>[3] = z
        OBVIOUS
      <4>4. \A i \in 1 .. 3 : i = 1 \/ i = 2 \/ i = 3
        OBVIOUS
      <4>5. \A i \in 1 .. 3 : (<<x>> \o <<y, z>>)[i] = <<x, y, z>>[i]
        BY <4>2, <4>3, <4>4
      <4>. QED BY <4>1, <4>5, SeqEqual
    <3>. QED BY <3>1, <3>2
  <2>8. Guides(q \o RequestFrames(k, c, cut), s, Place(1, FALSE, c), 1, c)
    <3>1. 0 + 1 = 1
      OBVIOUS
    <3>. QED BY <2>1, <2>6, <2>7, <3>1
  <2>9. 1 <= 1 /\ 1 \in Nat
    OBVIOUS
  <2>. QED BY <2>8, <2>9 DEF Reaches
<1>5. CASE ~cut
  <2>. DEFINE x == RequestFrame(k, Content(1), c, FALSE)
  <2>1. RequestFrames(k, c, cut) = <<x>>
    BY <1>5 DEF RequestFrames
  <2>2. Conveys(x, Place(0, FALSE, FALSE), Place(1, FALSE, c), 1, c)
    <3>1. /\ x.type = "REQUEST" /\ x.next /\ ~x.follows /\ x.data = Content(1)
          /\ x.complete = c
      BY DEF RequestFrame
    <3>2. /\ Place(0, FALSE, FALSE).count = 0 /\ ~Place(0, FALSE, FALSE).part
          /\ ~Place(0, FALSE, FALSE).last /\ 0 < 1 /\ 0 + 1 = 1
      BY DEF Place
    <3>. HIDE DEF x
    <3>. QED BY <3>1, <3>2 DEF Conveys
  <2>3. x \in Frame
    <3>. HIDE DEF x
    <3>1. <<x>> \in Seq(Frame) /\ <<x>>[1] = x /\ Len(<<x>>) = 1
      BY <1>3, <2>1
    <3>. QED BY <3>1
  <2>. HIDE DEF x
  <2>4. Guides(q \o <<x>>, s, Place(1, FALSE, c), 1, c)
    BY <1>2, <1>3, <2>2, <2>3, GuidesPushed
  <2>5. 1 <= 1 /\ 1 \in Nat
    OBVIOUS
  <2>. QED BY <2>1, <2>4, <2>5 DEF Reaches
<1>. QED BY <1>4, <1>5

LEMMA ReachesTaken ==
    ASSUME NEW q \in Seq(Frame), q # <<>>, NEW s, NEW n, NEW all, NEW ceased,
           NEW exact, Reaches(q, s, n, all, ceased, exact)
    PROVE  \E u \in Places : /\ Conveys(q[1], s, u, n, all)
                             /\ Reaches(Tail(q), u, n, all, ceased, exact)
<1>1. PICK m \in Nat, l \in BOOLEAN :
         /\ Guides(q, s, Place(m, FALSE, l), n, all)
         /\ l => ceased
         /\ ~l => m <= n /\ (exact => m = n)
  BY DEF Reaches
<1>2. PICK u \in Places : /\ Conveys(q[1], s, u, n, all)
                          /\ Guides(Tail(q), u, Place(m, FALSE, l), n, all)
  BY <1>1, GuidesTaken
<1>. QED BY <1>1, <1>2 DEF Reaches

-----------------------------------------------------------------------------
(* What a receiver is given                                                *)

LastIn(ss) == \E i \in 1 .. Len(ss) : ss[i].last

\* A receiver that has been given ss and holds fr of the next payload.
StandsAt(ss, fr) == Place(Len(ss), fr # <<>>, LastIn(ss))

Holds(ss, fr, has) == fr \in {<<>>, <<Len(ss) + 1>>} /\ (fr # <<>> => has)

LEMMA SignalAdded ==
    ASSUME NEW ss \in Seq(Signal), NEW x \in Signal
    PROVE  /\ ss \o <<x>> = Append(ss, x) /\ Append(ss, x) \in Seq(Signal)
           /\ Len(Append(ss, x)) = Len(ss) + 1 /\ Len(ss) \in Nat
           /\ LastIn(Append(ss, x)) <=> LastIn(ss) \/ x.last
<1>. DEFINE r == Append(ss, x)
<1>1. /\ ss \o <<x>> = r /\ r \in Seq(Signal)
      /\ Len(r) = Len(ss) + 1 /\ Len(ss) \in Nat /\ r[Len(ss) + 1] = x
      /\ \A i \in 1 .. Len(ss) : r[i] = ss[i]
  OBVIOUS
<1>. HIDE DEF r
<1>2. \A i \in 1 .. Len(r) : i = Len(ss) + 1 \/ i \in 1 .. Len(ss)
  BY <1>1
<1>3. Len(ss) + 1 \in 1 .. Len(r) /\ \A i \in 1 .. Len(ss) : i \in 1 .. Len(r)
  BY <1>1
<1>4. LastIn(r) <=> LastIn(ss) \/ x.last
  BY <1>1, <1>2, <1>3 DEF LastIn
<1>. QED BY <1>1, <1>4 DEF r

LEMMA StandsFields ==
    ASSUME NEW ss \in Seq(Signal), NEW fr
    PROVE  /\ Len(ss) \in Nat /\ StandsAt(ss, fr).count = Len(ss)
           /\ StandsAt(ss, fr).part <=> fr # <<>>
           /\ StandsAt(ss, fr).last <=> LastIn(ss)
<1>. DEFINE k == Len(ss)
            b == fr # <<>>
            l == LastIn(ss)
            s == [count |-> k, part |-> b, last |-> l]
<1>1. StandsAt(ss, fr) = s
  BY DEF StandsAt, Place
<1>. HIDE DEF k, b, l
<1>2. s.count = k /\ s.part = b /\ s.last = l
  OBVIOUS
<1>. HIDE DEF s
<1>3. StandsAt(ss, fr).count = k /\ (StandsAt(ss, fr).part <=> b) /\ (StandsAt(ss, fr).last <=> l)
  BY <1>1, <1>2, Zenon
<1>4. Len(ss) \in Nat
  OBVIOUS
<1>. QED BY <1>3, <1>4, Zenon DEF k, b, l

\* A step of Subscription that gives a receiver the signal x.
Gives(ss, n, all, x) ==
    /\ ~LastIn(ss)
    /\ \/ Len(ss) < n /\ x = OnNext(Content(Len(ss) + 1), x.last)
          /\ (x.last => all /\ Len(ss) + 1 = n)
       \/ x = OnError
       \/ x = OnComplete /\ all /\ Len(ss) = n

Whole(fr, has, f) ==
    IF f.complete /\ ~f.next THEN OnComplete
    ELSE OnNext(IF has THEN fr \o f.data ELSE f.data, f.complete)

LEMMA PayloadGiven ==
    ASSUME NEW ss \in Seq(Signal), NEW fr \in Seq(Nat), NEW has \in BOOLEAN,
           Holds(ss, fr, has), NEW f \in Frame, f.type \in {"REQUEST", "PAYLOAD"},
           ~f.follows, NEW n \in Nat, NEW all, NEW u,
           Conveys(f, StandsAt(ss, fr), u, n, all)
    PROVE  LET x == Whole(fr, has, f)
           IN  /\ x \in Signal /\ x.last = f.complete
               /\ u = StandsAt(Append(ss, x), <<>>)
               /\ Gives(ss, n, all, x)
               /\ ~f.next => fr = <<>>
<1>. DEFINE x == Whole(fr, has, f)
            k == Len(ss)
            s == StandsAt(ss, fr)
<1>1. /\ k \in Nat /\ s.count = k /\ (s.part <=> fr # <<>>) /\ (s.last <=> LastIn(ss))
      /\ f.complete \in BOOLEAN /\ f.next \in BOOLEAN /\ f.data \in Seq(Nat)
  <2>1. f.complete \in BOOLEAN /\ f.next \in BOOLEAN /\ f.data \in Seq(Nat)
    BY FrameFields
  <2>. QED BY <2>1, StandsFields
<1>2. \A y \in Signal : StandsAt(Append(ss, y), <<>>) = Place(k + 1, FALSE, LastIn(ss) \/ y.last)
  <2>1. ASSUME NEW y \in Signal
        PROVE  StandsAt(Append(ss, y), <<>>) = Place(k + 1, FALSE, LastIn(ss) \/ y.last)
    <3>1. /\ Len(Append(ss, y)) = k + 1
          /\ LastIn(Append(ss, y)) <=> LastIn(ss) \/ y.last
      BY SignalAdded
    <3>2. LastIn(Append(ss, y)) \in BOOLEAN /\ (LastIn(ss) \/ y.last) \in BOOLEAN
      BY DEF LastIn
    <3>3. LastIn(Append(ss, y)) = (LastIn(ss) \/ y.last)
      BY <3>1, <3>2
    <3>. QED BY <3>1, <3>3 DEF StandsAt, Place
  <2>. QED BY <2>1
<1>3. CASE f = CompleteFrame /\ ~s.part /\ all /\ k = n /\ ~s.last
           /\ u = Place(k + 1, FALSE, TRUE)
  <2>1. f.complete = TRUE /\ f.next = FALSE
    BY <1>3 DEF CompleteFrame, PayloadFrame
  <2>2. x = OnComplete /\ x.last = TRUE /\ x \in Signal
    BY <2>1, SignalsTyped DEF Whole, OnComplete
  <2>3. fr = <<>> /\ ~LastIn(ss)
    BY <1>1, <1>3
  <2>4. u = StandsAt(Append(ss, x), <<>>)
    <3>1. (LastIn(ss) \/ x.last) = TRUE
      BY <2>2
    <3>2. StandsAt(Append(ss, x), <<>>) = Place(k + 1, FALSE, TRUE)
      BY <1>2, <2>2, <3>1
    <3>. QED BY <1>3, <3>2
  <2>5. Gives(ss, n, all, x)
    BY <1>3, <2>2, <2>3 DEF Gives
  <2>6. x.last = f.complete
    BY <2>1, <2>2
  <2>. QED BY <2>2, <2>3, <2>4, <2>5, <2>6, Zenon
<1>4. CASE /\ f.next /\ f.data = IF s.part THEN <<k + 1>> ELSE Content(k + 1)
           /\ k < n /\ (f.complete => all /\ k + 1 = n) /\ ~s.last
           /\ u = Place(k + 1, FALSE, f.complete)
  <2>. DEFINE d == IF has THEN fr \o f.data ELSE f.data
  <2>1. d = Content(k + 1)
    <3>1. CASE fr = <<>>
      <4>1. f.data = Content(k + 1)
        BY <1>1, <1>4, <3>1
      <4>2. <<>> \o f.data = f.data
        BY <1>1
      <4>. QED BY <3>1, <4>1, <4>2
    <3>2. CASE fr # <<>>
      <4>1. fr = <<k + 1>> /\ has /\ f.data = <<k + 1>>
        BY <1>1, <1>4, <3>2 DEF Holds
      <4>2. <<k + 1>> \o <<k + 1>> = <<k + 1, k + 1>>
        BY <1>1, Joined
      <4>. QED BY <4>1, <4>2 DEF Content
    <3>. QED BY <3>1, <3>2
  <2>2. x = OnNext(Content(k + 1), f.complete)
    BY <1>4, <2>1 DEF Whole
  <2>3. x \in Signal /\ x.last = f.complete
    <3>1. Content(k + 1) \in Seq(Nat)
      BY <1>1 DEF Content
    <3>. QED BY <1>1, <2>2, <3>1 DEF OnNext, Signal, SignalKinds
  <2>4. u = StandsAt(Append(ss, x), <<>>)
    <3>1. (LastIn(ss) \/ x.last) = f.complete
      BY <1>1, <1>4, <2>3
    <3>2. StandsAt(Append(ss, x), <<>>) = Place(k + 1, FALSE, f.complete)
      BY <1>2, <2>3, <3>1
    <3>. QED BY <1>4, <3>2
  <2>5. Gives(ss, n, all, x)
    <3>1. x = OnNext(Content(k + 1), x.last)
      BY <2>2, <2>3
    <3>. QED BY <1>1, <1>4, <2>3, <3>1 DEF Gives
  <2>. QED BY <1>4, <2>3, <2>4, <2>5, Zenon
<1>5. \/ f = CompleteFrame /\ ~s.part /\ all /\ k = n /\ ~s.last
         /\ u = Place(k + 1, FALSE, TRUE)
      \/ /\ f.next /\ f.data = IF s.part THEN <<k + 1>> ELSE Content(k + 1)
         /\ k < n /\ (f.complete => all /\ k + 1 = n) /\ ~s.last
         /\ u = Place(k + 1, FALSE, f.complete)
  <2>1. f # PayloadFrame(<<k + 1>>, TRUE, FALSE, TRUE)
    BY DEF PayloadFrame
  <2>2. ~Silent(f) /\ f.type # "ERROR"
    BY DEF Silent
  <2>3. Conveys(f, s, u, n, all)
    OBVIOUS
  <2>. HIDE DEF s, x
  <2>. QED BY <1>1, <2>1, <2>2, <2>3 DEF Conveys
<1>. QED BY <1>3, <1>4, <1>5

LEMMA FragmentGiven ==
    ASSUME NEW ss \in Seq(Signal), NEW fr \in Seq(Nat), NEW has,
           Holds(ss, fr, has), NEW f \in Frame, f.type = "PAYLOAD", f.follows,
           NEW n, NEW all, NEW u, Conveys(f, StandsAt(ss, fr), u, n, all)
    PROVE  /\ ~f.complete /\ fr \o f.data = <<Len(ss) + 1>>
           /\ u = StandsAt(ss, fr \o f.data)
           /\ Holds(ss, fr \o f.data, TRUE)
<1>. DEFINE k == Len(ss)
            s == StandsAt(ss, fr)
<1>1. /\ k \in Nat /\ s.count = k /\ (s.part <=> fr # <<>>) /\ (s.last <=> LastIn(ss))
  BY StandsFields
<1>2. /\ f = PayloadFrame(<<k + 1>>, TRUE, FALSE, TRUE)
      /\ ~s.part /\ ~s.last /\ u = Place(k, TRUE, FALSE)
  <2>1. f # CompleteFrame
    BY DEF CompleteFrame, PayloadFrame
  <2>2. ~Silent(f)
    BY DEF Silent
  <2>3. Conveys(f, s, u, n, all)
    OBVIOUS
  <2>. HIDE DEF s
  <2>. QED BY <1>1, <2>1, <2>2, <2>3 DEF Conveys
<1>3. f.data = <<k + 1>> /\ f.complete = FALSE
  BY <1>2 DEF PayloadFrame
<1>4. fr = <<>> /\ ~LastIn(ss)
  BY <1>1, <1>2
<1>5. fr \o f.data = <<k + 1>> /\ <<k + 1>> # <<>>
  <2>1. <<>> \o <<k + 1>> = <<k + 1>>
    BY <1>1
  <2>. QED BY <1>3, <1>4, <2>1
<1>6. LastIn(ss) = FALSE
  BY <1>4 DEF LastIn
<1>7. StandsAt(ss, <<k + 1>>) = Place(k, TRUE, FALSE)
  BY <1>5, <1>6 DEF StandsAt, Place
<1>8. Holds(ss, <<k + 1>>, TRUE)
  BY DEF Holds
<1>. QED BY <1>2, <1>3, <1>5, <1>7, <1>8

LEMMA OthersGiven ==
    ASSUME NEW ss \in Seq(Signal), NEW fr, NEW f \in Frame,
           NEW n, NEW all, NEW u, Conveys(f, StandsAt(ss, fr), u, n, all)
    PROVE  /\ f.type \in {"CANCEL", "REQUEST_N", "EXT"} => Silent(f) /\ u = StandsAt(ss, fr)
           /\ f.type = "REQUEST" /\ f.follows =>
                /\ ~f.complete /\ f.data = <<>> /\ fr = <<>>
                /\ u = StandsAt(ss, fr)
           /\ f.type = "ERROR" => ~LastIn(ss)
<1>. DEFINE s == StandsAt(ss, fr)
<1>1. (s.part <=> fr # <<>>) /\ (s.last <=> LastIn(ss))
  BY DEF StandsAt, Place
<1>2. CompleteFrame.type = "PAYLOAD"
      /\ PayloadFrame(<<s.count + 1>>, TRUE, FALSE, TRUE).type = "PAYLOAD"
  BY DEF CompleteFrame, PayloadFrame
<1>3. Conveys(f, s, u, n, all)
  OBVIOUS
<1>. HIDE DEF s
<1>4. f.type \in {"CANCEL", "REQUEST_N", "EXT"} => Silent(f) /\ u = s
  BY <1>2, <1>3 DEF Conveys
<1>5. f.type = "REQUEST" /\ f.follows =>
        ~f.complete /\ f.data = <<>> /\ fr = <<>> /\ u = s
  BY <1>1, <1>2, <1>3 DEF Conveys, Silent
<1>6. f.type = "ERROR" => ~LastIn(ss)
  BY <1>1, <1>2, <1>3 DEF Conveys, Silent
<1>. QED BY <1>4, <1>5, <1>6 DEF s

-----------------------------------------------------------------------------
(* What a producer does                                                    *)

\* The wire q, the payloads n and the end fin of a producer, and whether it
\* has ceased, before and after one of its steps.  What it sends is gone
\* unless both ends are open (exact).
More(exact, q, n, fin, ceased, r, m, end, stops) ==
    \/ /\ m = n /\ end = fin /\ (ceased => stops)
       /\ \/ r = q
          \/ \E f \in Frame : Silent(f) /\ r = q \o IF exact THEN <<f>> ELSE <<>>
    \/ /\ ~ceased /\ stops /\ m = n /\ (end = fin \/ (fin = "no" /\ end = "error"))
       /\ r = q \o IF exact THEN <<ErrorFrame>> ELSE <<>>
    \/ /\ ~ceased /\ stops /\ m = n /\ fin = "no" /\ end = "complete"
       /\ r = q \o IF exact THEN <<CompleteFrame>> ELSE <<>>
    \/ /\ ~ceased /\ fin = "no" /\ m = n + 1
       /\ \E c, cut \in BOOLEAN :
             /\ end = (IF c THEN "complete" ELSE "no") /\ (c => stops)
             /\ r = q \o IF exact THEN PayloadFrames(n + 1, c, cut) ELSE <<>>
    \/ /\ ~ceased /\ fin = "no" /\ n = 0 /\ m = 1
       /\ \E c, cut, x \in BOOLEAN, k \in Nat :
             /\ end = (IF c THEN "complete" ELSE "no") /\ (c => stops)
             /\ r = q \o IF exact THEN RequestFrames(k, c, cut) \o If(x, ExtFrame)
                         ELSE <<>>

Completed(end) == end = "complete"

MoreTyped(exact, q, n, fin, ceased, stops) ==
    /\ exact \in BOOLEAN /\ q \in Seq(Frame) /\ n \in Nat
    /\ fin \in {"no", "complete", "error"}
    /\ ceased \in BOOLEAN /\ stops \in BOOLEAN

LEMMA ReachesMore ==
    ASSUME NEW exact, NEW q, NEW s, NEW n, NEW fin, NEW ceased, NEW r, NEW m, NEW end,
           NEW stops, MoreTyped(exact, q, n, fin, ceased, stops),
           More(exact, q, n, fin, ceased, r, m, end, stops),
           Reaches(q, s, n, Completed(fin), ceased, exact)
    PROVE  Reaches(r, s, m, Completed(end), stops, exact)
<1>. exact \in BOOLEAN /\ q \in Seq(Frame) /\ n \in Nat
     /\ fin \in {"no", "complete", "error"} /\ ceased \in BOOLEAN /\ stops \in BOOLEAN
  BY DEF MoreTyped
<1>. DEFINE all == Completed(end)
<1>1. ExtFrame \in Frame /\ Silent(ExtFrame) /\ q \o <<>> = q
  BY FramesTyped DEF ExtFrame, Bare, Silent
\* The frames are lost.
<1>2. ASSUME ~exact, r = q, m \in Nat, n <= m, fin = "no", ceased => stops
      PROVE  Reaches(r, s, m, all, stops, exact)
  <2>1. Completed(fin) = FALSE /\ exact = FALSE
    BY <1>2 DEF Completed
  <2>2. Reaches(q, s, n, FALSE, ceased, FALSE)
    BY <2>1
  <2>3. Reaches(q, s, m, all, ceased, FALSE)
    <3>. HIDE DEF all
    <3>. QED BY <1>2, <2>2, ReachesFurther
  <2>. HIDE DEF all
  <2>. QED BY <1>2, <2>1, <2>3, ReachesStill
<1>3. CASE /\ m = n /\ end = fin /\ (ceased => stops)
           /\ \/ r = q
              \/ \E f \in Frame : Silent(f) /\ r = q \o IF exact THEN <<f>> ELSE <<>>
  <2>1. Reaches(q, s, m, all, stops, exact)
    <3>1. all = Completed(fin)
      BY <1>3
    <3>2. Reaches(q, s, n, all, ceased, exact)
      BY <3>1
    <3>. HIDE DEF all
    <3>. QED BY <1>3, <3>2, ReachesStill
  <2>2. ASSUME NEW f \in Frame, Silent(f), r = q \o IF exact THEN <<f>> ELSE <<>>
        PROVE  Reaches(r, s, m, all, stops, exact)
    <3>1. CASE exact
      <4>1. r = q \o <<f>>
        BY <2>2, <3>1
      <4>. HIDE DEF all
      <4>. QED BY <2>1, <2>2, <4>1, ReachesSilent
    <3>2. CASE ~exact
      <4>1. r = q
        BY <1>1, <2>2, <3>2
      <4>. QED BY <2>1, <4>1
    <3>. QED BY <3>1, <3>2
  <2>. QED BY <1>3, <2>1, <2>2
<1>4. CASE /\ ~ceased /\ stops /\ m = n /\ (end = fin \/ (fin = "no" /\ end = "error"))
           /\ r = q \o IF exact THEN <<ErrorFrame>> ELSE <<>>
  <2>1. all = Completed(fin) /\ ceased = FALSE /\ stops = TRUE
    BY <1>4 DEF Completed
  <2>2. Reaches(q, s, m, all, FALSE, exact)
    BY <1>4, <2>1
  <2>3. CASE exact
    <3>1. r = q \o <<ErrorFrame>>
      BY <1>4, <2>3
    <3>2. Reaches(r, s, m, all, TRUE, exact)
      <4>. HIDE DEF all
      <4>. QED BY <2>2, <3>1, ReachesError
    <3>. QED BY <2>1, <3>2
  <2>4. CASE ~exact
    <3>1. r = q
      BY <1>1, <1>4, <2>4
    <3>2. Reaches(r, s, m, all, TRUE, exact)
      <4>. HIDE DEF all
      <4>. QED BY <2>2, <3>1, ReachesStill
    <3>. QED BY <2>1, <3>2
  <2>. QED BY <2>3, <2>4
<1>5. CASE /\ ~ceased /\ stops /\ m = n /\ fin = "no" /\ end = "complete"
           /\ r = q \o IF exact THEN <<CompleteFrame>> ELSE <<>>
  <2>1. all = TRUE /\ Completed(fin) = FALSE /\ ceased = FALSE /\ stops = TRUE
    BY <1>5 DEF Completed
  <2>2. CASE exact
    <3>1. r = q \o <<CompleteFrame>> /\ exact = TRUE
      BY <1>5, <2>2
    <3>2. Reaches(q, s, n, FALSE, FALSE, TRUE)
      BY <2>1, <3>1
    <3>3. Reaches(r, s, n, TRUE, TRUE, TRUE)
      BY <3>1, <3>2, ReachesComplete
    <3>. QED BY <1>5, <2>1, <3>1, <3>3
  <2>3. CASE ~exact
    <3>1. r = q /\ n <= m
      BY <1>1, <1>5, <2>3
    <3>. QED BY <1>2, <1>5, <2>3, <3>1
  <2>. QED BY <2>2, <2>3
<1>6. ASSUME ~ceased, fin = "no", m = n + 1, NEW c \in BOOLEAN, NEW cut \in BOOLEAN,
             end = (IF c THEN "complete" ELSE "no"), c => stops,
             r = q \o IF exact THEN PayloadFrames(n + 1, c, cut) ELSE <<>>
      PROVE  Reaches(r, s, m, all, stops, exact)
  <2>1. all = c /\ Completed(fin) = FALSE /\ ceased = FALSE
    BY <1>6 DEF Completed
  <2>2. CASE exact
    <3>1. r = q \o PayloadFrames(n + 1, c, cut) /\ exact = TRUE
      BY <1>6, <2>2
    <3>2. Reaches(q, s, n, FALSE, FALSE, TRUE)
      BY <2>1, <3>1
    <3>3. Reaches(r, s, n + 1, c, c, TRUE)
      BY <3>1, <3>2, ReachesPayload
    <3>4. Reaches(r, s, n + 1, c, stops, TRUE)
      BY <1>6, <3>3, ReachesStill
    <3>. QED BY <1>6, <2>1, <3>1, <3>4
  <2>3. CASE ~exact
    <3>1. r = q /\ n <= m /\ m \in Nat
      BY <1>1, <1>6, <2>3
    <3>. QED BY <1>2, <1>6, <2>3, <3>1
  <2>. QED BY <2>2, <2>3
<1>7. ASSUME ~ceased, fin = "no", n = 0, m = 1, NEW c \in BOOLEAN, NEW cut \in BOOLEAN,
             NEW x \in BOOLEAN, NEW k \in Nat,
             end = (IF c THEN "complete" ELSE "no"), c => stops,
             r = q \o IF exact THEN RequestFrames(k, c, cut) \o If(x, ExtFrame) ELSE <<>>
      PROVE  Reaches(r, s, m, all, stops, exact)
  <2>1. all = c /\ Completed(fin) = FALSE /\ ceased = FALSE
    BY <1>7 DEF Completed
  <2>2. CASE exact
    <3>. DEFINE fs == RequestFrames(k, c, cut)
    <3>1. r = q \o (fs \o If(x, ExtFrame)) /\ exact = TRUE
      BY <1>7, <2>2
    <3>2. Reaches(q, s, 0, FALSE, FALSE, TRUE)
      BY <1>7, <2>1, <3>1
    <3>3. Reaches(q \o fs, s, 1, c, c, TRUE)
      BY <3>2, ReachesRequest
    <3>4. Reaches(q \o fs, s, 1, c, stops, TRUE)
      BY <1>7, <3>3, ReachesStill
    <3>5. fs \in Seq(Frame) /\ <<ExtFrame>> \in Seq(Frame)
      BY <1>1, FramesTyped
    <3>. HIDE DEF fs
    <3>6. q \o fs \in Seq(Frame)
      BY <3>5
    <3>7. Reaches(r, s, 1, c, stops, TRUE)
      <4>1. CASE x
        <5>1. r = (q \o fs) \o <<ExtFrame>>
          BY <3>1, <3>5, <4>1, ConcatAssociative DEF If
        <5>. QED BY <1>1, <3>4, <3>6, <5>1, ReachesSilent
      <4>2. CASE ~x
        <5>1. fs \o <<>> = fs
          BY <3>5
        <5>2. r = q \o fs
          BY <3>1, <4>2, <5>1 DEF If
        <5>. QED BY <3>4, <5>2
      <4>. QED BY <4>1, <4>2
    <3>. QED BY <1>7, <2>1, <3>1, <3>7
  <2>3. CASE ~exact
    <3>1. r = q /\ n <= m /\ m \in Nat
      BY <1>1, <1>7, <2>3
    <3>. QED BY <1>2, <1>7, <2>3, <3>1
  <2>. QED BY <2>2, <2>3
<1>. QED BY <1>3, <1>4, <1>5, <1>6, <1>7 DEF More

\* How a receiver that waits takes the frame f: the signals it has been
\* given (ss) and what it holds (fr, has) become tt, gr and hs.
Accepts(f, ss, fr, has, n, tt, gr, hs) ==
    \/ /\ f.type \in {"CANCEL", "REQUEST_N", "EXT"}
       /\ tt = ss /\ gr = fr /\ hs = has
    \/ /\ f.type = "REQUEST" /\ f.follows
       /\ tt = ss /\ gr = f.data /\ hs
    \/ /\ f.type = "PAYLOAD" /\ f.follows
       /\ tt = ss /\ gr = fr \o f.data /\ hs
    \/ /\ f.type = "PAYLOAD" /\ ~f.follows
       /\ tt = Append(ss, Whole(fr, has, f))
       /\ gr \in {<<>>, fr} /\ (f.next => gr = <<>>)
    \/ /\ f.type \in {"REQUEST", "PAYLOAD"} /\ ~f.follows
       /\ n >= 1 /\ ss = <<>>
       /\ tt = <<OnNext(IF has THEN fr \o f.data ELSE f.data, f.complete)>>
       /\ gr = <<>>

Accepted(q, ss, n, all, ceased, exact, tt, gr, hs) ==
    /\ Holds(tt, gr, hs)
    /\ Reaches(Tail(q), StandsAt(tt, gr), n, all, ceased, exact)
    /\ tt = ss \/ \E x \in Signal : tt = Append(ss, x) /\ Gives(ss, n, all, x)

LEMMA ReachesAccepted ==
    ASSUME NEW ss \in Seq(Signal), NEW fr \in Seq(Nat), NEW has \in BOOLEAN,
           Holds(ss, fr, has), NEW q \in Seq(Frame), q # <<>>, NEW n \in Nat,
           NEW all, NEW ceased, NEW exact,
           Reaches(q, StandsAt(ss, fr), n, all, ceased, exact),
           NEW tt, NEW gr, NEW hs, Accepts(q[1], ss, fr, has, n, tt, gr, hs)
    PROVE  Accepted(q, ss, n, all, ceased, exact, tt, gr, hs)
<1>. DEFINE f == q[1]
            Good == Accepted(q, ss, n, all, ceased, exact, tt, gr, hs)
<1>1. PICK u \in Places : /\ Conveys(f, StandsAt(ss, fr), u, n, all)
                          /\ Reaches(Tail(q), u, n, all, ceased, exact)
  BY ReachesTaken
<1>2. f \in Frame
  BY Taken
<1>3. f.data \in Seq(Nat) /\ f.next \in BOOLEAN /\ f.complete \in BOOLEAN
  BY <1>2, FrameFields
<1>4. Accepts(f, ss, fr, has, n, tt, gr, hs)
  OBVIOUS
<1>. HIDE DEF f
<1>5. CASE /\ f.type \in {"CANCEL", "REQUEST_N", "EXT"}
           /\ tt = ss /\ gr = fr /\ hs = has
  <2>1. u = StandsAt(ss, fr)
    BY <1>1, <1>2, <1>5, OthersGiven
  <2>. QED BY <1>1, <1>5, <2>1 DEF Accepted
<1>6. CASE /\ f.type = "REQUEST" /\ f.follows
           /\ tt = ss /\ gr = f.data /\ hs
  <2>1. f.data = <<>> /\ fr = <<>> /\ u = StandsAt(ss, fr)
    BY <1>1, <1>2, <1>6, OthersGiven
  <2>2. Holds(tt, gr, hs)
    BY <1>6, <2>1 DEF Holds
  <2>. QED BY <1>1, <1>6, <2>1, <2>2 DEF Accepted
<1>7. CASE /\ f.type = "PAYLOAD" /\ f.follows
           /\ tt = ss /\ gr = fr \o f.data /\ hs
  <2>1. u = StandsAt(ss, fr \o f.data) /\ Holds(ss, fr \o f.data, TRUE)
    BY <1>1, <1>2, <1>7, FragmentGiven
  <2>2. Holds(tt, gr, hs)
    BY <1>7, <2>1 DEF Holds
  <2>. QED BY <1>1, <1>7, <2>1, <2>2 DEF Accepted
<1>8. ASSUME f.type \in {"REQUEST", "PAYLOAD"}, ~f.follows,
             tt = Append(ss, Whole(fr, has, f)),
             gr \in {<<>>, fr}, f.next => gr = <<>>
      PROVE  Good
  <2>. DEFINE x == Whole(fr, has, f)
  <2>1. /\ x \in Signal /\ u = StandsAt(Append(ss, x), <<>>)
        /\ Gives(ss, n, all, x) /\ (~f.next => fr = <<>>)
    BY <1>1, <1>2, <1>8, PayloadGiven
  <2>2. gr = <<>>
    BY <1>8, <2>1
  <2>3. Holds(tt, gr, hs)
    BY <2>2 DEF Holds
  <2>4. tt = Append(ss, x)
    BY <1>8
  <2>. HIDE DEF x
  <2>. QED BY <1>1, <2>1, <2>2, <2>3, <2>4 DEF Accepted
<1>9. CASE /\ f.type \in {"REQUEST", "PAYLOAD"} /\ ~f.follows
           /\ n >= 1 /\ ss = <<>>
           /\ tt = <<OnNext(IF has THEN fr \o f.data ELSE f.data, f.complete)>>
           /\ gr = <<>>
  <2>. DEFINE y == OnNext(IF has THEN fr \o f.data ELSE f.data, f.complete)
  <2>1. Len(ss) = 0
    BY <1>9
  <2>2. f.next
    <3>1. ASSUME ~f.next PROVE FALSE
      <4>1. Gives(ss, n, all, Whole(fr, has, f))
        BY <1>1, <1>2, <1>9, PayloadGiven
      <4>2. f = CompleteFrame /\ StandsAt(ss, fr).count = n
        <5>1. f # PayloadFrame(<<StandsAt(ss, fr).count + 1>>, TRUE, FALSE, TRUE)
          BY <1>9 DEF PayloadFrame
        <5>2. ~Silent(f) /\ f.type # "ERROR"
          BY <1>9 DEF Silent
        <5>. QED BY <1>1, <1>9, <3>1, <5>1, <5>2 DEF Conveys
      <4>3. StandsAt(ss, fr).count = Len(ss)
        BY StandsFields
      <4>. QED BY <1>9, <2>1, <4>2, <4>3
    <3>. QED BY <3>1
  <2>3. Whole(fr, has, f) = y
    BY <2>2 DEF Whole
  <2>4. Append(ss, y) = <<y>>
    BY <1>9
  <2>. HIDE DEF y
  <2>5. tt = Append(ss, Whole(fr, has, f))
    BY <1>9, <2>3, <2>4 DEF y
  <2>. QED BY <1>8, <1>9, <2>2, <2>5
<1>. QED BY <1>4, <1>5, <1>6, <1>7, <1>8, <1>9 DEF Accepts

LEMMA ErrorGiven ==
    ASSUME NEW ss \in Seq(Signal), NEW fr, NEW q \in Seq(Frame), q # <<>>,
           q[1].type = "ERROR", NEW n, NEW all, NEW ceased, NEW exact,
           Reaches(q, StandsAt(ss, fr), n, all, ceased, exact)
    PROVE  Gives(ss, n, all, OnError)
<1>1. PICK u \in Places : Conveys(q[1], StandsAt(ss, fr), u, n, all)
  BY ReachesTaken
<1>2. q[1] \in Frame
  BY Taken
<1>. QED BY <1>1, <1>2, OthersGiven DEF Gives

-----------------------------------------------------------------------------
(* What each end is given                                                  *)

\* An end may still be given payloads.
Waits(e) ==
    \/ stream[e].registered
    \/ e = Requester /\ phase = "pending"
    \/ e = Responder /\ served = "none"

\* The payloads and the end of the producer that feeds e, as Subscription
\* counts them, and whether a producer sends no more.
Fed(e) == app[Peer(e)].emitted
Fin(e) == IF e = Responder /\ phase # "ready" THEN "no" ELSE app[Peer(e)].ended
Ceased(p) == OutDone(p) \/ (p = Responder /\ served = "refused")

(***************************************************************************)
(* The refinement's inductive invariant: the frames on their way to an end *)
(* that waits take it, from where it stands, as far as its producer is.    *)
(***************************************************************************)
Coming(e) ==
    open[e] /\ Waits(e) =>
       /\ Holds(rcv[e].signals, stream[e].fragments, stream[e].hasFragments)
       /\ Reaches(wire[e], StandsAt(rcv[e].signals, stream[e].fragments),
                  Fed(e), Completed(Fin(e)), Ceased(Peer(e)), BothOpen)

\* What a step may show of the direction to e: a step of Subscription or none.
Promised(e) ==
    \/ rcv'[e].signals = rcv[e].signals /\ Fed(e)' = Fed(e) /\ Fin(e)' = Fin(e)
    \/ /\ Fin(e) = "no" /\ rcv'[e].signals = rcv[e].signals
       /\ Fed(e)' = Fed(e) + 1 /\ Fin(e)' \in {"no", "complete"}
    \/ /\ Fin(e) = "no" /\ rcv'[e].signals = rcv[e].signals
       /\ Fed(e)' = Fed(e) /\ Fin(e)' \in {"complete", "error"}
    \/ /\ Fed(e)' = Fed(e) /\ Fin(e)' = Fin(e)
       /\ \E x \in Signal : /\ rcv'[e].signals = Append(rcv[e].signals, x)
                            /\ Gives(rcv[e].signals, Fed(e), Completed(Fin(e)), x)

LEMMA PromisedSteps ==
    /\ Promised(Requester) => [ToRequester!Next]_(ToRequester!promise)
    /\ Promised(Responder) => [ToResponder!Next]_(ToResponder!promise)
<1>1. \A x \in Signal : x.last \in BOOLEAN
  BY DEF Signal
<1>2. ASSUME Promised(Requester) PROVE [ToRequester!Next]_(ToRequester!promise)
  <2>1. Fed(Requester) = app[Responder].emitted /\ Fin(Requester) = app[Responder].ended
        /\ Fed(Requester)' = app'[Responder].emitted
        /\ Fin(Requester)' = app'[Responder].ended
    BY DEF Fed, Fin, Peer
  <2>2. ASSUME NEW x \in Signal, rcv'[Requester].signals = Append(rcv[Requester].signals, x),
               Gives(rcv[Requester].signals, Fed(Requester), Completed(Fin(Requester)), x),
               Fed(Requester)' = Fed(Requester), Fin(Requester)' = Fin(Requester)
        PROVE  ToRequester!Deliver \/ ToRequester!Finish
    BY <1>1, <2>1, <2>2 DEF Gives, Completed, LastIn, Content, OnNext, OnComplete,
       OnError, ToRequester!Content, ToRequester!OnNext, ToRequester!OnComplete,
       ToRequester!OnError, ToRequester!Deliver, ToRequester!Finish,
       ToRequester!Told, ToRequester!Delivered, ToRequester!Everything
  <2>. QED BY <1>2, <2>1, <2>2 DEF Promised, ToRequester!Next, ToRequester!Emit,
              ToRequester!Stop, ToRequester!promise
<1>3. ASSUME Promised(Responder) PROVE [ToResponder!Next]_(ToResponder!promise)
  <2>1. /\ Fed(Responder) = app[Requester].emitted
        /\ Fin(Responder) = IF phase = "ready" THEN app[Requester].ended ELSE "no"
        /\ Fed(Responder)' = app'[Requester].emitted
        /\ Fin(Responder)' = IF phase' = "ready" THEN app'[Requester].ended ELSE "no"
    BY DEF Fed, Fin, Peer
  <2>2. ASSUME NEW x \in Signal, rcv'[Responder].signals = Append(rcv[Responder].signals, x),
               Gives(rcv[Responder].signals, Fed(Responder), Completed(Fin(Responder)), x),
               Fed(Responder)' = Fed(Responder), Fin(Responder)' = Fin(Responder)
        PROVE  ToResponder!Deliver \/ ToResponder!Finish
    BY <1>1, <2>1, <2>2 DEF Gives, Completed, LastIn, Content, OnNext, OnComplete,
       OnError, ToResponder!Content, ToResponder!OnNext, ToResponder!OnComplete,
       ToResponder!OnError, ToResponder!Deliver, ToResponder!Finish,
       ToResponder!Told, ToResponder!Delivered, ToResponder!Everything
  <2>. QED BY <1>3, <2>1, <2>2 DEF Promised, ToResponder!Next, ToResponder!Emit,
              ToResponder!Stop, ToResponder!promise
<1>. QED BY <1>2, <1>3

LEMMA ComingTyped ==
    ASSUME TypeOK, NEW e \in End
    PROVE  /\ rcv[e].signals \in Seq(Signal) /\ stream[e].fragments \in Seq(Nat)
           /\ stream[e].hasFragments \in BOOLEAN /\ wire[e] \in Seq(Frame)
           /\ Fed(e) \in Nat /\ Fin(e) \in {"no", "complete", "error"}
           /\ Ceased(Peer(e)) \in BOOLEAN /\ BothOpen \in BOOLEAN
<1>1. Peer(e) \in End
  BY DEF Peer
<1>2. rcv[e] \in RcvState /\ stream[e] \in StreamState /\ wire[e] \in Seq(Frame)
      /\ app[Peer(e)] \in AppState
  BY <1>1 DEF TypeOK
<1>. QED BY <1>2 DEF RcvState, StreamState, AppState, Fed, Fin, Ceased, BothOpen

\* What a step of an end does to it as a receiver.
Stays(e) ==
    /\ rcv'[e].signals = rcv[e].signals /\ wire'[e] = wire[e]
    /\ stream'[e].fragments = stream[e].fragments
    /\ stream'[e].hasFragments = stream[e].hasFragments
    /\ Waits(e)' => Waits(e)

Quits(e) ==
    /\ open[e] => ~Waits(e)'
    /\ \/ rcv'[e].signals = rcv[e].signals
       \/ rcv'[e].signals = Append(rcv[e].signals, OnError) /\ ~SaidLast(e)

Turns(e) ==
    /\ open[e] /\ Waits(e) /\ wire[e] # <<>> /\ wire'[e] = Tail(wire[e])
    /\ \/ Accepts(wire[e][1], rcv[e].signals, stream[e].fragments,
                  stream[e].hasFragments, Fed(e), rcv'[e].signals,
                  stream'[e].fragments, stream'[e].hasFragments)
       \/ /\ wire[e][1].type = "ERROR" /\ ~Waits(e)'
          /\ rcv'[e].signals = Append(rcv[e].signals, OnError)

LEMMA ReceiverKeeps ==
    ASSUME TypeOK, NEW e \in End, Coming(e), UNCHANGED open,
           Stays(e) \/ Quits(e) \/ Turns(e),
           Fed(e)' = Fed(e), Fin(e)' = Fin(e), Ceased(Peer(e))' = Ceased(Peer(e))
    PROVE  Coming(e)' /\ Promised(e)
<1>a. PICK ss, fr, has, q, n, all, ceased, exact :
         /\ ss = rcv[e].signals /\ fr = stream[e].fragments
         /\ has = stream[e].hasFragments /\ q = wire[e] /\ n = Fed(e)
         /\ all = (Completed(Fin(e))) /\ ceased = Ceased(Peer(e))
         /\ exact = BothOpen
  BY Zenon
<1>b. PICK tt, gr, hs, r, w :
         /\ tt = rcv'[e].signals /\ gr = stream'[e].fragments
         /\ hs = stream'[e].hasFragments /\ r = wire'[e] /\ w = Waits(e)'
  BY Zenon
<1>1. /\ ss \in Seq(Signal) /\ fr \in Seq(Nat) /\ has \in BOOLEAN
      /\ q \in Seq(Frame) /\ n \in Nat
  BY <1>a, ComingTyped
<1>2. (open[e] /\ w => /\ Holds(tt, gr, hs)
                       /\ Reaches(r, StandsAt(tt, gr), n, all, ceased, exact))
      => Coming(e)'
  BY <1>a, <1>b DEF Coming, BothOpen
<1>3. (tt = ss \/ \E x \in Signal : tt = Append(ss, x) /\ Gives(ss, n, all, x))
      => Promised(e)
  BY <1>a, <1>b DEF Promised
<1>4. open[e] /\ Waits(e) => /\ Holds(ss, fr, has)
                             /\ Reaches(q, StandsAt(ss, fr), n, all, ceased, exact)
  BY <1>a DEF Coming
<1>5. OnError \in Signal
  BY SignalsTyped
<1>6. CASE Stays(e)
  <2>1. tt = ss /\ gr = fr /\ hs = has /\ r = q /\ (w => Waits(e))
    BY <1>6, <1>a, <1>b DEF Stays
  <2>. QED BY <1>2, <1>3, <1>4, <2>1
<1>7. CASE Quits(e)
  <2>1. (open[e] => ~w) /\ (tt = ss \/ (tt = Append(ss, OnError) /\ ~LastIn(ss)))
    BY <1>7, <1>a, <1>b DEF Quits, SaidLast, LastIn
  <2>2. ~LastIn(ss) => Gives(ss, n, all, OnError)
    BY DEF Gives
  <2>. QED BY <1>2, <1>3, <1>5, <2>1, <2>2
<1>8. CASE Turns(e)
  <2>1. /\ open[e] /\ Waits(e) /\ q # <<>> /\ r = Tail(q)
        /\ \/ Accepts(q[1], ss, fr, has, n, tt, gr, hs)
           \/ q[1].type = "ERROR" /\ ~w /\ tt = Append(ss, OnError)
    BY <1>8, <1>a, <1>b DEF Turns
  <2>2. Holds(ss, fr, has) /\ Reaches(q, StandsAt(ss, fr), n, all, ceased, exact)
    BY <1>4, <2>1
  <2>3. CASE Accepts(q[1], ss, fr, has, n, tt, gr, hs)
    <3>1. Accepted(q, ss, n, all, ceased, exact, tt, gr, hs)
      BY <1>1, <2>1, <2>2, <2>3, ReachesAccepted, ZenonT(30)
    <3>2. /\ Holds(tt, gr, hs)
          /\ Reaches(r, StandsAt(tt, gr), n, all, ceased, exact)
          /\ tt = ss \/ \E x \in Signal : tt = Append(ss, x) /\ Gives(ss, n, all, x)
      BY <2>1, <3>1 DEF Accepted
    <3>. QED BY <1>2, <1>3, <3>2
  <2>4. CASE q[1].type = "ERROR" /\ ~w /\ tt = Append(ss, OnError)
    <3>1. Gives(ss, n, all, OnError)
      BY <1>1, <2>1, <2>2, <2>4, ErrorGiven
    <3>. QED BY <1>2, <1>3, <1>5, <2>4, <3>1
  <2>. QED BY <2>1, <2>3, <2>4
<1>. QED BY <1>6, <1>7, <1>8

\* What a step of the peer p of e does to the direction to e.
Feeds(e) ==
    More(BothOpen, wire[e], Fed(e), Fin(e), Ceased(Peer(e)), wire'[e], Fed(e)',
         Fin(e)', Ceased(Peer(e))')

LEMMA ProducerKeeps ==
    ASSUME TypeOK, TypeOK', NEW e \in End, Coming(e), UNCHANGED open, Feeds(e),
           stream'[e] = stream[e], rcv'[e] = rcv[e], Waits(e)' = Waits(e)
    PROVE  Coming(e)' /\ Promised(e)
<1>a. PICK h, s, q, n, fin, ceased, exact :
         /\ h = Holds(rcv[e].signals, stream[e].fragments, stream[e].hasFragments)
         /\ s = StandsAt(rcv[e].signals, stream[e].fragments)
         /\ q = wire[e] /\ n = Fed(e) /\ fin = Fin(e) /\ ceased = Ceased(Peer(e))
         /\ exact = BothOpen
  BY Zenon
<1>b. PICK r, m, end, stops :
         /\ r = wire'[e] /\ m = Fed(e)' /\ end = Fin(e)' /\ stops = Ceased(Peer(e))'
  BY Zenon
<1>1. /\ q \in Seq(Frame) /\ n \in Nat /\ fin \in {"no", "complete", "error"}
      /\ ceased \in BOOLEAN /\ exact \in BOOLEAN /\ stops \in BOOLEAN
  <2>1. stops \in BOOLEAN
    BY <1>b DEF Ceased, TypeOK, StreamState, OutDone, Peer
  <2>. QED BY <1>a, <2>1, ComingTyped
<1>2. More(exact, q, n, fin, ceased, r, m, end, stops)
  BY <1>a, <1>b DEF Feeds
<1>3. Coming(e)'
  <2>1. open[e] /\ Waits(e) => h /\ Reaches(q, s, n, Completed(fin), ceased, exact)
    BY <1>a DEF Coming
  <2>2. (open[e] /\ Waits(e) => h /\ Reaches(r, s, m, Completed(end), stops, exact))
          => Coming(e)'
    BY <1>a, <1>b DEF Coming, BothOpen
  <2>3. ASSUME Reaches(q, s, n, Completed(fin), ceased, exact)
        PROVE  Reaches(r, s, m, Completed(end), stops, exact)
    <3>1. MoreTyped(exact, q, n, fin, ceased, stops)
      BY <1>1 DEF MoreTyped
    <3>. QED BY <1>2, <2>3, <3>1, ReachesMore, Zenon
  <2>. QED BY <2>1, <2>2, <2>3
<1>4. \/ m = n /\ end = fin
      \/ fin = "no" /\ m = n + 1 /\ end \in {"no", "complete"}
      \/ fin = "no" /\ m = n /\ end \in {"complete", "error"}
  BY <1>1, <1>2 DEF More
<1>5. Promised(e)
  BY <1>4, <1>a, <1>b DEF Promised
<1>. QED BY <1>3, <1>5

-----------------------------------------------------------------------------
(* What the ends send                                                      *)

\* The ways of the end a to feed its peer e.
LEMMA WaysToFeed ==
    ASSUME TypeOK, NEW a \in End, NEW e \in End, e = Peer(a)
    PROVE  /\ Fed(e)' = Fed(e) /\ Fin(e)' = Fin(e) /\ (Ceased(a) => Ceased(a)')
              /\ (wire'[e] = wire[e] \/ Posts(a, <<>>))
              => Feeds(e)
           /\ \A f \in Frame :
                /\ Silent(f) /\ Posts(a, <<f>>)
                /\ Fed(e)' = Fed(e) /\ Fin(e)' = Fin(e) /\ (Ceased(a) => Ceased(a)')
                => Feeds(e)
           /\ /\ Posts(a, <<ErrorFrame>>) /\ ~Ceased(a) /\ Ceased(a)'
              /\ Fed(e)' = Fed(e)
              /\ Fin(e)' = Fin(e) \/ (Fin(e) = "no" /\ Fin(e)' = "error")
              => Feeds(e)
           /\ /\ Posts(a, <<CompleteFrame>>) /\ ~Ceased(a) /\ Ceased(a)'
              /\ Fed(e)' = Fed(e) /\ Fin(e) = "no" /\ Fin(e)' = "complete"
              => Feeds(e)
           /\ \A c, cut \in BOOLEAN :
                /\ Posts(a, PayloadFrames(Fed(e) + 1, c, cut))
                /\ ~Ceased(a) /\ (c => Ceased(a)') /\ Fed(e)' = Fed(e) + 1
                /\ Fin(e) = "no" /\ Fin(e)' = IF c THEN "complete" ELSE "no"
                => Feeds(e)
           /\ \A c, cut, x \in BOOLEAN, k \in Nat :
                /\ Posts(a, RequestFrames(k, c, cut) \o If(x, ExtFrame))
                /\ ~Ceased(a) /\ (c => Ceased(a)') /\ Fed(e) = 0 /\ Fed(e)' = 1
                /\ Fin(e) = "no" /\ Fin(e)' = IF c THEN "complete" ELSE "no"
                => Feeds(e)
<1>1. Peer(e) = a /\ Fed(e) \in Nat
  BY ComingTyped DEF Peer
<1>2. ASSUME NEW fs \in Seq(Frame), Posts(a, fs)
      PROVE  wire'[e] = wire[e] \o IF BothOpen THEN fs ELSE <<>>
  <2>1. /\ BothOpen => wire'[e] = wire[e] \o fs
        /\ ~BothOpen => wire'[e] = wire[e]
    BY <1>2, PostsWires
  <2>2. wire[e] \o <<>> = wire[e]
    BY DEF TypeOK
  <2>. QED BY <2>1, <2>2
<1>3. /\ <<>> \in Seq(Frame) /\ <<ErrorFrame>> \in Seq(Frame)
      /\ <<CompleteFrame>> \in Seq(Frame)
      /\ \A f \in Frame : <<f>> \in Seq(Frame)
      /\ \A c, cut \in BOOLEAN : PayloadFrames(Fed(e) + 1, c, cut) \in Seq(Frame)
      /\ \A c, cut, x \in BOOLEAN, k \in Nat :
            RequestFrames(k, c, cut) \o If(x, ExtFrame) \in Seq(Frame)
  <2>1. /\ <<>> \in Seq(Frame) /\ <<ErrorFrame>> \in Seq(Frame)
        /\ <<CompleteFrame>> \in Seq(Frame)
        /\ \A f \in Frame : <<f>> \in Seq(Frame)
    BY FramesTyped
  <2>2. \A c, cut \in BOOLEAN : PayloadFrames(Fed(e) + 1, c, cut) \in Seq(Frame)
    BY <1>1, FramesTyped
  <2>3. ASSUME NEW c \in BOOLEAN, NEW cut \in BOOLEAN, NEW x \in BOOLEAN, NEW k \in Nat
        PROVE  RequestFrames(k, c, cut) \o If(x, ExtFrame) \in Seq(Frame)
    <3>1. RequestFrames(k, c, cut) \in Seq(Frame) /\ If(x, ExtFrame) \in Seq(Frame)
      BY FramesTyped DEF If
    <3>. QED BY <3>1
  <2>. QED BY <2>1, <2>2, <2>3
<1>4. ASSUME Fed(e)' = Fed(e), Fin(e)' = Fin(e), Ceased(a) => Ceased(a)',
             wire'[e] = wire[e] \/ Posts(a, <<>>)
      PROVE  Feeds(e)
  <2>1. wire'[e] = wire[e]
    <3>1. wire[e] \o <<>> = wire[e]
      BY DEF TypeOK
    <3>2. Posts(a, <<>>) => wire'[e] = wire[e] \o <<>>
      BY <1>2, <1>3
    <3>. QED BY <1>4, <3>1, <3>2
  <2>. QED BY <1>1, <1>4, <2>1 DEF Feeds, More
<1>5. ASSUME NEW f \in Frame, Silent(f), Posts(a, <<f>>),
             Fed(e)' = Fed(e), Fin(e)' = Fin(e), Ceased(a) => Ceased(a)'
      PROVE  Feeds(e)
  <2>1. wire'[e] = wire[e] \o IF BothOpen THEN <<f>> ELSE <<>>
    BY <1>2, <1>3, <1>5
  <2>. QED BY <1>1, <1>5, <2>1 DEF Feeds, More
<1>6. ASSUME Posts(a, <<ErrorFrame>>), ~Ceased(a), Ceased(a)', Fed(e)' = Fed(e),
             Fin(e)' = Fin(e) \/ (Fin(e) = "no" /\ Fin(e)' = "error")
      PROVE  Feeds(e)
  <2>1. wire'[e] = wire[e] \o IF BothOpen THEN <<ErrorFrame>> ELSE <<>>
    BY <1>2, <1>3, <1>6
  <2>. QED BY <1>1, <1>6, <2>1 DEF Feeds, More
<1>7. ASSUME Posts(a, <<CompleteFrame>>), ~Ceased(a), Ceased(a)', Fed(e)' = Fed(e),
             Fin(e) = "no", Fin(e)' = "complete"
      PROVE  Feeds(e)
  <2>1. wire'[e] = wire[e] \o IF BothOpen THEN <<CompleteFrame>> ELSE <<>>
    BY <1>2, <1>3, <1>7
  <2>. QED BY <1>1, <1>7, <2>1 DEF Feeds, More
<1>8. ASSUME NEW c \in BOOLEAN, NEW cut \in BOOLEAN,
             Posts(a, PayloadFrames(Fed(e) + 1, c, cut)),
             ~Ceased(a), c => Ceased(a)', Fed(e)' = Fed(e) + 1,
             Fin(e) = "no", Fin(e)' = IF c THEN "complete" ELSE "no"
      PROVE  Feeds(e)
  <2>1. wire'[e] = wire[e] \o IF BothOpen THEN PayloadFrames(Fed(e) + 1, c, cut) ELSE <<>>
    BY <1>2, <1>3, <1>8
  <2>. QED BY <1>1, <1>8, <2>1 DEF Feeds, More
<1>9. ASSUME NEW c \in BOOLEAN, NEW cut \in BOOLEAN, NEW x \in BOOLEAN, NEW k \in Nat,
             Posts(a, RequestFrames(k, c, cut) \o If(x, ExtFrame)),
             ~Ceased(a), c => Ceased(a)', Fed(e) = 0, Fed(e)' = 1,
             Fin(e) = "no", Fin(e)' = IF c THEN "complete" ELSE "no"
      PROVE  Feeds(e)
  <2>1. wire'[e] = wire[e] \o IF BothOpen THEN RequestFrames(k, c, cut) \o If(x, ExtFrame)
                              ELSE <<>>
    BY <1>2, <1>3, <1>9
  <2>. QED BY <1>1, <1>9, <2>1 DEF Feeds, More
<1>. QED BY <1>4, <1>5, <1>6, <1>7, <1>8, <1>9

(***************************************************************************)
(* How the ends of an interaction and the signals of its receivers go      *)
(* together: the flags of a stream say at least what its application has   *)
(* done and been told.                                                     *)
(***************************************************************************)
EndInv ==
    /\ \A e \in End : SaidLast(e) => InDone(e)
    /\ first.deferred => InDone(Responder) /\ served \notin {"none", "reassembling"}
    /\ first.deferred /\ served = "running" => ~SaidLast(Responder)
    /\ phase = "ready" /\ app[Requester].ended # "no" => OutDone(Requester)
    /\ app[Responder].ended # "no" => OutDone(Responder)
    /\ phase = "pending" /\ ~OutDone(Requester) =>
         app[Requester].ended = IF held.isComplete THEN "complete" ELSE "no"
    /\ phase # "ready" => app[Requester].emitted = 0
    /\ phase = "ready" => app[Requester].emitted >= 1
    /\ served \in {"none", "reassembling"} => rcv[Responder].signals = <<>>

\* Nobody calls request(0), which would end the stream with an error frame
\* even behind a COMPLETE.
PositiveDemands == 0 \notin Demands

LEMMA RequesterFeeds ==
    ASSUME PositiveDemands, TypeOK, TypeOK', EndInv, RequesterActs
    PROVE  Feeds(Responder)
<1>. DEFINE a == Requester
            e == Responder
            Same == Fed(e)' = Fed(e) /\ Fin(e)' = Fin(e) /\ (Ceased(a) => Ceased(a)')
<1>0. /\ a \in End /\ e \in End /\ e = Peer(a)
      /\ Effects(a) /\ FragmentEffects(a) /\ AppEffects(a)
      /\ stream \in [End -> StreamState] /\ app \in [End -> AppState] /\ held \in Held
      /\ wire \in [End -> Seq(Frame)]
  BY StreamEffects, StreamFragments, ApplicationEffects DEF TypeOK, Peer
<1>1. /\ Fed(e) = app[a].emitted /\ Fed(e)' = app'[a].emitted
      /\ Fin(e) = IF phase = "ready" THEN app[a].ended ELSE "no"
      /\ Fin(e)' = IF phase' = "ready" THEN app'[a].ended ELSE "no"
      /\ Ceased(a) = OutDone(a) /\ Ceased(a)' = stream'[a].outDone
      /\ OutDone(a) = stream[a].outDone
  <2>1. Ceased(a) = OutDone(a) /\ Ceased(a)' = stream'[a].outDone
    <3>1. OutDone(a) \in BOOLEAN /\ OutDone(a)' = stream'[a].outDone
      BY <1>0 DEF Effects, OutDone
    <3>2. (Ceased(a) <=> OutDone(a)) /\ (Ceased(a)' <=> OutDone(a)')
      BY DEF Ceased
    <3>3. Ceased(a) \in BOOLEAN /\ Ceased(a)' \in BOOLEAN
      BY DEF Ceased
    <3>4. stream'[a].outDone \in BOOLEAN
      BY DEF TypeOK, StreamState
    <3>. QED BY <3>1, <3>2, <3>3, <3>4
  <2>. QED BY <2>1 DEF Fed, Fin, Peer, OutDone
<1>2. phase = "ready" /\ ~OutDone(a) => Fin(e) = "no"
  BY <1>1 DEF EndInv
<1>3. /\ Same /\ (wire'[e] = wire[e] \/ Posts(a, <<>>)) => Feeds(e)
      /\ \A f \in Frame : Silent(f) /\ Posts(a, <<f>>) /\ Same => Feeds(e)
      /\ /\ Posts(a, <<ErrorFrame>>) /\ ~Ceased(a) /\ Ceased(a)'
         /\ Fed(e)' = Fed(e)
         /\ Fin(e)' = Fin(e) \/ (Fin(e) = "no" /\ Fin(e)' = "error")
         => Feeds(e)
  BY <1>0, WaysToFeed
<1>4. /\ ExtFrame \in Frame /\ CancelFrame \in Frame
      /\ Silent(ExtFrame) /\ Silent(CancelFrame)
      /\ \A n \in Demands : RequestNFrame(n) \in Frame /\ Silent(RequestNFrame(n))
  BY FramesTyped, BoundsAssumption DEF PositiveDemands, ExtFrame, CancelFrame,
     RequestNFrame, Bare, Silent
<1>5. \A fs : Send(a, fs) => Posts(a, fs)
  BY DEF Posts
<1>6. \A fs : wire[a] # <<>> /\ TakeAndSend(a, fs) => Posts(a, fs)
  BY DEF Posts, Takes
<1>. HIDE DEF Same
<1>7. ASSUME NEW cut \in BOOLEAN, HandleReady(cut) PROVE Feeds(e)
  <2>. DEFINE k == held.initialRequestN
              c == held.isComplete
              x == held.hasExtension
  <2>1. k \in Nat /\ c \in BOOLEAN /\ x \in BOOLEAN
    BY <1>0 DEF Held
  <2>2. /\ phase = "pending" /\ phase' = "ready" /\ ~OutDone(a)
        /\ Send(a, RequestFrames(k, c, cut) \o If(x, ExtFrame))
        /\ app' = [app EXCEPT ![a].emitted = 1]
        /\ stream' = [stream EXCEPT ![a] = [@ EXCEPT !.registered = TRUE, !.outDone = c]]
    BY <1>7 DEF HandleReady, a
  <2>3. stream'[a].outDone = c
    BY <1>0, <2>2 DEF StreamState
  <2>4. app'[a].emitted = 1 /\ app'[a].ended = app[a].ended
    BY <1>0, <2>2 DEF AppEffects
  <2>5. app[a].emitted = 0 /\ app[a].ended = IF c THEN "complete" ELSE "no"
    BY <2>2 DEF EndInv, a
  <2>. HIDE DEF k, c, x
  <2>6. Posts(a, RequestFrames(k, c, cut) \o If(x, ExtFrame))
    BY <1>5, <2>2
  <2>7. /\ ~Ceased(a) /\ (c => Ceased(a)') /\ Fed(e) = 0 /\ Fed(e)' = 1
        /\ Fin(e) = "no" /\ Fin(e)' = IF c THEN "complete" ELSE "no"
    BY <1>1, <2>1, <2>2, <2>3, <2>4, <2>5
  <2>. QED BY <1>0, <2>1, <2>6, <2>7, WaysToFeed
<1>8. CASE HandleReadyDeclined \/ HandleReject
  <2>1. /\ wire' = wire /\ app' = app /\ phase # "ready" /\ phase' # "ready"
        /\ stream' = stream \/ stream' = BothEnd(a)
    BY <1>8 DEF HandleReadyDeclined, HandleReject, a
  <2>2. Same
    BY <1>0, <1>1, <2>1 DEF Same, Effects
  <2>. QED BY <1>3, <2>1, <2>2
<1>9. ASSUME NEW n \in Demands, RequesterRequest(n) PROVE Feeds(e)
  <2>1. /\ app' = Asked(a, n) /\ stream' = stream /\ phase' = phase /\ n \in Nat
        /\ wire' = wire \/ Send(a, <<RequestNFrame(n)>>)
    BY <1>9, BoundsAssumption DEF RequesterRequest, a
  <2>2. Same
    BY <1>0, <1>1, <2>1 DEF Same, AppEffects
  <2>. QED BY <1>3, <1>4, <1>5, <2>1, <2>2
<1>10. CASE RequesterCancel
  <2>1. /\ app' = [app EXCEPT ![a].quit = TRUE] /\ ~Over(a)
        /\ phase' = phase \/ (phase # "ready" /\ phase' # "ready")
        /\ stream' = BothEnd(a) \/ stream' = Ended(a, FALSE)
        /\ \/ wire' = wire
           \/ Send(a, <<IF InDone(a) THEN ErrorFrame ELSE CancelFrame>>)
    BY <1>10 DEF RequesterCancel, a
  <2>2. stream'[a].outDone
    BY <1>0, <2>1 DEF Effects
  <2>3. Fed(e)' = Fed(e) /\ Fin(e)' = Fin(e) /\ Ceased(a)'
    <3>1. app'[a].emitted = app[a].emitted /\ app'[a].ended = app[a].ended
      BY <1>0, <2>1 DEF AppEffects
    <3>. QED BY <1>1, <2>1, <2>2, <3>1
  <2>4. Same
    BY <2>3 DEF Same
  <2>5. CASE wire' = wire
    BY <1>3, <2>4, <2>5
  <2>6. CASE Send(a, <<IF InDone(a) THEN ErrorFrame ELSE CancelFrame>>)
    <3>1. CASE InDone(a)
      <4>1. ~Ceased(a) /\ Posts(a, <<ErrorFrame>>)
        BY <1>1, <1>5, <2>1, <2>6, <3>1 DEF Over
      <4>. QED BY <1>3, <2>3, <4>1
    <3>2. CASE ~InDone(a)
      <4>1. Posts(a, <<CancelFrame>>)
        BY <1>5, <2>6, <3>2
      <4>. QED BY <1>3, <1>4, <2>4, <4>1
    <3>. QED BY <3>1, <3>2
  <2>. QED BY <2>1, <2>5, <2>6
<1>11. ASSUME NEW c \in BOOLEAN, NEW cut \in BOOLEAN, RequesterOnNext(c, cut) PROVE Feeds(e)
  <2>1. /\ phase = "ready" /\ phase' = phase /\ ~OutDone(a)
        /\ Send(a, PayloadFrames(Fed(e) + 1, c, cut))
        /\ stream' = OutEnds(a, c) /\ app' = Emitted(a, c)
    BY <1>1, <1>11 DEF RequesterOnNext, a
  <2>2. /\ stream'[a].outDone = (stream[a].outDone \/ c)
        /\ app'[a].emitted = app[a].emitted + 1
        /\ app'[a].ended = IF c THEN "complete" ELSE app[a].ended
    BY <1>0, <2>1 DEF Effects, AppEffects
  <2>3. Posts(a, PayloadFrames(Fed(e) + 1, c, cut))
    BY <1>5, <2>1
  <2>4. /\ ~Ceased(a) /\ (c => Ceased(a)') /\ Fed(e)' = Fed(e) + 1
        /\ Fin(e) = "no" /\ Fin(e)' = IF c THEN "complete" ELSE "no"
    BY <1>1, <1>2, <2>1, <2>2
  <2>. QED BY <1>0, <2>3, <2>4, WaysToFeed
<1>12. CASE RequesterOnComplete
  <2>1. app' = [app EXCEPT ![a].ended = "complete"] /\ phase' = phase /\ ~OutDone(a)
    BY <1>12 DEF RequesterOnComplete, a
  <2>2. app'[a].emitted = app[a].emitted /\ app'[a].ended = "complete"
    BY <1>0, <2>1 DEF AppEffects
  <2>3. CASE phase = "pending" /\ wire' = wire /\ stream' = stream
    <3>1. Same
      BY <1>1, <2>1, <2>2, <2>3 DEF Same
    <3>. QED BY <1>3, <2>3, <3>1
  <2>4. CASE phase = "ready" /\ Send(a, <<CompleteFrame>>) /\ stream' = OutEnds(a, TRUE)
    <3>1. stream'[a].outDone
      BY <1>0, <2>4 DEF Effects
    <3>2. /\ Posts(a, <<CompleteFrame>>) /\ ~Ceased(a) /\ Ceased(a)'
          /\ Fed(e)' = Fed(e) /\ Fin(e) = "no" /\ Fin(e)' = "complete"
      BY <1>1, <1>2, <1>5, <2>1, <2>2, <2>4, <3>1
    <3>. QED BY <1>0, <3>2, WaysToFeed
  <2>. QED BY <1>12, <2>3, <2>4 DEF RequesterOnComplete, a
<1>13. CASE RequesterOnError
  <2>1. /\ phase = "ready" /\ phase' = phase /\ ~OutDone(a) /\ stream' = BothEnd(a)
        /\ Send(a, <<ErrorFrame>>) /\ app' = [app EXCEPT ![a].ended = "error"]
    BY <1>13 DEF RequesterOnError, a
  <2>2. /\ stream'[a].outDone
        /\ app'[a].emitted = app[a].emitted /\ app'[a].ended = "error"
    BY <1>0, <2>1 DEF Effects, AppEffects
  <2>3. /\ Posts(a, <<ErrorFrame>>) /\ ~Ceased(a) /\ Ceased(a)'
        /\ Fed(e)' = Fed(e) /\ Fin(e) = "no" /\ Fin(e)' = "error"
    BY <1>1, <1>2, <1>5, <2>1, <2>2
  <2>. QED BY <1>3, <2>3
<1>14. CASE RequesterOnErrorThrows \/ RequesterOnNextThrows
  <2>1. /\ phase = "pending" /\ phase' = phase /\ wire' = wire
        /\ \/ app' = [app EXCEPT ![a].ended = "error"]
           \/ app' = [app EXCEPT ![a].ended = "complete"]
        /\ stream' = BothEnd(a) \/ stream' = [stream EXCEPT ![a].outDone = TRUE]
    BY <1>14 DEF RequesterOnErrorThrows, RequesterOnNextThrows, a
  <2>2. app'[a].emitted = app[a].emitted /\ stream'[a].outDone
    <3>1. app'[a].emitted = app[a].emitted
      BY <1>0, <2>1 DEF AppEffects
    <3>2. [stream EXCEPT ![a].outDone = TRUE][a].outDone
      BY <1>0 DEF StreamState
    <3>. QED BY <1>0, <2>1, <3>1, <3>2 DEF Effects
  <2>3. Same
    BY <1>1, <2>1, <2>2 DEF Same
  <2>. QED BY <1>3, <2>1, <2>3
<1>15. CASE RequesterOnExtension
  <2>1. /\ app' = [app EXCEPT ![a].extensions = @ + 1] /\ stream' = stream /\ phase' = phase
        /\ wire' = wire \/ Send(a, <<ExtFrame>>)
    BY <1>15 DEF RequesterOnExtension, a
  <2>2. Same
    BY <1>0, <1>1, <2>1 DEF Same, AppEffects
  <2>. QED BY <1>3, <1>4, <1>5, <2>1, <2>2
<1>16. CASE RequesterHandles
  <2>1. /\ app' = app /\ phase' = phase /\ wire[a] # <<>>
        /\ TakeAndSend(a, <<>>) \/ TakeAndSend(a, <<CancelFrame>>)
    BY <1>16 DEF RequesterHandles, RequesterHandlesPayload, RequesterHandlesFragment,
       RequesterHandlesCancel, RequesterHandlesError, RequesterHandlesRequestN,
       RequesterRefusesFrame, RequesterHandlesExtension, DropFrame, Handles, Arrives, a
  <2>2. stream[a].outDone => stream'[a].outDone
    <3>1. CASE RequesterHandlesPayload
      <4>1. PICK b, r \in BOOLEAN : stream' = Finished(a, b, r)
        <5>. DEFINE f == Head(wire[Requester])
        <5>1. f \in Frame
          BY <3>1, Taken DEF RequesterHandlesPayload, Handles, Arrives, TypeOK
        <5>2. f.complete \in BOOLEAN /\ (~f.complete \/ f.next) \in BOOLEAN
          BY <5>1, FrameFields
        <5>3. stream' = Finished(a, f.complete, ~f.complete \/ f.next)
          BY <3>1 DEF RequesterHandlesPayload, a
        <5>. QED BY <5>2, <5>3
      <4>. QED BY <1>0, <4>1 DEF Effects
    <3>2. CASE RequesterHandlesFragment
      <4>1. Head(wire[Requester]) \in Frame
        BY <3>2, Taken DEF RequesterHandlesFragment, Handles, Arrives, TypeOK
      <4>2. Head(wire[Requester]).data \in Seq(Nat)
        BY <4>1, FrameFields
      <4>3. stream' = Extended(a, Head(wire[Requester]).data)
        BY <3>2 DEF RequesterHandlesFragment, a
      <4>. QED BY <1>0, <4>2, <4>3 DEF FragmentEffects
    <3>3. CASE RequesterHandlesCancel \/ RequesterHandlesError \/ RequesterHandlesRequestN
               \/ RequesterHandlesExtension \/ DropFrame(Requester)
      <4>1. stream' \in {stream, OutEnds(a, TRUE), Ended(a, FALSE)}
        BY <3>3 DEF RequesterHandlesCancel, RequesterHandlesError,
           RequesterHandlesRequestN, RequesterRefusesFrame, RequesterHandlesExtension,
           DropFrame, a
      <4>. QED BY <1>0, <4>1 DEF Effects
    <3>. QED BY <1>16, <3>1, <3>2, <3>3 DEF RequesterHandles
  <2>3. Same
    BY <1>1, <2>1, <2>2 DEF Same
  <2>. QED BY <1>3, <1>4, <1>6, <2>1, <2>3
<1>17. CASE RequesterCalls
  BY <1>9, <1>10, <1>11, <1>12, <1>13, <1>14, <1>15, <1>17 DEF RequesterCalls
<1>18. CASE Answer
  BY <1>7, <1>8, <1>18 DEF Answer
<1>. QED BY <1>16, <1>17, <1>18 DEF RequesterActs, e

\* The responder refuses no frame of an open stream: it has its receiver and
\* collects no fragments, and demand is positive.
LEMMA NothingRefused ==
    ASSUME TypeOK, QuietInv, RegistryInv, RequestInv, PartInv, Coming(Responder),
           ResponderHandlesRequestN \/ ResponderHandlesExtension
    PROVE  /\ TakeAndSend(Responder, <<>>) /\ stream' = stream /\ served' = served
           /\ app' = app /\ wire[Responder] # <<>> /\ phase' = phase
           /\ rcv' = rcv \/ \E n \in Nat : rcv' = Granted(Responder, n)
<1>. DEFINE q == wire[Responder]
<1>1. /\ q # <<>> /\ stream[Responder].registered /\ served # "running"
      /\ Head(q).type \in {"REQUEST_N", "EXT"}
  BY DEF ResponderHandlesRequestN, ResponderHandlesExtension, Handles, Arrives
<1>2. ~Collecting /\ served = "active"
  BY <1>1, OthersMeetReceiver
<1>3. ~Reassembling
  BY <1>2 DEF Reassembling, HasReceiver, Collecting
<1>4. q \in Seq(Frame) /\ q[1] = Head(q) /\ q[1] \in Frame /\ open[Responder]
  BY <1>1, Taken DEF TypeOK, QuietInv
<1>5. Silent(q[1])
  <2>. DEFINE s == StandsAt(rcv[Responder].signals, stream[Responder].fragments)
              n == Fed(Responder)
              all == Completed(Fin(Responder))
              ceased == Ceased(Peer(Responder))
  <2>1. Reaches(q, s, n, all, ceased, BothOpen)
    BY <1>1, <1>4 DEF Coming, Waits
  <2>. HIDE DEF q, n, all, ceased
  <2>2. \E u \in Places : Conveys(q[1], s, u, n, all)
    <3>1. q # <<>> /\ q \in Seq(Frame)
      BY <1>1, <1>4
    <3>. HIDE DEF s
    <3>. QED BY <2>1, <3>1, ReachesTaken
  <2>3. q[1].type \in {"CANCEL", "REQUEST_N", "EXT"}
    BY <1>1, <1>4
  <2>4. rcv[Responder].signals \in Seq(Signal)
    BY ComingTyped
  <2>. QED BY <1>4, <2>2, <2>3, <2>4, OthersGiven
<1>6. Head(q).requestN \in Nat /\ (Head(q).type = "REQUEST_N" => ~(Head(q).requestN < 1))
  <2>1. Head(q).requestN \in Nat
    BY <1>4, FrameFields
  <2>. QED BY <1>4, <1>5, <2>1 DEF Silent
<1>7. CASE ResponderHandlesRequestN
  <2>1. Head(q).type = "REQUEST_N"
    BY <1>7 DEF ResponderHandlesRequestN, Handles, Arrives
  <2>. QED BY <1>1, <1>3, <1>6, <1>7, <2>1 DEF ResponderHandlesRequestN
<1>8. CASE ResponderHandlesExtension
  BY <1>1, <1>3, <1>8 DEF ResponderHandlesExtension
<1>. QED BY <1>7, <1>8

LEMMA ResponderFeeds ==
    ASSUME PositiveDemands, TypeOK, TypeOK', QuietInv, RegistryInv, RequestInv, PartInv,
           EndInv, Coming(Responder), ResponderActs
    PROVE  Feeds(Requester)
<1>. DEFINE a == Responder
            e == Requester
            Same == Fed(e)' = Fed(e) /\ Fin(e)' = Fin(e) /\ (Ceased(a) => Ceased(a)')
<1>0. /\ a \in End /\ e \in End /\ e = Peer(a)
      /\ Effects(a) /\ FragmentEffects(a) /\ AppEffects(a)
      /\ stream \in [End -> StreamState] /\ app \in [End -> AppState]
      /\ wire \in [End -> Seq(Frame)]
  BY StreamEffects, StreamFragments, ApplicationEffects DEF TypeOK, Peer
<1>1. /\ Fed(e) = app[a].emitted /\ Fed(e)' = app'[a].emitted
      /\ Fin(e) = app[a].ended /\ Fin(e)' = app'[a].ended
      /\ Ceased(a) <=> OutDone(a) \/ served = "refused"
      /\ Ceased(a)' <=> stream'[a].outDone \/ served' = "refused"
      /\ OutDone(a) = stream[a].outDone
  BY DEF Fed, Fin, Ceased, Peer, OutDone
<1>2. ~OutDone(a) => Fin(e) = "no"
  BY <1>1 DEF EndInv
<1>3. /\ Same /\ (wire'[e] = wire[e] \/ Posts(a, <<>>)) => Feeds(e)
      /\ \A f \in Frame : Silent(f) /\ Posts(a, <<f>>) /\ Same => Feeds(e)
      /\ /\ Posts(a, <<ErrorFrame>>) /\ ~Ceased(a) /\ Ceased(a)'
         /\ Fed(e)' = Fed(e)
         /\ Fin(e)' = Fin(e) \/ (Fin(e) = "no" /\ Fin(e)' = "error")
         => Feeds(e)
  BY <1>0, WaysToFeed
<1>4. /\ ExtFrame \in Frame /\ CancelFrame \in Frame
      /\ Silent(ExtFrame) /\ Silent(CancelFrame)
      /\ \A n \in Demands : RequestNFrame(n) \in Frame /\ Silent(RequestNFrame(n))
  BY FramesTyped, BoundsAssumption DEF PositiveDemands, ExtFrame, CancelFrame,
     RequestNFrame, Bare, Silent
<1>5. \A fs : Send(a, fs) => Posts(a, fs)
  BY DEF Posts
<1>6. \A fs : wire[a] # <<>> /\ TakeAndSend(a, fs) => Posts(a, fs)
  BY DEF Posts, Takes
<1>7. served = "none" => ~Ceased(a)
  BY <1>1 DEF RegistryInv, Fresh
<1>. HIDE DEF Same
<1>8. CASE ResponderRejects \/ ResponderRefusesDemand
  <2>1. /\ served = "none" /\ served' = "refused" /\ wire[a] # <<>> /\ app' = app
        /\ TakeAndSend(a, <<ErrorFrame>>)
    BY <1>8 DEF ResponderRejects, ResponderRefusesDemand, Arrives
  <2>2. /\ Posts(a, <<ErrorFrame>>) /\ ~Ceased(a) /\ Ceased(a)'
        /\ Fed(e)' = Fed(e) /\ Fin(e)' = Fin(e)
    BY <1>1, <1>6, <1>7, <2>1
  <2>. QED BY <1>3, <2>2
<1>9. CASE ResponderReceivesFirstFragment \/ ResponderReceivesRequest
  <2>1. /\ served = "none" /\ wire[a] # <<>> /\ app' = app /\ TakeAndSend(a, <<>>)
    BY <1>9 DEF ResponderReceivesFirstFragment, ResponderReceivesRequest, CallHandler, Arrives
  <2>2. Posts(a, <<>>) /\ Same
    BY <1>1, <1>6, <1>7, <2>1 DEF Same
  <2>. QED BY <1>3, <2>2
<1>10. CASE ResponderReassemblesRequest \/ ResponderHandlesFragment
            \/ ResponderHandlesPayload \/ ResponderHandlesEnd \/ DropFrame(a)
  <2>1. /\ wire[a] # <<>> /\ app' = app /\ TakeAndSend(a, <<>>)
        /\ served' = served \/ (served' = "running" /\ stream[a].registered)
    BY <1>10 DEF ResponderReassemblesRequest, CallHandler, ResponderHandlesFragment,
       ResponderHandlesPayload, ResponderHandlesEnd, DropFrame, Handles, Arrives
  <2>2. stream[a].registered => served # "refused"
    BY DEF RegistryInv, Fresh
  <2>3. stream[a].outDone => stream'[a].outDone
    <3>1. ASSUME NEW r \in BOOLEAN, NEW b \in BOOLEAN, stream' = Finished(a, b, r)
          PROVE  stream[a].outDone => stream'[a].outDone
      BY <1>0, <3>1 DEF Effects
    <3>2. ASSUME stream[a].registered, wire[a] # <<>>
          PROVE  LET f == Head(wire[a]) IN /\ f.data \in Seq(Nat) /\ f.complete \in BOOLEAN
                                           /\ (first.isComplete \/ f.complete) \in BOOLEAN
      <4>1. Head(wire[a]) \in Frame
        BY <1>0, <3>2, Taken
      <4>. QED BY <4>1, FrameFields
    <3>3. CASE ResponderReassemblesRequest \/ ResponderHandlesPayload
      <4>1. stream[a].registered
        BY <3>3 DEF ResponderReassemblesRequest, ResponderHandlesPayload, Handles
      <4>2. \E b \in BOOLEAN : stream' = Finished(a, b, TRUE)
        BY <2>1, <3>2, <3>3, <4>1 DEF ResponderReassemblesRequest, ResponderHandlesPayload
      <4>. QED BY <3>1, <4>2
    <3>4. CASE ResponderHandlesFragment
      <4>1. stream[a].registered /\ stream' = Extended(a, Head(wire[a]).data)
        BY <3>4 DEF ResponderHandlesFragment, Handles
      <4>. QED BY <1>0, <2>1, <3>2, <4>1 DEF FragmentEffects
    <3>5. CASE ResponderHandlesEnd \/ DropFrame(a)
      <4>1. stream' = stream \/ stream' = Ended(a, FALSE)
        BY <3>5 DEF ResponderHandlesEnd, DropFrame
      <4>. QED BY <1>0, <4>1 DEF Effects
    <3>. QED BY <1>10, <3>3, <3>4, <3>5
  <2>4. Posts(a, <<>>) /\ Same
    BY <1>1, <1>6, <2>1, <2>2, <2>3 DEF Same
  <2>. QED BY <1>3, <2>4
<1>11. CASE ResponderHandlesRequestN \/ ResponderHandlesExtension
  <2>1. /\ TakeAndSend(a, <<>>) /\ stream' = stream /\ served' = served
        /\ app' = app /\ wire[a] # <<>>
    BY <1>11, NothingRefused
  <2>2. Posts(a, <<>>) /\ Same
    BY <1>1, <1>6, <2>1 DEF Same
  <2>. QED BY <1>3, <2>2
<1>12. CASE HandlerReturns
  <2>1. wire' = wire /\ stream' = stream /\ app' = app /\ served = "running"
    BY <1>12 DEF HandlerReturns
  <2>2. Same
    BY <1>1, <2>1 DEF Same
  <2>. QED BY <1>3, <2>1, <2>2
<1>13. CASE HandlerThrows
  <2>1. app' = app /\ served = "running"
    BY <1>13 DEF HandlerThrows
  <2>2. CASE wire' = wire /\ stream' = stream
    <3>1. Same
      BY <1>1, <2>1, <2>2 DEF Same
    <3>. QED BY <1>3, <2>2, <3>1
  <2>3. CASE /\ stream' = BothEnd(a)
             /\ Send(a, <<IF OutDone(a) THEN CancelFrame ELSE ErrorFrame>>)
    <3>1. Ceased(a)' /\ Fed(e)' = Fed(e) /\ Fin(e)' = Fin(e)
      BY <1>0, <1>1, <2>1, <2>3 DEF Effects
    <3>2. CASE OutDone(a)
      <4>1. Posts(a, <<CancelFrame>>) /\ Same
        BY <1>5, <2>3, <3>1, <3>2 DEF Same
      <4>. QED BY <1>3, <1>4, <4>1
    <3>3. CASE ~OutDone(a)
      <4>1. Posts(a, <<ErrorFrame>>) /\ ~Ceased(a)
        BY <1>1, <1>5, <2>1, <2>3, <3>3
      <4>. QED BY <1>3, <3>1, <4>1
    <3>. QED BY <3>2, <3>3
  <2>. QED BY <1>13, <2>2, <2>3 DEF HandlerThrows
<1>14. ASSUME NEW n \in Demands, ResponderRequest(n) PROVE Feeds(e)
  <2>1. /\ app' = Asked(a, n) /\ stream' = stream /\ served' = served /\ n \in Nat
        /\ Send(a, <<RequestNFrame(n)>>)
    BY <1>14, BoundsAssumption DEF ResponderRequest
  <2>2. app'[a].emitted = app[a].emitted /\ app'[a].ended = app[a].ended
    BY <1>0, <2>1 DEF AppEffects
  <2>3. Posts(a, <<RequestNFrame(n)>>) /\ Same
    BY <1>1, <1>5, <2>1, <2>2 DEF Same
  <2>. QED BY <1>3, <1>4, <2>3
<1>15. CASE ResponderCancel \/ ResponderOnExtension
  <2>1. /\ \/ app' = [app EXCEPT ![a].quit = TRUE]
           \/ app' = [app EXCEPT ![a].extensions = @ + 1]
        /\ stream' = stream \/ stream' = InEnds(a)
        /\ served' = served
        /\ Send(a, <<CancelFrame>>) \/ Send(a, <<ExtFrame>>)
    BY <1>15 DEF ResponderCancel, ResponderOnExtension
  <2>2. app'[a].emitted = app[a].emitted /\ app'[a].ended = app[a].ended
    BY <1>0, <2>1 DEF AppEffects
  <2>3. stream'[a].outDone = stream[a].outDone
    BY <1>0, <2>1 DEF Effects
  <2>4. Same /\ (Posts(a, <<CancelFrame>>) \/ Posts(a, <<ExtFrame>>))
    BY <1>1, <1>5, <2>1, <2>2, <2>3 DEF Same
  <2>. QED BY <1>3, <1>4, <2>4
<1>16. ASSUME NEW c \in BOOLEAN, NEW cut \in BOOLEAN, ResponderOnNext(c, cut) PROVE Feeds(e)
  <2>1. /\ HasStream /\ served' = served /\ ~OutDone(a)
        /\ Send(a, PayloadFrames(Fed(e) + 1, c, cut))
        /\ stream' = OutEnds(a, c) /\ app' = Emitted(a, c)
    BY <1>1, <1>16 DEF ResponderOnNext
  <2>2. /\ stream'[a].outDone = (stream[a].outDone \/ c)
        /\ app'[a].emitted = app[a].emitted + 1
        /\ app'[a].ended = IF c THEN "complete" ELSE app[a].ended
    BY <1>0, <2>1 DEF Effects, AppEffects
  <2>3. Posts(a, PayloadFrames(Fed(e) + 1, c, cut))
    BY <1>5, <2>1
  <2>4. ~Ceased(a) /\ (c => Ceased(a)')
    BY <1>1, <2>1, <2>2 DEF HasStream
  <2>5. Fed(e)' = Fed(e) + 1 /\ Fin(e) = "no" /\ Fin(e)' = IF c THEN "complete" ELSE "no"
    BY <1>1, <1>2, <2>1, <2>2
  <2>. QED BY <1>0, <2>3, <2>4, <2>5, WaysToFeed
<1>17. CASE ResponderOnComplete
  <2>1. /\ HasStream /\ ~OutDone(a) /\ stream' = OutEnds(a, TRUE)
        /\ Send(a, <<CompleteFrame>>) /\ app' = [app EXCEPT ![a].ended = "complete"]
    BY <1>17 DEF ResponderOnComplete
  <2>2. /\ stream'[a].outDone
        /\ app'[a].emitted = app[a].emitted /\ app'[a].ended = "complete"
    BY <1>0, <2>1 DEF Effects, AppEffects
  <2>3. /\ Posts(a, <<CompleteFrame>>) /\ ~Ceased(a) /\ Ceased(a)'
        /\ Fed(e)' = Fed(e) /\ Fin(e) = "no" /\ Fin(e)' = "complete"
    BY <1>1, <1>2, <1>5, <2>1, <2>2 DEF HasStream
  <2>. QED BY <1>0, <2>3, WaysToFeed
<1>18. CASE ResponderOnError
  <2>1. /\ HasStream /\ ~OutDone(a) /\ stream' = BothEnd(a)
        /\ Send(a, <<ErrorFrame>>) /\ app' = [app EXCEPT ![a].ended = "error"]
    BY <1>18 DEF ResponderOnError
  <2>2. /\ stream'[a].outDone
        /\ app'[a].emitted = app[a].emitted /\ app'[a].ended = "error"
    BY <1>0, <2>1 DEF Effects, AppEffects
  <2>3. /\ Posts(a, <<ErrorFrame>>) /\ ~Ceased(a) /\ Ceased(a)'
        /\ Fed(e)' = Fed(e) /\ Fin(e) = "no" /\ Fin(e)' = "error"
    BY <1>1, <1>2, <1>5, <2>1, <2>2 DEF HasStream
  <2>. QED BY <1>3, <2>3
<1>19. CASE ResponderCalls
  BY <1>14, <1>15, <1>16, <1>17, <1>18, <1>19 DEF ResponderCalls
<1>20. CASE ResponderHandles
  BY <1>8, <1>9, <1>10, <1>11, <1>20 DEF ResponderHandles
<1>21. CASE HandlerEnds
  BY <1>12, <1>13, <1>21 DEF HandlerEnds
<1>. QED BY <1>19, <1>20, <1>21 DEF ResponderActs

-----------------------------------------------------------------------------
(* What the ends take                                                      *)

\* What each way of telling the receiver of e adds to its signals.
SignalEffects(e) ==
    /\ \A c \in BOOLEAN :
         /\ Told(e, c, <<>>)[e].signals = rcv[e].signals
         /\ \A x \in Signal : Told(e, c, <<x>>)[e].signals = Append(rcv[e].signals, x)
         /\ Told(e, c, If(~InDone(e), OnError))[e].signals =
              IF InDone(e) THEN rcv[e].signals ELSE Append(rcv[e].signals, OnError)
    /\ Stopped(e)[e].signals =
         IF InDone(e) THEN rcv[e].signals ELSE Append(rcv[e].signals, OnError)
    /\ \A n \in Nat : Granted(e, n)[e].signals = rcv[e].signals

LEMMA ReceiverSignals ==
    ASSUME TypeOK, NEW e \in End
    PROVE  SignalEffects(e)
<1>. DEFINE ss == rcv[e].signals
<1>1. RcvEffects(e) /\ ss \in Seq(Signal) /\ OnError \in Signal
  BY ReceiverEffects, SignalsTyped DEF RcvEffects
<1>2. ASSUME NEW c \in BOOLEAN, NEW x \in Signal
      PROVE  Told(e, c, <<x>>)[e].signals = Append(ss, x)
  <2>1. <<x>> \in Seq(Signal)
    BY ShortSeqs
  <2>2. Told(e, c, <<x>>)[e].signals = ss \o <<x>>
    BY <1>1, <2>1 DEF RcvEffects
  <2>. QED BY <1>1, <2>2, SignalAdded
<1>3. ASSUME NEW c \in BOOLEAN PROVE Told(e, c, <<>>)[e].signals = ss
  <2>1. Told(e, c, <<>>)[e].signals = ss \o <<>>
    BY <1>1, SignalsTyped DEF RcvEffects
  <2>. QED BY <1>1, <2>1, ConcatEmptySeq
<1>4. ASSUME NEW c \in BOOLEAN
      PROVE  Told(e, c, If(~InDone(e), OnError))[e].signals =
               IF InDone(e) THEN ss ELSE Append(ss, OnError)
  <2>1. CASE InDone(e)
    <3>1. If(~InDone(e), OnError) = <<>>
      BY <2>1 DEF If
    <3>. QED BY <1>3, <2>1, <3>1
  <2>2. CASE ~InDone(e)
    <3>1. If(~InDone(e), OnError) = <<OnError>>
      BY <2>2 DEF If
    <3>2. Told(e, c, <<OnError>>)[e].signals = Append(ss, OnError)
      BY <1>1, <1>2
    <3>. QED BY <2>2, <3>1, <3>2
  <2>. QED BY <2>1, <2>2
<1>5. Stopped(e)[e].signals = IF InDone(e) THEN ss ELSE Append(ss, OnError)
  <2>1. (~OutDone(e)) \in BOOLEAN
    OBVIOUS
  <2>. QED BY <1>4, <2>1 DEF Stopped
<1>6. \A n \in Nat : Granted(e, n)[e].signals = ss
  BY <1>1 DEF RcvEffects
<1>. QED BY <1>2, <1>3, <1>4, <1>5, <1>6, Zenon DEF SignalEffects

\* What one step may do to the receiver of e: nothing, end its waiting, or
\* give it the frame at the head of its queue.
Meets(e) == Stays(e) \/ Quits(e) \/ Turns(e)

LEMMA RequesterMeets ==
    ASSUME TypeOK, QuietInv, RegistryInv, RequestInv, CutInv, EndInv, RequesterActs
    PROVE  Meets(Requester)
<1>. DEFINE e == Requester
            q == wire[e]
            f == Head(wire[e])
            ss == rcv[e].signals
            Same == /\ rcv'[e].signals = ss
                    /\ stream'[e].fragments = stream[e].fragments
                    /\ stream'[e].hasFragments = stream[e].hasFragments
<1>0. /\ e \in End /\ Effects(e) /\ FragmentEffects(e) /\ SignalEffects(e)
      /\ stream \in [End -> StreamState] /\ wire \in [End -> Seq(Frame)]
      /\ OnError \in Signal /\ (~OutDone(e)) \in BOOLEAN
      /\ InDone(e) = stream[e].inDone
  BY StreamEffects, StreamFragments, ReceiverSignals, SignalsTyped DEF TypeOK, InDone
<1>1. /\ Waits(e) <=> stream[e].registered \/ phase = "pending"
      /\ Waits(e)' <=> stream'[e].registered \/ phase' = "pending"
      /\ stream[e].registered => phase = "ready"
      /\ ~InDone(e) => ~SaidLast(e)
  BY DEF Waits, RegistryInv, Fresh, EndInv
<1>2. /\ \A fs : Send(e, fs) => wire'[e] = q
      /\ \A fs : TakeAndSend(e, fs) => wire'[e] = Tail(q)
  BY <1>0 DEF Send, TakeAndSend, Peer
<1>3. ASSUME Same, wire'[e] = q, Waits(e)' => Waits(e) PROVE Meets(e)
  BY <1>3 DEF Stays, Meets
<1>4. ASSUME ~Waits(e)', \/ rcv'[e].signals = ss
                         \/ rcv'[e].signals = Append(ss, OnError) /\ ~InDone(e)
      PROVE  Meets(e)
  BY <1>1, <1>4 DEF Quits, Meets
<1>5. ASSUME q # <<>> PROVE f \in Frame /\ q[1] = f /\ open[e]
  BY <1>0, <1>5, Taken DEF QuietInv
<1>6. ASSUME Handles(e, f.type)
      PROVE  q # <<>> /\ open[e] /\ Waits(e) /\ phase = "ready"
  BY <1>1, <1>5, <1>6 DEF Handles, Arrives
<1>7. ASSUME Handles(e, f.type), wire'[e] = Tail(q),
             Accepts(f, ss, stream[e].fragments, stream[e].hasFragments, Fed(e),
                     rcv'[e].signals, stream'[e].fragments, stream'[e].hasFragments)
      PROVE  Meets(e)
  BY <1>5, <1>6, <1>7 DEF Turns, Meets
<1>8. ASSUME Handles(e, f.type), f.type \in {"CANCEL", "REQUEST_N", "EXT"},
             Same, wire'[e] = Tail(q)
      PROVE  Meets(e)
  BY <1>7, <1>8 DEF Accepts
<1>9. CASE Answer
  <2>1. ASSUME NEW cut \in BOOLEAN, HandleReady(cut) PROVE Meets(e)
    <3>1. /\ phase = "pending" /\ rcv' = rcv /\ wire'[e] = q
          /\ stream' = [stream EXCEPT ![e] = [@ EXCEPT !.registered = TRUE,
                                                       !.outDone = held.isComplete]]
      BY <1>2, <2>1 DEF HandleReady
    <3>2. Same
      BY <1>0, <3>1 DEF StreamState
    <3>. QED BY <1>1, <1>3, <3>1, <3>2
  <2>2. CASE HandleReadyDeclined
    BY <1>1, <1>4, <2>2 DEF HandleReadyDeclined
  <2>3. CASE HandleReject
    <3>1. phase = "pending" /\ phase' = "rejected"
      BY <2>3 DEF HandleReject
    <3>2. CASE InDone(e)
      BY <1>1, <1>4, <2>3, <3>1, <3>2 DEF HandleReject
    <3>3. CASE ~InDone(e)
      <4>1. stream' = BothEnd(e) /\ rcv' = Told(e, FALSE, <<OnError>>)
        BY <2>3, <3>3 DEF HandleReject
      <4>2. ~stream'[e].registered /\ rcv'[e].signals = Append(ss, OnError)
        BY <1>0, <4>1 DEF Effects, SignalEffects
      <4>. QED BY <1>1, <1>4, <3>1, <3>3, <4>2
    <3>. QED BY <3>2, <3>3
  <2>. QED BY <1>9, <2>1, <2>2, <2>3 DEF Answer
<1>10. CASE RequesterCalls
  <2>1. CASE (\E n \in Demands : RequesterRequest(n)) \/ RequesterOnExtension
    <3>1. rcv' = rcv /\ stream' = stream /\ phase' = phase /\ wire'[e] = q
      BY <1>2, <2>1 DEF RequesterRequest, RequesterOnExtension
    <3>. QED BY <1>1, <1>3, <3>1
  <2>2. CASE RequesterCancel
    <3>1. /\ rcv' = Told(e, ~OutDone(e), <<>>)
          /\ \/ phase' = "dropped" /\ stream' = BothEnd(e)
             \/ phase' = "ready" /\ stream' = Ended(e, FALSE)
      BY <2>2 DEF RequesterCancel
    <3>2. rcv'[e].signals = ss /\ ~stream'[e].registered
      BY <1>0, <3>1 DEF Effects, SignalEffects
    <3>. QED BY <1>1, <1>4, <3>1, <3>2
  <2>3. ASSUME NEW c \in BOOLEAN, NEW cut \in BOOLEAN, RequesterOnNext(c, cut) PROVE Meets(e)
    <3>1. rcv' = rcv /\ stream' = OutEnds(e, c) /\ phase' = phase /\ wire'[e] = q
      BY <1>2, <2>3 DEF RequesterOnNext
    <3>2. stream'[e].registered => stream[e].registered
      BY <1>0, <3>1 DEF Effects
    <3>3. Same
      BY <1>0, <3>1 DEF FragmentEffects
    <3>. QED BY <1>1, <1>3, <3>1, <3>2, <3>3
  <2>4. CASE RequesterOnComplete
    <3>1. /\ rcv' = rcv /\ phase' = phase /\ wire'[e] = q
          /\ stream' = stream \/ stream' = OutEnds(e, TRUE)
      BY <1>2, <2>4 DEF RequesterOnComplete
    <3>2. stream'[e].registered => stream[e].registered
      BY <1>0, <3>1 DEF Effects
    <3>3. Same
      BY <1>0, <3>1 DEF FragmentEffects
    <3>. QED BY <1>1, <1>3, <3>1, <3>2, <3>3
  <2>5. CASE RequesterOnError
    <3>1. /\ rcv' = Told(e, FALSE, If(~InDone(e), OnError))
          /\ phase' = "ready" /\ stream' = BothEnd(e)
      BY <2>5 DEF RequesterOnError
    <3>2. ~stream'[e].registered
      BY <1>0, <3>1 DEF Effects
    <3>3. rcv'[e].signals = IF InDone(e) THEN ss ELSE Append(ss, OnError)
      BY <1>0, <3>1 DEF SignalEffects
    <3>. QED BY <1>1, <1>4, <3>1, <3>2, <3>3
  <2>6. CASE RequesterOnErrorThrows \/ RequesterOnNextThrows
    <3>1. /\ rcv' = rcv /\ phase' = phase /\ phase = "pending" /\ wire'[e] = q
          /\ stream' = BothEnd(e) \/ stream' = [stream EXCEPT ![e].outDone = TRUE]
      BY <2>6 DEF RequesterOnErrorThrows, RequesterOnNextThrows
    <3>2. Same
      <4>1. /\ [stream EXCEPT ![e].outDone = TRUE][e].fragments = stream[e].fragments
            /\ [stream EXCEPT ![e].outDone = TRUE][e].hasFragments = stream[e].hasFragments
        BY <1>0 DEF StreamState
      <4>. QED BY <1>0, <3>1, <4>1 DEF FragmentEffects
    <3>. QED BY <1>1, <1>3, <3>1, <3>2
  <2>. QED BY <1>10, <2>1, <2>2, <2>3, <2>4, <2>5, <2>6 DEF RequesterCalls
<1>11. CASE RequesterHandlesPayload
  <2>1. /\ Handles(e, "PAYLOAD") /\ f.type = "PAYLOAD" /\ wire'[e] = Tail(q)
        /\ f.complete \/ ~f.follows
        /\ stream' = Finished(e, f.complete, ~f.complete \/ f.next)
        /\ rcv' = Told(e, FALSE, <<PayloadSignal(e, f)>>)
    BY <1>2, <1>11 DEF RequesterHandlesPayload, Handles, Arrives
  <2>2. f \in Frame /\ q[1] = f /\ q # <<>> /\ q \in Seq(Frame)
    BY <1>0, <1>5, <2>1 DEF Handles, Arrives
  <2>3. ~f.follows
    <3>1. 1 \in 1 .. Len(q)
      BY <2>2
    <3>. QED BY <2>1, <2>2, <3>1 DEF CutInv, Cut
  <2>4. f.complete \in BOOLEAN /\ (~f.complete \/ f.next) \in BOOLEAN
    BY <2>2, FrameFields
  <2>5. PayloadSignal(e, f) \in Signal
    BY <1>0, <2>2, PayloadSignalTyped
  <2>6. rcv'[e].signals = Append(ss, PayloadSignal(e, f))
    BY <1>0, <2>1, <2>5 DEF SignalEffects
  <2>7. PayloadSignal(e, f) = Whole(stream[e].fragments, stream[e].hasFragments, f)
    BY DEF PayloadSignal, Reassembled, Whole
  <2>8. stream'[e].fragments =
            IF ~f.complete \/ f.next THEN <<>> ELSE stream[e].fragments
    BY <1>0, <2>1, <2>4 DEF FragmentEffects
  <2>. QED BY <1>7, <2>1, <2>3, <2>6, <2>7, <2>8 DEF Accepts
<1>12. CASE RequesterHandlesFragment
  <2>1. /\ Handles(e, "PAYLOAD") /\ f.type = "PAYLOAD" /\ wire'[e] = Tail(q)
        /\ f.follows /\ rcv' = rcv /\ stream' = Extended(e, f.data)
    BY <1>2, <1>12 DEF RequesterHandlesFragment, Handles, Arrives
  <2>2. f \in Frame
    BY <1>5, <2>1 DEF Handles, Arrives
  <2>3. f.data \in Seq(Nat)
    BY <2>2, FrameFields
  <2>4. stream'[e].hasFragments /\ stream'[e].fragments = stream[e].fragments \o f.data
    BY <1>0, <2>1, <2>3 DEF FragmentEffects
  <2>. QED BY <1>7, <2>1, <2>4 DEF Accepts
<1>13. CASE RequesterHandlesCancel
  <2>1. /\ Handles(e, "CANCEL") /\ f.type = "CANCEL" /\ wire'[e] = Tail(q)
        /\ \/ UNCHANGED <<stream, rcv>>
           \/ stream' = OutEnds(e, TRUE) /\ rcv' = Told(e, TRUE, <<>>)
    BY <1>2, <1>13 DEF RequesterHandlesCancel, Handles, Arrives
  <2>2. Same
    BY <1>0, <2>1 DEF FragmentEffects, SignalEffects
  <2>. QED BY <1>8, <2>1, <2>2
<1>14. CASE RequesterHandlesError
  <2>1. /\ Handles(e, "ERROR") /\ f.type = "ERROR" /\ wire'[e] = Tail(q)
        /\ stream' = Ended(e, FALSE) /\ rcv' = Told(e, ~OutDone(e), <<OnError>>)
        /\ phase' = phase
    BY <1>2, <1>14 DEF RequesterHandlesError, Handles, Arrives
  <2>2. ~stream'[e].registered /\ rcv'[e].signals = Append(ss, OnError)
    BY <1>0, <2>1 DEF Effects, SignalEffects
  <2>3. q # <<>> /\ open[e] /\ Waits(e) /\ phase = "ready" /\ q[1] = f
    BY <1>5, <1>6, <2>1
  <2>. QED BY <1>1, <2>1, <2>2, <2>3 DEF Turns, Meets
<1>15. CASE RequesterHandlesRequestN \/ RequesterHandlesExtension
  <2>1. /\ Handles(e, f.type) /\ f.type \in {"REQUEST_N", "EXT"} /\ wire'[e] = Tail(q)
        /\ phase' = phase
        /\ \/ UNCHANGED <<stream, rcv>>
           \/ stream' = Ended(e, FALSE) /\ rcv'[e].signals = Stopped(e)[e].signals
           \/ stream' = stream /\ rcv' = Granted(e, f.requestN)
    BY <1>2, <1>15, RequesterRefuses DEF RequesterHandlesRequestN,
       RequesterHandlesExtension, Handles, Arrives
  <2>2. f \in Frame /\ phase = "ready"
    BY <1>5, <1>6, <2>1
  <2>3. f.requestN \in Nat
    BY <2>2, FrameFields
  <2>4. CASE stream' = Ended(e, FALSE) /\ rcv'[e].signals = Stopped(e)[e].signals
    <3>1. ~stream'[e].registered
      BY <1>0, <2>4 DEF Effects
    <3>2. rcv'[e].signals = IF InDone(e) THEN ss ELSE Append(ss, OnError)
      BY <1>0, <2>4 DEF SignalEffects
    <3>. QED BY <1>1, <1>4, <2>1, <2>2, <3>1, <3>2
  <2>5. CASE stream' = stream /\ (rcv' = rcv \/ rcv' = Granted(e, f.requestN))
    <3>1. Same
      BY <1>0, <2>3, <2>5 DEF SignalEffects
    <3>. QED BY <1>8, <2>1, <3>1
  <2>. QED BY <2>1, <2>4, <2>5
<1>16. CASE DropFrame(e)
  <2>1. q # <<>> /\ ~stream[e].registered /\ UNCHANGED <<stream, rcv, phase>>
    BY <1>16 DEF DropFrame
  <2>2. phase = "ready"
    BY <2>1 DEF RequestInv
  <2>. QED BY <1>1, <1>4, <2>1, <2>2
<1>17. CASE RequesterHandles
  BY <1>11, <1>12, <1>13, <1>14, <1>15, <1>16, <1>17 DEF RequesterHandles
<1>. QED BY <1>9, <1>10, <1>17 DEF RequesterActs

LEMMA ResponderMeets ==
    ASSUME TypeOK, QuietInv, RegistryInv, RequestInv, PartInv, EndInv, ~first.isComplete,
           Coming(Responder), ResponderActs
    PROVE  Meets(Responder)
<1>. DEFINE e == Responder
            q == wire[e]
            f == Head(wire[e])
            ss == rcv[e].signals
            fr == stream[e].fragments
            has == stream[e].hasFragments
            Same == /\ rcv'[e].signals = ss
                    /\ stream'[e].fragments = fr /\ stream'[e].hasFragments = has
<1>0. /\ e \in End /\ Effects(e) /\ FragmentEffects(e) /\ SignalEffects(e)
      /\ stream \in [End -> StreamState] /\ wire \in [End -> Seq(Frame)]
      /\ rcv \in [End -> RcvState] /\ first \in First
      /\ OnError \in Signal /\ (~OutDone(e)) \in BOOLEAN
      /\ InDone(e) = stream[e].inDone
  BY StreamEffects, StreamFragments, ReceiverSignals, SignalsTyped DEF TypeOK, InDone
<1>1. /\ Waits(e) <=> stream[e].registered \/ served = "none"
      /\ Waits(e)' <=> stream'[e].registered \/ served' = "none"
      /\ served \in {"none", "refused"} => ~stream[e].registered
      /\ ~InDone(e) => ~SaidLast(e)
  BY DEF Waits, RegistryInv, Fresh, EndInv
<1>2. /\ \A fs : Send(e, fs) => wire'[e] = q
      /\ \A fs : TakeAndSend(e, fs) => wire'[e] = Tail(q)
  BY <1>0 DEF Send, TakeAndSend, Peer
<1>3. ASSUME Same, wire'[e] = q, Waits(e)' => Waits(e) PROVE Meets(e)
  BY <1>3 DEF Stays, Meets
<1>4. ASSUME open[e] => ~Waits(e)',
             \/ rcv'[e].signals = ss
             \/ rcv'[e].signals = Append(ss, OnError) /\ ~SaidLast(e)
      PROVE  Meets(e)
  BY <1>4 DEF Quits, Meets
<1>5. ASSUME q # <<>> PROVE f \in Frame /\ q[1] = f /\ open[e]
  BY <1>0, <1>5, Taken DEF QuietInv
<1>6. ASSUME q # <<>>, Waits(e), wire'[e] = Tail(q),
             Accepts(f, ss, fr, has, Fed(e), rcv'[e].signals, stream'[e].fragments,
                     stream'[e].hasFragments)
      PROVE  Meets(e)
  BY <1>5, <1>6 DEF Turns, Meets
<1>7. ASSUME q # <<>>, Waits(e)
      PROVE  /\ Holds(ss, fr, has) /\ Fed(e) >= 1
             /\ served \in {"none", "reassembling"} => ss = <<>>
             /\ served = "none" => ~has
  <2>1. Holds(ss, fr, has)
    BY <1>5, <1>7 DEF Coming
  <2>2. phase = "ready"
    BY <1>7 DEF RequestInv
  <2>. QED BY <2>1, <2>2 DEF EndInv, PartInv, Fed, Peer
<1>8. ASSUME q # <<>>, Waits(e), wire'[e] = Tail(q),
             f.type \in {"REQUEST", "PAYLOAD"}, ~f.follows, ss = <<>>,
             rcv'[e].signals = <<OnNext(IF has THEN fr \o f.data ELSE f.data, f.complete)>>,
             stream'[e].fragments = <<>>
      PROVE  Meets(e)
  BY <1>6, <1>7, <1>8 DEF Accepts
<1>9. CASE ResponderRejects
  BY <1>1, <1>4, <1>9 DEF ResponderRejects
<1>10. CASE ResponderRefusesDemand
  <2>1. rcv' = rcv /\ served' = "refused" /\ stream' = Ended(e, FALSE)
    BY <1>10 DEF ResponderRefusesDemand
  <2>2. ~stream'[e].registered
    BY <1>0, <2>1 DEF Effects
  <2>. QED BY <1>1, <1>4, <2>1, <2>2
<1>11. CASE ResponderReceivesFirstFragment
  <2>1. /\ q # <<>> /\ served = "none" /\ wire'[e] = Tail(q) /\ rcv' = rcv
        /\ f.type = "REQUEST" /\ f.follows
        /\ stream' = [stream EXCEPT ![e] = [@ EXCEPT !.registered = TRUE,
                                !.hasFragments = TRUE, !.fragments = f.data]]
    BY <1>2, <1>11 DEF ResponderReceivesFirstFragment, Arrives
  <2>2. stream'[e].hasFragments /\ stream'[e].fragments = f.data
    BY <1>0, <2>1 DEF StreamState
  <2>. QED BY <1>1, <1>6, <2>1, <2>2 DEF Accepts
<1>12. CASE ResponderReceivesRequest
  <2>1. /\ q # <<>> /\ served = "none" /\ wire'[e] = Tail(q)
        /\ f.type = "REQUEST" /\ ~f.follows
        /\ rcv' = [rcv EXCEPT ![e] = [@ EXCEPT !.signals = <<OnNext(f.data, f.complete)>>,
                                               !.granted = f.requestN]]
        /\ stream' = [stream EXCEPT ![e] = [@ EXCEPT !.registered = TRUE,
                                                     !.inDone = f.complete]]
    BY <1>2, <1>12 DEF ResponderReceivesRequest, CallHandler, Arrives
  <2>2. stream'[e].fragments = fr
    BY <1>0, <2>1 DEF StreamState
  <2>3. rcv'[e].signals = <<OnNext(f.data, f.complete)>>
    BY <1>0, <2>1 DEF RcvState
  <2>4. Waits(e) /\ ss = <<>> /\ ~has /\ fr = <<>>
    BY <1>1, <1>7, <2>1 DEF Holds
  <2>. QED BY <1>8, <2>1, <2>2, <2>3, <2>4
<1>13. CASE ResponderReassemblesRequest
  <2>. DEFINE c == first.isComplete \/ f.complete
  <2>1. /\ q # <<>> /\ stream[e].registered /\ served \notin {"running", "active"}
        /\ wire'[e] = Tail(q) /\ f.type = "PAYLOAD" /\ ~f.follows
        /\ rcv' = [rcv EXCEPT ![e] =
             [@ EXCEPT !.signals = <<OnNext(IF has THEN fr \o f.data ELSE f.data, c)>>,
                       !.granted = first.initialRequestN]]
        /\ stream' = Finished(e, c, TRUE)
    BY <1>2, <1>13 DEF ResponderReassemblesRequest, CallHandler, Handles, Arrives,
       HasReceiver, Reassembled
  <2>2. f \in Frame /\ open[e]
    BY <1>5, <2>1
  <2>3. f.complete \in BOOLEAN
    BY <2>2, FrameFields
  <2>4. c = f.complete
    BY <2>3
  <2>5. served = "reassembling"
    <3>1. served # "threw"
      BY <2>1, <2>2 DEF RegistryInv, RegistryExact, RequestInv
    <3>. QED BY <1>1, <2>1, <3>1 DEF TypeOK
  <2>. HIDE DEF c
  <2>6. stream'[e].fragments = <<>>
    BY <1>0, <2>1, <2>3, <2>4 DEF FragmentEffects
  <2>7. rcv'[e].signals = <<OnNext(IF has THEN fr \o f.data ELSE f.data, f.complete)>>
    BY <1>0, <2>1, <2>4 DEF RcvState
  <2>8. Waits(e) /\ ss = <<>>
    BY <1>1, <1>7, <2>1, <2>5
  <2>. QED BY <1>8, <2>1, <2>6, <2>7, <2>8
<1>14. CASE ResponderHandlesFragment
  <2>1. /\ q # <<>> /\ stream[e].registered /\ f.type = "PAYLOAD" /\ wire'[e] = Tail(q)
        /\ f.follows /\ rcv' = rcv /\ stream' = Extended(e, f.data)
    BY <1>2, <1>14 DEF ResponderHandlesFragment, Handles, Arrives
  <2>2. f \in Frame
    BY <1>5, <2>1
  <2>3. f.data \in Seq(Nat)
    BY <2>2, FrameFields
  <2>4. stream'[e].hasFragments /\ stream'[e].fragments = fr \o f.data
    BY <1>0, <2>1, <2>3 DEF FragmentEffects
  <2>. QED BY <1>1, <1>6, <2>1, <2>4 DEF Accepts
<1>15. CASE ResponderHandlesPayload
  <2>1. /\ q # <<>> /\ stream[e].registered /\ f.type = "PAYLOAD" /\ wire'[e] = Tail(q)
        /\ ~f.follows /\ stream' = Finished(e, f.complete, TRUE)
        /\ rcv' = Told(e, FALSE, <<PayloadSignal(e, f)>>)
    BY <1>2, <1>15 DEF ResponderHandlesPayload, Handles, Arrives
  <2>2. f \in Frame
    BY <1>5, <2>1
  <2>3. f.complete \in BOOLEAN
    BY <2>2, FrameFields
  <2>4. PayloadSignal(e, f) \in Signal
    BY <1>0, <2>2, PayloadSignalTyped
  <2>5. rcv'[e].signals = Append(ss, PayloadSignal(e, f))
    BY <1>0, <2>1, <2>4 DEF SignalEffects
  <2>6. PayloadSignal(e, f) = Whole(fr, has, f)
    BY DEF PayloadSignal, Reassembled, Whole
  <2>7. stream'[e].fragments = <<>>
    BY <1>0, <2>1, <2>3 DEF FragmentEffects
  <2>. QED BY <1>1, <1>6, <2>1, <2>5, <2>6, <2>7 DEF Accepts
<1>16. CASE ResponderHandlesEnd
  <2>1. /\ stream[e].registered /\ served' = served /\ stream' = Ended(e, FALSE)
        /\ rcv' = rcv \/ rcv' = Stopped(e)
    BY <1>16 DEF ResponderHandlesEnd, Handles
  <2>2. ~stream'[e].registered
    BY <1>0, <2>1 DEF Effects
  <2>3. rcv'[e].signals = ss \/ (rcv'[e].signals = Append(ss, OnError) /\ ~InDone(e))
    BY <1>0, <2>1 DEF SignalEffects
  <2>. QED BY <1>1, <1>4, <2>1, <2>2, <2>3
<1>17. CASE ResponderHandlesRequestN \/ ResponderHandlesExtension
  <2>1. /\ TakeAndSend(e, <<>>) /\ stream' = stream /\ q # <<>>
        /\ rcv' = rcv \/ \E n \in Nat : rcv' = Granted(e, n)
    BY <1>17, NothingRefused
  <2>2. stream[e].registered /\ f.type \in {"REQUEST_N", "EXT"}
    BY <1>17 DEF ResponderHandlesRequestN, ResponderHandlesExtension, Handles, Arrives
  <2>3. Same /\ wire'[e] = Tail(q)
    BY <1>0, <1>2, <2>1 DEF SignalEffects
  <2>. QED BY <1>1, <1>6, <2>1, <2>2, <2>3 DEF Accepts
<1>18. CASE DropFrame(e)
  <2>1. /\ q # <<>> /\ f.type # "REQUEST" /\ ~stream[e].registered
        /\ UNCHANGED <<stream, rcv, served>>
    BY <1>18 DEF DropFrame
  <2>2. served # "none"
    BY <1>5, <2>1 DEF RequestInv
  <2>. QED BY <1>1, <1>4, <2>1, <2>2
<1>19. CASE HandlerReturns
  <2>1. /\ served = "running" /\ served' = "active" /\ stream' = stream /\ wire' = wire
        /\ rcv' = Told(e, FALSE, If(OutDone(e) /\ first.deferred, OnError))
    BY <1>19 DEF HandlerReturns
  <2>2. CASE OutDone(e) /\ first.deferred
    <3>1. rcv' = Told(e, FALSE, <<OnError>>)
      BY <2>1, <2>2 DEF If
    <3>2. rcv'[e].signals = Append(ss, OnError)
      BY <1>0, <3>1 DEF SignalEffects
    <3>3. InDone(e) /\ ~SaidLast(e)
      BY <2>1, <2>2 DEF EndInv
    <3>4. open[e] => ~stream[e].registered
      BY <2>2, <3>3 DEF RegistryInv, RegistryExact, Over
    <3>. QED BY <1>1, <1>4, <2>1, <3>2, <3>3, <3>4
  <2>3. CASE ~(OutDone(e) /\ first.deferred)
    <3>1. rcv' = Told(e, FALSE, <<>>)
      BY <2>1, <2>3 DEF If
    <3>2. rcv'[e].signals = ss
      BY <1>0, <3>1 DEF SignalEffects
    <3>. QED BY <1>1, <1>3, <2>1, <3>2
  <2>. QED BY <2>2, <2>3
<1>20. CASE HandlerThrows
  <2>1. /\ served' = "threw" /\ rcv' = rcv /\ wire'[e] = q
        /\ stream' = stream \/ stream' = BothEnd(e)
    BY <1>2, <1>20 DEF HandlerThrows
  <2>2. Same /\ (stream'[e].registered => stream[e].registered)
    BY <1>0, <2>1 DEF Effects, FragmentEffects
  <2>. QED BY <1>1, <1>3, <2>1, <2>2
<1>21. CASE ResponderCalls
  <2>1. CASE (\E n \in Demands : ResponderRequest(n)) \/ ResponderOnExtension
    <3>1. rcv' = rcv /\ stream' = stream /\ served' = served /\ wire'[e] = q
      BY <1>2, <2>1 DEF ResponderRequest, ResponderOnExtension
    <3>. QED BY <1>1, <1>3, <3>1
  <2>2. ASSUME NEW c \in BOOLEAN, NEW cut \in BOOLEAN, ResponderOnNext(c, cut) PROVE Meets(e)
    <3>1. rcv' = rcv /\ stream' = OutEnds(e, c) /\ served' = served /\ wire'[e] = q
      BY <1>2, <2>2 DEF ResponderOnNext
    <3>2. stream'[e].registered => stream[e].registered
      BY <1>0, <3>1 DEF Effects
    <3>3. Same
      BY <1>0, <3>1 DEF FragmentEffects
    <3>. QED BY <1>1, <1>3, <3>1, <3>2, <3>3
  <2>3. CASE ResponderCancel \/ ResponderOnComplete
    <3>1. /\ rcv' = rcv /\ served' = served /\ wire'[e] = q
          /\ stream' = InEnds(e) \/ stream' = OutEnds(e, TRUE)
      BY <1>2, <2>3 DEF ResponderCancel, ResponderOnComplete
    <3>2. stream'[e].registered => stream[e].registered
      BY <1>0, <3>1 DEF Effects
    <3>3. Same
      BY <1>0, <3>1 DEF FragmentEffects
    <3>. QED BY <1>1, <1>3, <3>1, <3>2, <3>3
  <2>4. CASE ResponderOnError
    <3>1. /\ rcv' = rcv \/ rcv' = Told(e, FALSE, If(~InDone(e), OnError))
          /\ served' = served /\ served # "none" /\ stream' = BothEnd(e)
      BY <2>4 DEF ResponderOnError, HasStream
    <3>2. ~stream'[e].registered
      BY <1>0, <3>1 DEF Effects
    <3>3. rcv'[e].signals = ss \/ (rcv'[e].signals = Append(ss, OnError) /\ ~InDone(e))
      BY <1>0, <3>1 DEF SignalEffects
    <3>. QED BY <1>1, <1>4, <3>1, <3>2, <3>3
  <2>. QED BY <1>21, <2>1, <2>2, <2>3, <2>4 DEF ResponderCalls
<1>22. CASE ResponderHandles
  BY <1>9, <1>10, <1>11, <1>12, <1>13, <1>14, <1>15, <1>16, <1>17, <1>18, <1>22
     DEF ResponderHandles
<1>. QED BY <1>19, <1>20, <1>21, <1>22 DEF ResponderActs, HandlerEnds

\* An end that closes may tell its receiver of an error, and its peer gets
\* no more than what is under way.
LEMMA CloseKeeps ==
    ASSUME TypeOK, EndInv, NEW e \in End, Close(e), Coming(Peer(e))
    PROVE  \A d \in End : Coming(d)' /\ Promised(d)
<1>. DEFINE p == Peer(e)
<1>1. /\ p \in End /\ p # e /\ Peer(p) = e /\ \A d \in End : d = e \/ d = p
  BY DEF Peer
<1>2. /\ UNCHANGED <<phase, held, served, first, app>>
      /\ stream'[p] = stream[p] /\ rcv'[p] = rcv[p]
      /\ wire'[p] = wire[p] /\ open'[p] = open[p] /\ ~open'[e] /\ ~BothOpen'
  BY <1>1, CloseLeaves, CloseWires
<1>3. /\ stream' = stream \/ stream' = Ended(e, TRUE)
      /\ rcv' = rcv \/ rcv' = Stopped(e)
  BY DEF Close
<1>4. /\ stream[e].outDone => stream'[e].outDone
      /\ \/ rcv'[e].signals = rcv[e].signals
         \/ rcv'[e].signals = Append(rcv[e].signals, OnError) /\ ~InDone(e)
  <2>1. Effects(e) /\ SignalEffects(e)
    BY StreamEffects, ReceiverSignals
  <2>2. Ended(e, TRUE)[e].outDone
    BY <2>1 DEF Effects
  <2>3. Stopped(e)[e].signals =
          IF InDone(e) THEN rcv[e].signals ELSE Append(rcv[e].signals, OnError)
    BY <2>1 DEF SignalEffects
  <2>. QED BY <1>3, <2>2, <2>3
<1>5. \A d \in End : Fed(d)' = Fed(d) /\ Fin(d)' = Fin(d)
  BY <1>2 DEF Fed, Fin
<1>. HIDE DEF p
<1>6. Coming(e)'
  BY <1>2 DEF Coming
<1>7. Promised(e)
  <2>1. ASSUME rcv'[e].signals = Append(rcv[e].signals, OnError), ~InDone(e)
        PROVE  Gives(rcv[e].signals, Fed(e), Completed(Fin(e)), OnError)
    <3>1. ~SaidLast(e)
      BY <2>1 DEF EndInv
    <3>. QED BY <3>1 DEF SaidLast, LastIn, Gives
  <2>2. OnError \in Signal
    BY SignalsTyped
  <2>. QED BY <1>4, <1>5, <2>1, <2>2 DEF Promised
<1>8. Promised(p)
  BY <1>1, <1>2, <1>5 DEF Promised
<1>9. Coming(p)'
  <2>a. PICK q, s, n, all, ceased, stops :
           /\ q = wire[p] /\ s = StandsAt(rcv[p].signals, stream[p].fragments)
           /\ n = Fed(p) /\ all = Completed(Fin(p))
           /\ ceased = Ceased(e) /\ stops = Ceased(e)'
    BY Zenon
  <2>1. open[p] /\ Waits(p) => /\ Holds(rcv[p].signals, stream[p].fragments, stream[p].hasFragments)
                               /\ Reaches(q, s, n, all, ceased, BothOpen)
    BY <1>1, <2>a DEF Coming, p
  <2>2. ceased => stops
    BY <1>2, <1>4, <2>a DEF Ceased, OutDone
  <2>3. Reaches(q, s, n, all, ceased, BothOpen) => Reaches(q, s, n, all, stops, FALSE)
    BY <2>2, ReachesStill
  <2>4. Waits(p)' <=> Waits(p)
    BY <1>2 DEF Waits
  <2>5. (open[p] /\ Waits(p)
           => /\ Holds(rcv[p].signals, stream[p].fragments, stream[p].hasFragments)
              /\ Reaches(q, s, n, all, stops, FALSE)) => Coming(p)'
    <3>1. BothOpen' = FALSE
      BY <1>2 DEF BothOpen
    <3>. QED BY <1>1, <1>2, <1>5, <2>4, <2>a, <3>1 DEF Coming
  <2>. QED BY <2>1, <2>3, <2>5
<1>. QED BY <1>1, <1>6, <1>7, <1>8, <1>9

LEMMA ComingSteps ==
    ASSUME PositiveDemands, TypeOK, TypeOK', QuietInv, FlowInv, PartInv, EndInv,
           \A d \in End : Coming(d), Next
    PROVE  \A d \in End : Coming(d)' /\ Promised(d)
<1>. DEFINE a == Requester
            b == Responder
            Kept(d) == Coming(d)' /\ Promised(d)
<1>0. /\ a \in End /\ b \in End /\ Peer(a) = b /\ Peer(b) = a
      /\ Coming(a) /\ Coming(b)
      /\ RegistryInv /\ CutInv /\ RequestInv /\ ~first.isComplete
  BY DEF Peer, FlowInv
<1>1. CASE RequesterActs
  <2>1. /\ UNCHANGED <<served, first, open>> /\ stream'[b] = stream[b]
        /\ rcv'[b] = rcv[b] /\ app'[b] = app[b]
    BY <1>1, RequesterLeaves
  <2>2. /\ Fed(a)' = Fed(a) /\ Fin(a)' = Fin(a) /\ Ceased(b)' = Ceased(b)
        /\ Waits(b)' = Waits(b)
    BY <1>0, <2>1 DEF Fed, Fin, Ceased, OutDone, Waits
  <2>3. Stays(a) \/ Quits(a) \/ Turns(a)
    BY <1>0, <1>1, RequesterMeets DEF Meets
  <2>4. Kept(a)
    BY <1>0, <2>1, <2>2, <2>3, ReceiverKeeps
  <2>5. Feeds(b)
    BY <1>1, RequesterFeeds
  <2>6. Kept(b)
    BY <1>0, <2>1, <2>2, <2>5, ProducerKeeps
  <2>. QED BY <2>4, <2>6
<1>2. CASE ResponderActs
  <2>1. /\ UNCHANGED <<phase, held, open>> /\ stream'[a] = stream[a]
        /\ rcv'[a] = rcv[a] /\ app'[a] = app[a]
    BY <1>2, ResponderLeaves
  <2>2. /\ Fed(b)' = Fed(b) /\ Fin(b)' = Fin(b) /\ Ceased(a)' = Ceased(a)
        /\ Waits(a)' = Waits(a)
    BY <1>0, <2>1 DEF Fed, Fin, Ceased, OutDone, Waits
  <2>3. Stays(b) \/ Quits(b) \/ Turns(b)
    BY <1>0, <1>2, ResponderMeets DEF Meets
  <2>4. Kept(b)
    BY <1>0, <2>1, <2>2, <2>3, ReceiverKeeps
  <2>5. Feeds(a)
    BY <1>0, <1>2, ResponderFeeds
  <2>6. Kept(a)
    BY <1>0, <2>1, <2>2, <2>5, ProducerKeeps
  <2>. QED BY <2>4, <2>6
<1>3. ASSUME NEW e \in End, Close(e) PROVE \A d \in End : Kept(d)
  <2>1. Coming(Peer(e))
    BY <1>0, <1>3
  <2>. QED BY <1>3, <2>1, CloseKeeps
<1>. QED BY <1>1, <1>2, <1>3 DEF Next, RequesterActs, ResponderActs

-----------------------------------------------------------------------------
(* How the ends and the signals go together                                *)

\* A step of an end never takes back a flag, and gives its receiver a last
\* signal only if the inbound direction has ended.
Ends(e) ==
    /\ InDone(e) => stream'[e].inDone
    /\ OutDone(e) => stream'[e].outDone
    /\ \/ rcv'[e].signals = rcv[e].signals
       \/ \E x \in Signal : /\ rcv'[e].signals = Append(rcv[e].signals, x)
                            /\ x.last => stream'[e].inDone
       \/ \E x \in Signal : /\ rcv'[e].signals = <<x>>
                            /\ x.last => stream'[e].inDone

LEMMA EndsKeeps ==
    ASSUME TypeOK, NEW e \in End, Ends(e), SaidLast(e) => InDone(e)
    PROVE  SaidLast(e)' => InDone(e)'
<1>a. PICK ss, tt, i, j : /\ ss = rcv[e].signals /\ tt = rcv'[e].signals
                          /\ i = InDone(e) /\ j = stream'[e].inDone
  BY Zenon
<1>1. ss \in Seq(Signal)
  BY <1>a, ComingTyped
<1>2. (SaidLast(e) <=> LastIn(ss)) /\ (SaidLast(e)' <=> LastIn(tt)) /\ (InDone(e)' <=> j)
  BY <1>a DEF SaidLast, LastIn, InDone
<1>3. (LastIn(ss) => i) /\ (i => j)
  BY <1>2, <1>a DEF Ends
<1>4. ASSUME NEW x \in Signal, tt = Append(ss, x), x.last => j PROVE LastIn(tt) => j
  <2>1. LastIn(tt) <=> LastIn(ss) \/ x.last
    BY <1>1, <1>4, SignalAdded
  <2>. QED BY <1>3, <1>4, <2>1
<1>5. ASSUME NEW x \in Signal, tt = <<x>>, x.last => j PROVE LastIn(tt) => j
  <2>1. Len(tt) = 1 /\ tt[1] = x
    BY <1>5
  <2>2. \A k \in 1 .. Len(tt) : tt[k] = x
    BY <2>1
  <2>. QED BY <1>5, <2>2 DEF LastIn
<1>6. \/ tt = ss
      \/ \E x \in Signal : tt = Append(ss, x) /\ (x.last => j)
      \/ \E x \in Signal : tt = <<x>> /\ (x.last => j)
  BY <1>a DEF Ends
<1>. QED BY <1>2, <1>3, <1>4, <1>5, <1>6

\* What an update of its stream, its receiver and its application does to the
\* ends of e.
LEMMA WaysToEnd ==
    ASSUME TypeOK, NEW e \in End
    PROVE  /\ \A b, r \in BOOLEAN :
                \/ stream' = stream
                \/ stream' = BothEnd(e) \/ stream' = InEnds(e) \/ stream' = OutEnds(e, b)
                \/ stream' = Ended(e, b) \/ stream' = Finished(e, b, r)
                => /\ InDone(e) => stream'[e].inDone
                   /\ OutDone(e) => stream'[e].outDone
           /\ \A c \in BOOLEAN, n \in Nat :
                rcv' = rcv \/ rcv' = Told(e, c, <<>>) \/ rcv' = Granted(e, n)
                => rcv'[e].signals = rcv[e].signals
           /\ \A c \in BOOLEAN :
                /\ \/ rcv' = Told(e, c, If(~InDone(e), OnError)) \/ rcv' = Stopped(e)
                   \/ rcv' = Told(e, c, <<OnError>>)
                   \/ rcv'[e].signals = Stopped(e)[e].signals
                /\ stream'[e].inDone
                => \/ rcv'[e].signals = rcv[e].signals
                   \/ \E x \in Signal : /\ rcv'[e].signals = Append(rcv[e].signals, x)
                                        /\ x.last => stream'[e].inDone
           /\ \A f \in Frame, r \in BOOLEAN :
                /\ rcv' = Told(e, FALSE, <<PayloadSignal(e, f)>>)
                /\ stream' = Finished(e, f.complete, r)
                => \E x \in Signal : /\ rcv'[e].signals = Append(rcv[e].signals, x)
                                     /\ x.last => stream'[e].inDone
<1>0. Effects(e) /\ SignalEffects(e) /\ OnError \in Signal /\ <<>> \in Seq(Nat)
  BY StreamEffects, ReceiverSignals, SignalsTyped
<1>1. ASSUME NEW b \in BOOLEAN, NEW r \in BOOLEAN,
             \/ stream' = stream
             \/ stream' = BothEnd(e) \/ stream' = InEnds(e) \/ stream' = OutEnds(e, b)
             \/ stream' = Ended(e, b) \/ stream' = Finished(e, b, r)
      PROVE  /\ InDone(e) => stream'[e].inDone
             /\ OutDone(e) => stream'[e].outDone
  BY <1>1, DoneStays DEF InDone, OutDone
<1>2. ASSUME NEW c \in BOOLEAN, NEW n \in Nat,
             rcv' = rcv \/ rcv' = Told(e, c, <<>>) \/ rcv' = Granted(e, n)
      PROVE  rcv'[e].signals = rcv[e].signals
  BY <1>0, <1>2 DEF SignalEffects
<1>3. ASSUME NEW c \in BOOLEAN, stream'[e].inDone,
             \/ rcv' = Told(e, c, If(~InDone(e), OnError)) \/ rcv' = Stopped(e)
             \/ rcv' = Told(e, c, <<OnError>>)
             \/ rcv'[e].signals = Stopped(e)[e].signals
      PROVE  \/ rcv'[e].signals = rcv[e].signals
             \/ \E x \in Signal : /\ rcv'[e].signals = Append(rcv[e].signals, x)
                                  /\ x.last => stream'[e].inDone
  <2>1. \/ rcv'[e].signals = rcv[e].signals
        \/ rcv'[e].signals = Append(rcv[e].signals, OnError)
    BY <1>0, <1>3 DEF SignalEffects
  <2>. QED BY <1>0, <1>3, <2>1
<1>4. ASSUME NEW f \in Frame, NEW r \in BOOLEAN,
             rcv' = Told(e, FALSE, <<PayloadSignal(e, f)>>),
             stream' = Finished(e, f.complete, r)
      PROVE  \E x \in Signal : /\ rcv'[e].signals = Append(rcv[e].signals, x)
                               /\ x.last => stream'[e].inDone
  <2>. DEFINE x == PayloadSignal(e, f)
  <2>1. x \in Signal /\ f.complete \in BOOLEAN
    BY PayloadSignalTyped, FrameFields
  <2>2. x.last => f.complete
    BY DEF PayloadSignal, OnNext, OnComplete
  <2>3. rcv'[e].signals = Append(rcv[e].signals, x)
    BY <1>0, <1>4, <2>1 DEF SignalEffects
  <2>4. f.complete => stream'[e].inDone
    BY <1>0, <1>4, <2>1 DEF Effects
  <2>. HIDE DEF x
  <2>. QED BY <2>1, <2>2, <2>3, <2>4
<1>. QED BY <1>1, <1>2, <1>3, <1>4, Zenon

LEMMA RequesterEnds ==
    ASSUME TypeOK, RegistryInv, EndInv, RequesterActs
    PROVE  EndInv'
<1>. DEFINE e == Requester
            b == Responder
            f == Head(wire[e])
            Mild == /\ app'[e].ended = app[e].ended /\ app'[e].emitted = app[e].emitted
                    /\ held'.isComplete = held.isComplete
                    /\ phase' = phase \/ (phase # "ready" /\ phase' \notin {"ready", "pending"})
            Side == /\ phase' = "ready" /\ app'[e].ended # "no" => stream'[e].outDone
                    /\ phase' = "pending" /\ ~stream'[e].outDone =>
                         app'[e].ended = IF held'.isComplete THEN "complete" ELSE "no"
                    /\ phase' # "ready" => app'[e].emitted = 0
                    /\ phase' = "ready" => app'[e].emitted >= 1
<1>0. /\ e \in End /\ Effects(e) /\ AppEffects(e) /\ FragmentEffects(e)
      /\ stream \in [End -> StreamState] /\ app \in [End -> AppState] /\ held \in Held
      /\ OnError \in Signal /\ (~OutDone(e)) \in BOOLEAN /\ app[e].emitted \in Nat
      /\ InDone(e) = stream[e].inDone /\ OutDone(e) = stream[e].outDone
  BY StreamEffects, StreamFragments, ApplicationEffects, SignalsTyped
     DEF TypeOK, InDone, OutDone, AppState
<1>1. /\ phase = "ready" /\ app[e].ended # "no" => OutDone(e)
      /\ phase = "pending" /\ ~OutDone(e) =>
           app[e].ended = IF held.isComplete THEN "complete" ELSE "no"
      /\ phase # "ready" => app[e].emitted = 0
      /\ phase = "ready" => app[e].emitted >= 1
      /\ SaidLast(e) => InDone(e)
  BY DEF EndInv
<1>2. ASSUME Ends(e), Side PROVE EndInv'
  <2>1. /\ UNCHANGED <<served, first, open>> /\ stream'[b] = stream[b]
        /\ rcv'[b] = rcv[b] /\ app'[b] = app[b]
    BY RequesterLeaves
  <2>2. SaidLast(e)' => InDone(e)'
    BY <1>1, <1>2, EndsKeeps
  <2>3. (SaidLast(b)' <=> SaidLast(b)) /\ (InDone(b)' <=> InDone(b))
        /\ (OutDone(b)' <=> OutDone(b))
    BY <2>1 DEF SaidLast, InDone, OutDone
  <2>4. \A d \in End : SaidLast(d)' => InDone(d)'
    BY <2>2, <2>3 DEF EndInv
  <2>5. OutDone(e)' <=> stream'[e].outDone
    BY DEF OutDone
  <2>6. /\ first'.deferred => InDone(b)' /\ served' \notin {"none", "reassembling"}
        /\ first'.deferred /\ served' = "running" => ~SaidLast(b)'
        /\ app'[b].ended # "no" => OutDone(b)'
        /\ served' \in {"none", "reassembling"} => rcv'[b].signals = <<>>
    BY <2>1, <2>3 DEF EndInv
  <2>. QED BY <1>2, <2>4, <2>5, <2>6 DEF EndInv
<1>3. ASSUME Ends(e), Mild PROVE EndInv'
  <2>1. OutDone(e) => stream'[e].outDone
    BY <1>3 DEF Ends
  <2>. QED BY <1>1, <1>2, <1>3, <2>1
<1>4. ASSUME rcv'[e].signals = rcv[e].signals,
             InDone(e) => stream'[e].inDone, OutDone(e) => stream'[e].outDone
      PROVE  Ends(e)
  BY <1>4 DEF Ends
<1>. HIDE DEF Mild, Side
<1>5. CASE Answer
  <2>1. ASSUME NEW cut \in BOOLEAN, HandleReady(cut) PROVE EndInv'
    <3>1. /\ phase = "pending" /\ phase' = "ready" /\ rcv' = rcv /\ ~OutDone(e)
          /\ app' = [app EXCEPT ![e].emitted = 1]
          /\ stream' = [stream EXCEPT ![e] = [@ EXCEPT !.registered = TRUE,
                                                       !.outDone = held.isComplete]]
      BY <2>1 DEF HandleReady
    <3>2. stream'[e].outDone = held.isComplete /\ stream'[e].inDone = stream[e].inDone
      BY <1>0, <3>1 DEF StreamState
    <3>3. app'[e].emitted = 1 /\ app'[e].ended = app[e].ended
      BY <1>0, <3>1 DEF AppEffects
    <3>4. Side
      BY <1>1, <3>1, <3>2, <3>3 DEF Side
    <3>5. Ends(e)
      BY <1>0, <1>4, <3>1, <3>2
    <3>. QED BY <1>2, <3>4, <3>5
  <2>2. CASE HandleReadyDeclined
    <3>1. Mild
      BY <2>2 DEF HandleReadyDeclined, Mild
    <3>2. Ends(e)
      BY <1>0, <1>4, <2>2 DEF HandleReadyDeclined
    <3>. QED BY <1>3, <3>1, <3>2
  <2>3. CASE HandleReject
    <3>1. Mild
      BY <2>3 DEF HandleReject, Mild
    <3>2. CASE InDone(e)
      <4>1. Ends(e)
        BY <1>0, <1>4, <2>3, <3>2 DEF HandleReject
      <4>. QED BY <1>3, <3>1, <4>1
    <3>3. CASE ~InDone(e)
      <4>1. stream' = BothEnd(e) /\ rcv' = Told(e, FALSE, <<OnError>>)
        BY <2>3, <3>3 DEF HandleReject
      <4>2. stream'[e].inDone /\ stream'[e].outDone
        BY <1>0, <4>1 DEF Effects
      <4>3. Ends(e)
        BY <4>1, <4>2, WaysToEnd DEF Ends
      <4>. QED BY <1>3, <3>1, <4>3
    <3>. QED BY <3>2, <3>3
  <2>. QED BY <1>5, <2>1, <2>2, <2>3 DEF Answer
<1>6. CASE RequesterCalls
  <2>1. ASSUME NEW n \in Demands, RequesterRequest(n) PROVE EndInv'
    <3>1. /\ rcv' = rcv /\ stream' = stream /\ phase' = phase /\ app' = Asked(e, n)
          /\ held' = held \/ held' = [held EXCEPT !.initialRequestN = @ + n]
          /\ n \in Nat
      BY <2>1, BoundsAssumption DEF RequesterRequest
    <3>2. Mild
      BY <1>0, <3>1 DEF AppEffects, Mild, Held
    <3>. QED BY <1>0, <1>3, <1>4, <3>1, <3>2
  <2>2. CASE RequesterOnExtension
    <3>1. /\ rcv' = rcv /\ stream' = stream /\ phase' = phase
          /\ app' = [app EXCEPT ![e].extensions = @ + 1]
          /\ held' = held \/ held' = [held EXCEPT !.hasExtension = TRUE]
      BY <2>2 DEF RequesterOnExtension
    <3>2. Mild
      BY <1>0, <3>1 DEF AppEffects, Mild, Held
    <3>. QED BY <1>0, <1>3, <1>4, <3>1, <3>2
  <2>3. CASE RequesterCancel
    <3>1. /\ rcv' = Told(e, ~OutDone(e), <<>>) /\ app' = [app EXCEPT ![e].quit = TRUE]
          /\ \/ phase' = phase
             \/ phase # "ready" /\ phase' = "dropped"
          /\ held' = held
          /\ stream' = BothEnd(e) \/ stream' = Ended(e, FALSE)
      BY <2>3 DEF RequesterCancel
    <3>2. Mild
      BY <1>0, <3>1 DEF AppEffects, Mild
    <3>3. rcv'[e].signals = rcv[e].signals
      <4>1. 0 \in Nat
        OBVIOUS
      <4>. QED BY <1>0, <3>1, <4>1, WaysToEnd
    <3>4. stream'[e].inDone /\ stream'[e].outDone
      BY <1>0, <3>1 DEF Effects
    <3>. QED BY <1>3, <1>4, <3>2, <3>3, <3>4
  <2>4. ASSUME NEW c \in BOOLEAN, NEW cut \in BOOLEAN, RequesterOnNext(c, cut) PROVE EndInv'
    <3>1. /\ rcv' = rcv /\ stream' = OutEnds(e, c) /\ phase' = phase /\ phase = "ready"
          /\ app' = Emitted(e, c)
      BY <2>4 DEF RequesterOnNext
    <3>2. /\ stream'[e].outDone = (stream[e].outDone \/ c)
          /\ stream'[e].inDone = stream[e].inDone
      BY <1>0, <3>1 DEF Effects
    <3>3. /\ app'[e].ended = IF c THEN "complete" ELSE app[e].ended
          /\ app'[e].emitted = app[e].emitted + 1
      BY <1>0, <3>1 DEF AppEffects
    <3>4. stream[e].outDone \/ c => stream'[e].outDone
      BY <3>2
    <3>5. app'[e].ended # "no" => stream'[e].outDone
      BY <1>0, <1>1, <3>1, <3>3, <3>4
    <3>6. app'[e].emitted >= 1
      BY <1>0, <3>3
    <3>7. Side
      BY <3>1, <3>5, <3>6 DEF Side
    <3>. QED BY <1>0, <1>2, <1>4, <3>1, <3>2, <3>4, <3>7
  <2>5. CASE RequesterOnComplete
    <3>1. /\ rcv' = rcv /\ phase' = phase
          /\ app' = [app EXCEPT ![e].ended = "complete"]
          /\ \/ /\ phase = "pending" /\ stream' = stream /\ ~OutDone(e)
                /\ held' = [held EXCEPT !.isComplete = TRUE]
             \/ phase = "ready" /\ stream' = OutEnds(e, TRUE)
      BY <2>5 DEF RequesterOnComplete
    <3>2. app'[e].ended = "complete" /\ app'[e].emitted = app[e].emitted
      BY <1>0, <3>1 DEF AppEffects
    <3>3. CASE phase = "pending" /\ stream' = stream /\ held' = [held EXCEPT !.isComplete = TRUE]
      <4>1. held'.isComplete
        BY <1>0, <3>3 DEF Held
      <4>2. Side
        BY <1>1, <3>1, <3>2, <3>3, <4>1 DEF Side
      <4>. QED BY <1>0, <1>2, <1>4, <3>1, <3>3, <4>2
    <3>4. CASE phase = "ready" /\ stream' = OutEnds(e, TRUE)
      <4>1. stream'[e].outDone /\ stream'[e].inDone = stream[e].inDone
        BY <1>0, <3>4 DEF Effects
      <4>2. Side
        BY <1>1, <3>1, <3>2, <3>4, <4>1 DEF Side
      <4>. QED BY <1>0, <1>2, <1>4, <3>1, <4>1, <4>2
    <3>. QED BY <3>1, <3>3, <3>4
  <2>6. CASE RequesterOnError
    <3>1. /\ rcv' = Told(e, FALSE, If(~InDone(e), OnError))
          /\ phase' = phase /\ phase = "ready" /\ stream' = BothEnd(e)
          /\ app' = [app EXCEPT ![e].ended = "error"]
      BY <2>6 DEF RequesterOnError
    <3>2. stream'[e].inDone /\ stream'[e].outDone
      BY <1>0, <3>1 DEF Effects
    <3>3. app'[e].emitted = app[e].emitted
      BY <1>0, <3>1 DEF AppEffects
    <3>4. Side
      BY <1>1, <3>1, <3>2, <3>3 DEF Side
    <3>5. Ends(e)
      BY <3>1, <3>2, WaysToEnd DEF Ends
    <3>. QED BY <1>2, <3>4, <3>5
  <2>7. CASE RequesterOnErrorThrows \/ RequesterOnNextThrows
    <3>1. /\ rcv' = rcv /\ phase' = phase /\ phase = "pending"
          /\ stream' = BothEnd(e) \/ stream' = [stream EXCEPT ![e].outDone = TRUE]
          /\ \/ app' = [app EXCEPT ![e].ended = "error"]
             \/ app' = [app EXCEPT ![e].ended = "complete"]
      BY <2>7 DEF RequesterOnErrorThrows, RequesterOnNextThrows
    <3>2. stream'[e].outDone /\ (stream[e].inDone => stream'[e].inDone)
      <4>1. LET s == [stream EXCEPT ![e].outDone = TRUE]
            IN  s[e].outDone /\ s[e].inDone = stream[e].inDone
        BY <1>0 DEF StreamState
      <4>. QED BY <1>0, <3>1, <4>1 DEF Effects
    <3>3. app'[e].emitted = app[e].emitted
      BY <1>0, <3>1 DEF AppEffects
    <3>4. Side
      BY <1>1, <3>1, <3>2, <3>3 DEF Side
    <3>. QED BY <1>0, <1>2, <1>4, <3>1, <3>2, <3>4
  <2>. QED BY <1>6, <2>1, <2>2, <2>3, <2>4, <2>5, <2>6, <2>7 DEF RequesterCalls
<1>7. CASE RequesterHandles
  <2>1. Mild
    BY <1>7 DEF RequesterHandles, RequesterHandlesPayload, RequesterHandlesFragment,
       RequesterHandlesCancel, RequesterHandlesError, RequesterHandlesRequestN,
       RequesterHandlesExtension, DropFrame, Mild
  <2>2. Ends(e)
    <3>1. Handles(e, f.type) => f \in Frame
      BY Taken DEF Handles, Arrives, TypeOK
    <3>2. CASE RequesterHandlesPayload
      <4>1. /\ f \in Frame /\ stream' = Finished(e, f.complete, ~f.complete \/ f.next)
            /\ rcv' = Told(e, FALSE, <<PayloadSignal(e, f)>>)
        BY <3>1, <3>2 DEF RequesterHandlesPayload, Handles, Arrives
      <4>2. f.complete \in BOOLEAN /\ (~f.complete \/ f.next) \in BOOLEAN
        BY <4>1, FrameFields
      <4>3. \E x \in Signal : /\ rcv'[e].signals = Append(rcv[e].signals, x)
                              /\ x.last => stream'[e].inDone
        BY <4>1, <4>2, WaysToEnd
      <4>4. (InDone(e) => stream'[e].inDone) /\ (OutDone(e) => stream'[e].outDone)
        BY <4>1, <4>2, WaysToEnd
      <4>. QED BY <4>3, <4>4 DEF Ends
    <3>3. CASE RequesterHandlesFragment
      <4>1. f \in Frame /\ stream' = Extended(e, f.data) /\ rcv' = rcv
        BY <3>1, <3>3 DEF RequesterHandlesFragment, Handles, Arrives
      <4>2. f.data \in Seq(Nat)
        BY <4>1, FrameFields
      <4>3. stream'[e].inDone = stream[e].inDone /\ stream'[e].outDone = stream[e].outDone
        BY <1>0, <4>1, <4>2 DEF FragmentEffects
      <4>. QED BY <1>0, <1>4, <4>1, <4>3
    <3>4. CASE RequesterHandlesCancel \/ RequesterHandlesExtension \/ DropFrame(e)
      <4>1. /\ rcv' = rcv \/ rcv' = Told(e, TRUE, <<>>)
            /\ stream' = stream \/ stream' = OutEnds(e, TRUE)
        BY <3>4 DEF RequesterHandlesCancel, RequesterHandlesExtension, DropFrame
      <4>2. TRUE \in BOOLEAN /\ 0 \in Nat
        OBVIOUS
      <4>3. rcv'[e].signals = rcv[e].signals
        BY <4>1, <4>2, WaysToEnd
      <4>4. (InDone(e) => stream'[e].inDone) /\ (OutDone(e) => stream'[e].outDone)
        BY <4>1, <4>2, WaysToEnd
      <4>. QED BY <1>4, <4>3, <4>4
    <3>5. CASE RequesterHandlesError
      <4>1. stream' = Ended(e, FALSE) /\ rcv' = Told(e, ~OutDone(e), <<OnError>>)
        BY <3>5 DEF RequesterHandlesError
      <4>2. stream'[e].inDone /\ stream'[e].outDone
        BY <1>0, <4>1 DEF Effects
      <4>. QED BY <1>0, <4>1, <4>2, WaysToEnd DEF Ends
    <3>6. CASE RequesterHandlesRequestN
      <4>1. /\ f \in Frame
            /\ \/ stream' = stream /\ rcv' = rcv
               \/ stream' = Ended(e, FALSE) /\ rcv'[e].signals = Stopped(e)[e].signals
               \/ stream' = stream /\ rcv' = Granted(e, f.requestN)
        BY <3>1, <3>6, RequesterRefuses DEF RequesterHandlesRequestN, Handles, Arrives
      <4>2. f.requestN \in Nat
        BY <4>1, FrameFields
      <4>3. CASE stream' = Ended(e, FALSE) /\ rcv'[e].signals = Stopped(e)[e].signals
        <5>1. stream'[e].inDone /\ stream'[e].outDone
          BY <1>0, <4>3 DEF Effects
        <5>. QED BY <4>3, <5>1, WaysToEnd DEF Ends
      <4>4. CASE stream' = stream /\ (rcv' = rcv \/ rcv' = Granted(e, f.requestN))
        <5>1. rcv'[e].signals = rcv[e].signals
          BY <4>2, <4>4, WaysToEnd
        <5>. QED BY <1>0, <1>4, <4>4, <5>1
      <4>. QED BY <4>1, <4>3, <4>4
    <3>. QED BY <1>7, <3>2, <3>3, <3>4, <3>5, <3>6 DEF RequesterHandles
  <2>. QED BY <1>3, <2>1, <2>2
<1>. QED BY <1>5, <1>6, <1>7 DEF RequesterActs

LEMMA ResponderEnds ==
    ASSUME TypeOK, QuietInv, RegistryInv, RequestInv, PartInv, EndInv,
           Coming(Responder), ResponderActs
    PROVE  EndInv'
<1>. DEFINE e == Responder
            b == Requester
            f == Head(wire[e])
            ss == rcv[e].signals
            Side == /\ first'.deferred => /\ stream'[e].inDone
                                          /\ served' \notin {"none", "reassembling"}
                    /\ first'.deferred /\ served' = "running" =>
                         rcv'[e].signals = ss /\ ~SaidLast(e)
                    /\ app'[e].ended # "no" => stream'[e].outDone
                    /\ served' \in {"none", "reassembling"} => rcv'[e].signals = <<>>
            Mild == /\ first'.deferred = first.deferred /\ app'[e].ended = app[e].ended
                    /\ \/ served' = served /\ (served # "active" => rcv'[e].signals = ss)
                       \/ served' \in {"refused", "active", "threw"}
<1>0. /\ e \in End /\ Effects(e) /\ AppEffects(e) /\ FragmentEffects(e) /\ SignalEffects(e)
      /\ stream \in [End -> StreamState] /\ app \in [End -> AppState] /\ first \in First
      /\ rcv \in [End -> RcvState]
      /\ OnError \in Signal /\ (~OutDone(e)) \in BOOLEAN
      /\ InDone(e) = stream[e].inDone /\ OutDone(e) = stream[e].outDone
  BY StreamEffects, StreamFragments, ApplicationEffects, ReceiverSignals, SignalsTyped
     DEF TypeOK, InDone, OutDone
<1>1. /\ first.deferred => InDone(e) /\ served \notin {"none", "reassembling"}
      /\ first.deferred /\ served = "running" => ~SaidLast(e)
      /\ app[e].ended # "no" => OutDone(e)
      /\ served \in {"none", "reassembling"} => ss = <<>>
      /\ SaidLast(e) => InDone(e)
  BY DEF EndInv
<1>2. ASSUME Ends(e), Side PROVE EndInv'
  <2>1. /\ UNCHANGED <<phase, held, open>> /\ stream'[b] = stream[b]
        /\ rcv'[b] = rcv[b] /\ app'[b] = app[b]
    BY ResponderLeaves
  <2>2. SaidLast(e)' => InDone(e)'
    BY <1>1, <1>2, EndsKeeps
  <2>3. (SaidLast(b)' <=> SaidLast(b)) /\ (InDone(b)' <=> InDone(b))
        /\ (OutDone(b)' <=> OutDone(b))
    BY <2>1 DEF SaidLast, InDone, OutDone
  <2>4. \A d \in End : SaidLast(d)' => InDone(d)'
    BY <2>2, <2>3 DEF EndInv
  <2>5. (OutDone(e)' <=> stream'[e].outDone) /\ (InDone(e)' <=> stream'[e].inDone)
        /\ (rcv'[e].signals = ss => (SaidLast(e)' <=> SaidLast(e)))
    BY DEF OutDone, InDone, SaidLast
  <2>6. /\ phase' = "ready" /\ app'[b].ended # "no" => OutDone(b)'
        /\ phase' = "pending" /\ ~OutDone(b)' =>
             app'[b].ended = IF held'.isComplete THEN "complete" ELSE "no"
        /\ phase' # "ready" => app'[b].emitted = 0
        /\ phase' = "ready" => app'[b].emitted >= 1
    BY <2>1, <2>3 DEF EndInv
  <2>. QED BY <1>2, <2>4, <2>5, <2>6 DEF EndInv
<1>3. ASSUME Ends(e), Mild PROVE EndInv'
  <2>1. (OutDone(e) => stream'[e].outDone) /\ (InDone(e) => stream'[e].inDone)
    BY <1>3 DEF Ends
  <2>. QED BY <1>1, <1>2, <1>3, <2>1
<1>4. ASSUME rcv'[e].signals = ss,
             InDone(e) => stream'[e].inDone, OutDone(e) => stream'[e].outDone
      PROVE  Ends(e)
  BY <1>4 DEF Ends
<1>5. \A x \in Signal : rcv'[e].signals = <<x>> /\ (x.last => stream'[e].inDone)
                        /\ (InDone(e) => stream'[e].inDone)
                        /\ (OutDone(e) => stream'[e].outDone) => Ends(e)
  BY Zenon DEF Ends
<1>. HIDE DEF Mild, Side
<1>6. CASE ResponderRejects \/ ResponderRefusesDemand
  <2>1. /\ rcv' = rcv /\ app' = app /\ first' = first /\ served' = "refused"
        /\ stream' = stream \/ stream' = Ended(e, FALSE)
    BY <1>6 DEF ResponderRejects, ResponderRefusesDemand
  <2>2. Mild
    BY <2>1 DEF Mild
  <2>3. (InDone(e) => stream'[e].inDone) /\ (OutDone(e) => stream'[e].outDone)
    BY <1>0, <2>1 DEF Effects
  <2>. QED BY <1>3, <1>4, <2>1, <2>2, <2>3
<1>7. CASE ResponderReceivesFirstFragment
  <2>1. /\ served = "none" /\ rcv' = rcv /\ app' = app /\ served' = "reassembling"
        /\ first' = [first EXCEPT !.initialRequestN = f.requestN, !.isComplete = f.complete]
        /\ stream' = [stream EXCEPT ![e] = [@ EXCEPT !.registered = TRUE,
                                !.hasFragments = TRUE, !.fragments = f.data]]
    BY <1>7 DEF ResponderReceivesFirstFragment
  <2>2. first'.deferred = first.deferred
    BY <1>0, <2>1 DEF First
  <2>3. stream'[e].inDone = stream[e].inDone /\ stream'[e].outDone = stream[e].outDone
    BY <1>0, <2>1 DEF StreamState
  <2>4. Side
    BY <1>0, <1>1, <2>1, <2>2, <2>3 DEF Side
  <2>. QED BY <1>0, <1>2, <1>4, <2>1, <2>3, <2>4
<1>8. CASE ResponderReceivesRequest
  <2>1. /\ served = "none" /\ first' = first /\ app' = app /\ served' = "running"
        /\ wire[e] # <<>>
        /\ rcv' = [rcv EXCEPT ![e] = [@ EXCEPT !.signals = <<OnNext(f.data, f.complete)>>,
                                               !.granted = f.requestN]]
        /\ stream' = [stream EXCEPT ![e] = [@ EXCEPT !.registered = TRUE,
                                                     !.inDone = f.complete]]
    BY <1>8 DEF ResponderReceivesRequest, CallHandler, Arrives
  <2>. DEFINE x == OnNext(f.data, f.complete)
  <2>2. f \in Frame
    BY <2>1, Taken DEF TypeOK
  <2>3. x \in Signal /\ x.last = f.complete
    <3>1. f.data \in Seq(Nat) /\ f.complete \in BOOLEAN
      BY <2>2, FrameFields
    <3>. QED BY <3>1 DEF OnNext, Signal, SignalKinds
  <2>4. stream'[e].inDone = f.complete /\ stream'[e].outDone = stream[e].outDone
    BY <1>0, <2>1 DEF StreamState
  <2>5. rcv'[e].signals = <<x>>
    BY <1>0, <2>1 DEF RcvState
  <2>6. ~InDone(e)
    BY <2>1 DEF RegistryInv, Fresh
  <2>. HIDE DEF x
  <2>7. Side
    BY <1>0, <1>1, <2>1, <2>4 DEF Side
  <2>. QED BY <1>0, <1>2, <1>5, <2>3, <2>4, <2>5, <2>6, <2>7
<1>9. CASE ResponderReassemblesRequest
  <2>. DEFINE c == first.isComplete \/ f.complete
              x == OnNext(Reassembled(e, f.data), c)
  <2>1. /\ stream[e].registered /\ served \notin {"running", "active"}
        /\ wire[e] # <<>> /\ served' = "running" /\ first' = first /\ app' = app
        /\ rcv' = [rcv EXCEPT ![e] = [@ EXCEPT !.signals = <<x>>,
                                               !.granted = first.initialRequestN]]
        /\ stream' = Finished(e, c, TRUE)
    BY <1>9 DEF ResponderReassemblesRequest, CallHandler, Handles, Arrives, HasReceiver
  <2>2. f \in Frame /\ open[e]
    BY <2>1, Taken DEF TypeOK, QuietInv
  <2>3. f.complete \in BOOLEAN /\ c \in BOOLEAN /\ f.data \in Seq(Nat)
    BY <2>2, FrameFields
  <2>4. served = "reassembling"
    <3>1. served \notin {"threw", "none", "refused"}
      BY <2>1, <2>2 DEF RegistryInv, RegistryExact, RequestInv, Fresh
    <3>. QED BY <2>1, <3>1 DEF TypeOK
  <2>5. x \in Signal /\ x.last = c
    <3>1. Reassembled(e, f.data) \in Seq(Nat)
      BY <1>0, <2>3 DEF Reassembled, FragmentEffects
    <3>. QED BY <2>3, <3>1 DEF OnNext, Signal, SignalKinds
  <2>6. rcv'[e].signals = <<x>>
    BY <1>0, <2>1 DEF RcvState
  <2>. HIDE DEF x, c
  <2>7. /\ stream'[e].inDone = (stream[e].inDone \/ c)
        /\ stream'[e].outDone = stream[e].outDone
    BY <1>0, <2>1, <2>3 DEF Effects
  <2>8. (InDone(e) => stream'[e].inDone) /\ (c => stream'[e].inDone)
        /\ (OutDone(e) => stream'[e].outDone)
    BY <1>0, <2>7
  <2>9. Side
    BY <1>0, <1>1, <2>1, <2>4, <2>7 DEF Side
  <2>. QED BY <1>2, <1>5, <2>5, <2>6, <2>8, <2>9
<1>10. CASE ResponderHandlesFragment
  <2>1. /\ wire[e] # <<>> /\ stream' = Extended(e, f.data)
        /\ rcv' = rcv /\ app' = app /\ first' = first /\ served' = served
    BY <1>10 DEF ResponderHandlesFragment, Handles, Arrives
  <2>2. f \in Frame
    BY <2>1, Taken DEF TypeOK
  <2>3. f.data \in Seq(Nat)
    BY <2>2, FrameFields
  <2>4. stream'[e].inDone = stream[e].inDone /\ stream'[e].outDone = stream[e].outDone
    BY <1>0, <2>1, <2>3 DEF FragmentEffects
  <2>5. Mild
    BY <2>1 DEF Mild
  <2>. QED BY <1>0, <1>3, <1>4, <2>1, <2>4, <2>5
<1>11. CASE ResponderHandlesPayload
  <2>1. /\ wire[e] # <<>> /\ stream' = Finished(e, f.complete, TRUE) /\ served = "active"
        /\ rcv' = Told(e, FALSE, <<PayloadSignal(e, f)>>)
        /\ app' = app /\ first' = first /\ served' = served
    BY <1>11 DEF ResponderHandlesPayload, Handles, Arrives, HasReceiver
  <2>2. f \in Frame /\ TRUE \in BOOLEAN
    BY <2>1, Taken DEF TypeOK
  <2>3. f.complete \in BOOLEAN
    BY <2>2, FrameFields
  <2>4. \E x \in Signal : /\ rcv'[e].signals = Append(rcv[e].signals, x)
                          /\ x.last => stream'[e].inDone
    BY <2>1, <2>2, WaysToEnd
  <2>5. (InDone(e) => stream'[e].inDone) /\ (OutDone(e) => stream'[e].outDone)
    BY <2>1, <2>2, <2>3, WaysToEnd
  <2>6. Ends(e)
    BY <2>4, <2>5 DEF Ends
  <2>7. Mild
    BY <2>1 DEF Mild
  <2>. QED BY <1>3, <2>6, <2>7
<1>12. CASE ResponderHandlesEnd
  <2>1. /\ stream' = Ended(e, FALSE) /\ app' = app /\ first' = first /\ served' = served
        /\ IF served = "active" THEN rcv' = Stopped(e) ELSE rcv' = rcv
    BY <1>12 DEF ResponderHandlesEnd, HasReceiver
  <2>2. stream'[e].inDone /\ stream'[e].outDone
    BY <1>0, <2>1 DEF Effects
  <2>3. Mild
    BY <2>1 DEF Mild
  <2>4. TRUE \in BOOLEAN
    OBVIOUS
  <2>5. Ends(e)
    BY <2>1, <2>2, <2>4, WaysToEnd DEF Ends
  <2>. QED BY <1>3, <2>3, <2>5
<1>13. CASE ResponderHandlesRequestN \/ ResponderHandlesExtension
  <2>1. /\ stream' = stream /\ served' = served /\ app' = app
        /\ rcv' = rcv \/ \E n \in Nat : rcv' = Granted(e, n)
    BY <1>13, NothingRefused
  <2>2. first' = first
    BY <1>13 DEF ResponderHandlesRequestN, ResponderHandlesExtension
  <2>3. rcv'[e].signals = ss
    BY <1>0, <2>1 DEF SignalEffects
  <2>4. Mild
    BY <2>1, <2>2, <2>3 DEF Mild
  <2>. QED BY <1>0, <1>3, <1>4, <2>1, <2>3, <2>4
<1>14. CASE DropFrame(e)
  <2>1. UNCHANGED <<stream, served, app, first, rcv>>
    BY <1>14 DEF DropFrame
  <2>2. Mild
    BY <2>1 DEF Mild
  <2>. QED BY <1>0, <1>3, <1>4, <2>1, <2>2
<1>15. CASE HandlerReturns
  <2>1. /\ served' = "active" /\ stream' = stream /\ app' = app /\ first' = first
        /\ rcv' = Told(e, FALSE, If(OutDone(e) /\ first.deferred, OnError))
    BY <1>15 DEF HandlerReturns
  <2>2. Mild
    BY <2>1 DEF Mild
  <2>3. CASE OutDone(e) /\ first.deferred
    <3>1. rcv' = Told(e, FALSE, <<OnError>>)
      BY <2>1, <2>3 DEF If
    <3>2. stream'[e].inDone /\ stream'[e].outDone
      BY <1>0, <1>1, <2>1, <2>3
    <3>3. Ends(e)
      BY <3>1, <3>2, WaysToEnd DEF Ends
    <3>. QED BY <1>3, <2>2, <3>3
  <2>4. CASE ~(OutDone(e) /\ first.deferred)
    <3>1. rcv' = Told(e, FALSE, <<>>)
      BY <2>1, <2>4 DEF If
    <3>2. rcv'[e].signals = ss
      BY <1>0, <3>1 DEF SignalEffects
    <3>. QED BY <1>0, <1>3, <1>4, <2>1, <2>2, <3>2
  <2>. QED BY <2>3, <2>4
<1>16. CASE HandlerThrows
  <2>1. /\ served' = "threw" /\ rcv' = rcv /\ app' = app /\ first' = first
        /\ stream' = stream \/ stream' = BothEnd(e)
    BY <1>16 DEF HandlerThrows
  <2>2. Mild
    BY <2>1 DEF Mild
  <2>3. (InDone(e) => stream'[e].inDone) /\ (OutDone(e) => stream'[e].outDone)
    BY <1>0, <2>1 DEF Effects
  <2>. QED BY <1>3, <1>4, <2>1, <2>2, <2>3
<1>17. CASE ResponderCalls
  <2>1. ASSUME NEW n \in Demands, ResponderRequest(n) PROVE EndInv'
    <3>1. /\ UNCHANGED <<stream, served, first, rcv>> /\ app' = Asked(e, n) /\ n \in Nat
      BY <2>1, BoundsAssumption DEF ResponderRequest
    <3>2. Mild
      BY <1>0, <3>1 DEF AppEffects, Mild
    <3>. QED BY <1>0, <1>3, <1>4, <3>1, <3>2
  <2>2. CASE ResponderCancel \/ ResponderOnExtension
    <3>1. /\ UNCHANGED <<served, first, rcv>> /\ (stream' = stream \/ stream' = InEnds(e))
          /\ \/ app' = [app EXCEPT ![e].quit = TRUE]
             \/ app' = [app EXCEPT ![e].extensions = @ + 1]
      BY <2>2 DEF ResponderCancel, ResponderOnExtension
    <3>2. Mild
      BY <1>0, <3>1 DEF AppEffects, Mild
    <3>3. (InDone(e) => stream'[e].inDone) /\ (OutDone(e) => stream'[e].outDone)
      BY <1>0, <3>1 DEF Effects
    <3>. QED BY <1>3, <1>4, <3>1, <3>2, <3>3
  <2>3. ASSUME NEW c \in BOOLEAN, NEW cut \in BOOLEAN, ResponderOnNext(c, cut) PROVE EndInv'
    <3>1. /\ UNCHANGED <<served, first, rcv>> /\ stream' = OutEnds(e, c)
          /\ app' = Emitted(e, c)
      BY <2>3 DEF ResponderOnNext
    <3>2. /\ stream'[e].outDone = (stream[e].outDone \/ c)
          /\ stream'[e].inDone = stream[e].inDone
      BY <1>0, <3>1 DEF Effects
    <3>3. app'[e].ended = IF c THEN "complete" ELSE app[e].ended
      BY <1>0, <3>1 DEF AppEffects
    <3>4. stream[e].outDone \/ c => stream'[e].outDone
      BY <3>2
    <3>5. app'[e].ended # "no" => stream'[e].outDone
      BY <1>0, <1>1, <3>3, <3>4
    <3>6. Side
      BY <1>0, <1>1, <3>1, <3>2, <3>5 DEF Side
    <3>. QED BY <1>0, <1>2, <1>4, <3>1, <3>2, <3>4, <3>6
  <2>4. CASE ResponderOnComplete
    <3>1. UNCHANGED <<served, first, rcv>> /\ stream' = OutEnds(e, TRUE)
      BY <2>4 DEF ResponderOnComplete
    <3>2. stream'[e].outDone /\ stream'[e].inDone = stream[e].inDone
      BY <1>0, <3>1 DEF Effects
    <3>3. Side
      BY <1>0, <1>1, <3>1, <3>2 DEF Side
    <3>. QED BY <1>0, <1>2, <1>4, <3>1, <3>2, <3>3
  <2>5. CASE ResponderOnError
    <3>1. /\ served' = served /\ served \in {"running", "active", "threw"}
          /\ stream' = BothEnd(e)
          /\ \/ /\ served = "active" /\ first' = first
                /\ rcv' = Told(e, FALSE, If(~InDone(e), OnError))
             \/ rcv' = rcv /\ first' = [first EXCEPT !.deferred = ~InDone(e)]
      BY <2>5 DEF ResponderOnError, HasStream, HasReceiver
    <3>2. stream'[e].inDone /\ stream'[e].outDone
      BY <1>0, <3>1 DEF Effects
    <3>3. CASE served = "active" /\ rcv' = Told(e, FALSE, If(~InDone(e), OnError))
      <4>1. Ends(e)
        BY <3>2, <3>3, WaysToEnd DEF Ends
      <4>2. Side
        BY <3>1, <3>2, <3>3 DEF Side
      <4>. QED BY <1>2, <4>1, <4>2
    <3>4. CASE rcv' = rcv /\ first' = [first EXCEPT !.deferred = ~InDone(e)]
      <4>1. first'.deferred => ~InDone(e)
        BY <1>0, <3>4 DEF First
      <4>2. Side
        BY <1>1, <3>1, <3>2, <3>4, <4>1 DEF Side
      <4>. QED BY <1>2, <1>4, <3>2, <3>4, <4>2
    <3>. QED BY <3>1, <3>3, <3>4
  <2>. QED BY <1>17, <2>1, <2>2, <2>3, <2>4, <2>5 DEF ResponderCalls
<1>18. CASE ResponderHandles
  BY <1>6, <1>7, <1>8, <1>9, <1>10, <1>11, <1>12, <1>13, <1>14, <1>18 DEF ResponderHandles
<1>. QED BY <1>15, <1>16, <1>17, <1>18 DEF ResponderActs, HandlerEnds

LEMMA CloseEnds ==
    ASSUME TypeOK, EndInv, NEW e \in End, Close(e)
    PROVE  EndInv'
<1>1. /\ UNCHANGED <<phase, held, served, first, app>>
      /\ \A d \in End \ {e} : stream'[d] = stream[d] /\ rcv'[d] = rcv[d]
  BY CloseLeaves
<1>2. /\ (UNCHANGED <<stream, rcv>>) \/ stream' = Ended(e, TRUE)
      /\ rcv' = rcv \/ rcv' = Stopped(e)
      /\ e = Responder /\ served # "active" => rcv' = rcv
  BY DEF Close, HasReceiver
<1>3. Ends(e)
  <2>1. CASE UNCHANGED <<stream, rcv>>
    BY <2>1 DEF Ends, InDone, OutDone
  <2>2. CASE stream' = Ended(e, TRUE)
    <3>1. Effects(e) /\ TRUE \in BOOLEAN
      BY StreamEffects
    <3>2. stream'[e].inDone /\ stream'[e].outDone
      BY <2>2, <3>1 DEF Effects
    <3>3. rcv' = rcv => rcv'[e].signals = rcv[e].signals
      OBVIOUS
    <3>4. rcv' = Stopped(e) =>
            \/ rcv'[e].signals = rcv[e].signals
            \/ \E x \in Signal : /\ rcv'[e].signals = Append(rcv[e].signals, x)
                                 /\ x.last => stream'[e].inDone
      BY <3>1, <3>2, WaysToEnd
    <3>. QED BY <1>2, <3>2, <3>3, <3>4 DEF Ends
  <2>. QED BY <1>2, <2>1, <2>2
<1>4. \A d \in End : SaidLast(d)' => InDone(d)'
  <2>1. SaidLast(e)' => InDone(e)'
    BY <1>3, EndsKeeps DEF EndInv
  <2>2. ASSUME NEW d \in End \ {e} PROVE SaidLast(d)' => InDone(d)'
    BY <1>1, <2>2 DEF EndInv, SaidLast, InDone
  <2>. QED BY <2>1, <2>2
<1>5. \A d \in End : /\ InDone(d) => InDone(d)'
                     /\ OutDone(d) => OutDone(d)'
  <2>1. (InDone(e) => InDone(e)') /\ (OutDone(e) => OutDone(e)')
    BY <1>3 DEF Ends, InDone, OutDone
  <2>2. ASSUME NEW d \in End \ {e}
        PROVE  (InDone(d) => InDone(d)') /\ (OutDone(d) => OutDone(d)')
    BY <1>1, <2>2 DEF InDone, OutDone
  <2>. QED BY <2>1, <2>2
<1>6. served # "active" => rcv'[Responder] = rcv[Responder]
  BY <1>1, <1>2
<1>7. /\ first'.deferred /\ served' = "running" => ~SaidLast(Responder)'
      /\ served' \in {"none", "reassembling"} => rcv'[Responder].signals = <<>>
  BY <1>1, <1>6 DEF EndInv, SaidLast
<1>. QED BY <1>1, <1>4, <1>5, <1>7 DEF EndInv

LEMMA EndSteps ==
    ASSUME TypeOK, QuietInv, FlowInv, PartInv, EndInv, Coming(Responder), Next
    PROVE  EndInv'
<1>1. RegistryInv /\ RequestInv
  BY DEF FlowInv
<1>. QED BY <1>1, RequesterEnds, ResponderEnds, CloseEnds
         DEF Next, RequesterActs, ResponderActs

LEMMA EndStart == Init => EndInv /\ \A d \in End : Coming(d)
<1>. SUFFICES ASSUME Init PROVE EndInv /\ \A d \in End : Coming(d)
  OBVIOUS
<1>1. /\ \A e \in End : /\ rcv[e].signals = <<>> /\ stream[e].fragments = <<>>
                        /\ ~stream[e].hasFragments /\ wire[e] = <<>>
                        /\ ~stream[e].inDone /\ ~stream[e].outDone
                        /\ app[e].emitted = 0
      /\ phase = "pending" /\ served = "none" /\ ~first.deferred
      /\ app[Responder].ended = "no"
      /\ app[Requester].ended = IF held.isComplete THEN "complete" ELSE "no"
  BY DEF Init
<1>2. LastIn(<<>>) = FALSE /\ Len(<<>>) = 0
  BY DEF LastIn
<1>3. \A e \in End : ~SaidLast(e)
  BY <1>1, <1>2 DEF SaidLast, LastIn
<1>4. EndInv
  BY <1>1, <1>3 DEF EndInv, InDone, OutDone
<1>5. ASSUME NEW e \in End PROVE Coming(e)
  <2>a. PICK all, ceased, exact :
           all = Completed(Fin(e)) /\ ceased = Ceased(Peer(e)) /\ exact = BothOpen
    BY Zenon
  <2>1. Fed(e) = 0
    BY <1>1 DEF Fed, Peer
  <2>2. StandsAt(<<>>, <<>>) = Place(0, FALSE, FALSE)
    BY <1>2 DEF StandsAt
  <2>3. Reaches(<<>>, StandsAt(<<>>, <<>>), 0, all, ceased, exact)
    BY <2>2, ReachesNowhere
  <2>4. Holds(<<>>, <<>>, FALSE)
    BY DEF Holds
  <2>5. stream[e].fragments = <<>> /\ rcv[e].signals = <<>> /\ wire[e] = <<>>
    BY <1>1
  <2>6. Holds(rcv[e].signals, stream[e].fragments, stream[e].hasFragments)
    BY <2>5 DEF Holds
  <2>. QED BY <2>a, <2>1, <2>3, <2>5, <2>6 DEF Coming
<1>. QED BY <1>4, <1>5

(***************************************************************************)
(* Each direction of a channel is a Subscription, however its frames are   *)
(* cut, its ends cross and the connection is lost: the receiver gets the   *)
(* payloads its peer emitted, whole, in order and once, nothing behind a   *)
(* last signal, and a completion only behind all of them                   *)
(* (RequestChannelStream.ts, handle, onNext, onComplete, onError and close *)
(* of both classes).                                                       *)
(***************************************************************************)
THEOREM ImplementsSubscriptions ==
    ASSUME OneFrameAtATime, PositiveDemands
    PROVE  Spec => PromiseToReceivers
<1>. DEFINE Inv == QuietInv /\ PartInv /\ EndInv /\ \A d \in End : Coming(d)
            Steps == [ToRequester!Next]_(ToRequester!promise)
                       /\ [ToResponder!Next]_(ToResponder!promise)
<1>1. Init => Inv
  <2>1. Init => QuietInv /\ PartInv
    BY DEF Init, QuietInv, PartInv
  <2>. QED BY <2>1, EndStart
<1>2. TypeOK /\ TypeOK' /\ FlowInv /\ Inv /\ [Next]_vars => Inv' /\ Steps
  <2>1. ASSUME TypeOK, TypeOK', FlowInv, Inv, Next PROVE Inv' /\ Steps
    <3>1. QuietInv' /\ PartInv' /\ EndInv'
      BY <2>1, QuietSteps, PartSteps, EndSteps DEF FlowInv
    <3>2. \A d \in End : Coming(d)' /\ Promised(d)
      BY <2>1, ComingSteps
    <3>3. Steps
      BY <3>2, PromisedSteps
    <3>. QED BY <3>1, <3>2, <3>3
  <2>2. ASSUME TypeOK, Inv, UNCHANGED vars PROVE Inv' /\ Steps
    <3>1. QuietInv' /\ PartInv' /\ EndInv'
      BY <2>2 DEF vars, QuietInv, PartInv, Collecting, EndInv, SaidLast, InDone, OutDone
    <3>2. \A d \in End : Coming(d)'
      BY <2>2 DEF vars, Coming, Waits, Fed, Fin, Ceased, OutDone, BothOpen, SaidLast
    <3>3. Steps
      BY <2>2 DEF vars, ToRequester!promise, ToResponder!promise
    <3>. QED BY <3>1, <3>2, <3>3
  <2>. QED BY <2>1, <2>2
<1>3. Init => ToRequester!Init /\ ToResponder!Init
  BY DEF Init, ToRequester!Init, ToResponder!Init
<1>. HIDE DEF Inv
<1>4. Spec => []TypeOK /\ []FlowInv
  BY TypeCorrect, FlowCorrect, PTL
<1>5. Spec => [][ToRequester!Next]_(ToRequester!promise)
              /\ [][ToResponder!Next]_(ToResponder!promise)
  BY <1>1, <1>2, <1>4, PTL DEF Spec
<1>. QED BY <1>3, <1>5, PTL DEF Spec, PromiseToReceivers, ToRequester!Spec, ToResponder!Spec
=============================================================================
