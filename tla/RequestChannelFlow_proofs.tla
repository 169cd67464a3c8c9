--------------------- MODULE RequestChannelFlow_proofs ---------------------
(***************************************************************************)
(* Theorems about what goes over the wires of RequestChannel: how the two  *)
(* ends agree on which directions have ended, and on demand.               *)
(***************************************************************************)
EXTENDS RequestChannel_proofs

USE DEF End, Requester, Responder

BothOpen == open[Requester] /\ open[Responder]

\* Frames that, once handled at e, have ended its inbound or outbound direction.
EndsIn(e, f) ==
    \/ f.type = "ERROR"
    \/ f.type \in {"REQUEST", "PAYLOAD"} /\ f.complete
    \/ f.type = "CANCEL" /\ e = Responder
EndsOut(f) == f.type \in {"ERROR", "CANCEL"}

BringsEnd(e, q) == \E i \in 1 .. Len(q) : EndsIn(e, q[i])
BringsStop(q) == \E i \in 1 .. Len(q) : EndsOut(q[i])

\* The frames of q tell e, whose stream is r, what has ended at its peer,
\* whose stream is s: it knows, or a frame of q will tell it; and they tell
\* it nothing else.
Announces(q, e, s, r) ==
    /\ s.outDone => r.inDone \/ BringsEnd(e, q)
    /\ s.inDone => r.outDone \/ BringsStop(q)
    /\ BringsEnd(e, q) => s.outDone
    /\ BringsStop(q) => s.inDone

\* A step leads from s to t at one end and sends fs to e, whose stream is r.
Tells(fs, e, s, t, r) ==
    /\ (s.outDone => t.outDone) /\ (s.inDone => t.inDone)
    /\ t.outDone => s.outDone \/ r.inDone \/ BringsEnd(e, fs)
    /\ t.inDone => s.inDone \/ r.outDone \/ BringsStop(fs)
    /\ BringsEnd(e, fs) => t.outDone
    /\ BringsStop(fs) => t.inDone

\* e has done what its frame f says.
Minds(f, e, r) == (EndsIn(e, f) => r.inDone) /\ (EndsOut(f) => r.outDone)

LEMMA JoinedBrings ==
    ASSUME NEW q \in Seq(Frame), NEW fs \in Seq(Frame), NEW e
    PROVE  /\ BringsEnd(e, q \o fs) <=> BringsEnd(e, q) \/ BringsEnd(e, fs)
           /\ BringsStop(q \o fs) <=> BringsStop(q) \/ BringsStop(fs)
<1>. DEFINE r == q \o fs
<1>1. /\ Len(q) \in Nat /\ Len(fs) \in Nat /\ Len(r) = Len(q) + Len(fs)
      /\ \A i \in 1 .. Len(q) : r[i] = q[i]
      /\ \A i \in 1 .. Len(fs) : r[Len(q) + i] = fs[i]
  BY ConcatProperties
<1>. HIDE DEF r
<1>2. ASSUME NEW i \in 1 .. Len(r)
      PROVE  \/ i \in 1 .. Len(q) /\ r[i] = q[i]
             \/ i - Len(q) \in 1 .. Len(fs) /\ r[i] = fs[i - Len(q)]
  <2>1. CASE i > Len(q)
    <3>1. i - Len(q) \in 1 .. Len(fs) /\ Len(q) + (i - Len(q)) = i
      BY <1>1, <2>1
    <3>. QED BY <1>1, <3>1
  <2>2. CASE ~(i > Len(q))
    BY <1>1, <2>2
  <2>. QED BY <2>1, <2>2
<1>3. /\ \A i \in 1 .. Len(q) : i \in 1 .. Len(r) /\ r[i] = q[i]
      /\ \A i \in 1 .. Len(fs) : Len(q) + i \in 1 .. Len(r) /\ r[Len(q) + i] = fs[i]
  BY <1>1
<1>4. BringsEnd(e, r) => BringsEnd(e, q) \/ BringsEnd(e, fs)
  BY <1>2 DEF BringsEnd
<1>5. BringsEnd(e, q) \/ BringsEnd(e, fs) => BringsEnd(e, r)
  BY <1>3 DEF BringsEnd
<1>6. BringsStop(r) => BringsStop(q) \/ BringsStop(fs)
  BY <1>2 DEF BringsStop
<1>7. BringsStop(q) \/ BringsStop(fs) => BringsStop(r)
  BY <1>3 DEF BringsStop
<1>. QED BY <1>4, <1>5, <1>6, <1>7 DEF r

LEMMA TakenBrings ==
    ASSUME NEW q \in Seq(Frame), q # <<>>, NEW e
    PROVE  /\ BringsEnd(e, q) <=> EndsIn(e, q[1]) \/ BringsEnd(e, Tail(q))
           /\ BringsStop(q) <=> EndsOut(q[1]) \/ BringsStop(Tail(q))
<1>. DEFINE r == Tail(q)
<1>1. /\ Len(r) \in Nat /\ Len(q) = Len(r) + 1
      /\ \A i \in 1 .. Len(r) : r[i] = q[i + 1]
  BY Taken
<1>. HIDE DEF r
<1>2. ASSUME NEW i \in 1 .. Len(q)
      PROVE  i = 1 \/ (i - 1 \in 1 .. Len(r) /\ q[i] = r[i - 1])
  <2>1. CASE i > 1
    <3>1. i - 1 \in 1 .. Len(r) /\ (i - 1) + 1 = i
      BY <1>1, <2>1
    <3>. QED BY <1>1, <3>1
  <2>. QED BY <2>1
<1>3. /\ 1 \in 1 .. Len(q)
      /\ \A i \in 1 .. Len(r) : i + 1 \in 1 .. Len(q) /\ q[i + 1] = r[i]
  BY <1>1
<1>4. BringsEnd(e, q) => EndsIn(e, q[1]) \/ BringsEnd(e, r)
  BY <1>2 DEF BringsEnd
<1>5. EndsIn(e, q[1]) \/ BringsEnd(e, r) => BringsEnd(e, q)
  BY <1>3 DEF BringsEnd
<1>6. BringsStop(q) => EndsOut(q[1]) \/ BringsStop(r)
  BY <1>2 DEF BringsStop
<1>7. EndsOut(q[1]) \/ BringsStop(r) => BringsStop(q)
  BY <1>3 DEF BringsStop
<1>. QED BY <1>4, <1>5, <1>6, <1>7 DEF r

LEMMA AnnouncesSent ==
    ASSUME NEW q \in Seq(Frame), NEW fs \in Seq(Frame), NEW e,
           NEW s \in StreamState, NEW t \in StreamState, NEW r \in StreamState,
           Announces(q, e, s, r), Tells(fs, e, s, t, r)
    PROVE  Announces(q \o fs, e, t, r)
BY JoinedBrings DEF Announces, Tells

LEMMA AnnouncesTaken ==
    ASSUME NEW q \in Seq(Frame), q # <<>>, NEW e,
           NEW s \in StreamState, NEW r \in StreamState, NEW t \in StreamState,
           Announces(q, e, s, r), Minds(q[1], e, t),
           r.inDone => t.inDone, r.outDone => t.outDone
    PROVE  Announces(Tail(q), e, s, t)
BY TakenBrings DEF Announces, Minds

LEMMA AnnouncesStill ==
    ASSUME NEW q \in Seq(Frame), NEW e,
           NEW s \in StreamState, NEW r \in StreamState, NEW t \in StreamState,
           Announces(q, e, s, r), r.inDone => t.inDone, r.outDone => t.outDone
    PROVE  Announces(q, e, s, t)
BY DEF Announces

\* What the frames that are sent bring.
LEMMA FramesBring ==
    ASSUME NEW e \in End
    PROVE  /\ ~BringsEnd(e, <<>>) /\ ~BringsStop(<<>>)
           /\ \A f \in Frame : /\ BringsEnd(e, <<f>>) <=> EndsIn(e, f)
                               /\ BringsStop(<<f>>) <=> EndsOut(f)
           /\ \A n \in Nat, c, cut \in BOOLEAN :
                 /\ BringsEnd(e, PayloadFrames(n, c, cut)) <=> c
                 /\ ~BringsStop(PayloadFrames(n, c, cut))
                 /\ BringsEnd(e, RequestFrames(n, c, cut)) <=> c
                 /\ ~BringsStop(RequestFrames(n, c, cut))
           /\ EndsIn(e, ErrorFrame) /\ EndsOut(ErrorFrame)
           /\ EndsIn(Responder, CancelFrame) /\ EndsOut(CancelFrame)
           /\ ~EndsIn(Requester, CancelFrame)
           /\ EndsIn(e, CompleteFrame) /\ ~EndsOut(CompleteFrame)
           /\ ~EndsIn(e, ExtFrame) /\ ~EndsOut(ExtFrame)
           /\ \A n \in Nat : /\ ~EndsIn(e, RequestNFrame(n))
                             /\ ~EndsOut(RequestNFrame(n))
<1>1. ~BringsEnd(e, <<>>) /\ ~BringsStop(<<>>)
  BY DEF BringsEnd, BringsStop
<1>2. ASSUME NEW f \in Frame
      PROVE  (BringsEnd(e, <<f>>) <=> EndsIn(e, f)) /\ (BringsStop(<<f>>) <=> EndsOut(f))
  <2>1. Len(<<f>>) = 1 /\ <<f>>[1] = f /\ \A i : i \in 1 .. 1 <=> i = 1
    OBVIOUS
  <2>. QED BY <2>1 DEF BringsEnd, BringsStop
<1>3. ASSUME NEW n \in Nat, NEW d \in Seq(Nat), NEW a \in BOOLEAN, NEW b \in BOOLEAN,
             NEW c \in BOOLEAN
      PROVE  /\ PayloadFrame(d, a, b, c) \in Frame /\ RequestFrame(n, d, b, c) \in Frame
             /\ EndsIn(e, PayloadFrame(d, a, b, c)) <=> b
             /\ EndsIn(e, RequestFrame(n, d, b, c)) <=> b
             /\ ~EndsOut(PayloadFrame(d, a, b, c)) /\ ~EndsOut(RequestFrame(n, d, b, c))
  BY DEF PayloadFrame, RequestFrame, EndsIn, EndsOut, Frame, FrameTypes
<1>4. ASSUME NEW x \in Frame, NEW y \in Frame
      PROVE  /\ <<x, y>> = <<x>> \o <<y>> /\ <<x>> \in Seq(Frame) /\ <<x, y>> \in Seq(Frame)
             /\ <<y>> \in Seq(Frame)
             /\ BringsEnd(e, <<x, y>>) <=> EndsIn(e, x) \/ EndsIn(e, y)
             /\ BringsStop(<<x, y>>) <=> EndsOut(x) \/ EndsOut(y)
  <2>1. /\ <<x, y>> = <<x>> \o <<y>> /\ <<x>> \in Seq(Frame) /\ <<y>> \in Seq(Frame)
        /\ <<x, y>> \in Seq(Frame)
    BY Joined, ShortSeqs
  <2>. QED BY <1>2, <2>1, JoinedBrings, ZenonT(60)
<1>5. \A n \in Nat : Content(n) \in Seq(Nat) /\ <<n>> \in Seq(Nat) /\ <<>> \in Seq(Nat)
  BY DEF Content
<1>6. ASSUME NEW n \in Nat, NEW c \in BOOLEAN, NEW cut \in BOOLEAN
      PROVE  /\ BringsEnd(e, PayloadFrames(n, c, cut)) <=> c
             /\ ~BringsStop(PayloadFrames(n, c, cut))
  <2>1. CASE cut
    <3>. DEFINE x == PayloadFrame(<<n>>, TRUE, FALSE, TRUE)
                y == PayloadFrame(<<n>>, TRUE, c, FALSE)
    <3>1. /\ x \in Frame /\ y \in Frame
          /\ ~EndsIn(e, x) /\ (EndsIn(e, y) <=> c) /\ ~EndsOut(x) /\ ~EndsOut(y)
      BY <1>3, <1>5
    <3>2. PayloadFrames(n, c, cut) = <<x, y>>
      BY <2>1 DEF PayloadFrames
    <3>. HIDE DEF x, y
    <3>. QED BY <1>4, <3>1, <3>2
  <2>2. CASE ~cut
    BY <1>2, <1>3, <1>5, <2>2 DEF PayloadFrames
  <2>. QED BY <2>1, <2>2
<1>7. ASSUME NEW n \in Nat, NEW c \in BOOLEAN, NEW cut \in BOOLEAN
      PROVE  /\ BringsEnd(e, RequestFrames(n, c, cut)) <=> c
             /\ ~BringsStop(RequestFrames(n, c, cut))
  <2>1. CASE cut
    <3>. DEFINE x == RequestFrame(n, <<>>, FALSE, TRUE)
                y == PayloadFrame(<<1>>, TRUE, FALSE, TRUE)
                z == PayloadFrame(<<1>>, TRUE, c, FALSE)
    <3>1. /\ x \in Frame /\ y \in Frame /\ z \in Frame
          /\ ~EndsIn(e, x) /\ ~EndsIn(e, y) /\ (EndsIn(e, z) <=> c)
          /\ ~EndsOut(x) /\ ~EndsOut(y) /\ ~EndsOut(z)
      BY <1>3, <1>5
    <3>2. RequestFrames(n, c, cut) = <<x, y, z>>
      BY <2>1 DEF RequestFrames
    <3>. HIDE DEF x, y, z
    <3>3. <<x, y, z>> = <<x, y>> \o <<z>>
      BY <3>1
    <3>4. /\ BringsEnd(e, <<x, y, z>>) <=> BringsEnd(e, <<x, y>>) \/ BringsEnd(e, <<z>>)
          /\ BringsStop(<<x, y, z>>) <=> BringsStop(<<x, y>>) \/ BringsStop(<<z>>)
      <4>1. <<x, y>> \in Seq(Frame) /\ <<z>> \in Seq(Frame)
        BY <3>1
      <4>2. ASSUME NEW u \in Seq(Frame), NEW v \in Seq(Frame), NEW w, w = u \o v
            PROVE  /\ BringsEnd(e, w) <=> BringsEnd(e, u) \/ BringsEnd(e, v)
                   /\ BringsStop(w) <=> BringsStop(u) \/ BringsStop(v)
        BY <4>2, JoinedBrings
      <4>. QED BY <3>3, <4>1, <4>2, ZenonT(30)
    <3>5. /\ BringsEnd(e, <<x, y>>) <=> EndsIn(e, x) \/ EndsIn(e, y)
          /\ BringsStop(<<x, y>>) <=> EndsOut(x) \/ EndsOut(y)
      BY <1>4, <3>1
    <3>6. /\ BringsEnd(e, <<z>>) <=> EndsIn(e, z)
          /\ BringsStop(<<z>>) <=> EndsOut(z)
      BY <1>2, <3>1
    <3>. QED BY <3>1, <3>2, <3>4, <3>5, <3>6
  <2>2. CASE ~cut
    BY <1>2, <1>3, <1>5, <2>2 DEF RequestFrames
  <2>. QED BY <2>1, <2>2
<1>8. /\ EndsIn(e, ErrorFrame) /\ EndsOut(ErrorFrame)
      /\ EndsIn(Responder, CancelFrame) /\ EndsOut(CancelFrame)
      /\ ~EndsIn(Requester, CancelFrame)
      /\ EndsIn(e, CompleteFrame) /\ ~EndsOut(CompleteFrame)
      /\ ~EndsIn(e, ExtFrame) /\ ~EndsOut(ExtFrame)
      /\ \A n \in Nat : ~EndsIn(e, RequestNFrame(n)) /\ ~EndsOut(RequestNFrame(n))
  BY DEF EndsIn, EndsOut, ErrorFrame, CancelFrame, CompleteFrame, ExtFrame,
         RequestNFrame, PayloadFrame, Bare
<1>. QED BY <1>1, <1>2, <1>6, <1>7, <1>8

-----------------------------------------------------------------------------
(* Fragments: COMPLETE travels on the last one, and the next one follows.  *)

Cut(q) == \A i \in 1 .. Len(q) : q[i].follows => ~q[i].complete
Contiguous(q) ==
    \A i \in 1 .. Len(q) : q[i].follows =>
       i < Len(q) /\ q[i + 1].type = "PAYLOAD" /\ q[i + 1].next

Sendable(fs) == fs \in Seq(Frame) /\ Cut(fs) /\ Contiguous(fs)

LEMMA JoinedSendable ==
    ASSUME NEW q \in Seq(Frame), NEW fs \in Seq(Frame)
    PROVE  /\ Cut(q) /\ Cut(fs) => Cut(q \o fs)
           /\ Contiguous(q) /\ Contiguous(fs) => Contiguous(q \o fs)
<1>. DEFINE r == q \o fs
<1>1. /\ Len(q) \in Nat /\ Len(fs) \in Nat /\ Len(r) = Len(q) + Len(fs)
      /\ \A i \in 1 .. Len(q) : r[i] = q[i]
      /\ \A i \in 1 .. Len(fs) : r[Len(q) + i] = fs[i]
  BY ConcatProperties
<1>. HIDE DEF r
<1>2. ASSUME NEW i \in 1 .. Len(r), Cut(q), Cut(fs), r[i].follows
      PROVE  ~r[i].complete
  <2>1. CASE i > Len(q)
    <3>1. i - Len(q) \in 1 .. Len(fs) /\ Len(q) + (i - Len(q)) = i
      BY <1>1, <2>1
    <3>2. r[i] = fs[i - Len(q)]
      BY <1>1, <3>1
    <3>. QED BY <1>2, <3>1, <3>2 DEF Cut
  <2>2. CASE i \in 1 .. Len(q)
    BY <1>1, <1>2, <2>2 DEF Cut
  <2>. QED BY <1>1, <2>1, <2>2
<1>3. ASSUME NEW i \in 1 .. Len(r), Contiguous(q), Contiguous(fs), r[i].follows
      PROVE  i < Len(r) /\ r[i + 1].type = "PAYLOAD" /\ r[i + 1].next
  <2>1. CASE i > Len(q)
    <3>. DEFINE j == i - Len(q)
    <3>1. j \in 1 .. Len(fs) /\ Len(q) + j = i /\ Len(q) + (j + 1) = i + 1
      BY <1>1, <2>1
    <3>2. r[i] = fs[j]
      BY <1>1, <3>1
    <3>. HIDE DEF j
    <3>3. j < Len(fs) /\ fs[j + 1].type = "PAYLOAD" /\ fs[j + 1].next
      BY <1>3, <3>1, <3>2 DEF Contiguous
    <3>4. j + 1 \in 1 .. Len(fs) /\ i < Len(r)
      BY <1>1, <3>1, <3>3
    <3>5. r[i + 1] = fs[j + 1]
      BY <1>1, <3>1, <3>4
    <3>. QED BY <3>3, <3>4, <3>5
  <2>2. CASE i \in 1 .. Len(q)
    <3>1. i < Len(q) /\ q[i + 1].type = "PAYLOAD" /\ q[i + 1].next
      BY <1>1, <1>3, <2>2 DEF Contiguous
    <3>2. i + 1 \in 1 .. Len(q) /\ i < Len(r)
      BY <1>1, <3>1
    <3>. QED BY <1>1, <3>1, <3>2
  <2>. QED BY <1>1, <2>1, <2>2
<1>. QED BY <1>2, <1>3 DEF Cut, Contiguous, r

LEMMA TakenSendable ==
    ASSUME NEW q \in Seq(Frame), q # <<>>
    PROVE  /\ Cut(q) => Cut(Tail(q)) /\ (q[1].follows => ~q[1].complete)
           /\ Contiguous(q) =>
                /\ Contiguous(Tail(q))
                /\ q[1].follows => /\ Tail(q) # <<>>
                                   /\ Tail(q)[1].type = "PAYLOAD" /\ Tail(q)[1].next
<1>. DEFINE r == Tail(q)
<1>1. /\ Len(r) \in Nat /\ Len(q) = Len(r) + 1 /\ r \in Seq(Frame)
      /\ \A i \in 1 .. Len(r) : r[i] = q[i + 1]
  BY Taken
<1>. HIDE DEF r
<1>2. 1 \in 1 .. Len(q) /\ \A i \in 1 .. Len(r) : i + 1 \in 1 .. Len(q)
  BY <1>1
<1>3. ASSUME Cut(q) PROVE Cut(r) /\ (q[1].follows => ~q[1].complete)
  BY <1>1, <1>2, <1>3 DEF Cut
<1>4. ASSUME Contiguous(q), NEW i \in 1 .. Len(r), r[i].follows
      PROVE  i < Len(r) /\ r[i + 1].type = "PAYLOAD" /\ r[i + 1].next
  <2>1. /\ i + 1 < Len(q)
        /\ q[(i + 1) + 1].type = "PAYLOAD" /\ q[(i + 1) + 1].next
    BY <1>1, <1>2, <1>4 DEF Contiguous
  <2>2. i + 1 \in 1 .. Len(r) /\ i < Len(r)
    BY <1>1, <2>1
  <2>. QED BY <1>1, <2>1, <2>2
<1>5. ASSUME Contiguous(q), q[1].follows
      PROVE  r # <<>> /\ r[1].type = "PAYLOAD" /\ r[1].next
  <2>1. 1 < Len(q) /\ q[1 + 1].type = "PAYLOAD" /\ q[1 + 1].next
    BY <1>2, <1>5 DEF Contiguous
  <2>2. 1 \in 1 .. Len(r)
    BY <1>1, <2>1
  <2>. QED BY <1>1, <2>1, <2>2
<1>. QED BY <1>3, <1>4, <1>5 DEF Contiguous, r

\* What the ends send.
LEMMA FramesSendable ==
    /\ Sendable(<<>>)
    /\ \A f \in {ErrorFrame, CancelFrame, CompleteFrame, ExtFrame} : Sendable(<<f>>)
    /\ \A n \in Nat : Sendable(<<RequestNFrame(n)>>)
    /\ \A n \in Nat, c, cut \in BOOLEAN : Sendable(PayloadFrames(n, c, cut))
    /\ \A n \in Nat, c, cut, b \in BOOLEAN :
          LET fs == RequestFrames(n, c, cut) \o If(b, ExtFrame)
          IN  Sendable(fs) /\ fs # <<>> /\ fs[1].type = "REQUEST"
<1>1. Sendable(<<>>)
  BY ShortSeqs DEF Sendable, Cut, Contiguous
<1>2. ASSUME NEW f \in Frame, ~f.follows PROVE Sendable(<<f>>)
  <2>1. Len(<<f>>) = 1 /\ <<f>>[1] = f /\ (\A i : i \in 1 .. 1 <=> i = 1)
        /\ <<f>> \in Seq(Frame)
    BY ShortSeqs
  <2>. QED BY <1>2, <2>1 DEF Sendable, Cut, Contiguous
<1>3. ASSUME NEW n \in Nat
      PROVE  \A f \in {ErrorFrame, CancelFrame, CompleteFrame, ExtFrame, RequestNFrame(n)} :
                f \in Frame /\ ~f.follows
  <2>1. /\ ErrorFrame \in Frame /\ CancelFrame \in Frame /\ CompleteFrame \in Frame
        /\ ExtFrame \in Frame /\ RequestNFrame(n) \in Frame
    BY FramesTyped
  <2>2. /\ ~ErrorFrame.follows /\ ~CancelFrame.follows /\ ~CompleteFrame.follows
        /\ ~ExtFrame.follows /\ ~RequestNFrame(n).follows
    BY DEF ErrorFrame, CancelFrame, CompleteFrame, ExtFrame, RequestNFrame, Bare,
           PayloadFrame
  <2>. QED BY <2>1, <2>2
<1>4. ASSUME NEW d \in Seq(Nat), NEW a \in BOOLEAN, NEW b \in BOOLEAN
      PROVE  /\ PayloadFrame(d, TRUE, a, b) \in Frame
             /\ PayloadFrame(d, TRUE, a, b).type = "PAYLOAD"
             /\ PayloadFrame(d, TRUE, a, b).next
             /\ PayloadFrame(d, TRUE, a, b).complete = a
             /\ PayloadFrame(d, TRUE, a, b).follows = b
  BY DEF PayloadFrame, Frame, FrameTypes
<1>4a. ASSUME NEW n \in Nat, NEW d \in Seq(Nat), NEW a \in BOOLEAN, NEW b \in BOOLEAN
       PROVE  /\ RequestFrame(n, d, a, b) \in Frame
              /\ RequestFrame(n, d, a, b).type = "REQUEST"
              /\ RequestFrame(n, d, a, b).complete = a
              /\ RequestFrame(n, d, a, b).follows = b
  BY DEF RequestFrame, Frame, FrameTypes
<1>5. \A n \in Nat : Content(n) \in Seq(Nat) /\ <<n>> \in Seq(Nat) /\ <<>> \in Seq(Nat)
  BY DEF Content
<1>6. ASSUME NEW x \in Frame, NEW y \in Frame, x.follows, ~x.complete,
             y.type = "PAYLOAD", y.next, ~y.follows
      PROVE  Sendable(<<x, y>>)
  <2>1. /\ <<x, y>> \in Seq(Frame) /\ Len(<<x, y>>) = 2
        /\ <<x, y>>[1] = x /\ <<x, y>>[2] = y
        /\ \A i : i \in 1 .. 2 <=> i = 1 \/ i = 2
    BY ShortSeqs
  <2>. QED BY <1>6, <2>1 DEF Sendable, Cut, Contiguous
<1>7. ASSUME NEW n \in Nat, NEW c \in BOOLEAN, NEW cut \in BOOLEAN
      PROVE  Sendable(PayloadFrames(n, c, cut))
  <2>1. CASE cut
    <3>. DEFINE x == PayloadFrame(<<n>>, TRUE, FALSE, TRUE)
                y == PayloadFrame(<<n>>, TRUE, c, FALSE)
    <3>0. x \in Frame /\ x.follows = TRUE /\ x.complete = FALSE
      BY <1>4, <1>5
    <3>1. /\ x \in Frame /\ x.follows = TRUE /\ x.complete = FALSE
          /\ y \in Frame /\ y.type = "PAYLOAD" /\ y.next /\ y.follows = FALSE
      BY <1>4, <1>5, <3>0
    <3>2. PayloadFrames(n, c, cut) = <<x, y>>
      BY <2>1 DEF PayloadFrames
    <3>. HIDE DEF x, y
    <3>. QED BY <1>6, <3>1, <3>2
  <2>2. CASE ~cut
    <3>. DEFINE x == PayloadFrame(Content(n), TRUE, c, FALSE)
    <3>1. x \in Frame /\ x.follows = FALSE
      BY <1>4, <1>5
    <3>2. PayloadFrames(n, c, cut) = <<x>>
      BY <2>2 DEF PayloadFrames
    <3>. HIDE DEF x
    <3>. QED BY <1>2, <3>1, <3>2
  <2>. QED BY <2>1, <2>2
<1>8. ASSUME NEW n \in Nat, NEW c \in BOOLEAN, NEW cut \in BOOLEAN
      PROVE  LET fs == RequestFrames(n, c, cut)
             IN  Sendable(fs) /\ Len(fs) >= 1 /\ fs[1].type = "REQUEST"
  <2>1. CASE cut
    <3>. DEFINE x == RequestFrame(n, <<>>, FALSE, TRUE)
                y == PayloadFrame(<<1>>, TRUE, FALSE, TRUE)
                z == PayloadFrame(<<1>>, TRUE, c, FALSE)
    <3>0. /\ x \in Frame /\ x.type = "REQUEST" /\ x.follows = TRUE
          /\ x.complete = FALSE
      BY <1>4a, <1>5
    <3>0a. /\ y \in Frame /\ y.type = "PAYLOAD" /\ y.next /\ y.follows = TRUE
           /\ y.complete = FALSE
      BY <1>4, <1>5
    <3>0b. z \in Frame /\ z.type = "PAYLOAD" /\ z.next /\ z.follows = FALSE
      BY <1>4, <1>5
    <3>. HIDE DEF x, y, z
    <3>1. /\ x \in Frame /\ x.type = "REQUEST" /\ x.follows = TRUE /\ x.complete = FALSE
          /\ y \in Frame /\ y.type = "PAYLOAD" /\ y.next /\ y.follows = TRUE
          /\ y.complete = FALSE
          /\ z \in Frame /\ z.type = "PAYLOAD" /\ z.next /\ z.follows = FALSE
      BY <3>0, <3>0a, <3>0b
    <3>2. RequestFrames(n, c, cut) = <<x, y, z>>
      BY <2>1 DEF RequestFrames, x, y, z
    <3>3. /\ <<x, y, z>> \in Seq(Frame) /\ Len(<<x, y, z>>) = 3
          /\ <<x, y, z>>[1] = x /\ <<x, y, z>>[2] = y /\ <<x, y, z>>[3] = z
          /\ \A i : i \in 1 .. 3 <=> i = 1 \/ i = 2 \/ i = 3
      BY <3>1, ShortSeqs
    <3>4. Sendable(<<x, y, z>>)
      BY <3>1, <3>3 DEF Sendable, Cut, Contiguous
    <3>. QED BY <3>1, <3>2, <3>3, <3>4
  <2>2. CASE ~cut
    <3>. DEFINE x == RequestFrame(n, Content(1), c, FALSE)
    <3>1. x \in Frame /\ x.follows = FALSE /\ x.type = "REQUEST"
      BY <1>4a, <1>5
    <3>2. RequestFrames(n, c, cut) = <<x>>
      BY <2>2 DEF RequestFrames
    <3>. HIDE DEF x
    <3>. QED BY <1>2, <3>1, <3>2
  <2>. QED BY <2>1, <2>2
<1>9. ASSUME NEW n \in Nat, NEW c \in BOOLEAN, NEW cut \in BOOLEAN, NEW b \in BOOLEAN
      PROVE  LET fs == RequestFrames(n, c, cut) \o If(b, ExtFrame)
             IN  Sendable(fs) /\ fs # <<>> /\ fs[1].type = "REQUEST"
  <2>. DEFINE q == RequestFrames(n, c, cut)
              r == If(b, ExtFrame)
  <2>1. Sendable(q) /\ Len(q) >= 1 /\ q[1].type = "REQUEST"
    BY <1>8
  <2>2. Sendable(r)
    BY <1>1, <1>2, <1>3 DEF If
  <2>. HIDE DEF q, r
  <2>3. Sendable(q \o r)
    BY <2>1, <2>2, JoinedSendable, ConcatProperties DEF Sendable
  <2>4. q \o r # <<>> /\ (q \o r)[1] = q[1]
    <3>1. q \in Seq(Frame) /\ r \in Seq(Frame) /\ 1 \in 1 .. Len(q)
      BY <2>1, <2>2 DEF Sendable
    <3>2. (q \o r)[1] = q[1] /\ Len(q \o r) = Len(q) + Len(r)
      BY <3>1, ConcatProperties
    <3>. QED BY <3>1, <3>2
  <2>. QED BY <2>1, <2>3, <2>4 DEF q, r
<1>. QED BY <1>1, <1>2, <1>3, <1>7, <1>9

-----------------------------------------------------------------------------
(* What a step does to the wires                                           *)

\* e sends fs, after it has taken a frame or not.
Takes(e, fs) == wire[e] # <<>> /\ TakeAndSend(e, fs)
Posts(e, fs) == Send(e, fs) \/ Takes(e, fs)

LEMMA PostsWires ==
    ASSUME TypeOK, NEW e \in End, NEW fs \in Seq(Frame), Posts(e, fs)
    PROVE  /\ Peer(e) \in End /\ Peer(e) # e
           /\ wire' \in [End -> Seq(Frame)]
           /\ BothOpen => wire'[Peer(e)] = wire[Peer(e)] \o fs
           /\ ~BothOpen => wire'[Peer(e)] = wire[Peer(e)]
           /\ Send(e, fs) => wire'[e] = wire[e]
           /\ Takes(e, fs) => wire'[e] = Tail(wire[e])
<1>. /\ wire \in [End -> Seq(Frame)] /\ open \in [End -> BOOLEAN]
     /\ Peer(e) \in End /\ Peer(e) # e
  BY DEF TypeOK, Peer
<1>1. /\ wire' \in [End -> Seq(Frame)]
      /\ wire'[Peer(e)] = wire[Peer(e)] \o Sent(e, fs)
      /\ Send(e, fs) => wire'[e] = wire[e]
      /\ Takes(e, fs) => wire'[e] = Tail(wire[e])
  BY WiresTyped DEF Posts, Takes
<1>2. BothOpen => Sent(e, fs) = fs
  BY DEF Sent, BothOpen, Peer
<1>3. ~BothOpen => Sent(e, fs) = <<>>
  BY DEF Sent, BothOpen, Peer
<1>4. wire[Peer(e)] \o <<>> = wire[Peer(e)]
  BY ConcatEmptySeq
<1>. QED BY <1>1, <1>2, <1>3, <1>4

\* The end e sends fs, or nothing is sent.
Speaks(e, fs) == Sendable(fs) /\ Posts(e, fs) /\ UNCHANGED open

RequesterActs == Answer \/ RequesterCalls \/ RequesterHandles
ResponderActs == ResponderCalls \/ ResponderHandles \/ HandlerEnds

LEMMA ActorsSpeak ==
    ASSUME TypeOK
    PROVE  /\ RequesterActs => \/ UNCHANGED <<wire, open>>
                              \/ \E fs \in Seq(Frame) : Speaks(Requester, fs)
           /\ ResponderActs => \/ UNCHANGED <<wire, open>>
                              \/ \E fs \in Seq(Frame) : Speaks(Responder, fs)
<1>. USE DEF Posts, Takes
<1>1. ASSUME NEW e \in End, NEW fs, Sendable(fs), UNCHANGED open,
             Send(e, fs) \/ (wire[e] # <<>> /\ TakeAndSend(e, fs))
      PROVE  \E gs \in Seq(Frame) : Speaks(e, gs)
  BY <1>1 DEF Speaks, Sendable
<1>2. /\ Sendable(<<>>) /\ Sendable(<<ErrorFrame>>) /\ Sendable(<<CancelFrame>>)
      /\ Sendable(<<CompleteFrame>>) /\ Sendable(<<ExtFrame>>)
  BY FramesSendable
<1>3. ASSUME Answer
      PROVE  \/ UNCHANGED <<wire, open>>
             \/ \E fs \in Seq(Frame) : Speaks(Requester, fs)
  <2>1. CASE HandleReadyDeclined \/ HandleReject
    BY <2>1 DEF HandleReadyDeclined, HandleReject
  <2>2. ASSUME NEW cut \in BOOLEAN, HandleReady(cut)
        PROVE  \E fs \in Seq(Frame) : Speaks(Requester, fs)
    <3>1. held.initialRequestN \in Nat /\ held.isComplete \in BOOLEAN
          /\ held.hasExtension \in BOOLEAN
      BY DEF TypeOK, Held
    <3>2. Sendable(RequestFrames(held.initialRequestN, held.isComplete, cut)
                     \o If(held.hasExtension, ExtFrame))
      BY <3>1, FramesSendable
    <3>. QED BY <1>1, <2>2, <3>2 DEF HandleReady
  <2>. QED BY <1>3, <2>1, <2>2 DEF Answer
<1>4. ASSUME RequesterCalls
      PROVE  \/ UNCHANGED <<wire, open>>
             \/ \E fs \in Seq(Frame) : Speaks(Requester, fs)
  <2>1. ASSUME NEW n \in Demands, RequesterRequest(n)
        PROVE  UNCHANGED <<wire, open>> \/ \E fs \in Seq(Frame) : Speaks(Requester, fs)
    <3>1. Sendable(<<RequestNFrame(n)>>)
      BY BoundsAssumption, FramesSendable
    <3>. QED BY <1>1, <2>1, <3>1 DEF RequesterRequest
  <2>2. ASSUME RequesterCancel
        PROVE  UNCHANGED <<wire, open>> \/ \E fs \in Seq(Frame) : Speaks(Requester, fs)
    <3>1. Sendable(<<IF InDone(Requester) THEN ErrorFrame ELSE CancelFrame>>)
      BY <1>2
    <3>. QED BY <1>1, <2>2, <3>1 DEF RequesterCancel
  <2>3. ASSUME NEW c \in BOOLEAN, NEW cut \in BOOLEAN, RequesterOnNext(c, cut)
        PROVE  \E fs \in Seq(Frame) : Speaks(Requester, fs)
    <3>1. app[Requester].emitted + 1 \in Nat
      BY DEF TypeOK, AppState
    <3>2. Sendable(PayloadFrames(app[Requester].emitted + 1, c, cut))
      BY <3>1, FramesSendable
    <3>. QED BY <1>1, <2>3, <3>2 DEF RequesterOnNext
  <2>4. ASSUME RequesterOnComplete \/ RequesterOnError \/ RequesterOnErrorThrows
                 \/ RequesterOnNextThrows \/ RequesterOnExtension
        PROVE  UNCHANGED <<wire, open>> \/ \E fs \in Seq(Frame) : Speaks(Requester, fs)
    BY <1>1, <1>2, <2>4 DEF RequesterOnComplete, RequesterOnError,
       RequesterOnErrorThrows, RequesterOnNextThrows, RequesterOnExtension
  <2>. QED BY <1>4, <2>1, <2>2, <2>3, <2>4 DEF RequesterCalls
<1>5. ASSUME RequesterHandles
      PROVE  \E fs \in Seq(Frame) : Speaks(Requester, fs)
  <2>1. /\ wire[Requester] # <<>> /\ UNCHANGED open
        /\ TakeAndSend(Requester, <<>>) \/ TakeAndSend(Requester, <<CancelFrame>>)
    BY <1>5 DEF RequesterHandles, RequesterHandlesPayload, RequesterHandlesFragment,
       RequesterHandlesCancel, RequesterHandlesError, RequesterHandlesRequestN,
       RequesterRefusesFrame, RequesterHandlesExtension, DropFrame, Handles, Arrives
  <2>. QED BY <1>1, <1>2, <2>1
<1>6. ASSUME ResponderCalls
      PROVE  \E fs \in Seq(Frame) : Speaks(Responder, fs)
  <2>1. ASSUME NEW n \in Demands, ResponderRequest(n)
        PROVE  \E fs \in Seq(Frame) : Speaks(Responder, fs)
    <3>1. Sendable(<<RequestNFrame(n)>>)
      BY BoundsAssumption, FramesSendable
    <3>. QED BY <1>1, <2>1, <3>1 DEF ResponderRequest
  <2>2. ASSUME NEW c \in BOOLEAN, NEW cut \in BOOLEAN, ResponderOnNext(c, cut)
        PROVE  \E fs \in Seq(Frame) : Speaks(Responder, fs)
    <3>1. app[Responder].emitted + 1 \in Nat
      BY DEF TypeOK, AppState
    <3>2. Sendable(PayloadFrames(app[Responder].emitted + 1, c, cut))
      BY <3>1, FramesSendable
    <3>. QED BY <1>1, <2>2, <3>2 DEF ResponderOnNext
  <2>3. ASSUME ResponderCancel \/ ResponderOnComplete \/ ResponderOnError
                 \/ ResponderOnExtension
        PROVE  \E fs \in Seq(Frame) : Speaks(Responder, fs)
    BY <1>1, <1>2, <2>3 DEF ResponderCancel, ResponderOnComplete, ResponderOnError,
       ResponderOnExtension
  <2>. QED BY <1>6, <2>1, <2>2, <2>3 DEF ResponderCalls
<1>7. ASSUME ResponderHandles
      PROVE  \E fs \in Seq(Frame) : Speaks(Responder, fs)
  <2>1. /\ wire[Responder] # <<>> /\ UNCHANGED open
        /\ TakeAndSend(Responder, <<>>) \/ TakeAndSend(Responder, <<ErrorFrame>>)
    BY <1>7 DEF ResponderHandles, ResponderRejects, ResponderRefusesDemand,
       ResponderReceivesFirstFragment, ResponderReceivesRequest,
       ResponderReassemblesRequest, CallHandler, ResponderHandlesFragment,
       ResponderHandlesPayload, ResponderHandlesEnd, ResponderHandlesRequestN,
       ResponderRefusesFrame, ResponderHandlesExtension, DropFrame, Handles, Arrives
  <2>. QED BY <1>1, <1>2, <2>1
<1>8. ASSUME HandlerEnds
      PROVE  UNCHANGED <<wire, open>> \/ \E fs \in Seq(Frame) : Speaks(Responder, fs)
  <2>1. Sendable(<<IF OutDone(Responder) THEN CancelFrame ELSE ErrorFrame>>)
    BY <1>2
  <2>. QED BY <1>1, <1>8, <2>1 DEF HandlerEnds, HandlerReturns, HandlerThrows
<1>. QED BY <1>3, <1>4, <1>5, <1>6, <1>7, <1>8 DEF RequesterActs, ResponderActs

LEMMA StepsSpeak ==
    ASSUME TypeOK, Next
    PROVE  \/ UNCHANGED <<wire, open>>
           \/ \E e \in End, fs \in Seq(Frame) : Speaks(e, fs)
           \/ \E e \in End : Close(e)
<1>1. RequesterActs \/ ResponderActs \/ \E e \in End : Close(e)
  BY DEF Next, RequesterActs, ResponderActs
<1>. QED BY <1>1, ActorsSpeak

\* Closing an end leaves a prefix of what was on its way to it.
LEMMA CloseWires ==
    ASSUME TypeOK, NEW e \in End, Close(e)
    PROVE  /\ open' \in [End -> BOOLEAN] /\ ~open'[e] /\ ~BothOpen'
           /\ open'[Peer(e)] = open[Peer(e)] /\ Peer(e) \in End /\ Peer(e) # e
           /\ wire' \in [End -> Seq(Frame)]
           /\ wire'[Peer(e)] = wire[Peer(e)]
           /\ Len(wire'[e]) <= Len(wire[e])
           /\ \A i \in 1 .. Len(wire'[e]) : wire'[e][i] = wire[e][i]
           /\ ~Chunked => wire'[e] = <<>>
<1>1. Disconnect(e, Chunked) /\ Chunked \in BOOLEAN
  BY BoundsAssumption DEF Close
<1>2. wire \in [End -> Seq(Frame)] /\ open \in [End -> BOOLEAN]
      /\ Peer(e) \in End /\ Peer(e) # e
  BY DEF TypeOK, Peer
<1>3. /\ open' \in [End -> BOOLEAN] /\ ~open'[e]
      /\ open'[Peer(e)] = open[Peer(e)]
      /\ wire' \in [End -> Seq(Frame)]
      /\ wire'[Peer(e)] = wire[Peer(e)]
      /\ Len(wire'[e]) <= Len(wire[e])
      /\ \A i \in 1 .. Len(wire'[e]) : wire'[e][i] = wire[e][i]
      /\ ~Chunked => wire'[e] = <<>>
  BY <1>1, <1>2, DisconnectTyped
<1>. QED BY <1>2, <1>3 DEF BothOpen

\* COMPLETE travels on last fragments only, and the fragments of a payload
\* follow each other on the way to an open end.
CutInv == \A e \in End : /\ Cut(wire[e])
                         /\ open[e] => Contiguous(wire[e])

LEMMA CutSteps == TypeOK /\ CutInv /\ Next => CutInv'
<1>. SUFFICES ASSUME TypeOK, CutInv, Next PROVE CutInv'
  OBVIOUS
<1>. wire \in [End -> Seq(Frame)]
  BY DEF TypeOK
<1>1. CASE UNCHANGED <<wire, open>>
  BY <1>1 DEF CutInv
<1>2. ASSUME NEW e \in End, NEW fs \in Seq(Frame), Speaks(e, fs) PROVE CutInv'
  <2>1. Sendable(fs) /\ Posts(e, fs) /\ UNCHANGED open
    BY <1>2 DEF Speaks
  <2>. DEFINE p == Peer(e)
  <2>2. /\ p \in End /\ p # e /\ wire'[p] \in {wire[p], wire[p] \o fs}
        /\ wire'[e] = wire[e] \/ (wire[e] # <<>> /\ wire'[e] = Tail(wire[e]))
    BY <2>1, PostsWires DEF Posts, Takes
  <2>. HIDE DEF p
  <2>3. Cut(wire'[p]) /\ (open[p] => Contiguous(wire'[p]))
    BY <2>1, <2>2, JoinedSendable DEF CutInv, Sendable
  <2>4. Cut(wire'[e]) /\ (open[e] => Contiguous(wire'[e]))
    BY <2>2, TakenSendable DEF CutInv
  <2>5. \A d \in End : d = e \/ d = p
    BY <2>2
  <2>. QED BY <2>1, <2>3, <2>4, <2>5 DEF CutInv
<1>3. ASSUME NEW e \in End, Close(e) PROVE CutInv'
  <2>. DEFINE p == Peer(e)
  <2>1. /\ ~open'[e] /\ open'[p] = open[p] /\ p \in End /\ p # e
        /\ wire'[p] = wire[p]
        /\ wire'[e] \in Seq(Frame) /\ Len(wire'[e]) <= Len(wire[e])
        /\ \A i \in 1 .. Len(wire'[e]) : wire'[e][i] = wire[e][i]
    BY <1>3, CloseWires
  <2>. HIDE DEF p
  <2>2. \A i \in 1 .. Len(wire'[e]) : i \in 1 .. Len(wire[e])
    BY <2>1
  <2>3. Cut(wire'[e])
    BY <2>1, <2>2 DEF CutInv, Cut
  <2>4. \A d \in End : d = e \/ d = p
    BY <2>1
  <2>. QED BY <2>1, <2>3, <2>4 DEF CutInv
<1>. QED BY <1>1, <1>2, <1>3, StepsSpeak

-----------------------------------------------------------------------------
(* The request comes first                                                 *)

(***************************************************************************)
(* Nothing goes either way before the request; between two open ends the   *)
(* request, once sent, stays first on its wire until the responder takes   *)
(* it; and a handler that has thrown has left the stream over.             *)
(***************************************************************************)
RequestInv ==
    /\ phase # "ready" => wire[Responder] = <<>> /\ served = "none"
    /\ served = "none" => wire[Requester] = <<>>
    /\ served = "threw" => Over(Responder)
    /\ BothOpen /\ phase = "ready" /\ served = "none" => wire[Responder] # <<>>
    /\ served = "none" /\ wire[Responder] # <<>>
         => wire[Responder][1].type = "REQUEST"

\* A step of the requester after its stream has an id.
LEMMA RequesterKeepsRequest ==
    ASSUME TypeOK, RequestInv, phase = "ready", UNCHANGED <<phase, served, open>>,
           NEW fs \in Seq(Frame), Posts(Requester, fs),
           stream'[Responder] = stream[Responder]
    PROVE  RequestInv'
<1>. DEFINE q == wire[Responder]
<1>1. q \in Seq(Frame) /\ Peer(Requester) = Responder
  BY DEF TypeOK, Peer
<1>2. /\ BothOpen => wire'[Responder] = q \o fs
      /\ ~BothOpen => wire'[Responder] = q
      /\ Send(Requester, fs) => wire'[Requester] = wire[Requester]
  BY <1>1, PostsWires
<1>3. q # <<>> => q \o fs # <<>> /\ (q \o fs)[1] = q[1]
  <2>1. ASSUME q # <<>> PROVE 1 \in 1 .. Len(q)
    BY <1>1, <2>1
  <2>. HIDE DEF q
  <2>. QED BY <1>1, <2>1, ConcatProperties, EmptySeq
<1>4. served = "none" => wire'[Requester] = <<>>
  BY <1>2 DEF RequestInv, Posts, Takes
<1>5. served = "none" /\ BothOpen => q # <<>>
  BY DEF RequestInv
<1>. HIDE DEF q
<1>6. /\ BothOpen /\ served = "none" => wire'[Responder] # <<>>
      /\ served = "none" /\ wire'[Responder] # <<>>
           => wire'[Responder][1].type = "REQUEST"
  BY <1>2, <1>3, <1>5 DEF RequestInv, q
<1>. QED BY <1>4, <1>6 DEF RequestInv, BothOpen, Over, InDone, OutDone

\* A step after the responder has taken the request.
LEMMA ResponderKeepsRequest ==
    ASSUME RequestInv, served # "none" \/ wire[Responder] # <<>>,
           UNCHANGED <<phase, open>>, served' # "none",
           served' = "threw" => stream'[Responder].inDone /\ stream'[Responder].outDone
    PROVE  RequestInv'
BY DEF RequestInv, Over, InDone, OutDone

LEMMA RequestSteps == TypeOK /\ RegistryInv /\ RequestInv /\ Next => RequestInv'
<1>. SUFFICES ASSUME TypeOK, RegistryInv, RequestInv, Next PROVE RequestInv'
  OBVIOUS
<1>. /\ wire \in [End -> Seq(Frame)] /\ open \in [End -> BOOLEAN]
     /\ stream \in [End -> StreamState] /\ Peer(Requester) = Responder
     /\ Peer(Responder) = Requester
  BY DEF TypeOK, Peer
<1>. DEFINE Quiet == /\ UNCHANGED <<served, open, wire>>
                     /\ phase' = "ready" <=> phase = "ready"
                     /\ served = "threw" => stream'[Responder] = stream[Responder]
<1>1. ASSUME Quiet PROVE RequestInv'
  BY <1>1 DEF RequestInv, BothOpen, Over, InDone, OutDone
<1>2. Effects(Requester) /\ Effects(Responder) /\ Responder \in End \ {Requester}
      /\ Requester \in End \ {Responder}
  BY StreamEffects
<1>3. /\ \A b \in BOOLEAN :
            /\ OutEnds(Requester, b)[Responder] = stream[Responder]
            /\ Ended(Requester, b)[Responder] = stream[Responder]
      /\ \A b, r \in BOOLEAN : Finished(Requester, b, r)[Responder] = stream[Responder]
      /\ BothEnd(Requester)[Responder] = stream[Responder]
  BY <1>2 DEF Effects
<1>12. /\ stream[Responder].inDone =>
             /\ InEnds(Responder)[Responder].inDone
             /\ \A b \in BOOLEAN : OutEnds(Responder, b)[Responder].inDone
             /\ \A b, r \in BOOLEAN : Finished(Responder, b, r)[Responder].inDone
       /\ stream[Responder].outDone =>
             /\ InEnds(Responder)[Responder].outDone
             /\ \A b \in BOOLEAN : OutEnds(Responder, b)[Responder].outDone
             /\ \A b, r \in BOOLEAN : Finished(Responder, b, r)[Responder].outDone
       /\ BothEnd(Responder)[Responder].inDone /\ BothEnd(Responder)[Responder].outDone
       /\ \A b \in BOOLEAN : /\ Ended(Responder, b)[Responder].inDone
                              /\ Ended(Responder, b)[Responder].outDone
                              /\ Ended(Requester, b)[Responder] = stream[Responder]
  <2>1. /\ stream[Responder].inDone \in BOOLEAN /\ stream[Responder].outDone \in BOOLEAN
        /\ InEnds(Responder)[Responder].inDone
        /\ InEnds(Responder)[Responder].outDone = stream[Responder].outDone
        /\ BothEnd(Responder)[Responder].inDone /\ BothEnd(Responder)[Responder].outDone
    BY <1>2 DEF Effects
  <2>2. ASSUME NEW b \in BOOLEAN
        PROVE  /\ Ended(Responder, b)[Responder].inDone
               /\ Ended(Responder, b)[Responder].outDone
               /\ OutEnds(Responder, b)[Responder].inDone = stream[Responder].inDone
               /\ OutEnds(Responder, b)[Responder].outDone = (stream[Responder].outDone \/ b)
    BY <1>2 DEF Effects
  <2>3. ASSUME NEW b \in BOOLEAN, NEW r \in BOOLEAN
        PROVE  /\ Finished(Responder, b, r)[Responder].inDone = (stream[Responder].inDone \/ b)
               /\ Finished(Responder, b, r)[Responder].outDone = stream[Responder].outDone
    BY <1>2 DEF Effects
  <2>. QED BY <1>3, <2>1, <2>2, <2>3
<1>4. ASSUME NEW cut \in BOOLEAN, HandleReady(cut) PROVE RequestInv'
  <2>. DEFINE fs == RequestFrames(held.initialRequestN, held.isComplete, cut)
                      \o If(held.hasExtension, ExtFrame)
  <2>1. held.initialRequestN \in Nat /\ held.isComplete \in BOOLEAN
        /\ held.hasExtension \in BOOLEAN
    BY DEF TypeOK, Held
  <2>2. Sendable(fs) /\ fs # <<>> /\ fs[1].type = "REQUEST"
    <3>. DEFINE n == held.initialRequestN
                c == held.isComplete
                b == held.hasExtension
    <3>1. n \in Nat /\ c \in BOOLEAN /\ b \in BOOLEAN
      BY <2>1
    <3>2. fs = RequestFrames(n, c, cut) \o If(b, ExtFrame)
      OBVIOUS
    <3>. HIDE DEF n, c, b, fs
    <3>. QED BY <3>1, <3>2, FramesSendable, ZenonT(60)
  <2>3. Send(Requester, fs)
    BY <1>4 DEF HandleReady
  <2>4. /\ phase # "ready" /\ phase' = "ready" /\ UNCHANGED <<served, open>>
        /\ stream' = [stream EXCEPT ![Requester] = [@ EXCEPT !.registered = TRUE,
                                                       !.outDone = held.isComplete]]
    BY <1>4 DEF HandleReady
  <2>. HIDE DEF fs
  <2>5. fs \in Seq(Frame) /\ Posts(Requester, fs)
    BY <2>2, <2>3 DEF Sendable, Posts
  <2>6. wire[Responder] = <<>> /\ served = "none" /\ wire[Requester] = <<>>
    BY <2>4 DEF RequestInv
  <2>7. /\ BothOpen => wire'[Responder] = wire[Responder] \o fs
        /\ ~BothOpen => wire'[Responder] = <<>>
        /\ wire'[Requester] = <<>>
    BY <2>3, <2>5, <2>6, PostsWires
  <2>8. wire[Responder] \o fs = fs
    BY <2>5, <2>6, ConcatEmptySeq
  <2>. QED BY <2>2, <2>4, <2>6, <2>7, <2>8 DEF RequestInv, BothOpen
<1>5. ASSUME HandleReadyDeclined \/ HandleReject PROVE RequestInv'
  <2>1. Quiet
    BY <1>3, <1>5 DEF HandleReadyDeclined, HandleReject
  <2>. QED BY <1>1, <2>1
<1>6. ASSUME RequesterCalls PROVE RequestInv'
  <2>1. ASSUME NEW n \in Demands, RequesterRequest(n) PROVE RequestInv'
    <3>1. CASE phase # "ready"
      <4>1. Quiet
        BY <2>1, <3>1 DEF RequesterRequest
      <4>. QED BY <1>1, <4>1
    <3>2. CASE phase = "ready"
      <4>1. <<RequestNFrame(n)>> \in Seq(Frame)
        BY BoundsAssumption, FramesSendable DEF Sendable
      <4>2. /\ Send(Requester, <<RequestNFrame(n)>>) /\ UNCHANGED <<phase, served, open>>
            /\ stream' = stream
        BY <2>1, <3>2 DEF RequesterRequest
      <4>. QED BY <3>2, <4>1, <4>2, RequesterKeepsRequest DEF Posts
    <3>. QED BY <3>1, <3>2
  <2>2. ASSUME RequesterCancel PROVE RequestInv'
    <3>1. CASE phase # "ready"
      <4>1. Quiet
        BY <1>3, <2>2, <3>1 DEF RequesterCancel
      <4>. QED BY <1>1, <4>1
    <3>2. CASE phase = "ready"
      <4>. DEFINE fs == <<IF InDone(Requester) THEN ErrorFrame ELSE CancelFrame>>
      <4>1. fs \in Seq(Frame)
        BY FramesSendable DEF Sendable
      <4>2. /\ Send(Requester, fs) /\ UNCHANGED <<phase, served, open>>
            /\ stream' = Ended(Requester, FALSE)
        BY <2>2, <3>2 DEF RequesterCancel
      <4>. QED BY <1>3, <3>2, <4>1, <4>2, RequesterKeepsRequest DEF Posts
    <3>. QED BY <3>1, <3>2
  <2>3. ASSUME NEW c \in BOOLEAN, NEW cut \in BOOLEAN, RequesterOnNext(c, cut)
        PROVE  RequestInv'
    <3>. DEFINE fs == PayloadFrames(app[Requester].emitted + 1, c, cut)
    <3>1. app[Requester].emitted + 1 \in Nat
      BY DEF TypeOK, AppState
    <3>2. fs \in Seq(Frame)
      BY <3>1, FramesSendable DEF Sendable
    <3>3. /\ phase = "ready" /\ Send(Requester, fs) /\ UNCHANGED <<phase, served, open>>
          /\ stream' = OutEnds(Requester, c)
      BY <2>3 DEF RequesterOnNext
    <3>. QED BY <1>3, <3>2, <3>3, RequesterKeepsRequest DEF Posts
  <2>4. ASSUME RequesterOnErrorThrows \/ RequesterOnNextThrows PROVE RequestInv'
    <3>1. Quiet
      BY <1>3, <2>4 DEF RequesterOnErrorThrows, RequesterOnNextThrows
    <3>. QED BY <1>1, <3>1
  <2>5. ASSUME RequesterOnComplete PROVE RequestInv'
    <3>1. CASE phase # "ready"
      <4>1. Quiet
        BY <2>5, <3>1 DEF RequesterOnComplete
      <4>. QED BY <1>1, <4>1
    <3>2. CASE phase = "ready"
      <4>1. <<CompleteFrame>> \in Seq(Frame)
        BY FramesSendable DEF Sendable
      <4>2. /\ Send(Requester, <<CompleteFrame>>) /\ UNCHANGED <<phase, served, open>>
            /\ stream' = OutEnds(Requester, TRUE)
        BY <2>5, <3>2 DEF RequesterOnComplete
      <4>. QED BY <1>3, <3>2, <4>1, <4>2, RequesterKeepsRequest DEF Posts
    <3>. QED BY <3>1, <3>2
  <2>6. ASSUME RequesterOnError PROVE RequestInv'
    <3>1. <<ErrorFrame>> \in Seq(Frame)
      BY FramesSendable DEF Sendable
    <3>2. /\ phase = "ready" /\ Send(Requester, <<ErrorFrame>>)
          /\ UNCHANGED <<phase, served, open>> /\ stream' = BothEnd(Requester)
      BY <2>6 DEF RequesterOnError
    <3>. QED BY <1>3, <3>1, <3>2, RequesterKeepsRequest DEF Posts
  <2>7. ASSUME RequesterOnExtension PROVE RequestInv'
    <3>1. CASE phase # "ready"
      <4>1. Quiet
        BY <2>7, <3>1 DEF RequesterOnExtension
      <4>. QED BY <1>1, <4>1
    <3>2. CASE phase = "ready"
      <4>1. <<ExtFrame>> \in Seq(Frame)
        BY FramesSendable DEF Sendable
      <4>2. /\ Send(Requester, <<ExtFrame>>) /\ UNCHANGED <<phase, served, open, stream>>
        BY <2>7, <3>2 DEF RequesterOnExtension
      <4>. QED BY <3>2, <4>1, <4>2, RequesterKeepsRequest DEF Posts
    <3>. QED BY <3>1, <3>2
  <2>. QED BY <1>6, <2>1, <2>2, <2>3, <2>4, <2>5, <2>6, <2>7 DEF RequesterCalls
<1>7. ASSUME RequesterHandles PROVE RequestInv'
  <2>1. /\ wire[Requester] # <<>> /\ UNCHANGED <<phase, served, open>>
        /\ TakeAndSend(Requester, <<>>) \/ TakeAndSend(Requester, <<CancelFrame>>)
    BY <1>7 DEF RequesterHandles, RequesterHandlesPayload, RequesterHandlesFragment,
       RequesterHandlesCancel, RequesterHandlesError, RequesterHandlesRequestN,
       RequesterRefusesFrame, RequesterHandlesExtension, DropFrame, Handles, Arrives
  <2>2. Head(wire[Requester]).complete \in BOOLEAN
        /\ Head(wire[Requester]).next \in BOOLEAN
    <3>1. Head(wire[Requester]) \in Frame
      BY <2>1
    <3>. QED BY <3>1, FrameFields
  <2>3. stream'[Responder] = stream[Responder]
    <3>1. CASE RequesterHandlesPayload
      BY <1>3, <2>2, <3>1 DEF RequesterHandlesPayload
    <3>2. CASE RequesterHandlesFragment
      BY <3>2 DEF RequesterHandlesFragment, Extended
    <3>3. CASE RequesterHandlesCancel
      BY <1>3, <3>3 DEF RequesterHandlesCancel
    <3>4. CASE RequesterHandlesError
      BY <1>3, <3>4 DEF RequesterHandlesError
    <3>5. CASE RequesterHandlesRequestN
      BY <1>3, <3>5 DEF RequesterHandlesRequestN, RequesterRefusesFrame
    <3>6. CASE RequesterHandlesExtension \/ DropFrame(Requester)
      BY <3>6 DEF RequesterHandlesExtension, DropFrame
    <3>. QED BY <1>7, <3>1, <3>2, <3>3, <3>4, <3>5, <3>6 DEF RequesterHandles
  <2>4. phase = "ready"
    BY <2>1 DEF RequestInv
  <2>5. <<>> \in Seq(Frame) /\ <<CancelFrame>> \in Seq(Frame)
    BY FramesSendable DEF Sendable
  <2>. QED BY <2>1, <2>3, <2>4, <2>5, RequesterKeepsRequest DEF Posts, Takes
<1>8. ASSUME ResponderCalls PROVE RequestInv'
  <2>1. /\ HasStream /\ UNCHANGED <<phase, served, open>>
        /\ \/ UNCHANGED stream
           \/ stream' = InEnds(Responder)
           \/ \E b \in BOOLEAN : stream' = OutEnds(Responder, b)
           \/ stream' = BothEnd(Responder)
    BY <1>8 DEF ResponderCalls, ResponderRequest, ResponderCancel, ResponderOnNext,
       ResponderOnComplete, ResponderOnError, ResponderOnExtension
  <2>2. Over(Responder) => stream'[Responder].inDone /\ stream'[Responder].outDone
    BY <1>12, <2>1 DEF Over, InDone, OutDone
  <2>3. served # "none" /\ (served = "threw" => Over(Responder))
    BY <2>1 DEF HasStream, RequestInv
  <2>. QED BY <2>1, <2>2, <2>3, ResponderKeepsRequest
<1>9. ASSUME HandlerEnds PROVE RequestInv'
  <2>1. CASE HandlerReturns
    BY <2>1, ResponderKeepsRequest DEF HandlerReturns
  <2>2. CASE HandlerThrows
    <3>1. stream' = BothEnd(Responder) \/ (stream' = stream /\ Over(Responder))
      BY <2>2 DEF HandlerThrows
    <3>2. stream'[Responder].inDone /\ stream'[Responder].outDone
      BY <1>2, <3>1 DEF Effects, Over, InDone, OutDone
    <3>. QED BY <2>2, <3>2, ResponderKeepsRequest DEF HandlerThrows
  <2>. QED BY <1>9, <2>1, <2>2 DEF HandlerEnds
<1>10. ASSUME ResponderHandles PROVE RequestInv'
  <2>1. wire[Responder] # <<>> /\ UNCHANGED <<phase, open>>
    BY <1>10 DEF ResponderHandles, ResponderRejects, ResponderRefusesDemand,
       ResponderReceivesFirstFragment, ResponderReceivesRequest,
       ResponderReassemblesRequest, ResponderHandlesFragment,
       ResponderHandlesPayload, ResponderHandlesEnd, ResponderHandlesRequestN,
       ResponderHandlesExtension, DropFrame, Handles, Arrives
  <2>2. CASE ResponderRejects \/ ResponderRefusesDemand
             \/ ResponderReceivesFirstFragment \/ ResponderReceivesRequest
             \/ ResponderReassemblesRequest
    <3>1. served' \notin {"none", "threw"}
      BY <2>2 DEF ResponderRejects, ResponderRefusesDemand, CallHandler,
         ResponderReceivesFirstFragment, ResponderReceivesRequest,
         ResponderReassemblesRequest
    <3>. QED BY <2>1, <3>1, ResponderKeepsRequest
  <2>3. CASE DropFrame(Responder)
    <3>1. Head(wire[Responder]) = wire[Responder][1] /\ wire[Responder][1].type # "REQUEST"
          /\ UNCHANGED <<served, stream>>
      BY <2>3 DEF DropFrame
    <3>2. served # "none"
      BY <2>1, <3>1 DEF RequestInv
    <3>. QED BY <2>1, <3>1, <3>2, ResponderKeepsRequest DEF RequestInv, Over,
                InDone, OutDone
  <2>4. ASSUME UNCHANGED served, stream[Responder].registered,
               \/ UNCHANGED stream
               \/ stream' = Extended(Responder, Head(wire[Responder]).data)
               \/ stream' = Ended(Responder, FALSE)
               \/ \E b, r \in BOOLEAN : stream' = Finished(Responder, b, r)
        PROVE  RequestInv'
    <3>1. Over(Responder) => stream'[Responder].inDone /\ stream'[Responder].outDone
      <4>1. CASE stream' = Extended(Responder, Head(wire[Responder]).data)
        BY <4>1 DEF Extended, Over, InDone, OutDone
      <4>2. CASE UNCHANGED stream \/ stream' = Ended(Responder, FALSE)
        BY <1>12, <4>2 DEF Over, InDone, OutDone
      <4>3. CASE \E b, r \in BOOLEAN : stream' = Finished(Responder, b, r)
        BY <1>12, <4>3 DEF Over, InDone, OutDone
      <4>. QED BY <2>4, <4>1, <4>2, <4>3
    <3>2. served # "none" /\ (served = "threw" => Over(Responder))
      BY <2>4 DEF RequestInv, RegistryInv, Fresh
    <3>. QED BY <2>1, <2>4, <3>1, <3>2, ResponderKeepsRequest
  <2>5. Head(wire[Responder]).complete \in BOOLEAN
    <3>1. Head(wire[Responder]) \in Frame
      BY <2>1
    <3>. QED BY <3>1, FrameFields
  <2>6. CASE ResponderHandlesFragment \/ ResponderHandlesPayload \/ ResponderHandlesEnd
             \/ ResponderHandlesRequestN \/ ResponderHandlesExtension
    BY <2>4, <2>5, <2>6 DEF ResponderHandlesFragment, ResponderHandlesPayload,
       ResponderHandlesEnd, ResponderHandlesRequestN, ResponderHandlesExtension,
       ResponderRefusesFrame, Handles
  <2>. QED BY <1>10, <2>2, <2>3, <2>6 DEF ResponderHandles
<1>11. ASSUME NEW e \in End, Close(e) PROVE RequestInv'
  <2>1. /\ ~BothOpen' /\ wire' \in [End -> Seq(Frame)]
        /\ wire'[Peer(e)] = wire[Peer(e)]
        /\ Len(wire'[e]) <= Len(wire[e])
        /\ \A i \in 1 .. Len(wire'[e]) : wire'[e][i] = wire[e][i]
    BY <1>11, CloseWires
  <2>2. /\ UNCHANGED <<phase, served>>
        /\ stream' = Ended(e, TRUE) \/ stream' = stream
    BY <1>11 DEF Close
  <2>3. Over(Responder) => stream'[Responder].inDone /\ stream'[Responder].outDone
    BY <1>12, <2>2 DEF Over, InDone, OutDone
  <2>4. \A d \in End : /\ wire[d] = <<>> => wire'[d] = <<>>
                       /\ wire'[d] # <<>> => wire[d] # <<>> /\ wire'[d][1] = wire[d][1]
    <3>1. ASSUME wire'[e] # <<>> PROVE wire[e] # <<>> /\ wire'[e][1] = wire[e][1]
      <4>1. 1 \in 1 .. Len(wire'[e])
        BY <2>1, <3>1
      <4>. QED BY <2>1, <4>1
    <3>2. \A d \in End : d = e \/ d = Peer(e)
      BY DEF Peer
    <3>. QED BY <2>1, <3>1, <3>2
  <2>. QED BY <2>1, <2>2, <2>3, <2>4 DEF RequestInv, Over, InDone, OutDone
<1>. QED BY <1>4, <1>5, <1>6, <1>7, <1>8, <1>9, <1>10, <1>11 DEF Next, Answer

-----------------------------------------------------------------------------
(* Half-closing                                                            *)

(***************************************************************************)
(* Between two open ends that serve the request, the frames under way to   *)
(* an end tell it exactly what has ended at the other one and it does not  *)
(* know yet.                                                               *)
(***************************************************************************)
HalfInv ==
    BothOpen /\ phase = "ready" /\ served # "refused"
    => \A e \in End : Announces(wire[e], e, stream[Peer(e)], stream[e])

\* Where the hypotheses of HalfInv hold.
Talking == TypeOK /\ HalfInv /\ BothOpen /\ phase = "ready" /\ served # "refused"

\* What has arrived has happened at the peer.
LEMMA HeadSays ==
    ASSUME Talking, NEW e \in End, wire[e] # <<>>
    PROVE  /\ Head(wire[e]) = wire[e][1] /\ wire[e][1] \in Frame
           /\ EndsIn(e, wire[e][1]) => stream[Peer(e)].outDone
           /\ EndsOut(wire[e][1]) => stream[Peer(e)].inDone
<1>. DEFINE q == wire[e]
<1>1. q \in Seq(Frame) /\ q # <<>>
  BY DEF Talking, TypeOK
<1>2. Announces(q, e, stream[Peer(e)], stream[e])
  BY DEF Talking, HalfInv
<1>. HIDE DEF q
<1>3. Head(q) = q[1] /\ q[1] \in Frame
  BY <1>1, Taken
<1>4. /\ EndsIn(e, q[1]) => stream[Peer(e)].outDone
      /\ EndsOut(q[1]) => stream[Peer(e)].inDone
  BY <1>1, <1>2, TakenBrings DEF Announces
<1>. QED BY <1>3, <1>4 DEF q

LEMMA HalfKept ==
    ASSUME Talking, stream' \in [End -> StreamState],
           NEW e \in End, NEW fs \in Seq(Frame), UNCHANGED open,
           Send(e, fs) \/ (Takes(e, fs) /\ Minds(wire[e][1], e, stream'[e])),
           stream'[Peer(e)] = stream[Peer(e)],
           Tells(fs, Peer(e), stream[e], stream'[e], stream[Peer(e)])
    PROVE  HalfInv'
<1>. DEFINE p == Peer(e)
            q == wire[e]
<1>1. /\ p \in End /\ p # e /\ Peer(p) = e /\ Peer(e) = p
      /\ \A d \in End : d = e \/ d = p
  BY DEF Peer
<1>2. /\ wire'[p] = wire[p] \o fs
      /\ \/ wire'[e] = q
         \/ q # <<>> /\ wire'[e] = Tail(q) /\ Minds(q[1], e, stream'[e])
  BY PostsWires DEF Posts, Takes, Talking
<1>3. /\ wire[p] \in Seq(Frame) /\ q \in Seq(Frame)
      /\ stream[e] \in StreamState /\ stream[p] \in StreamState
      /\ stream'[e] \in StreamState /\ stream'[p] = stream[p]
  BY <1>1 DEF Talking, TypeOK
<1>4. Announces(wire[p], p, stream[e], stream[p]) /\ Announces(q, e, stream[p], stream[e])
  BY <1>1 DEF Talking, HalfInv
<1>5. Tells(fs, p, stream[e], stream'[e], stream[p])
  OBVIOUS
<1>. HIDE DEF p, q
<1>6. Announces(wire'[p], p, stream'[e], stream'[p])
  BY <1>2, <1>3, <1>4, <1>5, AnnouncesSent
<1>7. /\ stream[e].inDone => stream'[e].inDone
      /\ stream[e].outDone => stream'[e].outDone
  BY <1>5 DEF Tells
<1>8. Announces(wire'[e], e, stream'[p], stream'[e])
  <2>1. CASE wire'[e] = q
    BY <1>3, <1>4, <1>7, <2>1, AnnouncesStill
  <2>2. CASE q # <<>> /\ wire'[e] = Tail(q) /\ Minds(q[1], e, stream'[e])
    BY <1>3, <1>4, <1>7, <2>2, AnnouncesTaken
  <2>. QED BY <1>2, <2>1, <2>2
<1>9. \A d \in End : Announces(wire'[d], d, stream'[Peer(d)], stream'[d])
  BY <1>1, <1>6, <1>8
<1>. QED BY <1>9 DEF HalfInv

\* Nothing that HalfInv reads has changed.
LEMMA HalfStill ==
    HalfInv /\ UNCHANGED <<phase, stream, wire, open>>
      /\ (served' # "refused" => served # "refused")
    => HalfInv'
BY DEF HalfInv, BothOpen

LEMMA RequesterCallsHalf ==
    ASSUME Talking, TypeOK', RequesterCalls
    PROVE  HalfInv'
<1>. DEFINE s == stream[Requester]
            r == stream[Responder]
<1>1. /\ phase = "ready" /\ Peer(Requester) = Responder
      /\ stream' \in [End -> StreamState]
      /\ Effects(Requester) /\ Responder \in End \ {Requester}
      /\ s.inDone \in BOOLEAN /\ s.outDone \in BOOLEAN
  BY StreamEffects DEF Talking, Peer, TypeOK, StreamState
<1>2. ASSUME NEW fs \in Seq(Frame), Send(Requester, fs), UNCHANGED open,
             stream'[Responder] = r, Tells(fs, Responder, s, stream'[Requester], r)
      PROVE  HalfInv'
  BY <1>1, <1>2, HalfKept
<1>. USE FramesBring
<1>3. ASSUME NEW n \in Demands, RequesterRequest(n) PROVE HalfInv'
  <2>1. <<RequestNFrame(n)>> \in Seq(Frame) /\ n \in Nat /\ RequestNFrame(n) \in Frame
    BY BoundsAssumption, FramesSendable, FramesTyped DEF Sendable
  <2>2. /\ Send(Requester, <<RequestNFrame(n)>>) /\ UNCHANGED open /\ stream' = stream
    BY <1>1, <1>3 DEF RequesterRequest
  <2>3. /\ ~BringsEnd(Responder, <<RequestNFrame(n)>>)
        /\ ~BringsStop(<<RequestNFrame(n)>>)
    BY <2>1
  <2>4. Tells(<<RequestNFrame(n)>>, Responder, s, stream'[Requester], r)
    BY <2>2, <2>3 DEF Tells
  <2>. QED BY <1>2, <2>1, <2>2, <2>4
<1>4. ASSUME RequesterCancel PROVE HalfInv'
  <2>. DEFINE f == IF InDone(Requester) THEN ErrorFrame ELSE CancelFrame
  <2>1. <<f>> \in Seq(Frame) /\ ErrorFrame \in Frame /\ CancelFrame \in Frame
    BY FramesTyped
  <2>2. /\ Send(Requester, <<f>>) /\ UNCHANGED open
        /\ stream' = Ended(Requester, FALSE)
    BY <1>1, <1>4 DEF RequesterCancel
  <2>3. BringsEnd(Responder, <<f>>) /\ BringsStop(<<f>>)
    BY <2>1
  <2>4. /\ stream'[Requester].inDone /\ stream'[Requester].outDone
        /\ stream'[Responder] = r
    BY <1>1, <2>2 DEF Effects
  <2>5. Tells(<<f>>, Responder, s, stream'[Requester], r)
    BY <2>3, <2>4 DEF Tells
  <2>. QED BY <1>2, <2>1, <2>2, <2>4, <2>5
<1>5. ASSUME NEW c \in BOOLEAN, NEW cut \in BOOLEAN, RequesterOnNext(c, cut)
      PROVE  HalfInv'
  <2>. DEFINE n == app[Requester].emitted + 1
              fs == PayloadFrames(n, c, cut)
  <2>1. n \in Nat
    <3>1. app[Requester] \in AppState
      BY DEF Talking, TypeOK
    <3>. QED BY <3>1 DEF AppState
  <2>. HIDE DEF n
  <2>2. fs \in Seq(Frame)
    BY <2>1, FramesTyped
  <2>3. /\ Send(Requester, fs) /\ UNCHANGED open /\ stream' = OutEnds(Requester, c)
    BY <1>5 DEF RequesterOnNext, n
  <2>4. (BringsEnd(Responder, fs) <=> c) /\ ~BringsStop(fs)
    BY <2>1
  <2>5. /\ stream'[Requester].inDone = s.inDone
        /\ stream'[Requester].outDone = (s.outDone \/ c)
        /\ stream'[Responder] = r
    BY <1>1, <2>3 DEF Effects
  <2>6. Tells(fs, Responder, s, stream'[Requester], r)
    BY <1>1, <2>4, <2>5 DEF Tells
  <2>. QED BY <1>2, <2>2, <2>3, <2>5, <2>6
<1>6. ASSUME RequesterOnComplete PROVE HalfInv'
  <2>1. <<CompleteFrame>> \in Seq(Frame) /\ CompleteFrame \in Frame
    BY FramesTyped
  <2>2. /\ Send(Requester, <<CompleteFrame>>) /\ UNCHANGED open
        /\ stream' = OutEnds(Requester, TRUE)
    BY <1>1, <1>6 DEF RequesterOnComplete
  <2>3. BringsEnd(Responder, <<CompleteFrame>>) /\ ~BringsStop(<<CompleteFrame>>)
    BY <2>1
  <2>4. /\ stream'[Requester].inDone = s.inDone
        /\ stream'[Requester].outDone
        /\ stream'[Responder] = r
    BY <1>1, <2>2 DEF Effects
  <2>5. Tells(<<CompleteFrame>>, Responder, s, stream'[Requester], r)
    BY <1>1, <2>3, <2>4 DEF Tells
  <2>. QED BY <1>2, <2>1, <2>2, <2>4, <2>5
<1>7. ASSUME RequesterOnError PROVE HalfInv'
  <2>1. <<ErrorFrame>> \in Seq(Frame) /\ ErrorFrame \in Frame
    BY FramesTyped
  <2>2. /\ Send(Requester, <<ErrorFrame>>) /\ UNCHANGED open
        /\ stream' = BothEnd(Requester)
    BY <1>7 DEF RequesterOnError
  <2>3. BringsEnd(Responder, <<ErrorFrame>>) /\ BringsStop(<<ErrorFrame>>)
    BY <2>1
  <2>4. /\ stream'[Requester].inDone /\ stream'[Requester].outDone
        /\ stream'[Responder] = r
    BY <1>1, <2>2 DEF Effects
  <2>5. Tells(<<ErrorFrame>>, Responder, s, stream'[Requester], r)
    BY <2>3, <2>4 DEF Tells
  <2>. QED BY <1>2, <2>1, <2>2, <2>4, <2>5
<1>8. ASSUME RequesterOnExtension PROVE HalfInv'
  <2>1. <<ExtFrame>> \in Seq(Frame) /\ ExtFrame \in Frame
    BY FramesTyped
  <2>2. Send(Requester, <<ExtFrame>>) /\ UNCHANGED open /\ stream' = stream
    BY <1>1, <1>8 DEF RequesterOnExtension
  <2>3. ~BringsEnd(Responder, <<ExtFrame>>) /\ ~BringsStop(<<ExtFrame>>)
    BY <2>1
  <2>4. Tells(<<ExtFrame>>, Responder, s, stream'[Requester], r)
    BY <2>2, <2>3 DEF Tells
  <2>. QED BY <1>2, <2>1, <2>2, <2>4
<1>. QED BY <1>1, <1>3, <1>4, <1>5, <1>6, <1>7, <1>8
         DEF RequesterCalls, RequesterOnErrorThrows, RequesterOnNextThrows

LEMMA RequesterHandlesHalf ==
    ASSUME Talking, RegistryInv, TypeOK', RequesterHandles
    PROVE  HalfInv'
<1>. DEFINE s == stream[Requester]
            r == stream[Responder]
            f == Head(wire[Requester])
<1>1. /\ wire[Requester] # <<>> /\ UNCHANGED open
      /\ stream' \in [End -> StreamState] /\ stream \in [End -> StreamState]
      /\ Effects(Requester) /\ Responder \in End \ {Requester}
      /\ s.inDone \in BOOLEAN /\ s.outDone \in BOOLEAN /\ Peer(Requester) = Responder
  <2>1. wire[Requester] # <<>> /\ UNCHANGED open
    BY DEF RequesterHandles, RequesterHandlesPayload, RequesterHandlesFragment,
       RequesterHandlesCancel, RequesterHandlesError, RequesterHandlesRequestN,
       RequesterHandlesExtension, DropFrame, Handles, Arrives
  <2>. QED BY <2>1, StreamEffects DEF Talking, TypeOK, StreamState, Peer
<1>2. /\ f = wire[Requester][1] /\ f \in Frame
      /\ EndsIn(Requester, f) => r.outDone
      /\ EndsOut(f) => r.inDone
  BY <1>1, HeadSays
<1>3. ASSUME NEW fs \in Seq(Frame), TakeAndSend(Requester, fs),
             stream'[Responder] = r, Tells(fs, Responder, s, stream'[Requester], r),
             Minds(f, Requester, stream'[Requester])
      PROVE  HalfInv'
  BY <1>1, <1>2, <1>3, HalfKept DEF Takes
<1>4. f.complete \in BOOLEAN /\ f.next \in BOOLEAN /\ f.follows \in BOOLEAN
  BY <1>2, FrameFields
<1>. HIDE DEF f
<1>5. /\ <<>> \in Seq(Frame) /\ <<CancelFrame>> \in Seq(Frame) /\ CancelFrame \in Frame
      /\ ~BringsEnd(Responder, <<>>) /\ ~BringsStop(<<>>)
      /\ BringsEnd(Responder, <<CancelFrame>>) /\ BringsStop(<<CancelFrame>>)
  <2>1. <<>> \in Seq(Frame) /\ <<CancelFrame>> \in Seq(Frame) /\ CancelFrame \in Frame
    BY FramesTyped, ShortSeqs
  <2>. QED BY <2>1, FramesBring
<1>6. ASSUME RequesterHandlesPayload PROVE HalfInv'
  <2>1. /\ f.type = "PAYLOAD" /\ TakeAndSend(Requester, <<>>)
        /\ stream' = Finished(Requester, f.complete, ~f.complete \/ f.next)
    BY <1>6 DEF RequesterHandlesPayload, Handles, Arrives, f
  <2>2. /\ stream'[Requester].inDone = (s.inDone \/ f.complete)
        /\ stream'[Requester].outDone = s.outDone
        /\ stream'[Responder] = r
    BY <1>1, <1>4, <2>1, ZenonT(60) DEF Effects
  <2>3. Tells(<<>>, Responder, s, stream'[Requester], r)
    BY <1>1, <1>2, <1>4, <1>5, <2>1, <2>2 DEF Tells, EndsIn
  <2>4. Minds(f, Requester, stream'[Requester])
    BY <1>1, <1>4, <2>1, <2>2 DEF Minds, EndsIn, EndsOut
  <2>. QED BY <1>3, <1>5, <2>1, <2>2, <2>3, <2>4
<1>7. ASSUME RequesterHandlesFragment PROVE HalfInv'
  <2>1. /\ f.type = "PAYLOAD" /\ ~f.complete /\ TakeAndSend(Requester, <<>>)
        /\ stream' = Extended(Requester, f.data)
    BY <1>7 DEF RequesterHandlesFragment, Handles, Arrives, f
  <2>2. /\ stream'[Requester].inDone = s.inDone
        /\ stream'[Requester].outDone = s.outDone
        /\ stream'[Responder] = r
    BY <1>1, <2>1 DEF Extended, StreamState
  <2>3. Tells(<<>>, Responder, s, stream'[Requester], r)
    BY <1>5, <2>2 DEF Tells
  <2>4. Minds(f, Requester, stream'[Requester])
    BY <2>1 DEF Minds, EndsIn, EndsOut
  <2>. QED BY <1>3, <1>5, <2>1, <2>2, <2>3, <2>4
<1>8. ASSUME RequesterHandlesCancel PROVE HalfInv'
  <2>1. /\ f.type = "CANCEL" /\ TakeAndSend(Requester, <<>>)
        /\ \/ OutDone(Requester) /\ stream' = stream
           \/ stream' = OutEnds(Requester, TRUE)
    BY <1>8 DEF RequesterHandlesCancel, Handles, Arrives, f
  <2>2. /\ stream'[Requester].inDone = s.inDone
        /\ stream'[Requester].outDone
        /\ stream'[Responder] = r
    <3>1. CASE OutDone(Requester) /\ stream' = stream
      BY <3>1 DEF OutDone
    <3>2. CASE stream' = OutEnds(Requester, TRUE)
      BY <1>1, <3>2 DEF Effects
    <3>. QED BY <2>1, <3>1, <3>2
  <2>3. Tells(<<>>, Responder, s, stream'[Requester], r)
    BY <1>2, <1>5, <2>1, <2>2 DEF Tells, EndsOut
  <2>4. Minds(f, Requester, stream'[Requester])
    BY <2>1, <2>2 DEF Minds, EndsIn, EndsOut
  <2>. QED BY <1>3, <1>5, <2>1, <2>2, <2>3, <2>4
<1>9. ASSUME RequesterHandlesError PROVE HalfInv'
  <2>1. /\ f.type = "ERROR" /\ TakeAndSend(Requester, <<>>)
        /\ stream' = Ended(Requester, FALSE)
    BY <1>9 DEF RequesterHandlesError, Handles, Arrives, f
  <2>2. /\ stream'[Requester].inDone /\ stream'[Requester].outDone
        /\ stream'[Responder] = r
    BY <1>1, <2>1 DEF Effects
  <2>3. Tells(<<>>, Responder, s, stream'[Requester], r)
    BY <1>2, <1>5, <2>1, <2>2 DEF Tells, EndsOut, EndsIn
  <2>4. Minds(f, Requester, stream'[Requester])
    BY <2>2 DEF Minds
  <2>. QED BY <1>3, <1>5, <2>1, <2>2, <2>3, <2>4
<1>10. ASSUME stream' = stream, TakeAndSend(Requester, <<>>),
              Over(Requester) \/ f.type \in {"REQUEST_N", "EXT"}
       PROVE  HalfInv'
  <2>1. Tells(<<>>, Responder, s, stream'[Requester], r)
    BY <1>5, <1>10 DEF Tells
  <2>2. Minds(f, Requester, stream'[Requester])
    BY <1>10 DEF Minds, EndsIn, EndsOut, Over, InDone, OutDone
  <2>. QED BY <1>3, <1>5, <1>10, <2>1, <2>2
<1>11. ASSUME RequesterHandlesRequestN PROVE HalfInv'
  <2>1. CASE RequesterRefusesFrame
    <3>1. TakeAndSend(Requester, <<CancelFrame>>) /\ stream' = Ended(Requester, FALSE)
      BY <2>1 DEF RequesterRefusesFrame
    <3>2. /\ stream'[Requester].inDone /\ stream'[Requester].outDone
          /\ stream'[Responder] = r
      BY <1>1, <3>1 DEF Effects
    <3>3. Tells(<<CancelFrame>>, Responder, s, stream'[Requester], r)
      BY <1>5, <3>2 DEF Tells
    <3>4. Minds(f, Requester, stream'[Requester])
      BY <3>2 DEF Minds
    <3>. QED BY <1>3, <1>5, <3>1, <3>2, <3>3, <3>4
  <2>2. CASE ~RequesterRefusesFrame
    BY <1>10, <1>11, <2>2 DEF RequesterHandlesRequestN, Handles, Arrives, f
  <2>. QED BY <2>1, <2>2
<1>12. ASSUME RequesterHandlesExtension PROVE HalfInv'
  BY <1>10, <1>12 DEF RequesterHandlesExtension, Handles, Arrives, f
<1>13. ASSUME DropFrame(Requester) PROVE HalfInv'
  <2>1. Over(Requester)
    BY <1>13 DEF DropFrame, RegistryInv, RegistryExact, Started, Talking, BothOpen
  <2>. QED BY <1>10, <1>13, <2>1 DEF DropFrame
<1>. QED BY <1>6, <1>7, <1>8, <1>9, <1>11, <1>12, <1>13 DEF RequesterHandles

LEMMA ResponderCallsHalf ==
    ASSUME Talking, TypeOK', ResponderCalls \/ HandlerEnds
    PROVE  HalfInv'
<1>. DEFINE s == stream[Responder]
            r == stream[Requester]
<1>1. /\ phase = "ready" /\ Peer(Responder) = Requester
      /\ stream' \in [End -> StreamState]
      /\ Effects(Responder) /\ Requester \in End \ {Responder}
      /\ s.inDone \in BOOLEAN /\ s.outDone \in BOOLEAN
  BY StreamEffects DEF Talking, Peer, TypeOK, StreamState
<1>2. ASSUME NEW fs \in Seq(Frame), Send(Responder, fs), UNCHANGED open,
             stream'[Requester] = r, Tells(fs, Requester, s, stream'[Responder], r)
      PROVE  HalfInv'
  BY <1>1, <1>2, HalfKept
<1>3. /\ stream' = BothEnd(Responder) =>
           /\ stream'[Responder].inDone /\ stream'[Responder].outDone
           /\ stream'[Requester] = r
      /\ stream' = InEnds(Responder) =>
           /\ stream'[Responder].inDone /\ stream'[Responder].outDone = s.outDone
           /\ stream'[Requester] = r
  BY <1>1 DEF Effects
<1>4. ASSUME NEW c \in BOOLEAN, stream' = OutEnds(Responder, c)
      PROVE  /\ stream'[Responder].inDone = s.inDone
             /\ stream'[Responder].outDone = (s.outDone \/ c)
             /\ stream'[Requester] = r
  BY <1>1, <1>4 DEF Effects
<1>5. /\ <<CancelFrame>> \in Seq(Frame) /\ CancelFrame \in Frame
      /\ <<ErrorFrame>> \in Seq(Frame) /\ ErrorFrame \in Frame
      /\ <<CompleteFrame>> \in Seq(Frame) /\ CompleteFrame \in Frame
      /\ <<ExtFrame>> \in Seq(Frame) /\ ExtFrame \in Frame
  BY FramesTyped, ShortSeqs
<1>6. /\ ~BringsEnd(Requester, <<CancelFrame>>) /\ BringsStop(<<CancelFrame>>)
      /\ BringsEnd(Requester, <<ErrorFrame>>) /\ BringsStop(<<ErrorFrame>>)
      /\ BringsEnd(Requester, <<CompleteFrame>>) /\ ~BringsStop(<<CompleteFrame>>)
      /\ ~BringsEnd(Requester, <<ExtFrame>>) /\ ~BringsStop(<<ExtFrame>>)
  BY <1>5, FramesBring
<1>7. ASSUME NEW n \in Demands, ResponderRequest(n) PROVE HalfInv'
  <2>1. <<RequestNFrame(n)>> \in Seq(Frame) /\ n \in Nat /\ RequestNFrame(n) \in Frame
    BY BoundsAssumption, FramesSendable, FramesTyped DEF Sendable
  <2>2. /\ Send(Responder, <<RequestNFrame(n)>>) /\ UNCHANGED open /\ stream' = stream
    BY <1>7 DEF ResponderRequest
  <2>3. /\ ~BringsEnd(Requester, <<RequestNFrame(n)>>)
        /\ ~BringsStop(<<RequestNFrame(n)>>)
    BY <2>1, FramesBring
  <2>4. Tells(<<RequestNFrame(n)>>, Requester, s, stream'[Responder], r)
    BY <2>2, <2>3 DEF Tells
  <2>. QED BY <1>2, <2>1, <2>2, <2>4
<1>8. ASSUME ResponderCancel PROVE HalfInv'
  <2>1. /\ Send(Responder, <<CancelFrame>>) /\ UNCHANGED open
        /\ stream' = InEnds(Responder)
    BY <1>8 DEF ResponderCancel
  <2>2. Tells(<<CancelFrame>>, Requester, s, stream'[Responder], r)
    BY <1>1, <1>3, <1>6, <2>1 DEF Tells
  <2>. QED BY <1>2, <1>3, <1>5, <2>1, <2>2
<1>9. ASSUME NEW c \in BOOLEAN, NEW cut \in BOOLEAN, ResponderOnNext(c, cut)
      PROVE  HalfInv'
  <2>. DEFINE n == app[Responder].emitted + 1
              fs == PayloadFrames(n, c, cut)
  <2>1. n \in Nat
    <3>1. app[Responder] \in AppState
      BY DEF Talking, TypeOK
    <3>. QED BY <3>1 DEF AppState
  <2>. HIDE DEF n
  <2>2. fs \in Seq(Frame)
    BY <2>1, FramesTyped
  <2>3. /\ Send(Responder, fs) /\ UNCHANGED open /\ stream' = OutEnds(Responder, c)
    BY <1>9 DEF ResponderOnNext, n
  <2>4. (BringsEnd(Requester, fs) <=> c) /\ ~BringsStop(fs)
    BY <2>1, FramesBring
  <2>5. /\ stream'[Responder].inDone = s.inDone
        /\ stream'[Responder].outDone = (s.outDone \/ c)
        /\ stream'[Requester] = r
    BY <1>4, <2>3
  <2>6. Tells(fs, Requester, s, stream'[Responder], r)
    BY <1>1, <2>4, <2>5 DEF Tells
  <2>. QED BY <1>2, <2>2, <2>3, <2>5, <2>6
<1>10. ASSUME ResponderOnComplete PROVE HalfInv'
  <2>1. /\ Send(Responder, <<CompleteFrame>>) /\ UNCHANGED open
        /\ stream' = OutEnds(Responder, TRUE)
    BY <1>10 DEF ResponderOnComplete
  <2>2. /\ stream'[Responder].inDone = s.inDone
        /\ stream'[Responder].outDone
        /\ stream'[Requester] = r
    BY <1>4, <2>1
  <2>3. Tells(<<CompleteFrame>>, Requester, s, stream'[Responder], r)
    BY <1>1, <1>6, <2>2 DEF Tells
  <2>. QED BY <1>2, <1>5, <2>1, <2>2, <2>3
<1>11. ASSUME ResponderOnError PROVE HalfInv'
  <2>1. /\ Send(Responder, <<ErrorFrame>>) /\ UNCHANGED open
        /\ stream' = BothEnd(Responder)
    BY <1>11 DEF ResponderOnError
  <2>2. Tells(<<ErrorFrame>>, Requester, s, stream'[Responder], r)
    BY <1>3, <1>6, <2>1 DEF Tells
  <2>. QED BY <1>2, <1>3, <1>5, <2>1, <2>2
<1>12. ASSUME ResponderOnExtension PROVE HalfInv'
  <2>1. Send(Responder, <<ExtFrame>>) /\ UNCHANGED open /\ stream' = stream
    BY <1>12 DEF ResponderOnExtension
  <2>2. Tells(<<ExtFrame>>, Requester, s, stream'[Responder], r)
    BY <1>6, <2>1 DEF Tells
  <2>. QED BY <1>2, <1>5, <2>1, <2>2
<1>13. ASSUME HandlerEnds PROVE HalfInv'
  <2>1. CASE UNCHANGED <<stream, wire>>
    BY <1>13, <2>1, HalfStill DEF HandlerEnds, HandlerReturns, HandlerThrows, Talking
  <2>2. CASE HandlerThrows /\ stream' = BothEnd(Responder)
    <3>. DEFINE f == IF OutDone(Responder) THEN CancelFrame ELSE ErrorFrame
    <3>1. Send(Responder, <<f>>) \/ UNCHANGED <<stream, wire>>
      BY <2>2 DEF HandlerThrows
    <3>2. UNCHANGED open
      BY <2>2 DEF HandlerThrows
    <3>3. Tells(<<f>>, Requester, s, stream'[Responder], r)
      BY <1>3, <1>6, <2>2 DEF Tells, OutDone
    <3>4. <<f>> \in Seq(Frame)
      BY <1>5
    <3>. HIDE DEF f
    <3>. QED BY <1>2, <1>3, <2>1, <2>2, <3>1, <3>2, <3>3, <3>4
  <2>. QED BY <1>13, <2>1, <2>2 DEF HandlerEnds, HandlerReturns, HandlerThrows
<1>. QED BY <1>7, <1>8, <1>9, <1>10, <1>11, <1>12, <1>13 DEF ResponderCalls

LEMMA ResponderHandlesHalf ==
    ASSUME Talking, RegistryInv, RequestInv, CutInv, ~first.isComplete,
           TypeOK', ResponderHandles
    PROVE  HalfInv'
<1>. DEFINE s == stream[Responder]
            r == stream[Requester]
            f == Head(wire[Responder])
<1>1. /\ wire[Responder] # <<>> /\ UNCHANGED open
      /\ stream' \in [End -> StreamState] /\ stream \in [End -> StreamState]
      /\ Effects(Responder) /\ Requester \in End \ {Responder}
      /\ s.inDone \in BOOLEAN /\ s.outDone \in BOOLEAN /\ Peer(Responder) = Requester
  <2>1. wire[Responder] # <<>> /\ UNCHANGED open
    BY DEF ResponderHandles, ResponderRejects, ResponderRefusesDemand,
       ResponderReceivesFirstFragment, ResponderReceivesRequest,
       ResponderReassemblesRequest, ResponderHandlesFragment,
       ResponderHandlesPayload, ResponderHandlesEnd, ResponderHandlesRequestN,
       ResponderHandlesExtension, DropFrame, Handles, Arrives
  <2>. QED BY <2>1, StreamEffects DEF Talking, TypeOK, StreamState, Peer
<1>2. /\ f = wire[Responder][1] /\ f \in Frame
      /\ EndsIn(Responder, f) => r.outDone
      /\ EndsOut(f) => r.inDone
  BY <1>1, HeadSays
<1>3. ASSUME NEW fs \in Seq(Frame), TakeAndSend(Responder, fs),
             stream'[Requester] = r, Tells(fs, Requester, s, stream'[Responder], r),
             Minds(f, Responder, stream'[Responder])
      PROVE  HalfInv'
  BY <1>1, <1>2, <1>3, HalfKept DEF Takes
<1>4. /\ f.complete \in BOOLEAN /\ f.next \in BOOLEAN /\ f.follows \in BOOLEAN
      /\ f.follows => ~f.complete
  <2>1. wire[Responder] \in Seq(Frame) /\ Cut(wire[Responder])
    BY DEF Talking, TypeOK, CutInv
  <2>2. f.follows => ~f.complete
    BY <1>1, <1>2, <2>1, TakenSendable
  <2>. QED BY <1>2, <2>2, FrameFields
<1>5. /\ <<>> \in Seq(Frame) /\ <<ErrorFrame>> \in Seq(Frame) /\ ErrorFrame \in Frame
      /\ ~BringsEnd(Requester, <<>>) /\ ~BringsStop(<<>>)
      /\ BringsEnd(Requester, <<ErrorFrame>>) /\ BringsStop(<<ErrorFrame>>)
  <2>1. <<>> \in Seq(Frame) /\ <<ErrorFrame>> \in Seq(Frame) /\ ErrorFrame \in Frame
    BY FramesTyped, ShortSeqs
  <2>. QED BY <2>1, FramesBring
<1>. HIDE DEF f
\* A request or payload frame that is taken, COMPLETE or not.
<1>6. ASSUME f.type \in {"REQUEST", "PAYLOAD"}, TakeAndSend(Responder, <<>>),
             stream'[Responder].inDone = (s.inDone \/ f.complete),
             stream'[Responder].outDone = s.outDone, stream'[Requester] = r
      PROVE  HalfInv'
  <2>1. Tells(<<>>, Requester, s, stream'[Responder], r)
    BY <1>1, <1>2, <1>4, <1>5, <1>6 DEF Tells, EndsIn
  <2>2. Minds(f, Responder, stream'[Responder])
    BY <1>1, <1>4, <1>6 DEF Minds, EndsIn, EndsOut
  <2>. QED BY <1>3, <1>5, <1>6, <2>1, <2>2
<1>7. ASSUME stream' = stream, TakeAndSend(Responder, <<>>),
             Over(Responder) \/ f.type \in {"REQUEST_N", "EXT"}
      PROVE  HalfInv'
  <2>1. Tells(<<>>, Requester, s, stream'[Responder], r)
    BY <1>5, <1>7 DEF Tells
  <2>2. Minds(f, Responder, stream'[Responder])
    BY <1>7 DEF Minds, EndsIn, EndsOut, Over, InDone, OutDone
  <2>. QED BY <1>3, <1>5, <1>7, <2>1, <2>2
<1>8. ASSUME ResponderRefusesFrame PROVE HalfInv'
  <2>1. TakeAndSend(Responder, <<ErrorFrame>>) /\ stream' = Ended(Responder, FALSE)
    BY <1>8 DEF ResponderRefusesFrame
  <2>2. /\ stream'[Responder].inDone /\ stream'[Responder].outDone
        /\ stream'[Requester] = r
    BY <1>1, <2>1 DEF Effects
  <2>3. Tells(<<ErrorFrame>>, Requester, s, stream'[Responder], r)
    BY <1>5, <2>2 DEF Tells
  <2>4. Minds(f, Responder, stream'[Responder])
    BY <2>2 DEF Minds
  <2>. QED BY <1>3, <1>5, <2>1, <2>2, <2>3, <2>4
<1>9. ASSUME NEW b \in BOOLEAN, stream' = Finished(Responder, f.complete, b)
      PROVE  /\ stream'[Responder].inDone = (s.inDone \/ f.complete)
             /\ stream'[Responder].outDone = s.outDone
             /\ stream'[Requester] = r
  BY <1>1, <1>4, <1>9 DEF Effects
<1>10. ASSUME ResponderRejects \/ ResponderRefusesDemand PROVE HalfInv'
  BY <1>10 DEF ResponderRejects, ResponderRefusesDemand, HalfInv
<1>11. ASSUME ResponderReceivesFirstFragment PROVE HalfInv'
  <2>1. /\ f.type = "REQUEST" /\ f.follows /\ TakeAndSend(Responder, <<>>)
        /\ stream' = [stream EXCEPT ![Responder] =
                        [@ EXCEPT !.registered = TRUE, !.hasFragments = TRUE,
                                  !.fragments = f.data]]
    BY <1>11 DEF ResponderReceivesFirstFragment, Arrives, f
  <2>2. /\ stream'[Responder].inDone = s.inDone
        /\ stream'[Responder].outDone = s.outDone
        /\ stream'[Requester] = r
    BY <1>1, <2>1 DEF StreamState
  <2>. QED BY <1>1, <1>4, <1>6, <2>1, <2>2
<1>12. ASSUME ResponderReceivesRequest PROVE HalfInv'
  <2>1. /\ f.type = "REQUEST" /\ TakeAndSend(Responder, <<>>) /\ served = "none"
        /\ stream' = [stream EXCEPT ![Responder] =
                        [@ EXCEPT !.registered = TRUE, !.inDone = f.complete]]
    BY <1>12 DEF ResponderReceivesRequest, CallHandler, Arrives, f
  <2>2. s.inDone = FALSE
    BY <1>1, <2>1 DEF RegistryInv, Fresh, InDone
  <2>3. /\ stream'[Responder].inDone = f.complete
        /\ stream'[Responder].outDone = s.outDone
        /\ stream'[Requester] = r
    BY <1>1, <2>1 DEF StreamState
  <2>. QED BY <1>4, <1>6, <2>1, <2>2, <2>3
<1>13. ASSUME ResponderReassemblesRequest PROVE HalfInv'
  <2>. DEFINE c == first.isComplete \/ f.complete
  <2>1. /\ f.type = "PAYLOAD" /\ TakeAndSend(Responder, <<>>)
        /\ stream' = Finished(Responder, c, TRUE)
    BY <1>13 DEF ResponderReassemblesRequest, CallHandler, Handles, Arrives, f
  <2>2. c = f.complete
    BY <1>4 DEF Talking, TypeOK, First
  <2>. HIDE DEF c
  <2>. QED BY <1>6, <1>9, <2>1, <2>2
<1>14. ASSUME ResponderHandlesFragment PROVE HalfInv'
  <2>1. /\ f.type = "PAYLOAD" /\ f.follows /\ TakeAndSend(Responder, <<>>)
        /\ stream' = Extended(Responder, f.data)
    BY <1>14 DEF ResponderHandlesFragment, Handles, Arrives, f
  <2>2. /\ stream'[Responder].inDone = s.inDone
        /\ stream'[Responder].outDone = s.outDone
        /\ stream'[Requester] = r
    BY <1>1, <2>1 DEF Extended, StreamState
  <2>. QED BY <1>1, <1>4, <1>6, <2>1, <2>2
<1>15. ASSUME ResponderHandlesPayload PROVE HalfInv'
  <2>1. /\ f.type = "PAYLOAD" /\ TakeAndSend(Responder, <<>>)
        /\ stream' = Finished(Responder, f.complete, TRUE)
    BY <1>15 DEF ResponderHandlesPayload, Handles, Arrives, f
  <2>. QED BY <1>6, <1>9, <2>1
<1>16. ASSUME ResponderHandlesEnd PROVE HalfInv'
  <2>1. /\ f.type \in {"ERROR", "CANCEL"} /\ TakeAndSend(Responder, <<>>)
        /\ stream' = Ended(Responder, FALSE)
    BY <1>16 DEF ResponderHandlesEnd, Handles, Arrives, f
  <2>2. /\ stream'[Responder].inDone /\ stream'[Responder].outDone
        /\ stream'[Requester] = r
    BY <1>1, <2>1 DEF Effects
  <2>3. Tells(<<>>, Requester, s, stream'[Responder], r)
    BY <1>2, <1>5, <2>1, <2>2 DEF Tells, EndsIn, EndsOut
  <2>4. Minds(f, Responder, stream'[Responder])
    BY <2>2 DEF Minds
  <2>. QED BY <1>3, <1>5, <2>1, <2>2, <2>3, <2>4
<1>17. ASSUME ResponderHandlesRequestN PROVE HalfInv'
  BY <1>7, <1>8, <1>17 DEF ResponderHandlesRequestN, Handles, Arrives, f
<1>18. ASSUME ResponderHandlesExtension PROVE HalfInv'
  BY <1>7, <1>8, <1>18 DEF ResponderHandlesExtension, Handles, Arrives, f
<1>19. ASSUME DropFrame(Responder) PROVE HalfInv'
  <2>1. f.type # "REQUEST" /\ stream' = stream /\ TakeAndSend(Responder, <<>>)
        /\ ~s.registered
    BY <1>19 DEF DropFrame, f
  <2>2. served \notin {"none", "refused"}
    BY <1>1, <1>2, <2>1 DEF RequestInv, Talking
  <2>3. Over(Responder)
    BY <2>1, <2>2 DEF RegistryInv, RegistryExact, Started, Talking, TypeOK, BothOpen
  <2>. QED BY <1>7, <2>1, <2>3
<1>. QED BY <1>10, <1>11, <1>12, <1>13, <1>14, <1>15, <1>16, <1>17, <1>18, <1>19
         DEF ResponderHandles

\* The step that sends the request.
LEMMA ReadyHalf ==
    ASSUME TypeOK, RegistryInv, RequestInv, NEW cut \in BOOLEAN, HandleReady(cut)
    PROVE  HalfInv'
<1>. DEFINE n == held.initialRequestN
            c == held.isComplete
            b == held.hasExtension
            gs == RequestFrames(n, c, cut)
            es == If(b, ExtFrame)
            fs == gs \o es
<1>1. n \in Nat /\ c \in BOOLEAN /\ b \in BOOLEAN
  BY DEF TypeOK, Held
<1>2. /\ Send(Requester, fs) /\ phase # "ready" /\ UNCHANGED <<served, open>>
      /\ ~OutDone(Requester) /\ phase = "pending"
      /\ stream' = [stream EXCEPT ![Requester] =
                      [@ EXCEPT !.registered = TRUE, !.outDone = c]]
  BY DEF HandleReady
<1>. HIDE DEF n, c, b
<1>3. /\ gs \in Seq(Frame) /\ es \in Seq(Frame)
      /\ (BringsEnd(Responder, gs) <=> c) /\ ~BringsStop(gs)
      /\ ~BringsEnd(Responder, es) /\ ~BringsStop(es)
  <2>1. gs \in Seq(Frame) /\ ExtFrame \in Frame /\ <<>> \in Seq(Frame)
    BY <1>1, FramesTyped, ShortSeqs
  <2>2. es \in Seq(Frame)
    BY <2>1, ShortSeqs DEF If
  <2>3. (BringsEnd(Responder, gs) <=> c) /\ ~BringsStop(gs)
    BY <1>1, FramesBring
  <2>4. /\ ~BringsEnd(Responder, <<ExtFrame>>) /\ ~BringsStop(<<ExtFrame>>)
        /\ ~BringsEnd(Responder, <<>>) /\ ~BringsStop(<<>>)
    BY <2>1, FramesBring
  <2>5. ~BringsEnd(Responder, es) /\ ~BringsStop(es)
    BY <2>4 DEF If
  <2>. QED BY <2>1, <2>2, <2>3, <2>5
<1>. HIDE DEF gs, es
<1>4. fs \in Seq(Frame) /\ (BringsEnd(Responder, fs) <=> c) /\ ~BringsStop(fs)
  BY <1>3, JoinedBrings, ConcatProperties
<1>. HIDE DEF fs
<1>5. /\ wire[Responder] = <<>> /\ wire[Requester] = <<>> /\ served = "none"
  BY <1>2 DEF RequestInv
<1>6. /\ BothOpen => wire'[Responder] = wire[Responder] \o fs
      /\ wire'[Requester] = <<>>
  BY <1>2, <1>4, <1>5, PostsWires DEF Posts, Peer
<1>7. wire[Responder] \o fs = fs
  BY <1>4, <1>5, ConcatEmptySeq
<1>8. /\ ~stream[Requester].inDone
      /\ ~stream[Responder].inDone /\ ~stream[Responder].outDone
  BY <1>2, <1>5 DEF RegistryInv, Fresh, InDone, OutDone
<1>9. /\ ~stream'[Requester].inDone /\ stream'[Requester].outDone = c
      /\ stream'[Responder] = stream[Responder]
  BY <1>2, <1>8 DEF TypeOK, StreamState
<1>10. ~BringsEnd(Requester, <<>>) /\ ~BringsStop(<<>>)
  BY FramesBring
<1>11. Announces(fs, Responder, stream'[Requester], stream'[Responder])
  BY <1>4, <1>8, <1>9 DEF Announces
<1>12. Announces(<<>>, Requester, stream'[Responder], stream'[Requester])
  BY <1>8, <1>9, <1>10 DEF Announces
<1>13. BothOpen => \A e \in End : Announces(wire'[e], e, stream'[Peer(e)], stream'[e])
  BY <1>6, <1>7, <1>11, <1>12 DEF Peer
<1>. QED BY <1>2, <1>13 DEF HalfInv, BothOpen

\* How the three variables that guide a stream's life move.
LEMMA ControlSteps ==
    ASSUME RegistryInv, Next
    PROVE  /\ UNCHANGED first \/ ResponderReceivesFirstFragment \/ ResponderOnError
           /\ phase # "ready" => phase' # "ready" \/ \E cut \in BOOLEAN : HandleReady(cut)
           /\ served = "refused" => served' = "refused"
BY DEF Next, Answer, HandleReady, HandleReadyDeclined, HandleReject,
   RequesterCalls, RequesterRequest, RequesterCancel, RequesterOnNext,
   RequesterOnComplete, RequesterOnError, RequesterOnErrorThrows,
   RequesterOnNextThrows, RequesterOnExtension, RequesterHandles,
   RequesterHandlesPayload, RequesterHandlesFragment, RequesterHandlesCancel,
   RequesterHandlesError, RequesterHandlesRequestN, RequesterHandlesExtension,
   ResponderCalls, ResponderRequest, ResponderCancel, ResponderOnNext,
   ResponderOnComplete, ResponderOnError, ResponderOnExtension, ResponderHandles,
   ResponderRejects, ResponderRefusesDemand, ResponderReceivesFirstFragment,
   ResponderReceivesRequest, ResponderReassemblesRequest, ResponderHandlesFragment,
   ResponderHandlesPayload, ResponderHandlesEnd, ResponderHandlesRequestN,
   ResponderHandlesExtension, DropFrame, HandlerEnds, HandlerReturns,
   HandlerThrows, Close, Handles, RegistryInv, Fresh

LEMMA HalfSteps ==
    ASSUME TypeOK, RegistryInv, RequestInv, CutInv, ~first.isComplete, HalfInv,
           TypeOK', Next
    PROVE  HalfInv' /\ ~first'.isComplete
<1>1. UNCHANGED open \/ ~BothOpen'
  <2>1. CASE \E e \in End : Close(e)
    BY <2>1, CloseWires
  <2>2. CASE UNCHANGED <<wire, open>> \/ \E e \in End, fs \in Seq(Frame) : Speaks(e, fs)
    BY <2>2 DEF Speaks
  <2>. QED BY <2>1, <2>2, StepsSpeak
<1>2. ~first'.isComplete
  <2>1. CASE ResponderReceivesFirstFragment
    <3>1. /\ wire[Responder] # <<>> /\ wire[Responder] \in Seq(Frame)
          /\ Cut(wire[Responder]) /\ Head(wire[Responder]).follows
          /\ first'.isComplete = Head(wire[Responder]).complete
      BY <2>1 DEF ResponderReceivesFirstFragment, Arrives, TypeOK, CutInv, First
    <3>2. Head(wire[Responder]) = wire[Responder][1]
      BY <3>1
    <3>. QED BY <3>1, <3>2, TakenSendable
  <2>2. CASE ResponderOnError
    BY <2>2 DEF ResponderOnError, TypeOK, First
  <2>3. CASE UNCHANGED first
    BY <2>3
  <2>. QED BY <2>1, <2>2, <2>3, ControlSteps
<1>3. CASE ~BothOpen'
  BY <1>2, <1>3 DEF HalfInv
<1>4. CASE BothOpen /\ UNCHANGED open /\ phase = "ready" /\ served # "refused"
  <2>1. Talking
    BY <1>4 DEF Talking
  <2>2. ~Answer /\ \A e \in End : ~Close(e)
    BY <1>4 DEF Answer, HandleReady, HandleReadyDeclined, HandleReject, Close,
       Disconnect, TypeOK, BothOpen
  <2>. QED BY <2>1, <2>2, RequesterCallsHalf, RequesterHandlesHalf, ResponderCallsHalf,
              ResponderHandlesHalf, <1>2 DEF Next
<1>5. CASE phase # "ready"
  <2>1. CASE \E cut \in BOOLEAN : HandleReady(cut)
    BY <1>2, <2>1, ReadyHalf
  <2>2. CASE phase' # "ready"
    BY <1>2, <2>2 DEF HalfInv
  <2>. QED BY <1>5, <2>1, <2>2, ControlSteps
<1>6. CASE served = "refused"
  BY <1>2, <1>6, ControlSteps DEF HalfInv
<1>. QED BY <1>1, <1>3, <1>4, <1>5, <1>6 DEF BothOpen

-----------------------------------------------------------------------------
(* What holds of every state so far.  RegistryInv, which the proof of      *)
(* RegistryCorrect shows, is part of it.                                   *)

FlowInv ==
    /\ RegistryInv /\ CutInv /\ RequestInv
    /\ ~first.isComplete
    /\ HalfInv

LEMMA RegistrySteps == TypeOK /\ RegistryInv /\ Next => RegistryInv'
BY RequesterCallsRegistry, ResponderCallsRegistry, CloseRegistry,
   RequesterHandlesRegistry, ResponderHandlesRegistry DEF Next

LEMMA TypeSteps == TypeOK /\ Next => TypeOK'
BY AnswerTyped, RequesterCallsTyped, ResponderCallsTyped, CloseTyped,
   RequesterHandlesTyped, ResponderHandlesTyped, HandlerEndsTyped DEF Next

LEMMA FlowSteps == TypeOK /\ FlowInv /\ Next => FlowInv'
<1>. SUFFICES ASSUME TypeOK, FlowInv, Next PROVE FlowInv'
  OBVIOUS
<1>1. TypeOK'
  BY TypeSteps
<1>2. RegistryInv' /\ CutInv' /\ RequestInv'
  BY RegistrySteps, CutSteps, RequestSteps DEF FlowInv
<1>3. HalfInv' /\ ~first'.isComplete
  BY <1>1, HalfSteps DEF FlowInv
<1>. QED BY <1>2, <1>3 DEF FlowInv

LEMMA FlowCorrect == Spec => []FlowInv
<1>1. Init => FlowInv
  <2>. SUFFICES ASSUME Init PROVE FlowInv
    OBVIOUS
  <2>1. \A e \in End : wire[e] = <<>>
    BY DEF Init
  <2>2. CutInv
    BY <2>1 DEF CutInv, Cut, Contiguous
  <2>3. RegistryInv
    BY DEF Init, RegistryInv, RegistryExact, Fresh, Started, Over, InDone, OutDone
  <2>4. RequestInv /\ ~first.isComplete /\ HalfInv
    BY <2>1 DEF Init, RequestInv, HalfInv
  <2>. QED BY <2>2, <2>3, <2>4 DEF FlowInv
<1>2. TypeOK /\ FlowInv /\ [Next]_vars => FlowInv'
  <2>1. TypeOK /\ FlowInv /\ Next => FlowInv'
    BY FlowSteps
  <2>2. FlowInv /\ UNCHANGED vars => FlowInv'
    BY DEF FlowInv, RegistryInv, RegistryExact, Fresh, Started, Over, InDone, OutDone,
           vars, CutInv, RequestInv, HalfInv, BothOpen
  <2>. QED BY <2>1, <2>2
<1>. QED BY <1>1, <1>2, TypeCorrect, PTL DEF Spec

(***************************************************************************)
(* However completions, cancellations and errors of the two ends of a      *)
(* channel cross on the wires: between two open ends with nothing under    *)
(* way, a direction has ended at its sender exactly if it has ended at its *)
(* receiver (RequestChannelStream.ts, hasOutboundCompleted and             *)
(* hasInboundCompleted of the two classes).                                *)
(***************************************************************************)
THEOREM HalfCloseAgrees == Spec => []HalfCloseAgreement
<1>1. TypeOK /\ FlowInv => HalfCloseAgreement
  <2>. SUFFICES ASSUME TypeOK, FlowInv, \A e \in End : open[e] /\ wire[e] = <<>>,
                       Started(Requester), Started(Responder)
                PROVE  /\ OutDone(Requester) = InDone(Responder)
                       /\ OutDone(Responder) = InDone(Requester)
    BY DEF HalfCloseAgreement
  <2>1. \A e \in End : Announces(wire[e], e, stream[Peer(e)], stream[e])
    BY DEF FlowInv, HalfInv, Started, BothOpen
  <2>2. \A e \in End : ~BringsEnd(e, wire[e]) /\ ~BringsStop(wire[e])
    BY FramesBring
  <2>3. \A e \in End : OutDone(e) \in BOOLEAN /\ InDone(e) \in BOOLEAN
    BY DEF TypeOK, StreamState, OutDone, InDone
  <2>. QED BY <2>1, <2>2, <2>3 DEF Announces, OutDone, InDone, Peer
<1>. QED BY <1>1, TypeCorrect, FlowCorrect, PTL

-----------------------------------------------------------------------------
(* Demand                                                                  *)

\* What the frames that are sent owe their receiver.
Carries(fs, n) ==
    \A q \in Seq(Frame), lo, hi \in Nat, x \in BOOLEAN :
       Owes(q, lo, hi, x) => Owes(q \o fs, lo, hi + n, x)

LEMMA CarriesJoined ==
    ASSUME NEW fs \in Seq(Frame), NEW gs \in Seq(Frame), NEW m \in Nat, NEW n \in Nat,
           Carries(fs, m), Carries(gs, n)
    PROVE  Carries(fs \o gs, m + n)
<1>. SUFFICES ASSUME NEW q \in Seq(Frame), NEW lo \in Nat, NEW hi \in Nat,
                     NEW x \in BOOLEAN, Owes(q, lo, hi, x)
              PROVE  Owes(q \o (fs \o gs), lo, hi + (m + n), x)
  BY DEF Carries
<1>1. Owes(q \o fs, lo, hi + m, x)
  BY DEF Carries
<1>2. q \o fs \in Seq(Frame) /\ hi + m \in Nat
  BY ConcatProperties
<1>3. Owes((q \o fs) \o gs, lo, (hi + m) + n, x)
  BY <1>1, <1>2 DEF Carries
<1>4. (q \o fs) \o gs = q \o (fs \o gs) /\ (hi + m) + n = hi + (m + n)
  BY ConcatAssociative, SMTT(60)
<1>. QED BY <1>3, <1>4

LEMMA FramesCarry ==
    /\ Carries(<<>>, 0)
    /\ \A f \in Frame : Carries(<<f>>, Demand(f))
    /\ \A f \in {ErrorFrame, CancelFrame, CompleteFrame, ExtFrame} : Carries(<<f>>, 0)
    /\ \A n \in Nat : Carries(<<RequestNFrame(n)>>, n)
    /\ \A n \in Nat, c, cut \in BOOLEAN :
          /\ Carries(PayloadFrames(n, c, cut), 0)
          /\ Carries(RequestFrames(n, c, cut), n)
<1>1. Carries(<<>>, 0)
  <2>. SUFFICES ASSUME NEW q \in Seq(Frame), NEW lo \in Nat, NEW hi \in Nat,
                       NEW x \in BOOLEAN, Owes(q, lo, hi, x)
                PROVE  Owes(q \o <<>>, lo, hi + 0, x)
    BY DEF Carries
  <2>1. q \o <<>> = q /\ hi + 0 = hi
    BY ConcatEmptySeq
  <2>. QED BY <2>1
<1>2. ASSUME NEW f \in Frame PROVE Carries(<<f>>, Demand(f))
  BY OwesPushed DEF Carries
<1>3. ASSUME NEW f \in Frame, NEW n \in Nat, Demand(f) = n PROVE Carries(<<f>>, n)
  BY <1>2, <1>3
<1>4. ASSUME NEW n \in Nat
      PROVE  /\ Demand(ErrorFrame) = 0 /\ Demand(CancelFrame) = 0
             /\ Demand(CompleteFrame) = 0 /\ Demand(ExtFrame) = 0
             /\ Demand(RequestNFrame(n)) = n
  BY DEF Demand, ErrorFrame, CancelFrame, CompleteFrame, ExtFrame, RequestNFrame,
         PayloadFrame, Bare
<1>5. \A f \in {ErrorFrame, CancelFrame, CompleteFrame, ExtFrame} : Carries(<<f>>, 0)
  BY <1>3, <1>4, FramesTyped
<1>6. \A n \in Nat : Carries(<<RequestNFrame(n)>>, n)
  BY <1>3, <1>4, FramesTyped
<1>7. ASSUME NEW n \in Nat, NEW d \in Seq(Nat), NEW a \in BOOLEAN, NEW b \in BOOLEAN
      PROVE  /\ Carries(<<PayloadFrame(d, TRUE, a, b)>>, 0)
             /\ <<PayloadFrame(d, TRUE, a, b)>> \in Seq(Frame)
             /\ PayloadFrame(d, TRUE, a, b) \in Frame
             /\ Carries(<<RequestFrame(n, d, a, b)>>, n)
             /\ <<RequestFrame(n, d, a, b)>> \in Seq(Frame)
             /\ RequestFrame(n, d, a, b) \in Frame
  <2>1. /\ PayloadFrame(d, TRUE, a, b) \in Frame /\ RequestFrame(n, d, a, b) \in Frame
        /\ Demand(PayloadFrame(d, TRUE, a, b)) = 0
        /\ Demand(RequestFrame(n, d, a, b)) = n
    BY DEF PayloadFrame, RequestFrame, Frame, FrameTypes, Demand
  <2>. DEFINE x == PayloadFrame(d, TRUE, a, b)
              y == RequestFrame(n, d, a, b)
  <2>. HIDE DEF x, y
  <2>2. /\ x \in Frame /\ Demand(x) = 0 /\ y \in Frame /\ Demand(y) = n
    BY <2>1 DEF x, y
  <2>3. Carries(<<x>>, 0) /\ Carries(<<y>>, n)
    BY <1>3, <2>2
  <2>4. <<x>> \in Seq(Frame) /\ <<y>> \in Seq(Frame)
    BY <2>2
  <2>. QED BY <2>2, <2>3, <2>4 DEF x, y
<1>8. \A n \in Nat : Content(n) \in Seq(Nat) /\ <<n>> \in Seq(Nat) /\ <<>> \in Seq(Nat)
  BY DEF Content
<1>9. ASSUME NEW n \in Nat, NEW c \in BOOLEAN, NEW cut \in BOOLEAN
      PROVE  Carries(PayloadFrames(n, c, cut), 0)
  <2>1. CASE cut
    <3>. DEFINE x == PayloadFrame(<<n>>, TRUE, FALSE, TRUE)
                y == PayloadFrame(<<n>>, TRUE, c, FALSE)
    <3>1. /\ Carries(<<x>>, 0) /\ x \in Frame /\ <<x>> \in Seq(Frame)
      BY <1>7, <1>8
    <3>2. /\ Carries(<<y>>, 0) /\ y \in Frame /\ <<y>> \in Seq(Frame)
      BY <1>7, <1>8
    <3>3. PayloadFrames(n, c, cut) = <<x, y>>
      BY <2>1 DEF PayloadFrames
    <3>. HIDE DEF x, y
    <3>4. <<x>> \o <<y>> = <<x, y>>
      BY <3>1, <3>2, Joined
    <3>5. Carries(<<x>> \o <<y>>, 0 + 0)
      BY <3>1, <3>2, CarriesJoined
    <3>6. 0 + 0 = 0
      OBVIOUS
    <3>. QED BY <3>3, <3>4, <3>5, <3>6
  <2>2. CASE ~cut
    BY <1>7, <1>8, <2>2 DEF PayloadFrames
  <2>. QED BY <2>1, <2>2
<1>10. ASSUME NEW n \in Nat, NEW c \in BOOLEAN, NEW cut \in BOOLEAN
       PROVE  Carries(RequestFrames(n, c, cut), n)
  <2>1. CASE cut
    <3>. DEFINE x == RequestFrame(n, <<>>, FALSE, TRUE)
                y == PayloadFrame(<<1>>, TRUE, FALSE, TRUE)
                z == PayloadFrame(<<1>>, TRUE, c, FALSE)
    <3>1. /\ Carries(<<x>>, n) /\ x \in Frame /\ <<x>> \in Seq(Frame)
      BY <1>7, <1>8
    <3>2. /\ Carries(<<y>>, 0) /\ y \in Frame /\ <<y>> \in Seq(Frame)
      BY <1>7, <1>8
    <3>3. /\ Carries(<<z>>, 0) /\ z \in Frame /\ <<z>> \in Seq(Frame)
      BY <1>7, <1>8
    <3>4. RequestFrames(n, c, cut) = <<x, y, z>>
      BY <2>1 DEF RequestFrames
    <3>. HIDE DEF x, y, z
    <3>5. <<x>> \o <<y>> = <<x, y>> /\ <<x, y>> \in Seq(Frame)
      BY <3>1, <3>2, Joined, ShortSeqs
    <3>6. <<x, y, z>> = <<x, y>> \o <<z>>
      BY <3>1, <3>2, <3>3
    <3>7. Carries(<<x, y>>, n + 0)
      <4>1. Carries(<<x>> \o <<y>>, n + 0)
        BY <3>1, <3>2, CarriesJoined
      <4>. QED BY <3>5, <4>1
    <3>8. Carries(<<x, y, z>>, (n + 0) + 0)
      <4>1. ASSUME NEW u \in Seq(Frame), NEW v \in Seq(Frame), NEW w, w = u \o v,
                   NEW i \in Nat, Carries(u, i), Carries(v, 0)
            PROVE  Carries(w, i + 0)
        BY <4>1, CarriesJoined
      <4>2. n + 0 \in Nat
        OBVIOUS
      <4>. QED BY <3>3, <3>5, <3>6, <3>7, <4>1, <4>2, ZenonT(30)
    <3>9. (n + 0) + 0 = n
      OBVIOUS
    <3>. QED BY <3>4, <3>8, <3>9
  <2>2. CASE ~cut
    BY <1>7, <1>8, <2>2 DEF RequestFrames
  <2>. QED BY <2>1, <2>2
<1>. QED BY <1>1, <1>2, <1>5, <1>6, <1>9, <1>10

(***************************************************************************)
(* What has been granted to e's producer, or waits for the rest of the     *)
(* request, and what is on its way to e make up what the peer has asked    *)
(* for; while nothing can have been lost, exactly.                         *)
(***************************************************************************)
Lo(e) == IF e = Responder /\ served = "reassembling" THEN first.initialRequestN
                                                    ELSE rcv[e].granted
Exact(e) == BothOpen /\ phase = "ready" /\ ~OutDone(e) /\ served # "refused"

Owed(e) == Owes(wire[e], Lo(e), app[Peer(e)].asked, Exact(e))

DemandInv ==
    /\ \A e \in End : Owed(e)
    /\ phase # "ready" => app[Requester].asked = held.initialRequestN
    /\ served = "none" => first.initialRequestN = 0 /\ app[Responder].asked = 0
    /\ served \in {"none", "reassembling"} => rcv[Responder].granted = 0
    /\ first.initialRequestN <= Lo(Responder)

LEMMA DemandTyped ==
    ASSUME TypeOK, NEW e \in End
    PROVE  Lo(e) \in Nat /\ Exact(e) \in BOOLEAN /\ app[e].asked \in Nat
<1>1. rcv[e] \in RcvState /\ app[e] \in AppState /\ first \in First
      /\ stream[e] \in StreamState /\ open \in [End -> BOOLEAN]
  BY DEF TypeOK
<1>2. rcv[e].granted \in Nat /\ app[e].asked \in Nat /\ first.initialRequestN \in Nat
  BY <1>1 DEF RcvState, AppState, First
<1>. QED BY <1>2 DEF Lo, Exact

\* The peer's wire, when e sends fs and has asked for n more.
LEMMA SentOwed ==
    ASSUME TypeOK, DemandInv, NEW e \in End, NEW fs \in Seq(Frame), Posts(e, fs),
           NEW n \in Nat, Carries(fs, n), NEW x \in BOOLEAN, x => Exact(Peer(e))
    PROVE  Owes(wire'[Peer(e)], Lo(Peer(e)), app[e].asked + n, x)
<1>. DEFINE p == Peer(e)
            q == wire[p]
            lo == Lo(p)
            hi == app[e].asked
            y == Exact(p)
<1>1. p \in End /\ p # e /\ Peer(p) = e
  BY DEF Peer
<1>2. q \in Seq(Frame) /\ lo \in Nat /\ hi \in Nat /\ y \in BOOLEAN
  BY <1>1, DemandTyped DEF TypeOK
<1>3. Owes(q, lo, hi, y)
  BY <1>1 DEF DemandInv, Owed
<1>4. /\ BothOpen => wire'[p] = q \o fs
      /\ ~BothOpen => wire'[p] = q
  BY PostsWires
<1>5. y => BothOpen
  BY DEF Exact
<1>. HIDE DEF p, q, lo, hi, y
<1>6. CASE BothOpen
  <2>1. Owes(q \o fs, lo, hi + n, y)
    BY <1>2, <1>3 DEF Carries
  <2>2. q \o fs \in Seq(Frame)
    BY <1>2, ConcatProperties
  <2>3. Owes(q \o fs, lo, hi + n, x)
    BY <1>2, <2>1, <2>2, OwesStill DEF p, y
  <2>. QED BY <1>4, <1>6, <2>3 DEF p, lo, hi
<1>7. CASE ~BothOpen
  <2>1. Owes(q, lo, hi + n, FALSE)
    <3>1. lo <= lo /\ hi <= hi + n /\ hi + n \in Nat
      BY <1>2
    <3>. QED BY <1>2, <1>3, <3>1, OwesLess
  <2>2. x = FALSE
    BY <1>5, <1>7 DEF p, y
  <2>. QED BY <1>4, <1>7, <2>1, <2>2 DEF p, lo, hi
<1>. QED BY <1>6, <1>7

\* e's own wire, when e takes its first frame.
LEMMA TakenOwed ==
    ASSUME TypeOK, DemandInv, NEW e \in End, NEW fs \in Seq(Frame), Takes(e, fs),
           NEW lo \in Nat, NEW x \in BOOLEAN,
           lo <= Lo(e) + Demand(wire[e][1]),
           x => Exact(e) /\ lo = Lo(e) + Demand(wire[e][1])
    PROVE  Owes(wire'[e], lo, app[Peer(e)].asked, x)
<1>. DEFINE q == wire[e]
            l == Lo(e)
            hi == app[Peer(e)].asked
            y == Exact(e)
            m == l + Demand(q[1])
<1>1. Peer(e) \in End
  BY DEF Peer
<1>2. q \in Seq(Frame) /\ l \in Nat /\ hi \in Nat /\ y \in BOOLEAN /\ q # <<>>
  BY <1>1, DemandTyped DEF TypeOK, Takes
<1>3. Owes(q, l, hi, y)
  BY DEF DemandInv, Owed
<1>4. wire'[e] = Tail(q)
  BY PostsWires DEF Posts
<1>5. lo <= m /\ (x => y /\ lo = m)
  OBVIOUS
<1>6. Demand(q[1]) \in Nat
  <2>. HIDE DEF q
  <2>1. q[1] \in Frame
    BY <1>2, Taken
  <2>. QED BY <2>1, FrameFields DEF Demand
<1>. HIDE DEF q, l, hi, y
<1>7. Owes(Tail(q), m, hi, y) /\ Tail(q) \in Seq(Frame) /\ m \in Nat
  BY <1>2, <1>3, <1>6, OwesTaken
<1>. HIDE DEF m
<1>8. CASE x
  BY <1>2, <1>4, <1>5, <1>7, <1>8, OwesStill DEF hi
<1>9. CASE ~x
  <2>1. Owes(Tail(q), lo, hi, FALSE)
    <3>1. hi <= hi
      BY <1>2
    <3>. QED BY <1>2, <1>5, <1>7, <3>1, OwesLess
  <2>. QED BY <1>4, <1>9, <2>1 DEF hi
<1>. QED BY <1>8, <1>9

\* A step that sends without taking a frame.
LEMMA SendsKeepDemand ==
    ASSUME TypeOK, TypeOK', DemandInv, phase = "ready",
           UNCHANGED <<phase, served, open>>,
           first'.initialRequestN = first.initialRequestN,
           NEW e \in End, NEW fs \in Seq(Frame), Send(e, fs),
           NEW n \in Nat, Carries(fs, n), e = Responder => served # "none",
           app'[e].asked = app[e].asked + n,
           app'[Peer(e)].asked = app[Peer(e)].asked,
           \A d \in End : /\ rcv'[d].granted = rcv[d].granted
                          /\ stream[d].outDone => stream'[d].outDone
    PROVE  DemandInv'
<1>. DEFINE p == Peer(e)
<1>1. /\ p \in End /\ p # e /\ Peer(p) = e /\ \A d \in End : d = e \/ d = p
  BY DEF Peer
<1>2. \A d \in End : Lo(d)' = Lo(d) /\ (Exact(d)' => Exact(d))
  BY DEF Lo, Exact, BothOpen, OutDone
<1>3. Exact(p)' \in BOOLEAN /\ Exact(e)' \in BOOLEAN
  BY DEF Exact, BothOpen, OutDone
<1>4. Owes(wire'[p], Lo(p), app[e].asked + n, Exact(p)')
  BY <1>1, <1>2, <1>3, SentOwed DEF Posts
<1>5. wire'[e] = wire[e]
  BY PostsWires DEF Posts
<1>6. Owes(wire[e], Lo(e), app[p].asked, Exact(e)')
  <2>1. Owes(wire[e], Lo(e), app[p].asked, Exact(e)) /\ Exact(e) \in BOOLEAN
    BY <1>1, DemandTyped DEF DemandInv, Owed
  <2>. QED BY <1>2, <1>3, <2>1, OwesStill
<1>7. \A d \in End : Owes(wire'[d], Lo(d)', app'[Peer(d)].asked, Exact(d)')
  BY <1>1, <1>2, <1>4, <1>5, <1>6
<1>8. served = "none" => app'[Responder].asked = app[Responder].asked
  BY DEF Peer
<1>9. first.initialRequestN <= Lo(Responder)'
  BY <1>2 DEF DemandInv
<1>. QED BY <1>7, <1>8, <1>9 DEF DemandInv, Owed

\* A step that takes a frame, and may send.
LEMMA TakesKeepOwed ==
    ASSUME TypeOK, TypeOK', DemandInv, UNCHANGED app,
           NEW e \in End, NEW fs \in Seq(Frame), Takes(e, fs), Carries(fs, 0),
           Lo(e)' <= Lo(e) + Demand(wire[e][1]),
           Exact(e)' => Exact(e) /\ Lo(e)' = Lo(e) + Demand(wire[e][1]),
           Lo(Peer(e))' = Lo(Peer(e)), Exact(Peer(e))' => Exact(Peer(e))
    PROVE  \A d \in End : Owed(d)'
<1>. DEFINE p == Peer(e)
<1>1. /\ p \in End /\ p # e /\ Peer(p) = e /\ \A d \in End : d = e \/ d = p
  BY DEF Peer
<1>2. Exact(p)' \in BOOLEAN /\ Exact(e)' \in BOOLEAN
  BY DEF Exact, BothOpen, OutDone
<1>3. Lo(e)' \in Nat
  <2>1. rcv'[e] \in RcvState /\ first' \in First
    BY DEF TypeOK
  <2>2. rcv'[e].granted \in Nat /\ first'.initialRequestN \in Nat
    BY <2>1 DEF RcvState, First
  <2>. QED BY <2>2 DEF Lo
<1>4. app[e].asked + 0 = app[e].asked
  BY DemandTyped
<1>5. Owes(wire'[p], Lo(p), app[e].asked + 0, Exact(p)')
  BY <1>2, SentOwed DEF Posts
<1>6. Owes(wire'[e], Lo(e)', app[p].asked, Exact(e)')
  BY <1>2, <1>3, TakenOwed
<1>7. \A d \in End : Owes(wire'[d], Lo(d)', app'[Peer(d)].asked, Exact(d)')
  BY <1>1, <1>4, <1>5, <1>6
<1>. QED BY <1>7 DEF Owed

\* A step before the requester's stream has an id.
LEMMA PendingKeepsDemand ==
    ASSUME TypeOK, TypeOK', RequestInv, DemandInv, phase # "ready", phase' # "ready",
           UNCHANGED <<served, first, wire, open>>, NEW n \in Nat,
           app'[Requester].asked = app[Requester].asked + n,
           held'.initialRequestN = held.initialRequestN + n,
           app'[Responder].asked = app[Responder].asked,
           \A d \in End : rcv'[d].granted = rcv[d].granted
    PROVE  DemandInv'
<1>1. \A d \in End : Lo(d)' = Lo(d) /\ Exact(d)' = FALSE
  BY DEF Lo, Exact
<1>2. /\ wire \in [End -> Seq(Frame)] /\ Peer(Requester) = Responder
      /\ Peer(Responder) = Requester
  BY DEF TypeOK, Peer
<1>3. \A d \in End : /\ Lo(d) \in Nat /\ app[d].asked \in Nat /\ Exact(d) \in BOOLEAN
                     /\ Owes(wire[d], Lo(d), app[Peer(d)].asked, Exact(d))
  BY DemandTyped DEF DemandInv, Owed
<1>4. \A a, b \in Nat : a <= a /\ a <= a + b /\ a + b \in Nat
  OBVIOUS
<1>5. Owes(wire[Responder], Lo(Responder), app[Requester].asked + n, FALSE)
  <2>. DEFINE q == wire[Responder]
              lo == Lo(Responder)
              hi == app[Requester].asked
              x == Exact(Responder)
  <2>1. /\ q \in Seq(Frame) /\ lo \in Nat /\ hi \in Nat /\ x \in BOOLEAN
        /\ Owes(q, lo, hi, x)
    BY <1>2, <1>3
  <2>. HIDE DEF q, lo, hi, x
  <2>2. lo <= lo /\ hi <= hi + n /\ hi + n \in Nat
    BY <2>1
  <2>3. Owes(q, lo, hi + n, FALSE)
    BY <2>1, <2>2, OwesLess
  <2>. QED BY <2>3 DEF q, lo, hi
<1>6. Owes(wire[Requester], Lo(Requester), app[Responder].asked, FALSE)
  BY <1>2, <1>3, <1>4, OwesLess, ZenonT(60)
<1>7. \A d \in End : Owes(wire'[d], Lo(d)', app'[Peer(d)].asked, Exact(d)')
  BY <1>1, <1>2, <1>5, <1>6
<1>. QED BY <1>1, <1>7 DEF DemandInv, Owed

\* What the updates of rcv and of app do to demand.
LEMMA DemandUpdates ==
    ASSUME TypeOK, NEW e \in End
    PROVE  /\ \A c \in BOOLEAN, ss \in Seq(Signal), d \in End :
                 Told(e, c, ss)[d].granted = rcv[d].granted
           /\ \A d \in End : Stopped(e)[d].granted = rcv[d].granted
           /\ \A n \in Nat : /\ Granted(e, n)[e].granted = rcv[e].granted + n
                             /\ Granted(e, n)[Peer(e)] = rcv[Peer(e)]
           /\ \A n \in Nat : /\ Asked(e, n)[e].asked = app[e].asked + n
                             /\ Asked(e, n)[Peer(e)] = app[Peer(e)]
           /\ \A c \in BOOLEAN, d \in End : Emitted(e, c)[d].asked = app[d].asked
           /\ \A d \in End :
                 /\ [app EXCEPT ![e].quit = TRUE][d].asked = app[d].asked
                 /\ [app EXCEPT ![e].ended = "complete"][d].asked = app[d].asked
                 /\ [app EXCEPT ![e].ended = "error"][d].asked = app[d].asked
                 /\ [app EXCEPT ![e].extensions = @ + 1][d].asked = app[d].asked
                 /\ [app EXCEPT ![e].emitted = 1][d].asked = app[d].asked
<1>. /\ rcv \in [End -> RcvState] /\ app \in [End -> AppState]
     /\ Peer(e) \in End /\ Peer(e) # e
  BY DEF TypeOK, Peer
<1>. USE DEF RcvState, AppState
<1>1. ASSUME NEW c, NEW ss, NEW d \in End
      PROVE  Told(e, c, ss)[d].granted = rcv[d].granted
  BY DEF Told
<1>2. \A d \in End : Stopped(e)[d].granted = rcv[d].granted
  BY <1>1 DEF Stopped
<1>3. ASSUME NEW n \in Nat
      PROVE  /\ Granted(e, n)[e].granted = rcv[e].granted + n
             /\ Granted(e, n)[Peer(e)] = rcv[Peer(e)]
             /\ Asked(e, n)[e].asked = app[e].asked + n
             /\ Asked(e, n)[Peer(e)] = app[Peer(e)]
  BY DEF Granted, Asked
<1>4. ASSUME NEW c, NEW d \in End PROVE Emitted(e, c)[d].asked = app[d].asked
  BY DEF Emitted
<1>5. ASSUME NEW d \in End
      PROVE  /\ [app EXCEPT ![e].quit = TRUE][d].asked = app[d].asked
             /\ [app EXCEPT ![e].ended = "complete"][d].asked = app[d].asked
             /\ [app EXCEPT ![e].ended = "error"][d].asked = app[d].asked
             /\ [app EXCEPT ![e].extensions = @ + 1][d].asked = app[d].asked
             /\ [app EXCEPT ![e].emitted = 1][d].asked = app[d].asked
  OBVIOUS
<1>6. \A c \in BOOLEAN, ss \in Seq(Signal), d \in End :
         Told(e, c, ss)[d].granted = rcv[d].granted
  BY <1>1
<1>7. \A n \in Nat : /\ Granted(e, n)[e].granted = rcv[e].granted + n
                     /\ Granted(e, n)[Peer(e)] = rcv[Peer(e)]
  BY <1>3
<1>8. \A n \in Nat : /\ Asked(e, n)[e].asked = app[e].asked + n
                     /\ Asked(e, n)[Peer(e)] = app[Peer(e)]
  BY <1>3
<1>9. \A c \in BOOLEAN, d \in End : Emitted(e, c)[d].asked = app[d].asked
  BY <1>4
<1>. QED BY <1>2, <1>5, <1>6, <1>7, <1>8, <1>9, ZenonT(30)

\* The direction flags never go back.
LEMMA DoneStays ==
    ASSUME TypeOK, NEW e \in End, NEW b \in BOOLEAN, NEW r \in BOOLEAN, NEW dt,
           \/ stream' = stream
           \/ stream' = BothEnd(e) \/ stream' = InEnds(e) \/ stream' = OutEnds(e, b)
           \/ stream' = Ended(e, b) \/ stream' = Finished(e, b, r)
           \/ stream' = Extended(e, dt)
    PROVE  \A d \in End : /\ stream[d].inDone => stream'[d].inDone
                          /\ stream[d].outDone => stream'[d].outDone
<1>. /\ stream \in [End -> StreamState]
     /\ \A d \in End : stream[d].inDone \in BOOLEAN /\ stream[d].outDone \in BOOLEAN
  BY DEF TypeOK, StreamState
<1>. USE DEF StreamState
<1>1. CASE stream' = BothEnd(e)
  BY <1>1 DEF BothEnd
<1>2. CASE stream' = InEnds(e)
  BY <1>2 DEF InEnds
<1>3. CASE stream' = OutEnds(e, b)
  BY <1>3 DEF OutEnds
<1>4. CASE stream' = Ended(e, b)
  BY <1>4 DEF Ended
<1>5. CASE stream' = Finished(e, b, r)
  BY <1>5 DEF Finished
<1>6. CASE stream' = Extended(e, dt)
  BY <1>6 DEF Extended
<1>. QED BY <1>1, <1>2, <1>3, <1>4, <1>5, <1>6

LEMMA RequesterCallsDemand ==
    ASSUME TypeOK, TypeOK', RequestInv, DemandInv, RequesterCalls
    PROVE  DemandInv'
<1>1. /\ <<CancelFrame>> \in Seq(Frame) /\ Carries(<<CancelFrame>>, 0)
      /\ <<ErrorFrame>> \in Seq(Frame) /\ Carries(<<ErrorFrame>>, 0)
      /\ <<CompleteFrame>> \in Seq(Frame) /\ Carries(<<CompleteFrame>>, 0)
      /\ <<ExtFrame>> \in Seq(Frame) /\ Carries(<<ExtFrame>>, 0)
      /\ Peer(Requester) = Responder
      /\ app[Requester].asked = app[Requester].asked + 0
      /\ held.initialRequestN = held.initialRequestN + 0
      /\ OutDone(Requester) \in BOOLEAN /\ InDone(Requester) \in BOOLEAN
  <2>1. /\ CancelFrame \in Frame /\ ErrorFrame \in Frame /\ CompleteFrame \in Frame
        /\ ExtFrame \in Frame
    BY FramesTyped
  <2>2. /\ <<CancelFrame>> \in Seq(Frame) /\ <<ErrorFrame>> \in Seq(Frame)
        /\ <<CompleteFrame>> \in Seq(Frame) /\ <<ExtFrame>> \in Seq(Frame)
    BY <2>1, ShortSeqs
  <2>3. /\ Carries(<<CancelFrame>>, 0) /\ Carries(<<ErrorFrame>>, 0)
        /\ Carries(<<CompleteFrame>>, 0) /\ Carries(<<ExtFrame>>, 0)
    BY FramesCarry
  <2>4. /\ app[Requester].asked \in Nat /\ held.initialRequestN \in Nat
        /\ OutDone(Requester) \in BOOLEAN /\ InDone(Requester) \in BOOLEAN
    BY DEF TypeOK, AppState, Held, StreamState, OutDone, InDone
  <2>5. \A n \in Nat : n = n + 0
    OBVIOUS
  <2>. QED BY <2>2, <2>3, <2>4, <2>5 DEF Peer
<1>2. ASSUME NEW n \in Demands, RequesterRequest(n) PROVE DemandInv'
  <2>1. /\ n \in Nat /\ <<RequestNFrame(n)>> \in Seq(Frame)
        /\ Carries(<<RequestNFrame(n)>>, n)
    BY BoundsAssumption, FramesTyped, FramesCarry, ShortSeqs
  <2>2. /\ app'[Requester].asked = app[Requester].asked + n
        /\ app'[Responder].asked = app[Responder].asked
    BY <1>1, <1>2, <2>1, DemandUpdates DEF RequesterRequest
  <2>3. CASE phase = "ready"
    <3>1. /\ Send(Requester, <<RequestNFrame(n)>>)
          /\ UNCHANGED <<phase, served, first, open, rcv, stream>>
      BY <1>2, <2>3 DEF RequesterRequest
    <3>. QED BY <1>1, <2>1, <2>2, <2>3, <3>1, SendsKeepDemand
  <2>4. CASE phase # "ready"
    <3>1. /\ UNCHANGED <<phase, served, first, wire, open, rcv>>
          /\ held' = [held EXCEPT !.initialRequestN = @ + n]
      BY <1>2, <2>4 DEF RequesterRequest
    <3>2. held'.initialRequestN = held.initialRequestN + n
      BY <3>1 DEF TypeOK, Held
    <3>. QED BY <2>1, <2>2, <2>4, <3>1, <3>2, PendingKeepsDemand
  <2>. QED BY <2>3, <2>4
<1>3. ASSUME UNCHANGED <<served, first, open>>,
             \A d \in End : /\ app'[d].asked = app[d].asked
                            /\ rcv'[d].granted = rcv[d].granted
                            /\ stream[d].outDone => stream'[d].outDone,
             \/ /\ phase # "ready" /\ phase' # "ready" /\ UNCHANGED wire
                /\ held'.initialRequestN = held.initialRequestN
             \/ /\ phase = "ready" /\ UNCHANGED phase
                /\ \E fs \in Seq(Frame) : Carries(fs, 0) /\ Send(Requester, fs)
      PROVE  DemandInv'
  <2>1. CASE /\ phase # "ready" /\ phase' # "ready" /\ UNCHANGED wire
             /\ held'.initialRequestN = held.initialRequestN
    BY <1>1, <1>3, <2>1, PendingKeepsDemand
  <2>2. ASSUME phase = "ready", UNCHANGED phase, NEW fs \in Seq(Frame),
               Carries(fs, 0), Send(Requester, fs)
        PROVE  DemandInv'
    BY <1>1, <1>3, <2>2, SendsKeepDemand
  <2>. QED BY <1>3, <2>1, <2>2
<1>4. ASSUME RequesterCancel PROVE DemandInv'
  <2>1. /\ UNCHANGED <<held, served, first, open>>
        /\ app' = [app EXCEPT ![Requester].quit = TRUE]
        /\ rcv' = Told(Requester, ~OutDone(Requester), <<>>)
        /\ stream' = BothEnd(Requester) \/ stream' = Ended(Requester, FALSE)
        /\ \/ phase # "ready" /\ phase' # "ready" /\ UNCHANGED wire
           \/ /\ phase = "ready" /\ UNCHANGED phase
              /\ Send(Requester, <<IF InDone(Requester) THEN ErrorFrame ELSE CancelFrame>>)
    BY <1>4 DEF RequesterCancel
  <2>2. \A d \in End : stream[d].outDone => stream'[d].outDone
    BY <2>1, DoneStays
  <2>3. \A d \in End : app'[d].asked = app[d].asked /\ rcv'[d].granted = rcv[d].granted
    BY <1>1, <2>1, DemandUpdates, SignalsTyped, ZenonT(60)
  <2>. QED BY <1>1, <1>3, <2>1, <2>2, <2>3
<1>5. ASSUME NEW c \in BOOLEAN, NEW cut \in BOOLEAN, RequesterOnNext(c, cut)
      PROVE  DemandInv'
  <2>. DEFINE n == app[Requester].emitted + 1
              fs == PayloadFrames(n, c, cut)
  <2>1. n \in Nat
    <3>1. app[Requester] \in AppState
      BY DEF TypeOK
    <3>. QED BY <3>1 DEF AppState
  <2>2. /\ UNCHANGED <<phase, held, served, first, open, rcv>> /\ phase = "ready"
        /\ app' = Emitted(Requester, c) /\ stream' = OutEnds(Requester, c)
        /\ Send(Requester, fs)
    BY <1>5 DEF RequesterOnNext
  <2>. HIDE DEF n
  <2>3. fs \in Seq(Frame) /\ Carries(fs, 0)
    BY <2>1, FramesTyped, FramesCarry
  <2>4. \A d \in End : stream[d].outDone => stream'[d].outDone
    BY <2>2, DoneStays
  <2>5. \A d \in End : app'[d].asked = app[d].asked
    BY <2>2, DemandUpdates
  <2>. HIDE DEF fs
  <2>. QED BY <1>3, <2>2, <2>3, <2>4, <2>5
<1>6. ASSUME RequesterOnComplete PROVE DemandInv'
  <2>1. /\ UNCHANGED <<phase, served, first, open, rcv>>
        /\ app' = [app EXCEPT ![Requester].ended = "complete"]
        /\ \/ /\ phase # "ready" /\ UNCHANGED <<wire, stream>>
              /\ held' = [held EXCEPT !.isComplete = TRUE]
           \/ /\ phase = "ready" /\ Send(Requester, <<CompleteFrame>>)
              /\ stream' = OutEnds(Requester, TRUE)
    BY <1>6 DEF RequesterOnComplete
  <2>2. \A d \in End : stream[d].outDone => stream'[d].outDone
    BY <2>1, DoneStays
  <2>3. \A d \in End : app'[d].asked = app[d].asked
    BY <2>1, DemandUpdates
  <2>4. phase # "ready" => held'.initialRequestN = held.initialRequestN
    BY <2>1 DEF TypeOK, Held
  <2>. QED BY <1>1, <1>3, <2>1, <2>2, <2>3, <2>4
<1>7. ASSUME RequesterOnError PROVE DemandInv'
  <2>1. /\ UNCHANGED <<phase, served, first, open>> /\ phase = "ready"
        /\ app' = [app EXCEPT ![Requester].ended = "error"]
        /\ Send(Requester, <<ErrorFrame>>) /\ stream' = BothEnd(Requester)
        /\ rcv' = Told(Requester, FALSE, If(~InDone(Requester), OnError))
    BY <1>7 DEF RequesterOnError
  <2>2. \A d \in End : stream[d].outDone => stream'[d].outDone
    BY <2>1, DoneStays
  <2>3. \A d \in End : app'[d].asked = app[d].asked /\ rcv'[d].granted = rcv[d].granted
    <3>1. If(~InDone(Requester), OnError) \in Seq(Signal)
      BY <1>1, SignalsTyped
    <3>. QED BY <2>1, <3>1, DemandUpdates
  <2>. QED BY <1>1, <1>3, <2>1, <2>2, <2>3
<1>8. ASSUME RequesterOnErrorThrows \/ RequesterOnNextThrows PROVE DemandInv'
  <2>1. /\ UNCHANGED <<phase, held, served, first, wire, open, rcv>> /\ phase # "ready"
        /\ \/ app' = [app EXCEPT ![Requester].ended = "error"]
           \/ app' = [app EXCEPT ![Requester].ended = "complete"]
        /\ \/ stream' = BothEnd(Requester)
           \/ stream' = [stream EXCEPT ![Requester].outDone = TRUE]
    BY <1>8 DEF RequesterOnErrorThrows, RequesterOnNextThrows
  <2>2. \A d \in End : stream[d].outDone => stream'[d].outDone
    <3>1. CASE stream' = BothEnd(Requester)
      BY <3>1, DoneStays
    <3>2. CASE stream' = [stream EXCEPT ![Requester].outDone = TRUE]
      BY <3>2 DEF TypeOK, StreamState
    <3>. QED BY <2>1, <3>1, <3>2
  <2>3. \A d \in End : app'[d].asked = app[d].asked
    BY <2>1, DemandUpdates
  <2>. QED BY <1>3, <2>1, <2>2, <2>3
<1>9. ASSUME RequesterOnExtension PROVE DemandInv'
  <2>1. /\ UNCHANGED <<phase, served, first, open, rcv, stream>>
        /\ app' = [app EXCEPT ![Requester].extensions = @ + 1]
        /\ \/ /\ phase # "ready" /\ UNCHANGED wire
              /\ held' = [held EXCEPT !.hasExtension = TRUE]
           \/ phase = "ready" /\ Send(Requester, <<ExtFrame>>)
    BY <1>9 DEF RequesterOnExtension
  <2>2. \A d \in End : app'[d].asked = app[d].asked
    BY <2>1, DemandUpdates
  <2>3. phase # "ready" => held'.initialRequestN = held.initialRequestN
    BY <2>1 DEF TypeOK, Held
  <2>. QED BY <1>1, <1>3, <2>1, <2>2, <2>3
<1>. QED BY <1>2, <1>4, <1>5, <1>6, <1>7, <1>8, <1>9 DEF RequesterCalls

LEMMA ResponderCallsDemand ==
    ASSUME TypeOK, TypeOK', RequestInv, DemandInv, ResponderCalls
    PROVE  DemandInv'
<1>1. /\ <<CancelFrame>> \in Seq(Frame) /\ Carries(<<CancelFrame>>, 0)
      /\ <<ErrorFrame>> \in Seq(Frame) /\ Carries(<<ErrorFrame>>, 0)
      /\ <<CompleteFrame>> \in Seq(Frame) /\ Carries(<<CompleteFrame>>, 0)
      /\ <<ExtFrame>> \in Seq(Frame) /\ Carries(<<ExtFrame>>, 0)
  <2>1. /\ CancelFrame \in Frame /\ ErrorFrame \in Frame /\ CompleteFrame \in Frame
        /\ ExtFrame \in Frame
    BY FramesTyped
  <2>. QED BY <2>1, ShortSeqs, FramesCarry
<1>2. /\ Peer(Responder) = Requester /\ app[Responder].asked \in Nat
      /\ InDone(Responder) \in BOOLEAN
      /\ \A n \in Nat : n = n + 0
  <2>1. app[Responder].asked \in Nat /\ InDone(Responder) \in BOOLEAN
    BY DEF TypeOK, AppState, StreamState, InDone
  <2>2. \A n \in Nat : n = n + 0
    OBVIOUS
  <2>. QED BY <2>1, <2>2 DEF Peer
<1>3. /\ phase = "ready" /\ served \notin {"none", "reassembling"}
      /\ UNCHANGED <<phase, served, open>>
  BY DEF ResponderCalls, ResponderRequest, ResponderCancel, ResponderOnNext,
     ResponderOnComplete, ResponderOnError, ResponderOnExtension, HasStream, RequestInv
<1>4. ASSUME NEW n \in Nat, NEW fs \in Seq(Frame), Carries(fs, n), Send(Responder, fs),
             first'.initialRequestN = first.initialRequestN,
             app'[Responder].asked = app[Responder].asked + n,
             app'[Requester].asked = app[Requester].asked,
             \A d \in End : /\ rcv'[d].granted = rcv[d].granted
                            /\ stream[d].outDone => stream'[d].outDone
      PROVE  DemandInv'
  BY <1>2, <1>3, <1>4, SendsKeepDemand
<1>5. ASSUME NEW n \in Demands, ResponderRequest(n) PROVE DemandInv'
  <2>1. /\ n \in Nat /\ <<RequestNFrame(n)>> \in Seq(Frame)
        /\ Carries(<<RequestNFrame(n)>>, n)
    BY BoundsAssumption, FramesTyped, FramesCarry, ShortSeqs
  <2>2. /\ app'[Responder].asked = app[Responder].asked + n
        /\ app'[Requester].asked = app[Requester].asked
    BY <1>2, <1>5, <2>1, DemandUpdates DEF ResponderRequest
  <2>3. /\ Send(Responder, <<RequestNFrame(n)>>) /\ UNCHANGED <<first, rcv, stream>>
    BY <1>5 DEF ResponderRequest
  <2>. QED BY <1>4, <2>1, <2>2, <2>3
<1>6. ASSUME NEW fs \in Seq(Frame), Carries(fs, 0), Send(Responder, fs),
             first'.initialRequestN = first.initialRequestN,
             \A d \in End : /\ rcv'[d].granted = rcv[d].granted
                            /\ app'[d].asked = app[d].asked
                            /\ stream[d].outDone => stream'[d].outDone
      PROVE  DemandInv'
  BY <1>2, <1>4, <1>6
<1>7. ASSUME ResponderCancel PROVE DemandInv'
  <2>1. /\ UNCHANGED <<first, rcv>> /\ stream' = InEnds(Responder)
        /\ app' = [app EXCEPT ![Responder].quit = TRUE]
        /\ Send(Responder, <<CancelFrame>>)
    BY <1>7 DEF ResponderCancel
  <2>2. \A d \in End : stream[d].outDone => stream'[d].outDone
    BY <2>1, DoneStays
  <2>3. \A d \in End : app'[d].asked = app[d].asked
    BY <2>1, DemandUpdates
  <2>. QED BY <1>1, <1>6, <2>1, <2>2, <2>3
<1>8. ASSUME NEW c \in BOOLEAN, NEW cut \in BOOLEAN, ResponderOnNext(c, cut)
      PROVE  DemandInv'
  <2>. DEFINE n == app[Responder].emitted + 1
              fs == PayloadFrames(n, c, cut)
  <2>1. n \in Nat
    <3>1. app[Responder] \in AppState
      BY DEF TypeOK
    <3>. QED BY <3>1 DEF AppState
  <2>2. /\ UNCHANGED <<first, rcv>>
        /\ app' = Emitted(Responder, c) /\ stream' = OutEnds(Responder, c)
        /\ Send(Responder, fs)
    BY <1>8 DEF ResponderOnNext
  <2>. HIDE DEF n
  <2>3. fs \in Seq(Frame) /\ Carries(fs, 0)
    BY <2>1, FramesTyped, FramesCarry
  <2>4. \A d \in End : stream[d].outDone => stream'[d].outDone
    BY <2>2, DoneStays
  <2>5. \A d \in End : app'[d].asked = app[d].asked
    BY <2>2, DemandUpdates
  <2>. HIDE DEF fs
  <2>. QED BY <1>6, <2>2, <2>3, <2>4, <2>5
<1>9. ASSUME ResponderOnComplete PROVE DemandInv'
  <2>1. /\ UNCHANGED <<first, rcv>> /\ stream' = OutEnds(Responder, TRUE)
        /\ app' = [app EXCEPT ![Responder].ended = "complete"]
        /\ Send(Responder, <<CompleteFrame>>)
    BY <1>9 DEF ResponderOnComplete
  <2>2. \A d \in End : stream[d].outDone => stream'[d].outDone
    BY <2>1, DoneStays
  <2>3. \A d \in End : app'[d].asked = app[d].asked
    BY <2>1, DemandUpdates
  <2>. QED BY <1>1, <1>6, <2>1, <2>2, <2>3
<1>10. ASSUME ResponderOnError PROVE DemandInv'
  <2>1. /\ stream' = BothEnd(Responder)
        /\ app' = [app EXCEPT ![Responder].ended = "error"]
        /\ Send(Responder, <<ErrorFrame>>)
        /\ \/ rcv' = Told(Responder, FALSE, If(~InDone(Responder), OnError))
              /\ UNCHANGED first
           \/ first' = [first EXCEPT !.deferred = ~InDone(Responder)]
              /\ UNCHANGED rcv
    BY <1>10 DEF ResponderOnError
  <2>2. \A d \in End : stream[d].outDone => stream'[d].outDone
    BY <2>1, DoneStays
  <2>3. \A d \in End : app'[d].asked = app[d].asked
    BY <2>1, DemandUpdates
  <2>4. \A d \in End : rcv'[d].granted = rcv[d].granted
    <3>1. If(~InDone(Responder), OnError) \in Seq(Signal)
      BY <1>2, SignalsTyped
    <3>. QED BY <2>1, <3>1, DemandUpdates, ZenonT(60)
  <2>5. first'.initialRequestN = first.initialRequestN
    BY <2>1 DEF TypeOK, First
  <2>. QED BY <1>1, <1>6, <2>1, <2>2, <2>3, <2>4, <2>5
<1>11. ASSUME ResponderOnExtension PROVE DemandInv'
  <2>1. /\ UNCHANGED <<first, rcv, stream>>
        /\ app' = [app EXCEPT ![Responder].extensions = @ + 1]
        /\ Send(Responder, <<ExtFrame>>)
    BY <1>11 DEF ResponderOnExtension
  <2>2. \A d \in End : app'[d].asked = app[d].asked
    BY <2>1, DemandUpdates
  <2>. QED BY <1>1, <1>6, <2>1, <2>2
<1>. QED BY <1>5, <1>7, <1>8, <1>9, <1>10, <1>11 DEF ResponderCalls

\* The handler ends: its return sends nothing, its exception ends the stream.
LEMMA HandlerEndsDemand ==
    ASSUME TypeOK, TypeOK', RequestInv, DemandInv, HandlerEnds
    PROVE  DemandInv'
<1>1. ASSUME served' \notin {"none", "reassembling"}, served = "running", phase = "ready",
             UNCHANGED <<phase, held, first, open, app>>,
             NEW fs \in Seq(Frame), Carries(fs, 0), UNCHANGED wire \/ Send(Responder, fs),
             served' # "refused",
             \A d \in End : /\ rcv'[d].granted = rcv[d].granted
                            /\ stream[d].outDone => stream'[d].outDone
      PROVE  DemandInv'
  <2>1. \A d \in End : Lo(d)' = Lo(d) /\ (Exact(d)' => Exact(d))
    BY <1>1 DEF Lo, Exact, BothOpen, OutDone
  <2>2. \A d \in End : Exact(d)' \in BOOLEAN /\ Lo(d) \in Nat
    BY DemandTyped DEF Exact, BothOpen, OutDone
  <2>3. \A d \in End : Owes(wire[d], Lo(d), app[Peer(d)].asked, Exact(d)')
    <3>1. \A d \in End : /\ Owes(wire[d], Lo(d), app[Peer(d)].asked, Exact(d))
                         /\ Exact(d) \in BOOLEAN
      BY DemandTyped DEF DemandInv, Owed
    <3>. QED BY <2>1, <2>2, <3>1, OwesStill
  <2>4. \A d \in End : Owes(wire'[d], Lo(d), app[Peer(d)].asked, Exact(d)')
    <3>1. CASE UNCHANGED wire
      BY <2>3, <3>1
    <3>2. CASE Send(Responder, fs)
      <4>1. Peer(Responder) = Requester /\ Peer(Requester) = Responder
        BY DEF Peer
      <4>2. wire'[Responder] = wire[Responder]
        BY <1>1, <3>2, PostsWires DEF Posts
      <4>3. Owes(wire'[Requester], Lo(Requester), app[Responder].asked + 0,
                 Exact(Requester)')
        BY <1>1, <2>1, <2>2, <3>2, <4>1, SentOwed DEF Posts
      <4>4. app[Responder].asked + 0 = app[Responder].asked
        BY DemandTyped
      <4>. QED BY <2>3, <4>1, <4>2, <4>3, <4>4
    <3>. QED BY <1>1, <3>1, <3>2
  <2>5. \A d \in End : Owed(d)'
    BY <1>1, <2>1, <2>4 DEF Owed
  <2>. QED BY <1>1, <2>1, <2>5 DEF DemandInv
<1>2. served = "running" /\ phase = "ready"
  BY DEF HandlerEnds, HandlerReturns, HandlerThrows, RequestInv
<1>3. /\ OutDone(Responder) \in BOOLEAN
      /\ \A b \in BOOLEAN : If(b, OnError) \in Seq(Signal)
  BY SignalsTyped DEF TypeOK, StreamState, OutDone
<1>4. ASSUME HandlerReturns PROVE DemandInv'
  <2>. DEFINE ss == If(OutDone(Responder) /\ first.deferred, OnError)
  <2>1. ss \in Seq(Signal)
    <3>1. first.deferred \in BOOLEAN
      BY DEF TypeOK, First
    <3>. QED BY <1>3, <3>1
  <2>2. /\ rcv' = Told(Responder, FALSE, ss) /\ served' = "active"
        /\ UNCHANGED <<phase, held, first, stream, wire, open, app>>
    BY <1>4 DEF HandlerReturns
  <2>. HIDE DEF ss
  <2>3. \A d \in End : rcv'[d].granted = rcv[d].granted
    BY <2>1, <2>2, DemandUpdates
  <2>4. <<>> \in Seq(Frame) /\ Carries(<<>>, 0)
    BY FramesCarry, ShortSeqs, FramesTyped
  <2>. QED BY <1>1, <1>2, <2>2, <2>3, <2>4
<1>5. ASSUME HandlerThrows PROVE DemandInv'
  <2>. DEFINE f == IF OutDone(Responder) THEN CancelFrame ELSE ErrorFrame
  <2>1. /\ served' = "threw" /\ UNCHANGED <<phase, held, first, open, app, rcv>>
        /\ \/ UNCHANGED <<stream, wire>>
           \/ stream' = BothEnd(Responder) /\ Send(Responder, <<f>>)
    BY <1>5 DEF HandlerThrows
  <2>2. <<f>> \in Seq(Frame) /\ Carries(<<f>>, 0)
    <3>1. f \in Frame /\ Carries(<<f>>, 0)
      BY FramesTyped, FramesCarry
    <3>. QED BY <3>1, ShortSeqs
  <2>. HIDE DEF f
  <2>3. \A d \in End : stream[d].outDone => stream'[d].outDone
    BY <2>1, DoneStays
  <2>. QED BY <1>1, <1>2, <2>1, <2>2, <2>3
<1>. QED BY <1>4, <1>5 DEF HandlerEnds

LEMMA RequesterHandlesDemand ==
    ASSUME TypeOK, TypeOK', RegistryInv, RequestInv, DemandInv, RequesterHandles
    PROVE  DemandInv'
<1>. DEFINE f == Head(wire[Requester])
            g == rcv[Requester].granted
<1>1. /\ wire[Requester] # <<>> /\ UNCHANGED <<phase, held, served, first, open, app>>
      /\ phase = "ready" /\ served # "none"
  <2>1. wire[Requester] # <<>> /\ UNCHANGED <<phase, held, served, first, open, app>>
    BY DEF RequesterHandles, RequesterHandlesPayload, RequesterHandlesFragment,
       RequesterHandlesCancel, RequesterHandlesError, RequesterHandlesRequestN,
       RequesterHandlesExtension, DropFrame, Handles, Arrives
  <2>. QED BY <2>1 DEF RequestInv
<1>2. f = wire[Requester][1] /\ f \in Frame
  <2>. DEFINE q == wire[Requester]
  <2>1. q \in Seq(Frame) /\ q # <<>>
    BY <1>1 DEF TypeOK
  <2>. HIDE DEF q
  <2>2. Head(q) = q[1] /\ q[1] \in Frame
    BY <2>1, Taken
  <2>. QED BY <2>2 DEF q
<1>3. /\ Peer(Requester) = Responder /\ g \in Nat /\ f.requestN \in Nat
      /\ f.complete \in BOOLEAN /\ f.next \in BOOLEAN
      /\ OutDone(Requester) \in BOOLEAN /\ InDone(Requester) \in BOOLEAN
  <2>1. g \in Nat /\ OutDone(Requester) \in BOOLEAN /\ InDone(Requester) \in BOOLEAN
    BY DEF TypeOK, RcvState, StreamState, OutDone, InDone
  <2>. QED BY <1>2, <2>1, FrameFields DEF Peer
<1>. HIDE DEF f, g
<1>4. ASSUME NEW fs \in Seq(Frame), TakeAndSend(Requester, fs), Carries(fs, 0),
             rcv'[Responder].granted = rcv[Responder].granted,
             \A d \in End : stream[d].outDone => stream'[d].outDone,
             rcv'[Requester].granted <= g + Demand(f),
             \/ rcv'[Requester].granted = g + Demand(f)
             \/ stream'[Requester].outDone
             \/ ~Exact(Requester)
      PROVE  DemandInv'
  <2>1. /\ Lo(Requester) = g /\ Lo(Requester)' = rcv'[Requester].granted
        /\ Lo(Responder)' = Lo(Responder)
    BY <1>1, <1>4 DEF Lo, g
  <2>2. \A d \in End : Exact(d)' => Exact(d) /\ ~stream'[d].outDone
    BY <1>1, <1>4 DEF Exact, BothOpen, OutDone
  <2>3. /\ Lo(Requester)' <= Lo(Requester) + Demand(wire[Requester][1])
        /\ Exact(Requester)' =>
              /\ Exact(Requester)
              /\ Lo(Requester)' = Lo(Requester) + Demand(wire[Requester][1])
    BY <1>2, <1>4, <2>1, <2>2
  <2>4. \A d \in End : Owed(d)'
    BY <1>1, <1>3, <1>4, <2>1, <2>2, <2>3, TakesKeepOwed DEF Takes
  <2>. QED BY <1>1, <1>4, <2>1, <2>4 DEF DemandInv
<1>5. /\ <<>> \in Seq(Frame) /\ Carries(<<>>, 0)
      /\ <<CancelFrame>> \in Seq(Frame) /\ Carries(<<CancelFrame>>, 0)
  <2>1. CancelFrame \in Frame
    BY FramesTyped
  <2>. QED BY <2>1, ShortSeqs, FramesCarry
<1>6. /\ f.type \notin {"REQUEST", "REQUEST_N"} => Demand(f) = 0
      /\ f.type = "REQUEST_N" => Demand(f) = f.requestN
      /\ Demand(f) \in Nat /\ g <= g + Demand(f) /\ g = g + 0
  <2>1. /\ f.type \notin {"REQUEST", "REQUEST_N"} => Demand(f) = 0
        /\ f.type = "REQUEST_N" => Demand(f) = f.requestN
        /\ Demand(f) \in Nat
    BY <1>3 DEF Demand
  <2>. QED BY <1>3, <2>1
\* Nothing is granted.
<1>7. ASSUME NEW fs \in Seq(Frame), TakeAndSend(Requester, fs), Carries(fs, 0),
             \A d \in End : /\ rcv'[d].granted = rcv[d].granted
                            /\ stream[d].outDone => stream'[d].outDone,
             \/ f.type \notin {"REQUEST", "REQUEST_N"}
             \/ stream'[Requester].outDone \/ ~Exact(Requester)
      PROVE  DemandInv'
  <2>1. rcv'[Requester].granted = g
    BY <1>7 DEF g
  <2>2. /\ rcv'[Requester].granted <= g + Demand(f)
        /\ f.type \notin {"REQUEST", "REQUEST_N"} => rcv'[Requester].granted = g + Demand(f)
    BY <1>6, <2>1
  <2>. QED BY <1>4, <1>7, <2>2
<1>8. ASSUME RequesterHandlesPayload PROVE DemandInv'
  <2>1. /\ f.type = "PAYLOAD" /\ TakeAndSend(Requester, <<>>)
        /\ stream' = Finished(Requester, f.complete, ~f.complete \/ f.next)
        /\ rcv' = Told(Requester, FALSE, <<PayloadSignal(Requester, f)>>)
    BY <1>8 DEF RequesterHandlesPayload, Handles, Arrives, f
  <2>2. \A d \in End : stream[d].outDone => stream'[d].outDone
    BY <1>3, <2>1, DoneStays
  <2>3. \A d \in End : rcv'[d].granted = rcv[d].granted
    <3>1. <<PayloadSignal(Requester, f)>> \in Seq(Signal)
      BY <1>2, PayloadSignalTyped
    <3>. QED BY <2>1, <3>1, DemandUpdates
  <2>. QED BY <1>5, <1>7, <2>1, <2>2, <2>3
<1>9. ASSUME RequesterHandlesFragment PROVE DemandInv'
  <2>1. /\ f.type = "PAYLOAD" /\ TakeAndSend(Requester, <<>>)
        /\ stream' = Extended(Requester, f.data) /\ UNCHANGED rcv
    BY <1>9 DEF RequesterHandlesFragment, Handles, Arrives, f
  <2>2. \A d \in End : stream[d].outDone => stream'[d].outDone
    BY <2>1, DoneStays
  <2>. QED BY <1>5, <1>7, <2>1, <2>2
<1>10. ASSUME RequesterHandlesCancel PROVE DemandInv'
  <2>1. /\ f.type = "CANCEL" /\ TakeAndSend(Requester, <<>>)
        /\ \/ UNCHANGED <<stream, rcv>>
           \/ /\ stream' = OutEnds(Requester, TRUE)
              /\ rcv' = Told(Requester, TRUE, <<>>)
    BY <1>10 DEF RequesterHandlesCancel, Handles, Arrives, f
  <2>2. \A d \in End : stream[d].outDone => stream'[d].outDone
    BY <2>1, DoneStays
  <2>3. \A d \in End : rcv'[d].granted = rcv[d].granted
    <3>1. \A d \in End : Told(Requester, TRUE, <<>>)[d].granted = rcv[d].granted
      BY DemandUpdates, SignalsTyped
    <3>. QED BY <2>1, <3>1
  <2>. QED BY <1>5, <1>7, <2>1, <2>2, <2>3
<1>11. ASSUME RequesterHandlesError PROVE DemandInv'
  <2>1. /\ f.type = "ERROR" /\ TakeAndSend(Requester, <<>>)
        /\ stream' = Ended(Requester, FALSE)
        /\ rcv' = Told(Requester, ~OutDone(Requester), <<OnError>>)
    BY <1>11 DEF RequesterHandlesError, Handles, Arrives, f
  <2>2. \A d \in End : stream[d].outDone => stream'[d].outDone
    BY <2>1, DoneStays
  <2>3. \A d \in End : rcv'[d].granted = rcv[d].granted
    BY <1>3, <2>1, DemandUpdates, SignalsTyped, ZenonT(60)
  <2>. QED BY <1>5, <1>7, <2>1, <2>2, <2>3
<1>12. ASSUME RequesterHandlesRequestN PROVE DemandInv'
  <2>1. CASE OutDone(Requester) /\ TakeAndSend(Requester, <<>>) /\ UNCHANGED <<stream, rcv>>
    BY <1>5, <1>7, <2>1 DEF OutDone
  <2>2. CASE RequesterRefusesFrame
    <3>1. /\ TakeAndSend(Requester, <<CancelFrame>>)
          /\ stream' = Ended(Requester, FALSE)
      BY <2>2 DEF RequesterRefusesFrame
    <3>2. \A d \in End : stream[d].outDone => stream'[d].outDone
      BY <3>1, DoneStays
    <3>3. \A d \in End : rcv'[d].granted = rcv[d].granted
      <4>1. \A d \in End : Stopped(Requester)[d].granted = rcv[d].granted
        BY DemandUpdates
      <4>2. /\ rcv'[Requester].granted = Stopped(Requester)[Requester].granted
            /\ rcv'[Responder] = rcv[Responder]
        BY <2>2, RequesterRefuses
      <4>. QED BY <4>1, <4>2
    <3>4. stream'[Requester].outDone
      BY <3>1 DEF Ended, TypeOK
    <3>. QED BY <1>5, <1>7, <3>1, <3>2, <3>3, <3>4
  <2>3. CASE /\ rcv' = Granted(Requester, f.requestN)
             /\ TakeAndSend(Requester, <<>>) /\ UNCHANGED stream
    <3>1. f.type = "REQUEST_N"
      BY <1>12 DEF RequesterHandlesRequestN, Handles, Arrives, f
    <3>2. /\ rcv'[Requester].granted = rcv[Requester].granted + f.requestN
          /\ rcv'[Responder] = rcv[Responder]
      BY <1>3, <2>3, DemandUpdates
    <3>3. rcv'[Requester].granted = g + Demand(f)
      BY <1>6, <3>1, <3>2 DEF g
    <3>4. rcv'[Requester].granted <= g + Demand(f)
      BY <1>3, <1>6, <3>3
    <3>. QED BY <1>4, <1>5, <2>3, <3>2, <3>3, <3>4
  <2>4. \/ OutDone(Requester) /\ TakeAndSend(Requester, <<>>) /\ UNCHANGED <<stream, rcv>>
        \/ RequesterRefusesFrame
        \/ /\ rcv' = Granted(Requester, f.requestN)
           /\ TakeAndSend(Requester, <<>>) /\ UNCHANGED stream
    BY <1>12 DEF RequesterHandlesRequestN, f
  <2>. QED BY <2>1, <2>2, <2>3, <2>4
<1>13. ASSUME RequesterHandlesExtension PROVE DemandInv'
  <2>1. /\ f.type = "EXT" /\ TakeAndSend(Requester, <<>>) /\ UNCHANGED <<stream, rcv>>
    BY <1>13 DEF RequesterHandlesExtension, Handles, Arrives, f
  <2>. QED BY <1>5, <1>7, <2>1
<1>14. ASSUME DropFrame(Requester) PROVE DemandInv'
  <2>1. /\ ~stream[Requester].registered /\ TakeAndSend(Requester, <<>>)
        /\ UNCHANGED <<stream, rcv>>
    BY <1>14 DEF DropFrame
  <2>2. ~Exact(Requester)
    BY <1>1, <2>1 DEF Exact, BothOpen, RegistryInv, RegistryExact, Started, Over
  <2>. QED BY <1>5, <1>7, <2>1, <2>2
<1>. QED BY <1>8, <1>9, <1>10, <1>11, <1>12, <1>13, <1>14 DEF RequesterHandles

LEMMA ResponderHandlesDemand ==
    ASSUME TypeOK, TypeOK', RegistryInv, RequestInv, DemandInv, ResponderHandles
    PROVE  DemandInv'
<1>. DEFINE f == Head(wire[Responder])
            g == rcv[Responder].granted
            l == Lo(Responder)
            i == first.initialRequestN
<1>1. /\ wire[Responder] # <<>> /\ UNCHANGED <<phase, held, open, app>>
      /\ phase = "ready"
  <2>1. wire[Responder] # <<>> /\ UNCHANGED <<phase, held, open, app>>
    BY DEF ResponderHandles, ResponderRejects, ResponderRefusesDemand,
       ResponderReceivesFirstFragment, ResponderReceivesRequest, CallHandler,
       ResponderReassemblesRequest, ResponderHandlesFragment,
       ResponderHandlesPayload, ResponderHandlesEnd, ResponderHandlesRequestN,
       ResponderHandlesExtension, DropFrame, Handles, Arrives
  <2>. QED BY <2>1 DEF RequestInv
<1>2. f = wire[Responder][1] /\ f \in Frame
  <2>. DEFINE q == wire[Responder]
  <2>1. q \in Seq(Frame) /\ q # <<>>
    BY <1>1 DEF TypeOK
  <2>. HIDE DEF q
  <2>2. Head(q) = q[1] /\ q[1] \in Frame
    BY <2>1, Taken
  <2>. QED BY <2>2 DEF q
<1>3. /\ Peer(Responder) = Requester /\ g \in Nat /\ f.requestN \in Nat
      /\ f.complete \in BOOLEAN /\ f.next \in BOOLEAN
      /\ OutDone(Responder) \in BOOLEAN /\ InDone(Responder) \in BOOLEAN
      /\ l \in Nat /\ i \in Nat
  <2>1. /\ g \in Nat /\ OutDone(Responder) \in BOOLEAN /\ InDone(Responder) \in BOOLEAN
        /\ i \in Nat
    BY DEF TypeOK, RcvState, StreamState, OutDone, InDone, First
  <2>2. l \in Nat
    BY DemandTyped
  <2>. QED BY <1>2, <2>1, <2>2, FrameFields DEF Peer
<1>4. /\ l = (IF served = "reassembling" THEN i ELSE g) /\ i <= l
      /\ served \in {"none", "reassembling"} => g = 0
      /\ served = "none" => i = 0
  BY DEF Lo, DemandInv
<1>. HIDE DEF f, g, l, i
<1>5. ASSUME NEW fs \in Seq(Frame), TakeAndSend(Responder, fs), Carries(fs, 0),
             rcv'[Requester].granted = rcv[Requester].granted,
             stream[Requester].outDone => stream'[Requester].outDone,
             served = "refused" => served' = "refused",
             Lo(Responder)' <= l + Demand(f),
             Exact(Responder)' => Exact(Responder) /\ Lo(Responder)' = l + Demand(f),
             served' # "none", first'.initialRequestN <= Lo(Responder)',
             served' = "reassembling" => rcv'[Responder].granted = 0
      PROVE  DemandInv'
  <2>1. Lo(Requester)' = Lo(Requester)
    BY <1>5 DEF Lo
  <2>2. Exact(Requester)' => Exact(Requester)
    BY <1>1, <1>5 DEF Exact, BothOpen, OutDone
  <2>3. /\ Lo(Responder)' <= Lo(Responder) + Demand(wire[Responder][1])
        /\ Exact(Responder)' =>
              /\ Exact(Responder)
              /\ Lo(Responder)' = Lo(Responder) + Demand(wire[Responder][1])
    BY <1>2, <1>5 DEF l
  <2>4. \A d \in End : Owed(d)'
    BY <1>1, <1>3, <1>5, <2>1, <2>2, <2>3, TakesKeepOwed DEF Takes
  <2>. QED BY <1>1, <1>5, <2>4 DEF DemandInv
<1>6. /\ <<>> \in Seq(Frame) /\ Carries(<<>>, 0)
      /\ <<ErrorFrame>> \in Seq(Frame) /\ Carries(<<ErrorFrame>>, 0)
  <2>1. ErrorFrame \in Frame
    BY FramesTyped
  <2>. QED BY <2>1, ShortSeqs, FramesCarry
<1>7. /\ f.type \notin {"REQUEST", "REQUEST_N"} => Demand(f) = 0
      /\ f.type \in {"REQUEST", "REQUEST_N"} => Demand(f) = f.requestN
      /\ Demand(f) \in Nat /\ l <= l + Demand(f) /\ l = l + 0 /\ 0 + f.requestN = f.requestN
      /\ 0 <= f.requestN /\ f.requestN <= f.requestN
  <2>1. /\ f.type \notin {"REQUEST", "REQUEST_N"} => Demand(f) = 0
        /\ f.type \in {"REQUEST", "REQUEST_N"} => Demand(f) = f.requestN
        /\ Demand(f) \in Nat
    BY <1>3 DEF Demand
  <2>. QED BY <1>3, <2>1
\* Nothing is granted.
<1>8. ASSUME NEW fs \in Seq(Frame), TakeAndSend(Responder, fs), Carries(fs, 0),
             UNCHANGED first,
             \/ served' = served /\ served # "none"
             \/ served = "none" /\ served' = "refused",
             \A d \in End : /\ rcv'[d].granted = rcv[d].granted
                            /\ stream[d].outDone => stream'[d].outDone,
             \/ f.type \notin {"REQUEST", "REQUEST_N"} /\ served' = served
             \/ stream'[Responder].outDone \/ served' = "refused" \/ ~Exact(Responder)
      PROVE  DemandInv'
  <2>1. Lo(Responder)' = l
    BY <1>4, <1>8 DEF Lo, l, g
  <2>2. Exact(Responder)' =>
           /\ Exact(Responder) /\ ~stream'[Responder].outDone /\ served' # "refused"
    BY <1>1, <1>8 DEF Exact, BothOpen, OutDone
  <2>3. /\ Lo(Responder)' <= l + Demand(f)
        /\ Exact(Responder)' => Exact(Responder) /\ Lo(Responder)' = l + Demand(f)
    BY <1>7, <1>8, <2>1, <2>2
  <2>4. first'.initialRequestN <= Lo(Responder)'
    BY <1>4, <1>8, <2>1 DEF i
  <2>5. served' = "reassembling" => rcv'[Responder].granted = 0
    BY <1>4, <1>8 DEF g
  <2>. QED BY <1>5, <1>8, <2>3, <2>4, <2>5
<1>9. ASSUME ResponderRejects \/ ResponderRefusesDemand PROVE DemandInv'
  <2>1. /\ served = "none" /\ served' = "refused" /\ TakeAndSend(Responder, <<ErrorFrame>>)
        /\ UNCHANGED <<first, rcv>>
        /\ stream' = stream \/ stream' = Ended(Responder, FALSE)
    BY <1>9 DEF ResponderRejects, ResponderRefusesDemand
  <2>2. \A d \in End : stream[d].outDone => stream'[d].outDone
    BY <2>1, DoneStays
  <2>. QED BY <1>6, <1>8, <2>1, <2>2
<1>10. ASSUME ResponderReceivesFirstFragment PROVE DemandInv'
  <2>1. /\ f.type = "REQUEST" /\ served = "none" /\ served' = "reassembling"
        /\ first' = [first EXCEPT !.initialRequestN = f.requestN,
                                  !.isComplete = f.complete]
        /\ stream' = [stream EXCEPT ![Responder] =
                        [@ EXCEPT !.registered = TRUE, !.hasFragments = TRUE,
                                  !.fragments = f.data]]
        /\ TakeAndSend(Responder, <<>>) /\ UNCHANGED rcv
    BY <1>10 DEF ResponderReceivesFirstFragment, Arrives, f
  <2>2. \A d \in End : stream'[d].outDone = stream[d].outDone
    BY <2>1 DEF TypeOK, StreamState
  <2>3. first'.initialRequestN = f.requestN /\ Lo(Responder)' = f.requestN
    BY <2>1 DEF TypeOK, First, Lo
  <2>4. l = 0 /\ Demand(f) = f.requestN
    BY <1>4, <1>7, <2>1
  <2>5. Exact(Responder)' => Exact(Responder)
    BY <1>1, <2>1, <2>2 DEF Exact, BothOpen, OutDone
  <2>6. rcv'[Responder].granted = 0
    BY <1>4, <2>1 DEF g
  <2>. QED BY <1>5, <1>6, <1>7, <2>1, <2>2, <2>3, <2>4, <2>5, <2>6
\* The application's handler is called.
<1>11. ASSUME NEW d, NEW n \in Nat, NEW c, CallHandler(d, n, c), UNCHANGED first,
              \A e \in End : stream[e].outDone => stream'[e].outDone,
              served # "refused", first.initialRequestN <= n, n <= l + Demand(f),
              Exact(Responder)' => Exact(Responder) /\ n = l + Demand(f)
       PROVE  DemandInv'
  <2>1. /\ served' = "running" /\ TakeAndSend(Responder, <<>>)
        /\ rcv' = [rcv EXCEPT ![Responder] = [@ EXCEPT !.signals = <<OnNext(d, c)>>,
                                                       !.granted = n]]
    BY <1>11 DEF CallHandler
  <2>2. rcv'[Responder].granted = n /\ rcv'[Requester] = rcv[Requester]
    BY <2>1 DEF TypeOK, RcvState
  <2>3. Lo(Responder)' = n
    BY <2>1, <2>2 DEF Lo
  <2>. QED BY <1>5, <1>6, <1>11, <2>1, <2>2, <2>3
<1>12. ASSUME ResponderReceivesRequest PROVE DemandInv'
  <2>1. /\ f.type = "REQUEST" /\ served = "none" /\ served' = "running"
        /\ stream' = [stream EXCEPT ![Responder] =
                        [@ EXCEPT !.registered = TRUE, !.inDone = f.complete]]
        /\ CallHandler(f.data, f.requestN, f.complete) /\ UNCHANGED first
    BY <1>12 DEF ResponderReceivesRequest, CallHandler, Arrives, f
  <2>2. \A d \in End : stream'[d].outDone = stream[d].outDone
    BY <2>1 DEF TypeOK, StreamState
  <2>3. l = 0 /\ Demand(f) = f.requestN /\ first.initialRequestN = 0
    BY <1>4, <1>7, <2>1 DEF i
  <2>4. Exact(Responder)' => Exact(Responder)
    BY <1>1, <2>1, <2>2 DEF Exact, BothOpen, OutDone
  <2>. QED BY <1>3, <1>7, <1>11, <2>1, <2>2, <2>3, <2>4
<1>13. ASSUME ResponderReassemblesRequest PROVE DemandInv'
  <2>. DEFINE c == first.isComplete \/ f.complete
  <2>1. /\ f.type = "PAYLOAD" /\ served # "active" /\ stream[Responder].registered
        /\ served' = "running" /\ UNCHANGED first
        /\ stream' = Finished(Responder, c, TRUE)
        /\ CallHandler(Reassembled(Responder, f.data), i, c) /\ served # "running"
    BY <1>13 DEF ResponderReassemblesRequest, CallHandler, Handles, Arrives, HasReceiver, f, i
  <2>2. c \in BOOLEAN
    BY <1>3 DEF TypeOK, First
  <2>. HIDE DEF c
  <2>3. \A d \in End : stream[d].outDone => stream'[d].outDone
    BY <2>1, <2>2, DoneStays
  <2>4. served \in {"reassembling", "threw"}
    <3>1. served \notin {"none", "refused"}
      BY <2>1 DEF RegistryInv, Fresh
    <3>. QED BY <2>1, <3>1 DEF TypeOK
  <2>5. Exact(Responder)' => Exact(Responder) /\ served = "reassembling"
    <3>1. Exact(Responder)' => Exact(Responder)
      BY <1>1, <2>1, <2>3, <2>4 DEF Exact, BothOpen, OutDone
    <3>2. Exact(Responder) => served # "threw"
      BY <2>1 DEF Exact, RequestInv, Over
    <3>. QED BY <2>4, <3>1, <3>2
  <2>6. Demand(f) = 0 /\ i <= l + 0 /\ i <= i
    BY <1>3, <1>4, <1>7, <2>1
  <2>7. first.initialRequestN = i /\ i \in Nat
    BY <1>3 DEF i
  <2>8. Exact(Responder)' => i = l + Demand(f)
    BY <1>3, <1>4, <2>5, <2>6
  <2>. QED BY <1>11, <2>1, <2>3, <2>4, <2>5, <2>6, <2>7, <2>8
<1>14. stream[Responder].registered => served \notin {"none", "refused"}
  BY DEF RegistryInv, Fresh
<1>15. ASSUME ResponderHandlesFragment PROVE DemandInv'
  <2>1. /\ f.type = "PAYLOAD" /\ stream[Responder].registered
        /\ stream' = Extended(Responder, f.data) /\ TakeAndSend(Responder, <<>>)
        /\ UNCHANGED <<served, first, rcv>>
    BY <1>15 DEF ResponderHandlesFragment, Handles, Arrives, f
  <2>2. \A d \in End : stream[d].outDone => stream'[d].outDone
    BY <2>1, DoneStays
  <2>. QED BY <1>6, <1>8, <1>14, <2>1, <2>2
<1>16. ASSUME ResponderHandlesPayload PROVE DemandInv'
  <2>1. /\ f.type = "PAYLOAD" /\ stream[Responder].registered
        /\ stream' = Finished(Responder, f.complete, TRUE)
        /\ TakeAndSend(Responder, <<>>)
        /\ rcv' = Told(Responder, FALSE, <<PayloadSignal(Responder, f)>>)
        /\ UNCHANGED <<served, first>>
    BY <1>16 DEF ResponderHandlesPayload, Handles, Arrives, f
  <2>2. \A d \in End : stream[d].outDone => stream'[d].outDone
    BY <1>3, <2>1, DoneStays
  <2>3. \A d \in End : rcv'[d].granted = rcv[d].granted
    <3>1. <<PayloadSignal(Responder, f)>> \in Seq(Signal)
      BY <1>2, PayloadSignalTyped
    <3>. QED BY <2>1, <3>1, DemandUpdates
  <2>. QED BY <1>6, <1>8, <1>14, <2>1, <2>2, <2>3
<1>17. \A d \in End : Stopped(Responder)[d].granted = rcv[d].granted
  BY DemandUpdates
<1>18. ASSUME ResponderHandlesEnd PROVE DemandInv'
  <2>1. /\ f.type \in {"ERROR", "CANCEL"} /\ stream[Responder].registered
        /\ stream' = Ended(Responder, FALSE) /\ TakeAndSend(Responder, <<>>)
        /\ rcv' = Stopped(Responder) \/ rcv' = rcv
        /\ UNCHANGED <<served, first>>
    BY <1>18 DEF ResponderHandlesEnd, Handles, Arrives, f
  <2>2. \A d \in End : stream[d].outDone => stream'[d].outDone
    BY <2>1, DoneStays
  <2>3. \A d \in End : rcv'[d].granted = rcv[d].granted
    BY <1>17, <2>1
  <2>. QED BY <1>6, <1>8, <1>14, <2>1, <2>2, <2>3
<1>19. ASSUME ResponderRefusesFrame, stream[Responder].registered, UNCHANGED <<served, first>>
       PROVE  DemandInv'
  <2>. DEFINE r == IF HasReceiver THEN Stopped(Responder) ELSE rcv
  <2>1. /\ stream' = Ended(Responder, FALSE) /\ TakeAndSend(Responder, <<ErrorFrame>>)
        /\ \E k : rcv' = [r EXCEPT ![Responder].protocolErrors = @ + k]
    BY <1>19 DEF ResponderRefusesFrame
  <2>2. r \in [End -> RcvState] /\ \A d \in End : r[d].granted = rcv[d].granted
    <3>1. Stopped(Responder) \in [End -> RcvState] /\ rcv \in [End -> RcvState]
      BY StoppedTyped DEF TypeOK
    <3>. QED BY <1>17, <3>1
  <2>. HIDE DEF r
  <2>3. \A d \in End : rcv'[d].granted = rcv[d].granted
    <3>1. PICK k : rcv' = [r EXCEPT ![Responder].protocolErrors = @ + k]
      BY <2>1
    <3>. QED BY <2>2, <3>1 DEF RcvState
  <2>4. \A d \in End : stream[d].outDone => stream'[d].outDone
    BY <2>1, DoneStays
  <2>5. stream'[Responder].outDone
    BY <2>1 DEF Ended, TypeOK
  <2>. QED BY <1>6, <1>8, <1>14, <1>19, <2>1, <2>3, <2>4, <2>5
<1>20. ASSUME ResponderHandlesRequestN PROVE DemandInv'
  <2>1. /\ f.type = "REQUEST_N" /\ stream[Responder].registered
        /\ UNCHANGED <<served, first>>
        /\ \/ ResponderRefusesFrame
           \/ /\ served = "active" /\ rcv' = Granted(Responder, f.requestN)
              /\ TakeAndSend(Responder, <<>>) /\ UNCHANGED stream
    BY <1>20 DEF ResponderHandlesRequestN, Handles, Arrives, Reassembling, HasReceiver, f
  <2>2. CASE /\ served = "active" /\ rcv' = Granted(Responder, f.requestN)
             /\ TakeAndSend(Responder, <<>>) /\ UNCHANGED stream
    <3>1. /\ rcv'[Responder].granted = g + f.requestN
          /\ rcv'[Requester] = rcv[Requester]
      BY <1>3, <2>2, DemandUpdates DEF g
    <3>2. l = g /\ Lo(Responder)' = l + Demand(f)
      BY <1>4, <1>7, <2>1, <2>2, <3>1 DEF Lo
    <3>3. /\ Lo(Responder)' <= l + Demand(f)
          /\ first'.initialRequestN <= Lo(Responder)'
      <4>1. first'.initialRequestN = i
        BY <2>1 DEF i
      <4>2. Demand(f) = f.requestN
        BY <1>7, <2>1
      <4>. QED BY <1>3, <1>4, <3>2, <4>1, <4>2
    <3>4. Exact(Responder)' => Exact(Responder)
      BY <1>1, <2>1, <2>2 DEF Exact, BothOpen, OutDone
    <3>. QED BY <1>5, <1>6, <2>1, <2>2, <3>1, <3>2, <3>3, <3>4
  <2>. QED BY <1>19, <2>1, <2>2
<1>21. ASSUME ResponderHandlesExtension PROVE DemandInv'
  <2>1. /\ f.type = "EXT" /\ stream[Responder].registered /\ UNCHANGED <<served, first>>
        /\ \/ ResponderRefusesFrame
           \/ TakeAndSend(Responder, <<>>) /\ UNCHANGED <<stream, rcv>>
    BY <1>21 DEF ResponderHandlesExtension, Handles, Arrives, f
  <2>. QED BY <1>6, <1>8, <1>14, <1>19, <2>1
<1>22. ASSUME DropFrame(Responder) PROVE DemandInv'
  <2>1. /\ f.type # "REQUEST" /\ ~stream[Responder].registered
        /\ TakeAndSend(Responder, <<>>) /\ UNCHANGED <<stream, rcv, served, first>>
    BY <1>22 DEF DropFrame, f
  <2>2. served # "none"
    BY <1>1, <1>2, <2>1 DEF RequestInv
  <2>3. ~Exact(Responder)
    BY <2>1, <2>2 DEF Exact, BothOpen, RegistryInv, RegistryExact, Started, Over, TypeOK
  <2>. QED BY <1>6, <1>8, <2>1, <2>2, <2>3
<1>. QED BY <1>9, <1>10, <1>12, <1>13, <1>15, <1>16, <1>18, <1>20, <1>21, <1>22
         DEF ResponderHandles

LEMMA OwesNone ==
    ASSUME NEW n \in Nat
    PROVE  Owes(<<>>, n, n, TRUE)
<1>. DEFINE F == [i \in 0 .. 0 |-> n]
<1>1. F \in [0 .. 0 -> 0 .. n] /\ F[0] = n
  OBVIOUS
<1>2. Len(<<>>) = 0 /\ 1 .. 0 = {} /\ n <= n
  OBVIOUS
<1>. HIDE DEF F
<1>3. \E G \in [0 .. 0 -> 0 .. n] : n <= G[0] /\ n = G[0] /\ G[0] = n
  BY <1>1, <1>2
<1>. QED BY <1>2, <1>3 DEF Owes

\* The step that sends the request, with the demand it carries.
LEMMA ReadyDemand ==
    ASSUME TypeOK, TypeOK', RequestInv, DemandInv, NEW cut \in BOOLEAN, HandleReady(cut)
    PROVE  DemandInv'
<1>. DEFINE n == held.initialRequestN
            c == held.isComplete
            b == held.hasExtension
            gs == RequestFrames(n, c, cut)
            es == If(b, ExtFrame)
            fs == gs \o es
<1>1. n \in Nat /\ c \in BOOLEAN /\ b \in BOOLEAN
  BY DEF TypeOK, Held
<1>2. /\ Send(Requester, fs) /\ phase # "ready" /\ phase' = "ready"
      /\ UNCHANGED <<held, served, first, open, rcv>>
      /\ app' = [app EXCEPT ![Requester].emitted = 1]
  BY DEF HandleReady
<1>3. app[Requester].asked = n
  BY <1>2 DEF DemandInv
<1>. HIDE DEF n, c, b
<1>4. /\ gs \in Seq(Frame) /\ es \in Seq(Frame) /\ Carries(gs, n) /\ Carries(es, 0)
  <2>1. gs \in Seq(Frame) /\ ExtFrame \in Frame /\ <<>> \in Seq(Frame)
    BY <1>1, FramesTyped, ShortSeqs
  <2>2. es \in Seq(Frame)
    BY <2>1, ShortSeqs DEF If
  <2>3. Carries(gs, n)
    BY <1>1, FramesCarry
  <2>4. Carries(<<ExtFrame>>, 0) /\ Carries(<<>>, 0)
    BY FramesCarry
  <2>5. Carries(es, 0)
    BY <2>4 DEF If
  <2>. QED BY <2>1, <2>2, <2>3, <2>5
<1>. HIDE DEF gs, es
<1>5. fs \in Seq(Frame) /\ Carries(fs, n)
  <2>1. fs \in Seq(Frame)
    BY <1>4, ConcatProperties
  <2>2. Carries(fs, n + 0)
    BY <1>1, <1>4, CarriesJoined
  <2>3. n + 0 = n
    BY <1>1
  <2>. QED BY <2>1, <2>2, <2>3
<1>. HIDE DEF fs
<1>6. /\ wire[Responder] = <<>> /\ wire[Requester] = <<>> /\ served = "none"
  BY <1>2 DEF RequestInv
<1>7. /\ BothOpen => wire'[Responder] = wire[Responder] \o fs
      /\ ~BothOpen => wire'[Responder] = <<>>
      /\ wire'[Requester] = <<>>
  BY <1>2, <1>5, <1>6, PostsWires DEF Posts, Peer
<1>8. wire[Responder] \o fs = fs /\ <<>> \o fs = fs
  BY <1>5, <1>6, ConcatEmptySeq
<1>9. \A d \in End : app'[d].asked = app[d].asked
  BY <1>2, DemandUpdates
<1>10. /\ Peer(Requester) = Responder /\ Peer(Responder) = Requester
       /\ app[Responder].asked = 0 /\ rcv[Responder].granted = 0
       /\ first.initialRequestN = 0
  BY <1>6 DEF Peer, DemandInv
<1>11. rcv[Requester].granted = 0
  <2>. DEFINE q == wire[Requester]
              g == rcv[Requester].granted
  <2>1. q \in Seq(Frame) /\ g \in Nat /\ Exact(Requester) \in BOOLEAN
    BY DemandTyped DEF TypeOK, Lo
  <2>2. Owes(q, g, 0, Exact(Requester))
    BY <1>10 DEF DemandInv, Owed, Lo
  <2>3. 0 \in Nat
    OBVIOUS
  <2>. HIDE DEF q, g
  <2>4. g <= 0
    BY <2>1, <2>2, <2>3, OwesBounds
  <2>5. g = 0
    BY <2>1, <2>4
  <2>. QED BY <2>5 DEF g
<1>12. \A d \in End : Lo(d)' = 0
  BY <1>2, <1>6, <1>10, <1>11 DEF Lo
<1>13. \A d \in End : Exact(d)' \in BOOLEAN /\ (Exact(d)' => BothOpen)
  BY <1>2 DEF Exact, BothOpen, OutDone
<1>14. \A x \in BOOLEAN : Owes(<<>>, 0, 0, x)
  <2>1. Owes(<<>>, 0, 0, TRUE)
    BY OwesNone
  <2>. QED BY <2>1, OwesStill
<1>15. \A x \in BOOLEAN : Owes(fs, 0, n, x)
  <2>1. Owes(<<>>, 0, 0, TRUE) /\ <<>> \in Seq(Frame) /\ 0 \in Nat
    BY <1>14, FramesTyped, ShortSeqs
  <2>2. Owes(<<>> \o fs, 0, 0 + n, TRUE)
    BY <1>5, <2>1 DEF Carries
  <2>3. 0 + n = n
    BY <1>1
  <2>4. Owes(fs, 0, n, TRUE)
    BY <1>8, <2>2, <2>3
  <2>. QED BY <2>4, OwesStill
<1>16. Owes(<<>>, 0, n, FALSE)
  <2>1. 0 <= n /\ 0 \in Nat
    BY <1>1
  <2>. QED BY <1>1, <2>1, OwesNothing
<1>17. Owes(wire'[Responder], 0, n, Exact(Responder)')
  <2>1. CASE BothOpen
    BY <1>7, <1>8, <1>13, <1>15, <2>1
  <2>2. CASE ~BothOpen
    <3>1. Exact(Responder)' = FALSE
      BY <1>13, <2>2
    <3>. QED BY <1>7, <1>16, <2>2, <3>1
  <2>. QED BY <2>1, <2>2
<1>18. Owes(wire'[Requester], 0, 0, Exact(Requester)')
  BY <1>7, <1>13, <1>14
<1>19. \A d \in End : Owes(wire'[d], Lo(d)', app'[Peer(d)].asked, Exact(d)')
  BY <1>3, <1>9, <1>10, <1>12, <1>17, <1>18
<1>20. first'.initialRequestN <= Lo(Responder)'
  <2>1. 0 <= 0
    OBVIOUS
  <2>. QED BY <1>2, <1>10, <1>12, <2>1
<1>. QED BY <1>2, <1>9, <1>10, <1>19, <1>20 DEF DemandInv, Owed

\* The request is not made after all.
LEMMA DeclinedDemand ==
    ASSUME TypeOK, TypeOK', RequestInv, DemandInv, HandleReadyDeclined \/ HandleReject
    PROVE  DemandInv'
<1>1. /\ phase # "ready" /\ phase' # "ready"
      /\ UNCHANGED <<held, served, first, wire, open, app>>
      /\ rcv' = rcv \/ rcv' = Told(Requester, FALSE, <<OnError>>)
  BY DEF HandleReadyDeclined, HandleReject
<1>2. \A d \in End : rcv'[d].granted = rcv[d].granted
  <2>1. \A d \in End : Told(Requester, FALSE, <<OnError>>)[d].granted = rcv[d].granted
    BY DemandUpdates, SignalsTyped
  <2>. QED BY <1>1, <2>1
<1>3. /\ app[Requester].asked = app[Requester].asked + 0
      /\ held.initialRequestN = held.initialRequestN + 0
  <2>1. app[Requester].asked \in Nat /\ held.initialRequestN \in Nat
    BY DemandTyped DEF TypeOK, Held
  <2>2. \A n \in Nat : n = n + 0
    OBVIOUS
  <2>. QED BY <2>1, <2>2
<1>. QED BY <1>1, <1>2, <1>3, PendingKeepsDemand

\* A close loses a part of what was under way, and no more is promised.
LEMMA CloseDemand ==
    ASSUME TypeOK, TypeOK', DemandInv, NEW e \in End, Close(e)
    PROVE  DemandInv'
<1>. DEFINE p == Peer(e)
<1>1. /\ ~BothOpen' /\ p \in End /\ p # e /\ \A d \in End : d = e \/ d = p
      /\ wire'[p] = wire[p] /\ Len(wire'[e]) <= Len(wire[e])
      /\ \A i \in 1 .. Len(wire'[e]) : wire'[e][i] = wire[e][i]
  BY CloseWires DEF Peer
<1>2. /\ UNCHANGED <<phase, held, served, first, app>>
      /\ rcv' = rcv \/ rcv' = Stopped(e)
  BY DEF Close
<1>3. \A d \in End : rcv'[d].granted = rcv[d].granted
  BY <1>2, DemandUpdates
<1>4. \A d \in End : Lo(d)' = Lo(d) /\ Exact(d)' = FALSE
  BY <1>1, <1>2, <1>3 DEF Lo, Exact
<1>5. \A d \in End : /\ wire[d] \in Seq(Frame) /\ wire'[d] \in Seq(Frame)
                     /\ Lo(d) \in Nat /\ app[Peer(d)].asked \in Nat
                     /\ Exact(d) \in BOOLEAN
                     /\ Owes(wire[d], Lo(d), app[Peer(d)].asked, Exact(d))
  BY DemandTyped DEF DemandInv, Owed, TypeOK, Peer
<1>6. Owes(wire'[e], Lo(e), app[Peer(e)].asked, FALSE)
  <2>. DEFINE q == wire[e]
              r == wire'[e]
              l == Lo(e)
              h == app[Peer(e)].asked
              x == Exact(e)
  <2>1. /\ q \in Seq(Frame) /\ r \in Seq(Frame) /\ l \in Nat /\ h \in Nat
        /\ x \in BOOLEAN /\ Owes(q, l, h, x) /\ Len(r) <= Len(q)
        /\ \A i \in 1 .. Len(r) : r[i] = q[i]
    BY <1>1, <1>5
  <2>. HIDE DEF q, r, l, h, x
  <2>2. Owes(r, l, h, FALSE)
    BY <2>1, OwesCut
  <2>. QED BY <2>2 DEF r, l, h
<1>7. Owes(wire'[p], Lo(p), app[Peer(p)].asked, FALSE)
  <2>1. Owes(wire[p], Lo(p), app[Peer(p)].asked, FALSE)
    BY <1>1, <1>5, OwesStill
  <2>. QED BY <1>1, <2>1
<1>8. \A d \in End : Owes(wire'[d], Lo(d)', app'[Peer(d)].asked, Exact(d)')
  BY <1>1, <1>2, <1>4, <1>6, <1>7
<1>. QED BY <1>2, <1>3, <1>4, <1>8 DEF DemandInv, Owed

LEMMA DemandSteps ==
    ASSUME TypeOK, TypeOK', RegistryInv, RequestInv, DemandInv, Next
    PROVE  DemandInv'
BY ReadyDemand, DeclinedDemand, RequesterCallsDemand, ResponderCallsDemand,
   RequesterHandlesDemand, ResponderHandlesDemand, HandlerEndsDemand, CloseDemand
   DEF Next, Answer

LEMMA DemandStart == Init => DemandInv
<1>. SUFFICES ASSUME Init PROVE DemandInv
  OBVIOUS
<1>1. held.initialRequestN \in Nat
  BY BoundsAssumption DEF Init
<1>2. /\ \A d \in End : Lo(d) = 0 /\ Exact(d) = FALSE /\ wire[d] = <<>>
      /\ app[Responder].asked = 0 /\ app[Requester].asked = held.initialRequestN
      /\ rcv[Responder].granted = 0 /\ first.initialRequestN = 0
      /\ phase # "ready"
  BY DEF Init, Lo, Exact
<1>3. \A n \in Nat : Owes(<<>>, 0, n, FALSE)
  <2>1. \A n \in Nat : 0 <= n
    OBVIOUS
  <2>. QED BY <2>1, OwesNothing
<1>4. \A d \in End : app[Peer(d)].asked \in Nat
  <2>1. Peer(Requester) = Responder /\ Peer(Responder) = Requester
    BY DEF Peer
  <2>. QED BY <1>1, <1>2, <2>1
<1>5. \A d \in End : Owed(d)
  BY <1>2, <1>3, <1>4 DEF Owed
<1>6. first.initialRequestN <= Lo(Responder)
  <2>1. 0 <= 0
    OBVIOUS
  <2>. QED BY <1>2, <2>1
<1>. QED BY <1>2, <1>5, <1>6 DEF DemandInv

LEMMA DemandCorrect == Spec => []DemandInv
<1>1. TypeOK /\ TypeOK' /\ FlowInv /\ DemandInv /\ [Next]_vars => DemandInv'
  <2>1. CASE Next
    BY <2>1, DemandSteps DEF FlowInv
  <2>2. ASSUME UNCHANGED vars, DemandInv PROVE DemandInv'
    BY <2>2 DEF vars, DemandInv, Owed, Lo, Exact, BothOpen, OutDone
  <2>. QED BY <2>1, <2>2
<1>. QED BY <1>1, DemandStart, TypeCorrect, FlowCorrect, PTL DEF Spec

(***************************************************************************)
(* Whatever the ends do, what a producer has been granted never exceeds    *)
(* what its peer asked for, and, with nothing in flight on an open         *)
(* connection, it is exactly that: no request(n) made before the stream    *)
(* had an id, folded into the request frame, carried by REQUEST_N or       *)
(* deferred until the request is reassembled is lost or counted twice.     *)
(***************************************************************************)
THEOREM DemandIsConserved == Spec => []DemandConserved
<1>1. TypeOK /\ DemandInv => DemandConserved
  <2>. SUFFICES ASSUME TypeOK, DemandInv, NEW e \in End
                PROVE  /\ rcv[e].granted <= app[Peer(e)].asked
                       /\ (/\ \A d \in End : open[d] /\ wire[d] = <<>>
                           /\ phase = "ready" /\ served \in {"running", "active"}
                           /\ ~OutDone(e))
                          => rcv[e].granted = app[Peer(e)].asked
    BY DEF DemandConserved
  <2>. DEFINE g == rcv[e].granted
              l == Lo(e)
              a == app[Peer(e)].asked
              x == Exact(e)
              q == wire[e]
  <2>1. /\ q \in Seq(Frame) /\ l \in Nat /\ a \in Nat /\ x \in BOOLEAN
        /\ Owes(q, l, a, x) /\ g \in Nat
    <3>1. Peer(e) \in End /\ q \in Seq(Frame) /\ g \in Nat
      BY DEF Peer, TypeOK, RcvState
    <3>. QED BY <3>1, DemandTyped DEF DemandInv, Owed
  <2>2. g = l \/ (g = 0 /\ served = "reassembling")
    BY DEF Lo, DemandInv
  <2>3. (/\ \A d \in End : open[d] /\ wire[d] = <<>>
         /\ phase = "ready" /\ served \in {"running", "active"} /\ ~OutDone(e))
        => x /\ q = <<>> /\ served # "reassembling"
    BY DEF Exact, BothOpen
  <2>. HIDE DEF g, l, a, x, q
  <2>4. l <= a /\ (x /\ q = <<>> => l = a)
    BY <2>1, OwesBounds
  <2>5. g <= a
    BY <2>1, <2>2, <2>4
  <2>. QED BY <2>2, <2>3, <2>4, <2>5 DEF g, a
<1>. QED BY <1>1, TypeCorrect, DemandCorrect, PTL
=============================================================================
