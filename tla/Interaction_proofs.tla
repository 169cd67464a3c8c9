------------------------ MODULE Interaction_proofs ------------------------
(***************************************************************************)
(* Lemmas the proofs about the interaction models share: the frames, the   *)
(* signals and the wires have their types.                                 *)
(***************************************************************************)
EXTENDS Interaction, SequenceTheorems, TLAPS

USE DEF End, Requester, Responder

\* Short tuples are sequences.
LEMMA ShortSeqs ==
    ASSUME NEW S, NEW x \in S, NEW y \in S, NEW z \in S
    PROVE  /\ <<>> \in Seq(S) /\ <<x>> \in Seq(S)
           /\ <<x, y>> \in Seq(S) /\ <<x, y, z>> \in Seq(S)
OBVIOUS

LEMMA FramesTyped ==
    /\ \A n \in Nat, c \in BOOLEAN, cut \in BOOLEAN :
          /\ PayloadFrames(n, c, cut) \in Seq(Frame)
          /\ RequestFrames(n, c, cut) \in Seq(Frame)
    /\ \A n \in Nat : RequestNFrame(n) \in Frame
    /\ CompleteFrame \in Frame /\ CancelFrame \in Frame
    /\ ErrorFrame \in Frame /\ ExtFrame \in Frame
<1>. SUFFICES ASSUME NEW n \in Nat, NEW c \in BOOLEAN, NEW cut \in BOOLEAN
              PROVE  /\ PayloadFrames(n, c, cut) \in Seq(Frame)
                     /\ RequestFrames(n, c, cut) \in Seq(Frame)
                     /\ RequestNFrame(n) \in Frame
                     /\ CompleteFrame \in Frame /\ CancelFrame \in Frame
                     /\ ErrorFrame \in Frame /\ ExtFrame \in Frame
  BY Zenon
<1>1. ASSUME NEW m \in Nat, NEW d \in Seq(Nat), NEW x \in BOOLEAN,
             NEW y \in BOOLEAN, NEW z \in BOOLEAN
      PROVE  PayloadFrame(d, x, y, z) \in Frame /\ RequestFrame(m, d, x, y) \in Frame
  BY DEF PayloadFrame, RequestFrame, Frame, FrameTypes
<1>2. <<n>> \in Seq(Nat) /\ <<1>> \in Seq(Nat) /\ Content(n) \in Seq(Nat)
        /\ Content(1) \in Seq(Nat) /\ <<>> \in Seq(Nat)
  BY DEF Content
<1>3. PayloadFrames(n, c, cut) \in Seq(Frame)
  <2>1. CASE cut
    BY <1>1, <1>2, <2>1, ShortSeqs DEF PayloadFrames
  <2>2. CASE ~cut
    BY <1>1, <1>2, <2>2, ShortSeqs DEF PayloadFrames
  <2>. QED BY <2>1, <2>2
<1>4. RequestFrames(n, c, cut) \in Seq(Frame)
  <2>1. CASE cut
    <3>1. /\ RequestFrame(n, <<>>, FALSE, TRUE) \in Frame
          /\ PayloadFrame(<<1>>, TRUE, FALSE, TRUE) \in Frame
          /\ PayloadFrame(<<1>>, TRUE, c, FALSE) \in Frame
      BY <1>1, <1>2
    <3>2. RequestFrames(n, c, cut)
            = << RequestFrame(n, <<>>, FALSE, TRUE),
                 PayloadFrame(<<1>>, TRUE, FALSE, TRUE),
                 PayloadFrame(<<1>>, TRUE, c, FALSE) >>
      BY <2>1 DEF RequestFrames
    <3>. QED BY <3>1, <3>2, ShortSeqs
  <2>2. CASE ~cut
    BY <1>1, <1>2, <2>2, ShortSeqs DEF RequestFrames
  <2>. QED BY <2>1, <2>2
<1>5. CompleteFrame \in Frame
  BY <1>1, <1>2 DEF CompleteFrame
<1>6. /\ RequestNFrame(n) \in Frame /\ CancelFrame \in Frame
      /\ ErrorFrame \in Frame /\ ExtFrame \in Frame
  BY <1>2 DEF RequestNFrame, CancelFrame, ErrorFrame, ExtFrame, Bare, Frame,
              FrameTypes
<1>. QED BY <1>3, <1>4, <1>5, <1>6

LEMMA SignalsTyped ==
    /\ OnError \in Signal /\ OnComplete \in Signal
    /\ <<>> \in Seq(Signal) /\ <<OnError>> \in Seq(Signal)
    /\ \A b \in BOOLEAN : If(b, OnError) \in Seq(Signal)
<1>1. OnError \in Signal /\ OnComplete \in Signal
  BY ShortSeqs DEF OnError, OnComplete, Signal, SignalKinds
<1>. QED BY <1>1, ShortSeqs DEF If


\* What the two ways to send do to the wires.
LEMMA WiresTyped ==
    ASSUME wire \in [End -> Seq(Frame)], open \in [End -> BOOLEAN],
           NEW e \in End, NEW fs \in Seq(Frame)
    PROVE  /\ Sent(e, fs) \in Seq(Frame)
           /\ Send(e, fs) =>
                /\ wire' \in [End -> Seq(Frame)]
                /\ wire'[Peer(e)] = wire[Peer(e)] \o Sent(e, fs)
                /\ wire'[e] = wire[e]
           /\ wire[e] # <<>> => /\ Head(wire[e]) \in Frame
                                /\ Head(wire[e]) = wire[e][1]
           /\ wire[e] # <<>> /\ TakeAndSend(e, fs) =>
                /\ wire' \in [End -> Seq(Frame)]
                /\ wire'[e] = Tail(wire[e])
                /\ wire'[Peer(e)] = wire[Peer(e)] \o Sent(e, fs)
<1>1. Sent(e, fs) \in Seq(Frame) /\ Peer(e) \in End /\ Peer(e) # e
  BY ShortSeqs DEF Sent, Peer
<1>2. Send(e, fs) => /\ wire' \in [End -> Seq(Frame)]
                     /\ wire'[Peer(e)] = wire[Peer(e)] \o Sent(e, fs)
                     /\ wire'[e] = wire[e]
  BY <1>1 DEF Send
<1>3. wire[e] # <<>> => /\ Head(wire[e]) \in Frame /\ Tail(wire[e]) \in Seq(Frame)
                        /\ Head(wire[e]) = wire[e][1]
  OBVIOUS
<1>4. ASSUME wire[e] # <<>>, TakeAndSend(e, fs)
      PROVE  /\ wire' \in [End -> Seq(Frame)]
             /\ wire'[e] = Tail(wire[e])
             /\ wire'[Peer(e)] = wire[Peer(e)] \o Sent(e, fs)
  <2>1. \A d \in End : wire[d] \o Sent(e, fs) \in Seq(Frame)
    BY <1>1
  <2>. QED BY <1>1, <1>3, <1>4, <2>1 DEF TakeAndSend
<1>. QED BY <1>1, <1>2, <1>3, <1>4

\* A close leaves a prefix of what was under way, and nothing of it if the
\* socket hands over single frames.
LEMMA DisconnectTyped ==
    ASSUME wire \in [End -> Seq(Frame)], open \in [End -> BOOLEAN],
           NEW e \in End, NEW chunked \in BOOLEAN, Disconnect(e, chunked)
    PROVE  /\ open' \in [End -> BOOLEAN] /\ ~open'[e]
           /\ open'[Peer(e)] = open[Peer(e)]
           /\ wire' \in [End -> Seq(Frame)]
           /\ wire'[Peer(e)] = wire[Peer(e)]
           /\ Len(wire'[e]) <= Len(wire[e])
           /\ \A i \in 1 .. Len(wire'[e]) : wire'[e][i] = wire[e][i]
           /\ ~chunked => wire'[e] = <<>>
<1>1. PICK rest \in 0 .. (IF chunked THEN Len(wire[e]) ELSE 0) :
            wire' = [wire EXCEPT ![e] = SubSeq(@, 1, rest)]
  BY DEF Disconnect
<1>2. Peer(e) \in End /\ Peer(e) # e
  BY DEF Peer
<1>. DEFINE q == SubSeq(wire[e], 1, rest)
<1>3. /\ q \in Seq(Frame) /\ Len(q) = rest /\ rest \in Nat
      /\ rest <= Len(wire[e])
      /\ \A i \in 1 .. Len(q) : q[i] = wire[e][i]
  BY <1>1, SubSeqProperties
<1>4. ~chunked => q = <<>>
  BY <1>1, <1>3, EmptySeq
<1>5. /\ wire'[e] = q /\ wire'[Peer(e)] = wire[Peer(e)]
      /\ wire' \in [End -> Seq(Frame)]
  BY <1>1, <1>2, <1>3
<1>. QED BY <1>2, <1>3, <1>4, <1>5 DEF Disconnect

-----------------------------------------------------------------------------
(* How the frames of one direction carry payloads.  A receiver that has    *)
(* been given s.count payloads, and (s.part) the first fragment of the     *)
(* next, is by frame f taken to t; n payloads have been emitted in all,    *)
(* and the producer has completed if all.                                  *)

At(count, part) == [count |-> count, part |-> part]

Carried(f, s, t, n, all) ==
    /\ t.count <= n
    /\ \/ /\ f = PayloadFrame(<<s.count + 1>>, TRUE, FALSE, TRUE)
          /\ ~s.part /\ t = At(s.count, TRUE)
       \/ \E c \in BOOLEAN :
             /\ f = PayloadFrame(IF s.part THEN <<s.count + 1>>
                                 ELSE Content(s.count + 1), TRUE, c, FALSE)
             /\ t = At(s.count + 1, FALSE)
             /\ c => all /\ t.count = n
       \/ f = CompleteFrame /\ ~s.part /\ t = s /\ all /\ s.count = n
       \/ f \in {ErrorFrame, ExtFrame} /\ ~s.part /\ t = s

\* The frames of q take the receiver from s to t; P[i] is where it stands
\* after the i-th.
Leads(q, s, t, n, all) ==
    \E P \in [0 .. Len(q) -> [count: Nat, part: BOOLEAN]] :
       /\ P[0] = s /\ P[Len(q)] = t
       /\ \A i \in 1 .. Len(q) : Carried(q[i], P[i - 1], P[i], n, all)

\* Sequences after a push and after a take, element by element.
LEMMA Pushed ==
    ASSUME NEW S, NEW q \in Seq(S), NEW f \in S
    PROVE  /\ q \o <<f>> \in Seq(S) /\ Len(q \o <<f>>) = Len(q) + 1
           /\ \A i \in 1 .. Len(q) : (q \o <<f>>)[i] = q[i]
           /\ (q \o <<f>>)[Len(q) + 1] = f
OBVIOUS

LEMMA Taken ==
    ASSUME NEW S, NEW q \in Seq(S), q # <<>>
    PROVE  /\ Tail(q) \in Seq(S) /\ Len(Tail(q)) \in Nat
           /\ Len(q) = Len(Tail(q)) + 1 /\ q[1] \in S /\ Head(q) = q[1]
           /\ \A i \in 1 .. Len(Tail(q)) : Tail(q)[i] = q[i + 1]
OBVIOUS

LEMMA Joined ==
    ASSUME NEW S, NEW x \in S, NEW y \in S
    PROVE  <<x>> \o <<y>> = <<x, y>>
<1>1. <<x>> \in Seq(S) /\ <<y>> \in Seq(S) /\ <<x, y>> \in Seq(S)
  BY ShortSeqs
<1>2. <<x>> \o <<y>> \in Seq(S) /\ Len(<<x>> \o <<y>>) = 2 /\ Len(<<x, y>>) = 2
  BY <1>1
<1>3. \A i \in 1 .. 2 : (<<x>> \o <<y>>)[i] = <<x, y>>[i]
  <2>1. (<<x>> \o <<y>>)[1] = x /\ (<<x>> \o <<y>>)[2] = y
    BY <1>1
  <2>2. <<x, y>>[1] = x /\ <<x, y>>[2] = y
    OBVIOUS
  <2>3. \A i \in 1 .. 2 : i = 1 \/ i = 2
    OBVIOUS
  <2>. QED BY <2>1, <2>2, <2>3
<1>. QED BY <1>1, <1>2, <1>3, SeqEqual

LEMMA LeadsNowhere ==
    ASSUME NEW s \in [count: Nat, part: BOOLEAN], NEW n, NEW all
    PROVE  /\ Leads(<<>>, s, s, n, all)
           /\ \A t : Leads(<<>>, s, t, n, all) => t = s
<1>. DEFINE P == [i \in 0 .. 0 |-> s]
<1>1. P \in [0 .. 0 -> [count: Nat, part: BOOLEAN]] /\ P[0] = s
  OBVIOUS
<1>. HIDE DEF P
<1>2. Len(<<>>) = 0 /\ 1 .. 0 = {}
  OBVIOUS
<1>3. Leads(<<>>, s, s, n, all)
  BY <1>1, <1>2 DEF Leads
<1>4. ASSUME NEW t, Leads(<<>>, s, t, n, all) PROVE t = s
  BY <1>2, <1>4 DEF Leads
<1>. QED BY <1>3, <1>4

LEMMA LeadsTaken ==
    ASSUME NEW q \in Seq(Frame), q # <<>>, NEW s, NEW t, NEW n, NEW all,
           Leads(q, s, t, n, all)
    PROVE  \E u \in [count: Nat, part: BOOLEAN] :
              Carried(q[1], s, u, n, all) /\ Leads(Tail(q), u, t, n, all)
<1>. DEFINE r == Tail(q)
            Position == [count: Nat, part: BOOLEAN]
<1>1. PICK P \in [0 .. Len(q) -> Position] :
         /\ P[0] = s /\ P[Len(q)] = t
         /\ \A i \in 1 .. Len(q) : Carried(q[i], P[i - 1], P[i], n, all)
  BY DEF Leads
<1>2. /\ Len(r) \in Nat /\ Len(q) = Len(r) + 1
      /\ \A i \in 1 .. Len(r) : r[i] = q[i + 1]
  BY Taken
<1>. DEFINE G == [i \in 0 .. Len(r) |-> P[i + 1]]
<1>. HIDE DEF r, Position
<1>3. \A i \in 0 .. Len(q) : P[i] \in Position
  OBVIOUS
<1>4. /\ G \in [0 .. Len(r) -> Position]
      /\ \A i \in 0 .. Len(r) : G[i] = P[i + 1]
  BY <1>2, <1>3
<1>. HIDE DEF G
<1>5. ASSUME NEW i \in 1 .. Len(r)
      PROVE  Carried(r[i], G[i - 1], G[i], n, all)
  <2>1. /\ i \in 0 .. Len(r) /\ i - 1 \in 0 .. Len(r) /\ (i - 1) + 1 = i
        /\ i + 1 \in 1 .. Len(q) /\ (i + 1) - 1 = i
    BY <1>2
  <2>2. Carried(q[i + 1], P[i], P[i + 1], n, all)
    BY <1>1, <2>1
  <2>. QED BY <1>2, <1>4, <2>1, <2>2
<1>6. /\ 1 \in 1 .. Len(q) /\ 1 - 1 = 0 /\ 0 + 1 = 1 /\ 0 \in 0 .. Len(r)
      /\ Len(r) \in 0 .. Len(r) /\ 1 \in 0 .. Len(q)
  BY <1>2
<1>7. G[0] = P[1] /\ G[Len(r)] = t /\ P[1] \in Position
  BY <1>1, <1>2, <1>3, <1>4, <1>6
<1>8. Carried(q[1], s, P[1], n, all)
  BY <1>1, <1>6
<1>9. Leads(r, P[1], t, n, all)
  BY <1>4, <1>5, <1>7 DEF Leads, Position
<1>. QED BY <1>7, <1>8, <1>9 DEF r, Position

LEMMA LeadsPushed ==
    ASSUME NEW q \in Seq(Frame), NEW f \in Frame, NEW s, NEW t,
           NEW u \in [count: Nat, part: BOOLEAN], NEW n, NEW all,
           Leads(q, s, t, n, all), Carried(f, t, u, n, all)
    PROVE  Leads(q \o <<f>>, s, u, n, all)
<1>. DEFINE r == q \o <<f>>
            Position == [count: Nat, part: BOOLEAN]
<1>1. PICK P \in [0 .. Len(q) -> Position] :
         /\ P[0] = s /\ P[Len(q)] = t
         /\ \A i \in 1 .. Len(q) : Carried(q[i], P[i - 1], P[i], n, all)
  BY DEF Leads
<1>2. /\ Len(r) = Len(q) + 1 /\ r[Len(q) + 1] = f /\ Len(q) \in Nat
      /\ \A i \in 1 .. Len(q) : r[i] = q[i]
  BY Pushed
<1>. DEFINE G == [i \in 0 .. Len(r) |-> IF i <= Len(q) THEN P[i] ELSE u]
<1>3. u \in Position
  OBVIOUS
<1>. HIDE DEF r, Position
<1>4. \A i \in 0 .. Len(q) : P[i] \in Position
  OBVIOUS
<1>5. /\ G \in [0 .. Len(r) -> Position]
      /\ \A i \in 0 .. Len(q) : G[i] = P[i]
      /\ G[Len(r)] = u
  BY <1>2, <1>3, <1>4
<1>. HIDE DEF G
<1>6. ASSUME NEW i \in 1 .. Len(r)
      PROVE  Carried(r[i], G[i - 1], G[i], n, all)
  <2>1. CASE i = Len(r)
    <3>1. Len(q) \in 0 .. Len(q) /\ i - 1 = Len(q) /\ r[i] = f
      BY <1>2, <2>1
    <3>. QED BY <1>1, <1>5, <2>1, <3>1
  <2>2. CASE i \in 1 .. Len(q)
    <3>1. i \in 0 .. Len(q) /\ i - 1 \in 0 .. Len(q)
      BY <1>2, <2>2
    <3>. QED BY <1>1, <1>2, <1>5, <2>2, <3>1
  <2>. QED BY <1>2, <2>1, <2>2
<1>7. G[0] = s
  <2>1. 0 \in 0 .. Len(q)
    BY <1>2
  <2>. QED BY <1>1, <1>5, <2>1
<1>. QED BY <1>5, <1>6, <1>7 DEF Leads, r, Position

\* Before the producer completes, it may emit more.
LEMMA LeadsFurther ==
    ASSUME NEW q \in Seq(Frame), NEW s, NEW t, NEW n \in Nat, NEW m \in Nat,
           n <= m, NEW all, Leads(q, s, t, n, FALSE)
    PROVE  Leads(q, s, t, m, all)
<1>. DEFINE Position == [count: Nat, part: BOOLEAN]
<1>1. PICK P \in [0 .. Len(q) -> Position] :
         /\ P[0] = s /\ P[Len(q)] = t
         /\ \A i \in 1 .. Len(q) : Carried(q[i], P[i - 1], P[i], n, FALSE)
  BY DEF Leads
<1>2. ASSUME NEW i \in 1 .. Len(q)
      PROVE  Carried(q[i], P[i - 1], P[i], m, all)
  <2>1. P[i].count \in Nat
    <3>1. i \in 0 .. Len(q)
      OBVIOUS
    <3>2. P[i] \in Position
      BY <3>1
    <3>. QED BY <3>2
  <2>2. Carried(q[i], P[i - 1], P[i], n, FALSE)
    BY <1>1
  <2>3. P[i].count <= m
    BY <2>1, <2>2 DEF Carried
  <2>. QED BY <2>2, <2>3 DEF Carried
<1>. QED BY <1>1, <1>2 DEF Leads

\* The two ways to send the next payload, and what a receiver may find at
\* the head.
LEMMA LeadsPayload ==
    ASSUME NEW q \in Seq(Frame), NEW s, NEW n \in Nat, NEW c \in BOOLEAN,
           NEW cut \in BOOLEAN, Leads(q, s, At(n, FALSE), n, FALSE)
    PROVE  Leads(q \o PayloadFrames(n + 1, c, cut), s, At(n + 1, FALSE), n + 1, c)
<1>1. Leads(q, s, At(n, FALSE), n + 1, c)
  <2>1. n + 1 \in Nat /\ n <= n + 1
    OBVIOUS
  <2>. QED BY <2>1, LeadsFurther
<1>2. At(n, TRUE) \in [count: Nat, part: BOOLEAN]
      /\ At(n + 1, FALSE) \in [count: Nat, part: BOOLEAN]
  BY DEF At
<1>3. PayloadFrames(n + 1, c, cut) \in Seq(Frame)
  BY FramesTyped
<1>4. CASE cut
  <2>. DEFINE x == PayloadFrame(<<n + 1>>, TRUE, FALSE, TRUE)
              y == PayloadFrame(<<n + 1>>, TRUE, c, FALSE)
  <2>1. PayloadFrames(n + 1, c, cut) = <<x, y>>
    BY <1>4 DEF PayloadFrames
  <2>2. Carried(x, At(n, FALSE), At(n, TRUE), n + 1, c)
    BY DEF Carried, At
  <2>3. Carried(y, At(n, TRUE), At(n + 1, FALSE), n + 1, c)
    <3>1. /\ At(n, TRUE).count = n /\ At(n, TRUE).part
          /\ At(n + 1, FALSE).count = n + 1 /\ n + 1 <= n + 1
      BY DEF At
    <3>. QED BY <3>1 DEF Carried
  <2>. HIDE DEF x, y
  <2>4. x \in Frame /\ y \in Frame
    <3>1. <<x, y>> \in Seq(Frame)
      BY <1>3, <2>1
    <3>2. Len(<<x, y>>) = 2 /\ <<x, y>>[1] = x /\ <<x, y>>[2] = y
      OBVIOUS
    <3>. QED BY <3>1, <3>2
  <2>5. Leads(q \o <<x>>, s, At(n, TRUE), n + 1, c)
    BY <1>1, <1>2, <2>2, <2>4, LeadsPushed
  <2>8. q \o <<x>> \in Seq(Frame) /\ <<x>> \in Seq(Frame) /\ <<y>> \in Seq(Frame)
    BY <2>4
  <2>6. Leads((q \o <<x>>) \o <<y>>, s, At(n + 1, FALSE), n + 1, c)
    BY <1>2, <2>3, <2>4, <2>5, <2>8, LeadsPushed
  <2>7. (q \o <<x>>) \o <<y>> = q \o <<x, y>>
    <3>1. (q \o <<x>>) \o <<y>> = q \o (<<x>> \o <<y>>)
      BY <2>8, ConcatAssociative
    <3>2. <<x>> \o <<y>> = <<x, y>>
      BY <2>4, Joined
    <3>. QED BY <3>1, <3>2
  <2>. QED BY <2>1, <2>6, <2>7
<1>5. CASE ~cut
  <2>. DEFINE x == PayloadFrame(Content(n + 1), TRUE, c, FALSE)
  <2>1. PayloadFrames(n + 1, c, cut) = <<x>>
    BY <1>5 DEF PayloadFrames
  <2>2. Carried(x, At(n, FALSE), At(n + 1, FALSE), n + 1, c)
    <3>1. /\ At(n, FALSE).count = n /\ ~At(n, FALSE).part
          /\ At(n + 1, FALSE).count = n + 1 /\ n + 1 <= n + 1
      BY DEF At
    <3>. QED BY <3>1 DEF Carried
  <2>3. x \in Frame
    <3>. HIDE DEF x
    <3>1. <<x>> \in Seq(Frame) /\ <<x>>[1] = x /\ Len(<<x>>) = 1
      BY <1>3, <2>1
    <3>. QED BY <3>1
  <2>. HIDE DEF x
  <2>. QED BY <1>1, <1>2, <2>1, <2>2, <2>3, LeadsPushed
<1>. QED BY <1>4, <1>5

\* The next frame that has arrived, by its type and flags.
Shape(f, n, b, t, m, all) ==
    /\ f.type \in {"PAYLOAD", "ERROR", "EXT"}
    /\ f.type # "PAYLOAD" => ~b /\ t = At(n, FALSE)
    /\ f.type = "PAYLOAD" /\ f.follows =>
         ~f.complete /\ ~b /\ t = At(n, TRUE) /\ f.data = <<n + 1>>
    /\ f.type = "PAYLOAD" /\ ~f.follows /\ f.next =>
         /\ t = At(n + 1, FALSE) /\ n + 1 <= m
         /\ f.data = IF b THEN <<n + 1>> ELSE Content(n + 1)
         /\ f.complete => all /\ n + 1 = m
    /\ f.type = "PAYLOAD" /\ ~f.follows /\ ~f.next =>
         f.complete /\ ~b /\ all /\ n = m

LEMMA CarriedFrame ==
    ASSUME NEW f \in Frame, NEW n \in Nat, NEW b \in BOOLEAN,
           NEW t \in [count: Nat, part: BOOLEAN], NEW m \in Nat,
           NEW all \in BOOLEAN, Carried(f, At(n, b), t, m, all)
    PROVE  Shape(f, n, b, t, m, all)
<1>. USE DEF Shape
<1>1. CASE f = PayloadFrame(<<n + 1>>, TRUE, FALSE, TRUE) /\ ~b /\ t = At(n, TRUE)
  BY <1>1 DEF PayloadFrame
<1>2. CASE \E c \in BOOLEAN :
              /\ f = PayloadFrame(IF b THEN <<n + 1>> ELSE Content(n + 1),
                                  TRUE, c, FALSE)
              /\ t = At(n + 1, FALSE) /\ t.count <= m
              /\ c => all /\ t.count = m
  BY <1>2 DEF PayloadFrame, At
<1>3. CASE f = CompleteFrame /\ ~b /\ t = At(n, b) /\ all /\ n = m
  BY <1>3 DEF CompleteFrame, PayloadFrame
<1>4. CASE f \in {ErrorFrame, ExtFrame} /\ ~b /\ t = At(n, b)
  <2>1. b = FALSE
    BY <1>4
  <2>2. f.type \in {"ERROR", "EXT"}
    BY <1>4 DEF ErrorFrame, ExtFrame, Bare
  <2>. QED BY <1>4, <2>1, <2>2
<1>. QED BY <1>1, <1>2, <1>3, <1>4 DEF Carried, At

-----------------------------------------------------------------------------
(* How the frames of one direction carry demand.                           *)

\* The demand that a frame carries.
Demand(f) == IF f.type \in {"REQUEST", "REQUEST_N"} THEN f.requestN ELSE 0

\* With lo granted, the frames of q carry the demand up to at most hi; if
\* nothing is lost, to hi.  F[i] is the demand after the i-th frame.
Owes(q, lo, hi, exact) ==
    \E F \in [0 .. Len(q) -> 0 .. hi] :
       /\ \A i \in 1 .. Len(q) : F[i] = F[i - 1] + Demand(q[i])
       /\ lo <= F[0]
       /\ exact => lo = F[0] /\ F[Len(q)] = hi

LEMMA FrameFields ==
    ASSUME NEW f \in Frame
    PROVE  /\ f.type \in FrameTypes /\ f.data \in Seq(Nat)
           /\ f.requestN \in Nat /\ f.next \in BOOLEAN
           /\ f.complete \in BOOLEAN /\ f.follows \in BOOLEAN
BY DEF Frame

\* Owing between other bounds, and owing what need not be exact.
LEMMA OwesLess ==
    ASSUME NEW q \in Seq(Frame), NEW lo \in Nat, NEW hi \in Nat,
           NEW x \in BOOLEAN, Owes(q, lo, hi, x),
           NEW n \in Nat, n <= lo, NEW m \in Nat, hi <= m
    PROVE  Owes(q, n, m, FALSE)
<1>1. PICK F \in [0 .. Len(q) -> 0 .. hi] :
         /\ \A i \in 1 .. Len(q) : F[i] = F[i - 1] + Demand(q[i])
         /\ lo <= F[0]
  BY DEF Owes
<1>2. F[0] \in 0 .. hi
  BY <1>1
<1>3. F \in [0 .. Len(q) -> 0 .. m] /\ n <= F[0]
  BY <1>1, <1>2
<1>. QED BY <1>1, <1>3 DEF Owes

LEMMA OwesStill ==
    ASSUME NEW q, NEW lo, NEW hi, NEW x \in BOOLEAN, NEW y \in BOOLEAN,
           Owes(q, lo, hi, x), y => x
    PROVE  Owes(q, lo, hi, y)
BY DEF Owes

LEMMA OwesBounds ==
    ASSUME NEW q \in Seq(Frame), NEW lo \in Nat, NEW hi \in Nat,
           NEW x \in BOOLEAN, Owes(q, lo, hi, x)
    PROVE  lo <= hi /\ (x /\ q = <<>> => lo = hi)
<1>1. PICK F \in [0 .. Len(q) -> 0 .. hi] :
         /\ lo <= F[0]
         /\ x => lo = F[0] /\ F[Len(q)] = hi
  BY DEF Owes
<1>2. F[0] \in 0 .. hi
  BY <1>1
<1>. QED BY <1>1, <1>2

LEMMA OwesPushed ==
    ASSUME NEW q \in Seq(Frame), NEW f \in Frame, NEW lo \in Nat,
           NEW hi \in Nat, NEW x \in BOOLEAN, Owes(q, lo, hi, x)
    PROVE  Owes(q \o <<f>>, lo, hi + Demand(f), x)
<1>. DEFINE r == q \o <<f>>
            h == hi + Demand(f)
<1>1. PICK F \in [0 .. Len(q) -> 0 .. hi] :
         /\ \A i \in 1 .. Len(q) : F[i] = F[i - 1] + Demand(q[i])
         /\ lo <= F[0]
         /\ x => lo = F[0] /\ F[Len(q)] = hi
  BY DEF Owes
<1>2. Demand(f) \in Nat
  BY FrameFields DEF Demand
<1>3. /\ Len(r) = Len(q) + 1 /\ r[Len(q) + 1] = f /\ Len(q) \in Nat
      /\ \A i \in 1 .. Len(q) : r[i] = q[i]
  BY Pushed
<1>. DEFINE G == [i \in 0 .. Len(r) |->
                    IF i <= Len(q) THEN F[i] ELSE F[Len(q)] + Demand(f)]
<1>. HIDE DEF r
<1>4. \A i \in 0 .. Len(q) : F[i] \in 0 .. hi
  OBVIOUS
<1>5. /\ G \in [0 .. Len(r) -> 0 .. h]
      /\ \A i \in 0 .. Len(q) : G[i] = F[i]
      /\ G[Len(r)] = F[Len(q)] + Demand(f)
  BY <1>2, <1>3, <1>4
<1>. HIDE DEF G
<1>6. ASSUME NEW i \in 1 .. Len(r)
      PROVE  G[i] = G[i - 1] + Demand(r[i])
  <2>1. CASE i = Len(r)
    BY <1>3, <1>5, <2>1
  <2>2. CASE i \in 1 .. Len(q)
    <3>1. i \in 0 .. Len(q) /\ i - 1 \in 0 .. Len(q)
      BY <1>3, <2>2
    <3>. QED BY <1>1, <1>3, <1>5, <2>2, <3>1
  <2>. QED BY <1>3, <2>1, <2>2
<1>7. lo <= G[0] /\ (x => lo = G[0] /\ G[Len(r)] = h)
  BY <1>1, <1>3, <1>5
<1>. QED BY <1>5, <1>6, <1>7 DEF Owes, r

LEMMA OwesTaken ==
    ASSUME NEW q \in Seq(Frame), q # <<>>, NEW lo \in Nat, NEW hi \in Nat,
           NEW x \in BOOLEAN, Owes(q, lo, hi, x)
    PROVE  Owes(Tail(q), lo + Demand(q[1]), hi, x)
<1>. DEFINE r == Tail(q)
<1>1. PICK F \in [0 .. Len(q) -> 0 .. hi] :
         /\ \A i \in 1 .. Len(q) : F[i] = F[i - 1] + Demand(q[i])
         /\ lo <= F[0]
         /\ x => lo = F[0] /\ F[Len(q)] = hi
  BY DEF Owes
<1>2. /\ Len(r) \in Nat /\ Len(q) = Len(r) + 1 /\ q[1] \in Frame
      /\ \A i \in 1 .. Len(r) : r[i] = q[i + 1]
  BY Taken
<1>3. Demand(q[1]) \in Nat
  BY <1>2, FrameFields DEF Demand
<1>. DEFINE G == [i \in 0 .. Len(r) |-> F[i + 1]]
<1>. HIDE DEF r
<1>4. \A i \in 0 .. Len(q) : F[i] \in 0 .. hi
  OBVIOUS
<1>5. /\ G \in [0 .. Len(r) -> 0 .. hi]
      /\ \A i \in 0 .. Len(r) : G[i] = F[i + 1]
  BY <1>2, <1>4
<1>. HIDE DEF G
<1>6. ASSUME NEW i \in 1 .. Len(r)
      PROVE  G[i] = G[i - 1] + Demand(r[i])
  <2>1. /\ i \in 0 .. Len(r) /\ i - 1 \in 0 .. Len(r) /\ (i - 1) + 1 = i
        /\ i + 1 \in 1 .. Len(q) /\ (i + 1) - 1 = i
    BY <1>2
  <2>2. F[i + 1] = F[i] + Demand(q[i + 1])
    BY <1>1, <2>1
  <2>. QED BY <1>2, <1>5, <2>1, <2>2
<1>7. G[0] = F[0] + Demand(q[1]) /\ G[Len(r)] = F[Len(q)] /\ F[0] \in Nat
  <2>1. 1 \in 1 .. Len(q) /\ 1 - 1 = 0 /\ 0 + 1 = 1 /\ 0 \in 0 .. Len(r)
        /\ 0 \in 0 .. Len(q) /\ Len(r) \in 0 .. Len(r)
    BY <1>2
  <2>. QED BY <1>1, <1>2, <1>4, <1>5, <2>1
<1>8. /\ lo + Demand(q[1]) <= G[0]
      /\ x => lo + Demand(q[1]) = G[0] /\ G[Len(r)] = hi
  BY <1>1, <1>3, <1>7
<1>. QED BY <1>5, <1>6, <1>8 DEF Owes, r

LEMMA OwesCut ==
    ASSUME NEW q \in Seq(Frame), NEW r \in Seq(Frame), Len(r) <= Len(q),
           \A i \in 1 .. Len(r) : r[i] = q[i],
           NEW lo \in Nat, NEW hi \in Nat, NEW x \in BOOLEAN, Owes(q, lo, hi, x)
    PROVE  Owes(r, lo, hi, FALSE)
<1>1. PICK F \in [0 .. Len(q) -> 0 .. hi] :
         /\ \A i \in 1 .. Len(q) : F[i] = F[i - 1] + Demand(q[i])
         /\ lo <= F[0]
  BY DEF Owes
<1>. DEFINE G == [i \in 0 .. Len(r) |-> F[i]]
<1>2. Len(q) \in Nat /\ Len(r) \in Nat
  OBVIOUS
<1>3. /\ \A i \in 0 .. Len(q) : F[i] \in 0 .. hi
      /\ \A i \in 0 .. Len(r) : i \in 0 .. Len(q)
  BY <1>2
<1>4. /\ G \in [0 .. Len(r) -> 0 .. hi]
      /\ \A i \in 0 .. Len(r) : G[i] = F[i]
  BY <1>3
<1>. HIDE DEF G
<1>5. ASSUME NEW i \in 1 .. Len(r)
      PROVE  G[i] = G[i - 1] + Demand(r[i])
  <2>1. i \in 1 .. Len(q) /\ i \in 0 .. Len(r) /\ i - 1 \in 0 .. Len(r)
    BY <1>2
  <2>. QED BY <1>1, <1>4, <2>1
<1>6. lo <= G[0]
  <2>1. 0 \in 0 .. Len(r)
    BY <1>2
  <2>. QED BY <1>1, <1>4, <2>1
<1>. QED BY <1>4, <1>5, <1>6 DEF Owes

LEMMA OwesNothing ==
    ASSUME NEW hi \in Nat, NEW lo \in Nat, lo <= hi
    PROVE  Owes(<<>>, lo, hi, FALSE)
<1>. DEFINE F == [i \in 0 .. 0 |-> lo]
<1>1. F \in [0 .. 0 -> 0 .. hi] /\ F[0] = lo
  OBVIOUS
<1>2. Len(<<>>) = 0
  OBVIOUS
<1>. HIDE DEF F
<1>3. \E G \in [0 .. 0 -> 0 .. hi] : lo <= G[0]
  BY <1>1
<1>. QED BY <1>2, <1>3 DEF Owes
=============================================================================
