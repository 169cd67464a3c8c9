--------------------------- MODULE Resume_proofs ---------------------------
(***************************************************************************)
(* Theorems of Resume, for any number of connections and frames, whatever  *)
(* their lengths.                                                          *)
(*                                                                         *)
(* The frames under way on a connection are a chain: every frame of data   *)
(* carries the receiver one further, and every position that is announced  *)
(* is that of a frame not before the one announced before.  A step pushes  *)
(* onto a chain, takes from it or cuts it.                                 *)
(***************************************************************************)
EXTENDS Resume, SequenceTheorems, WellFoundedInduction, TLAPS

USE DEF End, Client, Server

-----------------------------------------------------------------------------
(* Numbers: the least of a set, and the positions                          *)

Less == OpToRel(<, Nat)

LEMMA LessIs == \A m, n \in Nat : m < n => <<m, n>> \in Less
BY SMT DEF Less, OpToRel

LEMMA LeastNat ==
    ASSUME NEW T \in SUBSET Nat, T # {}
    PROVE  \E n \in T : \A m \in T : n <= m
<1>1. IsWellFoundedOn(Less, Nat)
  BY NatLessThanWellFounded, Zenon DEF Less
<1>2. PICK n \in T : \A m \in T : ~(<<m, n>> \in Less)
  BY <1>1, WFMin, Zenon
<1>3. \A m \in T : m \in Nat /\ n \in Nat
  OBVIOUS
<1>4. \A m \in T : ~(m < n)
  BY <1>2, <1>3, LessIs, Zenon
<1>5. \A m \in T : n <= m
  BY <1>3, <1>4
<1>. QED BY <1>5

LEMMA Frames ==
    /\ \A e \in End : MaxFrames[e] \in Nat /\ 1 .. MaxFrames[e] \subseteq Frame
    /\ {0} \cup Frame \subseteq Nat /\ Frame \subseteq Nat
    /\ \A n \in Frame : n - 1 \in {0} \cup Frame /\ n >= 1
    /\ \A n \in {0} \cup Frame : 0 .. n \subseteq {0} \cup Frame
    /\ \A n \in {0} \cup Frame : Position[n] \in Nat
    /\ \A n \in Frame : Position[n] - Position[n - 1] \in Nat
<1>1. MaxFrames[Client] \in Nat /\ MaxFrames[Server] \in Nat
  BY BoundsAssumption
<1>2. PICK N \in Nat : /\ Frame = 1 .. N
                       /\ MaxFrames[Client] <= N /\ MaxFrames[Server] <= N
  BY <1>1 DEF Frame
<1>3. /\ \A n \in Frame : n - 1 \in {0} \cup Frame /\ n >= 1
      /\ {0} \cup Frame \subseteq Nat
      /\ \A n \in {0} \cup Frame : 0 .. n \subseteq {0} \cup Frame
  BY <1>2
<1>4. /\ \A n \in {0} \cup Frame : Position[n] \in Nat
      /\ \A n \in Frame : Position[n - 1] < Position[n]
  BY PositionAssumption
<1>5. \A e \in End : MaxFrames[e] \in Nat /\ 1 .. MaxFrames[e] \subseteq Frame
  BY <1>1, <1>2
<1>6. \A n \in Frame : Position[n] - Position[n - 1] \in Nat
  <2>. SUFFICES ASSUME NEW n \in Frame
                PROVE  Position[n] - Position[n - 1] \in Nat
    OBVIOUS
  <2>1. /\ Position[n] \in Nat /\ Position[n - 1] \in Nat
        /\ Position[n - 1] < Position[n]
    BY <1>3, <1>4
  <2>. QED BY <2>1
<1>. QED BY <1>3, <1>4, <1>5, <1>6

\* Every frame has a length: positions grow with the frames.
LEMMA PositionsGrow ==
    \A a, b \in {0} \cup Frame : a < b => Position[a] < Position[b]
<1>. SUFFICES ASSUME NEW a \in {0} \cup Frame
              PROVE  \A b \in {0} \cup Frame : a < b => Position[a] < Position[b]
  OBVIOUS
<1>. DEFINE T == {b \in {0} \cup Frame : a < b /\ ~(Position[a] < Position[b])}
<1>1. CASE T # {}
  <2>1. T \in SUBSET Nat
    BY Frames
  <2>2. PICK b \in T : \A m \in T : b <= m
    BY <1>1, <2>1, LeastNat
  <2>3. /\ b \in Frame /\ b \in Nat /\ a \in Nat /\ a < b
        /\ ~(Position[a] < Position[b])
    BY <2>2, Frames
  <2>4. /\ b - 1 \in {0} \cup Frame /\ Position[b - 1] < Position[b]
        /\ Position[a] \in Nat /\ Position[b] \in Nat /\ Position[b - 1] \in Nat
    BY <2>3, Frames, PositionAssumption
  <2>5. b - 1 \notin T
    BY <2>2, <2>3
  <2>6. ~(a < b - 1) \/ Position[a] < Position[b - 1]
    BY <2>4, <2>5
  <2>7. CASE a < b - 1
    BY <2>3, <2>4, <2>6, <2>7
  <2>8. CASE ~(a < b - 1)
    <3>1. a = b - 1
      BY <2>3, <2>8
    <3>. QED BY <2>3, <2>4, <3>1
  <2>. QED BY <2>7, <2>8
<1>2. CASE T = {}
  BY <1>2
<1>. QED BY <1>1, <1>2

LEMMA PositionsOrder ==
    ASSUME NEW a \in {0} \cup Frame, NEW b \in {0} \cup Frame
    PROVE  /\ Position[a] <= Position[b] <=> a <= b
           /\ Position[a] = Position[b] <=> a = b
           /\ Position[a] < Position[b] <=> a < b
<1>1. /\ a \in Nat /\ b \in Nat
      /\ Position[a] \in Nat /\ Position[b] \in Nat
  BY Frames
<1>2. /\ a < b => Position[a] < Position[b]
      /\ b < a => Position[b] < Position[a]
  BY PositionsGrow
<1>3. a < b \/ b < a \/ a = b
  BY <1>1
<1>. QED BY <1>1, <1>2, <1>3

-----------------------------------------------------------------------------
(* FrameStore.dropTo                                                       *)

\* A position within the store drops up to its frame.
LEMMA DropFits ==
    ASSUME NEW e \in End, NEW n \in {0} \cup Frame,
           shifted[e] \in {0} \cup Frame, sent[e] \in {0} \cup Frame,
           firstAvailable[e] = Position[shifted[e]],
           shifted[e] <= n, n <= sent[e]
    PROVE  DropTo(e, Position[n]) = n /\ Fits(e, Position[n])
<1>. DEFINE s == shifted[e]
            p == Position[n]
            enough == {m \in s .. sent[e] :
                         Position[m] - Position[s] >= p - firstAvailable[e]}
<1>1. /\ s \in Nat /\ n \in Nat /\ sent[e] \in Nat
      /\ p \in Nat /\ Position[s] \in Nat /\ Position[s] <= p
  BY Frames, PositionsOrder
<1>2. CASE n = s
  <2>1. p <= firstAvailable[e]
    BY <1>1, <1>2
  <2>2. DropTo(e, p) = n
    BY <1>2, <2>1 DEF DropTo
  <2>3. p >= firstAvailable[e] /\ Position[n] - Position[s] = p - firstAvailable[e]
    BY <1>1, <1>2
  <2>. QED BY <2>2, <2>3 DEF Fits
<1>3. CASE n # s
  <2>1. ~(p <= firstAvailable[e]) /\ p >= firstAvailable[e]
        /\ Position[n] - Position[s] = p - firstAvailable[e]
    <3>1. s < n
      BY <1>1, <1>3
    <3>2. Position[s] < p
      BY <3>1, PositionsOrder
    <3>. QED BY <1>1, <3>2
  <2>2. \A m \in s .. sent[e] : m \in {0} \cup Frame /\ m \in Nat
    BY <1>1, Frames
  <2>3. \A m \in s .. sent[e] : m \in enough <=> n <= m
    <3>. SUFFICES ASSUME NEW m \in s .. sent[e] PROVE m \in enough <=> n <= m
      OBVIOUS
    <3>1. Position[m] \in Nat /\ (Position[n] <= Position[m] <=> n <= m)
      BY <2>2, Frames, PositionsOrder
    <3>2. Position[m] - Position[s] >= p - Position[s] <=> p <= Position[m]
      BY <1>1, <3>1
    <3>. QED BY <3>1, <3>2
  <2>4. n \in enough /\ enough \subseteq s .. sent[e]
    <3>1. n \in s .. sent[e] /\ n <= n
      BY <1>1
    <3>. QED BY <2>3, <3>1
  <2>. HIDE DEF enough
  <2>5. n \in enough /\ \A o \in enough : n <= o
    BY <2>3, <2>4
  <2>6. \A x \in enough : (\A o \in enough : x <= o) => x = n
    BY <1>1, <2>4, <2>5
  <2>7. (CHOOSE x \in enough : \A o \in enough : x <= o) = n
    BY <2>5, <2>6
  <2>8. DropTo(e, p) = n
    BY <2>1, <2>4, <2>7 DEF DropTo, enough
  <2>. QED BY <2>1, <2>8 DEF Fits
<1>. QED BY <1>2, <1>3

\* Whatever the position, the store is cut within its bounds.
LEMMA DropTyped ==
    ASSUME NEW e \in End, NEW p \in Nat, firstAvailable[e] \in Nat,
           shifted[e] \in {0} \cup Frame, sent[e] \in {0} \cup Frame
    PROVE  DropTo(e, p) \in {0} \cup Frame
<1>. DEFINE enough == {n \in shifted[e] .. sent[e] :
                           Position[n] - Position[shifted[e]]
                             >= p - firstAvailable[e]}
<1>1. shifted[e] \in Nat /\ sent[e] \in Nat
  BY Frames
<1>2. shifted[e] .. sent[e] \subseteq {0} \cup Frame
  <2>1. 0 .. sent[e] \subseteq {0} \cup Frame
    BY Frames
  <2>. QED BY <1>1, <2>1
<1>3. enough \in SUBSET Nat /\ enough \subseteq {0} \cup Frame
  BY <1>1, <1>2
<1>4. DropTo(e, p) = IF p <= firstAvailable[e] THEN shifted[e]
                     ELSE IF enough = {} THEN sent[e]
                     ELSE CHOOSE n \in enough : \A o \in enough : n <= o
  BY DEF DropTo
<1>. HIDE DEF enough
<1>5. CASE enough # {}
  <2>1. \E n \in enough : \A o \in enough : n <= o
    BY <1>3, <1>5, LeastNat
  <2>2. (CHOOSE n \in enough : \A o \in enough : n <= o) \in enough
    BY <2>1
  <2>. QED BY <1>3, <1>4, <2>2
<1>. QED BY <1>4, <1>5

-----------------------------------------------------------------------------
(* Chains: numbers from S on the way of a sequence, one at either end of   *)
(* every element, such that R relates an element to its two.               *)

Chain(q, R, S, s, t) ==
    \E F \in [0 .. Len(q) -> S] :
        /\ F[0] = s /\ F[Len(q)] = t
        /\ \A i \in 1 .. Len(q) : <<q[i], F[i - 1], F[i]>> \in R

LEMMA ChainNone ==
    ASSUME NEW R, NEW S, NEW s \in S
    PROVE  Chain(<<>>, R, S, s, s)
<1>. DEFINE F == [i \in 0 .. 0 |-> s]
<1>1. F \in [0 .. 0 -> S] /\ F[0] = s
  OBVIOUS
<1>. HIDE DEF F
<1>2. Len(<<>>) = 0 /\ 1 .. 0 = {}
  OBVIOUS
<1>. QED BY <1>1, <1>2 DEF Chain

LEMMA ChainEnds ==
    ASSUME NEW M, NEW q \in Seq(M), NEW R, NEW S, NEW s, NEW t,
           Chain(q, R, S, s, t)
    PROVE  s \in S /\ t \in S
<1>1. Len(q) \in Nat /\ 0 \in 0 .. Len(q) /\ Len(q) \in 0 .. Len(q)
  OBVIOUS
<1>. QED BY <1>1 DEF Chain

LEMMA ChainOne ==
    ASSUME NEW R, NEW S, NEW s \in S, NEW t \in S, NEW m, <<m, s, t>> \in R
    PROVE  Chain(<<m>>, R, S, s, t)
<1>. DEFINE F == [i \in 0 .. 1 |-> IF i = 0 THEN s ELSE t]
            q == <<m>>
<1>1. F \in [0 .. 1 -> S] /\ F[0] = s /\ F[1] = t
  OBVIOUS
<1>. HIDE DEF F
<1>2. Len(q) = 1 /\ q[1] = m
  OBVIOUS
<1>. HIDE DEF q
<1>3. \A i \in 1 .. 1 : <<q[i], F[i - 1], F[i]>> \in R
  BY <1>1, <1>2
<1>4. Chain(q, R, S, s, t)
  BY <1>1, <1>2, <1>3 DEF Chain
<1>. QED BY <1>4 DEF q

LEMMA ChainJoin ==
    ASSUME NEW M, NEW q \in Seq(M), NEW r \in Seq(M), NEW R, NEW S,
           NEW s, NEW t, NEW u, Chain(q, R, S, s, t), Chain(r, R, S, t, u)
    PROVE  Chain(q \o r, R, S, s, u)
<1>. DEFINE p == q \o r
            a == Len(q)
            b == Len(r)
<1>1. PICK F \in [0 .. a -> S] :
         /\ F[0] = s /\ F[a] = t
         /\ \A i \in 1 .. a : <<q[i], F[i - 1], F[i]>> \in R
  BY DEF Chain
<1>2. PICK G \in [0 .. b -> S] :
         /\ G[0] = t /\ G[b] = u
         /\ \A i \in 1 .. b : <<r[i], G[i - 1], G[i]>> \in R
  BY DEF Chain
<1>3. /\ a \in Nat /\ b \in Nat /\ Len(p) = a + b
      /\ \A i \in 1 .. a + b : p[i] = IF i <= a THEN q[i] ELSE r[i - a]
  BY ConcatProperties
<1>. DEFINE H == [i \in 0 .. a + b |-> IF i <= a THEN F[i] ELSE G[i - a]]
<1>. HIDE DEF p, a, b
<1>4. H \in [0 .. a + b -> S] /\ H[0] = s /\ H[a + b] = u
  <2>1. \A i \in 0 .. a + b : i <= a => i \in 0 .. a
    BY <1>3
  <2>2. \A i \in 0 .. a + b : ~(i <= a) => i - a \in 0 .. b
    BY <1>3
  <2>3. H \in [0 .. a + b -> S]
    BY <2>1, <2>2
  <2>4. H[0] = s
    BY <1>1, <1>3
  <2>5. H[a + b] = u
    <3>1. a + b \in 0 .. a + b /\ (a + b <= a <=> b = 0) /\ a + b - a = b
      BY <1>3
    <3>2. b = 0 => a + b = a /\ u = t
      BY <1>2, <1>3
    <3>3. CASE b = 0
      <4>1. H[a + b] = F[a + b]
        BY <3>1, <3>3
      <4>. QED BY <1>1, <3>2, <3>3, <4>1
    <3>4. CASE b # 0
      <4>1. ~(a + b <= a)
        BY <3>1, <3>4
      <4>2. \A i \in 0 .. a + b : ~(i <= a) => H[i] = G[i - a]
        OBVIOUS
      <4>3. H[a + b] = G[(a + b) - a]
        BY <3>1, <4>1, <4>2, Zenon
      <4>. HIDE DEF H
      <4>4. (a + b) - a = b /\ G[b] = u
        BY <1>2, <1>3
      <4>. QED BY <4>3, <4>4
    <3>. QED BY <3>3, <3>4
  <2>. QED BY <2>3, <2>4, <2>5
<1>5. \A i \in 1 .. a + b : <<p[i], H[i - 1], H[i]>> \in R
  <2>. SUFFICES ASSUME NEW i \in 1 .. a + b
                PROVE  <<p[i], H[i - 1], H[i]>> \in R
    OBVIOUS
  <2>1. i \in 0 .. a + b /\ i - 1 \in 0 .. a + b
    BY <1>3
  <2>2. CASE i <= a
    <3>1. i \in 1 .. a /\ i - 1 <= a
      BY <1>3, <2>2
    <3>2. H[i] = F[i] /\ H[i - 1] = F[i - 1] /\ p[i] = q[i]
      BY <1>3, <2>1, <2>2, <3>1
    <3>. QED BY <1>1, <3>1, <3>2
  <2>3. CASE ~(i <= a)
    <3>1. i - a \in 1 .. b /\ i - 1 - a = i - a - 1
      BY <1>3, <2>3
    <3>2. H[i] = G[i - a] /\ p[i] = r[i - a]
      BY <1>3, <2>1, <2>3
    <3>3. H[i - 1] = G[i - a - 1]
      <4>1. CASE i - 1 <= a
        <5>1. i - 1 = a /\ i - a - 1 = 0
          BY <1>3, <2>3, <4>1
        <5>2. H[i - 1] = F[a]
          BY <2>1, <4>1, <5>1
        <5>. QED BY <1>1, <1>2, <5>1, <5>2
      <4>2. CASE ~(i - 1 <= a)
        BY <2>1, <3>1, <4>2
      <4>. QED BY <4>1, <4>2
    <3>. QED BY <1>2, <3>1, <3>2, <3>3
  <2>. QED BY <2>2, <2>3
<1>. HIDE DEF H
<1>6. Chain(p, R, S, s, u)
  BY <1>3, <1>4, <1>5 DEF Chain
<1>. QED BY <1>6 DEF p

LEMMA ChainTaken ==
    ASSUME NEW M, NEW q \in Seq(M), q # <<>>, NEW R, NEW S, NEW s, NEW t,
           Chain(q, R, S, s, t)
    PROVE  \E u \in S : <<Head(q), s, u>> \in R /\ Chain(Tail(q), R, S, u, t)
<1>. DEFINE r == Tail(q)
            b == Len(r)
<1>1. PICK F \in [0 .. Len(q) -> S] :
         /\ F[0] = s /\ F[Len(q)] = t
         /\ \A i \in 1 .. Len(q) : <<q[i], F[i - 1], F[i]>> \in R
  BY DEF Chain
<1>2. /\ b \in Nat /\ Len(q) = b + 1 /\ Head(q) = q[1]
      /\ \A i \in 1 .. b : r[i] = q[i + 1]
  BY HeadTailProperties
<1>. DEFINE G == [i \in 0 .. b |-> F[i + 1]]
<1>. HIDE DEF r, b
<1>3. \A i \in 0 .. b : i + 1 \in 0 .. b + 1 /\ i + 1 \in 1 .. b + 1
  BY <1>2
<1>4. G \in [0 .. b -> S] /\ G[0] = F[1] /\ G[b] = t
  <2>1. G \in [0 .. b -> S]
    BY <1>1, <1>2, <1>3
  <2>2. 0 \in 0 .. b /\ b \in 0 .. b
    BY <1>2
  <2>. QED BY <1>1, <1>2, <2>1, <2>2
<1>5. \A i \in 1 .. b : <<r[i], G[i - 1], G[i]>> \in R
  <2>. SUFFICES ASSUME NEW i \in 1 .. b PROVE <<r[i], G[i - 1], G[i]>> \in R
    OBVIOUS
  <2>1. i \in 0 .. b /\ i - 1 \in 0 .. b /\ i - 1 + 1 = i /\ i + 1 - 1 = i
    BY <1>2
  <2>2. i + 1 \in 1 .. b + 1
    BY <1>2
  <2>3. G[i] = F[i + 1] /\ G[i - 1] = F[i] /\ r[i] = q[i + 1]
    BY <1>2, <2>1
  <2>4. <<q[i + 1], F[i + 1 - 1], F[i + 1]>> \in R
    BY <1>1, <1>2, <2>2
  <2>. QED BY <2>1, <2>3, <2>4
<1>6. F[1] \in S /\ <<Head(q), s, F[1]>> \in R
  <2>1. 1 \in 1 .. Len(q) /\ 1 - 1 = 0 /\ 1 \in 0 .. Len(q)
    BY <1>2
  <2>. QED BY <1>1, <1>2, <2>1
<1>. HIDE DEF G
<1>7. Chain(r, R, S, F[1], t)
  BY <1>2, <1>4, <1>5 DEF Chain, b
<1>. QED BY <1>6, <1>7 DEF r

LEMMA ChainPart ==
    ASSUME NEW M, NEW q \in Seq(M), NEW n \in 0 .. Len(q), NEW R, NEW S,
           NEW s, NEW t, Chain(q, R, S, s, t)
    PROVE  \E u \in S : Chain(SubSeq(q, 1, n), R, S, s, u)
<1>. DEFINE r == SubSeq(q, 1, n)
<1>1. PICK F \in [0 .. Len(q) -> S] :
         /\ F[0] = s /\ F[Len(q)] = t
         /\ \A i \in 1 .. Len(q) : <<q[i], F[i - 1], F[i]>> \in R
  BY DEF Chain
<1>2. n \in Nat /\ Len(q) \in Nat /\ n <= Len(q)
  OBVIOUS
<1>3. Len(r) = n /\ \A i \in 1 .. n : r[i] = q[i]
  <2>1. \A i \in 1 .. n : q[i] \in M
    BY <1>2, ElementOfSeq
  <2>. QED BY <1>2, <2>1, SubSeqProperties
<1>. DEFINE G == [i \in 0 .. n |-> F[i]]
<1>. HIDE DEF r
<1>4. G \in [0 .. n -> S] /\ G[0] = s /\ F[n] \in S /\ G[n] = F[n]
  BY <1>1, <1>2
<1>5. \A i \in 1 .. n : <<r[i], G[i - 1], G[i]>> \in R
  BY <1>1, <1>2, <1>3
<1>. HIDE DEF G
<1>6. Chain(r, R, S, s, F[n])
  BY <1>3, <1>4, <1>5 DEF Chain
<1>. QED BY <1>4, <1>6 DEF r

LEMMA ChainWiden ==
    ASSUME NEW M, NEW q \in Seq(M), NEW R, NEW S, NEW T, S \subseteq T,
           NEW s, NEW t, Chain(q, R, S, s, t)
    PROVE  Chain(q, R, T, s, t)
<1>1. PICK F \in [0 .. Len(q) -> S] :
         /\ F[0] = s /\ F[Len(q)] = t
         /\ \A i \in 1 .. Len(q) : <<q[i], F[i - 1], F[i]>> \in R
  BY DEF Chain
<1>2. F \in [0 .. Len(q) -> T]
  OBVIOUS
<1>. QED BY <1>1, <1>2 DEF Chain

LEMMA ChainIdle ==
    ASSUME NEW M, NEW q \in Seq(M), NEW R, NEW S, NEW s \in S,
           \A i \in 1 .. Len(q) : <<q[i], s, s>> \in R
    PROVE  Chain(q, R, S, s, s)
<1>. DEFINE F == [i \in 0 .. Len(q) |-> s]
<1>1. Len(q) \in Nat
  OBVIOUS
<1>2. F \in [0 .. Len(q) -> S] /\ F[0] = s /\ F[Len(q)] = s
  BY <1>1
<1>3. \A i \in 1 .. Len(q) : <<q[i], F[i - 1], F[i]>> \in R
  BY <1>1
<1>. HIDE DEF F
<1>. QED BY <1>2, <1>3 DEF Chain

-----------------------------------------------------------------------------
(* Messages: what they do to the two chains                                *)

Positional == {"KEEPALIVE", "RESUME", "RESUME_OK"}

\* The position of its receiver's frames that a message announces.
PositionOf(m) ==
    CASE m.type = "KEEPALIVE" -> m.position
      [] m.type = "RESUME"    -> m.server
      [] OTHER                -> m.client

LEMMA Messages ==
    /\ \A n \in Frame : Data(n) \in Message /\ Data(n).type = "DATA"
                        /\ Data(n).frame = n
    /\ Extension \in Message /\ Extension.type = "EXT"
    /\ Error \in Message /\ Error.type = "ERROR"
    /\ \A b \in BOOLEAN, p \in Nat :
          /\ KeepAlive(b, p) \in Message
          /\ KeepAlive(b, p).type = "KEEPALIVE"
          /\ PositionOf(KeepAlive(b, p)) = p
    /\ \A p, o \in Nat :
          /\ ResumeFrame(p, o) \in Message /\ ResumeFrame(p, o).type = "RESUME"
          /\ PositionOf(ResumeFrame(p, o)) = o
          /\ ResumeFrame(p, o).server = o /\ ResumeFrame(p, o).client = p
    /\ \A p \in Nat :
          /\ ResumeOk(p) \in Message /\ ResumeOk(p).type = "RESUME_OK"
          /\ PositionOf(ResumeOk(p)) = p /\ ResumeOk(p).client = p
<1>. USE DEF Message, PositionOf
<1>1. \A n \in Frame : Data(n) \in Message /\ Data(n).type = "DATA"
                       /\ Data(n).frame = n
  BY DEF Data
<1>2. /\ Extension \in Message /\ Extension.type = "EXT"
      /\ Error \in Message /\ Error.type = "ERROR"
  BY DEF Extension, Error
<1>3. \A b \in BOOLEAN, p \in Nat :
          /\ KeepAlive(b, p) \in Message
          /\ KeepAlive(b, p).type = "KEEPALIVE"
          /\ PositionOf(KeepAlive(b, p)) = p
  BY DEF KeepAlive
<1>4. \A p, o \in Nat :
          /\ ResumeFrame(p, o) \in Message /\ ResumeFrame(p, o).type = "RESUME"
          /\ PositionOf(ResumeFrame(p, o)) = o
          /\ ResumeFrame(p, o).server = o /\ ResumeFrame(p, o).client = p
  BY DEF ResumeFrame
<1>5. \A p \in Nat :
          /\ ResumeOk(p) \in Message /\ ResumeOk(p).type = "RESUME_OK"
          /\ PositionOf(ResumeOk(p)) = p /\ ResumeOk(p).client = p
  BY DEF ResumeOk
<1>. QED BY <1>1, <1>2, <1>3, <1>4, <1>5

LEMMA MessageTyped ==
    ASSUME NEW m \in Message
    PROVE  /\ m.type = "DATA" => m.frame \in Frame /\ m = Data(m.frame)
           /\ m.type = "KEEPALIVE" => /\ m.respond \in BOOLEAN
                                      /\ m.position \in Nat
                                      /\ PositionOf(m) = m.position
           /\ m.type = "RESUME_OK" => m.client \in Nat /\ PositionOf(m) = m.client
           /\ m.type = "EXT" => m = Extension
           /\ m.type = "ERROR" => m = Error
<1>. USE DEF Message, PositionOf, Data, Extension, Error
<1>1. CASE m \in [type : {"DATA"}, frame : Frame]
  BY <1>1
<1>2. CASE m \in [type : {"EXT", "ERROR"}]
  BY <1>2
<1>3. CASE m \in [type : {"KEEPALIVE"}, respond : BOOLEAN, position : Nat]
  BY <1>3
<1>4. CASE m \in [type : {"RESUME"}, client : Nat, server : Nat]
  BY <1>4
<1>5. CASE m \in [type : {"RESUME_OK"}, client : Nat]
  BY <1>5
<1>. QED BY <1>1, <1>2, <1>3, <1>4, <1>5

LEMMA PositionTyped ==
    ASSUME NEW m \in Message, m.type \in Positional
    PROVE  PositionOf(m) \in Nat
<1>1. m \in [type : {"KEEPALIVE"}, respond : BOOLEAN, position : Nat]
        => m.type = "KEEPALIVE" /\ m.position \in Nat
  OBVIOUS
<1>2. m \in [type : {"RESUME"}, client : Nat, server : Nat]
        => m.type = "RESUME" /\ m.server \in Nat
  OBVIOUS
<1>3. m \in [type : {"RESUME_OK"}, client : Nat]
        => m.type = "RESUME_OK" /\ m.client \in Nat
  OBVIOUS
<1>4. m \notin [type : {"DATA"}, frame : Frame] \cup [type : {"EXT", "ERROR"}]
  BY DEF Positional
<1>. QED BY <1>1, <1>2, <1>3, <1>4 DEF Message, PositionOf

\* A frame of data is the next one; a position is that of a frame not before
\* the last position.
DataStep ==
    {x \in Message \X Nat \X Nat :
        IF x[1].type = "DATA" THEN x[1].frame = x[3] /\ x[3] = x[2] + 1
                              ELSE x[3] = x[2]}
PositionStep ==
    {x \in Message \X Nat \X Nat :
        IF x[1].type \in Positional
        THEN PositionOf(x[1]) = Position[x[3]] /\ x[2] <= x[3]
        ELSE x[3] = x[2]}

LEMMA DataSteps ==
    ASSUME NEW m \in Message, NEW a \in Nat, NEW b
    PROVE  /\ m.type # "DATA" => (<<m, a, b>> \in DataStep <=> b = a)
           /\ m.type = "DATA" => (<<m, a, b>> \in DataStep
                                    <=> b = a + 1 /\ m.frame = b)
BY DEF DataStep

LEMMA PositionSteps ==
    ASSUME NEW m \in Message, NEW a \in Nat, NEW b
    PROVE  /\ m.type \notin Positional => (<<m, a, b>> \in PositionStep <=> b = a)
           /\ m.type \in Positional =>
                (<<m, a, b>> \in PositionStep
                   <=> b \in Nat /\ PositionOf(m) = Position[b] /\ a <= b)
BY DEF PositionStep

-----------------------------------------------------------------------------
(* What time does to the messages under way                                *)

Cut(q, r) == \E n \in 0 .. Len(q) : r = SubSeq(q, 1, n)

\* An extension or an ERROR frame may be taken: neither moves a chain.
Idle(q, r) ==
    \/ r = q
    \/ q # <<>> /\ Head(q) \in {Extension, Error} /\ r = Tail(q)

\* What is left of them when an end may have answered with an ERROR frame and
\* closed the connection.
Faded(q, r) == \E p : Idle(q, p) /\ Cut(p \o <<Error>>, r)

LEMMA Singles ==
    /\ <<Extension>> \in Seq(Message) /\ <<Error>> \in Seq(Message)
    /\ <<>> \in Seq(Message)
<1>1. \A m \in Message : <<m>> \in Seq(Message)
  OBVIOUS
<1>. QED BY <1>1, Messages

LEMMA CutTyped ==
    ASSUME NEW M, NEW q \in Seq(M), NEW r, Cut(q, r)
    PROVE  r \in Seq(M)
<1>1. PICK n \in 0 .. Len(q) : r = SubSeq(q, 1, n)
  BY DEF Cut
<1>2. n \in Int /\ Len(q) \in Nat /\ n <= Len(q) /\ 1 \in Int
  OBVIOUS
<1>3. \A i \in 1 .. n : q[i] \in M
  BY <1>2, ElementOfSeq
<1>. QED BY <1>1, <1>2, <1>3, SubSeqProperties

LEMMA CutOnce ==
    ASSUME NEW M, NEW q \in Seq(M), NEW m \in M
    PROVE  /\ Cut(q, q) /\ Cut(q, <<>>) /\ Cut(q \o <<m>>, q)
           /\ \A n \in 0 .. Len(q) : Cut(q, SubSeq(q, 1, n))
           /\ \A r : Cut(q, r) => Cut(q \o <<m>>, r)
<1>1. /\ Len(q) \in 0 .. Len(q) /\ 0 \in 0 .. Len(q) /\ Len(q) \in Nat
      /\ <<m>> \in Seq(M) /\ Len(<<m>>) = 1
  OBVIOUS
<1>2. SubSeq(q, 1, Len(q)) = q
  BY SubSeqFull
<1>3. SubSeq(q, 1, 0) = <<>>
  BY SubSeqEmpty
<1>4. Len(q \o <<m>>) = Len(q) + 1
  BY <1>1, ConcatProperties
<1>5. \A n \in 0 .. Len(q) : SubSeq(q \o <<m>>, 1, n) = SubSeq(q, 1, n)
  <2>. SUFFICES ASSUME NEW n \in 0 .. Len(q)
                PROVE  SubSeq(q \o <<m>>, 1, n) = SubSeq(q, 1, n)
    OBVIOUS
  <2>1. CASE n = 0
    <3>1. SubSeq(q \o <<m>>, 1, 0) = <<>>
      BY SubSeqEmpty
    <3>. QED BY <1>3, <2>1, <3>1
  <2>2. CASE n # 0
    <3>1. 1 \in 1 .. Len(q) /\ n \in 1 .. Len(q)
      BY <1>1, <2>2
    <3>. QED BY <1>1, <3>1, SubSeqOfConcat1
  <2>. QED BY <2>1, <2>2
<1>6. \A n \in 0 .. Len(q) : n \in 0 .. Len(q \o <<m>>)
  BY <1>1, <1>4
<1>7. \A r : Cut(q, r) => Cut(q \o <<m>>, r)
  BY <1>5, <1>6 DEF Cut
<1>8. Cut(q, q) /\ Cut(q, <<>>) /\ \A n \in 0 .. Len(q) : Cut(q, SubSeq(q, 1, n))
  BY <1>1, <1>2, <1>3 DEF Cut
<1>. QED BY <1>7, <1>8

LEMMA IdleTyped ==
    ASSUME NEW M, NEW q \in Seq(M), NEW r, Idle(q, r)
    PROVE  r \in Seq(M)
<1>1. q # <<>> => Tail(q) \in Seq(M)
  OBVIOUS
<1>. QED BY <1>1 DEF Idle

LEMMA FadedTyped ==
    ASSUME NEW M, Error \in M, NEW q \in Seq(M), NEW r,
           Faded(q, r)
    PROVE  r \in Seq(M)
<1>1. PICK p : Idle(q, p) /\ Cut(p \o <<Error>>, r)
  BY DEF Faded
<1>2. p \in Seq(M) /\ <<Error>> \in Seq(M)
  BY <1>1, IdleTyped
<1>3. p \o <<Error>> \in Seq(M)
  BY <1>2, ConcatProperties
<1>. QED BY <1>1, <1>3, CutTyped

LEMMA IdleFades ==
    ASSUME NEW q \in Seq(Message), NEW p, Idle(q, p)
    PROVE  /\ Faded(q, p) /\ Faded(q, <<>>)
           /\ \A r : Cut(p, r) \/ Cut(p \o <<Error>>, r) => Faded(q, r)
<1>1. p \in Seq(Message) /\ Error \in Message
  BY IdleTyped, Messages
<1>2. /\ Cut(p \o <<Error>>, p)
      /\ \A r : Cut(p, r) => Cut(p \o <<Error>>, r)
      /\ Cut(p, <<>>)
  BY <1>1, CutOnce
<1>. QED BY <1>2 DEF Faded

LEMMA ChainIdles ==
    ASSUME NEW R, NEW S, NEW s, NEW t, NEW q \in Seq(Message), NEW r,
           Idle(q, r), Chain(q, R, S, s, t),
           \A x \in S, y \in S : \A m \in {Extension, Error} :
              <<m, x, y>> \in R <=> y = x
    PROVE  Chain(r, R, S, s, t)
<1>1. s \in S /\ t \in S
  BY ChainEnds
<1>2. CASE r = q
  BY <1>2
<1>3. CASE q # <<>> /\ Head(q) \in {Extension, Error} /\ r = Tail(q)
  <2>1. PICK u \in S : <<Head(q), s, u>> \in R /\ Chain(Tail(q), R, S, u, t)
    BY <1>3, ChainTaken
  <2>2. u = s
    BY <1>1, <1>3, <2>1
  <2>. QED BY <1>3, <2>1, <2>2
<1>. QED BY <1>2, <1>3 DEF Idle

LEMMA ChainFades ==
    ASSUME NEW R, NEW S, NEW s, NEW t, NEW q \in Seq(Message), NEW r,
           Faded(q, r), Chain(q, R, S, s, t),
           \A x \in S, y \in S : \A m \in {Extension, Error} :
              <<m, x, y>> \in R <=> y = x
    PROVE  \E u \in S : Chain(r, R, S, s, u)
<1>1. PICK p : Idle(q, p) /\ Cut(p \o <<Error>>, r)
  BY DEF Faded
<1>2. p \in Seq(Message)
  BY <1>1, IdleTyped, Messages
<1>3. Chain(p, R, S, s, t) /\ t \in S
  BY <1>1, <1>2, ChainIdles, ChainEnds
<1>4. Chain(<<Error>>, R, S, t, t)
  BY <1>3, ChainOne
<1>5. Chain(p \o <<Error>>, R, S, s, t) /\ p \o <<Error>> \in Seq(Message)
  BY <1>2, <1>3, <1>4, Singles, ChainJoin, ConcatProperties
<1>6. PICK n \in 0 .. Len(p \o <<Error>>) : r = SubSeq(p \o <<Error>>, 1, n)
  BY <1>1 DEF Cut
<1>. DEFINE o == p \o <<Error>>
<1>. HIDE DEF o
<1>7. \E u \in S : Chain(SubSeq(o, 1, n), R, S, s, u)
  BY <1>5, <1>6, ChainPart DEF o
<1>. QED BY <1>6, <1>7 DEF o

-----------------------------------------------------------------------------
(* The frames of data under way: from the first that is missing, without a *)
(* gap, to the last that was sent if nothing is lost.                      *)

FlowOf(q, from, whole, top) ==
    \E to \in 0 .. top : /\ Chain(q, DataStep, 0 .. top, from, to)
                         /\ whole => to = top

LEMMA DataIdles ==
    ASSUME NEW top \in Nat
    PROVE  \A x \in 0 .. top, y \in 0 .. top : \A m \in {Extension, Error} :
              <<m, x, y>> \in DataStep <=> y = x
<1>. SUFFICES ASSUME NEW x \in 0 .. top, NEW y \in 0 .. top,
                     NEW m \in {Extension, Error}
              PROVE  <<m, x, y>> \in DataStep <=> y = x
  OBVIOUS
<1>1. m \in Message /\ m.type # "DATA" /\ x \in Nat
  BY Messages
<1>. QED BY <1>1, DataSteps

LEMMA FlowNone ==
    ASSUME NEW top \in Nat, NEW from \in 0 .. top, NEW whole,
           whole => from = top
    PROVE  FlowOf(<<>>, from, whole, top)
BY ChainNone DEF FlowOf

LEMMA FlowIdles ==
    ASSUME NEW q \in Seq(Message), NEW r, Idle(q, r), NEW top \in Nat, NEW from,
           NEW whole, NEW after, after => whole, FlowOf(q, from, whole, top)
    PROVE  FlowOf(r, from, after, top)
<1>1. PICK to \in 0 .. top : /\ Chain(q, DataStep, 0 .. top, from, to)
                             /\ whole => to = top
  BY DEF FlowOf
<1>2. Chain(r, DataStep, 0 .. top, from, to)
  BY <1>1, DataIdles, ChainIdles
<1>. QED BY <1>1, <1>2 DEF FlowOf

LEMMA FlowFades ==
    ASSUME NEW q \in Seq(Message), NEW r, Faded(q, r), NEW top \in Nat, NEW from,
           NEW whole, FlowOf(q, from, whole, top)
    PROVE  FlowOf(r, from, FALSE, top)
<1>1. PICK to \in 0 .. top : Chain(q, DataStep, 0 .. top, from, to)
  BY DEF FlowOf
<1>2. \E u \in 0 .. top : Chain(r, DataStep, 0 .. top, from, u)
  BY <1>1, DataIdles, ChainFades
<1>. QED BY <1>2 DEF FlowOf

LEMMA FlowEnds ==
    ASSUME NEW q \in Seq(Message), NEW top \in Nat, NEW from, NEW whole,
           FlowOf(q, from, whole, top)
    PROVE  from \in 0 .. top
BY ChainEnds DEF FlowOf

\* Nothing but data moves the chain of the data.
LEMMA FlowJoins ==
    ASSUME NEW q \in Seq(Message), NEW F \in Seq(Message), NEW top \in Nat,
           NEW from, NEW whole, FlowOf(q, from, whole, top),
           \A i \in 1 .. Len(F) : F[i].type # "DATA"
    PROVE  FlowOf(q \o F, from, whole, top)
<1>1. PICK to \in 0 .. top : /\ Chain(q, DataStep, 0 .. top, from, to)
                             /\ whole => to = top
  BY DEF FlowOf
<1>2. \A i \in 1 .. Len(F) : F[i] \in Message /\ to \in Nat
  BY ElementOfSeq
<1>3. \A i \in 1 .. Len(F) : <<F[i], to, to>> \in DataStep
  BY <1>2, DataSteps
<1>4. Chain(F, DataStep, 0 .. top, to, to)
  BY <1>3, ChainIdle
<1>. QED BY <1>1, <1>4, ChainJoin DEF FlowOf

\* A frame that is stored and not written.
LEMMA FlowMisses ==
    ASSUME NEW q \in Seq(Message), NEW top \in Nat, NEW from, NEW whole,
           FlowOf(q, from, whole, top)
    PROVE  FlowOf(q, from, FALSE, top + 1)
<1>1. PICK to \in 0 .. top : Chain(q, DataStep, 0 .. top, from, to)
  BY DEF FlowOf
<1>2. 0 .. top \subseteq 0 .. top + 1
  OBVIOUS
<1>3. Chain(q, DataStep, 0 .. top + 1, from, to)
  BY <1>1, <1>2, ChainWiden
<1>. QED BY <1>2, <1>3 DEF FlowOf

\* A frame that is stored and written.
LEMMA FlowGrows ==
    ASSUME NEW q \in Seq(Message), NEW top \in Nat, NEW from, top + 1 \in Frame,
           FlowOf(q, from, TRUE, top)
    PROVE  FlowOf(q \o <<Data(top + 1)>>, from, TRUE, top + 1)
<1>1. Chain(q, DataStep, 0 .. top, from, top)
  BY DEF FlowOf
<1>2. 0 .. top \subseteq 0 .. top + 1 /\ top \in 0 .. top + 1
      /\ top + 1 \in 0 .. top + 1 /\ top + 1 \in Nat
  OBVIOUS
<1>3. Chain(q, DataStep, 0 .. top + 1, from, top)
  BY <1>1, <1>2, ChainWiden
<1>4. <<Data(top + 1), top, top + 1>> \in DataStep
  <2>1. /\ Data(top + 1) \in Message /\ Data(top + 1).type = "DATA"
        /\ Data(top + 1).frame = top + 1
    BY Messages
  <2>. QED BY <2>1, DataSteps
<1>5. Chain(<<Data(top + 1)>>, DataStep, 0 .. top + 1, top, top + 1)
  BY <1>2, <1>4, ChainOne
<1>6. <<Data(top + 1)>> \in Seq(Message)
  BY Messages
<1>7. Chain(q \o <<Data(top + 1)>>, DataStep, 0 .. top + 1, from, top + 1)
  BY <1>3, <1>5, <1>6, ChainJoin
<1>. QED BY <1>2, <1>7 DEF FlowOf

LEMMA FlowTakesData ==
    ASSUME NEW q \in Seq(Message), q # <<>>, NEW n \in Frame, Head(q) = Data(n),
           NEW top \in Nat, NEW from, NEW whole, FlowOf(q, from, whole, top)
    PROVE  /\ n = from + 1 /\ n \in 0 .. top
           /\ FlowOf(Tail(q), from + 1, whole, top)
<1>1. PICK to \in 0 .. top : /\ Chain(q, DataStep, 0 .. top, from, to)
                             /\ whole => to = top
  BY DEF FlowOf
<1>2. from \in 0 .. top /\ from \in Nat
  BY <1>1, ChainEnds
<1>3. PICK u \in 0 .. top : /\ <<Data(n), from, u>> \in DataStep
                            /\ Chain(Tail(q), DataStep, 0 .. top, u, to)
  BY <1>1, ChainTaken
<1>4. u = from + 1 /\ n = u
  <2>1. Data(n) \in Message /\ Data(n).type = "DATA" /\ Data(n).frame = n
    BY Messages
  <2>. QED BY <1>2, <1>3, <2>1, DataSteps
<1>. QED BY <1>1, <1>3, <1>4 DEF FlowOf

LEMMA FlowTakes ==
    ASSUME NEW q \in Seq(Message), q # <<>>, Head(q).type # "DATA",
           NEW top \in Nat, NEW from, NEW whole, FlowOf(q, from, whole, top)
    PROVE  FlowOf(Tail(q), from, whole, top)
<1>1. PICK to \in 0 .. top : /\ Chain(q, DataStep, 0 .. top, from, to)
                             /\ whole => to = top
  BY DEF FlowOf
<1>2. from \in Nat /\ Head(q) \in Message
  BY <1>1, ChainEnds, HeadTailProperties
<1>3. PICK u \in 0 .. top : /\ <<Head(q), from, u>> \in DataStep
                            /\ Chain(Tail(q), DataStep, 0 .. top, u, to)
  BY <1>1, ChainTaken
<1>4. u = from
  BY <1>2, <1>3, DataSteps
<1>. QED BY <1>1, <1>3, <1>4 DEF FlowOf

\* What drain sends.
LEMMA FlowDrains ==
    ASSUME NEW top \in Nat, NEW from \in 0 .. top, 1 .. top \subseteq Frame
    PROVE  /\ [i \in 1 .. top - from |-> Data(from + i)] \in Seq(Message)
           /\ FlowOf([i \in 1 .. top - from |-> Data(from + i)], from, TRUE, top)
           /\ \A i \in 1 .. Len([j \in 1 .. top - from |-> Data(from + j)]) :
                 [j \in 1 .. top - from |-> Data(from + j)][i].type = "DATA"
<1>. DEFINE n == top - from
            q == [i \in 1 .. n |-> Data(from + i)]
            F == [i \in 0 .. n |-> from + i]
<1>1. n \in Nat /\ from \in Nat /\ from + n = top /\ from + 0 = from
  OBVIOUS
<1>. HIDE DEF n
<1>2. \A i \in 1 .. n : from + i \in Frame /\ i \in 0 .. n /\ i - 1 \in 0 .. n
                        /\ from + (i - 1) \in Nat /\ from + i = from + (i - 1) + 1
  BY <1>1
<1>3. \A i \in 1 .. n : Data(from + i) \in Message /\ Data(from + i).type = "DATA"
                        /\ Data(from + i).frame = from + i
  BY <1>2, Messages
<1>4. q \in [1 .. n -> Message]
  BY <1>3
<1>5. q \in Seq(Message) /\ Len(q) = n
  BY <1>1, <1>4
<1>6. F \in [0 .. n -> 0 .. top] /\ F[0] = from /\ F[n] = top
  BY <1>1
<1>7. \A i \in 1 .. n : q[i] = Data(from + i) /\ F[i] = from + i
                        /\ F[i - 1] = from + (i - 1)
  BY <1>2
<1>8. \A i \in 1 .. n : <<q[i], F[i - 1], F[i]>> \in DataStep
  BY <1>2, <1>3, <1>7, DataSteps
<1>9. \A i \in 1 .. n : q[i].type = "DATA"
  BY <1>3, <1>7
<1>. HIDE DEF F, q
<1>10. Chain(q, DataStep, 0 .. top, from, top)
  BY <1>5, <1>6, <1>8 DEF Chain
<1>11. top \in 0 .. top
  OBVIOUS
<1>12. FlowOf(q, from, TRUE, top)
  BY <1>10, <1>11 DEF FlowOf
<1>. QED BY <1>5, <1>9, <1>12 DEF q, n

-----------------------------------------------------------------------------
(* The positions under way: never before the frames that the store has     *)
(* dropped, never behind those that the peer has handled, and in order.    *)

ClimbOf(q, low, top) ==
    \E t \in 0 .. top : Chain(q, PositionStep, 0 .. top, low, t)

LEMMA PositionIdles ==
    ASSUME NEW top \in Nat
    PROVE  \A x \in 0 .. top, y \in 0 .. top : \A m \in {Extension, Error} :
              <<m, x, y>> \in PositionStep <=> y = x
<1>. SUFFICES ASSUME NEW x \in 0 .. top, NEW y \in 0 .. top,
                     NEW m \in {Extension, Error}
              PROVE  <<m, x, y>> \in PositionStep <=> y = x
  OBVIOUS
<1>1. m \in Message /\ m.type \notin Positional /\ x \in Nat
  BY Messages DEF Positional
<1>. QED BY <1>1, PositionSteps

LEMMA ClimbNone ==
    ASSUME NEW top \in Nat, NEW low \in 0 .. top
    PROVE  ClimbOf(<<>>, low, top)
BY ChainNone DEF ClimbOf

LEMMA ClimbEnds ==
    ASSUME NEW q \in Seq(Message), NEW top \in Nat, NEW low, ClimbOf(q, low, top)
    PROVE  low \in 0 .. top
BY ChainEnds DEF ClimbOf

LEMMA ClimbFades ==
    ASSUME NEW q \in Seq(Message), NEW r, Faded(q, r), NEW top \in Nat, NEW low,
           ClimbOf(q, low, top)
    PROVE  ClimbOf(r, low, top)
<1>1. PICK t \in 0 .. top : Chain(q, PositionStep, 0 .. top, low, t)
  BY DEF ClimbOf
<1>2. \E u \in 0 .. top : Chain(r, PositionStep, 0 .. top, low, u)
  BY <1>1, PositionIdles, ChainFades
<1>. QED BY <1>2 DEF ClimbOf

LEMMA ClimbGrows ==
    ASSUME NEW q \in Seq(Message), NEW top \in Nat, NEW low, ClimbOf(q, low, top)
    PROVE  ClimbOf(q, low, top + 1)
<1>1. PICK t \in 0 .. top : Chain(q, PositionStep, 0 .. top, low, t)
  BY DEF ClimbOf
<1>2. 0 .. top \subseteq 0 .. top + 1
  OBVIOUS
<1>3. Chain(q, PositionStep, 0 .. top + 1, low, t)
  BY <1>1, <1>2, ChainWiden
<1>. QED BY <1>2, <1>3 DEF ClimbOf

\* Whatever is sent announces nothing or the position of what was handled.
LEMMA ClimbJoins ==
    ASSUME NEW q \in Seq(Message), NEW F \in Seq(Message), NEW top \in Nat,
           NEW low, ClimbOf(q, low, top),
           \A i \in 1 .. Len(F) : F[i].type \in Positional
                                     => PositionOf(F[i]) = Position[top]
    PROVE  ClimbOf(q \o F, low, top)
<1>1. PICK t \in 0 .. top : Chain(q, PositionStep, 0 .. top, low, t)
  BY DEF ClimbOf
<1>2. \A i \in 1 .. Len(F) : F[i] \in Message
  BY ElementOfSeq
<1>3. /\ t \in Nat /\ t <= top /\ Len(F) \in Nat /\ top \in 0 .. top
      /\ top <= top
  OBVIOUS
<1>4. CASE \E k \in 1 .. Len(F) : F[k].type \in Positional
  <2>1. PICK k \in 1 .. Len(F) :
           /\ F[k].type \in Positional
           /\ \A i \in 1 .. Len(F) : F[i].type \in Positional => k <= i
    <3>. DEFINE T == {i \in 1 .. Len(F) : F[i].type \in Positional}
    <3>1. T \in SUBSET Nat /\ T # {}
      BY <1>4
    <3>2. PICK n \in T : \A i \in T : n <= i
      BY <3>1, LeastNat
    <3>. QED BY <3>2
  <2>. DEFINE G == [i \in 0 .. Len(F) |-> IF i < k THEN t ELSE top]
  <2>2. /\ G \in [0 .. Len(F) -> 0 .. top]
        /\ G[0] = t /\ G[Len(F)] = top
    <3>1. k \in Nat /\ 0 < k /\ ~(Len(F) < k) /\ 0 \in 0 .. Len(F)
          /\ Len(F) \in 0 .. Len(F)
      BY <1>3
    <3>. QED BY <1>3, <3>1
  <2>3. \A i \in 1 .. Len(F) : <<F[i], G[i - 1], G[i]>> \in PositionStep
    <3>. SUFFICES ASSUME NEW i \in 1 .. Len(F)
                  PROVE  <<F[i], G[i - 1], G[i]>> \in PositionStep
      OBVIOUS
    <3>1. i \in 0 .. Len(F) /\ i - 1 \in 0 .. Len(F) /\ i \in Nat /\ k \in Nat
      BY <1>3
    <3>2. F[i] \in Message
      BY <1>2
    <3>3. CASE i < k
      <4>1. F[i].type \notin Positional /\ i - 1 < k
        BY <2>1, <3>1, <3>3
      <4>2. G[i] = t /\ G[i - 1] = t
        BY <3>1, <3>3, <4>1
      <4>3. <<F[i], t, t>> \in PositionStep
        BY <1>3, <3>2, <4>1, PositionSteps
      <4>. QED BY <4>2, <4>3
    <3>4. CASE i = k
      <4>1. i - 1 < k /\ ~(i < k)
        BY <3>1, <3>4
      <4>2. G[i] = top /\ G[i - 1] = t
        BY <3>1, <4>1
      <4>3. F[i].type \in Positional /\ PositionOf(F[i]) = Position[top]
        BY <2>1, <3>4
      <4>4. <<F[i], t, top>> \in PositionStep
        BY <1>3, <3>2, <4>3, PositionSteps
      <4>. QED BY <4>2, <4>4
    <3>5. CASE k < i
      <4>1. ~(i - 1 < k) /\ ~(i < k)
        BY <3>1, <3>5
      <4>2. G[i] = top /\ G[i - 1] = top
        BY <3>1, <4>1
      <4>3. <<F[i], top, top>> \in PositionStep
        <5>1. CASE F[i].type \in Positional
          BY <1>3, <3>2, <5>1, PositionSteps
        <5>2. CASE F[i].type \notin Positional
          BY <1>3, <3>2, <5>2, PositionSteps
        <5>. QED BY <5>1, <5>2
      <4>. QED BY <4>2, <4>3
    <3>. QED BY <3>1, <3>3, <3>4, <3>5
  <2>. HIDE DEF G
  <2>4. Chain(F, PositionStep, 0 .. top, t, top)
    BY <2>2, <2>3 DEF Chain
  <2>. QED BY <1>1, <1>3, <2>4, ChainJoin DEF ClimbOf
<1>5. CASE \A i \in 1 .. Len(F) : F[i].type \notin Positional
  <2>1. \A i \in 1 .. Len(F) : <<F[i], t, t>> \in PositionStep
    BY <1>2, <1>3, <1>5, PositionSteps
  <2>2. Chain(F, PositionStep, 0 .. top, t, t)
    BY <2>1, ChainIdle
  <2>. QED BY <1>1, <2>2, ChainJoin DEF ClimbOf
<1>. QED BY <1>4, <1>5

\* The frame whose position the first message announces.
LEMMA ClimbTakes ==
    ASSUME NEW q \in Seq(Message), q # <<>>, NEW top \in Nat, NEW low,
           ClimbOf(q, low, top)
    PROVE  \E u \in 0 .. top :
              /\ low <= u /\ ClimbOf(Tail(q), u, top)
              /\ IF Head(q).type \in Positional
                 THEN PositionOf(Head(q)) = Position[u] ELSE u = low
<1>1. PICK t \in 0 .. top : Chain(q, PositionStep, 0 .. top, low, t)
  BY DEF ClimbOf
<1>2. low \in Nat /\ Head(q) \in Message
  BY <1>1, ChainEnds, HeadTailProperties
<1>3. PICK u \in 0 .. top : /\ <<Head(q), low, u>> \in PositionStep
                            /\ Chain(Tail(q), PositionStep, 0 .. top, u, t)
  BY <1>1, ChainTaken
<1>4. ClimbOf(Tail(q), u, top)
  BY <1>3 DEF ClimbOf
<1>5. CASE Head(q).type \in Positional
  BY <1>2, <1>3, <1>4, <1>5, PositionSteps
<1>6. CASE Head(q).type \notin Positional
  <2>1. u = low
    BY <1>2, <1>3, <1>6, PositionSteps
  <2>. QED BY <1>2, <1>4, <1>6, <2>1
<1>. QED BY <1>5, <1>6

-----------------------------------------------------------------------------
(* The inductive invariant                                                 *)

\* The connections of a session come one after the other; what the server
\* has not closed may lie before its current one only when overlapped.
StatusInv ==
    /\ \A k \in Connection :
          /\ k < attempts => /\ status[k][Client] = "closed"
                             /\ status[k][Server] # "waiting"
          /\ k > attempts => \A e \in End : status[k][e] = "waiting"
          /\ \A e \in End : status[k][e] # "adopted"
    /\ current[Client] <= attempts /\ current[Server] \in {attempts - 1, attempts}
    /\ \A e \in End : status[current[e]][e] # "waiting"
    /\ status[attempts][Server] = "attached" => current[Server] = attempts
    /\ status[attempts][Client] = "attached" => /\ current[Client] = attempts
                                                /\ current[Server] = attempts
    /\ reconnecting => /\ status[attempts][Client] = "closed"
                       /\ current[Server] = attempts
    /\ ~overlapped => \A k \in Connection :
                         k < current[Server] => status[k][Server] = "closed"

QuietInv ==
    \A k \in Connection, e \in End :
        status[k][e] = "closed" \/ k > attempts => wire[k][e] = <<>>

\* RESUME and RESUME_OK carry what holds when they come, and come alone.
Offer ==
    {m \in Message : m.type = "RESUME_OK" =>
        /\ current[Server] = attempts
        /\ status[attempts][Client] = "waiting" /\ ~overlapped
             => m.client = received[Server]}

HandshakeInv ==
    /\ status[attempts][Server] = "waiting" =>
          /\ wire[attempts][Client] = <<>>
          /\ wire[attempts][Server] \in
               {<<>>, <<ResumeFrame(firstAvailable[Client], received[Client])>>}
    /\ status[attempts][Client] = "waiting" /\ current[Server] = attempts
         => wire[attempts][Server] = <<>>
    /\ wire[attempts][Client] \in Seq(Offer)

\* The positions on their way to the server and to the client, overlapped or
\* not.
Known ==
    {m \in Message : m.type \in Positional =>
        \E n \in 0 .. Len(handled[Client]) : PositionOf(m) = Position[n]}
Under == {m \in Message : m.type \in Positional => PositionOf(m) <= received[Server]}

Within(w, A, B) ==
    \A k \in Connection : w[k][Server] \in Seq(A) /\ w[k][Client] \in Seq(B)

PositionsInv ==
    firstAvailable[Client] <= received[Server] /\ Within(wire, Known, Under)

Own(e) == /\ \A i \in 1 .. Len(handled[e]) : handled[e][i] = i
          /\ received[e] = Position[Len(handled[e])]
          /\ Len(handled[e]) <= sent[Peer(e)]
Store(e) == /\ shifted[e] <= Len(handled[Peer(e)])
            /\ firstAvailable[e] = Position[shifted[e]]
\* The connection on which what e receives is under way: the client never
\* handles frames of an older connection.
At(e) == IF e = Client THEN attempts ELSE current[Server]

\* Nothing of what the sender e stores is lost on connection k.
Whole(k, e) == (\A d \in End : Open(k, d)) /\ current[e] = k

Flow(e) == FlowOf(wire[At(e)][e], Len(handled[e]), Whole(At(e), Peer(e)),
                  sent[Peer(e)])
Climb(e) == ClimbOf(wire[At(e)][e], shifted[e], Len(handled[Peer(e)]))

\* What e receives, and its peer stores.
Stream(e) == Own(e) /\ Store(Peer(e)) /\ Flow(e)

\* The server may handle frames of an older connection when overlapped.
StreamInv ==
    /\ Stream(Client)
    /\ ~overlapped => Stream(Server) /\ Climb(Client) /\ Climb(Server)
                      /\ ~inconsistent

TimerInv ==
    ~overlapped => /\ timers \subseteq {timeoutId}
                   /\ timers # {} => ~Open(current[Server], Server)

Inv == /\ TypeOK /\ StatusInv /\ QuietInv /\ HandshakeInv /\ PositionsInv
       /\ StreamInv /\ TimerInv

-----------------------------------------------------------------------------
(* The wires of a step                                                     *)

Pushes(c, e, F) ==
    /\ wire' \in [Connection -> [End -> Seq(Message)]] /\ F \in Seq(Message)
    /\ wire'[c][Peer(e)] = wire[c][Peer(e)] \o F
    /\ \A j \in Connection, d \in End :
          j # c \/ d # Peer(e) => wire'[j][d] = wire[j][d]
    /\ F # <<>> => Open(c, e) /\ Open(c, Peer(e))

Trades(k, e, c, F) ==
    /\ wire' \in [Connection -> [End -> Seq(Message)]] /\ F \in Seq(Message)
    /\ wire'[k][e] = Tail(wire[k][e])
    /\ wire'[c][Peer(e)] = wire[c][Peer(e)] \o F
    /\ \A j \in Connection, d \in End :
          (j # k \/ d # e) /\ (j # c \/ d # Peer(e)) => wire'[j][d] = wire[j][d]
    /\ F # <<>> => Open(c, e) /\ Open(c, Peer(e))

LEMMA Peers ==
    /\ Peer(Client) = Server /\ Peer(Server) = Client /\ Client # Server
    /\ \A e \in End : Peer(e) \in End /\ Peer(e) # e /\ Peer(Peer(e)) = e
    /\ Client \in End /\ Server \in End
    /\ \A e \in End : e = Client \/ e = Server
BY DEF Peer

LEMMA SentTyped ==
    ASSUME NEW c, NEW e \in End, NEW F \in Seq(Message)
    PROVE  /\ Sent(c, e, F) \in Seq(Message)
           /\ Sent(c, e, F) # <<>> => Open(c, e) /\ Open(c, Peer(e))
           /\ Sent(c, e, F) = F \/ Sent(c, e, F) = <<>>
BY Singles DEF Sent

LEMMA PushesSent ==
    ASSUME TypeOK, NEW c \in Connection, NEW e \in End, NEW F \in Seq(Message),
           Send(c, e, F)
    PROVE  Pushes(c, e, Sent(c, e, F))
<1>. DEFINE S == Sent(c, e, F)
            p == Peer(e)
<1>1. S \in Seq(Message) /\ p \in End
  BY SentTyped, Peers
<1>2. S # <<>> => Open(c, e) /\ Open(c, p)
  BY SentTyped
<1>3. wire' = [wire EXCEPT ![c][p] = wire[c][p] \o S]
  BY DEF Send
<1>. HIDE DEF S, p
<1>4. wire \in [Connection -> [End -> Seq(Message)]]
  BY DEF TypeOK
<1>5. wire[c][p] \o S \in Seq(Message)
  <2>1. wire[c][p] \in Seq(Message)
    BY <1>1, <1>4
  <2>. QED BY <1>1, <2>1, ConcatProperties
<1>6. /\ wire' \in [Connection -> [End -> Seq(Message)]]
      /\ wire'[c][p] = wire[c][p] \o S
      /\ \A j \in Connection, d \in End : j # c \/ d # p => wire'[j][d] = wire[j][d]
  <2>. DEFINE q == wire[c][p] \o S
  <2>. HIDE DEF q
  <2>. QED BY <1>1, <1>3, <1>4, <1>5 DEF q
<1>. QED BY <1>1, <1>2, <1>6 DEF Pushes, S, p

LEMMA TradesSent ==
    ASSUME TypeOK, NEW k \in Connection, NEW e \in End, NEW F \in Seq(Message),
           wire[k][e] # <<>>, TakeAndSend(k, e, F)
    PROVE  Trades(k, e, k, Sent(k, e, F))
<1>. DEFINE S == Sent(k, e, F)
            p == Peer(e)
<1>1. S \in Seq(Message) /\ p \in End /\ p # e
  BY SentTyped, Peers
<1>2. S # <<>> => Open(k, e) /\ Open(k, p)
  BY SentTyped
<1>3. wire' = [wire EXCEPT ![k] = [d \in End |-> IF d = e THEN Tail(wire[k][e])
                                                 ELSE wire[k][d] \o S]]
  BY DEF TakeAndSend
<1>. HIDE DEF S
<1>4. wire \in [Connection -> [End -> Seq(Message)]]
  BY DEF TypeOK
<1>5. /\ \A d \in End : wire[k][d] \in Seq(Message)
      /\ Tail(wire[k][e]) \in Seq(Message)
  BY <1>4, HeadTailProperties
<1>6. \A d \in End : wire[k][d] \o S \in Seq(Message)
  BY <1>1, <1>5, ConcatProperties
<1>7. \A d \in End : d = e \/ d = p
  BY DEF Peer
<1>. DEFINE t == Tail(wire[k][e])
            v == [d \in End |-> IF d = e THEN t ELSE wire[k][d] \o S]
<1>8. v \in [End -> Seq(Message)] /\ v[e] = t /\ v[p] = wire[k][p] \o S
  BY <1>1, <1>5, <1>6
<1>9. wire' = [wire EXCEPT ![k] = v]
  BY <1>3
<1>. HIDE DEF v, t, p
<1>10. /\ wire' \in [Connection -> [End -> Seq(Message)]]
       /\ wire'[k] = v
       /\ \A j \in Connection : j # k => wire'[j] = wire[j]
  BY <1>4, <1>8, <1>9
<1>. QED BY <1>1, <1>2, <1>7, <1>8, <1>10 DEF Trades, t, S, p

LEMMA TradesApart ==
    ASSUME TypeOK, NEW k \in Connection, NEW e \in End, NEW c \in Connection,
           NEW F \in Seq(Message), wire[k][e] # <<>>,
           wire' = [[wire EXCEPT ![k][e] = Tail(@)] EXCEPT ![c][Peer(e)] =
                       @ \o Sent(c, e, F)]
    PROVE  Trades(k, e, c, Sent(c, e, F))
<1>. DEFINE S == Sent(c, e, F)
            p == Peer(e)
            t == Tail(wire[k][e])
            w == [wire EXCEPT ![k][e] = t]
<1>1. S \in Seq(Message) /\ p \in End /\ p # e
  BY SentTyped, Peers
<1>2. S # <<>> => Open(c, e) /\ Open(c, p)
  BY SentTyped
<1>3. wire' = [w EXCEPT ![c][p] = w[c][p] \o S]
  OBVIOUS
<1>. HIDE DEF S, p
<1>4. wire \in [Connection -> [End -> Seq(Message)]]
  BY DEF TypeOK
<1>5. t \in Seq(Message)
  BY <1>4, HeadTailProperties
<1>. HIDE DEF t
<1>6. /\ w \in [Connection -> [End -> Seq(Message)]] /\ w[k][e] = t
      /\ \A j \in Connection, d \in End : j # k \/ d # e => w[j][d] = wire[j][d]
  BY <1>4, <1>5
<1>. HIDE DEF w
<1>. DEFINE q == w[c][p] \o S
<1>7. q \in Seq(Message) /\ w[c][p] = wire[c][p]
  <2>1. w[c][p] \in Seq(Message)
    BY <1>1, <1>6
  <2>. QED BY <1>1, <1>6, <2>1, ConcatProperties
<1>8. wire' = [w EXCEPT ![c][p] = q] /\ q = wire[c][p] \o S
  BY <1>3, <1>7
<1>. HIDE DEF q
<1>9. /\ wire' \in [Connection -> [End -> Seq(Message)]] /\ wire'[c][p] = q
      /\ \A j \in Connection, d \in End :
            j # c \/ d # p => wire'[j][d] = w[j][d]
  <2>1. w \in [Connection -> [End -> Seq(Message)]]
    BY <1>6
  <2>2. wire' = [w EXCEPT ![c][p] = q] /\ q \in Seq(Message) /\ p \in End
    BY <1>1, <1>7, <1>8
  <2>3. w[c] \in [End -> Seq(Message)]
    BY <2>1
  <2>. DEFINE v == [w[c] EXCEPT ![p] = q]
  <2>4. /\ v \in [End -> Seq(Message)] /\ v[p] = q
        /\ \A d \in End : d # p => v[d] = w[c][d]
    BY <2>2, <2>3
  <2>5. wire' = [w EXCEPT ![c] = v]
    BY <2>2
  <2>. HIDE DEF v
  <2>6. /\ wire' \in [Connection -> [End -> Seq(Message)]] /\ wire'[c] = v
        /\ \A j \in Connection : j # c => wire'[j] = w[j]
    BY <2>1, <2>4, <2>5
  <2>. QED BY <2>4, <2>6
<1>10. /\ wire'[k][e] = t
       /\ \A j \in Connection, d \in End :
             (j # k \/ d # e) /\ (j # c \/ d # p) => wire'[j][d] = wire[j][d]
  <2>1. wire'[k][e] = w[k][e]
    BY <1>1, <1>9, ZenonT(60)
  <2>2. ASSUME NEW j \in Connection, NEW d \in End,
               j # k \/ d # e, j # c \/ d # p
        PROVE  wire'[j][d] = wire[j][d]
    <3>1. wire'[j][d] = w[j][d]
      BY <1>9, <2>2, ZenonT(60)
    <3>2. w[j][d] = wire[j][d]
      BY <1>6, <2>2
    <3>. QED BY <3>1, <3>2
  <2>. QED BY <1>6, <2>1, <2>2
<1>. QED BY <1>1, <1>2, <1>8, <1>9, <1>10 DEF Trades, t, S, p

LEMMA WithinPushes ==
    ASSUME NEW A, NEW B, Within(wire, A, B), NEW c \in Connection, NEW e \in End,
           NEW F, Pushes(c, e, F),
           e = Client => F \in Seq(A), e = Server => F \in Seq(B)
    PROVE  Within(wire', A, B)
<1>1. CASE e = Client
  <2>1. wire[c][Server] \o F \in Seq(A)
    BY <1>1, ConcatProperties DEF Within
  <2>. QED BY <1>1, <2>1, Peers DEF Within, Pushes
<1>2. CASE e = Server
  <2>1. wire[c][Client] \o F \in Seq(B)
    BY <1>2, ConcatProperties DEF Within
  <2>. QED BY <1>2, <2>1, Peers DEF Within, Pushes
<1>. QED BY <1>1, <1>2

LEMMA WithinTrades ==
    ASSUME NEW A, NEW B, Within(wire, A, B), NEW k \in Connection,
           NEW c \in Connection, NEW e \in End, NEW F, wire[k][e] # <<>>,
           Trades(k, e, c, F), e = Client => F \in Seq(A),
           e = Server => F \in Seq(B)
    PROVE  Within(wire', A, B)
<1>1. CASE e = Client
  <2>1. wire[c][Server] \o F \in Seq(A)
    BY <1>1, ConcatProperties DEF Within
  <2>2. Tail(wire[k][Client]) \in Seq(B)
    BY <1>1, HeadTailProperties DEF Within
  <2>. QED BY <1>1, <2>1, <2>2, Peers DEF Within, Trades
<1>2. CASE e = Server
  <2>1. wire[c][Client] \o F \in Seq(B)
    BY <1>2, ConcatProperties DEF Within
  <2>2. Tail(wire[k][Server]) \in Seq(A)
    BY <1>2, HeadTailProperties DEF Within
  <2>. QED BY <1>2, <2>1, <2>2, Peers DEF Within, Trades
<1>. QED BY <1>1, <1>2

LEMMA WithinWidens ==
    ASSUME NEW A, NEW B, NEW C, NEW D, A \subseteq C, B \subseteq D, NEW w,
           Within(w, A, B)
    PROVE  Within(w, C, D)
<1>1. \A q \in Seq(A) : q \in Seq(C)
  BY SeqMonotonic
<1>2. \A q \in Seq(B) : q \in Seq(D)
  BY SeqMonotonic
<1>. QED BY <1>1, <1>2 DEF Within

\* What may be said of a connection from what one end knows of it.
LEMMA Connections ==
    ASSUME TypeOK, StatusInv, NEW k \in Connection
    PROVE  /\ attempts \in Connection /\ attempts \in Nat /\ k \in Nat
           /\ \A e \in End : current[e] \in Connection
           /\ Open(k, Client) => k = attempts
           /\ Open(k, Client) /\ status[k][Client] # "waiting" =>
                /\ current[Client] = k /\ current[Server] = k
                /\ status[k][Server] # "waiting"
           /\ Open(k, Server) /\ status[k][Server] = "waiting" =>
                /\ k = attempts /\ current[Server] = attempts - 1
                /\ current[Server] # attempts
                /\ ~(Open(k, Client) /\ current[Client] = k)
           /\ Open(k, Server) /\ status[k][Server] # "waiting" /\ ~overlapped
                => k = current[Server]
<1>1. /\ attempts \in Connection /\ attempts \in Nat /\ k \in Nat
      /\ \A e \in End : current[e] \in Connection /\ current[e] \in Nat
      /\ \A j \in Connection, e \in End :
            status[j][e] \in {"waiting", "attached", "adopted", "closed"}
  <2>1. /\ attempts \in Connection /\ \A e \in End : current[e] \in Connection
        /\ \A j \in Connection, e \in End :
              status[j][e] \in {"waiting", "attached", "adopted", "closed"}
    BY SMTT(60) DEF TypeOK
  <2>2. Connection \subseteq Nat
    BY DEF Connection
  <2>. QED BY <2>1, <2>2
<1>2. Open(k, Client) => k = attempts
  BY <1>1 DEF Open, StatusInv
<1>3. ASSUME Open(k, Client), status[k][Client] # "waiting"
      PROVE  /\ current[Client] = k /\ current[Server] = k
             /\ status[k][Server] # "waiting"
  <2>1. status[attempts][Client] = "attached" /\ k = attempts
    BY <1>1, <1>2, <1>3 DEF Open, StatusInv
  <2>. QED BY <2>1 DEF StatusInv
<1>4. ASSUME Open(k, Server), status[k][Server] = "waiting"
      PROVE  /\ k = attempts /\ current[Server] = attempts - 1
             /\ current[Server] # attempts
             /\ ~(Open(k, Client) /\ current[Client] = k)
  <2>1. k = attempts
    BY <1>1, <1>4 DEF Open, StatusInv
  <2>2. current[Server] # attempts
    BY <1>4, <2>1 DEF StatusInv
  <2>3. Open(k, Client) /\ current[Client] = k => status[k][Client] # "waiting"
    BY DEF StatusInv
  <2>. QED BY <1>1, <1>3, <1>4, <2>1, <2>2, <2>3 DEF StatusInv
<1>5. ASSUME Open(k, Server), status[k][Server] # "waiting", ~overlapped
      PROVE  k = current[Server]
  <2>1. status[k][Server] = "attached" /\ k <= attempts
    BY <1>1, <1>5 DEF Open, StatusInv
  <2>2. ~(k < current[Server])
    BY <1>5, <2>1 DEF StatusInv
  <2>3. CASE k = attempts
    BY <2>1, <2>3 DEF StatusInv
  <2>4. CASE k # attempts
    BY <1>1, <2>1, <2>2, <2>4 DEF StatusInv
  <2>. QED BY <2>3, <2>4
<1>. QED BY <1>1, <1>2, <1>3, <1>4, <1>5

LEMMA QuietPushes ==
    ASSUME TypeOK, QuietInv, NEW c \in Connection, NEW e \in End, NEW F,
           Pushes(c, e, F), UNCHANGED <<attempts, status>>
    PROVE  QuietInv'
<1>. SUFFICES ASSUME NEW j \in Connection, NEW d \in End,
                     status[j][d] = "closed" \/ j > attempts
              PROVE  wire'[j][d] = <<>>
  BY DEF QuietInv
<1>1. wire[j][d] = <<>>
  BY DEF QuietInv
<1>2. CASE j = c /\ d = Peer(e)
  <2>1. F = <<>>
    <3>1. j \in Nat /\ attempts \in Nat
      BY DEF TypeOK, Connection
    <3>2. ~Open(c, Peer(e))
      BY <1>2, <3>1 DEF Open
    <3>. QED BY <3>2 DEF Pushes
  <2>. QED BY <1>1, <1>2, <2>1 DEF Pushes
<1>3. CASE ~(j = c /\ d = Peer(e))
  BY <1>1, <1>3 DEF Pushes
<1>. QED BY <1>2, <1>3

LEMMA QuietTrades ==
    ASSUME TypeOK, QuietInv, NEW k \in Connection, NEW c \in Connection,
           NEW e \in End, NEW F, Trades(k, e, c, F), Open(k, e),
           UNCHANGED attempts,
           \A j \in Connection, d \in End :
              status'[j][d] = "closed" => status[j][d] = "closed"
    PROVE  QuietInv'
<1>. SUFFICES ASSUME NEW j \in Connection, NEW d \in End,
                     status[j][d] = "closed" \/ j > attempts
              PROVE  wire'[j][d] = <<>>
  BY DEF QuietInv
<1>1. wire[j][d] = <<>> /\ j \in Nat /\ attempts \in Nat /\ k \in Nat
  BY DEF QuietInv, TypeOK, Connection
<1>2. ~(j = k /\ d = e)
  BY <1>1 DEF Open
<1>3. CASE j = c /\ d = Peer(e)
  <2>1. F = <<>>
    <3>1. ~Open(c, Peer(e))
      BY <1>1, <1>3 DEF Open
    <3>. QED BY <3>1 DEF Trades
  <2>. QED BY <1>1, <1>3, <2>1 DEF Trades
<1>4. CASE ~(j = c /\ d = Peer(e))
  BY <1>1, <1>2, <1>4 DEF Trades
<1>. QED BY <1>3, <1>4

LEMMA HandshakeKept ==
    ASSUME TypeOK, HandshakeInv, UNCHANGED <<attempts, status, current, overlapped>>,
           status[attempts][Server] = "waiting" =>
              /\ \A d \in End : wire'[attempts][d] = wire[attempts][d]
              /\ firstAvailable'[Client] = firstAvailable[Client]
              /\ received'[Client] = received[Client],
           status[attempts][Client] = "waiting" /\ current[Server] = attempts =>
              /\ wire'[attempts][Server] = wire[attempts][Server]
              /\ overlapped \/ received'[Server] = received[Server],
           wire'[attempts][Client] \in Seq(Offer)
    PROVE  HandshakeInv'
<1>1. Offer \subseteq Offer'
  BY DEF Offer
<1>2. wire'[attempts][Client] \in Seq(Offer')
  BY <1>1, SeqMonotonic
<1>. QED BY <1>2 DEF HandshakeInv

LEMMA HandshakePushes ==
    ASSUME TypeOK, StatusInv, HandshakeInv, NEW e \in End, NEW F \in Seq(Offer),
           Pushes(current[e], e, F),
           UNCHANGED <<attempts, status, current, overlapped, firstAvailable,
                       received>>
    PROVE  HandshakeInv'
<1>. DEFINE c == current[e]
<1>1. c \in Connection /\ attempts \in Connection
  BY DEF TypeOK
<1>2. status[c][e] # "waiting"
  BY DEF StatusInv
<1>3. status[attempts][Server] = "waiting" =>
         \A d \in End : wire'[attempts][d] = wire[attempts][d]
  <2>. SUFFICES ASSUME status[attempts][Server] = "waiting", NEW d \in End,
                       wire'[attempts][d] # wire[attempts][d]
                PROVE  FALSE
    OBVIOUS
  <2>1. c = attempts /\ F # <<>>
    <3>1. c = attempts /\ d = Peer(e)
      BY <1>1 DEF Pushes
    <3>2. wire[attempts][d] \in Seq(Message)
      BY <1>1, SMTT(60) DEF TypeOK
    <3>3. wire[attempts][d] \o <<>> = wire[attempts][d]
      BY <3>2, ConcatEmptySeq
    <3>. QED BY <3>1, <3>3 DEF Pushes
  <2>2. Open(attempts, Client) /\ Open(attempts, Server) /\ e = Client
    BY <1>2, <2>1, Peers DEF Pushes
  <2>. QED BY <1>1, <2>1, <2>2, Connections
<1>4. status[attempts][Client] = "waiting" =>
         wire'[attempts][Server] = wire[attempts][Server]
  <2>. SUFFICES ASSUME status[attempts][Client] = "waiting",
                       wire'[attempts][Server] # wire[attempts][Server]
                PROVE  FALSE
    OBVIOUS
  <2>1. c = attempts /\ e = Client
    BY <1>1, Peers DEF Pushes
  <2>. QED BY <1>2, <2>1
<1>5. wire'[attempts][Client] \in Seq(Offer)
  <2>1. wire[attempts][Client] \in Seq(Offer)
    BY DEF HandshakeInv
  <2>2. CASE c = attempts /\ Peer(e) = Client
    <3>1. wire[attempts][Client] \o F \in Seq(Offer)
      BY <2>1, ConcatProperties
    <3>. QED BY <2>2, <3>1 DEF Pushes
  <2>3. CASE ~(c = attempts /\ Peer(e) = Client)
    BY <1>1, <2>1, <2>3 DEF Pushes
  <2>. QED BY <2>2, <2>3
<1>. QED BY <1>3, <1>4, <1>5, HandshakeKept

LEMMA HandshakeTrades ==
    ASSUME TypeOK, StatusInv, HandshakeInv, NEW k \in Connection, NEW e \in End,
           NEW F \in Seq(Offer), NEW c \in Connection, c = current[e] \/ F = <<>>,
           Trades(k, e, c, F), Open(k, e), wire[k][e] # <<>>,
           status[k][e] # "waiting",
           UNCHANGED <<attempts, status, current, overlapped>>,
           e = Client => received'[Server] = received[Server],
           e = Server => /\ firstAvailable'[Client] = firstAvailable[Client]
                         /\ received'[Client] = received[Client]
    PROVE  HandshakeInv'
<1>1. /\ c \in Connection /\ attempts \in Connection
      /\ \A j \in Connection, d \in End :
            wire[j][d] \in Seq(Message) /\ wire[j][d] \o <<>> = wire[j][d]
  <2>1. \A j \in Connection, d \in End : wire[j][d] \in Seq(Message)
    BY SMTT(60) DEF TypeOK
  <2>. QED BY <2>1, ConcatEmptySeq DEF TypeOK
<1>2. status[current[e]][e] # "waiting" /\ current[e] \in Connection
  BY DEF StatusInv, TypeOK
<1>3. status[attempts][Server] = "waiting" =>
         /\ \A d \in End : wire'[attempts][d] = wire[attempts][d]
         /\ firstAvailable'[Client] = firstAvailable[Client]
         /\ received'[Client] = received[Client]
  <2>. SUFFICES ASSUME status[attempts][Server] = "waiting"
                PROVE  /\ \A d \in End : wire'[attempts][d] = wire[attempts][d]
                       /\ e = Server
    OBVIOUS
  <2>1. e = Server
    <3>1. e = Client => k = attempts /\ status[k][Server] # "waiting"
      BY Connections
    <3>. QED BY <3>1, Peers
  <2>2. k # attempts
    BY <2>1
  <2>3. wire'[attempts][Client] = wire[attempts][Client]
    <3>1. CASE F = <<>>
      BY <1>1, <2>1, <2>2, <3>1, Peers DEF Trades
    <3>2. CASE F # <<>>
      <4>1. c # attempts
        BY <1>2, <2>1, <3>2
      <4>. QED BY <1>1, <2>1, <2>2, <4>1, Peers DEF Trades
    <3>. QED BY <3>1, <3>2
  <2>4. wire'[attempts][Server] = wire[attempts][Server]
    BY <1>1, <2>1, <2>2, Peers DEF Trades
  <2>. QED BY <2>1, <2>3, <2>4, Peers
<1>4. status[attempts][Client] = "waiting" /\ current[Server] = attempts =>
         /\ wire'[attempts][Server] = wire[attempts][Server]
         /\ overlapped \/ received'[Server] = received[Server]
  <2>. SUFFICES ASSUME status[attempts][Client] = "waiting",
                       current[Server] = attempts
                PROVE  /\ wire'[attempts][Server] = wire[attempts][Server]
                       /\ overlapped \/ received'[Server] = received[Server]
    OBVIOUS
  <2>1. e = Server
    <3>1. e = Client => k = attempts
      BY Connections
    <3>. QED BY <3>1, Peers
  <2>2. wire[attempts][Server] = <<>>
    BY DEF HandshakeInv
  <2>3. k # attempts
    BY <2>1, <2>2
  <2>4. overlapped
    BY <2>1, <2>3, Connections
  <2>5. wire'[attempts][Server] = wire[attempts][Server]
    BY <1>1, <2>1, <2>3, Peers DEF Trades
  <2>. QED BY <2>4, <2>5
<1>5. wire'[attempts][Client] \in Seq(Offer)
  <2>1. wire[attempts][Client] \in Seq(Offer)
    BY DEF HandshakeInv
  <2>2. CASE k = attempts /\ e = Client
    <3>1. Tail(wire[attempts][Client]) \in Seq(Offer)
      BY <2>1, <2>2, HeadTailProperties
    <3>. QED BY <2>2, <3>1 DEF Trades
  <2>3. CASE c = attempts /\ e = Server
    <3>1. wire[attempts][Client] \o F \in Seq(Offer)
      BY <2>1, ConcatProperties
    <3>. QED BY <2>3, <3>1, Peers DEF Trades
  <2>4. CASE ~(k = attempts /\ e = Client) /\ ~(c = attempts /\ e = Server)
    <3>1. wire'[attempts][Client] = wire[attempts][Client]
      BY <1>1, <2>4, Peers DEF Trades
    <3>. QED BY <2>1, <3>1
  <2>. QED BY <2>2, <2>3, <2>4
<1>. QED BY <1>3, <1>4, <1>5, HandshakeKept

-----------------------------------------------------------------------------
(* Steps that lose messages or connections, and store nothing              *)

FadingWires ==
    \A j \in Connection, d \in End :
        /\ status'[j][d] \in {status[j][d], "closed"}
        /\ j > attempts => status'[j][d] = status[j][d]
        /\ status'[j][d] = "closed" \/ j > attempts => wire'[j][d] = <<>>
        /\ Faded(wire[j][d], wire'[j][d])
        /\ (\A b \in End : status'[j][b] # "closed")
             => Idle(wire[j][d], wire'[j][d])

FadingHandshake ==
    /\ status'[attempts][Server] = "waiting" =>
          \A d \in End : Cut(wire[attempts][d], wire'[attempts][d])
    /\ status'[attempts][Client] = "waiting" /\ current[Server] = attempts =>
          Cut(wire[attempts][Server], wire'[attempts][Server])

FadingTimers ==
    /\ reconnecting' => \/ reconnecting
                        \/ /\ status[attempts][Client] = "attached"
                           /\ status'[attempts][Client] = "closed"
    /\ \/ timers' \subseteq timers /\ timeoutId' = timeoutId
       \/ \E k \in Connection :
             /\ Open(k, Server) /\ status[k][Server] = "attached"
             /\ status'[k][Server] = "closed"
             /\ timers' = timers \cup {k} /\ timeoutId' = k

Fades == /\ TypeOK' /\ FadingWires /\ FadingHandshake /\ FadingTimers
         /\ UNCHANGED <<attempts, current, storeVars, historyVars>>

LEMMA CutShort ==
    ASSUME NEW m \in Message
    PROVE  /\ \A r : Cut(<<>>, r) => r = <<>>
           /\ \A r : Cut(<<m>>, r) => r \in {<<>>, <<m>>}
<1>1. \A r : Cut(<<>>, r) => r = <<>>
  BY SubSeqEmpty DEF Cut
<1>2. <<m>> \in Seq(Message) /\ Len(<<m>>) = 1
  OBVIOUS
<1>3. SubSeq(<<m>>, 1, 0) = <<>> /\ SubSeq(<<m>>, 1, 1) = <<m>>
  <2>1. SubSeq(<<m>>, 1, Len(<<m>>)) = <<m>>
    BY <1>2, SubSeqFull
  <2>. QED BY <1>2, <2>1, SubSeqEmpty
<1>4. \A n \in 0 .. 1 : n = 0 \/ n = 1
  OBVIOUS
<1>5. \A r : Cut(<<m>>, r) => r \in {<<>>, <<m>>}
  BY <1>2, <1>3, <1>4 DEF Cut
<1>. QED BY <1>1, <1>5

LEMMA FadesStatus ==
    ASSUME TypeOK, StatusInv, Fades
    PROVE  StatusInv' /\ QuietInv'
<1>. USE DEF Fades, FadingWires, historyVars
<1>1. /\ attempts \in Connection /\ \A e \in End : current[e] \in Connection
      /\ UNCHANGED <<attempts, current, overlapped>>
  BY DEF TypeOK
<1>2. \A j \in Connection, d \in End :
        /\ status'[j][d] = status[j][d] \/ status'[j][d] = "closed"
        /\ j > attempts => status'[j][d] = status[j][d]
  OBVIOUS
<1>3. \A k \in Connection :
         /\ k < attempts' => /\ status'[k][Client] = "closed"
                             /\ status'[k][Server] # "waiting"
         /\ k > attempts' => \A e \in End : status'[k][e] = "waiting"
         /\ \A e \in End : status'[k][e] # "adopted"
  BY <1>1, <1>2 DEF StatusInv
<1>4. /\ \A e \in End : status'[current'[e]][e] # "waiting"
      /\ status'[attempts'][Server] = "attached" => current'[Server] = attempts'
      /\ status'[attempts'][Client] = "attached" =>
            current'[Client] = attempts' /\ current'[Server] = attempts'
  BY <1>1, <1>2 DEF StatusInv
<1>5. reconnecting' => /\ status'[attempts'][Client] = "closed"
                       /\ current'[Server] = attempts'
  BY <1>1, <1>2 DEF StatusInv, FadingTimers
<1>6. ~overlapped' => \A k \in Connection :
                         k < current'[Server] => status'[k][Server] = "closed"
  BY <1>1, <1>2 DEF StatusInv
<1>7. StatusInv'
  BY <1>1, <1>3, <1>4, <1>5, <1>6 DEF StatusInv
<1>8. QuietInv'
  BY <1>1 DEF QuietInv
<1>. QED BY <1>7, <1>8

LEMMA FadesHandshake ==
    ASSUME TypeOK, HandshakeInv, Fades
    PROVE  HandshakeInv'
<1>. USE DEF Fades, historyVars, storeVars
<1>1. /\ attempts \in Connection /\ UNCHANGED <<attempts, current, overlapped>>
      /\ UNCHANGED <<firstAvailable, received>>
      /\ firstAvailable[Client] \in Nat /\ received[Client] \in Nat
  BY DEF TypeOK
<1>2. \A d \in End : /\ status'[attempts][d] \in {status[attempts][d], "closed"}
                     /\ Faded(wire[attempts][d], wire'[attempts][d])
  BY <1>1 DEF FadingWires
<1>3. Offer \subseteq Offer'
  BY <1>1, <1>2 DEF Offer
<1>4. wire'[attempts][Client] \in Seq(Offer')
  <2>1. Error \in Offer
    BY Messages DEF Offer
  <2>2. wire[attempts][Client] \in Seq(Offer)
    BY DEF HandshakeInv
  <2>3. wire'[attempts][Client] \in Seq(Offer)
    BY <1>2, <2>1, <2>2, FadedTyped
  <2>. QED BY <1>3, <2>3, SeqMonotonic
<1>5. status'[attempts][Server] = "waiting" =>
          /\ wire'[attempts][Client] = <<>>
          /\ wire'[attempts][Server] \in
               {<<>>, <<ResumeFrame(firstAvailable[Client], received[Client])>>}
  <2>. SUFFICES ASSUME status'[attempts][Server] = "waiting"
                PROVE  /\ wire'[attempts][Client] = <<>>
                       /\ wire'[attempts][Server] \in
                            {<<>>, <<ResumeFrame(firstAvailable[Client],
                                                 received[Client])>>}
    OBVIOUS
  <2>. DEFINE m == ResumeFrame(firstAvailable[Client], received[Client])
  <2>1. m \in Message
    BY <1>1, Messages
  <2>2. /\ wire[attempts][Client] = <<>>
        /\ wire[attempts][Server] = <<>> \/ wire[attempts][Server] = <<m>>
    BY <1>2 DEF HandshakeInv
  <2>3. \A d \in End : Cut(wire[attempts][d], wire'[attempts][d])
    BY DEF FadingHandshake
  <2>. HIDE DEF m
  <2>4. wire'[attempts][Client] = <<>>
    BY <2>1, <2>2, <2>3, CutShort
  <2>5. wire'[attempts][Server] \in {<<>>, <<m>>}
    BY <2>1, <2>2, <2>3, CutShort
  <2>. QED BY <2>4, <2>5 DEF m
<1>6. status'[attempts][Client] = "waiting" /\ current[Server] = attempts
         => wire'[attempts][Server] = <<>>
  BY <1>2, Messages, CutShort DEF HandshakeInv, FadingHandshake
<1>. QED BY <1>1, <1>4, <1>5, <1>6 DEF HandshakeInv

LEMMA FadesPositions ==
    ASSUME TypeOK, PositionsInv, Fades
    PROVE  PositionsInv'
<1>1. UNCHANGED <<firstAvailable, received, handled>>
  BY DEF Fades, storeVars
<1>2. Known' = Known /\ Under' = Under
  BY <1>1 DEF Known, Under
<1>3. Error \in Known /\ Error \in Under
  BY Messages DEF Known, Under, Positional
<1>4. \A k \in Connection, d \in End : Faded(wire[k][d], wire'[k][d])
  BY DEF Fades, FadingWires
<1>5. \A k \in Connection : /\ wire'[k][Server] \in Seq(Known)
                            /\ wire'[k][Client] \in Seq(Under)
  BY <1>3, <1>4, FadedTyped DEF PositionsInv, Within
<1>. QED BY <1>1, <1>2, <1>5 DEF PositionsInv, Within

LEMMA TypeFacts ==
    ASSUME TypeOK
    PROVE  /\ attempts \in Connection /\ \A e \in End : At(e) \in Connection
           /\ Connection \subseteq Nat
           /\ \A e \in End :
                 /\ current[e] \in Connection
                 /\ sent[e] \in {0} \cup Frame /\ sent[e] \in Nat
                 /\ shifted[e] \in {0} \cup Frame /\ shifted[e] \in Nat
                 /\ firstAvailable[e] \in Nat /\ received[e] \in Nat
                 /\ handled[e] \in Seq(Frame) /\ Len(handled[e]) \in Nat
           /\ \A k \in Connection, e \in End : wire[k][e] \in Seq(Message)
<1>1. \A e \in End : handled[e] \in Seq(Frame)
  BY DEF TypeOK
<1>2. \A e \in End : Len(handled[e]) \in Nat
  BY <1>1, LenProperties
<1>3. {0} \cup Frame \subseteq Nat
  BY Frames
<1>4. attempts \in Connection /\ \A e \in End : current[e] \in Connection
  BY DEF TypeOK
<1>5. \A e \in End : At(e) \in Connection
  BY <1>4 DEF At
<1>6. Connection \subseteq Nat
  BY DEF Connection
<1>7. \A e \in End : /\ sent[e] \in {0} \cup Frame /\ shifted[e] \in {0} \cup Frame
                     /\ firstAvailable[e] \in Nat /\ received[e] \in Nat
  BY DEF TypeOK
<1>8. \A k \in Connection, e \in End : wire[k][e] \in Seq(Message)
  BY SMTT(60) DEF TypeOK
<1>. QED BY <1>1, <1>2, <1>3, <1>4, <1>5, <1>6, <1>7, <1>8

\* A connection that fades carries what it carried, or has an end that is
\* closed.
LEMMA FadesStream ==
    ASSUME TypeOK, Fades, NEW e \in End
    PROVE  (Stream(e) => Stream(e)') /\ (Climb(e) => Climb(e)')
<1>. DEFINE k == At(e)
            p == Peer(e)
            q == wire[k][e]
            r == wire'[k][e]
            from == Len(handled[e])
            whole == Whole(k, p)
            top == sent[p]
<1>1. /\ k \in Connection /\ p \in End /\ e \in End
      /\ q \in Seq(Message) /\ top \in Nat /\ Len(handled[p]) \in Nat
  BY TypeFacts, Peers
<1>2. /\ UNCHANGED <<attempts, current, sent, shifted, firstAvailable, received,
                     handled>>
      /\ At(e)' = k
  BY DEF Fades, storeVars, historyVars, At
<1>3. /\ Faded(q, r)
      /\ (\A d \in End : status'[k][d] # "closed") => Idle(q, r)
      /\ \A d \in End : status'[k][d] \in {status[k][d], "closed"}
  BY <1>1 DEF Fades, FadingWires
<1>. DEFINE after == (\A d \in End : k <= attempts /\ status'[k][d] # "closed")
                        /\ current[p] = k
<1>4. after => whole /\ Idle(q, r)
  BY <1>3 DEF Whole, Open
<1>5. Flow(e) => FlowOf(r, from, after, top)
  <2>1. Flow(e) => FlowOf(q, from, whole, top)
    BY DEF Flow
  <2>. HIDE DEF q, r, from, whole, top, after
  <2>2. CASE after
    <3>1. Idle(q, r) /\ (after => whole)
      BY <1>4, <2>2
    <3>. QED BY <1>1, <2>1, <3>1, FlowIdles
  <2>3. CASE ~after
    <3>1. Flow(e) => FlowOf(r, from, FALSE, top)
      BY <1>1, <1>3, <2>1, FlowFades
    <3>. QED BY <2>3, <3>1 DEF FlowOf
  <2>. QED BY <2>2, <2>3
<1>6. Flow(e) => Flow(e)'
  BY <1>2, <1>5 DEF Flow, Whole, Open
<1>7. Stream(e) => Stream(e)'
  BY <1>2, <1>6 DEF Stream, Own, Store
<1>8. Climb(e) => ClimbOf(r, shifted[e], Len(handled[p]))
  BY <1>1, <1>3, ClimbFades DEF Climb
<1>9. Climb(e) => Climb(e)'
  BY <1>2, <1>8 DEF Climb
<1>. QED BY <1>7, <1>9

LEMMA FadesStreams ==
    ASSUME TypeOK, StreamInv, Fades
    PROVE  StreamInv'
<1>1. UNCHANGED <<overlapped, inconsistent>>
  BY DEF Fades, historyVars
<1>. QED BY <1>1, FadesStream DEF StreamInv

LEMMA FadesTimers ==
    ASSUME TypeOK, StatusInv, TimerInv, Fades
    PROVE  TimerInv'
<1>1. /\ UNCHANGED <<attempts, current, overlapped>>
      /\ current[Server] \in Connection
  BY DEF TypeOK, Fades, historyVars
<1>. SUFFICES ASSUME ~overlapped
              PROVE  /\ timers' \subseteq {timeoutId'}
                     /\ timers' # {} =>
                          ~(current[Server] <= attempts
                              /\ status'[current[Server]][Server] # "closed")
  BY <1>1 DEF TimerInv, Open
<1>2. /\ timers \subseteq {timeoutId}
      /\ timers # {} => ~Open(current[Server], Server)
  BY DEF TimerInv
<1>3. status'[current[Server]][Server] \in {status[current[Server]][Server], "closed"}
  BY <1>1 DEF Fades, FadingWires
<1>4. CASE timers' \subseteq timers /\ timeoutId' = timeoutId
  BY <1>2, <1>3, <1>4 DEF Open
<1>5. CASE \E k \in Connection :
              /\ Open(k, Server) /\ status[k][Server] = "attached"
              /\ status'[k][Server] = "closed"
              /\ timers' = timers \cup {k} /\ timeoutId' = k
  <2>1. PICK k \in Connection :
           /\ Open(k, Server) /\ status[k][Server] = "attached"
           /\ status'[k][Server] = "closed"
           /\ timers' = timers \cup {k} /\ timeoutId' = k
    BY <1>5
  <2>2. k = current[Server]
    BY <2>1, Connections
  <2>. QED BY <1>2, <2>1, <2>2
<1>. QED BY <1>4, <1>5 DEF Fades, FadingTimers

LEMMA FadesKeep == Inv /\ Fades => Inv'
<1>. SUFFICES ASSUME Inv, Fades PROVE Inv'
  OBVIOUS
<1>. USE DEF Inv
<1>1. StatusInv' /\ QuietInv'
  BY FadesStatus
<1>2. HandshakeInv' /\ PositionsInv'
  BY FadesHandshake, FadesPositions
<1>3. StreamInv' /\ TimerInv'
  BY FadesStreams, FadesTimers
<1>. QED BY <1>1, <1>2, <1>3 DEF Fades

\* A connection ends at e, from wires w.
Ended(w, k, e) ==
    /\ status' = [status EXCEPT ![k][e] = "closed"]
    /\ wire' \in [Connection -> [End -> Seq(Message)]]
    /\ wire'[k][e] = <<>> /\ Cut(w[k][Peer(e)], wire'[k][Peer(e)])
    /\ \A j \in Connection, d \in End : j # k => wire'[j][d] = w[j][d]

LEMMA EndsEnded ==
    ASSUME NEW w \in [Connection -> [End -> Seq(Message)]],
           NEW k \in Connection, NEW e \in End, Ends(w, k, e)
    PROVE  Ended(w, k, e)
<1>. DEFINE p == Peer(e)
<1>1. p \in End /\ p # e
  BY Peers
<1>2. PICK rest \in 0 .. Len(w[k][p]) :
         wire' = [w EXCEPT ![k] = [d \in End |-> IF d = e THEN <<>>
                                                 ELSE SubSeq(w[k][d], 1, rest)]]
  BY DEF Ends
<1>. HIDE DEF p
<1>. DEFINE v == [d \in End |-> IF d = e THEN <<>> ELSE SubSeq(w[k][d], 1, rest)]
<1>3. \A d \in End : d = e \/ d = p
  BY DEF p, Peer
<1>4. w[k][p] \in Seq(Message) /\ Cut(w[k][p], SubSeq(w[k][p], 1, rest))
  <2>1. w[k][p] \in Seq(Message)
    BY <1>1
  <2>. QED BY <1>2, <2>1, Messages, CutOnce
<1>5. SubSeq(w[k][p], 1, rest) \in Seq(Message) /\ <<>> \in Seq(Message)
  BY <1>4, CutTyped, Singles
<1>6. v \in [End -> Seq(Message)] /\ v[e] = <<>> /\ v[p] = SubSeq(w[k][p], 1, rest)
  BY <1>1, <1>3, <1>5
<1>7. wire' = [w EXCEPT ![k] = v]
  BY <1>2
<1>. HIDE DEF v
<1>8. /\ wire' \in [Connection -> [End -> Seq(Message)]] /\ wire'[k] = v
      /\ \A j \in Connection : j # k => wire'[j] = w[j]
  BY <1>6, <1>7
<1>. QED BY <1>4, <1>6, <1>8 DEF Ended, Ends, p

LEMMA StatusEnds ==
    ASSUME TypeOK, NEW k \in Connection, NEW e \in End, NEW x,
           status' = [status EXCEPT ![k][e] = x]
    PROVE  /\ status'[k][e] = x
           /\ \A j \in Connection, d \in End :
                 j # k \/ d # e => status'[j][d] = status[j][d]
           /\ x \in {"waiting", "attached", "adopted", "closed"} =>
                 status' \in [Connection -> [End -> {"waiting", "attached",
                                                     "adopted", "closed"}]]
<1>1. status \in [Connection -> [End -> {"waiting", "attached", "adopted", "closed"}]]
  BY DEF TypeOK
<1>. QED BY <1>1

\* From wires that have lost a first message or got an ERROR frame at most.
LEMMA EndedFades ==
    ASSUME TypeOK, QuietInv, NEW w, NEW k \in Connection, NEW e \in End,
           Ended(w, k, e), Open(k, e),
           \A j \in Connection, d \in End :
              /\ \/ Idle(wire[j][d], w[j][d])
                 \/ j = k /\ d = Peer(e) /\ w[j][d] = wire[j][d] \o <<Error>>
              /\ status[j][d] = "closed" \/ j > attempts => w[j][d] = <<>>
    PROVE  FadingWires
<1>. SUFFICES ASSUME NEW j \in Connection, NEW d \in End
              PROVE  /\ status'[j][d] \in {status[j][d], "closed"}
                     /\ j > attempts => status'[j][d] = status[j][d]
                     /\ status'[j][d] = "closed" \/ j > attempts
                          => wire'[j][d] = <<>>
                     /\ Faded(wire[j][d], wire'[j][d])
                     /\ (\A b \in End : status'[j][b] # "closed")
                          => Idle(wire[j][d], wire'[j][d])
  BY DEF FadingWires
<1>1. /\ status'[k][e] = "closed"
      /\ \A i \in Connection, b \in End :
            i # k \/ b # e => status'[i][b] = status[i][b]
  <2>1. status' = [status EXCEPT ![k][e] = "closed"]
    BY DEF Ended
  <2>. QED BY <2>1, StatusEnds, ZenonT(150)
<1>2. k <= attempts /\ ~(k > attempts) /\ wire[j][d] \in Seq(Message)
  <2>1. k \in Nat /\ attempts \in Nat /\ wire[j][d] \in Seq(Message)
    BY TypeFacts
  <2>. QED BY <2>1 DEF Open
<1>3. CASE j # k
  <2>1. wire'[j][d] = w[j][d] /\ Idle(wire[j][d], w[j][d])
    BY <1>3 DEF Ended
  <2>2. Faded(wire[j][d], wire'[j][d])
    BY <1>2, <2>1, IdleFades
  <2>. QED BY <1>1, <1>3, <2>1, <2>2
<1>4. CASE j = k /\ d = e
  <2>1. wire'[j][d] = <<>>
    BY <1>4 DEF Ended
  <2>2. Faded(wire[j][d], <<>>)
    BY <1>2, IdleFades DEF Idle
  <2>. QED BY <1>1, <1>2, <1>4, <2>1, <2>2
<1>5. CASE j = k /\ d = Peer(e)
  <2>1. Cut(w[j][d], wire'[j][d])
    BY <1>5 DEF Ended
  <2>2. Faded(wire[j][d], wire'[j][d])
    <3>1. CASE Idle(wire[j][d], w[j][d])
      BY <1>2, <2>1, <3>1, IdleFades
    <3>2. CASE w[j][d] = wire[j][d] \o <<Error>>
      <4>1. Idle(wire[j][d], wire[j][d])
        BY DEF Idle
      <4>. QED BY <1>2, <2>1, <3>2, <4>1, IdleFades
    <3>. QED BY <3>1, <3>2
  <2>3. d # e
    BY <1>5, Peers
  <2>4. status'[j][d] = "closed" => wire'[j][d] = <<>>
    <3>1. status'[j][d] = "closed" => w[j][d] = <<>>
      BY <1>1, <2>3
    <3>. QED BY <2>1, <3>1, Messages, CutShort
  <2>. QED BY <1>1, <1>2, <1>5, <2>2, <2>3, <2>4
<1>. QED BY <1>3, <1>4, <1>5 DEF Peer

LEMMA CloseHandled ==
    ASSUME TypeOK, NEW k \in Connection, NEW e \in End,
           HandleConnectionClose(k, e)
    PROVE  /\ keepAlive' \in [End -> {"running", "paused", "closed"}]
           /\ reconnecting' \in BOOLEAN
           /\ timers' \subseteq Connection /\ timeoutId' \in Connection
           /\ reconnecting' => reconnecting \/ e = Client
           /\ e = Client => timers' = timers /\ timeoutId' = timeoutId
           /\ e = Server => timers' = timers \cup {k} /\ timeoutId' = k
<1>. USE DEF HandleConnectionClose, TypeOK
<1>1. keepAlive' \in [End -> {"running", "paused", "closed"}]
  BY DEF Pause
<1>2. /\ reconnecting' \in BOOLEAN
      /\ reconnecting' => reconnecting \/ e = Client
  BY Peers, Zenon
<1>3. /\ timers' \subseteq Connection /\ timeoutId' \in Connection
      /\ e = Client => timers' = timers /\ timeoutId' = timeoutId
      /\ e = Server => timers' = timers \cup {k} /\ timeoutId' = k
  BY Peers
<1>. QED BY <1>1, <1>2, <1>3

\* The timers of an end that closes a connection.
LEMMA EndedTimers ==
    ASSUME TypeOK, StatusInv, NEW k \in Connection, NEW e \in End, Open(k, e),
           status' = [status EXCEPT ![k][e] = "closed"],
           IF status[k][e] = "attached" THEN HandleConnectionClose(k, e)
           ELSE UNCHANGED <<keepAlive, timerVars>>
    PROVE  /\ FadingTimers
           /\ status' \in [Connection -> [End -> {"waiting", "attached",
                                                  "adopted", "closed"}]]
           /\ keepAlive' \in [End -> {"running", "paused", "closed"}]
           /\ reconnecting' \in BOOLEAN
           /\ timers' \subseteq Connection /\ timeoutId' \in Connection
<1>1. /\ status'[k][e] = "closed"
      /\ status' \in [Connection -> [End -> {"waiting", "attached", "adopted",
                                             "closed"}]]
  BY StatusEnds, ZenonT(60)
<1>2. CASE status[k][e] = "attached"
  <2>1. HandleConnectionClose(k, e)
    BY <1>2
  <2>2. e = Client => k = attempts
    BY Connections
  <2>3. reconnecting' => \/ reconnecting
                         \/ /\ status[attempts][Client] = "attached"
                            /\ status'[attempts][Client] = "closed"
    BY <1>1, <1>2, <2>1, <2>2, CloseHandled
  <2>4. \/ timers' \subseteq timers /\ timeoutId' = timeoutId
        \/ /\ Open(k, Server) /\ status[k][Server] = "attached"
           /\ status'[k][Server] = "closed"
           /\ timers' = timers \cup {k} /\ timeoutId' = k
    BY <1>1, <1>2, <2>1, CloseHandled, Peers
  <2>. QED BY <1>1, <2>1, <2>3, <2>4, CloseHandled DEF FadingTimers
<1>3. CASE status[k][e] # "attached"
  <2>1. UNCHANGED <<keepAlive, reconnecting, timers, timeoutId>>
    BY <1>3 DEF timerVars
  <2>. QED BY <1>1, <2>1 DEF FadingTimers, TypeOK
<1>. QED BY <1>2, <1>3

LEMMA CloseFades ==
    ASSUME Inv, NEW k \in Connection, NEW e \in End, ConnectionCloses(k, e)
    PROVE  Fades
<1>. USE DEF Inv
<1>1. /\ Open(k, e) /\ Ends(wire, k, e)
      /\ UNCHANGED <<attempts, current, done, storeVars, session, historyVars>>
      /\ IF status[k][e] = "attached" THEN HandleConnectionClose(k, e)
         ELSE UNCHANGED <<keepAlive, timerVars>>
  BY DEF ConnectionCloses
<1>2. wire \in [Connection -> [End -> Seq(Message)]] /\ attempts \in Connection
  BY DEF TypeOK
<1>3. Ended(wire, k, e)
  BY <1>1, <1>2, EndsEnded
<1>4. FadingWires
  <2>1. \A j \in Connection, d \in End :
           /\ Idle(wire[j][d], wire[j][d])
           /\ status[j][d] = "closed" \/ j > attempts => wire[j][d] = <<>>
    BY DEF Idle, QuietInv
  <2>. QED BY <1>1, <1>3, <2>1, EndedFades
<1>5. status' = [status EXCEPT ![k][e] = "closed"]
  BY <1>3 DEF Ended
<1>6. FadingHandshake
  <2>1. \A d \in End : Cut(wire[attempts][d], wire'[attempts][d])
    <3>. SUFFICES ASSUME NEW d \in End
                  PROVE  Cut(wire[attempts][d], wire'[attempts][d])
      OBVIOUS
    <3>1. wire[attempts][d] \in Seq(Message)
      BY <1>2
    <3>2. Cut(wire[attempts][d], wire[attempts][d]) /\ Cut(wire[attempts][d], <<>>)
      BY <3>1, Messages, CutOnce
    <3>. QED BY <1>2, <1>3, <3>2 DEF Ended, Peer
  <2>. QED BY <2>1 DEF FadingHandshake
<1>7. TypeOK'
  <2>1. wire' \in [Connection -> [End -> Seq(Message)]]
    BY <1>3 DEF Ended
  <2>2. /\ status' \in [Connection -> [End -> {"waiting", "attached", "adopted",
                                               "closed"}]]
        /\ keepAlive' \in [End -> {"running", "paused", "closed"}]
        /\ reconnecting' \in BOOLEAN
        /\ timers' \subseteq Connection /\ timeoutId' \in Connection
    BY <1>1, <1>5, EndedTimers
  <2>3. UNCHANGED <<attempts, current, done, sent, shifted, firstAvailable,
                    received, handled, session, overlapped, inconsistent>>
    BY <1>1 DEF storeVars, historyVars
  <2>. QED BY <2>1, <2>2, <2>3 DEF TypeOK
<1>8. FadingTimers
  BY <1>1, <1>5, EndedTimers
<1>. QED BY <1>1, <1>4, <1>6, <1>7, <1>8 DEF Fades

\* The refusal of a handshake, by the server or by the client.
LEMMA RefusalFades ==
    ASSUME Inv, NEW k \in Connection, NEW e \in End, Open(k, e),
           Ends([wire EXCEPT ![k][Peer(e)] = @ \o Sent(k, e, <<Error>>)], k, e),
           FadingHandshake, done' \in [End -> BOOLEAN],
           UNCHANGED <<attempts, current, keepAlive, storeVars, timerVars, session,
                       historyVars>>
    PROVE  Fades
<1>. USE DEF Inv
<1>. DEFINE S == Sent(k, e, <<Error>>)
            p == Peer(e)
            q == wire[k][p] \o S
            w == [wire EXCEPT ![k][p] = q]
<1>1. /\ wire \in [Connection -> [End -> Seq(Message)]] /\ k \in Nat
      /\ attempts \in Nat /\ p \in End
  BY Peers DEF TypeOK, Connection
<1>2. /\ S \in Seq(Message)
      /\ S = <<>> \/ (S = <<Error>> /\ Open(k, e) /\ Open(k, p))
  <2>1. S \in Seq(Message) /\ (S # <<>> => Open(k, e) /\ Open(k, p))
    BY SentTyped, Singles
  <2>2. S = <<Error>> \/ S = <<>>
    BY SentTyped, Singles
  <2>. QED BY <2>1, <2>2
<1>3. /\ wire[k][p] \in Seq(Message) /\ q \in Seq(Message)
      /\ S = <<>> => q = wire[k][p]
  <2>1. wire[k][p] \in Seq(Message)
    BY <1>1
  <2>. QED BY <1>2, <2>1, ConcatProperties, ConcatEmptySeq
<1>4. Ends(w, k, e)
  OBVIOUS
<1>5. q = wire[k][p] \o <<Error>> \/ q = wire[k][p]
  BY <1>2, <1>3
<1>6. Open(k, p) \/ q = wire[k][p]
  BY <1>2, <1>3
<1>. HIDE DEF q, p
<1>7. /\ w \in [Connection -> [End -> Seq(Message)]] /\ w[k][p] = q
      /\ \A j \in Connection, d \in End : j # k \/ d # p => w[j][d] = wire[j][d]
  BY <1>1, <1>3
<1>. HIDE DEF w
<1>8. Ended(w, k, e)
  BY <1>4, <1>7, EndsEnded
<1>9. FadingWires
  <2>1. \A j \in Connection, d \in End :
           \/ Idle(wire[j][d], w[j][d])
           \/ j = k /\ d = p /\ w[j][d] = wire[j][d] \o <<Error>>
    BY <1>5, <1>7 DEF Idle
  <2>2. \A j \in Connection, d \in End :
           status[j][d] = "closed" \/ j > attempts => w[j][d] = <<>>
    BY <1>1, <1>6, <1>7, SMTT(60) DEF QuietInv, Open
  <2>3. \A j \in Connection, d \in End :
           /\ \/ Idle(wire[j][d], w[j][d])
              \/ j = k /\ d = Peer(e) /\ w[j][d] = wire[j][d] \o <<Error>>
           /\ status[j][d] = "closed" \/ j > attempts => w[j][d] = <<>>
    BY <2>1, <2>2 DEF p
  <2>. QED BY <1>8, <2>3, EndedFades, ZenonT(60)
<1>10. status' = [status EXCEPT ![k][e] = "closed"]
  BY <1>8 DEF Ended
<1>11. status' \in [Connection -> [End -> {"waiting", "attached", "adopted",
                                           "closed"}]]
  BY <1>10, StatusEnds
<1>12. TypeOK'
  BY <1>8, <1>11 DEF TypeOK, Ended, storeVars, historyVars, timerVars
<1>13. FadingTimers
  BY DEF FadingTimers, timerVars
<1>. QED BY <1>9, <1>12, <1>13 DEF Fades

LEMMA RefusesFades ==
    ASSUME Inv, NEW k \in Connection, RefusesResume(k) \/ RefusesHandshake(k)
    PROVE  Fades
<1>. USE DEF Inv
<1>1. attempts \in Connection /\ done \in [End -> BOOLEAN]
  BY DEF TypeOK
<1>2. CASE RefusesResume(k)
  <2>1. /\ Open(k, Server) /\ status[k][Server] = "waiting"
        /\ Ends([wire EXCEPT ![k][Peer(Server)] = @ \o Sent(k, Server, <<Error>>)],
                k, Server)
        /\ UNCHANGED <<attempts, current, done, keepAlive, storeVars, timerVars,
                       session, historyVars>>
    BY <1>2, Peers DEF RefusesResume
  <2>2. k = attempts /\ current[Server] # attempts
    BY <2>1, Connections
  <2>3. status'[k][Server] = "closed"
    BY <2>1, StatusEnds DEF Ends
  <2>4. FadingHandshake
    BY <2>2, <2>3 DEF FadingHandshake
  <2>. QED BY <1>1, <2>1, <2>4, RefusalFades
<1>3. CASE RefusesHandshake(k)
  <2>1. /\ Open(k, Client) /\ status[k][Client] = "waiting"
        /\ wire[k][Client] # <<>>
        /\ Ends([wire EXCEPT ![k][Peer(Client)] = @ \o Sent(k, Client, <<Error>>)],
                k, Client)
        /\ done' = [done EXCEPT ![Client] = TRUE]
        /\ UNCHANGED <<attempts, current, keepAlive, storeVars, timerVars,
                       session, historyVars>>
    BY <1>3, Peers DEF RefusesHandshake
  <2>2. k = attempts /\ status[k][Server] # "waiting"
    BY <2>1, Connections DEF HandshakeInv
  <2>3. /\ status'[k][Client] = "closed"
        /\ status'[k][Server] = status[k][Server]
    BY <2>1, StatusEnds, Peers DEF Ends
  <2>4. FadingHandshake
    BY <2>2, <2>3 DEF FadingHandshake
  <2>5. done' \in [End -> BOOLEAN]
    BY <1>1, <2>1
  <2>. QED BY <2>1, <2>4, <2>5, RefusalFades
<1>. QED BY <1>2, <1>3

LEMMA TakenApart ==
    ASSUME Inv, NEW k \in Connection, NEW e \in End, Open(k, e),
           wire[k][e] # <<>>, status[k][e] # "waiting", k = attempts
    PROVE  /\ status[attempts][Server] # "waiting"
           /\ ~(status[attempts][Client] = "waiting" /\ current[Server] = attempts)
<1>. USE DEF Inv
<1>1. CASE e = Client
  BY <1>1, Connections
<1>2. CASE e = Server
  BY <1>2 DEF HandshakeInv
<1>. QED BY <1>1, <1>2

\* A message that moves no chain is taken, and the first connection may close.
LEMMA TakenFades ==
    ASSUME Inv, NEW k \in Connection, NEW e \in End, Open(k, e),
           wire[k][e] # <<>>, status[k][e] # "waiting",
           Head(wire[k][e]) \in {Extension, Error},
           NEW w \in [Connection -> [End -> Seq(Message)]],
           w[k][e] = Tail(wire[k][e]),
           \A j \in Connection, d \in End : j # k \/ d # e => w[j][d] = wire[j][d],
           \/ Ended(w, 1, e) /\ Open(1, e)
           \/ wire' = w /\ UNCHANGED status,
           UNCHANGED attempts
    PROVE  FadingWires /\ FadingHandshake
<1>. USE DEF Inv
<1>1. /\ attempts \in Connection /\ 1 \in Connection /\ attempts \in Nat
      /\ k <= attempts /\ k \in Nat /\ k >= 1
      /\ \A j \in Connection, d \in End : wire[j][d] \in Seq(Message)
  <2>1. /\ attempts \in Connection /\ attempts \in Nat /\ k \in Nat
        /\ \A j \in Connection, d \in End : wire[j][d] \in Seq(Message)
    BY TypeFacts
  <2>2. k >= 1 /\ 1 \in Connection
    BY <2>1, BoundsAssumption DEF Connection
  <2>. QED BY <2>1, <2>2 DEF Open
<1>2. \A j \in Connection, d \in End :
         /\ Idle(wire[j][d], w[j][d])
         /\ status[j][d] = "closed" \/ j > attempts => w[j][d] = <<>>
  <2>. SUFFICES ASSUME NEW j \in Connection, NEW d \in End
                PROVE  /\ Idle(wire[j][d], w[j][d])
                       /\ status[j][d] = "closed" \/ j > attempts
                            => w[j][d] = <<>>
    OBVIOUS
  <2>1. CASE j = k /\ d = e
    <3>1. Idle(wire[j][d], w[j][d])
      BY <2>1 DEF Idle
    <3>2. ~(status[j][d] = "closed" \/ j > attempts)
      BY <1>1, <2>1 DEF Open
    <3>. QED BY <3>1, <3>2
  <2>2. CASE ~(j = k /\ d = e)
    <3>1. w[j][d] = wire[j][d]
      BY <2>2
    <3>. QED BY <3>1 DEF Idle, QuietInv
  <2>. QED BY <2>1, <2>2
<1>3. FadingWires
  <2>1. CASE Ended(w, 1, e) /\ Open(1, e)
    <3>1. \A j \in Connection, d \in End :
             /\ \/ Idle(wire[j][d], w[j][d])
                \/ j = 1 /\ d = Peer(e) /\ w[j][d] = wire[j][d] \o <<Error>>
             /\ status[j][d] = "closed" \/ j > attempts => w[j][d] = <<>>
      BY <1>2
    <3>. QED BY <1>1, <2>1, <3>1, EndedFades, ZenonT(150)
  <2>2. CASE wire' = w /\ UNCHANGED status
    <3>1. \A j \in Connection, d \in End : Faded(wire[j][d], w[j][d])
      BY <1>1, <1>2, IdleFades
    <3>. QED BY <1>2, <2>2, <3>1 DEF FadingWires
  <2>. QED BY <2>1, <2>2
<1>4. k # attempts => \A d \in End : Cut(wire[attempts][d], wire'[attempts][d])
  <2>. SUFFICES ASSUME k # attempts, NEW d \in End
                PROVE  Cut(wire[attempts][d], wire'[attempts][d])
    OBVIOUS
  <2>1. w[attempts][d] = wire[attempts][d] /\ attempts # 1
    BY <1>1
  <2>2. wire'[attempts][d] = w[attempts][d]
    BY <1>1, <2>1 DEF Ended
  <2>. QED BY <1>1, <2>1, <2>2, Messages, CutOnce, ZenonT(150)
<1>5. \A d \in End : status'[attempts][d] \in {status[attempts][d], "closed"}
  BY <1>1, <1>3 DEF FadingWires
<1>6. FadingHandshake
  BY <1>4, <1>5, TakenApart DEF FadingHandshake
<1>. QED BY <1>3, <1>6

LEMMA ExtensionFades ==
    ASSUME Inv, NEW k \in Connection, NEW e \in End, HandlesExtension(k, e)
    PROVE  Fades
<1>. USE DEF Inv
<1>1. /\ Open(k, e) /\ wire[k][e] # <<>> /\ Head(wire[k][e]) = Extension
      /\ status[k][e] # "waiting" /\ TakeAndSend(k, e, <<>>)
      /\ UNCHANGED <<attempts, status, current, done, keepAlive, storeVars,
                     timerVars, session, historyVars>>
  BY DEF HandlesExtension, Arrives, Dispatched
<1>2. Trades(k, e, k, Sent(k, e, <<>>))
  BY <1>1, Singles, TradesSent
<1>3. Sent(k, e, <<>>) = <<>>
  BY DEF Sent
<1>4. /\ wire' \in [Connection -> [End -> Seq(Message)]]
      /\ wire'[k][e] = Tail(wire[k][e])
      /\ \A j \in Connection, d \in End :
            j # k \/ d # e => wire'[j][d] = wire[j][d]
  <2>1. wire[k][Peer(e)] \o <<>> = wire[k][Peer(e)]
    <3>1. wire[k][Peer(e)] \in Seq(Message)
      BY Peers, SMTT(60) DEF TypeOK
    <3>. QED BY <3>1, ConcatEmptySeq
  <2>. QED BY <1>2, <1>3, <2>1 DEF Trades
<1>5. FadingWires /\ FadingHandshake
  <2>. DEFINE w == wire'
  <2>1. /\ w \in [Connection -> [End -> Seq(Message)]]
        /\ w[k][e] = Tail(wire[k][e])
        /\ \A j \in Connection, d \in End :
              j # k \/ d # e => w[j][d] = wire[j][d]
        /\ wire' = w /\ UNCHANGED status
    BY <1>1, <1>4
  <2>. HIDE DEF w
  <2>. QED BY <1>1, <2>1, TakenFades
<1>6. TypeOK' /\ FadingTimers
  BY <1>1, <1>4 DEF TypeOK, FadingTimers, storeVars, timerVars, historyVars
<1>. QED BY <1>1, <1>5, <1>6 DEF Fades

LEMMA ErrorFades ==
    ASSUME Inv, NEW k \in Connection, NEW e \in End, HandlesError(k, e)
    PROVE  Fades
<1>. USE DEF Inv
<1>. DEFINE t == Tail(wire[k][e])
            w == [wire EXCEPT ![k][e] = t]
<1>1. /\ Open(k, e) /\ wire[k][e] # <<>> /\ Head(wire[k][e]) = Error
      /\ status[k][e] # "waiting"
      /\ IF status[1][e] = "attached"
         THEN Ends(w, 1, e) /\ HandleConnectionClose(1, e)
         ELSE wire' = w /\ UNCHANGED <<status, keepAlive, timerVars>>
      /\ done' = [done EXCEPT ![e] = TRUE]
      /\ session' = IF e = Server THEN "removed" ELSE session
      /\ UNCHANGED <<attempts, current, storeVars, historyVars>>
  BY DEF HandlesError, Arrives, Dispatched
<1>2. wire \in [Connection -> [End -> Seq(Message)]] /\ t \in Seq(Message)
  <2>1. wire \in [Connection -> [End -> Seq(Message)]]
    BY DEF TypeOK
  <2>. QED BY <1>1, <2>1, HeadTailProperties
<1>. HIDE DEF t
<1>3. /\ w \in [Connection -> [End -> Seq(Message)]] /\ w[k][e] = t
      /\ \A j \in Connection, d \in End : j # k \/ d # e => w[j][d] = wire[j][d]
  BY <1>2
<1>. HIDE DEF w
<1>4. 1 \in Connection /\ 1 <= attempts
  BY BoundsAssumption DEF TypeOK, Connection
<1>5. done' \in [End -> BOOLEAN] /\ session' \in {"stored", "removed", "lost"}
  BY <1>1 DEF TypeOK
<1>6. CASE status[1][e] = "attached"
  <2>1. Open(1, e) /\ Ended(w, 1, e) /\ HandleConnectionClose(1, e)
    BY <1>1, <1>3, <1>4, <1>6, EndsEnded DEF Open
  <2>2. FadingWires /\ FadingHandshake
    BY <1>1, <1>3, <2>1, TakenFades DEF t
  <2>3. status' = [status EXCEPT ![1][e] = "closed"]
    BY <2>1 DEF Ended
  <2>4. /\ FadingTimers
        /\ status' \in [Connection -> [End -> {"waiting", "attached",
                                               "adopted", "closed"}]]
        /\ keepAlive' \in [End -> {"running", "paused", "closed"}]
        /\ reconnecting' \in BOOLEAN
        /\ timers' \subseteq Connection /\ timeoutId' \in Connection
    BY <1>4, <1>6, <2>1, <2>3, EndedTimers
  <2>5. TypeOK'
    BY <1>1, <1>5, <2>1, <2>4 DEF TypeOK, Ended, storeVars, historyVars
  <2>. QED BY <1>1, <2>2, <2>4, <2>5 DEF Fades
<1>7. CASE status[1][e] # "attached"
  <2>1. wire' = w /\ UNCHANGED <<status, keepAlive, reconnecting, timers, timeoutId>>
    BY <1>1, <1>7 DEF timerVars
  <2>2. FadingWires /\ FadingHandshake
    BY <1>1, <1>3, <2>1, TakenFades DEF t
  <2>3. TypeOK' /\ FadingTimers
    BY <1>1, <1>3, <1>5, <2>1 DEF TypeOK, FadingTimers, storeVars, historyVars
  <2>. QED BY <1>1, <2>2, <2>3 DEF Fades
<1>. QED BY <1>6, <1>7

LEMMA QuietFades ==
    ASSUME Inv, UNCHANGED <<attempts, status, wire, current, storeVars,
                            historyVars>>,
           TypeOK', reconnecting' => reconnecting, timers' \subseteq timers,
           UNCHANGED timeoutId
    PROVE  Fades
<1>. USE DEF Inv
<1>1. \A j \in Connection, d \in End : wire[j][d] \in Seq(Message)
  BY TypeFacts
<1>2. \A j \in Connection, d \in End : /\ Faded(wire[j][d], wire[j][d])
                                       /\ Idle(wire[j][d], wire[j][d])
                                       /\ Cut(wire[j][d], wire[j][d])
  BY <1>1, Messages, IdleFades, CutOnce DEF Idle
<1>3. FadingWires
  BY <1>2 DEF FadingWires, QuietInv
<1>4. FadingHandshake
  <2>1. attempts \in Connection
    BY DEF TypeOK
  <2>. QED BY <1>2, <2>1 DEF FadingHandshake
<1>5. FadingTimers
  BY DEF FadingTimers
<1>. QED BY <1>3, <1>4, <1>5 DEF Fades

LEMMA IdleStepsFade ==
    ASSUME Inv,
           \/ GivesUp
           \/ \E k \in Connection : SessionTimesOut(k)
           \/ UNCHANGED vars
    PROVE  Fades
<1>1. CASE GivesUp
  <2>1. done' \in [End -> BOOLEAN]
    BY <1>1 DEF GivesUp, Inv, TypeOK
  <2>2. TypeOK'
    BY <1>1, <2>1 DEF GivesUp, Inv, TypeOK, storeVars, historyVars
  <2>. QED BY <1>1, <2>2, QuietFades DEF GivesUp, storeVars, historyVars
<1>2. CASE \E k \in Connection : SessionTimesOut(k)
  <2>1. PICK k \in Connection : SessionTimesOut(k)
    BY <1>2
  <2>2. done' \in [End -> BOOLEAN]
    BY <2>1 DEF SessionTimesOut, Inv, TypeOK
  <2>3. TypeOK'
    BY <2>1, <2>2 DEF SessionTimesOut, Inv, TypeOK, storeVars, historyVars
  <2>. QED BY <2>1, <2>3, QuietFades DEF SessionTimesOut, storeVars, historyVars
<1>3. CASE UNCHANGED vars
  <2>1. TypeOK'
    BY <1>3 DEF Inv, TypeOK, vars, storeVars, historyVars, timerVars
  <2>. QED BY <1>3, <2>1, QuietFades DEF vars, timerVars
<1>. QED BY <1>1, <1>2, <1>3

LEMMA RestartFades ==
    ASSUME Inv, ServerRestarts
    PROVE  Fades
<1>. USE DEF Inv
<1>1. /\ UNCHANGED <<attempts, current, storeVars, reconnecting, timeoutId,
                     historyVars>>
      /\ timers' = {} /\ session' = "lost"
      /\ keepAlive' = [keepAlive EXCEPT ![Server] = "closed"]
      /\ done' = [done EXCEPT ![Server] = TRUE]
      /\ status' = [k \in Connection |->
                     IF k <= attempts THEN [status[k] EXCEPT ![Server] = "closed"]
                                      ELSE status[k]]
  BY DEF ServerRestarts
<1>2. PICK rest \in 0 .. Len(wire[attempts][Client]) :
          wire' = [k \in Connection |->
                     [e \in End |-> IF e = Client /\ k = attempts
                                    THEN SubSeq(wire[k][e], 1, rest) ELSE <<>>]]
  BY DEF ServerRestarts
<1>3. /\ attempts \in Connection /\ attempts \in Nat /\ Connection \subseteq Nat
      /\ \A j \in Connection, d \in End : wire[j][d] \in Seq(Message)
      /\ \A j \in Connection :
            status[j] \in [End -> {"waiting", "attached", "adopted", "closed"}]
  <2>1. \A j \in Connection :
            status[j] \in [End -> {"waiting", "attached", "adopted", "closed"}]
    BY DEF TypeOK
  <2>. QED BY <2>1, TypeFacts
<1>4. \A j \in Connection, d \in End :
         /\ status'[j][d] = IF j <= attempts /\ d = Server THEN "closed"
                                                           ELSE status[j][d]
         /\ status'[j] \in [End -> {"waiting", "attached", "adopted", "closed"}]
  BY <1>1, <1>3
<1>. DEFINE r == SubSeq(wire[attempts][Client], 1, rest)
<1>5. Cut(wire[attempts][Client], r) /\ r \in Seq(Message)
  <2>1. Cut(wire[attempts][Client], r)
    BY <1>2, <1>3, Messages, CutOnce
  <2>. QED BY <1>3, <2>1, CutTyped
<1>6. \A j \in Connection, d \in End :
         wire'[j][d] = IF d = Client /\ j = attempts THEN r ELSE <<>>
  BY <1>2
<1>7. wire' \in [Connection -> [End -> Seq(Message)]]
  BY <1>2, <1>5, Singles
<1>. HIDE DEF r
<1>8. FadingWires
  <2>. SUFFICES ASSUME NEW j \in Connection, NEW d \in End
                PROVE  /\ status'[j][d] \in {status[j][d], "closed"}
                       /\ j > attempts => status'[j][d] = status[j][d]
                       /\ status'[j][d] = "closed" \/ j > attempts
                            => wire'[j][d] = <<>>
                       /\ Faded(wire[j][d], wire'[j][d])
                       /\ (\A b \in End : status'[j][b] # "closed")
                            => Idle(wire[j][d], wire'[j][d])
    BY DEF FadingWires
  <2>1. /\ status'[j][d] \in {status[j][d], "closed"}
        /\ j > attempts => status'[j][d] = status[j][d]
    BY <1>3, <1>4
  <2>2. status'[j][d] = "closed" \/ j > attempts => wire'[j][d] = <<>>
    <3>1. CASE d = Client /\ j = attempts
      <4>1. status'[j][d] = "closed" => wire[j][d] = <<>>
        BY <1>4, <3>1, Peers DEF QuietInv
      <4>2. wire[j][d] = <<>> => r = <<>>
        BY <1>5, <3>1, Messages, CutShort
      <4>. QED BY <1>3, <1>6, <3>1, <4>1, <4>2
    <3>2. CASE ~(d = Client /\ j = attempts)
      BY <1>6, <3>2
    <3>. QED BY <3>1, <3>2
  <2>3. Faded(wire[j][d], wire'[j][d])
    <3>1. /\ Idle(wire[j][d], wire[j][d]) /\ wire[j][d] \in Seq(Message)
      BY <1>3 DEF Idle
    <3>2. /\ Faded(wire[j][d], <<>>)
          /\ \A x : Cut(wire[j][d], x) => Faded(wire[j][d], x)
      BY <3>1, IdleFades
    <3>. QED BY <1>5, <1>6, <3>2
  <2>4. (\A b \in End : status'[j][b] # "closed") => Idle(wire[j][d], wire'[j][d])
    <3>1. CASE j <= attempts
      BY <1>4, <3>1, Peers
    <3>2. CASE ~(j <= attempts)
      <4>1. j > attempts /\ j # attempts
        BY <1>3, <3>2
      <4>2. wire[j][d] = <<>> /\ wire'[j][d] = <<>>
        BY <1>6, <4>1 DEF QuietInv
      <4>. QED BY <4>2 DEF Idle
    <3>. QED BY <3>1, <3>2
  <2>. QED BY <2>1, <2>2, <2>3, <2>4
<1>9. FadingHandshake
  <2>1. status'[attempts][Server] = "closed"
    BY <1>3, <1>4
  <2>2. wire'[attempts][Server] = <<>> /\ wire[attempts][Server] \in Seq(Message)
    BY <1>3, <1>6, Peers
  <2>3. Cut(wire[attempts][Server], wire'[attempts][Server])
    <3>1. Cut(wire[attempts][Server], <<>>)
      BY <2>2, Messages, CutOnce
    <3>. QED BY <2>2, <3>1
  <2>. QED BY <2>1, <2>3 DEF FadingHandshake
<1>10. FadingTimers
  BY <1>1 DEF FadingTimers
<1>11. TypeOK'
  <2>1. status' \in [Connection -> [End -> {"waiting", "attached", "adopted",
                                            "closed"}]]
    BY <1>1, <1>4
  <2>2. /\ keepAlive' \in [End -> {"running", "paused", "closed"}]
        /\ done' \in [End -> BOOLEAN]
    BY <1>1 DEF TypeOK
  <2>. QED BY <1>1, <1>7, <2>1, <2>2 DEF TypeOK, storeVars, historyVars
<1>. QED BY <1>1, <1>8, <1>9, <1>10, <1>11 DEF Fades

-----------------------------------------------------------------------------
(* Steps that send                                                         *)

LEMMA StreamFacts ==
    ASSUME TypeOK, NEW e \in End, Stream(e)
    PROVE  /\ Len(handled[e]) \in 0 .. sent[Peer(e)]
           /\ Len(handled[e]) \in {0} \cup Frame
           /\ received[e] = Position[Len(handled[e])]
           /\ shifted[Peer(e)] <= Len(handled[e])
<1>1. Len(handled[e]) <= sent[Peer(e)] /\ Peer(e) \in End
  BY Peers DEF Stream, Own
<1>2. /\ Len(handled[e]) \in Nat /\ sent[Peer(e)] \in Nat
      /\ sent[Peer(e)] \in {0} \cup Frame
  BY <1>1, TypeFacts
<1>3. 0 .. sent[Peer(e)] \subseteq {0} \cup Frame
  BY <1>2, Frames
<1>4. Len(handled[e]) \in 0 .. sent[Peer(e)]
  BY <1>1, <1>2
<1>5. Peer(Peer(e)) = e
  BY Peers
<1>. QED BY <1>3, <1>4, <1>5 DEF Stream, Own, Store

\* A dispatched connection is the one whose frames e receives, unless the
\* server has two.
LEMMA DispatchedAt ==
    ASSUME TypeOK, StatusInv, NEW k \in Connection, NEW e \in End, Open(k, e),
           status[k][e] # "waiting", e = Client \/ ~overlapped
    PROVE  k = At(e)
<1>1. CASE e = Client
  BY <1>1, Connections DEF At
<1>2. CASE e = Server
  BY <1>2, Connections, Peers DEF At
<1>. QED BY <1>1, <1>2

LEMMA PushFlow ==
    ASSUME TypeOK, NEW e \in End, NEW c \in Connection, NEW F, Pushes(c, e, F),
           NEW from, NEW whole, NEW top \in Nat, NEW k \in Connection,
           FlowOf(wire[k][Peer(e)], from, whole, top),
           \A i \in 1 .. Len(F) : F[i].type # "DATA"
    PROVE  FlowOf(wire'[k][Peer(e)], from, whole, top)
<1>. DEFINE q == wire[k][Peer(e)]
<1>1. q \in Seq(Message) /\ F \in Seq(Message) /\ Peer(e) \in End
  BY TypeFacts, Peers DEF Pushes
<1>2. CASE k = c
  <2>1. wire'[k][Peer(e)] = q \o F
    BY <1>2 DEF Pushes
  <2>2. FlowOf(q \o F, from, whole, top)
    BY <1>1, FlowJoins
  <2>. QED BY <2>1, <2>2
<1>3. CASE k # c
  BY <1>1, <1>3 DEF Pushes
<1>. QED BY <1>2, <1>3

LEMMA PushClimb ==
    ASSUME TypeOK, NEW e \in End, NEW c \in Connection, NEW F, Pushes(c, e, F),
           NEW low, NEW top \in Nat, NEW k \in Connection,
           ClimbOf(wire[k][Peer(e)], low, top),
           \A i \in 1 .. Len(F) : F[i].type \in Positional
                                     => PositionOf(F[i]) = Position[top]
    PROVE  ClimbOf(wire'[k][Peer(e)], low, top)
<1>. DEFINE q == wire[k][Peer(e)]
<1>1. q \in Seq(Message) /\ F \in Seq(Message) /\ Peer(e) \in End
  BY TypeFacts, Peers DEF Pushes
<1>2. CASE k = c
  <2>1. wire'[k][Peer(e)] = q \o F
    BY <1>2 DEF Pushes
  <2>2. ClimbOf(q \o F, low, top)
    BY <1>1, ClimbJoins
  <2>. QED BY <2>1, <2>2
<1>3. CASE k # c
  BY <1>1, <1>3 DEF Pushes
<1>. QED BY <1>2, <1>3

\* KEEPALIVE, or an extension.
LEMMA AnnounceKeeps ==
    ASSUME Inv, NEW e \in End, NEW F \in Seq(Message), Pushes(current[e], e, F),
           \A i \in 1 .. Len(F) :
              /\ F[i].type \notin {"DATA", "RESUME_OK"}
              /\ F[i].type \in Positional => PositionOf(F[i]) = received[e],
           UNCHANGED <<attempts, status, current, done, keepAlive, storeVars,
                       timerVars, session, historyVars>>
    PROVE  Inv'
<1>. USE DEF Inv
<1>. DEFINE c == current[e]
            p == Peer(e)
<1>1. /\ UNCHANGED <<sent, shifted, firstAvailable, received, handled, overlapped,
                     inconsistent, reconnecting, timers, timeoutId>>
      /\ c \in Connection /\ p \in End /\ p # e
      /\ \A j \in Connection : wire'[j][e] = wire[j][e]
      /\ \A d \in End : At(d)' = At(d)
  BY TypeFacts, Peers DEF storeVars, timerVars, historyVars, At, Pushes
<1>2. TypeOK'
  BY <1>1 DEF TypeOK, Pushes
<1>3. StatusInv' /\ QuietInv'
  BY <1>1, QuietPushes DEF StatusInv
<1>4. \A i \in 1 .. Len(F) : F[i] \in Message
  BY ElementOfSeq
<1>5. HandshakeInv'
  <2>1. \A i \in 1 .. Len(F) : F[i] \in Offer
    BY <1>4 DEF Offer
  <2>2. F \in Seq(Offer)
    BY <2>1
  <2>. QED BY <1>1, <2>2, HandshakePushes
<1>6. PositionsInv'
  <2>1. e = Client => F \in Seq(Known)
    <3>. SUFFICES ASSUME e = Client PROVE F \in Seq(Known)
      OBVIOUS
    <3>1. received[Client] = Position[Len(handled[Client])]
          /\ Len(handled[Client]) \in Nat
      BY TypeFacts, StreamFacts DEF StreamInv
    <3>2. Len(handled[Client]) \in 0 .. Len(handled[Client])
      BY <3>1
    <3>3. \A i \in 1 .. Len(F) : F[i] \in Known
      BY <1>4, <3>1, <3>2 DEF Known
    <3>. QED BY <3>3
  <2>2. e = Server => F \in Seq(Under)
    <3>. SUFFICES ASSUME e = Server PROVE F \in Seq(Under)
      OBVIOUS
    <3>1. received[Server] \in Nat /\ received[Server] <= received[Server]
      BY TypeFacts
    <3>2. \A i \in 1 .. Len(F) : F[i] \in Under
      BY <1>4, <3>1 DEF Under
    <3>. QED BY <3>2
  <2>3. Within(wire', Known, Under)
    BY <1>1, <2>1, <2>2, WithinPushes DEF PositionsInv
  <2>4. Known' = Known /\ Under' = Under
    BY <1>1 DEF Known, Under
  <2>. QED BY <1>1, <2>3, <2>4 DEF PositionsInv
<1>7. ASSUME NEW d \in End, Stream(d) PROVE Stream(d)'
  <2>1. Own(d)' /\ Store(Peer(d))'
    BY <1>1, <1>7 DEF Stream, Own, Store
  <2>2. FlowOf(wire'[At(d)][d], Len(handled[d]), Whole(At(d), Peer(d)),
               sent[Peer(d)])
    <3>1. FlowOf(wire[At(d)][d], Len(handled[d]), Whole(At(d), Peer(d)),
                 sent[Peer(d)])
      BY <1>7 DEF Stream, Flow
    <3>2. At(d) \in Connection /\ sent[Peer(d)] \in Nat
      BY TypeFacts, Peers
    <3>3. CASE d = p
      <4>1. \A i \in 1 .. Len(F) : F[i].type # "DATA"
        OBVIOUS
      <4>. QED BY <1>1, <3>1, <3>2, <3>3, <4>1, PushFlow, ZenonT(150)
    <3>4. CASE d = e
      BY <1>1, <3>1, <3>2, <3>4
    <3>. QED BY <3>3, <3>4 DEF Peer
  <2>3. Flow(d)'
    BY <1>1, <2>2 DEF Flow, Whole, Open
  <2>. QED BY <2>1, <2>3 DEF Stream
<1>8. ASSUME NEW d \in End, Climb(d), Stream(e) PROVE Climb(d)'
  <2>1. ClimbOf(wire[At(d)][d], shifted[d], Len(handled[Peer(d)]))
    BY <1>8 DEF Climb
  <2>2. At(d) \in Connection /\ Len(handled[Peer(d)]) \in Nat
    BY TypeFacts, Peers
  <2>3. ClimbOf(wire'[At(d)][d], shifted[d], Len(handled[Peer(d)]))
    <3>1. CASE d = p
      <4>1. Peer(d) = e
        BY <3>1, Peers
      <4>2. \A i \in 1 .. Len(F) : F[i].type \in Positional
               => PositionOf(F[i]) = Position[Len(handled[Peer(d)])]
        BY <1>8, <4>1, StreamFacts
      <4>. DEFINE j == At(d)
                  low == shifted[d]
                  top == Len(handled[Peer(d)])
      <4>. HIDE DEF j, low, top
      <4>3. /\ ClimbOf(wire[j][Peer(e)], low, top)
            /\ j \in Connection /\ top \in Nat
            /\ \A i \in 1 .. Len(F) : F[i].type \in Positional
                                          => PositionOf(F[i]) = Position[top]
        BY <2>1, <2>2, <3>1, <4>2 DEF j, low, top
      <4>4. ClimbOf(wire'[j][Peer(e)], low, top)
        BY <1>1, <4>3, PushClimb, ZenonT(60)
      <4>. QED BY <3>1, <4>4 DEF j, low, top
    <3>2. CASE d = e
      BY <1>1, <2>1, <2>2, <3>2
    <3>. QED BY <3>1, <3>2 DEF Peer
  <2>. QED BY <1>1, <2>3 DEF Climb
<1>9. StreamInv'
  BY <1>1, <1>7, <1>8, Peers DEF StreamInv
<1>10. TimerInv'
  BY <1>1 DEF TimerInv, Open
<1>. QED BY <1>2, <1>3, <1>5, <1>6, <1>9, <1>10

LEMMA AnnouncesKeep ==
    ASSUME Inv, NEW e \in End, SendsExtension(e) \/ SendsKeepAlive(e)
    PROVE  Inv'
<1>. DEFINE c == current[e]
<1>1. TypeOK /\ c \in Connection /\ received[e] \in Nat
  BY TypeFacts DEF Inv
<1>2. PICK m \in Message :
         /\ Send(c, e, <<m>>) /\ m.type \notin {"DATA", "RESUME_OK"}
         /\ m.type \in Positional => PositionOf(m) = received[e]
         /\ UNCHANGED <<attempts, status, current, done, keepAlive, storeVars,
                        timerVars, session, historyVars>>
  <2>1. CASE SendsExtension(e)
    <3>1. /\ Extension \in Message
          /\ Extension.type \notin {"DATA", "RESUME_OK"} \cup Positional
      BY Messages DEF Positional
    <3>. QED BY <2>1, <3>1 DEF SendsExtension
  <2>2. CASE SendsKeepAlive(e)
    <3>. DEFINE m == KeepAlive(TRUE, received[e])
    <3>1. m \in Message /\ m.type = "KEEPALIVE" /\ PositionOf(m) = received[e]
      BY <1>1, Messages
    <3>2. Send(c, e, <<m>>)
      BY <2>2 DEF SendsKeepAlive
    <3>. HIDE DEF m
    <3>. QED BY <2>2, <3>1, <3>2 DEF SendsKeepAlive
  <2>. QED BY <2>1, <2>2
<1>. DEFINE F == Sent(c, e, <<m>>)
<1>3. <<m>> \in Seq(Message)
  OBVIOUS
<1>4. Pushes(c, e, F) /\ F \in Seq(Message)
  BY <1>1, <1>2, <1>3, PushesSent, SentTyped
<1>5. \A i \in 1 .. Len(F) : F[i] = m
  <2>1. F = <<m>> \/ F = <<>>
    BY <1>3, SentTyped
  <2>. HIDE DEF F
  <2>2. Len(<<m>>) = 1 /\ <<m>>[1] = m /\ Len(<<>>) = 0
    OBVIOUS
  <2>3. \A i \in 1 .. 1 : i = 1
    OBVIOUS
  <2>4. 1 .. 0 = {}
    OBVIOUS
  <2>. QED BY <2>1, <2>2, <2>3, <2>4
<1>. HIDE DEF F
<1>. QED BY <1>2, <1>4, <1>5, AnnounceKeeps

LEMMA SendFlow ==
    ASSUME TypeOK, NEW e \in End, sent[e] + 1 \in Frame, NEW from,
           NEW k \in Connection,
           Pushes(current[e], e, Sent(current[e], e, <<Data(sent[e] + 1)>>)),
           FlowOf(wire[k][Peer(e)], from, Whole(k, e), sent[e])
    PROVE  FlowOf(wire'[k][Peer(e)], from, Whole(k, e), sent[e] + 1)
<1>. DEFINE q == wire[k][Peer(e)]
            r == wire'[k][Peer(e)]
            top == sent[e]
            whole == Whole(k, e)
            F == Sent(current[e], e, <<Data(top + 1)>>)
<1>1. /\ q \in Seq(Message) /\ top \in Nat /\ top + 1 \in Frame
      /\ current[e] \in Connection /\ Peer(e) \in End
  BY TypeFacts, Peers
<1>2. FlowOf(q, from, whole, top)
  OBVIOUS
<1>3. whole => r = q \o <<Data(top + 1)>>
  <2>1. whole => current[e] = k /\ F = <<Data(top + 1)>>
    BY <1>1 DEF Whole, Sent
  <2>. QED BY <2>1 DEF Pushes
<1>4. ~whole => r = q
  <2>1. CASE current[e] = k
    <3>1. ~whole => F = <<>>
      <4>1. ~whole => ~(Open(k, e) /\ Open(k, Peer(e)))
        BY <2>1 DEF Whole, Peer
      <4>. QED BY <2>1, <4>1 DEF Sent
    <3>2. q \o <<>> = q
      BY <1>1, ConcatEmptySeq
    <3>3. r = q \o F
      BY <2>1 DEF Pushes
    <3>. HIDE DEF F
    <3>. QED BY <3>1, <3>2, <3>3
  <2>2. CASE current[e] # k
    BY <1>1, <2>2 DEF Pushes
  <2>. QED BY <2>1, <2>2
<1>. HIDE DEF q, r, top, F
<1>5. CASE whole
  <2>1. FlowOf(q, from, TRUE, top)
    BY <1>2, <1>5 DEF FlowOf
  <2>2. FlowOf(q \o <<Data(top + 1)>>, from, TRUE, top + 1)
    BY <1>1, <2>1, FlowGrows
  <2>3. FlowOf(r, from, TRUE, top + 1)
    BY <1>3, <1>5, <2>2
  <2>4. FlowOf(r, from, whole, top + 1)
    BY <1>5, <2>3 DEF FlowOf
  <2>. QED BY <2>4 DEF r, top
<1>6. CASE ~whole
  <2>. HIDE DEF whole
  <2>1. FlowOf(r, from, FALSE, top + 1)
    BY <1>1, <1>2, <1>4, <1>6, FlowMisses
  <2>2. FlowOf(r, from, whole, top + 1)
    BY <1>6, <2>1 DEF FlowOf
  <2>. QED BY <2>2 DEF r, top, whole
<1>. QED BY <1>5, <1>6

LEMMA SendKeeps ==
    ASSUME Inv, NEW e \in End, SendsData(e)
    PROVE  Inv'
<1>. USE DEF Inv
<1>. DEFINE c == current[e]
            p == Peer(e)
            n == sent[e] + 1
            F == Sent(c, e, <<Data(n)>>)
<1>1. /\ Send(c, e, <<Data(n)>>) /\ sent[e] < MaxFrames[e]
      /\ sent' = [sent EXCEPT ![e] = n]
      /\ UNCHANGED <<attempts, status, current, done, keepAlive, shifted,
                     firstAvailable, received, handled, reconnecting, timers,
                     timeoutId, session, overlapped, inconsistent>>
  BY DEF SendsData, timerVars, historyVars
<1>2. n \in Frame /\ n \in Nat
  <2>1. sent[e] \in Nat /\ MaxFrames[e] \in Nat /\ 1 .. MaxFrames[e] \subseteq Frame
    BY TypeFacts, Frames
  <2>2. n \in 1 .. MaxFrames[e]
    BY <1>1, <2>1
  <2>. QED BY <2>1, <2>2
<1>3. Data(n) \in Message /\ Data(n).type = "DATA"
  BY <1>2, Messages
<1>4. <<Data(n)>> \in Seq(Message)
  BY <1>3
<1>5. Pushes(c, e, F) /\ F \in Seq(Message) /\ (F = <<Data(n)>> \/ F = <<>>)
      /\ c \in Connection /\ p \in End /\ p # e /\ Peer(p) = e
  BY <1>1, <1>4, TypeFacts, PushesSent, SentTyped, Peers, ZenonT(60)
<1>6. /\ \A j \in Connection : wire'[j][e] = wire[j][e]
      /\ \A d \in End : At(d)' = At(d)
      /\ sent'[e] = n /\ sent'[p] = sent[p]
      /\ sent' \in [End -> {0} \cup Frame]
  <2>1. sent \in [End -> {0} \cup Frame]
    BY DEF TypeOK
  <2>. QED BY <1>1, <1>2, <1>5, <2>1 DEF Pushes, At
<1>7. TypeOK'
  BY <1>1, <1>5, <1>6 DEF TypeOK, Pushes
<1>8. \A i \in 1 .. Len(F) : F[i] = Data(n)
  <2>. HIDE DEF F
  <2>1. Len(<<Data(n)>>) = 1 /\ <<Data(n)>>[1] = Data(n) /\ Len(<<>>) = 0
    OBVIOUS
  <2>2. \A i \in 1 .. 1 : i = 1
    OBVIOUS
  <2>3. 1 .. 0 = {}
    OBVIOUS
  <2>. QED BY <1>5, <2>1, <2>2, <2>3
<1>. HIDE DEF F
<1>9. StatusInv' /\ QuietInv'
  BY <1>1, <1>5, QuietPushes DEF StatusInv
<1>10. \A A : Data(n) \in A => F \in Seq(A)
  BY <1>5, <1>8
<1>11. HandshakeInv'
  <2>1. F \in Seq(Offer)
    BY <1>3, <1>10 DEF Offer
  <2>. QED BY <1>1, <1>5, <2>1, HandshakePushes
<1>12. PositionsInv'
  <2>1. F \in Seq(Known) /\ F \in Seq(Under)
    BY <1>3, <1>10 DEF Known, Under, Positional
  <2>2. Within(wire', Known, Under)
    BY <1>5, <2>1, WithinPushes DEF PositionsInv
  <2>3. Known' = Known /\ Under' = Under
    BY <1>1 DEF Known, Under
  <2>. QED BY <1>1, <2>2, <2>3 DEF PositionsInv
<1>13. ASSUME NEW d \in End, Stream(d) PROVE Stream(d)'
  <2>1. Own(d)'
    <3>1. Len(handled[d]) <= sent'[Peer(d)]
      <4>1. CASE d = p
        <5>1. Len(handled[d]) <= sent[e] /\ Len(handled[d]) \in Nat /\ sent[e] \in Nat
          BY <1>5, <1>13, <4>1, TypeFacts DEF Stream, Own
        <5>. QED BY <1>5, <1>6, <4>1, <5>1
      <4>2. CASE d = e
        BY <1>6, <1>13, <4>2 DEF Stream, Own
      <4>. QED BY <4>1, <4>2 DEF Peer
    <3>. QED BY <1>1, <1>13, <3>1 DEF Stream, Own
  <2>2. Store(Peer(d))'
    BY <1>1, <1>13 DEF Stream, Store
  <2>3. FlowOf(wire[At(d)][d], Len(handled[d]), Whole(At(d), Peer(d)),
               sent[Peer(d)])
    BY <1>13 DEF Stream, Flow
  <2>4. At(d) \in Connection
    BY TypeFacts
  <2>5. FlowOf(wire'[At(d)][d], Len(handled[d]), Whole(At(d), Peer(d)),
               sent'[Peer(d)])
    <3>1. CASE d = p
      <4>1. FlowOf(wire'[At(d)][Peer(e)], Len(handled[d]), Whole(At(d), e),
                   sent[e] + 1)
        BY <1>2, <1>5, <2>3, <2>4, <3>1, SendFlow DEF F
      <4>. QED BY <1>5, <1>6, <3>1, <4>1
    <3>2. CASE d = e
      BY <1>6, <2>3, <2>4, <3>2
    <3>. QED BY <3>1, <3>2 DEF Peer
  <2>6. Flow(d)'
    BY <1>1, <1>6, <2>5 DEF Flow, Whole, Open
  <2>. QED BY <2>1, <2>2, <2>6 DEF Stream
<1>14. ASSUME NEW d \in End, Climb(d) PROVE Climb(d)'
  <2>1. ClimbOf(wire[At(d)][d], shifted[d], Len(handled[Peer(d)]))
    BY <1>14 DEF Climb
  <2>2. At(d) \in Connection /\ Len(handled[Peer(d)]) \in Nat
    BY TypeFacts, Peers
  <2>3. ClimbOf(wire'[At(d)][d], shifted[d], Len(handled[Peer(d)]))
    <3>1. CASE d = p
      <4>1. \A i \in 1 .. Len(F) : F[i].type \notin Positional
        BY <1>3, <1>8 DEF Positional
      <4>. QED BY <1>5, <2>1, <2>2, <3>1, <4>1, PushClimb
    <3>2. CASE d = e
      BY <1>6, <2>1, <2>2, <3>2
    <3>. QED BY <3>1, <3>2 DEF Peer
  <2>. QED BY <1>1, <1>6, <2>3 DEF Climb
<1>15. StreamInv'
  BY <1>1, <1>13, <1>14, Peers DEF StreamInv
<1>16. TimerInv'
  BY <1>1 DEF TimerInv, Open
<1>. QED BY <1>7, <1>9, <1>11, <1>12, <1>15, <1>16

-----------------------------------------------------------------------------
(* Steps that handle frames                                                *)

LEMMA TradeFlow ==
    ASSUME TypeOK, NEW k \in Connection, NEW e \in End, NEW c \in Connection,
           NEW F, Trades(k, e, c, F), wire[k][e] # <<>>,
           Head(wire[k][e]).type # "DATA",
           \A i \in 1 .. Len(F) : F[i].type # "DATA",
           NEW from, NEW whole, NEW top \in Nat, NEW j \in Connection,
           NEW d \in End, FlowOf(wire[j][d], from, whole, top)
    PROVE  FlowOf(wire'[j][d], from, whole, top)
<1>. DEFINE q == wire[j][d]
<1>1. q \in Seq(Message) /\ F \in Seq(Message) /\ e # Peer(e)
  BY TypeFacts, Peers DEF Trades
<1>2. CASE d = e /\ j = k
  <2>1. FlowOf(Tail(q), from, whole, top)
    BY <1>1, <1>2, FlowTakes
  <2>. QED BY <1>2, <2>1 DEF Trades
<1>3. CASE d = Peer(e) /\ j = c
  <2>1. FlowOf(q \o F, from, whole, top)
    BY <1>1, FlowJoins
  <2>. QED BY <1>3, <2>1 DEF Trades
<1>4. CASE ~(d = e /\ j = k) /\ ~(d = Peer(e) /\ j = c)
  BY <1>4 DEF Trades
<1>. QED BY <1>2, <1>3, <1>4

\* The only position that the messages announce is r.
Announces(F, r) ==
    \A i \in 1 .. Len(F) : F[i].type \in Positional => PositionOf(F[i]) = r

LEMMA TradeClimb ==
    ASSUME TypeOK, NEW k \in Connection, NEW e \in End, NEW c \in Connection,
           NEW F, Trades(k, e, c, F),
           NEW low, NEW top \in Nat, NEW j \in Connection, NEW d \in End, d # e,
           ClimbOf(wire[j][d], low, top), Announces(F, Position[top])
    PROVE  ClimbOf(wire'[j][d], low, top)
<1>. DEFINE q == wire[j][d]
<1>1. q \in Seq(Message) /\ F \in Seq(Message) /\ d = Peer(e)
  <2>1. d = Peer(e)
    BY DEF Peer
  <2>. QED BY <2>1, TypeFacts DEF Trades
<1>2. CASE j = c
  <2>1. wire'[j][d] = q \o F
    BY <1>1, <1>2 DEF Trades
  <2>2. ClimbOf(q \o F, low, top)
    BY <1>1, ClimbJoins DEF Announces
  <2>. QED BY <2>1, <2>2
<1>3. CASE j # c
  BY <1>1, <1>3 DEF Trades
<1>. QED BY <1>2, <1>3

\* A frame of data is the next one that its receiver misses.
LEMMA TakenData ==
    ASSUME Inv, NEW k \in Connection, NEW e \in End, NEW n \in Frame,
           Arrives(k, e, Data(n)), status[k][e] # "waiting",
           Stream(e), e = Client \/ ~overlapped
    PROVE  LET l == Len(handled[e]) IN
           /\ k = At(e) /\ n = l + 1 /\ n <= sent[Peer(e)]
           /\ FlowOf(Tail(wire[k][e]), n, Whole(k, Peer(e)), sent[Peer(e)])
           /\ received[e] + (Position[n] - Position[n - 1]) = Position[n]
           /\ Climb(e) =>
                ClimbOf(Tail(wire[k][e]), shifted[e], Len(handled[Peer(e)]))
<1>. USE DEF Inv
<1>. DEFINE l == Len(handled[e])
            q == wire[k][e]
            p == Peer(e)
<1>1. /\ q \in Seq(Message) /\ q # <<>> /\ Head(q) = Data(n) /\ p \in End
      /\ sent[p] \in Nat /\ Len(handled[p]) \in Nat /\ Open(k, e)
  BY TypeFacts, Peers DEF Arrives
<1>2. k = At(e)
  BY <1>1, DispatchedAt
<1>3. FlowOf(q, l, Whole(k, p), sent[p])
  BY <1>2 DEF Stream, Flow
<1>. HIDE DEF q, l
<1>4. /\ n = l + 1 /\ n \in 0 .. sent[p]
      /\ FlowOf(Tail(q), l + 1, Whole(k, p), sent[p])
  BY <1>1, <1>3, FlowTakesData
<1>5. l \in {0} \cup Frame /\ l \in Nat /\ received[e] = Position[l]
  BY TypeFacts, StreamFacts DEF l
<1>6. received[e] + (Position[n] - Position[n - 1]) = Position[n]
  <2>1. n - 1 = l /\ Position[n] \in Nat /\ Position[l] \in Nat
    BY <1>4, <1>5, Frames
  <2>. QED BY <1>5, <2>1
<1>7. Climb(e) => ClimbOf(Tail(q), shifted[e], Len(handled[p]))
  <2>. SUFFICES ASSUME Climb(e)
                PROVE  ClimbOf(Tail(q), shifted[e], Len(handled[p]))
    OBVIOUS
  <2>1. ClimbOf(q, shifted[e], Len(handled[p]))
    BY <1>2 DEF Climb, q
  <2>2. Head(q).type \notin Positional
    BY <1>1, Messages DEF Positional
  <2>. QED BY <1>1, <2>1, <2>2, ClimbTakes
<1>. QED BY <1>2, <1>4, <1>5, <1>6, <1>7 DEF q, l

LEMMA HandledData ==
    ASSUME TypeOK, NEW k \in Connection, NEW e \in End, HandlesData(k, e)
    PROVE  \E n \in Frame :
              /\ Arrives(k, e, Data(n)) /\ status[k][e] # "waiting"
              /\ Trades(k, e, k, <<>>)
              /\ \A j \in Connection, d \in End :
                    j # k \/ d # e => wire'[j][d] = wire[j][d]
              /\ received' \in [End -> Nat] /\ handled' \in [End -> Seq(Frame)]
              /\ received'[e] = received[e] + (Position[n] - Position[n - 1])
              /\ Len(handled'[e]) = Len(handled[e]) + 1
              /\ handled'[e][Len(handled[e]) + 1] = n
              /\ \A i \in 1 .. Len(handled[e]) : handled'[e][i] = handled[e][i]
              /\ received'[Peer(e)] = received[Peer(e)]
              /\ handled'[Peer(e)] = handled[Peer(e)]
<1>1. PICK n \in Frame :
         /\ Arrives(k, e, Data(n)) /\ Dispatched(k, e)
         /\ received' = [received EXCEPT ![e] = @ + (Position[n] - Position[n - 1])]
         /\ handled' = [handled EXCEPT ![e] = Append(@, n)]
         /\ TakeAndSend(k, e, <<>>)
  BY DEF HandlesData
<1>2. /\ wire[k][e] # <<>> /\ status[k][e] # "waiting"
      /\ Peer(e) \in End /\ Peer(e) # e
  BY <1>1, Peers DEF Arrives, Dispatched
<1>3. Sent(k, e, <<>>) = <<>> /\ <<>> \in Seq(Message)
  BY Singles DEF Sent
<1>4. Trades(k, e, k, <<>>)
  BY <1>1, <1>2, <1>3, TradesSent
<1>5. \A j \in Connection, d \in End : j # k \/ d # e => wire'[j][d] = wire[j][d]
  <2>1. wire[k][Peer(e)] \o <<>> = wire[k][Peer(e)]
    BY <1>2, TypeFacts, ConcatEmptySeq
  <2>. QED BY <1>4, <2>1 DEF Trades
<1>6. /\ received \in [End -> Nat] /\ handled \in [End -> Seq(Frame)]
      /\ handled[e] \in Seq(Frame)
  BY DEF TypeOK
<1>7. Position[n] - Position[n - 1] \in Nat
  BY Frames
<1>8. /\ Append(handled[e], n) \in Seq(Frame)
      /\ Len(Append(handled[e], n)) = Len(handled[e]) + 1
      /\ Append(handled[e], n)[Len(handled[e]) + 1] = n
      /\ \A i \in 1 .. Len(handled[e]) : Append(handled[e], n)[i] = handled[e][i]
  BY <1>6, AppendProperties
<1>9. handled' \in [End -> Seq(Frame)] /\ handled'[e] = Append(handled[e], n)
      /\ handled'[Peer(e)] = handled[Peer(e)]
  BY <1>1, <1>2, <1>6, <1>8
<1>10. /\ received' \in [End -> Nat] /\ received'[Peer(e)] = received[Peer(e)]
       /\ received'[e] = received[e] + (Position[n] - Position[n - 1])
  <2>. DEFINE x == Position[n] - Position[n - 1]
  <2>. HIDE DEF x
  <2>1. received[e] + x \in Nat
    BY <1>6, <1>7 DEF x
  <2>2. received' = [received EXCEPT ![e] = received[e] + x]
    BY <1>1 DEF x
  <2>3. received' \in [End -> Nat] /\ received'[Peer(e)] = received[Peer(e)]
        /\ received'[e] = received[e] + x
    BY <1>2, <1>6, <2>1, <2>2
  <2>. QED BY <2>3 DEF x
<1>. QED BY <1>1, <1>2, <1>4, <1>5, <1>8, <1>9, <1>10

LEMMA DataKeeps ==
    ASSUME Inv, NEW k \in Connection, NEW e \in End, HandlesData(k, e)
    PROVE  Inv'
<1>. USE DEF Inv
<1>. DEFINE p == Peer(e)
            l == Len(handled[e])
<1>1. PICK n \in Frame :
         /\ Arrives(k, e, Data(n)) /\ status[k][e] # "waiting"
         /\ Trades(k, e, k, <<>>)
         /\ \A j \in Connection, d \in End :
               j # k \/ d # e => wire'[j][d] = wire[j][d]
         /\ received' \in [End -> Nat] /\ handled' \in [End -> Seq(Frame)]
         /\ received'[e] = received[e] + (Position[n] - Position[n - 1])
         /\ Len(handled'[e]) = l + 1
         /\ handled'[e][l + 1] = n
         /\ \A i \in 1 .. l : handled'[e][i] = handled[e][i]
         /\ received'[p] = received[p]
         /\ handled'[p] = handled[p]
  BY HandledData
<1>2. /\ UNCHANGED <<attempts, status, current, done, keepAlive, sent, shifted,
                     firstAvailable, reconnecting, timers, timeoutId, session,
                     overlapped, inconsistent>>
      /\ \A d \in End : At(d)' = At(d)
  BY DEF HandlesData, timerVars, historyVars, At
<1>3. /\ Open(k, e) /\ wire[k][e] # <<>> /\ Head(wire[k][e]) = Data(n)
      /\ wire'[k][e] = Tail(wire[k][e]) /\ p \in End /\ p # e /\ Peer(p) = e
      /\ l \in Nat /\ Len(handled[p]) \in Nat
      /\ \A d \in End : At(d) \in Connection
      /\ \A d \in End : d = e \/ d = p
  BY <1>1, Peers, TypeFacts DEF Arrives, Trades
<1>. HIDE DEF p, l
<1>4. TypeOK'
  BY <1>1, <1>2 DEF TypeOK, Trades
<1>5. StatusInv' /\ QuietInv'
  BY <1>1, <1>2, <1>3, QuietTrades DEF StatusInv
<1>6. HandshakeInv'
  <2>1. e = Client => p = Server
    BY Peers DEF p
  <2>2. e = Server => p = Client
    BY Peers DEF p
  <2>3. <<>> \in Seq(Offer)
    OBVIOUS
  <2>. QED BY <1>1, <1>2, <1>3, <2>1, <2>2, <2>3, HandshakeTrades, ZenonT(150)
<1>7. PositionsInv'
  <2>1. /\ \A d \in End : /\ Len(handled'[d]) \in Nat /\ Len(handled[d]) \in Nat
                          /\ Len(handled[d]) <= Len(handled'[d])
    BY <1>1, <1>3 DEF l
  <2>2. \A d \in End : /\ received[d] \in Nat /\ received'[d] \in Nat
                       /\ received[d] <= received'[d]
    <3>1. /\ received[e] \in Nat /\ received[p] \in Nat
          /\ Position[n] - Position[n - 1] \in Nat
      BY <1>3, TypeFacts, Frames
    <3>2. received[e] <= received'[e]
      BY <1>1, <3>1
    <3>. QED BY <1>1, <1>3, <3>1, <3>2
  <2>3. Known \subseteq Known'
    <3>1. 0 .. Len(handled[Client]) \subseteq 0 .. Len(handled'[Client])
      BY <2>1
    <3>. QED BY <3>1 DEF Known
  <2>4. Under \subseteq Under'
    <3>1. \A m \in Message : m.type \in Positional => PositionOf(m) \in Nat
      BY PositionTyped
    <3>2. received[Server] \in Nat /\ received'[Server] \in Nat
          /\ received[Server] <= received'[Server]
      BY <2>2
    <3>3. \A x \in Nat : x <= received[Server] => x <= received'[Server]
      BY <3>2
    <3>. QED BY <3>1, <3>3 DEF Under
  <2>5. Within(wire', Known, Under)
    <3>1. <<>> \in Seq(Known) /\ <<>> \in Seq(Under)
      OBVIOUS
    <3>. QED BY <1>1, <1>3, <3>1, WithinTrades, ZenonT(60) DEF PositionsInv
  <2>6. Within(wire', Known', Under')
    BY <2>3, <2>4, <2>5, WithinWidens
  <2>7. firstAvailable'[Client] <= received'[Server]
    <3>1. firstAvailable[Client] \in Nat /\ firstAvailable[Client] <= received[Server]
      BY TypeFacts DEF PositionsInv
    <3>. QED BY <1>2, <2>2, <3>1
  <2>. QED BY <2>6, <2>7 DEF PositionsInv
<1>8. ASSUME Stream(e), e = Client \/ ~overlapped
      PROVE  Stream(e)' /\ (Climb(e) => Climb(e)')
  <2>1. /\ k = At(e) /\ n = l + 1 /\ n <= sent[p]
        /\ FlowOf(Tail(wire[k][e]), n, Whole(k, p), sent[p])
        /\ received'[e] = Position[n]
        /\ Climb(e) => ClimbOf(Tail(wire[k][e]), shifted[e], Len(handled[p]))
    BY <1>1, <1>8, TakenData, ZenonT(60) DEF l, p
  <2>2. \A i \in 1 .. l + 1 : handled'[e][i] = i
    <3>1. \A i \in 1 .. l : handled[e][i] = i
      BY <1>8 DEF Stream, Own, l
    <3>2. \A i \in 1 .. l + 1 : i \in 1 .. l \/ i = l + 1
      BY <1>3
    <3>. QED BY <1>1, <2>1, <3>1, <3>2
  <2>3. Own(e)'
    BY <1>1, <1>2, <2>1, <2>2 DEF Own, p
  <2>4. Store(p)'
    <3>1. shifted[p] <= l /\ shifted[p] \in Nat /\ firstAvailable[p] = Position[shifted[p]]
      BY <1>3, <1>8, TypeFacts DEF Stream, Store, l, p
    <3>2. shifted[p] <= l + 1
      BY <1>3, <3>1
    <3>. QED BY <1>1, <1>2, <1>3, <3>1, <3>2 DEF Store
  <2>5. Flow(e)'
    BY <1>1, <1>2, <1>3, <2>1 DEF Flow, Whole, Open, p
  <2>6. Climb(e) => Climb(e)'
    BY <1>1, <1>2, <1>3, <2>1 DEF Climb, p
  <2>. QED BY <2>3, <2>4, <2>5, <2>6 DEF Stream, p
<1>9. Stream(p) => Stream(p)'
  <2>1. Own(p) => Own(p)'
    BY <1>1, <1>2, <1>3 DEF Own
  <2>2. Store(e) => Store(e)'
    BY <1>1, <1>2, <1>3 DEF Store, p
  <2>3. Flow(p) => Flow(p)'
    BY <1>1, <1>2, <1>3 DEF Flow, Whole, Open
  <2>. QED BY <1>3, <2>1, <2>2, <2>3 DEF Stream
<1>10. Climb(p) => Climb(p)'
  <2>. SUFFICES ASSUME Climb(p) PROVE Climb(p)'
    OBVIOUS
  <2>1. ClimbOf(wire[At(p)][p], shifted[p], l)
    BY <1>3 DEF Climb, l
  <2>2. wire[At(p)][p] \in Seq(Message)
    BY <1>3, TypeFacts
  <2>3. ClimbOf(wire[At(p)][p], shifted[p], l + 1)
    BY <1>3, <2>1, <2>2, ClimbGrows
  <2>. QED BY <1>1, <1>2, <1>3, <2>3 DEF Climb
<1>11. StreamInv'
  <2>1. Stream(Client)'
    BY <1>3, <1>8, <1>9 DEF StreamInv
  <2>2. ~overlapped => Stream(Server)' /\ Climb(Client)' /\ Climb(Server)'
                       /\ ~inconsistent'
    BY <1>2, <1>3, <1>8, <1>9, <1>10 DEF StreamInv
  <2>. QED BY <1>2, <2>1, <2>2 DEF StreamInv
<1>12. TimerInv'
  BY <1>2 DEF TimerInv, Open
<1>. QED BY <1>4, <1>5, <1>6, <1>7, <1>11, <1>12

\* A position of a frame that the peer has handled leaves a store that holds
\* the others, whether it fits the store or comes late.
LEMMA DropKnown ==
    ASSUME NEW e \in End, NEW top \in Nat, NEW n \in 0 .. top,
           shifted[e] \in {0} \cup Frame, sent[e] \in {0} \cup Frame,
           firstAvailable[e] = Position[shifted[e]],
           shifted[e] <= top, top <= sent[e]
    PROVE  LET p == Position[n] IN
           /\ DropTo(e, p) \in 0 .. top
           /\ (IF Fits(e, p) THEN p ELSE firstAvailable[e])
                = Position[DropTo(e, p)]
<1>. DEFINE s == shifted[e]
            p == Position[n]
<1>1. s \in Nat /\ sent[e] \in Nat /\ n \in Nat /\ n <= top
  <2>1. {0} \cup Frame \subseteq Nat
    BY Frames
  <2>. QED BY <2>1
<1>2. n \in {0} \cup Frame
  <2>1. n \in 0 .. sent[e]
    BY <1>1
  <2>. QED BY <2>1, Frames
<1>3. CASE s <= n
  <2>1. DropTo(e, p) = n /\ Fits(e, p)
    BY <1>1, <1>2, <1>3, DropFits
  <2>. QED BY <2>1
<1>4. CASE ~(s <= n)
  <2>1. p \in Nat /\ Position[s] \in Nat /\ p < Position[s]
    <3>1. n < s
      BY <1>1, <1>4
    <3>. QED BY <1>2, <3>1, Frames, PositionsOrder
  <2>2. DropTo(e, p) = s
    BY <2>1 DEF DropTo
  <2>3. ~Fits(e, p)
    BY <2>1 DEF Fits
  <2>. QED BY <1>1, <2>2, <2>3
<1>. QED BY <1>3, <1>4

LEMMA Dropped ==
    ASSUME TypeOK, NEW e \in End, NEW p \in Nat, Drop(e, p)
    PROVE  /\ shifted' \in [End -> {0} \cup Frame]
           /\ firstAvailable' \in [End -> Nat] /\ inconsistent' \in BOOLEAN
           /\ shifted'[e] = DropTo(e, p)
           /\ firstAvailable'[e] = IF Fits(e, p) THEN p ELSE firstAvailable[e]
           /\ inconsistent' <=> inconsistent \/ ~Fits(e, p)
           /\ shifted'[Peer(e)] = shifted[Peer(e)]
           /\ firstAvailable'[Peer(e)] = firstAvailable[Peer(e)]
<1>1. /\ shifted \in [End -> {0} \cup Frame] /\ firstAvailable \in [End -> Nat]
      /\ sent[e] \in {0} \cup Frame /\ inconsistent \in BOOLEAN
  BY DEF TypeOK
<1>2. DropTo(e, p) \in {0} \cup Frame
  BY <1>1, DropTyped
<1>3. Peer(e) \in End /\ Peer(e) # e
  BY Peers
<1>4. /\ shifted' \in [End -> {0} \cup Frame] /\ shifted'[e] = DropTo(e, p)
      /\ shifted'[Peer(e)] = shifted[Peer(e)]
  BY <1>1, <1>2, <1>3 DEF Drop
<1>5. /\ firstAvailable' \in [End -> Nat]
      /\ firstAvailable'[e] = IF Fits(e, p) THEN p ELSE firstAvailable[e]
      /\ firstAvailable'[Peer(e)] = firstAvailable[Peer(e)]
  <2>1. CASE Fits(e, p)
    BY <1>1, <1>3, <2>1 DEF Drop
  <2>2. CASE ~Fits(e, p)
    BY <1>1, <1>3, <2>2 DEF Drop
  <2>. QED BY <2>1, <2>2
<1>6. /\ inconsistent' \in BOOLEAN
      /\ inconsistent' <=> inconsistent \/ ~Fits(e, p)
  BY DEF Drop
<1>. QED BY <1>4, <1>5, <1>6

\* What a KEEPALIVE frame does, whichever connections it and its answer use.
LEMMA HandledKeepAlive ==
    ASSUME TypeOK, NEW k \in Connection, NEW e \in End, HandlesKeepAlive(k, e)
    PROVE  \E m \in Message, F \in Seq(Message) :
              /\ Open(k, e) /\ status[k][e] # "waiting" /\ wire[k][e] # <<>>
              /\ Head(wire[k][e]) = m /\ m.type = "KEEPALIVE"
              /\ m.position \in Nat /\ PositionOf(m) = m.position
              /\ Drop(e, m.position) /\ Trades(k, e, current[e], F)
              /\ \A i \in 1 .. Len(F) :
                    /\ F[i].type \in {"ERROR", "KEEPALIVE"}
                    /\ F[i].type = "KEEPALIVE" => PositionOf(F[i]) = received[e]
              /\ done' \in [End -> BOOLEAN]
              /\ UNCHANGED <<attempts, status, current, keepAlive, sent, received,
                             handled, timerVars, session, overlapped>>
<1>. DEFINE m == Head(wire[k][e])
            E == IF Fits(e, m.position) THEN <<>> ELSE <<Error>>
            A == IF m.respond THEN <<KeepAlive(FALSE, received[e])>> ELSE <<>>
            F == Sent(current[e], e, E \o A)
<1>1. /\ Open(k, e) /\ wire[k][e] # <<>> /\ status[k][e] # "waiting"
      /\ m.type = "KEEPALIVE" /\ Drop(e, m.position)
      /\ wire' = [[wire EXCEPT ![k][e] = Tail(@)] EXCEPT ![current[e]][Peer(e)] =
                     @ \o F]
      /\ done' = [done EXCEPT ![e] = @ \/ ~Fits(e, m.position)]
      /\ UNCHANGED <<attempts, status, current, keepAlive, sent, received,
                     handled, timerVars, session, overlapped>>
  BY DEF HandlesKeepAlive, Dispatched
<1>2. m \in Message /\ current[e] \in Connection /\ received[e] \in Nat
  BY <1>1, TypeFacts, HeadTailProperties
<1>3. /\ m.position \in Nat /\ PositionOf(m) = m.position
  BY <1>1, <1>2, MessageTyped
<1>. DEFINE X == KeepAlive(FALSE, received[e])
<1>4. /\ Error \in Message /\ Error.type = "ERROR"
      /\ X \in Message /\ X.type = "KEEPALIVE" /\ PositionOf(X) = received[e]
  BY <1>2, Messages
<1>. HIDE DEF X, m
<1>5. E \in Seq(Message) /\ A \in Seq(Message)
      /\ (E = <<>> \/ E = <<Error>>) /\ (A = <<>> \/ A = <<X>>)
  <2>1. <<>> \in Seq(Message) /\ <<Error>> \in Seq(Message) /\ <<X>> \in Seq(Message)
    BY <1>4
  <2>2. E = <<>> \/ E = <<Error>>
    BY Zenon
  <2>3. A = <<>> \/ A = <<X>>
    BY Zenon DEF X
  <2>. HIDE DEF E, A
  <2>. QED BY <2>1, <2>2, <2>3
<1>. HIDE DEF E, A
<1>6. /\ E \o A \in Seq(Message)
      /\ \A i \in 1 .. Len(E \o A) : (E \o A)[i] \in {Error, X}
  <2>1. /\ Len(E \o A) = Len(E) + Len(A) /\ Len(E) \in Nat /\ Len(A) \in Nat
        /\ \A i \in 1 .. Len(E) + Len(A) :
              (E \o A)[i] = IF i <= Len(E) THEN E[i] ELSE A[i - Len(E)]
    BY <1>5, ConcatProperties
  <2>2. \A i \in 1 .. Len(E) : E[i] = Error
    BY <1>5
  <2>3. \A i \in 1 .. Len(A) : A[i] = X
    BY <1>5
  <2>4. \A i \in 1 .. Len(E) + Len(A) : i \in 1 .. Len(E) \/ i - Len(E) \in 1 .. Len(A)
    BY <2>1
  <2>5. ASSUME NEW i \in 1 .. Len(E) + Len(A)
        PROVE  (E \o A)[i] \in {Error, X}
    <3>1. CASE i <= Len(E)
      <4>1. i \in 1 .. Len(E)
        BY <2>1, <3>1
      <4>. QED BY <2>1, <2>2, <3>1, <4>1
    <3>2. CASE ~(i <= Len(E))
      <4>1. i - Len(E) \in 1 .. Len(A)
        BY <2>1, <3>2
      <4>. QED BY <2>1, <2>3, <3>2, <4>1
    <3>. QED BY <3>1, <3>2
  <2>. QED BY <1>5, <2>1, <2>5, ConcatProperties
<1>7. Trades(k, e, current[e], F) /\ F \in Seq(Message)
  BY <1>1, <1>2, <1>6, TradesApart, SentTyped
<1>8. \A i \in 1 .. Len(F) : F[i] \in {Error, X}
  <2>1. F = E \o A \/ F = <<>>
    BY <1>6, SentTyped
  <2>. QED BY <1>6, <2>1
<1>. HIDE DEF F
<1>9. \A i \in 1 .. Len(F) :
         /\ F[i].type \in {"ERROR", "KEEPALIVE"}
         /\ F[i].type = "KEEPALIVE" => PositionOf(F[i]) = received[e]
  BY <1>4, <1>8
<1>10. done' \in [End -> BOOLEAN]
  BY <1>1 DEF TypeOK
<1>. QED BY <1>1, <1>2, <1>3, <1>7, <1>9, <1>10 DEF m

LEMMA KeepAliveKeeps ==
    ASSUME Inv, NEW k \in Connection, NEW e \in End, HandlesKeepAlive(k, e)
    PROVE  Inv'
<1>. USE DEF Inv
<1>. DEFINE p == Peer(e)
            c == current[e]
            q == wire[k][e]
<1>1. PICK m \in Message, F \in Seq(Message) :
         /\ Open(k, e) /\ status[k][e] # "waiting" /\ q # <<>>
         /\ Head(q) = m /\ m.type = "KEEPALIVE"
         /\ m.position \in Nat /\ PositionOf(m) = m.position
         /\ Drop(e, m.position) /\ Trades(k, e, c, F)
         /\ \A i \in 1 .. Len(F) :
               /\ F[i].type \in {"ERROR", "KEEPALIVE"}
               /\ F[i].type = "KEEPALIVE" => PositionOf(F[i]) = received[e]
         /\ done' \in [End -> BOOLEAN]
         /\ UNCHANGED <<attempts, status, current, keepAlive, sent, received,
                        handled, timerVars, session, overlapped>>
  BY HandledKeepAlive
<1>. DEFINE x == m.position
<1>2. /\ UNCHANGED <<attempts, status, current, keepAlive, sent, received, handled,
                     reconnecting, timers, timeoutId, session, overlapped>>
      /\ \A d \in End : At(d)' = At(d)
  BY <1>1 DEF timerVars, At
<1>3. /\ p \in End /\ p # e /\ Peer(p) = e /\ (\A d \in End : d = e \/ d = p)
      /\ c \in Connection /\ q \in Seq(Message)
      /\ \A d \in End : At(d) \in Connection
  BY Peers, TypeFacts
<1>4. /\ shifted' \in [End -> {0} \cup Frame]
      /\ firstAvailable' \in [End -> Nat] /\ inconsistent' \in BOOLEAN
      /\ shifted'[e] = DropTo(e, x)
      /\ firstAvailable'[e] = IF Fits(e, x) THEN x ELSE firstAvailable[e]
      /\ inconsistent' <=> inconsistent \/ ~Fits(e, x)
      /\ shifted'[p] = shifted[p] /\ firstAvailable'[p] = firstAvailable[p]
  BY <1>1, Dropped
<1>5. TypeOK'
  BY <1>1, <1>2, <1>4 DEF TypeOK, Trades
<1>6. StatusInv' /\ QuietInv'
  BY <1>1, <1>2, <1>3, QuietTrades DEF StatusInv
<1>7. \A i \in 1 .. Len(F) : F[i] \in Message /\ F[i].type # "DATA"
  BY <1>1, ElementOfSeq
<1>8. HandshakeInv'
  <2>1. \A i \in 1 .. Len(F) : F[i] \in Offer
    BY <1>1, <1>7 DEF Offer
  <2>2. F \in Seq(Offer)
    BY <2>1
  <2>3. e = Server => p = Client
    BY Peers
  <2>. QED BY <1>1, <1>2, <1>3, <1>4, <2>2, <2>3, HandshakeTrades
<1>9. \A i \in 1 .. Len(F) : F[i].type \in Positional => PositionOf(F[i]) = received[e]
  BY <1>1 DEF Positional
<1>10. m.type \in Positional /\ m.type # "DATA"
  BY <1>1 DEF Positional
<1>. HIDE DEF q
<1>11. PositionsInv'
  <2>1. e = Client => F \in Seq(Known)
    <3>. SUFFICES ASSUME e = Client PROVE F \in Seq(Known)
      OBVIOUS
    <3>1. received[Client] = Position[Len(handled[Client])]
          /\ Len(handled[Client]) \in Nat
      BY TypeFacts, StreamFacts DEF StreamInv
    <3>2. Len(handled[Client]) \in 0 .. Len(handled[Client])
      BY <3>1
    <3>3. \A i \in 1 .. Len(F) : F[i] \in Known
      BY <1>7, <1>9, <3>1, <3>2 DEF Known
    <3>. QED BY <3>3
  <2>2. e = Server => F \in Seq(Under)
    <3>. SUFFICES ASSUME e = Server PROVE F \in Seq(Under)
      OBVIOUS
    <3>1. received[Server] \in Nat /\ received[Server] <= received[Server]
      BY TypeFacts
    <3>2. \A i \in 1 .. Len(F) : F[i] \in Under
      BY <1>7, <1>9, <3>1 DEF Under
    <3>. QED BY <3>2
  <2>3. Within(wire', Known, Under)
    BY <1>1, <1>3, <2>1, <2>2, WithinTrades DEF PositionsInv, q
  <2>4. Known' = Known /\ Under' = Under
    BY <1>2 DEF Known, Under
  <2>5. firstAvailable'[Client] <= received[Server]
    <3>1. firstAvailable[Client] <= received[Server]
      BY DEF PositionsInv
    <3>2. CASE e = Client
      <4>1. q \in Seq(Under)
        BY <3>2 DEF PositionsInv, Within, q
      <4>2. m \in Under
        BY <1>1, <4>1, HeadTailProperties
      <4>3. x <= received[Server]
        BY <1>1, <1>10, <4>2 DEF Under
      <4>. QED BY <1>4, <3>1, <3>2, <4>3
    <3>3. CASE e = Server
      BY <1>4, <3>1, <3>3, Peers
    <3>. QED BY <3>2, <3>3
  <2>. QED BY <1>2, <2>3, <2>4, <2>5 DEF PositionsInv
<1>12. \A j \in Connection, d \in End :
          \A from, whole : \A top \in Nat :
             FlowOf(wire[j][d], from, whole, top)
               => FlowOf(wire'[j][d], from, whole, top)
  <2>1. wire[k][e] # <<>> /\ Head(wire[k][e]).type # "DATA"
    BY <1>1, <1>10 DEF q
  <2>. QED BY <1>1, <1>3, <1>7, <2>1, TradeFlow
<1>20. \A j \in Connection, d \in End : \A low : \A t \in Nat :
          d # e /\ ClimbOf(wire[j][d], low, t) /\ Announces(F, Position[t])
            => ClimbOf(wire'[j][d], low, t)
  BY <1>1, <1>3, TradeClimb
<1>13. ASSUME NEW d \in End PROVE Flow(d) => Flow(d)'
  <2>1. At(d) \in Connection /\ sent[Peer(d)] \in Nat
    BY Peers, TypeFacts
  <2>2. Flow(d) => FlowOf(wire'[At(d)][d], Len(handled[d]),
                          Whole(At(d), Peer(d)), sent[Peer(d)])
    BY <1>12, <2>1 DEF Flow
  <2>. QED BY <1>2, <2>2 DEF Flow, Whole, Open
<1>14. ASSUME NEW d \in End PROVE Own(d) => Own(d)'
  BY <1>2 DEF Own
<1>15. Store(p) => Store(p)'
  BY <1>2, <1>4 DEF Store
\* The server's store takes whatever the client announces.
<1>16. e = Server => Store(e)'
  <2>. SUFFICES ASSUME e = Server PROVE Store(e)'
    OBVIOUS
  <2>. DEFINE top == Len(handled[p])
  <2>1. p = Client
    BY Peers
  <2>2. Stream(Client)
    BY DEF StreamInv
  <2>3. q \in Seq(Known)
    BY DEF PositionsInv, Within, q
  <2>4. PICK n \in 0 .. top : x = Position[n]
    <3>1. m \in Known
      BY <1>1, <2>3, HeadTailProperties
    <3>. QED BY <1>1, <1>10, <2>1, <3>1 DEF Known
  <2>5. /\ shifted[e] \in {0} \cup Frame /\ sent[e] \in {0} \cup Frame
        /\ firstAvailable[e] = Position[shifted[e]]
        /\ shifted[e] <= top /\ top <= sent[e] /\ top \in Nat
    BY <2>1, <2>2, Peers, TypeFacts DEF Stream, Own, Store
  <2>. HIDE DEF top, x
  <2>6. /\ DropTo(e, Position[n]) \in 0 .. top
        /\ (IF Fits(e, Position[n]) THEN Position[n] ELSE firstAvailable[e])
             = Position[DropTo(e, Position[n])]
    BY <2>5, DropKnown
  <2>7. shifted'[e] <= top /\ firstAvailable'[e] = Position[shifted'[e]]
    BY <1>4, <2>4, <2>6
  <2>. QED BY <1>2, <2>7 DEF Store, top
\* Without an overlap, the position is that of a frame still stored or of the
\* last one dropped.
<1>17. ASSUME ~overlapped
       PROVE  /\ Store(e)' /\ Climb(e)' /\ Fits(e, x)
              /\ Climb(p)'
  <2>. DEFINE top == Len(handled[p])
  <2>1. Stream(e) /\ Stream(p) /\ Climb(e) /\ Climb(p) /\ top \in Nat
    BY <1>3, <1>17, TypeFacts DEF StreamInv
  <2>2. k = At(e)
    BY <1>1, <1>17, DispatchedAt
  <2>3. ClimbOf(q, shifted[e], top)
    BY <2>1, <2>2 DEF Climb, q
  <2>4. PICK u \in 0 .. top : /\ shifted[e] <= u /\ ClimbOf(Tail(q), u, top)
                              /\ x = Position[u]
    <3>. HIDE DEF top
    <3>1. \E u \in 0 .. top : /\ shifted[e] <= u /\ ClimbOf(Tail(q), u, top)
                              /\ IF Head(q).type \in Positional
                                 THEN PositionOf(Head(q)) = Position[u]
                                 ELSE u = shifted[e]
      BY <1>1, <1>3, <2>1, <2>3, ClimbTakes
    <3>. QED BY <1>1, <1>10, <3>1
  <2>5. /\ shifted[e] \in {0} \cup Frame /\ sent[e] \in {0} \cup Frame
        /\ firstAvailable[e] = Position[shifted[e]] /\ top <= sent[e]
        /\ sent[e] \in Nat
    BY <1>3, <2>1, TypeFacts DEF Stream, Own, Store
  <2>. HIDE DEF top, x
  <2>6. u <= top /\ u <= sent[e] /\ u \in {0} \cup Frame
    <3>1. u \in 0 .. sent[e] /\ u <= top
      BY <2>1, <2>5
    <3>2. 0 .. sent[e] \subseteq {0} \cup Frame
      BY <2>5, Frames
    <3>. QED BY <3>1, <3>2
  <2>7. DropTo(e, x) = u /\ Fits(e, x)
    <3>1. DropTo(e, Position[u]) = u /\ Fits(e, Position[u])
      BY <2>4, <2>5, <2>6, DropFits
    <3>. QED BY <2>4, <3>1
  <2>8. Store(e)'
    <3>1. shifted'[e] = u /\ firstAvailable'[e] = Position[u]
      BY <1>4, <2>4, <2>7
    <3>. QED BY <1>2, <2>6, <3>1 DEF Store, top
  <2>9. Climb(e)'
    <3>1. wire'[k][e] = Tail(q) /\ shifted'[e] = u
      BY <1>1, <1>4, <2>7 DEF Trades, q
    <3>. QED BY <1>2, <2>2, <2>4, <3>1 DEF Climb, top
  <2>10. Climb(p)'
    <3>. DEFINE j == At(p)
                l == Len(handled[e])
    <3>1. ClimbOf(wire[j][p], shifted[p], l)
      BY <1>3, <2>1 DEF Climb
    <3>2. l \in Nat /\ j \in Connection /\ received[e] = Position[l]
      BY <1>3, <2>1, TypeFacts, StreamFacts
    <3>. HIDE DEF j, l
    <3>3. ClimbOf(wire'[j][p], shifted[p], l)
      <4>1. Announces(F, Position[l])
        BY <1>9, <3>2 DEF Announces
      <4>. QED BY <1>3, <1>20, <3>1, <3>2, <4>1
    <3>. QED BY <1>2, <1>3, <1>4, <3>3 DEF Climb, j, l
  <2>. QED BY <2>7, <2>8, <2>9, <2>10 DEF x
<1>. HIDE DEF x, p
<1>18. StreamInv'
  <2>1. Stream(Client)'
    <3>1. Store(Server)'
      <4>1. CASE e = Server
        BY <1>16, <4>1
      <4>2. CASE e = Client
        <5>1. p = Server
          BY <4>2, Peers DEF p
        <5>. QED BY <1>15, <5>1, Peers DEF StreamInv, Stream
      <4>. QED BY <4>1, <4>2
    <3>2. Own(Client)' /\ Flow(Client)'
      BY <1>13, <1>14, Peers DEF StreamInv, Stream
    <3>. QED BY <3>1, <3>2, Peers DEF Stream
  <2>2. ASSUME ~overlapped
        PROVE  Stream(Server)' /\ Climb(Client)' /\ Climb(Server)' /\ ~inconsistent'
    <3>1. Stream(Client) /\ Stream(Server) /\ ~inconsistent
      BY <2>2 DEF StreamInv
    <3>2. Store(e)' /\ Climb(e)' /\ Climb(p)' /\ ~inconsistent'
      BY <1>4, <1>17, <2>2, <3>1
    <3>3. Store(p)'
      <4>1. Stream(e)
        BY <3>1
      <4>. QED BY <1>15, <4>1 DEF Stream, p
    <3>4. Own(Server)' /\ Flow(Server)'
      BY <1>13, <1>14, <3>1, Peers DEF Stream
    <3>5. Client \in {e, p} /\ Server \in {e, p}
      BY <1>3, Peers
    <3>6. Store(Client)' /\ Climb(Client)' /\ Climb(Server)'
      BY <3>2, <3>3, <3>5
    <3>. QED BY <3>2, <3>4, <3>6, Peers DEF Stream
  <2>. QED BY <1>2, <2>1, <2>2 DEF StreamInv
<1>19. TimerInv'
  BY <1>2 DEF TimerInv, Open
<1>. QED BY <1>5, <1>6, <1>8, <1>11, <1>18, <1>19

-----------------------------------------------------------------------------
(* The steps of a reconnection                                             *)

LEMMA FlowAfter ==
    ASSUME NEW m \in Message, m.type # "DATA", NEW D \in Seq(Message),
           NEW top \in Nat, NEW from, NEW whole, FlowOf(D, from, whole, top)
    PROVE  FlowOf(<<m>> \o D, from, whole, top)
<1>1. PICK to \in 0 .. top : /\ Chain(D, DataStep, 0 .. top, from, to)
                             /\ whole => to = top
  BY DEF FlowOf
<1>2. from \in 0 .. top /\ from \in Nat
  BY <1>1, ChainEnds
<1>3. <<m, from, from>> \in DataStep
  BY <1>2, DataSteps
<1>4. Chain(<<m>>, DataStep, 0 .. top, from, from) /\ <<m>> \in Seq(Message)
  BY <1>2, <1>3, ChainOne
<1>5. Chain(<<m>> \o D, DataStep, 0 .. top, from, to)
  BY <1>1, <1>4, ChainJoin
<1>. QED BY <1>1, <1>5 DEF FlowOf

\* What drain sends once dropTo has dropped up to the frame of the position.
LEMMA DrainedFlow ==
    ASSUME TypeOK, NEW e \in End, NEW p, NEW from \in Nat, DropTo(e, p) = from,
           from <= sent[e]
    PROVE  /\ Drained(e, p) \in Seq(Message)
           /\ FlowOf(Drained(e, p), from, TRUE, sent[e])
           /\ \A i \in 1 .. Len(Drained(e, p)) : Drained(e, p)[i].type = "DATA"
<1>. DEFINE top == sent[e]
<1>1. top \in Nat /\ from \in 0 .. top /\ 1 .. top \subseteq Frame
  <2>1. top \in Nat /\ top \in {0} \cup Frame
    BY TypeFacts
  <2>2. 0 .. top \subseteq {0} \cup Frame
    BY <2>1, Frames
  <2>3. \A i \in 1 .. top : i \in 0 .. top /\ i # 0
    BY <2>1
  <2>. QED BY <2>1, <2>2, <2>3
<1>2. Drained(e, p) = [i \in 1 .. top - from |-> Data(from + i)]
  BY DEF Drained
<1>. HIDE DEF top
<1>3. /\ [i \in 1 .. top - from |-> Data(from + i)] \in Seq(Message)
      /\ FlowOf([i \in 1 .. top - from |-> Data(from + i)], from, TRUE, top)
      /\ \A i \in 1 .. Len([j \in 1 .. top - from |-> Data(from + j)]) :
            [j \in 1 .. top - from |-> Data(from + j)][i].type = "DATA"
  BY <1>1, FlowDrains
<1>. QED BY <1>2, <1>3 DEF top

\* Whatever dropTo has dropped, drain sends frames of data.
LEMMA DrainedTyped ==
    ASSUME TypeOK, NEW e \in End, NEW p \in Nat
    PROVE  /\ Drained(e, p) \in Seq(Message)
           /\ \A i \in 1 .. Len(Drained(e, p)) : Drained(e, p)[i].type = "DATA"
<1>. DEFINE from == DropTo(e, p)
            top == sent[e]
<1>1. from \in {0} \cup Frame /\ from \in Nat /\ top \in Nat
  BY TypeFacts, DropTyped, Frames
<1>2. CASE from <= top
  BY <1>1, <1>2, DrainedFlow
<1>3. CASE ~(from <= top)
  <2>1. 1 .. top - from = {} /\ 1 .. 0 = {}
    BY <1>1, <1>3
  <2>2. Drained(e, p) = [i \in 1 .. top - from |-> Data(from + i)]
    BY DEF Drained
  <2>. HIDE DEF from, top
  <2>3. Drained(e, p) \in [1 .. 0 -> Message]
    BY <2>1, <2>2
  <2>. DEFINE D == Drained(e, p)
  <2>. HIDE DEF D
  <2>4. D \in Seq(Message) /\ Len(D) = 0
    BY <2>3 DEF D
  <2>. QED BY <2>1, <2>4 DEF D
<1>. QED BY <1>2, <1>3

\* The frame on the way to the server is the RESUME frame, which it accepts.
LEMMA ResumeFits ==
    ASSUME Inv, NEW k \in Connection, Open(k, Server),
           status[k][Server] = "waiting", wire[k][Server] # <<>>
    PROVE  LET m == Head(wire[k][Server])
               l == Len(handled[Client])
           IN /\ k = attempts /\ wire[k][Client] = <<>>
              /\ Tail(wire[k][Server]) = <<>>
              /\ received[Server] >= m.client
              /\ m.server = Position[l] /\ m.server \in Nat
              /\ DropTo(Server, m.server) = l /\ Fits(Server, m.server)
              /\ l <= sent[Server] /\ l \in Nat
<1>. USE DEF Inv
<1>. DEFINE m == Head(wire[k][Server])
            l == Len(handled[Client])
            r == ResumeFrame(firstAvailable[Client], received[Client])
<1>1. k = attempts
  BY Connections
<1>2. firstAvailable[Client] \in Nat /\ received[Client] \in Nat
      /\ received[Server] \in Nat
  BY TypeFacts
<1>3. wire[k][Client] = <<>> /\ wire[k][Server] = <<r>>
  BY <1>1 DEF HandshakeInv
<1>4. r.server = received[Client] /\ r.client = firstAvailable[Client]
  BY <1>2, Messages
<1>. HIDE DEF r
<1>5. m = r /\ Tail(wire[k][Server]) = <<>>
  BY <1>3
<1>6. received[Server] >= r.client
  BY <1>2, <1>4 DEF PositionsInv
<1>7. /\ l \in {0} \cup Frame /\ l \in Nat /\ received[Client] = Position[l]
      /\ l \in 0 .. sent[Server] /\ shifted[Server] <= l
      /\ firstAvailable[Server] = Position[shifted[Server]]
      /\ sent[Server] \in {0} \cup Frame /\ shifted[Server] \in {0} \cup Frame
      /\ sent[Server] \in Nat
  BY StreamFacts, TypeFacts, Peers DEF StreamInv, Stream, Store
<1>. HIDE DEF l
<1>8. l <= sent[Server]
  BY <1>7
<1>9. DropTo(Server, Position[l]) = l /\ Fits(Server, Position[l])
  BY <1>7, <1>8, Peers, DropFits
<1>. QED BY <1>1, <1>2, <1>3, <1>4, <1>5, <1>6, <1>7, <1>8, <1>9 DEF l

\* A RESUME frame is accepted: the facts of the step.
LEMMA Resumed ==
    ASSUME Inv, NEW k \in Connection, Resumes(k)
    PROVE  LET l == Len(handled[Client])
               F == Sent(k, Server, <<ResumeOk(received[Server])>>
                                      \o Drained(Server, Position[l]))
           IN /\ Open(k, Server) /\ status[k][Server] = "waiting"
              /\ wire[k][Server] # <<>>
              /\ status' = [status EXCEPT ![k][Server] = "attached"]
              /\ current' = [current EXCEPT ![Server] = k]
              /\ Trades(k, Server, k, F)
              /\ keepAlive' \in [End -> {"running", "paused", "closed"}]
              /\ done' \in [End -> BOOLEAN]
              /\ shifted' \in [End -> {0} \cup Frame]
              /\ firstAvailable' \in [End -> Nat]
              /\ shifted'[Server] = l /\ firstAvailable'[Server] = Position[l]
              /\ shifted'[Client] = shifted[Client]
              /\ firstAvailable'[Client] = firstAvailable[Client]
              /\ inconsistent' = inconsistent
              /\ timers' = timers \ {timeoutId}
              /\ overlapped' = (overlapped \/ \E j \in 1 .. k - 1 : Open(j, Server))
              /\ UNCHANGED <<attempts, sent, received, handled, reconnecting,
                             timeoutId, session>>
<1>. USE DEF Inv
<1>. DEFINE l == Len(handled[Client])
            m == Head(wire[k][Server])
            X == <<ResumeOk(received[Server])>> \o Drained(Server, m.server)
            known == received[Server] >= m.client
            fits == known /\ Fits(Server, m.server)
<1>1. /\ Open(k, Server) /\ status[k][Server] = "waiting" /\ wire[k][Server] # <<>>
      /\ IF known THEN Drop(Server, m.server)
         ELSE inconsistent' = TRUE /\ UNCHANGED <<shifted, firstAvailable>>
      /\ TakeAndSend(k, Server, IF fits THEN X ELSE <<Error>>)
      /\ status' = [status EXCEPT ![k][Server] = IF fits THEN "attached"
                                                         ELSE "adopted"]
      /\ keepAlive' = IF fits THEN [keepAlive EXCEPT ![Server] = Start(@)]
                              ELSE keepAlive
      /\ done' = [done EXCEPT ![Server] = @ \/ ~fits]
      /\ current' = [current EXCEPT ![Server] = k]
      /\ timers' = timers \ {timeoutId}
      /\ overlapped' = (overlapped \/ \E j \in 1 .. k - 1 : Open(j, Server))
      /\ UNCHANGED <<attempts, sent, received, handled, reconnecting, timeoutId,
                     session>>
  BY DEF Resumes
<1>2. /\ known /\ Fits(Server, m.server) /\ m.server = Position[l]
      /\ m.server \in Nat /\ DropTo(Server, m.server) = l /\ l <= sent[Server]
      /\ l \in Nat
  BY <1>1, ResumeFits
<1>. HIDE DEF known
<1>3. fits
  BY <1>2
<1>. HIDE DEF fits, X
<1>4. /\ TakeAndSend(k, Server, X) /\ Drop(Server, m.server)
      /\ status' = [status EXCEPT ![k][Server] = "attached"]
      /\ keepAlive' = [keepAlive EXCEPT ![Server] = Start(@)]
  BY <1>1, <1>2, <1>3
<1>5. keepAlive' \in [End -> {"running", "paused", "closed"}]
      /\ done' \in [End -> BOOLEAN]
  <2>1. /\ keepAlive \in [End -> {"running", "paused", "closed"}]
        /\ done \in [End -> BOOLEAN]
    BY DEF TypeOK
  <2>2. keepAlive' \in [End -> {"running", "paused", "closed"}]
    BY <1>4, <2>1 DEF Start
  <2>3. done' \in [End -> BOOLEAN]
    BY <1>1, <2>1
  <2>. QED BY <2>2, <2>3
<1>. HIDE DEF m
<1>6. /\ shifted' \in [End -> {0} \cup Frame] /\ firstAvailable' \in [End -> Nat]
      /\ inconsistent' \in BOOLEAN
      /\ shifted'[Server] = l /\ firstAvailable'[Server] = m.server
      /\ inconsistent' <=> inconsistent
      /\ shifted'[Client] = shifted[Client]
      /\ firstAvailable'[Client] = firstAvailable[Client]
  BY <1>2, <1>4, Dropped, Peers
<1>7. inconsistent' = inconsistent
  <2>1. inconsistent \in BOOLEAN
    BY DEF TypeOK
  <2>. QED BY <1>6, <2>1
<1>8. X \in Seq(Message)
  <2>1. Drained(Server, m.server) \in Seq(Message)
    BY <1>2, DrainedTyped, Peers
  <2>2. ResumeOk(received[Server]) \in Message
    BY TypeFacts, Messages, Peers
  <2>. DEFINE r == ResumeOk(received[Server])
              D == Drained(Server, m.server)
  <2>. HIDE DEF r, D
  <2>3. <<r>> \in Seq(Message)
    BY <2>2 DEF r
  <2>4. <<r>> \o D \in Seq(Message)
    BY <2>1, <2>3, ConcatProperties DEF D
  <2>. QED BY <2>4 DEF X, r, D
<1>9. Trades(k, Server, k, Sent(k, Server, X))
  BY <1>1, <1>4, <1>8, TradesSent, Peers
<1>10. X = <<ResumeOk(received[Server])>> \o Drained(Server, Position[l])
  BY <1>2 DEF X
<1>. QED BY <1>1, <1>2, <1>4, <1>5, <1>6, <1>7, <1>9, <1>10

\* What is sent with RESUME_OK.
LEMMA ResumeOkSent ==
    ASSUME Inv, NEW k \in Connection, Open(k, Server), status[k][Server] = "waiting"
    PROVE  LET l == Len(handled[Client])
               F == Sent(k, Server, <<ResumeOk(received[Server])>>
                                      \o Drained(Server, Position[l]))
           IN /\ F \in Seq(Message)
              /\ \A i \in 1 .. Len(F) : \/ F[i].type = "DATA"
                                        \/ F[i] = ResumeOk(received[Server])
              /\ FlowOf(F, l, Open(k, Client), sent[Server])
<1>. USE DEF Inv
<1>. DEFINE l == Len(handled[Client])
            r == ResumeOk(received[Server])
            D == Drained(Server, Position[l])
            X == <<r>> \o D
            F == Sent(k, Server, X)
<1>1. /\ l \in {0} \cup Frame /\ l \in Nat /\ l \in 0 .. sent[Server]
      /\ shifted[Server] <= l
      /\ firstAvailable[Server] = Position[shifted[Server]]
      /\ sent[Server] \in {0} \cup Frame /\ shifted[Server] \in {0} \cup Frame
      /\ sent[Server] \in Nat
  BY StreamFacts, TypeFacts, Peers DEF StreamInv, Stream, Store
<1>2. r \in Message /\ r.type = "RESUME_OK"
  BY TypeFacts, Messages, Peers
<1>. HIDE DEF l, r
<1>3. l <= sent[Server]
  BY <1>1
<1>4. DropTo(Server, Position[l]) = l
  BY <1>1, <1>3, Peers, DropFits
<1>5. /\ D \in Seq(Message) /\ FlowOf(D, l, TRUE, sent[Server])
      /\ \A i \in 1 .. Len(D) : D[i].type = "DATA"
  BY <1>1, <1>3, <1>4, DrainedFlow, Peers
<1>. HIDE DEF D
<1>6. FlowOf(X, l, TRUE, sent[Server])
  BY <1>1, <1>2, <1>5, FlowAfter
<1>7. /\ X \in Seq(Message)
      /\ \A i \in 1 .. Len(X) : X[i].type = "DATA" \/ X[i] = r
  <2>1. <<r>> \in Seq(Message) /\ Len(<<r>>) = 1 /\ <<r>>[1] = r
    BY <1>2
  <2>2. /\ X \in Seq(Message) /\ Len(X) = 1 + Len(D) /\ Len(D) \in Nat
        /\ \A i \in 1 .. 1 + Len(D) :
              X[i] = IF i <= 1 THEN <<r>>[i] ELSE D[i - 1]
    BY <1>5, <2>1, ConcatProperties
  <2>. HIDE DEF X
  <2>. SUFFICES ASSUME NEW i \in 1 .. Len(X)
                PROVE  X[i].type = "DATA" \/ X[i] = r
    BY <2>2
  <2>3. CASE i <= 1
    <3>1. i = 1
      BY <2>2, <2>3
    <3>2. X[1] = <<r>>[1]
      BY <2>2, <3>1
    <3>. QED BY <2>1, <3>1, <3>2
  <2>4. CASE ~(i <= 1)
    <3>1. i - 1 \in 1 .. Len(D) /\ i \in 1 .. 1 + Len(D)
      BY <2>2, <2>4
    <3>2. X[i] = D[i - 1]
      BY <2>2, <2>4, <3>1
    <3>. QED BY <1>5, <3>1, <3>2
  <2>. QED BY <2>3, <2>4
<1>. HIDE DEF X
<1>8. (F = X \/ F = <<>>) /\ F \in Seq(Message) /\ (Open(k, Client) => F = X)
      /\ (~Open(k, Client) => F = <<>>)
  BY <1>7, SentTyped, Peers DEF Sent
<1>9. FlowOf(F, l, Open(k, Client), sent[Server])
  <2>1. CASE Open(k, Client)
    <3>1. FlowOf(X, l, Open(k, Client), sent[Server])
      BY <1>6, <2>1 DEF FlowOf
    <3>. QED BY <1>8, <2>1, <3>1
  <2>2. CASE ~Open(k, Client)
    <3>1. FlowOf(<<>>, l, Open(k, Client), sent[Server])
      BY <1>1, <2>2, FlowNone
    <3>. QED BY <1>8, <2>2, <3>1
  <2>. QED BY <2>1, <2>2
<1>. HIDE DEF F
<1>10. \A i \in 1 .. Len(F) : F[i].type = "DATA" \/ F[i] = r
  BY <1>7, <1>8
<1>. QED BY <1>8, <1>9, <1>10 DEF F, X, D, l, r

LEMMA ResumesKeeps ==
    ASSUME Inv, NEW k \in Connection, Resumes(k)
    PROVE  Inv'
<1>. USE DEF Inv
<1>. DEFINE l == Len(handled[Client])
            r == ResumeOk(received[Server])
            F == Sent(k, Server, <<r>> \o Drained(Server, Position[l]))
<1>1. /\ Open(k, Server) /\ status[k][Server] = "waiting"
      /\ wire[k][Server] # <<>>
      /\ status' = [status EXCEPT ![k][Server] = "attached"]
      /\ current' = [current EXCEPT ![Server] = k]
      /\ Trades(k, Server, k, F)
      /\ keepAlive' \in [End -> {"running", "paused", "closed"}]
      /\ done' \in [End -> BOOLEAN]
      /\ shifted' \in [End -> {0} \cup Frame]
      /\ firstAvailable' \in [End -> Nat]
      /\ shifted'[Server] = l /\ firstAvailable'[Server] = Position[l]
      /\ shifted'[Client] = shifted[Client]
      /\ firstAvailable'[Client] = firstAvailable[Client]
      /\ inconsistent' = inconsistent
      /\ timers' = timers \ {timeoutId}
      /\ overlapped' = (overlapped \/ \E j \in 1 .. k - 1 : Open(j, Server))
      /\ UNCHANGED <<attempts, sent, received, handled, reconnecting, timeoutId,
                     session>>
  BY Resumed
<1>2. /\ F \in Seq(Message) /\ FlowOf(F, l, Open(k, Client), sent[Server])
      /\ \A i \in 1 .. Len(F) : F[i].type = "DATA" \/ F[i] = r
  BY <1>1, ResumeOkSent
<1>3. /\ k = attempts /\ wire[k][Client] = <<>> /\ Tail(wire[k][Server]) = <<>>
  BY <1>1, ResumeFits
<1>4. /\ k \in Nat /\ attempts \in Connection
      /\ \A e \in End : current[e] \in Connection
      /\ \A j \in Connection : j \in Nat
      /\ received[Server] \in Nat /\ received[Client] \in Nat
      /\ ~(Open(k, Client) /\ current[Client] = k)
  BY <1>1, Connections, TypeFacts, Peers
<1>5. r \in Message /\ r.type = "RESUME_OK" /\ r.client = received[Server]
      /\ PositionOf(r) = received[Server]
  BY <1>4, Messages
<1>. HIDE DEF F, r
<1>6. /\ wire'[k][Server] = <<>> /\ wire'[k][Client] = F
      /\ \A j \in Connection, d \in End : j # k => wire'[j][d] = wire[j][d]
      /\ wire' \in [Connection -> [End -> Seq(Message)]]
  <2>1. <<>> \o F = F
    BY <1>2, ConcatEmptySeq
  <2>. QED BY <1>1, <1>3, <2>1, Peers, ZenonT(60) DEF Trades
<1>7. /\ status'[k][Server] = "attached"
      /\ \A j \in Connection, d \in End :
            j # k \/ d # Server => status'[j][d] = status[j][d]
      /\ status' \in [Connection -> [End -> {"waiting", "attached", "adopted",
                                             "closed"}]]
  BY <1>1, StatusEnds, Peers
<1>8. /\ current'[Server] = k /\ current'[Client] = current[Client]
      /\ current' \in [End -> Connection]
  <2>1. current \in [End -> Connection]
    BY DEF TypeOK
  <2>. QED BY <1>1, <2>1
<1>9. overlapped' \in BOOLEAN /\ (overlapped => overlapped')
      /\ (~overlapped' => \A j \in 1 .. k - 1 : ~Open(j, Server))
  BY <1>1
<1>10. TypeOK'
  <2>1. timers' \subseteq Connection
    BY <1>1 DEF TypeOK
  <2>. QED BY <1>1, <1>6, <1>7, <1>8, <1>9, <2>1 DEF TypeOK
<1>11. StatusInv'
  <2>1. \A j \in Connection :
           /\ j < attempts => /\ status'[j][Client] = "closed"
                              /\ status'[j][Server] # "waiting"
           /\ j > attempts => \A e \in End : status'[j][e] = "waiting"
           /\ \A e \in End : status'[j][e] # "adopted"
    BY <1>3, <1>4, <1>7 DEF StatusInv
  <2>2. current'[Client] <= attempts /\ current'[Server] = attempts
    BY <1>3, <1>8 DEF StatusInv
  <2>3. \A e \in End : status'[current'[e]][e] # "waiting"
    <3>1. status'[current'[Client]][Client] = status[current[Client]][Client]
      BY <1>4, <1>7, <1>8, Peers
    <3>2. status[current[Client]][Client] # "waiting"
      BY DEF StatusInv
    <3>. QED BY <1>7, <1>8, <3>1, <3>2
  <2>4. status'[attempts][Client] = status[attempts][Client]
    BY <1>4, <1>7, Peers
  <2>5. /\ status'[attempts][Client] = "attached" => current'[Client] = attempts
        /\ reconnecting => status'[attempts][Client] = "closed"
    BY <1>8, <2>4 DEF StatusInv
  <2>6. ~overlapped' => \A j \in Connection : j < attempts
                           => status'[j][Server] = "closed"
    <3>. SUFFICES ASSUME ~overlapped', NEW j \in Connection, j < attempts
                  PROVE  status'[j][Server] = "closed"
      OBVIOUS
    <3>1. j \in 1 .. k - 1 /\ j <= attempts
      <4>1. j \in Nat /\ j >= 1 /\ k \in Nat /\ attempts \in Nat
        BY <1>3, <1>4 DEF Connection
      <4>. QED BY <1>3, <4>1
    <3>2. status[j][Server] = "closed"
      BY <1>9, <3>1 DEF Open
    <3>. QED BY <1>3, <1>4, <1>7, <3>2
  <2>. QED BY <1>1, <2>1, <2>2, <2>3, <2>5, <2>6 DEF StatusInv
<1>12. QuietInv'
  <2>1. \A j \in Connection, d \in End :
           status'[j][d] = "closed" => status[j][d] = "closed"
    BY <1>7
  <2>. QED BY <1>1, <2>1, QuietTrades, Peers
<1>13. HandshakeInv'
  <2>1. \A m \in Message : m.type = "RESUME_OK" /\ m.client = received[Server]
                             => m \in Offer'
    BY <1>1, <1>3, <1>8 DEF Offer
  <2>2. \A m \in Message : m.type = "DATA" => m \in Offer'
    BY DEF Offer
  <2>3. \A i \in 1 .. Len(F) : F[i] \in Offer'
    <3>1. \A i \in 1 .. Len(F) : F[i] \in Message
      BY <1>2, ElementOfSeq
    <3>. QED BY <1>2, <1>5, <2>1, <2>2, <3>1
  <2>4. F \in Seq(Offer')
    BY <1>2, <2>3
  <2>5. /\ wire'[attempts][Client] \in Seq(Offer')
        /\ wire'[attempts][Server] = <<>> /\ status'[attempts][Server] = "attached"
    BY <1>3, <1>6, <1>7, <2>4
  <2>. QED BY <1>1, <2>5 DEF HandshakeInv
<1>14. PositionsInv'
  <2>1. Known' = Known /\ Under' = Under
    BY <1>1 DEF Known, Under
  <2>2. \A i \in 1 .. Len(F) : F[i] \in Under
    <3>1. \A i \in 1 .. Len(F) : F[i] \in Message
      BY <1>2, ElementOfSeq
    <3>2. \A m \in Message : m.type = "DATA" => m \in Under
      BY DEF Under, Positional
    <3>3. r \in Under
      <4>1. received[Server] <= received[Server]
        BY <1>4
      <4>. QED BY <1>5, <4>1 DEF Under
    <3>. QED BY <1>2, <3>1, <3>2, <3>3
  <2>3. F \in Seq(Under)
    BY <1>2, <2>2
  <2>4. Within(wire', Known, Under)
    BY <1>1, <2>3, Peers, WithinTrades DEF PositionsInv
  <2>. QED BY <1>1, <2>1, <2>4 DEF PositionsInv
<1>15. Stream(Client) /\ l \in Nat /\ l \in 0 .. sent[Server] /\ l <= sent[Server]
       /\ l <= l /\ \A d \in End : sent[d] \in Nat
  <2>1. Stream(Client) /\ l \in Nat /\ sent[Server] \in Nat
        /\ \A d \in End : sent[d] \in Nat
    BY TypeFacts, Peers DEF StreamInv
  <2>2. l \in 0 .. sent[Server]
    BY <2>1, StreamFacts, Peers
  <2>. QED BY <2>1, <2>2
<1>16. \A d \in End : Open(k, d)' <=> Open(k, d)
  <2>1. \A d \in End : status'[k][d] = "closed" <=> status[k][d] = "closed"
    BY <1>1, <1>7
  <2>. QED BY <1>1, <2>1 DEF Open
<1>17. Stream(Client)'
  <2>1. Own(Client)'
    BY <1>1, <1>15 DEF Stream, Own
  <2>2. Store(Server)'
    BY <1>1, <1>15, Peers DEF Store
  <2>3. Flow(Client)'
    <3>1. Whole(k, Server)' => Open(k, Client)
      BY <1>16, Peers DEF Whole
    <3>2. At(Client)' = k
      BY <1>1, <1>3 DEF At
    <3>3. FlowOf(F, l, Whole(k, Server)', sent[Server])
      BY <1>2, <3>1 DEF FlowOf
    <3>. QED BY <1>1, <1>6, <3>2, <3>3, Peers DEF Flow
  <2>. QED BY <2>1, <2>2, <2>3, Peers DEF Stream
<1>18. ASSUME ~overlapped'
       PROVE  /\ Stream(Server)' /\ Climb(Client)' /\ Climb(Server)'
              /\ ~inconsistent'
  <2>. DEFINE n == Len(handled[Server])
  <2>1. Stream(Server) /\ Climb(Client) /\ ~inconsistent
    BY <1>9, <1>18 DEF StreamInv
  <2>2. /\ n \in 0 .. sent[Client] /\ n \in Nat /\ received[Server] = Position[n]
        /\ shifted[Client] <= n /\ shifted[Client] \in Nat
    BY <2>1, StreamFacts, TypeFacts, Peers
  <2>3. Stream(Server)'
    <3>1. Own(Server)'
      BY <1>1, <2>1 DEF Stream, Own
    <3>2. Store(Client)'
      BY <1>1, <2>1, Peers DEF Stream, Store
    <3>3. Flow(Server)'
      <4>1. ~Whole(k, Client)'
        BY <1>4, <1>8, <1>16 DEF Whole
      <4>2. At(Server)' = k
        BY <1>8, Peers DEF At
      <4>3. FlowOf(<<>>, n, Whole(k, Client)', sent[Client])
        BY <1>15, <2>2, <4>1, FlowNone
      <4>. QED BY <1>1, <1>6, <4>2, <4>3, Peers DEF Flow
    <3>. QED BY <3>1, <3>2, <3>3, Peers DEF Stream
  <2>4. Climb(Client)'
    <3>1. At(Client)' = k
      BY <1>1, <1>3 DEF At
    <3>2. ClimbOf(<<>>, shifted[Client], n)
      <4>1. shifted[Client] \in 0 .. n
        BY <2>2
      <4>. QED BY <2>2, <4>1, ClimbNone
    <3>3. \A i \in 1 .. Len(F) : F[i].type \in Positional
                                   => PositionOf(F[i]) = Position[n]
      <4>1. \A i \in 1 .. Len(F) : F[i].type = "DATA" => F[i].type \notin Positional
        BY DEF Positional
      <4>. QED BY <1>2, <1>5, <2>2, <4>1
    <3>. HIDE DEF n
    <3>4. ClimbOf(<<>> \o F, shifted[Client], n)
      BY <1>2, <2>2, <3>2, <3>3, Singles, ClimbJoins
    <3>5. <<>> \o F = F
      BY <1>2, ConcatEmptySeq
    <3>6. ClimbOf(F, shifted[Client], n)
      BY <3>4, <3>5
    <3>. QED BY <1>1, <1>6, <3>1, <3>6, Peers DEF Climb, n
  <2>5. Climb(Server)'
    <3>1. At(Server)' = k
      BY <1>8, Peers DEF At
    <3>2. l \in 0 .. l
      BY <1>15
    <3>3. ClimbOf(<<>>, l, l)
      BY <1>15, <3>2, ClimbNone
    <3>. QED BY <1>1, <1>6, <3>1, <3>3, Peers DEF Climb
  <2>. QED BY <1>1, <2>1, <2>3, <2>4, <2>5
<1>19. StreamInv'
  BY <1>17, <1>18 DEF StreamInv
<1>20. TimerInv'
  <2>1. ~overlapped' => timers' = {}
    BY <1>1, <1>9 DEF TimerInv
  <2>. QED BY <2>1 DEF TimerInv
<1>. QED BY <1>10, <1>11, <1>12, <1>13, <1>14, <1>19, <1>20

\* The facts of the step that takes RESUME_OK.
LEMMA Continued ==
    ASSUME Inv, NEW k \in Connection, HandlesResumeOk(k)
    PROVE  \E m \in Message, F \in Seq(Message) :
              /\ k = attempts /\ Open(k, Client) /\ status[k][Client] = "waiting"
              /\ wire[k][Client] # <<>> /\ m = Head(wire[k][Client])
              /\ m.type = "RESUME_OK" /\ m.client \in Nat
              /\ PositionOf(m) = m.client
              /\ current[Server] = k /\ wire[k][Server] = <<>>
              /\ ~overlapped => m.client = received[Server]
              /\ Drop(Client, m.client) /\ Trades(k, Client, k, F)
              /\ \A i \in 1 .. Len(F) : F[i].type \in {"DATA", "ERROR"}
              /\ Fits(Client, m.client)
                   => F = Sent(k, Client, Drained(Client, m.client))
              /\ status' = [status EXCEPT ![k][Client] = "attached"]
              /\ current' = [current EXCEPT ![Client] = k]
              /\ keepAlive' \in [End -> {"running", "paused", "closed"}]
              /\ done' \in [End -> BOOLEAN]
              /\ UNCHANGED <<attempts, sent, received, handled, reconnecting, timers,
                             timeoutId, session, overlapped>>
<1>. USE DEF Inv
<1>. DEFINE m == Head(wire[k][Client])
            fits == Fits(Client, m.client)
            E == IF fits THEN <<>> ELSE <<Error>>
            D == Drained(Client, m.client)
            F == Sent(k, Client, E \o D)
<1>1. /\ Open(k, Client) /\ status[k][Client] = "waiting"
      /\ wire[k][Client] # <<>> /\ m.type = "RESUME_OK"
      /\ Drop(Client, m.client) /\ TakeAndSend(k, Client, E \o D)
      /\ status' = [status EXCEPT ![k][Client] = "attached"]
      /\ current' = [current EXCEPT ![Client] = k]
      /\ keepAlive' = [keepAlive EXCEPT ![Client] = Start(@)]
      /\ done' = [done EXCEPT ![Client] = @ \/ ~fits]
      /\ UNCHANGED <<attempts, sent, received, handled, reconnecting, timers,
                     timeoutId, session, overlapped>>
  BY DEF HandlesResumeOk, Continues, timerVars
<1>2. k = attempts
  BY <1>1, Connections
<1>3. m \in Offer /\ m \in Message
  <2>1. wire[k][Client] \in Seq(Offer)
    BY <1>2 DEF HandshakeInv
  <2>2. m \in Offer
    BY <1>1, <2>1, HeadTailProperties
  <2>. QED BY <2>2 DEF Offer
<1>4. /\ current[Server] = k
      /\ ~overlapped => m.client = received[Server]
  BY <1>1, <1>2, <1>3 DEF Offer
<1>5. wire[k][Server] = <<>>
  BY <1>1, <1>2, <1>4 DEF HandshakeInv
<1>6. m.client \in Nat /\ PositionOf(m) = m.client
  BY <1>1, <1>3, MessageTyped
<1>7. /\ keepAlive' \in [End -> {"running", "paused", "closed"}]
      /\ done' \in [End -> BOOLEAN]
  <2>1. /\ keepAlive \in [End -> {"running", "paused", "closed"}]
        /\ done \in [End -> BOOLEAN]
    BY DEF TypeOK
  <2>. HIDE DEF fits
  <2>2. keepAlive' \in [End -> {"running", "paused", "closed"}]
    BY <1>1, <2>1 DEF Start
  <2>3. done' \in [End -> BOOLEAN]
    BY <1>1, <2>1
  <2>. QED BY <2>2, <2>3
<1>8. /\ D \in Seq(Message) /\ \A i \in 1 .. Len(D) : D[i].type = "DATA"
  BY <1>6, DrainedTyped, Peers
<1>. HIDE DEF m, D, fits
<1>9. /\ E \in Seq(Message) /\ \A i \in 1 .. Len(E) : E[i].type = "ERROR"
      /\ fits => E = <<>>
  <2>1. \A i \in 1 .. Len(<<Error>>) : <<Error>>[i] = Error
    OBVIOUS
  <2>2. \A i \in 1 .. Len(<<>>) : FALSE
    OBVIOUS
  <2>3. CASE fits
    BY <2>2, <2>3, Singles
  <2>4. CASE ~fits
    BY <2>1, <2>4, Singles, Messages
  <2>. QED BY <2>3, <2>4
<1>. HIDE DEF E
<1>10. /\ E \o D \in Seq(Message)
       /\ \A i \in 1 .. Len(E \o D) : (E \o D)[i].type \in {"DATA", "ERROR"}
  <2>1. /\ E \o D \in Seq(Message) /\ Len(E \o D) = Len(E) + Len(D)
        /\ Len(E) \in Nat /\ Len(D) \in Nat
        /\ \A i \in 1 .. Len(E) + Len(D) :
              (E \o D)[i] = IF i <= Len(E) THEN E[i] ELSE D[i - Len(E)]
    BY <1>8, <1>9, ConcatProperties
  <2>2. ASSUME NEW i \in 1 .. Len(E) + Len(D)
        PROVE  (E \o D)[i].type \in {"DATA", "ERROR"}
    <3>1. CASE i <= Len(E)
      <4>1. i \in 1 .. Len(E)
        BY <2>1, <3>1
      <4>2. (E \o D)[i] = E[i]
        BY <2>1, <3>1
      <4>. QED BY <1>9, <4>1, <4>2
    <3>2. CASE ~(i <= Len(E))
      <4>1. i - Len(E) \in 1 .. Len(D)
        BY <2>1, <3>2
      <4>2. (E \o D)[i] = D[i - Len(E)]
        BY <2>1, <3>2
      <4>. QED BY <1>8, <4>1, <4>2
    <3>. QED BY <3>1, <3>2
  <2>. QED BY <2>1, <2>2
<1>11. Trades(k, Client, k, F)
  BY <1>1, <1>10, TradesSent, Peers
<1>12. (F = E \o D \/ F = <<>>) /\ F \in Seq(Message)
  BY <1>10, SentTyped, Peers
<1>13. fits => F = Sent(k, Client, D)
  <2>1. fits => E \o D = D
    BY <1>8, <1>9, ConcatEmptySeq
  <2>. QED BY <2>1
<1>. HIDE DEF F
<1>14. \A i \in 1 .. Len(F) : F[i].type \in {"DATA", "ERROR"}
  BY <1>10, <1>12, SMTT(60)
<1>. QED BY <1>1, <1>2, <1>3, <1>4, <1>5, <1>6, <1>7, <1>11, <1>12, <1>13, <1>14
         DEF m, D, fits

LEMMA ContinuesKeeps ==
    ASSUME Inv, NEW k \in Connection, HandlesResumeOk(k)
    PROVE  Inv'
<1>. USE DEF Inv
<1>. DEFINE q == wire[k][Client]
            l == Len(handled[Server])
<1>1. PICK m \in Message, F \in Seq(Message) :
         /\ k = attempts /\ Open(k, Client) /\ status[k][Client] = "waiting"
         /\ q # <<>> /\ m = Head(q)
         /\ m.type = "RESUME_OK" /\ m.client \in Nat
         /\ PositionOf(m) = m.client
         /\ current[Server] = k /\ wire[k][Server] = <<>>
         /\ ~overlapped => m.client = received[Server]
         /\ Drop(Client, m.client) /\ Trades(k, Client, k, F)
         /\ \A i \in 1 .. Len(F) : F[i].type \in {"DATA", "ERROR"}
         /\ Fits(Client, m.client)
              => F = Sent(k, Client, Drained(Client, m.client))
         /\ status' = [status EXCEPT ![k][Client] = "attached"]
         /\ current' = [current EXCEPT ![Client] = k]
         /\ keepAlive' \in [End -> {"running", "paused", "closed"}]
         /\ done' \in [End -> BOOLEAN]
         /\ UNCHANGED <<attempts, sent, received, handled, reconnecting, timers,
                        timeoutId, session, overlapped>>
  BY Continued
<1>. DEFINE x == m.client
<1>2. /\ k \in Nat /\ attempts \in Connection /\ q \in Seq(Message)
      /\ \A e \in End : current[e] \in Connection
      /\ received[Server] \in Nat /\ l \in Nat
      /\ \A e \in End : sent[e] \in Nat
  BY TypeFacts, Peers
<1>3. /\ shifted' \in [End -> {0} \cup Frame] /\ firstAvailable' \in [End -> Nat]
      /\ inconsistent' \in BOOLEAN
      /\ shifted'[Client] = DropTo(Client, x)
      /\ firstAvailable'[Client] = IF Fits(Client, x) THEN x
                                   ELSE firstAvailable[Client]
      /\ inconsistent' <=> inconsistent \/ ~Fits(Client, x)
      /\ shifted'[Server] = shifted[Server]
      /\ firstAvailable'[Server] = firstAvailable[Server]
  BY <1>1, Dropped, Peers
<1>4. /\ wire'[k][Client] = Tail(q) /\ wire'[k][Server] = F
      /\ \A j \in Connection, d \in End : j # k => wire'[j][d] = wire[j][d]
      /\ wire' \in [Connection -> [End -> Seq(Message)]]
  <2>1. <<>> \o F = F
    BY ConcatEmptySeq
  <2>. QED BY <1>1, <2>1, Peers, ZenonT(60) DEF Trades
<1>5. /\ status'[k][Client] = "attached"
      /\ \A j \in Connection, d \in End :
            j # k \/ d # Client => status'[j][d] = status[j][d]
      /\ status' \in [Connection -> [End -> {"waiting", "attached", "adopted",
                                             "closed"}]]
  BY <1>1, StatusEnds, Peers
<1>6. /\ current'[Client] = k /\ current'[Server] = k
      /\ current' \in [End -> Connection]
  <2>1. current \in [End -> Connection]
    BY DEF TypeOK
  <2>. QED BY <1>1, <2>1
<1>7. TypeOK'
  BY <1>1, <1>3, <1>4, <1>5, <1>6 DEF TypeOK
<1>8. status[k][Server] # "waiting"
  BY <1>1, Peers DEF StatusInv
<1>9. StatusInv'
  <2>1. \A j \in Connection :
           /\ j < attempts => /\ status'[j][Client] = "closed"
                              /\ status'[j][Server] # "waiting"
           /\ j > attempts => \A e \in End : status'[j][e] = "waiting"
           /\ \A e \in End : status'[j][e] # "adopted"
    <3>1. \A j \in Connection : j < attempts \/ j > attempts => j # k
      BY <1>1, <1>2
    <3>. QED BY <1>5, <3>1 DEF StatusInv
  <2>2. current'[Client] <= attempts /\ current'[Server] = attempts
    BY <1>1, <1>2, <1>6
  <2>3. \A e \in End : status'[current'[e]][e] # "waiting"
    BY <1>5, <1>6, <1>8, Peers
  <2>4. ~reconnecting
    BY <1>1 DEF StatusInv
  <2>5. ~overlapped => \A j \in Connection : j < attempts
                          => status'[j][Server] = "closed"
    BY <1>1, <1>5, Peers DEF StatusInv
  <2>. QED BY <1>1, <1>6, <2>1, <2>2, <2>3, <2>4, <2>5 DEF StatusInv
<1>10. QuietInv'
  <2>1. \A j \in Connection, d \in End :
           status'[j][d] = "closed" => status[j][d] = "closed"
    BY <1>5
  <2>. QED BY <1>1, <2>1, QuietTrades, Peers
<1>11. HandshakeInv'
  <2>1. status'[attempts][Server] # "waiting" /\ status'[attempts][Client] # "waiting"
    BY <1>1, <1>5, <1>8, Peers
  <2>2. Offer \subseteq Offer'
    BY <1>1, <1>5, <1>6 DEF Offer
  <2>3. Tail(q) \in Seq(Offer)
    <3>1. q \in Seq(Offer)
      BY <1>1 DEF HandshakeInv
    <3>. QED BY <1>1, <3>1, HeadTailProperties
  <2>4. wire'[attempts][Client] \in Seq(Offer')
    BY <1>1, <1>4, <2>2, <2>3, SeqMonotonic
  <2>. QED BY <1>1, <2>1, <2>4 DEF HandshakeInv
<1>12. PositionsInv'
  <2>1. Known' = Known /\ Under' = Under
    BY <1>1 DEF Known, Under
  <2>2. \A i \in 1 .. Len(F) : F[i] \in Known
    <3>1. \A i \in 1 .. Len(F) : F[i] \in Message
      BY ElementOfSeq
    <3>2. \A y \in Message : y.type \in {"DATA", "ERROR"} => y \in Known
      BY DEF Known, Positional
    <3>. QED BY <1>1, <3>1, <3>2
  <2>3. F \in Seq(Known)
    BY <2>2
  <2>4. Within(wire', Known, Under)
    BY <1>1, <2>3, Peers, WithinTrades DEF PositionsInv
  <2>5. m \in Under
    <3>1. q \in Seq(Under)
      BY DEF PositionsInv, Within
    <3>. QED BY <1>1, <3>1, HeadTailProperties
  <2>6. x <= received[Server]
    BY <1>1, <2>5 DEF Under, Positional
  <2>7. firstAvailable'[Client] <= received[Server]
    BY <1>3, <2>6 DEF PositionsInv
  <2>. QED BY <1>1, <2>1, <2>4, <2>7 DEF PositionsInv
<1>13. \A d \in End : Open(k, d)' <=> Open(k, d)
  <2>1. \A d \in End : status'[k][d] = "closed" <=> status[k][d] = "closed"
    BY <1>1, <1>5
  <2>. QED BY <1>1, <2>1 DEF Open
<1>14. /\ At(Client) = k /\ At(Client)' = k /\ At(Server) = k /\ At(Server)' = k
  BY <1>1, <1>6, Peers DEF At
<1>15. Stream(Client)'
  <2>1. Own(Client)' /\ Store(Server)'
    BY <1>1, <1>3, Peers DEF StreamInv, Stream, Own, Store
  <2>. DEFINE n == Len(handled[Client])
  <2>2. FlowOf(q, n, Whole(k, Server), sent[Server])
    BY <1>14, Peers DEF StreamInv, Stream, Flow
  <2>3. sent[Server] \in Nat /\ Head(q).type # "DATA"
    BY <1>1, <1>2
  <2>. HIDE DEF q, n
  <2>4. FlowOf(Tail(q), n, Whole(k, Server), sent[Server])
    BY <1>1, <1>2, <2>2, <2>3, FlowTakes
  <2>5. Whole(k, Server)' <=> Whole(k, Server)
    BY <1>1, <1>6, <1>13 DEF Whole
  <2>6. FlowOf(Tail(q), n, Whole(k, Server)', sent[Server])
    BY <2>4, <2>5 DEF FlowOf
  <2>7. Flow(Client)'
    BY <1>1, <1>4, <1>14, <2>6, Peers DEF Flow, n
  <2>. QED BY <2>1, <2>7, Peers DEF Stream
<1>16. ASSUME ~overlapped
       PROVE  /\ Stream(Server)' /\ Climb(Client)' /\ Climb(Server)'
              /\ ~inconsistent'
  <2>1. /\ Stream(Server) /\ Stream(Client) /\ Climb(Client) /\ Climb(Server)
        /\ ~inconsistent
    BY <1>16 DEF StreamInv
  <2>2. /\ l \in 0 .. sent[Client] /\ l \in {0} \cup Frame
        /\ received[Server] = Position[l] /\ shifted[Client] <= l
        /\ firstAvailable[Client] = Position[shifted[Client]]
        /\ shifted[Client] \in {0} \cup Frame /\ sent[Client] \in {0} \cup Frame
    BY <2>1, StreamFacts, TypeFacts, Peers DEF Stream, Store
  <2>. HIDE DEF l, x, q
  <2>3. x = Position[l] /\ l <= sent[Client]
    BY <1>1, <1>2, <1>16, <2>2, Peers DEF x
  <2>4. DropTo(Client, x) = l /\ Fits(Client, x)
    <3>1. DropTo(Client, Position[l]) = l /\ Fits(Client, Position[l])
      BY <2>2, <2>3, DropFits, Peers
    <3>. QED BY <2>3, <3>1
  <2>5. ~inconsistent' /\ shifted'[Client] = l /\ firstAvailable'[Client] = Position[l]
    BY <1>3, <2>1, <2>3, <2>4
  <2>. DEFINE D == Drained(Client, x)
  <2>6. /\ F = Sent(k, Client, D) /\ D \in Seq(Message)
        /\ FlowOf(D, l, TRUE, sent[Client])
        /\ \A i \in 1 .. Len(D) : D[i].type = "DATA"
    BY <1>1, <1>2, <2>3, <2>4, DrainedFlow, Peers, ZenonT(150) DEF x
  <2>. HIDE DEF D
  <2>7. Stream(Server)'
    <3>1. Own(Server)' /\ Store(Client)'
      <4>1. Own(Server)'
        BY <1>1, <2>1 DEF Stream, Own
      <4>2. l <= l
        BY <1>2
      <4>. QED BY <1>1, <2>5, <4>1, <4>2, Peers DEF Store, l
    <3>2. FlowOf(F, l, Whole(k, Client)', sent[Client])
      <4>1. Whole(k, Client)' => Open(k, Client) /\ Open(k, Server)
        BY <1>13 DEF Whole
      <4>2. CASE Open(k, Server)
        <5>1. F = D
          BY <1>1, <2>6, <4>2, Peers DEF Sent
        <5>. QED BY <2>6, <5>1 DEF FlowOf
      <4>3. CASE ~Open(k, Server)
        <5>1. F = <<>>
          BY <1>1, <2>6, <4>3, Peers DEF Sent
        <5>2. FlowOf(<<>>, l, Whole(k, Client)', sent[Client])
          BY <1>2, <2>2, <4>1, <4>3, FlowNone
        <5>. QED BY <5>1, <5>2
      <4>. QED BY <4>2, <4>3
    <3>3. Flow(Server)'
      BY <1>1, <1>4, <1>14, <3>2, Peers DEF Flow, l
    <3>. QED BY <3>1, <3>3, Peers DEF Stream
  <2>8. Climb(Client)'
    <3>1. ClimbOf(q, shifted[Client], l)
      BY <1>14, <2>1, Peers DEF Climb, q, l
    <3>2. PICK u \in 0 .. l : ClimbOf(Tail(q), u, l) /\ x = Position[u]
      <4>1. \E u \in 0 .. l : /\ shifted[Client] <= u /\ ClimbOf(Tail(q), u, l)
                              /\ IF Head(q).type \in Positional
                                 THEN PositionOf(Head(q)) = Position[u]
                                 ELSE u = shifted[Client]
        BY <1>1, <1>2, <3>1, ClimbTakes
      <4>2. Head(q).type \in Positional /\ PositionOf(Head(q)) = x
        BY <1>1 DEF Positional, x
      <4>. QED BY <4>1, <4>2
    <3>3. u = l
      <4>1. u \in {0} \cup Frame
        BY <2>2, Frames
      <4>2. Position[u] = Position[l]
        BY <2>3, <3>2
      <4>. QED BY <2>2, <4>1, <4>2, PositionsOrder
    <3>4. ClimbOf(Tail(q), l, l)
      BY <3>2, <3>3
    <3>. QED BY <1>1, <1>4, <1>14, <2>5, <3>4, Peers DEF Climb, l
  <2>9. Climb(Server)'
    <3>. DEFINE n == Len(handled[Client])
    <3>1. shifted[Server] \in 0 .. n /\ n \in Nat
      <4>1. shifted[Server] <= n /\ shifted[Server] \in Nat /\ n \in Nat
        BY <2>1, TypeFacts, Peers DEF Stream, Store
      <4>. QED BY <4>1
    <3>. HIDE DEF n
    <3>2. ClimbOf(<<>>, shifted[Server], n)
      BY <3>1, ClimbNone
    <3>3. \A i \in 1 .. Len(F) : F[i].type \notin Positional
      BY <1>1 DEF Positional
    <3>4. ClimbOf(<<>> \o F, shifted[Server], n)
      BY <3>1, <3>2, <3>3, Singles, ClimbJoins
    <3>5. <<>> \o F = F
      BY ConcatEmptySeq
    <3>6. ClimbOf(F, shifted[Server], n)
      BY <3>4, <3>5
    <3>. QED BY <1>1, <1>3, <1>4, <1>14, <3>6, Peers DEF Climb, n
  <2>. QED BY <2>5, <2>7, <2>8, <2>9
<1>17. StreamInv'
  BY <1>1, <1>15, <1>16 DEF StreamInv
<1>18. TimerInv'
  <2>1. Open(current[Server], Server)' <=> Open(current[Server], Server)
    BY <1>1, <1>6, <1>13, Peers
  <2>. QED BY <1>1, <1>6, <1>13, Peers DEF TimerInv
<1>. QED BY <1>7, <1>9, <1>10, <1>11, <1>12, <1>17, <1>18

\* The client reconnects: a connection that nothing but RESUME is on.
LEMMA Reconnected ==
    ASSUME Inv, Reconnects
    PROVE  LET r == ResumeFrame(firstAvailable[Client], received[Client]) IN
           /\ attempts + 1 \in Connection /\ attempts' = attempts + 1
           /\ r \in Message /\ r.type = "RESUME"
           /\ PositionOf(r) = received[Client]
           /\ status[attempts][Client] = "closed" /\ current[Server] = attempts
           /\ wire' \in [Connection -> [End -> Seq(Message)]]
           /\ wire'[attempts + 1][Server] = <<r>>
           /\ wire'[attempts + 1][Client] = <<>>
           /\ \A j \in Connection, d \in End :
                 j # attempts + 1 => wire'[j][d] = wire[j][d]
           /\ reconnecting' = FALSE
           /\ UNCHANGED <<status, current, done, keepAlive, sent, shifted,
                          firstAvailable, received, handled, timers, timeoutId,
                          session, overlapped, inconsistent>>
<1>. USE DEF Inv
<1>. DEFINE r == ResumeFrame(firstAvailable[Client], received[Client])
            k == attempts + 1
            v == [wire[k] EXCEPT ![Server] = <<r>>]
<1>1. /\ reconnecting /\ attempts < MaxConnections /\ reconnecting' = FALSE
      /\ attempts' = k /\ wire' = [wire EXCEPT ![k][Server] = <<r>>]
      /\ UNCHANGED <<status, current, done, keepAlive, sent, shifted,
                     firstAvailable, received, handled, timers, timeoutId,
                     session, overlapped, inconsistent>>
  BY DEF Reconnects, storeVars, historyVars
<1>2. k \in Connection /\ k > attempts
  BY <1>1, BoundsAssumption DEF TypeOK, Connection
<1>3. status[attempts][Client] = "closed" /\ current[Server] = attempts
  BY <1>1 DEF StatusInv
<1>4. r \in Message /\ r.type = "RESUME" /\ PositionOf(r) = received[Client]
  <2>1. firstAvailable[Client] \in Nat /\ received[Client] \in Nat
    BY TypeFacts, Peers
  <2>. QED BY <2>1, Messages DEF ResumeFrame, PositionOf, Message
<1>5. /\ wire \in [Connection -> [End -> Seq(Message)]]
      /\ wire[k] \in [End -> Seq(Message)] /\ wire[k][Client] = <<>>
  BY <1>2, Peers DEF TypeOK, QuietInv
<1>. HIDE DEF r, k
<1>6. v \in [End -> Seq(Message)] /\ v[Server] = <<r>> /\ v[Client] = <<>>
  <2>1. <<r>> \in Seq(Message)
    BY <1>4
  <2>. DEFINE s == <<r>>
  <2>2. v = [wire[k] EXCEPT ![Server] = s] /\ s \in Seq(Message)
    BY <2>1
  <2>. HIDE DEF s
  <2>3. v \in [End -> Seq(Message)] /\ v[Server] = s /\ v[Client] = <<>>
    BY <1>5, <2>2, Peers
  <2>. QED BY <2>3 DEF s
<1>7. wire' = [wire EXCEPT ![k] = v]
  BY <1>1
<1>. HIDE DEF v
<1>8. /\ wire' \in [Connection -> [End -> Seq(Message)]] /\ wire'[k] = v
      /\ \A j \in Connection : j # k => wire'[j] = wire[j]
  BY <1>2, <1>5, <1>6, <1>7
<1>. QED BY <1>1, <1>2, <1>3, <1>4, <1>6, <1>8 DEF r, k

LEMMA ReconnectsKeeps == Inv /\ Reconnects => Inv'
<1>. SUFFICES ASSUME Inv, Reconnects PROVE Inv'
  OBVIOUS
<1>. USE DEF Inv
<1>. DEFINE r == ResumeFrame(firstAvailable[Client], received[Client])
            l == Len(handled[Client])
            n == Len(handled[Server])
<1>0. PICK k \in Connection, a \in Connection : k = attempts + 1 /\ a = attempts
  BY Reconnected, TypeFacts
<1>1. /\ k \in Connection /\ attempts' = k
      /\ r \in Message /\ r.type = "RESUME" /\ PositionOf(r) = received[Client]
      /\ status[attempts][Client] = "closed" /\ current[Server] = attempts
      /\ wire' \in [Connection -> [End -> Seq(Message)]]
      /\ wire'[k][Server] = <<r>> /\ wire'[k][Client] = <<>>
      /\ \A j \in Connection, d \in End : j # k => wire'[j][d] = wire[j][d]
      /\ reconnecting' = FALSE
      /\ UNCHANGED <<status, current, done, keepAlive, sent, shifted,
                     firstAvailable, received, handled, timers, timeoutId,
                     session, overlapped, inconsistent>>
  BY <1>0, Reconnected
<1>2. /\ attempts \in Connection /\ attempts \in Nat /\ k \in Nat
      /\ attempts < k /\ attempts # k /\ Connection \subseteq Nat
      /\ \A d \in End : current[d] \in Connection /\ sent[d] \in Nat
      /\ l \in Nat /\ n \in Nat
  BY <1>0, TypeFacts, Peers, SMTT(60)
<1>3. k - 1 = attempts
  BY <1>0, <1>2
<1>. HIDE DEF r
<1>4. TypeOK'
  BY <1>1 DEF TypeOK
<1>5. /\ \A d \in End : status[k][d] = "waiting"
      /\ \A j \in Connection : j < k => j <= attempts
      /\ status[attempts][Server] \notin {"waiting", "adopted"}
  <2>1. \A d \in End : status[k][d] = "waiting"
    BY <1>1, <1>2 DEF StatusInv
  <2>2. \A j \in Connection : j < k => j <= attempts
    BY <1>2, <1>3
  <2>3. status[attempts][Server] # "waiting"
    BY <1>1, Peers DEF StatusInv
  <2>4. status[attempts][Server] # "adopted"
    BY <1>2, Peers DEF StatusInv
  <2>. QED BY <2>1, <2>2, <2>3, <2>4
<1>6. StatusInv'
  <2>1. \A j \in Connection :
           /\ j < k => /\ status[j][Client] = "closed"
                       /\ status[j][Server] # "waiting"
           /\ j > k => \A d \in End : status[j][d] = "waiting"
           /\ \A d \in End : status[j][d] # "adopted"
    <3>. SUFFICES ASSUME NEW j \in Connection
                  PROVE  /\ j < k => /\ status[j][Client] = "closed"
                                     /\ status[j][Server] # "waiting"
                         /\ j > k => \A d \in End : status[j][d] = "waiting"
                         /\ \A d \in End : status[j][d] # "adopted"
      OBVIOUS
    <3>1. j \in Nat /\ (j > k => j > attempts)
          /\ (j < k => j < attempts \/ j = attempts)
      BY <1>2, <1>3
    <3>2. j < k => status[j][Client] = "closed" /\ status[j][Server] # "waiting"
      BY <1>1, <1>5, <3>1 DEF StatusInv
    <3>. QED BY <3>1, <3>2 DEF StatusInv
  <2>2. current[Client] <= k /\ current[Server] = k - 1
    <3>1. current[Client] <= attempts /\ current[Client] \in Nat
      BY <1>2, Peers DEF StatusInv
    <3>. QED BY <1>1, <1>2, <1>3, <3>1
  <2>3. \A d \in End : status[current[d]][d] # "waiting"
    BY DEF StatusInv
  <2>4. ~overlapped => \A j \in Connection :
                          j < current[Server] => status[j][Server] = "closed"
    BY DEF StatusInv
  <2>. QED BY <1>1, <1>5, <2>1, <2>2, <2>3, <2>4, Peers DEF StatusInv
<1>7. QuietInv'
  <2>. SUFFICES ASSUME NEW j \in Connection, NEW d \in End,
                       status[j][d] = "closed" \/ j > k
                PROVE  wire'[j][d] = <<>>
    BY <1>1 DEF QuietInv
  <2>1. j # k
    BY <1>2, <1>5
  <2>2. j > k => j > attempts
    BY <1>2, <1>3
  <2>3. wire[j][d] = <<>>
    BY <2>2 DEF QuietInv
  <2>. QED BY <1>1, <2>1, <2>3
<1>8. HandshakeInv'
  <2>1. wire'[k][Client] \in Seq(Offer')
    BY <1>1
  <2>2. current[Server] # k
    BY <1>1, <1>2
  <2>. QED BY <1>1, <2>1, <2>2 DEF HandshakeInv, r
<1>9. Stream(Client) /\ Own(Client) /\ Store(Server) /\ received[Client] = Position[l]
      /\ l \in 0 .. sent[Server] /\ l \in 0 .. l
  <2>1. Stream(Client)
    BY DEF StreamInv
  <2>2. l \in 0 .. sent[Server]
    BY <2>1, StreamFacts, Peers
  <2>. QED BY <1>2, <2>1, <2>2, Peers DEF Stream, Own
<1>10. PositionsInv'
  <2>1. Known' = Known /\ Under' = Under
    BY <1>1 DEF Known, Under
  <2>2. r \in Known
    BY <1>1, <1>9 DEF Known
  <2>3. <<r>> \in Seq(Known) /\ <<>> \in Seq(Under)
    BY <2>2
  <2>4. Within(wire', Known, Under)
    BY <1>1, <2>3 DEF PositionsInv, Within
  <2>. QED BY <1>1, <2>1, <2>4 DEF PositionsInv
<1>11. At(Client)' = k /\ At(Server) = a /\ At(Server)' = a
  BY <1>0, <1>1, Peers DEF At
<1>12. Stream(Client)'
  <2>1. Own(Client)' /\ Store(Server)'
    BY <1>1, <1>9, Peers DEF Own, Store
  <2>2. ~Whole(k, Server)'
    BY <1>1, <1>2, Peers DEF Whole
  <2>3. FlowOf(<<>>, l, Whole(k, Server)', sent[Server])
    BY <1>2, <1>9, <2>2, Peers, FlowNone
  <2>4. Flow(Client)'
    BY <1>1, <1>11, <2>3, Peers DEF Flow
  <2>. QED BY <2>1, <2>4, Peers DEF Stream
<1>13. \A d \in End : Open(a, d)' <=> status[a][d] # "closed"
  BY <1>0, <1>1, <1>2 DEF Open
<1>14. \A d \in End : Open(a, d) <=> status[a][d] # "closed"
  BY <1>0, <1>2 DEF Open
<1>15. ASSUME ~overlapped
       PROVE  /\ Stream(Server)' /\ Climb(Client)' /\ Climb(Server)'
              /\ ~inconsistent'
  <2>1. /\ Stream(Server) /\ Climb(Client) /\ Climb(Server) /\ ~inconsistent
    BY <1>15 DEF StreamInv
  <2>. DEFINE q == wire[a][Server]
  <2>2. wire'[a][Server] = q
    BY <1>0, <1>1, <1>2, Peers
  <2>3. Stream(Server)'
    <3>1. Own(Server)' /\ Store(Client)'
      BY <1>1, <2>1, Peers DEF Stream, Own, Store
    <3>2. FlowOf(q, n, Whole(a, Client), sent[Client])
      BY <1>11, <2>1, Peers DEF Stream, Flow
    <3>3. ~Whole(a, Client) /\ ~Whole(a, Client)'
      BY <1>0, <1>1, <1>13, <1>14, Peers DEF Whole
    <3>4. FlowOf(q, n, Whole(a, Client)', sent[Client])
      BY <3>2, <3>3 DEF FlowOf
    <3>5. Flow(Server)'
      BY <1>1, <1>11, <2>2, <3>4, Peers DEF Flow
    <3>. QED BY <3>1, <3>5, Peers DEF Stream
  <2>4. Climb(Client)'
    <3>1. shifted[Client] \in 0 .. n
      <4>1. shifted[Client] <= n /\ shifted[Client] \in Nat
        BY <2>1, TypeFacts, Peers DEF Stream, Store
      <4>. QED BY <1>2, <4>1
    <3>2. ClimbOf(<<>>, shifted[Client], n)
      BY <1>2, <3>1, ClimbNone
    <3>. QED BY <1>1, <1>11, <3>2, Peers DEF Climb
  <2>5. Climb(Server)'
    BY <1>1, <1>11, <2>1, <2>2, Peers DEF Climb
  <2>. QED BY <1>1, <2>1, <2>3, <2>4, <2>5
<1>16. StreamInv'
  BY <1>1, <1>12, <1>15 DEF StreamInv
<1>17. TimerInv'
  <2>1. current[Server] = a /\ current'[Server] = a
    BY <1>0, <1>1
  <2>2. Open(current[Server], Server)' <=> Open(a, Server)'
    BY <2>1 DEF Open
  <2>3. Open(current[Server], Server)' <=> Open(current[Server], Server)
    BY <1>13, <1>14, <2>1, <2>2, Peers
  <2>. QED BY <1>1, <2>3 DEF TimerInv
<1>. QED BY <1>4, <1>6, <1>7, <1>8, <1>10, <1>16, <1>17

-----------------------------------------------------------------------------
(* The invariant holds                                                     *)

LEMMA InitInv == Init => Inv
<1>. SUFFICES ASSUME Init PROVE Inv
  OBVIOUS
<1>1. /\ attempts = 1 /\ wire = [k \in Connection |-> [e \in End |-> <<>>]]
      /\ status = [k \in Connection |->
                      [e \in End |-> IF k = 1 THEN "attached" ELSE "waiting"]]
      /\ current = [e \in End |-> 1] /\ done = [e \in End |-> FALSE]
      /\ keepAlive = [e \in End |-> "running"]
      /\ sent = [e \in End |-> 0] /\ shifted = [e \in End |-> 0]
      /\ firstAvailable = [e \in End |-> 0] /\ received = [e \in End |-> 0]
      /\ handled = [e \in End |-> <<>>]
      /\ reconnecting = FALSE /\ timers = {} /\ timeoutId = 1
      /\ session = "stored" /\ overlapped = FALSE /\ inconsistent = FALSE
  BY DEF Init
<1>2. 1 \in Connection /\ Connection \subseteq Nat /\ \A k \in Connection : ~(k < 1)
  BY BoundsAssumption DEF Connection
<1>3. /\ \A k \in Connection, e \in End : wire[k][e] = <<>>
      /\ \A k \in Connection, e \in End :
            status[k][e] = IF k = 1 THEN "attached" ELSE "waiting"
      /\ \A e \in End : /\ current[e] = 1 /\ sent[e] = 0 /\ shifted[e] = 0
                        /\ firstAvailable[e] = 0 /\ received[e] = 0
                        /\ handled[e] = <<>> /\ Len(handled[e]) = 0
  BY <1>1
<1>4. TypeOK
  <2>1. <<>> \in Seq(Message) /\ <<>> \in Seq(Frame)
    OBVIOUS
  <2>2. wire \in [Connection -> [End -> Seq(Message)]]
    BY <1>1, <2>1
  <2>3. status \in [Connection -> [End -> {"waiting", "attached", "adopted",
                                           "closed"}]]
    BY <1>1
  <2>4. handled \in [End -> Seq(Frame)]
    BY <1>1, <2>1
  <2>. QED BY <1>1, <1>2, <2>2, <2>3, <2>4 DEF TypeOK
<1>5. StatusInv
  <2>1. \A k \in Connection : k > 1 => k # 1
    BY <1>2
  <2>. QED BY <1>1, <1>2, <1>3, <2>1, Peers DEF StatusInv
<1>6. QuietInv
  BY <1>3 DEF QuietInv
<1>7. HandshakeInv
  <2>1. <<>> \in Seq(Offer)
    OBVIOUS
  <2>. QED BY <1>1, <1>2, <1>3, <2>1, Peers DEF HandshakeInv
<1>8. PositionsInv
  <2>1. <<>> \in Seq(Known) /\ <<>> \in Seq(Under) /\ 0 <= 0
    OBVIOUS
  <2>. HIDE DEF Known, Under
  <2>2. Within(wire, Known, Under)
    BY <1>3, <2>1, Peers DEF Within
  <2>. QED BY <1>3, <2>1, <2>2, Peers DEF PositionsInv
<1>9. \A e \in End : At(e) = 1 /\ Position[0] = 0 /\ Peer(e) \in End
  BY <1>1, <1>3, Peers, PositionAssumption DEF At
<1>10. \A e \in End : Stream(e) /\ Climb(e)
  <2>. SUFFICES ASSUME NEW e \in End PROVE Stream(e) /\ Climb(e)
    OBVIOUS
  <2>1. FlowOf(<<>>, 0, Whole(1, Peer(e)), 0) /\ ClimbOf(<<>>, 0, 0)
    <3>1. 0 \in 0 .. 0 /\ 0 \in Nat
      OBVIOUS
    <3>. QED BY <3>1, FlowNone, ClimbNone
  <2>2. Flow(e) /\ Climb(e)
    BY <1>2, <1>3, <1>9, <2>1 DEF Flow, Climb
  <2>3. Own(e) /\ Store(Peer(e))
    BY <1>3, <1>9, Peers DEF Own, Store
  <2>. QED BY <2>2, <2>3 DEF Stream
<1>11. StreamInv
  BY <1>1, <1>10, Peers DEF StreamInv
<1>12. TimerInv
  BY <1>1 DEF TimerInv
<1>. QED BY <1>4, <1>5, <1>6, <1>7, <1>8, <1>11, <1>12 DEF Inv

LEMMA StepInv == Inv /\ [Next]_vars => Inv'
<1>. SUFFICES ASSUME Inv, [Next]_vars PROVE Inv'
  OBVIOUS
<1>1. ASSUME NEW e \in End, SendsData(e) PROVE Inv'
  BY <1>1, SendKeeps
<1>2. ASSUME NEW e \in End, SendsExtension(e) \/ SendsKeepAlive(e) PROVE Inv'
  BY <1>2, AnnouncesKeep
<1>3. ASSUME NEW k \in Connection, NEW e \in End, Handles(k, e) PROVE Inv'
  <2>1. CASE HandlesData(k, e)
    BY <2>1, DataKeeps
  <2>2. CASE HandlesExtension(k, e)
    BY <2>2, ExtensionFades, FadesKeep
  <2>3. CASE HandlesKeepAlive(k, e)
    BY <2>3, KeepAliveKeeps
  <2>4. CASE HandlesError(k, e)
    BY <2>4, ErrorFades, FadesKeep
  <2>. QED BY <1>3, <2>1, <2>2, <2>3, <2>4 DEF Handles
<1>4. ASSUME NEW k \in Connection, NEW e \in End, ConnectionCloses(k, e) PROVE Inv'
  BY <1>4, CloseFades, FadesKeep
<1>5. ASSUME NEW k \in Connection, Handshakes(k) PROVE Inv'
  <2>1. CASE RefusesResume(k) \/ RefusesHandshake(k)
    BY <2>1, RefusesFades, FadesKeep
  <2>2. CASE Resumes(k)
    BY <2>2, ResumesKeeps
  <2>3. CASE HandlesResumeOk(k)
    BY <2>3, ContinuesKeeps
  <2>. QED BY <1>5, <2>1, <2>2, <2>3 DEF Handshakes
<1>6. ASSUME \/ GivesUp \/ (\E k \in Connection : SessionTimesOut(k))
             \/ UNCHANGED vars
      PROVE  Inv'
  BY <1>6, IdleStepsFade, FadesKeep
<1>7. CASE Reconnects
  BY <1>7, ReconnectsKeeps
<1>8. CASE ServerRestarts
  BY <1>8, RestartFades, FadesKeep
<1>. QED BY <1>1, <1>2, <1>3, <1>4, <1>5, <1>6, <1>7, <1>8 DEF Next

LEMMA InvAlways == Spec => []Inv
BY InitInv, StepInv, PTL DEF Spec

-----------------------------------------------------------------------------
(* Theorems                                                                *)

\* Every variable keeps its type: no step reconnects more often than there are
\* connections, no position is negative, and a store is cut within the frames
\* that there are (dropTo).
THEOREM TypeCorrect == Spec => []TypeOK
BY InvAlways, PTL DEF Inv

\* Each end passes the frames of the other to its streams once and in order,
\* over all connections, unless overlapped (store, record, dropTo, drain).
ExactlyOnce ==
    ~overlapped => \A e \in End :
        /\ Len(handled[e]) <= sent[Peer(e)]
        /\ \A i \in DOMAIN handled[e] : handled[e][i] = i

\* That is so in every state, over any number of lost connections.
THEOREM HandledOnce == Spec => []ExactlyOnce
<1>1. Inv => ExactlyOnce
  <2>. SUFFICES ASSUME Inv, ~overlapped, NEW e \in End
                PROVE  /\ Len(handled[e]) <= sent[Peer(e)]
                       /\ \A i \in DOMAIN handled[e] : handled[e][i] = i
    BY DEF ExactlyOnce
  <2>1. Own(e)
    BY Peers DEF Inv, StreamInv, Stream
  <2>2. DOMAIN handled[e] = 1 .. Len(handled[e])
    BY TypeFacts DEF Inv
  <2>. QED BY <2>1, <2>2 DEF Own
<1>. QED BY <1>1, InvAlways, PTL

\* What the client passes to its streams is passed once and in order even
\* when the server has resumed with an older connection still open: it is the
\* server alone whose streams may get a frame twice or miss one.
ClientHandlesOnce ==
    /\ Len(handled[Client]) <= sent[Server]
    /\ \A i \in DOMAIN handled[Client] : handled[Client][i] = i

\* The client's half of ExactlyOnce needs no exception: a client has at most
\* one connection open.
THEOREM ClientHandledOnce == Spec => []ClientHandlesOnce
<1>1. Inv => ClientHandlesOnce
  <2>. SUFFICES ASSUME Inv PROVE ClientHandlesOnce
    OBVIOUS
  <2>1. Own(Client)
    BY DEF Inv, StreamInv, Stream
  <2>2. DOMAIN handled[Client] = 1 .. Len(handled[Client])
    BY TypeFacts, Peers DEF Inv
  <2>. QED BY <2>1, <2>2, Peers DEF Own, ClientHandlesOnce
<1>. QED BY <1>1, InvAlways, PTL

\* A frame leaves a store only when the peer has handled it, and no dropTo
\* throws, unless overlapped (dropTo, and the positions in KEEPALIVE, RESUME
\* and RESUME_OK).
THEOREM NothingLost == Spec => []NothingForgotten
<1>1. Inv => NothingForgotten
  <2>. SUFFICES ASSUME Inv, ~overlapped
                PROVE  /\ \A e \in End : shifted[e] <= Len(handled[Peer(e)])
                       /\ ~inconsistent
    BY DEF NothingForgotten
  <2>1. Store(Client) /\ Store(Server) /\ ~inconsistent
    BY Peers DEF Inv, StreamInv, Stream
  <2>. QED BY <2>1, Peers DEF Store
<1>. QED BY <1>1, InvAlways, PTL

\* A server that still has the session can always resume it, overlapped or
\* not (the checks of RESUME in resume).
THEOREM ResumeIsAccepted == Spec => []ResumeAccepted
<1>1. Inv => ResumeAccepted
  <2>. SUFFICES ASSUME Inv, NEW k \in 2 .. attempts, status[k][Server] = "waiting",
                       wire[k][Server] # <<>>
                PROVE  LET m == Head(wire[k][Server])
                       IN received[Server] >= m.client /\ Fits(Server, m.server)
    BY DEF ResumeAccepted
  <2>1. k \in Connection /\ k <= attempts
    <3>1. attempts \in 1 .. MaxConnections /\ MaxConnections \in Nat
      BY BoundsAssumption DEF Inv, TypeOK, Connection
    <3>. QED BY <3>1 DEF Connection
  <2>2. Open(k, Server)
    BY <2>1 DEF Open
  <2>. QED BY <2>1, <2>2, ResumeFits
<1>. QED BY <1>1, InvAlways, PTL

\* The session timer never runs while the session has a connection, unless
\* overlapped (clearTimeout in resume).
THEOREM TimerIsStopped == Spec => []LiveSessionNotTimed
<1>1. Inv => LiveSessionNotTimed
  BY DEF Inv, TimerInv, LiveSessionNotTimed
<1>. QED BY <1>1, InvAlways, PTL

\* What the client sends, or the server, is handled by the other in the end if
\* a connection lasts: whenever the two ends use one connection, and nothing
\* is under way on it, everything that was sent over all connections has been
\* handled (drain, and the store that send keeps).
NothingMissing ==
    /\ ~overlapped /\ Whole(current[Server], Client)
         /\ wire[current[Server]][Server] = <<>>
       => Len(handled[Server]) = sent[Client]
    /\ Whole(attempts, Server) /\ wire[attempts][Client] = <<>>
       => Len(handled[Client]) = sent[Server]

\* No reachable state misses a frame in this sense: the safety half of
\* EventuallyDelivered.
THEOREM NothingIsMissing == Spec => []NothingMissing
<1>1. ASSUME NEW top, NEW from, FlowOf(<<>>, from, TRUE, top)
      PROVE  from = top
  <2>1. Chain(<<>>, DataStep, 0 .. top, from, top)
    BY <1>1 DEF FlowOf
  <2>2. Len(<<>>) = 0
    OBVIOUS
  <2>. QED BY <2>1, <2>2 DEF Chain
<1>2. ASSUME NEW e \in End, Flow(e), Whole(At(e), Peer(e)), wire[At(e)][e] = <<>>
      PROVE  Len(handled[e]) = sent[Peer(e)]
  <2>1. FlowOf(<<>>, Len(handled[e]), TRUE, sent[Peer(e)])
    BY <1>2 DEF Flow, FlowOf
  <2>. QED BY <1>1, <2>1
<1>3. Inv => NothingMissing
  <2>. SUFFICES ASSUME Inv PROVE NothingMissing
    OBVIOUS
  <2>1. Flow(Client) /\ (~overlapped => Flow(Server))
    BY DEF Inv, StreamInv, Stream
  <2>2. At(Client) = attempts /\ At(Server) = current[Server]
    BY Peers DEF At
  <2>. QED BY <1>2, <2>1, <2>2, Peers DEF NothingMissing
<1>. QED BY <1>3, InvAlways, PTL

-----------------------------------------------------------------------------
(* A session is a Link                                                     *)

LEMMA FramesMove ==
    ASSUME Next
    PROVE  \/ UNCHANGED <<sent, handled>>
           \/ handled' = handled /\ \E d \in End : sent' = [sent EXCEPT ![d] = @ + 1]
           \/ /\ sent' = sent
              /\ \E d \in End, n \in Frame : handled' = [handled EXCEPT ![d] = Append(@, n)]
<1>1. CASE \E e \in End : SendsData(e) \/ SendsExtension(e) \/ SendsKeepAlive(e)
  BY <1>1, Zenon DEF SendsData, SendsExtension, SendsKeepAlive, storeVars
<1>2. CASE \E k \in Connection, e \in End : Handles(k, e) \/ ConnectionCloses(k, e)
  <2>1. PICK k \in Connection, e \in End : Handles(k, e) \/ ConnectionCloses(k, e)
    BY <1>2, Zenon
  <2>2. CASE HandlesData(k, e)
    BY <2>2, Zenon DEF HandlesData
  <2>3. CASE HandlesExtension(k, e) \/ HandlesKeepAlive(k, e) \/ HandlesError(k, e)
    BY <2>3 DEF HandlesExtension, HandlesKeepAlive, HandlesError, storeVars
  <2>4. CASE ConnectionCloses(k, e)
    BY <2>4 DEF ConnectionCloses, storeVars
  <2>. QED BY <2>1, <2>2, <2>3, <2>4, Zenon DEF Handles
<1>3. CASE \E k \in Connection : Handshakes(k) \/ SessionTimesOut(k)
  <2>1. PICK k \in Connection : Handshakes(k) \/ SessionTimesOut(k)
    BY <1>3, Zenon
  <2>2. CASE Handshakes(k)
    BY <2>2 DEF Handshakes, RefusesResume, Resumes, HandlesResumeOk, Continues,
                RefusesHandshake, storeVars
  <2>3. CASE SessionTimesOut(k)
    BY <2>3 DEF SessionTimesOut, storeVars
  <2>. QED BY <2>1, <2>2, <2>3
<1>4. CASE Reconnects \/ GivesUp \/ ServerRestarts
  BY <1>4 DEF Reconnects, GivesUp, ServerRestarts, storeVars
<1>. QED BY <1>1, <1>2, <1>3, <1>4, Zenon DEF Next

\* A step of the link from Peer(e) to e.
Linked(e) ==
    LET s == sent[Peer(e)]
        h == handled[e]
    IN  \/ sent'[Peer(e)] = s /\ handled'[e] = h
        \/ sent'[Peer(e)] = s + 1 /\ handled'[e] = h
        \/ Len(h) < s /\ handled'[e] = Append(h, Len(h) + 1) /\ sent'[Peer(e)] = s

LEMMA StepsLinked ==
    ASSUME TypeOK, Next, NEW e \in End, Own(e)'
    PROVE  Linked(e)
<1>. DEFINE h == handled[e]
            s == sent[Peer(e)]
<1>1. Peer(e) \in End /\ h \in Seq(Frame) /\ DOMAIN handled = End /\ DOMAIN sent = End
  BY Peers DEF TypeOK
<1>2. CASE UNCHANGED <<sent, handled>>
  BY <1>2 DEF Linked
<1>3. ASSUME NEW d \in End, handled' = handled, sent' = [sent EXCEPT ![d] = @ + 1]
      PROVE  Linked(e)
  <2>1. CASE d = Peer(e)
    BY <1>1, <1>3, <2>1 DEF Linked
  <2>2. CASE d # Peer(e)
    BY <1>1, <1>3, <2>2 DEF Linked
  <2>. QED BY <2>1, <2>2
<1>4. ASSUME NEW d \in End, NEW n \in Frame, sent' = sent,
             handled' = [handled EXCEPT ![d] = Append(@, n)]
      PROVE  Linked(e)
  <2>1. CASE d # e
    BY <1>1, <1>4, <2>1 DEF Linked
  <2>2. CASE d = e
    <3>1. handled'[e] = Append(h, n)
      BY <1>1, <1>4, <2>2
    <3>2. Len(Append(h, n)) = Len(h) + 1 /\ Append(h, n)[Len(h) + 1] = n /\ Len(h) \in Nat
      BY <1>1
    <3>3. /\ \A i \in 1 .. Len(handled'[e]) : handled'[e][i] = i
          /\ Len(handled'[e]) <= sent'[Peer(e)]
      BY DEF Own
    <3>4. n = Len(h) + 1
      BY <3>1, <3>2, <3>3
    <3>5. s \in Nat
      BY <1>1, TypeFacts
    <3>6. Len(h) < s
      BY <1>4, <3>1, <3>2, <3>3, <3>5
    <3>. QED BY <1>4, <3>1, <3>4, <3>6 DEF Linked
  <2>. QED BY <2>1, <2>2
<1>. QED BY <1>2, <1>3, <1>4, FramesMove

\* A session is a Link in both directions, over any number of connections: to
\* the client whatever happens, to the server until two connections overlap
\* (store, record, dropTo, drain, and the handle of both multiplexers).
THEOREM ImplementsLinks == Spec => PromiseToStreams
<1>. DEFINE Steps == /\ [ToClient!Next]_(ToClient!link)
                     /\ [overlapped' \/ ToServer!Next]_(ToServer!link)
<1>1. Init => ToClient!Init /\ ToServer!Init
  BY DEF Init, ToClient!Init, ToServer!Init
<1>2. Inv /\ Inv' /\ [Next]_vars => Steps
  <2>1. ASSUME Inv, Inv', Next PROVE Steps
    <3>1. TypeOK /\ Own(Client)' /\ (~overlapped' => Own(Server)')
      BY <2>1 DEF Inv, StreamInv, Stream
    <3>2. Linked(Client) /\ (~overlapped' => Linked(Server))
      BY <2>1, <3>1, StepsLinked, Peers
    <3>3. [ToClient!Next]_(ToClient!link)
      BY <3>2, Peers DEF Linked, ToClient!Next, ToClient!Send, ToClient!Handle, ToClient!link
    <3>4. [overlapped' \/ ToServer!Next]_(ToServer!link)
      BY <3>2, Peers DEF Linked, ToServer!Next, ToServer!Send, ToServer!Handle, ToServer!link
    <3>. QED BY <3>3, <3>4
  <2>2. ASSUME UNCHANGED vars PROVE Steps
    BY <2>2 DEF vars, storeVars, ToClient!link, ToServer!link
  <2>. QED BY <2>1, <2>2
<1>3. Spec => [][ToClient!Next]_(ToClient!link)
                /\ [][overlapped' \/ ToServer!Next]_(ToServer!link)
  BY <1>2, InvAlways, PTL DEF Spec
<1>. QED BY <1>1, <1>3, PTL DEF Spec, PromiseToStreams, ToClient!Spec
=============================================================================
