----------------------- MODULE ConnectionSetup_proofs -----------------------
(***************************************************************************)
(* Theorems of ConnectionSetup, for any number of frames of any length.    *)
(*                                                                         *)
(* The argument has two halves.  The control: which combinations of stage, *)
(* connection, session and keep-alive exist (StageInv, EndInv).  And the   *)
(* bytes: every byte that the server has not consumed has a position in    *)
(* what the client has sent, counted from the first byte of the first      *)
(* frame, and the bytes the loop has left, the buffered ones and those on  *)
(* their way lie one behind the other (BytesInv): the cuts that the socket *)
(* and the loop make move bytes from one to the next, and lose none.       *)
(***************************************************************************)
EXTENDS ConnectionSetup, SequenceTheorems, TLAPS

Types == {"SETUP", "RESUME", "OTHER", "REQUEST", "KEEPALIVE"}

\* The types of the variables; that streams are frames is shown later.
TypedInv ==
    /\ config \in Config /\ sent \in Seq(Types)
    /\ wire \in Seq(Byte) /\ buffer \in Seq(Byte) /\ decoding \in Seq(Byte)
    /\ replies \in Seq(Replies)
    /\ client \in {"open", "told", "ended", "lost"}
    /\ waiting \subseteq DOMAIN sent /\ streams \subseteq Nat
    /\ late \subseteq Nat
    /\ stage \in {"first", "accepting", "accepted", "refused"}
    /\ closedIn \in {"nothing", "accepting", "accepted"}
    /\ done \in BOOLEAN /\ looping \in BOOLEAN /\ muxDone \in BOOLEAN
    /\ session \in BOOLEAN /\ timer \in BOOLEAN
    /\ handled \in Seq(Seq(Byte))
    /\ keepAlive \in {"none", "Running", "Closed"}

-----------------------------------------------------------------------------
(* Sequences: what is cut, appended and joined                             *)

LEMMA Prefix ==
    ASSUME NEW S, NEW q \in Seq(S), NEW n \in 0 .. Len(q)
    PROVE  /\ SubSeq(q, 1, n) \in Seq(S) /\ Len(SubSeq(q, 1, n)) = n
           /\ \A i \in 1 .. n : SubSeq(q, 1, n)[i] = q[i]
<1>1. \A i \in 1 .. n : q[i] \in S
  OBVIOUS
<1>. QED BY <1>1, SubSeqProperties

LEMMA Suffix ==
    ASSUME NEW S, NEW q \in Seq(S), NEW n \in 0 .. Len(q)
    PROVE  /\ SubSeq(q, n + 1, Len(q)) \in Seq(S)
           /\ Len(SubSeq(q, n + 1, Len(q))) = Len(q) - n
           /\ \A i \in 1 .. Len(q) - n : SubSeq(q, n + 1, Len(q))[i] = q[n + i]
<1>1. /\ \A i \in n + 1 .. Len(q) : q[i] \in S
      /\ n + 1 \in Int /\ Len(q) \in Int /\ Len(q) - (n + 1) + 1 = Len(q) - n
  OBVIOUS
<1>. DEFINE r == SubSeq(q, n + 1, Len(q))
<1>2. /\ r \in Seq(S)
      /\ Len(r) = IF n + 1 <= Len(q) THEN Len(q) - (n + 1) + 1 ELSE 0
      /\ \A i \in 1 .. Len(q) - (n + 1) + 1 : r[i] = q[n + 1 + i - 1]
  BY <1>1, SubSeqProperties
<1>3. \A i \in 1 .. Len(q) - n : n + 1 + i - 1 = n + i
  OBVIOUS
<1>. HIDE DEF r
<1>4. Len(r) = Len(q) - n
  BY <1>2
<1>5. \A i \in 1 .. Len(q) - n : r[i] = q[n + i]
  BY <1>1, <1>2, <1>3
<1>. QED BY <1>2, <1>4, <1>5 DEF r

LEMMA Joins ==
    ASSUME NEW S, NEW q \in Seq(S), NEW r \in Seq(S)
    PROVE  q \o r \in Seq(S) /\ Len(q \o r) = Len(q) + Len(r)
OBVIOUS

LEMMA Appended ==
    ASSUME NEW S, NEW q \in Seq(S), NEW x \in S
    PROVE  /\ Append(q, x) \in Seq(S) /\ Len(Append(q, x)) = Len(q) + 1
           /\ Append(q, x)[Len(q) + 1] = x
           /\ \A i \in 1 .. Len(q) : Append(q, x)[i] = q[i]
OBVIOUS

LEMMA BytesOfTyped ==
    ASSUME NEW k \in Nat
    PROVE  /\ BytesOf(k) \in Seq(Byte) /\ Len(BytesOf(k)) = FrameLength
           /\ \A i \in 1 .. FrameLength :
                 BytesOf(k)[i] = [frame |-> k, place |-> i]
<1>1. FrameLength \in Nat
  BY SetupAssumption
<1>2. \A i \in 1 .. FrameLength : [frame |-> k, place |-> i] \in Byte
  BY <1>1 DEF Byte
<1>. QED BY <1>1, <1>2 DEF BytesOf

LEMMA DeliversTyped ==
    ASSUME TypedInv, NEW n, Delivers(n)
    PROVE  /\ n \in 1 .. Len(wire)
           /\ wire' \in Seq(Byte) /\ Received(n) \in Seq(Byte)
           /\ Len(wire') = Len(wire) - n
           /\ Len(Received(n)) = Len(buffer) + n
           /\ Received(n) = buffer \o SubSeq(wire, 1, n)
           /\ SubSeq(wire, 1, n) \in Seq(Byte)
           /\ Len(SubSeq(wire, 1, n)) = n
<1>1. n \in 1 .. Len(wire) /\ n \in 0 .. Len(wire)
      /\ wire' = SubSeq(wire, n + 1, Len(wire)) /\ wire \in Seq(Byte)
      /\ buffer \in Seq(Byte)
  BY DEF Delivers, TypedInv
<1>2. wire' \in Seq(Byte) /\ Len(wire') = Len(wire) - n
  BY <1>1, Suffix
<1>3. SubSeq(wire, 1, n) \in Seq(Byte) /\ Len(SubSeq(wire, 1, n)) = n
  BY <1>1, Prefix
<1>. DEFINE front == SubSeq(wire, 1, n)
<1>. HIDE DEF front
<1>4. buffer \o front \in Seq(Byte) /\ Len(buffer \o front) = Len(buffer) + n
  BY <1>1, <1>3 DEF front
<1>. QED BY <1>1, <1>2, <1>3, <1>4 DEF Received, front

LEMMA RestTyped ==
    ASSUME NEW q \in Seq(Byte), Len(q) >= FrameLength
    PROVE  /\ Rest(q) \in Seq(Byte) /\ Len(Rest(q)) = Len(q) - FrameLength
           /\ \A i \in 1 .. Len(q) - FrameLength : Rest(q)[i] = q[FrameLength + i]
           /\ SubSeq(q, 1, FrameLength) \in Seq(Byte)
           /\ Len(SubSeq(q, 1, FrameLength)) = FrameLength
           /\ \A i \in 1 .. FrameLength : SubSeq(q, 1, FrameLength)[i] = q[i]
<1>1. FrameLength \in 0 .. Len(q)
  BY SetupAssumption
<1>. QED BY <1>1, Prefix, Suffix DEF Rest

-----------------------------------------------------------------------------
(* Types                                                                   *)

LEMMA InitTyped == Init => TypedInv
<1>. SUFFICES ASSUME Init PROVE TypedInv
  OBVIOUS
<1>1. config.first \in Types
  BY DEF Init, Config, Types
<1>2. BytesOf(1) \in Seq(Byte)
  BY BytesOfTyped
<1>3. /\ <<config.first>> \in Seq(Types)
      /\ \A S : <<>> \in Seq(S)
  BY <1>1
<1>. QED BY <1>2, <1>3 DEF Init, TypedInv

LEMMA RefuseTyped ==
    ASSUME TypedInv, Refuse, wire' \in Seq(Byte)
    PROVE  TypedInv'
<1>1. Reply("ERROR", 0) \in Replies /\ Reply("END", 0) \in Replies
  BY DEF Reply, Replies
<1>. DEFINE a == Reply("ERROR", 0)
            b == Reply("END", 0)
<1>2. replies' \in Seq(Replies)
  <2>1. replies \in Seq(Replies)
        /\ replies' = IF done THEN replies ELSE replies \o <<a, b>>
    BY DEF TypedInv, Refuse
  <2>. HIDE DEF a, b
  <2>2. <<a, b>> \in Seq(Replies)
    BY <1>1 DEF a, b
  <2>. QED BY <2>1, <2>2
<1>3. <<>> \in Seq(Byte)
  OBVIOUS
<1>. QED BY <1>2, <1>3 DEF TypedInv, Refuse, clientVars

LEMMA TypedSteps == TypedInv /\ Next => TypedInv'
<1>. SUFFICES ASSUME TypedInv, Next PROVE TypedInv'
  OBVIOUS
<1>. /\ wire \in Seq(Byte) /\ buffer \in Seq(Byte) /\ decoding \in Seq(Byte)
     /\ replies \in Seq(Replies) /\ sent \in Seq(Types)
     /\ handled \in Seq(Seq(Byte)) /\ <<>> \in Seq(Byte)
  BY DEF TypedInv
<1>1. ASSUME NEW type \in {"REQUEST", "KEEPALIVE"}, ClientSends(type)
      PROVE  TypedInv'
  <2>1. sent' = Append(sent, type) /\ type \in Types
    BY <1>1 DEF ClientSends, Types
  <2>2. /\ sent' \in Seq(Types) /\ Len(sent') = Len(sent) + 1
        /\ Len(sent') \in Nat
    BY <2>1, Appended
  <2>3. wire \o BytesOf(Len(sent')) \in Seq(Byte)
    BY <2>2, BytesOfTyped
  <2>4. wire' \in Seq(Byte)
    BY <1>1, <2>3 DEF ClientSends
  <2>5. waiting' \subseteq DOMAIN sent'
    <3>1. waiting' \subseteq waiting \cup {Len(sent')}
      BY <1>1 DEF ClientSends
    <3>2. waiting \subseteq 1 .. Len(sent) /\ DOMAIN sent' = 1 .. Len(sent')
      BY <2>2 DEF TypedInv
    <3>. QED BY <2>2, <3>1, <3>2
  <2>. QED BY <1>1, <2>2, <2>4, <2>5 DEF ClientSends, TypedInv, inputVars,
       serverVars
<1>2. CASE ClientReads
  <2>1. replies' = Tail(replies) /\ replies # <<>>
    BY <1>2 DEF ClientReads
  <2>2. replies' \in Seq(Replies)
    BY <2>1
  <2>3. waiting' \subseteq waiting /\ UNCHANGED sent
        /\ client' \in {"open", "told", "ended", "lost"}
    BY <1>2 DEF ClientReads, ClientEnds, TypedInv
  <2>. QED BY <1>2, <2>2, <2>3 DEF ClientReads, TypedInv, inputVars, serverVars
<1>3. CASE ClientLoses
  BY <1>3 DEF ClientLoses, ClientEnds, TypedInv, inputVars, serverVars
<1>4. ASSUME NEW n, BuffersFirstFrame(n) PROVE TypedInv'
  <2>1. wire' \in Seq(Byte) /\ Received(n) \in Seq(Byte)
    BY <1>4, DeliversTyped DEF BuffersFirstFrame
  <2>. QED BY <1>4, <2>1 DEF BuffersFirstFrame, TypedInv, clientVars, serverVars
<1>5. ASSUME NEW n, RefusesFirstFrame(n) PROVE TypedInv'
  <2>1. wire' \in Seq(Byte) /\ Refuse
    BY <1>5, DeliversTyped DEF RefusesFirstFrame, ReadsFirstFrame
  <2>. QED BY <2>1, RefuseTyped
<1>6. ASSUME NEW n, CallsAcceptor(n) PROVE TypedInv'
  <2>1. wire' \in Seq(Byte) /\ Received(n) \in Seq(Byte)
        /\ Len(Received(n)) >= FrameLength
    BY <1>6, DeliversTyped DEF CallsAcceptor, ReadsFirstFrame
  <2>2. Rest(Received(n)) \in Seq(Byte)
    BY <2>1, RestTyped
  <2>3. config.offersResume \in BOOLEAN
    BY DEF TypedInv, Config
  <2>. QED BY <1>6, <2>1, <2>2, <2>3 DEF CallsAcceptor, TypedInv, clientVars
<1>7. CASE AcceptorResolves
  BY <1>7 DEF AcceptorResolves, TypedInv, clientVars
<1>8. CASE AcceptorRejects
  BY <1>8, RefuseTyped DEF AcceptorRejects
<1>9. ASSUME NEW n, Reads(n) PROVE TypedInv'
  <2>1. wire' \in Seq(Byte) /\ Received(n) \in Seq(Byte)
    BY <1>9, DeliversTyped DEF Reads
  <2>. QED BY <1>9, <2>1 DEF Reads, TypedInv, clientVars, serverVars
<1>10. CASE Dispatches
  <2>. DEFINE frame == SubSeq(decoding, 1, FrameLength)
              k == frame[1].frame
  <2>1. /\ frame \in Seq(Byte) /\ Len(frame) = FrameLength
        /\ Rest(decoding) \in Seq(Byte)
    BY <1>10, RestTyped DEF Dispatches
  <2>2. k \in Nat
    BY <2>1, SetupAssumption DEF Byte
  <2>3. handled' = Append(handled, frame) /\ decoding' = Rest(decoding)
    BY <1>10 DEF Dispatches
  <2>4. handled' \in Seq(Seq(Byte))
    BY <2>1, <2>3, Appended
  <2>5. streams' \subseteq Nat /\ late' \subseteq Nat
    BY <1>10, <2>2 DEF Dispatches, TypedInv
  <2>6. replies' \in Seq(Replies)
    <3>1. Reply("KEEPALIVE", k) \in Replies
      BY <2>2 DEF Reply, Replies
    <3>2. Replied(Reply("KEEPALIVE", k)) \in Seq(Replies)
      BY <3>1, Appended DEF Replied
    <3>. QED BY <1>10, <3>2 DEF Dispatches
  <2>. QED BY <1>10, <2>1, <2>3, <2>4, <2>5, <2>6, ZenonT(60) DEF Dispatches, TypedInv, clientVars
<1>11. CASE DecodingEnds
  BY <1>11, ZenonT(60) DEF DecodingEnds, TypedInv, clientVars, serverVars
<1>12. CASE ServerCloses
  <2>1. Reply("END", 0) \in Replies
    BY DEF Reply, Replies
  <2>2. PICK n \in 0 .. Len(replies) :
           replies' = Append(SubSeq(replies, 1, n), Reply("END", 0))
    BY <1>12 DEF ServerCloses
  <2>3. SubSeq(replies, 1, n) \in Seq(Replies)
    BY Prefix
  <2>4. replies' \in Seq(Replies)
    BY <2>1, <2>2, <2>3, Appended
  <2>5. /\ timer' \in BOOLEAN /\ muxDone' \in BOOLEAN
        /\ streams' \subseteq Nat
    BY <1>12 DEF ServerCloses, MultiplexerLosesConnection, TypedInv
  <2>. QED BY <1>12, <2>4, <2>5 DEF ServerCloses, TypedInv, clientVars, inputVars
<1>13. ASSUME NEW k \in streams, Answers(k) PROVE TypedInv'
  <2>1. Reply("ANSWER", k) \in Replies
    BY <1>13 DEF Reply, Replies, TypedInv
  <2>2. replies' \in Seq(Replies)
    BY <1>13, <2>1, Appended DEF Answers, Replied
  <2>. QED BY <1>13, <2>2 DEF Answers, TypedInv, clientVars, inputVars
<1>14. CASE SessionTimesOut
  BY <1>14 DEF SessionTimesOut, TypedInv, clientVars, inputVars
<1>. QED BY <1>1, <1>2, <1>3, <1>4, <1>5, <1>6, <1>7, <1>8, <1>9, <1>10, <1>11,
            <1>12, <1>13, <1>14
     DEF Next, ReadsFirst, AcceptorSettles, ReadsOn

LEMMA TypedAlways == Spec => []TypedInv
<1>1. TypedInv /\ [Next]_vars => TypedInv'
  <2>1. TypedInv /\ UNCHANGED vars => TypedInv'
    BY DEF vars, TypedInv, clientVars, inputVars, serverVars
  <2>. QED BY <2>1, TypedSteps
<1>. QED BY <1>1, InitTyped, PTL DEF Spec

-----------------------------------------------------------------------------
(* The control                                                             *)

\* Which stages go with which connections, and what a stage has not begun.
StageInv ==
    /\ looping => stage = "accepted"
    /\ stage \in {"first", "accepting"} =>
          handled = <<>> /\ streams = {} /\ keepAlive = "none"
    /\ stage = "first" => ~done
    /\ done /\ stage = "accepting" => closedIn = "accepting"
    /\ done /\ stage = "accepted" => closedIn # "nothing"
    /\ stage = "refused" => done /\ ~session
    /\ done => keepAlive # "Running"
    /\ stage \in {"first", "refused"} => ~session
    /\ session => config.offersResume
    /\ (done /\ session /\ ~muxDone) => (timer \/ closedIn = "accepting")
    /\ muxDone => streams \subseteq late

LEMMA StageSteps == TypedInv /\ StageInv /\ Next => StageInv'
<1>. SUFFICES ASSUME TypedInv, StageInv, Next PROVE StageInv'
  OBVIOUS
<1>1. CASE \/ \E type \in {"REQUEST", "KEEPALIVE"} : ClientSends(type)
           \/ ClientReads \/ ClientLoses
  BY <1>1 DEF ClientSends, ClientReads, ClientLoses, StageInv, inputVars,
     serverVars
<1>2. CASE \E n \in 1 .. Len(wire) : BuffersFirstFrame(n)
  BY <1>2 DEF BuffersFirstFrame, StageInv, clientVars, serverVars
<1>3. CASE (\E n \in 1 .. Len(wire) : RefusesFirstFrame(n)) \/ AcceptorRejects
  BY <1>3 DEF RefusesFirstFrame, ReadsFirstFrame, AcceptorRejects, Refuse,
     StageInv, clientVars
<1>4. CASE \E n \in 1 .. Len(wire) : CallsAcceptor(n)
  <2>1. config.offersResume \in BOOLEAN
    BY DEF TypedInv, Config
  <2>. QED BY <1>4, <2>1 DEF CallsAcceptor, ReadsFirstFrame, StageInv, clientVars
<1>5. CASE AcceptorResolves
  BY <1>5 DEF AcceptorResolves, StageInv, clientVars
<1>6. CASE (\E n \in 1 .. Len(wire) : Reads(n)) \/ DecodingEnds
  BY <1>6 DEF Reads, DecodingEnds, StageInv, clientVars, serverVars
<1>7. CASE Dispatches
  <2>1. stage = "accepted"
    BY <1>7 DEF Dispatches, StageInv
  <2>2. muxDone => streams' \subseteq late'
    BY <1>7 DEF Dispatches, StageInv
  <2>3. UNCHANGED <<config, looping, stage, done, closedIn, muxDone,
                    keepAlive, session, timer>>
    BY <1>7 DEF Dispatches
  <2>. QED BY <2>1, <2>2, <2>3 DEF StageInv
<1>8. CASE ServerCloses
  BY <1>8 DEF ServerCloses, MultiplexerLosesConnection, StageInv, TypedInv,
     clientVars, inputVars
<1>9. CASE \E k \in streams : Answers(k)
  BY <1>9 DEF Answers, StageInv, clientVars, inputVars
<1>10. CASE SessionTimesOut
  BY <1>10 DEF SessionTimesOut, StageInv, clientVars, inputVars
<1>. QED BY <1>1, <1>2, <1>3, <1>4, <1>5, <1>6, <1>7, <1>8, <1>9, <1>10
     DEF Next, ReadsFirst, AcceptorSettles, ReadsOn

LEMMA StageAlways == Spec => []StageInv
<1>1. Init => StageInv
  BY DEF Init, StageInv
<1>2. TypedInv /\ StageInv /\ [Next]_vars => StageInv'
  <2>1. StageInv /\ UNCHANGED vars => StageInv'
    BY DEF vars, StageInv, clientVars, inputVars, serverVars
  <2>. QED BY <2>1, StageSteps
<1>. QED BY <1>1, <1>2, TypedAlways, PTL DEF Spec

\* Nothing outlives the connection, also one that closes while the acceptor
\* runs (the connection handlers of RSocketServer.bind, KeepAliveHandler,
\* ResumableClientServerInputMultiplexerDemultiplexer): keep-alive stops, a
\* session is timed, the streams have closed with their multiplexer, except
\* what is known to escape.
THEOREM NothingOutlives == Spec => []ReleasedWithConnection
<1>1. StageInv => ReleasedWithConnection
  BY DEF StageInv, ReleasedWithConnection
<1>. QED BY <1>1, StageAlways, PTL

-----------------------------------------------------------------------------
(* What the client is told                                                 *)

Ended(r) == \E i \in 1 .. Len(r) : r[i].type = "END"

\* Every end of the connection has an ERROR before it.
ErrorFirst(r) ==
    \A i \in 1 .. Len(r) : r[i].type = "END" =>
       \E j \in 1 .. Len(r) : j < i /\ r[j].type = "ERROR"

\* There is no end under way before the server is done; and behind a refusal
\* only an end that the client learns from an ERROR.
EndInv ==
    /\ ~done => ~Ended(replies) /\ client # "ended"
    /\ (stage = "refused" /\ closedIn # "accepting") =>
          client # "ended" /\ (client = "open" => ErrorFirst(replies))

LEMMA EndTaken ==
    ASSUME NEW r \in Seq(Replies), r # <<>>
    PROVE  /\ ~Ended(r) => ~Ended(Tail(r)) /\ Head(r).type # "END"
           /\ ErrorFirst(r) => /\ Head(r).type # "END"
                               /\ Head(r).type # "ERROR" => ErrorFirst(Tail(r))
<1>1. /\ Head(r) = r[1] /\ 1 \in 1 .. Len(r)
      /\ Len(Tail(r)) = Len(r) - 1 /\ Len(r) \in Nat
      /\ \A i \in 1 .. Len(Tail(r)) : /\ Tail(r)[i] = r[i + 1]
                                      /\ i + 1 \in 1 .. Len(r)
  OBVIOUS
<1>2. ~Ended(r) => ~Ended(Tail(r)) /\ Head(r).type # "END"
  BY <1>1 DEF Ended
<1>3. ASSUME ErrorFirst(r) PROVE Head(r).type # "END"
  <2>1. r[1].type = "END" => \E j \in 1 .. Len(r) : j < 1
    BY <1>1, <1>3 DEF ErrorFirst
  <2>. QED BY <1>1, <2>1
<1>4. ASSUME ErrorFirst(r), Head(r).type # "ERROR" PROVE ErrorFirst(Tail(r))
  <2>1. ASSUME NEW i \in 1 .. Len(Tail(r)), Tail(r)[i].type = "END"
        PROVE  \E j \in 1 .. Len(Tail(r)) : j < i /\ Tail(r)[j].type = "ERROR"
    <3>1. PICK j \in 1 .. Len(r) : j < i + 1 /\ r[j].type = "ERROR"
      BY <1>1, <1>4, <2>1 DEF ErrorFirst
    <3>2. j # 1
      BY <1>1, <1>4, <3>1
    <3>3. j - 1 \in 1 .. Len(Tail(r)) /\ j - 1 < i /\ (j - 1) + 1 = j
      BY <1>1, <3>1, <3>2
    <3>. QED BY <1>1, <3>1, <3>3
  <2>. QED BY <2>1 DEF ErrorFirst
<1>. QED BY <1>2, <1>3, <1>4

LEMMA EndAppended ==
    ASSUME NEW r \in Seq(Replies), NEW x \in Replies, x.type # "END", ~Ended(r)
    PROVE  ~Ended(Append(r, x))
<1>1. /\ Len(Append(r, x)) = Len(r) + 1 /\ Append(r, x)[Len(r) + 1] = x
      /\ \A i \in 1 .. Len(r) : Append(r, x)[i] = r[i]
      /\ \A i \in 1 .. Len(r) + 1 : i \in 1 .. Len(r) \/ i = Len(r) + 1
  BY Appended
<1>. QED BY <1>1 DEF Ended

LEMMA RefuseEnd ==
    ASSUME TypedInv, StageInv, EndInv, Refuse, stage \in {"first", "accepting"}
    PROVE  EndInv'
<1>1. done' /\ stage' = "refused" /\ UNCHANGED <<client, closedIn>>
  BY DEF Refuse, clientVars
<1>2. CASE done
  BY <1>1, <1>2 DEF EndInv, StageInv
<1>3. CASE ~done
  <2>. DEFINE a == Reply("ERROR", 0)
              b == Reply("END", 0)
  <2>1. a \in Replies /\ b \in Replies /\ a.type = "ERROR" /\ b.type = "END"
    BY DEF Reply, Replies
  <2>2. replies' = replies \o <<a, b>> /\ replies \in Seq(Replies)
    BY <1>3 DEF Refuse, TypedInv
  <2>. HIDE DEF a, b
  <2>3. ErrorFirst(replies')
    <3>1. /\ Len(replies') = Len(replies) + 2
          /\ replies'[Len(replies) + 1] = a
          /\ \A i \in 1 .. Len(replies) : replies'[i] = replies[i]
          /\ \A i \in 1 .. Len(replies) + 2 :
                i \in 1 .. Len(replies) \/ i = Len(replies) + 1
                                        \/ i = Len(replies) + 2
          /\ Len(replies) \in Nat
      BY <2>1, <2>2
    <3>2. ASSUME NEW i \in 1 .. Len(replies'), replies'[i].type = "END"
          PROVE  i = Len(replies) + 2
      BY <1>3, <2>1, <3>1, <3>2 DEF EndInv, Ended
    <3>3. Len(replies) + 1 \in 1 .. Len(replies') /\ Len(replies) + 1 < Len(replies) + 2
      BY <3>1
    <3>. QED BY <2>1, <3>1, <3>2, <3>3 DEF ErrorFirst
  <2>. QED BY <1>1, <1>3, <2>3 DEF EndInv
<1>. QED BY <1>2, <1>3

LEMMA EndSteps == TypedInv /\ StageInv /\ EndInv /\ Next => EndInv'
<1>. SUFFICES ASSUME TypedInv, StageInv, EndInv, Next PROVE EndInv'
  OBVIOUS
<1>0. replies \in Seq(Replies)
  BY DEF TypedInv
<1>1. ASSUME UNCHANGED <<client, replies, closedIn, done>>,
             stage' = "refused" => stage = "refused"
      PROVE  EndInv'
  BY <1>1 DEF EndInv
<1>2. CASE \E type \in {"REQUEST", "KEEPALIVE"} : ClientSends(type)
  BY <1>1, <1>2 DEF ClientSends, serverVars
<1>3. CASE ClientReads
  <2>1. /\ replies # <<>> /\ replies' = Tail(replies) /\ client = "open"
        /\ UNCHANGED <<done, stage, closedIn>>
    BY <1>3 DEF ClientReads, serverVars
  <2>2. client' = "ended" => Head(replies).type = "END"
    BY <1>3 DEF ClientReads, ClientEnds
  <2>3. client' = "open" => Head(replies).type # "ERROR"
    BY <1>3 DEF ClientReads, ClientEnds
  <2>. QED BY <1>0, <2>1, <2>2, <2>3, EndTaken DEF EndInv
<1>4. CASE ClientLoses
  BY <1>4 DEF ClientLoses, ClientEnds, EndInv, serverVars
<1>5. CASE \E n \in 1 .. Len(wire) : BuffersFirstFrame(n)
  BY <1>1, <1>5 DEF BuffersFirstFrame, clientVars, serverVars
<1>6. CASE (\E n \in 1 .. Len(wire) : RefusesFirstFrame(n)) \/ AcceptorRejects
  BY <1>6, RefuseEnd DEF RefusesFirstFrame, ReadsFirstFrame, AcceptorRejects
<1>7. CASE \E n \in 1 .. Len(wire) : CallsAcceptor(n)
  BY <1>1, <1>7 DEF CallsAcceptor, clientVars
<1>8. CASE AcceptorResolves
  BY <1>1, <1>8 DEF AcceptorResolves, clientVars
<1>9. CASE (\E n \in 1 .. Len(wire) : Reads(n)) \/ DecodingEnds
  BY <1>1, <1>9 DEF Reads, DecodingEnds, clientVars, serverVars
<1>10. ASSUME NEW x \in Replies, x.type # "END",
              replies' = Replied(x) \/ replies' = replies,
              stage # "refused" \/ done,
              UNCHANGED <<client, stage, closedIn, done>>
       PROVE  EndInv'
  <2>1. CASE done
    <3>1. replies' = replies
      BY <1>10, <2>1 DEF Replied
    <3>. QED BY <1>1, <1>10, <3>1
  <2>2. CASE ~done
    <3>1. ~Ended(replies')
      BY <1>0, <1>10, <2>2, EndAppended DEF Replied, EndInv
    <3>. QED BY <1>10, <2>2, <3>1 DEF EndInv
  <2>. QED BY <2>1, <2>2
<1>11. CASE Dispatches
  <2>. DEFINE k == SubSeq(decoding, 1, FrameLength)[1].frame
  <2>1. k \in Nat
    <3>1. /\ SubSeq(decoding, 1, FrameLength) \in Seq(Byte)
          /\ Len(SubSeq(decoding, 1, FrameLength)) = FrameLength
      BY <1>11, RestTyped DEF Dispatches, TypedInv
    <3>. QED BY <3>1, SetupAssumption DEF Byte
  <2>2. /\ Reply("KEEPALIVE", k) \in Replies
        /\ Reply("KEEPALIVE", k).type # "END"
    BY <2>1 DEF Reply, Replies
  <2>3. replies' = Replied(Reply("KEEPALIVE", k)) \/ replies' = replies
    BY <1>11 DEF Dispatches
  <2>4. stage # "refused" /\ UNCHANGED <<client, stage, closedIn, done>>
    BY <1>11 DEF Dispatches, StageInv, clientVars
  <2>. QED BY <1>10, <2>2, <2>3, <2>4
<1>12. CASE ServerCloses
  BY <1>12 DEF ServerCloses, EndInv
<1>13. CASE \E k \in streams : Answers(k)
  <2>1. PICK k \in streams : Answers(k)
    BY <1>13
  <2>2. /\ Reply("ANSWER", k) \in Replies
        /\ Reply("ANSWER", k).type # "END"
    BY DEF Reply, Replies, TypedInv
  <2>3. /\ replies' = Replied(Reply("ANSWER", k))
        /\ UNCHANGED <<client, stage, closedIn, done>>
    BY <2>1 DEF Answers, clientVars
  <2>4. stage # "refused" \/ done
    BY DEF StageInv
  <2>. QED BY <1>10, <2>2, <2>3, <2>4
<1>14. CASE SessionTimesOut
  BY <1>1, <1>14 DEF SessionTimesOut, clientVars
<1>. QED BY <1>2, <1>3, <1>4, <1>5, <1>6, <1>7, <1>8, <1>9, <1>11, <1>12,
            <1>13, <1>14
     DEF Next, ReadsFirst, AcceptorSettles, ReadsOn

\* A client whose connection is refused learns it from an ERROR, not from a
\* mere end of the connection, unless the connection was lost before the
\* refusal (RSocketServer.bind sends ERROR, then closes).
THEOREM RefusalIsTold == Spec => []RefusalTold
<1>1. EndInv => RefusalTold
  BY DEF EndInv, RefusalTold
<1>2. Init => EndInv
  BY DEF Init, EndInv, Ended
<1>3. TypedInv /\ StageInv /\ EndInv /\ [Next]_vars => EndInv'
  <2>1. EndInv /\ UNCHANGED vars => EndInv'
    BY DEF vars, EndInv, clientVars, inputVars, serverVars
  <2>. QED BY <2>1, EndSteps
<1>. QED BY <1>1, <1>2, <1>3, TypedAlways, StageAlways, PTL DEF Spec

-----------------------------------------------------------------------------
(* The bytes                                                               *)

Position(b) == (b.frame - 1) * FrameLength + b.place

\* The bytes of q are the ones behind the first base bytes sent.
InPlace(q, base) ==
    \A i \in 1 .. Len(q) : /\ q[i].frame >= 1 /\ q[i].place \in 1 .. FrameLength
                           /\ Position(q[i]) = base + i

\* What the server has not consumed, up to at most the end of what was sent.
Laid(d, b, w, base, end, exact) ==
    /\ InPlace(d, base) /\ InPlace(b, base + Len(d))
    /\ InPlace(w, base + Len(d) + Len(b))
    /\ base + Len(d) + Len(b) + Len(w) <= end
    /\ exact => base + Len(d) + Len(b) + Len(w) = end

Consumed == IF stage = "first" THEN 0 ELSE (Len(handled) + 1) * FrameLength

BytesInv ==
    stage # "refused" =>
       /\ Laid(decoding, buffer, wire, Consumed, Len(sent) * FrameLength, ~done)
       /\ IF looping THEN buffer = <<>> ELSE decoding = <<>>

\* A position is that of one byte only.
LEMMA OnePosition ==
    ASSUME NEW a \in Nat, NEW b \in Nat, NEW p \in 1 .. FrameLength,
           NEW i \in 1 .. FrameLength,
           a * FrameLength + p = b * FrameLength + i
    PROVE  a = b /\ p = i
<1>1. FrameLength \in Nat
  BY SetupAssumption
<1>2. ASSUME NEW c \in Nat, NEW d \in Nat, NEW x \in 1 .. FrameLength,
             NEW y \in 1 .. FrameLength,
             c * FrameLength + x = d * FrameLength + y
      PROVE  ~(c < d)
  <2>. SUFFICES ASSUME c < d PROVE FALSE
    OBVIOUS
  <2>. DEFINE e == d - c - 1
  <2>1. e \in Nat /\ d = c + e + 1
    OBVIOUS
  <2>. HIDE DEF e
  <2>2. d * FrameLength = c * FrameLength + e * FrameLength + FrameLength
    BY <1>1, <2>1
  <2>3. e * FrameLength \in Nat /\ c * FrameLength \in Nat
    BY <1>1, <2>1
  <2>. QED BY <1>1, <1>2, <2>2, <2>3
<1>3. ~(a < b) /\ ~(b < a)
  BY <1>2
<1>4. a = b
  BY <1>3
<1>5. a * FrameLength \in Nat
  BY <1>1
<1>. QED BY <1>1, <1>4, <1>5

LEMMA FewerFrames ==
    ASSUME NEW a \in Nat, NEW b \in Nat, a * FrameLength <= b * FrameLength
    PROVE  a <= b
<1>1. FrameLength \in Nat /\ FrameLength >= 1
  BY SetupAssumption
<1>. SUFFICES ASSUME b < a PROVE FALSE
  OBVIOUS
<1>. DEFINE e == a - b - 1
<1>2. e \in Nat /\ a = b + e + 1
  OBVIOUS
<1>. HIDE DEF e
<1>3. a * FrameLength = b * FrameLength + e * FrameLength + FrameLength
  BY <1>1, <1>2
<1>4. e * FrameLength \in Nat /\ b * FrameLength \in Nat
        /\ a * FrameLength \in Nat
  BY <1>1, <1>2
<1>. QED BY <1>1, <1>3, <1>4

LEMMA InPlaceParts ==
    ASSUME NEW q \in Seq(Byte), NEW base \in Nat, InPlace(q, base)
    PROVE  /\ \A n \in 0 .. Len(q) :
                 /\ InPlace(SubSeq(q, 1, n), base)
                 /\ InPlace(SubSeq(q, n + 1, Len(q)), base + n)
           /\ \A r \in Seq(Byte) :
                 InPlace(r, base + Len(q)) => InPlace(q \o r, base)
<1>1. ASSUME NEW n \in 0 .. Len(q)
      PROVE  /\ InPlace(SubSeq(q, 1, n), base)
             /\ InPlace(SubSeq(q, n + 1, Len(q)), base + n)
  <2>1. InPlace(SubSeq(q, 1, n), base)
    <3>1. /\ Len(SubSeq(q, 1, n)) = n /\ \A i \in 1 .. n : i \in 1 .. Len(q)
          /\ \A i \in 1 .. n : SubSeq(q, 1, n)[i] = q[i]
      BY Prefix
    <3>. QED BY <3>1 DEF InPlace
  <2>2. InPlace(SubSeq(q, n + 1, Len(q)), base + n)
    <3>. DEFINE r == SubSeq(q, n + 1, Len(q))
    <3>1. /\ Len(r) = Len(q) - n
          /\ \A i \in 1 .. Len(q) - n : r[i] = q[n + i]
      BY Suffix
    <3>. HIDE DEF r
    <3>2. ASSUME NEW i \in 1 .. Len(r)
          PROVE  /\ r[i] = q[n + i] /\ n + i \in 1 .. Len(q)
                 /\ base + (n + i) = base + n + i
      BY <3>1
    <3>3. ASSUME NEW i \in 1 .. Len(r)
          PROVE  /\ r[i].frame >= 1 /\ r[i].place \in 1 .. FrameLength
                 /\ Position(r[i]) = base + n + i
      BY <3>2 DEF InPlace
    <3>. QED BY <3>3 DEF InPlace, r
  <2>. QED BY <2>1, <2>2
<1>2. ASSUME NEW r \in Seq(Byte), InPlace(r, base + Len(q))
      PROVE  InPlace(q \o r, base)
  <2>1. /\ Len(q \o r) = Len(q) + Len(r)
        /\ \A i \in 1 .. Len(q) : (q \o r)[i] = q[i]
        /\ \A i \in 1 .. Len(r) : (q \o r)[Len(q) + i] = r[i]
    OBVIOUS
  <2>. DEFINE s == q \o r
  <2>. HIDE DEF s
  <2>2. ASSUME NEW i \in 1 .. Len(s)
        PROVE  /\ s[i].frame >= 1 /\ s[i].place \in 1 .. FrameLength
               /\ Position(s[i]) = base + i
    <3>1. CASE i <= Len(q)
      <4>1. i \in 1 .. Len(q) /\ s[i] = q[i]
        BY <2>1, <3>1 DEF s
      <4>. QED BY <4>1 DEF InPlace
    <3>2. CASE i > Len(q)
      <4>. DEFINE j == i - Len(q)
      <4>1. j \in 1 .. Len(r) /\ Len(q) + j = i
        BY <2>1, <3>2 DEF s
      <4>. HIDE DEF j
      <4>2. s[Len(q) + j] = r[j]
        BY <2>1, <4>1 DEF s
      <4>3. base + Len(q) + j = base + i
        BY <4>1
      <4>. QED BY <1>2, <4>1, <4>2, <4>3 DEF InPlace
    <3>. QED BY <3>1, <3>2
  <2>. QED BY <2>2 DEF InPlace, s
<1>. QED BY <1>1, <1>2

LEMMA InPlaceEmpty ==
    \A base : InPlace(<<>>, base)
BY DEF InPlace

\* A whole frame at a frame's boundary is that frame.
LEMMA WholeFrame ==
    ASSUME NEW q \in Seq(Byte), NEW m \in Nat, InPlace(q, m * FrameLength),
           Len(q) >= FrameLength
    PROVE  SubSeq(q, 1, FrameLength) = BytesOf(m + 1)
<1>1. FrameLength \in Nat /\ m + 1 \in Nat
  BY SetupAssumption
<1>2. /\ SubSeq(q, 1, FrameLength) \in Seq(Byte)
      /\ Len(SubSeq(q, 1, FrameLength)) = FrameLength
      /\ \A i \in 1 .. FrameLength : SubSeq(q, 1, FrameLength)[i] = q[i]
  BY RestTyped
<1>3. ASSUME NEW i \in 1 .. FrameLength
      PROVE  q[i] = [frame |-> m + 1, place |-> i]
  <2>1. i \in 1 .. Len(q) /\ q[i] \in Byte
    BY <1>1
  <2>2. /\ q[i].frame >= 1 /\ q[i].place \in 1 .. FrameLength
        /\ (q[i].frame - 1) * FrameLength + q[i].place = m * FrameLength + i
    BY <2>1 DEF InPlace, Position
  <2>3. q[i].frame - 1 \in Nat
    BY <2>1, <2>2 DEF Byte
  <2>4. q[i].frame - 1 = m /\ q[i].place = i
    BY <2>2, <2>3, OnePosition
  <2>5. q[i].frame = m + 1
    BY <2>1, <2>4 DEF Byte
  <2>. QED BY <2>1, <2>4, <2>5 DEF Byte
<1>4. /\ BytesOf(m + 1) \in Seq(Byte) /\ Len(BytesOf(m + 1)) = FrameLength
      /\ \A i \in 1 .. FrameLength :
            BytesOf(m + 1)[i] = [frame |-> m + 1, place |-> i]
  BY <1>1, BytesOfTyped
<1>5. \A i \in 1 .. FrameLength : SubSeq(q, 1, FrameLength)[i] = BytesOf(m + 1)[i]
  BY <1>2, <1>3, <1>4, ZenonT(60)
<1>. DEFINE r == SubSeq(q, 1, FrameLength)
            t == BytesOf(m + 1)
<1>. HIDE DEF r, t
<1>6. r = t
  BY <1>2, <1>4, <1>5, SeqEqual DEF r, t
<1>. QED BY <1>6 DEF r, t

LEMMA BytesOfInPlace ==
    ASSUME NEW k \in Nat
    PROVE  InPlace(BytesOf(k + 1), k * FrameLength)
<1>1. /\ Len(BytesOf(k + 1)) = FrameLength /\ FrameLength \in Nat
      /\ \A i \in 1 .. FrameLength :
            BytesOf(k + 1)[i] = [frame |-> k + 1, place |-> i]
  BY BytesOfTyped, SetupAssumption
<1>2. ASSUME NEW i \in 1 .. FrameLength
      PROVE  LET b == BytesOf(k + 1)[i]
             IN  /\ b.frame >= 1 /\ b.place \in 1 .. FrameLength
                 /\ Position(b) = k * FrameLength + i
  <2>. DEFINE b == BytesOf(k + 1)[i]
  <2>0. b = [frame |-> k + 1, place |-> i]
    BY <1>1
  <2>. HIDE DEF b
  <2>1. b.frame = k + 1 /\ b.place = i
    BY <2>0
  <2>2. (k + 1) - 1 = k /\ k + 1 >= 1
    OBVIOUS
  <2>3. b.frame >= 1 /\ b.place \in 1 .. FrameLength
        /\ Position(b) = k * FrameLength + i
    BY <2>1, <2>2 DEF Position
  <2>. QED BY <2>3 DEF b
<1>. QED BY <1>1, <1>2 DEF InPlace

\* How the steps move the bytes.
LEMMA LaidMoves ==
    ASSUME NEW b \in Seq(Byte), NEW w \in Seq(Byte), NEW base \in Nat,
           NEW end \in Nat, NEW exact
    PROVE  /\ Laid(<<>>, b, w, base, end, exact)
                 <=> Laid(b, <<>>, w, base, end, exact)
           /\ Laid(<<>>, b, w, base, end, exact) =>
                 \A n \in 0 .. Len(w) :
                    Laid(<<>>, b \o SubSeq(w, 1, n), SubSeq(w, n + 1, Len(w)),
                         base, end, exact)
           /\ Laid(b, <<>>, w, base, end, exact) /\ Len(b) >= FrameLength =>
                 Laid(Rest(b), <<>>, w, base + FrameLength, end, exact)
<1>0. FrameLength \in Nat /\ Len(<<>>) = 0
  BY SetupAssumption
<1>1. Laid(<<>>, b, w, base, end, exact) <=> Laid(b, <<>>, w, base, end, exact)
  <2>1. /\ base + Len(<<>>) + Len(b) = base + Len(b) + Len(<<>>)
        /\ base + Len(<<>>) = base
    BY <1>0
  <2>. QED BY <2>1, InPlaceEmpty DEF Laid
<1>2. ASSUME Laid(<<>>, b, w, base, end, exact), NEW n \in 0 .. Len(w)
      PROVE  Laid(<<>>, b \o SubSeq(w, 1, n), SubSeq(w, n + 1, Len(w)), base,
                  end, exact)
  <2>. DEFINE f == SubSeq(w, 1, n)
              r == SubSeq(w, n + 1, Len(w))
              c == b \o f
  <2>1. /\ InPlace(b, base) /\ InPlace(w, base + Len(b)) /\ base + Len(b) \in Nat
        /\ base + Len(b) + Len(w) <= end
        /\ exact => base + Len(b) + Len(w) = end
    BY <1>0, <1>2 DEF Laid
  <2>2. InPlace(f, base + Len(b)) /\ InPlace(r, base + Len(b) + n)
    BY <2>1, InPlaceParts
  <2>3. f \in Seq(Byte) /\ Len(f) = n /\ Len(r) = Len(w) - n /\ r \in Seq(Byte)
    BY Prefix, Suffix
  <2>. HIDE DEF f, r
  <2>4. InPlace(c, base)
    BY <2>1, <2>2, <2>3, InPlaceParts
  <2>5. Len(c) = Len(b) + n
    BY <2>3, Joins
  <2>. HIDE DEF c
  <2>6. /\ base + Len(<<>>) = base
        /\ base + Len(<<>>) + Len(c) = base + Len(b) + n
        /\ base + Len(<<>>) + Len(c) + Len(r) = base + Len(b) + Len(w)
    BY <1>0, <2>3, <2>5
  <2>7. Laid(<<>>, c, r, base, end, exact)
    BY <2>1, <2>2, <2>4, <2>6, InPlaceEmpty DEF Laid
  <2>. QED BY <2>7 DEF c, f, r
<1>3. ASSUME Laid(b, <<>>, w, base, end, exact), Len(b) >= FrameLength
      PROVE  Laid(Rest(b), <<>>, w, base + FrameLength, end, exact)
  <2>. DEFINE r == Rest(b)
  <2>1. InPlace(r, base + FrameLength)
    BY <1>0, <1>3, InPlaceParts DEF Laid, Rest
  <2>2. Len(r) = Len(b) - FrameLength
    BY <1>3, RestTyped
  <2>. HIDE DEF r
  <2>3. base + FrameLength + Len(r) = base + Len(b)
    BY <1>0, <2>2
  <2>4. Laid(r, <<>>, w, base + FrameLength, end, exact)
    BY <1>3, <2>1, <2>3, InPlaceEmpty DEF Laid
  <2>. QED BY <2>4 DEF r
<1>. QED BY <1>1, <1>2, <1>3

\* More is sent, and arrives unless the server is done; or what is on its
\* way is lost.
LEMMA LaidWire ==
    ASSUME NEW d \in Seq(Byte), NEW b \in Seq(Byte), NEW w \in Seq(Byte),
           NEW base \in Nat, NEW m \in Nat
    PROVE  /\ Laid(d, b, w, base, m * FrameLength, TRUE) =>
                 Laid(d, b, w \o BytesOf(m + 1), base, (m + 1) * FrameLength, TRUE)
           /\ \A exact : Laid(d, b, w, base, m * FrameLength, exact) =>
                 /\ Laid(d, b, w, base, (m + 1) * FrameLength, FALSE)
                 /\ Laid(d, b, <<>>, base, m * FrameLength, FALSE)
<1>0. /\ FrameLength \in Nat /\ Len(<<>>) = 0
      /\ m * FrameLength \in Nat /\ m + 1 \in Nat
      /\ (m + 1) * FrameLength = m * FrameLength + FrameLength
  BY SetupAssumption
<1>. DEFINE end == m * FrameLength
            next == (m + 1) * FrameLength
            at == base + Len(d) + Len(b)
            more == BytesOf(m + 1)
<1>1. /\ more \in Seq(Byte) /\ Len(more) = FrameLength /\ InPlace(more, end)
      /\ at \in Nat
  <2>1. at \in Nat
    OBVIOUS
  <2>. QED BY <1>0, <2>1, BytesOfTyped, BytesOfInPlace
<1>2. end \in Nat /\ next = end + FrameLength
  BY <1>0
<1>. HIDE DEF end, next, more
<1>3. ASSUME Laid(d, b, w, base, end, TRUE)
      PROVE  Laid(d, b, w \o more, base, next, TRUE)
  <2>1. at + Len(w) = end /\ InPlace(w, at)
    BY <1>3 DEF Laid
  <2>2. InPlace(w \o more, at)
    BY <1>1, <2>1, InPlaceParts
  <2>3. Len(w \o more) = Len(w) + FrameLength
    BY <1>1, Joins
  <2>. DEFINE x == at
              y == Len(w)
  <2>. HIDE DEF x, y
  <2>6. x \in Nat /\ y \in Nat /\ x + y = end
    BY <1>1, <2>1 DEF x, y
  <2>7. x + (y + FrameLength) = next
    BY <1>0, <1>2, <2>6
  <2>4. at + Len(w \o more) = next
    BY <2>3, <2>7 DEF x, y
  <2>5. at + Len(w \o more) <= next
    BY <1>0, <1>2, <2>4
  <2>. QED BY <1>3, <2>2, <2>4, <2>5 DEF Laid
<1>4. ASSUME NEW exact, Laid(d, b, w, base, end, exact)
      PROVE  /\ Laid(d, b, w, base, next, FALSE)
             /\ Laid(d, b, <<>>, base, end, FALSE)
  <2>1. at + Len(w) <= end /\ at + Len(<<>>) <= at + Len(w)
    BY <1>0, <1>1, <1>4 DEF Laid
  <2>2. at + Len(w) <= next /\ at + Len(<<>>) <= end
    BY <1>0, <1>1, <1>2, <2>1
  <2>. QED BY <1>4, <2>2, InPlaceEmpty DEF Laid
<1>. QED BY <1>3, <1>4 DEF end, next, more

LEMMA BytesSteps == TypedInv /\ StageInv /\ BytesInv /\ Next => BytesInv'
<1>. SUFFICES ASSUME TypedInv, StageInv, BytesInv, Next, stage' # "refused"
              PROVE  BytesInv'
  BY DEF BytesInv
<1>. DEFINE end == Len(sent) * FrameLength
<1>0. /\ wire \in Seq(Byte) /\ buffer \in Seq(Byte) /\ decoding \in Seq(Byte)
      /\ <<>> \in Seq(Byte) /\ FrameLength \in Nat
      /\ Len(sent) \in Nat /\ Len(handled) \in Nat /\ sent \in Seq(Types)
      /\ handled \in Seq(Seq(Byte))
      /\ end \in Nat /\ (Len(handled) + 1) * FrameLength \in Nat
      /\ Consumed \in Nat /\ done \in BOOLEAN
  BY SetupAssumption DEF TypedInv, Consumed
<1>1. stage # "refused"
  BY DEF Next, ClientSends, ClientReads, ClientLoses, ReadsFirst,
     BuffersFirstFrame, RefusesFirstFrame, CallsAcceptor, ReadsFirstFrame,
     AcceptorSettles, AcceptorResolves, AcceptorRejects, Refuse, ReadsOn,
     Reads, Dispatches, DecodingEnds, ServerCloses, Answers, SessionTimesOut,
     serverVars
<1>2. /\ Laid(decoding, buffer, wire, Consumed, end, ~done)
      /\ IF looping THEN buffer = <<>> ELSE decoding = <<>>
  BY <1>1 DEF BytesInv
<1>. HIDE DEF end
<1>3. CASE UNCHANGED <<inputVars, wire, sent, stage, done>>
  BY <1>1, <1>2, <1>3 DEF BytesInv, inputVars, end, Consumed
<1>4. CASE \E type \in {"REQUEST", "KEEPALIVE"} : ClientSends(type)
  <2>1. /\ Len(sent') = Len(sent) + 1
        /\ wire' = IF done THEN wire ELSE wire \o BytesOf(Len(sent'))
        /\ UNCHANGED <<decoding, buffer, looping, handled, stage, done>>
    BY <1>0, <1>4 DEF ClientSends, inputVars, serverVars
  <2>2. Consumed' = Consumed
    BY <2>1 DEF Consumed
  <2>3. CASE done
    <3>1. Laid(decoding, buffer, wire, Consumed,
               (Len(sent) + 1) * FrameLength, FALSE)
      BY <1>0, <1>2, LaidWire DEF end
    <3>. QED BY <1>2, <2>1, <2>2, <2>3, <3>1 DEF BytesInv
  <2>4. CASE ~done
    <3>1. (~done) = TRUE
      BY <2>4
    <3>2. Laid(decoding, buffer, wire, Consumed, end, TRUE)
      BY <1>2, <3>1
    <3>3. Laid(decoding, buffer, wire \o BytesOf(Len(sent) + 1), Consumed,
               (Len(sent) + 1) * FrameLength, TRUE)
      BY <1>0, <3>2, LaidWire DEF end
    <3>. QED BY <1>2, <2>1, <2>2, <3>1, <3>3 DEF BytesInv
  <2>. QED BY <2>3, <2>4
<1>5. CASE \/ ClientReads \/ ClientLoses \/ SessionTimesOut
           \/ \E k \in streams : Answers(k)
  <2>1. UNCHANGED <<inputVars, wire, sent, stage, done>>
    BY <1>5 DEF ClientReads, ClientLoses, SessionTimesOut, Answers, serverVars,
       clientVars
  <2>. QED BY <1>3, <2>1
\* What the socket delivers joins what is buffered.
<1>6. ASSUME NEW n, Delivers(n), decoding = <<>>
      PROVE  /\ Laid(<<>>, Received(n), wire', Consumed, end, ~done)
             /\ Laid(Received(n), <<>>, wire', Consumed, end, ~done)
             /\ Received(n) \in Seq(Byte) /\ wire' \in Seq(Byte)
  <2>1. /\ n \in 0 .. Len(wire) /\ wire' = SubSeq(wire, n + 1, Len(wire))
        /\ Received(n) = buffer \o SubSeq(wire, 1, n)
        /\ Received(n) \in Seq(Byte) /\ wire' \in Seq(Byte)
    <3>1. n \in 1 .. Len(wire) /\ wire' = SubSeq(wire, n + 1, Len(wire))
      BY <1>6 DEF Delivers
    <3>2. /\ Received(n) = buffer \o SubSeq(wire, 1, n)
          /\ Received(n) \in Seq(Byte) /\ wire' \in Seq(Byte)
      BY <1>6, DeliversTyped
    <3>. QED BY <1>0, <3>1, <3>2
  <2>2. Laid(<<>>, buffer, wire, Consumed, end, ~done)
    BY <1>2, <1>6
  <2>3. Laid(<<>>, buffer \o SubSeq(wire, 1, n), SubSeq(wire, n + 1, Len(wire)),
             Consumed, end, ~done)
    BY <1>0, <2>1, <2>2, LaidMoves DEF end
  <2>4. Laid(<<>>, Received(n), wire', Consumed, end, ~done)
    BY <2>1, <2>3
  <2>5. end \in Nat
    BY <1>0 DEF end
  <2>. QED BY <1>0, <2>1, <2>4, <2>5, LaidMoves
<1>7. CASE \E n \in 1 .. Len(wire) : BuffersFirstFrame(n)
  <2>1. PICK n \in 1 .. Len(wire) : BuffersFirstFrame(n)
    BY <1>7
  <2>2. /\ Delivers(n) /\ stage = "first" /\ buffer' = Received(n)
        /\ UNCHANGED <<decoding, looping, handled, stage, done, sent>>
    BY <2>1 DEF BuffersFirstFrame, clientVars, serverVars
  <2>3. ~looping
    BY <2>2 DEF StageInv
  <2>. QED BY <1>2, <1>6, <2>2, <2>3 DEF BytesInv, Consumed, end
<1>8. CASE \E n \in 1 .. Len(wire) : CallsAcceptor(n)
  <2>1. PICK n \in 1 .. Len(wire) : CallsAcceptor(n)
    BY <1>8
  <2>2. /\ Delivers(n) /\ stage = "first" /\ buffer' = Rest(Received(n))
        /\ Len(Received(n)) >= FrameLength /\ stage' = "accepting"
        /\ UNCHANGED <<decoding, looping, handled, done, sent>>
    BY <2>1 DEF CallsAcceptor, ReadsFirstFrame, clientVars
  <2>3. ~looping /\ handled = <<>> /\ decoding = <<>>
    BY <1>2, <2>2 DEF StageInv
  <2>4. Consumed = 0 /\ Consumed' = FrameLength /\ end \in Nat
    BY <1>0, <2>2, <2>3 DEF Consumed, end
  <2>5. Laid(Received(n), <<>>, wire', Consumed, end, ~done)
        /\ Received(n) \in Seq(Byte) /\ wire' \in Seq(Byte)
    BY <1>6, <2>2, <2>3
  <2>6. Rest(Received(n)) \in Seq(Byte)
    BY <2>2, <2>5, RestTyped
  <2>7. Laid(Rest(Received(n)), <<>>, wire', Consumed + FrameLength, end, ~done)
    BY <1>0, <2>2, <2>4, <2>5, LaidMoves
  <2>8. Laid(<<>>, Rest(Received(n)), wire', Consumed + FrameLength, end, ~done)
    BY <1>0, <2>4, <2>5, <2>6, <2>7, LaidMoves
  <2>9. Consumed + FrameLength = Consumed'
    BY <1>0, <2>4
  <2>. QED BY <2>2, <2>3, <2>8, <2>9 DEF BytesInv, end
<1>9. CASE AcceptorResolves
  <2>1. /\ stage = "accepting" /\ stage' = "accepted"
        /\ decoding' = buffer /\ looping' = (buffer # <<>>) /\ buffer' = <<>>
        /\ UNCHANGED <<wire, handled, done, sent>>
    BY <1>9 DEF AcceptorResolves, clientVars
  <2>2. ~looping /\ Consumed' = Consumed
    BY <2>1 DEF StageInv, Consumed
  <2>3. Laid(<<>>, buffer, wire, Consumed, end, ~done) /\ end \in Nat
    BY <1>0, <1>2, <2>2 DEF end
  <2>4. Laid(buffer, <<>>, wire, Consumed, end, ~done)
    BY <1>0, <2>3, LaidMoves
  <2>. QED BY <2>1, <2>2, <2>4 DEF BytesInv, end
<1>10. CASE \E n \in 1 .. Len(wire) : Reads(n)
  <2>1. PICK n \in 1 .. Len(wire) : Reads(n)
    BY <1>10
  <2>2. /\ Delivers(n) /\ ~looping /\ decoding' = Received(n) /\ looping'
        /\ buffer' = <<>> /\ UNCHANGED <<handled, stage, done, sent>>
    BY <2>1 DEF Reads, clientVars, serverVars
  <2>3. Consumed' = Consumed
    BY <2>2 DEF Consumed
  <2>. QED BY <1>2, <1>6, <2>2, <2>3 DEF BytesInv, end
<1>11. CASE Dispatches
  <2>1. /\ looping /\ Len(decoding) >= FrameLength
        /\ Len(handled') = Len(handled) + 1 /\ decoding' = Rest(decoding)
        /\ UNCHANGED <<wire, sent, buffer, looping, stage, done>>
    BY <1>0, <1>11 DEF Dispatches, clientVars
  <2>2. stage = "accepted" /\ buffer = <<>>
    BY <1>2, <2>1 DEF StageInv
  <2>3. /\ Consumed = (Len(handled) + 1) * FrameLength
        /\ Consumed' = (Len(handled) + 1 + 1) * FrameLength
    BY <2>1, <2>2 DEF Consumed
  <2>4. Consumed' = Consumed + FrameLength
    BY <1>0, <2>3
  <2>5. Laid(decoding, <<>>, wire, Consumed, end, ~done) /\ end \in Nat
    BY <1>0, <1>2, <2>2 DEF end
  <2>6. Laid(Rest(decoding), <<>>, wire, Consumed + FrameLength, end, ~done)
    BY <1>0, <2>1, <2>5, LaidMoves
  <2>. QED BY <2>1, <2>2, <2>4, <2>6 DEF BytesInv, end
<1>12. CASE DecodingEnds
  <2>1. /\ looping /\ ~looping' /\ decoding' = <<>> /\ buffer' = decoding
        /\ UNCHANGED <<wire, sent, handled, stage, done>>
    BY <1>12 DEF DecodingEnds, clientVars, serverVars
  <2>2. Laid(decoding, <<>>, wire, Consumed, end, ~done) /\ end \in Nat
    BY <1>0, <1>2, <2>1 DEF end
  <2>3. Laid(<<>>, decoding, wire, Consumed, end, ~done)
    BY <1>0, <2>2, LaidMoves
  <2>4. Consumed' = Consumed
    BY <2>1 DEF Consumed
  <2>. QED BY <2>1, <2>3, <2>4 DEF BytesInv, end
<1>13. CASE ServerCloses
  <2>1. /\ done' /\ wire' = <<>>
        /\ UNCHANGED <<inputVars, sent, stage>>
    BY <1>13 DEF ServerCloses, clientVars
  <2>2. Laid(decoding, buffer, <<>>, Consumed, end, FALSE)
    BY <1>0, <1>2, LaidWire DEF end
  <2>3. Consumed' = Consumed /\ (~done') = FALSE
    BY <2>1 DEF Consumed, inputVars
  <2>. QED BY <1>2, <2>1, <2>2, <2>3 DEF BytesInv, end, inputVars
<1>14. ~(\E n \in 1 .. Len(wire) : RefusesFirstFrame(n)) /\ ~AcceptorRejects
  BY DEF RefusesFirstFrame, AcceptorRejects, Refuse
<1>. QED BY <1>4, <1>5, <1>7, <1>8, <1>9, <1>10, <1>11, <1>12, <1>13, <1>14
     DEF Next, ReadsFirst, AcceptorSettles, ReadsOn

LEMMA BytesAlways == Spec => []BytesInv
<1>1. Init => BytesInv
  <2>. SUFFICES ASSUME Init PROVE BytesInv
    OBVIOUS
  <2>1. /\ wire = BytesOf(1) /\ buffer = <<>> /\ decoding = <<>> /\ ~looping
        /\ Len(sent) = 1 /\ Consumed = 0 /\ ~done
    BY DEF Init, Consumed
  <2>2. FrameLength \in Nat /\ 0 * FrameLength = 0 /\ 1 * FrameLength = FrameLength
        /\ Len(<<>>) = 0
    BY SetupAssumption
  <2>3. InPlace(BytesOf(1), 0) /\ Len(BytesOf(1)) = FrameLength
    <3>1. InPlace(BytesOf(0 + 1), 0 * FrameLength)
      BY BytesOfInPlace
    <3>. QED BY <2>2, <3>1, BytesOfTyped
  <2>4. /\ 0 + Len(<<>>) + Len(<<>>) = 0
        /\ 0 + Len(<<>>) + Len(<<>>) + Len(BytesOf(1)) = FrameLength
        /\ FrameLength <= FrameLength
    BY <2>2, <2>3
  <2>5. Laid(<<>>, <<>>, BytesOf(1), 0, FrameLength, ~done)
    BY <2>3, <2>4, InPlaceEmpty DEF Laid
  <2>. QED BY <2>1, <2>2, <2>5 DEF BytesInv
<1>2. TypedInv /\ StageInv /\ BytesInv /\ [Next]_vars => BytesInv'
  <2>1. BytesInv /\ UNCHANGED vars => BytesInv'
    BY DEF vars, BytesInv, Consumed, clientVars, inputVars, serverVars
  <2>. QED BY <2>1, BytesSteps
<1>. QED BY <1>1, <1>2, TypedAlways, StageAlways, PTL DEF Spec

-----------------------------------------------------------------------------
(* What is dispatched                                                      *)

\* The frame that the loop dispatches is the next one that was sent.
LEMMA NextFrame ==
    ASSUME TypedInv, StageInv, BytesInv, Dispatches
    PROVE  LET frame == SubSeq(decoding, 1, FrameLength)
           IN  /\ frame = BytesOf(Len(handled) + 2)
               /\ frame[1].frame = Len(handled) + 2
               /\ Len(handled) + 2 \in 1 .. Len(sent)
<1>1. /\ FrameLength \in Nat /\ FrameLength >= 1 /\ decoding \in Seq(Byte)
      /\ Len(handled) + 1 \in Nat /\ Len(sent) \in Nat
  BY SetupAssumption DEF TypedInv
<1>2. Len(decoding) >= FrameLength /\ stage = "accepted"
  BY DEF Dispatches, StageInv
<1>3. Laid(decoding, buffer, wire, Consumed, Len(sent) * FrameLength, ~done)
      /\ Consumed = (Len(handled) + 1) * FrameLength
  BY <1>2 DEF BytesInv, Consumed
<1>. DEFINE frame == SubSeq(decoding, 1, FrameLength)
            m == Len(handled) + 1
<1>4. InPlace(decoding, m * FrameLength)
  BY <1>3 DEF Laid
<1>. HIDE DEF m
<1>5. frame = BytesOf(m + 1)
  BY <1>1, <1>2, <1>4, WholeFrame DEF m
<1>6. m + 1 = Len(handled) + 2 /\ m + 1 \in Nat /\ 1 \in 1 .. FrameLength
  BY <1>1 DEF m
<1>7. BytesOf(m + 1)[1] = [frame |-> m + 1, place |-> 1]
  BY <1>6, BytesOfTyped
<1>8. m + 1 <= Len(sent)
  <2>. DEFINE end == Len(sent) * FrameLength
              base == m * FrameLength
  <2>1. base + Len(decoding) + Len(buffer) + Len(wire) <= end
    BY <1>3 DEF Laid, m
  <2>2. /\ Len(decoding) \in Nat /\ Len(buffer) \in Nat /\ Len(wire) \in Nat
        /\ base \in Nat /\ end \in Nat
    BY <1>1 DEF TypedInv, m
  <2>3. (m + 1) * FrameLength = base + FrameLength
    BY <1>1 DEF m
  <2>. HIDE DEF base, end
  <2>4. base + FrameLength <= end
    BY <1>1, <1>2, <2>1, <2>2
  <2>. QED BY <1>1, <1>6, <2>3, <2>4, FewerFrames DEF end
<1>9. BytesOf(m + 1)[1].frame = m + 1
  BY <1>7
<1>10. Len(handled) + 2 \in 1 .. Len(sent)
  BY <1>1, <1>6, <1>8
<1>. QED BY <1>5, <1>6, <1>9, <1>10

\* The streams are requests that were sent.
KnownInv == streams \cup late \subseteq DOMAIN sent

\* No whole frame is left behind while the server waits for more data.
ShortInv == ~looping /\ stage \in {"first", "accepted"} => Len(buffer) < FrameLength

OrderInv == \A i \in DOMAIN handled : handled[i] = BytesOf(i + 1)

LEMMA KnownSteps ==
    ASSUME TypedInv, StageInv, BytesInv, KnownInv, Next
    PROVE  KnownInv'
<1>1. sent \in Seq(Types) /\ DOMAIN sent = 1 .. Len(sent)
  BY DEF TypedInv
<1>2. CASE \E type \in {"REQUEST", "KEEPALIVE"} : ClientSends(type)
  <2>1. PICK type \in {"REQUEST", "KEEPALIVE"} : ClientSends(type)
    BY <1>2
  <2>2. sent' = Append(sent, type) /\ type \in Types
        /\ UNCHANGED <<streams, late>>
    BY <2>1 DEF ClientSends, Types, serverVars
  <2>3. DOMAIN sent' = 1 .. Len(sent) + 1
    BY <1>1, <2>2, Appended
  <2>. QED BY <1>1, <2>2, <2>3 DEF KnownInv
<1>3. CASE Dispatches
  <2>1. SubSeq(decoding, 1, FrameLength)[1].frame \in DOMAIN sent
    BY <1>1, <1>3, NextFrame
  <2>2. /\ streams' \subseteq streams \cup {SubSeq(decoding, 1, FrameLength)[1].frame}
        /\ late' \subseteq late \cup {SubSeq(decoding, 1, FrameLength)[1].frame}
        /\ UNCHANGED sent
    BY <1>3 DEF Dispatches, clientVars
  <2>. QED BY <2>1, <2>2 DEF KnownInv
<1>4. CASE ~Dispatches /\ ~(\E type \in {"REQUEST", "KEEPALIVE"} : ClientSends(type))
  <2>1. streams' \subseteq streams /\ UNCHANGED <<late, sent>>
    BY <1>4 DEF Next, ClientReads, ClientLoses, ReadsFirst,
       BuffersFirstFrame, RefusesFirstFrame, CallsAcceptor, AcceptorSettles,
       AcceptorResolves, AcceptorRejects, Refuse, ReadsOn, Reads,
       DecodingEnds, ServerCloses, MultiplexerLosesConnection, Answers,
       SessionTimesOut, clientVars, serverVars
  <2>. QED BY <2>1 DEF KnownInv
<1>. QED BY <1>2, <1>3, <1>4

LEMMA ShortSteps ==
    ASSUME TypedInv, StageInv, ShortInv, Next
    PROVE  ShortInv'
<1>1. Len(<<>>) < FrameLength
  BY SetupAssumption
<1>2. CASE \E n \in 1 .. Len(wire) : BuffersFirstFrame(n)
  BY <1>2 DEF BuffersFirstFrame, ShortInv
<1>3. CASE (\E n \in 1 .. Len(wire) : Reads(n)) \/ DecodingEnds
  BY <1>3 DEF Reads, DecodingEnds, ShortInv
<1>4. CASE AcceptorResolves
  BY <1>1, <1>4 DEF AcceptorResolves, ShortInv
<1>5. CASE \/ \E n \in 1 .. Len(wire) : RefusesFirstFrame(n) \/ CallsAcceptor(n)
           \/ AcceptorRejects
  BY <1>5 DEF RefusesFirstFrame, CallsAcceptor, AcceptorRejects, Refuse, ShortInv
<1>6. CASE \/ \E type \in {"REQUEST", "KEEPALIVE"} : ClientSends(type)
           \/ ClientReads \/ ClientLoses \/ Dispatches \/ ServerCloses
           \/ (\E k \in streams : Answers(k)) \/ SessionTimesOut
  <2>1. UNCHANGED <<looping, stage, buffer>>
    BY <1>6 DEF ClientSends, ClientReads, ClientLoses, Dispatches,
       ServerCloses, Answers, SessionTimesOut, inputVars, serverVars
  <2>. QED BY <2>1 DEF ShortInv
<1>. QED BY <1>2, <1>3, <1>4, <1>5, <1>6
     DEF Next, ReadsFirst, AcceptorSettles, ReadsOn

LEMMA OrderSteps ==
    ASSUME TypedInv, StageInv, BytesInv, OrderInv, Next
    PROVE  OrderInv'
<1>1. handled \in Seq(Seq(Byte))
  BY DEF TypedInv
<1>2. CASE Dispatches
  <2>. DEFINE frame == SubSeq(decoding, 1, FrameLength)
  <2>1. /\ handled' = Append(handled, frame)
        /\ frame = BytesOf(Len(handled) + 2) /\ frame \in Seq(Byte)
    BY <1>2, NextFrame, RestTyped DEF Dispatches, TypedInv
  <2>. HIDE DEF frame
  <2>2. /\ DOMAIN handled' = 1 .. Len(handled) + 1 /\ DOMAIN handled = 1 .. Len(handled)
        /\ handled'[Len(handled) + 1] = frame
        /\ \A i \in 1 .. Len(handled) : handled'[i] = handled[i]
        /\ Len(handled) + 1 + 1 = Len(handled) + 2
        /\ \A i \in 1 .. Len(handled) + 1 :
              i \in 1 .. Len(handled) \/ i = Len(handled) + 1
    BY <1>1, <2>1, Appended
  <2>. QED BY <2>1, <2>2 DEF OrderInv
<1>3. CASE ~Dispatches
  <2>1. UNCHANGED handled
    BY <1>3 DEF Next, ClientSends, ClientReads, ClientLoses, ReadsFirst,
       BuffersFirstFrame, RefusesFirstFrame, CallsAcceptor, AcceptorSettles,
       AcceptorResolves, AcceptorRejects, Refuse, ReadsOn, Reads,
       DecodingEnds, ServerCloses, Answers, SessionTimesOut, inputVars
  <2>. QED BY <2>1 DEF OrderInv
<1>. QED BY <1>2, <1>3

LEMMA DataInit == Init => KnownInv /\ ShortInv /\ OrderInv
<1>1. Init => streams = {} /\ late = {} /\ buffer = <<>> /\ handled = <<>>
  BY DEF Init
<1>2. Len(<<>>) < FrameLength /\ DOMAIN <<>> = {}
  BY SetupAssumption
<1>. QED BY <1>1, <1>2 DEF KnownInv, ShortInv, OrderInv

\* Every state is of its type: what the server runs are requests of the
\* client, and it does not wait for more data on top of a whole frame
\* (readFirstFrame and handleData of the servers' duplex connections).
THEOREM TypeCorrect == Spec => []TypeOK
<1>1. TypedInv /\ KnownInv /\ ShortInv => TypeOK
  BY DEF TypedInv, KnownInv, ShortInv, TypeOK, Types
<1>2. TypedInv /\ StageInv /\ BytesInv /\ KnownInv /\ ShortInv /\ [Next]_vars
         => KnownInv' /\ ShortInv'
  <2>1. KnownInv /\ ShortInv /\ UNCHANGED vars => KnownInv' /\ ShortInv'
    BY DEF vars, KnownInv, ShortInv, clientVars, inputVars, serverVars
  <2>. QED BY <2>1, KnownSteps, ShortSteps
<1>. QED BY <1>1, <1>2, DataInit, TypedAlways, StageAlways, BytesAlways, PTL
     DEF Spec

\* What the server dispatches are the frames that the client has sent behind
\* the first one, whole, each once and in order, however the socket cuts
\* them and wherever the first frame ends; none before the handlers are
\* installed.
THEOREM FramesAreInOrder == Spec => []FramesInOrder
<1>1. OrderInv /\ StageInv => FramesInOrder
  BY DEF OrderInv, StageInv, FramesInOrder
<1>2. TypedInv /\ StageInv /\ BytesInv /\ OrderInv /\ [Next]_vars => OrderInv'
  <2>1. OrderInv /\ UNCHANGED vars => OrderInv'
    BY DEF vars, OrderInv, inputVars
  <2>. QED BY <2>1, OrderSteps
<1>. QED BY <1>1, <1>2, DataInit, TypedAlways, StageAlways, BytesAlways, PTL
     DEF Spec
=============================================================================
