---------------------------- MODULE Lease_proofs ----------------------------
(***************************************************************************)
(* Theorems about Lease and its Multiplexer, for every value of their      *)
(* constants.                                                              *)
(***************************************************************************)
EXTENDS Lease, SequenceTheorems, WellFoundedInduction, TLAPS

-----------------------------------------------------------------------------
(* The inductive invariants.                                               *)

HasId(s) == stream[s].id # 0

\* Somewhere on the stack: an unfinished step of that kind.
Under(call) == \E k \in 1 .. Len(running) : running[k].call = call

\* Callbacks nest, everything else starts at the top level.
StackInv ==
    \A k \in 1 .. Len(running) :
        /\ running[k].call = "complete" => running[k].id \in Ids
        /\ running[k].call # "complete" => k = Len(running)
        /\ running[k].call = "close" => ~open[Requester]

\* What a request's state says of its id and of what its receiver was told.
StatusInv ==
    \A s \in Streams :
        /\ stream[s].told + Count(stream[s].quit) <= 1
        /\ stream[s].status \in {"idle", "waiting", "ready"}
           => stream[s].told = 0 /\ ~stream[s].quit
        /\ stream[s].status \in {"idle", "waiting"} => ~HasId(s)
        /\ stream[s].status = "ready" => HasId(s)

\* While the connection is open, the registry holds live requests only.
RegistryInv ==
    open[Requester] =>
        \A i \in Ids : LET s == registry[Requester][i]
                       IN  s # Nobody => stream[s].status = "ready"
                                         /\ stream[s].id = i

QueueInv ==
    /\ \A p \in 1 .. Len(pendingRequests) :
          stream[pendingRequests[p]].status = "waiting"
    /\ \A p, q \in 1 .. Len(pendingRequests) :
          pendingRequests[p] = pendingRequests[q] => p = q

BasicInv ==
    /\ TypeOK
    /\ StackInv
    /\ StatusInv
    /\ RegistryInv
    /\ QueueInv
    /\ ~open[Requester] => wire[Requester] = <<>>

\* What is left of a lease and what was used of it are no more than it allowed.
GrantInv ==
    /\ before <= Len(given)
    /\ Len(given) - before + availableLease <= lease

WaitInv ==
    pendingRequests # <<>> => availableLease = 0 \/ ~fresh \/ Under("grant")

Within(q, s) == \E k \in 1 .. Len(q) : q[k] = s

Before(q, s, t) == \E k, l \in 1 .. Len(q) : k < l /\ q[k] = s /\ q[l] = t

OrderInv ==
    /\ \A i \in 1 .. Len(given) : Within(asked, given[i])
    /\ \A p \in 1 .. Len(pendingRequests) : Within(asked, pendingRequests[p])
    /\ \A i, j \in 1 .. Len(given) : i < j => Before(asked, given[i], given[j])
    /\ \A i \in 1 .. Len(given), p \in 1 .. Len(pendingRequests) :
          Before(asked, given[i], pendingRequests[p])
    /\ \A p, q \in 1 .. Len(pendingRequests) :
          p < q => Before(asked, pendingRequests[p], pendingRequests[q])

\* The close of the connection, as far as it has come.
CloseSteps ==
    /\ muxDone => ~open[Requester]
    /\ ~open[Requester] => muxDone \/ Under("close")
    /\ ~open[Requester] /\ running # <<>>
       => /\ Len(running) = 1
          /\ running[1].call = IF muxDone THEN "reject" ELSE "close"
    /\ Under("reject") => muxDone
    /\ muxDone /\ pendingRequests # <<>> => Under("reject")

WaitersQueued ==
    \A s \in Streams : stream[s].status = "waiting"
       => \E p \in 1 .. Len(pendingRequests) : pendingRequests[p] = s

\* The close reaches every request that is registered.
ReadyHeld ==
    \A s \in Streams : stream[s].status = "ready"
       => /\ ~muxDone
          /\ registry[Requester][stream[s].id] = s
          /\ Under("close") => stream[s].id \in running[1].left

CloseInv == CloseSteps /\ WaitersQueued /\ ReadyHeld

\* The messages under way are about streams that have the id they name.
Named == {m \in Message : stream[m.stream].id = m.id}

MessageInv ==
    /\ wire \in [End -> Seq(Named)]
    /\ \A i \in Ids : LET s == registry[Responder][i]
                      IN  s # Nobody => stream[s].id = i

\* The highest id of this round: a fire-and-forget's is not noted yet while
\* its receiver is called.
Highest == IF In("complete") THEN Head(running).id ELSE currentId

RoundInv ==
    /\ \A k \in 1 .. Len(running) : running[k].call = "complete" => k = 1
    /\ \A s \in Streams : HasId(s) =>
          /\ stream[s].wrap <= wraps
          /\ stream[s].wrap = wraps => stream[s].id <= Highest

LastGivenInv ==
    /\ \A i \in 1 .. Len(given) : HasId(given[i])
    /\ IdsAdvance
    /\ given # <<>> => /\ stream[given[Len(given)]].wrap = wraps
                       /\ stream[given[Len(given)]].id = Highest

\* Of the requests with the same id the registered one is the latest.
LatestInv ==
    /\ open[Requester] =>
         \A i \in Ids, t \in Streams :
            LET s == registry[Requester][i]
            IN  s # Nobody /\ stream[t].id = i
                => t = s \/ stream[t].wrap < stream[s].wrap
    /\ \A s \in Streams : \A t \in stream[s].heard :
          HasId(s) /\ HasId(t) /\ (t = s \/ stream[t].wrap < stream[s].wrap)

\* No stream has taken an answer meant for another one for its own.
Unmisled == \A s \in Streams : stream[s].heard \subseteq {s}

Asks(m) == m.type = "REQUEST"
Enters(m) == Asks(m) /\ (m.stream \in Calls \/ m.follows)
Ends(m, i) == m.id = i /\ m.type # "REQUEST"
Ended(w, first, last, i) == \E j \in first .. last : Ends(w[j], i)

\* With w and a on their way to the responder and the requester, and r and q
\* registered there, on a connection that is up at both ends, or not: whatever
\* takes an id at the responder gives it back before the next request with
\* that id arrives, and at the latest when the requester gives it back.
FreeOnArrival(w, r) ==
    \A k \in 1 .. Len(w) : Asks(w[k]) =>
        r[w[k].id] = Nobody \/ Ended(w, 1, k - 1, w[k].id)

FreeBetween(w) ==
    \A k, l \in 1 .. Len(w) :
        k < l /\ Enters(w[k]) /\ Asks(w[l]) /\ w[k].id = w[l].id
        => Ended(w, k + 1, l - 1, w[k].id)

HeldOrEnded(w, r, q, up) ==
    /\ \A k \in 1 .. Len(w) : Enters(w[k]) =>
          \/ up => q[w[k].id] = w[k].stream
          \/ Ended(w, k + 1, Len(w), w[k].id)
    /\ \A i \in Ids : r[i] # Nobody =>
          \/ up => q[i] = r[i]
          \/ Ended(w, 1, Len(w), i)

\* A request is under way, or being handled, or answered, but once.
OnceOnly(w, r, a) ==
    /\ \A k, l \in 1 .. Len(w) :
          Asks(w[k]) /\ Asks(w[l]) /\ w[k].stream = w[l].stream => k = l
    /\ \A k \in 1 .. Len(w), i \in Ids : Asks(w[k]) => r[i] # w[k].stream
    /\ \A k \in 1 .. Len(w), b \in 1 .. Len(a) :
          Asks(w[k]) => w[k].stream # a[b].stream
    /\ \A b \in 1 .. Len(a) : r[a[b].id] # a[b].stream

Orderly(w, r, q, up, a) ==
    /\ FreeOnArrival(w, r)
    /\ FreeBetween(w)
    /\ HeldOrEnded(w, r, q, up)
    /\ OnceOnly(w, r, a)

CollisionInv ==
    Unmisled => Orderly(wire[Responder], registry[Responder],
                        registry[Requester], open[Requester] /\ open[Responder],
                        wire[Requester])

-----------------------------------------------------------------------------
(* The next id: a smallest element exists.                                 *)

USE DEF End, Requester, Responder

Less == OpToRel(<, Nat)

LEMMA LessWellFounded == IsWellFoundedOn(Less, Nat)
BY NatLessThanWellFounded, Zenon DEF Less

LEMMA LessIsLess == \A m, n \in Nat : m < n => <<m, n>> \in Less
BY SMT DEF OpToRel, Less

LEMMA SmallestExists ==
    ASSUME NEW S, S \subseteq Nat, S # {}
    PROVE  Smallest(S) \in S /\ \A j \in S : Smallest(S) <= j
<1>1. PICK i \in S : \A j \in S : ~(<<j, i>> \in Less)
  BY LessWellFounded, WFMin, Zenon
<1>2. \A j \in S : ~(j < i)
  BY <1>1, LessIsLess, Zenon
<1>3. \E k \in S : \A j \in S : k <= j
  BY <1>2, SMT
<1>. QED BY <1>3 DEF Smallest

LEMMA IdsArePositive == Ids \subseteq Nat /\ 0 \notin Ids /\ -1 \notin Ids
BY MultiplexerAssumption DEF Ids

LEMMA SomeId == \E i \in Ids : TRUE
BY MultiplexerAssumption DEF Ids

\* The next id is free, and the ids wrap around only when none is left above.
LEMMA NextIdIsFree ==
    ASSUME MuxTypeOK, Free # {}
    PROVE  /\ NextId \in Ids
           /\ registry[Requester][NextId] = Nobody
           /\ currentId < NextId \/ \A i \in Free : i <= currentId
<1>. DEFINE above == {i \in Free : i > currentId}
<1>1. Free \subseteq Ids /\ Free \subseteq Nat /\ above \subseteq Nat
  BY IdsArePositive DEF Free
<1>2. currentId \in Int
  BY IdsArePositive DEF MuxTypeOK
<1>3. CASE above # {}
  <2>1. Smallest(above) \in above
    BY <1>1, <1>3, SmallestExists, Zenon
  <2>. QED BY <1>1, <1>2, <1>3, <2>1 DEF NextId, Free
<1>4. CASE above = {}
  <2>1. Smallest(Free) \in Free
    BY <1>1, SmallestExists, Zenon
  <2>2. \A i \in Free : i <= currentId
    BY <1>1, <1>2, <1>4
  <2>. QED BY <1>1, <1>4, <2>1, <2>2 DEF NextId, Free
<1>. QED BY <1>3, <1>4

-----------------------------------------------------------------------------
(* Types.                                                                  *)

StreamState == [status: Status, id: Ids \cup {0}, wrap: Nat, told: Nat,
                quit: BOOLEAN, heard: SUBSET Streams]

LEMMA ShortSeqs ==
    ASSUME NEW S, NEW x \in S, NEW y \in S
    PROVE  <<>> \in Seq(S) /\ <<x>> \in Seq(S) /\ <<x, y>> \in Seq(S)
OBVIOUS

LEMMA Pairs ==
    ASSUME NEW S, NEW x \in S, NEW y \in S
    PROVE  <<x>> \o <<y>> = <<x, y>> /\ <<x>> \o <<>> = <<x>>
<1>. DEFINE p == <<x>> \o <<y>>
            q == <<x, y>>
<1>1. p \in Seq(S) /\ q \in Seq(S) /\ <<x>> \in Seq(S)
  OBVIOUS
<1>2. Len(p) = 2 /\ Len(q) = 2 /\ p[1] = x /\ q[1] = x /\ p[2] = y /\ q[2] = y
  OBVIOUS
<1>. HIDE DEF p, q
<1>3. \A i \in 1 .. Len(p) : p[i] = q[i]
  BY <1>2
<1>4. p = q
  BY <1>1, <1>2, <1>3, SeqEqual
<1>. QED BY <1>1, <1>4, ConcatEmptySeq DEF p, q

\* A sequence without its k-th element.
LEMMA RemovedAt ==
    ASSUME NEW S, NEW q \in Seq(S), NEW k \in 1 .. Len(q)
    PROVE  LET r == SubSeq(q, 1, k - 1) \o SubSeq(q, k + 1, Len(q))
           IN  /\ r \in Seq(S) /\ Len(r) = Len(q) - 1
               /\ \A p \in 1 .. Len(r) : r[p] = q[IF p < k THEN p ELSE p + 1]
<1>. DEFINE u == SubSeq(q, 1, k - 1)
            v == SubSeq(q, k + 1, Len(q))
            r == u \o v
<1>1. /\ u \in Seq(S) /\ Len(u) = k - 1
      /\ \A p \in 1 .. k - 1 : u[p] = q[p]
  OBVIOUS
<1>2. /\ v \in Seq(S) /\ Len(v) = Len(q) - k
      /\ \A p \in 1 .. Len(q) - k : v[p] = q[k + p]
  OBVIOUS
<1>. HIDE DEF u, v
<1>3. /\ r \in Seq(S) /\ Len(r) = Len(u) + Len(v)
      /\ \A p \in 1 .. Len(u) : r[p] = u[p]
      /\ \A p \in 1 .. Len(v) : r[Len(u) + p] = v[p]
  <2>1. /\ r \in Seq(S) /\ Len(r) = Len(u) + Len(v)
        /\ \A i \in 1 .. Len(u) + Len(v) :
              r[i] = IF i <= Len(u) THEN u[i] ELSE v[i - Len(u)]
    BY <1>1, <1>2, ConcatProperties
  <2>. HIDE DEF r
  <2>2. Len(u) \in Nat /\ Len(v) \in Nat
    BY <1>1, <1>2
  <2>3. ASSUME NEW p \in 1 .. Len(v)
        PROVE  r[Len(u) + p] = v[p]
    <3>. DEFINE i == Len(u) + p
    <3>1. i \in 1 .. Len(u) + Len(v) /\ ~(i <= Len(u)) /\ i - Len(u) = p
      BY <2>2
    <3>. HIDE DEF i
    <3>2. r[i] = v[p]
      BY <2>1, <3>1
    <3>. QED BY <3>2 DEF i
  <2>. QED BY <2>1, <2>2, <2>3
<1>. HIDE DEF r
<1>4. Len(q) \in Nat /\ k \in Nat /\ Len(r) = Len(q) - 1
  BY <1>1, <1>2, <1>3
<1>5. ASSUME NEW p \in 1 .. Len(r)
      PROVE  r[p] = q[IF p < k THEN p ELSE p + 1]
  <2>1. CASE p < k
    BY <1>1, <1>3, <1>4, <2>1
  <2>2. CASE p >= k
    <3>. DEFINE o == p - (k - 1)
    <3>1. o \in 1 .. Len(q) - k /\ k + o = p + 1 /\ Len(u) + o = p
      BY <1>1, <1>4, <2>2
    <3>. HIDE DEF o
    <3>2. r[p] = q[p + 1]
      BY <1>2, <1>3, <3>1
    <3>. QED BY <1>4, <2>2, <3>2
  <2>. QED BY <1>4, <2>1, <2>2
<1>. QED BY <1>3, <1>4, <1>5 DEF r, u, v

LEMMA MsgTyped ==
    ASSUME NEW type \in {"REQUEST", "PAYLOAD", "CANCEL", "ANSWER"},
           NEW i \in Ids, NEW s \in Streams, NEW b \in BOOLEAN
    PROVE  Msg(type, i, s, b) \in Message
BY DEF Msg, Message

LEMMA StreamTyped ==
    ASSUME MuxTypeOK
    PROVE  /\ stream \in [Streams -> StreamState]
           /\ \A s \in Streams : stream[s] \in StreamState
BY DEF MuxTypeOK, StreamState

LEMMA FieldTyped ==
    ASSUME NEW r \in StreamState
    PROVE  /\ \A status \in Status : [r EXCEPT !.status = status] \in StreamState
           /\ \A i \in Ids \cup {0} : [r EXCEPT !.id = i] \in StreamState
           /\ \A n \in Nat : /\ [r EXCEPT !.wrap = n] \in StreamState
                             /\ [r EXCEPT !.told = n] \in StreamState
           /\ [r EXCEPT !.quit = TRUE] \in StreamState
           /\ \A ts \in SUBSET Streams : [r EXCEPT !.heard = ts] \in StreamState
BY DEF StreamState

\* One request's record gets a new value, the others keep theirs.
LEMMA UpdateTyped ==
    ASSUME NEW r \in [Streams -> StreamState], NEW s \in Streams
    PROVE  /\ \A status \in Status :
                [r EXCEPT ![s].status = status] \in [Streams -> StreamState]
           /\ \A i \in Ids \cup {0} :
                [r EXCEPT ![s].id = i] \in [Streams -> StreamState]
           /\ \A n \in Nat :
                /\ [r EXCEPT ![s].wrap = n] \in [Streams -> StreamState]
                /\ [r EXCEPT ![s].told = n] \in [Streams -> StreamState]
           /\ [r EXCEPT ![s].quit = TRUE] \in [Streams -> StreamState]
           /\ \A ts \in SUBSET Streams :
                [r EXCEPT ![s].heard = ts] \in [Streams -> StreamState]
<1>1. \A u \in StreamState :
          [r EXCEPT ![s] = u] \in [Streams -> StreamState]
  OBVIOUS
<1>2. r[s] \in StreamState
  OBVIOUS
<1>. QED BY <1>1, <1>2, FieldTyped, Zenon

LEMMA TellTyped ==
    ASSUME MuxTypeOK, NEW s \in Streams
    PROVE  /\ Tell(s) \in [Streams -> StreamState]
           /\ Tell(s)[s].status = "done"
           /\ Tell(s)[s].told = stream[s].told + 1
           /\ Tell(s)[s].id = stream[s].id /\ Tell(s)[s].wrap = stream[s].wrap
           /\ Tell(s)[s].quit = stream[s].quit
           /\ Tell(s)[s].heard = stream[s].heard
           /\ \A t \in Streams : t # s => Tell(s)[t] = stream[t]
<1>. stream \in [Streams -> StreamState]
  BY StreamTyped
<1>. DEFINE r == [stream EXCEPT ![s].status = "done"]
<1>1. r \in [Streams -> StreamState]
  BY UpdateTyped, "done" \in Status, Zenon DEF Status
<1>2. r[s].told = stream[s].told
  BY DEF StreamState
<1>3. Tell(s) = [r EXCEPT ![s].told = stream[s].told + 1]
  BY <1>2 DEF Tell
<1>. HIDE DEF r
<1>4. \A n \in Nat : [r EXCEPT ![s].told = n] \in [Streams -> StreamState]
  BY <1>1, UpdateTyped, Zenon
<1>5. stream[s].told + 1 \in Nat
  BY StreamTyped DEF StreamState
<1>6. Tell(s) \in [Streams -> StreamState]
  BY <1>3, <1>4, <1>5, Zenon
<1>. QED BY <1>6 DEF Tell, StreamState

LEMMA QuitTyped ==
    ASSUME MuxTypeOK, NEW s \in Streams,
           stream' = [stream EXCEPT ![s].status = "done", ![s].quit = TRUE]
    PROVE  /\ stream' \in [Streams -> StreamState]
           /\ stream'[s].status = "done" /\ stream'[s].quit
           /\ stream'[s].told = stream[s].told
           /\ stream'[s].id = stream[s].id /\ stream'[s].wrap = stream[s].wrap
           /\ stream'[s].heard = stream[s].heard
           /\ \A t \in Streams : t # s => stream'[t] = stream[t]
<1>. stream \in [Streams -> StreamState]
  BY StreamTyped
<1>. DEFINE r == [stream EXCEPT ![s].status = "done"]
<1>1. r \in [Streams -> StreamState]
  BY UpdateTyped, "done" \in Status, Zenon DEF Status
<1>2. stream' = [r EXCEPT ![s].quit = TRUE]
  OBVIOUS
<1>. HIDE DEF r
<1>3. [r EXCEPT ![s].quit = TRUE] \in [Streams -> StreamState]
  BY <1>1, UpdateTyped, Zenon
<1>4. stream' \in [Streams -> StreamState]
  BY <1>2, <1>3, Zenon
<1>. QED BY <1>4 DEF StreamState

LEMMA StatusTyped ==
    ASSUME MuxTypeOK, NEW s \in Streams, NEW status \in Status,
           stream' = [stream EXCEPT ![s].status = status]
    PROVE  /\ stream' \in [Streams -> StreamState]
           /\ stream'[s].status = status
           /\ stream'[s].quit = stream[s].quit
           /\ stream'[s].told = stream[s].told
           /\ stream'[s].id = stream[s].id /\ stream'[s].wrap = stream[s].wrap
           /\ stream'[s].heard = stream[s].heard
           /\ \A t \in Streams : t # s => stream'[t] = stream[t]
<1>. stream \in [Streams -> StreamState]
  BY StreamTyped
<1>1. stream' \in [Streams -> StreamState]
  BY UpdateTyped, Zenon
<1>. QED BY <1>1 DEF StreamState

LEMMA HeardTyped ==
    ASSUME MuxTypeOK, NEW s \in Streams, NEW t \in Streams,
           stream' = [Tell(s) EXCEPT ![s].heard = @ \cup {t}]
    PROVE  /\ stream' \in [Streams -> StreamState]
           /\ stream'[s].status = "done"
           /\ stream'[s].quit = stream[s].quit
           /\ stream'[s].told = stream[s].told + 1
           /\ stream'[s].id = stream[s].id /\ stream'[s].wrap = stream[s].wrap
           /\ stream'[s].heard = stream[s].heard \cup {t}
           /\ \A u \in Streams : u # s => stream'[u] = stream[u]
<1>. DEFINE r == Tell(s)
<1>1. stream' = [r EXCEPT ![s].heard = stream[s].heard \cup {t}]
  BY TellTyped
<1>2. stream[s].heard \cup {t} \in SUBSET Streams
  BY StreamTyped DEF StreamState
<1>3. /\ r \in [Streams -> StreamState]
      /\ r[s].status = "done"
      /\ r[s].told = stream[s].told + 1
      /\ r[s].id = stream[s].id /\ r[s].wrap = stream[s].wrap
      /\ r[s].quit = stream[s].quit
      /\ \A u \in Streams : u # s => r[u] = stream[u]
  BY TellTyped
<1>. HIDE DEF r
<1>4. \A ts \in SUBSET Streams :
          [r EXCEPT ![s].heard = ts] \in [Streams -> StreamState]
  BY <1>3, UpdateTyped, Zenon
<1>5. stream' \in [Streams -> StreamState]
  BY <1>1, <1>2, <1>4, Zenon
<1>. QED BY <1>1, <1>3, <1>5 DEF StreamState

\* What createRequestStream does to a request.
LEMMA CreateEffect ==
    ASSUME MuxTypeOK, NEW s \in Streams, CreateRequestStream(s)
    PROVE  /\ stream' \in [Streams -> StreamState]
           /\ stream'[s].quit = stream[s].quit
           /\ stream'[s].heard = stream[s].heard
           /\ \A t \in Streams : t # s => stream'[t] = stream[t]
           /\ IF muxDone \/ Free = {}
              THEN /\ stream'[s].id = stream[s].id
                   /\ stream'[s].wrap = stream[s].wrap
                   /\ stream'[s].status \in {"done", "lost"}
                   /\ stream'[s].told = stream[s].told + Count(muxDone)
              ELSE /\ stream'[s].id = NextId /\ stream'[s].wrap = wraps'
                   /\ stream'[s].status = IF s \in Calls THEN "ready" ELSE "done"
                   /\ stream'[s].told = stream[s].told + Count(s \notin Calls)
<1>. stream \in [Streams -> StreamState]
  BY StreamTyped
<1>1. CASE muxDone
  BY <1>1, TellTyped DEF CreateRequestStream, Count
<1>2. CASE ~muxDone /\ Free = {}
  <2>1. stream' = [stream EXCEPT ![s].status = "lost"] /\ "lost" \in Status
    BY <1>2 DEF CreateRequestStream, Status
  <2>2. /\ stream'[s].status = "lost" /\ stream' \in [Streams -> StreamState]
        /\ stream'[s].quit = stream[s].quit
        /\ stream'[s].told = stream[s].told
        /\ stream'[s].id = stream[s].id /\ stream'[s].wrap = stream[s].wrap
        /\ stream'[s].heard = stream[s].heard
        /\ \A t \in Streams : t # s => stream'[t] = stream[t]
    BY <2>1, StatusTyped
  <2>3. stream[s].told \in Nat
    BY DEF StreamState
  <2>. QED BY <1>2, <2>2, <2>3 DEF Count
<1>3. CASE ~muxDone /\ Free # {} /\ s \in Calls
  <2>. DEFINE r == [stream EXCEPT ![s].status = "ready"]
              q == [r EXCEPT ![s].id = NextId]
  <2>1. stream' = [q EXCEPT ![s].wrap = wraps']
    BY <1>3 DEF CreateRequestStream, StartCall
  <2>2. r \in [Streams -> StreamState]
    BY UpdateTyped, "ready" \in Status, Zenon DEF Status
  <2>3. /\ r[s].told = stream[s].told /\ r[s].quit = stream[s].quit
        /\ r[s].heard = stream[s].heard /\ r[s].status = "ready"
        /\ \A t \in Streams : t # s => r[t] = stream[t]
    BY DEF StreamState
  <2>. HIDE DEF r
  <2>4. NextId \in Ids \cup {0} /\ wraps' \in Nat
    BY <1>3, NextIdIsFree DEF CreateRequestStream, MuxTypeOK, Count
  <2>5. q \in [Streams -> StreamState]
    BY <2>2, <2>4, UpdateTyped, Zenon
  <2>6. /\ q[s].told = stream[s].told /\ q[s].quit = stream[s].quit
        /\ q[s].heard = stream[s].heard /\ q[s].status = "ready"
        /\ q[s].id = NextId
        /\ \A t \in Streams : t # s => q[t] = stream[t]
    BY <2>2, <2>3 DEF StreamState
  <2>. HIDE DEF q
  <2>7. stream' \in [Streams -> StreamState]
    BY <2>1, <2>4, <2>5, UpdateTyped, Zenon
  <2>8. stream[s].told \in Nat
    BY DEF StreamState
  <2>. QED BY <1>3, <2>1, <2>5, <2>6, <2>7, <2>8 DEF StreamState, Count
<1>4. CASE ~muxDone /\ Free # {} /\ s \notin Calls
  <2>. DEFINE r == Tell(s)
              q == [r EXCEPT ![s].id = NextId]
  <2>1. stream' = [q EXCEPT ![s].wrap = wraps']
    BY <1>4 DEF CreateRequestStream, StartFireAndForget
  <2>2. /\ r \in [Streams -> StreamState]
        /\ r[s].told = stream[s].told + 1 /\ r[s].quit = stream[s].quit
        /\ r[s].heard = stream[s].heard /\ r[s].status = "done"
        /\ \A t \in Streams : t # s => r[t] = stream[t]
    BY TellTyped
  <2>. HIDE DEF r
  <2>4. NextId \in Ids \cup {0} /\ wraps' \in Nat
    BY <1>4, NextIdIsFree DEF CreateRequestStream, MuxTypeOK, Count
  <2>5. q \in [Streams -> StreamState]
    BY <2>2, <2>4, UpdateTyped, Zenon
  <2>6. /\ q[s].told = stream[s].told + 1 /\ q[s].quit = stream[s].quit
        /\ q[s].heard = stream[s].heard /\ q[s].status = "done"
        /\ q[s].id = NextId
        /\ \A t \in Streams : t # s => q[t] = stream[t]
    BY <2>2 DEF StreamState
  <2>. HIDE DEF q
  <2>7. stream' \in [Streams -> StreamState]
    BY <2>1, <2>4, <2>5, UpdateTyped, Zenon
  <2>. QED BY <1>4, <2>1, <2>5, <2>6, <2>7 DEF StreamState, Count
<1>. QED BY <1>1, <1>2, <1>3, <1>4

LEMMA SendTyped ==
    ASSUME MuxTypeOK, NEW e \in End, NEW ms \in Seq(Message)
    PROVE  /\ Send(e, ms) => wire' \in [End -> Seq(Message)]
           /\ wire[e] # <<>> /\ TakeAndSend(e, ms)
              => wire' \in [End -> Seq(Message)]
           /\ wire[e] # <<>> => Head(wire[e]) \in Message
<1>. wire \in [End -> Seq(Message)]
  BY DEF MuxTypeOK
<1>1. Sent(e, ms) \in Seq(Message) /\ Peer(e) \in End
  BY DEF Sent, Peer
<1>2. wire[e] # <<>> => Head(wire[e]) \in Message /\ Tail(wire[e]) \in Seq(Message)
  OBVIOUS
<1>3. Send(e, ms) => wire' \in [End -> Seq(Message)]
  BY <1>1 DEF Send
<1>4. \A d \in End : wire[d] \o Sent(e, ms) \in Seq(Message)
  BY <1>1
<1>5. wire[e] # <<>> /\ TakeAndSend(e, ms) => wire' \in [End -> Seq(Message)]
  BY <1>2, <1>4 DEF TakeAndSend
<1>. QED BY <1>2, <1>3, <1>5

-----------------------------------------------------------------------------
(* Every action keeps BasicInv.                                            *)

LEMMA StepTyped ==
    ASSUME MuxTypeOK, NEW step \in Step
    PROVE  /\ <<step>> \o running \in Seq(Step)
           /\ running # <<>> => /\ Head(running) \in Step
                                /\ Tail(running) \in Seq(Step)
                                /\ <<step>> \o Tail(running) \in Seq(Step)
BY DEF MuxTypeOK

LEMMA CreateKeepsTypes ==
    ASSUME BasicInv, NEW s \in Streams,
           stream[s].status \in {"idle", "waiting"}, CreateRequestStream(s)
    PROVE  MuxTypeOK'
<1>1. MuxTypeOK
  BY DEF BasicInv, TypeOK
<1>2. stream' \in [Streams -> StreamState]
  BY <1>1, CreateEffect
<1>3. CASE muxDone \/ Free = {}
  BY <1>1, <1>2, <1>3 DEF CreateRequestStream, MuxTypeOK, StreamState
<1>4. CASE ~(muxDone \/ Free = {})
  <2>1. NextId \in Ids
    BY <1>1, <1>4, NextIdIsFree
  <2>2. wraps' \in Nat /\ given' \in Seq(Streams)
    <3>1. /\ given' = Append(given, s)
          /\ wraps' = wraps + Count(\A i \in Free : i <= currentId)
      BY <1>4 DEF CreateRequestStream
    <3>. QED BY <1>1, <3>1 DEF MuxTypeOK, Count
  <2>3. muxDone' \in BOOLEAN /\ open' \in [End -> BOOLEAN]
    BY <1>1 DEF CreateRequestStream, MuxTypeOK
  <2>4. CASE s \in Calls
    <3>1. StartCall(s, NextId)
      BY <1>4, <2>4 DEF CreateRequestStream
    <3>2. <<Msg("REQUEST", NextId, s, FALSE)>> \in Seq(Message)
      BY <2>1, MsgTyped, ShortSeqs
    <3>3. wire' \in [End -> Seq(Message)]
      BY <1>1, <3>1, <3>2, SendTyped DEF StartCall
    <3>4. /\ currentId' \in Ids \cup {-1} /\ running' \in Seq(Step)
          /\ registry' \in [End -> [Ids -> Streams \cup {Nobody}]]
      BY <1>1, <2>1, <3>1 DEF StartCall, MuxTypeOK
    <3>. QED BY <1>2, <2>2, <2>3, <3>3, <3>4 DEF MuxTypeOK, StreamState
  <2>5. CASE s \notin Calls
    <3>1. StartFireAndForget(s, NextId)
      BY <1>4, <2>5 DEF CreateRequestStream
    <3>2. \A follows \in BOOLEAN :
             <<Msg("REQUEST", NextId, s, follows)>>
               \o If(follows, Msg("PAYLOAD", NextId, s, FALSE)) \in Seq(Message)
      <4>1. \A b \in BOOLEAN : Msg("REQUEST", NextId, s, b) \in Message
        BY <2>1, MsgTyped
      <4>2. Msg("PAYLOAD", NextId, s, FALSE) \in Message
        BY <2>1, MsgTyped
      <4>3. \A m, n \in Message, b \in BOOLEAN :
               <<m>> \o If(b, n) \in Seq(Message)
        BY ShortSeqs DEF If
      <4>. QED BY <4>1, <4>2, <4>3, Zenon
    <3>3. wire' \in [End -> Seq(Message)]
      BY <1>1, <3>1, <3>2, SendTyped DEF StartFireAndForget
    <3>4. running' \in Seq(Step)
      <4>1. [call |-> "complete", id |-> NextId, left |-> {}, called |-> TRUE]
              \in Step
        BY <2>1 DEF Step
      <4>. QED BY <1>1, <3>1, <4>1, StepTyped DEF StartFireAndForget
    <3>5. UNCHANGED <<registry, currentId>>
      BY <3>1 DEF StartFireAndForget
    <3>. QED BY <1>1, <1>2, <2>2, <2>3, <3>3, <3>4, <3>5
             DEF MuxTypeOK, StreamState
  <2>. QED BY <2>4, <2>5
<1>. QED BY <1>3, <1>4

LEMMA CreateKeepsBasics ==
    ASSUME BasicInv, NEW s \in Streams,
           stream[s].status \in {"idle", "waiting"}, CreateRequestStream(s)
    PROVE  /\ StackInv' /\ StatusInv' /\ RegistryInv'
           /\ ~open'[Requester] => wire'[Requester] = <<>>
           /\ stream'[s].status \notin {"idle", "waiting"}
           /\ \A t \in Streams : t # s => stream'[t] = stream[t]
<1>. MuxTypeOK /\ MuxTypeOK'
  BY CreateKeepsTypes DEF BasicInv, TypeOK
<1>1. /\ stream \in [Streams -> StreamState] /\ stream' \in [Streams -> StreamState]
      /\ stream'[s].quit = stream[s].quit
      /\ \A t \in Streams : t # s => stream'[t] = stream[t]
      /\ IF muxDone \/ Free = {}
         THEN /\ stream'[s].id = stream[s].id
              /\ stream'[s].status \in {"done", "lost"}
              /\ stream'[s].told = stream[s].told + Count(muxDone)
         ELSE /\ stream'[s].id = NextId
              /\ stream'[s].status = IF s \in Calls THEN "ready" ELSE "done"
              /\ stream'[s].told = stream[s].told + Count(s \notin Calls)
  BY CreateEffect, StreamTyped
<1>2. ~(muxDone \/ Free = {}) => NextId \in Ids /\ NextId # 0
  BY NextIdIsFree, IdsArePositive
<1>3. StackInv'
  <2>0. UNCHANGED open /\ StackInv /\ running \in Seq(Step)
    BY DEF CreateRequestStream, BasicInv, MuxTypeOK
  <2>1. CASE UNCHANGED running
    BY <2>0, <2>1 DEF StackInv
  <2>2. CASE running' # running
    <3>. DEFINE step == [call |-> "complete", id |-> NextId, left |-> {},
                         called |-> TRUE]
    <3>1. running' = <<step>> \o running /\ NextId \in Ids
      BY <1>2, <2>2 DEF CreateRequestStream, StartCall, StartFireAndForget
    <3>2. /\ step.call = "complete" /\ step.id \in Ids /\ step \in Step
          /\ step.call # "close"
      BY <3>1 DEF Step
    <3>. HIDE DEF step
    <3>3. /\ Len(running') = Len(running) + 1 /\ running'[1] = step
          /\ \A k \in 2 .. Len(running') : running'[k] = running[k - 1]
      BY <2>0, <3>1, <3>2
    <3>4. \A k \in 2 .. Len(running') : k - 1 \in 1 .. Len(running)
      BY <2>0, <3>3
    <3>. QED BY <2>0, <3>2, <3>3, <3>4 DEF StackInv
  <2>. QED BY <2>1, <2>2
<1>4. StatusInv'
  <2>. SUFFICES ASSUME NEW t \in Streams
                PROVE  StatusInv!(t)'
    BY DEF StatusInv
  <2>1. CASE t # s
    BY <1>1, <2>1 DEF BasicInv, StatusInv, HasId
  <2>2. CASE t = s
    <3>1. stream[s].told = 0 /\ ~stream[s].quit /\ stream[s].id = 0
      BY DEF BasicInv, StatusInv, HasId
    <3>. QED BY <1>1, <1>2, <2>2, <3>1 DEF HasId, Count
  <2>. QED BY <2>1, <2>2
<1>5. RegistryInv'
  <2>0. UNCHANGED open /\ RegistryInv
    BY DEF CreateRequestStream, BasicInv
  <2>1. CASE UNCHANGED registry
    <3>1. \A i \in Ids : registry[Requester][i] \in Streams \cup {Nobody}
      BY DEF MuxTypeOK
    <3>. QED BY <1>1, <2>0, <2>1, <3>1 DEF RegistryInv
  <2>2. CASE registry' # registry
    <3>1. /\ registry' = [registry EXCEPT ![Requester][NextId] = s]
          /\ s \in Calls /\ ~(muxDone \/ Free = {})
      BY <2>2 DEF CreateRequestStream, StartCall, StartFireAndForget
    <3>2. \A i \in Ids : registry'[Requester][i]
                         = IF i = NextId THEN s ELSE registry[Requester][i]
      BY <3>1 DEF MuxTypeOK
    <3>3. stream'[s].status = "ready" /\ stream'[s].id = NextId
      BY <1>1, <3>1
    <3>4. \A i \in Ids : registry[Requester][i] \in Streams \cup {Nobody}
      BY DEF MuxTypeOK
    <3>. QED BY <1>1, <2>0, <3>2, <3>3, <3>4 DEF RegistryInv
  <2>. QED BY <2>1, <2>2
<1>6. wire'[Requester] = wire[Requester] /\ open' = open
  BY DEF CreateRequestStream, StartCall, StartFireAndForget, Send, MuxTypeOK, Peer
<1>. QED BY <1>1, <1>3, <1>4, <1>5, <1>6 DEF BasicInv

\* The stack after a step has returned, or has been followed by another one.
LEMMA StackKept ==
    ASSUME MuxTypeOK, StackInv, open'[Requester] => open[Requester]
    PROVE  /\ UNCHANGED running => StackInv'
           /\ running # <<>> /\ running' = Tail(running) => StackInv'
           /\ \A step \in Step :
                 /\ step.call \in {"close", "grant", "reject"}
                 /\ step.call = "close" => ~open'[Requester]
                 /\ \/ running = <<>> /\ running' = <<step>>
                    \/ /\ running # <<>> /\ Head(running).call # "complete"
                       /\ running' = <<step>> \o Tail(running)
                 => StackInv'
<1>. running \in Seq(Step)
  BY DEF MuxTypeOK
<1>1. UNCHANGED running => StackInv'
  BY DEF StackInv
<1>2. ASSUME running # <<>>, running' = Tail(running)
      PROVE  StackInv'
  <2>1. /\ Len(running') = Len(running) - 1
        /\ \A k \in 1 .. Len(running') : running'[k] = running[k + 1]
                                         /\ k + 1 \in 1 .. Len(running)
    BY <1>2
  <2>2. \A k \in 1 .. Len(running') :
           /\ running'[k].call = "complete" => running'[k].id \in Ids
           /\ running'[k].call # "complete" => k + 1 = Len(running)
           /\ running'[k].call = "close" => ~open'[Requester]
    BY <2>1 DEF StackInv
  <2>3. \A k \in 1 .. Len(running') : k + 1 = Len(running) => k = Len(running')
    BY <2>1
  <2>. QED BY <2>2, <2>3 DEF StackInv
<1>3. ASSUME NEW step \in Step,
             step.call \in {"close", "grant", "reject"},
             step.call = "close" => ~open'[Requester],
             \/ running = <<>> /\ running' = <<step>>
             \/ /\ running # <<>> /\ Head(running).call # "complete"
                /\ running' = <<step>> \o Tail(running)
      PROVE  StackInv'
  <2>1. CASE running = <<>> /\ running' = <<step>>
    BY <1>3, <2>1 DEF StackInv
  <2>2. CASE /\ running # <<>> /\ Head(running).call # "complete"
             /\ running' = <<step>> \o Tail(running)
    <3>1. Head(running) = running[1] /\ 1 \in 1 .. Len(running)
      BY <2>2
    <3>2. Len(running) = 1
      BY <2>2, <3>1 DEF StackInv
    <3>3. Len(running') = 1 /\ running'[1] = step
      BY <2>2, <3>2
    <3>. QED BY <1>3, <3>3 DEF StackInv
  <2>. QED BY <1>3, <2>1, <2>2
<1>. QED BY <1>1, <1>2, <1>3, Zenon

\* One request is told of its end or quits.
LEMMA EndKeepsStatus ==
    ASSUME BasicInv, NEW s \in Streams,
           stream' \in [Streams -> StreamState],
           stream'[s].status = "done",
           stream'[s].told + Count(stream'[s].quit) <= 1,
           \A t \in Streams : t # s => stream'[t] = stream[t]
    PROVE  StatusInv'
<1>. SUFFICES ASSUME NEW t \in Streams
              PROVE  StatusInv!(t)'
  BY DEF StatusInv
<1>1. CASE t # s
  BY <1>1 DEF BasicInv, StatusInv, HasId
<1>2. CASE t = s
  BY <1>2
<1>. QED BY <1>1, <1>2

LEMMA TellKeepsStatus ==
    ASSUME BasicInv, NEW s \in Streams, stream' = Tell(s),
           stream[s].status \in {"idle", "waiting", "ready"}
    PROVE  StatusInv' /\ stream' \in [Streams -> StreamState]
<1>1. stream[s].told = 0 /\ ~stream[s].quit
  BY DEF BasicInv, StatusInv
<1>2. /\ stream' \in [Streams -> StreamState]
      /\ stream'[s].status = "done" /\ stream'[s].told = stream[s].told + 1
      /\ stream'[s].quit = stream[s].quit
      /\ \A t \in Streams : t # s => stream'[t] = stream[t]
  BY TellTyped DEF BasicInv, TypeOK
<1>3. stream'[s].told + Count(stream'[s].quit) <= 1
  BY <1>1, <1>2 DEF Count
<1>. QED BY <1>2, <1>3, EndKeepsStatus

LEMMA QuitKeepsStatus ==
    ASSUME BasicInv, NEW s \in Streams,
           stream' = [stream EXCEPT ![s].status = "done", ![s].quit = TRUE],
           stream[s].status \in {"waiting", "ready"}
    PROVE  StatusInv' /\ stream' \in [Streams -> StreamState]
<1>1. stream[s].told = 0
  BY DEF BasicInv, StatusInv
<1>2. /\ stream' \in [Streams -> StreamState]
      /\ stream'[s].status = "done" /\ stream'[s].told = stream[s].told
      /\ stream'[s].quit
      /\ \A t \in Streams : t # s => stream'[t] = stream[t]
  BY QuitTyped DEF BasicInv, TypeOK
<1>3. stream'[s].told + Count(stream'[s].quit) <= 1
  BY <1>1, <1>2 DEF Count
<1>. QED BY <1>2, <1>3, EndKeepsStatus

\* A request leaves the registry, or was not in it.
LEMMA RegistryKept ==
    ASSUME BasicInv, NEW s \in Streams, NEW i \in Ids,
           \A t \in Streams : t # s => stream'[t] = stream[t],
           open'[Requester] => open[Requester]
    PROVE  /\ UNCHANGED registry /\ (open'[Requester] => stream[s].status # "ready")
              => RegistryInv'
           /\ /\ registry' = [registry EXCEPT ![Requester][i] = Nobody]
              /\ open'[Requester] /\ stream[s].status = "ready" => stream[s].id = i
              => RegistryInv'
<1>. /\ RegistryInv
     /\ registry \in [End -> [Ids -> Streams \cup {Nobody}]]
  BY DEF BasicInv, TypeOK, MuxTypeOK
<1>1. ASSUME UNCHANGED registry, open'[Requester] => stream[s].status # "ready"
      PROVE  RegistryInv'
  BY <1>1 DEF RegistryInv
<1>2. ASSUME registry' = [registry EXCEPT ![Requester][i] = Nobody],
             open'[Requester] /\ stream[s].status = "ready" => stream[s].id = i
      PROVE  RegistryInv'
  <2>1. \A j \in Ids : registry'[Requester][j]
                       = IF j = i THEN Nobody ELSE registry[Requester][j]
    BY <1>2
  <2>2. \A j \in Ids : registry[Requester][j] \in Streams \cup {Nobody}
    OBVIOUS
  <2>. QED BY <1>2, <2>1, <2>2 DEF RegistryInv
<1>. QED BY <1>1, <1>2

\* A request leaves the queue, or was not in it.
LEMMA QueueKept ==
    ASSUME BasicInv, NEW s \in Streams,
           \A t \in Streams : t # s => stream'[t] = stream[t]
    PROVE  /\ UNCHANGED pendingRequests /\ stream[s].status # "waiting"
              => QueueInv'
           /\ /\ pendingRequests # <<>> /\ s = Head(pendingRequests)
              /\ pendingRequests' = Tail(pendingRequests)
              => /\ QueueInv' /\ pendingRequests' \in Seq(Streams)
                 /\ Len(pendingRequests') <= MaxPending
           /\ \A k \in 1 .. Len(pendingRequests) :
                 /\ pendingRequests[k] = s
                 /\ pendingRequests'
                      = SubSeq(pendingRequests, 1, k - 1)
                          \o SubSeq(pendingRequests, k + 1, Len(pendingRequests))
                 => /\ QueueInv' /\ pendingRequests' \in Seq(Streams)
                    /\ Len(pendingRequests') <= MaxPending
<1>. DEFINE P == pendingRequests
<1>. /\ P \in Seq(Streams) /\ Len(P) <= MaxPending /\ MaxPending \in Nat
     /\ QueueInv
  BY LeaseAssumption DEF BasicInv, TypeOK
<1>0. \A p \in 1 .. Len(P) : P[p] \in Streams
  OBVIOUS
<1>1. ASSUME UNCHANGED pendingRequests, stream[s].status # "waiting"
      PROVE  QueueInv'
  BY <1>0, <1>1 DEF QueueInv
<1>2. ASSUME P # <<>>, s = Head(P), pendingRequests' = Tail(P)
      PROVE  /\ QueueInv' /\ pendingRequests' \in Seq(Streams)
             /\ Len(pendingRequests') <= MaxPending
  <2>1. /\ pendingRequests' \in Seq(Streams)
        /\ Len(pendingRequests') = Len(P) - 1 /\ s = P[1]
        /\ \A p \in 1 .. Len(pendingRequests') :
              pendingRequests'[p] = P[p + 1] /\ p + 1 \in 2 .. Len(P)
    BY <1>2
  <2>2. \A p \in 2 .. Len(P) : P[p] # s
    BY <2>1 DEF QueueInv
  <2>. DEFINE r == pendingRequests'
  <2>3. \A p \in 1 .. Len(r) : stream'[r[p]].status = "waiting"
    BY <1>0, <2>1, <2>2 DEF QueueInv
  <2>4. \A p, q \in 1 .. Len(r) : r[p] = r[q] => p = q
    <3>. SUFFICES ASSUME NEW p \in 1 .. Len(r), NEW q \in 1 .. Len(r), r[p] = r[q]
                  PROVE  p = q
      OBVIOUS
    <3>1. p + 1 \in 1 .. Len(P) /\ q + 1 \in 1 .. Len(P) /\ P[p + 1] = P[q + 1]
      BY <2>1
    <3>2. p + 1 = q + 1
      BY <3>1 DEF QueueInv
    <3>. QED BY <3>2
  <2>. QED BY <2>1, <2>3, <2>4 DEF QueueInv
<1>3. ASSUME NEW k \in 1 .. Len(P), P[k] = s,
             pendingRequests' = SubSeq(P, 1, k - 1) \o SubSeq(P, k + 1, Len(P))
      PROVE  /\ QueueInv' /\ pendingRequests' \in Seq(Streams)
             /\ Len(pendingRequests') <= MaxPending
  <2>1. /\ pendingRequests' \in Seq(Streams)
        /\ Len(pendingRequests') = Len(P) - 1
        /\ \A p \in 1 .. Len(pendingRequests') :
              pendingRequests'[p] = P[IF p < k THEN p ELSE p + 1]
    <3>. DEFINE r == pendingRequests'
    <3>1. r = SubSeq(P, 1, k - 1) \o SubSeq(P, k + 1, Len(P))
      BY <1>3
    <3>. HIDE DEF r, P
    <3>2. /\ r \in Seq(Streams) /\ Len(r) = Len(P) - 1
          /\ \A p \in 1 .. Len(r) : r[p] = P[IF p < k THEN p ELSE p + 1]
      BY <3>1, RemovedAt, Zenon
    <3>. QED BY <3>2 DEF r
  <2>2. \A p \in 1 .. Len(P) : p # k => P[p] # s
    BY <1>3 DEF QueueInv
  <2>. DEFINE r == pendingRequests'
              at(p) == IF p < k THEN p ELSE p + 1
  <2>3. \A p \in 1 .. Len(r) : /\ at(p) \in 1 .. Len(P) /\ at(p) # k
                               /\ r[p] = P[at(p)]
    BY <2>1
  <2>4. \A p, q \in 1 .. Len(r) : at(p) = at(q) => p = q
    OBVIOUS
  <2>. HIDE DEF at
  <2>5. \A p \in 1 .. Len(r) : stream'[r[p]].status = "waiting"
    BY <1>0, <2>2, <2>3 DEF QueueInv
  <2>6. \A p, q \in 1 .. Len(r) : r[p] = r[q] => p = q
    BY <2>3, <2>4 DEF QueueInv
  <2>. QED BY <2>1, <2>5, <2>6 DEF QueueInv
<1>. QED BY <1>1, <1>2, <1>3

\* The lease handler's variables keep their types under every action.
LEMMA LeaseVarsTyped ==
    ASSUME TypeOK, UNCHANGED leaseVars, MuxTypeOK'
    PROVE  TypeOK'
BY DEF TypeOK, leaseVars

LEMMA RequestLeaseBasics ==
    ASSUME BasicInv, NEW s \in Streams, RequestLease(s)
    PROVE  BasicInv'
<1>. /\ TypeOK /\ MuxTypeOK /\ StackInv /\ StatusInv /\ RegistryInv /\ QueueInv
     /\ pendingRequests \in Seq(Streams) /\ asked \in Seq(Streams)
     /\ availableLease \in Nat /\ stream[s].status = "idle"
  BY DEF BasicInv, TypeOK, RequestLease
<1>1. CASE availableLease > 0 /\ fresh
  <2>1. /\ availableLease' = availableLease - 1 /\ CreateRequestStream(s)
        /\ asked' = Append(asked, s)
        /\ UNCHANGED <<pendingRequests, fresh, leases, lease, before>>
    BY <1>1 DEF RequestLease, PassOn
  <2>2. MuxTypeOK'
    BY <2>1, CreateKeepsTypes
  <2>3. TypeOK'
    BY <1>1, <2>1, <2>2 DEF TypeOK
  <2>4. /\ StackInv' /\ StatusInv' /\ RegistryInv'
        /\ ~open'[Requester] => wire'[Requester] = <<>>
        /\ \A t \in Streams : t # s => stream'[t] = stream[t]
    BY <2>1, CreateKeepsBasics
  <2>5. QueueInv'
    BY <2>1, <2>4, QueueKept
  <2>. QED BY <2>3, <2>4, <2>5 DEF BasicInv
<1>2. CASE ~(availableLease > 0 /\ fresh) /\ Len(pendingRequests) >= MaxPending
  <2>1. /\ asked' = Append(asked, s) /\ stream' = Tell(s)
        /\ UNCHANGED <<pendingRequests, availableLease, fresh, leases, lease,
                       before, currentId, running, registry, muxDone, given,
                       wraps, wire, open>>
    BY <1>2 DEF RequestLease
  <2>2. StatusInv' /\ stream' \in [Streams -> StreamState]
    BY <2>1, TellKeepsStatus
  <2>3. \A t \in Streams : t # s => stream'[t] = stream[t]
    BY <2>1, TellTyped
  <2>4. QueueInv' /\ RegistryInv' /\ StackInv'
    BY <2>1, <2>3, QueueKept, RegistryKept, StackKept, SomeId
  <2>5. TypeOK'
    BY <2>1, <2>2 DEF TypeOK, MuxTypeOK, StreamState
  <2>. QED BY <2>1, <2>2, <2>4, <2>5 DEF BasicInv
<1>3. CASE ~(availableLease > 0 /\ fresh) /\ ~(Len(pendingRequests) >= MaxPending)
  <2>1. /\ asked' = Append(asked, s)
        /\ pendingRequests' = Append(pendingRequests, s)
        /\ stream' = [stream EXCEPT ![s].status = "waiting"]
        /\ UNCHANGED <<availableLease, fresh, leases, lease, before, currentId,
                       running, registry, muxDone, given, wraps, wire, open>>
    BY <1>3 DEF RequestLease, Wait
  <2>2. /\ stream' \in [Streams -> StreamState]
        /\ stream'[s].status = "waiting"
        /\ stream'[s].quit = stream[s].quit
        /\ stream'[s].told = stream[s].told
        /\ stream'[s].id = stream[s].id
        /\ \A t \in Streams : t # s => stream'[t] = stream[t]
    BY <2>1, StatusTyped, "waiting" \in Status DEF Status
  <2>3. StatusInv'
    BY <2>2 DEF StatusInv, HasId
  <2>4. RegistryInv' /\ StackInv'
    BY <2>1, <2>2, RegistryKept, StackKept, SomeId
  <2>5. TypeOK'
    <3>1. Len(pendingRequests') = Len(pendingRequests) + 1
      BY <2>1
    <3>2. MaxPending \in Nat /\ Len(pendingRequests') <= MaxPending
      BY <1>3, <3>1, LeaseAssumption
    <3>3. MuxTypeOK'
      BY <2>1, <2>2 DEF MuxTypeOK, StreamState
    <3>4. pendingRequests' \in Seq(Streams) /\ asked' \in Seq(Streams)
      BY <2>1
    <3>. QED BY <2>1, <3>2, <3>3, <3>4 DEF TypeOK
  <2>6. QueueInv'
    <3>1. /\ Len(pendingRequests') = Len(pendingRequests) + 1
          /\ pendingRequests'[Len(pendingRequests) + 1] = s
          /\ \A p \in 1 .. Len(pendingRequests) :
                pendingRequests'[p] = pendingRequests[p]
                /\ pendingRequests[p] \in Streams
      BY <2>1
    <3>2. \A p \in 1 .. Len(pendingRequests) : pendingRequests[p] # s
      BY DEF QueueInv
    <3>3. \A p \in 1 .. Len(pendingRequests') :
             p \in 1 .. Len(pendingRequests) \/ p = Len(pendingRequests) + 1
      BY <3>1
    <3>4. \A p \in 1 .. Len(pendingRequests') :
             stream'[pendingRequests'[p]].status = "waiting"
      BY <2>2, <3>1, <3>2, <3>3 DEF QueueInv
    <3>5. \A p, q \in 1 .. Len(pendingRequests') :
             pendingRequests'[p] = pendingRequests'[q] => p = q
      BY <3>1, <3>2, <3>3 DEF QueueInv
    <3>. QED BY <3>4, <3>5 DEF QueueInv
  <2>. QED BY <2>1, <2>3, <2>4, <2>5, <2>6 DEF BasicInv
<1>. QED BY <1>1, <1>2, <1>3

LEMMA CancelRequestBasics ==
    ASSUME BasicInv, NEW s \in Streams, CancelRequest(s)
    PROVE  BasicInv'
<1>. /\ TypeOK /\ MuxTypeOK /\ StackInv /\ stream[s].status = "waiting"
  BY DEF BasicInv, TypeOK, CancelRequest
<1>1. /\ stream' = [stream EXCEPT ![s].status = "done", ![s].quit = TRUE]
      /\ UNCHANGED <<availableLease, fresh, leases, lease, before, asked,
                     currentId, running, registry, muxDone, given, wraps, wire,
                     open>>
  BY DEF CancelRequest
<1>2. StatusInv' /\ stream' \in [Streams -> StreamState]
  BY <1>1, QuitKeepsStatus
<1>3. \A t \in Streams : t # s => stream'[t] = stream[t]
  BY <1>1, QuitTyped
<1>4. RegistryInv' /\ StackInv'
  BY <1>1, <1>3, RegistryKept, StackKept, SomeId
<1>5. PICK k \in 1 .. Len(pendingRequests) :
         /\ pendingRequests[k] = s
         /\ pendingRequests'
              = SubSeq(pendingRequests, 1, k - 1)
                  \o SubSeq(pendingRequests, k + 1, Len(pendingRequests))
  BY DEF CancelRequest
<1>6. /\ QueueInv' /\ pendingRequests' \in Seq(Streams)
      /\ Len(pendingRequests') <= MaxPending
  BY <1>3, <1>5, QueueKept, Zenon
<1>7. TypeOK'
  BY <1>1, <1>2, <1>6 DEF TypeOK, MuxTypeOK, StreamState
<1>. QED BY <1>1, <1>2, <1>4, <1>6, <1>7 DEF BasicInv

\* The first element of a sequence and what is left without it.
LEMMA HeadIn ==
    ASSUME NEW S, NEW q \in Seq(S), q # <<>>
    PROVE  Head(q) \in S /\ Tail(q) \in Seq(S)
OBVIOUS

LEMMA HeadTyped ==
    ASSUME TypeOK, pendingRequests # <<>>
    PROVE  Head(pendingRequests) \in Streams /\ 1 \in 1 .. Len(pendingRequests)
           /\ Head(pendingRequests) = pendingRequests[1]
BY DEF TypeOK

LEMMA LeaseStepsBasics ==
    ASSUME BasicInv
    PROVE  /\ \A n \in Grants : HandlesLease(n) => BasicInv'
           /\ GrantsNext => BasicInv'
           /\ RejectsNext => BasicInv'
           /\ Expires => BasicInv'
<1>. /\ TypeOK /\ MuxTypeOK /\ StackInv /\ StatusInv /\ RegistryInv /\ QueueInv
     /\ pendingRequests \in Seq(Streams) /\ running \in Seq(Step)
     /\ availableLease \in Nat
     /\ ~open[Requester] => wire[Requester] = <<>>
  BY DEF BasicInv, TypeOK, MuxTypeOK
<1>1. ASSUME NEW n \in Grants, HandlesLease(n)
      PROVE  BasicInv'
  <2>. DEFINE step == [call |-> "grant", id |-> 0, left |-> {},
                       called |-> FALSE]
  <2>1. step \in Step /\ step.call = "grant"
    BY DEF Step
  <2>2. /\ running = <<>> /\ running' = <<step>> /\ n \in Nat
        /\ leases < MaxLeases /\ leases' = leases + 1
        /\ availableLease' = n /\ lease' = n /\ before' = Len(given)
        /\ fresh' = TRUE
        /\ UNCHANGED <<pendingRequests, asked, currentId, registry, stream,
                       muxDone, given, wraps, wire, open>>
    BY <1>1, LeaseAssumption DEF HandlesLease
  <2>. HIDE DEF step
  <2>3. StackInv'
    BY <2>1, <2>2, StackKept
  <2>4. TypeOK'
    <3>1. MuxTypeOK'
      BY <2>1, <2>2 DEF MuxTypeOK
    <3>2. leases' \in 0 .. MaxLeases /\ before' \in Nat
      BY <2>2, LeaseAssumption DEF TypeOK, MuxTypeOK
    <3>. QED BY <2>2, <3>1, <3>2 DEF TypeOK
  <2>. QED BY <2>2, <2>3, <2>4
           DEF BasicInv, StatusInv, HasId, RegistryInv, QueueInv
<1>2. ASSUME GrantsNext
      PROVE  BasicInv'
  <2>. DEFINE s == Head(pendingRequests)
  <2>1. CASE availableLease > 0 /\ pendingRequests # <<>>
    <3>1. /\ pendingRequests' = Tail(pendingRequests)
          /\ availableLease' = availableLease - 1 /\ CreateRequestStream(s)
          /\ UNCHANGED <<fresh, leases, lease, before, asked>>
      BY <1>2, <2>1 DEF GrantsNext, PassOn
    <3>2. s \in Streams /\ stream[s].status \in {"idle", "waiting"}
      BY <2>1, HeadTyped DEF QueueInv
    <3>. HIDE DEF s
    <3>3. /\ MuxTypeOK'
          /\ StackInv' /\ StatusInv' /\ RegistryInv'
          /\ ~open'[Requester] => wire'[Requester] = <<>>
          /\ \A t \in Streams : t # s => stream'[t] = stream[t]
      BY <3>1, <3>2, CreateKeepsTypes, CreateKeepsBasics
    <3>4. /\ QueueInv' /\ pendingRequests' \in Seq(Streams)
          /\ Len(pendingRequests') <= MaxPending
      BY <2>1, <3>1, <3>2, <3>3, QueueKept DEF s
    <3>5. TypeOK'
      BY <2>1, <3>1, <3>3, <3>4 DEF TypeOK
    <3>. QED BY <3>3, <3>4, <3>5 DEF BasicInv
  <2>2. CASE ~(availableLease > 0 /\ pendingRequests # <<>>)
    <3>1. /\ running # <<>> /\ running' = Tail(running)
          /\ UNCHANGED <<pendingRequests, availableLease, currentId, registry,
                         stream, muxDone, given, wraps, wire, open, fresh,
                         leases, lease, before, asked>>
      BY <1>2, <2>2 DEF GrantsNext, In
    <3>2. StackInv' /\ running' \in Seq(Step)
      BY <3>1, StackKept
    <3>3. TypeOK'
      BY <3>1, <3>2 DEF TypeOK, MuxTypeOK
    <3>. QED BY <3>1, <3>2, <3>3
             DEF BasicInv, StatusInv, HasId, RegistryInv, QueueInv
  <2>. QED BY <2>1, <2>2
<1>3. ASSUME RejectsNext
      PROVE  BasicInv'
  <2>. DEFINE s == Head(pendingRequests)
  <2>0. /\ running # <<>> /\ Head(running).call = "reject"
        /\ UNCHANGED <<availableLease, fresh, leases, lease, before, asked,
                       currentId, registry, muxDone, given, wraps, wire, open>>
    BY <1>3 DEF RejectsNext, In
  <2>1. CASE pendingRequests # <<>>
    <3>. DEFINE step == [Head(running) EXCEPT !.called = TRUE]
    <3>1. /\ pendingRequests' = Tail(pendingRequests) /\ stream' = Tell(s)
          /\ running' = <<step>> \o Tail(running)
      BY <1>3, <2>1 DEF RejectsNext
    <3>2. step \in Step /\ step.call = "reject"
      <4>1. Head(running) \in Step
        BY <2>0
      <4>. QED BY <2>0, <4>1 DEF Step
    <3>. HIDE DEF step
    <3>3. StackInv' /\ running' \in Seq(Step)
      BY <2>0, <3>1, <3>2, StackKept
    <3>4. s \in Streams /\ stream[s].status = "waiting"
      BY <2>1, HeadTyped DEF QueueInv
    <3>. HIDE DEF s
    <3>5. /\ StatusInv' /\ stream' \in [Streams -> StreamState]
          /\ \A t \in Streams : t # s => stream'[t] = stream[t]
      BY <3>1, <3>4, TellKeepsStatus, TellTyped
    <3>6. /\ QueueInv' /\ pendingRequests' \in Seq(Streams)
          /\ Len(pendingRequests') <= MaxPending
      BY <2>1, <3>1, <3>4, <3>5, QueueKept DEF s
    <3>7. RegistryInv'
      BY <2>0, <3>4, <3>5, RegistryKept, SomeId
    <3>8. TypeOK'
      BY <2>0, <3>3, <3>5, <3>6 DEF TypeOK, MuxTypeOK, StreamState
    <3>. QED BY <2>0, <3>3, <3>5, <3>6, <3>7, <3>8 DEF BasicInv
  <2>2. CASE pendingRequests = <<>>
    <3>1. /\ running' = Tail(running)
          /\ UNCHANGED <<pendingRequests, stream>>
      BY <1>3, <2>2 DEF RejectsNext
    <3>2. StackInv' /\ running' \in Seq(Step)
      BY <2>0, <3>1, StackKept
    <3>3. TypeOK'
      BY <2>0, <3>1, <3>2 DEF TypeOK, MuxTypeOK
    <3>. QED BY <2>0, <3>1, <3>2, <3>3
             DEF BasicInv, StatusInv, HasId, RegistryInv, QueueInv
  <2>. QED BY <2>1, <2>2
<1>4. ASSUME Expires
      PROVE  BasicInv'
  BY <1>4, ZenonT(60) DEF Expires, muxVars, BasicInv, TypeOK, MuxTypeOK, StackInv,
              StatusInv, HasId, RegistryInv, QueueInv
<1>. QED BY <1>1, <1>2, <1>3, <1>4

LEMMA CallerBasics ==
    ASSUME BasicInv, UNCHANGED leaseVars
    PROVE  /\ \A s \in Calls : Cancels(s) => BasicInv'
           /\ CompleteReturns => BasicInv'
<1>. /\ TypeOK /\ MuxTypeOK /\ StackInv /\ StatusInv /\ RegistryInv /\ QueueInv
     /\ running \in Seq(Step) /\ UNCHANGED pendingRequests
     /\ ~open[Requester] => wire[Requester] = <<>>
  BY DEF BasicInv, TypeOK, MuxTypeOK, leaseVars
<1>1. ASSUME NEW s \in Calls, Cancels(s)
      PROVE  BasicInv'
  <2>. DEFINE i == stream[s].id
  <2>1. /\ stream[s].status = "ready"
        /\ stream' = [stream EXCEPT ![s].status = "done", ![s].quit = TRUE]
        /\ registry' = [registry EXCEPT ![Requester][i] = Nobody]
        /\ Send(Requester, <<Msg("CANCEL", i, s, FALSE)>>)
        /\ UNCHANGED <<currentId, running, muxDone, given, wraps, open>>
    BY <1>1 DEF Cancels
  <2>2. s \in Streams
    BY DEF Streams
  <2>3. StatusInv' /\ stream' \in [Streams -> StreamState]
        /\ \A t \in Streams : t # s => stream'[t] = stream[t]
    BY <2>1, <2>2, QuitKeepsStatus, QuitTyped
  <2>4. i \in Ids
    BY <2>1, <2>2, StreamTyped DEF StatusInv, HasId, StreamState
  <2>. HIDE DEF i
  <2>5. <<Msg("CANCEL", i, s, FALSE)>> \in Seq(Message)
    BY <2>2, <2>4, MsgTyped, ShortSeqs
  <2>6. wire' \in [End -> Seq(Message)] /\ wire'[Requester] = wire[Requester]
    <3>1. wire' \in [End -> Seq(Message)]
      BY <2>1, <2>5, SendTyped
    <3>. QED BY <2>1, <3>1 DEF Send, MuxTypeOK, Peer
  <2>7. RegistryInv'
    BY <2>1, <2>2, <2>3, <2>4, RegistryKept DEF i
  <2>8. StackInv' /\ QueueInv'
    BY <2>1, <2>2, <2>3, StackKept, QueueKept
  <2>9. MuxTypeOK'
    <3>1. registry' \in [End -> [Ids -> Streams \cup {Nobody}]]
      BY <2>1 DEF MuxTypeOK
    <3>. QED BY <2>1, <2>3, <2>6, <3>1 DEF MuxTypeOK, StreamState
  <2>. QED BY <2>1, <2>3, <2>6, <2>7, <2>8, <2>9, LeaseVarsTyped DEF BasicInv
<1>2. ASSUME CompleteReturns
      PROVE  BasicInv'
  <2>1. /\ running # <<>> /\ Head(running).call = "complete"
        /\ currentId' = Head(running).id /\ running' = Tail(running)
        /\ UNCHANGED <<registry, stream, muxDone, given, wraps, wire, open>>
    BY <1>2 DEF CompleteReturns, In
  <2>2. currentId' \in Ids
    <3>1. Head(running) = running[1] /\ 1 \in 1 .. Len(running)
      BY <2>1
    <3>. QED BY <2>1, <3>1 DEF StackInv
  <2>3. StackInv' /\ running' \in Seq(Step)
    BY <2>1, StackKept
  <2>4. MuxTypeOK'
    BY <2>1, <2>2, <2>3 DEF MuxTypeOK
  <2>. QED BY <2>1, <2>3, <2>4, LeaseVarsTyped
           DEF BasicInv, StatusInv, HasId, RegistryInv, QueueInv
<1>. QED BY <1>1, <1>2

LEMMA ReceiveBasics ==
    ASSUME BasicInv, UNCHANGED leaseVars
    PROVE  /\ Receives => BasicInv'
           /\ \A i \in Ids : Answers(i) => BasicInv'
<1>. /\ TypeOK /\ MuxTypeOK /\ StackInv /\ StatusInv /\ RegistryInv /\ QueueInv
     /\ running \in Seq(Step) /\ UNCHANGED pendingRequests
     /\ wire \in [End -> Seq(Message)]
     /\ registry \in [End -> [Ids -> Streams \cup {Nobody}]]
     /\ ~open[Requester] => wire[Requester] = <<>>
  BY DEF BasicInv, TypeOK, MuxTypeOK, leaseVars
<1>1. ASSUME UNCHANGED <<currentId, running, stream, muxDone, given, wraps, open>>,
             registry' \in [End -> [Ids -> Streams \cup {Nobody}]],
             registry'[Requester] = registry[Requester],
             wire' \in [End -> Seq(Message)],
             ~open[Requester] => wire'[Requester] = <<>>
      PROVE  BasicInv'
  <2>1. StackInv' /\ MuxTypeOK'
    BY <1>1, StackKept DEF MuxTypeOK
  <2>. QED BY <1>1, <2>1, LeaseVarsTyped
           DEF BasicInv, StatusInv, HasId, RegistryInv, QueueInv
<1>2. ASSUME HandlesAnswer
      PROVE  BasicInv'
  <2>. DEFINE f == Head(wire[Requester])
              s == registry[Requester][f.id]
  <2>1. /\ wire[Requester] # <<>> /\ s # Nobody
        /\ stream' = [Tell(s) EXCEPT ![s].heard = @ \cup {f.stream}]
        /\ registry' = [registry EXCEPT ![Requester][f.id] = Nobody]
        /\ wire' = [wire EXCEPT ![Requester] = Tail(@)]
        /\ UNCHANGED <<currentId, running, muxDone, given, wraps, open>>
    BY <1>2 DEF HandlesAnswer
  <2>2. f \in Message /\ Tail(wire[Requester]) \in Seq(Message)
    BY <2>1, HeadIn
  <2>3. f.id \in Ids /\ f.stream \in Streams
    BY <2>2 DEF Message
  <2>4. s \in Streams /\ open[Requester]
    BY <2>1, <2>3
  <2>5. stream[s].status = "ready" /\ stream[s].id = f.id
    BY <2>1, <2>3, <2>4 DEF RegistryInv
  <2>. HIDE DEF f, s
  <2>6. /\ stream' \in [Streams -> StreamState]
        /\ stream'[s].status = "done"
        /\ stream'[s].told = stream[s].told + 1
        /\ stream'[s].quit = stream[s].quit
        /\ \A t \in Streams : t # s => stream'[t] = stream[t]
    BY <2>1, <2>3, <2>4, HeardTyped
  <2>7. StatusInv'
    <3>1. stream[s].told = 0 /\ ~stream[s].quit
      BY <2>4, <2>5 DEF StatusInv
    <3>2. stream'[s].told + Count(stream'[s].quit) <= 1
      BY <2>6, <3>1 DEF Count
    <3>. QED BY <2>4, <2>6, <3>2, EndKeepsStatus
  <2>8. QueueInv'
    BY <2>4, <2>5, <2>6, QueueKept
  <2>9. RegistryInv'
    BY <2>1, <2>3, <2>4, <2>5, <2>6, RegistryKept
  <2>10. MuxTypeOK' /\ StackInv'
    <3>1. registry' \in [End -> [Ids -> Streams \cup {Nobody}]]
      BY <2>1
    <3>2. wire' \in [End -> Seq(Message)]
      BY <2>1, <2>2
    <3>3. StackInv'
      BY <2>1, StackKept
    <3>. QED BY <2>1, <2>6, <3>1, <3>2, <3>3 DEF MuxTypeOK, StreamState
  <2>. QED BY <2>1, <2>4, <2>7, <2>8, <2>9, <2>10, LeaseVarsTyped DEF BasicInv
<1>3. ASSUME DropsAnswer
      PROVE  BasicInv'
  <2>1. /\ wire[Requester] # <<>>
        /\ wire' = [wire EXCEPT ![Requester] = Tail(wire[Requester])]
        /\ UNCHANGED <<currentId, running, registry, stream, muxDone, given,
                       wraps, open>>
    BY <1>3 DEF DropsAnswer
  <2>2. wire' \in [End -> Seq(Message)]
    BY <2>1
  <2>. QED BY <1>1, <2>1, <2>2
\* The responder's actions change its own registry and the wires.
<1>4. ASSUME NEW f \in Message, NEW ms \in Seq(Message),
             NEW x \in Streams \cup {Nobody},
             \/ UNCHANGED registry
             \/ registry' = [registry EXCEPT ![Responder][f.id] = x],
             \/ wire[Responder] # <<>> /\ TakeAndSend(Responder, ms)
             \/ Send(Responder, ms),
             UNCHANGED <<currentId, running, stream, muxDone, given, wraps, open>>
      PROVE  BasicInv'
  <2>1. f.id \in Ids
    BY DEF Message
  <2>2. /\ registry' \in [End -> [Ids -> Streams \cup {Nobody}]]
        /\ registry'[Requester] = registry[Requester]
    BY <1>4, <2>1, SMTT(60)
  <2>3. wire' \in [End -> Seq(Message)]
    BY <1>4, SendTyped
  <2>4. ~open[Requester] => Sent(Responder, ms) = <<>>
    BY DEF Sent, Peer
  <2>5. wire'[Requester] = wire[Requester] \o Sent(Responder, ms)
    BY <1>4 DEF TakeAndSend, Send, Peer
  <2>6. ~open[Requester] => wire'[Requester] = <<>>
    BY <2>4, <2>5
  <2>. QED BY <1>1, <1>4, <2>2, <2>3, <2>6
<1>5. ASSUME HandlesRequest
      PROVE  BasicInv'
  <2>. DEFINE f == Head(wire[Responder])
  <2>1. wire[Responder] # <<>> /\ f \in Message
    BY <1>5 DEF HandlesRequest
  <2>2. f.stream \in Streams \cup {Nobody} /\ f.id \in Ids /\ f.stream \in Streams
    BY <2>1 DEF Message
  <2>3. PICK served \in BOOLEAN :
          LET free == registry[Responder][f.id] = Nobody
          IN  /\ registry' =
                   IF free /\ served /\ (f.stream \in Calls \/ f.follows)
                   THEN [registry EXCEPT ![Responder][f.id] = f.stream]
                   ELSE registry
              /\ TakeAndSend(Responder,
                    If(free /\ ~served /\ f.stream \in Calls,
                       Msg("ANSWER", f.id, f.stream, FALSE)))
    BY <1>5 DEF HandlesRequest
  <2>. DEFINE ms == If(registry[Responder][f.id] = Nobody /\ ~served
                         /\ f.stream \in Calls,
                       Msg("ANSWER", f.id, f.stream, FALSE))
  <2>4. ms \in Seq(Message) /\ TakeAndSend(Responder, ms)
    <3>1. Msg("ANSWER", f.id, f.stream, FALSE) \in Message
      BY <2>2, MsgTyped
    <3>. QED BY <2>3, <3>1, ShortSeqs DEF If
  <2>5. \/ UNCHANGED registry
        \/ registry' = [registry EXCEPT ![Responder][f.id] = f.stream]
    BY <2>3
  <2>6. UNCHANGED <<currentId, running, stream, muxDone, given, wraps, open>>
    BY <1>5 DEF HandlesRequest
  <2>. HIDE DEF f, ms
  <2>. QED BY <1>4, <2>1, <2>2, <2>4, <2>5, <2>6
<1>6. ASSUME HandlesEnd
      PROVE  BasicInv'
  <2>. DEFINE f == Head(wire[Responder])
  <2>1. /\ wire[Responder] # <<>> /\ f \in Message /\ <<>> \in Seq(Message)
        /\ registry' = [registry EXCEPT ![Responder][f.id] = Nobody]
        /\ TakeAndSend(Responder, <<>>)
        /\ UNCHANGED <<currentId, running, stream, muxDone, given, wraps, open>>
    BY <1>6 DEF HandlesEnd
  <2>. HIDE DEF f
  <2>. QED BY <1>4, <2>1
<1>7. ASSUME NEW i \in Ids, Answers(i)
      PROVE  BasicInv'
  <2>. DEFINE s == registry[Responder][i]
              m == Msg("ANSWER", i, s, FALSE)
  <2>1. /\ s \in Streams
        /\ registry' = [registry EXCEPT ![Responder][i] = Nobody]
        /\ Send(Responder, <<m>>)
        /\ UNCHANGED <<currentId, running, stream, muxDone, given, wraps, open>>
    BY <1>7 DEF Answers, Streams
  <2>2. m \in Message /\ <<m>> \in Seq(Message) /\ m.id = i
    BY <2>1, MsgTyped, ShortSeqs DEF Msg
  <2>. HIDE DEF m, s
  <2>. QED BY <1>4, <2>1, <2>2
<1>. QED BY <1>2, <1>3, <1>5, <1>6, <1>7 DEF Receives

LEMMA CloseBasics ==
    ASSUME BasicInv
    PROVE  /\ UNCHANGED leaseVars /\ ResponderLeaves => BasicInv'
           /\ UNCHANGED leaseVars /\ Closes => BasicInv'
           /\ UNCHANGED leaseVars /\ ClosesStream => BasicInv'
           /\ ConnectionCloseEnds => BasicInv'
<1>. /\ TypeOK /\ MuxTypeOK /\ StackInv /\ StatusInv /\ RegistryInv /\ QueueInv
     /\ running \in Seq(Step) /\ wire \in [End -> Seq(Message)]
     /\ open \in [End -> BOOLEAN]
     /\ registry \in [End -> [Ids -> Streams \cup {Nobody}]]
     /\ ~open[Requester] => wire[Requester] = <<>>
  BY DEF BasicInv, TypeOK, MuxTypeOK
<1>1. ASSUME NEW e \in End, Disconnect(e, FALSE)
      PROVE  /\ open' = [open EXCEPT ![e] = FALSE] /\ open[e]
             /\ wire' = [wire EXCEPT ![e] = <<>>]
             /\ wire' \in [End -> Seq(Message)] /\ open' \in [End -> BOOLEAN]
  <2>1. /\ open' = [open EXCEPT ![e] = FALSE] /\ open[e]
        /\ wire' = [wire EXCEPT ![e] = SubSeq(wire[e], 1, 0)]
    BY <1>1 DEF Disconnect
  <2>2. SubSeq(wire[e], 1, 0) = <<>> /\ <<>> \in Seq(Message)
    BY ShortSeqs
  <2>3. wire' = [wire EXCEPT ![e] = <<>>]
    BY <2>1, <2>2
  <2>. QED BY <2>1, <2>2, <2>3
<1>2. ASSUME UNCHANGED leaseVars, ResponderLeaves
      PROVE  BasicInv'
  <2>1. /\ open' = [open EXCEPT ![Responder] = FALSE]
        /\ wire' = [wire EXCEPT ![Responder] = <<>>]
        /\ wire' \in [End -> Seq(Message)] /\ open' \in [End -> BOOLEAN]
        /\ UNCHANGED <<currentId, running, registry, stream, muxDone, given, wraps>>
    BY <1>1, <1>2 DEF ResponderLeaves
  <2>2. MuxTypeOK' /\ StackInv' /\ UNCHANGED pendingRequests
    BY <1>2, <2>1, StackKept DEF MuxTypeOK, leaseVars
  <2>. QED BY <1>2, <2>1, <2>2, LeaseVarsTyped
           DEF BasicInv, StatusInv, HasId, RegistryInv, QueueInv
<1>3. ASSUME UNCHANGED leaseVars, Closes
      PROVE  BasicInv'
  <2>. DEFINE step == [call |-> "close", id |-> 0, left |-> Ids \ Free,
                       called |-> FALSE]
  <2>1. /\ open' = [open EXCEPT ![Requester] = FALSE]
        /\ wire' = [wire EXCEPT ![Requester] = <<>>]
        /\ wire' \in [End -> Seq(Message)] /\ open' \in [End -> BOOLEAN]
        /\ running = <<>> /\ running' = <<step>>
        /\ UNCHANGED <<currentId, registry, stream, muxDone, given, wraps>>
    BY <1>1, <1>3 DEF Closes
  <2>2. step \in Step /\ step.call = "close"
    BY DEF Step
  <2>. HIDE DEF step
  <2>3. MuxTypeOK' /\ StackInv' /\ UNCHANGED pendingRequests
    BY <1>3, <2>1, <2>2, StackKept, ShortSeqs DEF MuxTypeOK, leaseVars
  <2>. QED BY <1>3, <2>1, <2>3, LeaseVarsTyped
           DEF BasicInv, StatusInv, HasId, RegistryInv, QueueInv
<1>4. ASSUME UNCHANGED leaseVars, ClosesStream
      PROVE  BasicInv'
  <2>. DEFINE step == Head(running)
              id == Smallest(step.left)
              s == registry[Requester][id]
              told == s # Nobody /\ stream[s].status = "ready"
              next == [step EXCEPT !.left = step.left \ {id},
                                   !.called = step.called \/ told]
  <2>1. /\ running # <<>> /\ step.call = "close" /\ step.left # {}
        /\ stream' = IF told THEN Tell(s) ELSE stream
        /\ running' = <<next>> \o Tail(running)
        /\ UNCHANGED <<currentId, registry, muxDone, given, wraps, wire, open>>
    BY <1>4 DEF ClosesStream, In
  <2>2. step \in Step /\ step = running[1] /\ 1 \in 1 .. Len(running)
    BY <2>1
  <2>3. step.left \subseteq Ids /\ ~open[Requester]
    BY <2>1, <2>2 DEF Step, StackInv
  <2>4. id \in Ids
    <3>1. step.left \subseteq Nat
      BY <2>3, IdsArePositive
    <3>. QED BY <2>1, <2>3, <3>1, SmallestExists, Zenon
  <2>5. s \in Streams \cup {Nobody}
    BY <2>4
  <2>6. told \in BOOLEAN
    OBVIOUS
  <2>7. next \in Step /\ next.call = "close"
    BY <2>1, <2>2, <2>6 DEF Step
  <2>. HIDE DEF next
  <2>8. StackInv' /\ running' \in Seq(Step)
    <3>1. /\ running # <<>> /\ Head(running).call # "complete"
          /\ running' = <<next>> \o Tail(running) /\ UNCHANGED open
      BY <2>1
    <3>2. ~open'[Requester] /\ (open'[Requester] => open[Requester])
      BY <2>3, <3>1
    <3>. HIDE DEF step, id, s, told
    <3>3. StackInv'
      BY <2>7, <3>1, <3>2, StackKept, Zenon
    <3>4. running' \in Seq(Step)
      BY <2>7, <3>1
    <3>. QED BY <3>3, <3>4
  <2>9. UNCHANGED pendingRequests /\ RegistryInv'
    BY <1>4, <2>1, <2>3 DEF leaseVars, RegistryInv
  <2>10. /\ StatusInv' /\ QueueInv'
         /\ stream' \in [Streams -> StreamState]
    <3>1. CASE told
      <4>1. s \in Streams /\ stream' = Tell(s)
        BY <2>1, <2>5, <3>1
      <4>2. \A t \in Streams : t # s => stream'[t] = stream[t]
        BY <4>1, TellTyped
      <4>. QED BY <2>9, <3>1, <4>1, <4>2, TellKeepsStatus, QueueKept
    <3>2. CASE ~told
      BY <2>1, <2>9, <3>2, StreamTyped DEF StatusInv, HasId, QueueInv
    <3>. QED BY <3>1, <3>2
  <2>11. MuxTypeOK'
    BY <2>1, <2>8, <2>10 DEF MuxTypeOK, StreamState
  <2>. QED BY <1>4, <2>1, <2>8, <2>9, <2>10, <2>11, LeaseVarsTyped DEF BasicInv
<1>5. ASSUME ConnectionCloseEnds
      PROVE  BasicInv'
  <2>. DEFINE step == [call |-> "reject", id |-> 0, left |-> {},
                       called |-> FALSE]
  <2>1. /\ running # <<>> /\ Head(running).call = "close"
        /\ muxDone' = TRUE /\ running' = <<step>> \o Tail(running)
        /\ UNCHANGED <<currentId, registry, stream, given, wraps, wire, open>>
        /\ UNCHANGED leaseVars
    BY <1>5 DEF ConnectionCloseEnds, CloseEnds, In
  <2>2. step \in Step /\ step.call = "reject"
    BY DEF Step
  <2>. HIDE DEF step
  <2>3. StackInv' /\ running' \in Seq(Step)
    BY <2>1, <2>2, StackKept, SMTT(60)
  <2>4. MuxTypeOK' /\ UNCHANGED pendingRequests
    BY <2>1, <2>3 DEF MuxTypeOK, leaseVars
  <2>. QED BY <2>1, <2>3, <2>4, LeaseVarsTyped
           DEF BasicInv, StatusInv, HasId, RegistryInv, QueueInv
<1>. QED BY <1>2, <1>3, <1>4, <1>5

LEMMA InitBasics == Init => BasicInv
<1>. SUFFICES ASSUME Init PROVE BasicInv
  OBVIOUS
<1>. USE DEF Init, MuxInit
<1>1. TypeOK
  <2>1. stream \in [Streams -> StreamState]
    BY DEF StreamState, Status
  <2>2. /\ wire \in [End -> Seq(Message)] /\ open \in [End -> BOOLEAN]
        /\ registry \in [End -> [Ids -> Streams \cup {Nobody}]]
        /\ running \in Seq(Step) /\ given \in Seq(Streams)
        /\ currentId \in Ids \cup {-1} /\ muxDone \in BOOLEAN /\ wraps \in Nat
    <3>1. \A S : <<>> \in Seq(S)
      OBVIOUS
    <3>2. [i \in Ids |-> Nobody] \in [Ids -> Streams \cup {Nobody}]
      OBVIOUS
    <3>. QED BY <3>1, <3>2
  <2>3. MuxTypeOK
    BY <2>1, <2>2 DEF MuxTypeOK, StreamState
  <2>4. /\ pendingRequests \in Seq(Streams) /\ asked \in Seq(Streams)
        /\ Len(pendingRequests) <= MaxPending /\ 0 \in 0 .. MaxLeases
    BY LeaseAssumption
  <2>. QED BY <2>3, <2>4 DEF TypeOK
<1>2. StatusInv
  BY DEF StatusInv, HasId, Count
<1>3. RegistryInv /\ StackInv /\ QueueInv
  BY MultiplexerAssumption DEF RegistryInv, StackInv, QueueInv
<1>. QED BY <1>1, <1>2, <1>3 DEF BasicInv

LEMMA NextBasics == BasicInv /\ [Next]_vars => BasicInv'
<1>. SUFFICES ASSUME BasicInv, [Next]_vars PROVE BasicInv'
  OBVIOUS
<1>1. CASE UNCHANGED vars
  <2>1. UNCHANGED muxVars /\ UNCHANGED leaseVars
    BY <1>1 DEF vars
  <2>2. UNCHANGED <<currentId, running, registry, stream, muxDone, given, wraps,
                    wire, open, pendingRequests>>
    BY <2>1 DEF muxVars, leaseVars
  <2>3. MuxTypeOK' /\ TypeOK'
    <3>1. MuxTypeOK'
      BY <2>2 DEF BasicInv, TypeOK, MuxTypeOK
    <3>. QED BY <2>1, <3>1, LeaseVarsTyped DEF BasicInv
  <2>4. StackInv' /\ StatusInv'
    BY <2>2 DEF BasicInv, StackInv, StatusInv, HasId
  <2>5. RegistryInv' /\ QueueInv'
    BY <2>2 DEF BasicInv, RegistryInv, QueueInv
  <2>. QED BY <2>2, <2>3, <2>4, <2>5 DEF BasicInv
<1>2. CASE \E s \in Streams : RequestLease(s) \/ CancelRequest(s)
  BY <1>2, RequestLeaseBasics, CancelRequestBasics
<1>3. CASE \E n \in Grants : HandlesLease(n)
  BY <1>3, LeaseStepsBasics
<1>4. CASE GrantsNext \/ RejectsNext \/ Expires
  BY <1>4, LeaseStepsBasics
<1>5. CASE Unleased /\ UNCHANGED leaseVars
  BY <1>5, CallerBasics, ReceiveBasics, CloseBasics DEF Unleased
<1>6. CASE ConnectionCloseEnds
  BY <1>6, CloseBasics
<1>. QED BY <1>1, <1>2, <1>3, <1>4, <1>5, <1>6 DEF Next

LEMMA BasicsHold == Spec => []BasicInv
BY InitBasics, NextBasics, PTL DEF Spec

(***************************************************************************)
(* The variables of the multiplexer and of the lease handler have their    *)
(* types: the queue keeps to maxPendingRequests, and a request that gets   *)
(* an id gets one of the client's.                                         *)
(***************************************************************************)
THEOREM TypeCorrect == Spec => []TypeOK
<1>1. BasicInv => TypeOK
  BY DEF BasicInv
<1>. QED BY <1>1, BasicsHold, PTL

(***************************************************************************)
(* Every receiver is told of the end of its request once at most, and not  *)
(* after a cancel, whatever the application does in its callbacks.         *)
(***************************************************************************)
THEOREM ToldOnce ==
    Spec => [](\A s \in Streams : stream[s].told + Count(stream[s].quit) <= 1)
<1>1. BasicInv => \A s \in Streams : stream[s].told + Count(stream[s].quit) <= 1
  BY DEF BasicInv, StatusInv
<1>. QED BY <1>1, BasicsHold, PTL

-----------------------------------------------------------------------------
(* Leases.                                                                 *)

\* A request that is passed on is given an id, or is not.
LEMMA CreateGives ==
    ASSUME TypeOK, NEW s \in Streams, CreateRequestStream(s)
    PROVE  /\ given' = given \/ given' = Append(given, s)
           /\ Len(given) <= Len(given') /\ Len(given') <= Len(given) + 1
           /\ given' # given => ~muxDone /\ Free # {}
<1>1. given' = given \/ given' = Append(given, s)
  BY DEF CreateRequestStream
<1>2. given \in Seq(Streams)
  BY DEF TypeOK, MuxTypeOK
<1>3. given' # given => ~muxDone /\ Free # {}
  BY DEF CreateRequestStream
<1>. QED BY <1>1, <1>2, <1>3

LEMMA UnleasedGives == Unleased => UNCHANGED given
BY DEF Unleased, Cancels, CompleteReturns, Receives, HandlesAnswer, DropsAnswer,
       HandlesRequest, HandlesEnd, Answers, ResponderLeaves, Closes,
       ClosesStream

LEMMA InitGrants == Init => GrantInv
BY DEF Init, MuxInit, GrantInv

LEMMA NextGrants ==
    ASSUME BasicInv, GrantInv, [Next]_vars
    PROVE  GrantInv'
<1>. /\ TypeOK /\ availableLease \in Nat /\ before \in Nat /\ lease \in Nat
     /\ given \in Seq(Streams) /\ Len(given) \in Nat
  BY DEF BasicInv, TypeOK, MuxTypeOK
<1>1. ASSUME NEW s \in Streams, PassOn(s), availableLease > 0,
             UNCHANGED <<lease, before>>
      PROVE  GrantInv'
  <2>1. /\ availableLease' = availableLease - 1
        /\ Len(given) <= Len(given') /\ Len(given') <= Len(given) + 1
        /\ Len(given') \in Nat
    BY <1>1, CreateGives DEF PassOn
  <2>. QED BY <1>1, <2>1 DEF GrantInv
<1>2. ASSUME UNCHANGED <<given, before, availableLease, lease>>
      PROVE  GrantInv'
  BY <1>2 DEF GrantInv
<1>3. CASE \E s \in Streams : RequestLease(s) \/ CancelRequest(s)
  <2>. PICK s \in Streams : RequestLease(s) \/ CancelRequest(s)
    BY <1>3
  <2>1. CASE RequestLease(s) /\ availableLease > 0 /\ fresh
    BY <1>1, <2>1 DEF RequestLease
  <2>2. CASE CancelRequest(s) \/ ~(availableLease > 0 /\ fresh)
    BY <1>2, <2>2 DEF RequestLease, CancelRequest, Wait
  <2>. QED BY <2>1, <2>2
<1>4. CASE \E n \in Grants : HandlesLease(n)
  <2>1. PICK n \in Grants : HandlesLease(n)
    BY <1>4
  <2>2. /\ availableLease' = n /\ lease' = n /\ n \in Nat
        /\ before' = Len(given) /\ UNCHANGED given
    BY <2>1, LeaseAssumption DEF HandlesLease
  <2>. QED BY <2>2 DEF GrantInv
<1>5. CASE GrantsNext
  <2>1. CASE availableLease > 0 /\ pendingRequests # <<>>
    BY <1>1, <1>5, <2>1, HeadTyped DEF GrantsNext
  <2>2. CASE ~(availableLease > 0 /\ pendingRequests # <<>>)
    BY <1>2, <1>5, <2>2 DEF GrantsNext
  <2>. QED BY <2>1, <2>2
<1>6. CASE Unleased /\ UNCHANGED leaseVars
  BY <1>2, <1>6, UnleasedGives DEF leaseVars
<1>7. CASE RejectsNext \/ Expires \/ ConnectionCloseEnds \/ UNCHANGED vars
  BY <1>2, <1>7 DEF RejectsNext, Expires, ConnectionCloseEnds, CloseEnds, vars,
                    muxVars, leaseVars
<1>. QED BY <1>3, <1>4, <1>5, <1>6, <1>7 DEF Next

LEMMA GrantsHold == Spec => []GrantInv
<1>1. BasicInv /\ GrantInv /\ [Next]_vars => GrantInv'
  BY NextGrants
<1>. QED BY <1>1, InitGrants, BasicsHold, PTL DEF Spec

(***************************************************************************)
(* A request gets an id only while the latest lease is fresh or in the     *)
(* loop that its frame runs, and never more of them than it allows: what   *)
(* was given since the frame came and what is left of it never exceed it.  *)
(***************************************************************************)
THEOREM LeaseIsRespected == Spec => LeaseRespected
<1>1. ASSUME BasicInv, GrantInv', [Next]_vars, given' # given
      PROVE  fresh \/ In("grant")
  <2>1. (\E s \in Streams : RequestLease(s)) \/ GrantsNext
    BY <1>1, UnleasedGives
       DEF Next, CancelRequest, HandlesLease, GrantsNext, RejectsNext, Expires,
           ConnectionCloseEnds, CloseEnds, vars, muxVars, leaseVars
  <2>. QED BY <1>1, <2>1 DEF RequestLease, Wait, GrantsNext
<1>2. ASSUME BasicInv', GrantInv'
      PROVE  Len(given') - before' <= lease'
  <2>1. /\ availableLease' \in Nat /\ before' \in Nat /\ lease' \in Nat
        /\ Len(given') \in Nat
    BY <1>2 DEF BasicInv, TypeOK, MuxTypeOK
  <2>. QED BY <1>2, <2>1 DEF GrantInv
<1>3. BasicInv /\ BasicInv' /\ GrantInv' /\ [Next]_vars
      => [given' # given => /\ Len(given') - before' <= lease'
                            /\ fresh \/ In("grant")]_vars
  BY <1>1, <1>2
<1>. QED BY <1>3, BasicsHold, GrantsHold, PTL DEF Spec, LeaseRespected

\* What a step does to the loop of a LEASE frame: nothing else ends it.
LEMMA GrantGoesOn ==
    ASSUME BasicInv, [Next]_vars, Under("grant"), ~Under("grant")'
    PROVE  In("grant") /\ ~(availableLease > 0 /\ pendingRequests # <<>>)
           /\ UNCHANGED <<availableLease, pendingRequests>>
<1>. /\ TypeOK /\ MuxTypeOK /\ StackInv /\ running \in Seq(Step)
  BY DEF BasicInv, TypeOK, MuxTypeOK
<1>0. PICK k \in 1 .. Len(running) : running[k].call = "grant"
  BY DEF Under
<1>1. running # <<>> /\ Head(running) = running[1] /\ 1 \in 1 .. Len(running)
  BY <1>0
<1>2. ~UNCHANGED running
  BY DEF Under
<1>3. ASSUME NEW step \in Step, running' = <<step>> \o running
      PROVE  FALSE
  <2>1. running'[k + 1] = running[k] /\ k + 1 \in 1 .. Len(running')
    BY <1>3
  <2>. QED BY <1>0, <2>1 DEF Under
<1>4. ASSUME NEW s \in Streams, PassOn(s)
      PROVE  FALSE
  <2>1. running' = <<[call |-> "complete", id |-> NextId, left |-> {},
                      called |-> TRUE]>> \o running
        /\ ~muxDone /\ Free # {}
    BY <1>2, <1>4 DEF PassOn, CreateRequestStream, StartCall, StartFireAndForget
  <2>2. [call |-> "complete", id |-> NextId, left |-> {}, called |-> TRUE] \in Step
    BY <2>1, NextIdIsFree DEF Step
  <2>. QED BY <1>3, <2>1, <2>2
<1>5. Head(running).call \in {"close", "reject", "grant"} => Head(running).call = "grant"
  <2>1. Head(running).call # "complete" => Len(running) = 1
    BY <1>1 DEF StackInv
  <2>. QED BY <1>0, <1>1, <2>1
<1>6. ASSUME Head(running).call = "complete", running' = Tail(running)
      PROVE  FALSE
  <2>1. k # 1
    BY <1>0, <1>1, <1>6
  <2>2. running'[k - 1] = running[k] /\ k - 1 \in 1 .. Len(running')
    BY <1>0, <1>1, <1>6, <2>1
  <2>. QED BY <1>0, <2>2 DEF Under
<1>7. ~(\E s \in Streams : RequestLease(s) \/ CancelRequest(s))
  BY <1>2, <1>4 DEF RequestLease, CancelRequest, Wait
<1>8. ~(\E n \in Grants : HandlesLease(n)) /\ ~Expires
  BY <1>1, <1>2 DEF HandlesLease, Expires, muxVars
<1>9. ~RejectsNext /\ ~ConnectionCloseEnds
  BY <1>5 DEF RejectsNext, ConnectionCloseEnds, CloseEnds, In
<1>10. ~Unleased
  <2>1. ~CompleteReturns
    BY <1>6 DEF CompleteReturns, In
  <2>2. ~Closes /\ ~ClosesStream
    BY <1>1, <1>5 DEF Closes, ClosesStream, In
  <2>. QED BY <1>2, <2>1, <2>2
           DEF Unleased, Cancels, Receives, HandlesAnswer, DropsAnswer,
               HandlesRequest, HandlesEnd, Answers, ResponderLeaves
<1>11. GrantsNext
  BY <1>2, <1>7, <1>8, <1>9, <1>10 DEF Next, vars, muxVars
<1>. QED BY <1>4, <1>11, HeadTyped DEF GrantsNext

LEMMA NextWaits ==
    ASSUME BasicInv, WaitInv, [Next]_vars
    PROVE  WaitInv'
<1>. /\ TypeOK /\ availableLease \in Nat
  BY DEF BasicInv, TypeOK
<1>1. CASE Under("grant")
  <2>1. CASE Under("grant")'
    BY <2>1 DEF WaitInv
  <2>2. CASE ~Under("grant")'
    BY <1>1, <2>2, GrantGoesOn DEF WaitInv
  <2>. QED BY <2>1, <2>2
<1>2. CASE ~Under("grant")
  <2>1. CASE \E s \in Streams : RequestLease(s)
    <3>. PICK s \in Streams : RequestLease(s)
      BY <2>1
    <3>1. CASE availableLease > 0 /\ fresh
      BY <1>2, <3>1 DEF RequestLease, WaitInv
    <3>2. CASE ~(availableLease > 0 /\ fresh)
      BY <3>2 DEF RequestLease, Wait, WaitInv
    <3>. QED BY <3>1, <3>2
  <2>2. CASE \E s \in Streams : CancelRequest(s)
    BY <1>2, <2>2 DEF CancelRequest, WaitInv
  <2>3. CASE \E n \in Grants : HandlesLease(n)
    BY <2>3 DEF HandlesLease, WaitInv, Under
  <2>4. CASE GrantsNext
    BY <1>2, <2>4 DEF GrantsNext, In, Under
  <2>5. CASE RejectsNext
    BY <1>2, <2>5 DEF RejectsNext, WaitInv
  <2>6. CASE Expires
    BY <2>6 DEF Expires, WaitInv
  <2>7. CASE UNCHANGED leaseVars
    BY <1>2, <2>7 DEF leaseVars, WaitInv
  <2>. QED BY <2>1, <2>2, <2>3, <2>4, <2>5, <2>6, <2>7
           DEF Next, vars, ConnectionCloseEnds
<1>. QED BY <1>1, <1>2

LEMMA WaitsHold == Spec => []WaitInv
<1>1. Init => WaitInv
  BY DEF Init, WaitInv
<1>2. BasicInv /\ WaitInv /\ [Next]_vars => WaitInv'
  BY NextWaits
<1>. QED BY <1>1, <1>2, BasicsHold, PTL DEF Spec

(***************************************************************************)
(* Nobody waits for a lease that is there: not even after requests were    *)
(* made, cancelled or refused in the callbacks of the frame's own loop.    *)
(***************************************************************************)
THEOREM NobodyWaits == Spec => []NobodyWaitsInVain
<1>1. WaitInv => NobodyWaitsInVain
  BY DEF WaitInv, NobodyWaitsInVain, Under
<1>. QED BY <1>1, WaitsHold, PTL

-----------------------------------------------------------------------------
(* The order of requests.  A receiver that makes requests while the loop   *)
(* of a LEASE frame has completed it would get ahead of the queue.         *)

NoCallbackInLoop == "complete" \notin Reentrant

\* The application does not run in the middle of the loop of a LEASE frame.
LEMMA NoCallsInLoop ==
    ASSUME BasicInv, NoCallbackInLoop, MayCall
    PROVE  ~Under("grant")
<1>. StackInv /\ running \in Seq(Step)
  BY DEF BasicInv, TypeOK, MuxTypeOK
<1>1. CASE running = <<>>
  BY <1>1 DEF Under
<1>2. CASE running # <<>>
  <2>1. 1 \in 1 .. Len(running) /\ Head(running) = running[1]
    BY <1>2
  <2>2. Head(running).call \in Reentrant
    BY <1>2, Zenon DEF MayCall
  <2>3. running[1].call # "complete" /\ running[1].call # "grant"
    BY <2>1, <2>2, MultiplexerAssumption DEF NoCallbackInLoop
  <2>4. Len(running) = 1
    BY <2>1, <2>3 DEF StackInv
  <2>. QED BY <2>3, <2>4 DEF Under
<1>. QED BY <1>1, <1>2

\* One more request is asked for: those asked before keep their order.
LEMMA AskedGrows ==
    ASSUME NEW q \in Seq(Streams), NEW s \in Streams
    PROVE  LET r == Append(q, s)
           IN  /\ Within(r, s)
               /\ \A t \in Streams : Within(q, t) => Within(r, t) /\ Before(r, t, s)
               /\ \A t, u \in Streams : Before(q, t, u) => Before(r, t, u)
<1>. DEFINE r == Append(q, s)
<1>1. /\ Len(r) = Len(q) + 1 /\ r[Len(q) + 1] = s
      /\ \A k \in 1 .. Len(q) : r[k] = q[k]
  OBVIOUS
<1>2. /\ Len(q) + 1 \in 1 .. Len(r)
      /\ \A k \in 1 .. Len(q) : k \in 1 .. Len(r) /\ k < Len(q) + 1
  BY <1>1
<1>. HIDE DEF r
<1>. QED BY <1>1, <1>2 DEF Within, Before, r

\* Requests leave the queue and are given an id or not, and nothing overtakes.
LEMMA NextOrder ==
    ASSUME BasicInv, WaitInv, OrderInv, NoCallbackInLoop, [Next]_vars
    PROVE  OrderInv'
<1>. DEFINE P == pendingRequests
<1>. /\ TypeOK /\ P \in Seq(Streams) /\ given \in Seq(Streams)
     /\ asked \in Seq(Streams)
     /\ \A p \in 1 .. Len(P) : P[p] \in Streams
     /\ \A i \in 1 .. Len(given) : given[i] \in Streams
  BY DEF BasicInv, TypeOK, MuxTypeOK
\* An unchanged queue.
<1>1. ASSUME UNCHANGED <<asked, given, pendingRequests>>
      PROVE  OrderInv'
  BY <1>1 DEF OrderInv
\* A request leaves the queue, the first perhaps with an id.
<1>2. ASSUME UNCHANGED asked, UNCHANGED given,
             Len(P') = Len(P) - 1,
             NEW k \in 1 .. Len(P),
             \A p \in 1 .. Len(P') : P'[p] = P[IF p < k THEN p ELSE p + 1]
      PROVE  OrderInv'
  <2>1. \A p \in 1 .. Len(P') : (IF p < k THEN p ELSE p + 1) \in 1 .. Len(P)
    BY <1>2
  <2>2. \A p, q \in 1 .. Len(P') : p < q =>
           (IF p < k THEN p ELSE p + 1) < (IF q < k THEN q ELSE q + 1)
    BY <1>2
  <2>. QED BY <1>2, <2>1, <2>2 DEF OrderInv
<1>3. ASSUME UNCHANGED asked, P # <<>>, P' = Tail(P),
             given' = given \/ given' = Append(given, Head(P))
      PROVE  OrderInv'
  <2>1. /\ Len(P') = Len(P) - 1 /\ 1 \in 1 .. Len(P) /\ Head(P) = P[1]
        /\ \A p \in 1 .. Len(P') : P'[p] = P[p + 1] /\ p + 1 \in 1 .. Len(P)
                                   /\ 1 < p + 1
    BY <1>3
  <2>2. CASE given' = given
    BY <1>3, <2>1, <2>2 DEF OrderInv
  <2>3. CASE given' = Append(given, Head(P))
    <3>1. /\ Len(given') = Len(given) + 1 /\ given'[Len(given) + 1] = P[1]
          /\ \A i \in 1 .. Len(given) : given'[i] = given[i]
          /\ \A i \in 1 .. Len(given') : i \in 1 .. Len(given)
                                         \/ i = Len(given) + 1
      BY <2>1, <2>3
    <3>2. \A i, j \in 1 .. Len(given') : i < j => i \in 1 .. Len(given)
      BY <3>1
    <3>3. \A i \in 1 .. Len(given') : Within(asked, given'[i])
      BY <2>1, <3>1 DEF OrderInv
    <3>4. \A i, j \in 1 .. Len(given') :
             i < j => Before(asked, given'[i], given'[j])
      BY <2>1, <3>1, <3>2 DEF OrderInv
    <3>5. \A i \in 1 .. Len(given'), p \in 1 .. Len(P') :
             Before(asked, given'[i], P'[p])
      BY <2>1, <3>1 DEF OrderInv
    <3>6. /\ \A p \in 1 .. Len(P') : Within(asked, P'[p])
          /\ \A p, q \in 1 .. Len(P') : p < q => Before(asked, P'[p], P'[q])
      <4>1. \A p, q \in 1 .. Len(P') : p < q => p + 1 < q + 1
        BY <2>1
      <4>. QED BY <2>1, <4>1 DEF OrderInv
    <3>. QED BY <1>3, <3>3, <3>4, <3>5, <3>6 DEF OrderInv
  <2>. QED BY <1>3, <2>2, <2>3
\* A new request: nobody waits if it is given an id at once.
<1>4. ASSUME NEW s \in Streams, asked' = Append(asked, s),
             \/ given' = given /\ P' = P
             \/ given' = Append(given, s) /\ P = <<>> /\ P' = P
             \/ given' = given /\ P' = Append(P, s)
      PROVE  OrderInv'
  <2>1. /\ Within(asked', s)
        /\ \A t \in Streams : Within(asked, t)
                               => Within(asked', t) /\ Before(asked', t, s)
        /\ \A t, u \in Streams : Before(asked, t, u) => Before(asked', t, u)
    BY <1>4, AskedGrows
  <2>2. CASE given' = given /\ P' = P
    BY <2>1, <2>2 DEF OrderInv
  <2>3. CASE given' = Append(given, s) /\ P = <<>> /\ P' = P
    <3>1. /\ given'[Len(given) + 1] = s
          /\ \A i \in 1 .. Len(given) : given'[i] = given[i]
          /\ \A i \in 1 .. Len(given') : i \in 1 .. Len(given)
                                         \/ i = Len(given) + 1
          /\ \A i, j \in 1 .. Len(given') : i < j => i \in 1 .. Len(given)
          /\ Len(P') = 0
      BY <2>3
    <3>. QED BY <2>1, <3>1, SMTT(60) DEF OrderInv
  <2>4. CASE given' = given /\ P' = Append(P, s)
    <3>1. /\ P'[Len(P) + 1] = s
          /\ \A p \in 1 .. Len(P) : P'[p] = P[p]
          /\ \A p \in 1 .. Len(P') : p \in 1 .. Len(P) \/ p = Len(P) + 1
          /\ \A p, q \in 1 .. Len(P') : p < q => p \in 1 .. Len(P)
      BY <2>4
    <3>. QED BY <2>1, <2>4, <3>1 DEF OrderInv
  <2>. QED BY <1>4, <2>2, <2>3, <2>4
<1>5. CASE \E s \in Streams : RequestLease(s)
  <2>. PICK s \in Streams : RequestLease(s)
    BY <1>5
  <2>1. asked' = Append(asked, s) /\ ~Under("grant")
    BY NoCallsInLoop DEF RequestLease, Wait
  <2>2. CASE availableLease > 0 /\ fresh
    <3>1. availableLease # 0
      BY <2>2
    <3>2. P = <<>>
      BY <2>1, <2>2, <3>1 DEF WaitInv
    <3>3. P' = P /\ CreateRequestStream(s)
      BY <2>2 DEF RequestLease, PassOn
    <3>. QED BY <1>4, <2>1, <3>2, <3>3, CreateGives
  <2>3. CASE ~(availableLease > 0 /\ fresh)
    BY <1>4, <2>1, <2>3 DEF RequestLease, Wait
  <2>. QED BY <2>2, <2>3
<1>6. CASE \E s \in Streams : CancelRequest(s)
  <2>1. PICK k \in 1 .. Len(P) :
           P' = SubSeq(P, 1, k - 1) \o SubSeq(P, k + 1, Len(P))
    BY <1>6 DEF CancelRequest
  <2>2. UNCHANGED asked /\ UNCHANGED given
    BY <1>6 DEF CancelRequest
  <2>. HIDE DEF P
  <2>3. /\ Len(P') = Len(P) - 1
        /\ \A p \in 1 .. Len(P') : P'[p] = P[IF p < k THEN p ELSE p + 1]
    BY <2>1, RemovedAt
  <2>. QED BY <1>2, <2>2, <2>3
<1>7. CASE GrantsNext
  <2>1. CASE availableLease > 0 /\ P # <<>>
    <3>1. /\ P' = Tail(P) /\ CreateRequestStream(Head(P)) /\ UNCHANGED asked
          /\ Head(P) \in Streams
      BY <1>7, <2>1, HeadTyped DEF GrantsNext, PassOn
    <3>. QED BY <1>3, <2>1, <3>1, CreateGives
  <2>2. CASE ~(availableLease > 0 /\ P # <<>>)
    BY <1>1, <1>7, <2>2 DEF GrantsNext
  <2>. QED BY <2>1, <2>2
<1>8. CASE RejectsNext
  <2>1. CASE P # <<>>
    BY <1>3, <1>8, <2>1 DEF RejectsNext
  <2>2. CASE P = <<>>
    BY <1>1, <1>8, <2>2 DEF RejectsNext
  <2>. QED BY <2>1, <2>2
<1>9. CASE Unleased /\ UNCHANGED leaseVars
  BY <1>1, <1>9, UnleasedGives DEF leaseVars
<1>10. CASE \/ \E n \in Grants : HandlesLease(n)
            \/ Expires \/ ConnectionCloseEnds \/ UNCHANGED vars
  BY <1>1, <1>10 DEF HandlesLease, Expires, ConnectionCloseEnds, CloseEnds,
                     vars, muxVars, leaseVars
<1>. QED BY <1>5, <1>6, <1>7, <1>8, <1>9, <1>10 DEF Next

(***************************************************************************)
(* Requests are passed on in the order in which they were made, whatever   *)
(* was cancelled, rejected or let through at once in between, as long as   *)
(* no receiver makes requests in the middle of the loop of a LEASE frame.  *)
(***************************************************************************)
THEOREM OrderKept == NoCallbackInLoop => (Spec => []InOrder)
<1>. SUFFICES ASSUME NoCallbackInLoop PROVE Spec => []InOrder
  OBVIOUS
<1>1. Init => OrderInv
  BY DEF Init, MuxInit, OrderInv
<1>2. BasicInv /\ WaitInv /\ OrderInv /\ [Next]_vars => OrderInv'
  BY NextOrder
<1>3. OrderInv => InOrder
  BY DEF OrderInv, Before, InOrder
<1>. QED BY <1>1, <1>2, <1>3, BasicsHold, WaitsHold, PTL DEF Spec

-----------------------------------------------------------------------------
(* The close of the connection.  The application of the code's tests makes *)
(* no request of a connection that has closed, and none in the callbacks   *)
(* of the streams that the multiplexer is closing.                         *)

NoLateRequests == "close" \notin Reentrant /\ ~LateRequests

\* As long as the connection is open no close is under way.
LEMMA OpenStack ==
    ASSUME BasicInv, CloseInv
    PROVE  /\ open[Requester] => ~muxDone /\ ~Under("close") /\ ~Under("reject")
           /\ NoLateRequests /\ MayCall /\ ~open[Requester] /\ running # <<>>
              => muxDone /\ In("reject") /\ Under("reject")
           /\ In("grant") => open[Requester]
           /\ In("complete") => open[Requester]
           /\ In("reject") => muxDone
<1>. /\ StackInv /\ running \in Seq(Step) /\ CloseSteps
  BY DEF BasicInv, TypeOK, MuxTypeOK, CloseInv
<1>1. open[Requester] => ~muxDone /\ ~Under("close") /\ ~Under("reject")
  BY DEF CloseSteps, StackInv, Under
<1>2. running # <<>> => Head(running) = running[1] /\ 1 \in 1 .. Len(running)
  OBVIOUS
<1>3. ASSUME NoLateRequests, MayCall, ~open[Requester], running # <<>>
      PROVE  muxDone /\ In("reject") /\ Under("reject")
  <2>1. Head(running).call \in Reentrant
    BY <1>3, Zenon DEF MayCall
  <2>2. Head(running).call # "close"
    BY <1>3, <2>1 DEF NoLateRequests
  <2>3. running[1].call = IF muxDone THEN "reject" ELSE "close"
    BY <1>3 DEF CloseSteps
  <2>. QED BY <1>2, <1>3, <2>2, <2>3 DEF In, Under
<1>4. In("grant") \/ In("complete") => open[Requester]
  BY <1>2 DEF In, CloseSteps
<1>5. In("reject") => muxDone
  BY <1>2 DEF In, CloseSteps, Under
<1>. QED BY <1>1, <1>3, <1>4, <1>5

\* A step that leaves the connection open closes nothing.
LEMMA OpenSteps ==
    ASSUME BasicInv', open'[Requester], ~muxDone',
           ~Under("reject")'
    PROVE  CloseSteps'
BY DEF CloseSteps

LEMMA CreateWhileOpen ==
    ASSUME BasicInv, CloseInv, BasicInv', open[Requester], NEW s \in Streams,
           stream[s].status \in {"idle", "waiting"}, CreateRequestStream(s)
    PROVE  CloseSteps' /\ ReadyHeld'
<1>. /\ TypeOK /\ MuxTypeOK /\ StackInv /\ running \in Seq(Step)
     /\ StackInv' /\ running' \in Seq(Step)
     /\ registry \in [End -> [Ids -> Streams \cup {Nobody}]]
     /\ stream \in [Streams -> StreamState]
  BY StreamTyped DEF BasicInv, TypeOK, MuxTypeOK
<1>1. /\ ~muxDone /\ ~Under("reject") /\ UNCHANGED <<open, muxDone>>
  BY OpenStack DEF CreateRequestStream
<1>2. ~Under("close")'
  BY <1>1 DEF StackInv, Under
<1>3. ~Under("reject")'
  <2>1. CASE UNCHANGED running
    BY <1>1, <2>1 DEF Under
  <2>2. CASE running' # running
    <3>. DEFINE step == [call |-> "complete", id |-> NextId, left |-> {},
                         called |-> TRUE]
    <3>1. running' = <<step>> \o running /\ Free # {}
      BY <2>2 DEF CreateRequestStream, StartCall, StartFireAndForget
    <3>2. step \in Step /\ step.call # "reject"
      BY <3>1, NextIdIsFree DEF Step
    <3>. HIDE DEF step
    <3>3. /\ Len(running') = Len(running) + 1 /\ running'[1] = step
          /\ \A k \in 2 .. Len(running') : running'[k] = running[k - 1]
      BY <3>1, <3>2
    <3>4. \A k \in 2 .. Len(running') : k - 1 \in 1 .. Len(running)
      BY <3>3
    <3>5. \A k \in 1 .. Len(running') : k = 1 \/ k \in 2 .. Len(running')
      BY <3>3
    <3>. QED BY <1>1, <3>2, <3>3, <3>4, <3>5 DEF Under
  <2>. QED BY <2>1, <2>2
<1>4. /\ \A t \in Streams : t # s => stream'[t] = stream[t]
      /\ stream'[s].status = "ready"
         => s \in Calls /\ Free # {} /\ stream'[s].id = NextId
  BY CreateEffect
<1>5. /\ \A i \in Ids : registry[Requester][i] # Nobody
                        => registry'[Requester][i] = registry[Requester][i]
      /\ s \in Calls /\ Free # {} => registry'[Requester][NextId] = s
  <2>1. CASE Free = {}
    BY <1>1, <2>1 DEF CreateRequestStream
  <2>2. CASE Free # {}
    <3>1. NextId \in Ids /\ registry[Requester][NextId] = Nobody
      BY <2>2, NextIdIsFree
    <3>2. \/ UNCHANGED registry /\ s \notin Calls
          \/ registry' = [registry EXCEPT ![Requester][NextId] = s]
      BY <1>1, <2>2 DEF CreateRequestStream, StartCall, StartFireAndForget
    <3>. QED BY <3>1, <3>2
  <2>. QED BY <2>1, <2>2
<1>6. ReadyHeld'
  <2>. SUFFICES ASSUME NEW t \in Streams, stream'[t].status = "ready"
                PROVE  registry'[Requester][stream'[t].id] = t
    BY <1>1, <1>2 DEF ReadyHeld
  <2>1. CASE t = s
    BY <1>4, <1>5, <2>1
  <2>2. CASE t # s
    <3>1. /\ stream[t].status = "ready" /\ stream[t].id # 0
          /\ registry[Requester][stream[t].id] = t /\ t # Nobody
      BY <1>4, <2>2, MultiplexerAssumption
         DEF CloseInv, ReadyHeld, BasicInv, StatusInv, HasId
    <3>2. stream[t].id \in Ids
      BY <3>1 DEF StreamState
    <3>. QED BY <1>4, <1>5, <2>2, <3>1, <3>2
  <2>. QED BY <2>1, <2>2
<1>. QED BY <1>1, <1>3, <1>6, OpenSteps

\* One request ends, with the registry as it was or without its entry.
LEMMA EndKeepsHeld ==
    ASSUME BasicInv, ReadyHeld, NEW s \in Streams, UNCHANGED muxDone,
           stream'[s].status # "ready",
           \A t \in Streams : t # s => stream'[t] = stream[t],
           \/ UNCHANGED registry
           \/ stream[s].status = "ready"
              /\ registry' = [registry EXCEPT ![Requester][stream[s].id] = Nobody],
           Under("close")' => Under("close") /\ \A i \in Ids :
              \/ i \in running[1].left => i \in running'[1].left
              \/ i = stream[s].id /\ stream[s].status = "ready"
              \/ registry[Requester][i] = Nobody
    PROVE  ReadyHeld'
<1>. /\ registry \in [End -> [Ids -> Streams \cup {Nobody}]]
     /\ stream \in [Streams -> StreamState]
  BY StreamTyped DEF BasicInv, TypeOK, MuxTypeOK
<1>. SUFFICES ASSUME NEW t \in Streams, stream'[t].status = "ready"
              PROVE  /\ ~muxDone /\ registry'[Requester][stream[t].id] = t
                     /\ Under("close")' => stream[t].id \in running'[1].left
                     /\ stream'[t] = stream[t]
  BY DEF ReadyHeld
<1>1. /\ stream'[t] = stream[t] /\ t # s /\ stream[t].status = "ready"
      /\ ~muxDone /\ registry[Requester][stream[t].id] = t
      /\ Under("close") => stream[t].id \in running[1].left
  BY DEF ReadyHeld
<1>2. stream[t].id \in Ids /\ t # Nobody
  BY <1>1, MultiplexerAssumption DEF BasicInv, StatusInv, HasId, StreamState
<1>3. stream[s].status = "ready" => stream[s].id # stream[t].id
  BY <1>1 DEF ReadyHeld
<1>4. registry'[Requester][stream[t].id] = t
  BY <1>1, <1>2, <1>3
<1>5. Under("close")' => stream[t].id \in running'[1].left
  BY <1>1, <1>2, <1>3
<1>. QED BY <1>1, <1>4, <1>5

\* And no other step begins or ends.
LEMMA EndOnlyKeepsHeld ==
    ASSUME BasicInv, ReadyHeld, NEW s \in Streams,
           UNCHANGED muxDone, UNCHANGED running,
           stream'[s].status # "ready",
           \A t \in Streams : t # s => stream'[t] = stream[t],
           \/ UNCHANGED registry
           \/ stream[s].status = "ready"
              /\ registry' = [registry EXCEPT ![Requester][stream[s].id] = Nobody]
    PROVE  ReadyHeld'
<1>1. Under("close")' => Under("close")
  BY DEF Under
<1>2. \A i \in Ids : i \in running[1].left => i \in running'[1].left
  OBVIOUS
<1>3. Under("close")' => Under("close") /\ \A i \in Ids :
              \/ i \in running[1].left => i \in running'[1].left
              \/ i = stream[s].id /\ stream[s].status = "ready"
              \/ registry[Requester][i] = Nobody
  BY <1>1, <1>2
<1>. QED BY <1>3, EndKeepsHeld

LEMMA QueueKeepsWaiters ==
    ASSUME BasicInv, WaitersQueued, NEW s \in Streams,
           \A t \in Streams : t # s => stream'[t] = stream[t],
           stream'[s].status # "waiting",
           \/ UNCHANGED pendingRequests
           \/ /\ pendingRequests # <<>> /\ s = Head(pendingRequests)
              /\ pendingRequests' = Tail(pendingRequests)
           \/ \E k \in 1 .. Len(pendingRequests) :
                 /\ pendingRequests[k] = s
                 /\ pendingRequests'
                      = SubSeq(pendingRequests, 1, k - 1)
                          \o SubSeq(pendingRequests, k + 1, Len(pendingRequests))
    PROVE  WaitersQueued'
<1>. DEFINE P == pendingRequests
<1>. P \in Seq(Streams)
  BY DEF BasicInv, TypeOK
<1>. SUFFICES ASSUME NEW t \in Streams, stream'[t].status = "waiting"
              PROVE  \E p \in 1 .. Len(P') : P'[p] = t
  BY DEF WaitersQueued
<1>1. t # s /\ stream[t].status = "waiting"
  OBVIOUS
<1>2. PICK p \in 1 .. Len(P) : P[p] = t
  BY <1>1 DEF WaitersQueued
<1>3. CASE UNCHANGED pendingRequests
  BY <1>2, <1>3
<1>4. CASE P # <<>> /\ s = Head(P) /\ P' = Tail(P)
  <2>1. p # 1
    BY <1>1, <1>2, <1>4
  <2>2. p - 1 \in 1 .. Len(P') /\ P'[p - 1] = P[p]
    BY <1>2, <1>4, <2>1
  <2>. QED BY <1>2, <2>2
<1>5. CASE \E k \in 1 .. Len(P) :
              P[k] = s /\ P' = SubSeq(P, 1, k - 1) \o SubSeq(P, k + 1, Len(P))
  <2>1. PICK k \in 1 .. Len(P) :
              P[k] = s /\ P' = SubSeq(P, 1, k - 1) \o SubSeq(P, k + 1, Len(P))
    BY <1>5
  <2>. HIDE DEF P
  <2>2. /\ Len(P') = Len(P) - 1
        /\ \A q \in 1 .. Len(P') : P'[q] = P[IF q < k THEN q ELSE q + 1]
    BY <2>1, RemovedAt
  <2>3. p # k
    BY <1>1, <1>2, <2>1
  <2>. DEFINE q == IF p < k THEN p ELSE p - 1
  <2>4. q \in 1 .. Len(P') /\ (IF q < k THEN q ELSE q + 1) = p
    BY <1>2, <2>2, <2>3
  <2>. HIDE DEF q
  <2>5. P'[q] = t
    BY <1>2, <2>2, <2>4
  <2>. QED BY <2>4, <2>5
<1>. QED BY <1>3, <1>4, <1>5

LEMMA RequestCloses ==
    ASSUME BasicInv, CloseInv, BasicInv', NoLateRequests,
           NEW s \in Streams, RequestLease(s)
    PROVE  CloseInv'
<1>. /\ TypeOK /\ MuxTypeOK /\ WaitersQueued /\ ReadyHeld /\ CloseSteps
     /\ stream[s].status = "idle" /\ MayCall
     /\ open[Requester] \/ running # <<>>
     /\ pendingRequests \in Seq(Streams)
  BY DEF BasicInv, TypeOK, CloseInv, RequestLease, NoLateRequests
\* What is left if the request waits or is refused.
<1>1. ASSUME UNCHANGED <<registry, muxDone, open, running>>,
             stream'[s].status # "ready",
             \A t \in Streams : t # s => stream'[t] = stream[t]
      PROVE  ReadyHeld' /\ CloseSteps'
  <2>1. UNCHANGED running /\ (Under("close")' => Under("close"))
        /\ (Under("reject") <=> Under("reject")')
        /\ (Under("close") <=> Under("close")')
    BY <1>1 DEF Under
  <2>2. ReadyHeld'
    BY <1>1, <2>1, EndOnlyKeepsHeld
  <2>3. CloseSteps'
    <3>1. muxDone => Under("reject")
      BY OpenStack DEF CloseSteps
    <3>. QED BY <1>1, <2>1, <3>1 DEF CloseSteps
  <2>. QED BY <2>2, <2>3
<1>2. CASE availableLease > 0 /\ fresh
  <2>1. CreateRequestStream(s) /\ UNCHANGED pendingRequests
    BY <1>2 DEF RequestLease, PassOn
  <2>2. /\ \A t \in Streams : t # s => stream'[t] = stream[t]
        /\ stream'[s].status # "waiting"
    BY <2>1, CreateEffect
  <2>3. WaitersQueued'
    BY <2>1, <2>2, QueueKeepsWaiters
  <2>4. CASE open[Requester]
    BY <2>1, <2>3, <2>4, CreateWhileOpen DEF CloseInv
  <2>5. CASE ~open[Requester]
    <3>1. muxDone
      BY <2>5, OpenStack
    <3>2. /\ UNCHANGED <<registry, muxDone, open, running>>
          /\ stream'[s].status # "ready"
      BY <2>1, <3>1, TellTyped DEF CreateRequestStream
    <3>. QED BY <1>1, <2>2, <2>3, <3>2 DEF CloseInv
  <2>. QED BY <2>4, <2>5
<1>3. CASE ~(availableLease > 0 /\ fresh) /\ Len(pendingRequests) >= MaxPending
  <2>1. /\ stream' = Tell(s)
        /\ UNCHANGED <<pendingRequests, running, registry, muxDone, open>>
    BY <1>3 DEF RequestLease
  <2>2. /\ \A t \in Streams : t # s => stream'[t] = stream[t]
        /\ stream'[s].status = "done"
    BY <2>1, TellTyped
  <2>. QED BY <1>1, <2>1, <2>2, QueueKeepsWaiters DEF CloseInv
<1>4. CASE ~(availableLease > 0 /\ fresh) /\ ~(Len(pendingRequests) >= MaxPending)
  <2>1. /\ stream' = [stream EXCEPT ![s].status = "waiting"]
        /\ pendingRequests' = Append(pendingRequests, s)
        /\ UNCHANGED <<running, registry, muxDone, open>>
    BY <1>4 DEF RequestLease, Wait
  <2>2. /\ \A t \in Streams : t # s => stream'[t] = stream[t]
        /\ stream'[s].status = "waiting"
    BY <2>1, StatusTyped, "waiting" \in Status DEF Status
  <2>3. WaitersQueued'
    <3>1. /\ Len(pendingRequests') = Len(pendingRequests) + 1
          /\ pendingRequests'[Len(pendingRequests) + 1] = s
          /\ Len(pendingRequests) + 1 \in 1 .. Len(pendingRequests')
          /\ \A p \in 1 .. Len(pendingRequests) :
                pendingRequests'[p] = pendingRequests[p]
                /\ p \in 1 .. Len(pendingRequests')
      BY <2>1
    <3>. QED BY <2>2, <3>1 DEF WaitersQueued
  <2>. QED BY <1>1, <2>1, <2>2, <2>3 DEF CloseInv
<1>. QED BY <1>2, <1>3, <1>4

LEMMA QuitCloses ==
    ASSUME BasicInv, CloseInv, BasicInv', NoLateRequests, NEW s \in Streams
    PROVE  /\ CancelRequest(s) => CloseInv'
           /\ Cancels(s) /\ UNCHANGED leaseVars => CloseInv'
<1>. /\ TypeOK /\ MuxTypeOK /\ WaitersQueued /\ ReadyHeld /\ CloseSteps
  BY DEF BasicInv, TypeOK, CloseInv
<1>1. ASSUME MayCall, UNCHANGED <<muxDone, open, running>>,
             stream' = [stream EXCEPT ![s].status = "done", ![s].quit = TRUE],
             \/ UNCHANGED registry
             \/ stream[s].status = "ready"
                /\ registry' = [registry EXCEPT ![Requester][stream[s].id] = Nobody],
             muxDone => Under("reject") \/ pendingRequests' = <<>>
      PROVE  /\ ReadyHeld' /\ CloseSteps' /\ stream'[s].status # "waiting"
             /\ \A t \in Streams : t # s => stream'[t] = stream[t]
  <2>1. /\ Under("reject") <=> Under("reject")'
        /\ Under("close") <=> Under("close")'
    BY <1>1 DEF Under
  <2>2. /\ stream'[s].status = "done"
        /\ \A t \in Streams : t # s => stream'[t] = stream[t]
    BY <1>1, QuitTyped
  <2>3. ReadyHeld'
    BY <1>1, <2>2, EndOnlyKeepsHeld
  <2>4. CloseSteps'
    BY <1>1, <2>1 DEF CloseSteps
  <2>. QED BY <2>2, <2>3, <2>4
<1>2. ASSUME CancelRequest(s)
      PROVE  CloseInv'
  <2>1. /\ MayCall /\ UNCHANGED <<registry, muxDone, open, running>>
        /\ stream' = [stream EXCEPT ![s].status = "done", ![s].quit = TRUE]
        /\ \E k \in 1 .. Len(pendingRequests) :
              /\ pendingRequests[k] = s
              /\ pendingRequests'
                   = SubSeq(pendingRequests, 1, k - 1)
                       \o SubSeq(pendingRequests, k + 1, Len(pendingRequests))
    BY <1>2 DEF CancelRequest
  <2>2. pendingRequests # <<>>
    BY <2>1
  <2>3. ReadyHeld' /\ CloseSteps' /\ stream'[s].status # "waiting"
        /\ \A t \in Streams : t # s => stream'[t] = stream[t]
    <3>1. muxDone => Under("reject")
      BY <2>2 DEF CloseSteps
    <3>. QED BY <1>1, <2>1, <3>1
  <2>4. WaitersQueued'
    BY <2>1, <2>3, QueueKeepsWaiters
  <2>. QED BY <2>3, <2>4 DEF CloseInv
<1>3. ASSUME Cancels(s), UNCHANGED leaseVars
      PROVE  CloseInv'
  <2>1. /\ MayCall /\ UNCHANGED <<muxDone, open, running, pendingRequests>>
        /\ stream[s].status = "ready"
        /\ stream' = [stream EXCEPT ![s].status = "done", ![s].quit = TRUE]
        /\ registry' = [registry EXCEPT ![Requester][stream[s].id] = Nobody]
    BY <1>3 DEF Cancels, leaseVars
  <2>2. muxDone => Under("reject") \/ pendingRequests' = <<>>
    BY <2>1 DEF CloseSteps
  <2>3. ReadyHeld' /\ CloseSteps' /\ stream'[s].status # "waiting"
        /\ \A t \in Streams : t # s => stream'[t] = stream[t]
    BY <1>1, <2>1, <2>2
  <2>4. WaitersQueued'
    BY <2>1, <2>3, QueueKeepsWaiters
  <2>. QED BY <2>3, <2>4 DEF CloseInv
<1>. QED BY <1>2, <1>3

LEMMA LeaseStepsClose ==
    ASSUME BasicInv, CloseInv, BasicInv'
    PROVE  /\ \A n \in Grants : HandlesLease(n) => CloseInv'
           /\ GrantsNext => CloseInv'
           /\ RejectsNext => CloseInv'
           /\ Expires => CloseInv'
<1>. /\ TypeOK /\ MuxTypeOK /\ WaitersQueued /\ ReadyHeld /\ CloseSteps
     /\ StackInv /\ running \in Seq(Step) /\ pendingRequests \in Seq(Streams)
  BY DEF BasicInv, TypeOK, MuxTypeOK, CloseInv
<1>. running # <<>> => Head(running) = running[1] /\ 1 \in 1 .. Len(running)
  OBVIOUS
<1>1. ASSUME NEW n \in Grants, HandlesLease(n)
      PROVE  CloseInv'
  <2>1. /\ open[Requester] /\ running = <<>> /\ Len(running') = 1
        /\ running'[1].call = "grant"
        /\ UNCHANGED <<pendingRequests, registry, stream, muxDone, open>>
    BY <1>1 DEF HandlesLease
  <2>2. ~muxDone /\ ~Under("reject")' /\ ~Under("close")'
    BY <2>1, OpenStack DEF Under
  <2>. QED BY <2>1, <2>2
           DEF CloseInv, CloseSteps, WaitersQueued, ReadyHeld
<1>2. ASSUME GrantsNext
      PROVE  CloseInv'
  <2>. DEFINE s == Head(pendingRequests)
  <2>0. open[Requester] /\ ~muxDone /\ ~Under("reject") /\ ~Under("close")
    BY <1>2, OpenStack DEF GrantsNext
  <2>1. CASE availableLease > 0 /\ pendingRequests # <<>>
    <3>1. CreateRequestStream(s) /\ pendingRequests' = Tail(pendingRequests)
          /\ s \in Streams /\ stream[s].status = "waiting"
      BY <1>2, <2>1, HeadTyped DEF GrantsNext, PassOn, BasicInv, QueueInv
    <3>2. CloseSteps' /\ ReadyHeld'
      BY <2>0, <3>1, CreateWhileOpen
    <3>3. /\ stream'[s].status # "waiting"
          /\ \A t \in Streams : t # s => stream'[t] = stream[t]
      BY <3>1, CreateEffect
    <3>4. WaitersQueued'
      BY <2>1, <3>1, <3>3, QueueKeepsWaiters
    <3>. QED BY <3>2, <3>4 DEF CloseInv
  <2>2. CASE ~(availableLease > 0 /\ pendingRequests # <<>>)
    <3>1. /\ running # <<>> /\ running' = Tail(running)
          /\ UNCHANGED <<pendingRequests, registry, stream, muxDone, open>>
      BY <1>2, <2>2 DEF GrantsNext, In
    <3>2. \A k \in 1 .. Len(running') : running'[k] = running[k + 1]
                                        /\ k + 1 \in 1 .. Len(running)
      BY <3>1
    <3>3. ~Under("reject")' /\ ~Under("close")'
      BY <2>0, <3>2 DEF Under
    <3>. QED BY <2>0, <3>1, <3>3
             DEF CloseInv, CloseSteps, WaitersQueued, ReadyHeld
  <2>. QED BY <2>1, <2>2
<1>3. ASSUME RejectsNext
      PROVE  CloseInv'
  <2>. DEFINE s == Head(pendingRequests)
  <2>0. /\ running # <<>> /\ running[1].call = "reject" /\ muxDone
        /\ ~open[Requester] /\ Len(running) = 1
        /\ UNCHANGED <<registry, muxDone, open>>
    BY <1>3, OpenStack DEF RejectsNext, In, CloseSteps
  <2>1. CASE pendingRequests # <<>>
    <3>. DEFINE step == [Head(running) EXCEPT !.called = TRUE]
    <3>1. /\ pendingRequests' = Tail(pendingRequests) /\ stream' = Tell(s)
          /\ running' = <<step>> \o Tail(running)
          /\ s \in Streams
      BY <1>3, <2>1, HeadTyped DEF RejectsNext
    <3>2. step \in Step /\ step.call = "reject"
      <4>1. Head(running) \in Step
        BY <2>0
      <4>. QED BY <2>0, <4>1 DEF Step
    <3>. HIDE DEF step
    <3>3. Len(running') = 1 /\ running'[1].call = "reject"
      BY <2>0, <3>1, <3>2
    <3>4. Under("reject")' /\ ~Under("close")'
      BY <3>3 DEF Under
    <3>5. /\ stream'[s].status = "done"
          /\ \A t \in Streams : t # s => stream'[t] = stream[t]
      BY <3>1, TellTyped
    <3>6. ReadyHeld' /\ WaitersQueued'
      BY <2>0, <2>1, <3>1, <3>4, <3>5, EndKeepsHeld, QueueKeepsWaiters
    <3>. QED BY <2>0, <3>3, <3>4, <3>6 DEF CloseInv, CloseSteps
  <2>2. CASE pendingRequests = <<>>
    <3>1. running' = Tail(running) /\ UNCHANGED <<pendingRequests, stream>>
      BY <1>3, <2>2 DEF RejectsNext
    <3>2. running' = <<>> /\ ~Under("reject")' /\ ~Under("close")'
      BY <2>0, <3>1 DEF Under
    <3>. QED BY <2>0, <2>2, <3>1, <3>2
             DEF CloseInv, CloseSteps, WaitersQueued, ReadyHeld
  <2>. QED BY <2>1, <2>2
<1>4. ASSUME Expires
      PROVE  CloseInv'
  BY <1>4 DEF Expires, muxVars, CloseInv, CloseSteps, WaitersQueued, ReadyHeld,
              Under
<1>. QED BY <1>1, <1>2, <1>3, <1>4

\* What a step of the responder cannot disturb.
LEMMA ElsewhereCloses ==
    ASSUME CloseInv, UNCHANGED <<running, stream, muxDone, pendingRequests>>,
           registry'[Requester] = registry[Requester],
           open'[Requester] = open[Requester]
    PROVE  CloseInv'
BY DEF CloseInv, CloseSteps, WaitersQueued, ReadyHeld, Under

LEMMA MuxStepsClose ==
    ASSUME BasicInv, CloseInv, BasicInv', UNCHANGED leaseVars
    PROVE  /\ CompleteReturns => CloseInv'
           /\ Receives => CloseInv'
           /\ \A i \in Ids : Answers(i) => CloseInv'
           /\ ResponderLeaves => CloseInv'
<1>. /\ TypeOK /\ MuxTypeOK /\ WaitersQueued /\ ReadyHeld /\ CloseSteps
     /\ RegistryInv /\ running \in Seq(Step) /\ UNCHANGED pendingRequests
     /\ wire \in [End -> Seq(Message)]
     /\ registry \in [End -> [Ids -> Streams \cup {Nobody}]]
     /\ open \in [End -> BOOLEAN]
     /\ ~open[Requester] => wire[Requester] = <<>>
  BY DEF BasicInv, TypeOK, MuxTypeOK, CloseInv, leaseVars
<1>1. ASSUME CompleteReturns
      PROVE  CloseInv'
  <2>1. /\ open[Requester] /\ ~muxDone /\ ~Under("reject") /\ ~Under("close")
        /\ running # <<>> /\ running' = Tail(running)
        /\ UNCHANGED <<registry, stream, muxDone, open>>
    BY <1>1, OpenStack DEF CompleteReturns, In
  <2>2. \A k \in 1 .. Len(running') : running'[k] = running[k + 1]
                                      /\ k + 1 \in 1 .. Len(running)
    BY <2>1
  <2>3. ~Under("reject")' /\ ~Under("close")'
    BY <2>1, <2>2 DEF Under
  <2>. QED BY <2>1, <2>3 DEF CloseInv, CloseSteps, WaitersQueued, ReadyHeld
<1>2. ASSUME HandlesAnswer
      PROVE  CloseInv'
  <2>. DEFINE f == Head(wire[Requester])
              s == registry[Requester][f.id]
  <2>1. /\ wire[Requester] # <<>> /\ s # Nobody /\ running = <<>>
        /\ stream' = [Tell(s) EXCEPT ![s].heard = @ \cup {f.stream}]
        /\ registry' = [registry EXCEPT ![Requester][f.id] = Nobody]
        /\ UNCHANGED <<running, muxDone, open>>
    BY <1>2 DEF HandlesAnswer
  <2>2. f \in Message
    BY <2>1, HeadIn
  <2>3. f.id \in Ids /\ f.stream \in Streams
    BY <2>2 DEF Message
  <2>4. s \in Streams /\ open[Requester]
    BY <2>1, <2>3
  <2>5. stream[s].status = "ready" /\ stream[s].id = f.id
    BY <2>1, <2>3, <2>4 DEF RegistryInv
  <2>. HIDE DEF f, s
  <2>6. stream'[s].status = "done"
        /\ \A t \in Streams : t # s => stream'[t] = stream[t]
    BY <2>1, <2>3, <2>4, HeardTyped
  <2>7. ReadyHeld'
    BY <2>1, <2>4, <2>5, <2>6, EndOnlyKeepsHeld
  <2>8. WaitersQueued'
    BY <2>4, <2>6, QueueKeepsWaiters
  <2>9. CloseSteps'
    BY <2>1, <2>4 DEF CloseSteps, Under
  <2>. QED BY <2>7, <2>8, <2>9 DEF CloseInv
<1>3. ASSUME DropsAnswer \/ HandlesRequest \/ HandlesEnd \/ ResponderLeaves
             \/ \E i \in Ids : Answers(i)
      PROVE  CloseInv'
  <2>1. UNCHANGED <<running, stream, muxDone>> /\ open'[Requester] = open[Requester]
    BY <1>3 DEF DropsAnswer, HandlesRequest, HandlesEnd, ResponderLeaves, Answers,
                Disconnect
  <2>2. registry'[Requester] = registry[Requester]
    BY <1>3 DEF DropsAnswer, HandlesRequest, HandlesEnd, ResponderLeaves, Answers
  <2>. QED BY <2>1, <2>2, ElsewhereCloses
<1>. QED BY <1>1, <1>2, <1>3 DEF Receives

\* The steps of the close itself.
LEMMA ConnectionClosesInv ==
    ASSUME BasicInv, CloseInv, BasicInv', UNCHANGED leaseVars
    PROVE  /\ Closes => CloseInv'
           /\ ClosesStream => CloseInv'
           /\ ConnectionCloseEnds => CloseInv'
<1>. /\ TypeOK /\ MuxTypeOK /\ WaitersQueued /\ ReadyHeld /\ CloseSteps
     /\ StackInv /\ StatusInv /\ running \in Seq(Step)
     /\ UNCHANGED pendingRequests
     /\ registry \in [End -> [Ids -> Streams \cup {Nobody}]]
     /\ stream \in [Streams -> StreamState]
     /\ open \in [End -> BOOLEAN]
     /\ running # <<>> => Head(running) = running[1] /\ 1 \in 1 .. Len(running)
  BY StreamTyped, SMTT(60) DEF BasicInv, TypeOK, MuxTypeOK, CloseInv, leaseVars
<1>0. \A t \in Streams : stream[t].status = "ready"
          => stream[t].id \in Ids /\ t # Nobody
             /\ registry[Requester][stream[t].id] = t
  BY MultiplexerAssumption DEF StatusInv, HasId, ReadyHeld, StreamState
<1>1. ASSUME Closes
      PROVE  CloseInv'
  <2>. DEFINE step == [call |-> "close", id |-> 0, left |-> Ids \ Free,
                       called |-> FALSE]
  <2>1. /\ open[Requester] /\ open' = [open EXCEPT ![Requester] = FALSE]
        /\ running = <<>> /\ running' = <<step>>
        /\ UNCHANGED <<registry, stream, muxDone>>
    BY <1>1 DEF Closes, Disconnect
  <2>2. ~muxDone
    BY <2>1, OpenStack
  <2>3. Len(running') = 1 /\ running'[1].call = "close"
        /\ running'[1].left = Ids \ Free /\ ~open'[Requester]
    BY <2>1
  <2>4. Under("close")' /\ ~Under("reject")'
    BY <2>3 DEF Under
  <2>5. CloseSteps'
    BY <2>1, <2>2, <2>3, <2>4 DEF CloseSteps
  <2>6. ReadyHeld'
    BY <1>0, <2>1, <2>2, <2>3 DEF ReadyHeld, Free
  <2>7. WaitersQueued'
    BY <2>1 DEF WaitersQueued
  <2>. QED BY <2>5, <2>6, <2>7 DEF CloseInv
<1>2. ASSUME ClosesStream
      PROVE  CloseInv'
  <2>. DEFINE step == Head(running)
              id == Smallest(step.left)
              s == registry[Requester][id]
              told == s # Nobody /\ stream[s].status = "ready"
              next == [step EXCEPT !.left = step.left \ {id},
                                   !.called = step.called \/ told]
  <2>1. /\ running # <<>> /\ step.call = "close" /\ step.left # {}
        /\ stream' = IF told THEN Tell(s) ELSE stream
        /\ running' = <<next>> \o Tail(running)
        /\ UNCHANGED <<registry, muxDone, open>>
    BY <1>2 DEF ClosesStream, In
  <2>2. step \in Step /\ step = running[1] /\ 1 \in 1 .. Len(running)
    BY <2>1
  <2>3. step.left \subseteq Ids /\ ~open[Requester] /\ ~muxDone
    BY <2>1, <2>2 DEF Step, StackInv, CloseSteps
  <2>4. id \in Ids
    <3>1. step.left \subseteq Nat
      BY <2>3, IdsArePositive
    <3>. QED BY <2>1, <2>3, <3>1, SmallestExists, Zenon
  <2>5. s \in Streams \cup {Nobody} /\ Len(running) = 1
    BY <2>1, <2>3, <2>4 DEF CloseSteps
  <2>6. next \in Step /\ next.call = "close" /\ next.left = step.left \ {id}
    BY <2>1, <2>2 DEF Step
  <2>. HIDE DEF next
  <2>7. Len(running') = 1 /\ running'[1] = next
    BY <2>1, <2>5, <2>6
  <2>8. Under("close") /\ Under("close")' /\ ~Under("reject")'
    <3>1. running[1].call = "close"
      BY <2>1, <2>2, Zenon
    <3>2. running'[1].call = "close"
      BY <2>6, <2>7
    <3>3. 1 \in 1 .. Len(running') /\ \A k \in 1 .. Len(running') : k = 1
      BY <2>7
    <3>. QED BY <2>2, <3>1, <3>2, <3>3 DEF Under
  <2>9. CloseSteps'
    BY <2>1, <2>3, <2>6, <2>7, <2>8 DEF CloseSteps
  <2>10. CASE told
    <3>1. s \in Streams /\ stream' = Tell(s)
      BY <2>1, <2>5, <2>10
    <3>2. /\ stream'[s].status = "done"
          /\ \A t \in Streams : t # s => stream'[t] = stream[t]
      BY <3>1, TellTyped
    <3>3. WaitersQueued'
      BY <3>1, <3>2, QueueKeepsWaiters
    <3>4. \A t \in Streams : t # s /\ stream[t].status = "ready"
              => stream[t].id # id
      BY <1>0
    <3>. HIDE DEF step, id, s, told
    <3>5. ASSUME NEW t \in Streams, stream'[t].status = "ready"
          PROVE  /\ ~muxDone' /\ registry'[Requester][stream'[t].id] = t
                 /\ stream'[t].id \in running'[1].left
      <4>1. t # s /\ stream'[t] = stream[t]
        BY <3>2, <3>5
      <4>2. stream[t].id \in running[1].left
        BY <2>8, <3>5, <4>1 DEF ReadyHeld
      <4>3. stream[t].id \in running'[1].left
        BY <2>2, <2>6, <2>7, <3>4, <3>5, <4>1, <4>2
      <4>. QED BY <1>0, <2>1, <2>3, <3>5, <4>1, <4>3
    <3>6. ReadyHeld'
      BY <3>5 DEF ReadyHeld
    <3>. QED BY <2>9, <3>3, <3>6 DEF CloseInv
  <2>11. CASE ~told
    <3>1. UNCHANGED stream
      BY <2>1, <2>11
    <3>2. \A t \in Streams : stream[t].status = "ready" => stream[t].id # id
      BY <1>0, <2>11
    <3>. HIDE DEF step, id, s, told
    <3>3. ASSUME NEW t \in Streams, stream'[t].status = "ready"
          PROVE  /\ ~muxDone' /\ registry'[Requester][stream'[t].id] = t
                 /\ stream'[t].id \in running'[1].left
      <4>1. stream[t].id \in running[1].left
        BY <2>8, <3>1, <3>3 DEF ReadyHeld
      <4>2. stream[t].id \in running'[1].left
        BY <2>2, <2>6, <2>7, <3>1, <3>2, <3>3, <4>1
      <4>. QED BY <1>0, <2>1, <2>3, <3>1, <3>3, <4>2
    <3>4. ReadyHeld' /\ WaitersQueued'
      BY <3>1, <3>3 DEF ReadyHeld, WaitersQueued
    <3>. QED BY <2>9, <3>4 DEF CloseInv
  <2>. QED BY <2>10, <2>11
<1>3. ASSUME ConnectionCloseEnds
      PROVE  CloseInv'
  <2>. DEFINE step == [call |-> "reject", id |-> 0, left |-> {},
                       called |-> FALSE]
  <2>1. /\ running # <<>> /\ running[1].call = "close" /\ running[1].left = {}
        /\ muxDone' = TRUE /\ running' = <<step>> \o Tail(running)
        /\ UNCHANGED <<registry, stream, open>>
    BY <1>3 DEF ConnectionCloseEnds, CloseEnds, In
  <2>2. ~open[Requester] /\ Under("close") /\ Len(running) = 1
    BY <2>1 DEF StackInv, CloseSteps, Under
  <2>3. step \in Step /\ step.call = "reject"
    BY DEF Step
  <2>. HIDE DEF step
  <2>4. Len(running') = 1 /\ running'[1].call = "reject"
    BY <2>1, <2>2, <2>3
  <2>5. Under("reject")' /\ ~Under("close")'
    BY <2>4 DEF Under
  <2>6. \A t \in Streams : stream[t].status # "ready"
    BY <2>1, <2>2 DEF ReadyHeld
  <2>7. ReadyHeld' /\ WaitersQueued'
    BY <2>1, <2>6 DEF ReadyHeld, WaitersQueued
  <2>8. CloseSteps'
    BY <2>1, <2>2, <2>4, <2>5 DEF CloseSteps
  <2>. QED BY <2>7, <2>8 DEF CloseInv
<1>. QED BY <1>1, <1>2, <1>3

LEMMA InitCloses == Init => CloseInv
BY DEF Init, MuxInit, CloseInv, CloseSteps, WaitersQueued, ReadyHeld, Under

LEMMA NextCloses ==
    ASSUME NoLateRequests, BasicInv, CloseInv, [Next]_vars, BasicInv'
    PROVE  CloseInv'
<1>1. CASE UNCHANGED vars
  BY <1>1 DEF vars, muxVars, leaseVars, CloseInv, CloseSteps, WaitersQueued,
              ReadyHeld, Under
<1>2. ASSUME NEW s \in Streams, RequestLease(s) \/ CancelRequest(s)
      PROVE  CloseInv'
  BY <1>2, RequestCloses, QuitCloses
<1>3. ASSUME Unleased, UNCHANGED leaseVars
      PROVE  CloseInv'
  <2>1. \A s \in Calls : s \in Streams
    BY DEF Streams
  <2>. QED BY <1>3, <2>1, QuitCloses, MuxStepsClose, ConnectionClosesInv
           DEF Unleased
<1>4. ASSUME ConnectionCloseEnds
      PROVE  CloseInv'
  BY <1>4, ConnectionClosesInv DEF ConnectionCloseEnds
<1>5. CASE \E s \in Streams : RequestLease(s) \/ CancelRequest(s)
  BY <1>2, <1>5
<1>6. CASE \E n \in Grants : HandlesLease(n)
  BY <1>6, LeaseStepsClose
<1>7. CASE GrantsNext \/ RejectsNext \/ Expires
  BY <1>7, LeaseStepsClose
<1>. QED BY <1>1, <1>3, <1>4, <1>5, <1>6, <1>7 DEF Next

LEMMA ClosesHold == NoLateRequests => (Spec => []CloseInv)
<1>. SUFFICES ASSUME NoLateRequests PROVE Spec => []CloseInv
  OBVIOUS
<1>1. BasicInv /\ BasicInv' /\ CloseInv /\ [Next]_vars => CloseInv'
  BY NextCloses
<1>. QED BY <1>1, InitCloses, BasicsHold, PTL DEF Spec

(***************************************************************************)
(* Every receiver is told of the end of its request, once at most; when    *)
(* the connection has closed, and its callbacks have returned, none waits  *)
(* any more: not one that has an id, and not one that waits for a lease.   *)
(* An application that makes requests of a connection that is closing, or  *)
(* has closed, is not covered: such a request is not always rejected.      *)
(***************************************************************************)
THEOREM EverybodyTold == NoLateRequests => (Spec => []RequestsTold)
<1>. SUFFICES ASSUME NoLateRequests PROVE Spec => []RequestsTold
  OBVIOUS
<1>1. ASSUME BasicInv, CloseInv
      PROVE  RequestsTold
  <2>1. \A s \in Streams : stream[s].told + Count(stream[s].quit) <= 1
    BY <1>1 DEF BasicInv, StatusInv
  <2>2. ASSUME muxDone, running = <<>>, NEW s \in Streams
        PROVE  stream[s].status \in {"idle", "done", "lost"}
    <3>1. ~Under("reject")
      BY <2>2 DEF Under
    <3>2. pendingRequests = <<>>
      BY <1>1, <2>2, <3>1 DEF CloseInv, CloseSteps
    <3>3. stream[s].status # "waiting"
      BY <1>1, <3>2 DEF CloseInv, WaitersQueued
    <3>4. stream[s].status # "ready"
      BY <1>1, <2>2 DEF CloseInv, ReadyHeld
    <3>5. stream[s].status \in Status
      BY <1>1, StreamTyped DEF BasicInv, TypeOK, StreamState
    <3>. QED BY <3>3, <3>4, <3>5 DEF Status
  <2>. QED BY <2>1, <2>2 DEF RequestsTold
<1>. QED BY <1>1, BasicsHold, ClosesHold, PTL

-----------------------------------------------------------------------------
(* The ids of the streams.                                                 *)

\* A step that gives an id gives it to a request that had none.
LEMMA GiverIs ==
    ASSUME BasicInv, [Next]_vars, given' # given
    PROVE  \E s \in Streams : /\ CreateRequestStream(s)
                              /\ stream[s].status \in {"idle", "waiting"}
                              /\ ~HasId(s)
                              /\ MayCall \/ In("grant")
<1>. TypeOK /\ StatusInv /\ QueueInv
  BY DEF BasicInv
<1>1. CASE \E s \in Streams : RequestLease(s) \/ CancelRequest(s)
  <2>1. PICK s \in Streams : RequestLease(s) \/ CancelRequest(s)
    BY <1>1
  <2>. QED BY <1>1, <2>1
           DEF RequestLease, CancelRequest, Wait, PassOn, StatusInv
<1>2. CASE GrantsNext
  <2>1. pendingRequests # <<>> /\ PassOn(Head(pendingRequests)) /\ In("grant")
    BY <1>2 DEF GrantsNext
  <2>2. Head(pendingRequests) \in Streams
        /\ stream[Head(pendingRequests)].status = "waiting"
    BY <2>1, HeadTyped DEF QueueInv
  <2>. QED BY <2>1, <2>2 DEF PassOn, StatusInv
<1>3. (\E s \in Streams : RequestLease(s) \/ CancelRequest(s)) \/ GrantsNext
  BY UnleasedGives
     DEF Next, HandlesLease, RejectsNext, Expires, ConnectionCloseEnds,
         CloseEnds, vars, muxVars
<1>. QED BY <1>1, <1>2, <1>3

\* What it does.
LEMMA GiveEffect ==
    ASSUME BasicInv, NEW s \in Streams, CreateRequestStream(s), given' # given
    PROVE  /\ ~muxDone /\ Free # {} /\ NextId \in Ids /\ NextId # 0
           /\ registry[Requester][NextId] = Nobody
           /\ given' = Append(given, s)
           /\ stream'[s].id = NextId /\ stream'[s].wrap = wraps'
           /\ stream'[s].heard = stream[s].heard
           /\ \A t \in Streams : t # s => stream'[t] = stream[t]
           /\ \/ wraps' = wraps /\ currentId < NextId
              \/ wraps' = wraps + 1
           /\ \A i \in Ids : registry'[Requester][i]
                               = IF i = NextId /\ s \in Calls THEN s
                                 ELSE registry[Requester][i]
           /\ registry'[Responder] = registry[Responder]
           /\ UNCHANGED open
           /\ IF s \in Calls
              THEN UNCHANGED running /\ currentId' = NextId
              ELSE /\ running' = <<[call |-> "complete", id |-> NextId,
                                    left |-> {}, called |-> TRUE]>> \o running
                   /\ UNCHANGED currentId
<1>. /\ TypeOK /\ MuxTypeOK
     /\ registry \in [End -> [Ids -> Streams \cup {Nobody}]]
  BY DEF BasicInv, TypeOK, MuxTypeOK
<1>1. ~muxDone /\ Free # {}
  BY CreateGives
<1>2. /\ NextId \in Ids /\ NextId # 0 /\ registry[Requester][NextId] = Nobody
      /\ currentId < NextId \/ \A i \in Free : i <= currentId
  BY <1>1, NextIdIsFree, IdsArePositive
<1>3. /\ stream'[s].id = NextId /\ stream'[s].wrap = wraps'
      /\ stream'[s].heard = stream[s].heard
      /\ \A t \in Streams : t # s => stream'[t] = stream[t]
  BY <1>1, CreateEffect
<1>4. /\ given' = Append(given, s) /\ UNCHANGED open
      /\ wraps' = wraps + Count(\A i \in Free : i <= currentId)
      /\ IF s \in Calls THEN StartCall(s, NextId) ELSE StartFireAndForget(s, NextId)
  BY <1>1 DEF CreateRequestStream
<1>5. (wraps' = wraps /\ currentId < NextId) \/ wraps' = wraps + 1
  <2>1. wraps \in Nat
    BY DEF MuxTypeOK
  <2>. QED BY <1>2, <1>4, <2>1 DEF Count
<1>6. /\ registry' = IF s \in Calls THEN [registry EXCEPT ![Requester][NextId] = s]
                                    ELSE registry
      /\ IF s \in Calls
         THEN UNCHANGED running /\ currentId' = NextId
         ELSE /\ running' = <<[call |-> "complete", id |-> NextId,
                               left |-> {}, called |-> TRUE]>> \o running
              /\ UNCHANGED currentId
  BY <1>4 DEF StartCall, StartFireAndForget
<1>7. /\ \A i \in Ids : registry'[Requester][i]
                          = IF i = NextId /\ s \in Calls THEN s
                            ELSE registry[Requester][i]
      /\ registry'[Responder] = registry[Responder]
  BY <1>2, <1>6
<1>. QED BY <1>1, <1>2, <1>3, <1>4, <1>5, <1>6, <1>7

\* All other steps leave every id, and the history of ids, as they are.
LEMMA OthersKeepIds ==
    ASSUME BasicInv, [Next]_vars, UNCHANGED given
    PROVE  /\ UNCHANGED wraps
           /\ \A t \in Streams : /\ stream'[t].id = stream[t].id
                                 /\ stream'[t].wrap = stream[t].wrap
<1>. TypeOK /\ MuxTypeOK /\ given \in Seq(Streams)
  BY DEF BasicInv, TypeOK, MuxTypeOK
<1>1. ASSUME NEW s \in Streams, CreateRequestStream(s)
      PROVE  /\ UNCHANGED wraps
             /\ \A t \in Streams : /\ stream'[t].id = stream[t].id
                                   /\ stream'[t].wrap = stream[t].wrap
  <2>1. muxDone \/ Free = {}
    <3>1. ~(muxDone \/ Free = {}) => given' = Append(given, s)
      BY <1>1 DEF CreateRequestStream
    <3>2. Append(given, s) # given
      OBVIOUS
    <3>. QED BY <3>1, <3>2
  <2>2. UNCHANGED wraps
    BY <1>1, <2>1 DEF CreateRequestStream
  <2>. QED BY <1>1, <2>1, <2>2, CreateEffect
<1>2. ASSUME NEW s \in Streams, UNCHANGED wraps,
             \/ stream' = Tell(s)
             \/ stream' = [stream EXCEPT ![s].status = "done", ![s].quit = TRUE]
             \/ stream' = [stream EXCEPT ![s].status = "waiting"]
      PROVE  /\ UNCHANGED wraps
             /\ \A t \in Streams : /\ stream'[t].id = stream[t].id
                                   /\ stream'[t].wrap = stream[t].wrap
  <2>1. "waiting" \in Status
    BY DEF Status
  <2>2. CASE stream' = Tell(s)
    BY <1>2, <2>2, TellTyped
  <2>3. CASE stream' = [stream EXCEPT ![s].status = "done", ![s].quit = TRUE]
    BY <1>2, <2>3, QuitTyped
  <2>4. CASE stream' = [stream EXCEPT ![s].status = "waiting"]
    BY <1>2, <2>1, <2>4, StatusTyped
  <2>. QED BY <1>2, <2>2, <2>3, <2>4
<1>3. CASE \E s \in Streams : RequestLease(s)
  BY <1>1, <1>2, <1>3 DEF RequestLease, PassOn, Wait
<1>4. CASE \E s \in Streams : CancelRequest(s)
  BY <1>2, <1>4 DEF CancelRequest
<1>5. CASE GrantsNext
  BY <1>1, <1>5, HeadTyped DEF GrantsNext, PassOn
<1>6. CASE RejectsNext
  BY <1>2, <1>6, HeadTyped DEF RejectsNext
<1>7. CASE \E s \in Calls : Cancels(s)
  <2>1. Calls \subseteq Streams
    BY DEF Streams
  <2>. QED BY <1>2, <1>7, <2>1 DEF Cancels
<1>8. CASE HandlesAnswer
  <2>. DEFINE f == Head(wire[Requester])
              s == registry[Requester][f.id]
  <2>1. /\ wire[Requester] # <<>> /\ s # Nobody /\ UNCHANGED wraps
        /\ stream' = [Tell(s) EXCEPT ![s].heard = @ \cup {f.stream}]
    BY <1>8 DEF HandlesAnswer
  <2>2. f \in Message
    BY <2>1, HeadIn DEF MuxTypeOK
  <2>3. f.stream \in Streams /\ s \in Streams
    BY <2>1, <2>2 DEF Message, MuxTypeOK
  <2>. HIDE DEF f, s
  <2>. QED BY <2>1, <2>3, HeardTyped
<1>9. CASE ClosesStream
  <2>. DEFINE id == Smallest(Head(running).left)
              s == registry[Requester][id]
  <2>1. UNCHANGED wraps /\ running # <<>> /\ Head(running).left # {}
    BY <1>9 DEF ClosesStream, In
  <2>2. stream' = stream \/ (stream' = Tell(s) /\ s # Nobody)
    BY <1>9 DEF ClosesStream
  <2>3. id \in Ids
    <3>1. Head(running).left \subseteq Ids
      <4>1. running \in Seq(Step)
        BY DEF MuxTypeOK
      <4>2. Head(running) \in Step
        BY <2>1, <4>1
      <4>. QED BY <4>2 DEF Step
    <3>2. Head(running).left \subseteq Nat
      BY <3>1, IdsArePositive
    <3>. QED BY <2>1, <3>1, <3>2, SmallestExists, Zenon
  <2>4. s \in Streams \cup {Nobody}
    BY <2>3 DEF MuxTypeOK
  <2>. HIDE DEF s
  <2>. QED BY <1>2, <2>1, <2>4, <2>2
<1>10. CASE UNCHANGED <<stream, wraps>>
  BY <1>10
<1>. QED
  BY <1>3, <1>4, <1>5, <1>6, <1>7, <1>8, <1>9, <1>10
  DEF Next, HandlesLease, Expires, Unleased, Receives, CompleteReturns,
      DropsAnswer, HandlesRequest, HandlesEnd, Answers, ResponderLeaves, Closes,
      ConnectionCloseEnds, CloseEnds, vars, muxVars

\* What the stack says of the id that was given last.
LEMMA RoundStack ==
    ASSUME BasicInv, RoundInv, NoCallbackInLoop
    PROVE  /\ MayCall \/ In("grant") => ~In("complete")
           /\ ~In("complete") => ~Under("complete") /\ Highest = currentId
<1>. running \in Seq(Step)
  BY DEF BasicInv, TypeOK, MuxTypeOK
<1>1. running # <<>> => Head(running) = running[1] /\ 1 \in 1 .. Len(running)
  OBVIOUS
<1>2. MayCall => ~In("complete")
  BY Zenon DEF MayCall, In, NoCallbackInLoop
<1>3. ~In("complete") => ~Under("complete")
  <2>1. \A k \in 1 .. Len(running) : running # <<>>
    OBVIOUS
  <2>. QED BY <1>1, <2>1 DEF Under, In, RoundInv
<1>. QED BY <1>2, <1>3 DEF In, Highest

\* A step that gives no id does not change what the last one was.
LEMMA HighestStays ==
    ASSUME BasicInv, RoundInv, NoCallbackInLoop, [Next]_vars, UNCHANGED given
    PROVE  /\ Highest' = Highest
           /\ \A k \in 1 .. Len(running') : running'[k].call = "complete" => k = 1
<1>. /\ TypeOK /\ StackInv /\ running \in Seq(Step)
     /\ running # <<>> => Head(running) = running[1] /\ 1 \in 1 .. Len(running)
  BY DEF BasicInv, TypeOK, MuxTypeOK
<1>1. ASSUME UNCHANGED <<running, currentId>>
      PROVE  /\ Highest' = Highest
             /\ \A k \in 1 .. Len(running') : running'[k].call = "complete" => k = 1
  BY <1>1 DEF RoundInv, Highest, In
\* Another step in place of the first one, or of none.
<1>2. ASSUME NEW step \in Step, step.call # "complete", UNCHANGED currentId,
             \/ running = <<>> /\ running' = <<step>>
             \/ /\ running # <<>> /\ Head(running).call # "complete"
                /\ running' = <<step>> \o Tail(running)
      PROVE  /\ Highest' = Highest
             /\ \A k \in 1 .. Len(running') : running'[k].call = "complete" => k = 1
  <2>1. running # <<>> => Len(running) = 1 /\ Tail(running) = <<>>
    BY <1>2 DEF StackInv
  <2>2. Len(running') = 1 /\ running'[1] = step /\ Head(running') = step
    BY <1>2, <2>1
  <2>3. ~In("complete") /\ ~In("complete")'
    BY <1>2, <2>2 DEF In
  <2>. QED BY <1>2, <2>2, <2>3 DEF Highest
\* The first one returns.
<1>3. ASSUME running # <<>>, running' = Tail(running),
             \/ CompleteReturns
             \/ Head(running).call # "complete" /\ UNCHANGED currentId
      PROVE  /\ Highest' = Highest
             /\ \A k \in 1 .. Len(running') : running'[k].call = "complete" => k = 1
  <2>1. /\ \A k \in 1 .. Len(running') : running'[k] = running[k + 1]
                                         /\ k + 1 \in 1 .. Len(running)
        /\ running' # <<>> => Head(running') = running'[1] /\ 1 \in 1 .. Len(running')
    BY <1>3
  <2>2. \A k \in 1 .. Len(running') : running'[k].call # "complete"
    BY <2>1 DEF RoundInv
  <2>3. ~In("complete")' /\ Highest' = currentId'
    BY <2>1, <2>2 DEF In, Highest
  <2>4. Highest = currentId'
    BY <1>3 DEF CompleteReturns, In, Highest
  <2>. QED BY <2>2, <2>3, <2>4
<1>4. ASSUME NEW s \in Streams, CreateRequestStream(s)
      PROVE  UNCHANGED <<running, currentId>>
  <2>1. given' # Append(given, s)
    BY DEF BasicInv, TypeOK, MuxTypeOK
  <2>. QED BY <1>4, <2>1 DEF CreateRequestStream
<1>5. CASE GrantsNext
  <2>1. UNCHANGED <<running, currentId>>
        \/ (UNCHANGED currentId /\ running' = Tail(running))
    BY <1>4, <1>5, HeadTyped DEF GrantsNext, PassOn
  <2>. QED BY <1>1, <1>3, <1>5, <2>1 DEF GrantsNext, In
<1>6. CASE RejectsNext
  <2>1. running # <<>> /\ Head(running).call = "reject" /\ UNCHANGED currentId
    BY <1>6 DEF RejectsNext, In
  <2>2. Head(running) \in Step
    BY <2>1
  <2>. DEFINE step == [Head(running) EXCEPT !.called = TRUE]
  <2>3. step \in Step /\ step.call = "reject"
    BY <2>1, <2>2 DEF Step
  <2>4. running' = <<step>> \o Tail(running) \/ running' = Tail(running)
    BY <1>6 DEF RejectsNext
  <2>. HIDE DEF step
  <2>. QED BY <1>2, <1>3, <2>1, <2>3, <2>4
<1>7. CASE ClosesStream
  <2>1. running # <<>> /\ Head(running).call = "close" /\ UNCHANGED currentId
    BY <1>7 DEF ClosesStream, In
  <2>2. Head(running) \in Step
    BY <2>1
  <2>. DEFINE id == Smallest(Head(running).left)
              b == registry[Requester][id] # Nobody
                   /\ stream[registry[Requester][id]].status = "ready"
              step == [Head(running) EXCEPT !.left = Head(running).left \ {id},
                                            !.called = Head(running).called \/ b]
  <2>3. running' = <<step>> \o Tail(running)
    BY <1>7 DEF ClosesStream
  <2>. HIDE DEF id, b
  <2>4. b \in BOOLEAN
    BY DEF b
  <2>5. step \in Step /\ step.call = "close"
    BY <2>1, <2>2, <2>4 DEF Step
  <2>. HIDE DEF step
  <2>. QED BY <1>2, <2>1, <2>3, <2>5
<1>8. CASE Closes \/ (\E n \in Grants : HandlesLease(n)) \/ ConnectionCloseEnds
  <2>. DEFINE Fresh(call, left) == [call |-> call, id |-> 0, left |-> left,
                                    called |-> FALSE]
  <2>1. /\ Fresh("close", Ids \ Free) \in Step /\ Fresh("grant", {}) \in Step
        /\ Fresh("reject", {}) \in Step
        /\ \A call \in {"close", "grant", "reject"} :
              \A left : Fresh(call, left).call = call
    BY DEF Step
  <2>2. Closes => running = <<>> /\ running' = <<Fresh("close", Ids \ Free)>>
                  /\ UNCHANGED currentId
    BY DEF Closes
  <2>3. \A n \in Grants : HandlesLease(n)
          => running = <<>> /\ running' = <<Fresh("grant", {})>>
             /\ UNCHANGED currentId
    BY DEF HandlesLease
  <2>4. ConnectionCloseEnds
          => /\ running # <<>> /\ Head(running).call = "close"
             /\ running' = <<Fresh("reject", {})>> \o Tail(running)
             /\ UNCHANGED currentId
    BY DEF ConnectionCloseEnds, CloseEnds, In
  <2>. HIDE DEF Fresh
  <2>. QED BY <1>2, <1>8, <2>1, <2>2, <2>3, <2>4
<1>9. CASE CompleteReturns
  BY <1>3, <1>9 DEF CompleteReturns, In
<1>10. CASE UNCHANGED <<running, currentId>>
  BY <1>1, <1>10
<1>11. ASSUME NEW s \in Streams, RequestLease(s) \/ CancelRequest(s)
       PROVE  UNCHANGED <<running, currentId>>
  BY <1>4, <1>11 DEF RequestLease, CancelRequest, Wait, PassOn
<1>. QED
  BY <1>5, <1>6, <1>7, <1>8, <1>9, <1>10, <1>11
  DEF Next, Expires, Unleased, Receives, Cancels, HandlesAnswer, DropsAnswer,
      HandlesRequest, HandlesEnd, Answers, ResponderLeaves, vars, muxVars

LEMMA IdsAreNumbers ==
    ASSUME BasicInv
    PROVE  /\ wraps \in Nat /\ currentId \in Int
           /\ \A t \in Streams : stream[t].id \in Int /\ stream[t].wrap \in Nat
<1>1. MuxTypeOK /\ wraps \in Nat /\ currentId \in Ids \cup {-1}
  BY DEF BasicInv, TypeOK, MuxTypeOK
<1>2. Ids \subseteq Int /\ 0 \in Int /\ -1 \in Int
  BY IdsArePositive
<1>3. \A t \in Streams : stream[t].id \in Ids \cup {0} /\ stream[t].wrap \in Nat
  BY <1>1, StreamTyped DEF StreamState
<1>. QED BY <1>1, <1>2, <1>3

LEMMA NextRound ==
    ASSUME BasicInv, RoundInv, NoCallbackInLoop, [Next]_vars
    PROVE  RoundInv'
<1>. TypeOK /\ running \in Seq(Step)
  BY DEF BasicInv, TypeOK, MuxTypeOK
<1>. /\ wraps \in Nat /\ currentId \in Int
     /\ \A t \in Streams : stream[t].id \in Int /\ stream[t].wrap \in Nat
  BY IdsAreNumbers
<1>1. CASE UNCHANGED given
  BY <1>1, HighestStays, OthersKeepIds DEF RoundInv, HasId
<1>2. CASE given' # given
  <2>1. PICK s \in Streams : /\ CreateRequestStream(s) /\ ~HasId(s)
                             /\ MayCall \/ In("grant")
    BY <1>2, GiverIs
  <2>2. ~Under("complete") /\ Highest = currentId
    BY <2>1, RoundStack
  <2>3. /\ stream'[s].id = NextId /\ stream'[s].wrap = wraps'
        /\ \A t \in Streams : t # s => stream'[t] = stream[t]
        /\ (wraps' = wraps /\ currentId < NextId) \/ wraps' = wraps + 1
        /\ NextId \in Int
    <3>1. NextId \in Ids
      BY <1>2, <2>1, GiveEffect
    <3>. QED BY <1>2, <2>1, <3>1, GiveEffect, IdsArePositive
  <2>4. /\ Highest' = NextId
        /\ \A k \in 1 .. Len(running') : running'[k].call = "complete" => k = 1
    <3>1. CASE s \in Calls
      <4>1. UNCHANGED running /\ currentId' = NextId
        BY <1>2, <2>1, <3>1, GiveEffect
      <4>. QED BY <2>2, <4>1 DEF Highest, In, Under, RoundInv
    <3>2. CASE s \notin Calls
      <4>. DEFINE step == [call |-> "complete", id |-> NextId, left |-> {},
                           called |-> TRUE]
      <4>1. running' = <<step>> \o running /\ NextId \in Ids
        BY <1>2, <2>1, <3>2, GiveEffect
      <4>2. step \in Step /\ step.call = "complete" /\ step.id = NextId
        BY <4>1 DEF Step
      <4>. HIDE DEF step
      <4>3. /\ Len(running') = Len(running) + 1 /\ running' # <<>>
            /\ Head(running') = step
            /\ \A k \in 2 .. Len(running') : running'[k] = running[k - 1]
        BY <4>1, <4>2
      <4>4. \A k \in 2 .. Len(running') : k - 1 \in 1 .. Len(running)
        BY <4>3
      <4>5. \A k \in 1 .. Len(running') : k = 1 \/ k \in 2 .. Len(running')
        BY <4>3
      <4>6. Highest' = NextId
        BY <4>2, <4>3 DEF Highest, In
      <4>. QED BY <2>2, <4>3, <4>4, <4>5, <4>6 DEF Under
    <3>. QED BY <3>1, <3>2
  <2>5. ASSUME NEW t \in Streams, HasId(t)'
        PROVE  /\ stream'[t].wrap <= wraps'
               /\ stream'[t].wrap = wraps' => stream'[t].id <= Highest'
    <3>1. CASE t = s
      BY <2>3, <2>4, <3>1
    <3>2. CASE t # s
      <4>1. /\ stream[t].wrap <= wraps
            /\ stream[t].wrap = wraps => stream[t].id <= currentId
            /\ stream'[t] = stream[t]
        BY <2>2, <2>3, <2>5, <3>2 DEF HasId, RoundInv
      <4>. QED BY <2>3, <2>4, <4>1
    <3>. QED BY <3>1, <3>2
  <2>. QED BY <2>4, <2>5 DEF RoundInv
<1>. QED BY <1>1, <1>2

LEMMA NextLastGiven ==
    ASSUME BasicInv, RoundInv, RoundInv', LastGivenInv, NoCallbackInLoop,
           [Next]_vars
    PROVE  LastGivenInv'
<1>. TypeOK /\ given \in Seq(Streams)
  BY DEF BasicInv, TypeOK, MuxTypeOK
<1>. \A i \in 1 .. Len(given) : given[i] \in Streams
  OBVIOUS
<1>. /\ wraps \in Nat /\ currentId \in Int
     /\ \A t \in Streams : stream[t].id \in Int /\ stream[t].wrap \in Nat
  BY IdsAreNumbers
<1>1. CASE UNCHANGED given
  <2>1. /\ UNCHANGED wraps /\ Highest' = Highest
        /\ \A i \in 1 .. Len(given) : /\ stream'[given[i]].id = stream[given[i]].id
                                      /\ stream'[given[i]].wrap = stream[given[i]].wrap
    BY <1>1, HighestStays, OthersKeepIds
  <2>2. IdsAdvance'
    <3>1. \A i \in 1 .. Len(given) - 1 : i \in 1 .. Len(given)
                                         /\ i + 1 \in 1 .. Len(given)
      OBVIOUS
    <3>. QED BY <1>1, <2>1, <3>1 DEF LastGivenInv, IdsAdvance
  <2>3. given # <<>> => Len(given) \in 1 .. Len(given)
    OBVIOUS
  <2>. QED BY <1>1, <2>1, <2>2, <2>3 DEF LastGivenInv, HasId
<1>2. CASE given' # given
  <2>1. PICK s \in Streams : /\ CreateRequestStream(s) /\ ~HasId(s)
                             /\ MayCall \/ In("grant")
    BY <1>2, GiverIs
  <2>2. Highest = currentId
    BY <2>1, RoundStack
  <2>3. /\ stream'[s].id = NextId /\ stream'[s].wrap = wraps'
        /\ \A t \in Streams : t # s => stream'[t] = stream[t]
        /\ (wraps' = wraps /\ currentId < NextId) \/ wraps' = wraps + 1
        /\ NextId \in Int /\ NextId # 0 /\ given' = Append(given, s)
    <3>1. NextId \in Ids
      BY <1>2, <2>1, GiveEffect
    <3>. QED BY <1>2, <2>1, <3>1, GiveEffect, IdsArePositive
  <2>. DEFINE n == Len(given)
  <2>4. /\ Len(given') = n + 1 /\ given'[n + 1] = s /\ n \in Nat
        /\ \A i \in 1 .. n : given'[i] = given[i] /\ given[i] # s
                             /\ stream'[given'[i]] = stream[given[i]]
    BY <2>1, <2>3 DEF LastGivenInv
  <2>. HIDE DEF n
  <2>5. \A i \in 1 .. Len(given') : i \in 1 .. n \/ i = n + 1
    BY <2>4
  <2>6. Highest' = NextId
    <3>1. CASE s \in Calls
      <4>1. UNCHANGED running /\ currentId' = NextId
        BY <1>2, <2>1, <3>1, GiveEffect
      <4>. QED BY <2>1, <4>1, RoundStack DEF Highest, In
    <3>2. CASE s \notin Calls
      <4>1. running' = <<[call |-> "complete", id |-> NextId, left |-> {},
                          called |-> TRUE]>> \o running
        BY <1>2, <2>1, <3>2, GiveEffect
      <4>2. [call |-> "complete", id |-> NextId, left |-> {}, called |-> TRUE]
              \in Step
        BY <1>2, <2>1, GiveEffect DEF Step
      <4>3. running \in Seq(Step)
        BY DEF TypeOK, MuxTypeOK
      <4>4. running' # <<>> /\ Head(running').call = "complete"
            /\ Head(running').id = NextId
        BY <4>1, <4>2, <4>3
      <4>. QED BY <4>4 DEF Highest, In
    <3>. QED BY <3>1, <3>2
  <2>7. ASSUME NEW i \in 1 .. Len(given') - 1
        PROVE  LET t == stream'[given'[i]]
                   u == stream'[given'[i + 1]]
               IN  t.wrap < u.wrap \/ (t.wrap = u.wrap /\ t.id < u.id)
    <3>1. CASE i = n
      <4>1. given # <<>> /\ n \in 1 .. n /\ given'[i + 1] = s
            /\ stream'[given'[i]] = stream[given[n]]
        BY <2>4, <3>1 DEF n
      <4>2. stream[given[n]].wrap = wraps /\ stream[given[n]].id = currentId
        BY <2>2, <4>1 DEF LastGivenInv, n
      <4>. QED BY <2>3, <4>1, <4>2
    <3>2. CASE i # n
      <4>1. i \in 1 .. n /\ i + 1 \in 1 .. n /\ i \in 1 .. n - 1
        BY <2>4, <3>2
      <4>. QED BY <2>4, <4>1 DEF LastGivenInv, IdsAdvance, n
    <3>. QED BY <3>1, <3>2
  <2>8. IdsAdvance'
    BY <2>7 DEF IdsAdvance
  <2>9. \A i \in 1 .. Len(given') : stream'[given'[i]].id # 0
    BY <2>3, <2>4, <2>5 DEF LastGivenInv, HasId
  <2>. QED BY <2>3, <2>4, <2>6, <2>8, <2>9 DEF LastGivenInv, HasId
<1>. QED BY <1>1, <1>2

LEMMA RoundsHold == NoCallbackInLoop => (Spec => [](RoundInv /\ LastGivenInv))
<1>. SUFFICES ASSUME NoCallbackInLoop PROVE Spec => [](RoundInv /\ LastGivenInv)
  OBVIOUS
<1>1. Init => RoundInv /\ LastGivenInv
  BY DEF Init, MuxInit, RoundInv, LastGivenInv, IdsAdvance, HasId
<1>2. BasicInv /\ RoundInv /\ LastGivenInv /\ [Next]_vars
      => (RoundInv /\ LastGivenInv)'
  BY NextRound, NextLastGiven
<1>. QED BY <1>1, <1>2, BasicsHold, PTL DEF Spec

(***************************************************************************)
(* The ids that the generator hands out advance, or have wrapped around,   *)
(* whatever ids were given back in between; an application that makes      *)
(* requests where a fire-and-forget's receiver is told that it was sent    *)
(* comes before the generator has noted its id, and is not covered.        *)
(***************************************************************************)
THEOREM IdsDoAdvance == NoCallbackInLoop => (Spec => []IdsAdvance)
<1>1. LastGivenInv => IdsAdvance
  BY DEF LastGivenInv
<1>. QED BY <1>1, RoundsHold, PTL

\* The wires hold no more than what was on them and what is sent.
LEMMA WireHolds ==
    ASSUME NEW M, wire \in [End -> Seq(M)], NEW e \in End, NEW ms \in Seq(M)
    PROVE  /\ Send(e, ms) => wire' \in [End -> Seq(M)]
           /\ wire[e] # <<>> /\ TakeAndSend(e, ms) => wire' \in [End -> Seq(M)]
           /\ wire[e] # <<>> /\ wire' = [wire EXCEPT ![e] = Tail(@)]
              => wire' \in [End -> Seq(M)]
           /\ Disconnect(e, FALSE) => wire' \in [End -> Seq(M)]
           /\ wire[e] # <<>> => Head(wire[e]) \in M
<1>1. Sent(e, ms) \in Seq(M) /\ Peer(e) \in End
  BY DEF Sent, Peer
<1>2. wire[e] # <<>> => Head(wire[e]) \in M /\ Tail(wire[e]) \in Seq(M)
  OBVIOUS
<1>3. Send(e, ms) => wire' \in [End -> Seq(M)]
  BY <1>1 DEF Send
<1>4. \A d \in End : wire[d] \o Sent(e, ms) \in Seq(M)
  BY <1>1
<1>5. wire[e] # <<>> /\ TakeAndSend(e, ms) => wire' \in [End -> Seq(M)]
  BY <1>2, <1>4 DEF TakeAndSend
<1>6. Disconnect(e, FALSE) => wire' \in [End -> Seq(M)]
  <2>1. Disconnect(e, FALSE) => wire' = [wire EXCEPT ![e] = SubSeq(wire[e], 1, 0)]
    BY DEF Disconnect
  <2>2. SubSeq(wire[e], 1, 0) = <<>> /\ <<>> \in Seq(M)
    OBVIOUS
  <2>3. [wire EXCEPT ![e] = <<>>] \in [End -> Seq(M)]
    BY <2>2
  <2>. QED BY <2>1, <2>2, <2>3
<1>. QED BY <1>2, <1>3, <1>5, <1>6

\* No stream that has an id gets another one.
LEMMA NamesStay ==
    ASSUME BasicInv, MessageInv, [Next]_vars
    PROVE  /\ Named \subseteq Named'
           /\ wire \in [End -> Seq(Named')]
           /\ \A i \in Ids : LET s == registry[Responder][i]
                             IN  s # Nobody => stream'[s].id = i
<1>. registry \in [End -> [Ids -> Streams \cup {Nobody}]]
  BY DEF BasicInv, TypeOK, MuxTypeOK
<1>1. ASSUME NEW t \in Streams, HasId(t)
      PROVE  stream'[t].id = stream[t].id
  <2>1. CASE UNCHANGED given
    BY <2>1, OthersKeepIds
  <2>2. CASE given' # given
    BY <1>1, <2>2, GiverIs, GiveEffect
  <2>. QED BY <2>1, <2>2
<1>2. \A i \in Ids : i # 0
  BY IdsArePositive
<1>3. Named \subseteq Named'
  BY <1>1, <1>2 DEF Named, Message, HasId
<1>4. Seq(Named) \subseteq Seq(Named')
  BY <1>3
<1>5. wire \in [End -> Seq(Named')]
  BY <1>4 DEF MessageInv
<1>6. ASSUME NEW i \in Ids, registry[Responder][i] # Nobody
      PROVE  stream'[registry[Responder][i]].id = i
  <2>1. registry[Responder][i] \in Streams
    BY <1>6
  <2>. QED BY <1>1, <1>2, <1>6, <2>1 DEF MessageInv, HasId
<1>. QED BY <1>3, <1>5, <1>6

LEMMA NextMessages ==
    ASSUME BasicInv, MessageInv, [Next]_vars
    PROVE  MessageInv'
<1>. DEFINE M == Named'
<1>. /\ TypeOK /\ MuxTypeOK
     /\ registry \in [End -> [Ids -> Streams \cup {Nobody}]]
  BY DEF BasicInv, TypeOK, MuxTypeOK
<1>1. /\ Named \subseteq M /\ wire \in [End -> Seq(M)]
      /\ \A i \in Ids : LET s == registry[Responder][i]
                        IN  s # Nobody => stream'[s].id = i
  BY NamesStay
<1>2. ASSUME NEW s \in Streams, NEW i \in Ids, stream'[s].id = i,
             NEW type \in {"REQUEST", "PAYLOAD", "CANCEL", "ANSWER"},
             NEW b \in BOOLEAN
      PROVE  Msg(type, i, s, b) \in M
  <2>1. Msg(type, i, s, b) \in Message
    BY MsgTyped
  <2>. QED BY <1>2, <2>1 DEF Named, Msg
<1>3. ASSUME NEW m \in M
      PROVE  m \in Message /\ m.id \in Ids /\ m.stream \in Streams
             /\ stream'[m.stream].id = m.id
  BY DEF Named, Message
<1>. HIDE DEF M
<1>4. ASSUME wire' \in [End -> Seq(M)], registry'[Responder] = registry[Responder]
      PROVE  MessageInv'
  BY <1>1, <1>4 DEF MessageInv, M
<1>5. CASE given' # given
  <2>1. PICK s \in Streams : CreateRequestStream(s)
    BY <1>5, GiverIs
  <2>2. /\ ~muxDone /\ Free # {} /\ NextId \in Ids /\ stream'[s].id = NextId
        /\ registry'[Responder] = registry[Responder]
    BY <1>5, <2>1, GiveEffect
  <2>. DEFINE m(b) == Msg("REQUEST", NextId, s, b)
              n == Msg("PAYLOAD", NextId, s, FALSE)
  <2>3. StartCall(s, NextId) \/ StartFireAndForget(s, NextId)
    BY <2>1, <2>2 DEF CreateRequestStream
  <2>4. m(TRUE) \in M /\ m(FALSE) \in M /\ n \in M
    BY <1>2, <2>2
  <2>5. \E b \in BOOLEAN : Send(Requester, <<m(b)>>)
                           \/ Send(Requester, <<m(b)>> \o If(b, n))
    BY <2>3 DEF StartCall, StartFireAndForget
  <2>. HIDE DEF m, n
  <2>6. \A b \in BOOLEAN : m(b) \in M
    BY <2>4
  <2>7. \A b \in BOOLEAN : <<m(b)>> \in Seq(M) /\ <<m(b)>> \o If(b, n) \in Seq(M)
    BY <2>4, <2>6 DEF If
  <2>8. wire' \in [End -> Seq(M)]
    BY <1>1, <2>5, <2>7, WireHolds
  <2>. QED BY <1>4, <2>2, <2>8
<1>6. CASE \E s \in Calls : Cancels(s)
  <2>1. PICK s \in Calls : Cancels(s)
    BY <1>6
  <2>. DEFINE m == Msg("CANCEL", stream[s].id, s, FALSE)
  <2>2. /\ stream[s].status = "ready" /\ Send(Requester, <<m>>)
        /\ stream' = [stream EXCEPT ![s].status = "done", ![s].quit = TRUE]
        /\ registry' = [registry EXCEPT ![Requester][stream[s].id] = Nobody]
    BY <2>1 DEF Cancels
  <2>3. s \in Streams
    BY DEF Streams
  <2>4. stream[s].id \in Ids /\ stream'[s].id = stream[s].id
    BY <2>2, <2>3, StreamTyped, QuitTyped
       DEF BasicInv, StatusInv, HasId, StreamState
  <2>5. m \in M
    BY <1>2, <2>3, <2>4
  <2>. HIDE DEF m
  <2>6. <<m>> \in Seq(M)
    BY <2>5
  <2>. QED BY <1>1, <1>4, <2>2, <2>6, WireHolds
<1>7. CASE HandlesAnswer \/ DropsAnswer
  <2>1. /\ wire[Requester] # <<>>
        /\ wire' = [wire EXCEPT ![Requester] = Tail(@)]
        /\ registry'[Responder] = registry[Responder]
    BY <1>7 DEF HandlesAnswer, DropsAnswer
  <2>2. <<>> \in Seq(M)
    OBVIOUS
  <2>. QED BY <1>1, <1>4, <2>1, <2>2, WireHolds
<1>8. CASE HandlesRequest
  <2>. DEFINE f == Head(wire[Responder])
              m == Msg("ANSWER", f.id, f.stream, FALSE)
  <2>1. /\ wire[Responder] # <<>> /\ UNCHANGED stream
        /\ \E b \in BOOLEAN : TakeAndSend(Responder, If(b, m))
        /\ UNCHANGED registry
           \/ registry' = [registry EXCEPT ![Responder][f.id] = f.stream]
    BY <1>8 DEF HandlesRequest
  <2>2. f \in M
    BY <1>1, <2>1
  <2>3. f.id \in Ids /\ f.stream \in Streams /\ stream'[f.stream].id = f.id
    BY <1>3, <2>2
  <2>4. m \in M
    BY <1>2, <2>3
  <2>. HIDE DEF m, f
  <2>5. \A b \in BOOLEAN : If(b, m) \in Seq(M)
    BY <2>4 DEF If
  <2>6. wire' \in [End -> Seq(M)]
    BY <1>1, <2>1, <2>5, WireHolds
  <2>7. \A i \in Ids : LET s == registry'[Responder][i]
                       IN  s # Nobody => stream'[s].id = i
    BY <1>1, <2>1, <2>3
  <2>. QED BY <2>6, <2>7 DEF MessageInv, M
<1>9. CASE HandlesEnd \/ \E i \in Ids : Answers(i)
  <2>1. /\ \A i \in Ids : registry'[Responder][i]
                            \in {registry[Responder][i], Nobody}
        /\ UNCHANGED stream
    BY <1>9 DEF HandlesEnd, Answers
  <2>2. <<>> \in Seq(M)
    OBVIOUS
  <2>3. ASSUME NEW i \in Ids, Answers(i)
        PROVE  wire' \in [End -> Seq(M)]
    <3>. DEFINE m == Msg("ANSWER", i, registry[Responder][i], FALSE)
    <3>1. registry[Responder][i] \in Streams /\ Send(Responder, <<m>>)
      BY <2>3 DEF Answers, Streams
    <3>2. stream'[registry[Responder][i]].id = i
      BY <1>1, <3>1, MultiplexerAssumption
    <3>3. m \in M
      BY <1>2, <3>1, <3>2
    <3>. HIDE DEF m
    <3>4. <<m>> \in Seq(M)
      BY <3>3
    <3>. QED BY <1>1, <3>1, <3>4, WireHolds
  <2>4. HandlesEnd => wire' \in [End -> Seq(M)]
    BY <1>1, <2>2, WireHolds DEF HandlesEnd
  <2>5. wire' \in [End -> Seq(M)]
    BY <1>9, <2>3, <2>4
  <2>6. \A i \in Ids : LET s == registry'[Responder][i]
                       IN  s # Nobody => stream'[s].id = i
    BY <1>1, <2>1
  <2>. QED BY <2>5, <2>6 DEF MessageInv, M
<1>10. CASE Closes \/ ResponderLeaves
  <2>1. /\ Disconnect(Requester, FALSE) \/ Disconnect(Responder, FALSE)
        /\ UNCHANGED registry
    BY <1>10 DEF Closes, ResponderLeaves
  <2>2. <<>> \in Seq(M)
    OBVIOUS
  <2>. QED BY <1>1, <1>4, <2>1, <2>2, WireHolds
<1>11. ASSUME NEW s \in Streams, CreateRequestStream(s), UNCHANGED given
       PROVE  UNCHANGED <<registry, wire>>
  <2>1. given' # Append(given, s)
    BY <1>11 DEF BasicInv, TypeOK, MuxTypeOK
  <2>. QED BY <1>11, <2>1 DEF CreateRequestStream
<1>12. ASSUME UNCHANGED given, NEW s \in Streams, RequestLease(s) \/ CancelRequest(s)
       PROVE  UNCHANGED <<registry, wire>>
  BY <1>11, <1>12 DEF RequestLease, CancelRequest, Wait, PassOn
<1>13. ASSUME UNCHANGED given, GrantsNext
       PROVE  UNCHANGED <<registry, wire>>
  BY <1>11, <1>13, HeadTyped DEF GrantsNext, PassOn
<1>14. CASE UNCHANGED <<registry, wire>>
  BY <1>1, <1>4, <1>14
<1>. QED
  BY <1>5, <1>6, <1>7, <1>8, <1>9, <1>10, <1>12, <1>13, <1>14
  DEF Next, HandlesLease, RejectsNext, Expires, Unleased, Receives,
      CompleteReturns, ClosesStream, ConnectionCloseEnds, CloseEnds, vars, muxVars

\* Only an answer that is handled is heard; no other step but a request that
\* is given an id adds to the registry of the requester.
LEMMA OthersKeepHeard ==
    ASSUME BasicInv, [Next]_vars, UNCHANGED given, ~HandlesAnswer
    PROVE  /\ \A t \in Streams : stream'[t].heard = stream[t].heard
           /\ \A i \in Ids : registry'[Requester][i]
                               \in {registry[Requester][i], Nobody}
           /\ open'[Requester] => open[Requester]
<1>. /\ TypeOK /\ MuxTypeOK /\ given \in Seq(Streams)
     /\ registry \in [End -> [Ids -> Streams \cup {Nobody}]]
     /\ open \in [End -> BOOLEAN]
  BY DEF BasicInv, TypeOK, MuxTypeOK
<1>. DEFINE Heard == \A t \in Streams : stream'[t].heard = stream[t].heard
            Less1 == \A i \in Ids : registry'[Requester][i]
                                      \in {registry[Requester][i], Nobody}
<1>1. ASSUME NEW s \in Streams, CreateRequestStream(s)
      PROVE  Heard /\ Less1 /\ UNCHANGED open
  <2>1. muxDone \/ Free = {}
    <3>1. ~(muxDone \/ Free = {}) => given' = Append(given, s)
      BY <1>1 DEF CreateRequestStream
    <3>2. Append(given, s) # given
      OBVIOUS
    <3>. QED BY <3>1, <3>2
  <2>2. UNCHANGED registry /\ UNCHANGED open
    BY <1>1, <2>1 DEF CreateRequestStream
  <2>3. Heard
    BY <1>1, CreateEffect
  <2>. QED BY <2>2, <2>3
<1>2. ASSUME NEW s \in Streams,
             \/ stream' = Tell(s)
             \/ stream' = [stream EXCEPT ![s].status = "done", ![s].quit = TRUE]
             \/ stream' = [stream EXCEPT ![s].status = "waiting"]
      PROVE  Heard
  <2>1. "waiting" \in Status
    BY DEF Status
  <2>2. CASE stream' = Tell(s)
    BY <2>2, TellTyped
  <2>3. CASE stream' = [stream EXCEPT ![s].status = "done", ![s].quit = TRUE]
    BY <2>3, QuitTyped
  <2>4. CASE stream' = [stream EXCEPT ![s].status = "waiting"]
    BY <2>1, <2>4, StatusTyped
  <2>. QED BY <1>2, <2>2, <2>3, <2>4
<1>. HIDE DEF Heard
<1>3. CASE \E s \in Streams : RequestLease(s)
  <2>1. PICK s \in Streams : RequestLease(s)
    BY <1>3
  <2>2. CASE CreateRequestStream(s)
    BY <1>1, <2>2 DEF Heard
  <2>3. CASE ~CreateRequestStream(s)
    <3>1. Heard /\ UNCHANGED <<registry, open>>
      BY <1>2, <2>1, <2>3 DEF RequestLease, Wait, PassOn
    <3>. QED BY <3>1 DEF Heard
  <2>. QED BY <2>2, <2>3
<1>4. CASE \E s \in Streams : CancelRequest(s)
  <2>1. Heard /\ UNCHANGED <<registry, open>>
    BY <1>2, <1>4 DEF CancelRequest
  <2>. QED BY <2>1 DEF Heard
<1>5. CASE GrantsNext
  <2>1. CASE UNCHANGED <<stream, registry, open>>
    BY <2>1
  <2>2. CASE ~UNCHANGED <<stream, registry, open>>
    BY <1>1, <1>5, <2>2, HeadTyped DEF GrantsNext, PassOn, Heard
  <2>. QED BY <2>1, <2>2
<1>6. CASE RejectsNext
  <2>1. Heard \/ UNCHANGED stream
    BY <1>2, <1>6, HeadTyped DEF RejectsNext
  <2>2. UNCHANGED <<registry, open>>
    BY <1>6 DEF RejectsNext
  <2>. QED BY <2>1, <2>2 DEF Heard
<1>7. CASE \E s \in Calls : Cancels(s)
  <2>1. PICK s \in Calls : Cancels(s)
    BY <1>7
  <2>2. s \in Streams
    BY DEF Streams
  <2>3. Heard
    BY <1>2, <2>1, <2>2 DEF Cancels
  <2>. QED BY <2>1, <2>3 DEF Cancels, Heard
<1>8. CASE ClosesStream
  <2>. DEFINE id == Smallest(Head(running).left)
              s == registry[Requester][id]
  <2>1. UNCHANGED <<registry, open>> /\ running # <<>> /\ Head(running).left # {}
    BY <1>8 DEF ClosesStream, In
  <2>2. stream' = stream \/ (stream' = Tell(s) /\ s # Nobody)
    BY <1>8 DEF ClosesStream
  <2>3. id \in Ids
    <3>1. Head(running).left \subseteq Ids
      <4>1. running \in Seq(Step)
        BY DEF MuxTypeOK
      <4>2. Head(running) \in Step
        BY <2>1, <4>1
      <4>. QED BY <4>2 DEF Step
    <3>2. Head(running).left \subseteq Nat
      BY <3>1, IdsArePositive
    <3>. QED BY <2>1, <3>1, <3>2, SmallestExists, Zenon
  <2>4. s \in Streams \cup {Nobody}
    BY <2>3
  <2>. HIDE DEF s
  <2>5. Heard \/ UNCHANGED stream
    BY <1>2, <2>2, <2>4
  <2>. QED BY <2>1, <2>5 DEF Heard
<1>9. CASE UNCHANGED <<stream, registry, open>>
  BY <1>9
\* The responder's actions, and the close.
<1>10. CASE /\ UNCHANGED stream /\ registry'[Requester] = registry[Requester]
            /\ open'[Requester] => open[Requester]
  BY <1>10
<1>11. HandlesRequest \/ HandlesEnd \/ Closes \/ ResponderLeaves
         \/ (\E i \in Ids : Answers(i))
       => /\ UNCHANGED stream /\ registry'[Requester] = registry[Requester]
          /\ open'[Requester] => open[Requester]
  BY DEF HandlesRequest, HandlesEnd, Answers, Closes, ResponderLeaves, Disconnect
<1>. QED
  BY <1>3, <1>4, <1>5, <1>6, <1>7, <1>8, <1>9, <1>10, <1>11
  DEF Next, HandlesLease, Expires, Unleased, Receives, CompleteReturns,
      DropsAnswer, ConnectionCloseEnds, CloseEnds, vars, muxVars

LEMMA NextLatest ==
    ASSUME BasicInv, RoundInv, MessageInv, LatestInv, NoCallbackInLoop,
           [Next]_vars
    PROVE  LatestInv'
<1>. /\ TypeOK /\ MuxTypeOK
     /\ registry \in [End -> [Ids -> Streams \cup {Nobody}]]
  BY DEF BasicInv, TypeOK, MuxTypeOK
<1>. /\ wraps \in Nat /\ currentId \in Int
     /\ \A t \in Streams : /\ stream[t].id \in Int /\ stream[t].wrap \in Nat
                           /\ stream[t].heard \subseteq Streams
  BY IdsAreNumbers, StreamTyped DEF StreamState
<1>0. \A i \in Ids : i # 0
  BY IdsArePositive
<1>1. CASE UNCHANGED given /\ ~HandlesAnswer
  <2>1. /\ \A t \in Streams : /\ stream'[t].heard = stream[t].heard
                              /\ stream'[t].id = stream[t].id
                              /\ stream'[t].wrap = stream[t].wrap
        /\ \A i \in Ids : registry'[Requester][i]
                            \in {registry[Requester][i], Nobody}
        /\ open'[Requester] => open[Requester]
    BY <1>1, OthersKeepHeard, OthersKeepIds
  <2>2. \A i \in Ids : registry[Requester][i] \in Streams \cup {Nobody}
    OBVIOUS
  <2>. QED BY <2>1, <2>2 DEF LatestInv, HasId
<1>2. CASE HandlesAnswer
  <2>. DEFINE f == Head(wire[Requester])
              s == registry[Requester][f.id]
  <2>1. /\ wire[Requester] # <<>> /\ s # Nobody /\ UNCHANGED <<open, given>>
        /\ stream' = [Tell(s) EXCEPT ![s].heard = @ \cup {f.stream}]
        /\ registry' = [registry EXCEPT ![Requester][f.id] = Nobody]
    BY <1>2 DEF HandlesAnswer
  <2>2. f \in Named
    BY <2>1, HeadIn DEF MessageInv
  <2>3. f.id \in Ids /\ f.stream \in Streams /\ stream[f.stream].id = f.id
    BY <2>2 DEF Named, Message
  <2>4. s \in Streams /\ open[Requester]
    BY <2>1, <2>3 DEF BasicInv
  <2>5. stream[s].id = f.id
    BY <2>1, <2>3, <2>4 DEF BasicInv, RegistryInv
  <2>6. f.stream = s \/ stream[f.stream].wrap < stream[s].wrap
    BY <2>1, <2>3, <2>4 DEF LatestInv
  <2>. DEFINE u == f.stream
  <2>7. /\ u \in Streams /\ stream[u].id # 0 /\ stream[s].id # 0
        /\ u = s \/ stream[u].wrap < stream[s].wrap
        /\ stream'[s].heard = stream[s].heard \cup {u}
    BY <1>0, <2>1, <2>3, <2>4, <2>5, <2>6, HeardTyped
  <2>8. \A i \in Ids : registry'[Requester][i]
                         \in {registry[Requester][i], Nobody}
    BY <2>1, <2>3
  <2>9. \A t \in Streams : /\ stream'[t].id = stream[t].id
                           /\ stream'[t].wrap = stream[t].wrap
                           /\ t # s => stream'[t] = stream[t]
    BY <2>1, <2>3, <2>4, HeardTyped, ZenonT(60)
  <2>. HIDE DEF f, s, u
  <2>10. ASSUME NEW t \in Streams, NEW v \in stream'[t].heard
         PROVE  /\ stream'[t].id # 0 /\ stream'[v].id # 0
                /\ v = t \/ stream'[v].wrap < stream'[t].wrap
    <3>1. CASE t = s /\ v = u
      BY <2>4, <2>7, <2>9, <3>1
    <3>2. CASE ~(t = s /\ v = u)
      <4>1. v \in stream[t].heard
        BY <2>7, <2>9, <2>10, <3>2
      <4>2. /\ stream[t].id # 0 /\ stream[v].id # 0 /\ v \in Streams
            /\ v = t \/ stream[v].wrap < stream[t].wrap
        BY <4>1 DEF LatestInv, HasId
      <4>. QED BY <2>9, <4>2
    <3>. QED BY <3>1, <3>2
  <2>11. \A i \in Ids : registry[Requester][i] \in Streams \cup {Nobody}
    OBVIOUS
  <2>12. open'[Requester] =>
           \A i \in Ids, t \in Streams :
              LET r == registry'[Requester][i]
              IN  r # Nobody /\ stream'[t].id = i
                  => t = r \/ stream'[t].wrap < stream'[r].wrap
    BY <2>1, <2>8, <2>9, <2>11 DEF LatestInv
  <2>. QED BY <2>10, <2>12 DEF LatestInv, HasId
<1>3. CASE given' # given
  <2>1. PICK s \in Streams : /\ CreateRequestStream(s) /\ ~HasId(s)
                             /\ MayCall \/ In("grant")
    BY <1>3, GiverIs
  <2>2. Highest = currentId
    BY <2>1, RoundStack
  <2>3. /\ stream'[s].id = NextId /\ stream'[s].wrap = wraps'
        /\ stream'[s].heard = stream[s].heard
        /\ \A t \in Streams : t # s => stream'[t] = stream[t]
        /\ (wraps' = wraps /\ currentId < NextId) \/ wraps' = wraps + 1
        /\ NextId \in Ids /\ UNCHANGED open
        /\ registry[Requester][NextId] = Nobody
        /\ \A i \in Ids : registry'[Requester][i]
                            = IF i = NextId /\ s \in Calls THEN s
                              ELSE registry[Requester][i]
    BY <1>3, <2>1, GiveEffect
  <2>4. NextId \in Int
    BY <2>3, IdsArePositive
  <2>5. \A t \in Streams : \A v \in stream[t].heard : t # s /\ v # s
    BY <2>1 DEF LatestInv
  <2>6. ASSUME NEW t \in Streams, NEW v \in stream'[t].heard
        PROVE  /\ HasId(t)' /\ stream'[v].id # 0
               /\ v = t \/ stream'[v].wrap < stream'[t].wrap
    <3>1. v \in stream[t].heard
      BY <2>3, <2>6
    <3>2. t # s /\ v # s /\ v \in Streams
      BY <2>5, <3>1
    <3>. QED BY <2>3, <3>1, <3>2 DEF LatestInv, HasId
  <2>7. ASSUME open'[Requester], NEW i \in Ids, NEW t \in Streams,
               registry'[Requester][i] # Nobody, stream'[t].id = i
        PROVE  \/ t = registry'[Requester][i]
               \/ stream'[t].wrap < stream'[registry'[Requester][i]].wrap
    <3>1. CASE i = NextId
      <4>1. s \in Calls /\ registry'[Requester][i] = s
        BY <2>3, <2>7, <3>1
      <4>2. CASE t # s
        <5>1. stream[t].id = NextId /\ HasId(t) /\ stream'[t] = stream[t]
          BY <1>0, <2>3, <2>7, <3>1, <4>2 DEF HasId
        <5>2. /\ stream[t].wrap <= wraps
              /\ stream[t].wrap = wraps => NextId <= currentId
          BY <2>2, <5>1 DEF RoundInv
        <5>. QED BY <2>3, <2>4, <4>1, <5>1, <5>2
      <4>. QED BY <4>1, <4>2
    <3>2. CASE i # NextId
      <4>1. registry'[Requester][i] = registry[Requester][i] /\ t # s
        BY <2>3, <2>7, <3>2
      <4>2. stream[t].id = i /\ open[Requester]
        BY <2>3, <2>7, <4>1
      <4>3. registry[Requester][i] \in Streams
        BY <2>7, <4>1
      <4>4. registry[Requester][i] # s
        <5>1. stream[registry[Requester][i]].id = i
          BY <2>7, <4>1, <4>2 DEF BasicInv, RegistryInv
        <5>. QED BY <1>0, <2>1, <5>1 DEF HasId
      <4>5. \/ t = registry[Requester][i]
            \/ stream[t].wrap < stream[registry[Requester][i]].wrap
        BY <2>7, <4>1, <4>2 DEF LatestInv
      <4>. QED BY <2>3, <4>1, <4>3, <4>4, <4>5
    <3>. QED BY <3>1, <3>2
  <2>. QED BY <2>6, <2>7 DEF LatestInv, HasId
<1>. QED BY <1>1, <1>2, <1>3 DEF HandlesAnswer

LEMMA MessagesHold == Spec => []MessageInv
<1>1. Init => MessageInv
  BY DEF Init, MuxInit, MessageInv
<1>2. BasicInv /\ MessageInv /\ [Next]_vars => MessageInv'
  BY NextMessages
<1>. QED BY <1>1, <1>2, BasicsHold, PTL DEF Spec

LEMMA LatestHold == NoCallbackInLoop => (Spec => []LatestInv)
<1>. SUFFICES ASSUME NoCallbackInLoop PROVE Spec => []LatestInv
  OBVIOUS
<1>1. Init => LatestInv
  BY DEF Init, MuxInit, LatestInv
<1>2. BasicInv /\ RoundInv /\ MessageInv /\ LatestInv /\ [Next]_vars => LatestInv'
  BY NextLatest
<1>. QED BY <1>1, <1>2, BasicsHold, RoundsHold, MessagesHold, PTL DEF Spec

(***************************************************************************)
(* A stream is never given an answer meant for another one, unless all ids *)
(* have been through since that one was made: cancelled requests leave     *)
(* answers under way, and their ids are free again.                        *)
(***************************************************************************)
THEOREM AnswersAreOwn == NoCallbackInLoop => (Spec => []OwnAnswers)
<1>1. LatestInv => OwnAnswers
  BY DEF LatestInv, OwnAnswers
<1>. QED BY <1>1, LatestHold, PTL

-----------------------------------------------------------------------------
(* The ids at the responder: what one message, one answer or one end does  *)
(* to an orderly connection.                                               *)

Registries == [Ids -> Streams \cup {Nobody}]

\* Without its first message.
LEMMA EndedLater ==
    ASSUME NEW w \in Seq(Message), w # <<>>, NEW i
    PROVE  LET v == Tail(w)
           IN  /\ Len(v) = Len(w) - 1 /\ Len(v) \in Nat
               /\ \A k \in 1 .. Len(v) : v[k] = w[k + 1]
                                         /\ k + 1 \in 1 .. Len(w)
               /\ \A m, n \in Nat : n <= Len(v) /\ m >= 1
                     /\ Ended(w, m + 1, n + 1, i) => Ended(v, m, n, i)
               /\ \A n \in Nat : n <= Len(v) /\ ~Ends(w[1], i)
                     /\ Ended(w, 1, n + 1, i) => Ended(v, 1, n, i)
<1>. DEFINE v == Tail(w)
<1>1. /\ Len(v) = Len(w) - 1 /\ Len(v) \in Nat
      /\ \A k \in 1 .. Len(v) : v[k] = w[k + 1] /\ k + 1 \in 1 .. Len(w)
  OBVIOUS
<1>. HIDE DEF v
<1>2. ASSUME NEW m \in Nat, NEW n \in Nat, n <= Len(v), m >= 1,
             Ended(w, m + 1, n + 1, i)
      PROVE  Ended(v, m, n, i)
  <2>1. PICK j \in m + 1 .. n + 1 : Ends(w[j], i)
    BY <1>2 DEF Ended
  <2>2. j - 1 \in m .. n /\ j - 1 \in 1 .. Len(v) /\ (j - 1) + 1 = j
    BY <1>1, <1>2
  <2>3. v[j - 1] = w[j]
    BY <1>1, <2>2
  <2>. QED BY <2>1, <2>2, <2>3 DEF Ended
<1>3. ASSUME NEW n \in Nat, n <= Len(v), ~Ends(w[1], i), Ended(w, 1, n + 1, i)
      PROVE  Ended(v, 1, n, i)
  <2>1. PICK j \in 1 .. n + 1 : Ends(w[j], i)
    BY <1>3 DEF Ended
  <2>2. j # 1
    BY <1>3, <2>1
  <2>3. j \in 1 + 1 .. n + 1
    BY <1>3, <2>2
  <2>4. Ended(w, 1 + 1, n + 1, i)
    BY <2>1, <2>3 DEF Ended
  <2>. QED BY <1>2, <1>3, <2>4
<1>. QED BY <1>1, <1>2, <1>3 DEF v

\* With more messages.
LEMMA EndedStays ==
    ASSUME NEW w \in Seq(Message), NEW ms \in Seq(Message), NEW i
    PROVE  LET v == w \o ms
           IN  /\ Len(v) = Len(w) + Len(ms) /\ Len(w) \in Nat /\ Len(ms) \in Nat
               /\ \A k \in 1 .. Len(w) : v[k] = w[k] /\ k \in 1 .. Len(v)
               /\ \A m, n \in Int : n <= Len(w) /\ m >= 1 /\ Ended(w, m, n, i)
                     => Ended(v, m, n, i) /\ Ended(v, m, Len(v), i)
<1>. DEFINE v == w \o ms
<1>1. /\ Len(v) = Len(w) + Len(ms) /\ Len(w) \in Nat /\ Len(ms) \in Nat
      /\ \A k \in 1 .. Len(w) : v[k] = w[k] /\ k \in 1 .. Len(v)
  OBVIOUS
<1>. HIDE DEF v
<1>2. ASSUME NEW m \in Int, NEW n \in Int, n <= Len(w), m >= 1, Ended(w, m, n, i)
      PROVE  Ended(v, m, n, i) /\ Ended(v, m, Len(v), i)
  <2>1. PICK j \in m .. n : Ends(w[j], i)
    BY <1>2 DEF Ended
  <2>2. j \in 1 .. Len(w) /\ j \in m .. Len(v)
    BY <1>1, <1>2
  <2>. QED BY <1>1, <2>1, <2>2 DEF Ended
<1>. QED BY <1>1, <1>2 DEF v

\* A request arrives: its id is free, and is taken or not.
LEMMA RequestArrives ==
    ASSUME NEW w \in Seq(Message), NEW a \in Seq(Message),
           NEW r \in Registries, NEW q \in Registries, NEW up \in BOOLEAN,
           Orderly(w, r, q, up, a), w # <<>>, Asks(w[1]),
           NEW ms \in Seq(Message), NEW x \in Registries,
           \/ x = r
           \/ Enters(w[1]) /\ x = [r EXCEPT ![w[1].id] = w[1].stream],
           \/ ms = <<>>
           \/ x = r /\ \E m \in Message : ms = <<m>> /\ m.id = w[1].id
                                          /\ m.stream = w[1].stream
    PROVE  r[w[1].id] = Nobody /\ Orderly(Tail(w), x, q, up, a \o ms)
<1>. DEFINE v == Tail(w)
            f == w[1]
<1>1. /\ FreeOnArrival(w, r) /\ FreeBetween(w) /\ HeldOrEnded(w, r, q, up)
      /\ OnceOnly(w, r, a)
  BY DEF Orderly
<1>2. f \in Message /\ 1 \in 1 .. Len(w) /\ f.id \in Ids /\ f.stream \in Streams
      /\ \A k \in 1 .. Len(w) : w[k] \in Message /\ w[k].id \in Ids
  <2>1. 1 \in 1 .. Len(w) /\ \A k \in 1 .. Len(w) : w[k] \in Message
    OBVIOUS
  <2>2. \A m \in Message : m.id \in Ids /\ m.stream \in Streams
    BY DEF Message
  <2>. QED BY <2>1, <2>2
<1>3. \A i : ~Ends(f, i)
  BY DEF Ends, Asks
<1>4. r[f.id] = Nobody
  <2>1. ~Ended(w, 1, 1 - 1, f.id)
    BY DEF Ended
  <2>. QED BY <1>1, <1>2, <2>1 DEF FreeOnArrival
<1>5. \A i \in Ids : x[i] = r[i] \/ (i = f.id /\ x[i] = f.stream /\ Enters(f))
  BY <1>2 DEF Registries
<1>6. /\ Len(v) = Len(w) - 1 /\ Len(v) \in Nat
      /\ \A k \in 1 .. Len(v) : v[k] = w[k + 1] /\ k + 1 \in 1 .. Len(w)
  BY EndedLater
<1>7. \A i, m, n : m \in Nat /\ n \in Nat /\ n <= Len(v) /\ m >= 1
                   /\ Ended(w, m + 1, n + 1, i) => Ended(v, m, n, i)
  BY EndedLater
<1>8. \A i, n : n \in Nat /\ n <= Len(v) /\ Ended(w, 1, n + 1, i)
                => Ended(v, 1, n, i)
  BY <1>3, EndedLater
<1>. HIDE DEF v, f
<1>9. FreeOnArrival(v, x)
  <2>. SUFFICES ASSUME NEW k \in 1 .. Len(v), Asks(v[k]), x[v[k].id] # Nobody
                PROVE  Ended(v, 1, k - 1, v[k].id)
    BY DEF FreeOnArrival
  <2>1. /\ v[k] = w[k + 1] /\ k + 1 \in 1 .. Len(w) /\ v[k].id \in Ids
        /\ k - 1 \in Nat /\ k - 1 <= Len(v) /\ (k - 1) + 1 = k /\ (k + 1) - 1 = k
    BY <1>2, <1>6
  <2>2. CASE x[v[k].id] = r[v[k].id]
    <3>1. Ended(w, 1, (k + 1) - 1, v[k].id)
      BY <1>1, <2>1, <2>2 DEF FreeOnArrival
    <3>. QED BY <1>8, <2>1, <3>1
  <2>3. CASE v[k].id = f.id /\ Enters(f)
    <3>1. Ended(w, 1 + 1, (k + 1) - 1, f.id)
      BY <1>1, <1>2, <2>1, <2>3 DEF FreeBetween, f
    <3>2. Ended(w, 1 + 1, (k - 1) + 1, f.id) /\ 1 \in Nat /\ 1 >= 1
      BY <2>1, <3>1
    <3>. QED BY <1>7, <2>1, <2>3, <3>2
  <2>. QED BY <1>5, <2>1, <2>2, <2>3
<1>10. FreeBetween(v)
  <2>. SUFFICES ASSUME NEW k \in 1 .. Len(v), NEW l \in 1 .. Len(v), k < l,
                       Enters(v[k]), Asks(v[l]), v[k].id = v[l].id
                PROVE  Ended(v, k + 1, l - 1, v[k].id)
    BY DEF FreeBetween
  <2>1. /\ v[k] = w[k + 1] /\ k + 1 \in 1 .. Len(w)
        /\ v[l] = w[l + 1] /\ l + 1 \in 1 .. Len(w) /\ k + 1 < l + 1
        /\ l - 1 \in Nat /\ l - 1 <= Len(v) /\ (l - 1) + 1 = (l + 1) - 1
        /\ k + 1 \in Nat /\ k + 1 >= 1
    BY <1>6
  <2>2. Ended(w, (k + 1) + 1, (l + 1) - 1, v[k].id)
    BY <1>1, <2>1 DEF FreeBetween
  <2>. QED BY <1>7, <2>1, <2>2
<1>11. HeldOrEnded(v, x, q, up)
  <2>1. ASSUME NEW k \in 1 .. Len(v), Enters(v[k])
        PROVE  \/ up => q[v[k].id] = v[k].stream
               \/ Ended(v, k + 1, Len(v), v[k].id)
    <3>1. /\ v[k] = w[k + 1] /\ k + 1 \in 1 .. Len(w)
          /\ Len(w) = Len(v) + 1 /\ k + 1 \in Nat /\ k + 1 >= 1
          /\ Len(v) <= Len(v)
      BY <1>6
    <3>2. CASE Ended(w, (k + 1) + 1, Len(w), v[k].id)
      BY <1>6, <1>7, <3>1, <3>2
    <3>3. CASE ~Ended(w, (k + 1) + 1, Len(w), v[k].id)
      BY <1>1, <2>1, <3>1, <3>3 DEF HeldOrEnded
    <3>. QED BY <3>2, <3>3
  <2>2. ASSUME NEW i \in Ids, x[i] # Nobody
        PROVE  (up => q[i] = x[i]) \/ Ended(v, 1, Len(v), i)
    <3>1. Len(w) = Len(v) + 1 /\ Len(v) <= Len(v)
      BY <1>6
    <3>2. CASE x[i] = r[i]
      <4>1. (up => q[i] = r[i]) \/ Ended(w, 1, Len(w), i)
        BY <1>1, <2>2, <3>2 DEF HeldOrEnded
      <4>. QED BY <1>6, <1>8, <3>1, <3>2, <4>1
    <3>3. CASE i = f.id /\ x[i] = f.stream /\ Enters(f)
      <4>1. (up => q[i] = f.stream) \/ Ended(w, 1 + 1, Len(w), i)
        BY <1>1, <1>2, <3>3 DEF HeldOrEnded, f
      <4>2. 1 \in Nat /\ 1 >= 1
        OBVIOUS
      <4>. QED BY <1>6, <1>7, <3>1, <3>3, <4>1, <4>2
    <3>. QED BY <1>5, <3>2, <3>3
  <2>. QED BY <2>1, <2>2 DEF HeldOrEnded
<1>12. OnceOnly(v, x, a \o ms)
  <2>. DEFINE c == a \o ms
  <2>1. \A k, l \in 1 .. Len(v) :
           Asks(v[k]) /\ Asks(v[l]) /\ v[k].stream = v[l].stream => k = l
    <3>. SUFFICES ASSUME NEW k \in 1 .. Len(v), NEW l \in 1 .. Len(v),
                         Asks(v[k]), Asks(v[l]), v[k].stream = v[l].stream
                  PROVE  k = l
      OBVIOUS
    <3>1. /\ k + 1 \in 1 .. Len(w) /\ l + 1 \in 1 .. Len(w)
          /\ v[k] = w[k + 1] /\ v[l] = w[l + 1]
      BY <1>6
    <3>2. \A m, n \in 1 .. Len(w) :
             Asks(w[m]) /\ Asks(w[n]) /\ w[m].stream = w[n].stream => m = n
      BY <1>1 DEF OnceOnly
    <3>3. k + 1 = l + 1
      BY <3>1, <3>2
    <3>. QED BY <3>3
  <2>2. \A k \in 1 .. Len(v) : Asks(v[k]) => v[k].stream # f.stream
    <3>. SUFFICES ASSUME NEW k \in 1 .. Len(v), Asks(v[k]), v[k].stream = f.stream
                  PROVE  FALSE
      OBVIOUS
    <3>1. k + 1 = 1
      BY <1>1, <1>2, <1>6 DEF OnceOnly, f
    <3>. QED BY <3>1
  <2>3. \A k \in 1 .. Len(v), i \in Ids : Asks(v[k]) => x[i] # v[k].stream
    BY <1>1, <1>5, <1>6, <2>2 DEF OnceOnly
  <2>4. \A b \in 1 .. Len(c) :
           \/ b \in 1 .. Len(a) /\ c[b] = a[b]
           \/ x = r /\ c[b].id = f.id /\ c[b].stream = f.stream
    <3>1. CASE ms = <<>>
      BY <3>1
    <3>2. CASE \E m \in Message : ms = <<m>> /\ m.id = f.id /\ m.stream = f.stream
      <4>1. PICK m \in Message : ms = <<m>> /\ m.id = f.id /\ m.stream = f.stream
        BY <3>2
      <4>2. Len(c) = Len(a) + 1 /\ c[Len(a) + 1] = m
            /\ \A b \in 1 .. Len(a) : c[b] = a[b]
        BY <4>1
      <4>3. ms # <<>>
        BY <4>1
      <4>4. x = r
        BY <4>3
      <4>. HIDE DEF c
      <4>. QED BY <4>1, <4>2, <4>4
    <3>. QED BY <3>1, <3>2 DEF f
  <2>. HIDE DEF c
  <2>5. \A b \in 1 .. Len(a) : a[b].id \in Ids /\ a[b].stream # f.stream
        /\ r[a[b].id] # a[b].stream
    <3>1. \A b \in 1 .. Len(a) : a[b] \in Message
      OBVIOUS
    <3>. QED BY <1>1, <1>2, <3>1 DEF OnceOnly, Message, f
  <2>6. \A k \in 1 .. Len(v), b \in 1 .. Len(c) :
           Asks(v[k]) => v[k].stream # c[b].stream
    <3>1. \A k \in 1 .. Len(v), b \in 1 .. Len(a) :
             Asks(v[k]) => v[k].stream # a[b].stream
      BY <1>1, <1>6, SMTT(60) DEF OnceOnly
    <3>. QED BY <2>2, <2>4, <3>1, SMTT(60)
  <2>7. \A b \in 1 .. Len(c) : x[c[b].id] # c[b].stream
    BY <1>2, <1>4, <1>5, <2>4, <2>5, MultiplexerAssumption
  <2>. QED BY <2>1, <2>3, <2>6, <2>7 DEF OnceOnly, c
<1>. QED BY <1>4, <1>9, <1>10, <1>11, <1>12 DEF Orderly, v, f

\* The end of a request arrives: what had its id gives it back.
LEMMA EndArrives ==
    ASSUME NEW w \in Seq(Message), NEW a \in Seq(Message),
           NEW r \in Registries, NEW q \in Registries, NEW up \in BOOLEAN,
           Orderly(w, r, q, up, a), w # <<>>, ~Asks(w[1])
    PROVE  Orderly(Tail(w), [r EXCEPT ![w[1].id] = Nobody], q, up, a)
<1>. DEFINE v == Tail(w)
            f == w[1]
            x == [r EXCEPT ![f.id] = Nobody]
<1>1. /\ FreeOnArrival(w, r) /\ FreeBetween(w) /\ HeldOrEnded(w, r, q, up)
      /\ OnceOnly(w, r, a)
  BY DEF Orderly
<1>2. f \in Message /\ 1 \in 1 .. Len(w) /\ f.id \in Ids
      /\ \A k \in 1 .. Len(w) : w[k] \in Message /\ w[k].id \in Ids
      /\ \A b \in 1 .. Len(a) : a[b].id \in Ids /\ a[b].stream \in Streams
  <2>1. /\ 1 \in 1 .. Len(w) /\ \A k \in 1 .. Len(w) : w[k] \in Message
        /\ \A b \in 1 .. Len(a) : a[b] \in Message
    OBVIOUS
  <2>2. \A m \in Message : m.id \in Ids /\ m.stream \in Streams
    BY DEF Message
  <2>. QED BY <2>1, <2>2
<1>3. \A i : Ends(f, i) => i = f.id
  BY DEF Ends
<1>4. \A i \in Ids : x[i] = IF i = f.id THEN Nobody ELSE r[i]
  BY <1>2 DEF Registries
<1>5. /\ Len(v) = Len(w) - 1 /\ Len(v) \in Nat
      /\ \A k \in 1 .. Len(v) : v[k] = w[k + 1] /\ k + 1 \in 1 .. Len(w)
  BY EndedLater
<1>6. \A i, m, n : m \in Nat /\ n \in Nat /\ n <= Len(v) /\ m >= 1
                   /\ Ended(w, m + 1, n + 1, i) => Ended(v, m, n, i)
  BY EndedLater
<1>7. \A i, n : n \in Nat /\ n <= Len(v) /\ Ended(w, 1, n + 1, i) /\ i # f.id
                => Ended(v, 1, n, i)
  BY <1>3, EndedLater
<1>. HIDE DEF v, f, x
<1>8. FreeOnArrival(v, x)
  <2>. SUFFICES ASSUME NEW k \in 1 .. Len(v), Asks(v[k]), x[v[k].id] # Nobody
                PROVE  Ended(v, 1, k - 1, v[k].id)
    BY DEF FreeOnArrival
  <2>1. /\ v[k] = w[k + 1] /\ k + 1 \in 1 .. Len(w) /\ v[k].id \in Ids
        /\ k - 1 \in Nat /\ k - 1 <= Len(v) /\ (k - 1) + 1 = k /\ (k + 1) - 1 = k
    BY <1>2, <1>5
  <2>2. v[k].id # f.id /\ r[v[k].id] # Nobody
    BY <1>4, <2>1
  <2>3. Ended(w, 1, (k + 1) - 1, v[k].id)
    BY <1>1, <2>1, <2>2 DEF FreeOnArrival
  <2>. QED BY <1>7, <2>1, <2>2, <2>3
<1>9. FreeBetween(v)
  <2>. SUFFICES ASSUME NEW k \in 1 .. Len(v), NEW l \in 1 .. Len(v), k < l,
                       Enters(v[k]), Asks(v[l]), v[k].id = v[l].id
                PROVE  Ended(v, k + 1, l - 1, v[k].id)
    BY DEF FreeBetween
  <2>1. /\ v[k] = w[k + 1] /\ k + 1 \in 1 .. Len(w)
        /\ v[l] = w[l + 1] /\ l + 1 \in 1 .. Len(w) /\ k + 1 < l + 1
        /\ l - 1 \in Nat /\ l - 1 <= Len(v) /\ (l - 1) + 1 = (l + 1) - 1
        /\ k + 1 \in Nat /\ k + 1 >= 1
    BY <1>5
  <2>2. Ended(w, (k + 1) + 1, (l + 1) - 1, v[k].id)
    BY <1>1, <2>1 DEF FreeBetween
  <2>. QED BY <1>6, <2>1, <2>2
<1>10. HeldOrEnded(v, x, q, up)
  <2>1. ASSUME NEW k \in 1 .. Len(v), Enters(v[k])
        PROVE  \/ up => q[v[k].id] = v[k].stream
               \/ Ended(v, k + 1, Len(v), v[k].id)
    <3>1. /\ v[k] = w[k + 1] /\ k + 1 \in 1 .. Len(w)
          /\ Len(w) = Len(v) + 1 /\ k + 1 \in Nat /\ k + 1 >= 1
          /\ Len(v) <= Len(v)
      BY <1>5
    <3>2. CASE Ended(w, (k + 1) + 1, Len(w), v[k].id)
      BY <1>5, <1>6, <3>1, <3>2
    <3>3. CASE ~Ended(w, (k + 1) + 1, Len(w), v[k].id)
      BY <1>1, <2>1, <3>1, <3>3 DEF HeldOrEnded
    <3>. QED BY <3>2, <3>3
  <2>2. ASSUME NEW i \in Ids, x[i] # Nobody
        PROVE  (up => q[i] = x[i]) \/ Ended(v, 1, Len(v), i)
    <3>1. Len(w) = Len(v) + 1 /\ Len(v) <= Len(v)
      BY <1>5
    <3>2. x[i] = r[i] /\ i # f.id
      BY <1>4, <2>2
    <3>3. (up => q[i] = r[i]) \/ Ended(w, 1, Len(w), i)
      BY <1>1, <2>2, <3>2 DEF HeldOrEnded
    <3>. QED BY <1>5, <1>7, <3>1, <3>2, <3>3
  <2>. QED BY <2>1, <2>2 DEF HeldOrEnded
<1>11. OnceOnly(v, x, a)
  <2>1. \A k, l \in 1 .. Len(v) :
           Asks(v[k]) /\ Asks(v[l]) /\ v[k].stream = v[l].stream => k = l
    <3>. SUFFICES ASSUME NEW k \in 1 .. Len(v), NEW l \in 1 .. Len(v),
                         Asks(v[k]), Asks(v[l]), v[k].stream = v[l].stream
                  PROVE  k = l
      OBVIOUS
    <3>1. k + 1 = l + 1
      BY <1>1, <1>5, SMTT(60) DEF OnceOnly
    <3>. QED BY <3>1
  <2>2. \A k \in 1 .. Len(v) : v[k].stream \in Streams
    <3>1. \A k \in 1 .. Len(v) : v[k] \in Message
      BY <1>2, <1>5
    <3>. QED BY <3>1 DEF Message
  <2>3. \A k \in 1 .. Len(v), i \in Ids : Asks(v[k]) => x[i] # v[k].stream
    BY <1>1, <1>4, <1>5, <2>2, MultiplexerAssumption DEF OnceOnly
  <2>4. \A k \in 1 .. Len(v), b \in 1 .. Len(a) :
           Asks(v[k]) => v[k].stream # a[b].stream
    <3>1. \A k \in 1 .. Len(w), b \in 1 .. Len(a) :
             Asks(w[k]) => w[k].stream # a[b].stream
      BY <1>1 DEF OnceOnly
    <3>. QED BY <1>5, <3>1
  <2>5. \A b \in 1 .. Len(a) : x[a[b].id] # a[b].stream
    BY <1>1, <1>2, <1>4, MultiplexerAssumption DEF OnceOnly
  <2>. QED BY <2>1, <2>3, <2>4, <2>5 DEF OnceOnly
<1>. QED BY <1>8, <1>9, <1>10, <1>11 DEF Orderly, v, f, x

\* The responder answers, or not: its request is done with.
LEMMA AnswerGiven ==
    ASSUME NEW w \in Seq(Message), NEW a \in Seq(Message),
           NEW r \in Registries, NEW q \in Registries, NEW up \in BOOLEAN,
           Orderly(w, r, q, up, a), NEW i \in Ids, r[i] # Nobody,
           NEW ms \in Seq(Message),
           \/ ms = <<>>
           \/ \E m \in Message : ms = <<m>> /\ m.id = i /\ m.stream = r[i]
    PROVE  Orderly(w, [r EXCEPT ![i] = Nobody], q, up, a \o ms)
<1>. DEFINE x == [r EXCEPT ![i] = Nobody]
            c == a \o ms
<1>1. /\ FreeOnArrival(w, r) /\ FreeBetween(w) /\ HeldOrEnded(w, r, q, up)
      /\ OnceOnly(w, r, a)
  BY DEF Orderly
<1>2. /\ \A k \in 1 .. Len(w) : w[k].id \in Ids /\ w[k].stream \in Streams
      /\ \A b \in 1 .. Len(a) : a[b].id \in Ids /\ a[b].stream \in Streams
  <2>1. /\ \A k \in 1 .. Len(w) : w[k] \in Message
        /\ \A b \in 1 .. Len(a) : a[b] \in Message
    OBVIOUS
  <2>2. \A m \in Message : m.id \in Ids /\ m.stream \in Streams
    BY DEF Message
  <2>. QED BY <2>1, <2>2
<1>3. \A j \in Ids : x[j] = IF j = i THEN Nobody ELSE r[j]
  BY DEF Registries
<1>4. r[i] \in Streams
  BY DEF Registries
<1>5. \A b \in 1 .. Len(c) : \/ b \in 1 .. Len(a) /\ c[b] = a[b]
                             \/ c[b].id = i /\ c[b].stream = r[i]
  <2>1. CASE ms = <<>>
    BY <2>1
  <2>2. CASE \E m \in Message : ms = <<m>> /\ m.id = i /\ m.stream = r[i]
    <3>1. PICK m \in Message : ms = <<m>> /\ m.id = i /\ m.stream = r[i]
      BY <2>2
    <3>2. Len(c) = Len(a) + 1 /\ c[Len(a) + 1] = m
          /\ \A b \in 1 .. Len(a) : c[b] = a[b]
      BY <3>1
    <3>. HIDE DEF c
    <3>. QED BY <3>1, <3>2
  <2>. QED BY <2>1, <2>2
<1>. HIDE DEF x, c
<1>6. FreeOnArrival(w, x)
  BY <1>1, <1>2, <1>3 DEF FreeOnArrival
<1>7. HeldOrEnded(w, x, q, up)
  BY <1>1, <1>3 DEF HeldOrEnded
<1>8. OnceOnly(w, x, c)
  <2>1. \A k \in 1 .. Len(w), j \in Ids : Asks(w[k]) => x[j] # w[k].stream
    BY <1>1, <1>2, <1>3, MultiplexerAssumption DEF OnceOnly
  <2>2. \A k \in 1 .. Len(w), b \in 1 .. Len(c) :
           Asks(w[k]) => w[k].stream # c[b].stream
    BY <1>1, <1>5 DEF OnceOnly
  <2>3. \A b \in 1 .. Len(c) : x[c[b].id] # c[b].stream
    BY <1>1, <1>2, <1>3, <1>4, <1>5, MultiplexerAssumption, SMTT(60) DEF OnceOnly
  <2>. QED BY <1>1, <2>1, <2>2, <2>3 DEF OnceOnly
<1>. QED BY <1>1, <1>6, <1>7, <1>8 DEF Orderly, x, c

\* An answer leaves the wire; if it ends a request, the request was its own.
LEMMA AnswerTaken ==
    ASSUME NEW w \in Seq(Message), NEW a \in Seq(Message),
           NEW r \in Registries, NEW q \in Registries, NEW up \in BOOLEAN,
           Orderly(w, r, q, up, a), a # <<>>
    PROVE  /\ Orderly(w, r, q, up, Tail(a))
           /\ q[a[1].id] = a[1].stream
              => Orderly(w, r, [q EXCEPT ![a[1].id] = Nobody], up, Tail(a))
<1>. DEFINE c == Tail(a)
            f == a[1]
            y == [q EXCEPT ![f.id] = Nobody]
<1>1. /\ FreeOnArrival(w, r) /\ FreeBetween(w) /\ HeldOrEnded(w, r, q, up)
      /\ OnceOnly(w, r, a)
  BY DEF Orderly
<1>2. \A b \in 1 .. Len(c) : c[b] = a[b + 1] /\ b + 1 \in 1 .. Len(a)
  OBVIOUS
<1>3. 1 \in 1 .. Len(a) /\ f.id \in Ids
  <2>1. 1 \in 1 .. Len(a) /\ f \in Message
    OBVIOUS
  <2>. QED BY <2>1 DEF Message
<1>4. \A k \in 1 .. Len(w) : w[k].id \in Ids
  <2>1. \A k \in 1 .. Len(w) : w[k] \in Message
    OBVIOUS
  <2>. QED BY <2>1 DEF Message
<1>5. \A i \in Ids : y[i] = IF i = f.id THEN Nobody ELSE q[i]
  BY DEF Registries
<1>. HIDE DEF c, f, y
<1>6. OnceOnly(w, r, c)
  BY <1>1, <1>2 DEF OnceOnly
<1>7. ASSUME q[f.id] = f.stream
      PROVE  HeldOrEnded(w, r, y, up)
  <2>1. \A k \in 1 .. Len(w) : Asks(w[k]) => w[k].stream # f.stream
    BY <1>1, <1>3 DEF OnceOnly, f
  <2>2. r[f.id] # f.stream
    BY <1>1, <1>3 DEF OnceOnly, f
  <2>3. \A k \in 1 .. Len(w) : Enters(w[k]) =>
          \/ up => y[w[k].id] = w[k].stream
          \/ Ended(w, k + 1, Len(w), w[k].id)
    BY <1>1, <1>4, <1>5, <1>7, <2>1 DEF HeldOrEnded, Enters
  <2>4. \A i \in Ids : r[i] # Nobody =>
          (up => y[i] = r[i]) \/ Ended(w, 1, Len(w), i)
    BY <1>1, <1>5, <1>7, <2>2 DEF HeldOrEnded
  <2>. QED BY <2>3, <2>4 DEF HeldOrEnded
<1>. QED BY <1>1, <1>6, <1>7 DEF Orderly, c, f, y

\* The connection is down at one end: nothing is sent any more.
LEMMA GoesDown ==
    ASSUME NEW w \in Seq(Message), NEW a \in Seq(Message),
           NEW r \in Registries, NEW q \in Registries, NEW y \in Registries,
           NEW up \in BOOLEAN, Orderly(w, r, q, up, a)
    PROVE  /\ Orderly(w, r, y, FALSE, a)
           /\ Orderly(w, r, y, FALSE, <<>>)
           /\ Orderly(<<>>, r, y, FALSE, a)
<1>1. HeldOrEnded(w, r, y, FALSE) /\ HeldOrEnded(<<>>, r, y, FALSE)
  BY DEF HeldOrEnded
<1>2. OnceOnly(w, r, <<>>) /\ OnceOnly(<<>>, r, a)
  BY DEF Orderly, OnceOnly
<1>3. FreeOnArrival(<<>>, r) /\ FreeBetween(<<>>)
  BY DEF FreeOnArrival, FreeBetween
<1>. QED BY <1>1, <1>2, <1>3 DEF Orderly

\* A request is cancelled: its id is free again, and the CANCEL is on its way.
LEMMA CancelSent ==
    ASSUME NEW w \in Seq(Message), NEW a \in Seq(Message),
           NEW r \in Registries, NEW q \in Registries,
           Orderly(w, r, q, TRUE, a),
           NEW m \in Message, ~Asks(m)
    PROVE  Orderly(w \o <<m>>, r, [q EXCEPT ![m.id] = Nobody], TRUE, a)
<1>. DEFINE i == m.id
            v == w \o <<m>>
            y == [q EXCEPT ![i] = Nobody]
<1>1. /\ FreeOnArrival(w, r) /\ FreeBetween(w) /\ HeldOrEnded(w, r, q, TRUE)
      /\ OnceOnly(w, r, a)
  BY DEF Orderly
<1>2. i \in Ids /\ Ends(m, i)
  BY DEF Message, Ends, Asks
<1>3. \A k \in 1 .. Len(w) : w[k].id \in Ids
  <2>1. \A k \in 1 .. Len(w) : w[k] \in Message
    OBVIOUS
  <2>. QED BY <2>1 DEF Message
<1>4. \A j \in Ids : y[j] = IF j = i THEN Nobody ELSE q[j]
  BY <1>2 DEF Registries
<1>5. /\ Len(v) = Len(w) + 1 /\ Len(w) \in Nat /\ v[Len(w) + 1] = m
      /\ \A k \in 1 .. Len(w) : v[k] = w[k] /\ k \in 1 .. Len(v)
  OBVIOUS
<1>6. \A j, n, l : n \in Int /\ l \in Int /\ l <= Len(w) /\ n >= 1
                   /\ Ended(w, n, l, j) => Ended(v, n, l, j) /\ Ended(v, n, Len(v), j)
  <2>1. <<m>> \in Seq(Message)
    OBVIOUS
  <2>. QED BY <2>1, EndedStays
<1>. HIDE DEF v, y, i
<1>7. \A n \in 1 .. Len(w) + 1 : Ended(v, n, Len(v), i)
  BY <1>2, <1>5 DEF Ended
<1>8. \A k \in 1 .. Len(v) : Asks(v[k]) => k \in 1 .. Len(w)
  BY <1>5
<1>9. FreeOnArrival(v, r)
  <2>. SUFFICES ASSUME NEW k \in 1 .. Len(w), Asks(w[k]), r[w[k].id] # Nobody
                PROVE  Ended(v, 1, k - 1, w[k].id)
    BY <1>5, <1>8 DEF FreeOnArrival
  <2>1. k - 1 \in Int /\ k - 1 <= Len(w) /\ 1 \in Int /\ 1 >= 1
    OBVIOUS
  <2>. QED BY <1>1, <1>6, <2>1 DEF FreeOnArrival
<1>10. FreeBetween(v)
  <2>. SUFFICES ASSUME NEW k \in 1 .. Len(w), NEW l \in 1 .. Len(w), k < l,
                       Enters(w[k]), Asks(w[l]), w[k].id = w[l].id
                PROVE  Ended(v, k + 1, l - 1, w[k].id)
    BY <1>5, <1>8 DEF FreeBetween, Enters
  <2>1. l - 1 \in Int /\ l - 1 <= Len(w) /\ k + 1 \in Int /\ k + 1 >= 1
    OBVIOUS
  <2>. QED BY <1>1, <1>6, <2>1 DEF FreeBetween
<1>11. HeldOrEnded(v, r, y, TRUE)
  <2>1. ASSUME NEW k \in 1 .. Len(w), Enters(w[k])
        PROVE  \/ y[w[k].id] = w[k].stream
               \/ Ended(v, k + 1, Len(v), w[k].id)
    <3>1. k + 1 \in Int /\ k + 1 >= 1 /\ k + 1 \in 1 .. Len(w) + 1
          /\ Len(w) \in Int /\ Len(w) <= Len(w)
      BY <1>5
    <3>2. q[w[k].id] = w[k].stream \/ Ended(w, k + 1, Len(w), w[k].id)
      BY <1>1, <2>1 DEF HeldOrEnded
    <3>. QED BY <1>3, <1>4, <1>6, <1>7, <3>1, <3>2
  <2>2. ASSUME NEW j \in Ids, r[j] # Nobody
        PROVE  y[j] = r[j] \/ Ended(v, 1, Len(v), j)
    <3>1. 1 \in Int /\ 1 >= 1 /\ 1 \in 1 .. Len(w) + 1
          /\ Len(w) \in Int /\ Len(w) <= Len(w)
      BY <1>5
    <3>2. q[j] = r[j] \/ Ended(w, 1, Len(w), j)
      BY <1>1, <2>2 DEF HeldOrEnded
    <3>. QED BY <1>4, <1>6, <1>7, <3>1, <3>2
  <2>3. \A k \in 1 .. Len(v) : Enters(v[k]) =>
           \/ TRUE => y[v[k].id] = v[k].stream
           \/ Ended(v, k + 1, Len(v), v[k].id)
    BY <1>5, <1>8, <2>1 DEF Enters
  <2>. QED BY <2>2, <2>3 DEF HeldOrEnded
<1>12. OnceOnly(v, r, a)
  BY <1>1, <1>5, <1>8, SMTT(60) DEF OnceOnly
<1>. QED BY <1>9, <1>10, <1>11, <1>12 DEF Orderly, v, y, i

\* A request is sent with an id that was free, and registered or followed by
\* its last fragment.
LEMMA RequestSent ==
    ASSUME NEW w \in Seq(Message), NEW a \in Seq(Message),
           NEW r \in Registries, NEW q \in Registries, NEW y \in Registries,
           Orderly(w, r, q, TRUE, a),
           NEW m \in Message, Asks(m), q[m.id] = Nobody,
           \A k \in 1 .. Len(w) : w[k].stream # m.stream,
           \A i \in Ids : r[i] # m.stream,
           \A b \in 1 .. Len(a) : a[b].stream # m.stream,
           \A i \in Ids : i # m.id => y[i] = q[i],
           NEW ms \in Seq(Message),
           \/ ms = <<m>> /\ (Enters(m) => y[m.id] = m.stream)
           \/ \E n \in Message : ms = <<m, n>> /\ Ends(n, m.id)
    PROVE  Orderly(w \o ms, r, y, TRUE, a)
<1>. DEFINE i == m.id
            v == w \o ms
            L == Len(w)
<1>1. /\ FreeOnArrival(w, r) /\ FreeBetween(w) /\ HeldOrEnded(w, r, q, TRUE)
      /\ OnceOnly(w, r, a)
  BY DEF Orderly
<1>2. i \in Ids
  BY DEF Message
<1>3. \A k \in 1 .. L : w[k].id \in Ids /\ w[k].stream \in Streams
  <2>1. \A k \in 1 .. L : w[k] \in Message
    OBVIOUS
  <2>. QED BY <2>1 DEF Message
<1>4. /\ L \in Nat /\ v[L + 1] = m /\ L + 1 \in 1 .. Len(v)
      /\ \A k \in 1 .. L : v[k] = w[k] /\ k \in 1 .. Len(v)
      /\ \/ Len(v) = L + 1 /\ (Enters(m) => y[i] = m.stream)
         \/ Len(v) = L + 2 /\ Ends(v[L + 2], i)
  <2>1. CASE ms = <<m>> /\ (Enters(m) => y[m.id] = m.stream)
    BY <2>1
  <2>2. CASE \E n \in Message : ms = <<m, n>> /\ Ends(n, m.id)
    <3>1. PICK n \in Message : ms = <<m, n>> /\ Ends(n, m.id)
      BY <2>2
    <3>2. Len(v) = L + 2 /\ v[L + 1] = m /\ v[L + 2] = n
          /\ \A k \in 1 .. L : v[k] = w[k]
      BY <3>1
    <3>. QED BY <3>1, <3>2
  <2>. QED BY <2>1, <2>2
<1>5. \A j, n, l : n \in Int /\ l \in Int /\ l <= L /\ n >= 1
                   /\ Ended(w, n, l, j) => Ended(v, n, l, j) /\ Ended(v, n, Len(v), j)
  BY EndedStays
<1>. HIDE DEF v, i, L
<1>6. \A k \in 1 .. Len(v) : Asks(v[k]) => k \in 1 .. L \/ k = L + 1
  BY <1>4 DEF Ends, Asks
\* Whatever had that id before is ended.
<1>7. L \in Int /\ L <= L /\ 1 \in Int /\ 1 >= 1 /\ 1 + L = L + 1 /\ (L + 1) - 1 = L
  <2>1. L \in Nat
    BY <1>4
  <2>. QED BY <2>1
<1>8. r[i] # Nobody => Ended(w, 1, L, i)
  BY <1>1, <1>2 DEF HeldOrEnded, i, L, Registries
<1>9. \A k \in 1 .. L : Enters(w[k]) /\ w[k].id = i => Ended(w, k + 1, L, i)
  BY <1>1, <1>3, MultiplexerAssumption DEF HeldOrEnded, i, L
<1>10. FreeOnArrival(v, r)
  <2>. SUFFICES ASSUME NEW k \in 1 .. Len(v), Asks(v[k]), r[v[k].id] # Nobody
                PROVE  Ended(v, 1, k - 1, v[k].id)
    BY DEF FreeOnArrival
  <2>1. CASE k \in 1 .. L
    <3>1. k - 1 \in Int /\ k - 1 <= L /\ v[k] = w[k]
      BY <1>4, <2>1
    <3>2. Ended(w, 1, k - 1, v[k].id)
      BY <1>1, <2>1, <3>1 DEF FreeOnArrival, L
    <3>. QED BY <1>5, <1>7, <3>1, <3>2
  <2>2. CASE k = L + 1
    <3>1. v[k].id = i /\ Ended(w, 1, L, i)
      BY <1>4, <1>8, <2>2 DEF i
    <3>. QED BY <1>5, <1>7, <2>2, <3>1
  <2>. QED BY <1>6, <2>1, <2>2
<1>11. FreeBetween(v)
  <2>. SUFFICES ASSUME NEW k \in 1 .. Len(v), NEW l \in 1 .. Len(v), k < l,
                       Enters(v[k]), Asks(v[l]), v[k].id = v[l].id
                PROVE  Ended(v, k + 1, l - 1, v[k].id)
    BY DEF FreeBetween
  <2>1. k \in 1 .. L /\ v[k] = w[k] /\ k + 1 \in Int /\ k + 1 >= 1
    BY <1>4, <1>6
  <2>2. CASE l \in 1 .. L
    <3>1. l - 1 \in Int /\ l - 1 <= L /\ v[l] = w[l]
      BY <1>4, <2>2
    <3>2. Ended(w, k + 1, l - 1, v[k].id)
      BY <1>1, <2>1, <2>2, <3>1 DEF FreeBetween, L
    <3>. QED BY <1>5, <2>1, <3>1, <3>2
  <2>3. CASE l = L + 1
    <3>1. v[k].id = i /\ Ended(w, k + 1, L, i)
      BY <1>4, <1>9, <2>1, <2>3 DEF i
    <3>. QED BY <1>5, <1>7, <2>1, <2>3, <3>1
  <2>. QED BY <1>6, <2>2, <2>3
<1>12. HeldOrEnded(v, r, y, TRUE)
  <2>1. ASSUME NEW k \in 1 .. L, Enters(w[k])
        PROVE  y[w[k].id] = w[k].stream \/ Ended(v, k + 1, Len(v), w[k].id)
    <3>1. k + 1 \in Int /\ k + 1 >= 1
      BY <1>4
    <3>2. CASE w[k].id = i
      BY <1>5, <1>7, <1>9, <2>1, <3>1, <3>2
    <3>3. CASE w[k].id # i
      <4>1. q[w[k].id] = w[k].stream \/ Ended(w, k + 1, L, w[k].id)
        BY <1>1, <2>1 DEF HeldOrEnded, L
      <4>. QED BY <1>3, <1>5, <1>7, <3>1, <3>3, <4>1 DEF i
    <3>. QED BY <3>2, <3>3
  <2>2. Enters(m) => y[i] = m.stream \/ Ended(v, (L + 1) + 1, Len(v), i)
    BY <1>4 DEF Ended
  <2>3. ASSUME NEW j \in Ids, r[j] # Nobody
        PROVE  y[j] = r[j] \/ Ended(v, 1, Len(v), j)
    <3>1. CASE j = i
      BY <1>5, <1>7, <1>8, <2>3, <3>1
    <3>2. CASE j # i
      <4>1. q[j] = r[j] \/ Ended(w, 1, L, j)
        BY <1>1, <2>3 DEF HeldOrEnded, L
      <4>. QED BY <1>5, <1>7, <3>2, <4>1 DEF i
    <3>. QED BY <3>1, <3>2
  <2>4. \A k \in 1 .. Len(v) : Enters(v[k]) =>
           \/ TRUE => y[v[k].id] = v[k].stream
           \/ Ended(v, k + 1, Len(v), v[k].id)
    BY <1>4, <1>6, <2>1, <2>2 DEF Enters, i
  <2>. QED BY <2>3, <2>4 DEF HeldOrEnded
<1>13. OnceOnly(v, r, a)
  <2>1. \A k \in 1 .. Len(v) : Asks(v[k]) =>
           \/ k \in 1 .. L /\ v[k] = w[k] /\ v[k].stream # m.stream
           \/ k = L + 1 /\ v[k] = m
    BY <1>4, <1>6 DEF L
  <2>2. \A k, l \in 1 .. Len(v) :
           Asks(v[k]) /\ Asks(v[l]) /\ v[k].stream = v[l].stream => k = l
    BY <1>1, <2>1 DEF OnceOnly, L
  <2>3. \A k \in 1 .. Len(v), j \in Ids : Asks(v[k]) => r[j] # v[k].stream
    BY <1>1, <2>1 DEF OnceOnly, L
  <2>4. \A k \in 1 .. Len(v), b \in 1 .. Len(a) :
           Asks(v[k]) => v[k].stream # a[b].stream
    BY <1>1, <2>1 DEF OnceOnly, L
  <2>. QED BY <1>1, <2>2, <2>3, <2>4 DEF OnceOnly
<1>. QED BY <1>10, <1>11, <1>12, <1>13 DEF Orderly, v

\* What is heard once was heard for good.
LEMMA MisledForGood ==
    ASSUME BasicInv, MessageInv, [Next]_vars, Unmisled'
    PROVE  Unmisled /\ (HandlesAnswer =>
              LET f == Head(wire[Requester])
              IN  registry[Requester][f.id] = f.stream)
<1>. MuxTypeOK /\ registry \in [End -> [Ids -> Streams \cup {Nobody}]]
  BY DEF BasicInv, TypeOK, MuxTypeOK
<1>1. CASE HandlesAnswer
  <2>. DEFINE f == Head(wire[Requester])
              s == registry[Requester][f.id]
  <2>1. /\ wire[Requester] # <<>> /\ s # Nobody
        /\ stream' = [Tell(s) EXCEPT ![s].heard = @ \cup {f.stream}]
    BY <1>1 DEF HandlesAnswer
  <2>2. f \in Named
    BY <2>1, HeadIn DEF MessageInv
  <2>3. f.id \in Ids /\ f.stream \in Streams /\ s \in Streams
    BY <2>1, <2>2 DEF Named, Message
  <2>. HIDE DEF f, s
  <2>4. stream'[s].heard = stream[s].heard \cup {f.stream}
        /\ \A t \in Streams : t # s => stream'[t] = stream[t]
    BY <2>1, <2>3, HeardTyped
  <2>5. \A t \in Streams : stream[t].heard \subseteq stream'[t].heard
    BY <2>4
  <2>6. f.stream = s
    BY <2>3, <2>4 DEF Unmisled
  <2>. QED BY <2>5, <2>6 DEF Unmisled, f, s
<1>2. CASE UNCHANGED given /\ ~HandlesAnswer
  BY <1>2, OthersKeepHeard DEF Unmisled
<1>3. CASE given' # given
  <2>1. PICK s \in Streams : CreateRequestStream(s)
    BY <1>3, GiverIs
  <2>2. \A t \in Streams : stream'[t].heard = stream[t].heard
    BY <1>3, <2>1, GiveEffect
  <2>. QED BY <1>3, <2>2 DEF Unmisled, HandlesAnswer
<1>. QED BY <1>1, <1>2, <1>3

LEMMA NextCollision ==
    ASSUME BasicInv, MessageInv, CollisionInv, [Next]_vars
    PROVE  CollisionInv'
<1>. SUFFICES ASSUME Unmisled'
              PROVE  Orderly(wire'[Responder], registry'[Responder],
                             registry'[Requester],
                             open'[Requester] /\ open'[Responder],
                             wire'[Requester])
  BY DEF CollisionInv
<1>. DEFINE w == wire[Responder]
            a == wire[Requester]
            r == registry[Responder]
            q == registry[Requester]
            up == open[Requester] /\ open[Responder]
<1>. /\ TypeOK /\ MuxTypeOK
     /\ registry \in [End -> [Ids -> Streams \cup {Nobody}]]
     /\ wire \in [End -> Seq(Message)]
     /\ open \in [End -> BOOLEAN]
     /\ given \in Seq(Streams)
  BY DEF BasicInv, TypeOK, MuxTypeOK
<1>1. /\ w \in Seq(Message) /\ a \in Seq(Message)
      /\ r \in Registries /\ q \in Registries /\ up \in BOOLEAN
  BY DEF Registries
<1>2. Orderly(w, r, q, up, a)
  BY MisledForGood DEF CollisionInv
<1>3. \A e \in End, ms \in Seq(Message) :
         Sent(e, ms) = IF up THEN ms ELSE <<>>
  BY DEF Sent, Peer
\* The messages and the entries there are belong to requests that have an id.
<1>4. /\ \A k \in 1 .. Len(w) : stream[w[k].stream].id = w[k].id /\ w[k].id \in Ids
      /\ \A b \in 1 .. Len(a) : stream[a[b].stream].id = a[b].id /\ a[b].id \in Ids
      /\ \A i \in Ids : r[i] # Nobody => stream[r[i]].id = i
  <2>1. w \in Seq(Named) /\ a \in Seq(Named)
    BY DEF MessageInv
  <2>2. \A m \in Named : stream[m.stream].id = m.id /\ m.id \in Ids
    BY DEF Named, Message
  <2>3. /\ \A k \in 1 .. Len(w) : w[k] \in Named
        /\ \A b \in 1 .. Len(a) : a[b] \in Named
    BY <2>1
  <2>. QED BY <2>2, <2>3 DEF MessageInv
<1>5. CASE given' # given
  <2>1. PICK s \in Streams : CreateRequestStream(s) /\ ~HasId(s)
    BY <1>5, GiverIs
  <2>2. /\ ~muxDone /\ Free # {} /\ NextId \in Ids
        /\ q[NextId] = Nobody
        /\ \A i \in Ids : registry'[Requester][i]
                            = IF i = NextId /\ s \in Calls THEN s ELSE q[i]
        /\ registry'[Responder] = r
        /\ UNCHANGED open
    BY <1>5, <2>1, GiveEffect
  <2>. DEFINE y == registry'[Requester]
              m(b) == Msg("REQUEST", NextId, s, b)
              n == Msg("PAYLOAD", NextId, s, FALSE)
  <2>3. y \in Registries
    BY <2>1, CreateKeepsTypes, <1>5, GiverIs DEF Registries, MuxTypeOK
  <2>4. /\ \A b \in BOOLEAN : /\ m(b) \in Message /\ m(b).id = NextId
                              /\ m(b).stream = s /\ Asks(m(b))
                              /\ Enters(m(b)) <=> s \in Calls \/ b
        /\ n \in Message /\ Ends(n, NextId)
    <3>1. /\ \A b \in BOOLEAN : m(b) \in Message
          /\ n \in Message
      BY <2>2, MsgTyped
    <3>. QED BY <3>1 DEF Msg, Asks, Ends, Enters
  <2>5. \E b \in BOOLEAN :
           \/ b = FALSE /\ Send(Requester, <<m(b)>>)
           \/ s \notin Calls /\ Send(Requester, <<m(b)>> \o If(b, n))
    <3>1. IF s \in Calls THEN StartCall(s, NextId) ELSE StartFireAndForget(s, NextId)
      BY <2>1, <2>2 DEF CreateRequestStream
    <3>. QED BY <3>1 DEF StartCall, StartFireAndForget
  <2>6. \A i \in Ids : i # NextId => y[i] = q[i]
    BY <2>2
  <2>7. s \in Calls => y[NextId] = s
    BY <2>2
  <2>8. /\ \A k \in 1 .. Len(w) : w[k].stream # s
        /\ \A i \in Ids : r[i] # s
        /\ \A b \in 1 .. Len(a) : a[b].stream # s
    <3>1. stream[s].id = 0 /\ \A i \in Ids : i # 0
      BY <2>1, IdsArePositive DEF HasId
    <3>2. s # Nobody
      BY MultiplexerAssumption
    <3>3. \A k \in 1 .. Len(w) : w[k].stream # s
      BY <1>4, <3>1
    <3>4. \A i \in Ids : r[i] # s
      BY <1>4, <3>1, <3>2
    <3>5. \A b \in 1 .. Len(a) : a[b].stream # s
      BY <1>4, <3>1
    <3>. QED BY <3>3, <3>4, <3>5
  <2>. HIDE DEF m, n, y
  <2>9. PICK ms \in Seq(Message) :
           /\ Send(Requester, ms)
           /\ \/ \E b \in BOOLEAN : ms = <<m(b)>> /\ (b => s \in Calls)
              \/ \E b \in BOOLEAN : ms = <<m(b), n>>
    <3>1. PICK b \in BOOLEAN :
             \/ b = FALSE /\ Send(Requester, <<m(b)>>)
             \/ s \notin Calls /\ Send(Requester, <<m(b)>> \o If(b, n))
      BY <2>5
    <3>2. m(b) \in Message /\ <<m(b)>> \in Seq(Message) /\ <<m(b), n>> \in Seq(Message)
      BY <2>4
    <3>3. <<m(b)>> \o If(b, n) = IF b THEN <<m(b), n>> ELSE <<m(b)>>
      <4>1. <<m(b)>> \o <<n>> = <<m(b), n>> /\ <<m(b)>> \o <<>> = <<m(b)>>
        BY <2>4, Pairs
      <4>. QED BY <4>1 DEF If
    <3>. QED BY <3>1, <3>2, <3>3
  <2>10. wire'[Requester] = a /\ wire'[Responder] = w \o (IF up THEN ms ELSE <<>>)
    BY <1>3, <2>9 DEF Send, Peer
  <2>11. CASE up
    <3>1. Orderly(w, r, q, TRUE, a)
      BY <1>2, <2>11
    <3>2. Orderly(w \o ms, r, y, TRUE, a)
      <4>1. CASE \E b \in BOOLEAN : ms = <<m(b)>> /\ (b => s \in Calls)
        <5>1. PICK b \in BOOLEAN : ms = <<m(b)>> /\ (b => s \in Calls)
          BY <4>1
        <5>. DEFINE g == m(b)
        <5>2. /\ g \in Message /\ Asks(g) /\ g.stream = s /\ g.id = NextId
              /\ Enters(g) => s \in Calls
              /\ ms = <<g>>
          BY <2>4, <5>1
        <5>. HIDE DEF g
        <5>3. Enters(g) => y[g.id] = g.stream
          BY <2>7, <5>2
        <5>4. /\ q[g.id] = Nobody
              /\ \A k \in 1 .. Len(w) : w[k].stream # g.stream
              /\ \A i \in Ids : r[i] # g.stream
              /\ \A e \in 1 .. Len(a) : a[e].stream # g.stream
              /\ \A i \in Ids : i # g.id => y[i] = q[i]
          BY <2>2, <2>6, <2>8, <5>2
        <5>. QED BY <1>1, <2>3, <3>1, <5>2, <5>3, <5>4, RequestSent, ZenonT(60)
      <4>2. CASE \E b \in BOOLEAN : ms = <<m(b), n>>
        <5>1. PICK b \in BOOLEAN : ms = <<m(b), n>>
          BY <4>2
        <5>. DEFINE g == m(b)
        <5>2. /\ g \in Message /\ Asks(g) /\ g.stream = s /\ g.id = NextId
              /\ n \in Message /\ Ends(n, NextId) /\ ms = <<g, n>>
          BY <2>4, <5>1
        <5>. HIDE DEF g
        <5>3. \E e \in Message : ms = <<g, e>> /\ Ends(e, g.id)
          BY <5>2
        <5>4. /\ q[g.id] = Nobody
              /\ \A k \in 1 .. Len(w) : w[k].stream # g.stream
              /\ \A i \in Ids : r[i] # g.stream
              /\ \A e \in 1 .. Len(a) : a[e].stream # g.stream
              /\ \A i \in Ids : i # g.id => y[i] = q[i]
          BY <2>2, <2>6, <2>8, <5>2
        <5>. QED BY <1>1, <2>3, <3>1, <5>2, <5>3, <5>4, RequestSent
      <4>. QED BY <2>9, <4>1, <4>2
    <3>. QED BY <2>2, <2>10, <2>11, <3>2 DEF y
  <2>12. CASE ~up
    <3>1. w \o <<>> = w
      BY <1>1
    <3>2. Orderly(w, r, y, FALSE, a)
      BY <1>1, <1>2, <2>3, GoesDown
    <3>. QED BY <2>2, <2>10, <2>12, <3>1, <3>2 DEF y
  <2>. QED BY <2>11, <2>12
<1>6. CASE \E s \in Calls : Cancels(s)
  <2>1. PICK s \in Calls : Cancels(s)
    BY <1>6
  <2>. DEFINE i == stream[s].id
              m == Msg("CANCEL", i, s, FALSE)
              y == [q EXCEPT ![i] = Nobody]
  <2>2. /\ stream[s].status = "ready" /\ Send(Requester, <<m>>)
        /\ registry' = [registry EXCEPT ![Requester][i] = Nobody]
        /\ UNCHANGED open
    BY <2>1 DEF Cancels
  <2>3. s \in Streams
    BY DEF Streams
  <2>4. i \in Ids
    BY <2>2, <2>3, StreamTyped DEF BasicInv, StatusInv, HasId, StreamState
  <2>5. m \in Message /\ m.id = i /\ ~Asks(m)
    <3>1. m \in Message
      BY <2>3, <2>4, MsgTyped
    <3>. QED BY <3>1 DEF Msg, Asks
  <2>6. registry'[Requester] = y /\ registry'[Responder] = r /\ y \in Registries
    BY <2>2, <2>4 DEF Registries
  <2>. HIDE DEF i, m, y
  <2>7. <<m>> \in Seq(Message)
    BY <2>5
  <2>8. wire'[Requester] = a /\ wire'[Responder] = w \o (IF up THEN <<m>> ELSE <<>>)
    BY <1>3, <2>2, <2>7 DEF Send, Peer
  <2>9. CASE up
    <3>1. Orderly(w, r, q, TRUE, a)
      BY <1>2, <2>9
    <3>2. Orderly(w \o <<m>>, r, [q EXCEPT ![m.id] = Nobody], TRUE, a)
      BY <1>1, <2>5, <3>1, CancelSent
    <3>. QED BY <2>2, <2>5, <2>6, <2>8, <2>9, <3>2 DEF y
  <2>10. CASE ~up
    <3>1. w \o <<>> = w
      BY <1>1
    <3>2. Orderly(w, r, y, FALSE, a)
      BY <1>1, <1>2, <2>6, GoesDown
    <3>. QED BY <2>2, <2>6, <2>8, <2>10, <3>1, <3>2
  <2>. QED BY <2>9, <2>10
<1>7. CASE HandlesAnswer
  <2>1. /\ a # <<>> /\ wire' = [wire EXCEPT ![Requester] = Tail(a)]
        /\ registry' = [registry EXCEPT ![Requester][a[1].id] = Nobody]
        /\ UNCHANGED open
    <3>1. a # <<>> /\ UNCHANGED open
          /\ wire' = [wire EXCEPT ![Requester] = Tail(wire[Requester])]
          /\ registry' = [registry EXCEPT ![Requester][Head(wire[Requester]).id]
                            = Nobody]
      BY <1>7 DEF HandlesAnswer
    <3>2. Head(wire[Requester]) = a[1]
      BY <3>1
    <3>. QED BY <3>1, <3>2
  <2>2. q[a[1].id] = a[1].stream
    BY <1>7, <2>1, MisledForGood
  <2>3. a[1].id \in Ids
    BY <1>4, <2>1
  <2>4. /\ wire'[Responder] = w /\ wire'[Requester] = Tail(a)
        /\ registry'[Responder] = r
        /\ registry'[Requester] = [q EXCEPT ![a[1].id] = Nobody]
    BY <2>1, <2>3
  <2>. QED BY <1>1, <1>2, <2>1, <2>2, <2>4, AnswerTaken
<1>8. CASE DropsAnswer
  <2>1. /\ a # <<>> /\ wire' = [wire EXCEPT ![Requester] = Tail(a)]
        /\ UNCHANGED <<open, registry>>
    BY <1>8 DEF DropsAnswer
  <2>2. wire'[Responder] = w /\ wire'[Requester] = Tail(a)
    BY <2>1
  <2>. QED BY <1>1, <1>2, <2>1, <2>2, AnswerTaken
<1>9. CASE HandlesRequest
  <2>. DEFINE f == w[1]
              m == Msg("ANSWER", f.id, f.stream, FALSE)
  <2>1. w # <<>> /\ f = Head(w) /\ Asks(f) /\ UNCHANGED open
    BY <1>9 DEF HandlesRequest, Asks
  <2>2. f \in Message
    BY <2>1
  <2>3. f.id \in Ids /\ f.stream \in Streams
    BY <2>2 DEF Message
  <2>4. m \in Message /\ m.id = f.id /\ m.stream = f.stream
    <3>1. m \in Message
      BY <2>3, MsgTyped
    <3>. QED BY <3>1 DEF Msg
  <2>. DEFINE x == registry'[Responder]
  <2>5. /\ \/ x = r
           \/ Enters(f) /\ x = [r EXCEPT ![f.id] = f.stream]
        /\ registry'[Requester] = q
        /\ \/ TakeAndSend(Responder, <<>>)
           \/ TakeAndSend(Responder, <<m>>) /\ x = r
    BY <1>9, <2>1 DEF HandlesRequest, Enters, If
  <2>6. x \in Registries
    <3>1. r \in [Ids -> Streams \cup {Nobody}]
      BY <1>1 DEF Registries
    <3>2. [r EXCEPT ![f.id] = f.stream] \in [Ids -> Streams \cup {Nobody}]
      BY <2>3, <3>1
    <3>. QED BY <2>5, <3>1, <3>2 DEF Registries
  <2>. HIDE DEF m, f, x
  <2>7. <<m>> \in Seq(Message) /\ <<>> \in Seq(Message)
    BY <2>4
  <2>8. PICK ms \in Seq(Message) :
           /\ wire'[Responder] = Tail(w) /\ wire'[Requester] = a \o ms
           /\ \/ ms = <<>>
              \/ ms = <<m>> /\ x = r
    BY <1>3, <2>5, <2>7, ZenonT(60) DEF TakeAndSend
  <2>9. Orderly(Tail(w), x, q, up, a \o ms)
    BY <1>1, <1>2, <2>1, <2>4, <2>5, <2>6, <2>8, RequestArrives DEF f
  <2>. QED BY <2>1, <2>5, <2>8, <2>9 DEF x
<1>10. CASE HandlesEnd
  <2>. DEFINE f == w[1]
  <2>1. w # <<>> /\ f = Head(w) /\ ~Asks(f) /\ UNCHANGED open
        /\ registry' = [registry EXCEPT ![Responder][f.id] = Nobody]
        /\ TakeAndSend(Responder, <<>>)
    BY <1>10 DEF HandlesEnd, Asks
  <2>2. Sent(Responder, <<>>) = <<>> /\ a \o <<>> = a
    BY <1>1 DEF Sent
  <2>3. wire'[Responder] = Tail(w) /\ wire'[Requester] = a
    BY <2>1, <2>2 DEF TakeAndSend
  <2>4. f.id \in Ids
    BY <1>4, <2>1
  <2>5. registry'[Responder] = [r EXCEPT ![f.id] = Nobody]
        /\ registry'[Requester] = q
    BY <2>1, <2>4
  <2>6. Orderly(Tail(w), [r EXCEPT ![w[1].id] = Nobody], q, up, a)
    BY <1>1, <1>2, <2>1, EndArrives
  <2>. QED BY <2>1, <2>3, <2>5, <2>6
<1>11. CASE \E i \in Ids : Answers(i)
  <2>1. PICK i \in Ids : Answers(i)
    BY <1>11
  <2>. DEFINE m == Msg("ANSWER", i, r[i], FALSE)
  <2>2. /\ r[i] \in Streams /\ Send(Responder, <<m>>) /\ UNCHANGED open
        /\ registry' = [registry EXCEPT ![Responder][i] = Nobody]
    BY <2>1 DEF Answers, Streams
  <2>3. m \in Message /\ m.id = i /\ m.stream = r[i]
    <3>1. m \in Message
      BY <2>2, MsgTyped
    <3>. QED BY <3>1 DEF Msg
  <2>4. /\ registry'[Responder] = [r EXCEPT ![i] = Nobody]
        /\ registry'[Requester] = q /\ r[i] # Nobody
    BY <2>2, MultiplexerAssumption
  <2>. HIDE DEF m
  <2>5. <<m>> \in Seq(Message)
    BY <2>3
  <2>6. PICK ms \in Seq(Message) :
           /\ wire'[Responder] = w /\ wire'[Requester] = a \o ms
           /\ ms = <<>> \/ ms = <<m>>
    <3>1. wire'[Responder] = w /\ wire'[Requester] = a \o Sent(Responder, <<m>>)
      BY <2>2 DEF Send, Peer
    <3>2. Sent(Responder, <<m>>) \in {<<>>, <<m>>} /\ <<>> \in Seq(Message)
      BY DEF Sent
    <3>. QED BY <2>5, <3>1, <3>2
  <2>7. Orderly(w, [r EXCEPT ![i] = Nobody], q, up, a \o ms)
    BY <1>1, <1>2, <2>3, <2>4, <2>6, AnswerGiven
  <2>. QED BY <2>2, <2>4, <2>6, <2>7
<1>12. CASE Closes \/ ResponderLeaves
  <2>1. /\ UNCHANGED registry
        /\ \/ Disconnect(Requester, FALSE)
           \/ Disconnect(Responder, FALSE)
    BY <1>12 DEF Closes, ResponderLeaves
  <2>2. \A e \in End : Disconnect(e, FALSE)
           => /\ wire' = [wire EXCEPT ![e] = SubSeq(wire[e], 1, 0)]
              /\ open' = [open EXCEPT ![e] = FALSE]
    BY DEF Disconnect
  <2>3. \A e \in End : SubSeq(wire[e], 1, 0) = <<>>
    OBVIOUS
  <2>4. /\ ~(open'[Requester] /\ open'[Responder])
        /\ \/ wire'[Requester] = <<>> /\ wire'[Responder] = w
           \/ wire'[Requester] = a /\ wire'[Responder] = <<>>
    BY <2>1, <2>2, <2>3
  <2>5. /\ Orderly(w, r, q, FALSE, <<>>)
        /\ Orderly(<<>>, r, q, FALSE, a)
    BY <1>1, <1>2, GoesDown
  <2>. QED BY <2>1, <2>4, <2>5
<1>13. ASSUME NEW s \in Streams, CreateRequestStream(s), UNCHANGED given
       PROVE  UNCHANGED <<registry, wire, open>>
  <2>1. given' # Append(given, s)
    BY <1>13
  <2>. QED BY <1>13, <2>1 DEF CreateRequestStream
<1>14. ASSUME UNCHANGED given, NEW s \in Streams, RequestLease(s) \/ CancelRequest(s)
       PROVE  UNCHANGED <<registry, wire, open>>
  BY <1>13, <1>14 DEF RequestLease, CancelRequest, Wait, PassOn
<1>15. ASSUME UNCHANGED given, GrantsNext
       PROVE  UNCHANGED <<registry, wire, open>>
  BY <1>13, <1>15, HeadTyped DEF GrantsNext, PassOn
<1>16. CASE UNCHANGED <<registry, wire, open>>
  BY <1>2, <1>16
<1>. QED
  BY <1>5, <1>6, <1>7, <1>8, <1>9, <1>10, <1>11, <1>12, <1>14, <1>15, <1>16
  DEF Next, HandlesLease, RejectsNext, Expires, Unleased, Receives,
      CompleteReturns, ClosesStream, ConnectionCloseEnds, CloseEnds, vars, muxVars

LEMMA CollisionsHold == Spec => []CollisionInv
<1>1. Init => CollisionInv
  BY DEF Init, MuxInit, CollisionInv, Orderly, FreeOnArrival, FreeBetween,
         HeldOrEnded, OnceOnly
<1>2. BasicInv /\ MessageInv /\ CollisionInv /\ [Next]_vars => CollisionInv'
  BY NextCollision
<1>. QED BY <1>1, <1>2, BasicsHold, MessagesHold, PTL DEF Spec

(***************************************************************************)
(* A request never finds its id taken at the responder, whatever is        *)
(* cancelled, answered and given again at the same time, as long as no     *)
(* stream took an answer meant for another one for its own.  Nothing is    *)
(* assumed of what the application does in its callbacks.                  *)
(***************************************************************************)
THEOREM NoIdCollides == Spec => []NoCollision
<1>1. ASSUME BasicInv, CollisionInv
      PROVE  NoCollision
  <2>. DEFINE w == wire[Responder]
  <2>. SUFFICES ASSUME Unmisled, w # <<>>, Head(w).type = "REQUEST"
                PROVE  registry[Responder][Head(w).id] = Nobody
    BY DEF NoCollision, Unmisled
  <2>1. FreeOnArrival(w, registry[Responder])
    BY <1>1 DEF CollisionInv, Orderly
  <2>2. w \in Seq(Message)
    BY <1>1 DEF BasicInv, TypeOK, MuxTypeOK
  <2>. HIDE DEF w
  <2>3. 1 \in 1 .. Len(w) /\ Head(w) = w[1]
    BY <2>2
  <2>4. ~Ended(w, 1, 1 - 1, w[1].id)
    BY DEF Ended
  <2>. QED BY <2>1, <2>3, <2>4 DEF FreeOnArrival, Asks, w
<1>. QED BY <1>1, BasicsHold, CollisionsHold, PTL

(***************************************************************************)
(* A stream and its answers belong together at both ends.                  *)
(***************************************************************************)
THEOREM StreamsAreOwn == NoCallbackInLoop => (Spec => []OwnStreams)
<1>1. OwnAnswers /\ NoCollision => OwnStreams
  BY DEF OwnStreams
<1>. QED BY <1>1, AnswersAreOwn, NoIdCollides, PTL
=============================================================================
