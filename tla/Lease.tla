-------------------------------- MODULE Lease --------------------------------
(***************************************************************************)
(* A requester that honours leases: LeaseHandler (RSocketSupport.ts) holds *)
(* requests back until a LEASE frame allows them and then passes them to   *)
(* the Multiplexer.  That the ttl of a lease has passed is a step that may *)
(* come at any moment.                                                     *)
(***************************************************************************)
EXTENDS Multiplexer

CONSTANTS
    MaxPending,     \* maxPendingRequests
    Grants,         \* the requestCounts of LEASE frames
    MaxLeases,      \* bound: LEASE frames received
    LateRequests    \* the application requests on a closed connection

ASSUME LeaseAssumption ==
    /\ MaxPending \in Nat /\ MaxLeases \in Nat
    /\ Grants \subseteq Nat
    /\ LateRequests \in BOOLEAN

VARIABLES
    pendingRequests,
    availableLease,
    fresh,          \* now < expirationTime
    leases,         \* LEASE frames received
    lease,          \* history: the requests the latest LEASE frame allowed,
    before,         \* and those that had an id when it came
    asked           \* history: the requests in the order they were made

leaseVars == <<pendingRequests, availableLease, fresh, leases, lease, before,
               asked>>
vars == <<muxVars, leaseVars>>

TypeOK ==
    /\ MuxTypeOK
    /\ pendingRequests \in Seq(Streams) /\ Len(pendingRequests) <= MaxPending
    /\ availableLease \in Nat /\ leases \in 0 .. MaxLeases
    /\ lease \in Nat /\ before \in Nat
    /\ fresh \in BOOLEAN
    /\ asked \in Seq(Streams)

Init ==
    /\ MuxInit
    /\ pendingRequests = <<>>
    /\ availableLease = 0
    /\ fresh = FALSE
    /\ leases = 0 /\ lease = 0 /\ before = 0
    /\ asked = <<>>

-----------------------------------------------------------------------------
(* LeaseHandler *)

\* Mutant: the request is not counted.
PassOn_Uncounted(s) == CreateRequestStream(s) /\ UNCHANGED availableLease

\* One of the allowed requests is passed on.
PassOn(s) ==
    /\ availableLease' = availableLease - 1
    /\ CreateRequestStream(s)

Wait(s, queue) ==
    /\ asked' = Append(asked, s)
    /\ pendingRequests' = queue
    /\ stream' = [stream EXCEPT ![s].status = "waiting"]
    /\ UNCHANGED <<availableLease, fresh, leases, lease, before, currentId,
                   running, registry, muxDone, given, wraps, wire, open>>

\* Mutants: the queue has no limit; the latest request waits in front.
RequestLease_NoLimit(s) ==
    /\ MayCall /\ stream[s].status = "idle" /\ open[Requester]
    /\ availableLease = 0
    /\ Wait(s, Append(pendingRequests, s))

RequestLease_LatestFirst(s) ==
    /\ MayCall /\ stream[s].status = "idle" /\ open[Requester]
    /\ availableLease = 0 /\ Len(pendingRequests) < MaxPending
    /\ Wait(s, <<s>> \o pendingRequests)

\* A request goes through, or is refused, or waits.
RequestLease(s) ==
    /\ MayCall
    /\ stream[s].status = "idle"
    /\ LateRequests \/ open[Requester] \/ running # <<>>
    /\ IF availableLease > 0 /\ fresh
       THEN /\ asked' = Append(asked, s)
            /\ PassOn(s)
            /\ UNCHANGED <<pendingRequests, fresh, leases, lease, before>>
       ELSE IF Len(pendingRequests) >= MaxPending
            THEN /\ asked' = Append(asked, s)
                 /\ stream' = Tell(s)
                 /\ UNCHANGED <<pendingRequests, availableLease, fresh, leases,
                                lease, before, currentId, running, registry,
                                muxDone, given, wraps, wire, open>>
            ELSE Wait(s, Append(pendingRequests, s))

\* A waiting request is cancelled and leaves the queue.
CancelRequest(s) ==
    /\ MayCall
    /\ stream[s].status = "waiting"
    /\ stream' = [stream EXCEPT ![s].status = "done", ![s].quit = TRUE]
    /\ \E k \in 1 .. Len(pendingRequests) :
          /\ pendingRequests[k] = s
          /\ pendingRequests' =
               SubSeq(pendingRequests, 1, k - 1)
                 \o SubSeq(pendingRequests, k + 1, Len(pendingRequests))
    /\ UNCHANGED <<availableLease, fresh, leases, lease, before, asked, currentId,
                   running, registry, muxDone, given, wraps, wire, open>>

\* handle: a LEASE frame replaces what is left of the lease before.
HandlesLease(n) ==
    /\ running = <<>> /\ open[Requester]
    /\ leases < MaxLeases
    /\ leases' = leases + 1
    /\ availableLease' = n /\ lease' = n
    /\ before' = Len(given)
    /\ fresh' = TRUE
    /\ running' = <<[call |-> "grant", id |-> 0, left |-> {},
                     called |-> FALSE]>>
    /\ UNCHANGED <<pendingRequests, asked, currentId, registry, stream, muxDone,
                   given, wraps, wire, open>>

\* Mutant: the last request that is allowed has to wait.
GrantsNext_KeepsOne ==
    /\ In("grant")
    /\ IF availableLease > 1 /\ pendingRequests # <<>>
       THEN /\ pendingRequests' = Tail(pendingRequests)
            /\ PassOn(Head(pendingRequests))
       ELSE /\ running' = Tail(running)
            /\ UNCHANGED <<pendingRequests, availableLease, currentId,
                           registry, stream, muxDone, given, wraps, wire, open>>
    /\ UNCHANGED <<fresh, leases, lease, before, asked>>

\* Its loop: the requests that waited longest go first.
GrantsNext ==
    /\ In("grant")
    /\ IF availableLease > 0 /\ pendingRequests # <<>>
       THEN /\ pendingRequests' = Tail(pendingRequests)
            /\ PassOn(Head(pendingRequests))
       ELSE /\ running' = Tail(running)
            /\ UNCHANGED <<pendingRequests, availableLease, currentId,
                           registry, stream, muxDone, given, wraps, wire, open>>
    /\ UNCHANGED <<fresh, leases, lease, before, asked>>

Expires ==
    /\ fresh
    /\ fresh' = FALSE
    /\ UNCHANGED <<muxVars, pendingRequests, availableLease, leases, lease,
                   before, asked>>

\* close, after the multiplexer's: every waiting request is rejected, those
\* that are made in the receivers' callbacks too.
RejectsNext ==
    LET s == Head(pendingRequests)
    IN  /\ In("reject")
        /\ IF pendingRequests # <<>>
           THEN /\ pendingRequests' = Tail(pendingRequests)
                /\ stream' = Tell(s)
                /\ running' = <<[Head(running) EXCEPT !.called = TRUE]>>
                                \o Tail(running)
           ELSE /\ running' = Tail(running)
                /\ UNCHANGED <<pendingRequests, stream>>
        /\ UNCHANGED <<availableLease, fresh, leases, lease, before, asked,
                       currentId, registry, muxDone, given, wraps, wire, open>>

\* Mutant: the lease handler is not closed with the connection.
ConnectionCloseEnds_LeaseForgotten == CloseEnds(<<>>) /\ UNCHANGED leaseVars

ConnectionCloseEnds ==
    /\ CloseEnds(<<[call |-> "reject", id |-> 0, left |-> {},
                    called |-> FALSE]>>)
    /\ UNCHANGED leaseVars

-----------------------------------------------------------------------------
Unleased ==
    \/ \E s \in Calls : Cancels(s)
    \/ CompleteReturns
    \/ Receives
    \/ \E i \in Ids : Answers(i)
    \/ ResponderLeaves
    \/ Closes \/ ClosesStream

Next ==
    \/ \E s \in Streams : RequestLease(s) \/ CancelRequest(s)
    \/ \E n \in Grants : HandlesLease(n)
    \/ GrantsNext \/ RejectsNext \/ Expires
    \/ Unleased /\ UNCHANGED leaseVars
    \/ ConnectionCloseEnds

Spec == Init /\ [][Next]_vars

-----------------------------------------------------------------------------
(* Properties *)

(* A request gets an id only if the latest LEASE frame allows one more,    *)
(* and while it is fresh or in the loop that the frame itself runs.        *)
LeaseRespected ==
    [][given' # given => /\ Len(given') - before' <= lease'
                         /\ fresh \/ In("grant")]_vars

(* Nobody waits for a lease that is there.                                 *)
NobodyWaitsInVain ==
    running = <<>> /\ pendingRequests # <<>> => availableLease = 0 \/ ~fresh

(* Requests are passed on in the order in which they were made.            *)
InOrder ==
    \A i, j \in 1 .. Len(given) :
        i < j => \E k, l \in 1 .. Len(asked) :
                    k < l /\ asked[k] = given[i] /\ asked[l] = given[j]
=============================================================================
