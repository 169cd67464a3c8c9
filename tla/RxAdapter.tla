------------------------------ MODULE RxAdapter ------------------------------
(***************************************************************************)
(* rsocket-adapter-rxjs: an Observable at one end, an Observer at the      *)
(* other, and an interaction between them.                                 *)
(*                                                                         *)
(* The producing adapter keeps what its source emits until it is asked for *)
(* (ObserverToBufferingRSocketSubscriber; ObserverToRSocketSubscriber for  *)
(* request/response, without a buffer).  The consuming adapter asks for    *)
(* prefetch values, and for more whenever it has received limit of them    *)
(* (RSocketPublisherToPrefetchingObservable; RSocketPublisherToObservable  *)
(* for request/response).  An end of a channel is both, in one object.     *)
(*                                                                         *)
(* Of the streams below only what the adapters see: their calls, and two   *)
(* flags for the directions that are over.  A direction that the           *)
(* interaction does not have is over from the start.  The modules of the   *)
(* streams have the rest: leases, fragments, extensions, chunks.           *)
(*                                                                         *)
(* The k-th value of a source is k.  Every handler of a channel subscribes *)
(* to its input; a codec does not throw.                                   *)
(***************************************************************************)
EXTENDS Integers, SequencesExt

CONSTANTS
    Interactions,    \* a subset of {"response", "stream", "channel"}
    Prefetches,      \* the prefetch of both ends
    MaxValues        \* by interaction: what a source emits at most

ASSUME PrefetchAssumption == Prefetches \subseteq Nat \ {0}

VARIABLES
    interaction, prefetch,
    end,     \* the two ends: see Idle
    wire     \* what each end has sent and the other has not handled

vars == <<interaction, prefetch, end, wire>>

Ends == {"requester", "responder"}
Other(e) == IF e = "requester" THEN "responder" ELSE "requester"

limit == prefetch - (prefetch \div 4)

-----------------------------------------------------------------------------
(* Frames *)

Request(n) == [type |-> "request", n |-> n]
Value(v, last) == [type |-> "value", value |-> v, last |-> last]
Completion == [type |-> "complete"]
Error == [type |-> "error"]
Cancel == [type |-> "cancel"]
RequestN(n) == [type |-> "requestN", n |-> n]

(***************************************************************************)
(* An end: the directions of its stream, the adapter of its source, the    *)
(* adapter of its observer, and what it sends in the step it takes.        *)
(*   wip is the lock of drain: once a drain has returned behind a terminal *)
(*   signal it stays, and nothing is drained any more.                     *)
(*   closed is the Subscription's: it releases the source.                 *)
(*   unsent is how many values were still kept when the source failed.     *)
(***************************************************************************)
Idle ==
    [inDone |-> TRUE, outDone |-> TRUE,
     source |-> "none", emitted |-> 0, unsent |-> 0,
     buffer |-> <<>>, requested |-> 0, wip |-> FALSE,
     done |-> FALSE, e |-> FALSE, closed |-> FALSE,
     observer |-> "none", got |-> <<>>, received |-> 0, scheduled |-> <<>>,
     sends |-> <<>>]

Subscribed == [Idle EXCEPT !.inDone = FALSE, !.observer = "subscribed"]
Produces(x, n) ==
    [x EXCEPT !.outDone = FALSE, !.source = "active", !.requested = n]

Requester ==
    IF interaction = "channel"
    THEN [Produces(Subscribed, 0) EXCEPT !.emitted = 1]
    ELSE Subscribed

\* The request is on its way; that of a channel carries the first value.
Init ==
    /\ interaction \in Interactions
    /\ prefetch \in Prefetches
    /\ end = [e \in Ends |-> IF e = "requester" THEN Requester ELSE Idle]
    /\ wire = [e \in Ends |-> IF e = "requester" THEN << Request(prefetch) >>
                                                 ELSE <<>>]

\* Only the classes that are Subscriptions release their source.
Releases == interaction # "channel"

-----------------------------------------------------------------------------
(* The streams, as the adapters call them *)

Sends(x, frame) == [x EXCEPT !.sends = Append(@, frame)]
Over(x) == x.inDone /\ x.outDone

CoreNext(x, v, last) ==
    IF x.outDone THEN x
    ELSE Sends([x EXCEPT !.outDone = last], Value(v, last))

CoreComplete(x) ==
    IF x.outDone THEN x ELSE Sends([x EXCEPT !.outDone = TRUE], Completion)

\* A channel tells its own observer of the error; that the observer then
\* cancels has no effect on a stream that is over.
CoreError(x) ==
    IF x.outDone THEN x
    ELSE Sends([x EXCEPT !.inDone = TRUE, !.outDone = TRUE,
                         !.observer = IF @ = "subscribed" /\ ~x.inDone
                                      THEN "failed" ELSE @], Error)

CoreRequest(x, n) == IF x.inDone THEN x ELSE Sends(x, RequestN(n))

-----------------------------------------------------------------------------
(* The producing adapter *)

(***************************************************************************)
(* drain: as many values as are asked for; the last one says so if the     *)
(* source is done.  A completion or an error of its own waits until there  *)
(* is demand left.                                                         *)
(***************************************************************************)
Drain(x) ==
    LET n == IF x.requested < Len(x.buffer) THEN x.requested ELSE Len(x.buffer)
        IsLast(i) == i = Len(x.buffer) /\ x.done
        sent == FoldLeft(LAMBDA y, i : CoreNext(y, x.buffer[i], IsLast(i)),
                         [x EXCEPT !.buffer = SubSeq(@, n + 1, Len(@))],
                         [i \in 1 .. n |-> i])
        isTerminated == n > 0 /\ IsLast(n)
        demandLeft == n < x.requested
    IN  CASE x.wip -> x
          [] ~x.wip /\ isTerminated -> [sent EXCEPT !.wip = TRUE]
          [] ~x.wip /\ ~isTerminated /\ demandLeft /\ x.done ->
                [(IF x.e THEN CoreError(sent) ELSE CoreComplete(sent))
                    EXCEPT !.wip = TRUE]
          [] ~x.wip /\ ~isTerminated /\ demandLeft /\ ~x.done /\ x.closed ->
                [sent EXCEPT !.wip = TRUE]
          [] OTHER -> [sent EXCEPT !.requested = @ - n]

AdapterRequest(x, n) ==
    LET asked == [x EXCEPT !.requested = @ + n]
    IN  IF ~x.wip /\ x.requested > 0 THEN asked ELSE Drain(asked)

Unsubscribed(x) ==
    [x EXCEPT !.closed = TRUE,
              !.source = IF @ = "active" THEN "released" ELSE @]

\* An end of a channel has no subscription to its source: its unsubscribe
\* is that of its observable, and cancels what comes in.
WithdrawsInbound(x) ==
    IF x.inDone THEN x ELSE Sends([x EXCEPT !.inDone = TRUE], Cancel)

\* Mutant: the source is not released.
AdapterCancel_KeepsSource(x) ==
    IF x.closed \/ x.done THEN x
    ELSE Drain(IF Releases THEN [x EXCEPT !.closed = TRUE]
                           ELSE WithdrawsInbound(x))

AdapterCancel(x) ==
    CASE interaction = "response" -> Unsubscribed(x)
      [] interaction # "response" /\ (x.closed \/ x.done) -> x
      [] OTHER -> Drain(IF Releases THEN Unsubscribed(x)
                                    ELSE WithdrawsInbound(x))

\* What the source calls: next, complete, error.
AdapterNext(x, v) ==
    IF interaction = "response" THEN CoreNext(Unsubscribed(x), v, TRUE)
    ELSE Drain([x EXCEPT !.buffer = Append(@, v)])

AdapterComplete(x) ==
    IF interaction = "response" THEN CoreComplete(x)
    ELSE Drain([x EXCEPT !.done = TRUE])

\* Mutant: the error is not kept, as if it were a completion.
AdapterError_Forgets(x) ==
    IF interaction = "response" THEN CoreError(x)
    ELSE Drain([x EXCEPT !.done = TRUE])

AdapterError(x) ==
    IF interaction = "response" THEN CoreError(x)
    ELSE Drain([x EXCEPT !.done = TRUE, !.e = TRUE])

-----------------------------------------------------------------------------
(* The consuming adapter *)

\* cancel of the streams: a requester's ends both directions, a responder's
\* the inbound one.
CoreCancel(x, e) ==
    LET ended == [x EXCEPT !.inDone = TRUE, !.outDone = TRUE]
        told == IF x.outDone THEN ended ELSE AdapterCancel(ended)
    IN  CASE e = "responder" -> WithdrawsInbound(x)
          [] e = "requester" /\ Over(x) -> x
          [] OTHER -> Sends(told, IF x.inDone THEN Error ELSE Cancel)

\* The observer ends, one way or another, and its teardown is unsubscribe.
ObserverEnds(x, e, how) ==
    IF x.observer # "subscribed" THEN x
    ELSE CoreCancel([x EXCEPT !.observer = how], e)

ObserverNext(x, v) ==
    [x EXCEPT !.received = @ + 1,
              !.got = IF x.observer = "subscribed" THEN Append(@, v) ELSE @]

\* Mutant: the refill is counted from the prefetch.
OnNext_RefillsAtPrefetch(x, e, v, last) ==
    LET next == ObserverNext(x, v)
    IN  CASE last \/ interaction = "response" ->
                ObserverEnds(next, e, "completed")
          [] OTHER -> IF next.received % prefetch = 0
                      THEN [next EXCEPT !.scheduled = Append(@, limit)]
                      ELSE next

OnNext(x, e, v, last) ==
    LET next == ObserverNext(x, v)
        refill == next.received % limit = 0
    IN  CASE last \/ interaction = "response" ->
                ObserverEnds(next, e, "completed")
          [] ~last /\ interaction # "response" /\ refill ->
                [next EXCEPT !.scheduled = Append(@, limit)]
          [] OTHER -> next

-----------------------------------------------------------------------------
(* Steps *)

\* An end has taken a step: what it sends is on the wire.
Becomes(e, x, rest) ==
    /\ end' = [end EXCEPT ![e] = [x EXCEPT !.sends = <<>>]]
    /\ wire' = [wire EXCEPT ![e] = @ \o x.sends, ![Other(e)] = rest]
    /\ UNCHANGED <<interaction, prefetch>>

Steps(e, x) == Becomes(e, x, wire[Other(e)])

SourceEmits(e) ==
    LET x == end[e] IN
    /\ x.source = "active" /\ x.emitted < MaxValues[interaction]
    /\ Steps(e, AdapterNext([x EXCEPT !.emitted = @ + 1], x.emitted + 1))

SourceCompletes(e) ==
    /\ end[e].source = "active"
    /\ Steps(e, AdapterComplete([end[e] EXCEPT !.source = "completed"]))

SourceFails(e) ==
    /\ end[e].source = "active"
    /\ Steps(e, AdapterError([end[e] EXCEPT !.source = "failed",
                                            !.unsent = Len(end[e].buffer)]))

\* The application unsubscribes its observer.
Unsubscribes(e) ==
    /\ end[e].observer = "subscribed"
    /\ Steps(e, ObserverEnds(end[e], e, "unsubscribed"))

\* The scheduler's next task: subscriber.request(n).
RunsTask(e) ==
    LET tasks == end[e].scheduled IN
    /\ tasks # <<>>
    /\ Steps(e, CoreRequest([end[e] EXCEPT !.scheduled = Tail(tasks)],
                            Head(tasks)))

\* The adapter of a channel is given the first value when its input is
\* subscribed to, and asks for the others then.
InputSubscribed(x) ==
    LET first == OnNext(x, "responder", 1, FALSE)
    IN  [first EXCEPT !.scheduled = Append(@, prefetch - 1)]

\* The responder's handler, and the adapter that subscribes to its result.
Responder(n) ==
    IF interaction = "channel"
    THEN InputSubscribed(Produces(Subscribed, n))
    ELSE Produces(Idle, n)

\* A frame of the other direction, or of a stream that is over, is dropped.
HandlesData(x, e, f) ==
    LET last == f.type = "complete" \/ f.last
        ended == [x EXCEPT !.inDone = @ \/ last]
    IN  IF f.type = "value" THEN OnNext(ended, e, f.value, f.last)
                            ELSE ObserverEnds(ended, e, "completed")

\* CANCEL ends what goes out at a requester, and both ways at a responder.
HandlesCancel(x, e) ==
    LET ended == [x EXCEPT !.outDone = TRUE, !.inDone = @ \/ e = "responder"]
        told == IF x.outDone THEN ended ELSE AdapterCancel(ended)
    IN  IF ended.inDone /\ ~x.inDone THEN ObserverEnds(told, e, "failed")
        ELSE told

\* An error, or the close of the connection, ends both directions.
Fails(x, e) ==
    LET ended == [x EXCEPT !.inDone = TRUE, !.outDone = TRUE]
        told == IF x.outDone THEN ended ELSE AdapterCancel(ended)
    IN  IF x.inDone THEN told ELSE ObserverEnds(told, e, "failed")

HandlesRequestN(x, e, n) ==
    CASE x.outDone /\ e = "requester" -> x
      [] n < 1 -> Sends(Fails(x, e), IF e = "requester" THEN Cancel ELSE Error)
      [] OTHER -> AdapterRequest(x, n)

Handles(x, e, f) ==
    CASE f.type = "request" -> Responder(f.n)
      [] f.type # "request" /\ Over(x) -> x
      [] f.type \in {"value", "complete"} /\ ~Over(x) -> HandlesData(x, e, f)
      [] f.type = "cancel" /\ ~Over(x) -> HandlesCancel(x, e)
      [] f.type = "error" /\ ~Over(x) -> Fails(x, e)
      [] OTHER -> HandlesRequestN(x, e, f.n)

Receives(e) ==
    LET frames == wire[Other(e)] IN
    /\ frames # <<>>
    /\ Becomes(e, Handles(end[e], e, Head(frames)), Tail(frames))

\* The connection is lost, at both ends.
ConnectionCloses ==
    /\ ~(Over(end["requester"]) /\ Over(end["responder"]))
    /\ end' = [e \in Ends |-> IF Over(end[e]) THEN end[e]
                              ELSE [Fails(end[e], e) EXCEPT !.sends = <<>>]]
    /\ wire' = [e \in Ends |-> <<>>]
    /\ UNCHANGED <<interaction, prefetch>>

Next ==
    \/ \E e \in Ends : SourceEmits(e)
    \/ \E e \in Ends : SourceCompletes(e)
    \/ \E e \in Ends : SourceFails(e)
    \/ \E e \in Ends : Unsubscribes(e)
    \/ \E e \in Ends : RunsTask(e)
    \/ \E e \in Ends : Receives(e)
    \/ ConnectionCloses

\* Frames arrive and the scheduler runs its tasks; sources and observers do
\* as they like.
Fairness ==
    \A e \in Ends : WF_vars(RunsTask(e)) /\ WF_vars(Receives(e))

Spec == Init /\ [][Next]_vars /\ Fairness

-----------------------------------------------------------------------------
(* Properties *)

\* Swallowed: the source failed with values still kept.  drain marks the
\* last of them as the end of the stream, and the error is lost.
Swallowed(x) == x.source = "failed" /\ x.unsent > 0

(***************************************************************************)
(* Delivers: an observer is given what the other end's source emitted, in  *)
(* order, and is told that it is complete only when it has all of it and   *)
(* the source is: buffering, refills and the last value's flag lose        *)
(* nothing.  The exception is Swallowed.                                   *)
(***************************************************************************)
Delivers ==
    \A e \in Ends :
        LET x == end[e]
            from == end[Other(e)]
            n == Len(x.got)
        IN  /\ n <= from.emitted
            /\ x.got = [k \in 1 .. n |-> k]
            /\ x.observer = "completed" =>
                \/ n = from.emitted /\ from.source = "completed"
                \/ n = 1 /\ interaction = "response"
                \/ n = from.emitted /\ Swallowed(from)

\* The directions that are open at both of their ends.
Flows(e) ==
    /\ interaction # "response"
    /\ ~end[e].inDone /\ ~end[Other(e)].outDone /\ ~end[Other(e)].wip

ValuesOf(frames) == Len(SelectSeq(frames, LAMBDA f : f.type = "value"))
Demanded(frames) ==
    FoldLeft(LAMBDA n, f : IF f.type = "requestN" THEN n + f.n ELSE n,
             0, frames)

(***************************************************************************)
(* PrefetchConserved: a consumer that has received k values since it last  *)
(* asked has prefetch - k on their way: asked for and not yet requested,   *)
(* requested and not yet arrived, there to be used, or used and not yet    *)
(* arrived.  So a producer never runs dry for good, and never sends more   *)
(* than the observer's end can hold.  Demand left means that nothing is    *)
(* kept: request() does not drain when there was some.                     *)
(***************************************************************************)
PrefetchConserved ==
    \A e \in Ends : Flows(e) =>
        LET x == end[e]
            from == end[Other(e)]
        IN  /\ FoldLeft(LAMBDA n, m : n + m, 0, x.scheduled)
                 + Demanded(wire[e]) + from.requested
                 + ValuesOf(wire[Other(e)])
                   = prefetch - (x.received % limit)
            /\ from.requested > 0 => from.buffer = <<>>

\* A requester whose channel is over while its observer waits: the responder
\* unsubscribed from its input, and the CANCEL of one direction makes the
\* requester's adapter cancel both.
Abandoned(e) ==
    /\ interaction = "channel" /\ e = "requester"
    /\ end["responder"].observer = "unsubscribed"

(***************************************************************************)
(* Settles: once a source has ended, the observer at the other end ends;   *)
(* once an observer has ended, the source that fed it has ended or is      *)
(* released.  The exceptions are Abandoned observers, and the sources of a *)
(* channel, which nothing unsubscribes from.                               *)
(***************************************************************************)
Settles ==
    \A e \in Ends :
        /\ (/\ end[e].observer = "subscribed"
            /\ end[Other(e)].source \in {"completed", "failed"})
             ~> (end[e].observer # "subscribed" \/ Abandoned(e))
        /\ (/\ Releases
            /\ end[e].observer \in {"completed", "failed", "unsubscribed"})
             ~> end[Other(e)].source # "active"
=============================================================================
