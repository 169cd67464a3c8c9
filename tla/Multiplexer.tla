----------------------------- MODULE Multiplexer -----------------------------
(***************************************************************************)
(* The two multiplexers of a connection                                    *)
(* (ClientServerMultiplexerDemultiplexer.ts): the stream ids one end gives *)
(* to the requests it makes, the registries that lead a frame to a stream, *)
(* and the close of all streams with their connection.  A stream is        *)
(* reduced to what the registries see of it: a call is registered until it *)
(* is answered or cancelled, a fire-and-forget is never registered where   *)
(* it is made and only between its fragments where it is received.         *)
(*                                                                         *)
(* The requester's thread runs to completion, but some of its steps call   *)
(* the application in the middle, and the application may call back:       *)
(* `running` is the stack of such steps, the innermost first.              *)
(***************************************************************************)
EXTENDS Interaction, Integers, FiniteSets

CONSTANTS
    Calls,            \* requests that await an answer
    FireAndForgets,   \* requests that await none
    Nobody,           \* an id that the registry does not hold
    IdCount,          \* bound: ids of the requester's parity up to MAX_STREAM_ID
    Reentrant         \* the steps ("complete", "close", "reject") in whose
                      \* callbacks the application makes or cancels requests

Streams == Calls \cup FireAndForgets

\* The requester is a client: its ids are odd.
Ids == {2 * k - 1 : k \in 1 .. IdCount}

ASSUME MultiplexerAssumption ==
    /\ Calls \cap FireAndForgets = {} /\ Nobody \notin Streams
    /\ IdCount \in Nat \ {0}
    /\ Reentrant \subseteq {"complete", "close", "reject"}

VARIABLES
    currentId,   \* StreamIdGenerator.currentId
    running,     \* the requester's unfinished steps
    registry,    \* per end: the stream that an id leads to
    stream,      \* what has become of each request
    muxDone,     \* the requester's multiplexer is done
    given,       \* history: the requests that were given an id, in order
    wraps        \* history: how often the ids have wrapped around

muxVars == <<currentId, running, registry, stream, muxDone, given, wraps, wire,
             open>>

Message == [type: {"REQUEST", "PAYLOAD", "CANCEL", "ANSWER"}, id: Ids,
            stream: Streams, follows: BOOLEAN]
Msg(type, id, s, follows) ==
    [type |-> type, id |-> id, stream |-> s, follows |-> follows]

Step == [call: {"complete", "close", "grant", "reject"}, id: Ids \cup {0},
         left: SUBSET Ids, called: BOOLEAN]

Status == {"idle", "waiting", "ready", "done", "lost"}

MuxTypeOK ==
    /\ currentId \in Ids \cup {-1}
    /\ running \in Seq(Step)
    /\ registry \in [End -> [Ids -> Streams \cup {Nobody}]]
    /\ stream \in [Streams -> [status: Status, id: Ids \cup {0}, wrap: Nat,
                               told: Nat, quit: BOOLEAN,
                               heard: SUBSET Streams]]
    /\ muxDone \in BOOLEAN
    /\ given \in Seq(Streams)
    /\ wraps \in Nat
    /\ wire \in [End -> Seq(Message)]
    /\ open \in [End -> BOOLEAN]

MuxInit ==
    /\ currentId = -1
    /\ running = <<>>
    /\ registry = [e \in End |-> [i \in Ids |-> Nobody]]
    /\ stream = [s \in Streams |->
                   [status |-> "idle", id |-> 0, wrap |-> 0, told |-> 0,
                    quit |-> FALSE, heard |-> {}]]
    /\ muxDone = FALSE
    /\ given = <<>>
    /\ wraps = 0
    /\ wire = [e \in End |-> <<>>]
    /\ open = [e \in End |-> TRUE]

-----------------------------------------------------------------------------
(* The requester's thread *)

\* The application is running: at the top level, or in a callback.
MayCall ==
    \/ running = <<>>
    \/ running # <<>> /\ Head(running).called /\ Head(running).call \in Reentrant

In(call) == running # <<>> /\ Head(running).call = call

\* The application's receiver of s is told of its end.
Tell(s) == [stream EXCEPT ![s].status = "done", ![s].told = @ + 1]

-----------------------------------------------------------------------------
(* StreamIdGenerator and createRequestStream *)

Free == {i \in Ids : registry[Requester][i] = Nobody}

Smallest(S) == CHOOSE i \in S : \A j \in S : i <= j

\* Mutant: the search for a free id starts anew each time.
NextId_LowestFree == Smallest(Free)

\* The next id not in use, after the highest one the lowest again.
NextId ==
    LET above == {i \in Free : i > currentId}
    IN  Smallest(IF above # {} THEN above ELSE Free)

\* handleReady of a call: registered, then sent.
StartCall(s, id) ==
    /\ stream' = [stream EXCEPT ![s].status = "ready", ![s].id = id,
                                ![s].wrap = wraps']
    /\ registry' = [registry EXCEPT ![Requester][id] = s]
    /\ currentId' = id
    /\ Send(Requester, <<Msg("REQUEST", id, s, FALSE)>>)
    /\ UNCHANGED running

\* handleReady of a fire-and-forget: sent, then its receiver is called, and
\* only when that has returned does the generator note the id.
StartFireAndForget(s, id) ==
    /\ stream' = [Tell(s) EXCEPT ![s].id = id, ![s].wrap = wraps']
    /\ \E follows \in BOOLEAN :
          Send(Requester,
               <<Msg("REQUEST", id, s, follows)>>
                 \o If(follows, Msg("PAYLOAD", id, s, FALSE)))
    /\ running' = <<[call |-> "complete", id |-> id, left |-> {},
                     called |-> TRUE]>> \o running
    /\ UNCHANGED <<registry, currentId>>

\* Without a free id the request is forgotten; a closed multiplexer rejects it.
CreateRequestStream(s) ==
    /\ UNCHANGED <<muxDone, open>>
    /\ IF muxDone \/ Free = {}
       THEN /\ stream' = IF muxDone THEN Tell(s)
                         ELSE [stream EXCEPT ![s].status = "lost"]
            /\ UNCHANGED <<currentId, running, registry, given, wraps, wire>>
       ELSE /\ given' = Append(given, s)
            /\ wraps' = wraps + Count(\A i \in Free : i <= currentId)
            /\ IF s \in Calls THEN StartCall(s, NextId)
                              ELSE StartFireAndForget(s, NextId)

\* The receiver's onComplete returns into StreamIdGenerator.next.
CompleteReturns ==
    /\ In("complete")
    /\ currentId' = Head(running).id
    /\ running' = Tail(running)
    /\ UNCHANGED <<registry, stream, muxDone, given, wraps, wire, open>>

-----------------------------------------------------------------------------
(* The requester's calls and frames *)

Requests(s) ==
    /\ MayCall
    /\ stream[s].status = "idle"
    /\ CreateRequestStream(s)

Cancels(s) ==
    /\ MayCall
    /\ stream[s].status = "ready"
    /\ stream' = [stream EXCEPT ![s].status = "done", ![s].quit = TRUE]
    /\ registry' = [registry EXCEPT ![Requester][stream[s].id] = Nobody]
    /\ Send(Requester, <<Msg("CANCEL", stream[s].id, s, FALSE)>>)
    /\ UNCHANGED <<currentId, running, muxDone, given, wraps, open>>

\* The stream that the registry holds takes the frame for its own.
HandlesAnswer ==
    LET f == Head(wire[Requester])
        s == registry[Requester][f.id]
    IN  /\ running = <<>> /\ wire[Requester] # <<>>
        /\ s # Nobody
        /\ stream' = [Tell(s) EXCEPT ![s].heard = @ \cup {f.stream}]
        /\ registry' = [registry EXCEPT ![Requester][f.id] = Nobody]
        /\ wire' = [wire EXCEPT ![Requester] = Tail(@)]
        /\ UNCHANGED <<currentId, running, muxDone, given, wraps, open>>

DropsAnswer ==
    /\ running = <<>> /\ wire[Requester] # <<>>
    /\ registry[Requester][Head(wire[Requester]).id] = Nobody
    /\ wire' = [wire EXCEPT ![Requester] = Tail(@)]
    /\ UNCHANGED <<currentId, running, registry, stream, muxDone, given, wraps,
                   open>>

-----------------------------------------------------------------------------
(* The responder *)

\* A request finds its handler (and is registered, a fire-and-forget only if
\* fragments follow), or none (and a call is rejected), or its id taken (and
\* is dropped).
HandlesRequest ==
    LET f == Head(wire[Responder])
    IN  /\ wire[Responder] # <<>> /\ f.type = "REQUEST"
        /\ \E served \in BOOLEAN :
              LET free == registry[Responder][f.id] = Nobody
              IN  /\ registry' =
                       IF free /\ served /\ (f.stream \in Calls \/ f.follows)
                       THEN [registry EXCEPT ![Responder][f.id] = f.stream]
                       ELSE registry
                  /\ TakeAndSend(Responder,
                        If(free /\ ~served /\ f.stream \in Calls,
                           Msg("ANSWER", f.id, f.stream, FALSE)))
        /\ UNCHANGED <<currentId, running, stream, muxDone, given, wraps, open>>

\* A last fragment, or a CANCEL: what the registry holds ends, if anything.
HandlesEnd ==
    LET f == Head(wire[Responder])
    IN  /\ wire[Responder] # <<>> /\ f.type \in {"PAYLOAD", "CANCEL"}
        /\ registry' = [registry EXCEPT ![Responder][f.id] = Nobody]
        /\ TakeAndSend(Responder, <<>>)
        /\ UNCHANGED <<currentId, running, stream, muxDone, given, wraps, open>>

Answers(i) ==
    LET s == registry[Responder][i]
    IN  /\ s \in Calls
        /\ registry' = [registry EXCEPT ![Responder][i] = Nobody]
        /\ Send(Responder, <<Msg("ANSWER", i, s, FALSE)>>)
        /\ UNCHANGED <<currentId, running, stream, muxDone, given, wraps, open>>

-----------------------------------------------------------------------------
(* The end of the connection *)

ResponderLeaves ==
    /\ Disconnect(Responder, FALSE)
    /\ UNCHANGED <<currentId, running, registry, stream, muxDone, given, wraps>>

\* The connection is done; the multiplexer starts to close the streams that
\* its registry holds now.
Closes ==
    /\ running = <<>>
    /\ Disconnect(Requester, FALSE)
    /\ running' = <<[call |-> "close", id |-> 0, left |-> Ids \ Free,
                     called |-> FALSE]>>
    /\ UNCHANGED <<currentId, registry, stream, muxDone, given, wraps>>

\* The next stream in the order of the ids, if it is still there: its receiver
\* is told, its entry stays.
ClosesStream ==
    LET step == Head(running)
        id == Smallest(step.left)
        s == registry[Requester][id]
        told == s # Nobody /\ stream[s].status = "ready"
    IN  /\ In("close") /\ step.left # {}
        /\ stream' = IF told THEN Tell(s) ELSE stream
        /\ running' = <<[step EXCEPT !.left = @ \ {id},
                                     !.called = @ \/ told]>> \o Tail(running)
        /\ UNCHANGED <<currentId, registry, muxDone, given, wraps, wire, open>>

\* All are closed: only now is the multiplexer done.
CloseEnds(then) ==
    /\ In("close") /\ Head(running).left = {}
    /\ muxDone' = TRUE
    /\ running' = then \o Tail(running)
    /\ UNCHANGED <<currentId, registry, stream, given, wraps, wire, open>>

-----------------------------------------------------------------------------
Receives ==
    \/ HandlesAnswer \/ DropsAnswer
    \/ HandlesRequest \/ HandlesEnd

MuxNext ==
    \/ \E s \in Streams : Requests(s)
    \/ \E s \in Calls : Cancels(s)
    \/ CompleteReturns
    \/ Receives
    \/ \E i \in Ids : Answers(i)
    \/ ResponderLeaves
    \/ Closes \/ ClosesStream \/ CloseEnds(<<>>)

MuxSpec == MuxInit /\ [][MuxNext]_muxVars

-----------------------------------------------------------------------------
(* Properties *)

(* The ids handed out advance: each lies beyond the one before, or the ids *)
(* have wrapped around in between.                                         *)
IdsAdvance ==
    \A i \in 1 .. Len(given) - 1 :
        LET s == stream[given[i]]
            t == stream[given[i + 1]]
        IN  s.wrap < t.wrap \/ (s.wrap = t.wrap /\ s.id < t.id)

(* A stream is never given an answer meant for another one, whatever was   *)
(* cancelled while answers were on their way, unless all ids have been     *)
(* through since.                                                          *)
OwnAnswers ==
    \A s \in Streams : \A t \in stream[s].heard :
        t = s \/ stream[t].wrap < stream[s].wrap

(* A request never finds its id taken at the responder, where it would be  *)
(* dropped without an answer, whatever was cancelled, answered and used    *)
(* again before: only a stream that took an answer meant for another one   *)
(* for its own gives its id back while the responder still holds it.       *)
NoCollision ==
    LET f == Head(wire[Responder])
    IN  (\A s \in Streams : stream[s].heard \subseteq {s})
        /\ wire[Responder] # <<>> /\ f.type = "REQUEST"
        => registry[Responder][f.id] = Nobody

(* A stream and its answers belong together at both ends.                  *)
OwnStreams == OwnAnswers /\ NoCollision

(* Every receiver is told of the end of its request once at most, and not  *)
(* after a cancel; when the connection has closed, and its callbacks have  *)
(* returned, no receiver waits any more (except for the requests that      *)
(* found all ids in use: those are lost).                                  *)
RequestsTold ==
    /\ \A s \in Streams : stream[s].told + Count(stream[s].quit) <= 1
    /\ muxDone /\ running = <<>>
       => \A s \in Streams : stream[s].status \in {"idle", "done", "lost"}
=============================================================================
