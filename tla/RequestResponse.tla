--------------------------- MODULE RequestResponse ---------------------------
(***************************************************************************)
(* One REQUEST_RESPONSE interaction: a RequestResponseRequesterStream and  *)
(* a RequestResponseResponderStream (RequestResponseStream.ts).            *)
(*                                                                         *)
(* The two classes are those of a stream without demand: nothing is asked  *)
(* for (the model's request frame has a constant requestN of 1), and the   *)
(* first payload is the last one at both ends.  What they share with a     *)
(* stream is taken from RequestStream; what differs is defined here.       *)
(***************************************************************************)
EXTENDS RequestStream

ASSUME NoDemandAssumption == InitialDemands = {1} /\ Demands = {}

-----------------------------------------------------------------------------
(* RequestResponseRequesterStream *)

\* Mutant: a response without a payload ends the stream untold.
RequesterHandlesResponse_EndUntold ==
    LET f == Head(wire[Requester])
        s == stream[Requester]
    IN  /\ Handles(Requester, "PAYLOAD")
        /\ f.complete \/ ~f.follows
        /\ stream' = [stream EXCEPT ![Requester] =
                        [done |-> TRUE, registered |-> FALSE,
                         hasFragments |-> s.hasFragments /\ ~f.next,
                         fragments |-> IF f.next THEN <<>> ELSE s.fragments]]
        /\ IF f.next THEN Told(OnNext(Reassembled(Requester, f.data), TRUE))
                     ELSE UNCHANGED consumer
        /\ TakeAndSend(Requester, <<>>)
        /\ UNCHANGED <<phase, held, served, initialN, producer, extended,
                       refused, open>>

\* A payload frame that is no fragment ends the stream, with or without
\* COMPLETE: the only payload, or the end without one.
RequesterHandlesResponse ==
    LET f == Head(wire[Requester])
        s == stream[Requester]
    IN  /\ Handles(Requester, "PAYLOAD")
        /\ f.complete \/ ~f.follows
        /\ stream' = [stream EXCEPT ![Requester] =
                        [done |-> TRUE, registered |-> FALSE,
                         hasFragments |-> s.hasFragments /\ ~f.next,
                         fragments |-> IF f.next THEN <<>> ELSE s.fragments]]
        /\ Told(IF f.next THEN OnNext(Reassembled(Requester, f.data), TRUE)
                          ELSE OnComplete)
        /\ TakeAndSend(Requester, <<>>)
        /\ UNCHANGED <<phase, held, served, initialN, producer, extended,
                       refused, open>>

-----------------------------------------------------------------------------
(* RequestResponseResponderStream *)

\* onNext, whatever its isCompletion: the stream is done.
ResponderResponds(cut) ==
    /\ HasStream
    /\ ~Done(Responder)
    /\ Finish(Responder)
    /\ Send(Responder, PayloadFrames(producer.emitted + 1, TRUE, cut))
    /\ producer' = [producer EXCEPT !.emitted = @ + 1, !.ended = "complete"]
    /\ UNCHANGED <<phase, held, served, initialN, consumer, extended, refused,
                   open>>

-----------------------------------------------------------------------------
(* The classes, handler by handler *)

AnswerRequest == (\E cut \in BOOLEAN : HandleReady(cut)) \/ HandleReject

CallerCalls == RequesterCancel \/ RequesterOnExtension

CallerHandles ==
    \/ RequesterHandlesResponse
    \/ RequesterHandlesFragment
    \/ RequesterHandlesError
    \/ RequesterHandlesExtension
    \/ DropFrame(Requester)

CalleeHandles ==
    \/ ResponderRejects
    \/ ResponderReceivesFirstFragment
    \/ ResponderReceivesRequest
    \/ ResponderReassemblesRequest
    \/ ResponderHandlesFragment
    \/ ResponderHandlesEnd
    \/ ResponderHandlesExtension
    \/ ResponderRefusesFrame
    \/ DropFrame(Responder)

CalleeCalls ==
    \/ \E cut \in BOOLEAN : ResponderResponds(cut)
    \/ ResponderOnComplete
    \/ ResponderOnError
    \/ ResponderOnExtension

ResponseNext ==
    \/ AnswerRequest
    \/ CallerCalls \/ CalleeCalls
    \/ CallerHandles \/ CalleeHandles
    \/ HandlerReturns \/ HandlerThrows
    \/ RequesterCloses \/ ResponderCloses

ResponseSpec == Init /\ [][ResponseNext]_vars

\* The same scheduling as a stream's, and a callee that does answer.
ResponseFairness ==
    /\ WF_vars(AnswerRequest) /\ WF_vars(HandlerEnds)
    /\ WF_vars(CallerHandles) /\ WF_vars(CalleeHandles)
    /\ WF_vars(~open[Responder] /\ RequesterCloses)
    /\ WF_vars(~open[Requester] /\ ResponderCloses)
    /\ WF_vars(ResponderOnComplete \/ ResponderOnError)

FairResponseSpec == ResponseSpec /\ ResponseFairness

-----------------------------------------------------------------------------
(* Properties *)

(* The caller is answered once: with one whole payload, an end, or an      *)
(* error, and never after it cancelled.                                    *)
SingleAnswer ==
    /\ Len(consumer.signals) + Count(consumer.quit) <= 1
    /\ \A i \in 1 .. Len(consumer.signals) :
          LET signal == consumer.signals[i]
          IN  signal.kind = "next" => signal = OnNext(Content(1), TRUE)

(* Every request is answered or cancelled, also when the connection is     *)
(* lost, if the callee answers what it is given; once; and then both ends  *)
(* forget it.                                                              *)
AnsweredOnce ==
    /\ <>(consumer.quit \/ consumer.signals # <<>>)
    /\ [](SingleAnswer /\ RegistryExact)
=============================================================================
