------------------------------- MODULE Frames -------------------------------
(***************************************************************************)
(* The stream frames two RSocket peers exchange, as values of one record   *)
(* type, the connection's ends and the signals a receiver is given.  The   *)
(* byte layout (Codecs.ts) is left out: what the stream handlers branch on *)
(* is the frame type, the flags NEXT, COMPLETE and FOLLOWS, the requestN   *)
(* and, so that reassembly can be judged, the payload's data as a sequence *)
(* of units.                                                               *)
(***************************************************************************)
EXTENDS Naturals, Sequences

Requester == "requester"     \* the end that created the stream
Responder == "responder"     \* the end that received the request frame
End == {Requester, Responder}
Peer(e) == IF e = Requester THEN Responder ELSE Requester

FrameTypes == {"REQUEST", "PAYLOAD", "ERROR", "CANCEL", "REQUEST_N", "EXT"}

Frame == [type: FrameTypes, data: Seq(Nat), requestN: Nat,
          next: BOOLEAN, complete: BOOLEAN, follows: BOOLEAN]

RequestFrame(n, data, complete, follows) ==
    [type |-> "REQUEST", data |-> data, requestN |-> n,
     next |-> TRUE, complete |-> complete, follows |-> follows]

PayloadFrame(data, next, complete, follows) ==
    [type |-> "PAYLOAD", data |-> data, requestN |-> 0,
     next |-> next, complete |-> complete, follows |-> follows]

Bare(type, n) ==
    [type |-> type, data |-> <<>>, requestN |-> n,
     next |-> FALSE, complete |-> FALSE, follows |-> FALSE]

ErrorFrame == Bare("ERROR", 0)
CancelFrame == Bare("CANCEL", 0)
ExtFrame == Bare("EXT", 0)
RequestNFrame(n) == Bare("REQUEST_N", n)
CompleteFrame == PayloadFrame(<<>>, FALSE, TRUE, FALSE)

(***************************************************************************)
(* The k-th payload of a direction carries two units of data, so that a    *)
(* lost, doubled or merged fragment shows in what the receiver is given.   *)
(***************************************************************************)
Content(k) == <<k, k>>

(***************************************************************************)
(* What isFragmentable / fragment / fragmentWithRequestN put on the wire   *)
(* for a payload: one frame, or (cut) a first fragment and a last one, for *)
(* a request with metadata one in between.  COMPLETE travels on the last   *)
(* fragment only.                                                          *)
(***************************************************************************)
PayloadFrames(k, complete, cut) ==
    IF cut
    THEN << PayloadFrame(<<k>>, TRUE, FALSE, TRUE),
            PayloadFrame(<<k>>, TRUE, complete, FALSE) >>
    ELSE << PayloadFrame(Content(k), TRUE, complete, FALSE) >>

RequestFrames(n, complete, cut) ==
    IF cut
    THEN << RequestFrame(n, <<>>, FALSE, TRUE),
            PayloadFrame(<<1>>, TRUE, FALSE, TRUE),
            PayloadFrame(<<1>>, TRUE, complete, FALSE) >>
    ELSE << RequestFrame(n, Content(1), complete, FALSE) >>

-----------------------------------------------------------------------------
(* What a stream calls an application's receiver with (RSocket.ts): a      *)
(* payload, perhaps the last one, the end, or an error.                    *)

OnNext(data, last) == [kind |-> "next", data |-> data, last |-> last]
OnComplete == [kind |-> "complete", data |-> <<>>, last |-> TRUE]
OnError == [kind |-> "error", data |-> <<>>, last |-> TRUE]
SignalKinds == {"next", "complete", "error"}
Signal == [kind: SignalKinds, data: Seq(Nat), last: BOOLEAN]

Count(b) == IF b THEN 1 ELSE 0
If(b, s) == IF b THEN <<s>> ELSE <<>>
=============================================================================
