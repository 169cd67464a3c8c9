---------------------------- MODULE Subscription ----------------------------
(***************************************************************************)
(* What one direction of an interaction promises, whatever frames carry    *)
(* it: a producer emits payloads and ends once; the receiver is given the  *)
(* payloads in order, each whole, and at most one terminal signal, which   *)
(* is a completion only after everything the producer emitted.  An error   *)
(* may come at any moment before the end (the connection is lost).         *)
(***************************************************************************)
EXTENDS Frames

VARIABLES
    emitted,    \* how many payloads the producer has emitted
    ended,      \* how the producer has ended: "no" | "complete" | "error"
    signals     \* what the receiver has been called with

promise == <<emitted, ended, signals>>

Told == \E i \in 1 .. Len(signals) : signals[i].last
Delivered == Len(signals)
Everything == ended = "complete" /\ Delivered = emitted

Init == emitted = 0 /\ ended = "no" /\ signals = <<>>

Emit ==
    /\ ended = "no"
    /\ emitted' = emitted + 1
    /\ ended' \in {"no", "complete"}
    /\ UNCHANGED signals

Stop ==
    /\ ended = "no"
    /\ ended' \in {"complete", "error"}
    /\ UNCHANGED <<emitted, signals>>

Deliver ==
    /\ ~Told /\ Delivered < emitted
    /\ \E last \in BOOLEAN :
          /\ last => ended = "complete" /\ Delivered + 1 = emitted
          /\ signals' = Append(signals, OnNext(Content(Delivered + 1), last))
    /\ UNCHANGED <<emitted, ended>>

Finish ==
    /\ ~Told
    /\ \/ signals' = Append(signals, OnError)
       \/ Everything /\ signals' = Append(signals, OnComplete)
    /\ UNCHANGED <<emitted, ended>>

Next == Emit \/ Stop \/ Deliver \/ Finish

Spec == Init /\ [][Next]_promise
=============================================================================
