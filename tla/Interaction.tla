----------------------------- MODULE Interaction -----------------------------
(***************************************************************************)
(* What the interaction models share: the FIFO of frames on its way to     *)
(* each end, and whether the connection is open at each end.               *)
(***************************************************************************)
EXTENDS Frames

VARIABLES
    wire,     \* per end: the frames on their way to it
    open      \* per end: its connection is not done

-----------------------------------------------------------------------------
(* The wires.  A frame sent on a closed connection, or to an end that has  *)
(* closed, is gone.                                                        *)

Sent(e, frames) == IF open[e] /\ open[Peer(e)] THEN frames ELSE <<>>

Send(e, frames) ==
    wire' = [wire EXCEPT ![Peer(e)] = @ \o Sent(e, frames)]

\* Take the first frame addressed to e and send the answers.
TakeAndSend(e, frames) ==
    wire' = [d \in End |-> IF d = e THEN Tail(wire[e])
                           ELSE wire[d] \o Sent(e, frames)]

\* Deferred.close of e's connection.  Nothing more is received, except (if
\* chunked) the rest of the TCP chunk being handled.
Disconnect(e, chunked) ==
    /\ open[e]
    /\ open' = [open EXCEPT ![e] = FALSE]
    /\ \E rest \in 0 .. (IF chunked THEN Len(wire[e]) ELSE 0) :
          wire' = [wire EXCEPT ![e] = SubSeq(@, 1, rest)]

=============================================================================
