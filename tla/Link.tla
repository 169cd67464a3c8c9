-------------------------------- MODULE Link --------------------------------
(***************************************************************************)
(* What a resumable session promises to the streams at its ends, for one   *)
(* direction: whatever happens to the connections, the frames that one end *)
(* sends are handled by the other one by one, each once and in order, and  *)
(* none that has not been sent.                                            *)
(***************************************************************************)
EXTENDS Naturals, Sequences

VARIABLES
    sent,       \* how many frames one end has sent: the n-th is frame n
    handled     \* the frames that the other has passed on to its streams

link == <<sent, handled>>

Init == sent = 0 /\ handled = <<>>

Send ==
    /\ sent' = sent + 1
    /\ UNCHANGED handled

Handle ==
    /\ Len(handled) < sent
    /\ handled' = Append(handled, Len(handled) + 1)
    /\ UNCHANGED sent

Next == Send \/ Handle

Spec == Init /\ [][Next]_link
=============================================================================
