------------------------------- MODULE MCLease -------------------------------
(* Lease and its Multiplexer for TLC.  Calls are alike, and so are         *)
(* fire-and-forgets.                                                       *)
EXTENDS Lease, TLC

Symmetry == Permutations(Calls) \cup Permutations(FireAndForgets)
=============================================================================
