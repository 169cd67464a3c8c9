------------------------------ MODULE MCResume ------------------------------
(* Resume for TLC: frames of 2, 1 and 3 bytes. *)
EXTENDS Resume

Bytes == <<2, 3, 6>>
FramePositions == [n \in {0} \cup Frame |-> IF n = 0 THEN 0 ELSE Bytes[n]]

\* The frames of each end.
TwoAndOne == [e \in End |-> IF e = Client THEN 2 ELSE 1]
=============================================================================
