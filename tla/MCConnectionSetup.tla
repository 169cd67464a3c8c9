------------------------- MODULE MCConnectionSetup -------------------------
(* ConnectionSetup for TLC: the instance is in the .cfg file.              *)
EXTENDS ConnectionSetup
=============================================================================
