-------------------------- MODULE MCRequestResponse --------------------------
(* RequestResponse for TLC: the instances are in the .cfg files.           *)
EXTENDS RequestResponse
=============================================================================
