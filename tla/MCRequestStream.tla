--------------------------- MODULE MCRequestStream ---------------------------
(* RequestStream for TLC: the instances are in the .cfg files.             *)
EXTENDS RequestStream
=============================================================================
