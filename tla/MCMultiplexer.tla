---------------------------- MODULE MCMultiplexer ----------------------------
(* Multiplexer for TLC: the instance is in the .cfg file.                  *)
EXTENDS Multiplexer
=============================================================================
