---------------------------- MODULE MCRxAdapter ----------------------------
(* A small instance of RxAdapter: what each kind of source emits at most.  *)
EXTENDS RxAdapter

MaxStream == 6
MaxChannel == 2
MaxResponse == 2

MCMaxValues ==
    [i \in Interactions |-> CASE i = "stream" -> MaxStream
                              [] i = "channel" -> MaxChannel
                              [] i = "response" -> MaxResponse]
=============================================================================
