-------------------------- MODULE MCRequestChannel --------------------------
(* RequestChannel for TLC: the instances are in the .cfg files.            *)
EXTENDS RequestChannel

\* Bound: request(n) and onExtension calls of the two ends together.
MaxCalls == 3

FewCalls ==
    app[Requester].requests + app[Requester].extensions
      + app[Responder].requests + app[Responder].extensions <= MaxCalls
=============================================================================
