---------------------------- MODULE MCResponses ----------------------------
(* A response that starts a conversation, the same identity with another   *)
(* content, and a tool continuation in the conversation it names.          *)
EXTENDS Responses, TLC

MCRequests ==
  {[key |-> "k1", content |-> "f1", conversation |-> "none", speaks |-> TRUE],
   [key |-> "k1", content |-> "f2", conversation |-> "c0", speaks |-> TRUE],
   [key |-> "k2", content |-> "f3", conversation |-> "c0", speaks |-> FALSE]}

(* Attempts are interchangeable, and no liveness is checked here. *)
MCAttempts == Permutations(Attempts)
=============================================================================
