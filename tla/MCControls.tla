----------------------------- MODULE MCControls -----------------------------
(* Two switches and a deletion of one conversation, and the key of the     *)
(* first used again for the deletion of another.                           *)
EXTENDS Controls, TLC

MCRequests ==
  {[key |-> "k1", type |-> "switch", conversation |-> "a", character |-> "x"],
   [key |-> "k2", type |-> "switch", conversation |-> "a", character |-> "y"],
   [key |-> "k3", type |-> "delete", conversation |-> "a", character |-> "x"],
   [key |-> "k1", type |-> "delete", conversation |-> "b", character |-> "x"]}

(* Attempts are interchangeable, and no liveness is checked here. *)
MCAttempts == Permutations(Attempts)
=============================================================================
