-------------------------- MODULE MCMemoryCommits --------------------------
(* Two turns of two conversations, or a turn and a review, or a turn and   *)
(* both lanes; batches of one turn.                                        *)
EXTENDS MemoryCommits

CONSTANTS alice, bob, r1, free

MCConversation == [t \in 1..MaxTurns |-> IF t = 1 THEN alice ELSE bob]
MCDisabled == {{}, {"memory"}}
MCClears == {{"memory"}, Kinds}

(* The second lane is at work, or has left something behind. *)
Graph ==
  \/ at["semantic_graph"] # "off" \/ image["semantic_graph"] # {}
  \/ \E i \in batches : i.kind = "maintenance" /\ i.lane = "semantic_graph"

(* What a behaviour may have besides its first turn: a second one, a       *)
(* review, or the second lane.  Only arrivals and starts are restricted.   *)
Scope ==
  /\ arrived = MaxTurns => \A r \in Reviews : reviews[r] = "absent"
  /\ Graph => arrived < MaxTurns /\ \A r \in Reviews : reviews[r] = "absent"

MCNext == Next /\ Scope'

MCSpec == Init /\ [][MCNext]_vars
=============================================================================
