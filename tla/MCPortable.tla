----------------------------- MODULE MCPortable -----------------------------
(* One character, one conversation with its messages, two clients and a    *)
(* container of another installation.  A second job, which repeats a broken *)
(* import or brings back what the first one exported, has fewer calls      *)
(* beside it.                                                              *)
EXTENDS PortableImport, TLC

CONSTANTS ann, chat, m1, m2, RepeatCalls

OneConversation == [m \in Messages |-> chat]

MCNext == PortableNext /\ (jobs' > 1 => calls' <= RepeatCalls)

MCSpec == PortableInit /\ [][MCNext]_portableVars
=============================================================================
