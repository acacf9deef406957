--------------------------- MODULE MCSpaceRemoval ---------------------------
(* Two Spaces that each hold a row; one of them holds a document. *)
EXTENDS SpaceRemoval

CONSTANTS home, away, x1, x2, dark

MCFirstFiles == [s \in Spaces |-> IF s = home THEN {[path |-> "lore", body |-> "a"]} ELSE {}]
MCFirstRows == [s \in Spaces |-> IF s = home THEN {x1} ELSE {}]
MCFirstOverrides == [s \in Spaces |-> IF s = home THEN dark ELSE Default]
MCDocs == {[path |-> "lore", body |-> "a"], [path |-> "lore", body |-> "b"]}
=============================================================================
