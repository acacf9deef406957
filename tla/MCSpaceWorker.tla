--------------------------- MODULE MCSpaceWorker ---------------------------
(* Two files, one of each module; the memory one is created by the layout. *)
EXTENDS SpaceWorker

CONSTANTS scene, lore, initial, text, absent, c1, c2, nobody

MCPaths == {scene, lore}
MCGraphPaths == {lore}
MCRequired == {scene}
MCBodies == {initial, text}
MCClients == {c1, c2}
MCFound == {[p \in MCPaths |-> absent], [p \in MCPaths |-> text]}
MCOps ==
  {[kind |-> "write", path |-> scene, body |-> text],
   [kind |-> "write", path |-> scene, body |-> absent],
   [kind |-> "write", path |-> lore, body |-> initial],
   [kind |-> "clear", modules |-> {"memory"}],
   [kind |-> "acknowledge"], [kind |-> "read"]}

(* Edits by hand fall between commands, or on a planned file between the   *)
(* plan of a publication and its validation: the window publish watches.   *)
WatchedEdit ==
  pc \in {"down", "idle", "exec"} \/ (pc = "validate" /\ \A p \in Paths \ todo : files'[p] = files[p])
MCNext == Next /\ (edits' # edits => WatchedEdit)
MCSpec == Init /\ [][MCNext]_vars /\ WF_vars(Work)
=============================================================================
