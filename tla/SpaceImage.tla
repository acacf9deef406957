----------------------------- MODULE SpaceImage -----------------------------
(***************************************************************************)
(* The data of one memory Space: images of its files, and what a command   *)
(* makes of an image.  Shared by the abstract Space and by its worker.     *)
(***************************************************************************)
CONSTANTS
  Paths,       \* workspace-relative file names
  GraphPaths,  \* the ones of the semantic graph (lore/, rules/, archive/...)
  Required,    \* the ones initialize_layout creates when they are missing
  Bodies,      \* file contents
  Default,     \* the content initialize_layout writes
  Absent,      \* the file does not exist
  Clients      \* callers holding the Space address

ASSUME LayoutAssumption ==
  /\ GraphPaths \subseteq Paths
  /\ Required \subseteq Paths
  /\ Default \in Bodies
  /\ Absent \notin Bodies

-----------------------------------------------------------------------------
Image == [Paths -> Bodies \cup {Absent}]
Modules == {"memory", "semantic_graph"}

(* initialize_layout: only missing required files are created. *)
WithLayout(image) ==
  [p \in Paths |-> IF p \in Required /\ image[p] = Absent
                   THEN Default ELSE image[p]]

ModuleOf(p) == IF p \in GraphPaths THEN "semantic_graph" ELSE "memory"

(* SpaceHandle::clear_memory keeps the files of the other module. *)
Cleared(image, modules) ==
  WithLayout([p \in Paths |-> IF ModuleOf(p) \in modules THEN Absent ELSE image[p]])

(* A client writes or deletes one file, clears modules, reads, or          *)
(* acknowledges a finished clear.                                          *)
Op == [kind : {"write"}, path : Paths, body : Bodies \cup {Absent}]
        \cup [kind : {"clear"}, modules : SUBSET Modules]
        \cup [kind : {"read", "acknowledge"}]

Effect(o, image) ==
  CASE o.kind = "write" -> [image EXCEPT ![o.path] = o.body]
    [] o.kind = "clear" -> Cleared(image, o.modules)
    [] OTHER -> image
=============================================================================
