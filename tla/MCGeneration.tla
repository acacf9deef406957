---------------------------- MODULE MCGeneration ----------------------------
(***************************************************************************)
(* What a response is told, and what it tells its client.                  *)
(*                                                                         *)
(* Either two streamed responses of one personal Space, text between       *)
(* blanks and a provider that falls silent.  Or one of them alone, whose   *)
(* provider sends two calls with interleaved chunks, a call that never     *)
(* gets its id, text that the closing events no longer fit behind, or text *)
(* that reaches the limit; the other joins it once its script is read.     *)
(*                                                                         *)
(* Or a graph of three files, two of them with canon nodes at the start,   *)
(* patches that promote, edit and create in one go, and one rebuild at a   *)
(* time per request, beside four documents and a growing history; edits    *)
(* and messages share a budget: a conversation and a graph do not both     *)
(* grow long.                                                              *)
(***************************************************************************)
EXTENDS Generation, TLC

CONSTANTS
  a1, a2, home,
  Files, NoNode, Tokens, SourceLimit, HubThreshold, PerHub, PerSource, ExpansionTotal,
  Patches, Written, Existing, Rebuilds, BatchSize,
  MemorySources, MemoryHub, PerMemoryHub, PerMemory, MemoryTotal,
  Overhead, Margin, MaxImages, Said, Memories, Current, Queries, Budgets, Requests, MaxSpent

VARIABLES graph, pending, index, rebuild, said, spent

Facts == INSTANCE Knowledge WITH history <- said

facts == <<graph, pending, index, rebuild, said>>

ASSUME ProviderAssumption == ProviderIsSound
ASSUME KnowledgeAssumption ==
  Facts!BatchIsPositive /\ Facts!PatchesAreLists /\ Facts!MemoryLimits /\ Facts!ContextNumbers /\ Facts!LimitsAreNaturals

Data(text, call, id, name, arguments) ==
  [kind |-> "data", text |-> text, index |-> call, id |-> id, name |-> name,
   arguments |-> arguments]
End(kind) ==
  [kind |-> kind, text |-> <<>>, index |-> None, id |-> None, name |-> None,
   arguments |-> <<>>]

MCSpaceOf == [a \in {a1, a2} |-> home]
Word == Data(<<"w">>, None, None, None, <<>>)
Words(n) == [i \in 1 .. n |-> Word]
Blanks == Data(<<Blank>>, None, None, None, <<>>)

Plainly == <<Blanks, Word, Blanks, End("done")>>

MCScripts ==
  (a1 :> { Plainly,
           << Data(<<>>, 0, "c0", "f", <<>>), Data(<<>>, 1, "c1", "g", <<>>),
              Data(<<>>, 0, None, None, <<"y">>), End("done") >>,
           << Data(<<"w">>, 0, None, "f", <<>>), End("done") >>,
           Words(6) \o <<End("done")>>,
           Words(8) }) @@
  (a2 :> {<<>>})

-----------------------------------------------------------------------------
Node(id, text, mode, zone, edges) ==
  [id |-> id, text |-> text, mode |-> mode, status |-> "active", zone |-> zone,
   importance |-> 50, edges |-> edges]
Edge(to, weight) == [to |-> to, weight |-> weight]

TokensDef == [t1 |-> 1, t2 |-> 2]
ExistingDef ==
  (1 :> Node(1, "t1", "canon", "auto", {Edge(2, 80), Edge(3, 50)})) @@
  (2 :> Node(2, "t2", "canon", "auto", {Edge(1, 40)})) @@ (3 :> NoNode)

Update(text) == [type |-> "update_node", text |-> text]
Meta(mode, status) == [type |-> "update_frontmatter", mode |-> mode, status |-> status]
NewNode(node) == [type |-> "create_node", node |-> node]
Part(file, ops) == [file |-> file, ops |-> ops]
Draft == Node(3, "t1", "draft", "auto", {Edge(1, 90)})

PatchesDef ==
  { <<Part(3, <<NewNode(Draft)>>)>>,
    <<Part(3, <<NewNode(Node(2, "t1", "draft", "3", {}))>>)>>,
    <<Part(3, <<Meta("canon", "keep"), Update("t2")>>)>>,
    <<Part(3, <<Update("t2"), [type |-> "add_edge", edge |-> Edge(2, 70)]>>),
      Part(1, <<Update("t2")>>)>>,
    <<Part(1, <<[type |-> "remove_edge", to |-> 2],
                [type |-> "revision_candidate", reason |-> "r",
                 changes |-> <<Update("t2"), [type |-> "archive_node"]>>]>>)>>,
    <<Part(2, <<[type |-> "archive_node"]>>), Part(3, <<Meta("keep", "archived")>>)>> }
WrittenDef == {Node(1, "t2", "canon", "0", {Edge(3, 80)}), Node(3, "t2", "canon", "0", {})}

Memory(id, weight, size, status, related) ==
  [id |-> id, weight |-> weight, size |-> size, status |-> status, related |-> related]
MemoriesDef == { Memory(1, 5, 2, "active", <<2, 3>>), Memory(2, 3, 4, "active", <<1, 1>>),
                 Memory(3, 4, 1, "active", <<>>), Memory(4, 9, 1, "archived", <<1>>) }
CurrentDef == <<Memory(11, 0, 2, "active", <<>>), Memory(12, 0, 3, "active", <<>>)>>
Query(t1, t2, near, hits) ==
  [scores |-> [t1 |-> t1, t2 |-> t2], near |-> near, hits |-> hits, eligible |-> 1..4]
QueriesDef == { Query(60, 0, <<>>, {1, 2}), Query(0, 0, <<2, 1, 3>>, {1, 4}),
                Query(50, 45, <<3, 1>>, {2, 3}) }

Text(role, n) == [role |-> role, plain |-> n, text |-> n, wire |-> n, images |-> 0, evidence |-> FALSE]
With(role, n, text, wire, images) ==
  [role |-> role, plain |-> n, text |-> text, wire |-> wire, images |-> images, evidence |-> TRUE]
SaidDef == { Text("user", 4), With("user", 3, 5, 3, 2),
             Text("assistant", 3), With("assistant", 2, 6, 9, 0) }
NoInput == [atomic |-> FALSE, messages |-> <<>>, images |-> 0]
Asked(window, current, tools) ==
  [window |-> window, reserve |-> 2, current |-> current, tools |-> tools, vision |-> TRUE,
   trigger |-> 2, evict |-> 1]
Plain == [atomic |-> FALSE, messages |-> <<Text("user", 4)>>, images |-> 0]
InFull == [atomic |-> TRUE, messages |-> <<With("user", 3, 4, 4, 1)>>, images |-> 1]
RequestsDef ==
  { Asked(6, InFull, 0), Asked(9, NoInput, 0), Asked(7, Plain, 0),
    Asked(14, NoInput, 0), Asked(14, Plain, 2), Asked(16, InFull, 0),
    Asked(26, NoInput, 2), Asked(30, Plain, 0),
    [Asked(40, NoInput, 0) EXCEPT !.vision = FALSE] }

-----------------------------------------------------------------------------
MCInit == Init /\ Facts!Init /\ spent = 0

\* An edit of the graph costs three, a message or the start of a rebuild two.
\* Messages are stored while no rebuild is under way: neither step reads what
\* the other writes.
Started == \E r \in Rebuilds : rebuild'[r].place = "read" /\ rebuild[r].place = "new"
Price == IF said' # said \/ Started THEN 2 ELSE IF rebuild' # rebuild THEN 0 ELSE 3

\* The second response is there while the first is sent plain text, or when
\* nothing but the end of what the first is sent is left; the other scripts
\* are read by a response that is alone until then.
Contended == task'[a2].place = "new" \/ task'[a1].rest \in Suffixes(Plainly)

MCNext ==
  \/ spent = 0 /\ Next /\ Contended /\ UNCHANGED <<facts, spent>>
  \/ /\ Init /\ Facts!Next /\ UNCHANGED vars
     /\ said' # said => \A r \in Rebuilds : rebuild[r].place = "new"
     /\ spent' = spent + Price /\ spent' <= MaxSpent

MCSpec == MCInit /\ [][MCNext]_<<vars, facts, spent>> /\ \A a \in Attempts : Fair(a)

(* What is recalled is canon in use that the query, a fresh vector or an   *)
(* edge found, within the budget; nothing found is left out for no reason. *)
RecallExact == Facts!RecallExact

(* No patch changes what is canon before it or becomes canon on its way,   *)
(* but by an approved candidate.                                           *)
CanonProtected == Facts!CanonProtected

(* A rebuilt index is what the graph was at one moment of the rebuild. *)
IndexIsSnapshot == Facts!IndexIsSnapshot

(* What is sent fits the window, keeps the newest text, and is refused only *)
(* when its fixed part leaves no room.                                      *)
ContextExact == Facts!ContextExact
=============================================================================
