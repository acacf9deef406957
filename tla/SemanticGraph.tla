---------------------------- MODULE SemanticGraph ----------------------------
(***************************************************************************)
(* The semantic graph of one Space and its vector index: patches that a    *)
(* model proposed or a user wrote, the revision candidates that wait for a *)
(* user, the user's own edits, and rebuilds of the index, which read the   *)
(* graph, await an embedding provider batch after batch and replace the    *)
(* stored vectors, all without reserving the Space.                        *)
(*                                                                         *)
(* Every operation on the files runs under the reservation of the Space    *)
(* and commits all its files or none (SpaceWorker), so each is one step.   *)
(* The evidence of a candidate, validation of single fields, and the name  *)
(* of the vector space are left out: one space, one dimension.             *)
(***************************************************************************)
EXTENDS GraphRecall

CONSTANTS
  Patches,    \* patch documents: sequences of [file, ops]
  Written,    \* nodes a user may write
  Existing,   \* the graph at the start
  Rebuilds,   \* requests to rebuild the index
  BatchSize

BatchIsPositive == BatchSize \in Nat \ {0}

\* A node is a record with a mode, and operations and changes are lists.
HasMode(node) == "mode" \in DOMAIN node
IsList(s) == Len(s) \in Nat /\ DOMAIN s = 1 .. Len(s)
PatchesAreLists ==
  /\ Existing = [f \in Files |-> Existing[f]]
  /\ \A f \in Files : Existing[f] # NoNode => HasMode(Existing[f])
  /\ \A node \in Written : HasMode(node)
  /\ \A patch \in Patches : \A i \in DOMAIN patch :
       /\ patch[i].file \in Files /\ IsList(patch[i].ops)
       /\ \A n \in DOMAIN patch[i].ops :
            /\ patch[i].ops[n].type = "create_node" => HasMode(patch[i].ops[n].node)
            /\ patch[i].ops[n].type = "revision_candidate" => IsList(patch[i].ops[n].changes)

VARIABLES
  graph,    \* the node in each file, or NoNode
  pending,  \* revision candidates, one file each
  index,    \* stored vectors, by node id
  rebuild   \* what each rebuild has read and embedded

graphVars == <<graph, pending, index, rebuild>>

Bad == [mode |-> "invalid"]

GraphInit ==
  /\ graph = Existing /\ pending = {} /\ index = {}
  /\ rebuild = [r \in Rebuilds |-> [place |-> "new", todo |-> {}, docs |-> {}, ready |-> {}]]

-----------------------------------------------------------------------------
(* Patches *)

Linked(node, e) ==
  LET same == {x \in node.edges : x.to = e.to}
  IN  IF same = {} THEN [node EXCEPT !.edges = @ \cup {e}]
      ELSE IF same = {e} THEN node ELSE Bad

Or(new, old) == IF new = "keep" THEN old ELSE new

Apply(node, op) ==
  CASE op.type = "update_node" -> [node EXCEPT !.text = op.text]
    [] op.type = "add_edge" -> Linked(node, op.edge)
    [] op.type = "remove_edge" -> [node EXCEPT !.edges = {e \in @ : e.to # op.to}]
    [] op.type = "update_frontmatter" ->
         [node EXCEPT !.mode = Or(op.mode, @), !.status = Or(op.status, @)]
    [] op.type = "archive_node" -> [node EXCEPT !.status = "archived"]
    [] OTHER -> Bad

\* The node after each change of a candidate.
Changed(node, changes) ==
  LET after[n \in 0 .. Len(changes)] ==
        IF n = 0 THEN node
        ELSE IF after[n - 1] = Bad THEN Bad ELSE Apply(after[n - 1], changes[n])
  IN  after
ApplyAll(node, changes) == Changed(node, changes)[Len(changes)]

\* Mutant of Protected: a promotion is not looked for.
ProtectedCanonOnly(node, op) == node.mode = "canon"

\* An operation that only a user may apply at once.
Protected(node, op) ==
  \/ node.mode = "canon"
  \/ op.type = "update_frontmatter" /\ op.mode = "canon"

Candidate(file, id, reason, changes) ==
  [file |-> file, id |-> id, reason |-> reason, changes |-> changes]

\* One operation on a node that exists, beside the candidates so far.
Prepared(file, acc, op, authorized) ==
  IF acc.node = Bad THEN acc
  ELSE IF op.type = "revision_candidate"
       THEN [acc EXCEPT !.candidates = @ \cup {Candidate(file, acc.node.id, op.reason, op.changes)}]
  ELSE IF ~authorized /\ Protected(acc.node, op)
       THEN [acc EXCEPT !.candidates = @ \cup {Candidate(file, acc.node.id, "canon", <<op>>)}]
  ELSE [acc EXCEPT !.node = Apply(@, op)]

Alone(node) == [node |-> node, candidates |-> {}]

\* The node and the candidates after each operation on one file.
Patched(part, authorized) ==
  LET after[n \in 0 .. Len(part.ops)] ==
        IF n = 0 THEN Alone(graph[part.file])
        ELSE Prepared(part.file, after[n - 1], part.ops[n], authorized)
  IN  after

\* One file of a patch: what becomes of its node, and its new candidates.
FilePatch(part, authorized) ==
  LET old == graph[part.file]
      creates == {i \in DOMAIN part.ops : part.ops[i].type = "create_node"}
      node == part.ops[1].node
  IN  CASE part.ops = <<>> -> Alone(Bad)
        [] creates # {} /\ Len(part.ops) > 1 -> Alone(Bad)
        [] creates # {} /\ Len(part.ops) = 1 ->
             Alone(IF \/ ~authorized /\ node.mode # "draft"
                      \/ old \notin {NoNode, node}
                   THEN Bad ELSE node)
        [] creates = {} /\ old = NoNode -> Alone(Bad)
        [] OTHER -> Patched(part, authorized)[Len(part.ops)]

\* apply_patch (a maintenance pass, or a proposal that was submitted) and
\* apply_patch_authorized: every file of it, or none.
ApplyPatch(patch, authorized) ==
  LET result == [i \in DOMAIN patch |-> FilePatch(patch[i], authorized)]
  IN  /\ \A i, j \in DOMAIN patch : i # j => patch[i].file # patch[j].file
      /\ \A i \in DOMAIN patch : result[i].node # Bad
      /\ graph' = [f \in Files |->
           IF \E i \in DOMAIN patch : patch[i].file = f
           THEN result[CHOOSE i \in DOMAIN patch : patch[i].file = f].node
           ELSE graph[f]]
      /\ pending' = pending \cup UNION {result[i].candidates : i \in DOMAIN patch}
      /\ UNCHANGED <<index, rebuild>>

Proposal(patch)   == ApplyPatch(patch, FALSE)
Authorized(patch) == ApplyPatch(patch, TRUE)

\* The candidate names its node by id: it is applied to whatever that node
\* holds now, wherever it is, when there is exactly one.
Approve(c) ==
  LET named == {f \in Files : graph[f] # NoNode /\ graph[f].id = c.id}
  IN  /\ c \in pending
      /\ \E f \in named :
           LET node == ApplyAll(graph[f], c.changes)
           IN  /\ named = {f} /\ node # Bad
               /\ graph' = [graph EXCEPT ![f] = node]
      /\ pending' = pending \ {c}
      /\ UNCHANGED <<index, rebuild>>

Reject(c) ==
  /\ c \in pending /\ pending' = pending \ {c}
  /\ UNCHANGED <<graph, index, rebuild>>

-----------------------------------------------------------------------------
(* A user's own edits *)

WriteNode(f, node) ==
  /\ \A g \in Files \ {f} : graph[g] # NoNode => graph[g].id # node.id
  /\ graph' = [graph EXCEPT ![f] = node]
  /\ UNCHANGED <<pending, index, rebuild>>

ArchiveNode(f) ==
  /\ graph[f] # NoNode
  /\ graph' = [graph EXCEPT ![f].status = "archived"]
  /\ UNCHANGED <<pending, index, rebuild>>

DeleteNode(f) ==
  /\ graph[f] # NoNode
  /\ graph' = [graph EXCEPT ![f] = NoNode]
  /\ UNCHANGED <<pending, index, rebuild>>

-----------------------------------------------------------------------------
(* The vector index *)

\* graph_context: weights, mode and zone are not part of it.
Context(node) == <<node.id, node.text, {e.to : e \in node.edges}>>

\* embedding_documents: a document's hash stands for its content.
Documents(g) == {[file |-> f, id |-> g[f].id, hash |-> Context(g[f])] : f \in Active(g)}

\* A vector remembers the text it was computed from.
Vector(doc) == [id |-> doc.id, hash |-> doc.hash, of |-> doc.hash]

BeginRebuild(r) ==
  /\ rebuild[r].place = "new"
  /\ rebuild' = [rebuild EXCEPT ![r].place = "read", ![r].docs = Documents(graph)]
  /\ UNCHANGED <<graph, pending, index>>

\* Mutant of Reusable: a vector is kept for its node, whatever it embedded.
ReusableById(docs, stored) ==
  UNION {{[id |-> d.id, hash |-> d.hash, of |-> v.of] : v \in {w \in stored : w.id = d.id}} : d \in docs}

\* Stored vectors of unchanged documents are kept; a full rebuild keeps none.
Reusable(docs, stored) ==
  {v \in stored : \E d \in docs : d.id = v.id /\ d.hash = v.hash}

ReadIndex(r, incremental) ==
  LET kept == IF incremental THEN Reusable(rebuild[r].docs, index) ELSE {}
  IN  /\ rebuild[r].place = "read"
      /\ rebuild' = [rebuild EXCEPT ![r].place = "embedding", ![r].ready = kept,
           ![r].todo = {d \in rebuild[r].docs : \A v \in kept : d.id # v.id \/ d.hash # v.hash}]
      /\ UNCHANGED <<graph, pending, index>>

\* The provider answers one batch.
Embed(r) ==
  LET todo == rebuild[r].todo
      size == Min({BatchSize, Cardinality(todo)})
  IN  /\ rebuild[r].place = "embedding" /\ todo # {}
      /\ \E batch \in kSubset(size, todo) :
           /\ \A d \in batch, e \in todo \ batch : d.id <= e.id
           /\ rebuild' = [rebuild EXCEPT ![r].todo = @ \ batch,
                            ![r].ready = @ \cup {Vector(d) : d \in batch}]
      /\ UNCHANGED <<graph, pending, index>>

\* What the store is given at the end: all vectors, or nothing when a batch
\* failed or two documents have one id.
Stored(r) ==
  IF /\ rebuild[r].todo = {}
     /\ \A d, e \in rebuild[r].docs : d.id = e.id => d = e
  THEN rebuild[r].ready ELSE index

EndRebuild(r) ==
  /\ rebuild[r].place = "embedding"
  /\ index' = Stored(r)
  /\ rebuild' = [rebuild EXCEPT ![r] = [place |-> "new", todo |-> {}, docs |-> {}, ready |-> {}]]
  /\ UNCHANGED <<graph, pending>>

\* Mutant of Fresh: the hash is not compared.
FreshById(g, v) == \E d \in Documents(g) : d.id = v.id

\* rank_nsg_vectors: the ids near the query, of vectors that embed what the
\* node says now.  "near" lists node ids by similarity.
Fresh(g, v) == \E d \in Documents(g) :
  d.id = v.id /\ d.hash = v.hash /\ At(g, d.id) = d.file

Ranked(g, stored, near) ==
  SelectSeq(near, LAMBDA id : \E v \in stored : v.id = id /\ Fresh(g, v))

GraphNext ==
  \/ \E patch \in Patches : Proposal(patch) \/ Authorized(patch)
  \/ \E c \in pending : Approve(c) \/ Reject(c)
  \/ \E f \in Files, node \in Written : WriteNode(f, node)
  \/ \E f \in Files : ArchiveNode(f) \/ DeleteNode(f)
  \/ \E r \in Rebuilds : \/ BeginRebuild(r) \/ Embed(r) \/ EndRebuild(r)
                         \/ \E incremental \in BOOLEAN : ReadIndex(r, incremental)

GraphSpec == GraphInit /\ [][GraphNext]_graphVars

-----------------------------------------------------------------------------
(* Properties *)

Canon == {<<f, graph[f]>> : f \in {g \in Files : graph[g] # NoNode /\ graph[g].mode = "canon"}}

\* What a model proposes never changes, retires or adds canon by itself, in
\* whatever order the operations of its patch promote and edit; what it may
\* not do waits as a candidate (prepare_patch).
CanonProtected == [][(\E patch \in Patches : Proposal(patch)) => Canon' = Canon]_graphVars

\* The stored index is replaced as a whole and by one rebuild: its vectors
\* are of exactly the documents that rebuild read, each computed from the text
\* its hash names, whatever was edited, rebuilt or reused meanwhile, and a
\* provider that fails half way leaves it alone (rebuild_nsg_vector_index,
\* replace_nsg_vectors).
IndexIsSnapshot ==
  [][index' # index => \E r \in Rebuilds : index' = {Vector(d) : d \in rebuild[r].docs}]_graphVars
=============================================================================
