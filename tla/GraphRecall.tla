----------------------------- MODULE GraphRecall -----------------------------
(***************************************************************************)
(* Retrieval from a semantic graph: NsgWorkspace::retrieve of momo-memory  *)
(* as operators over a function from files to nodes.  Scores are integers: *)
(* an anchor score and an edge weight are in hundredths, a share of a      *)
(* reciprocal rank is Unit divided by the rank.                            *)
(*                                                                         *)
(* What a query scores against the anchors of a text is given: the word    *)
(* statistics behind it (AnchorIndex) are not modelled.                    *)
(***************************************************************************)
EXTENDS Integers, Sequences, SequencesExt, FiniteSets, FiniteSetsExt

CONSTANTS
  Files,          \* places of nodes, in the order the directory lists them
  Tokens,         \* tokens of the context of a text; an edge adds one
  SourceLimit, HubThreshold, PerHub, PerSource, ExpansionTotal,
  NoNode

LimitsAreNaturals ==
  {SourceLimit, HubThreshold, PerHub, PerSource, ExpansionTotal} \subseteq Nat

Unit      == 600000      \* one, for reciprocal ranks
EdgeMin   == 40
HubMin    == 70
HubFactor == 75
ZoneMin   == 45          \* ZONE3_ABS_MIN, ZONE3_REL_RATIO and ZONE3_MAX
ZoneRatio == 75
ZoneMax   == 2

\* Canon protection and recall both start here: the nodes that are in use.
Active(graph) ==
  {f \in DOMAIN graph : /\ graph[f] # NoNode
                        /\ graph[f].mode = "canon" /\ graph[f].status = "active"}

Cost(node) == Tokens[node.text] + Cardinality(node.edges)

\* by_id: of two files with one id the later one is kept.
At(graph, id) ==
  LET of == {f \in Active(graph) : graph[f].id = id}
  IN  CHOOSE f \in of : \A g \in of : g <= f

\* An id that is ranked twice counts where it stands last.
Share(rank, id) ==
  IF id \in ToSet(rank) THEN Unit \div (60 + SelectLastInSeq(rank, LAMBDA x : x = id) - 1) ELSE 0

\* The ids a query hits, file by file, best first.
AnchorRank(graph, query) ==
  LET order == SetToSortSeq({f \in Active(graph) : query[graph[f].text] > 0},
                 LAMBDA f, g : \/ query[graph[f].text] > query[graph[g].text]
                               \/ /\ query[graph[f].text] = query[graph[g].text]
                                  /\ graph[f].id < graph[g].id \/ (graph[f].id = graph[g].id /\ f < g))
  IN  [i \in DOMAIN order |-> graph[order[i]].id]

\* reciprocal rank fusion of what the anchors and the vectors found
Fused(graph, query, near, f) ==
  LET ids == AnchorRank(graph, query)
  IN  IF near = <<>> /\ ids = <<>> THEN 100 * query[graph[f].text]
      ELSE Share(ids, graph[f].id) + Share(near, graph[f].id)

Before(graph, x, y) ==
  LET key(c) == <<c.score, c.anchor, graph[c.file].importance,
                  -graph[c.file].id, -c.file>>
  IN  \E k \in 1..5 : key(x)[k] > key(y)[k]
                      /\ \A j \in 1..(k - 1) : key(x)[j] = key(y)[j]

Sorted(graph, candidates) ==
  SetToSortSeq(candidates, LAMBDA x, y : Before(graph, x, y))

Direct(graph, query, near) ==
  LET found(f) == \/ query[graph[f].text] > 0
                  \/ graph[f].id \in ToSet(near)
                  \/ graph[f].zone = "0"
  IN  {[file |-> f, class |-> "direct", anchor |-> query[graph[f].text],
        score |-> Fused(graph, query, near, f)] :
          f \in {g \in Active(graph) : found(g)}}

\* The edges one source follows: those to nodes in use, heavy enough for a
\* node with so many of them, the heaviest first.
Followed(graph, node) ==
  LET ids   == {graph[f].id : f \in Active(graph)}
      live  == {e \in node.edges : e.weight > 0 /\ e.to \in ids}
      hub   == Cardinality(live) > HubThreshold
      order == SetToSortSeq({e \in live : e.weight >= IF hub THEN HubMin ELSE EdgeMin},
                 LAMBDA x, y : x.weight > y.weight \/ (x.weight = y.weight /\ x.to < y.to))
  IN  [edges |-> SubSeq(order, 1, Min({Len(order), IF hub THEN PerHub ELSE PerSource})),
       factor |-> IF hub THEN HubFactor ELSE 100]

\* One hop from the best direct candidates; an id that is already in keeps
\* the score of the source that brought it.
Expansion(graph, direct) ==
  LET expand(acc, source) ==
        LET from == Followed(graph, graph[source.file])
            add(a, e) ==
              IF Len(a) >= ExpansionTotal \/ e.to \in {graph[c.file].id : c \in ToSet(a) \cup ToSet(direct)}
              THEN a
              ELSE Append(a, [file |-> At(graph, e.to), class |-> "expansion", anchor |-> 0,
                              score |-> (source.score * e.weight * from.factor) \div 10000])
        IN  FoldLeft(add, acc, from.edges)
  IN  FoldLeft(expand, <<>>, SubSeq(direct, 1, Min({SourceLimit, Len(direct)})))

\* Auto nodes shown in the last zone: close to the best anchor score.
LastZone(graph, direct) ==
  LET auto == SelectSeq(direct, LAMBDA c : graph[c.file].zone = "auto" /\ c.anchor >= ZoneMin)
      top  == Max({c.anchor : c \in ToSet(auto)} \cup {0})
      near == SelectSeq(auto, LAMBDA c : 100 * c.anchor >= top * ZoneRatio)
  IN  {graph[near[i].file].id : i \in 1..Min({ZoneMax, Len(near)})}

\* The direct candidates take their reserve, the expansion its share, and what
\* is left goes to the direct candidates that were put off.
Select(graph, direct, expansion, max) ==
  LET cost(c) == Cost(graph[c.file])
      reserve == (max * 70) \div 100
      share   == (max * 30) \div 100
      first(a, c) ==
        IF a.used + cost(c) > max THEN a
        ELSE IF expansion # <<>> /\ a.part > 0 /\ a.part + cost(c) > reserve
             THEN [a EXCEPT !.later = Append(@, c)]
             ELSE [a EXCEPT !.used = @ + cost(c), !.part = @ + cost(c), !.kept = @ \cup {c}]
      second(a, c) ==
        IF a.used + cost(c) > max \/ a.part + cost(c) > share THEN a
        ELSE [a EXCEPT !.used = @ + cost(c), !.part = @ + cost(c), !.kept = @ \cup {c}]
      third(a, c) ==
        IF a.used + cost(c) > max THEN a
        ELSE [a EXCEPT !.used = @ + cost(c), !.kept = @ \cup {c}]
      one == FoldLeft(first, [used |-> 0, part |-> 0, kept |-> {}, later |-> <<>>], direct)
      two == FoldLeft(second, [one EXCEPT !.part = 0], expansion)
  IN  FoldLeft(third, two, two.later).kept

Candidates(graph, query, near) ==
  LET direct == Sorted(graph, Direct(graph, query, near))
  IN  [direct |-> direct, expansion |-> Sorted(graph, ToSet(Expansion(graph, direct)))]

\* What a query brings back, each with the zone it is shown in.
Recall(graph, query, near, max) ==
  LET found == Candidates(graph, query, near)
      last  == LastZone(graph, found.direct)
      zone(node) == CASE node.zone = "0" -> 0
                      [] node.zone = "3" \/ (node.zone = "auto" /\ node.id \in last) -> 3
                      [] OTHER -> 2
  IN  {[file |-> c.file, class |-> c.class, tokens |-> Cost(graph[c.file]),
        zone |-> zone(graph[c.file])] :
         c \in Select(graph, found.direct, found.expansion, max)}
=============================================================================
