---------------------------- MODULE MemoryRecall ----------------------------
(***************************************************************************)
(* Retrieval from the documents of a Space (MemoryWorkspace::              *)
(* retrieve_in_scope) and how a response's budget is divided between       *)
(* Spaces, and between documents and the semantic graph.                   *)
(*                                                                         *)
(* A document is a record of id, weight, size (a count of paragraphs of    *)
(* one token), status and the ids its relations name, as a sequence: two   *)
(* relations may name the same one.  Which documents a query               *)
(* hits is given; that a hit also refreshes a document is in               *)
(* MemoryDocuments.                                                        *)
(***************************************************************************)
EXTENDS Integers, Sequences, SequencesExt, FiniteSets, FiniteSetsExt

CONSTANTS MemorySources, MemoryHub, PerMemoryHub, PerMemory, MemoryTotal

MemoryLimits ==
  {MemorySources, MemoryHub, PerMemoryHub, PerMemory, MemoryTotal} \subseteq Nat

LOCAL Less(a, b) == IF a > b THEN a - b ELSE 0     \* saturating_sub

\* Each Space its weight of the tokens, and the rest one by one to the first.
SpaceBudgets(weights, max) ==
  LET total == FoldLeft(+, 0, weights)
      part  == [i \in DOMAIN weights |->
                  (max \div total) * weights[i] + ((max % total) * weights[i]) \div total]
      rest  == Less(max, FoldLeft(+, 0, part))
  IN  [i \in DOMAIN weights |-> part[i] + IF i <= rest THEN 1 ELSE 0]

\* The graph is searched with what the documents' share leaves.
GraphBudget(max) == Less(max, (max * 60) \div 100)

\* The documents get what the graph did not use.
DocumentBudget(max, graphTokens) == Less(max, graphTokens)

Better(x, y) == x.weight > y.weight \/ (x.weight = y.weight /\ x.id < y.id)

\* The part of a body that fits: all of it or nothing under an identity,
\* else a prefix of its paragraphs.
Fitting(doc, allowed, scoped) ==
  IF doc.size <= allowed THEN doc.size ELSE IF scoped THEN 0 ELSE allowed

Take(doc, size, class) == [id |-> doc.id, size |-> size, class |-> class]

Pool(docs, ids) == SetToSortSeq({d \in docs : d.id \in ids /\ d.status = "active"}, Better)

\* Eligible documents one relation away from the first few of the pool.
RelatedPool(docs, eligible, direct) ==
  LET known == {d.id : d \in {e \in docs : e.status = "active"}}
      ids   == {d.id : d \in ToSet(direct)}
      reach(d) ==
        LET hub  == Len(SelectSeq(d.related, LAMBDA id : id \in known)) > MemoryHub
            pool == Pool(docs, (ToSet(d.related) \cap eligible) \ ids)
        IN  {[doc |-> pool[i], value |-> pool[i].weight * IF hub THEN 75 ELSE 100] :
               i \in 1..Min({Len(pool), IF hub THEN PerMemoryHub ELSE PerMemory})}
      found == UNION {reach(direct[i]) : i \in 1..Min({MemorySources, Len(direct)})}
      best  == {f \in found : \A g \in found : g.doc = f.doc => g.value <= f.value}
      order == SetToSortSeq(best, LAMBDA x, y :
                 x.value > y.value \/ (x.value = y.value /\ x.doc.id < y.doc.id))
  IN  [i \in 1..Min({MemoryTotal, Len(order)}) |-> order[i].doc]

\* scene.md and active_threads.md, within 45 percent, then the query's own
\* documents, then those they relate to, then the query's own again.
DocumentRecall(docs, current, eligible, hits, max, scoped) ==
  LET direct  == Pool(docs, hits \cap eligible)
      related == RelatedPool(docs, eligible, direct)
      hot(a, d) ==
        LET size == Fitting(d, Less((max * 45) \div 100, a.used), FALSE)
        IN  IF size = 0 THEN a
            ELSE [a EXCEPT !.used = @ + size, !.kept = Append(@, Take(d, size, "current"))]
      one == FoldLeft(hot, [used |-> 0, part |-> 0, kept |-> <<>>], current)
      left == Less(max, one.used)
      reserve == (left * 60) \div 100
      share   == (left * 35) \div 100
      first(a, d) ==
        LET rest == Less(max, a.used)
            size == Fitting(d, IF related # <<>> /\ a.part > 0
                               THEN Min({rest, Less(reserve, a.part)}) ELSE rest, scoped)
        IN  IF size = 0 THEN a
            ELSE [a EXCEPT !.used = @ + size, !.part = @ + size,
                           !.kept = Append(@, Take(d, size, "direct"))]
      second(a, d) ==
        IF a.used + d.size > max \/ a.part + d.size > share THEN a
        ELSE [a EXCEPT !.used = @ + d.size, !.part = @ + d.size,
                       !.kept = Append(@, Take(d, d.size, "related"))]
      third(a, d) ==
        LET size == Fitting(d, Less(max, a.used), scoped)
        IN  IF size = 0 \/ \E k \in ToSet(a.kept) : k.id = d.id THEN a
            ELSE [a EXCEPT !.used = @ + size, !.kept = Append(@, Take(d, size, "direct"))]
      two == FoldLeft(first, one, direct)
      three == FoldLeft(second, [two EXCEPT !.part = 0], related)
  IN  FoldLeft(third, three, direct).kept
=============================================================================
