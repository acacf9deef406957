------------------------------ MODULE Knowledge ------------------------------
(***************************************************************************)
(* What a response is told: the conversation, the documents and the graph  *)
(* of a Space, recalled for a query and fitted into the model's window.    *)
(* The graph and its index change step by step (SemanticGraph); messages   *)
(* are stored one at a time; what a response would be sent is a function   *)
(* of both, checked for every query, budget and request of small sets.     *)
(***************************************************************************)
EXTENDS SemanticGraph, MemoryRecall, ContextBudget

CONSTANTS
  Said,       \* messages that may be stored
  Memories,   \* documents of the Space
  Current,    \* scene and active threads
  Queries,    \* what a query hits: scores of texts, near ids, hits, eligible
  Budgets,    \* token budgets of retrieval
  Requests    \* context window, current input, tools, image support, eviction

VARIABLE history

vars == <<graph, pending, index, rebuild, history>>

Init == GraphInit /\ history = <<>>

Say(m) == history' = Append(history, m) /\ UNCHANGED graphVars

Next == \/ GraphNext /\ UNCHANGED history
        \/ \E m \in Said : Say(m)

Spec == Init /\ [][Next]_vars

-----------------------------------------------------------------------------
\* retrieve_memory: the graph first, within its part of the budget, then the
\* documents with all that is left.
Recalled(g, stored, q, max, scoped) ==
  LET near  == Ranked(g, stored, q.near)
      nodes == Recall(g, q.scores, near, GraphBudget(max))
      spent == MapThenSumSet(LAMBDA k : k.tokens, nodes)
  IN  [near |-> near, nodes |-> nodes, spent |-> spent,
       documents |-> DocumentRecall(Memories, Current, q.eligible, q.hits,
                                    DocumentBudget(max, spent), scoped)]

Sizes(documents) == [i \in DOMAIN documents |-> documents[i].size]
SumOf(seq) == FoldLeft(+, 0, seq)

RecallHolds(g, stored) ==
  \A q \in Queries, max \in Budgets :
    LET r      == Recalled(g, stored, q, max, TRUE)
        room   == GraphBudget(max)
        direct == Candidates(g, q.scores, r.near).direct
        firsts == {g[direct[i].file] : i \in 1..Min({SourceLimit, Len(direct)})}
        docs   == SumOf(Sizes(r.documents))
        hops   == {k \in r.nodes : k.class = "expansion"}
    IN  /\ {k.file : k \in r.nodes} \subseteq Active(g)
        /\ \A id \in ToSet(r.near) :
             \E v \in stored : v.id = id /\ v.of = Context(g[At(g, id)])
        /\ \A k \in hops : \E n \in firsts : \E e \in n.edges : e.to = g[k.file].id
        /\ r.spent <= room /\ r.spent + docs <= max
        /\ 100 * MapThenSumSet(LAMBDA k : k.tokens, hops) <= 30 * room
        /\ \A c \in ToSet(direct) :
             (\A k \in r.nodes : k.file # c.file) => r.spent + Cost(g[c.file]) > room
        /\ \A d \in ToSet(Pool(Memories, q.hits \cap q.eligible)) :
             (\A k \in ToSet(r.documents) : k.id # d.id) => r.spent + docs + d.size > max

\* What is recalled is canon in use, found by a vector only when the vector
\* embeds what the node says now, or one edge from one of the first nodes
\* found; it stays within the budget and its shares; and nothing the query
\* itself found is left out while the budget has room for it (retrieve,
\* retrieve_in_scope, retrieve_memory).
RecallExact == [][graph' # graph \/ index' # index => RecallHolds(graph', index')]_vars

-----------------------------------------------------------------------------
Character == [cost |-> 6, weight |-> 6, records |-> <<>>]

Section(cost, weight, records) == [cost |-> cost, weight |-> weight, records |-> records]

Sections(q, max) ==
  LET r == Recalled(graph, index, q, max, TRUE)
  IN  SelectSeq(<<Character,
                  Section(SumOf(Sizes(r.documents)) + 1, 3, Sizes(r.documents)),
                  Section(r.spent + 1, 2, <<>>)>>,
                LAMBDA s : s.cost > 1)

\* The newest message is what the request says in full: texts of one length
\* stand for one text.
SaidAgain(window, current) ==
  /\ window # <<>> /\ Last(window).role = "user"
  /\ \E m \in ToSet(current.messages) : m.role = "user" /\ m.plain = Last(window).plain

\* A response to stored messages: its own input is the newest of them, unless
\* it is taken off again because the request carries it in full.
Answer(stored, request, sections) ==
  LET window == Window(stored, request.trigger, request.evict)
      kept   == IF SaidAgain(window, request.current) THEN Front(window) ELSE window
  IN  [window |-> window,
       history |-> History(kept, request.vision, MaxImages - request.current.images),
       context |-> Assemble(History(kept, request.vision, MaxImages - request.current.images),
                     sections, request.current, request.tools, request.window, request.reserve)]

\* A request is refused when its own fixed part leaves no room for text, and
\* for no other reason; otherwise all that is sent fits the window.  The
\* newest text is whole when it needs no more than half of what is left, and
\* is never missing when it is ordinary text that has room for a token; only
\* evidence goes at once, and only from the oldest message kept.  No section
\* is lost to a larger one.  The conversation itself loses whole completed
\* turns, "evict" at a time (prepare_context, expand, the checks around them).
ContextFits(stored, request, sections) ==
  LET a     == Answer(stored, request, sections)
      c     == a.context
      limit == request.window - request.reserve - Margin
      fixed == request.tools + IF request.current.atomic
               THEN SumOf([i \in DOMAIN request.current.messages |->
                              request.current.messages[i].wire]) ELSE 0
      all   == a.history \o IF request.current.atomic THEN <<>> ELSE request.current.messages
      room  == limit - fixed
  IN  /\ Completed(a.window) < request.trigger
      /\ Len(a.window) < Len(stored) =>
           /\ Completed(a.window) >= request.trigger - request.evict
           /\ a.window # <<>> => a.window[1].role = "user"
      /\ (c.status = "refused") <=> fixed >= limit
      /\ c.status # "overflow"
      /\ c.status = "ok" =>
           /\ c.tokens <= limit
           /\ all # <<>> =>
                LET last == Last(all) IN
                /\ 2 * last.wire <= room => (c.sent # <<>> /\ Last(c.sent) = last.wire)
                /\ ~last.evidence /\ room > 2 * Overhead + 1 =>
                     (c.sent # <<>> /\ Last(c.sent) > Overhead)
           /\ \A i \in DOMAIN c.sent : c.sent[i] = 0 => (i = 1 /\ Len(c.sent) = 1)
           /\ \A i \in DOMAIN sections :
                (/\ sections[i].records = <<>>
                 /\ SumOf([j \in DOMAIN sections |-> sections[j].weight]) + Len(sections)
                      + Overhead <= room \div 2) =>
                  c.sections[i] >= Min({sections[i].cost, sections[i].weight})

ContextExact ==
  [][history' # history =>
       \A q \in Queries :
         LET sections == Sections(q, Max(Budgets))
         IN  \A request \in Requests : ContextFits(history', request, sections)]_vars
=============================================================================
