--------------------------- MODULE StateProjection ---------------------------
(***************************************************************************)
(* What MO State tells the model: the projection that compile_mo_state     *)
(* (momo-memory state.rs) makes of the memory and the graph recalled for a *)
(* response, under the state contract of the Space and the disposition     *)
(* profile of the character, and the memory the prompt then leaves out.    *)
(*                                                                         *)
(* A directive is a text, of one token; a rule has an id, a condition and  *)
(* sequences of directives.  A condition names what it looks at ("use");   *)
(* all its fields that another use would need are unset.  Tags are         *)
(* normalized; Generic tags are those of one character.                    *)
(***************************************************************************)
EXTENDS Disposition

CONSTANTS Generic, Scene, Builtin

Dimensions == {"scene_constraint", "physiological_state", "epistemic_state",
               "relational_stance", "emotional_tone"}

(* What a conflict may name besides a rule. *)
SceneRules == {"scene_environment"}

-----------------------------------------------------------------------------
(* The contract *)

Uses == [scene_constraint |-> {"none"}, physiological_state |-> {"event"},
         epistemic_state |-> {"absence", "misconception"},
         relational_stance |-> {"none", "relation"}, emotional_tone |-> {"none", "tone"}]

ConditionValid(dimension, c) ==
  /\ c.use \in Uses[dimension]
  /\ c.use = "relation" => c.least <= c.most
  /\ c.use \in {"relation", "tone"} => c.any = {} \/ c.any \ Generic # {}

(* A dimension of the override replaces the built-in one if its source and *)
(* mode are right; of its first twenty rules the valid ones stay.          *)
Usable(d) == d.source /\ d.mode \in {"first", "accumulate"}

Sanitized(name, d) ==
  [d EXCEPT !.rules = SelectSeq(SubSeq(@, 1, Min({20, Len(@)})),
     LAMBDA r : r.id # "" /\ r.directives # <<>> /\ ConditionValid(name, r.condition))]

Overridden(user, name) ==
  IF name \in DOMAIN user.dimensions /\ Usable(user.dimensions[name])
  THEN Sanitized(name, user.dimensions[name]) ELSE Builtin.dimensions[name]

Permutation(priority) == Len(priority) = 5 /\ ToSet(priority) = Dimensions

(* Of rules with one id the first stays, dimensions in order of priority.  *)
Unique(dimensions, priority) ==
  LET ids(n) == UNION {{r.id : r \in ToSet(dimensions[priority[k]].rules)} : k \in 1..(n - 1)}
      keep(rules, seen) ==
        FoldLeft(LAMBDA a, r : IF r.id \in seen \cup {x.id : x \in ToSet(a)} THEN a ELSE Append(a, r),
                 <<>>, rules)
  IN [name \in Dimensions |->
       LET n == CHOOSE k \in 1..5 : priority[k] = name
       IN [dimensions[name] EXCEPT !.rules = keep(@, ids(n))]]

RuleIds(dimensions) == UNION {{r.id : r \in ToSet(dimensions[n].rules)} : n \in Dimensions}

Closed(dimensions) ==
  LET target(t) == t \in RuleIds(dimensions) \cup SceneRules
      close(r) ==
        LET left == {t \in r.conflicts : target(t)}
        IN [r EXCEPT !.conflicts = left, !.resolution = IF left = {} THEN <<>> ELSE @]
  IN [n \in Dimensions |-> [dimensions[n] EXCEPT !.rules = [i \in DOMAIN @ |-> close(@[i])]]]

(* merge_contract, and whether it had to warn *)
Merge(user) ==
  LET priority == IF Permutation(user.priority) THEN user.priority ELSE Builtin.priority
      chosen == [n \in Dimensions |-> Overridden(user, n)]
      merged == Closed(Unique(chosen, priority))
  IN [priority |-> priority, dimensions |-> merged,
      warned |-> \/ user.version # 1 \/ priority # user.priority \/ merged # chosen
                 \/ \E n \in DOMAIN user.dimensions :
                      \/ n \notin Dimensions \/ ~Usable(user.dimensions[n])
                      \/ Sanitized(n, user.dimensions[n]) # user.dimensions[n]]

(* replace_state_contract takes an override only if nothing is warned of;  *)
(* one that was put in place by hand degrades the projection instead.      *)
Contract(user) == IF user = None THEN Builtin ELSE Merge(user)

-----------------------------------------------------------------------------
(* Rules *)

TagsMatch(tags, any, all) ==
  /\ any = {} \/ (any \ Generic) \cap tags # {}
  /\ all \subseteq tags \ Generic

Events(signals) == {s \in signals : s.kind = "event"}

Strongest(signals) ==
  LET order == SetToSortSeq(Events(signals), LAMBDA x, y : x.weight > y.weight \/ (x.weight = y.weight /\ x.id < y.id))
  IN {order[i] : i \in 1..Min({3, Len(order)})}

(* An event is witnessed if it carries the marker and relates to the       *)
(* character the rule is for; a rule for no character is never content.    *)
Unwitnessed(c, signals) ==
  {s \in Events(signals) : /\ c.event \in s.tags
                           /\ ~(c.marker \in s.tags /\ c.character # None /\ c.character \in s.related)}

Misconceived(c, signals) ==
  \E s \in Events(signals) :
    /\ "misconception" \in s.tags /\ c.character \in s.related
    /\ ~\E o \in Events(signals) : /\ "corrected" \in o.tags /\ o.touch > s.touch
                                   /\ {s.id, c.character} \cap o.related # {}

Matches(dimension, c, signals, nodes) ==
  CASE dimension = "relational_stance" ->
         \E s \in signals : /\ s.kind = "relationship"
                            /\ c.use = "relation" => s.weight \in c.least..c.most /\ TagsMatch(s.tags, c.any, c.all)
    [] dimension = "emotional_tone" ->
         c.use = "tone" => TagsMatch(UNION {s.tags : s \in Strongest(signals)}, c.any, c.all)
    [] dimension = "physiological_state" ->
         /\ \E s \in Events(signals) : c.event \in s.tags
         /\ \E n \in nodes : c.word \in n.words
         /\ c.node = None \/ \E n \in nodes : n.id = c.node
    [] dimension = "epistemic_state" ->
         IF c.use = "absence" THEN Unwitnessed(c, signals) # {} ELSE Misconceived(c, signals)
    [] OTHER -> FALSE

(* The first rule that matches, or all of them. *)
MatchedRules(contract, dimension, signals, nodes) ==
  LET hit == SelectSeq(contract.dimensions[dimension].rules,
                       LAMBDA r : Matches(dimension, r.condition, signals, nodes))
  IN IF contract.dimensions[dimension].mode = "accumulate" \/ hit = <<>> THEN hit ELSE <<Head(hit)>>

Tagged(id, texts) == [i \in DOMAIN texts |-> <<id, texts[i]>>]

Directives(contract, dimension, signals, nodes) ==
  IF dimension = "scene_constraint"
  THEN FlattenSeq(SetToSeq({Tagged("scene_environment", s.environment) : s \in {x \in signals : x.id = Scene}})
                  \o SetToSeq({Tagged("nsg_constraint", n.constraints) : n \in nodes}))
  ELSE FlattenSeq([i \in DOMAIN MatchedRules(contract, dimension, signals, nodes) |->
         LET r == MatchedRules(contract, dimension, signals, nodes)[i] IN Tagged(r.id, r.directives)])

Rules(contract) == UNION {ToSet(contract.dimensions[n].rules) : n \in Dimensions}

Conflict(contract, a, b) ==
  \E r \in Rules(contract) : \/ r.id = a /\ b \in r.conflicts
                             \/ r.id = b /\ a \in r.conflicts

(* order_directives: by priority; a rule that conflicts with one already   *)
(* accepted is replaced by its resolution, once.                           *)
Ordered(contract, directives) ==
  LET place(a, d) ==
        IF \E b \in a.accepted : Conflict(contract, d[1], b)
        THEN [a EXCEPT !.resolved = @ \cup {d[1]},
                !.out = @ \o IF d[1] \in a.resolved THEN <<>>
                             ELSE FlattenSeq(SetToSeq({r.resolution : r \in {x \in Rules(contract) : x.id = d[1]}}))]
        ELSE [a EXCEPT !.accepted = @ \cup {d[1]}, !.out = Append(@, d[2])]
      section(a, name) ==
        LET one == FoldLeft(place, [a EXCEPT !.out = <<>>], directives[name])
        IN [one EXCEPT !.sections = @ \o IF one.out = <<>> THEN <<>> ELSE <<[name |-> name, texts |-> one.out]>>]
  IN FoldLeft(section, [accepted |-> {}, resolved |-> {}, out |-> <<>>, sections |-> <<>>], contract.priority)

-----------------------------------------------------------------------------
(* The records a character must not know of *)

Links(s) == s.related \cup s.links

Next1(signals, sources, out) ==
  {s \in signals : \/ \E o \in out : o.id \in Links(s)
                   \/ s.sources \cap sources # {}}

(* Mutant of Excluded: links are followed once. *)
ExcludedOnce(c, signals) ==
  LET first == Unwitnessed(c, signals)
  IN first \cup Next1(signals, UNION {s.sources : s \in first}, first)

(* epistemic_prompt_exclusions: the unwitnessed events, what shares a      *)
(* source with them, and whatever links to any of it.                      *)
Excluded(c, signals) ==
  LET first == Unwitnessed(c, signals)
      sources == UNION {s.sources : s \in first}
  IN FoldLeft(LAMBDA out, k : out \cup Next1(signals, sources, out), first,
              [k \in 1..Cardinality(signals) |-> k])

Absences(contract, signals, nodes) ==
  {r.condition : r \in {x \in ToSet(MatchedRules(contract, "epistemic_state", signals, nodes)) :
                          x.condition.use = "absence"}}

-----------------------------------------------------------------------------
(* The projection *)

SignalsOf(signals, nodes, sections, runtime) ==
  {<<s.kind, TRUE>> : s \in signals} \cup UNION {{<<t, TRUE>> : t \in s.tags} : s \in signals}
  \cup {<<n.id, TRUE>> : n \in nodes} \cup {<<sections[i].name, TRUE>> : i \in DOMAIN sections}
  \cup runtime

Cost(sections) ==
  IF sections = <<>> THEN 0
  ELSE FoldLeft(LAMBDA n, s : n + 1 + Len(s.texts), 2, sections)

Removable == <<"emotional_tone", "relational_stance", "effective_dispositions",
               "epistemic_state", "physiological_state">>

Without(sections, names) == SelectSeq(sections, LAMBDA s : s.name \notin names)

(* trim_to_budget: what is optional goes in order, until the rest fits; if *)
(* what is not optional does not fit, everything goes.                     *)
Trimmed(sections, budget) ==
  FoldLeft(LAMBDA rest, name : IF Cost(rest) <= budget THEN rest ELSE Without(rest, {name}), sections, Removable)

(* compile_mo_state_with_ddm for a case: the recalled memory and nodes,    *)
(* the override (or None), the profile (or None, else a valid one),        *)
(* the bands before, the signals of scene and request, and the budget.     *)
(* A record without its signal metadata degrades the projection; one that  *)
(* its policy keeps from MO State is not looked at.                        *)
Compile(x) ==
  LET contract == Contract(x.override)
      eligible == {m \in x.memory : m.eligible}
      signals == {m \in eligible : m.signal}
      directives == [n \in Dimensions |-> Directives(contract, n, signals, x.nodes)]
      ordered == Ordered(contract, directives)
      ddm == IF x.profile = None THEN [shown |-> <<>>, constraints |-> {}, next |-> x.bands]
             ELSE Evaluate(x.profile, SignalsOf(signals, x.nodes, ordered.sections, x.runtime), x.bands)
      hard == IF ddm.constraints = {} THEN <<>>
              ELSE <<[name |-> "ddm_constraints", texts |-> SetToSeq(ddm.constraints)]>>
      cues == IF ddm.shown = <<>> THEN <<>>
              ELSE <<[name |-> "effective_dispositions", texts |-> [i \in DOMAIN ddm.shown |-> ddm.shown[i].band]]>>
      all == ordered.sections \o hard \o cues
      left == Trimmed(all, x.budget)
      overflow == Cost(left) > x.budget
  IN [contract |-> contract, signals |-> signals, accepted |-> ordered.accepted,
      all |-> all, sections |-> IF overflow THEN <<>> ELSE left, next |-> ddm.next,
      degraded |-> contract.warned \/ signals # eligible \/ overflow,
      excluded |-> UNION {Excluded(c, signals) : c \in Absences(contract, signals, x.nodes)}]

(* state_context_for_prompt and filter_memory_for_prompt: a projection     *)
(* that is degraded, or of a retrieval that was, is not used at all.       *)
Active(x, result) == x.inject /\ ~result.degraded /\ ~x.partial
PromptMemory(x, result) == x.memory \ IF Active(x, result) THEN result.excluded ELSE {}

-----------------------------------------------------------------------------
(* Reference definitions *)

(* An override is made sound whatever it says. *)
ContractSound(c) ==
  /\ Permutation(c.priority)
  /\ \A n, m \in Dimensions : \A i \in DOMAIN c.dimensions[n].rules, j \in DOMAIN c.dimensions[m].rules :
       c.dimensions[n].rules[i].id = c.dimensions[m].rules[j].id => n = m /\ i = j
  /\ \A r \in Rules(c) : /\ r.conflicts \subseteq RuleIds(c.dimensions) \cup SceneRules
                         /\ r.resolution # <<>> => r.conflicts # {}

(* No two rules that exclude each other speak, one of them always does;    *)
(* what is not optional is told in full or nothing is; the optional part   *)
(* is dropped from the least important on and only as far as needed.       *)
ContextSound(x, r) ==
  LET names(seq) == {seq[i].name : i \in DOMAIN seq}
      gone == names(r.all) \ names(r.sections)
      said == {d[1] : d \in UNION {ToSet(Directives(r.contract, n, r.signals, x.nodes)) : n \in Dimensions}}
      from(k) == {Removable[i] : i \in 1..k}
  IN /\ \A a, b \in r.accepted : a # b => ~Conflict(r.contract, a, b)
     /\ \A a \in said \ r.accepted : \E b \in r.accepted : Conflict(r.contract, a, b)
     /\ Cost(r.sections) <= x.budget
     /\ r.sections # <<>> => \E k \in 0..5 : /\ r.sections = Without(r.all, from(k))
                                             /\ \A j \in 0..(k - 1) : Cost(Without(r.all, from(j))) > x.budget
     /\ gone \subseteq ToSet(Removable) \/ (r.sections = <<>> /\ r.degraded)

(* The least set that holds the unwitnessed events of the rules that spoke *)
(* and what shares their sources, and is closed under links.               *)
HiddenExact(x, r) ==
  LET conditions == Absences(r.contract, r.signals, x.nodes)
      roots == UNION {LET u == Unwitnessed(c, r.signals)
                      IN u \cup Next1(r.signals, UNION {s.sources : s \in u}, {}) : c \in conditions}
      closed == {S \in SUBSET r.signals : /\ roots \subseteq S
                                          /\ \A s \in r.signals \ S : \A o \in S : o.id \notin Links(s)}
  IN /\ r.excluded \in closed /\ \A S \in closed : r.excluded \subseteq S
     /\ Active(x, r) => \A m \in PromptMemory(x, r) \cap r.signals : \A o \in r.excluded : o.id \notin Links(m)

ProjectionHolds(x) ==
  LET r == Compile(x) IN ContractSound(r.contract) /\ ContextSound(x, r) /\ HiddenExact(x, r)
=============================================================================
