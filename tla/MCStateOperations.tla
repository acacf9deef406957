------------------------- MODULE MCStateOperations -------------------------
(* Two responses; a managed Space and one it only reads.  Two contents     *)
(* differ only in what retrieval leaves out.  What a response publishes is *)
(* compiled from cases: memories of four records, whose links, sources and *)
(* witnesses vary; overrides of the contract; budgets; turns of a profile. *)
EXTENDS StateOperations

CONSTANTS blank, night, storm, none, MaxTurns

MCRetrieved == [c \in Contents |-> IF c = storm THEN "storm" ELSE "lore"]

-----------------------------------------------------------------------------
(* The built-in contract, with the first tags of its rules. *)

NoCondition == [use |-> "none", least |-> 0, most |-> 0, any |-> {}, all |-> {}, event |-> none,
                marker |-> "witness", character |-> none, word |-> none, node |-> none]
Absence == [NoCondition EXCEPT !.use = "absence", !.event = "secret"]
Tone(any) == [NoCondition EXCEPT !.use = "tone", !.any = any]
Relation(least, any) == [NoCondition EXCEPT !.use = "relation", !.least = least, !.most = 10, !.any = any]
Wounded == [NoCondition EXCEPT !.use = "event", !.event = "wounded", !.word = "injury"]

Rule(id, condition) ==
  [id |-> id, condition |-> condition, directives |-> <<"say " \o id>>, conflicts |-> {}, resolution |-> <<>>]
Dimension(mode, rules) == [mode |-> mode, rules |-> rules, source |-> TRUE]

MCBuiltin ==
  [warned |-> FALSE,
   priority |-> <<"scene_constraint", "physiological_state", "epistemic_state", "relational_stance", "emotional_tone">>,
   dimensions |->
     [scene_constraint |-> Dimension("accumulate", <<>>),
      physiological_state |-> Dimension("first", <<Rule("wounded", Wounded)>>),
      epistemic_state |-> Dimension("first", <<Rule("secret_absence", Absence)>>),
      relational_stance |-> Dimension("first", <<Rule("stance_conflict", Relation(3, {"conflict"})),
                                                  Rule("stance_attachment", Relation(6, {"trust"}))>>),
      emotional_tone |-> Dimension("first", <<Rule("tone_loss", Tone({"loss"})), Rule("tone_danger", Tone({"danger"}))>>)]]

State == INSTANCE StateProjection WITH None <- none, Generic <- {"a"}, Scene <- 0, Builtin <- MCBuiltin

-----------------------------------------------------------------------------
(* Overrides: rules that exclude each other, of one id, for nobody, in     *)
(* another order of priority, and with mistakes.                           *)

Mary == 7
ForMary == Rule("mary_absence", [Absence EXCEPT !.character = Mary])
Believes == Rule("believes", [NoCondition EXCEPT !.use = "misconception", !.character = Mary])
Against(rule, others) == [rule EXCEPT !.conflicts = others, !.resolution = <<"instead of " \o rule.id>>]

Override(priority, dimensions) == [version |-> 1, priority |-> priority, dimensions |-> dimensions]
Default == MCBuiltin.priority

MCOverrides ==
  {none,
   Override(Default, [epistemic_state |-> Dimension("accumulate", <<ForMary, Believes>>)]),
   Override(Reverse(Default),
            [epistemic_state |-> Dimension("accumulate", <<Against(ForMary, {"tone_loss", "scene_environment"}), Believes>>),
             emotional_tone |-> Dimension("accumulate", <<Against(Rule("tone_loss", Tone({"loss"})), {"stance_conflict"}),
                                                          Against(Rule("tone_fear", Tone({})), {"tone_loss"})>>)]),
   Override(Default,
            [relational_stance |-> Dimension("accumulate", <<Against(Rule("secret_absence", Relation(0, {})), {"nobody"}),
                                                              Rule("stance", Relation(4, {"a"})),
                                                              Against(Rule("close", Relation(2, {})), {"mary_absence"})>>),
             epistemic_state |-> Dimension("first", <<ForMary, Rule("secret_absence", ForMary.condition), Rule("wrong", Wounded)>>)]),
   Override(<<"emotional_tone">>, [emotional_tone |-> Dimension("last", <<>>), weather |-> Dimension("first", <<>>)])}

(* The memory: an event that may be secret and witnessed, a note and a     *)
(* place that may link to it or share its source, a relationship, and the  *)
(* current scene, whose signal may be missing.                             *)
Record(id, kind, tags) ==
  [id |-> id, kind |-> kind, weight |-> id, touch |-> id, tags |-> tags, related |-> {}, links |-> {},
   sources |-> {}, environment |-> <<>>, eligible |-> TRUE, signal |-> TRUE]

Memory(related, tags, linked, shared, signal) ==
  {[Record(1, "event", tags) EXCEPT !.related = related, !.sources = {"s"}],
   [Record(2, "note", {"loss"}) EXCEPT !.links = linked[1], !.sources = shared[1]],
   [Record(3, "event", {"misconception", "loss"}) EXCEPT !.related = {Mary} \cup linked[2], !.sources = shared[2]],
   [Record(4, "relationship", {"conflict", "a"}) EXCEPT !.links = linked[3]],
   [Record(0, "scene", {}) EXCEPT !.environment = <<"rain">>, !.signal = signal]}

Nodes == {[id |-> "law", words |-> {"injury"}, constraints |-> <<"no magic">>]}

MCProfile ==
  [additive |-> TRUE, selection |-> [top |-> 2, salient |-> 40, dominant |-> 70, margin |-> 10],
   dispositions |->
     <<[id |-> 1, base |-> 50, group |-> "mood", valid |-> TRUE, constraints |-> <<"never cruel">>,
        rules |-> <<[id |-> "r1", signal |-> "loss", when |-> TRUE, delta |-> 1, multiplier |-> none, valid |-> TRUE],
                    [id |-> "r2", signal |-> "emotional_tone", when |-> TRUE, delta |-> -1, multiplier |-> none, valid |-> TRUE]>>],
       [id |-> 2, base |-> 27, group |-> none, valid |-> TRUE, constraints |-> <<>>,
        rules |-> <<[id |-> "r3", signal |-> "request", when |-> "tool", delta |-> 2, multiplier |-> none, valid |-> TRUE]>>],
       [id |-> 3, base |-> 73, group |-> "mood", valid |-> TRUE, constraints |-> <<>>, rules |-> <<>>]>>]

ScaledRule(r) == [r EXCEPT !.multiplier = 100 + 40 * r.delta, !.delta = none]
Scaled == [MCProfile EXCEPT !.additive = FALSE,
  !.dispositions = [i \in DOMAIN @ |-> [@[i] EXCEPT !.rules = [j \in DOMAIN @ |-> ScaledRule(@[j])]]]]

ASSUME ProfilesValid == State!Valid(MCProfile) /\ State!Valid(Scaled)

Case(recalled, override, model, budget) ==
  [memory |-> recalled, nodes |-> Nodes, override |-> override, profile |-> model, bands |-> [i \in {} |-> none],
   runtime |-> {<<"request", "tool">>}, budget |-> budget, inject |-> TRUE, partial |-> FALSE]

Plain == Memory({}, {"secret", "wounded"}, <<{}, {1}, {2}>>, <<{}, {}>>, TRUE)

Cases ==
  {Case(Memory(related, tags, <<l, m, n>>, <<s, t>>, TRUE), override, none, 40) :
     related \in {{}, {Mary}}, tags \in {{"secret"}, {"secret", "witness"}, {"loss"}},
     l \in SUBSET {1, 3}, m \in {{}, {1}, {2}}, n \in {{}, {2}, {3}}, s \in {{}, {"s"}}, t \in {{}, {"s"}},
     override \in {o \in MCOverrides : o = none \/ DOMAIN o.dimensions = {"epistemic_state"}}}
  \cup {Case(Plain, override, model, budget) :
          override \in MCOverrides, model \in {none, MCProfile}, budget \in 0..30}
  \cup {Case(Memory({}, {"secret"}, <<{}, {}, {}>>, <<{}, {}>>, FALSE), none, none, 40)}

Signals == {{}, {<<"loss", TRUE>>}, {<<"emotional_tone", TRUE>>}, {<<"request", "tool">>}}

(* Beside the journal: a projection is compiled from some case, or a       *)
(* profile goes through some turns, each from the bands of the one before. *)
VARIABLES case, model, turns, shown, held

compiled == <<case, model, turns, shown, held>>

Fresh == registry = {} /\ changes = 0 /\ clears = 0 /\ faults = 0 /\ \A r \in Requests : at[r] = "idle"

MCInit ==
  /\ StateInit /\ case = {} /\ turns = <<>> /\ shown = <<>> /\ held = [i \in {} |-> none]
  /\ model \in {none, MCProfile, Scaled}

MCCase(x) == case' = {x} /\ UNCHANGED <<stateVars, model, turns, shown, held>>

MCTurn(signals) ==
  LET now == State!Evaluate(model, signals, held) IN
  /\ UNCHANGED <<stateVars, case, model>>
  /\ turns' = Append(turns, signals) /\ shown' = now.shown /\ held' = now.next

MCNext ==
  \/ case = {} /\ model = none /\ StateNext /\ UNCHANGED compiled
  \/ model = none /\ case = {} /\ Fresh /\ \E x \in Cases : MCCase(x)
  \/ model # none /\ Len(turns) < MaxTurns /\ \E signals \in Signals : MCTurn(signals)

MCSpec == MCInit /\ [][MCNext]_<<stateVars, compiled>> /\ Fairness

(* A projection is right whatever memory, override, profile and budget it  *)
(* is compiled from: no two rules that exclude each other both speak, what *)
(* is not optional is told whole or the projection is degraded, no record  *)
(* that leads to an unwitnessed event is left to the prompt, and the bands *)
(* of a disposition depend on its whole history of turns as they should.   *)
ProjectionSound ==
  [][/\ \A x \in case' : State!ProjectionHolds(x)
     /\ turns' # turns => /\ State!BandsExact(model, turns', held')
                         /\ State!ShownExact(model, Last(turns'), shown')]_compiled
=============================================================================
