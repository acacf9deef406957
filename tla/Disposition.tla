----------------------------- MODULE Disposition -----------------------------
(***************************************************************************)
(* The dynamic disposition model of momo-memory ddm.rs: a profile of       *)
(* dispositions, activated by the signals of one turn, shown in bands that *)
(* remember the turn before.  Activations are percentages.  Log-odds are   *)
(* integers and Logistic their rounded logistic function, which is all the *)
(* bands depend on: it grows, and an effect of zero changes nothing.       *)
(*                                                                         *)
(* A signal is a pair of name and value.  A disposition is a record of id, *)
(* base, group (or None), rules (those of context and state together; the  *)
(* effects are added or multiplied anyway), valid (its texts and names)    *)
(* and constraints; a rule one of id, signal, when, delta, multiplier and  *)
(* valid.  Evidence, cues and fingerprints are left out.                   *)
(***************************************************************************)
EXTENDS Integers, Sequences, SequencesExt, FiniteSets, FiniteSetsExt, Functions

CONSTANT None

Bands == <<"latent", "salient", "dominant">>
Rank(band) == CHOOSE n \in 1..3 : Bands[n] = band

Logistic == [p \in -4..4 |-> <<2, 5, 12, 27, 50, 73, 88, 95, 98>>[p + 5]]
LogOdds(activation) ==
  CHOOSE p \in -4..4 : \A q \in -4..4 : Logistic[q] <= activation => q <= p

RulesOf(d) == {<<d.id, i>> : i \in DOMAIN d.rules}

(* A rule has the effect its profile computes with, and no other. *)
EffectValid(profile, rule) ==
  \/ profile.additive /\ rule.delta \in -8..8 /\ rule.multiplier = None
  \/ ~profile.additive /\ rule.multiplier \in 0..400 /\ rule.delta = None

Valid(profile) ==
  LET ds == profile.dispositions
      s  == profile.selection
      all == UNION {RulesOf(ds[i]) : i \in DOMAIN ds}
      rule(x) == (CHOOSE d \in ToSet(ds) : d.id = x[1]).rules[x[2]]
  IN /\ Len(ds) \in 1..64 /\ s.top \in 1..16
     /\ {s.salient, s.dominant} \subseteq 0..100 /\ s.salient < s.dominant
     /\ s.margin \in 0..25 /\ s.margin < s.salient
     /\ \A i, j \in DOMAIN ds : ds[i].id = ds[j].id => i = j
     /\ \A d \in ToSet(ds) : d.valid /\ d.base \in 0..100
     /\ \A x \in all : rule(x).valid /\ EffectValid(profile, rule(x))
     /\ \A x, y \in all : rule(x).id = rule(y).id => x = y

Matched(d, signals) == SelectSeq(d.rules, LAMBDA r : <<r.signal, r.when>> \in signals)

Activation(profile, d, signals) ==
  LET hit == Matched(d, signals)
      shift == FoldLeft(LAMBDA n, r : n + r.delta, 0, hit)
      scaled == FoldLeft(LAMBDA n, r : (n * r.multiplier) \div 100, d.base, hit)
  IN CASE profile.additive /\ shift = 0 -> d.base
       [] profile.additive /\ shift # 0 ->
            Logistic[Max({-4, Min({4, LogOdds(d.base) + shift})})]
       [] OTHER -> Min({100, scaled})

RawBand(s, activation) ==
  CASE activation >= s.dominant -> "dominant"
    [] activation >= s.salient /\ activation < s.dominant -> "salient"
    [] OTHER -> "latent"

(* Mutant of HystereticBand: the margin is kept only one band down. *)
HystereticBandOnce(s, activation, previous) ==
  CASE previous = "salient" /\ activation < s.dominant ->
         IF activation < s.salient - s.margin THEN "latent" ELSE "salient"
    [] previous = "dominant" /\ activation >= s.dominant - s.margin -> "dominant"
    [] OTHER -> RawBand(s, activation)

(* A band is left upwards at its threshold, downwards below the margin. *)
HystereticBand(s, activation, previous) ==
  CASE previous \in {None, "latent"} -> RawBand(s, activation)
    [] previous = "salient" ->
         IF activation >= s.dominant THEN "dominant"
         ELSE IF activation < s.salient - s.margin THEN "latent" ELSE "salient"
    [] previous = "dominant" ->
         IF activation >= s.dominant - s.margin THEN "dominant"
         ELSE IF activation >= s.salient - s.margin THEN "salient" ELSE "latent"

Previous(bands, id) == IF id \in DOMAIN bands THEN bands[id] ELSE None

Effective(profile, signals, bands) ==
  SetToSortSeq({[id |-> d.id, group |-> d.group, activation |-> Activation(profile, d, signals),
                 band |-> HystereticBand(profile.selection, Activation(profile, d, signals),
                                         Previous(bands, d.id))] : d \in ToSet(profile.dispositions)},
               LAMBDA x, y : x.activation > y.activation \/ (x.activation = y.activation /\ x.id < y.id))

(* The first of each group stays, then the first few of all. *)
Shown(profile, effective) ==
  LET first(i) == \A j \in 1..(i - 1) : effective[i].group # effective[j].group
      kept == SelectSeq([i \in DOMAIN effective |-> i],
                        LAMBDA i : effective[i].group = None \/ first(i))
  IN [n \in 1..Min({profile.selection.top, Len(kept)}) |-> effective[kept[n]]]

(* evaluate_with_previous: the bands of all are remembered, shown or not. *)
Evaluate(profile, signals, bands) ==
  LET effective == Effective(profile, signals, bands) IN
  [shown |-> Shown(profile, effective),
   constraints |-> UNION {ToSet(d.constraints) : d \in ToSet(profile.dispositions)},
   next |-> [id \in {e.id : e \in ToSet(effective)} |->
               (CHOOSE e \in ToSet(effective) : e.id = id).band]]

-----------------------------------------------------------------------------
(* What the bands of a disposition stand for, said of all turns at once: a *)
(* band is held if it was reached in some turn and every turn since was    *)
(* within the margin of it, so that noise around a threshold never shows.  *)
Held(s, threshold, history) ==
  \E k \in DOMAIN history :
    /\ history[k] >= threshold
    /\ \A j \in k..Len(history) : history[j] >= threshold - s.margin

BandsExact(profile, turns, bands) ==
  \A d \in ToSet(profile.dispositions) :
    LET s == profile.selection
        history == [n \in DOMAIN turns |-> Activation(profile, d, turns[n])]
    IN bands[d.id] = IF Held(s, s.dominant, history) THEN "dominant"
                     ELSE IF Held(s, s.salient, history) THEN "salient" ELSE "latent"

(* Whom the prompt shows: at most top of them, one of a group, and nobody  *)
(* is left out for somebody less active, but for a rival of its own group. *)
ShownExact(profile, signals, shown) ==
  LET activation(id) == Activation(profile, CHOOSE d \in ToSet(profile.dispositions) : d.id = id, signals)
      group(id) == (CHOOSE d \in ToSet(profile.dispositions) : d.id = id).group
      all == {d.id : d \in ToSet(profile.dispositions)}
      told == {shown[i].id : i \in DOMAIN shown}
      rivals(id) == {z \in all \ {id} : group(z) # None /\ group(z) = group(id)}
  IN /\ Len(shown) <= profile.selection.top
     /\ \A x, y \in told : x \notin rivals(y)
     /\ \A x \in all \ told, y \in told :
          activation(x) > activation(y) => \E z \in rivals(x) : activation(z) >= activation(x)
=============================================================================
