------------------------- MODULE MCMemoryDocuments -------------------------
(* Documents that age: one of the first conversation and one that both may *)
(* use.  Beside them, records with a ledger: one that anybody may name,    *)
(* one older than the ledger that only the first conversation may read,    *)
(* and a candidate; two conversations with x and one with y.               *)
EXTENDS MemoryDocuments, TLC

CONSTANTS e1, e2, a, b, c, x, y, r1, r2, p1, k1, k2, ea, eb, ec, foreign, MaxEffort, MaxTexts, MaxPrice

MCImportance == e1 :> "low" @@ e2 :> "low"
MCBound == e1 :> {} @@ e2 :> {a}

MCNames == r1 :> {} @@ r2 :> {a} @@ p1 :> {}
MCCharacter == a :> x @@ b :> x @@ c :> y
MCPlace == ea :> a @@ eb :> b @@ ec :> c
MCGrants ==
  {[owner |-> x, readers |-> {y}, continuities |-> {}], [owner |-> y, readers |-> {x}, continuities |-> {k1}]}
MCContainers ==
  {[files |-> {r1}, listed |-> {r1}, owner |-> y],
   [files |-> {r1, r2}, listed |-> {}, owner |-> x],
   [files |-> {r1}, listed |-> {r2}, owner |-> x]}

VARIABLES text, touched, records, binding, captured, revoked, texts, maker, rests, former, approved, lost, price

Policies == INSTANCE RecordPolicies WITH
  Records <- {r1, r2, p1}, Candidates <- {p1}, Conversations <- {a, b, c}, Character <- MCCharacter,
  Continuities <- {k1, k2}, Turns <- {ea, eb, ec}, Place <- MCPlace, Completed <- {ea, eb},
  Bound <- MCNames, Legacy <- {r2}, Foreign <- foreign, Containers <- MCContainers, Grants <- MCGrants, MaxTouches <- 1

ASSUME PoliciesGiven == Policies!PoliciesAssumption

recordVars == <<text, touched, records, binding, captured, revoked, texts, maker, rests, former, approved, lost>>

MCInit == DocumentsInit /\ Policies!RecordsInit /\ binding = a :> k1 @@ b :> k1 @@ c :> k2 /\ price = 0

(* The documents age while no record has been touched, and the other way   *)
(* round.  What the author moves or imports costs more than what           *)
(* maintenance writes.                                                     *)
Price ==
  IF approved' # approved \/ revoked' # revoked \/ \E t \in 1..texts' : t > texts /\ maker'[t] \in {x, y} THEN 1 ELSE 2

(* A turn costs one and a write two: not both grow long. *)
Effort == turns[a] + turns[b] + 2 * writes

MCNext ==
  \/ price = 0 /\ DocumentsNext /\ Effort' <= MaxEffort /\ UNCHANGED <<recordVars, price>>
  \/ turns = [s \in Contexts |-> 0] /\ writes = 0
     /\ Policies!RecordsNext /\ price' = price + Price /\ price' <= MaxPrice /\ UNCHANGED documentVars

MCSpec == MCInit /\ [][MCNext]_<<documentVars, recordVars, price>>

(* What a conversation reads of the records was written in the open or     *)
(* granted, and rests on evidence that is not all revoked; and what was    *)
(* written in the open stays readable for those its policy names, whatever *)
(* is moved, touched, approved, bound or imported in between.              *)
ReadsVouched == [][price' # price => Policies!RecordsHold']_recordVars
=============================================================================
