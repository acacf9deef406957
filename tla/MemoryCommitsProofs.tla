------------------------ MODULE MemoryCommitsProofs ------------------------
(***************************************************************************)
(* Proofs about MemoryCommits for any number of turns, lanes, reviews and  *)
(* clears.  The argument has four layers.  Who holds the Space finds at    *)
(* most one plan prepared, and none while a clear is pending, so that no   *)
(* plan loses its image; what a lane carries was never consolidated, so    *)
(* that a plan consolidates its turns once; what a clear took out of SQL   *)
(* is not brought back by what was staged before; and what was stopped is  *)
(* in no batch.                                                            *)
(***************************************************************************)
EXTENDS MemoryCommits, FiniteSetTheorems, TLAPS

Holding   == {"recover", "held", "apply", "acknowledge", "prepare", "events",
              "clear_files", "clear_sql", "clear_acknowledge"}
Replaying == {"recover", "apply", "acknowledge", "clear_sql", "clear_acknowledge"}
Clearing  == {"clear_sql", "clear_acknowledge"}
LaneOnly  == {"look", "read", "discard", "generate", "stage"}

(* Whose step is inside the Space owns it.  Only the control of evidence   *)
(* has a step that may own nothing.                                        *)
HolderInv ==
  /\ \A p \in Owners : at[p] \in Holding => p = holder \/ (p = "evidence" /\ at[p] = "held")
  /\ holder # Free => at[holder] \in Holding
  /\ holder = Free => item = {} /\ ~recovering
  /\ recovering => at[holder] \in Replaying
  /\ \A p \in Owners : at[p] = "recover" => recovering
  /\ \A p \in Owners :
       /\ at[p] = "clear_files" => p = "clear"
       /\ at[p] = "events" => p = "lifecycle"
       /\ at[p] = "prepare" => p \in Lanes \cup {"review"}
       /\ at[p] \in LaneOnly => p \in Lanes
       /\ at[p] = "queued" => p \in Lanes \cup {"evidence"}
       /\ at[p] \in Clearing /\ ~recovering => p = "clear"

(* What the holder has in hand. *)
ItemInv ==
  holder # Free =>
    /\ at[holder] \in {"apply", "acknowledge"} => \E i \in Prepared : item = {i}
    /\ at[holder] \notin {"apply", "acknowledge", "prepare"} => item = {}
    /\ at[holder] = "prepare" => \A i, j \in item : holder = "review" /\ i.kind = "review" /\ i = j

(* One plan, or one clear, waits to be finished.  It is in the hands of an *)
(* owner that began it, or of one that recovers; else the Space is marked. *)
PlanInv ==
  /\ \A i, j \in Prepared : i = j
  /\ \A s, t \in intent : s = t
  /\ intent # {} => Prepared = {}
  /\ \A b \in batches : b.kind = "maintenance" /\ b.lane \in Lanes
  /\ holder # Free /\ ~recovering =>
       /\ Prepared # {} => at[holder] \in {"apply", "acknowledge"}
       /\ intent # {} => at[holder] \in Clearing
       /\ at[holder] \in Clearing \cup {"prepare", "apply", "acknowledge", "clear_files"} => marked
  /\ holder = Free /\ (Prepared # {} \/ intent # {}) => marked
  /\ holder # Free /\ at[holder] \in Clearing => intent # {}

SpaceInv == HolderInv /\ ItemInv /\ PlanInv /\ PlansApplicable

CoreInv == TypeOK /\ SpaceInv
----------------------------------------------------------------------------
(* Turns, batches and plans: what each names exists, one batch for a lane. *)
BatchInv ==
  /\ turns \subseteq 1..arrived /\ \A k \in Kinds : done[k] \subseteq turns
  /\ \A b \in batches : b.turns # {} /\ b.turns \subseteq 1..arrived
  /\ \A b, c \in batches : b.lane = c.lane => b = c
  /\ \A i \in Prepared :
       /\ plans[i].next = plans[i].expected \cup Facts(i)
       /\ i.kind = "maintenance" =>
            i \in batches /\ \A t \in i.turns : <<"turn", t>> \notin plans[i].expected

(* A turn that was consolidated is done, or its plan still waits for its   *)
(* acknowledgement.                                                        *)
AppliedInv ==
  /\ \A k \in Kinds, t \in Turns :
       applied[k][t] \in {0, 1} /\ (applied[k][t] = 1 => t <= arrived)
  /\ \A k \in Kinds, t \in Turns : <<"turn", t>> \in image[k] => applied[k][t] = 1
  /\ \A k \in Kinds : \A t \in turns \ done[k] : applied[k][t] = 1 =>
       \E i \in Prepared : i.kind = "maintenance" /\ i.lane = k /\ t \in i.turns
  /\ \A b \in batches : \A t \in b.turns : applied[b.lane][t] = 1 =>
       b \in Prepared /\ image[b.lane] = plans[b].next

RowsInv == BatchInv /\ AppliedInv /\ NothingLost

(* Only what was applied is acknowledged. *)
AnswerInv ==
  holder # Free /\ at[holder] = "acknowledge" => \A i \in item : image[Target(i)] = plans[i].next

(* A lane carries turns from its look to its commit. *)
Carries(k) ==
  \/ at[k] \in {"read", "discard", "generate", "stage"}
  \/ aim[k] # "settle" /\ (recovering \/ at[k] \notin {"apply", "acknowledge"})

(* It carries turns that nobody has consolidated, and no batch of its kind *)
(* is prepared meanwhile.                                                  *)
LaneOf(k) ==
  /\ at[k] \in {"off", "look"} => aim[k] = "settle"
  /\ at[k] = "prepare" => aim[k] = "commit"
  /\ window[k] \subseteq 1..arrived
  /\ at[k] \in {"generate", "stage"} => \A b \in batches : b.lane # k
  /\ at[k] = "read" => \A b \in batches : b.lane = k => b.turns = window[k]
  /\ Carries(k) => /\ window[k] # {} /\ \A t \in window[k] : applied[k][t] = 0
                   /\ \A i \in Prepared : i.kind = "maintenance" => i.lane # k

LaneInv == \A k \in Lanes : LaneOf(k)

TurnInv == RowsInv /\ AnswerInv /\ LaneInv
----------------------------------------------------------------------------
(* A clear of the module has cleaned SQL up, or there was none. *)
Swept(k) == \A s \in intent : k \in s => \E p \in Owners : at[p] = "clear_acknowledge"

(* What was cleared is not pending, and nothing that is staged or carried  *)
(* has it, unless a clear overtook the lane.                               *)
ClearInv ==
  /\ \A k \in Kinds : cleared[k] \subseteq 1..arrived
  /\ \A k \in Kinds \ overtaken : image[k] \cap ({"turn", "event"} \X cleared[k]) = {}
  /\ \A k \in Kinds \ overtaken : Swept(k) =>
       /\ (turns \ done[k]) \cap cleared[k] = {}
       /\ \A b \in batches : b.lane = k => b.turns \cap cleared[k] = {}
       /\ k \in Lanes /\ InFlight(k) => window[k] \cap cleared[k] = {}
  /\ Swept("memory") => \A t \in cleared["memory"] : events[t] # "pending"
  /\ \A t \in Turns : Event(t) \in Prepared => events[t] = "pending"

(* What was stopped is in no batch. *)
StopInv == \A b \in batches : b.turns \cap StoppedTurns = {}
----------------------------------------------------------------------------
(* The types, by what changes together. *)
PlanType ==
  Prepared \subseteq Items /\ \A i \in Prepared : plans[i] \in [expected : SUBSET AllFacts, next : SUBSET AllFacts]
RowType ==
  /\ turns \subseteq Turns /\ done \in [Kinds -> SUBSET Turns]
  /\ events \in [Turns -> {"absent", "pending", "completed"}]
  /\ reviews \in [Reviews -> {"absent", "pending", "approved", "failed", "rejected", "deleted"}]
  /\ batches \subseteq Items /\ stopped \subseteq Conversations
  /\ excused \in [Kinds -> SUBSET Turns]
TaskType ==
  /\ holder \in Owners \cup {Free} /\ recovering \in BOOLEAN /\ item \subseteq Items
  /\ at \in [Owners -> Labels] /\ aim \in [Lanes -> {"validate", "commit", "settle"}]
  /\ window \in [Lanes \cup {"lifecycle"} -> SUBSET Turns]
  /\ modules \subseteq Kinds /\ conversation \subseteq Conversations
ImageType ==
  /\ image \in [Kinds -> SUBSET AllFacts] /\ intent \subseteq SUBSET Kinds
  /\ cleared \in [Kinds -> SUBSET Turns] /\ applied \in [Kinds -> [Turns -> Nat]]
OtherType ==
  arrived \in 0..MaxTurns /\ marked \in BOOLEAN /\ overtaken \subseteq Lanes /\ clears \in Nat /\ faults \in Nat

LEMMA TypeParts == TypeOK <=> PlanType /\ RowType /\ TaskType /\ ImageType /\ OtherType
BY DEF TypeOK, SqlType, ControlType, PlanType, RowType, TaskType, ImageType, OtherType

LEMMA TypeAfter == ASSUME PlanType', RowType', TaskType', ImageType', OtherType' PROVE TypeOK'
BY DEF TypeOK, SqlType, ControlType, PlanType, RowType, TaskType, ImageType, OtherType

LEMMA PlanTypeKept == ASSUME PlanType, plans' = plans PROVE PlanType' /\ Prepared' = Prepared
BY DEF PlanType, Prepared

LEMMA RowTypeKept ==
  ASSUME RowType, UNCHANGED <<turns, done, events, reviews, batches, stopped, excused>> PROVE RowType'
BY DEF RowType

LEMMA ImageTypeKept == ASSUME ImageType, UNCHANGED <<image, intent, cleared, applied>> PROVE ImageType'
BY DEF ImageType

(* The names of owners and of kinds are apart. *)
LEMMA OwnersApart ==
  /\ Lanes \subseteq Kinds /\ Lanes \subseteq Owners /\ Free \notin Owners
  /\ {"lifecycle", "review", "clear", "evidence", "reader", "startup"} \subseteq Owners
  /\ {"lifecycle", "review", "clear", "evidence", "reader", "startup"} \cap Kinds = {}
BY CommitAssumption, FreeAssumption DEF Owners, Kinds

(* What a plan stands for. *)
LEMMA FactsOf ==
  /\ \A k \in Kinds, ids \in SUBSET Turns :
       /\ Batch(k, ids) \in Items /\ Batch(k, ids).kind = "maintenance"
       /\ Batch(k, ids).lane = k /\ Batch(k, ids).turns = ids
  /\ \A t \in Turns : Event(t) \in Items /\ Event(t).kind = "lifecycle" /\ Event(t).turn = t
  /\ \A r \in Reviews : Review(r) \in Items /\ Review(r).kind = "review" /\ Review(r).review = r
  /\ \A i \in Items : Target(i) \in Kinds /\ Facts(i) \subseteq AllFacts
<1>1. \A i \in Items :
        \/ i.kind = "maintenance" /\ i.lane \in Kinds /\ i.turns \subseteq Turns
        \/ i.kind = "lifecycle" /\ i.turn \in Turns
        \/ i.kind = "review" /\ i.review \in Reviews
  BY DEF Items
<1>2. \A i \in Items : Target(i) \in Kinds
  BY <1>1 DEF Target, Kinds
<1>3. ASSUME NEW i \in Items PROVE Facts(i) \subseteq AllFacts
  <2>1. CASE i.kind = "maintenance" /\ i.lane \in Kinds /\ i.turns \subseteq Turns
    BY <2>1 DEF Facts, AllFacts
  <2>2. CASE i.kind = "lifecycle" /\ i.turn \in Turns
    BY <2>2 DEF Facts, AllFacts
  <2>3. CASE i.kind = "review" /\ i.review \in Reviews
    BY <2>3 DEF Facts, AllFacts
  <2> QED BY <1>1, <2>1, <2>2, <2>3
<1> QED BY <1>2, <1>3 DEF Batch, Event, Review, Items

(* A plan is added unless it is there, and frozen from then on. *)
LEMMA PlanAdded ==
  ASSUME PlanType, ImageType, NEW i \in Items, plans' = WithPlan(i)
  PROVE  /\ PlanType' /\ Prepared' = Prepared \cup {i}
         /\ \A j \in Prepared : plans'[j] = plans[j]
         /\ i \notin Prepared => plans'[i] = PlanOf(i)
<1>1. Prepared' = Prepared \cup {i} /\ \A j \in Prepared \cup {i} : plans'[j] = IF j \in Prepared THEN plans[j] ELSE PlanOf(j)
  BY DEF WithPlan, Prepared
<1>2. PlanOf(i) \in [expected : SUBSET AllFacts, next : SUBSET AllFacts]
  BY FactsOf DEF PlanOf, ImageType
<1> QED BY <1>1, <1>2 DEF PlanType

(* ... until it is deleted. *)
LEMMA PlansDeleted ==
  ASSUME PlanType, NEW S, plans' = Only(S)
  PROVE  PlanType' /\ Prepared' = Prepared \cap S /\ \A j \in Prepared' : plans'[j] = plans[j]
<1>1. Prepared' = Prepared \cap S /\ \A j \in Prepared \cap S : plans'[j] = plans[j]
  BY DEF Only, Prepared
<1> QED BY <1>1 DEF PlanType
----------------------------------------------------------------------------
(* Type correctness, by who steps. *)
LEMMA ReturnTyped == ASSUME TaskType, NEW p \in Owners, Return(p) PROVE TaskType'
BY DEF TaskType, Return, Goto, Labels, Owners

LEMMA GotoTyped ==
  ASSUME TaskType, NEW p \in Owners, NEW label \in Labels, Goto(p, label)
  PROVE  at' \in [Owners -> Labels] /\ at'[p] = label /\ \A q \in Owners : q # p => at'[q] = at[q]
BY DEF TaskType, Goto

LEMMA LaneTyped ==
  ASSUME CoreInv, NEW k \in Lanes, LaneStart(k) \/ LaneGiveUp(k) \/ Lane(k)
  PROVE  TypeOK'
<1>1. /\ PlanType /\ RowType /\ TaskType /\ ImageType /\ OtherType /\ k \in Kinds /\ k \in Owners
      /\ \A b \in batches : b.kind = "maintenance"
  BY TypeParts, OwnersApart DEF CoreInv, SpaceInv, PlanInv
<1>2. CASE LaneStart(k) \/ LaneGiveUp(k) \/ LaneValidate(k) \/ LaneGenerate(k) \/ LanePlan(k) \/ LaneSettle(k)
           \/ LaneRead(k)
  <2>1. UNCHANGED <<durable, history, bounds>>
    BY <1>2 DEF LaneStart, LaneGiveUp, LaneValidate, LaneGenerate, LanePlan, LaneSettle, LaneRead
  <2>2. TaskType'
    <3>1. CASE Return(k)
      BY <1>1, <3>1, ReturnTyped
    <3>2. CASE LaneStart(k) \/ LaneGenerate(k)
      BY <1>1, <3>2, GotoTyped DEF LaneStart, LaneGenerate, TaskType, Labels, task
    <3>3. CASE LaneValidate(k)
      BY <1>1, <3>3, GotoTyped DEF LaneValidate, Queue, TaskType, Labels
    <3>4. CASE LaneRead(k)
      BY <1>1, <3>4, GotoTyped DEF LaneRead, Queue, TaskType, Labels
    <3>5. CASE LanePlan(k) /\ Goto(k, "prepare") /\ UNCHANGED task
      BY <1>1, <3>5, GotoTyped DEF TaskType, Labels, task
    <3> QED BY <1>2, <3>1, <3>2, <3>3, <3>4, <3>5 DEF LaneGiveUp, LanePlan, LaneSettle
  <2>3. marked' \in BOOLEAN
    BY <1>1, <1>2 DEF LaneStart, LaneGiveUp, LaneValidate, LaneGenerate, LanePlan, LaneSettle, LaneRead, OtherType
  <2>4. PlanType' /\ RowType' /\ ImageType'
    BY <1>1, <2>1, PlanTypeKept, RowTypeKept, ImageTypeKept DEF durable, sql, history
  <2> QED BY <1>1, <2>1, <2>2, <2>3, <2>4, TypeAfter DEF OtherType, durable, history, bounds
<1>3. CASE LaneLook(k)
  <2>1. UNCHANGED <<durable, history, bounds>> /\ marked' \in BOOLEAN
    BY <1>1, <1>3 DEF LaneLook, OtherType
  <2>2. PendingWindow(k) \subseteq Turns
    BY <1>1 DEF PendingWindow, Oldest, Group, Pending, RowType
  <2>3. \A b \in batches : b.turns \subseteq Turns
    BY <1>1 DEF RowType, Items
  <2>4. TaskType'
    BY <1>1, <1>3, <2>2, <2>3, GotoTyped DEF LaneLook, Queue, TaskType, Labels
  <2>5. PlanType' /\ RowType' /\ ImageType'
    BY <1>1, <2>1, PlanTypeKept, RowTypeKept, ImageTypeKept DEF durable, sql, history
  <2> QED BY <1>1, <2>1, <2>4, <2>5, TypeAfter DEF OtherType, durable, history, bounds
<1>4. CASE LaneDiscard(k) \/ LaneStage(k)
  <2>1. Batch(k, window[k]) \in Items
    BY <1>1, FactsOf DEF TaskType
  <2>2. RowType'
    BY <1>1, <1>4, <2>1 DEF LaneDiscard, LaneStage, RowType, history
  <2>3. TaskType'
    <3>1. CASE LaneDiscard(k)
      BY <1>1, <3>1, GotoTyped DEF LaneDiscard, TaskType, Labels, task
    <3>2. CASE LaneStage(k)
      BY <1>1, <3>2, GotoTyped DEF LaneStage, Queue, TaskType, Labels
    <3> QED BY <1>4, <3>1, <3>2
  <2>4. PlanType' /\ ImageType' /\ OtherType'
    BY <1>1, <1>4, PlanTypeKept, ImageTypeKept DEF LaneDiscard, LaneStage, OtherType, history, bounds
  <2> QED BY <2>2, <2>3, <2>4, TypeAfter
<1>5. CASE LanePrepare(k)
  <2>1. Batch(k, window[k]) \in Items
    BY <1>1, FactsOf DEF TaskType
  <2>2. RowType' /\ ImageType' /\ OtherType'
    BY <1>1, <1>5, RowTypeKept, ImageTypeKept DEF LanePrepare, OtherType, history, bounds
  <2>3. CASE plans' = WithPlan(Batch(k, window[k])) /\ item' = {Batch(k, window[k])} /\ Goto(k, "apply")
             /\ UNCHANGED <<holder, recovering, aim, window, modules, conversation>>
    <3>1. PlanType'
      BY <1>1, <2>1, <2>3, PlanAdded
    <3>2. TaskType'
      BY <1>1, <2>1, <2>3, GotoTyped DEF TaskType, Labels
    <3> QED BY <2>2, <3>1, <3>2, TypeAfter
  <2>4. CASE UNCHANGED plans /\ Return(k)
    BY <1>1, <2>2, <2>4, PlanTypeKept, ReturnTyped, TypeAfter
  <2> QED BY <1>5, <2>3, <2>4 DEF LanePrepare
<1> QED BY <1>2, <1>3, <1>4, <1>5 DEF Lane

(* What leaves the durable state alone leaves its types. *)
LEMMA DurableTyped ==
  ASSUME TypeOK, UNCHANGED <<durable, history>>, TaskType', marked' \in BOOLEAN, clears' \in Nat, faults' \in Nat
  PROVE  TypeOK'
<1>1. PlanType /\ RowType /\ TaskType /\ ImageType /\ OtherType
  BY TypeParts
<1>2. PlanType' /\ RowType' /\ ImageType'
  BY <1>1, PlanTypeKept, RowTypeKept, ImageTypeKept DEF durable, sql, history
<1>3. OtherType'
  BY <1>1 DEF OtherType, durable, history
<1> QED BY <1>2, <1>3, TypeAfter

(* Taking the Space, looking for what is left, and giving it back. *)
LEMMA TakeTyped ==
  ASSUME TypeOK, NEW p \in Owners, Reserve(p) \/ Begin(p) \/ ReadDone(p) PROVE TypeOK'
<1>1. TaskType /\ OtherType
  BY TypeParts
<1>2. UNCHANGED <<durable, marked, history, bounds>>
  BY DEF Reserve, Begin, ReadDone
<1>3. TaskType'
  <2>1. CASE Reserve(p) \/ Begin(p)
    BY <1>1, <2>1, GotoTyped DEF Reserve, Begin, Take, TaskType, Labels, OtherType
  <2>2. CASE ReadDone(p)
    BY <1>1, <2>2, ReturnTyped DEF ReadDone
  <2> QED BY <2>1, <2>2
<1> QED BY <1>1, <1>2, <1>3, DurableTyped DEF OtherType, bounds

LEMMA RecoverTyped == ASSUME TypeOK, NEW p \in Owners, RecoverNext(p) PROVE TypeOK'
<1>1. TaskType /\ OtherType /\ PlanType
  BY TypeParts
<1>2. UNCHANGED <<durable, history, bounds>> /\ marked' \in BOOLEAN
  BY <1>1 DEF RecoverNext, OtherType
<1>3. \/ Goto(p, "clear_sql") /\ UNCHANGED <<recovering, item>>
      \/ Goto(p, "apply") /\ UNCHANGED recovering /\ item' \subseteq Items
      \/ Goto(p, "held") /\ recovering' = FALSE /\ UNCHANGED item
  BY <1>1 DEF RecoverNext, PlanType
<1>4. UNCHANGED <<holder, aim, window, modules, conversation>>
  BY DEF RecoverNext
<1>5. TaskType'
  <2>1. recovering' \in BOOLEAN /\ item' \subseteq Items
    BY <1>1, <1>3 DEF TaskType
  <2>2. at' \in [Owners -> Labels]
    BY <1>1, <1>3, GotoTyped DEF Labels
  <2> QED BY <1>1, <1>4, <2>1, <2>2 DEF TaskType
<1> QED BY <1>1, <1>2, <1>5, DurableTyped DEF OtherType, bounds

(* An image that a plan replaces, or a clear empties. *)
LEMMA ImageTyped ==
  ASSUME TypeOK, ItemInv, \/ holder # Free /\ at[holder] = "apply" /\ UNCHANGED <<intent, cleared>>
                             /\ \E i \in item : Applicable(i) /\ ApplyPlan(i)
                          \/ ClearImage /\ UNCHANGED applied
  PROVE  ImageType'
<1>1. PlanType /\ TaskType /\ ImageType /\ OtherType
  BY TypeParts
<1>2. ASSUME NEW i \in item, holder # Free, at[holder] = "apply", ApplyPlan(i), UNCHANGED <<intent, cleared>>
      PROVE  ImageType'
  <2>1. i \in Prepared /\ i \in Items
    BY <1>1, <1>2 DEF ItemInv, TaskType
  <2>2. image' \in [Kinds -> SUBSET AllFacts]
    BY <1>1, <1>2, <2>1 DEF ApplyPlan, PlanType, ImageType
  <2>3. applied' \in [Kinds -> [Turns -> Nat]]
    <3>1. CASE applied' = applied
      BY <1>1, <3>1 DEF ImageType
    <3>2. CASE applied' = [applied EXCEPT ![i.lane] = [t \in Turns |-> IF t \in i.turns THEN @[t] + 1 ELSE @[t]]]
      <4>1. \A k \in Kinds : applied'[k] \in [Turns -> Nat]
        BY <1>1, <3>2 DEF ImageType
      <4> QED BY <1>1, <3>2, <4>1 DEF ImageType
    <3> QED BY <1>2, <3>1, <3>2 DEF ApplyPlan
  <2> QED BY <1>1, <1>2, <2>2, <2>3 DEF ImageType
<1>3. CASE ClearImage /\ UNCHANGED applied
  <2>1. 1..arrived \subseteq Turns
    BY <1>1, CommitAssumption DEF Turns, OtherType
  <2> QED BY <1>1, <1>3, <2>1 DEF ClearImage, ImageType, TaskType
<1> QED BY <1>2, <1>3

LEMMA ApplyTyped == ASSUME CoreInv, NEW p \in Owners, Apply(p) PROVE TypeOK'
<1>1. PlanType /\ RowType /\ TaskType /\ ImageType /\ OtherType /\ holder # Free /\ p = holder
  BY TypeParts, OwnersApart DEF CoreInv, SpaceInv, HolderInv, Holding, Apply
<1>2. ImageType'
  BY <1>1, ImageTyped DEF Apply, CoreInv, SpaceInv
<1>3. TaskType'
  BY <1>1, GotoTyped DEF Apply, TaskType, Labels, task
<1>4. PlanType' /\ RowType' /\ OtherType'
  BY <1>1, PlanTypeKept, RowTypeKept DEF Apply, sql, OtherType, bounds
<1> QED BY <1>2, <1>3, <1>4, TypeAfter

LEMMA AcknowledgeTyped == ASSUME CoreInv, NEW p \in Owners, Acknowledge(p) PROVE TypeOK'
<1>1. PlanType /\ RowType /\ TaskType /\ ImageType /\ OtherType
  BY TypeParts DEF CoreInv, SpaceInv
<1>2. PICK i \in item :
       /\ plans' = Only(Prepared \ {i})
       /\ events' = IF i.kind = "lifecycle" THEN [events EXCEPT ![i.turn] = "completed"] ELSE events
       /\ reviews' = IF i.kind = "review" THEN [reviews EXCEPT ![i.review] = "approved"] ELSE reviews
       /\ done' = IF i.kind = "maintenance" THEN [done EXCEPT ![i.lane] = @ \cup (i.turns \cap turns)] ELSE done
       /\ batches' = batches \ {i}
       /\ marked' = (recovering /\ marked /\ i.kind = "lifecycle")
  BY DEF Acknowledge
<1>3. /\ UNCHANGED <<turns, arrived, stopped, image, intent, history, bounds>>
      /\ \/ Goto(p, "recover") /\ item' = {} /\ UNCHANGED <<holder, recovering, aim, window, modules, conversation>>
         \/ Goto(p, "events") /\ item' = {} /\ UNCHANGED <<holder, recovering, aim, window, modules, conversation>>
         \/ Return(p)
  BY DEF Acknowledge
<1>4. TaskType'
  BY <1>1, <1>3, GotoTyped, ReturnTyped DEF TaskType, Labels
<1>5. RowType'
  BY <1>1, <1>2, <1>3 DEF RowType, history
<1>6. PlanType' /\ ImageType' /\ OtherType'
  BY <1>1, <1>2, <1>3, PlansDeleted, ImageTypeKept DEF OtherType, history, bounds
<1> QED BY <1>4, <1>5, <1>6, TypeAfter
----------------------------------------------------------------------------
LEMMA ClearTyped ==
  ASSUME CoreInv, NEW p \in Owners,
         ClearSql(p) \/ ClearAcknowledge(p) \/ (p = "clear" /\ (ClearMark \/ ClearFiles \/ \E s \in Clears : ClearStart(s)))
  PROVE  TypeOK'
<1>1. PlanType /\ RowType /\ TaskType /\ ImageType /\ OtherType /\ TypeOK
  BY TypeParts DEF CoreInv, SpaceInv
<1>2. CASE ClearSql(p)
  <2>1. PICK selected \in intent : ClearRows(selected) /\ overtaken' = overtaken \cup {k \in selected \cap Lanes : InFlight(k)}
    BY <1>2 DEF ClearSql
  <2>2. RowType'
    BY <1>1, <1>2, <2>1 DEF ClearSql, ClearRows, RowType, ImageType
  <2>3. TaskType'
    BY <1>1, <1>2, GotoTyped DEF ClearSql, TaskType, Labels, task
  <2>4. PlanType' /\ ImageType' /\ OtherType'
    BY <1>1, <1>2, <2>1, PlansDeleted, ImageTypeKept DEF ClearSql, ClearRows, OtherType, bounds
  <2> QED BY <2>2, <2>3, <2>4, TypeAfter
<1>3. CASE ClearAcknowledge(p)
  <2>1. PlanType' /\ RowType' /\ ImageType' /\ OtherType'
    BY <1>1, <1>3, PlanTypeKept, RowTypeKept DEF ClearAcknowledge, sql, history, bounds, ImageType, OtherType
  <2>2. TaskType'
    BY <1>1, <1>3, GotoTyped, ReturnTyped DEF ClearAcknowledge, TaskType, Labels, task
  <2> QED BY <2>1, <2>2, TypeAfter
<1>4. CASE p = "clear" /\ ClearMark
  BY <1>1, <1>4, GotoTyped, DurableTyped DEF ClearMark, TaskType, Labels, OtherType, task, bounds
<1>5. CASE p = "clear" /\ ClearFiles
  <2>1. PlanType' /\ RowType' /\ OtherType'
    BY <1>1, <1>5, PlanTypeKept, RowTypeKept DEF ClearFiles, sql, bounds, OtherType
  <2>2. ImageType'
    BY <1>5, ImageTyped DEF ClearFiles, CoreInv, SpaceInv
  <2>3. TaskType'
    BY <1>1, <1>5, GotoTyped DEF ClearFiles, TaskType, Labels, task
  <2> QED BY <2>1, <2>2, <2>3, TypeAfter
<1>6. ASSUME NEW selected \in Clears, p = "clear", ClearStart(selected) PROVE TypeOK'
  <2>1. TaskType'
    BY <1>1, <1>6, CommitAssumption, GotoTyped DEF ClearStart, Take, TaskType, Labels, OtherType
  <2> QED BY <1>1, <1>6, <2>1, DurableTyped DEF ClearStart, OtherType, history
<1> QED BY <1>2, <1>3, <1>4, <1>5, <1>6

LEMMA LifecycleTyped == ASSUME CoreInv, LifecycleList \/ LifecyclePrepare PROVE TypeOK'
<1>1. PlanType /\ RowType /\ TaskType /\ ImageType /\ OtherType /\ TypeOK /\ "lifecycle" \in Owners
  BY TypeParts, OwnersApart DEF CoreInv, SpaceInv
<1>2. CASE LifecycleList
  BY <1>1, <1>2, GotoTyped, DurableTyped DEF LifecycleList, TaskType, Labels, OtherType, bounds
<1>3. CASE LifecyclePrepare
  <2>1. RowType' /\ ImageType'
    BY <1>1, <1>3, RowTypeKept, ImageTypeKept DEF LifecyclePrepare, history
  <2>2. OtherType'
    BY <1>1, <1>3 DEF LifecyclePrepare, OtherType, history, bounds
  <2>3. CASE window["lifecycle"] = {} /\ Return("lifecycle") /\ UNCHANGED <<plans, marked>>
    BY <1>1, <2>1, <2>2, <2>3, ReturnTyped, PlanTypeKept, TypeAfter
  <2>4. ASSUME NEW t \in window["lifecycle"], plans' = WithPlan(Event(t)), item' = {Event(t)},
               window' = [window EXCEPT !["lifecycle"] = @ \ {t}], Goto("lifecycle", "apply"),
               UNCHANGED <<holder, recovering, aim, modules, conversation>>
        PROVE  TypeOK'
    <3>1. Event(t) \in Items
      BY <1>1, <2>4, FactsOf DEF TaskType
    <3>2. PlanType'
      BY <1>1, <2>4, <3>1, PlanAdded
    <3>3. TaskType'
      BY <1>1, <2>4, <3>1, GotoTyped DEF TaskType, Labels
    <3> QED BY <2>1, <2>2, <3>2, <3>3, TypeAfter
  <2> QED BY <1>3, <2>3, <2>4 DEF LifecyclePrepare
<1> QED BY <1>2, <1>3

LEMMA ReviewTyped ==
  ASSUME CoreInv, ReviewPrepare \/ \E r \in Reviews : ReviewPlan(r) \/ ReviewSubmit(r) \/ ReviewReject(r) PROVE TypeOK'
<1>1. PlanType /\ RowType /\ TaskType /\ ImageType /\ OtherType /\ TypeOK /\ "review" \in Owners
  BY TypeParts, OwnersApart DEF CoreInv, SpaceInv
<1>2. ASSUME NEW r \in Reviews, ReviewSubmit(r) \/ ReviewReject(r) PROVE TypeOK'
  <2>1. RowType'
    BY <1>1, <1>2 DEF ReviewSubmit, ReviewReject, RowType, history
  <2>2. PlanType' /\ ImageType' /\ TaskType' /\ OtherType'
    BY <1>1, <1>2, PlanTypeKept, ImageTypeKept
    DEF ReviewSubmit, ReviewReject, TaskType, OtherType, control, task, history, bounds
  <2> QED BY <2>1, <2>2, TypeAfter
<1>3. ASSUME NEW r \in Reviews, ReviewPlan(r) PROVE TypeOK'
  <2>1. Review(r) \in Items
    BY FactsOf
  <2>2. TaskType'
    BY <1>1, <1>3, <2>1, GotoTyped, ReturnTyped DEF ReviewPlan, TaskType, Labels
  <2>3. RowType'
    BY <1>1, <1>3 DEF ReviewPlan, RowType, history
  <2>4. PlanType' /\ ImageType' /\ OtherType'
    BY <1>1, <1>3, PlanTypeKept, ImageTypeKept DEF ReviewPlan, OtherType, history, bounds
  <2> QED BY <2>2, <2>3, <2>4, TypeAfter
<1>4. CASE ReviewPrepare
  <2>1. RowType' /\ ImageType' /\ OtherType'
    BY <1>1, <1>4, RowTypeKept, ImageTypeKept DEF ReviewPrepare, OtherType, history, bounds
  <2>2. PICK i \in item : \/ plans' = WithPlan(i) /\ Goto("review", "apply")
                             /\ UNCHANGED <<holder, recovering, item, aim, window, modules, conversation>>
                          \/ UNCHANGED plans /\ Return("review")
    BY <1>4 DEF ReviewPrepare
  <2>3. PlanType'
    BY <1>1, <2>2, PlanAdded, PlanTypeKept DEF TaskType
  <2>4. TaskType'
    BY <1>1, <2>2, GotoTyped, ReturnTyped DEF TaskType, Labels
  <2> QED BY <2>1, <2>3, <2>4, TypeAfter
<1> QED BY <1>2, <1>3, <1>4
----------------------------------------------------------------------------
LEMMA ResponseTyped ==
  ASSUME TypeOK, NEW off \in Disabled, NEW lifecycle \in BOOLEAN, CompleteResponse(off, lifecycle) PROVE TypeOK'
<1>1. PlanType /\ RowType /\ TaskType /\ ImageType /\ OtherType
  BY TypeParts
<1>2. arrived + 1 \in Turns /\ arrived' = arrived + 1 /\ arrived' \in 0..MaxTurns
  BY <1>1, CommitAssumption DEF CompleteResponse, OtherType, Turns
<1>3. RowType'
  BY <1>1, <1>2 DEF CompleteResponse, RowType
<1>4. PlanType' /\ ImageType' /\ TaskType' /\ OtherType'
  BY <1>1, <1>2, PlanTypeKept, ImageTypeKept DEF CompleteResponse, TaskType, OtherType, control, task, bounds
<1> QED BY <1>3, <1>4, TypeAfter

LEMMA EvidenceTyped ==
  ASSUME TypeOK, EvidenceControl \/ \E c \in Conversations : EvidenceStart(c) PROVE TypeOK'
<1>1. PlanType /\ RowType /\ TaskType /\ ImageType /\ OtherType /\ "evidence" \in Owners
  BY TypeParts, OwnersApart
<1>2. ASSUME NEW c \in Conversations, EvidenceStart(c) PROVE TypeOK'
  <2>1. TaskType'
    BY <1>1, <1>2, GotoTyped DEF EvidenceStart, TaskType, Labels
  <2> QED BY <1>1, <1>2, <2>1, DurableTyped DEF EvidenceStart, OtherType, bounds
<1>3. CASE EvidenceControl
  <2>1. TaskType'
    BY <1>1, <1>3, ReturnTyped DEF EvidenceControl
  <2>2. PlanType' /\ ImageType' /\ OtherType'
    BY <1>1, <1>3, PlanTypeKept, ImageTypeKept DEF EvidenceControl, OtherType, bounds
  <2>3. RowType'
    <3>1. CASE UNCHANGED <<stopped, batches, done, excused>>
      BY <1>1, <1>3, <3>1 DEF EvidenceControl, RowType
    <3>2. ASSUME NEW its, its \subseteq 1..arrived, NEW using,
                 stopped' = stopped \cup conversation, batches' = batches \ using,
                 done' = [k \in Kinds |-> done[k] \cup (its \cap turns)],
                 excused' = [k \in Kinds |-> excused[k] \cup its]
          PROVE  RowType'
      <4>1. its \subseteq Turns
        BY <1>1, <3>2, CommitAssumption DEF OtherType, Turns
      <4> QED BY <1>1, <1>3, <3>2, <4>1 DEF EvidenceControl, RowType, TaskType
    <3>3. {t \in 1..arrived : Conversation[t] \in conversation} \subseteq 1..arrived
      OBVIOUS
    <3> QED BY <1>3, <3>1, <3>2, <3>3 DEF EvidenceControl
  <2> QED BY <2>1, <2>2, <2>3, TypeAfter
<1> QED BY <1>2, <1>3

LEMMA FaultTyped ==
  ASSUME CoreInv, Crash \/ \E p \in Owners : Fail(p) PROVE TypeOK'
<1>1. PlanType /\ RowType /\ TaskType /\ ImageType /\ OtherType /\ TypeOK /\ ItemInv
  BY TypeParts DEF CoreInv, SpaceInv
<1>2. CASE Crash
  <2>1. TaskType'
    BY <1>1, <1>2, OwnersApart DEF Crash, TaskType, Labels
  <2>2. UNCHANGED <<durable, history>> /\ marked' \in BOOLEAN /\ clears' \in Nat /\ faults' \in Nat
    <3>1. UNCHANGED durable /\ UNCHANGED history /\ UNCHANGED clears
      BY <1>2 DEF Crash
    <3>2. faults' = faults + 1 /\ marked' = FALSE
      BY <1>2 DEF Crash
    <3>3. clears' \in Nat /\ faults' \in Nat
      BY <1>1, <3>1, <3>2 DEF OtherType
    <3>4. marked' \in BOOLEAN
      BY <3>2
    <3> QED BY <3>1, <3>3, <3>4
  <2> QED BY <1>1, <2>1, <2>2, DurableTyped
<1>3. ASSUME NEW p \in Owners, Fail(p) PROVE TypeOK'
  <2>1. TaskType'
    BY <1>1, <1>3, ReturnTyped DEF Fail
  <2>2. ImageType'
    <3>1. holder = p /\ holder # Free
      BY <1>3, OwnersApart DEF Fail
    <3>2. CASE UNCHANGED <<image, intent, cleared, applied>>
      BY <1>1, <3>2, ImageTypeKept
    <3>3. CASE at[p] = "apply" /\ (\E i \in item : Applicable(i) /\ ApplyPlan(i)) /\ UNCHANGED <<intent, cleared>>
      BY <1>1, <3>1, <3>3, ImageTyped
    <3>4. CASE ClearImage /\ UNCHANGED applied
      BY <1>1, <3>4, ImageTyped
    <3> QED BY <1>3, <3>2, <3>3, <3>4 DEF Fail
  <2>3. PlanType' /\ RowType'
    BY <1>1, <1>3, PlanTypeKept, RowTypeKept DEF Fail, sql
  <2>4. OtherType'
    BY <1>1, <1>3 DEF Fail, OtherType, TaskType
  <2> QED BY <2>1, <2>2, <2>3, <2>4, TypeAfter
<1> QED BY <1>2, <1>3

LEMMA TypeNext == ASSUME CoreInv, [Next]_vars PROVE TypeOK'
<1>1. TypeOK
  BY DEF CoreInv, SpaceInv
<1>2. ASSUME NEW off \in Disabled, NEW lifecycle \in BOOLEAN, CompleteResponse(off, lifecycle) PROVE TypeOK'
  BY <1>1, <1>2, ResponseTyped
<1>3. ASSUME NEW k \in Lanes, LaneStart(k) \/ LaneGiveUp(k) \/ Lane(k) PROVE TypeOK'
  BY <1>3, LaneTyped
<1>4. ASSUME NEW p \in Owners, Reserve(p) \/ Begin(p) \/ ReadDone(p) PROVE TypeOK'
  BY <1>1, <1>4, TakeTyped
<1>5. ASSUME NEW r \in Reviews, ReviewPlan(r) \/ ReviewSubmit(r) \/ ReviewReject(r) PROVE TypeOK'
  BY <1>5, ReviewTyped
<1>6. CASE ReviewPrepare
  BY <1>6, ReviewTyped
<1>7. CASE ClearMark \/ ClearFiles \/ \E selected \in Clears : ClearStart(selected)
  BY <1>7, ClearTyped, OwnersApart
<1>8. CASE EvidenceControl \/ \E c \in Conversations : EvidenceStart(c)
  BY <1>1, <1>8, EvidenceTyped
<1>9. CASE Crash \/ \E p \in Owners : Fail(p)
  BY <1>9, FaultTyped
<1>10. CASE LifecycleList \/ LifecyclePrepare
  BY <1>10, LifecycleTyped
<1>11. ASSUME NEW p \in Owners, Work(p) PROVE TypeOK'
  BY <1>1, <1>3, <1>4, <1>5, <1>6, <1>7, <1>8, <1>10, <1>11, RecoverTyped, ApplyTyped, AcknowledgeTyped, ClearTyped
  DEF Work
<1>12. CASE UNCHANGED vars
  <2>1. TaskType' /\ OtherType' /\ UNCHANGED <<durable, history>>
    BY <1>1, <1>12, TypeParts DEF vars, control, task, bounds, history, durable, TaskType, OtherType
  <2> QED BY <1>1, <2>1, DurableTyped DEF OtherType
<1> QED BY <1>2, <1>3, <1>4, <1>5, <1>7, <1>8, <1>9, <1>11, <1>12, OwnersApart DEF Next
----------------------------------------------------------------------------
(* Who steps, and where: aside from the Space, ... *)
LEMMA Aside ==
  ASSUME CoreInv, NEW p \in Owners, NEW label, p # holder, at' = [at EXCEPT ![p] = label],
         UNCHANGED <<holder, recovering, item, plans, image, intent>>, marked' \in {marked, TRUE},
         \A b \in batches' : b.kind = "maintenance" /\ b.lane \in Lanes,
         label \notin Holding \/ (p = "evidence" /\ label = "held"),
         label \in LaneOnly => p \in Lanes, label = "queued" => p \in Lanes \cup {"evidence"}
  PROVE  SpaceInv'
<1>1. TypeOK /\ HolderInv /\ ItemInv /\ PlanInv /\ PlansApplicable /\ at \in [Owners -> Labels]
      /\ holder \in Owners \cup {Free} /\ Free \notin Owners
  BY OwnersApart DEF CoreInv, SpaceInv, TypeOK, ControlType
<1>2. at'[p] = label /\ \A q \in Owners : q # p => at'[q] = at[q]
  BY <1>1
<1>3. holder # Free => at'[holder] = at[holder] /\ holder \in Owners
  BY <1>1, <1>2
<1>4. Prepared' = Prepared
  BY DEF Prepared
<1>5. HolderInv'
  <2>1. \A q \in Owners : at'[q] \in Holding => q = holder' \/ (q = "evidence" /\ at'[q] = "held")
    BY <1>1, <1>2 DEF HolderInv
  <2>2. /\ holder' # Free => at'[holder'] \in Holding
        /\ holder' = Free => item' = {} /\ ~recovering'
        /\ recovering' => at'[holder'] \in Replaying
    BY <1>1, <1>3 DEF HolderInv
  <2>3. label \notin {"recover", "clear_files", "events", "prepare"} \cup Clearing
    BY DEF Holding, Clearing
  <2>4. ASSUME NEW q \in Owners
        PROVE  /\ at'[q] = "recover" => recovering'
               /\ at'[q] = "clear_files" => q = "clear"
               /\ at'[q] = "events" => q = "lifecycle"
               /\ at'[q] = "prepare" => q \in Lanes \cup {"review"}
               /\ at'[q] \in LaneOnly => q \in Lanes
               /\ at'[q] = "queued" => q \in Lanes \cup {"evidence"}
               /\ at'[q] \in Clearing /\ ~recovering' => q = "clear"
    <3>1. CASE q = p
      BY <1>2, <2>3, <3>1
    <3>2. CASE q # p
      BY <1>1, <1>2, <3>2 DEF HolderInv
    <3> QED BY <3>1, <3>2
  <2> QED BY <2>1, <2>2, <2>4 DEF HolderInv
<1>6. ItemInv'
  BY <1>1, <1>3, <1>4 DEF ItemInv
<1>7. PlanInv'
  BY <1>1, <1>3, <1>4 DEF PlanInv
<1>8. PlansApplicable'
  BY <1>1, <1>4 DEF PlansApplicable, Applicable
<1> QED BY <1>5, <1>6, <1>7, <1>8 DEF SpaceInv

(* ... into the Space, to recover it if it is marked, ... *)
LEMMA TakeCore ==
  ASSUME CoreInv, NEW p \in Owners, Take(p), UNCHANGED <<item, plans, image, intent, marked, batches>>
  PROVE  SpaceInv'
<1>1. TypeOK /\ HolderInv /\ ItemInv /\ PlanInv /\ PlansApplicable /\ at \in [Owners -> Labels]
      /\ Free \notin Owners /\ marked \in BOOLEAN
  BY OwnersApart DEF CoreInv, SpaceInv, TypeOK, ControlType
<1>2. /\ holder = Free /\ holder' = p /\ recovering' = marked /\ item = {} /\ ~recovering
      /\ at'[p] = IF marked THEN "recover" ELSE "held"
      /\ \A q \in Owners : q # p => at'[q] = at[q]
  BY <1>1 DEF Take, Goto, HolderInv
<1>3. \A q \in Owners : at[q] \in Holding => q = "evidence" /\ at[q] = "held"
  BY <1>1, <1>2 DEF HolderInv
<1>4. Prepared' = Prepared
  BY DEF Prepared
<1>5. HolderInv'
  <2>1. ASSUME NEW q \in Owners
        PROVE  /\ at'[q] \in Holding => q = holder' \/ (q = "evidence" /\ at'[q] = "held")
               /\ at'[q] = "recover" => recovering'
               /\ at'[q] = "clear_files" => q = "clear"
               /\ at'[q] = "events" => q = "lifecycle"
               /\ at'[q] = "prepare" => q \in Lanes \cup {"review"}
               /\ at'[q] \in LaneOnly => q \in Lanes
               /\ at'[q] = "queued" => q \in Lanes \cup {"evidence"}
               /\ at'[q] \in Clearing /\ ~recovering' => q = "clear"
    <3>1. CASE q = p
      BY <1>2, <3>1 DEF LaneOnly, Clearing
    <3>2. CASE q # p
      BY <1>1, <1>2, <1>3, <3>2 DEF HolderInv, Holding, LaneOnly, Clearing
    <3> QED BY <3>1, <3>2
  <2>2. /\ holder' # Free /\ at'[holder'] \in Holding
        /\ recovering' => at'[holder'] \in Replaying
    BY <1>1, <1>2 DEF Holding, Replaying
  <2> QED BY <2>1, <2>2 DEF HolderInv
<1>6. ItemInv'
  BY <1>2 DEF ItemInv
<1>7. PlanInv'
  BY <1>1, <1>2, <1>4 DEF PlanInv, Clearing
<1>8. PlansApplicable'
  BY <1>1, <1>4 DEF PlansApplicable, Applicable
<1> QED BY <1>5, <1>6, <1>7, <1>8 DEF SpaceInv

(* ... inside it, ... *)
LEMMA HolderOn ==
  ASSUME CoreInv, NEW p \in Owners, p = holder, holder' = holder, NEW label \in Holding,
         at' = [at EXCEPT ![p] = label], recovering' => label \in Replaying, label = "recover" => recovering',
         label = "clear_files" => p = "clear", label = "events" => p = "lifecycle",
         label = "prepare" => p \in Lanes \cup {"review"}, label \in Clearing /\ ~recovering' => p = "clear"
  PROVE  HolderInv' /\ holder' = p /\ at'[p] = label /\ p # Free
<1>1. HolderInv /\ at \in [Owners -> Labels] /\ p # Free
  BY OwnersApart DEF CoreInv, SpaceInv, TypeOK, ControlType
<1>2. at'[p] = label /\ \A q \in Owners : q # p => at'[q] = at[q]
  BY <1>1
<1>3. \A q \in Owners : q # p /\ at[q] \in Holding => q = "evidence" /\ at[q] = "held"
  BY <1>1 DEF HolderInv
<1>4. ASSUME NEW q \in Owners
      PROVE  /\ at'[q] \in Holding => q = holder' \/ (q = "evidence" /\ at'[q] = "held")
             /\ at'[q] = "recover" => recovering'
             /\ at'[q] = "clear_files" => q = "clear"
             /\ at'[q] = "events" => q = "lifecycle"
             /\ at'[q] = "prepare" => q \in Lanes \cup {"review"}
             /\ at'[q] \in LaneOnly => q \in Lanes
             /\ at'[q] = "queued" => q \in Lanes \cup {"evidence"}
             /\ at'[q] \in Clearing /\ ~recovering' => q = "clear"
  <2>1. CASE q = p
    BY <1>2, <2>1 DEF Holding, LaneOnly
  <2>2. CASE q # p
    BY <1>1, <1>2, <1>3, <2>2 DEF HolderInv, Holding, LaneOnly, Clearing
  <2> QED BY <2>1, <2>2
<1> QED BY <1>1, <1>2, <1>4 DEF HolderInv

LEMMA Inside ==
  ASSUME CoreInv, NEW p \in Owners, p = holder, NEW label \in {"held", "prepare", "events", "clear_files"},
         at' = [at EXCEPT ![p] = label], holder' = holder, recovering' = FALSE, Prepared' = {}, intent' = {},
         \A b \in batches' : b.kind = "maintenance" /\ b.lane \in Lanes,
         label \in {"prepare", "clear_files"} => marked',
         label # "prepare" => item' = {}, label = "events" => p = "lifecycle", label = "clear_files" => p = "clear",
         label = "prepare" => p \in Lanes \cup {"review"} /\ \A i, j \in item' : p = "review" /\ i.kind = "review" /\ i = j
  PROVE  SpaceInv'
<1>1. HolderInv' /\ holder' = p /\ at'[p] = label /\ p # Free
  BY HolderOn DEF Holding, Clearing
<1>2. ItemInv' /\ PlanInv' /\ PlansApplicable'
  BY <1>1 DEF ItemInv, PlanInv, PlansApplicable, Clearing
<1> QED BY <1>1, <1>2 DEF SpaceInv

(* ... and out of it, when nothing is left unfinished. *)
LEMMA LetGo ==
  ASSUME CoreInv, NEW p \in Owners, p = holder, NEW label \in {"off", "queued", "discard"},
         at' = [at EXCEPT ![p] = label], holder' = Free, recovering' = FALSE, item' = {},
         label # "off" => p \in Lanes, \A i, j \in Prepared' : i = j, \A s, t \in intent' : s = t,
         intent' # {} => Prepared' = {}, Prepared' # {} \/ intent' # {} => marked',
         \A b \in batches' : b.kind = "maintenance" /\ b.lane \in Lanes
  PROVE  HolderInv' /\ ItemInv' /\ PlanInv'
<1>1. HolderInv /\ at \in [Owners -> Labels] /\ p # Free
  BY OwnersApart DEF CoreInv, SpaceInv, TypeOK, ControlType
<1>2. at'[p] = label /\ \A q \in Owners : q # p => at'[q] = at[q]
  BY <1>1
<1>3. \A q \in Owners : q # p /\ at[q] \in Holding => q = "evidence" /\ at[q] = "held"
  BY <1>1 DEF HolderInv
<1>4. ASSUME NEW q \in Owners
      PROVE  /\ at'[q] \in Holding => q = "evidence" /\ at'[q] = "held"
             /\ at'[q] \notin {"recover", "clear_files", "events", "prepare"} \cup Clearing
             /\ at'[q] \in LaneOnly => q \in Lanes
             /\ at'[q] = "queued" => q \in Lanes \cup {"evidence"}
  <2>1. CASE q = p
    BY <1>2, <2>1 DEF Holding, LaneOnly, Clearing
  <2>2. CASE q # p
    BY <1>1, <1>2, <1>3, <2>2 DEF HolderInv, Holding, LaneOnly, Clearing
  <2> QED BY <2>1, <2>2
<1>5. HolderInv'
  BY <1>4 DEF HolderInv
<1> QED BY <1>5 DEF ItemInv, PlanInv

LEMMA Returned ==
  ASSUME CoreInv, NEW p \in Owners, Return(p)
  PROVE  /\ at' = [at EXCEPT ![p] = "off"]
         /\ p = holder => holder' = Free /\ recovering' = FALSE /\ item' = {}
         /\ p # holder => UNCHANGED <<holder, recovering, item>>
BY DEF Return, Goto, CoreInv, SpaceInv, TypeOK, ControlType
----------------------------------------------------------------------------
(* Whose step is inside the Space, and what its owner finds there.         *)
LEMMA Whose ==
  ASSUME CoreInv, NEW p \in Owners
  PROVE  /\ p # Free
         /\ at[p] \notin Holding => p # holder
         /\ at[p] \in Holding /\ (p # "evidence" \/ at[p] # "held") => p = holder
BY OwnersApart DEF CoreInv, SpaceInv, HolderInv

LEMMA NothingPending ==
  ASSUME CoreInv, NEW p \in Owners, p = holder, at[p] \in {"held", "prepare", "events", "clear_files"}
  PROVE  /\ recovering = FALSE /\ Prepared = {} /\ intent = {}
         /\ at[p] # "prepare" => item = {}
         /\ at[p] \in {"prepare", "clear_files"} => marked
         /\ \A b \in batches : b.kind = "maintenance" /\ b.lane \in Lanes
<1>1. recovering \in BOOLEAN /\ holder # Free
  BY OwnersApart DEF CoreInv, TypeOK, ControlType
<1>2. ~recovering
  BY DEF CoreInv, SpaceInv, HolderInv, Replaying
<1> QED BY <1>1, <1>2 DEF CoreInv, SpaceInv, ItemInv, PlanInv, Clearing

(* The owner is done: nothing is left behind. *)
LEMMA Leaves ==
  ASSUME CoreInv, NEW p \in Owners, p = holder, at[p] \in {"held", "prepare", "events", "clear_files"}, Return(p),
         Prepared' = Prepared, intent' = intent,
         \A b \in batches' : b.kind = "maintenance" /\ b.lane \in Lanes
  PROVE  SpaceInv'
<1>1. Prepared' = {} /\ intent' = {}
  BY NothingPending
<1>2. HolderInv' /\ ItemInv' /\ PlanInv'
  BY <1>1, Returned, LetGo
<1> QED BY <1>1, <1>2 DEF SpaceInv, PlansApplicable

(* Preparing the only plan: it is applied next. *)
LEMMA Prepares ==
  ASSUME CoreInv, NEW p \in Owners, p = holder, at[p] \in {"prepare", "events"}, NEW i \in Items,
         plans' = WithPlan(i), item' = {i}, Goto(p, "apply"), marked' \in BOOLEAN, marked',
         UNCHANGED <<holder, recovering, image, intent, batches>>
  PROVE  SpaceInv'
<1>1. recovering = FALSE /\ Prepared = {} /\ intent = {} /\ \A b \in batches : b.kind = "maintenance" /\ b.lane \in Lanes
  BY NothingPending
<1>2. PlanType /\ ImageType
  BY TypeParts DEF CoreInv
<1>3. Prepared' = {i} /\ plans'[i] = PlanOf(i)
  BY <1>1, <1>2, PlanAdded
<1>4. HolderInv' /\ holder' = p /\ at'[p] = "apply" /\ p # Free
  BY <1>1, HolderOn DEF Goto, Holding, Replaying, Clearing
<1>5. ItemInv' /\ PlanInv'
  BY <1>1, <1>3, <1>4 DEF ItemInv, PlanInv, Clearing
<1>6. PlansApplicable'
  BY <1>3 DEF PlansApplicable, Applicable, PlanOf
<1> QED BY <1>4, <1>5, <1>6 DEF SpaceInv

LEMMA LaneCore ==
  ASSUME CoreInv, NEW k \in Lanes, LaneStart(k) \/ LaneGiveUp(k) \/ Lane(k) PROVE SpaceInv'
<1>1. /\ k \in Owners /\ k \in Kinds /\ k \notin {"evidence", "clear", "review", "lifecycle"} /\ TaskType
      /\ \A b \in batches : b.kind = "maintenance" /\ b.lane \in Lanes
  BY OwnersApart, TypeParts DEF CoreInv, SpaceInv, PlanInv
<1>2. CASE LaneStart(k) \/ LaneGenerate(k) \/ LaneDiscard(k)
  <2>1. k # holder
    BY <1>1, <1>2, Whose DEF LaneStart, LaneGenerate, LaneDiscard, Holding
  <2>2. UNCHANGED <<holder, recovering, item, plans, image, intent, marked>> /\ batches' \subseteq batches
    BY <1>2 DEF LaneStart, LaneGenerate, LaneDiscard, durable, sql, task
  <2>3. PICK label \in {"look", "stage", "generate"} : at' = [at EXCEPT ![k] = label]
    BY <1>2 DEF LaneStart, LaneGenerate, LaneDiscard, Goto
  <2> QED BY <1>1, <2>1, <2>2, <2>3, Aside DEF Holding, LaneOnly
<1>3. CASE LaneGiveUp(k)
  <2>1. k # holder /\ at' = [at EXCEPT ![k] = "off"] /\ UNCHANGED <<holder, recovering, item>>
    BY <1>1, <1>3, Whose, Returned DEF LaneGiveUp, Holding
  <2>2. UNCHANGED <<plans, image, intent, marked, batches>>
    BY <1>3 DEF LaneGiveUp, durable, sql
  <2> QED BY <1>1, <2>1, <2>2, Aside DEF Holding, LaneOnly
<1>4. CASE LaneLook(k) \/ LaneRead(k) \/ LaneStage(k)
  <2>1. k # holder
    BY <1>1, <1>4, Whose DEF LaneLook, LaneRead, LaneStage, Holding
  <2>2. UNCHANGED <<holder, recovering, item, plans, image, intent>> /\ marked' \in {marked, TRUE}
    BY <1>4 DEF LaneLook, LaneRead, LaneStage, durable, sql
  <2>3. \A b \in batches' : b.kind = "maintenance" /\ b.lane \in Lanes
    BY <1>1, <1>4 DEF LaneLook, LaneRead, LaneStage, durable, sql, Batch
  <2>4. PICK label \in {"queued", "read", "generate"} : at' = [at EXCEPT ![k] = label]
    BY <1>4 DEF LaneLook, LaneRead, LaneStage, Queue, Goto
  <2> QED BY <1>1, <2>1, <2>2, <2>3, <2>4, Aside DEF Holding, LaneOnly
<1>5. CASE LaneValidate(k)
  <2>1. at[k] = "held" /\ k = holder
    BY <1>1, <1>5, Whose DEF LaneValidate, Holding
  <2>2. recovering = FALSE /\ Prepared = {} /\ intent = {} /\ item = {}
    BY <1>1, <2>1, NothingPending
  <2>3. UNCHANGED <<recovering, item, intent, batches, plans>> /\ holder' = Free
    BY <1>5 DEF LaneValidate, durable, sql
  <2>4. Prepared' = {} /\ intent' = {} /\ recovering' = FALSE /\ item' = {}
    BY <2>2, <2>3 DEF Prepared
  <2>5. PICK label \in {"queued", "discard"} : at' = [at EXCEPT ![k] = label]
    BY <1>5 DEF LaneValidate, Queue, Goto
  <2>6. HolderInv' /\ ItemInv' /\ PlanInv'
    BY <1>1, <2>1, <2>3, <2>4, <2>5, LetGo
  <2> QED BY <2>4, <2>6 DEF SpaceInv, PlansApplicable
<1>6. CASE LanePlan(k) \/ LaneSettle(k)
  <2>1. at[k] = "held" /\ k = holder /\ UNCHANGED <<plans, intent, batches>>
    BY <1>1, <1>6, Whose DEF LanePlan, LaneSettle, Holding, durable, sql
  <2>2. recovering = FALSE /\ Prepared = {} /\ intent = {} /\ item = {} /\ Prepared' = Prepared
    BY <1>1, <2>1, NothingPending DEF Prepared
  <2>3. CASE Return(k)
    BY <1>1, <2>1, <2>2, <2>3, Leaves
  <2>4. CASE LanePlan(k) /\ marked' = TRUE /\ Goto(k, "prepare") /\ UNCHANGED task
    <3>1. at' = [at EXCEPT ![k] = "prepare"] /\ UNCHANGED <<holder, recovering, item>>
      BY <2>4 DEF Goto, task
    <3> QED BY <1>1, <2>1, <2>2, <2>4, <3>1, Inside
  <2> QED BY <1>6, <2>3, <2>4 DEF LanePlan, LaneSettle
<1>7. CASE LanePrepare(k)
  <2>1. at[k] = "prepare" /\ k = holder /\ UNCHANGED <<image, intent, batches, marked>>
    BY <1>1, <1>7, Whose DEF LanePrepare, Holding
  <2>2. marked
    BY <1>1, <2>1, NothingPending
  <2>3. CASE UNCHANGED plans /\ Return(k)
    BY <1>1, <2>1, <2>3, Leaves DEF Prepared
  <2>4. CASE /\ plans' = WithPlan(Batch(k, window[k])) /\ item' = {Batch(k, window[k])} /\ Goto(k, "apply")
             /\ UNCHANGED <<holder, recovering, aim, window, modules, conversation>>
    <3>1. Batch(k, window[k]) \in Items /\ marked' \in BOOLEAN
      BY <1>1, <2>1, FactsOf DEF TaskType, CoreInv, TypeOK, ControlType
    <3> QED BY <1>1, <2>1, <2>2, <2>4, <3>1, Prepares
  <2> QED BY <1>7, <2>3, <2>4 DEF LanePrepare
<1> QED BY <1>2, <1>3, <1>4, <1>5, <1>6, <1>7 DEF Lane
----------------------------------------------------------------------------
LEMMA LifecycleCore == ASSUME CoreInv, LifecycleList \/ LifecyclePrepare PROVE SpaceInv'
<1>1. "lifecycle" \in Owners /\ "lifecycle" # "evidence" /\ TaskType
      /\ \A b \in batches : b.kind = "maintenance" /\ b.lane \in Lanes
  BY OwnersApart, TypeParts DEF CoreInv, SpaceInv, PlanInv
<1>2. at["lifecycle"] \in {"held", "events"} /\ "lifecycle" = holder /\ UNCHANGED <<image, intent, batches>>
  BY <1>1, Whose DEF LifecycleList, LifecyclePrepare, Holding, durable, sql
<1>3. recovering = FALSE /\ Prepared = {} /\ intent = {} /\ item = {}
  BY <1>1, <1>2, NothingPending
<1>4. CASE LifecycleList
  <2>1. at' = [at EXCEPT !["lifecycle"] = "events"] /\ UNCHANGED <<holder, recovering, item, plans>>
    BY <1>4 DEF LifecycleList, Goto, durable, sql
  <2>2. Prepared' = {}
    BY <1>3, <2>1 DEF Prepared
  <2> QED BY <1>1, <1>2, <1>3, <2>1, <2>2, Inside
<1>5. CASE LifecyclePrepare
  <2>1. CASE window["lifecycle"] = {} /\ Return("lifecycle") /\ UNCHANGED <<plans, marked>>
    BY <1>1, <1>2, <2>1, Leaves DEF Prepared
  <2>2. ASSUME NEW t \in window["lifecycle"], plans' = WithPlan(Event(t)), item' = {Event(t)}, marked' = TRUE,
               Goto("lifecycle", "apply"), UNCHANGED <<holder, recovering>>
        PROVE  SpaceInv'
    <3>1. Event(t) \in Items
      BY <1>1, <2>2, FactsOf DEF TaskType
    <3>2. at["lifecycle"] = "events" /\ marked' \in BOOLEAN
      BY <1>5, <2>2 DEF LifecyclePrepare
    <3> QED BY <1>1, <1>2, <2>2, <3>1, <3>2, Prepares
  <2> QED BY <1>5, <2>1, <2>2 DEF LifecyclePrepare
<1> QED BY <1>4, <1>5

LEMMA ReviewCore ==
  ASSUME CoreInv, ReviewPrepare \/ \E r \in Reviews : ReviewPlan(r) PROVE SpaceInv'
<1>1. "review" \in Owners /\ "review" # "evidence" /\ TaskType
      /\ \A b \in batches : b.kind = "maintenance" /\ b.lane \in Lanes
  BY OwnersApart, TypeParts DEF CoreInv, SpaceInv, PlanInv
<1>2. at["review"] \in {"held", "prepare"} /\ "review" = holder /\ UNCHANGED <<image, intent, batches>>
  BY <1>1, Whose DEF ReviewPlan, ReviewPrepare, Holding
<1>3. recovering = FALSE /\ Prepared = {} /\ intent = {}
  BY <1>1, <1>2, NothingPending
<1>4. ASSUME NEW r \in Reviews, ReviewPlan(r) PROVE SpaceInv'
  <2>1. plans' = plans /\ Prepared' = Prepared
    BY <1>4 DEF ReviewPlan, Prepared
  <2>2. CASE Return("review")
    BY <1>1, <1>2, <2>1, <2>2, Leaves
  <2>3. CASE marked' = TRUE /\ item' = {Review(r)} /\ Goto("review", "prepare") /\ UNCHANGED <<holder, recovering>>
    <3>1. Review(r).kind = "review"
      BY FactsOf
    <3>2. Prepared' = {} /\ intent' = {} /\ recovering' = FALSE /\ at' = [at EXCEPT !["review"] = "prepare"]
      BY <1>2, <1>3, <2>1, <2>3 DEF Goto
    <3> QED BY <1>1, <1>2, <2>3, <3>1, <3>2, Inside
  <2> QED BY <1>4, <2>2, <2>3 DEF ReviewPlan
<1>5. CASE ReviewPrepare
  <2>1. PICK i \in item : \/ plans' = WithPlan(i) /\ Goto("review", "apply") /\ UNCHANGED <<holder, recovering, item>>
                          \/ UNCHANGED plans /\ Return("review")
    BY <1>5 DEF ReviewPrepare
  <2>2. at["review"] = "prepare" /\ marked' = marked /\ marked \in BOOLEAN
    BY <1>5 DEF ReviewPrepare, CoreInv, TypeOK, ControlType
  <2>3. CASE UNCHANGED plans /\ Return("review")
    BY <1>1, <1>2, <2>3, Leaves DEF Prepared
  <2>4. CASE plans' = WithPlan(i) /\ Goto("review", "apply") /\ UNCHANGED <<holder, recovering, item>>
    <3>1. marked /\ i \in Items
      BY <1>1, <1>2, <2>2, NothingPending DEF TaskType
    <3>2. item = {i}
      BY <1>1, <1>2, <2>2, Whose DEF CoreInv, SpaceInv, ItemInv
    <3> QED BY <1>1, <1>2, <2>1, <2>2, <2>4, <3>1, <3>2, Prepares
  <2> QED BY <2>1, <2>3, <2>4
<1> QED BY <1>4, <1>5
----------------------------------------------------------------------------
(* Recovery finishes the only clear or the only plan. *)
LEMMA RecoverCore == ASSUME CoreInv, NEW p \in Owners, RecoverNext(p) PROVE SpaceInv'
<1>1. p = holder /\ p # Free /\ recovering /\ item = {} /\ at[p] = "recover"
  BY Whose DEF RecoverNext, Holding, CoreInv, SpaceInv, HolderInv, ItemInv
<1>2. UNCHANGED <<plans, image, intent, batches, holder>> /\ Prepared' = Prepared
  BY DEF RecoverNext, durable, sql, Prepared
<1>3. PlanInv /\ PlansApplicable
  BY DEF CoreInv, SpaceInv
<1>4. PlansApplicable'
  BY <1>2, <1>3 DEF PlansApplicable, Applicable
<1>5. CASE intent # {} /\ Goto(p, "clear_sql") /\ UNCHANGED <<marked, recovering, item>>
  <2>1. HolderInv' /\ holder' = p /\ at'[p] = "clear_sql"
    BY <1>1, <1>2, <1>5, HolderOn DEF Goto, Holding, Replaying, Clearing
  <2>2. ItemInv' /\ PlanInv'
    BY <1>1, <1>2, <1>3, <1>5, <2>1 DEF ItemInv, PlanInv
  <2> QED BY <1>4, <2>1, <2>2 DEF SpaceInv
<1>6. ASSUME NEW i \in Prepared, intent = {}, item' = {i}, Goto(p, "apply"), UNCHANGED <<marked, recovering>>
      PROVE  SpaceInv'
  <2>1. HolderInv' /\ holder' = p /\ at'[p] = "apply"
    BY <1>1, <1>2, <1>6, HolderOn DEF Goto, Holding, Replaying, Clearing
  <2>2. ItemInv' /\ PlanInv'
    BY <1>1, <1>2, <1>3, <1>6, <2>1 DEF ItemInv, PlanInv, Clearing
  <2> QED BY <1>4, <2>1, <2>2 DEF SpaceInv
<1>7. CASE intent = {} /\ Prepared = {} /\ marked' = FALSE /\ recovering' = FALSE /\ Goto(p, "held") /\ UNCHANGED item
  <2>1. at' = [at EXCEPT ![p] = "held"]
    BY <1>7 DEF Goto
  <2> QED BY <1>1, <1>2, <1>3, <1>7, <2>1, Inside DEF PlanInv
<1> QED BY <1>5, <1>6, <1>7 DEF RecoverNext

(* A plan that was applied still finds its image, the one it left. *)
LEMMA AppliedApplicable ==
  ASSUME TypeOK, NEW i \in Prepared, \A j \in Prepared : j = i, ApplyPlan(i), plans' = plans
  PROVE  PlansApplicable' /\ image'[Target(i)] = plans[i].next
<1>1. Target(i) \in Kinds /\ image \in [Kinds -> SUBSET AllFacts]
  BY FactsOf DEF TypeOK, SqlType, ControlType
<1>2. image'[Target(i)] = plans[i].next
  BY <1>1 DEF ApplyPlan
<1>3. Prepared' = Prepared
  BY DEF Prepared
<1> QED BY <1>2, <1>3 DEF PlansApplicable, Applicable

LEMMA ApplyCore == ASSUME CoreInv, NEW p \in Owners, Apply(p) PROVE SpaceInv'
<1>1. p = holder /\ p # Free /\ at[p] = "apply"
  BY Whose DEF Apply, Holding
<1>2. PICK i \in Prepared : item = {i} /\ ApplyPlan(i) /\ \A j \in Prepared : j = i
  <2>1. PICK j \in Prepared : item = {j}
    BY <1>1 DEF CoreInv, SpaceInv, ItemInv
  <2>2. ApplyPlan(j)
    BY <2>1 DEF Apply
  <2> QED BY <2>1, <2>2 DEF CoreInv, SpaceInv, PlanInv
<1>3. UNCHANGED <<plans, intent, batches, marked, holder, recovering, item>> /\ Prepared' = Prepared
  BY DEF Apply, sql, task, Prepared
<1>4. HolderInv' /\ holder' = p /\ at'[p] = "acknowledge"
  BY <1>1, <1>3, HolderOn DEF Apply, Goto, Holding, Replaying, Clearing
<1>5. ItemInv' /\ PlanInv'
  BY <1>1, <1>2, <1>3, <1>4 DEF CoreInv, SpaceInv, ItemInv, PlanInv, Clearing
<1>6. PlansApplicable'
  BY <1>2, <1>3, AppliedApplicable DEF CoreInv
<1> QED BY <1>4, <1>5, <1>6 DEF SpaceInv

(* Its acknowledgement leaves nothing prepared. *)
LEMMA AcknowledgeCore == ASSUME CoreInv, NEW p \in Owners, Acknowledge(p) PROVE SpaceInv'
<1>1. p = holder /\ p # Free /\ at[p] = "acknowledge" /\ recovering \in BOOLEAN
  BY Whose DEF Acknowledge, Holding, CoreInv, TypeOK, ControlType
<1>2. PICK i \in item : plans' = Only(Prepared \ {i}) /\ batches' = batches \ {i}
  BY DEF Acknowledge
<1>3. i \in Prepared /\ PlanType /\ intent = {} /\ \A j \in Prepared : j = i
  BY <1>1, <1>2, TypeParts DEF CoreInv, SpaceInv, ItemInv, PlanInv
<1>4. Prepared' = {} /\ intent' = {} /\ \A b \in batches' : b.kind = "maintenance" /\ b.lane \in Lanes
  <2>1. Prepared' = Prepared \cap (Prepared \ {i})
    BY <1>2, <1>3, PlansDeleted
  <2>2. intent' = intent
    BY DEF Acknowledge
  <2> QED BY <1>2, <1>3, <2>1, <2>2 DEF CoreInv, SpaceInv, PlanInv
<1>5. CASE recovering /\ Goto(p, "recover") /\ item' = {} /\ UNCHANGED <<holder, recovering>>
  <2>1. HolderInv' /\ holder' = p /\ at'[p] = "recover"
    BY <1>1, <1>5, HolderOn DEF Goto, Holding, Replaying, Clearing
  <2>2. ItemInv' /\ PlanInv' /\ PlansApplicable'
    BY <1>4, <1>5, <2>1 DEF ItemInv, PlanInv, PlansApplicable, Clearing
  <2> QED BY <2>1, <2>2 DEF SpaceInv
<1>6. CASE ~recovering /\ p = "lifecycle" /\ Goto(p, "events") /\ item' = {} /\ UNCHANGED <<holder, recovering>>
  <2>1. at' = [at EXCEPT ![p] = "events"] /\ recovering' = FALSE
    BY <1>1, <1>6 DEF Goto
  <2> QED BY <1>1, <1>4, <1>6, <2>1, Inside
<1>7. CASE Return(p)
  <2>1. HolderInv' /\ ItemInv' /\ PlanInv'
    BY <1>1, <1>4, <1>7, Returned, LetGo
  <2> QED BY <1>4, <2>1 DEF SpaceInv, PlansApplicable
<1> QED BY <1>5, <1>6, <1>7 DEF Acknowledge
----------------------------------------------------------------------------
(* A clear goes through its intent, whoever finishes it. *)
LEMMA ClearCore ==
  ASSUME CoreInv, NEW p \in Owners, ClearSql(p) \/ ClearAcknowledge(p) \/ (p = "clear" /\ (ClearMark \/ ClearFiles))
  PROVE  SpaceInv'
<1>1. /\ TypeOK /\ PlanType /\ PlanInv /\ p # Free /\ p = holder
      /\ recovering \in BOOLEAN /\ \A b \in batches : b.kind = "maintenance" /\ b.lane \in Lanes
  BY Whose, TypeParts DEF ClearSql, ClearAcknowledge, ClearMark, ClearFiles, Holding, CoreInv, SpaceInv, PlanInv,
                          TypeOK, ControlType
<1>2. CASE p = "clear" /\ ClearMark
  <2>1. /\ at[p] = "held" /\ at' = [at EXCEPT ![p] = "clear_files"] /\ marked' = TRUE
        /\ UNCHANGED <<plans, intent, batches, holder, recovering, item>> /\ Prepared' = Prepared
    BY <1>2 DEF ClearMark, Goto, durable, sql, task, Prepared
  <2> QED BY <1>1, <1>2, <2>1, NothingPending, Inside
<1>3. CASE p = "clear" /\ ClearFiles
  <2>1. /\ at[p] = "clear_files" /\ at' = [at EXCEPT ![p] = "clear_sql"] /\ intent' = {modules}
        /\ UNCHANGED <<plans, batches, holder, recovering, item, marked>> /\ Prepared' = Prepared
    BY <1>3 DEF ClearFiles, ClearImage, Goto, sql, task, Prepared
  <2>2. recovering = FALSE /\ Prepared = {} /\ item = {} /\ marked
    BY <1>1, <2>1, NothingPending
  <2>3. HolderInv' /\ holder' = p /\ at'[p] = "clear_sql"
    BY <1>1, <1>3, <2>1, <2>2, HolderOn DEF Holding, Replaying, Clearing
  <2>4. ItemInv' /\ PlanInv' /\ PlansApplicable'
    BY <1>1, <2>1, <2>2, <2>3 DEF ItemInv, PlanInv, PlansApplicable, Clearing
  <2> QED BY <2>3, <2>4 DEF SpaceInv
<1>4. CASE ClearSql(p)
  <2>1. /\ at[p] = "clear_sql" /\ at' = [at EXCEPT ![p] = "clear_acknowledge"]
        /\ UNCHANGED <<intent, holder, recovering, item, marked>>
    BY <1>4 DEF ClearSql, Goto, task
  <2>2. PICK selected \in intent : ClearRows(selected)
    BY <1>4 DEF ClearSql
  <2>3. Prepared' = {} /\ \A b \in batches' : b.kind = "maintenance" /\ b.lane \in Lanes
    BY <1>1, <2>2, PlansDeleted DEF ClearRows, PlanInv
  <2>4. item = {} /\ (~recovering => p = "clear" /\ marked)
    BY <1>1, <2>1 DEF CoreInv, SpaceInv, HolderInv, ItemInv, PlanInv, Clearing
  <2>5. HolderInv' /\ holder' = p /\ at'[p] = "clear_acknowledge"
    BY <1>1, <2>1, <2>4, HolderOn DEF Holding, Replaying, Clearing
  <2>6. ItemInv' /\ PlanInv' /\ PlansApplicable'
    BY <1>1, <2>1, <2>2, <2>3, <2>4, <2>5 DEF ItemInv, PlanInv, PlansApplicable, Clearing
  <2> QED BY <2>5, <2>6 DEF SpaceInv
<1>5. CASE ClearAcknowledge(p)
  <2>1. at[p] = "clear_acknowledge" /\ intent' = {} /\ Prepared' = {} /\ batches' = batches
    BY <1>1, <1>5 DEF ClearAcknowledge, sql, Prepared, PlanInv, Clearing
  <2>2. CASE recovering /\ Goto(p, "recover") /\ UNCHANGED <<marked, task>>
    <3>1. item = {} /\ UNCHANGED <<holder, recovering, item>>
      BY <1>1, <2>1, <2>2 DEF CoreInv, SpaceInv, ItemInv, task
    <3>2. HolderInv' /\ holder' = p /\ at'[p] = "recover"
      BY <1>1, <2>2, <3>1, HolderOn DEF Goto, Holding, Replaying, Clearing
    <3>3. ItemInv' /\ PlanInv' /\ PlansApplicable'
      BY <1>1, <2>1, <2>2, <3>1, <3>2 DEF ItemInv, PlanInv, PlansApplicable, Clearing
    <3> QED BY <3>2, <3>3 DEF SpaceInv
  <2>3. CASE Return(p)
    <3>1. HolderInv' /\ ItemInv' /\ PlanInv'
      BY <1>1, <2>1, <2>3, Returned, LetGo
    <3> QED BY <2>1, <3>1 DEF SpaceInv, PlansApplicable
  <2> QED BY <1>5, <2>2, <2>3 DEF ClearAcknowledge
<1> QED BY <1>2, <1>3, <1>4, <1>5

LEMMA EvidenceCore == ASSUME CoreInv, EvidenceControl \/ \E c \in Conversations : EvidenceStart(c) PROVE SpaceInv'
<1>1. "evidence" \in Owners /\ \A b \in batches : b.kind = "maintenance" /\ b.lane \in Lanes
  BY OwnersApart DEF CoreInv, SpaceInv, PlanInv
<1>2. ASSUME NEW c \in Conversations, EvidenceStart(c) PROVE SpaceInv'
  <2>1. "evidence" # holder
    BY <1>1, <1>2, Whose DEF EvidenceStart, Holding
  <2>2. PICK label \in {"queued", "held"} : at' = [at EXCEPT !["evidence"] = label]
    BY <1>2 DEF EvidenceStart, Goto
  <2>3. UNCHANGED <<holder, recovering, item, plans, image, intent, marked, batches>>
    BY <1>2 DEF EvidenceStart, durable, sql
  <2> QED BY <1>1, <2>1, <2>2, <2>3, Aside DEF Holding, LaneOnly
<1>3. CASE EvidenceControl
  <2>1. at["evidence"] = "held" /\ Return("evidence") /\ UNCHANGED <<plans, image, intent, marked>>
    BY <1>3 DEF EvidenceControl
  <2>2. batches' \subseteq batches
    BY <1>3 DEF EvidenceControl
  <2>3. Prepared' = Prepared
    BY <2>1 DEF Prepared
  <2>4. CASE "evidence" = holder
    BY <1>1, <2>1, <2>2, <2>3, <2>4, Leaves
  <2>5. CASE "evidence" # holder
    BY <1>1, <2>1, <2>2, <2>5, Returned, Aside DEF Holding, LaneOnly
  <2> QED BY <2>4, <2>5
<1> QED BY <1>2, <1>3

(* A failure leaves the Space marked, when it leaves something behind. *)
LEMMA FailCore == ASSUME CoreInv, NEW p \in Owners, Fail(p) PROVE SpaceInv'
<1>1. p = holder /\ p # Free /\ Return(p) /\ marked' = (marked \/ recovering) /\ UNCHANGED <<plans, batches>>
  BY Whose DEF Fail, sql
<1>2. Prepared' = Prepared /\ TypeOK /\ PlanInv /\ PlansApplicable
  BY <1>1 DEF Prepared, CoreInv, SpaceInv
<1>3. ~recovering /\ Prepared # {} => marked
  BY <1>1, <1>2 DEF PlanInv
<1>4. CASE UNCHANGED <<image, intent>>
  <2>1. ~recovering /\ intent # {} => marked
    BY <1>1, <1>2 DEF PlanInv
  <2>2. HolderInv' /\ ItemInv' /\ PlanInv'
    BY <1>1, <1>2, <1>3, <1>4, <2>1, Returned, LetGo DEF PlanInv
  <2>3. PlansApplicable'
    BY <1>1, <1>2, <1>4 DEF PlansApplicable, Applicable
  <2> QED BY <2>2, <2>3 DEF SpaceInv
<1>5. ASSUME at[p] = "apply", NEW i \in item, ApplyPlan(i), UNCHANGED intent PROVE SpaceInv'
  <2>1. i \in Prepared /\ \A j \in Prepared : j = i
    BY <1>1, <1>2, <1>5 DEF CoreInv, SpaceInv, ItemInv, PlanInv
  <2>2. intent = {}
    BY <1>2, <2>1 DEF PlanInv
  <2>3. HolderInv' /\ ItemInv' /\ PlanInv'
    BY <1>1, <1>2, <1>3, <1>5, <2>2, Returned, LetGo DEF PlanInv
  <2>4. PlansApplicable'
    BY <1>1, <1>2, <1>5, <2>1, AppliedApplicable
  <2> QED BY <2>3, <2>4 DEF SpaceInv
<1>6. CASE at[p] = "clear_files" /\ ClearImage
  <2>1. Prepared = {} /\ marked /\ intent' = {modules}
    BY <1>1, <1>6, NothingPending DEF ClearImage
  <2>2. HolderInv' /\ ItemInv' /\ PlanInv'
    BY <1>1, <1>2, <2>1, Returned, LetGo DEF PlanInv
  <2> QED BY <2>1, <2>2 DEF SpaceInv, PlansApplicable
<1> QED BY <1>4, <1>5, <1>6 DEF Fail

(* The process starts again inside the recovery of the Space. *)
LEMMA CrashCore == ASSUME CoreInv, Crash PROVE SpaceInv'
<1>1. /\ "startup" \in Owners /\ "startup" # Free /\ holder' = "startup" /\ recovering' = TRUE /\ item' = {}
      /\ \A p \in Owners : at'[p] = IF p = "startup" THEN "recover" ELSE "off"
      /\ UNCHANGED <<plans, batches, image, intent>>
  BY OwnersApart DEF Crash, durable, sql
<1>2. Prepared' = Prepared
  BY <1>1 DEF Prepared
<1>3. HolderInv'
  BY <1>1 DEF HolderInv, Holding, Replaying, Clearing, LaneOnly
<1>4. ItemInv' /\ PlanInv' /\ PlansApplicable'
  BY <1>1, <1>2 DEF CoreInv, SpaceInv, ItemInv, PlanInv, PlansApplicable, Applicable, Clearing
<1> QED BY <1>3, <1>4 DEF SpaceInv
(* What happens aside from the Space altogether. *)
LEMMA OutsideCore == ASSUME CoreInv, UNCHANGED <<control, plans, batches, image, intent>> PROVE SpaceInv'
<1>1. UNCHANGED <<at, marked, holder, recovering, item>> /\ Prepared' = Prepared
  BY DEF control, task, Prepared
<1>2. HolderInv'
  BY <1>1 DEF CoreInv, SpaceInv, HolderInv
<1>3. ItemInv' /\ PlanInv'
  BY <1>1 DEF CoreInv, SpaceInv, ItemInv, PlanInv
<1>4. PlansApplicable'
  BY <1>1 DEF CoreInv, SpaceInv, PlansApplicable, Applicable
<1> QED BY <1>2, <1>3, <1>4 DEF SpaceInv

LEMMA SpaceNext == ASSUME CoreInv, [Next]_vars PROVE SpaceInv'
<1>1. ASSUME NEW k \in Lanes, LaneStart(k) \/ LaneGiveUp(k) \/ Lane(k) PROVE SpaceInv'
  BY <1>1, LaneCore
<1>2. ASSUME NEW p \in Owners, Reserve(p) \/ Begin(p) \/ \E s \in Clears : p = "clear" /\ ClearStart(s) PROVE SpaceInv'
  <2>1. Take(p) /\ UNCHANGED <<item, plans, image, intent, marked, batches>>
    BY <1>2 DEF Reserve, Begin, ClearStart, durable, sql
  <2> QED BY <2>1, TakeCore
<1>3. ASSUME NEW p \in Owners, p # "evidence", ReadDone(p) PROVE SpaceInv'
  <2>1. p = holder /\ at[p] = "held" /\ Return(p) /\ UNCHANGED <<plans, intent, batches>> /\ Prepared' = Prepared
    BY <1>3, Whose DEF ReadDone, Holding, durable, sql, Prepared
  <2> QED BY <2>1, NothingPending, Leaves
<1>4. CASE \/ \E off \in Disabled, lifecycle \in BOOLEAN : CompleteResponse(off, lifecycle)
           \/ \E r \in Reviews : ReviewSubmit(r) \/ ReviewReject(r)
           \/ UNCHANGED vars
  <2>1. UNCHANGED <<control, plans, batches, image, intent>>
    BY <1>4 DEF CompleteResponse, ReviewSubmit, ReviewReject, vars, durable, sql
  <2> QED BY <2>1, OutsideCore
<1>5. CASE Crash \/ \E p \in Owners : Fail(p)
  BY <1>5, CrashCore, FailCore
<1>6. CASE \E c \in Conversations : EvidenceStart(c)
  BY <1>6, EvidenceCore
<1>7. ASSUME NEW p \in Owners, Work(p) PROVE SpaceInv'
  <2>1. p \in {"reader", "startup"} => p # "evidence"
    OBVIOUS
  <2> QED BY <1>1, <1>2, <1>3, <1>7, <2>1, RecoverCore, ApplyCore, AcknowledgeCore, ClearCore, LifecycleCore,
             ReviewCore, EvidenceCore DEF Work
<1> QED BY <1>1, <1>2, <1>4, <1>5, <1>6, <1>7, OwnersApart DEF Next

LEMMA CoreNext == ASSUME CoreInv, [Next]_vars PROVE CoreInv'
BY TypeNext, SpaceNext DEF CoreInv

LEMMA CoreInit == ASSUME Init PROVE CoreInv
<1>1. Prepared = {}
  BY DEF Init, Prepared
<1>2. PlanType /\ RowType /\ ImageType /\ OtherType
  <2>1. PlanType /\ RowType
    BY <1>1 DEF Init, PlanType, RowType
  <2>2. ImageType
    BY DEF Init, ImageType
  <2>3. OtherType
    <3>1. MaxTurns \in Nat /\ arrived = 0 /\ marked = FALSE /\ overtaken = {} /\ clears = 0 /\ faults = 0
      BY CommitAssumption DEF Init
    <3>2. arrived \in 0..MaxTurns /\ clears \in Nat /\ faults \in Nat
      BY <3>1
    <3> QED BY <3>1, <3>2 DEF OtherType
  <2> QED BY <2>1, <2>2, <2>3
<1>3. TaskType
  BY DEF Init, TaskType, Labels
<1>4. HolderInv
  BY DEF Init, HolderInv, Holding, Replaying, Clearing, LaneOnly
<1>5. ItemInv /\ PlanInv /\ PlansApplicable
  BY <1>1 DEF Init, ItemInv, PlanInv, PlansApplicable
<1> QED BY <1>2, <1>3, <1>4, <1>5, TypeParts DEF CoreInv, SpaceInv

LEMMA CoreHolds == Spec => []CoreInv
BY CoreInit, CoreNext, PTL DEF Spec

(* Whoever works inside a Space finds nothing half done there: what failed *)
(* steps, cancelled callers and process exits left prepared is finished or *)
(* marked before anybody else gets in, and a prepared plan always finds    *)
(* the image it was made for, so that no recovery is stopped by a conflict *)
(* (recover_space_commits, apply_journaled_memory_commit).                 *)
THEOREM RecoveryCompleteHolds == Spec => []RecoveryComplete
<1>1. ASSUME CoreInv PROVE RecoveryComplete
  <2>1. ASSUME holder # Free, ~recovering, intent # {} PROVE holder = "clear"
    BY <1>1, <2>1 DEF CoreInv, SpaceInv, TypeOK, ControlType, HolderInv, PlanInv
  <2>2. ASSUME holder # Free, ~recovering PROVE Prepared \subseteq item
    BY <1>1, <2>2 DEF CoreInv, SpaceInv, ItemInv, PlanInv
  <2>3. holder = Free /\ (Prepared # {} \/ intent # {}) => marked
    BY <1>1 DEF CoreInv, SpaceInv, PlanInv
  <2>4. RecoveredBeforeUse
    BY <2>1, <2>2, <2>3 DEF RecoveredBeforeUse
  <2> QED BY <1>1, <2>4 DEF CoreInv, SpaceInv, RecoveryComplete
<1> QED BY <1>1, CoreHolds, PTL
----------------------------------------------------------------------------
(* Second layer: turns, batches and plans.  The lanes first: what another  *)
(* owner's step leaves to a lane, ...                                      *)
LEMMA LaneFrame ==
  ASSUME NEW k \in Lanes, LaneOf(k), aim'[k] = aim[k], window'[k] = window[k], arrived' \in Nat, arrived \in Nat,
         arrived <= arrived', \A b \in batches' : b.lane = k => b \in batches,
         \A i \in Prepared' : i.kind = "maintenance" /\ i.lane = k => i \in Prepared,
         Carries(k) => applied'[k] = applied[k],
         \/ at'[k] = at[k]
         \/ at'[k] \notin {"off", "look", "prepare", "read", "generate", "stage"},
         Carries(k)' => Carries(k)
  PROVE  LaneOf(k)'
<1>1. /\ at'[k] \in {"off", "look"} => aim'[k] = "settle"
      /\ at'[k] = "prepare" => aim'[k] = "commit"
  BY DEF LaneOf
<1>2. window'[k] \subseteq 1..arrived'
  BY DEF LaneOf
<1>3. /\ at'[k] \in {"generate", "stage"} => \A b \in batches' : b.lane # k
      /\ at'[k] = "read" => \A b \in batches' : b.lane = k => b.turns = window'[k]
  BY DEF LaneOf
<1>4. Carries(k)' => /\ window'[k] # {} /\ \A t \in window'[k] : applied'[k][t] = 0
                     /\ \A i \in Prepared' : i.kind = "maintenance" => i.lane # k
  BY DEF LaneOf
<1> QED BY <1>1, <1>2, <1>3, <1>4 DEF LaneOf

(* ... and what its own return leaves. *)
LEMMA LaneReturned ==
  ASSUME NEW k \in Lanes, at'[k] = "off", aim'[k] = "settle", window'[k] = {}
  PROVE  LaneOf(k)'
BY DEF LaneOf, Carries

LEMMA ReturnAims ==
  ASSUME TaskType, NEW p \in Owners, Return(p)
  PROVE  /\ at'[p] = "off" /\ (p \in Lanes => aim'[p] = "settle" /\ window'[p] = {})
         /\ \A k \in Lanes : k # p => aim'[k] = aim[k] /\ window'[k] = window[k]
         /\ \A q \in Owners : q # p => at'[q] = at[q]
         /\ recovering' => recovering
BY DEF Return, Goto, TaskType

(* A step of p, for the lanes. *)
LEMMA LanesAfter ==
  ASSUME CoreInv, LaneInv, NEW p \in Owners, arrived' = arrived,
         \A q \in Owners : q # p => at'[q] = at[q],
         \A k \in Lanes : k # p => aim'[k] = aim[k] /\ window'[k] = window[k],
         \A b \in batches' : b \in batches \/ b.lane = p,
         \A i \in Prepared' : i \in Prepared \/ i.kind # "maintenance" \/ i.lane = p,
         \A k \in Lanes : Carries(k) => applied'[k] = applied[k],
         recovering' => recovering \/ holder = Free,
         p \in Lanes => LaneOf(p)'
  PROVE  LaneInv'
<1>1. ASSUME NEW k \in Lanes, k # p PROVE LaneOf(k)'
  <2>1. k \in Owners /\ k # "evidence" /\ arrived \in Nat
    BY OwnersApart DEF CoreInv, TypeOK, SqlType
  <2>2. Carries(k)' => Carries(k)
    <3>1. holder = Free => at[k] \notin {"apply", "acknowledge"}
      BY <2>1, Whose DEF Holding
    <3> QED BY <1>1, <2>1, <3>1 DEF Carries
  <2> QED BY <1>1, <2>1, <2>2, LaneFrame DEF LaneInv
<1> QED BY <1>1 DEF LaneInv

(* A step that carries on with what p has in hand. *)
LEMMA LanesOn ==
  ASSUME CoreInv, LaneInv, NEW p \in Owners, NEW label, Goto(p, label),
         label \notin {"off", "look", "prepare", "read", "generate", "stage", "discard"},
         UNCHANGED <<arrived, aim>>, \A k \in Lanes : window'[k] = window[k],
         batches' \subseteq batches, \A i \in Prepared' : i \in Prepared \/ i.kind # "maintenance",
         \A k \in Lanes : Carries(k) => applied'[k] = applied[k],
         recovering' => recovering \/ holder = Free,
         at[p] \in {"apply", "acknowledge"} /\ ~recovering => label \in {"apply", "acknowledge"} \/ p \notin Lanes
  PROVE  LaneInv'
<1>1. at'[p] = label /\ (\A q \in Owners : q # p => at'[q] = at[q]) /\ arrived \in Nat
  BY DEF Goto, CoreInv, TypeOK, ControlType, SqlType
<1>2. ASSUME p \in Lanes PROVE LaneOf(p)'
  <2>1. p # "evidence" /\ (holder = Free => at[p] \notin {"apply", "acknowledge"})
    BY <1>2, OwnersApart, Whose DEF Holding
  <2>2. Carries(p)' => Carries(p)
    BY <1>1, <1>2, <2>1 DEF Carries
  <2> QED BY <1>1, <1>2, <2>2, LaneFrame DEF LaneInv
<1> QED BY <1>1, <1>2, LanesAfter

(* A step that ends the operation of p. *)
LEMMA LanesReturn ==
  ASSUME CoreInv, LaneInv, NEW p \in Owners, Return(p), arrived' = arrived, batches' \subseteq batches,
         \A i \in Prepared' : i \in Prepared, \A k \in Lanes : Carries(k) => applied'[k] = applied[k]
  PROVE  LaneInv'
<1>1. TaskType
  BY TypeParts DEF CoreInv
<1>2. p \in Lanes => LaneOf(p)'
  BY <1>1, ReturnAims, LaneReturned
<1> QED BY <1>1, <1>2, ReturnAims, LanesAfter
----------------------------------------------------------------------------
(* The rows: what each durable step leaves of them. *)
LEMMA RowsKept ==
  ASSUME RowsInv, UNCHANGED <<turns, done, arrived, batches, plans, image, applied, excused, cleared>> PROVE RowsInv'
<1>1. Prepared' = Prepared
  BY DEF Prepared
<1>2. BatchInv'
  BY <1>1 DEF RowsInv, BatchInv
<1>3. AppliedInv'
  BY <1>1 DEF RowsInv, AppliedInv
<1>4. NothingLost'
  BY DEF RowsInv, NothingLost
<1> QED BY <1>2, <1>3, <1>4 DEF RowsInv

LEMMA ResponseRows ==
  ASSUME TypeOK, RowsInv, NEW off \in Disabled, NEW lifecycle \in BOOLEAN, CompleteResponse(off, lifecycle) PROVE RowsInv'
<1>1. PlanType /\ RowType /\ ImageType /\ OtherType /\ RowsInv
  BY TypeParts
<1> DEFINE t == arrived + 1
<1>2. /\ arrived \in Nat /\ t \in Turns /\ arrived' = t /\ turns' = turns \cup {t}
      /\ done' = [k \in Kinds |-> IF k \in off THEN done[k] \cup {t} ELSE done[k]]
      /\ excused' = [k \in Kinds |-> IF k \in off THEN excused[k] \cup {t} ELSE excused[k]]
      /\ UNCHANGED <<batches, plans, image, cleared, applied>>
  BY <1>1, CommitAssumption DEF CompleteResponse, OtherType, Turns
<1>3. Prepared' = Prepared /\ \A s \in 1..arrived : s \in 1..t /\ s # t
  BY <1>2 DEF Prepared
<1>4. \A k \in Kinds : done[k] \subseteq turns /\ turns \subseteq 1..arrived
  BY <1>1 DEF RowsInv, BatchInv
<1>5. BatchInv'
  <2>1. turns' \subseteq 1..arrived' /\ \A k \in Kinds : done'[k] \subseteq turns'
    BY <1>1, <1>2, <1>3, <1>4 DEF RowsInv, BatchInv
  <2>2. \A b \in batches' : b.turns # {} /\ b.turns \subseteq 1..arrived'
    BY <1>1, <1>2, <1>3 DEF RowsInv, BatchInv
  <2> QED BY <1>1, <1>2, <1>3, <2>1, <2>2 DEF RowsInv, BatchInv
<1>6. \A k \in Kinds : t \notin turns \ done[k] /\ \A s \in turns' \ done'[k] : s = t \/ s \in turns \ done[k]
  BY <1>2, <1>3, <1>4
<1>7. AppliedInv'
  <2>1. \A k \in Kinds, s \in Turns : applied[k][s] \in {0, 1} /\ (applied[k][s] = 1 => s <= arrived)
    BY <1>1 DEF RowsInv, AppliedInv
  <2>2. \A s \in Turns : s <= arrived => s <= t /\ s # t
    BY <1>2 DEF Turns
  <2>3. \A k \in Kinds : \A s \in turns' \ done'[k] : applied[k][s] = 1 => s \in turns \ done[k]
    BY <1>2, <1>6, <2>1, <2>2
  <2>4. \A k \in Kinds, s \in Turns : <<"turn", s>> \in image[k] => applied[k][s] = 1
    BY <1>1 DEF RowsInv, AppliedInv
  <2> QED BY <1>1, <1>2, <1>3, <2>1, <2>2, <2>3, <2>4 DEF RowsInv, AppliedInv
<1>8. NothingLost'
  <2> SUFFICES ASSUME NEW k \in Kinds, NEW s \in 1..t
               PROVE  s \in turns' \ done'[k] \/ <<"turn", s>> \in image[k] \/ s \in excused'[k] \cup cleared[k]
    BY <1>2 DEF NothingLost
  <2>1. CASE s = t
    BY <1>2, <1>3, <1>4, <2>1
  <2>2. CASE s \in 1..arrived
    <3>1. s \in turns \ done[k] \/ <<"turn", s>> \in image[k] \/ s \in excused[k] \cup cleared[k]
      BY <1>1, <2>2 DEF RowsInv, NothingLost
    <3> QED BY <1>2, <1>3, <2>2, <3>1
  <2> QED BY <1>2, <2>1, <2>2
<1> QED BY <1>5, <1>7, <1>8 DEF RowsInv

(* The only plan is applied. *)
LEMMA ApplyRows ==
  ASSUME TypeOK, RowsInv, NEW i \in Prepared, \A j \in Prepared : j = i,
         \A b \in batches : b.kind = "maintenance" /\ b.lane \in Lanes,
         Applicable(i), ApplyPlan(i), UNCHANGED <<turns, done, arrived, batches, plans, excused, cleared>>
  PROVE  RowsInv' /\ \A k \in Kinds : k # Target(i) \/ i.kind # "maintenance" => applied'[k] = applied[k]
<1>1. PlanType /\ RowType /\ ImageType /\ i \in Items /\ Prepared' = Prepared /\ Target(i) \in Kinds
  BY TypeParts, FactsOf DEF PlanType, Prepared
<1>2. /\ plans[i].next = plans[i].expected \cup Facts(i)
      /\ image[Target(i)] \in {plans[i].expected, plans[i].next} /\ image'[Target(i)] = plans[i].next
      /\ \A k \in Kinds : k # Target(i) => image'[k] = image[k]
  BY <1>1 DEF RowsInv, BatchInv, Applicable, ApplyPlan, ImageType
<1>3. \A k \in Kinds : image[k] \subseteq image'[k]
  BY <1>2
<1>4. BatchInv'
  BY <1>1 DEF RowsInv, BatchInv
<1>5. NothingLost'
  BY <1>3 DEF RowsInv, NothingLost
<1>6. CASE i.kind = "maintenance" /\ image[i.lane] = plans[i].expected
  <2>1. Target(i) = i.lane /\ Facts(i) = {<<"turn", t>> : t \in i.turns} /\ i \in batches /\ i.turns \subseteq Turns
    BY <1>1, <1>6 DEF Target, Facts, RowsInv, BatchInv, Items
  <2>2. /\ \A k \in Kinds : k # i.lane => applied'[k] = applied[k]
        /\ \A t \in Turns : applied'[i.lane][t] = IF t \in i.turns THEN applied[i.lane][t] + 1 ELSE applied[i.lane][t]
    BY <1>1, <1>6, <2>1 DEF ApplyPlan, ImageType
  <2>3. \A t \in i.turns : <<"turn", t>> \in plans[i].next /\ <<"turn", t>> \notin plans[i].expected
    BY <1>2, <1>6, <2>1 DEF RowsInv, BatchInv
  <2>4. ASSUME NEW t \in i.turns PROVE applied[i.lane][t] = 0
    <3>1. i.lane \in Kinds /\ t \in Turns /\ image[i.lane] # plans[i].next
      BY <1>1, <1>6, <2>1, <2>3
    <3>2. applied[i.lane][t] \in {0, 1} /\ applied[i.lane][t] # 1
      BY <2>1, <3>1 DEF RowsInv, AppliedInv
    <3> QED BY <3>2
  <2>5. \A b \in batches : b.lane = i.lane => b = i
    BY <2>1 DEF RowsInv, BatchInv
  <2>6. ASSUME NEW k \in Kinds, NEW t \in Turns
        PROVE  /\ applied'[k][t] \in {0, 1} /\ (applied'[k][t] = 1 => t <= arrived)
               /\ <<"turn", t>> \in image'[k] => applied'[k][t] = 1
               /\ applied'[k][t] # applied[k][t] => k = i.lane /\ t \in i.turns
    <3>1. CASE k # i.lane
      BY <1>1, <1>2, <2>1, <2>2, <3>1 DEF RowsInv, AppliedInv
    <3>2. CASE k = i.lane /\ t \in i.turns
      <4>1. applied'[k][t] = 1
        BY <2>2, <2>4, <3>2
      <4>2. t <= arrived
        BY <2>1, <3>2 DEF RowsInv, BatchInv
      <4> QED BY <3>2, <4>1, <4>2
    <3>3. CASE k = i.lane /\ t \notin i.turns
      <4>1. applied'[k][t] = applied[k][t]
        BY <2>2, <3>3
      <4>2. <<"turn", t>> \in image'[k] => <<"turn", t>> \in image[k]
        BY <1>2, <1>6, <2>1, <3>3
      <4> QED BY <4>1, <4>2 DEF RowsInv, AppliedInv
    <3> QED BY <3>1, <3>2, <3>3
  <2>7. AppliedInv'
    <3>1. ASSUME NEW k \in Kinds, NEW t \in turns \ done[k], applied'[k][t] = 1
          PROVE  \E j \in Prepared : j.kind = "maintenance" /\ j.lane = k /\ t \in j.turns
      <4>1. t \in Turns
        BY <1>1 DEF RowType
      <4>2. CASE applied'[k][t] # applied[k][t]
        <5>1. k = i.lane /\ t \in i.turns
          BY <2>6, <4>1, <4>2
        <5> QED BY <1>6, <5>1
      <4>3. CASE applied'[k][t] = applied[k][t]
        <5>1. applied[k][t] = 1
          BY <3>1, <4>3
        <5> QED BY <3>1, <5>1 DEF RowsInv, AppliedInv
      <4> QED BY <4>2, <4>3
    <3>2. ASSUME NEW b \in batches, NEW t \in b.turns, applied'[b.lane][t] = 1
          PROVE  b \in Prepared /\ image'[b.lane] = plans[b].next
      <4>1. CASE b.lane = i.lane
        BY <1>2, <2>1, <2>5, <4>1
      <4>2. CASE b.lane # i.lane
        <5>1. b.lane \in Kinds /\ t \in Turns
          BY <1>1, OwnersApart DEF RowType, Items
        <5> QED BY <1>2, <2>1, <2>2, <3>2, <4>2, <5>1 DEF RowsInv, AppliedInv
      <4> QED BY <4>1, <4>2
    <3> QED BY <1>1, <2>6, <3>1, <3>2 DEF AppliedInv
  <2> QED BY <1>4, <1>5, <2>1, <2>2, <2>7, <1>6 DEF RowsInv
<1>7. CASE ~(i.kind = "maintenance" /\ image[i.lane] = plans[i].expected)
  <2>1. applied' = applied
    BY <1>1, <1>7 DEF ApplyPlan, Target
  <2>2. \A k \in Kinds, t \in Turns : <<"turn", t>> \in image'[k] => <<"turn", t>> \in image[k]
    <3>1. CASE i.kind = "maintenance"
      BY <1>2, <1>7, <3>1 DEF Target
    <3>2. CASE i.kind # "maintenance"
      <4>1. \A t \in Turns : <<"turn", t>> \notin Facts(i)
        BY <1>1, <3>2 DEF Facts, Items
      <4> QED BY <1>2, <4>1
    <3> QED BY <3>1, <3>2
  <2>3. ASSUME NEW b \in batches, NEW t \in b.turns, applied[b.lane][t] = 1
        PROVE  b \in Prepared /\ image'[b.lane] = plans[b].next
    <3>1. b \in Prepared /\ image[b.lane] = plans[b].next
      BY <2>3 DEF RowsInv, AppliedInv
    <3>2. b = i /\ Target(i) = b.lane
      BY <3>1 DEF Target
    <3> QED BY <1>2, <3>1, <3>2
  <2>4. AppliedInv'
    BY <1>1, <2>1, <2>2, <2>3 DEF RowsInv, AppliedInv
  <2> QED BY <1>4, <1>5, <2>1, <2>4 DEF RowsInv
<1> QED BY <1>6, <1>7
(* ... and acknowledged, its turns being in the image. *)
LEMMA AcknowledgeRows ==
  ASSUME TypeOK, RowsInv, NEW i \in Prepared, \A j \in Prepared : j = i, plans' = Only(Prepared \ {i}),
         i.kind = "maintenance" => image[i.lane] = plans[i].next,
         done' = IF i.kind = "maintenance" THEN [done EXCEPT ![i.lane] = @ \cup (i.turns \cap turns)] ELSE done,
         batches' = batches \ {i}, UNCHANGED <<turns, arrived, image, applied, excused, cleared>>
  PROVE  RowsInv' /\ Prepared' = {}
<1>1. PlanType /\ RowType /\ i \in Items
  BY TypeParts DEF PlanType
<1>2. Prepared' = {}
  BY <1>1, PlansDeleted
<1>3. \A k \in Kinds : done'[k] = IF i.kind = "maintenance" /\ i.lane = k THEN done[k] \cup (i.turns \cap turns) ELSE done[k]
  BY <1>1 DEF RowType
<1>4. BatchInv'
  BY <1>2, <1>3 DEF RowsInv, BatchInv
<1>5. ASSUME NEW k \in Kinds, NEW t \in turns \ done'[k] PROVE applied[k][t] # 1
  <2>1. applied[k][t] = 1 /\ t \in turns \ done[k] => i.kind = "maintenance" /\ i.lane = k /\ t \in i.turns
    BY DEF RowsInv, AppliedInv
  <2> QED BY <1>3, <2>1
<1>6. AppliedInv'
  <2>1. \A b \in batches' : \A t \in b.turns : applied[b.lane][t] # 1
    BY DEF RowsInv, AppliedInv
  <2> QED BY <1>2, <1>5, <2>1 DEF RowsInv, AppliedInv
<1>7. NothingLost'
  <2> SUFFICES ASSUME NEW k \in Kinds, NEW t \in 1..arrived
               PROVE  t \in turns \ done'[k] \/ <<"turn", t>> \in image[k] \/ t \in excused[k] \cup cleared[k]
    BY DEF NothingLost
  <2>1. t \in turns \ done[k] \/ <<"turn", t>> \in image[k] \/ t \in excused[k] \cup cleared[k]
    BY DEF RowsInv, NothingLost
  <2>2. ASSUME i.kind = "maintenance", i.lane = k, t \in i.turns PROVE <<"turn", t>> \in image[k]
    <3>1. <<"turn", t>> \in Facts(i) /\ plans[i].next = plans[i].expected \cup Facts(i)
      BY <2>2 DEF Facts, RowsInv, BatchInv
    <3> QED BY <2>2, <3>1
  <2> QED BY <1>3, <2>1, <2>2
<1> QED BY <1>2, <1>4, <1>6, <1>7 DEF RowsInv

(* The first plan is prepared: of a batch that is staged and that nobody   *)
(* consolidated, or of an event or a review.                               *)
LEMMA PrepareRows ==
  ASSUME TypeOK, RowsInv, Prepared = {}, NEW i \in Items, plans' = WithPlan(i),
         i.kind = "maintenance" => i \in batches /\ \A t \in i.turns : applied[i.lane][t] = 0,
         UNCHANGED <<turns, done, arrived, batches, image, applied, excused, cleared>>
  PROVE  RowsInv' /\ Prepared' = {i}
<1>1. PlanType /\ ImageType
  BY TypeParts
<1>2. Prepared' = {i} /\ plans'[i] = PlanOf(i)
  BY <1>1, PlanAdded
<1>3. ASSUME i.kind = "maintenance", NEW t \in i.turns PROVE <<"turn", t>> \notin plans'[i].expected
  <2>1. i.lane \in Kinds /\ t \in Turns /\ applied[i.lane][t] = 0 /\ Target(i) = i.lane
    BY <1>3 DEF Items, Target
  <2>2. <<"turn", t>> \notin image[i.lane]
    BY <2>1 DEF RowsInv, AppliedInv
  <2> QED BY <1>2, <2>1, <2>2 DEF PlanOf
<1>4. BatchInv'
  <2>1. plans'[i].next = plans'[i].expected \cup Facts(i)
    BY <1>2 DEF PlanOf
  <2> QED BY <1>2, <1>3, <2>1 DEF RowsInv, BatchInv
<1>5. AppliedInv'
  <2>1. \A b \in batches : \A t \in b.turns : applied[b.lane][t] # 1
    BY DEF RowsInv, AppliedInv
  <2>2. \A k \in Kinds : \A t \in turns \ done[k] : applied[k][t] # 1
    BY DEF RowsInv, AppliedInv
  <2> QED BY <2>1, <2>2 DEF RowsInv, AppliedInv
<1>6. NothingLost'
  BY DEF RowsInv, NothingLost
<1> QED BY <1>2, <1>4, <1>5, <1>6 DEF RowsInv

(* A batch of turns that nobody consolidated is staged, or an unprepared   *)
(* one discarded.                                                          *)
LEMMA StageRows ==
  ASSUME TypeOK, RowsInv, NEW k \in Lanes, NEW ids \in SUBSET Turns, ids # {}, ids \subseteq 1..arrived,
         \/ /\ batches' = batches \cup {Batch(k, ids)} /\ \A b \in batches : b.lane # k
            /\ \A t \in ids : applied[k][t] = 0
         \/ batches' = batches \ {Batch(k, ids)} /\ Batch(k, ids) \notin Prepared,
         UNCHANGED <<turns, done, arrived, plans, image, applied, excused, cleared>>
  PROVE  RowsInv'
<1>1. /\ Prepared' = Prepared /\ k \in Kinds /\ Batch(k, ids).lane = k /\ Batch(k, ids).turns = ids
  BY OwnersApart, FactsOf DEF Prepared
<1>2. BatchInv'
  BY <1>1 DEF RowsInv, BatchInv
<1>3. ASSUME NEW b \in batches', NEW t \in b.turns, applied[b.lane][t] = 1
      PROVE  b \in Prepared /\ image[b.lane] = plans[b].next
  <2>1. b = Batch(k, ids) => b.lane = k /\ t \in ids
    BY <1>1
  <2>2. b \in batches
    <3>1. b \in batches \/ (b = Batch(k, ids) /\ \A u \in ids : applied[k][u] = 0)
      OBVIOUS
    <3>2. 0 # 1
      OBVIOUS
    <3> QED BY <1>3, <2>1, <3>1, <3>2
  <2> QED BY <1>3, <2>2 DEF RowsInv, AppliedInv
<1>4. AppliedInv'
  BY <1>1, <1>3 DEF RowsInv, AppliedInv
<1>5. NothingLost'
  BY DEF RowsInv, NothingLost
<1> QED BY <1>2, <1>4, <1>5 DEF RowsInv

(* A clear empties an image no plan waits for, ... *)
LEMMA ClearImageRows ==
  ASSUME TypeOK, RowsInv, Prepared = {}, ClearImage, UNCHANGED <<turns, done, arrived, batches, plans, applied, excused>>
  PROVE  RowsInv'
<1>1. Prepared' = {} /\ \A k \in Kinds : image'[k] = (IF k \in modules THEN {} ELSE image[k])
                         /\ cleared'[k] = (IF k \in modules THEN 1..arrived ELSE cleared[k])
  BY DEF Prepared, ClearImage
<1>2. BatchInv'
  BY <1>1 DEF RowsInv, BatchInv
<1>3. AppliedInv'
  <2>1. \A b \in batches : \A t \in b.turns : applied[b.lane][t] # 1
    BY DEF RowsInv, AppliedInv
  <2>2. \A k \in Kinds, t \in Turns : <<"turn", t>> \in image'[k] => applied[k][t] = 1
    BY <1>1 DEF RowsInv, AppliedInv
  <2>3. \A k \in Kinds : \A t \in turns \ done[k] : applied[k][t] # 1
    BY DEF RowsInv, AppliedInv
  <2>4. \A k \in Kinds, t \in Turns : applied[k][t] \in {0, 1} /\ (applied[k][t] = 1 => t <= arrived)
    BY DEF RowsInv, AppliedInv
  <2> QED BY <2>1, <2>2, <2>3, <2>4 DEF AppliedInv
<1>4. NothingLost'
  BY <1>1 DEF RowsInv, NothingLost
<1> QED BY <1>2, <1>3, <1>4 DEF RowsInv

(* ... and cleans the rows up. *)
LEMMA ClearSqlRows ==
  ASSUME TypeOK, RowsInv, Prepared = {}, NEW selected, ClearRows(selected), UNCHANGED <<arrived, image, applied, cleared>>
  PROVE  RowsInv'
<1>1. PlanType
  BY TypeParts
<1>2. Prepared' = {} /\ turns' \subseteq turns /\ batches' \subseteq batches
  BY <1>1, PlansDeleted DEF ClearRows
<1>3. ASSUME NEW k \in Kinds
      PROVE  /\ done'[k] \subseteq turns' /\ turns' \ done'[k] \subseteq turns \ done[k] /\ excused[k] \subseteq excused'[k]
             /\ \A t \in turns \ done[k] : t \in turns' \ done'[k] \/ t \in excused'[k]
  <2> DEFINE marks == [j \in Kinds |-> IF j \in selected THEN done[j] \cup turns ELSE done[j]]
             gone == IF selected = Kinds THEN turns ELSE {t \in turns : \A j \in Kinds : t \in marks[j]}
  <2>1. turns' = turns \ gone /\ done' = [j \in Kinds |-> marks[j] \ gone]
        /\ excused' = [j \in Kinds |-> IF j \in selected THEN excused[j] \cup turns ELSE excused[j]]
    BY DEF ClearRows
  <2>2. done[k] \subseteq turns
    BY DEF RowsInv, BatchInv
  <2>3. marks[k] = (IF k \in selected THEN done[k] \cup turns ELSE done[k])
    OBVIOUS
  <2>4. k \notin selected => \A t \in gone : t \in done[k]
    BY <2>3
  <2> HIDE DEF gone, marks
  <2> QED BY <2>1, <2>2, <2>3, <2>4
<1>4. BatchInv'
  BY <1>2, <1>3 DEF RowsInv, BatchInv
<1>5. AppliedInv'
  <2>1. \A b \in batches : \A t \in b.turns : applied[b.lane][t] # 1
    BY DEF RowsInv, AppliedInv
  <2>2. \A k \in Kinds : \A t \in turns' \ done'[k] : applied[k][t] # 1
    BY <1>3 DEF RowsInv, AppliedInv
  <2>3. \A k \in Kinds, t \in Turns : applied[k][t] \in {0, 1} /\ (applied[k][t] = 1 => t <= arrived)
                                      /\ (<<"turn", t>> \in image[k] => applied[k][t] = 1)
    BY DEF RowsInv, AppliedInv
  <2> QED BY <1>2, <2>1, <2>2, <2>3 DEF AppliedInv
<1>6. NothingLost'
  BY <1>3 DEF RowsInv, NothingLost
<1> QED BY <1>4, <1>5, <1>6 DEF RowsInv

LEMMA EvidenceRows ==
  ASSUME TypeOK, RowsInv, EvidenceControl PROVE RowsInv'
<1>1. UNCHANGED <<turns, arrived, plans, image, applied, cleared>> /\ Prepared' = Prepared
  BY DEF EvidenceControl, Prepared
<1>2. CASE UNCHANGED <<stopped, batches, done, excused>>
  BY <1>1, <1>2, RowsKept
<1>3. ASSUME NEW its, its \subseteq 1..arrived,
             LET using == {b \in batches : b.turns \cap its # {}}
             IN using \cap Prepared = {} /\ batches' = batches \ using,
             done' = [k \in Kinds |-> done[k] \cup (its \cap turns)],
             excused' = [k \in Kinds |-> excused[k] \cup its]
      PROVE  RowsInv'
  <2>1. BatchInv'
    BY <1>1, <1>3 DEF RowsInv, BatchInv
  <2>2. AppliedInv'
    <3>1. batches' \subseteq batches /\ \A k \in Kinds : turns' \ done'[k] \subseteq turns \ done[k]
      BY <1>1, <1>3
    <3> QED BY <1>1, <3>1 DEF RowsInv, AppliedInv
  <2>3. NothingLost'
    BY <1>1, <1>3 DEF RowsInv, NothingLost
  <2> QED BY <2>1, <2>2, <2>3 DEF RowsInv
<1>4. {t \in 1..arrived : Conversation[t] \in conversation} \subseteq 1..arrived
  OBVIOUS
<1> QED BY <1>2, <1>3, <1>4 DEF EvidenceControl
----------------------------------------------------------------------------
(* Nothing is acknowledged but by the holder, where it was applied. *)
LEMMA AnswerAfter ==
  ASSUME CoreInv, AnswerInv, NEW p \in Owners, NEW label, Goto(p, label), label # "acknowledge",
         \/ holder' \in {p, Free}
         \/ p # holder /\ UNCHANGED <<holder, item, plans, image>>
  PROVE  AnswerInv'
<1>1. at \in [Owners -> Labels] /\ holder \in Owners \cup {Free}
  BY DEF CoreInv, TypeOK, ControlType
<1>2. at'[p] = label /\ \A q \in Owners : q # p => at'[q] = at[q]
  BY <1>1 DEF Goto
<1> QED BY <1>1, <1>2 DEF AnswerInv

LEMMA Rests ==
  ASSUME UNCHANGED <<durable, history>>
  PROVE  /\ UNCHANGED <<turns, done, arrived, batches, plans, image, applied, excused, cleared>>
         /\ Prepared' = Prepared
BY DEF durable, sql, history, Prepared

LEMMA PendingWindowOf ==
  ASSUME RowType, NEW k \in Kinds, Cardinality(PendingWindow(k)) >= Threshold
  PROVE  PendingWindow(k) # {} /\ PendingWindow(k) \subseteq (turns \ done[k]) \ StoppedTurns
<1>1. PendingWindow(k) # {}
  <2>1. Threshold >= 1 /\ Threshold \in Nat
    BY CommitAssumption
  <2> QED BY <2>1, FS_EmptySet
<1> QED BY <1>1 DEF PendingWindow, Oldest, Group, Pending

LEMMA LaneOwn ==
  ASSUME CoreInv, TurnInv, NEW k \in Lanes, LaneStart(k) \/ LaneGiveUp(k) \/ Lane(k) PROVE LaneOf(k)'
<1>1. /\ k \in Owners /\ k \in Kinds /\ k # "evidence" /\ TaskType /\ RowType /\ PlanType /\ PlanInv /\ LaneOf(k)
      /\ BatchInv /\ AppliedInv
  BY OwnersApart, TypeParts DEF CoreInv, SpaceInv, TurnInv, LaneInv, RowsInv
<1>2. \A i \in Prepared : i.kind = "maintenance" => i \in batches
  BY <1>1 DEF BatchInv
<1>3. ASSUME Return(k) PROVE LaneOf(k)'
  BY <1>1, <1>3, ReturnAims, LaneReturned
<1>4. CASE LaneStart(k)
  <2>1. aim[k] = "settle" /\ at'[k] = "look" /\ aim' = aim /\ window' = window /\ arrived' = arrived
    BY <1>1, <1>4 DEF LaneStart, Goto, TaskType, LaneOf, task, durable
  <2> QED BY <1>1, <2>1 DEF LaneOf, Carries
<1>5. CASE LaneLook(k)
  <2>1. /\ UNCHANGED <<arrived, batches, plans, applied, turns, done>> /\ Prepared' = Prepared
        /\ aim[k] = "settle" /\ at[k] = "look"
    BY <1>1, <1>5 DEF LaneLook, durable, sql, history, Prepared, LaneOf
  <2>2. ASSUME NEW b \in batches \ Prepared, b.lane = k, window' = [window EXCEPT ![k] = b.turns],
               Goto(k, "read"), UNCHANGED aim
        PROVE  LaneOf(k)'
    <3>1. at'[k] = "read" /\ window'[k] = b.turns /\ aim'[k] = "settle"
      BY <1>1, <2>1, <2>2 DEF Goto, TaskType
    <3>2. b.turns # {} /\ b.turns \subseteq 1..arrived /\ \A c \in batches : c.lane = k => c = b
      BY <1>1, <2>2 DEF BatchInv
    <3>3. \A i \in Prepared : i.kind = "maintenance" => i.lane # k
      BY <1>2, <2>2, <3>2
    <3>4. \A t \in b.turns : applied[k][t] = 0
      <4>1. \A t \in b.turns : t \in Turns
        <5>1. b \in Items /\ b.kind = "maintenance"
          BY <1>1 DEF RowType, PlanInv
        <5> QED BY <5>1 DEF Items
      <4>2. \A t \in b.turns : applied[k][t] # 1
        BY <1>1, <2>2 DEF AppliedInv
      <4>3. \A t \in b.turns : applied[k][t] \in {0, 1}
        BY <1>1, <4>1 DEF AppliedInv
      <4> QED BY <4>2, <4>3
    <3> QED BY <2>1, <3>1, <3>2, <3>3, <3>4 DEF LaneOf, Carries
  <2>3. CASE {b \in batches : b.lane = k} \cap Prepared # {} /\ Queue(k, "settle") /\ UNCHANGED window
    <3>1. at'[k] = "queued" /\ aim'[k] = "settle" /\ window'[k] = window[k]
      BY <1>1, <2>3 DEF Queue, Goto, TaskType
    <3> QED BY <1>1, <2>1, <3>1 DEF LaneOf, Carries
  <2>4. CASE /\ {b \in batches : b.lane = k} = {} /\ Cardinality(PendingWindow(k)) >= Threshold
             /\ window' = [window EXCEPT ![k] = PendingWindow(k)] /\ Goto(k, "generate") /\ UNCHANGED aim
    <3>1. at'[k] = "generate" /\ window'[k] = PendingWindow(k) /\ aim'[k] = "settle"
      BY <1>1, <2>1, <2>4 DEF Goto, TaskType
    <3>2. PendingWindow(k) # {} /\ PendingWindow(k) \subseteq turns \ done[k]
      BY <1>1, <2>4, PendingWindowOf
    <3>3. \A b \in batches : b.lane # k
      BY <2>4
    <3>4. \A i \in Prepared : i.kind = "maintenance" => i.lane # k
      BY <1>2, <3>3
    <3>5. \A t \in PendingWindow(k) : applied[k][t] = 0
      <4>1. \A t \in PendingWindow(k) : applied[k][t] # 1
        BY <1>1, <3>2, <3>4 DEF AppliedInv
      <4>2. \A t \in PendingWindow(k) : applied[k][t] \in {0, 1}
        BY <1>1, <3>2 DEF AppliedInv, RowType
      <4> QED BY <4>1, <4>2
    <3>6. PendingWindow(k) \subseteq 1..arrived
      BY <1>1, <3>2 DEF BatchInv
    <3> QED BY <2>1, <3>1, <3>2, <3>3, <3>4, <3>5, <3>6 DEF LaneOf, Carries
  <2> QED BY <1>5, <2>2, <2>3, <2>4 DEF LaneLook
<1>6. CASE LaneRead(k) \/ LaneValidate(k) \/ LaneGenerate(k)
  <2>1. /\ UNCHANGED <<arrived, batches, plans, applied, window, recovering>> /\ Prepared' = Prepared
    BY <1>6 DEF LaneRead, LaneValidate, LaneGenerate, durable, sql, history, task, Prepared
  <2>2. Carries(k)
    BY <1>6 DEF LaneRead, LaneValidate, LaneGenerate, Carries
  <2>3. at'[k] \in {"queued", "generate", "discard", "stage"}
        /\ (at'[k] \in {"generate", "stage"} => \A b \in batches : b.lane # k)
    <3>1. CASE LaneRead(k)
      <4>1. at[k] = "read" /\ at'[k] \in {"queued", "generate"}
            /\ (at'[k] = "generate" => Batch(k, window[k]) \notin batches)
        BY <1>1, <3>1 DEF LaneRead, Queue, Goto, TaskType
      <4>2. \A b \in batches : b.lane = k => b = Batch(k, window[k])
        BY <1>1, <4>1 DEF LaneOf, RowType, Items, PlanInv, Batch
      <4> QED BY <4>1, <4>2
    <3>2. CASE LaneValidate(k)
      BY <1>1, <3>2 DEF LaneValidate, Queue, Goto, TaskType
    <3>3. CASE LaneGenerate(k)
      BY <1>1, <3>3 DEF LaneGenerate, Goto, TaskType, LaneOf
    <3> QED BY <1>6, <3>1, <3>2, <3>3
  <2> QED BY <1>1, <2>1, <2>2, <2>3 DEF LaneOf
<1>7. CASE LaneDiscard(k) \/ LaneStage(k)
  <2>1. UNCHANGED <<arrived, plans, applied, window, recovering>> /\ Prepared' = Prepared /\ Carries(k)
    BY <1>7 DEF LaneDiscard, LaneStage, history, task, Prepared, Carries
  <2>2. CASE LaneDiscard(k)
    <3>1. /\ at'[k] = "generate" /\ batches' = batches \ {Batch(k, window[k])} /\ Batch(k, window[k]) \in batches
      BY <1>1, <2>2 DEF LaneDiscard, Goto, TaskType
    <3>2. \A b \in batches' : b.lane # k
      BY <1>1, <3>1 DEF BatchInv, Batch
    <3> QED BY <1>1, <2>1, <3>1, <3>2 DEF LaneOf
  <2>3. CASE LaneStage(k)
    <3>1. at'[k] = "queued"
      BY <1>1, <2>3 DEF LaneStage, Queue, Goto, TaskType
    <3> QED BY <1>1, <2>1, <3>1 DEF LaneOf
  <2> QED BY <1>7, <2>2, <2>3
<1>8. CASE LanePlan(k) /\ Goto(k, "prepare") /\ UNCHANGED task
  <2>1. /\ UNCHANGED <<arrived, batches, plans, applied, window, recovering, aim>> /\ Prepared' = Prepared
        /\ Carries(k) /\ at'[k] = "prepare" /\ aim[k] = "commit"
    BY <1>1, <1>8 DEF LanePlan, durable, sql, history, task, Prepared, Carries, Goto, TaskType
  <2> QED BY <1>1, <2>1 DEF LaneOf
<1>9. CASE /\ LanePrepare(k) /\ Goto(k, "apply") /\ UNCHANGED <<holder, recovering, aim, window>>
  <2>1. k = holder /\ UNCHANGED arrived /\ at'[k] = "apply" /\ aim'[k] = aim[k] /\ at[k] = "prepare"
    BY <1>1, <1>9, Whose DEF LanePrepare, Goto, TaskType, Holding
  <2>2. ~recovering'
    BY <1>1, <1>9, <2>1, NothingPending
  <2>3. ~Carries(k)'
    BY <2>1, <2>2 DEF Carries
  <2> QED BY <1>1, <1>9, <2>1, <2>3 DEF LaneOf
<1> QED BY <1>3, <1>4, <1>5, <1>6, <1>7, <1>8, <1>9 DEF LaneGiveUp, Lane, LanePlan, LanePrepare, LaneSettle
LEMMA LaneTurns ==
  ASSUME CoreInv, TurnInv, NEW k \in Lanes, LaneStart(k) \/ LaneGiveUp(k) \/ Lane(k) PROVE TurnInv'
<1>1. /\ k \in Owners /\ k \in Kinds /\ k # "evidence" /\ TypeOK /\ TaskType /\ RowsInv /\ AnswerInv /\ LaneOf(k)
      /\ \A i \in Prepared : i.kind = "maintenance" => i \in batches
  BY OwnersApart, TypeParts DEF CoreInv, SpaceInv, TurnInv, LaneInv, RowsInv, BatchInv
<1>2. LaneOf(k)'
  BY LaneOwn
<1>3. window[k] \in SUBSET Turns
  BY <1>1 DEF TaskType
<1>4. CASE LaneDiscard(k) \/ LaneStage(k)
  <2>1. UNCHANGED <<turns, done, arrived, plans, image, applied, excused, cleared>> /\ Carries(k)
    BY <1>4 DEF LaneDiscard, LaneStage, history, Carries
  <2>2. window[k] # {} /\ window[k] \subseteq 1..arrived /\ \A t \in window[k] : applied[k][t] = 0
    BY <1>1, <2>1 DEF LaneOf
  <2>3. \/ batches' = batches \cup {Batch(k, window[k])} /\ \A b \in batches : b.lane # k
        \/ batches' = batches \ {Batch(k, window[k])} /\ Batch(k, window[k]) \notin Prepared
    BY <1>1, <1>4 DEF LaneDiscard, LaneStage, LaneOf
  <2>4. RowsInv'
    BY <1>1, <1>3, <2>1, <2>2, <2>3, StageRows
  <2>5. PICK label \in {"generate", "queued"} : Goto(k, label)
    BY <1>4 DEF LaneDiscard, LaneStage, Queue
  <2>6. k # holder /\ UNCHANGED <<holder, item, recovering>>
    BY <1>1, <1>4, Whose DEF LaneDiscard, LaneStage, Holding, task
  <2>7. AnswerInv'
    BY <1>1, <2>1, <2>5, <2>6, AnswerAfter
  <2>8. \A q \in Lanes : q # k => aim'[q] = aim[q] /\ window'[q] = window[q]
    BY <1>1, <1>4 DEF LaneDiscard, LaneStage, Queue, TaskType, task
  <2>9. LaneInv'
    <3>1. /\ \A q \in Owners : q # k => at'[q] = at[q]
          /\ \A b \in batches' : b \in batches \/ b.lane = k
      BY <1>1, <2>3, <2>5 DEF Goto, TaskType, Batch
    <3>2. Prepared' = Prepared
      BY <2>1 DEF Prepared
    <3> QED BY <1>1, <1>2, <2>1, <2>6, <2>8, <3>1, <3>2, LanesAfter DEF TurnInv
  <2> QED BY <2>4, <2>7, <2>9 DEF TurnInv
<1>5. CASE LanePrepare(k)
  <2>1. /\ at[k] = "prepare" /\ k = holder /\ UNCHANGED <<turns, done, arrived, batches, image, applied, excused, cleared>>
    BY <1>1, <1>5, Whose DEF LanePrepare, Holding, history
  <2>2. Prepared = {}
    BY <1>1, <2>1, NothingPending
  <2>3. CASE UNCHANGED plans /\ Return(k)
    <3>1. RowsInv' /\ Prepared' = Prepared
      BY <1>1, <2>1, <2>3, RowsKept DEF Prepared
    <3>2. AnswerInv'
      BY <1>1, <2>1, <2>3, AnswerAfter DEF Return
    <3>3. LaneInv'
      BY <1>1, <2>1, <2>3, <3>1, LanesReturn DEF TurnInv
    <3> QED BY <3>1, <3>2, <3>3 DEF TurnInv
  <2>4. CASE /\ Batch(k, window[k]) \in batches /\ plans' = WithPlan(Batch(k, window[k])) /\ Goto(k, "apply")
             /\ UNCHANGED <<holder, recovering, aim, window, modules, conversation>>
    <3>1. Batch(k, window[k]).lane = k /\ Batch(k, window[k]).turns = window[k] /\ Batch(k, window[k]) \in Items
      BY <1>1, <1>3, FactsOf
    <3>2. \A t \in window[k] : applied[k][t] = 0
      BY <1>1, <2>1 DEF LaneOf, Carries
    <3>3. RowsInv' /\ Prepared' = {Batch(k, window[k])}
      BY <1>1, <2>1, <2>2, <2>4, <3>1, <3>2, PrepareRows
    <3>4. AnswerInv'
      BY <1>1, <2>1, <2>4, AnswerAfter
    <3>5. \A q \in Owners : q # k => at'[q] = at[q]
      BY <1>1, <2>4 DEF Goto, TaskType
    <3>6. LaneInv'
      BY <1>1, <1>2, <2>1, <2>4, <3>1, <3>3, <3>5, LanesAfter DEF TurnInv
    <3> QED BY <3>3, <3>4, <3>6 DEF TurnInv
  <2> QED BY <1>5, <2>3, <2>4 DEF LanePrepare
<1>6. CASE LaneStart(k) \/ LaneGiveUp(k) \/ LaneLook(k) \/ LaneRead(k) \/ LaneValidate(k) \/ LaneGenerate(k)
           \/ LanePlan(k) \/ LaneSettle(k)
  <2>1. UNCHANGED <<durable, history>>
    BY <1>6 DEF LaneStart, LaneGiveUp, LaneLook, LaneRead, LaneValidate, LaneGenerate, LanePlan, LaneSettle
  <2>2. RowsInv' /\ Prepared' = Prepared /\ UNCHANGED <<arrived, batches, plans, image, applied>>
    BY <1>1, <2>1, Rests, RowsKept
  <2>3. CASE Return(k)
    <3>1. AnswerInv'
      <4>1. Goto(k, "off") /\ (holder' = Free \/ (k # holder /\ UNCHANGED <<holder, item>>))
        BY <2>3 DEF Return
      <4> QED BY <1>1, <2>2, <4>1, AnswerAfter
    <3>2. LaneInv'
      BY <1>1, <2>2, <2>3, LanesReturn DEF TurnInv
    <3> QED BY <2>2, <3>1, <3>2 DEF TurnInv
  <2>4. CASE LaneValidate(k) \/ (LanePlan(k) /\ Goto(k, "prepare") /\ UNCHANGED task)
             \/ LaneStart(k) \/ LaneLook(k) \/ LaneRead(k) \/ LaneGenerate(k)
    <3>1. PICK label \in {"queued", "discard", "prepare", "look", "read", "generate", "stage"} : Goto(k, label)
      BY <2>4 DEF LaneValidate, LaneStart, LaneLook, LaneRead, LaneGenerate, Queue
    <3>2. UNCHANGED recovering /\ \A q \in Lanes : q # k => aim'[q] = aim[q] /\ window'[q] = window[q]
      BY <1>1, <2>4 DEF LaneValidate, LaneStart, LaneLook, LaneRead, LaneGenerate, Queue, task, TaskType
    <3>3. holder' \in {k, Free} \/ (k # holder /\ UNCHANGED <<holder, item>>)
      <4>1. CASE LaneValidate(k)
        BY <4>1 DEF LaneValidate
      <4>2. CASE LanePlan(k) /\ UNCHANGED task
        BY <1>1, <4>2, Whose DEF LanePlan, Holding, task
      <4>3. CASE LaneStart(k) \/ LaneLook(k) \/ LaneRead(k) \/ LaneGenerate(k)
        BY <1>1, <4>3, Whose DEF LaneStart, LaneLook, LaneRead, LaneGenerate, Holding, task
      <4> QED BY <2>4, <4>1, <4>2, <4>3
    <3>4. AnswerInv'
      BY <1>1, <2>2, <3>1, <3>3, AnswerAfter
    <3>5. \A q \in Owners : q # k => at'[q] = at[q]
      BY <1>1, <3>1 DEF Goto, TaskType
    <3>6. LaneInv'
      BY <1>1, <1>2, <2>2, <3>2, <3>5, LanesAfter DEF TurnInv
    <3> QED BY <2>2, <3>4, <3>6 DEF TurnInv
  <2> QED BY <1>6, <2>3, <2>4 DEF LaneGiveUp, LanePlan, LaneSettle
<1> QED BY <1>4, <1>5, <1>6 DEF Lane
----------------------------------------------------------------------------
(* Steps into the Space and back, that leave the rows as they are. *)
LEMMA TurnsRest ==
  ASSUME CoreInv, TurnInv, NEW p \in Owners, NEW label, Goto(p, label), UNCHANGED <<durable, history, aim>>,
         label \notin {"off", "look", "prepare", "read", "generate", "stage", "discard", "acknowledge"} \/ p \notin Lanes,
         label # "acknowledge", at[p] \notin {"apply", "acknowledge"} \/ recovering,
         \A k \in Lanes : window'[k] = window[k],
         recovering' => recovering \/ holder = Free,
         holder' \in {p, Free} \/ (p # holder /\ UNCHANGED <<holder, item>>)
  PROVE  TurnInv'
<1>1. RowsInv' /\ Prepared' = Prepared /\ UNCHANGED <<arrived, batches, plans, image, applied>>
  BY Rests, RowsKept DEF TurnInv
<1>2. AnswerInv'
  BY <1>1, AnswerAfter DEF TurnInv
<1>3. \A q \in Owners : q # p => at'[q] = at[q]
  BY DEF Goto, CoreInv, TypeOK, ControlType
<1>4. LaneInv'
  <2>1. CASE p \in Lanes
    BY <1>1, <2>1, LanesOn DEF TurnInv
  <2>2. CASE p \notin Lanes
    BY <1>1, <1>3, <2>2, LanesAfter DEF TurnInv
  <2> QED BY <2>1, <2>2
<1> QED BY <1>1, <1>2, <1>4 DEF TurnInv

LEMMA TurnsReturn ==
  ASSUME CoreInv, TurnInv, NEW p \in Owners, Return(p), RowsInv', UNCHANGED <<arrived, image, plans>>, batches' \subseteq batches,
         UNCHANGED applied
  PROVE  TurnInv'
<1>1. Prepared' = Prepared
  BY DEF Prepared
<1>2. AnswerInv'
  <2>1. Goto(p, "off") /\ (holder' = Free \/ (p # holder /\ UNCHANGED <<holder, item>>))
    BY DEF Return
  <2> QED BY <2>1, AnswerAfter DEF TurnInv
<1>3. LaneInv'
  BY <1>1, LanesReturn DEF TurnInv
<1> QED BY <1>2, <1>3 DEF TurnInv

LEMMA TakeTurns ==
  ASSUME CoreInv, TurnInv, NEW p \in Owners,
         Reserve(p) \/ (p \notin Lanes /\ Begin(p)) \/ (p = "clear" /\ \E s \in Clears : ClearStart(s))
  PROVE  TurnInv'
<1>1. Take(p) /\ UNCHANGED <<durable, history, aim, window>> /\ "clear" \notin Lanes
  BY OwnersApart DEF Reserve, Begin, ClearStart
<1>2. PICK label \in {"recover", "held"} : Goto(p, label)
  BY <1>1 DEF Take
<1>3. holder = Free /\ holder' = p
  BY <1>1 DEF Take
<1>4. at[p] \notin {"apply", "acknowledge"}
  BY <1>3, Whose DEF Holding
<1> QED BY <1>1, <1>2, <1>3, <1>4, TurnsRest

LEMMA ReadTurns ==
  ASSUME CoreInv, TurnInv, NEW p \in Owners, ReadDone(p) PROVE TurnInv'
<1>1. RowsInv' /\ UNCHANGED <<arrived, image, plans, batches, applied>>
  BY Rests, RowsKept DEF ReadDone, TurnInv
<1> QED BY <1>1, TurnsReturn DEF ReadDone

LEMMA RecoverTurns == ASSUME CoreInv, TurnInv, NEW p \in Owners, RecoverNext(p) PROVE TurnInv'
<1>1. p = holder /\ recovering
  BY Whose DEF RecoverNext, Holding, CoreInv, SpaceInv, HolderInv
<1>2. PICK label \in {"clear_sql", "apply", "held"} : Goto(p, label)
  BY DEF RecoverNext
<1>3. UNCHANGED <<durable, history, aim, window, holder>>
  BY DEF RecoverNext
<1> QED BY <1>1, <1>2, <1>3, TurnsRest

(* A lane that carries turns has no plan prepared that touches them. *)
LEMMA ApplyLanes ==
  ASSUME CoreInv, TurnInv, NEW i \in Prepared, Applicable(i), ApplyPlan(i),
         UNCHANGED <<turns, done, arrived, batches, plans, excused, cleared>>
  PROVE  RowsInv' /\ \A k \in Lanes : Carries(k) => applied'[k] = applied[k]
<1>1. /\ RowsInv' /\ \A k \in Kinds : k # Target(i) \/ i.kind # "maintenance" => applied'[k] = applied[k]
  BY ApplyRows DEF CoreInv, SpaceInv, PlanInv, TurnInv
<1>2. \A k \in Lanes : Carries(k) /\ i.kind = "maintenance" => Target(i) # k
  BY DEF TurnInv, LaneInv, LaneOf, Target
<1> QED BY <1>1, <1>2, OwnersApart

LEMMA ApplyTurns == ASSUME CoreInv, TurnInv, NEW p \in Owners, Apply(p) PROVE TurnInv'
<1>1. p = holder /\ p # Free /\ at[p] = "apply" /\ at'[p] = "acknowledge"
  BY Whose DEF Apply, Goto, Holding, CoreInv, TypeOK, ControlType
<1>2. PICK i \in Prepared : item = {i}
  BY <1>1 DEF CoreInv, SpaceInv, ItemInv
<1>3. Applicable(i) /\ ApplyPlan(i) /\ UNCHANGED <<turns, done, arrived, batches, plans, excused, cleared, item, holder, recovering, aim, window>>
  BY <1>2 DEF Apply, sql, task
<1>4. RowsInv' /\ \A k \in Lanes : Carries(k) => applied'[k] = applied[k]
  BY <1>3, ApplyLanes
<1>5. AnswerInv'
  <2>1. Target(i) \in Kinds /\ image \in [Kinds -> SUBSET AllFacts]
    BY FactsOf DEF CoreInv, TypeOK, SqlType, ControlType
  <2>2. image'[Target(i)] = plans[i].next
    BY <1>3, <2>1 DEF ApplyPlan
  <2> QED BY <1>2, <1>3, <2>2 DEF AnswerInv
<1>6. LaneInv'
  <2>1. Prepared' = Prepared /\ Goto(p, "acknowledge")
    BY <1>3 DEF Prepared, Apply
  <2> QED BY <1>3, <1>4, <2>1, LanesOn DEF TurnInv
<1> QED BY <1>4, <1>5, <1>6 DEF TurnInv

LEMMA AcknowledgeTurns == ASSUME CoreInv, TurnInv, NEW p \in Owners, Acknowledge(p) PROVE TurnInv'
<1>1. p = holder /\ p # Free /\ at[p] = "acknowledge" /\ TaskType
  BY Whose, TypeParts DEF Acknowledge, Holding, CoreInv
<1>2. PICK i \in item :
       /\ plans' = Only(Prepared \ {i})
       /\ done' = IF i.kind = "maintenance" THEN [done EXCEPT ![i.lane] = @ \cup (i.turns \cap turns)] ELSE done
       /\ batches' = batches \ {i}
  BY DEF Acknowledge
<1>3. i \in Prepared /\ \A j \in Prepared : j = i
  BY <1>1 DEF CoreInv, SpaceInv, ItemInv, PlanInv
<1>4. UNCHANGED <<turns, arrived, image, applied, excused, cleared>>
  BY DEF Acknowledge, history
<1>5. i.kind = "maintenance" => image[i.lane] = plans[i].next
  BY <1>1 DEF TurnInv, AnswerInv, Target
<1>6. RowsInv' /\ Prepared' = {}
  BY <1>2, <1>3, <1>4, <1>5, AcknowledgeRows DEF CoreInv, TurnInv
<1>7. CASE Return(p)
  <2>1. AnswerInv'
    BY <1>1, <1>7, AnswerAfter DEF Return, TurnInv
  <2>2. LaneInv'
    BY <1>2, <1>4, <1>6, <1>7, LanesReturn DEF TurnInv
  <2> QED BY <1>6, <2>1, <2>2 DEF TurnInv
<1>8. ASSUME NEW label \in {"recover", "events"}, Goto(p, label), UNCHANGED <<holder, recovering, aim, window>>,
             recovering \/ p = "lifecycle"
      PROVE  TurnInv'
  <2>1. AnswerInv'
    BY <1>1, <1>8, AnswerAfter DEF TurnInv
  <2>2. LaneInv'
    BY <1>2, <1>4, <1>6, <1>8, OwnersApart, LanesOn DEF TurnInv
  <2> QED BY <1>6, <2>1, <2>2 DEF TurnInv
<1> QED BY <1>7, <1>8 DEF Acknowledge
----------------------------------------------------------------------------
(* A plan that brings no turns: of an event or a review. *)
LEMMA PrepareTurns ==
  ASSUME CoreInv, TurnInv, NEW p \in Owners, p \notin Lanes, p = holder, at[p] \in {"prepare", "events"},
         NEW i \in Items, i.kind # "maintenance", plans' = WithPlan(i), Goto(p, "apply"),
         UNCHANGED <<turns, done, arrived, batches, image, history, holder, recovering, aim>>,
         \A k \in Lanes : window'[k] = window[k]
  PROVE  TurnInv'
<1>1. Prepared = {} /\ UNCHANGED <<applied, excused, cleared>>
  BY NothingPending DEF history
<1>2. RowsInv' /\ Prepared' = {i}
  BY <1>1, PrepareRows DEF CoreInv, TurnInv
<1>3. AnswerInv'
  BY AnswerAfter DEF TurnInv
<1>4. \A q \in Owners : q # p => at'[q] = at[q]
  BY DEF Goto, CoreInv, TypeOK, ControlType
<1>5. LaneInv'
  BY <1>1, <1>2, <1>4, LanesAfter DEF TurnInv
<1> QED BY <1>2, <1>3, <1>5 DEF TurnInv

LEMMA LifecycleTurns == ASSUME CoreInv, TurnInv, LifecycleList \/ LifecyclePrepare PROVE TurnInv'
<1>1. "lifecycle" \in Owners /\ "lifecycle" \notin Lanes /\ "lifecycle" # "evidence" /\ TaskType
  BY OwnersApart, TypeParts DEF CoreInv
<1>2. at["lifecycle"] \in {"held", "events"} /\ "lifecycle" = holder
  BY <1>1, Whose DEF LifecycleList, LifecyclePrepare, Holding
<1>3. CASE LifecycleList
  <2>1. \A k \in Lanes : window'[k] = window[k]
    BY <1>1, <1>3 DEF LifecycleList, TaskType
  <2>2. Goto("lifecycle", "events") /\ UNCHANGED <<durable, history, aim, holder, recovering>>
    BY <1>3 DEF LifecycleList
  <2> QED BY <1>1, <1>2, <2>1, <2>2, TurnsRest
<1>4. CASE LifecyclePrepare
  <2>1. UNCHANGED <<turns, done, arrived, batches, image, history, applied, excused, cleared>> /\ at["lifecycle"] = "events"
    BY <1>4 DEF LifecyclePrepare, history
  <2>2. CASE Return("lifecycle") /\ UNCHANGED plans
    <3>1. RowsInv'
      BY <2>1, <2>2, RowsKept DEF TurnInv
    <3> QED BY <1>1, <2>1, <2>2, <3>1, TurnsReturn
  <2>3. ASSUME NEW t \in window["lifecycle"], plans' = WithPlan(Event(t)), Goto("lifecycle", "apply"),
               window' = [window EXCEPT !["lifecycle"] = @ \ {t}], UNCHANGED <<holder, recovering, aim>>
        PROVE  TurnInv'
    <3>1. Event(t) \in Items /\ Event(t).kind # "maintenance"
      BY <1>1, FactsOf DEF TaskType
    <3>2. \A k \in Lanes : window'[k] = window[k]
      BY <1>1, <2>3 DEF TaskType
    <3> QED BY <1>1, <1>2, <2>1, <2>3, <3>1, <3>2, PrepareTurns
  <2> QED BY <1>4, <2>2, <2>3 DEF LifecyclePrepare
<1> QED BY <1>3, <1>4

LEMMA ReviewTurns ==
  ASSUME CoreInv, TurnInv, ReviewPrepare \/ \E r \in Reviews : ReviewPlan(r) PROVE TurnInv'
<1>1. "review" \in Owners /\ "review" \notin Lanes /\ "review" # "evidence" /\ TaskType
  BY OwnersApart, TypeParts DEF CoreInv
<1>2. /\ at["review"] \in {"held", "prepare"} /\ "review" = holder
      /\ UNCHANGED <<turns, done, arrived, batches, image, history, applied, excused, cleared>>
  BY <1>1, Whose DEF ReviewPlan, ReviewPrepare, Holding, history
<1>3. CASE Return("review") /\ UNCHANGED plans
  <2>1. RowsInv'
    BY <1>2, <1>3, RowsKept DEF TurnInv
  <2> QED BY <1>1, <1>2, <1>3, <2>1, TurnsReturn
<1>4. CASE Goto("review", "prepare") /\ UNCHANGED <<plans, holder, recovering, aim, window>>
  <2>1. RowsInv' /\ Prepared' = Prepared
    BY <1>2, <1>4, RowsKept DEF TurnInv, Prepared
  <2>2. AnswerInv'
    BY <1>1, <1>2, <1>4, AnswerAfter DEF TurnInv
  <2>3. \A q \in Owners : q # "review" => at'[q] = at[q]
    BY <1>1, <1>4 DEF Goto, TaskType
  <2>4. LaneInv'
    BY <1>1, <1>2, <1>4, <2>1, <2>3, LanesAfter DEF TurnInv
  <2> QED BY <2>1, <2>2, <2>4 DEF TurnInv
<1>5. ASSUME at["review"] = "prepare", NEW i \in item, plans' = WithPlan(i), Goto("review", "apply"),
             UNCHANGED <<holder, recovering, aim, window>>
      PROVE  TurnInv'
  <2>1. i \in Items /\ i.kind # "maintenance"
    BY <1>1, <1>2, <1>5, Whose DEF CoreInv, SpaceInv, ItemInv, TaskType
  <2> QED BY <1>1, <1>2, <1>5, <2>1, PrepareTurns
<1> QED BY <1>3, <1>4, <1>5 DEF ReviewPlan, ReviewPrepare

LEMMA ClearTurns ==
  ASSUME CoreInv, TurnInv, NEW p \in Owners, ClearSql(p) \/ ClearAcknowledge(p) \/ (p = "clear" /\ (ClearMark \/ ClearFiles))
  PROVE  TurnInv'
<1>1. p # Free /\ p = holder /\ "clear" \notin Lanes /\ TypeOK /\ RowsInv
  BY Whose, OwnersApart DEF ClearSql, ClearAcknowledge, ClearMark, ClearFiles, Holding, CoreInv, TurnInv
<1>2. CASE p = "clear" /\ ClearMark
  <2>1. /\ at[p] = "held" /\ Goto(p, "clear_files") /\ UNCHANGED <<durable, history, aim, window, holder, recovering>>
    BY <1>2 DEF ClearMark, task
  <2> QED BY <1>1, <1>2, <2>1, TurnsRest
<1>3. CASE p = "clear" /\ ClearFiles
  <2>1. /\ at[p] = "clear_files" /\ Goto(p, "clear_sql") /\ ClearImage
        /\ UNCHANGED <<turns, done, arrived, batches, plans, applied, excused, aim, window, holder, recovering, item>>
    BY <1>3 DEF ClearFiles, sql, task
  <2>2. Prepared = {} /\ Prepared' = Prepared
    BY <1>1, <2>1, NothingPending DEF Prepared
  <2>3. RowsInv'
    BY <1>1, <2>1, <2>2, ClearImageRows
  <2>4. AnswerInv'
    BY <1>1, <2>1, AnswerAfter DEF TurnInv
  <2>5. LaneInv'
    BY <1>1, <1>3, <2>1, <2>2, LanesOn DEF TurnInv
  <2> QED BY <2>3, <2>4, <2>5 DEF TurnInv
<1>4. CASE ClearSql(p)
  <2>1. /\ at[p] = "clear_sql" /\ Goto(p, "clear_acknowledge")
        /\ UNCHANGED <<arrived, image, applied, cleared, aim, window, holder, recovering, item>>
    BY <1>4 DEF ClearSql, task
  <2>2. PICK selected \in intent : ClearRows(selected)
    BY <1>4 DEF ClearSql
  <2>3. Prepared = {} /\ PlanType
    BY <2>2, TypeParts DEF CoreInv, SpaceInv, PlanInv
  <2>4. RowsInv'
    BY <1>1, <2>1, <2>2, <2>3, ClearSqlRows
  <2>5. batches' \subseteq batches /\ Prepared' = {}
    BY <2>2, <2>3, PlansDeleted DEF ClearRows
  <2>6. AnswerInv'
    BY <1>1, <2>1, AnswerAfter DEF TurnInv
  <2>7. LaneInv'
    BY <1>1, <2>1, <2>5, LanesOn DEF TurnInv
  <2> QED BY <2>4, <2>6, <2>7 DEF TurnInv
<1>5. CASE ClearAcknowledge(p)
  <2>1. /\ at[p] = "clear_acknowledge"
        /\ UNCHANGED <<turns, done, arrived, batches, plans, image, applied, excused, cleared>>
    BY <1>5 DEF ClearAcknowledge, sql, history
  <2>2. RowsInv' /\ Prepared' = Prepared
    BY <1>1, <2>1, RowsKept DEF Prepared
  <2>3. CASE Return(p)
    BY <1>1, <2>1, <2>2, <2>3, TurnsReturn
  <2>4. CASE recovering /\ Goto(p, "recover") /\ UNCHANGED task
    <3>1. UNCHANGED <<aim, window, holder, recovering, item>>
      BY <2>4 DEF task
    <3>2. AnswerInv'
      BY <1>1, <2>4, <3>1, AnswerAfter DEF TurnInv
    <3>3. LaneInv'
      BY <1>1, <2>1, <2>2, <2>4, <3>1, LanesOn DEF TurnInv
    <3> QED BY <2>2, <3>2, <3>3 DEF TurnInv
  <2> QED BY <1>5, <2>3, <2>4 DEF ClearAcknowledge
<1> QED BY <1>2, <1>3, <1>4, <1>5

LEMMA EvidenceTurns ==
  ASSUME CoreInv, TurnInv, EvidenceControl \/ \E c \in Conversations : EvidenceStart(c) PROVE TurnInv'
<1>1. "evidence" \in Owners /\ "evidence" \notin Lanes
  BY OwnersApart
<1>2. ASSUME NEW c \in Conversations, EvidenceStart(c) PROVE TurnInv'
  <2>1. "evidence" # holder /\ at["evidence"] = "off"
    BY <1>1, <1>2, Whose DEF EvidenceStart, Holding
  <2>2. PICK label \in {"queued", "held"} : Goto("evidence", label)
    BY <1>2 DEF EvidenceStart
  <2>3. UNCHANGED <<durable, history, holder, recovering, item, aim, window>>
    BY <1>2 DEF EvidenceStart
  <2> QED BY <1>1, <2>1, <2>2, <2>3, TurnsRest
<1>3. CASE EvidenceControl
  <2>1. Return("evidence") /\ UNCHANGED <<arrived, plans, image, applied>> /\ batches' \subseteq batches
    BY <1>3 DEF EvidenceControl
  <2>2. RowsInv'
    BY <1>3, EvidenceRows DEF CoreInv, TurnInv
  <2> QED BY <1>1, <2>1, <2>2, TurnsReturn
<1> QED BY <1>2, <1>3

LEMMA FailTurns == ASSUME CoreInv, TurnInv, NEW p \in Owners, Fail(p) PROVE TurnInv'
<1>1. p = holder /\ p # Free /\ Return(p) /\ UNCHANGED <<turns, done, batches, plans, arrived, excused>> /\ RowsInv /\ TypeOK
  BY Whose DEF Fail, sql, TurnInv, CoreInv
<1>2. Prepared' = Prepared
  BY <1>1 DEF Prepared
<1>3. CASE UNCHANGED <<image, cleared, applied>>
  <2>1. RowsInv'
    BY <1>1, <1>3, RowsKept
  <2> QED BY <1>1, <1>3, <2>1, TurnsReturn
<1>4. AnswerInv'
  BY <1>1 DEF Return, AnswerInv
<1>5. ASSUME at[p] = "apply", NEW i \in item, Applicable(i), ApplyPlan(i), UNCHANGED cleared PROVE TurnInv'
  <2>1. i \in Prepared
    BY <1>1, <1>5 DEF CoreInv, SpaceInv, ItemInv
  <2>2. RowsInv' /\ \A k \in Lanes : Carries(k) => applied'[k] = applied[k]
    BY <1>1, <1>5, <2>1, ApplyLanes
  <2>3. LaneInv'
    BY <1>1, <1>2, <2>2, LanesReturn DEF TurnInv
  <2> QED BY <1>4, <2>2, <2>3 DEF TurnInv
<1>6. CASE at[p] = "clear_files" /\ ClearImage /\ UNCHANGED applied
  <2>1. RowsInv'
    BY <1>1, <1>6, NothingPending, ClearImageRows
  <2>2. LaneInv'
    BY <1>1, <1>2, <1>6, LanesReturn DEF TurnInv
  <2> QED BY <1>4, <2>1, <2>2 DEF TurnInv
<1> QED BY <1>3, <1>5, <1>6 DEF Fail

LEMMA CrashTurns == ASSUME CoreInv, TurnInv, Crash PROVE TurnInv'
<1>1. RowsInv'
  BY Rests, RowsKept DEF Crash, TurnInv
<1>2. AnswerInv'
  BY OwnersApart DEF Crash, AnswerInv
<1>3. LaneInv'
  <2>1. ASSUME NEW k \in Lanes PROVE at'[k] = "off" /\ aim'[k] = "settle" /\ window'[k] = {}
    BY OwnersApart DEF Crash, CoreInv, TypeOK, ControlType
  <2> QED BY <2>1, LaneReturned DEF LaneInv
<1> QED BY <1>1, <1>2, <1>3 DEF TurnInv

LEMMA OutsideTurns ==
  ASSUME CoreInv, TurnInv, RowsInv', UNCHANGED <<control, plans, batches, image, applied>>, arrived' \in Nat, arrived <= arrived'
  PROVE  TurnInv'
<1>1. UNCHANGED <<at, holder, recovering, item, aim, window>> /\ Prepared' = Prepared /\ arrived \in Nat
  BY DEF control, task, Prepared, CoreInv, TypeOK, SqlType
<1>2. AnswerInv'
  BY <1>1 DEF TurnInv, AnswerInv
<1>3. LaneInv'
  BY <1>1, LaneFrame DEF TurnInv, LaneInv, Carries
<1> QED BY <1>2, <1>3 DEF TurnInv

LEMMA TurnNext == ASSUME CoreInv, TurnInv, [Next]_vars PROVE TurnInv'
<1>1. ASSUME NEW k \in Lanes, LaneStart(k) \/ LaneGiveUp(k) \/ Lane(k) PROVE TurnInv'
  BY <1>1, LaneTurns
<1>2. ASSUME NEW p \in Owners, Reserve(p) \/ (p \notin Lanes /\ Begin(p)) \/ (p = "clear" /\ \E s \in Clears : ClearStart(s))
      PROVE  TurnInv'
  BY <1>2, TakeTurns
<1>3. ASSUME NEW off \in Disabled, NEW lifecycle \in BOOLEAN, CompleteResponse(off, lifecycle) PROVE TurnInv'
  <2>1. RowsInv'
    BY <1>3, ResponseRows DEF CoreInv, TurnInv
  <2>2. UNCHANGED <<control, plans, batches, image, applied>> /\ arrived' = arrived + 1 /\ arrived \in Nat
    BY <1>3 DEF CompleteResponse, CoreInv, TypeOK, SqlType
  <2> QED BY <2>1, <2>2, OutsideTurns
<1>4. CASE (\E r \in Reviews : ReviewSubmit(r) \/ ReviewReject(r)) \/ UNCHANGED vars
  <2>1. /\ UNCHANGED <<control, turns, done, arrived, batches, plans, image, applied, excused, cleared>> /\ arrived \in Nat
    BY <1>4 DEF ReviewSubmit, ReviewReject, vars, durable, sql, history, CoreInv, TypeOK, SqlType
  <2>2. RowsInv'
    BY <2>1, RowsKept DEF TurnInv
  <2> QED BY <2>1, <2>2, OutsideTurns
<1>5. CASE Crash \/ \E p \in Owners : Fail(p)
  BY <1>5, CrashTurns, FailTurns
<1>6. CASE \E c \in Conversations : EvidenceStart(c)
  BY <1>6, EvidenceTurns
<1>7. ASSUME NEW p \in Owners, Work(p) PROVE TurnInv'
  BY <1>1, <1>2, <1>7, ReadTurns, RecoverTurns, ApplyTurns, AcknowledgeTurns, ClearTurns, LifecycleTurns, ReviewTurns,
     EvidenceTurns DEF Work
<1> QED BY <1>1, <1>2, <1>3, <1>4, <1>5, <1>6, <1>7, OwnersApart DEF Next
LEMMA TurnInit == ASSUME Init PROVE TurnInv
<1>1. Prepared = {}
  BY DEF Init, Prepared
<1>2. BatchInv /\ AppliedInv /\ NothingLost
  BY <1>1 DEF Init, BatchInv, AppliedInv, NothingLost
<1>3. AnswerInv /\ LaneInv
  <2>1. holder = Free
    BY DEF Init
  <2>2. \A k \in Lanes : at[k] = "off" /\ aim[k] = "settle" /\ window[k] = {}
    BY OwnersApart DEF Init
  <2> QED BY <2>1, <2>2 DEF AnswerInv, LaneInv, LaneOf, Carries
<1> QED BY <1>2, <1>3 DEF TurnInv, RowsInv

LEMMA TurnHolds == Spec => [](CoreInv /\ TurnInv)
<1>1. Init => CoreInv /\ TurnInv
  BY CoreInit, TurnInit
<1>2. CoreInv /\ TurnInv /\ [Next]_vars => (CoreInv /\ TurnInv)'
  BY CoreNext, TurnNext
<1> QED BY <1>1, <1>2, PTL DEF Spec

(* Each completed turn reaches a module once: it is pending, or its facts  *)
(* are in the image, or it was cleared, stopped or disabled; and no batch, *)
(* regenerated, replayed or resumed by whomever, is applied again          *)
(* (maintain_memory_lane, apply_journaled_memory_commit,                   *)
(* complete_maintenance_batch).                                            *)
THEOREM ConsolidatedOnceHolds == Spec => []ConsolidatedOnce
<1>1. ASSUME CoreInv, TurnInv PROVE ConsolidatedOnce
  <2>1. ASSUME NEW k \in Kinds, NEW t \in Turns PROVE applied[k][t] <= 1
    <3>1. applied[k][t] \in {0, 1}
      BY <1>1 DEF TurnInv, RowsInv, AppliedInv
    <3> QED BY <3>1
  <2> QED BY <1>1, <2>1 DEF TurnInv, RowsInv, ConsolidatedOnce, DistilledOnce
<1> QED BY <1>1, TurnHolds, PTL
----------------------------------------------------------------------------
(* Third layer: what was stopped.  Batches are staged by lanes only, and   *)
(* facts come into the image by a prepared plan only.                      *)
LEMMA Staged ==
  ASSUME CoreInv, [Next]_vars
  PROVE  \/ batches' \subseteq batches /\ stopped' = stopped
         \/ EvidenceControl \/ \E k \in Lanes : LaneStage(k)
<1>1. ASSUME NEW k \in Lanes, LaneStart(k) \/ LaneGiveUp(k) \/ Lane(k)
      PROVE  (batches' \subseteq batches /\ stopped' = stopped) \/ LaneStage(k)
  BY <1>1 DEF LaneStart, LaneGiveUp, Lane, LaneLook, LaneRead, LaneValidate, LaneDiscard, LaneGenerate, LanePlan,
              LanePrepare, LaneSettle, durable, sql
<1>2. ASSUME NEW p \in Owners, Work(p)
      PROVE  \/ batches' \subseteq batches /\ stopped' = stopped
             \/ EvidenceControl \/ (p \in Lanes /\ LaneStage(p))
  <2>1. CASE Reserve(p) \/ RecoverNext(p) \/ Apply(p) \/ ClearAcknowledge(p) \/ LifecycleList \/ ClearMark \/ ClearFiles
             \/ ReadDone(p)
    BY <2>1 DEF Reserve, RecoverNext, Apply, ClearAcknowledge, LifecycleList, ClearMark, ClearFiles, ReadDone, durable, sql
  <2>2. CASE LifecyclePrepare \/ ReviewPrepare \/ \E r \in Reviews : ReviewPlan(r)
    BY <2>2 DEF LifecyclePrepare, ReviewPrepare, ReviewPlan
  <2>3. CASE Acknowledge(p) \/ ClearSql(p)
    BY <2>3 DEF Acknowledge, ClearSql, ClearRows
  <2> QED BY <1>1, <1>2, <2>1, <2>2, <2>3 DEF Work
<1>3. CASE \/ \E off \in Disabled, lifecycle \in BOOLEAN : CompleteResponse(off, lifecycle)
           \/ \E r \in Reviews : ReviewSubmit(r) \/ ReviewReject(r)
           \/ \E c \in Conversations : EvidenceStart(c)
           \/ \E selected \in Clears : ClearStart(selected)
           \/ \E p \in Owners : Begin(p) \/ Fail(p)
           \/ Crash \/ UNCHANGED vars
  BY <1>3 DEF CompleteResponse, ReviewSubmit, ReviewReject, EvidenceStart, ClearStart, Begin, Fail, Crash, vars, durable, sql
<1> QED BY <1>1, <1>2, <1>3, OwnersApart DEF Next

LEMMA StopNext == ASSUME CoreInv, TurnInv, StopInv, [Next]_vars PROVE StopInv'
<1>1. \A b \in batches : b.turns \subseteq 1..arrived /\ 1..arrived \subseteq Turns
  <2>1. 1..arrived \subseteq Turns
    BY CommitAssumption DEF Turns, CoreInv, TypeOK, SqlType
  <2> QED BY <2>1 DEF TurnInv, RowsInv, BatchInv
<1>2. CASE batches' \subseteq batches /\ stopped' = stopped
  BY <1>2 DEF StopInv, StoppedTurns
<1>3. ASSUME NEW k \in Lanes, LaneStage(k) PROVE StopInv'
  <2>1. window[k] \cap StoppedTurns = {} /\ stopped' = stopped /\ batches' = batches \cup {Batch(k, window[k])}
    BY <1>3 DEF LaneStage
  <2>2. StoppedTurns' = StoppedTurns /\ Batch(k, window[k]).turns = window[k]
    BY <2>1 DEF StoppedTurns, Batch
  <2> QED BY <2>1, <2>2 DEF StopInv
<1>4. CASE EvidenceControl
  <2>1. CASE UNCHANGED <<stopped, batches>>
    BY <2>1 DEF StopInv, StoppedTurns
  <2>2. CASE /\ stopped' = stopped \cup conversation
             /\ batches' = batches \ {b \in batches : b.turns \cap {t \in 1..arrived : Conversation[t] \in conversation} # {}}
    <3> SUFFICES ASSUME NEW b \in batches', NEW t \in b.turns, t \in StoppedTurns' PROVE FALSE
      BY DEF StopInv
    <3>1. b \in batches /\ t \in 1..arrived /\ Conversation[t] \notin conversation
      BY <1>1, <2>2
    <3>2. t \in StoppedTurns
      BY <2>2, <3>1 DEF StoppedTurns
    <3> QED BY <3>1, <3>2 DEF StopInv
  <2> QED BY <1>4, <2>1, <2>2 DEF EvidenceControl
<1> QED BY <1>2, <1>3, <1>4, Staged

(* How the image changes. *)
LEMMA Brought ==
  ASSUME CoreInv, TurnInv, [Next]_vars
  PROVE  \/ \A k \in Kinds : image'[k] \subseteq image[k]
         \/ \E i \in Prepared : Applicable(i) /\ ApplyPlan(i)
<1>1. ASSUME NEW k \in Lanes, LaneStart(k) \/ LaneGiveUp(k) \/ Lane(k) PROVE image' = image
  BY <1>1 DEF LaneStart, LaneGiveUp, Lane, LaneLook, LaneRead, LaneValidate, LaneDiscard, LaneGenerate, LaneStage, LanePlan,
              LanePrepare, LaneSettle, durable
<1>2. ASSUME NEW p \in Owners, at[p] = "apply", \E i \in item : Applicable(i) /\ ApplyPlan(i)
      PROVE  \E i \in Prepared : Applicable(i) /\ ApplyPlan(i)
  <2>1. p = holder /\ p # Free
    BY <1>2, Whose DEF Holding
  <2> QED BY <1>2, <2>1 DEF CoreInv, SpaceInv, ItemInv
<1>3. ASSUME ClearImage PROVE \A k \in Kinds : image'[k] \subseteq image[k]
  BY <1>3 DEF ClearImage
<1>4. ASSUME NEW p \in Owners, Work(p)
      PROVE  \/ \A k \in Kinds : image'[k] \subseteq image[k]
             \/ \E i \in Prepared : Applicable(i) /\ ApplyPlan(i)
  <2>1. CASE Reserve(p) \/ RecoverNext(p) \/ ClearAcknowledge(p) \/ LifecycleList \/ ClearMark \/ ReadDone(p)
             \/ EvidenceControl
    BY <2>1 DEF Reserve, RecoverNext, ClearAcknowledge, LifecycleList, ClearMark, ReadDone, EvidenceControl, durable
  <2>2. CASE LifecyclePrepare \/ ReviewPrepare \/ (\E r \in Reviews : ReviewPlan(r)) \/ Acknowledge(p) \/ ClearSql(p)
    BY <2>2 DEF LifecyclePrepare, ReviewPrepare, ReviewPlan, Acknowledge, ClearSql
  <2>3. CASE Apply(p)
    BY <1>2, <2>3 DEF Apply
  <2>4. CASE ClearFiles
    BY <1>3, <2>4 DEF ClearFiles
  <2> QED BY <1>1, <1>4, <2>1, <2>2, <2>3, <2>4 DEF Work
<1>5. CASE \/ \E off \in Disabled, lifecycle \in BOOLEAN : CompleteResponse(off, lifecycle)
           \/ \E r \in Reviews : ReviewSubmit(r) \/ ReviewReject(r)
           \/ \E c \in Conversations : EvidenceStart(c)
           \/ \E selected \in Clears : ClearStart(selected)
           \/ \E p \in Owners : Begin(p)
           \/ Crash \/ UNCHANGED vars
  BY <1>5 DEF CompleteResponse, ReviewSubmit, ReviewReject, EvidenceStart, ClearStart, Begin, Crash, vars, durable
<1>6. ASSUME NEW p \in Owners, Fail(p)
      PROVE  \/ \A k \in Kinds : image'[k] \subseteq image[k]
             \/ \E i \in Prepared : Applicable(i) /\ ApplyPlan(i)
  BY <1>2, <1>3, <1>6 DEF Fail
<1> QED BY <1>1, <1>4, <1>5, <1>6, OwnersApart DEF Next

(* What a plan brings. *)
LEMMA PlanBrings ==
  ASSUME CoreInv, TurnInv, NEW i \in Prepared, Applicable(i), ApplyPlan(i), NEW k \in Kinds
  PROVE  image'[k] \subseteq image[k] \cup (IF Target(i) = k THEN Facts(i) ELSE {})
<1>1. Target(i) \in Kinds /\ image \in [Kinds -> SUBSET AllFacts]
  BY FactsOf DEF CoreInv, TypeOK, SqlType, ControlType
<1>2. plans[i].next = plans[i].expected \cup Facts(i) /\ image[Target(i)] \in {plans[i].expected, plans[i].next}
  BY DEF TurnInv, RowsInv, BatchInv, Applicable
<1> QED BY <1>1, <1>2 DEF ApplyPlan

(* Once the evidence of a conversation is stopped or revoked, none of its  *)
(* turns is consolidated, not even by a batch that was staged or generated *)
(* before (control_evidence, stage_maintenance_batch).                     *)
THEOREM StopIsFinalHolds == Spec => StopIsFinal
<1>1. Init => StopInv
  BY DEF Init, StopInv
<1>2. CoreInv /\ TurnInv /\ StopInv /\ [Next]_vars => StopInv'
  BY StopNext
<1>3. ASSUME CoreInv, TurnInv, StopInv, [Next]_vars, NEW k \in Kinds, NEW t \in Turns, <<"turn", t>> \in image'[k] \ image[k]
      PROVE  t \notin StoppedTurns
  <2>1. PICK i \in Prepared : Applicable(i) /\ ApplyPlan(i)
    BY <1>3, Brought
  <2>2. <<"turn", t>> \in Facts(i) /\ i \in Items
    BY <1>3, <2>1, PlanBrings DEF CoreInv, TypeOK, SqlType
  <2>3. i.kind = "maintenance" /\ t \in i.turns
    BY <2>2 DEF Facts, Items
  <2>4. i \in batches
    BY <1>3, <2>3 DEF TurnInv, RowsInv, BatchInv
  <2> QED BY <1>3, <2>3, <2>4 DEF StopInv
<1>4. CoreInv /\ TurnInv /\ StopInv /\ [Next]_vars =>
        [\A k \in Kinds, t \in Turns : <<"turn", t>> \in image'[k] \ image[k] => t \notin StoppedTurns]_vars
  BY <1>3
<1> QED BY <1>1, <1>2, <1>4, TurnHolds, PTL DEF Spec, StopIsFinal
----------------------------------------------------------------------------
(* Fourth layer: what was cleared.  What a step may leave in the rows and  *)
(* in the hands of a lane, as long as the clear is not acknowledged in SQL *)
(* or once it is.                                                          *)
RowsClear ==
  /\ \A k \in Kinds \ overtaken : image'[k] \cap ({"turn", "event"} \X cleared[k]) = {}
  /\ \A k \in Kinds \ overtaken : Swept(k) =>
       /\ (turns' \ done'[k]) \cap cleared[k] = {}
       /\ \A b \in batches' : b.lane = k => b.turns \cap cleared[k] = {}
  /\ Swept("memory") => \A t \in cleared["memory"] : events'[t] # "pending"
  /\ \A t \in Turns : Event(t) \in Prepared' => events'[t] = "pending"

LaneClear(k) ==
  InFlight(k)' => \/ InFlight(k) /\ window'[k] = window[k]
                  \/ k \notin overtaken /\ Swept(k) => window'[k] \cap cleared[k] = {}

Unswept == \A q \in Owners : at'[q] = "clear_acknowledge" => at[q] = "clear_acknowledge"

LEMMA ClearFrame ==
  ASSUME ClearInv, UNCHANGED <<cleared, intent, overtaken>>, arrived \in Nat, arrived' \in Nat, arrived <= arrived',
         Unswept, RowsClear, \A k \in Lanes : LaneClear(k)
  PROVE  ClearInv'
<1>1. \A k \in Kinds : Swept(k)' => Swept(k)
  BY DEF Swept, Unswept
<1>2. Swept("memory")' => Swept("memory")
  BY <1>1 DEF Kinds
<1>3. \A k \in Kinds : cleared'[k] \subseteq 1..arrived'
  BY DEF ClearInv
<1>4. \A k \in Kinds \ overtaken' : image'[k] \cap ({"turn", "event"} \X cleared'[k]) = {}
  BY DEF RowsClear
<1>5. ASSUME NEW k \in Kinds \ overtaken', Swept(k)'
      PROVE  /\ (turns' \ done'[k]) \cap cleared'[k] = {}
             /\ \A b \in batches' : b.lane = k => b.turns \cap cleared'[k] = {}
             /\ k \in Lanes /\ InFlight(k)' => window'[k] \cap cleared'[k] = {}
  <2>1. Swept(k)
    BY <1>1, <1>5
  <2>2. k \in Lanes /\ InFlight(k)' => window'[k] \cap cleared[k] = {}
    BY <1>5, <2>1 DEF ClearInv, LaneClear
  <2> QED BY <1>5, <2>1, <2>2 DEF RowsClear
<1>6. Swept("memory")' => \A t \in cleared'["memory"] : events'[t] # "pending"
  BY <1>2 DEF RowsClear
<1>7. \A t \in Turns : Event(t) \in Prepared' => events'[t] = "pending"
  BY DEF RowsClear
<1> QED BY <1>3, <1>4, <1>5, <1>6, <1>7 DEF ClearInv

LEMMA RowsClearRest ==
  ASSUME ClearInv, UNCHANGED <<turns, done, batches, events, plans, image>> PROVE RowsClear
<1>1. Prepared' = Prepared
  BY DEF Prepared
<1> QED BY <1>1 DEF ClearInv, RowsClear

(* Who goes on, or returns, takes no turns up. *)
LEMMA FlightGoto ==
  ASSUME TypeOK, NEW p \in Owners, NEW label, Goto(p, label), label \notin {"read", "discard", "generate", "stage", "clear_acknowledge"},
         aim' = aim, \A k \in Lanes : window'[k] = window[k]
  PROVE  Unswept /\ \A k \in Lanes : LaneClear(k)
<1>1. at'[p] = label /\ \A q \in Owners : q # p => at'[q] = at[q]
  BY DEF Goto, TypeOK, ControlType
<1> QED BY <1>1, OwnersApart DEF Unswept, LaneClear, InFlight

LEMMA FlightReturn ==
  ASSUME TypeOK, NEW p \in Owners, Return(p) PROVE Unswept /\ \A k \in Lanes : LaneClear(k)
<1>1. /\ at'[p] = "off" /\ (p \in Lanes => aim'[p] = "settle" /\ window'[p] = {})
      /\ \A k \in Lanes : k # p => aim'[k] = aim[k] /\ window'[k] = window[k]
      /\ \A q \in Owners : q # p => at'[q] = at[q]
  BY TypeParts, ReturnAims
<1> QED BY <1>1, OwnersApart DEF Unswept, LaneClear, InFlight

(* Nor does another lane. *)
LEMMA FlightLane ==
  ASSUME NEW k \in Lanes, at'[k] # "clear_acknowledge", \A q \in Owners : q # k => at'[q] = at[q],
         \A q \in Lanes : q # k => aim'[q] = aim[q] /\ window'[q] = window[q], LaneClear(k)
  PROVE  Unswept /\ \A q \in Lanes : LaneClear(q)
BY OwnersApart DEF Unswept, LaneClear, InFlight

(* Nobody brings back what was cleared: while a lane is at work ... *)
LEMMA LaneClears ==
  ASSUME CoreInv, TurnInv, ClearInv, NEW k \in Lanes, LaneStart(k) \/ LaneGiveUp(k) \/ Lane(k) PROVE ClearInv'
<1>1. /\ k \in Owners /\ k \in Kinds /\ k # "evidence" /\ TypeOK /\ TaskType /\ RowType /\ PlanType /\ ImageType /\ arrived \in Nat
      /\ \A i \in Prepared : i.kind = "maintenance" => i \in batches
  BY OwnersApart, TypeParts DEF CoreInv, TurnInv, RowsInv, BatchInv, TypeOK, SqlType
<1>2. UNCHANGED <<cleared, intent, overtaken, arrived, events, image, turns, done>>
  BY DEF LaneStart, LaneGiveUp, Lane, LaneLook, LaneRead, LaneValidate, LaneDiscard, LaneGenerate, LaneStage, LanePlan,
         LanePrepare, LaneSettle, durable, sql, history
<1>3. RowsClear
  <2>1. CASE UNCHANGED <<batches, plans>>
    BY <1>2, <2>1, RowsClearRest
  <2>2. CASE LaneDiscard(k)
    <3>1. batches' \subseteq batches /\ Prepared' = Prepared
      BY <2>2 DEF LaneDiscard, Prepared
    <3> QED BY <1>2, <3>1 DEF RowsClear, ClearInv
  <2>3. CASE LaneStage(k)
    <3>1. batches' = batches \cup {Batch(k, window[k])} /\ Prepared' = Prepared /\ InFlight(k)
      BY <2>3 DEF LaneStage, Prepared, InFlight
    <3>2. k \notin overtaken /\ Swept(k) => Batch(k, window[k]).turns \cap cleared[k] = {}
      BY <1>1, <3>1 DEF ClearInv, Batch
    <3>3. Batch(k, window[k]).lane = k
      BY DEF Batch
    <3> QED BY <1>2, <3>1, <3>2, <3>3 DEF RowsClear, ClearInv
  <2>4. CASE plans' = WithPlan(Batch(k, window[k])) /\ UNCHANGED batches
    <3>1. Batch(k, window[k]) \in Items /\ \A t \in Turns : Batch(k, window[k]) # Event(t)
      <4>1. Batch(k, window[k]) \in Items /\ Batch(k, window[k]).kind = "maintenance"
        BY <1>1, FactsOf DEF TaskType
      <4>2. \A t \in Turns : Event(t).kind = "lifecycle"
        BY FactsOf
      <4> QED BY <4>1, <4>2
    <3>2. Prepared' = Prepared \cup {Batch(k, window[k])}
      BY <1>1, <2>4, <3>1, PlanAdded
    <3> QED BY <1>2, <2>4, <3>1, <3>2 DEF RowsClear, ClearInv
  <2>5. LanePrepare(k) => UNCHANGED batches /\ (UNCHANGED plans \/ plans' = WithPlan(Batch(k, window[k])))
    BY DEF LanePrepare
  <2> QED BY <2>1, <2>2, <2>3, <2>4, <2>5 DEF LaneStart, LaneGiveUp, Lane, LaneLook, LaneRead, LaneValidate, LaneGenerate,
             LanePlan, LaneSettle, durable, sql
<1>4. Unswept /\ \A q \in Lanes : LaneClear(q)
  <2>1. CASE Return(k)
    BY <1>1, <2>1, FlightReturn
  <2>2. CASE LaneStart(k) \/ (LanePlan(k) /\ Goto(k, "prepare") /\ UNCHANGED task)
             \/ (LanePrepare(k) /\ Goto(k, "apply") /\ UNCHANGED <<aim, window>>)
    <3>1. PICK label \in {"look", "prepare", "apply"} : Goto(k, label)
      BY <2>2 DEF LaneStart
    <3>2. UNCHANGED <<aim, window>>
      BY <2>2 DEF LaneStart, task
    <3> QED BY <1>1, <3>1, <3>2, FlightGoto
  <2>3. CASE LaneLook(k) \/ LaneRead(k) \/ LaneValidate(k) \/ LaneDiscard(k) \/ LaneGenerate(k) \/ LaneStage(k)
    <3>1. PICK label \in {"queued", "read", "generate", "discard", "stage"} : Goto(k, label)
      BY <2>3 DEF LaneLook, LaneRead, LaneValidate, LaneDiscard, LaneGenerate, LaneStage, Queue
    <3>2. at'[k] = label /\ \A q \in Owners : q # k => at'[q] = at[q]
      BY <1>1, <3>1 DEF Goto, TaskType
    <3>3. \A q \in Lanes : q # k => aim'[q] = aim[q] /\ window'[q] = window[q]
      BY <1>1, <2>3 DEF LaneLook, LaneRead, LaneValidate, LaneDiscard, LaneGenerate, LaneStage, Queue, TaskType, task
    <3>4. LaneClear(k)
      <4>1. CASE LaneRead(k) \/ LaneValidate(k) \/ LaneDiscard(k) \/ LaneGenerate(k)
        BY <4>1 DEF LaneRead, LaneValidate, LaneDiscard, LaneGenerate, LaneClear, InFlight, task
      <4>2. CASE LaneStage(k)
        <5>1. aim'[k] = "commit" /\ at'[k] = "queued"
          BY <1>1, <4>2 DEF LaneStage, Queue, Goto, TaskType
        <5> QED BY <5>1 DEF LaneClear, InFlight
      <4>3. CASE LaneLook(k) /\ Queue(k, "settle")
        <5>1. aim'[k] = "settle" /\ at'[k] = "queued"
          BY <1>1, <4>3 DEF Queue, Goto, TaskType
        <5> QED BY <5>1 DEF LaneClear, InFlight
      <4>4. ASSUME NEW b \in batches, b.lane = k, window' = [window EXCEPT ![k] = b.turns] PROVE LaneClear(k)
        <5>1. window'[k] = b.turns
          BY <1>1, <4>4 DEF TaskType
        <5> QED BY <1>1, <4>4, <5>1 DEF LaneClear, ClearInv
      <4>5. CASE Cardinality(PendingWindow(k)) >= Threshold /\ window' = [window EXCEPT ![k] = PendingWindow(k)]
        <5>1. window'[k] = PendingWindow(k) /\ PendingWindow(k) \subseteq turns \ done[k]
          BY <1>1, <4>5, PendingWindowOf DEF TaskType
        <5> QED BY <1>1, <5>1 DEF LaneClear, ClearInv
      <4> QED BY <2>3, <4>1, <4>2, <4>3, <4>4, <4>5 DEF LaneLook
    <3> QED BY <3>2, <3>3, <3>4, FlightLane
  <2> QED BY <2>1, <2>2, <2>3 DEF LaneGiveUp, Lane, LanePlan, LanePrepare, LaneSettle
<1> QED BY <1>1, <1>2, <1>3, <1>4, ClearFrame
(* ... or the Space is entered, left, recovered or planned for, ... *)
LEMMA RestClears ==
  ASSUME CoreInv, ClearInv, NEW p \in Owners, UNCHANGED <<durable, history>>,
         \/ Return(p)
         \/ /\ \E label \in {"recover", "held", "apply", "events", "prepare", "queued", "clear_sql", "clear_files"} : Goto(p, label)
            /\ aim' = aim /\ \A k \in Lanes : window'[k] = window[k]
  PROVE  ClearInv'
<1>1. Unswept /\ \A k \in Lanes : LaneClear(k)
  BY FlightGoto, FlightReturn DEF CoreInv
<1>2. UNCHANGED <<turns, done, batches, events, plans, image, cleared, intent, overtaken, arrived>> /\ arrived \in Nat
  BY DEF durable, sql, history, CoreInv, TypeOK, SqlType
<1>3. RowsClear
  BY <1>2, RowsClearRest
<1> QED BY <1>1, <1>2, <1>3, ClearFrame

LEMMA EntryClears ==
  ASSUME CoreInv, ClearInv, NEW p \in Owners,
         \/ Reserve(p) \/ Begin(p) \/ ReadDone(p) \/ RecoverNext(p)
         \/ p = "clear" /\ (ClearMark \/ \E s \in Clears : ClearStart(s))
         \/ p = "evidence" /\ \E c \in Conversations : EvidenceStart(c)
         \/ p = "lifecycle" /\ LifecycleList
  PROVE  ClearInv'
<1>1. UNCHANGED <<durable, history>>
  BY DEF Reserve, Begin, ReadDone, RecoverNext, ClearMark, ClearStart, EvidenceStart, LifecycleList
<1>2. CASE ReadDone(p)
  BY <1>1, <1>2, RestClears DEF ReadDone
<1>3. CASE Reserve(p) \/ Begin(p) \/ (p = "clear" /\ \E s \in Clears : ClearStart(s))
  <2>1. UNCHANGED <<aim, window>> /\ Take(p)
    BY <1>3 DEF Reserve, Begin, ClearStart
  <2> QED BY <1>1, <2>1, RestClears DEF Take
<1>4. CASE RecoverNext(p)
  BY <1>1, <1>4, RestClears DEF RecoverNext
<1>5. CASE (p = "clear" /\ ClearMark) \/ (p = "evidence" /\ \E c \in Conversations : EvidenceStart(c))
  BY <1>1, <1>5, RestClears DEF ClearMark, EvidenceStart, task
<1>6. CASE p = "lifecycle" /\ LifecycleList
  <2>1. \A k \in Lanes : window'[k] = window[k]
    BY <1>6, OwnersApart DEF LifecycleList, CoreInv, TypeOK, ControlType
  <2> QED BY <1>1, <1>6, <2>1, RestClears DEF LifecycleList
<1> QED BY <1>2, <1>3, <1>4, <1>5, <1>6

LEMMA PlanClears ==
  ASSUME CoreInv, ClearInv, LifecyclePrepare \/ ReviewPrepare \/ \E r \in Reviews : ReviewPlan(r) PROVE ClearInv'
<1>1. /\ UNCHANGED <<turns, done, batches, events, image, cleared, intent, overtaken, arrived>> /\ arrived \in Nat
      /\ TypeOK /\ TaskType /\ PlanType /\ ImageType /\ "lifecycle" \in Owners /\ "review" \in Owners
  BY OwnersApart, TypeParts DEF LifecyclePrepare, ReviewPrepare, ReviewPlan, history, CoreInv, TypeOK, SqlType
<1>2. Unswept /\ \A k \in Lanes : LaneClear(k)
  <2>1. CASE Return("lifecycle") \/ Return("review")
    BY <1>1, <2>1, FlightReturn
  <2>2. CASE Goto("review", "prepare") /\ UNCHANGED <<aim, window>>
    BY <1>1, <2>2, FlightGoto
  <2>3. CASE Goto("review", "apply") /\ UNCHANGED <<aim, window>>
    BY <1>1, <2>3, FlightGoto
  <2>4. ASSUME NEW t, window' = [window EXCEPT !["lifecycle"] = @ \ {t}], Goto("lifecycle", "apply"), UNCHANGED aim
        PROVE  Unswept /\ \A k \in Lanes : LaneClear(k)
    <3>1. \A k \in Lanes : window'[k] = window[k]
      BY <1>1, <2>4, OwnersApart DEF TaskType
    <3> QED BY <1>1, <2>4, <3>1, FlightGoto
  <2> QED BY <2>1, <2>2, <2>3, <2>4 DEF LifecyclePrepare, ReviewPrepare, ReviewPlan
<1>3. RowsClear
  <2>1. CASE UNCHANGED plans
    BY <1>1, <2>1, RowsClearRest
  <2>2. ASSUME NEW i \in Items, plans' = WithPlan(i), \A t \in Turns : i = Event(t) => events[t] = "pending" PROVE RowsClear
    <3>1. Prepared' = Prepared \cup {i}
      BY <1>1, <2>2, PlanAdded
    <3> QED BY <1>1, <2>2, <3>1 DEF RowsClear, ClearInv
  <2>3. CASE LifecyclePrepare
    <3>1. ASSUME NEW t \in window["lifecycle"], events[t] = "pending", plans' = WithPlan(Event(t)) PROVE RowsClear
      <4>1. Event(t) \in Items /\ \A u \in Turns : Event(t) = Event(u) => t = u
        BY <1>1, FactsOf DEF TaskType
      <4> QED BY <2>2, <3>1, <4>1
    <3> QED BY <2>1, <2>3, <3>1 DEF LifecyclePrepare
  <2>4. CASE ReviewPrepare
    <3>1. ASSUME NEW i \in item, plans' = WithPlan(i) PROVE RowsClear
      <4>1. at["review"] = "prepare" /\ "review" = holder /\ i \in Items
        BY <1>1, <2>4, Whose DEF ReviewPrepare, Holding, TaskType
      <4>2. i.kind = "review" /\ \A t \in Turns : Event(t).kind = "lifecycle"
        BY <1>1, <4>1, Whose, FactsOf DEF CoreInv, SpaceInv, ItemInv
      <4> QED BY <2>2, <3>1, <4>1, <4>2
    <3> QED BY <2>1, <2>4, <3>1 DEF ReviewPrepare
  <2>5. (\E r \in Reviews : ReviewPlan(r)) => UNCHANGED plans
    BY DEF ReviewPlan
  <2> QED BY <2>1, <2>3, <2>4, <2>5
<1> QED BY <1>1, <1>2, <1>3, ClearFrame

(* ... or a plan is applied: no batch and no pending event has what was    *)
(* cleared, unless the clear has not yet come to the rows, ...             *)
LEMMA ApplyClear ==
  ASSUME CoreInv, TurnInv, ClearInv, NEW i \in Prepared, Applicable(i), ApplyPlan(i),
         UNCHANGED <<turns, done, batches, events, plans>>
  PROVE  RowsClear
<1>1. i \in Items /\ Prepared' = Prepared
  BY DEF Prepared, CoreInv, TypeOK, SqlType
<1>2. intent = {} /\ \A k \in Kinds : Swept(k)
  BY DEF CoreInv, SpaceInv, PlanInv, Swept
<1>3. ASSUME NEW k \in Kinds \ overtaken, Target(i) = k PROVE Facts(i) \cap ({"turn", "event"} \X cleared[k]) = {}
  <2>1. CASE i.kind = "maintenance"
    <3>1. i \in batches /\ i.lane = k
      BY <1>3, <2>1 DEF Target, TurnInv, RowsInv, BatchInv
    <3>2. i.turns \cap cleared[k] = {}
      BY <1>2, <3>1 DEF ClearInv
    <3> QED BY <2>1, <3>2 DEF Facts
  <2>2. CASE i.kind = "lifecycle"
    <3>1. k = "memory" /\ i.turn \in Turns /\ i = Event(i.turn)
      BY <1>1, <1>3, <2>2 DEF Target, Items, Event
    <3>2. events[i.turn] = "pending"
      BY <3>1 DEF ClearInv
    <3>3. i.turn \notin cleared["memory"]
      BY <1>2, <3>1, <3>2 DEF ClearInv
    <3> QED BY <2>2, <3>1, <3>3 DEF Facts
  <2>3. CASE i.kind = "review"
    BY <2>3 DEF Facts
  <2> QED BY <1>1, <2>1, <2>2, <2>3 DEF Items
<1>4. \A k \in Kinds \ overtaken : image'[k] \cap ({"turn", "event"} \X cleared[k]) = {}
  <2> SUFFICES ASSUME NEW k \in Kinds \ overtaken PROVE image'[k] \cap ({"turn", "event"} \X cleared[k]) = {}
    OBVIOUS
  <2>1. image'[k] \subseteq image[k] \cup (IF Target(i) = k THEN Facts(i) ELSE {})
    BY PlanBrings
  <2>2. image[k] \cap ({"turn", "event"} \X cleared[k]) = {}
    BY DEF ClearInv
  <2> QED BY <1>3, <2>1, <2>2
<1> QED BY <1>1, <1>4 DEF RowsClear, ClearInv

LEMMA ApplyClears == ASSUME CoreInv, TurnInv, ClearInv, NEW p \in Owners, Apply(p) PROVE ClearInv'
<1>1. p = holder /\ p # Free /\ at[p] = "apply"
  BY Whose DEF Apply, Holding
<1>2. PICK i \in Prepared : item = {i}
  BY <1>1 DEF CoreInv, SpaceInv, ItemInv
<1>3. /\ Applicable(i) /\ ApplyPlan(i) /\ Goto(p, "acknowledge") /\ arrived \in Nat
      /\ UNCHANGED <<turns, done, batches, events, plans, cleared, intent, overtaken, arrived, aim, window>>
  BY <1>2 DEF Apply, sql, task, CoreInv, TypeOK, SqlType
<1>4. RowsClear
  BY <1>3, ApplyClear
<1>5. Unswept /\ \A k \in Lanes : LaneClear(k)
  BY <1>3, FlightGoto DEF CoreInv
<1> QED BY <1>3, <1>4, <1>5, ClearFrame

(* ... and acknowledged, or evidence is taken away. *)
LEMMA AcknowledgeClears == ASSUME CoreInv, ClearInv, NEW p \in Owners, Acknowledge(p) PROVE ClearInv'
<1>1. p = holder /\ p # Free /\ at[p] = "acknowledge" /\ PlanType /\ RowType /\ arrived \in Nat
  BY Whose, TypeParts DEF Acknowledge, Holding, CoreInv, TypeOK, SqlType
<1>2. PICK i \in item :
       /\ plans' = Only(Prepared \ {i})
       /\ events' = IF i.kind = "lifecycle" THEN [events EXCEPT ![i.turn] = "completed"] ELSE events
       /\ done' = IF i.kind = "maintenance" THEN [done EXCEPT ![i.lane] = @ \cup (i.turns \cap turns)] ELSE done
       /\ batches' = batches \ {i}
  BY DEF Acknowledge
<1>3. i \in Prepared /\ \A j \in Prepared : j = i
  BY <1>1 DEF CoreInv, SpaceInv, ItemInv, PlanInv
<1>4. Prepared' = {} /\ UNCHANGED <<turns, image, cleared, intent, overtaken, arrived>>
  <2>1. Prepared' = {}
    BY <1>1, <1>2, <1>3, PlansDeleted
  <2> QED BY <2>1 DEF Acknowledge, history
<1>5. \A k \in Kinds : turns' \ done'[k] \subseteq turns \ done[k]
  BY <1>1, <1>2, <1>4 DEF RowType
<1>6. \A t \in Turns : events'[t] = "pending" => events[t] = "pending"
  BY <1>1, <1>2 DEF RowType
<1>7. RowsClear
  <2>1. \A t \in cleared["memory"] : t \in Turns
    BY DEF CoreInv, TypeOK, ControlType, Kinds
  <2>2. Swept("memory") => \A t \in cleared["memory"] : events'[t] # "pending"
    BY <1>6, <2>1 DEF ClearInv
  <2> QED BY <1>2, <1>4, <1>5, <2>2 DEF RowsClear, ClearInv
<1>8. Unswept /\ \A k \in Lanes : LaneClear(k)
  <2>1. CASE Return(p)
    BY <2>1, FlightReturn DEF CoreInv
  <2>2. ASSUME NEW label \in {"recover", "events"}, Goto(p, label), UNCHANGED <<aim, window>>
        PROVE  Unswept /\ \A k \in Lanes : LaneClear(k)
    BY <2>2, FlightGoto DEF CoreInv
  <2> QED BY <2>1, <2>2 DEF Acknowledge
<1> QED BY <1>1, <1>4, <1>7, <1>8, ClearFrame

LEMMA EvidenceClears == ASSUME CoreInv, ClearInv, EvidenceControl PROVE ClearInv'
<1>1. /\ UNCHANGED <<turns, events, plans, image, cleared, intent, overtaken, arrived>> /\ Return("evidence")
      /\ Prepared' = Prepared /\ arrived \in Nat /\ TypeOK /\ "evidence" \in Owners
  BY OwnersApart DEF EvidenceControl, Prepared, CoreInv, TypeOK, SqlType
<1>2. batches' \subseteq batches /\ \A k \in Kinds : done[k] \subseteq done'[k]
  BY DEF EvidenceControl
<1>3. RowsClear
  BY <1>1, <1>2 DEF RowsClear, ClearInv
<1>4. Unswept /\ \A k \in Lanes : LaneClear(k)
  BY <1>1, FlightReturn
<1> QED BY <1>1, <1>3, <1>4, ClearFrame
(* A clear of the image takes what had arrived, ... *)
LEMMA ImageClears ==
  ASSUME CoreInv, ClearInv, intent = {}, Prepared = {}, ClearImage,
         UNCHANGED <<turns, done, batches, events, plans, overtaken, arrived>>,
         \A q \in Owners : at'[q] # "clear_acknowledge", \A k \in Lanes : LaneClear(k)
  PROVE  ClearInv'
<1>1. /\ arrived \in Nat /\ intent' = {modules} /\ Prepared' = {} /\ \A k \in Kinds : Swept(k)
      /\ \A k \in Kinds : image'[k] = (IF k \in modules THEN {} ELSE image[k])
      /\ \A k \in Kinds : cleared'[k] = (IF k \in modules THEN 1..arrived ELSE cleared[k])
  BY DEF ClearImage, Swept, Prepared, CoreInv, TypeOK, SqlType
<1>2. \A k \in Kinds : Swept(k)' => k \notin modules
  BY <1>1 DEF Swept
<1>3. "memory" \in Kinds
  BY DEF Kinds
<1>4. \A k \in Kinds : cleared'[k] \subseteq 1..arrived'
  BY <1>1 DEF ClearInv
<1>5. \A k \in Kinds \ overtaken' : image'[k] \cap ({"turn", "event"} \X cleared'[k]) = {}
  BY <1>1 DEF ClearInv
<1>6. ASSUME NEW k \in Kinds \ overtaken', Swept(k)'
      PROVE  /\ (turns' \ done'[k]) \cap cleared'[k] = {}
             /\ \A b \in batches' : b.lane = k => b.turns \cap cleared'[k] = {}
             /\ k \in Lanes /\ InFlight(k)' => window'[k] \cap cleared'[k] = {}
  <2>1. cleared'[k] = cleared[k] /\ Swept(k)
    BY <1>1, <1>2, <1>6
  <2>2. k \in Lanes /\ InFlight(k)' => window'[k] \cap cleared[k] = {}
    BY <1>6, <2>1 DEF LaneClear, ClearInv
  <2> QED BY <1>6, <2>1, <2>2 DEF ClearInv
<1>7. Swept("memory")' => \A t \in cleared'["memory"] : events'[t] # "pending"
  BY <1>1, <1>2, <1>3 DEF ClearInv
<1>8. \A t \in Turns : Event(t) \in Prepared' => events'[t] = "pending"
  BY <1>1
<1> QED BY <1>4, <1>5, <1>6, <1>7, <1>8 DEF ClearInv

(* ... and then the rows of the same modules; who is in flight with turns  *)
(* it has read is overtaken, ...                                           *)
LEMMA SqlClears == ASSUME CoreInv, TurnInv, ClearInv, NEW p \in Owners, ClearSql(p) PROVE ClearInv'
<1>1. /\ p = holder /\ p # Free /\ at[p] = "clear_sql" /\ TypeOK /\ TaskType /\ PlanType
      /\ Goto(p, "clear_acknowledge") /\ UNCHANGED <<arrived, image, intent, cleared, aim, window>>
  BY Whose, TypeParts DEF ClearSql, Holding, CoreInv, task
<1>2. PICK selected \in intent : ClearRows(selected) /\ overtaken' = overtaken \cup {k \in selected \cap Lanes : InFlight(k)}
  BY DEF ClearSql
<1>3. (\A s \in intent : s = selected) /\ Prepared = {}
  BY <1>2 DEF CoreInv, SpaceInv, PlanInv
<1>4. Prepared' = {} /\ batches' = {b \in batches : b.lane \notin selected}
  BY <1>1, <1>2, <1>3, PlansDeleted DEF ClearRows
<1>5. \A k \in Kinds : k \notin selected => Swept(k)
  BY <1>3 DEF Swept
<1>6. ASSUME NEW k \in Kinds
      PROVE  turns' \ done'[k] \subseteq turns \ done[k] /\ (k \in selected => turns' \ done'[k] = {})
  <2> DEFINE marks == [j \in Kinds |-> IF j \in selected THEN done[j] \cup turns ELSE done[j]]
             gone == IF selected = Kinds THEN turns ELSE {t \in turns : \A j \in Kinds : t \in marks[j]}
  <2>1. turns' = turns \ gone /\ done' = [j \in Kinds |-> marks[j] \ gone]
    BY <1>2 DEF ClearRows
  <2>2. marks[k] = (IF k \in selected THEN done[k] \cup turns ELSE done[k])
    OBVIOUS
  <2> HIDE DEF gone, marks
  <2> QED BY <2>1, <2>2
<1>7. \A k \in Lanes : InFlight(k)' => InFlight(k)
  BY <1>1 DEF InFlight, Goto, TaskType
<1>8. ASSUME NEW k \in Kinds \ overtaken'
      PROVE  /\ (turns' \ done'[k]) \cap cleared'[k] = {}
             /\ \A b \in batches' : b.lane = k => b.turns \cap cleared'[k] = {}
             /\ k \in Lanes /\ InFlight(k)' => window'[k] \cap cleared'[k] = {}
  <2>1. CASE k \in selected
    BY <1>2, <1>4, <1>6, <1>7, <1>8, <2>1
  <2>2. CASE k \notin selected
    BY <1>1, <1>2, <1>4, <1>5, <1>6, <1>7, <1>8, <2>2 DEF ClearInv
  <2> QED BY <2>1, <2>2
<1>9. \A t \in cleared'["memory"] : events'[t] # "pending"
  <2>1. "memory" \in Kinds /\ \A t \in cleared["memory"] : t \in Turns
    BY DEF Kinds, CoreInv, TypeOK, ControlType
  <2>2. CASE "memory" \in selected
    BY <1>1, <1>2, <2>1, <2>2 DEF ClearRows
  <2>3. CASE "memory" \notin selected
    BY <1>1, <1>2, <1>5, <2>1, <2>3 DEF ClearRows, ClearInv
  <2> QED BY <2>2, <2>3
<1>10. \A k \in Kinds : cleared'[k] \subseteq 1..arrived'
  BY <1>1 DEF ClearInv
<1>11. \A k \in Kinds \ overtaken' : image'[k] \cap ({"turn", "event"} \X cleared'[k]) = {}
  BY <1>1, <1>2 DEF ClearInv
<1> QED BY <1>4, <1>8, <1>9, <1>10, <1>11 DEF ClearInv

(* ... until the clear is acknowledged. *)
LEMMA ClearClears ==
  ASSUME CoreInv, TurnInv, ClearInv, NEW p \in Owners, ClearAcknowledge(p) \/ (p = "clear" /\ ClearFiles) PROVE ClearInv'
<1>1. p = holder /\ p # Free /\ TypeOK /\ arrived \in Nat
  BY Whose DEF ClearAcknowledge, ClearFiles, Holding, CoreInv, TypeOK, SqlType
<1>2. CASE p = "clear" /\ ClearFiles
  <2>1. /\ at[p] = "clear_files" /\ Goto(p, "clear_sql") /\ ClearImage
        /\ UNCHANGED <<turns, done, batches, events, plans, overtaken, arrived, aim, window>>
    BY <1>2 DEF ClearFiles, sql, task
  <2>2. Unswept /\ \A k \in Lanes : LaneClear(k)
    BY <1>1, <2>1, FlightGoto
  <2>3. \A q \in Owners : at[q] # "clear_acknowledge"
    BY <1>1, <2>1, Whose DEF Holding
  <2> QED BY <1>1, <2>1, <2>2, <2>3, NothingPending, ImageClears DEF Unswept
<1>3. CASE ClearAcknowledge(p)
  <2>1. /\ at[p] = "clear_acknowledge" /\ UNCHANGED <<turns, done, batches, events, plans, image, cleared, overtaken, arrived>>
        /\ Prepared' = Prepared
    BY <1>3 DEF ClearAcknowledge, sql, history, Prepared
  <2>2. \A k : Swept(k)
    BY <2>1 DEF Swept
  <2>3. \A k \in Lanes : LaneClear(k)
    <3>1. CASE Return(p)
      BY <1>1, <3>1, FlightReturn
    <3>2. CASE Goto(p, "recover") /\ UNCHANGED <<aim, window>>
      BY <1>1, <3>2, FlightGoto
    <3> QED BY <1>3, <3>1, <3>2 DEF ClearAcknowledge, task
  <2>4. ASSUME NEW k \in Kinds \ overtaken, k \in Lanes, InFlight(k)' PROVE window'[k] \cap cleared[k] = {}
    BY <2>2, <2>3, <2>4 DEF LaneClear, ClearInv
  <2> QED BY <2>1, <2>2, <2>4 DEF ClearInv
<1> QED BY <1>2, <1>3

(* A failure or an exit takes up nothing. *)
LEMMA FailClears == ASSUME CoreInv, TurnInv, ClearInv, NEW p \in Owners, Fail(p) PROVE ClearInv'
<1>1. p = holder /\ p # Free /\ Return(p) /\ TypeOK /\ arrived \in Nat
      /\ UNCHANGED <<turns, done, batches, events, plans, arrived, overtaken>>
  BY Whose DEF Fail, sql, CoreInv, TypeOK, SqlType
<1>2. Unswept /\ \A k \in Lanes : LaneClear(k)
  BY <1>1, FlightReturn
<1>3. CASE UNCHANGED <<image, intent, cleared>>
  BY <1>1, <1>2, <1>3, RowsClearRest, ClearFrame
<1>4. ASSUME at[p] = "apply", NEW i \in item, Applicable(i), ApplyPlan(i), UNCHANGED <<intent, cleared>> PROVE ClearInv'
  <2>1. i \in Prepared
    BY <1>1, <1>4 DEF CoreInv, SpaceInv, ItemInv
  <2> QED BY <1>1, <1>2, <1>4, <2>1, ApplyClear, ClearFrame
<1>5. CASE at[p] = "clear_files" /\ ClearImage
  <2>1. \A q \in Owners : at[q] # "clear_acknowledge"
    BY <1>1, <1>5, Whose DEF Holding
  <2> QED BY <1>1, <1>2, <1>5, <2>1, NothingPending, ImageClears DEF Unswept
<1> QED BY <1>3, <1>4, <1>5 DEF Fail

LEMMA CrashClears == ASSUME CoreInv, ClearInv, Crash PROVE ClearInv'
<1>1. UNCHANGED <<turns, done, batches, events, plans, image, cleared, intent, overtaken, arrived>> /\ arrived \in Nat
  BY DEF Crash, durable, sql, history, CoreInv, TypeOK, SqlType
<1>2. RowsClear
  BY <1>1, RowsClearRest
<1>3. Unswept /\ \A k \in Lanes : LaneClear(k)
  BY OwnersApart DEF Crash, Unswept, LaneClear, InFlight
<1> QED BY <1>1, <1>2, <1>3, ClearFrame

(* A new turn was not there to be cleared. *)
LEMMA OutsideClears ==
  ASSUME CoreInv, TurnInv, ClearInv,
         \/ \E off \in Disabled, lifecycle \in BOOLEAN : CompleteResponse(off, lifecycle)
         \/ \E r \in Reviews : ReviewSubmit(r) \/ ReviewReject(r)
         \/ UNCHANGED vars
  PROVE  ClearInv'
<1>1. /\ UNCHANGED <<at, aim, window, image, cleared, intent, overtaken, batches, plans>> /\ Prepared' = Prepared
      /\ arrived \in Nat /\ RowType
  BY TypeParts
  DEF CompleteResponse, ReviewSubmit, ReviewReject, vars, control, task, durable, sql, history, Prepared, CoreInv,
      TypeOK, SqlType
<1>2. Unswept /\ \A k \in Lanes : LaneClear(k)
  BY <1>1 DEF Unswept, LaneClear, InFlight
<1>3. CASE (\E r \in Reviews : ReviewSubmit(r) \/ ReviewReject(r)) \/ UNCHANGED vars
  <2>1. UNCHANGED <<turns, done, events, arrived>>
    BY <1>3 DEF ReviewSubmit, ReviewReject, vars, durable, sql
  <2> QED BY <1>1, <1>2, <2>1, RowsClearRest, ClearFrame
<1>4. ASSUME NEW off \in Disabled, NEW lifecycle \in BOOLEAN, CompleteResponse(off, lifecycle) PROVE ClearInv'
  <2> DEFINE t == arrived + 1
  <2>1. /\ arrived' = t /\ turns' = turns \cup {t}
        /\ \A k \in Kinds : done[k] \subseteq done'[k]
        /\ \A s \in Turns : s # t => events'[s] = events[s]
        /\ \A s \in Turns : events[s] = "pending" => events'[s] = "pending"
    BY <1>1, <1>4 DEF CompleteResponse, RowType
  <2>2. t \notin 1..arrived /\ t \in Nat /\ arrived <= t
    BY <1>1
  <2>3. \A k \in Kinds : t \notin cleared[k]
    BY <2>2 DEF ClearInv
  <2>4. \A s \in cleared["memory"] : s \in Turns /\ s # t
    BY <2>3 DEF Kinds, CoreInv, TypeOK, ControlType
  <2>5. RowsClear
    <3>1. \A k \in Kinds : (turns' \ done'[k]) \cap cleared[k] \subseteq turns \ done[k]
      BY <2>1, <2>3
    <3>2. Swept("memory") => \A s \in cleared["memory"] : events'[s] # "pending"
      BY <2>1, <2>4 DEF ClearInv
    <3>3. \A k \in Kinds \ overtaken : Swept(k) => (turns' \ done'[k]) \cap cleared[k] = {}
      BY <3>1 DEF ClearInv
    <3> QED BY <1>1, <2>1, <3>2, <3>3 DEF RowsClear, ClearInv
  <2> QED BY <1>1, <1>2, <2>1, <2>2, <2>5, ClearFrame
<1> QED BY <1>3, <1>4

LEMMA ClearNext == ASSUME CoreInv, TurnInv, ClearInv, [Next]_vars PROVE ClearInv'
<1>1. ASSUME NEW k \in Lanes, LaneStart(k) \/ LaneGiveUp(k) \/ Lane(k) PROVE ClearInv'
  BY <1>1, LaneClears
<1>2. ASSUME NEW p \in Owners, Work(p) PROVE ClearInv'
  BY <1>1, <1>2, EntryClears, PlanClears, ApplyClears, AcknowledgeClears, SqlClears, ClearClears, EvidenceClears DEF Work
<1> QED BY <1>1, <1>2, OwnersApart, EntryClears, OutsideClears, FailClears, CrashClears DEF Next

(* Once a clear is acknowledged, nothing that had been said before it      *)
(* comes back into the module, from a staged batch, a prepared plan or a   *)
(* recovery, unless the clear overtook a lane between its reading of the   *)
(* turns and its staging of a batch (clear_space_memory,                   *)
(* clear_space_memory_state).                                              *)
THEOREM ClearIsFinalHolds == Spec => []ClearIsFinal
<1>1. Init => ClearInv
  <2>1. Init => Prepared = {}
    BY DEF Init, Prepared
  <2> QED BY <2>1 DEF Init, ClearInv, Kinds
<1>2. CoreInv /\ TurnInv /\ ClearInv /\ [Next]_vars => ClearInv'
  BY ClearNext
<1>3. ClearInv => ClearIsFinal
  BY DEF ClearInv, ClearIsFinal
<1> QED BY <1>1, <1>2, <1>3, TurnHolds, PTL DEF Spec
=============================================================================
