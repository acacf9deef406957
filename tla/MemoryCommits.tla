--------------------------- MODULE MemoryCommits ---------------------------
(***************************************************************************)
(* Everything that writes the memory of one Space outside its worker: the  *)
(* two maintenance lanes, the lifecycle, an approved review, a clear and   *)
(* evidence control.  Each keeps its intent in SQL, applies a prepared     *)
(* plan through the worker and acknowledges it in SQL; whoever reserves    *)
(* the Space next finishes what an earlier owner, or an earlier process,   *)
(* left behind.  The worker is the AtomicSpace of SpaceWorker, reduced to  *)
(* the facts each of the two modules holds and the pending-clear intent.   *)
(***************************************************************************)
EXTENDS Integers, FiniteSets

CONSTANTS
  MaxTurns,        \* bound: responses completed
  Lanes,           \* the kinds whose maintenance is enabled in the configuration
  Conversation,    \* the conversation, hence identity, of each turn
  Threshold,       \* memory_distill_every_turns, nsg_govern_every_turns
  Reviews,         \* submitted memory patches
  Disabled,        \* the sets of kinds a response may find disabled
  Clears,          \* the sets of modules a clear may select
  MaxClears,       \* bound: clear_memory controls
  MaxFaults,       \* bound: failed steps and process exits
  Free             \* nobody owns the Space reservation

Kinds == {"memory", "semantic_graph"}
Turns == 1..MaxTurns
Conversations == {Conversation[t] : t \in Turns}

ASSUME CommitAssumption ==
  /\ {MaxTurns, MaxClears, MaxFaults} \subseteq Nat /\ Threshold \in Nat \ {0}
  /\ Lanes \subseteq Kinds /\ DOMAIN Conversation = Turns
  /\ Disabled \subseteq SUBSET Kinds
  /\ Clears \subseteq (SUBSET Kinds) \ {{}}

(* Owners of the reservation.  "startup" is the recovery that runs before  *)
(* the Core is published; "reader" is any operation that only reads, or    *)
(* retry_memory_recovery.                                                  *)
Owners == Lanes \cup {"lifecycle", "review", "clear", "evidence", "reader", "startup"}

ASSUME FreeAssumption == Free \notin Owners

VARIABLES
  turns,     \* maintenance_turns: the rows that exist
  done,      \* their memory_done and nsg_done columns
  arrived,   \* turns completed so far
  events,    \* memory_lifecycle_events: "absent", "pending" or "completed"
  reviews,   \* memory_patch_reviews: "absent", "pending" or how it was resolved
  batches,   \* maintenance_batches: staged patches
  plans,     \* prepared_commit_json of batches, events and reviews
  stopped,   \* memory_evidence_controls: conversations stopped or revoked
  image,     \* the worker's durable image: facts per module
  intent,    \* its pending_clear: {} or {modules}
  marked,    \* recovery_failures has the Space: the next owner recovers it
  holder,    \* who owns the Space reservation
  recovering,\* the holder is inside recover_space_commits
  item,      \* the plan the holder applies, as {} or {item}
  at,        \* where each operation is
  aim,       \* why a lane reserves: "validate", "commit" or "settle"
  window,    \* turns of a lane's batch, or events the lifecycle listed
  modules,   \* what the running clear selected
  conversation, \* whom the running evidence control is about
  cleared,   \* history: turns that had arrived when a module was cleared
  excused,   \* history: turns acknowledged without being distilled
  applied,   \* history: plans that consolidated a turn into a module
  overtaken, \* history: lanes a clear found between their reads and their batch
  clears, faults \* how much of each bound is used

sql      == <<turns, done, events, reviews, batches, plans, stopped>>
durable  == <<sql, arrived, image, intent>>
task     == <<holder, recovering, item, aim, window, modules, conversation>>
control  == <<marked, at, task>>
history  == <<cleared, excused, applied, overtaken>>
bounds   == <<clears, faults>>
vars == <<durable, control, history, bounds>>
----------------------------------------------------------------------------
Batch(k, ids)  == [kind |-> "maintenance", lane |-> k, turns |-> ids]
Event(t)       == [kind |-> "lifecycle", turn |-> t]
Review(r)      == [kind |-> "review", review |-> r]

Target(i) == IF i.kind = "maintenance" THEN i.lane ELSE "memory"

Facts(i) == CASE i.kind = "maintenance" -> {<<"turn", t>> : t \in i.turns}
              [] i.kind = "lifecycle"   -> {<<"event", i.turn>>}
              [] i.kind = "review"      -> {<<"review", i.review>>}

Prepared == DOMAIN plans

(* A file plan freezes the before-image and the after-image of its target. *)
PlanOf(i) == [expected |-> image[Target(i)], next |-> image[Target(i)] \cup Facts(i)]

(* UPDATE ... WHERE prepared_commit_json IS NULL: the first plan wins. *)
WithPlan(i) == [j \in Prepared \cup {i} |-> IF j \in Prepared THEN plans[j] ELSE PlanOf(i)]

Only(items) == [j \in Prepared \cap items |-> plans[j]]

StoppedTurns == {t \in Turns : Conversation[t] \in stopped}

(* pending_maintenance_turns: not done, not stopped, all of one identity,  *)
(* preferring an identity that fills a batch, then the oldest; LIMIT.      *)
Pending(k) == {t \in turns \ done[k] : t \notin StoppedTurns}
Group(k, c) == {t \in Pending(k) : Conversation[t] = c}
Oldest(s, n) == {t \in s : Cardinality({u \in s : u < t}) < n}
PendingWindow(k) ==
  LET full == {t \in Pending(k) : Cardinality(Group(k, Conversation[t])) >= Threshold}
      from == IF full # {} THEN full ELSE Pending(k)
      first == CHOOSE t \in from : \A u \in from : t <= u
  IN IF from = {} THEN {} ELSE Oldest(Group(k, Conversation[first]), Threshold)
----------------------------------------------------------------------------
Goto(p, label) == at' = [at EXCEPT ![p] = label]

(* The operation ends and its reservation, if it has one, is dropped. *)
Return(p) ==
  /\ Goto(p, "off")
  /\ holder' = IF holder = p THEN Free ELSE holder
  /\ recovering' = (recovering /\ holder # p)
  /\ item' = IF holder = p THEN {} ELSE item
  /\ aim' = [k \in Lanes |-> IF k = p THEN "settle" ELSE aim[k]]
  /\ window' = [q \in DOMAIN window |-> IF q = p THEN {} ELSE window[q]]
  /\ modules' = IF p = "clear" THEN {} ELSE modules
  /\ conversation' = IF p = "evidence" THEN {} ELSE conversation

(* Mutant of Take: the Space is entered without recovering it first. *)
TakeUnrecovered(p) ==
  /\ holder = Free
  /\ holder' = p /\ recovering' = FALSE /\ Goto(p, "held")

(* reserve_spaces: own the Space, and first finish what is marked pending. *)
Take(p) ==
  /\ holder = Free
  /\ holder' = p /\ recovering' = marked
  /\ Goto(p, IF marked THEN "recover" ELSE "held")

Published == at["startup"] = "off"

Init ==
  /\ turns = {} /\ done = [k \in Kinds |-> {}] /\ arrived = 0
  /\ events = [t \in Turns |-> "absent"] /\ reviews = [r \in Reviews |-> "absent"]
  /\ batches = {} /\ plans = [i \in {} |-> {}] /\ stopped = {}
  /\ image = [k \in Kinds |-> {}] /\ intent = {}
  /\ marked = FALSE /\ holder = Free /\ recovering = FALSE /\ item = {}
  /\ at = [p \in Owners |-> "off"] /\ aim = [k \in Lanes |-> "settle"]
  /\ window = [p \in Lanes \cup {"lifecycle"} |-> {}]
  /\ modules = {} /\ conversation = {}
  /\ cleared = [k \in Kinds |-> {}] /\ excused = [k \in Kinds |-> {}]
  /\ applied = [k \in Kinds |-> [t \in Turns |-> 0]] /\ overtaken = {}
  /\ clears = 0 /\ faults = 0

(* commit_response_completion: the turn, its evidence and its lifecycle    *)
(* event become durable together, whoever owns the Space.                  *)
CompleteResponse(off, lifecycle) ==
  /\ Published /\ arrived < MaxTurns
  /\ LET t == arrived + 1
     IN /\ arrived' = t
        /\ turns' = turns \cup {t}
        /\ done' = [k \in Kinds |-> IF k \in off THEN done[k] \cup {t} ELSE done[k]]
        /\ events' = IF lifecycle /\ "memory" \notin off
                     THEN [events EXCEPT ![t] = "pending"] ELSE events
        /\ excused' = [k \in Kinds |-> IF k \in off THEN excused[k] \cup {t} ELSE excused[k]]
  /\ UNCHANGED <<reviews, batches, plans, stopped, image, intent, control,
                 cleared, applied, overtaken, bounds>>
----------------------------------------------------------------------------
Reserve(p) ==
  /\ at[p] = "queued" /\ Take(p)
  /\ UNCHANGED <<durable, marked, item, aim, window, modules, conversation, history, bounds>>

(* The lifecycle, an approval or a reader reserves the Space at once. *)
Begin(p) ==
  /\ Published /\ at[p] = "off" /\ Take(p)
  /\ UNCHANGED <<durable, marked, item, aim, window, modules, conversation, history, bounds>>

(* recover_space_commits: a pending clear first, then prepared lifecycle   *)
(* events, batches and reviews, one after the other.                       *)
Precedence(i) == CASE i.kind = "lifecycle" -> 1 [] i.kind = "maintenance" -> 2 [] OTHER -> 3

RecoverNext(p) ==
  /\ at[p] = "recover"
  /\ \/ intent # {} /\ Goto(p, "clear_sql") /\ UNCHANGED <<marked, recovering, item>>
     \/ /\ intent = {}
        /\ \E i \in Prepared :
             /\ \A j \in Prepared : Precedence(i) <= Precedence(j)
             /\ item' = {i}
        /\ Goto(p, "apply") /\ UNCHANGED <<marked, recovering>>
     \/ /\ intent = {} /\ Prepared = {}
        /\ marked' = FALSE /\ recovering' = FALSE /\ Goto(p, "held") /\ UNCHANGED item
  /\ UNCHANGED <<durable, holder, aim, window, modules, conversation, history, bounds>>

(* apply_journaled_memory_commit: each target holds its before-image or    *)
(* its after-image, or nothing is written and the commit fails.            *)
Applicable(i) == image[Target(i)] \in {plans[i].expected, plans[i].next}

ApplyPlan(i) ==
  /\ image' = [image EXCEPT ![Target(i)] = plans[i].next]
  /\ applied' = IF i.kind = "maintenance" /\ image[Target(i)] = plans[i].expected
                THEN [applied EXCEPT ![i.lane] =
                        [t \in Turns |-> IF t \in i.turns THEN @[t] + 1 ELSE @[t]]]
                ELSE applied

Apply(p) ==
  /\ at[p] = "apply"
  /\ \E i \in item : Applicable(i) /\ ApplyPlan(i)
  /\ Goto(p, "acknowledge")
  /\ UNCHANGED <<sql, arrived, intent, marked, task, cleared, excused,
                 overtaken, bounds>>

(* Mutants of Acknowledge: a batch is deleted without marking its turns    *)
(* done, or marks every turn done; an event keeps its prepared plan.       *)
AcknowledgeDone(p, marks(_)) ==
  /\ at[p] = "acknowledge" /\ ~recovering
  /\ \E i \in item :
       /\ i.kind = "maintenance"
       /\ plans' = Only(Prepared \ {i}) /\ batches' = batches \ {i}
       /\ done' = [done EXCEPT ![i.lane] = @ \cup marks(i)]
  /\ marked' = FALSE /\ Return(p)
  /\ UNCHANGED <<turns, arrived, events, reviews, stopped, image, intent, history, bounds>>

AcknowledgeNone(p) == LET none(i) == {} IN AcknowledgeDone(p, none)

AcknowledgeAll(p) == LET all(i) == turns IN AcknowledgeDone(p, all)

AcknowledgeKeepingPlan(p) ==
  /\ at[p] = "acknowledge" /\ recovering
  /\ events' = [t \in Turns |-> IF Event(t) \in item THEN "completed" ELSE events[t]]
  /\ Goto(p, "recover") /\ item' = {}
  /\ UNCHANGED <<turns, done, arrived, reviews, batches, plans, stopped, image, intent, marked,
                 holder, recovering, aim, window, modules, conversation, history, bounds>>

(* complete_lifecycle_event, complete_maintenance_batch and                *)
(* resolve_memory_patch_review: one transaction each.  The last two        *)
(* commits also take the mark away, even inside a recovery.                *)
Acknowledge(p) ==
  /\ at[p] = "acknowledge"
  /\ \E i \in item :
       /\ plans' = Only(Prepared \ {i})
       /\ events' = IF i.kind = "lifecycle"
                    THEN [events EXCEPT ![i.turn] = "completed"] ELSE events
       /\ reviews' = IF i.kind = "review"
                     THEN [reviews EXCEPT ![i.review] = "approved"] ELSE reviews
       /\ done' = IF i.kind = "maintenance"
                  THEN [done EXCEPT ![i.lane] = @ \cup (i.turns \cap turns)] ELSE done
       /\ batches' = batches \ {i}
       /\ marked' = (recovering /\ marked /\ i.kind = "lifecycle")
  /\ CASE recovering -> Goto(p, "recover") /\ item' = {}
            /\ UNCHANGED <<holder, recovering, aim, window, modules, conversation>>
       [] ~recovering /\ p = "lifecycle" -> Goto(p, "events") /\ item' = {}
            /\ UNCHANGED <<holder, recovering, aim, window, modules, conversation>>
       [] OTHER -> Return(p)
  /\ UNCHANGED <<turns, arrived, stopped, image, intent, history, bounds>>
----------------------------------------------------------------------------
(* The maintenance lane of one kind, under its maintenance lock.           *)

LaneStart(k) ==
  /\ Published /\ at[k] = "off" /\ Goto(k, "look")
  /\ UNCHANGED <<durable, marked, task, history, bounds>>

Queue(k, why) == Goto(k, "queued") /\ aim' = [aim EXCEPT ![k] = why]

(* A prepared batch is settled; a staged one is resumed with its own       *)
(* turns; otherwise enough pending turns make a new one.                   *)
LaneLook(k) ==
  /\ at[k] = "look"
  /\ LET staged == {b \in batches : b.lane = k}
     IN \/ /\ staged \cap Prepared # {}
           /\ marked' = TRUE /\ Queue(k, "settle") /\ UNCHANGED window
        \/ \E b \in staged \ Prepared :
             /\ window' = [window EXCEPT ![k] = b.turns]
             /\ Goto(k, "read") /\ UNCHANGED <<marked, aim>>
        \/ /\ staged = {} /\ Cardinality(PendingWindow(k)) >= Threshold
           /\ window' = [window EXCEPT ![k] = PendingWindow(k)]
           /\ Goto(k, "generate") /\ UNCHANGED <<marked, aim>>
  /\ UNCHANGED <<durable, holder, recovering, item, modules, conversation, history, bounds>>

(* Too few turns, the caller timed out or went away, the model failed, or  *)
(* a row could not be read: the lane gives up before its owned commit.     *)
LaneGiveUp(k) ==
  /\ \/ at[k] \in {"look", "read", "discard", "generate", "stage"}
     \/ at[k] = "queued" /\ aim[k] = "validate"
  /\ Return(k)
  /\ UNCHANGED <<durable, marked, history, bounds>>

(* maintenance_turns_for_batch wants every row; the patch may have gone.   *)
LaneRead(k) ==
  /\ at[k] = "read" /\ window[k] \subseteq turns
  /\ IF Batch(k, window[k]) \in batches
     THEN Queue(k, "validate")
     ELSE Goto(k, "generate") /\ UNCHANGED aim
  /\ UNCHANGED <<durable, marked, holder, recovering, item, window, modules,
                 conversation, history, bounds>>

(* validate_maintenance_patch reserves the Space, and lets it go.          *)
LaneValidate(k) ==
  /\ at[k] = "held" /\ aim[k] = "validate"
  /\ holder' = Free
  /\ \/ Queue(k, "commit")
     \/ Goto(k, "discard") /\ UNCHANGED aim
  /\ UNCHANGED <<durable, marked, recovering, item, window, modules, conversation,
                 history, bounds>>

(* discard_maintenance_batch: only an unprepared one can be discarded. *)
LaneDiscard(k) ==
  /\ at[k] = "discard" /\ Batch(k, window[k]) \in batches \ Prepared
  /\ batches' = batches \ {Batch(k, window[k])}
  /\ Goto(k, "generate")
  /\ UNCHANGED <<turns, done, arrived, events, reviews, plans, stopped, image, intent,
                 marked, task, history, bounds>>

(* The model answers.  What it reads of the Space on the way, it reads     *)
(* under reservations of its own, as a "reader".                           *)
LaneGenerate(k) ==
  /\ at[k] = "generate" /\ Goto(k, "stage")
  /\ UNCHANGED <<durable, marked, task, history, bounds>>

(* Mutant of LaneStage: nobody looks whether evidence was stopped. *)
LaneStageUnchecked(k) ==
  /\ at[k] = "stage"
  /\ batches' = batches \cup {Batch(k, window[k])}
  /\ Queue(k, "commit")
  /\ UNCHANGED <<turns, done, arrived, events, reviews, plans, stopped, image, intent,
                 marked, holder, recovering, item, window, modules, conversation,
                 history, bounds>>

(* stage_maintenance_batch: refused when some evidence has been stopped. *)
LaneStage(k) ==
  /\ at[k] = "stage" /\ window[k] \cap StoppedTurns = {}
  /\ batches' = batches \cup {Batch(k, window[k])}
  /\ Queue(k, "commit")
  /\ UNCHANGED <<turns, done, arrived, events, reviews, plans, stopped, image, intent,
                 marked, holder, recovering, item, window, modules, conversation,
                 history, bounds>>

(* Mutant of LanePlan: the Space is not marked. *)
LanePlanUnmarked(k) ==
  /\ at[k] = "held" /\ aim[k] = "commit"
  /\ Goto(k, "prepare")
  /\ UNCHANGED <<durable, marked, task, history, bounds>>

(* The owned commit: the worker makes the plan and the Space is marked, or *)
(* the patch no longer applies.                                            *)
LanePlan(k) ==
  /\ at[k] = "held" /\ aim[k] = "commit"
  /\ \/ marked' = TRUE /\ Goto(k, "prepare") /\ UNCHANGED task
     \/ Return(k) /\ UNCHANGED marked
  /\ UNCHANGED <<durable, history, bounds>>

(* prepare_maintenance_commit; the batch may have been taken away. *)
LanePrepare(k) ==
  /\ at[k] = "prepare"
  /\ LET b == Batch(k, window[k])
     IN IF b \in batches
        THEN /\ plans' = WithPlan(b) /\ item' = {b} /\ Goto(k, "apply")
             /\ UNCHANGED <<holder, recovering, aim, window, modules, conversation>>
        ELSE UNCHANGED plans /\ Return(k)
  /\ UNCHANGED <<turns, done, arrived, events, reviews, batches, stopped, image, intent,
                 marked, history, bounds>>

(* finish_maintenance_commit has nothing left to do once it owns the Space. *)
LaneSettle(k) ==
  /\ at[k] = "held" /\ aim[k] = "settle" /\ Return(k)
  /\ UNCHANGED <<durable, marked, history, bounds>>

Lane(k) == LaneLook(k) \/ LaneRead(k) \/ LaneValidate(k) \/ LaneDiscard(k) \/ LaneGenerate(k)
             \/ LaneStage(k) \/ LanePlan(k) \/ LanePrepare(k) \/ LaneSettle(k)
----------------------------------------------------------------------------
(* process_memory_lifecycle *)

LifecycleList ==
  /\ at["lifecycle"] = "held"
  /\ window' = [window EXCEPT !["lifecycle"] = {t \in Turns : events[t] = "pending"}]
  /\ Goto("lifecycle", "events")
  /\ UNCHANGED <<durable, marked, holder, recovering, item, aim, modules, conversation,
                 history, bounds>>

(* Each listed event in turn is planned, prepared and marked. *)
LifecyclePrepare ==
  /\ at["lifecycle"] = "events"
  /\ \/ \E t \in window["lifecycle"] :
            /\ \A u \in window["lifecycle"] : t <= u
            /\ events[t] = "pending" /\ Event(t) \notin Prepared
            /\ plans' = WithPlan(Event(t)) /\ item' = {Event(t)} /\ marked' = TRUE
            /\ window' = [window EXCEPT !["lifecycle"] = @ \ {t}]
            /\ Goto("lifecycle", "apply")
            /\ UNCHANGED <<holder, recovering, aim, modules, conversation>>
     \/ window["lifecycle"] = {} /\ Return("lifecycle") /\ UNCHANGED <<plans, marked>>
  /\ UNCHANGED <<turns, done, arrived, events, reviews, batches, stopped, image, intent,
                 history, bounds>>
----------------------------------------------------------------------------
(* submit_memory_patch_review, approve_memory_patch_review_inner and       *)
(* reject_memory_patch_review.                                             *)
ReviewSubmit(r) ==
  /\ Published /\ reviews[r] = "absent"
  /\ reviews' = [reviews EXCEPT ![r] = "pending"]
  /\ UNCHANGED <<turns, done, events, batches, plans, stopped, arrived, image, intent,
                 control, history, bounds>>

(* Mutant of ReviewPlan: the Space is not marked. *)
ReviewPlanUnmarked(r) ==
  /\ at["review"] = "held" /\ reviews[r] = "pending"
  /\ item' = {Review(r)} /\ Goto("review", "prepare")
  /\ UNCHANGED <<durable, marked, holder, recovering, aim, window, modules, conversation,
                 history, bounds>>

(* Resolved already, planned, or found invalid and resolved as failed. *)
ReviewPlan(r) ==
  /\ at["review"] = "held"
  /\ \/ /\ reviews[r] # "pending"
        /\ Return("review") /\ UNCHANGED <<reviews, marked>>
     \/ /\ reviews[r] = "pending"
        /\ marked' = TRUE /\ item' = {Review(r)} /\ Goto("review", "prepare")
        /\ UNCHANGED <<reviews, holder, recovering, aim, window, modules, conversation>>
     \/ /\ reviews[r] = "pending"
        /\ reviews' = [reviews EXCEPT ![r] = "failed"]
        /\ Return("review") /\ UNCHANGED marked
  /\ UNCHANGED <<turns, done, events, batches, plans, stopped, arrived, image, intent,
                 history, bounds>>

(* prepare_memory_patch_review_commit; a policy may have rejected it since. *)
ReviewPrepare ==
  /\ at["review"] = "prepare"
  /\ \E i \in item :
       IF reviews[i.review] = "pending"
       THEN plans' = WithPlan(i) /\ Goto("review", "apply")
            /\ UNCHANGED <<holder, recovering, item, aim, window, modules, conversation>>
       ELSE UNCHANGED plans /\ Return("review")
  /\ UNCHANGED <<turns, done, arrived, events, reviews, batches, stopped, image, intent,
                 marked, history, bounds>>

(* A user rejects a review, or the policy "reject" does as soon as it is   *)
(* submitted; the latter takes no lock.                                    *)
ReviewReject(r) ==
  /\ Published /\ reviews[r] = "pending" /\ Review(r) \notin Prepared
  /\ reviews' = [reviews EXCEPT ![r] = "rejected"]
  /\ UNCHANGED <<turns, done, events, batches, plans, stopped, arrived, image, intent,
                 control, history, bounds>>
----------------------------------------------------------------------------
(* clear_space_memory: mark, clear through the worker with the intent in   *)
(* the same journal transaction, clean SQL up, acknowledge, unmark.        *)

ClearStart(selected) ==
  /\ Published /\ at["clear"] = "off" /\ clears < MaxClears
  /\ clears' = clears + 1
  /\ modules' = selected /\ Take("clear")
  /\ UNCHANGED <<durable, marked, item, aim, window, conversation, history, faults>>

ClearMark ==
  /\ at["clear"] = "held"
  /\ marked' = TRUE /\ Goto("clear", "clear_files")
  /\ UNCHANGED <<durable, task, history, bounds>>

ClearImage ==
  /\ image' = [k \in Kinds |-> IF k \in modules THEN {} ELSE image[k]]
  /\ intent' = {modules}
  /\ cleared' = [k \in Kinds |-> IF k \in modules THEN 1..arrived ELSE cleared[k]]

ClearFiles ==
  /\ at["clear"] = "clear_files" /\ ClearImage
  /\ Goto("clear", "clear_sql")
  /\ UNCHANGED <<sql, arrived, marked, task, excused, applied, overtaken, bounds>>

(* Mutants of ClearRows: staged batches survive the clear; events are kept *)
(* as rows of a status of their own.                                       *)
ClearRowsBut(selected, kept, status) ==
  LET marks == [k \in Kinds |-> IF k \in selected THEN done[k] \cup turns ELSE done[k]]
  IN /\ done' = marks /\ batches' = kept
     /\ events' = [t \in Turns |-> IF "memory" \in selected THEN status ELSE events[t]]
     /\ plans' = Only({i \in Prepared : Target(i) \notin selected})
     /\ excused' = [k \in Kinds |-> IF k \in selected THEN excused[k] \cup turns ELSE excused[k]]
     /\ UNCHANGED <<turns, reviews>>

ClearRowsButBatches(selected) == ClearRowsBut(selected, batches, "absent")

ClearRowsSoftly(selected) ==
  ClearRowsBut(selected, {b \in batches : b.lane \notin selected}, "cleared")

(* clear_space_memory_state: events and reviews of the memory module,      *)
(* batches and turns of whatever was selected.                             *)
ClearRows(selected) ==
  LET marks == [k \in Kinds |-> IF k \in selected THEN done[k] \cup turns ELSE done[k]]
      gone == IF selected = Kinds THEN turns ELSE {t \in turns : \A k \in Kinds : t \in marks[k]}
      memory == "memory" \in selected
  IN /\ turns' = turns \ gone
     /\ done' = [k \in Kinds |-> marks[k] \ gone]
     /\ batches' = {b \in batches : b.lane \notin selected}
     /\ events' = [t \in Turns |-> IF memory THEN "absent" ELSE events[t]]
     /\ reviews' = [r \in Reviews |-> IF memory /\ reviews[r] # "absent"
                                      THEN "deleted" ELSE reviews[r]]
     /\ plans' = Only({i \in Prepared : Target(i) \notin selected})
     /\ excused' = [k \in Kinds |-> IF k \in selected THEN excused[k] \cup turns ELSE excused[k]]

(* A lane holds turns it has read and not yet staged. *)
InFlight(k) == at[k] \in {"read", "discard", "generate", "stage"} \/ aim[k] = "validate"

ClearSql(p) ==
  /\ at[p] = "clear_sql"
  /\ \E selected \in intent :
       /\ ClearRows(selected)
       /\ overtaken' = overtaken \cup {k \in selected \cap Lanes : InFlight(k)}
  /\ Goto(p, "clear_acknowledge")
  /\ UNCHANGED <<arrived, stopped, image, intent, marked, task, cleared, applied, bounds>>

ClearAcknowledge(p) ==
  /\ at[p] = "clear_acknowledge"
  /\ intent' = {}
  /\ IF recovering THEN Goto(p, "recover") /\ UNCHANGED <<marked, task>>
     ELSE marked' = FALSE /\ Return(p)
  /\ UNCHANGED <<sql, arrived, image, history, bounds>>
----------------------------------------------------------------------------
(* control_memory_evidence: the Spaces to reserve are looked up first, and *)
(* a conversation without maintenance turns reserves none.                 *)
EvidenceStart(c) ==
  /\ Published /\ at["evidence"] = "off" /\ c \notin stopped
  /\ conversation' = {c}
  /\ Goto("evidence", IF \E t \in turns : Conversation[t] = c THEN "queued" ELSE "held")
  /\ UNCHANGED <<durable, marked, holder, recovering, item, aim, window, modules,
                 history, bounds>>

(* control_evidence: refused while a prepared batch needs the evidence;    *)
(* else batches and pending turns of the conversation go with it.          *)
EvidenceControl ==
  /\ at["evidence"] = "held"
  /\ LET its == {t \in 1..arrived : Conversation[t] \in conversation}
         using == {b \in batches : b.turns \cap its # {}}
     IN IF using \cap Prepared # {}
        THEN UNCHANGED <<stopped, batches, done, excused>>
        ELSE /\ stopped' = stopped \cup conversation
             /\ batches' = batches \ using
             /\ done' = [k \in Kinds |-> done[k] \cup (its \cap turns)]
             /\ excused' = [k \in Kinds |-> excused[k] \cup its]
  /\ Return("evidence")
  /\ UNCHANGED <<turns, events, reviews, plans, arrived, image, intent, marked, cleared,
                 applied, overtaken, bounds>>

(* A reader, or the startup recovery, is done once the Space is recovered. *)
ReadDone(p) ==
  /\ at[p] = "held" /\ Return(p)
  /\ UNCHANGED <<durable, marked, history, bounds>>
----------------------------------------------------------------------------
(* A step of the owner fails, before or (the answer being lost) after it   *)
(* took effect.  A failed recovery leaves the Space marked.                *)
Fail(p) ==
  /\ holder = p /\ at[p] # "off"
  /\ faults < MaxFaults /\ faults' = faults + 1
  /\ \/ UNCHANGED <<image, intent, cleared, applied>>
     \/ /\ at[p] = "apply"
        /\ \E i \in item : Applicable(i) /\ ApplyPlan(i)
        /\ UNCHANGED <<intent, cleared>>
     \/ at[p] = "clear_files" /\ ClearImage /\ UNCHANGED applied
  /\ marked' = (marked \/ recovering)
  /\ Return(p)
  /\ UNCHANGED <<sql, arrived, excused, overtaken, clears>>

(* The process exits and starts again: recover_maintenance_commits runs    *)
(* before the Core is published, and owns the Space.                       *)
Crash ==
  /\ faults < MaxFaults /\ faults' = faults + 1
  /\ at' = [p \in Owners |-> IF p = "startup" THEN "recover" ELSE "off"]
  /\ holder' = "startup" /\ recovering' = TRUE /\ item' = {} /\ marked' = FALSE
  /\ aim' = [k \in Lanes |-> "settle"] /\ window' = [p \in DOMAIN window |-> {}]
  /\ modules' = {} /\ conversation' = {}
  /\ UNCHANGED <<durable, history, clears>>

Work(p) ==
  \/ Reserve(p) \/ RecoverNext(p) \/ Apply(p) \/ Acknowledge(p)
  \/ ClearSql(p) \/ ClearAcknowledge(p)
  \/ p \in Lanes /\ Lane(p)
  \/ p = "lifecycle" /\ (LifecycleList \/ LifecyclePrepare)
  \/ p = "review" /\ ((\E r \in Reviews : ReviewPlan(r)) \/ ReviewPrepare)
  \/ p = "clear" /\ (ClearMark \/ ClearFiles)
  \/ p = "evidence" /\ EvidenceControl
  \/ p \in {"reader", "startup"} /\ ReadDone(p)

Next ==
  \/ \E off \in Disabled, lifecycle \in BOOLEAN : CompleteResponse(off, lifecycle)
  \/ \E k \in Lanes : LaneStart(k) \/ LaneGiveUp(k)
  \/ Begin("lifecycle") \/ Begin("reader")
  \/ \E r \in Reviews : ReviewSubmit(r) \/ Begin("review") \/ ReviewReject(r)
  \/ \E selected \in Clears : ClearStart(selected)
  \/ \E c \in Conversations : EvidenceStart(c)
  \/ \E p \in Owners : Work(p) \/ Fail(p)
  \/ Crash

Spec == Init /\ [][Next]_vars /\ \A p \in Owners : WF_vars(Work(p))
----------------------------------------------------------------------------
Items == [kind : {"maintenance"}, lane : Kinds, turns : SUBSET Turns]
           \cup [kind : {"lifecycle"}, turn : Turns] \cup [kind : {"review"}, review : Reviews]
AllFacts == ({"turn", "event"} \X Turns) \cup ({"review"} \X Reviews)
Labels == {"off", "queued", "recover", "held", "apply", "acknowledge", "look", "read",
           "discard", "generate", "stage", "prepare", "events", "clear_files",
           "clear_sql", "clear_acknowledge"}

SqlType ==
  /\ turns \subseteq Turns /\ done \in [Kinds -> SUBSET Turns] /\ arrived \in 0..MaxTurns
  /\ events \in [Turns -> {"absent", "pending", "completed"}]
  /\ reviews \in [Reviews -> {"absent", "pending", "approved", "failed", "rejected", "deleted"}]
  /\ batches \subseteq Items
  /\ Prepared \subseteq Items
  /\ \A i \in Prepared : plans[i] \in [expected : SUBSET AllFacts, next : SUBSET AllFacts]
  /\ stopped \subseteq Conversations

ControlType ==
  /\ image \in [Kinds -> SUBSET AllFacts] /\ intent \subseteq SUBSET Kinds
  /\ marked \in BOOLEAN /\ holder \in Owners \cup {Free} /\ recovering \in BOOLEAN
  /\ item \subseteq Items
  /\ at \in [Owners -> Labels] /\ aim \in [Lanes -> {"validate", "commit", "settle"}]
  /\ window \in [Lanes \cup {"lifecycle"} -> SUBSET Turns]
  /\ modules \subseteq Kinds /\ conversation \subseteq Conversations
  /\ cleared \in [Kinds -> SUBSET Turns] /\ excused \in [Kinds -> SUBSET Turns]
  /\ applied \in [Kinds -> [Turns -> Nat]] /\ overtaken \subseteq Lanes
  /\ clears \in Nat /\ faults \in Nat

(* Every variable has its type. *)
TypeOK == SqlType /\ ControlType

(* Whoever works inside the Space finds no plan and no clear of anybody    *)
(* else unfinished, whatever failed, exited or was cancelled before; and   *)
(* what is left unfinished when nobody owns the Space is marked, so that   *)
(* the next owner recovers it.                                             *)
RecoveredBeforeUse ==
  /\ holder # Free /\ ~recovering =>
       Prepared \subseteq item /\ (intent # {} => holder = "clear")
  /\ holder = Free /\ (Prepared # {} \/ intent # {}) => marked

(* A prepared plan always finds its before-image or its after-image, so no *)
(* recovery is ever isolated by a conflict; only a pending clear, which is *)
(* finished first, may take that image away.                               *)
PlansApplicable == intent = {} => \A i \in Prepared : Applicable(i)

(* Who owns the Space finds nothing half done, and what was left can be    *)
(* finished.                                                               *)
RecoveryComplete == TypeOK /\ RecoveredBeforeUse /\ PlansApplicable

(* A completed turn is never lost: until it is cleared, stopped or was     *)
(* disabled, it is pending or its facts are in the image.                  *)
NothingLost ==
  \A k \in Kinds, t \in 1..arrived :
    \/ t \in turns \ done[k]
    \/ <<"turn", t>> \in image[k]
    \/ t \in excused[k] \cup cleared[k]

(* No turn is consolidated twice into the same module, however often its   *)
(* batch is regenerated, replayed or resumed.                              *)
DistilledOnce == \A k \in Kinds, t \in Turns : applied[k][t] <= 1

(* Each completed turn reaches a module once, through failures, replays    *)
(* and other owners, unless it is cleared or stopped.                      *)
ConsolidatedOnce == NothingLost /\ DistilledOnce

(* "cleared plans cannot resurrect content": once a clear is acknowledged, *)
(* nothing that had been said before it comes back into the module.        *)
NoResurrection ==
  intent = {} => \A k \in Kinds : image[k] \cap ({"turn", "event"} \X cleared[k]) = {}

(* The same, but for what a lane brings that a clear overtook between the  *)
(* lane's reading of its turns and its staging of a batch: neither a staged *)
(* batch, nor a prepared plan, nor a recovery brings cleared turns back.   *)
ClearIsFinal ==
  intent = {} => \A k \in Kinds \ overtaken :
                   image[k] \cap ({"turn", "event"} \X cleared[k]) = {}

(* Once its evidence is stopped or revoked, no turn of the conversation is *)
(* consolidated, even by a batch that was staged or generated before.      *)
StopIsFinal ==
  [][\A k \in Kinds, t \in Turns :
       <<"turn", t>> \in image'[k] \ image[k] => t \notin StoppedTurns]_vars

(* Every owner lets the Space go, whatever fails on the way. *)
SpaceReleased == \A p \in Owners : holder = p ~> holder # p
=============================================================================
