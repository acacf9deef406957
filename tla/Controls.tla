------------------------------ MODULE Controls ------------------------------
(***************************************************************************)
(* Controls of conversations: delete_conversation and switch_character.    *)
(* An attempt locks the resource it names, looks for the durable record of *)
(* its key, claims the key, acts, and stores its response, in a task of    *)
(* the Core that outlives its caller.  Other parts of the Core delete and  *)
(* rename conversations without the lock, and the process may stop between *)
(* any two statements.  (clear_memory is modelled in MemoryCommits.)       *)
(***************************************************************************)
EXTENDS Integers

CONSTANTS
  Attempts,        \* calls of execute_control
  Requests,        \* what they may ask: [key, type, conversation, character]
  Titles,
  MaxFaults,       \* bound: statements that fail, and process exits
  MaxRenames       \* bound: renamings of conversations

ASSUME ControlsAssumption ==
  /\ Titles # {} /\ MaxFaults \in Nat /\ MaxRenames \in Nat

Keys == {q.key : q \in Requests}
Conversations == {q.conversation : q \in Requests}
Characters == {q.character : q \in Requests}

VARIABLES
  at,         \* where each attempt is
  asks,       \* its request, as a set
  read,       \* the conversation it has read and will save, as a set
  lock,       \* control_locks: the attempt that holds each conversation, as a set
  ops,        \* control_operations: the record of each key, as a set
  rows,       \* conversations: the row of each, as a set
  tombstones, \* local_tombstones
  faults, renames,
  stranded,   \* history: keys whose claim could not be released
  revived     \* history: conversations saved after they were deleted

attempts == <<at, asks, read>>
store    == <<ops, rows, tombstones>>
bounds   == <<faults, renames, stranded, revived>>
vars     == <<attempts, lock, store, bounds>>

Row == [character : Characters, title : Titles]
Claim(q) == [request |-> q, done |-> FALSE]
Reply(q) == [request |-> q, done |-> TRUE]

Ended == {"replied", "conflict", "failed", "lost"}
Owning == {"acting", "saving", "upserting", "completing", "abandoning"}

Init ==
  /\ at = [a \in Attempts |-> "idle"] /\ asks = [a \in Attempts |-> {}]
  /\ read = [a \in Attempts |-> {}] /\ lock = [c \in Conversations |-> {}]
  /\ ops = [k \in Keys |-> {}] /\ tombstones = {}
  /\ rows = [c \in Conversations |-> {CHOOSE r \in Row : TRUE}]
  /\ faults = 0 /\ renames = 0 /\ stranded = {} /\ revived = {}
----------------------------------------------------------------------------
(* The attempt leaves: it drops its lock with its answer. *)
End(a, q, answer) ==
  /\ at' = [at EXCEPT ![a] = answer] /\ lock' = [lock EXCEPT ![q.conversation] = {}]
  /\ read' = [read EXCEPT ![a] = {}] /\ UNCHANGED asks

Move(a, place) == at' = [at EXCEPT ![a] = place] /\ UNCHANGED <<asks, read, lock>>

Submit(a, q) ==
  /\ at[a] = "idle" /\ at' = [at EXCEPT ![a] = "waiting"]
  /\ asks' = [asks EXCEPT ![a] = {q}]
  /\ UNCHANGED <<read, lock, store, bounds>>

(* Mutant of Lock: nobody waits. *)
LockShared(a, q) ==
  /\ at[a] = "waiting"
  /\ at' = [at EXCEPT ![a] = "locked"] /\ lock' = [lock EXCEPT ![q.conversation] = {a}]
  /\ UNCHANGED <<asks, read, store, bounds>>

Lock(a, q) ==
  /\ at[a] = "waiting" /\ lock[q.conversation] = {}
  /\ at' = [at EXCEPT ![a] = "locked"] /\ lock' = [lock EXCEPT ![q.conversation] = {a}]
  /\ UNCHANGED <<asks, read, store, bounds>>

(* Mutant of Inspect: a stored response is replayed to whoever has its key. *)
InspectKey(a, q) ==
  /\ at[a] = "locked"
  /\ \/ ops[q.key] = {} /\ Move(a, "inspected")
     \/ \E op \in ops[q.key] : op.done /\ End(a, q, "replied")
     \/ \E op \in ops[q.key] : ~op.done /\ End(a, q, "conflict")
  /\ UNCHANGED <<store, bounds>>

(* The record of the key decides: none, a response to replay, a conflict. *)
Inspect(a, q) ==
  /\ at[a] = "locked"
  /\ \/ ops[q.key] = {} /\ Move(a, "inspected")
     \/ Reply(q) \in ops[q.key] /\ End(a, q, "replied")
     \/ ops[q.key] \notin {{}, {Reply(q)}} /\ End(a, q, "conflict")
  /\ UNCHANGED <<store, bounds>>

(* Mutant of Begin: the key is not unique. *)
BeginTwice(a, q) ==
  /\ at[a] = "inspected"
  /\ ops' = [ops EXCEPT ![q.key] = @ \cup {Claim(q)}] /\ Move(a, "acting")
  /\ UNCHANGED <<rows, tombstones, bounds>>

(* begin_control_operation: an attempt with the same key and another       *)
(* resource holds another lock; the insertion decides between them.        *)
Begin(a, q) ==
  /\ at[a] = "inspected"
  /\ \/ /\ ops[q.key] = {}
        /\ ops' = [ops EXCEPT ![q.key] = {Claim(q)}] /\ Move(a, "acting")
     \/ ops[q.key] # {} /\ End(a, q, "conflict") /\ UNCHANGED ops
  /\ UNCHANGED <<rows, tombstones, bounds>>
----------------------------------------------------------------------------
(* The action: a conversation that exists is read ... *)
Found(a, q) ==
  /\ at[a] = "acting" /\ rows[q.conversation] # {}
  /\ at' = [at EXCEPT ![a] = "saving"]
  /\ read' = [read EXCEPT ![a] = rows[q.conversation]]
  /\ UNCHANGED <<asks, lock, store, bounds>>

(* ... one that does not is an error, but for a deletion that is done. *)
Missing(a, q) ==
  /\ at[a] = "acting" /\ rows[q.conversation] = {}
  /\ Move(a, IF q.type = "delete" /\ q.conversation \in tombstones
             THEN "completing" ELSE "abandoning")
  /\ UNCHANGED <<store, bounds>>

Erase(c) ==
  /\ rows' = [rows EXCEPT ![c] = {}] /\ tombstones' = tombstones \cup {c}
  /\ UNCHANGED ops

(* stage_conversation_delete: one transaction. *)
Delete(a, q) ==
  /\ at[a] = "saving" /\ q.type = "delete"
  /\ Erase(q.conversation) /\ Move(a, "completing") /\ UNCHANGED bounds

(* save_conversation looks for a tombstone, and saves nothing over one. *)
LookForTombstone(a, q) ==
  /\ at[a] = "saving" /\ q.type = "switch"
  /\ Move(a, IF q.conversation \in tombstones THEN "completing" ELSE "upserting")
  /\ UNCHANGED <<store, bounds>>

(* Then it writes the whole row as it was read, but for the character. *)
Upsert(a, q) ==
  /\ at[a] = "upserting"
  /\ rows' = [rows EXCEPT ![q.conversation] = {[r EXCEPT !.character = q.character] : r \in read[a]}]
  /\ revived' = IF rows[q.conversation] = {} THEN revived \cup {q.conversation} ELSE revived
  /\ Move(a, "completing") /\ UNCHANGED <<ops, tombstones, faults, renames, stranded>>
----------------------------------------------------------------------------
(* complete_control_operation *)
Complete(a, q) ==
  /\ at[a] = "completing"
  /\ ops' = [ops EXCEPT ![q.key] = {Reply(r.request) : r \in @}]
  /\ End(a, q, "replied") /\ UNCHANGED <<rows, tombstones, bounds>>

(* Mutant of Unclaimed: the response of the key goes with the claim. *)
UnclaimedAll(k) == {}

(* abandon_control_operation deletes a claim, never a response. *)
Unclaimed(k) == {op \in ops[k] : op.done}

Abandon(a, q) ==
  /\ at[a] = "abandoning"
  /\ ops' = [ops EXCEPT ![q.key] = Unclaimed(q.key)]
  /\ End(a, q, "failed") /\ UNCHANGED <<rows, tombstones, bounds>>

(* A statement fails.  Before the claim that ends the attempt; afterwards  *)
(* the claim is abandoned; if that fails it stays until the next start.    *)
Fail(a, q) ==
  /\ faults < MaxFaults /\ faults' = faults + 1
  /\ \/ /\ at[a] \in {"locked", "inspected", "abandoning"} /\ End(a, q, "failed")
        /\ stranded' = IF at[a] = "abandoning" THEN stranded \cup {q.key} ELSE stranded
     \/ /\ at[a] \in {"acting", "saving", "upserting", "completing"} /\ Move(a, "abandoning")
        /\ UNCHANGED stranded
  /\ UNCHANGED <<store, renames, revived>>

(* Mutant of Released: a start leaves the claims of the last process. *)
ReleasedNone == ops

(* LocalStore::connect deletes the claims that have no response. *)
Released == [k \in Keys |-> Unclaimed(k)]

(* The process exits at any point, and the next one opens the store. *)
Restart ==
  /\ faults < MaxFaults /\ faults' = faults + 1
  /\ at' = [a \in Attempts |-> IF at[a] \in Ended \cup {"idle"} THEN at[a] ELSE "lost"]
  /\ read' = [a \in Attempts |-> {}] /\ lock' = [c \in Conversations |-> {}]
  /\ ops' = Released /\ stranded' = {}
  /\ UNCHANGED <<asks, rows, tombstones, renames, revived>>
----------------------------------------------------------------------------
(* The local API deletes and renames conversations without the lock. *)
LocalDelete(c) ==
  /\ rows[c] # {} /\ Erase(c) /\ UNCHANGED <<attempts, lock, bounds>>

LocalRename(c, title) ==
  /\ renames < MaxRenames /\ renames' = renames + 1
  /\ \E r \in rows[c] : r.title # title
  /\ rows' = [rows EXCEPT ![c] = {[r EXCEPT !.title = title] : r \in @}]
  /\ UNCHANGED <<attempts, lock, ops, tombstones, faults, stranded, revived>>

Step(a, q) ==
  \/ Lock(a, q) \/ Inspect(a, q) \/ Begin(a, q) \/ Found(a, q) \/ Missing(a, q)
  \/ Delete(a, q) \/ LookForTombstone(a, q) \/ Upsert(a, q)
  \/ Complete(a, q) \/ Abandon(a, q)

Work(a) == \E q \in asks[a] : Step(a, q)

Next ==
  \/ \E a \in Attempts : Work(a) \/ (\E q \in asks[a] : Fail(a, q)) \/ \E q \in Requests : Submit(a, q)
  \/ \E c \in Conversations : LocalDelete(c) \/ \E title \in Titles : LocalRename(c, title)
  \/ Restart

Spec == Init /\ [][Next]_vars
----------------------------------------------------------------------------
Places == {"idle", "waiting", "locked", "inspected"} \cup Owning \cup Ended

(* Every variable has its type; a table has at most one record per key. *)
TypeOK ==
  /\ at \in [Attempts -> Places] /\ asks \in [Attempts -> SUBSET Requests]
  /\ read \in [Attempts -> SUBSET Row] /\ lock \in [Conversations -> SUBSET Attempts]
  /\ ops \in [Keys -> SUBSET [request : Requests, done : BOOLEAN]]
  /\ rows \in [Conversations -> SUBSET Row] /\ tombstones \subseteq Conversations
  /\ faults \in 0..MaxFaults /\ renames \in 0..MaxRenames
  /\ stranded \subseteq Keys /\ revived \subseteq Conversations
  /\ \A k \in Keys : \A x, y \in ops[k] : x = y
  /\ \A c \in Conversations : \A x, y \in rows[c] : x = y
  /\ \A a \in Attempts : \A x, y \in read[a] : x = y

(* An attempt that acts owns the claim of its key, alone: neither another  *)
(* content of the same request nor a second attempt acts at the same time. *)
ClaimOwned ==
  \A a \in Attempts : at[a] \in Owning =>
    /\ \A q \in asks[a] : ops[q.key] = {Claim(q)}
    /\ \A b \in Attempts, q \in asks[a] :
         b # a /\ at[b] \in Owning => \A p \in asks[b] : p.key # q.key /\ p.conversation # q.conversation

(* A stored response stays as it is, through conflicts, failures, restarts *)
(* and abandoned claims, and answers only who asked what it answers.       *)
ReplayStable ==
  [][/\ \A k \in Keys : \A op \in ops[k] : op.done => op \in ops'[k]
     /\ \A a \in Attempts : at'[a] = "replied" /\ at[a] # "replied" =>
          \A q \in asks[a] : Reply(q) \in ops'[q.key]]_vars

Holds(q) ==
  IF q.type = "delete" THEN rows[q.conversation] = {}
  ELSE \A r \in rows[q.conversation] : r.character = q.character

Stores(q) == Reply(q) \in ops'[q.key] \ ops[q.key]

(* A control converges on its target state: the response is stored only    *)
(* when what was asked for is true.                                        *)
Converges == [][\A q \in Requests : Stores(q) => Holds(q)]_vars

(* So it does when no switch has revived the conversation: no other        *)
(* control, no failure and no restart comes between action and response.   *)
ConvergesUnlessRevived ==
  [][\A q \in Requests : Stores(q) /\ q.conversation \notin revived => Holds(q)]_vars

(* A claim without a response belongs to a running attempt, except when    *)
(* the store refused to release it: a retry is not refused for ever.       *)
NoStrandedClaim ==
  \A k \in Keys : \A op \in ops[k] :
    op.done \/ k \in stranded \/ \E a \in Attempts : at[a] \in Owning /\ op.request \in asks[a]

(* A claim has one owner from the first look at its record to its end:     *)
(* whoever acts owns one alone, and whoever stops leaves none behind.      *)
ClaimsKept == TypeOK /\ ClaimOwned /\ NoStrandedClaim
=============================================================================
