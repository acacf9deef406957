---------------------------- MODULE SpaceRemoval ----------------------------
(***************************************************************************)
(* Removal of a Space: its assets are migrated to another Space or deleted *)
(* across SQL rows, memory files, runtime settings and vectors.  A removal *)
(* owns the lifecycle gate exclusively and the Spaces through reservations *)
(* (atomic here, as AtomicReservations promises), stores its intent with   *)
(* exact after-images, and replays them until one SQL transaction says     *)
(* that it is done: at once, in a retry, or at the next start.             *)
(***************************************************************************)
EXTENDS Integers, Sequences

CONSTANTS
  Spaces, Nowhere,   \* Nowhere as a target: DeleteAssets
  Docs,              \* documents of memory: [path, body]
  Rows,              \* conversations and characters, by their identity
  Values, Default,   \* what a Space may override in the settings; Default is no override
  Operations, Clients, Writers, Controls,
  Startup,           \* the recovery at the start of the Core
  FirstFiles, FirstRows, FirstOverrides,  \* what each Space holds at first
  MaxFaults, MaxCalls, MaxRevision

ASSUME RemovalAssumption ==
  /\ Nowhere \notin Spaces /\ Default \notin Values /\ Startup \notin Clients
  /\ MaxFaults \in Nat /\ MaxCalls \in Nat /\ MaxRevision \in Nat

(* A task is of one kind. *)
ASSUME TasksAssumption ==
  /\ Clients \cap Writers = {} /\ Controls \cap (Clients \cup Writers) = {}
  /\ Startup \notin Clients \cup Writers \cup Controls

ASSUME FirstAssumption ==
  /\ FirstFiles \in [Spaces -> SUBSET Docs] /\ FirstRows \in [Spaces -> SUBSET Rows]
  /\ FirstOverrides \in [Spaces -> Values \cup {Default}]

VARIABLES
  at,          \* where each task is
  asks,        \* the removal a client asks for, as a set
  place,       \* the Space a writer works in, as a set
  readers, writer, queue,  \* lifecycle_gate: who holds it shared, exclusively, who waits to
  reserved,    \* the Spaces each task owns
  files, vectors, rows, trash, unfinished,  \* by Space; trash: recoverable tombstones
  disk,        \* runtime-settings.json: [revision, overrides]
  settings,    \* the settings in memory, that callers see
  removals,    \* space_removals: the record of each operation, as a set
  retired, pending,  \* retired_spaces, pending_space_transition
  listed,      \* the recoverable rows the finishing task has read
  core,        \* "up", "starting", "down"
  faults, calls,
  written,     \* history: documents and rows that were ever stored
  late         \* history: rows put in the trash of a Space while its removal finished

Tasks  == Clients \cup Writers \cup Controls \cup {Startup}
gate   == <<readers, writer, queue>>
local  == <<files, vectors, rows, trash, unfinished>>
memory == <<retired, pending>>
bounds == <<faults, calls, written, late>>
vars   == <<at, asks, place, gate, reserved, local, disk, settings, removals, memory, listed, core, bounds>>

Pending == {o \in Operations : \E r \in removals[o] : ~r.done}
Record(o) == CHOOSE r \in removals[o] : TRUE
Touched(q) == {q.source, q.target} \cap Spaces

Inventory(s) == [files |-> files[s], rows |-> rows[s], trash |-> trash[s], override |-> disk.overrides[s]]

(* The triggers of 0029_space_removals: no row enters a Space that is, or  *)
(* is about to be, retired, nor the target of an unfinished migration.     *)
Fenced(s) ==
  \E o \in Operations : \E r \in removals[o] :
    r.asks.source = s \/ (~r.done /\ r.asks.target = s)

Init ==
  /\ at = [t \in Tasks |-> "idle"] /\ asks = [c \in Clients |-> {}] /\ place = [w \in Writers |-> {}]
  /\ readers = {} /\ writer = {} /\ queue = <<>> /\ reserved = [t \in Tasks |-> {}]
  /\ files = FirstFiles /\ rows = FirstRows
  /\ vectors = {} /\ trash = [s \in Spaces |-> {}] /\ unfinished = [s \in Spaces |-> {}]
  /\ disk = [revision |-> 0, overrides |-> FirstOverrides] /\ settings = disk
  /\ removals = [o \in Operations |-> {}] /\ retired = {} /\ pending = FALSE /\ listed = {}
  /\ core = "up" /\ faults = 0 /\ calls = 0 /\ late = {}
  /\ written = UNION {FirstFiles[s] \cup FirstRows[s] : s \in Spaces}
----------------------------------------------------------------------------
(* Owners of the gate.  A waiting writer keeps new readers out. *)
Readable == core = "up" /\ writer = {} /\ queue = <<>>
Free(S) == \A t \in Tasks : reserved[t] \cap S = {}

Move(t, next) == at' = [at EXCEPT ![t] = next]

(* space_admission: an HTTP request that writes holds the gate to its end. *)
Admit(w, s) ==
  /\ Readable /\ ~pending /\ at[w] = "idle"
  /\ Move(w, "admitted") /\ readers' = readers \cup {w} /\ place' = [place EXCEPT ![w] = {s}]
  /\ UNCHANGED <<asks, writer, queue, reserved, local, disk, settings, removals, memory, listed, core, bounds>>

Leave(w, answer) ==
  /\ Move(w, answer) /\ readers' = readers \ {w} /\ reserved' = [reserved EXCEPT ![w] = {}]

(* Mutant of Enter: admission inside an admitted request waits its turn. *)
EnterWaits(w) == at[w] = "admitted" /\ queue = <<>> /\ Move(w, "entered") /\ UNCHANGED <<readers, reserved>>

(* execute and maintain ask for the gate again, but do not wait for it. *)
Enter(w) ==
  /\ at[w] = "admitted"
  /\ \/ queue = <<>> /\ Move(w, "entered") /\ UNCHANGED <<readers, reserved>>
     \/ queue # <<>> /\ Leave(w, "refused")

(* A memory commit reserves its Space, which must be live. *)
Own(w, s) ==
  /\ at[w] = "entered" /\ Free({s})
  /\ \/ s \notin retired /\ Move(w, "owning") /\ reserved' = [reserved EXCEPT ![w] = {s}] /\ UNCHANGED readers
     \/ s \in retired /\ Leave(w, "refused")
  /\ UNCHANGED <<unfinished>>

(* A response stores its operation before it asks the model. *)
Begin(w, s) ==
  /\ at[w] = "entered" /\ ~Fenced(s)
  /\ unfinished' = [unfinished EXCEPT ![s] = @ \cup {w}]
  /\ Move(w, "answering") /\ UNCHANGED <<readers, reserved>>

Work(w) ==
  /\ core = "up"
  /\ \/ Enter(w) /\ UNCHANGED unfinished
     \/ \E s \in place[w] : Own(w, s) \/ Begin(w, s)
  /\ UNCHANGED <<asks, place, writer, queue, files, vectors, rows, trash, disk, settings, removals,
                 memory, listed, core, bounds>>

(* The commit writes through the worker and indexes what it wrote ... *)
Commit(w, s, d) ==
  /\ core = "up" /\ at[w] = "owning" /\ \A f \in files[s] : f.path # d.path
  /\ files' = [files EXCEPT ![s] = @ \cup {d}] /\ vectors' = vectors \cup {s}
  /\ written' = written \cup {d} /\ Leave(w, "done")
  /\ UNCHANGED <<asks, place, writer, queue, rows, trash, unfinished, disk, settings, removals, memory,
                 listed, core, faults, calls, late>>

(* ... and the completion of a response writes rows, without a reservation *)
(* but under the triggers.                                                 *)
Complete(w, s, x) ==
  /\ core = "up" /\ at[w] = "answering" /\ ~Fenced(s) /\ \A z \in Spaces : x \notin rows[z] \cup trash[z]
  /\ rows' = [rows EXCEPT ![s] = @ \cup {x}] /\ written' = written \cup {x}
  /\ unfinished' = [unfinished EXCEPT ![s] = @ \ {w}] /\ Leave(w, "done")
  /\ UNCHANGED <<asks, place, writer, queue, files, vectors, trash, disk, settings, removals, memory,
                 listed, core, faults, calls, late>>

(* The request fails, or is dropped with its caller; an operation that a    *)
(* response stored remains unfinished.                                     *)
GiveUp(w) ==
  /\ core = "up" /\ at[w] \in {"admitted", "entered", "owning", "answering"} /\ Leave(w, "gone")
  /\ UNCHANGED <<asks, place, writer, queue, local, disk, settings, removals, memory, listed, core, bounds>>

(* A commit that the Core owns goes on without its caller and without the  *)
(* admission that ended with it, and so may a completion.                  *)
Disconnect(w) ==
  /\ core = "up" /\ w \in readers /\ at[w] \in {"owning", "answering"} /\ readers' = readers \ {w}
  /\ UNCHANGED <<at, asks, place, writer, queue, reserved, local, disk, settings, removals, memory,
                 listed, core, bounds>>

(* A control is admitted, and its task outlives the caller and the gate:   *)
(* it deletes a conversation, which stays recoverable.                     *)
SubmitControl(k) ==
  /\ Readable /\ ~pending /\ at[k] = "idle" /\ Move(k, "owning")
  /\ UNCHANGED <<asks, place, gate, reserved, local, disk, settings, removals, memory, listed, core, bounds>>

Finishing(s) == \E o \in Pending : Record(o).asks.source = s /\ Record(o).asks.target = Nowhere

DeleteRow(k, s, x) ==
  /\ core = "up" /\ at[k] = "owning" /\ x \in rows[s] /\ Move(k, "done")
  /\ rows' = [rows EXCEPT ![s] = @ \ {x}] /\ trash' = [trash EXCEPT ![s] = @ \cup {x}]
  /\ late' = IF Finishing(s) THEN late \cup {x} ELSE late
  /\ UNCHANGED <<asks, place, gate, reserved, files, vectors, unfinished, disk, settings, removals,
                 memory, listed, core, faults, calls, written>>
----------------------------------------------------------------------------
(* Mutant of Override: the settings do not look at a pending transition. *)
OverridePending(s, v) ==
  /\ Readable /\ s \notin retired /\ settings.revision < MaxRevision
  /\ settings' = [revision |-> settings.revision + 1, overrides |-> [settings.overrides EXCEPT ![s] = v]]
  /\ disk' = settings'
  /\ UNCHANGED <<at, asks, place, gate, reserved, local, removals, memory, listed, core, bounds>>

(* SettingsStore::update under admit_settings_operation: the file is made  *)
(* from what is in memory.                                                 *)
Override(s, v) ==
  /\ Readable /\ ~pending /\ s \notin retired /\ settings.revision < MaxRevision
  /\ settings' = [revision |-> settings.revision + 1, overrides |-> [settings.overrides EXCEPT ![s] = v]]
  /\ disk' = settings'
  /\ UNCHANGED <<at, asks, place, gate, reserved, local, removals, memory, listed, core, bounds>>

(* SettingsStore::removal_image: none if the source overrides nothing. *)
Compatible(q) ==
  LET from == disk.overrides[q.source] IN
  q.target = Nowhere \/ from = Default \/ disk.overrides[q.target] \in {Default, from}

SettingsImage(q) ==
  LET from == disk.overrides[q.source]
      kept == [disk.overrides EXCEPT ![q.source] = Default] IN
  IF from = Default THEN {}
  ELSE {[revision |-> disk.revision + 1,
         overrides |-> [s \in Spaces |-> IF s = q.target THEN from ELSE kept[s]]]}

(* merge_snapshots: the same path with another content is a conflict. *)
Mergeable(q) ==
  q.target = Nowhere \/ \A d \in files[q.source], e \in files[q.target] : d.path = e.path => d = e

MemoryImage(q) == IF q.target = Nowhere THEN {} ELSE files[q.source] \cup files[q.target]
----------------------------------------------------------------------------
Resting == {"idle", "answered", "refused", "failed"}

(* space_assets: the client sees what the Space holds, and decides. *)
Confirm(c, o, s, t) ==
  /\ Readable /\ at[c] \in Resting /\ s \notin retired /\ Free({s}) /\ s # t
  /\ asks' = [asks EXCEPT ![c] = {[op |-> o, source |-> s, target |-> t, assets |-> Inventory(s)]}]
  /\ Move(c, "confirmed")
  /\ UNCHANGED <<place, gate, reserved, local, disk, settings, removals, memory, listed, core, bounds>>

(* A retry repeats an earlier request as it was. *)
Again(c, o) ==
  /\ core = "up" /\ at[c] \in Resting /\ removals[o] # {}
  /\ asks' = [asks EXCEPT ![c] = {Record(o).asks}] /\ Move(c, "confirmed")
  /\ UNCHANGED <<place, gate, reserved, local, disk, settings, removals, memory, listed, core, bounds>>

Ask(c) ==
  /\ core = "up" /\ at[c] \in Resting \cup {"confirmed"} /\ asks[c] # {} /\ calls < MaxCalls
  /\ calls' = calls + 1 /\ Move(c, "waiting") /\ queue' = Append(queue, c)
  /\ UNCHANGED <<asks, place, readers, writer, reserved, local, disk, settings, removals, memory,
                 listed, core, faults, written, late>>

TakeGate(c) ==
  /\ core = "up" /\ at[c] = "waiting" /\ Head(queue) = c /\ readers = {} /\ writer = {}
  /\ queue' = Tail(queue) /\ writer' = {c} /\ Move(c, "looking")
  /\ UNCHANGED <<asks, place, readers, reserved, local, disk, settings, removals, memory, listed, core, bounds>>

(* The end of a call: the task drops its reservations and the gate. *)
Return(c, answer) ==
  /\ Move(c, answer) /\ writer' = writer \ {c} /\ reserved' = [reserved EXCEPT ![c] = {}]
  /\ UNCHANGED <<readers, queue>>

Go(c, next) == Move(c, next) /\ UNCHANGED <<gate, reserved>>

(* An operation that is known is replayed; otherwise nothing may be pending. *)
Look(c, q) ==
  /\ at[c] = "looking"
  /\ \/ \E r \in removals[q.op] : r.asks # q /\ Return(c, "refused")
     \/ \E r \in removals[q.op] : r.asks = q /\ Go(c, IF r.done THEN "publishing" ELSE "importing")
     \/ /\ removals[q.op] = {}
        /\ IF Pending # {} \/ q.target \in retired THEN Return(c, "refused") ELSE Go(c, "reserving")
  /\ UNCHANGED <<asks, place, local, disk, settings, removals, memory, listed, core, bounds>>

Reserve(c, q) ==
  /\ at[c] = "reserving" /\ Free(Touched(q))
  /\ IF Touched(q) \cap retired # {} THEN Return(c, "refused")
     ELSE Move(c, "planning") /\ reserved' = [reserved EXCEPT ![c] = Touched(q)] /\ UNCHANGED gate
  /\ UNCHANGED <<asks, place, local, disk, settings, removals, memory, listed, core, bounds>>

(* Mutant of Plannable: what the client saw may have changed since. *)
PlannableStale(q) ==
  (\A s \in Touched(q) : unfinished[s] = {}) /\ Compatible(q) /\ Mergeable(q)

Plannable(q) ==
  /\ Inventory(q.source) = q.assets /\ \A s \in Touched(q) : unfinished[s] = {}
  /\ Compatible(q) /\ Mergeable(q)

(* The intent is durable before anything changes, and fences both Spaces. *)
Plan(c, q) ==
  /\ at[c] = "planning"
  /\ IF Plannable(q)
     THEN /\ removals' = [removals EXCEPT ![q.op] = {[asks |-> q, image |-> MemoryImage(q),
                                                      settings |-> SettingsImage(q), done |-> FALSE]}]
          /\ retired' = retired \cup Touched(q) /\ pending' = TRUE /\ Go(c, "importing")
     ELSE Return(c, "refused") /\ UNCHANGED <<removals, memory>>
  /\ UNCHANGED <<asks, place, local, disk, settings, listed, core, bounds>>
----------------------------------------------------------------------------
(* finish_space_removal, by a client or by the recovery at startup. *)
Import(t, r) ==
  /\ at[t] = "importing" /\ Go(t, "unindexing")
  /\ files' = IF r.asks.target = Nowhere THEN files ELSE [files EXCEPT ![r.asks.target] = r.image]
  /\ UNCHANGED <<vectors, rows, trash, unfinished, disk, removals, memory, listed, late>>

Unindex(t, r) ==
  /\ at[t] = "unindexing" /\ Go(t, "configuring") /\ vectors' = vectors \ {r.asks.target}
  /\ UNCHANGED <<files, rows, trash, unfinished, disk, removals, memory, listed, late>>

Configure(t, r) ==
  /\ at[t] = "configuring" /\ Go(t, "emptying")
  /\ disk' = IF r.settings = {} THEN disk ELSE CHOOSE image \in r.settings : TRUE
  /\ UNCHANGED <<local, removals, memory, listed, late>>

Empty(t, r) ==
  /\ at[t] = "emptying" /\ Go(t, "dropping") /\ files' = [files EXCEPT ![r.asks.source] = {}]
  /\ UNCHANGED <<vectors, rows, trash, unfinished, disk, removals, memory, listed, late>>

Drop(t, r) ==
  /\ at[t] = "dropping" /\ Go(t, "listing") /\ vectors' = vectors \ {r.asks.source}
  /\ UNCHANGED <<files, rows, trash, unfinished, disk, removals, memory, listed, late>>

(* The rows to be hidden are read before the transaction that hides them. *)
List(t, r) ==
  /\ at[t] = "listing" /\ Go(t, "deleting") /\ listed' = trash[r.asks.source]
  /\ UNCHANGED <<local, disk, removals, memory, late>>

(* finish_space_sql: one transaction; then the target is open again. *)
Acknowledge(t, r) ==
  LET s == r.asks.source
      z == r.asks.target IN
  /\ at[t] = "deleting" /\ Go(t, IF t = Startup THEN "opening" ELSE "publishing")
  /\ rows' = [x \in Spaces |-> IF x = s THEN {} ELSE IF x = z THEN rows[z] \cup rows[s] ELSE rows[x]]
  /\ trash' = IF z = Nowhere THEN [trash EXCEPT ![s] = @ \ listed]
              ELSE [trash EXCEPT ![s] = {}, ![z] = @ \cup trash[s]]
  /\ removals' = [removals EXCEPT ![r.asks.op] = {[r EXCEPT !.done = TRUE, !.image = {}, !.settings = {}]}]
  /\ retired' = retired \ {z} /\ listed' = {}
  /\ UNCHANGED <<files, vectors, unfinished, disk, pending, late>>

(* The recovery finishes every removal, a client the one it asks for. *)
Finishes(t) == {o \in Pending : IF t = Startup THEN TRUE ELSE \E q \in asks[t] : q.op = o}

Finish(t) ==
  /\ \E o \in Finishes(t) : LET r == Record(o) IN
       /\ \/ Import(t, r) \/ Unindex(t, r) \/ Configure(t, r) \/ Empty(t, r) \/ Drop(t, r)
          \/ List(t, r) \/ Acknowledge(t, r)
  /\ UNCHANGED <<asks, place, settings, core, faults, calls, written>>

(* Mutant of Publish: a receipt of an earlier removal unfreezes the writes. *)
PublishAlways(c) ==
  /\ at[c] = "publishing" /\ Return(c, "answered")
  /\ settings' = disk /\ pending' = FALSE
  /\ UNCHANGED <<asks, place, local, disk, removals, retired, listed, core, bounds>>

(* The settings are published and writes admitted, unless a later removal  *)
(* still needs its recovery.                                               *)
Publish(c) ==
  /\ at[c] = "publishing" /\ Return(c, "answered")
  /\ IF Pending = {} THEN settings' = disk /\ pending' = FALSE ELSE UNCHANGED <<settings, pending>>
  /\ UNCHANGED <<asks, place, local, disk, removals, retired, listed, core, bounds>>

Remove(c) ==
  /\ core = "up"
  /\ \/ TakeGate(c) \/ (\E q \in asks[c] : Look(c, q) \/ Reserve(c, q) \/ Plan(c, q))
     \/ Finish(c) \/ Publish(c)
----------------------------------------------------------------------------
Steps == {"importing", "unindexing", "configuring", "emptying", "dropping", "listing", "deleting", "publishing"}

(* Any statement, file or worker may fail: the call fails, all else stays. *)
Fail(c) ==
  /\ core = "up" /\ at[c] \in {"looking", "reserving", "planning"} \cup Steps
  /\ faults < MaxFaults /\ faults' = faults + 1 /\ Return(c, "failed") /\ listed' = {}
  /\ UNCHANGED <<asks, place, local, disk, settings, removals, memory, core, calls, written, late>>

(* The process exits, or cannot finish a removal as it starts. *)
Exit ==
  /\ core # "down" /\ faults < MaxFaults /\ faults' = faults + 1 /\ core' = "down"
  /\ at' = [t \in Tasks |-> IF t \in Clients /\ at[t] \notin {"idle", "confirmed", "answered"} THEN "failed"
                            ELSE IF t \notin Clients /\ at[t] \notin {"idle", "done", "refused"} THEN "gone"
                            ELSE at[t]]
  /\ readers' = {} /\ writer' = {} /\ queue' = <<>> /\ reserved' = [t \in Tasks |-> {}]
  /\ retired' = {} /\ pending' = FALSE /\ listed' = {}
  /\ UNCHANGED <<asks, place, local, disk, settings, removals, calls, written, late>>

(* Mutant of Start: only unfinished removals are read back. *)
StartPending ==
  /\ core = "down" /\ core' = "starting"
  /\ retired' = UNION {Touched(Record(o).asks) : o \in Pending}
  /\ Move(Startup, IF Pending = {} THEN "opening" ELSE "importing")
  /\ UNCHANGED <<asks, place, gate, reserved, local, disk, settings, removals, pending, listed, bounds>>

(* recover_space_removals runs before any worker or API is published. *)
Start ==
  /\ core = "down" /\ core' = "starting"
  /\ retired' = (UNION {{r.asks.source} : r \in UNION {removals[o] : o \in Operations}})
                \cup (UNION {Touched(Record(o).asks) : o \in Pending})
  /\ Move(Startup, IF Pending = {} THEN "opening" ELSE "importing")
  /\ UNCHANGED <<asks, place, gate, reserved, local, disk, settings, removals, pending, listed, bounds>>

Open ==
  /\ core = "starting" /\ at[Startup] = "opening" /\ core' = "up" /\ settings' = disk
  /\ Move(Startup, "idle")
  /\ UNCHANGED <<asks, place, gate, reserved, local, disk, removals, memory, listed, bounds>>

Recover == Start \/ (core = "starting" /\ Finish(Startup)) \/ Open

Commits(w) == \E s \in place[w] : (\E d \in Docs : Commit(w, s, d)) \/ (\E x \in Rows : Complete(w, s, x))

Next ==
  \/ \E c \in Clients :
       \/ \E o \in Operations, s \in Spaces, t \in Spaces \cup {Nowhere} : Confirm(c, o, s, t)
       \/ (\E o \in Operations : Again(c, o)) \/ Ask(c) \/ Remove(c) \/ Fail(c)
  \/ \E w \in Writers :
       (\E s \in Spaces : Admit(w, s)) \/ Work(w) \/ Commits(w) \/ GiveUp(w) \/ Disconnect(w)
  \/ \E k \in Controls : SubmitControl(k) \/ \E s \in Spaces, x \in Rows : DeleteRow(k, s, x)
  \/ \E s \in Spaces, v \in Values \cup {Default} : Override(s, v)
  \/ Exit \/ Recover

(* The tasks of a removal and of a commit belong to the Core, and an       *)
(* admitted request ends; nobody has to ask, retry or start again.         *)
Fairness ==
  /\ \A c \in Clients : WF_vars(Remove(c))
  /\ \A w \in Writers : WF_vars(Work(w)) /\ WF_vars(Commits(w) \/ (at[w] \in {"owning", "answering"} /\ GiveUp(w)))

Spec == Init /\ [][Next]_vars /\ Fairness
----------------------------------------------------------------------------
Requests == [op : Operations, source : Spaces, target : Spaces \cup {Nowhere},
             assets : [files : SUBSET Docs, rows : SUBSET Rows, trash : SUBSET Rows,
                       override : Values \cup {Default}]]
Resources == [revision : Nat, overrides : [Spaces -> Values \cup {Default}]]

TypeOK ==
  /\ DOMAIN at = Tasks /\ core \in {"up", "starting", "down"}
  /\ \A c \in Clients : asks[c] \subseteq Requests
  /\ readers \subseteq Writers /\ writer \subseteq Clients /\ queue \in Seq(Clients)
  /\ reserved \in [Tasks -> SUBSET Spaces] /\ retired \subseteq Spaces /\ pending \in BOOLEAN
  /\ files \in [Spaces -> SUBSET Docs] /\ vectors \subseteq Spaces
  /\ rows \in [Spaces -> SUBSET Rows] /\ trash \in [Spaces -> SUBSET Rows]
  /\ disk \in Resources /\ settings \in Resources /\ listed \subseteq Rows
  /\ \A o \in Operations : \A r \in removals[o] : r.asks \in Requests /\ r.image \subseteq Docs

(* A removal that is recorded and not finished is the only one, its Spaces *)
(* are fenced as soon as anybody could use them, and nobody else owns them. *)
SpacesFenced ==
  \A o, p \in Pending :
    /\ o = p
    /\ core = "up" => /\ Touched(Record(o).asks) \subseteq retired /\ pending
                      /\ \A w \in Writers : reserved[w] \cap Touched(Record(o).asks) = {}

(* Whatever was stored is in some Space, in the trash, or in the image of  *)
(* an unfinished migration, unless a client who saw it had it deleted.     *)
Confirmed == UNION {r.asks.assets.files \cup r.asks.assets.rows \cup r.asks.assets.trash :
                    r \in {x \in UNION {removals[o] : o \in Operations} : x.asks.target = Nowhere}}

NothingLost ==
  \A x \in written :
    \/ \E s \in Spaces : x \in files[s] \cup rows[s] \cup trash[s]
    \/ \E o \in Pending : x \in Record(o).image
    \/ x \in Confirmed

Retired == {r.asks.source : r \in {x \in UNION {removals[o] : o \in Operations} : x.done}}

(* A Space whose removal is done stays empty in all four stores, whoever   *)
(* was still at work in it, and in the trash no row of it can be restored. *)
NothingRecoverable == \A s \in Retired : trash[s] = {}

RetiredEmpty ==
  \A s \in Retired :
    /\ files[s] = {} /\ rows[s] = {} /\ s \notin vectors
    /\ disk.overrides[s] = Default /\ trash[s] \subseteq late
    /\ core = "up" => s \in retired

(* A removal fences what it works on while it is unfinished, and leaves    *)
(* nothing behind once it is done.                                         *)
RemovalComplete == TypeOK /\ SpacesFenced /\ RetiredEmpty

(* The settings that callers see are those on disk whenever writes are     *)
(* admitted, and no update of the file starts from a revision that a       *)
(* removal has already replaced.                                           *)
SettingsPublished ==
  [][/\ disk' # disk => disk'.revision > disk.revision
     /\ core' = "up" /\ ~pending' => settings' = disk']_vars

(* A removal that was called waits for admitted work and is answered, even *)
(* when that work asks for the gate again.                                 *)
RemovalAnswered ==
  \A c \in Clients : at[c] = "waiting" ~> at[c] \in {"answered", "refused", "failed"}
=============================================================================
