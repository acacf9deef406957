---------------------------- MODULE SpaceWorker ----------------------------
(***************************************************************************)
(* One SpaceWorker: a bounded mailbox, a private working copy, a SQLite    *)
(* after-image journal and the materialized files.  A command runs on the  *)
(* working copy, its after-image is committed to the journal, the changed  *)
(* files are written one by one, the image is marked applied, and only     *)
(* then is the caller answered.  The process may exit between any two      *)
(* steps, the operating system may refuse one, a command may be rejected   *)
(* or panic after touching the working copy, and somebody may edit the     *)
(* files by hand.                                                          *)
(***************************************************************************)
EXTENDS SpaceImage, Integers, Sequences, FiniteSets

CONSTANTS
  Nobody,      \* no job is being run
  Ops,         \* the commands callers may submit
  Found,       \* images the files may have before the first checkpoint
  MailboxCap,  \* sync_channel::<Job>(64)
  MaxCalls,    \* bound: commands submitted
  MaxFaults,   \* bound: refusals, panics and process exits
  MaxEdits,    \* bound: edits made by hand
  RacyEdits    \* hand edits may also fall inside an open or a publication

ASSUME WorkerAssumption ==
  /\ Nobody \notin Clients
  /\ Ops \subseteq Op /\ Found \subseteq Image
  /\ MailboxCap \in Nat \ {0}
  /\ {MaxCalls, MaxFaults, MaxEdits} \subseteq Nat
  /\ RacyEdits \in BOOLEAN

VARIABLES
  files,     \* the materialized copy, spaces/<id>/memory
  seq,       \* AUTOINCREMENT of memory_journal
  rows,      \* memory_journal: revision -> [snapshot, applied]
  clearRow,  \* pending_clear: {} or {modules}
  backups,   \* memory-recovery-backups
  pc,        \* where the worker thread is
  boot,      \* it is inside SpaceWorker::restore
  job,       \* whose command it holds
  before,    \* cached_snapshot, or the image restore exported
  cache,     \* the working copy; the after-image while publishing
  base,      \* contents captured when the file plan was (re)validated
  todo,      \* files the current step still has to write
  mailbox,   \* callers whose command is queued
  op,        \* what each client last asked for
  reply,     \* the answer each client holds, or "waiting"
  failure,   \* supervisor status: this Space is reported failed
  committed, \* history: the client's latest command has taken effect
  edited,    \* history: files whose last writer was a hand
  calls, faults, edits  \* how much of each bound is used

disk    == <<files, seq, rows, clearRow, backups>>
thread  == <<pc, boot, job, before, cache, base, todo>>
callers == <<op, reply, committed>>
bounds  == <<calls, faults, edits>>
vars == <<disk, thread, mailbox, callers, failure, edited, bounds>>
----------------------------------------------------------------------------
Empty == [p \in Paths |-> Absent]

(* SELECT ... ORDER BY revision DESC LIMIT 1 *)
LatestRevision == CHOOSE r \in DOMAIN rows : \A q \in DOMAIN rows : q <= r
Latest == rows[LatestRevision].snapshot
Checkpointed == DOMAIN rows # {}

(* UPDATE memory_journal SET applied = 1 WHERE revision = <the latest> *)
MarkedApplied ==
  [rows EXCEPT ![LatestRevision] = [snapshot |-> Latest, applied |-> TRUE]]

(* Mutant: the compaction keeps one revision too many. *)
AdmittedKeepingThree(image) ==
  LET kept == {r \in DOMAIN rows : r >= seq - 1 \/ ~rows[r].applied}
  IN [r \in kept \cup {seq + 1} |->
        IF r = seq + 1 THEN [snapshot |-> image, applied |-> FALSE] ELSE rows[r]]

(* INSERT of an after-image, and in the same transaction the deletion of   *)
(* every applied revision older than the one before it.                    *)
Admitted(image) ==
  LET kept == {r \in DOMAIN rows : r >= seq \/ ~rows[r].applied}
  IN [r \in kept \cup {seq + 1} |->
        IF r = seq + 1 THEN [snapshot |-> image, applied |-> FALSE] ELSE rows[r]]

(* Mutant: only the changed files are copied. *)
PreservedPartly(expected) ==
  LET changed == {p \in Paths : files[p] # expected[p]}
  IN IF changed = {} THEN backups ELSE backups \cup {[p \in changed |-> files[p]]}

(* preserve_materialized_changes: a full copy of files that are not as     *)
(* expected, before anything replaces them.                                *)
Preserved(expected) == IF files = expected THEN backups ELSE backups \cup {files}

WriteFile(p, body) ==
  /\ files' = [files EXCEPT ![p] = body]
  /\ edited' = edited \ {p}

Goto(label) == pc' = label

(* The command is over and the worker, holding `image`, waits for another. *)
Finish(r, image) ==
  /\ reply' = [reply EXCEPT ![job] = r]
  /\ Goto("idle") /\ job' = Nobody
  /\ before' = image /\ cache' = image
  /\ base' = Empty /\ todo' = {}

Forget ==
  /\ Goto("down") /\ boot' = FALSE /\ job' = Nobody
  /\ before' = Empty /\ cache' = Empty /\ base' = Empty /\ todo' = {}

(* Mutant: the panicking incarnation takes the reply channel with it. *)
DiscardSilently == Forget /\ failure' = TRUE /\ UNCHANGED reply

(* The incarnation is thrown away; its caller is answered or dropped. *)
Discard ==
  /\ \E r \in {"error", "uncertain"} : reply' = [reply EXCEPT ![job] = r]
  /\ Forget
  /\ failure' = TRUE
----------------------------------------------------------------------------
Init ==
  /\ files \in Found
  /\ seq = 0 /\ rows = [r \in {} |-> Empty] /\ clearRow = {} /\ backups = {}
  /\ pc = "down" /\ boot = FALSE /\ job = Nobody
  /\ before = Empty /\ cache = Empty /\ base = Empty /\ todo = {}
  /\ mailbox = <<>>
  /\ op = [c \in Clients |-> [kind |-> "read"]]
  /\ reply = [c \in Clients |-> "ok"]
  /\ committed = [c \in Clients |-> FALSE]
  /\ failure = FALSE /\ edited = {}
  /\ calls = 0 /\ faults = 0 /\ edits = 0

(* SpaceHandle::submit; a full mailbox makes the caller wait in send. *)
Submit(c, o) ==
  /\ reply[c] # "waiting" /\ calls < MaxCalls
  /\ Len(mailbox) < MailboxCap
  /\ mailbox' = Append(mailbox, c)
  /\ op' = [op EXCEPT ![c] = o]
  /\ reply' = [reply EXCEPT ![c] = "waiting"]
  /\ committed' = [committed EXCEPT ![c] = FALSE]
  /\ calls' = calls + 1
  /\ UNCHANGED <<disk, thread, failure, edited, faults, edits>>

(* The thread takes a job; without an incarnation it restores one first.   *)
Receive ==
  /\ mailbox # <<>>
  /\ job' = Head(mailbox) /\ mailbox' = Tail(mailbox)
  /\ \/ pc = "idle" /\ boot' = FALSE /\ Goto("exec")
     \/ pc = "down" /\ boot' = TRUE /\ Goto(IF Checkpointed THEN "preserve" ELSE "stage")
  /\ UNCHANGED <<disk, before, cache, base, todo, callers, failure, edited, bounds>>
----------------------------------------------------------------------------
(* SpaceWorker::restore *)

RestorePreserve ==
  /\ pc = "preserve"
  /\ backups' = Preserved(Latest)
  /\ todo' = {p \in Paths : files[p] # Absent}
  /\ Goto("wipe")
  /\ UNCHANGED <<files, seq, rows, clearRow, boot, job, before, cache, base,
                 mailbox, callers, failure, edited, bounds>>

(* import_snapshot removes every file ... *)
RestoreWipe ==
  /\ pc = "wipe"
  /\ \/ \E p \in todo : WriteFile(p, Absent) /\ todo' = todo \ {p} /\ Goto("wipe")
     \/ /\ todo = {} /\ todo' = {p \in Paths : Latest[p] # Absent} /\ Goto("fill")
        /\ UNCHANGED <<files, edited>>
  /\ UNCHANGED <<seq, rows, clearRow, backups, boot, job, before, cache, base,
                 mailbox, callers, failure, bounds>>

(* ... and writes the ones of the journaled image, which is then marked.   *)
RestoreFill ==
  /\ pc = "fill"
  /\ \/ /\ \E p \in todo : WriteFile(p, Latest[p]) /\ todo' = todo \ {p}
        /\ Goto("fill") /\ UNCHANGED rows
     \/ /\ todo = {} /\ rows' = MarkedApplied /\ Goto("stage")
        /\ UNCHANGED <<files, edited, todo>>
  /\ UNCHANGED <<seq, clearRow, backups, boot, job, before, cache, base,
                 mailbox, callers, failure, bounds>>

(* The working copy is rebuilt from the materialized files, and completed. *)
RestoreStage ==
  /\ pc = "stage"
  /\ before' = files /\ cache' = WithLayout(files)
  /\ Goto(IF WithLayout(files) = files /\ Checkpointed THEN "layout" ELSE "publish")
  /\ UNCHANGED <<disk, boot, job, base, todo, mailbox, callers, failure, edited, bounds>>

(* initialize_layout on the materialized copy; the incarnation is ready.   *)
RestoreLayout ==
  /\ pc = "layout"
  /\ files' = WithLayout(files)
  /\ edited' = {p \in edited : files'[p] = files[p]}
  /\ before' = cache
  /\ failure' = FALSE /\ boot' = FALSE /\ Goto("exec")
  /\ UNCHANGED <<seq, rows, clearRow, backups, job, cache, base, todo,
                 mailbox, callers, bounds>>
----------------------------------------------------------------------------
(* SpaceWorker::execute_with_clear and the commands that bypass it.        *)

Unavailable == op[job].kind # "acknowledge" /\ clearRow # {}

(* require_available fails, or the answer needs nothing durable. *)
ExecuteRead ==
  /\ pc = "exec"
  /\ \/ Unavailable /\ Finish("error", before)
     \/ ~Unavailable /\ op[job].kind = "read" /\ Finish("ok", before)
  /\ UNCHANGED <<disk, boot, mailbox, op, committed, failure, edited, bounds>>

Acknowledge ==
  /\ pc = "exec" /\ op[job].kind = "acknowledge"
  /\ clearRow' = {}
  /\ committed' = [committed EXCEPT ![job] = TRUE]
  /\ Finish("ok", before)
  /\ UNCHANGED <<files, seq, rows, backups, boot, mailbox, op, failure, edited, bounds>>

Mutates == op[job].kind \in {"write", "clear"} /\ ~Unavailable

ExecuteMutation ==
  /\ pc = "exec" /\ Mutates
  /\ LET after == Effect(op[job], before)
     IN IF after = before /\ op[job].kind # "clear"
        THEN /\ Finish("ok", before)
             /\ committed' = [committed EXCEPT ![job] = TRUE]
        ELSE /\ cache' = after /\ Goto("publish")
             /\ UNCHANGED <<job, before, base, todo, reply, committed>>
  /\ UNCHANGED <<disk, boot, mailbox, op, failure, edited, bounds>>

(* Mutant: the working copy of a rejected command is kept. *)
ExecuteRejectedDirty ==
  /\ pc = "exec" /\ Mutates
  /\ Finish("error", Effect(op[job], before))
  /\ UNCHANGED <<disk, boot, mailbox, op, committed, failure, edited, bounds>>

(* The command returned an error: the working copy is imported again. *)
ExecuteRejected ==
  /\ pc = "exec" /\ Mutates
  /\ Finish("error", before)
  /\ UNCHANGED <<disk, boot, mailbox, op, committed, failure, edited, bounds>>
----------------------------------------------------------------------------
(* SpaceWorker::publish(before, cache) *)

(* Mutant: hand edits are not looked for. *)
PublishUnpreserved ==
  /\ pc = "publish" /\ Goto("journal")
  /\ UNCHANGED <<disk, boot, job, before, cache, base, todo,
                 mailbox, callers, failure, edited, bounds>>

PublishPreserve ==
  /\ pc = "publish"
  /\ backups' = Preserved(before)
  /\ Goto("journal")
  /\ UNCHANGED <<files, seq, rows, clearRow, boot, job, before, cache, base, todo,
                 mailbox, callers, failure, edited, bounds>>

(* Mutant: the clear intent is left out of the transaction. *)
PublishJournalOnly ==
  /\ pc = "journal"
  /\ rows' = Admitted(cache) /\ seq' = seq + 1
  /\ committed' = IF boot THEN committed ELSE [committed EXCEPT ![job] = TRUE]
  /\ Goto("prepare")
  /\ UNCHANGED <<files, clearRow, backups, boot, job, before, cache, base, todo, mailbox,
                 op, reply, failure, edited, bounds>>

(* The commit point: after-image, clear intent and compaction, one transaction. *)
PublishJournal ==
  /\ pc = "journal"
  /\ rows' = Admitted(cache) /\ seq' = seq + 1
  /\ IF boot THEN UNCHANGED <<clearRow, committed>>
     ELSE /\ committed' = [committed EXCEPT ![job] = TRUE]
          /\ clearRow' = IF op[job].kind = "clear" THEN {op[job].modules} ELSE clearRow
  /\ Goto("prepare")
  /\ UNCHANGED <<files, backups, boot, job, before, cache, base, todo, mailbox,
                 op, reply, failure, edited, bounds>>

(* Mutant: deleted files are not part of the plan. *)
PublishPrepareWrites ==
  /\ pc = "prepare"
  /\ base' = files /\ todo' = {p \in Paths : cache[p] \notin {files[p], Absent}}
  /\ Goto("validate")
  /\ UNCHANGED <<disk, boot, job, before, cache, mailbox, callers, failure, edited, bounds>>

(* prepare_snapshot_commit: the files that differ, with their contents now. *)
PublishPrepare ==
  /\ pc = "prepare"
  /\ base' = files /\ todo' = {p \in Paths : files[p] # cache[p]}
  /\ Goto("validate")
  /\ UNCHANGED <<disk, boot, job, before, cache, mailbox, callers, failure, edited, bounds>>

(* apply_prepared_commit looks at every target before the first write. *)
PublishValidate ==
  /\ pc = "validate"
  /\ \A p \in todo : files[p] \in {base[p], cache[p]}
  /\ base' = files /\ todo' = {p \in todo : files[p] # cache[p]}
  /\ Goto("apply")
  /\ UNCHANGED <<disk, boot, job, before, cache, mailbox, callers, failure, edited, bounds>>

PublishConflict ==
  /\ pc = "validate"
  /\ \E p \in todo : files[p] \notin {base[p], cache[p]}
  /\ Discard
  /\ UNCHANGED <<disk, mailbox, op, committed, edited, bounds>>

PublishApply ==
  /\ pc = "apply"
  /\ \/ /\ \E p \in todo : WriteFile(p, cache[p]) /\ todo' = todo \ {p}
        /\ Goto("apply")
     \/ todo = {} /\ Goto("mark") /\ UNCHANGED <<files, edited, todo>>
  /\ UNCHANGED <<seq, rows, clearRow, backups, boot, job, before, cache, base,
                 mailbox, callers, failure, bounds>>

(* The image is marked applied; only now is the caller answered. *)
PublishMark ==
  /\ pc = "mark"
  /\ rows' = MarkedApplied
  /\ IF boot
     THEN Goto("layout") /\ UNCHANGED <<job, before, cache, base, todo, reply>>
     ELSE Finish("ok", cache)
  /\ UNCHANGED <<files, seq, clearRow, backups, boot, mailbox, op, committed,
                 failure, edited, bounds>>
----------------------------------------------------------------------------
(* The last idle holder of the address lets go: the supervisor evicts it.  *)
Evict ==
  /\ pc = "idle" /\ mailbox = <<>>
  /\ Forget
  /\ UNCHANGED <<disk, mailbox, callers, failure, edited, bounds>>

Interrupted ==
  {"preserve", "wipe", "fill", "stage", "layout",
   "publish", "journal", "prepare", "validate", "apply", "mark"}

(* commit_mutations undoes what it wrote when one of its writes fails. *)
RolledBack == [p \in Paths |-> IF base[p] # cache[p] /\ p \notin todo
                               THEN base[p] ELSE files[p]]

(* A panic, or the operating system refuses a step: nothing of the step is *)
(* done and the incarnation goes.  A rollback may fail as well.            *)
Refuse ==
  /\ faults < MaxFaults /\ faults' = faults + 1
  /\ pc \in Interrupted \/ (pc = "exec" /\ Mutates)
  /\ files' \in IF pc = "apply" THEN {files, RolledBack} ELSE {files}
  /\ Discard
  /\ UNCHANGED <<seq, rows, clearRow, backups, mailbox, op, committed, edited, calls, edits>>

(* The process exits; what is on disk stays. *)
Crash ==
  /\ faults < MaxFaults /\ faults' = faults + 1
  /\ Forget
  /\ mailbox' = <<>> /\ failure' = FALSE
  /\ reply' = [c \in Clients |-> IF reply[c] = "waiting" THEN "uncertain" ELSE reply[c]]
  /\ UNCHANGED <<disk, op, committed, edited, calls, edits>>

(* Somebody edits, creates or deletes a materialized file by hand. *)
HandEdit(p, body) ==
  /\ edits < MaxEdits /\ edits' = edits + 1
  /\ RacyEdits \/ pc \in {"down", "idle", "exec"}
  /\ files[p] # body
  /\ files' = [files EXCEPT ![p] = body]
  /\ edited' = edited \cup {p}
  /\ UNCHANGED <<seq, rows, clearRow, backups, thread, mailbox, callers, failure, calls, faults>>

Restore == RestorePreserve \/ RestoreWipe \/ RestoreFill \/ RestoreStage \/ RestoreLayout
Execute == ExecuteRead \/ Acknowledge \/ ExecuteMutation \/ ExecuteRejected
Publish == PublishPreserve \/ PublishJournal \/ PublishPrepare \/ PublishValidate
             \/ PublishConflict \/ PublishApply \/ PublishMark
Work == Receive \/ Restore \/ Execute \/ Publish

Next ==
  \/ \E c \in Clients, o \in Ops : Submit(c, o)
  \/ Work
  \/ Evict \/ Refuse \/ Crash
  \/ \E p \in Paths, body \in Bodies \cup {Absent} : HandEdit(p, body)

Spec == Init /\ [][Next]_vars /\ WF_vars(Work)
----------------------------------------------------------------------------
Row == [snapshot : Image, applied : BOOLEAN]
Labels == {"down", "idle", "exec"} \cup Interrupted

JournalType ==
  /\ seq \in Nat
  /\ DOMAIN rows \subseteq Nat /\ \A r \in DOMAIN rows : rows[r] \in Row

FilesType ==
  /\ files \in Image
  /\ clearRow \in SUBSET (SUBSET Modules)
  /\ backups \subseteq Image
  /\ edited \subseteq Paths

ThreadType ==
  /\ pc \in Labels /\ boot \in BOOLEAN /\ job \in Clients \cup {Nobody}
  /\ before \in Image /\ cache \in Image /\ base \in Image
  /\ todo \subseteq Paths
  /\ failure \in BOOLEAN

CallersType ==
  /\ mailbox \in Seq(Clients)
  /\ op \in [Clients -> Op]
  /\ reply \in [Clients -> {"waiting", "ok", "error", "uncertain"}]
  /\ committed \in [Clients -> BOOLEAN]
  /\ calls \in Nat /\ faults \in Nat /\ edits \in Nat

(* Every variable has its type. *)
TypeOK == JournalType /\ FilesType /\ ThreadType /\ CallersType

(* The journal never loses its authority: at every instant, inside every   *)
(* open, publication, crash or refusal, it holds the newest after-image    *)
(* and at most the one before it, and an image that was never marked       *)
(* applied is the newest.  (publish admits and compacts in one             *)
(* transaction; restore marks the newest before anything else is admitted.) *)
JournalRetention ==
  /\ DOMAIN rows \subseteq {seq - 1, seq}
  /\ seq > 0 => seq \in DOMAIN rows
  /\ \A r \in DOMAIN rows : r = seq \/ rows[r].applied

(* A worker that serves commands serves the newest journaled image: a      *)
(* rejected, panicked, refused or unfinished command leaves nothing of     *)
(* itself in the working copy, and hand edits never reach it.              *)
ServesJournal ==
  pc \in {"idle", "exec"} =>
    /\ Checkpointed
    /\ before = Latest /\ cache = Latest
    /\ rows[LatestRevision].applied

(* Between commands the materialized copy differs from the newest image    *)
(* only in the files somebody edited by hand since the worker wrote them.  *)
MaterializedCurrent ==
  pc \in {"idle", "exec"} => \A p \in Paths \ edited : files[p] = Latest[p]

(* Journal, cache and files tell one story through restarts, rejections,   *)
(* panics and failures: the journal keeps its newest image and at most the *)
(* one before, the worker serves that image, and the files hold it.        *)
CopiesAgree == TypeOK /\ JournalRetention /\ ServesJournal /\ MaterializedCurrent

(* A hand-edited content is replaced only after it was backed up, or when  *)
(* the journal still holds the same content for that file.                 *)
EditsBackedUp ==
  [][\A p \in edited \ edited' :
       files[p] \in {Absent} \cup {b[p] : b \in backups} \cup {rows[r].snapshot[p] : r \in DOMAIN rows}]_vars

(* "After the initial migration checkpoint, direct filesystem edits are    *)
(* never ingested into the worker cache": what the worker serves is what   *)
(* the journal holds.                                                      *)
NeverIngested == pc \in {"idle", "exec"} => cache = Latest

(* The Space seen from outside: one durable image, atomic commands that    *)
(* take effect at most once, answers that tell the truth.                  *)
Store == IF Checkpointed THEN Latest ELSE WithLayout(files)

Space == INSTANCE AtomicSpace WITH
  store <- Store, intent <- clearRow, checkpointed <- Checkpointed

ImplementsSpace == Space!Spec

(* Every submitted command is answered, whatever failed, panicked or had   *)
(* to be reopened on the way.                                              *)
EveryCallAnswered == \A c \in Clients : reply[c] = "waiting" ~> reply[c] # "waiting"
=============================================================================
