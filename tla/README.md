# Formal models of MOMO Core

TLA+ modules, TLC configurations and TLAPS proofs for MOMO Core: the workers that own the memory
of a Space, the reservations that order their owners, the commits that maintenance, reviews, clears
and evidence control make to that memory, durable controls and idempotent responses, the stream of
a response, MO State and its disposition model, the removal of a Space, local records and portable
containers, the documents of memory and the records of their provenance, the semantic graph with
its vector index, and what of all this fits a model's window. Every definition is translated from
the Rust source; `PROJECT.json` maps each one to its lines. Paths below are relative to the crate
that is named, and file and line references are those of the commit the project was written for.

- [Inventory](#inventory): the parts of the system, their state, operations and hazards
- [Modules](#modules): which module models what, and how
- [Runs](#runs): what TLC checks, with which bounds and which fairness
- [Proofs](#proofs): what TLAPS proves, and along which argument
- [Findings and remarks](#findings-and-remarks): where the code and its documents disagree
- [Not modelled](#not-modelled) and [Plan](#plan)

To repeat a run: `tlc -workers 2 -config Controls.cfg MCControls.tla` (`PROJECT.json` names the
module and configuration of each). To repeat the proofs: `tlapm` with each module `*Proofs.tla`.

## Inventory

MOMO Core is one process per data directory (an instance lock, `momo-core/src/lib.rs`). It keeps
conversations and journals of work in one SQLite database with one connection, and the memory of
each Space as Markdown files under `spaces/<id>/memory`, owned by a thread per Space. Callers are
tokio tasks: HTTP handlers that can be dropped at any await, and tasks that the Core owns and
always finishes (`finish_commit`).

| Component | State | Operations | Correct when |
|---|---|---|---|
| **Space worker** `space_worker.rs` | journal of after-images (SQLite), private cache, materialized files, backups, pending clear | open/restore, execute, publish, clear, acknowledge, read | what callers see is exactly the committed image, through failures, panics, exits and hand edits |
| **Space supervisor** `space_worker.rs` | table of workers, waiters of an initialization, reference counts | lookup, initialize, evict, drop, restart | files and journal of a Space never have two owners; nobody waits for ever |
| **Space reservations** `space_worker/reservations.rs` | active Spaces, queue of requests | acquire, cancel, release | one owner per Space; nobody is overtaken or starves |
| **Memory commits** `recovery.rs`, `orchestration/maintenance.rs`, storage `maintenance.rs`, `reviews.rs`, `lifecycle.rs`, `provenance.rs` | turns, batches, prepared plans, reviews, lifecycle events, stopped evidence, clear intent, the mark of a Space | complete a response, two maintenance lanes, lifecycle, reviews, clear, evidence control, recovery | no turn lost or consolidated twice; what is cleared or stopped stays so |
| **Controls** `api/runtime_api/control.rs`, storage `responses.rs` | claims and responses of controls, a lock per resource | delete conversation, clear memory, switch character | an identity acts once, its response is final, no claim is stranded |
| **Responses** `orchestration/execution.rs`, `coordination.rs`, `response.rs` | operation states, locks, attempted conversations; `response_operations`, messages | execute, cancel, retry, complete | one user message and one answer per identity, in one conversation |
| **One generation** `orchestration/generation.rs`, `coordination.rs`, `gateway.rs`, momo-server `response_api.rs`, `response_stream.rs` | permits, gates of lanes, cancellation tokens, event buffer, deltas and tool calls of a provider | admit, queue, stream, cancel, time out, close | the client's events are numbered in increasing order (a failed send uses a number up) and tell what is recorded, with one end; a cancelled generation stops |
| **MO State** `orchestration/state.rs`, storage `state.rs`, `momo-memory/src/state.rs` | operations, revisions and generations of a Space, snapshots, bands | observe, compile, publish, complete, clear | a revision names one content; a projection excludes what its reader did not witness |
| **Disposition model** `momo-memory/src/ddm.rs` | bands of the turn before | validate, activate, band, show | bands follow the history of turns, with hysteresis |
| **Space removal** `space_lifecycle.rs` | lifecycle gate, removal records, retired Spaces, settings | admit, confirm, retire, migrate, recover | nobody works in a Space that is being removed; an interrupted removal is finished; nothing unconfirmed is lost |
| **Local records** storage `conversations.rs`, `characters.rs`, `messages.rs`, `deletion.rs`, `deleted.rs` | rows, tombstones with payload | save, rename, edit, archive, delete, restore, purge, forget | what nobody purged is there or can be restored |
| **Portable containers** `portable.rs` | a container, a job | export, preflight, import | what goes out is what is here, and comes in again |
| **Memory documents** `momo-memory/src/workspace.rs`, `lifecycle.rs` | documents, archive, clocks per context | create, edit, archive, restore, delete, a turn | shared documents are kept by every context that uses them |
| **Provenance records** `momo-memory/src/provenance.rs`, `api/runtime_api/provenance.rs` | ledger of revisions, parents and policies; bindings, revoked evidence | write, move, delete, grant, bind, revoke, import | a reader sees only what its policy and its evidence vouch for |
| **Semantic graph, vector store** `momo-memory/src/nsg.rs`, storage `vector.rs`, `api/runtime_api/embeddings.rs` | nodes, candidates, vectors | patch, approve, write, archive, rebuild, retrieve | patches do not change canon; the index is one state of the graph |
| **Retrieval and context** `momo-memory/src/workspace.rs`, `context.rs`, `orchestration/history.rs`, `response.rs` | none | recall, budget, shorten, assemble | what is sent fits, in the promised order, with the newest turn |
| **Everything else** | see [Not modelled](#not-modelled) | | |

Interactions. A response locks its operation, then its conversation, and after its completion
schedules a maintenance lane. A lane reads pending turns, asks a model without owning anything,
stages a batch, reserves the Space, plans the change from the worker's image, stores the plan,
applies it through the worker, and acknowledges it. Every owner of a Space first passes the
recovery, which finishes a pending clear and then applied plans. Reservation threads, workers and
the supervisor talk by messages; everything else shares the database and async locks. A removal takes the lifecycle gate exclusively, which
every admitted request holds shared. An index rebuild and the local API take no reservation at all.

Hard behaviours, each at its line under `hazards` in `PROJECT.json`: exits and failures between
journal, files and SQL; callers dropped between statements; state read before a model call and
used minutes later; retries that race the first attempt; cancellations before there is anything to
cancel; a full table of workers, a full event buffer; shutdown with handles in use; hand edits of
the materialized files; records, evidence and policies changed in any order.

## Modules

```
AtomicSpace  <==implements==  SpaceWorker  (uses SpaceImage)
                              SpaceSupervisor      one worker per Space
AtomicReservations <==implements== SpaceReservations   one owner per Space
MemoryCommits      owners of one Space over the facts of AtomicSpace / AtomicReservations
Controls           conversations' controls (clear_memory is an owner in MemoryCommits)
Responses          idempotent operations (a completion is CompleteResponse in MemoryCommits)
Generation         one streamed response, from its permit to the last event its client reads
SpaceRemoval       the lifecycle gate, removal and migration
StateOperations    the journal of MO State        StateProjection -> Disposition  what it compiles
LocalRecords  <-  PortableImport                  local rows and trash, beside export and import
MemoryDocuments    documents and their clocks     RecordPolicies  who may read them, and on what
Knowledge  ->  SemanticGraph -> GraphRecall, MemoryRecall, ContextBudget
```

**SpaceImage** holds the pure part: images of files as functions of paths, the layout a Space
must have (`initialize_layout`), what a command does to an image, and which files a clear empties.
Bodies of files are opaque values; parsing is left out.

**SpaceWorker** is the thread of one Space. `files`, `rows`, `clearRow`, `backups` survive an exit;
`cache`, `before`, `pc`, `job`, `todo` do not. `restore` is RestorePreserve, RestoreWipe/RestoreFill
(one file at a time), RestoreStage and RestoreLayout; a command is ExecuteRead, Acknowledge,
ExecuteMutation or ExecuteRejected; `publish` is PublishPreserve, PublishJournal (journal commit,
with the compaction and a clear's intent in one transaction), PublishPrepare, PublishValidate or
PublishConflict, PublishApply per file, PublishMark. Refuse lets the operating system refuse any
step, Crash ends the process, HandEdit changes a file. The first open of a worker and its rebuild
after a discarded incarnation are the same code and the same actions.

**AtomicSpace** is what a Space promises to its callers: one durable image, commands that take
effect at most once and atomically, answers that tell whether they did, "uncertain" only for
commands whose outcome recovery decides.

**SpaceSupervisor** is the registry: one action per message the supervisor handles (Answer with
its outcomes Hand, Wait, Initialize, Refuse; Settle), Evict and Joined for an eviction and the join
it waits for, Open and Announce for the caller that initializes, WorkerEnds for a thread without
owners, DropCore, DropEntry, Closed and Restart for the life of the Core. `Holders` is the strong
count of a handle beyond the table: callers and messages in flight. Three branches of the code are
deliberately absent, because no state reaches them: a caller blocks in `recv`, so a reply is always
received; the supervisor outlives its senders; a worker that failed to open announces an error.

**SpaceReservations** is the admission thread with its message queue; **AtomicReservations** is
the promise that requests own disjoint sets of Spaces and are admitted atomically.

**MemoryCommits** models one Space. The owners are two lanes, lifecycle, reviews, clear, evidence
control, a reader and the recovery at startup. `holder` is the reservation (that it is exclusive is
what SpaceReservations establishes) and `image` is what the worker holds (that it changes
atomically is what AtomicSpace states), reduced to the facts of each module that came from turns,
events and reviews. What the model generates is abstracted to the set of turns it read. Histories:
`cleared` and `excused` (turns that may be missing), `applied` (how often a turn was
consolidated), `overtaken` (lanes that a clear passed between reading and staging).

**Controls** follows an attempt through lock, record, claim, action and response, inside the task
that outlives its caller. The local API, which does not take the control lock, is LocalDelete and
LocalRename. Histories: `stranded` (a claim whose release failed), `revived` (a conversation saved
again after its deletion).

**Responses** follows an attempt from `enter_operation` to its completion. Every statement is a
step; Fail drops the attempt at any of them (a failing statement, a model error, a caller that
disconnects), Restart loses all process state, Cancel sets the shared flag. `attempted` is the
in-memory note that lets a retry find the conversation of an attempt which stopped before its
operation was recorded. Histories: `created`, `orphans` (an attempt ended before it could note
or record its conversation), `warned` (cancelled before the last check).

**Generation** follows two HTTP requests. `stream` and `sent` are the channel and what the client
read; Send numbers an event and fits it under the cumulative limit or fails the stream; Lookup and
Acquire find the weak gate of a lane and queue at it; Register, Signal and Mark are the three places
a cancellation leaves its trace; Gather, Kept and Whole are the gateway's accumulation of tool calls,
Latest and Tools what the forwarder sends of them meanwhile; Record trims the text and stores it.
Opening and closing events of one kind are folded into one. Whether a permit is refused is a
nondeterministic choice. Each attempt has a request identity of its own: sharing one is Responses.

**SpaceRemoval** has four kinds of tasks: clients that confirm and ask for a removal, writers
(admitted requests that own a Space, and their commits, which survive the caller), controls (which
outlive their caller and hold neither gate nor reservation) and the recovery at the start. A step is
a statement: inventory, plan, files, settings, vectors, SQL, publication. Reservations are atomic, as
AtomicReservations promises. `written` and `late` are histories: what was stored, and rows a
control deleted after the removal had listed the trash. Two removals queued at once were checked
once outside the runs (10.6 million states); in the run a client asks again after an answer.

**StateOperations** follows a response from its readings to its completion: View, Reserve, Observe,
Resolve and Generate (the profile of the character), Publish, Complete, with Drop at any of them.
`registry` holds source revisions, generation, operations and snapshots in one record, because they
change in single transactions. **StateProjection** compiles what an observation says: Contract
(the built-in contract merged with a user's, dimension by dimension), MatchedRules, Absences, the
closure of Excluded over sources and links, conflicts, order and Trimmed to a budget.
**Disposition** evaluates a profile. MCStateOperations puts them side by side: in a behaviour the
journal moves, or one case is compiled, or one profile lives through four turns; the cases are
compared with definitions written from what the rules promise, not from how they are computed.
Left out: evidence texts, cues and fingerprints, the lines for the graph's constraints; an override
that cannot be parsed leaves the built-in contract, marked degraded. The witness marker in the body
of a scene counts as a tag. Activations are whole per cent with a rounded logistic function.

**LocalRecords** gives each handler that reads in one statement and writes in a later one two steps.
`db` holds rows and tombstones, with the payload that restores an object and what it took with it.
`fate` is a history: kept, dropped, or exposed to a race that the handler does not exclude. A purge,
a forgotten tombstone and a restore of a payload that is no longer the stored one drop what nobody
can have any more; a conversation saved over its tombstone exposes its messages.
`NothingUnrecoverable` asks of the others, so these losses are outside it. The payload of a
conversation that is there again does not count as a way back: the next deletion replaces it.

**PortableImport** extends LocalRecords with one job at a time, an export or import that proceeds
record by record beside the clients, fails and is cut off; `job.before` is what was there when it
began, and `job.quiet` says that nobody else has written since. An import of conversations first
looks which characters are there (`seen`) and saves by that look, so one whose character is deleted
meanwhile fails on the foreign key. MCPortable adds one bound: a second job, which repeats a broken
import or brings in what the first one exported, has `RepeatCalls` calls beside it.

**MemoryDocuments** is one Space's long-term documents with a clock for each pair of document and
context. **RecordPolicies** is the ledger beside them; a file is known by the number of the write
that made its text, so a fingerprint is exact. MCMemoryDocuments lets either move.
Not modelled there: texts besides references, identity-less scenes, the protection by tags, and
the older `run_maintenance_at`.

**SemanticGraph** has one step per operation on the files, since each is one commit of SpaceWorker,
and three per rebuild of the index, since that owns nothing. **GraphRecall**, **MemoryRecall** and
**ContextBudget** are operators; **Knowledge** composes them: what a response would be sent is a
function of graph, index and conversation, compared for every state, query, budget and request with
definitions of what recall and context promise. Weights and scores are whole hundredths, token
counts add up, anchor scores are given by the query.

MC modules give constants their values. MCGeneration (a stream, or what it is told: Knowledge),
MCMemoryDocuments and MCStateOperations also put two specifications side by side that share
nothing, each moving only while the other is in its initial state, so that a run pays for the sum
of their states and not for the product; MCGeneration and MCMemoryCommits restrict what arrives in
one behaviour: a second stream is begun beside the plain script, or beside what is left when another
script is read (`Contended`), since how chunks are forwarded and how streams contend for the gate do
not depend on each other. MCMemoryDocuments bounds turns and writes together (`Effort`). MCSpaceWorker admits hand
edits between commands and, on a planned file, between the plan of a publication and its
validation, where the code detects the conflict. `SYMMETRY` is used where a run has no liveness
property.

## Runs

| Run | Instance | Shows |
|---|---|---|
| `space_worker` | 2 callers, 2 files, 2 commands, 1 fault, 1 hand edit, between commands or into a planned publication | journal, cache and files agree; edits are backed up; implements AtomicSpace; answers every call |
| `space_reservations` | 3 requests, all sets of 2 Spaces, cancellation | no overtaking, implements AtomicReservations, everybody is admitted |
| `space_supervisor` | 3 callers, 3 Spaces, table of 2, 1 waiter | one worker per Space, threads within the limit, handles serve; lookups answered, the Core closes |
| `memory_commits` | 1 turn and a second turn of another conversation, a review or the second lane; lifecycle, evidence control, 1 clear, 1 fault | recovery before use, plans applicable, nothing lost, nothing twice, clear and stop are final |
| `clear_overtakes` (violation) | 1 turn, 1 lane, 1 clear | an overtaken lane brings cleared turns back |
| `controls` | 3 attempts at 4 controls on 2 conversations, 1 renaming, 2 faults | an identity acts once, final responses, no stranded claim, rows converge |
| `responses` | 3 attempts at 3 responses, any cancellations and deletions, 2 faults | spoken and answered once, unbroken turns, exact cancellation |
| `space_removal` | 2 Spaces with a document, a row each, an override; 1 client with 3 calls of 2 operations, 1 writer, 1 control, 1 fault or exit | fenced while it runs, empty when done, nothing unconfirmed lost, settings published, the removal answered |
| `mo_state` | 2 operations, 2 edits, 1 clear, 1 fault; or one case of memory, override, profile and budget; or 4 turns of a profile | revisions identify contents, completed operations are published and counted once, retries get through, projections and bands as defined |
| `local_records` | 1 character, 1 conversation, 2 messages, 2 clients with 3 calls, 2 jobs (1 call in all once the second began), 1 failure or exit | everything unpurged is recoverable; export exact, import exact in both modes, and keeping what it may not replace |
| `memory_documents` | 2 documents, 2 contexts with 4 turns each, 3 writes, turns and twice the writes within 11; or 2 records with a candidate, 3 texts, steps up to a price of 6 | retention shared by contexts, only unreferenced documents forgotten, reads vouched for |
| `generation` | 2 streams of a Space, buffer of 2, limit of 9 events, 6 provider scripts (the plain one beside the second stream), a client that leaves or cancels; or 3 graph files, 6 patches, 2 rebuilds in batches of 1, 4 documents, 4 kinds of messages, 9 requests, 3 queries, 2 budgets, edits and messages within 9 | exact stream, one generation per lane, cancelled ones stop, the end is told; recall and context exact and within budget, canon protected, index a snapshot |

**Bounds.** Faults, edits, clears, turns and attempts are bounded, and each bound is a constant
that guards its action. One fault is enough to stop at every point of every protocol, and what
follows a fault is the recovery, whose steps are idempotent; where a second fault matters (a retry
that is itself interrupted) the bound is two. Two commands make the second meet whatever the first
left. Two turns of two conversations separate a batch from its neighbour and stopped from allowed
evidence. Three attempts are the first, a retry that races it, and one after both; three callers
against a table of two make eviction, refusal and waiting happen. A mailbox of one is full at
once, as is a buffer of two between a producer and closing events. Two contexts and four turns let
a document cool in one while the other keeps it, pass both thresholds, and come back. Two rebuilds
and edits between their steps make an older reading finish last. The budgets of `generation` range
from one that does not hold the current message to one that holds everything. The limits 128, 64,
1,024, and the byte limits of the code are constants of the models, one unit for an event.

**Fairness.** SpaceWorker: weak fairness of the thread. SpaceReservations: of the thread, and of
the owners that take an answer and let go, without which nobody else could be admitted.
SpaceSupervisor: of the supervisor, of callers that open and announce (they run to the end of a
synchronous function), of workers without owners; nobody has to release a handle, and nobody has
to close the Core. SpaceRemoval: of the tasks of a removal and of a commit, which belong to the
Core (`finish_commit`), and of admitted requests, which end one way or another. StateOperations: of
a response that is under way and is not dropped; that a retry is made is not assumed. Generation:
of the tasks and of the delivery of a cancellation; `EndsTold` assumes besides (`Attentive`) that the
timer fires and that a client that stays reads on. No fairness is assumed of
faults, hand edits, new calls, retries, cancellations, clears, deletions, or of a provider. The
other modules are checked for safety only.

**Deadlock** is checked in the runs of SpaceSupervisor and MemoryCommits, where somebody can always
move. In the others the number of calls is bounded, and everything may stop when all are answered;
what must not stop there is stated as liveness (`EveryCallAnswered`, `EventuallyAdmitted`,
`RemovalAnswered`, `RetriesComplete`, `EndsTold`).

**Mutants.** For every property of a passing run a module holds a definition that changes one
piece of the code the way a plausible bug would (a dropped guard, one too many, a flag that is not
reset, two statements instead of one transaction); it stands before the definition it changes.
With that change TLC finds the property violated, which shows that the property depends on the code.

**Further checks**, whose properties stand in the modules and can be run with the constants of the
runs: `SpaceReleased` of MemoryCommits (every owner lets the Space go; one turn, one review, one
lane, specification `Spec`), and the properties named under Remarks, which are violated.

## Proofs

TLC checks small instances; the theorems hold for every value of the constants, under the named
assumptions of the modules (`WorkerAssumption`, `LayoutAssumption`, `ControlsAssumption`,
`LimitAssumption`, `ResponsesAssumption`, `BoundsArePositive`, `CommitAssumption`, `FreeAssumption`,
`RemovalAssumption`, `TasksAssumption`, `FirstAssumption`, `RecordsAssumption`, `PoliciesAssumption`,
`PatchesAreLists`), which TLC evaluates. They say that bounds are numbers, that
limits are positive where the code's are, that values used as "none" are none of the others, and
that the operations of a patch are a list. One theorem, `StreamIsExact`, also assumes of the world that
the provider keeps to its protocol (`ProviderIsSound`, which the scripts of the run satisfy).
Bounds on calls, faults and histories are constants, so the theorems cover behaviours of any length.

Each proof has the same shape: an inductive invariant as a conjunction of named parts, one lemma
per action or group of actions that says why each part survives it, one lemma for the whole
next-state relation, and the theorems as consequences.

**SpaceWorkerProofs** (any paths, bodies, clients, commands, bounds):

- `JournalInvariant`: `Spec => []JournalInv`. `JournalRetention` is not inductive: that a new
  image may be admitted depends on the worker having marked the previous one. `JournalInv` adds
  that the job in hand is one somebody waits for, that the places of a boot follow one another,
  that an image exists wherever the worker relies on one, and `MarkedBeforeNext`, that the newest
  image is marked at every place from which a publication can start. From it follow
  `TypeCorrect` and `RetentionHolds`, hand edits at any moment included.
- `CopyInvariant`: `Spec => []CopyInv`, assuming `RacyEdits = FALSE`, because with racing edits
  it is false (Remarks, 1). It relates cache, journal and files at each place: what
  `restore` has wiped and filled so far, and what `publish` has written and still has to write
  (`todo`). From it follow `ServesJournalHolds` and `MaterializedHolds`, and with the others
  `CopiesAgreeHolds`, the property the run checks.
- `SpaceImplemented`: the worker implements AtomicSpace, under the same assumption. The abstract
  image is the newest journaled one, so the step that matters is the journal transaction; that it
  is a step of the command in hand, and no other step is, needs `CommandInvariant`: every waiting
  call has one place, in the mailbox or with the thread, and the command in hand is committed
  exactly from its journal transaction to its answer, with `cache` being its effect on what the
  journal holds. A failed publication, a crash and a rebuild are stutters or answer "uncertain".
- `EditsBackedUpHolds`: that a replaced content can be found again rests on `BackupInv`, which
  follows it from the preservation at the start of an open or a publication to the last file
  that is replaced. The run allows besides an edit of a planned file that the
  validation detects; that case is only model-checked.

SpaceWorkerProofs, of the vector index (any nodes, edits, batches, provider failures and rebuilds at once,
one step of the graph being one commit of its Space): `IndexSnapshotHolds`. A rebuild reads, embeds and
replaces without a reservation, and a vector is reused by the hash of its text, so that the new index
is what the graph was at one moment has to survive edits and other rebuilds in between. `IndexInv`
says why: a rebuild has the vectors of exactly the documents that are not left to embed, and a
stored vector is of the text its hash names, so that taking it is embedding again.

SpaceWorkerProofs, of the graph (any nodes, modes, patches and edits of files): `CanonIsProtected`. A protected
node changes only through a reviewed patch or an edit of its file. A patch prepares a graph operation
by operation and commits the last one, so what a single operation may do (`ApplyKeepsMode`) has to be
carried along the list, and back from the changed nodes to the mode each had before (`PatchedKeepsCanon`).
The induction over the operations is one over numbers, made from the least number of a set
(`LeastNumber`, `AllNumbers`), since the induction theorems of the library take an operator as parameter.

**SpaceReservationsProofs** (any requests, any Spaces): a reservation passes through four
places, being granted, answered, held, and in a release message; `ReservationInvariant` says that
these places never overlap and that the thread's active set covers them, which mutual exclusion
alone does not say and every step needs. From it follow `TypeHolds`, `ExclusionHolds`, and, step by step,
`ReservationsImplemented`: the thread implements AtomicReservations under the refinement mapping
that takes a request as an owner while its reservation is answered or held. `NoOvertakingHolds`
rests on `QueueInvariant`: whoever waits is kept, looked at, granted or still in a message; these
stand in the order in which the calls were sent; and what a kept entry wants is
blocked until the end of the scan.

**SpaceSupervisorProofs** (any callers, Spaces, handles, limit): `OneWorkerHolds`. One worker per
Space is not inductive, because a caller that initializes works outside the table. `SupervisorInv`
accounts for every caller (it stands in one lookup, one queue of waiters, or one initialization),
every initialization (one initializer, then one announcement, which names all the workers of the
Space there are), and every thread (it has an entry unless it is being joined), and counts the
entries, which bound the threads.

SpaceSupervisorProofs, of the ledger of provenance (any records, turns, grants, containers):
`LedgerInvariant` and from it `ReadsAreVouched`, which is what the run checks as `ReadsVouched`. A reader
sees a history and a text; `HistoryInv` says what the one tells of the other: a policy never stands
without a pinned text, who changes a text in the open pins it, a pinned text with a policy
was made by the owner or the author or was there when the author granted it, and the evidence of a history
covers what the text rests on, and, where each revision named its own, nothing else but that and
what was inherited. The proof assumes that the authors of texts can be told apart and that a
container lists records (`PoliciesAssumption`). The histories had to follow the code further than
the run's first property did: evidence of a replaced text is handed on to whatever was read with it
(`former`), and so is a past that an import dropped (`lost`).

**RecordsProofs**, of the controls (any attempts, requests, titles and bounds): that an attempt acts alone for its
key and its conversation is not inductive. `ControlInvariant` adds that an attempt holds the lock
of its conversation from its first look at the record to its end (so that attempts that act work on
different conversations), that what it asks is one thing and never changes, and that a record is
kept under the key of its request (so that only the owner of a claim can complete or abandon it).
The insertion over an empty record decides between attempts with the same key and different locks.
From it follow `ControlsTyped`, `ClaimsOwned`, `ClaimsReleased`, together `ClaimsKeptHolds`, and, because only a claim is ever
completed or deleted, `ReplaysStable`. `ConvergesHolds` adds `TargetInv`: a tombstone hides its
row, and who is about to answer has reached its target, unless a save revived the conversation.

RecordsProofs, of the local records (any identities, clients, Spaces, containers and bounds):
`NoMessageUnrecoverable`, of the rows and the trash beside an import or export. `RecordsCorrect` adds what the
schema guarantees and every statement has to keep: one row per identity, and no message without its
conversation (`Sound`). That is why a deletion that finds its conversation gone loses nothing by
keeping the older payload, and why a payload gives back all it took. `CallInv` and `JobInv` say what a handler or a
job carries from one statement to the next: an identity of the right table, records the container
has. The strengthened `Recoverable` came from this proof: with a payload beside a live conversation
counted as a way back, the next deletion of that conversation, which replaces the payload, refutes
the induction step.

`PortableHolds` adds what is in the rows and where a job stands. `ContentInv` is the content: a row
has the fields the code reads, a message has one text per identity, the payloads in the trash and
the container are built alike, and a handler carries what its next statement writes. While nobody
else changes the store (`quiet`), `ExportInv` says that what an export has read so far is the Space
as it is; the context flag of a message is cleared when its texts are read and set again from the
rows that follow. `ImportInv` says, for each kind of record, what an import has not come to, what is
half done (a card saved without its profile, a conversation retitled and not yet rearchived) and
what is done; the done part is the merge of what was there with the container. `KeepsExisting`
holds because an import that keeps existing records never comes to one that was there. A failure or
an exit ends the job between two of these steps, which is why the half done ones are states of
their own.

RecordsProofs, of the documents (any documents, contexts, bindings, references, weights and periods):
`SharedRetentionHolds` and `ForgottenUnreferencedHolds`. What they say of turns really spent is kept in
two histories, and a clock is a number in a ledger that edits, moves by hand and deletions do not
touch: only the next turn that looks at the document compares its fingerprint and starts the clocks
again. `DocumentsCorrect` ties them: a context has a clock exactly if it ever used the document, the
clock counts no more turns than the history, and a document that the last turn left in use has
no clock in the archive. With other periods than the run has, the proof did not go through and TLC
found why: the history began anew with any turn, and not only with one that looks at the document,
while the clocks of one that is archived, restored and archived again between two looks go on (its
fingerprint is the same, `lifecycle.rs:74`). The history now follows the looks.

**ResponsesProofs** (any attempts, requests, conversations): `ResponsesInv` says what an attempt
may rely on between two statements. It holds the lock of its operation from the load of its record on,
so that what it loaded is the record until it writes; it holds the lock of the conversation it is
in; the record knows what was said and where; no identity of a conversation is referred to before
it is used; and a conversation without a record is noted, about to be, or an orphan. From it
follow `AnsweredOnceHolds`, `CancelExactHolds` (a flag goes with the last attempt inside, and who
is cancelled before its last check ends there) and, by steps, `KeepsTurnsHold`.

**AttemptProofs**, of a generation (any attempts, scripts, buffers and limits): `OneGenerationHolds`, because whoever waits for a gate
or has its permit keeps alive the gate the map names for its Space (`GateInv`).
`StreamInOrderHolds`, the first part of `StreamExact`: what a client has read and what is in its
channel are one line of increasing numbers below the next one, with no event behind an end, and
a batch of closing events has its end in the last place (`StreamInv`). In passing, the
channel never exceeds its buffer, nor the stream its limit.

`StreamIsExact` proves all of `StreamExact`, if the provider keeps to its protocol (`ProviderIsSound`).
The gateway gathers the chunks while they are forwarded, by other rules: it keeps the first name of
a call, the announcement has the latest, and arguments are appended whether or not the call was
announced. `Content` says why the two agree until the stream closes: what the line has told of the
text and of each call is what was gathered of it, a call is announced exactly when it has an id and
a name, before its arguments, the calls are numbered from none on, and what the provider still
sends goes with them. Then the closing events add up with the line (`ContentCloses`), a batch that is
partly sent adds up with what is left of it, and a client that left has only a beginning.
What events tell is a recursive function over their number; that it goes on with each event, and stays the
same for lines that differ in numbers only, is proved by induction over numbers (`ToldInOrder`,
`ToldMore`).

`CancelIsSeen`, the safety part of a
cancellation, from `CancelInv`: a mark belongs to a running attempt that somebody cancelled, a
registration stands from before the last look at the mark to the end of the stream, and who is
signalled while it streams is who the stream waits for; so no cancellation falls between the look
and the registration.

AttemptProofs, of the journal of MO State (any responses, Spaces, contents, edits, clears and faults):
`RevisionsAlwaysIdentify` and `JournalAlwaysExact`, from `StateInv`. That equal revisions name equal contents is not
inductive: an operation may have observed a revision the row has since replaced. `RevisionInv`
adds that the row of a Space knows a revision at least as new as any an operation observed, and that
revisions start afresh only when a clear has left no operation. `AttemptInv` says what an attempt
may rely on until it publishes: it holds the reservation, its own operation waits for its snapshot, and
the bands it starts from went through published operations only, so that adding its own never repeats
one; `SnapshotsNumbered`, `BandsInv` and `PhaseInv` are what the tables then say of each other.

**MemoryCommitsProofs** (any turns, lanes, clears, conversations, faults), in four layers:

- `RecoveryCompleteHolds` from `CoreInv`: who is inside the Space owns it; at most one plan is
  prepared or one clear intended, it is in the hands of who began it or of a recovery, and else
  the Space is marked; so no other owner gets past it, and nothing changes the image a plan expects.
- `ConsolidatedOnceHolds` from `TurnInv`: a turn that was consolidated is done, or its plan still
  waits for its acknowledgement; what a lane carries from its look to its commit was never
  consolidated, and no batch of its kind is prepared meanwhile.
- `StopIsFinalHolds` from `StopInv`: no batch holds a turn whose evidence was stopped.
- `ClearIsFinalHolds` from `ClearInv`: what was cleared is not in the image, and once SQL was
  swept neither pending, staged nor carried, except by a lane the clear overtook.

**SpaceRemovalProofs** (any Spaces, documents, rows, operations and tasks): `RemovalInvHolds`.
`Control` says who may act: whoever is inside a removal owns the gate, or is the recovery of a Core
that is not up, and a writer owns its Space, which is not retired. `Data` says that the removal
that is not done is the only one and keeps its Spaces retired and the settings frozen
(`FenceInv`, `SettingsInv`); that each stage passed is and stays a fact about one store
(`EmptiedInv`, `DoneInv`); and that what is taken away is in the image, in the target, or was
confirmed (`ImageInv`). From it follow `RemovalCompleteHolds` and, by steps, `NothingLostHolds` and
`SettingsPublishedHolds`.

**Only model-checked.** Liveness (`EveryCallAnswered`, `EventuallyAdmitted`, `NobodyWaitsForEver`,
`RemovalAnswered`, `RetriesComplete`, `CancelStops`, `EndsTold`) is out of the prover's reach. What
is computed from data is compared with definitions over bounded inputs: `ProjectionSound`,
`RecallExact` and `ContextExact`. Their definitions fold or search graphs, documents and texts, and the
library's induction over data takes an operator as parameter, which no installed prover instantiates;
only inductions over numbers were made by hand, from the least number of a set.

## Findings and remarks

Recorded as a violation run: `clear_overtakes`. A lane that read its turns before a clear stages and
commits them after it (storage `maintenance.rs:230`); "cleared plans cannot resurrect content" does
not cover it. The same race may leave a batch whose turns no longer exist, which its lane can never
read again.

Remarks: what modelling showed besides. A property in parentheses is one that stands in the module
and that TLC finds violated when it is added to the `.cfg` of the run.

Workers, controls, responses:

1. `restore` reads the files a second time after it has restored them (`space_worker.rs:427`), so an
   edit in between is journaled and served (`NeverIngested` under `Spec`), against
   "direct filesystem edits are never ingested" (`docs/architecture_1_0.md:234`); and an edit
   between the comparison of the files (`:526`) and their replacement (`:575`) is in no backup
   (`EditsBackedUp` under `Spec`).
2. `save_conversation` looks for a tombstone and upserts without a transaction (storage
   `conversations.rs:5`). A deletion by the local API in between leaves a row beside its tombstone,
   and later switches of it are acknowledged without effect (`Converges`), against "the defined
   controls converge on an explicit target state" (`docs/space_model_1_0.md:155`).
3. `docs/http_api_1_0.md:48` and `docs/space_model_1_0.md:152` say that a concurrent retry of a
   control is rejected as a conflict; the code waits for the resource lock (`control.rs:16`) and
   replays. A control whose claim a restart released is executed again by its retry, and may undo
   one that was acknowledged in between.
4. An attempt that stops between `save_conversation` and `begin_response_operation`
   (`response.rs:1018`, `:1049`) leaves a conversation without messages after a restart.
5. `cancel` answers true after the last check although the response is then committed, and its flag
   also stops an attempt of the same identity that entered meanwhile.

Generation: at the cumulative limit the failure event itself may not fit, so a stream can end without
a terminal event. The forwarder keeps the last id and name of a tool call, the gateway the first; an
argument delta may be sent under an empty item id. A cancellation does not wake a task that is queued
at a gate. A client that stops reading holds the admission of its response. The models tell an id or name
that is absent (`None`) from an empty one, which the gateway keeps and the forwarder replaces; a
provider that is sound sends no empty ones (`ProviderIsSound`).

MO State: memory read by one operation at two moments may be observed as one snapshot
(`SnapshotConsistent`; `MO_State_v2.md` section 7.1). The built-in absence rule names no character,
so that what others witnessed counts as unwitnessed. Exclusion follows the sources only of events
that are unwitnessed themselves (`docs/context_ab_engineering_evidence_rc3.zh-CN.md:33`); a degraded
projection excludes nothing. With the match mode "first" only the first absence rule excludes.

Space removal: a `delete_conversation` whose caller is gone holds neither the gate nor a reservation,
and the trash is listed before the SQL transaction, so a row it deletes in between stays recoverable
in the trash of a removed Space (`NothingRecoverable`; `docs/space_lifecycle.zh-CN.md:61`). The retry
of an unfinished removal reserves no Spaces; the fence makes that safe.

Local records and containers: a container with a conversation that is tombstoned here passes the
preflight, is not saved, and its messages fail on the foreign key after other records were written
(`PreflightSuffices`; `docs/moc_profile_0_3.md:20`). A restore of a conversation that the list offers
fails when its character was purged meanwhile (`OffersHold` with three calls). A restore reads the
payload before its transaction (storage `deleted.rs:31`): after a purge, or a deletion of a newer state, it
brings back what it read and discards the newer payload (`Drop`). An import that keeps
what exists and is repeated after a failure between a card and its profile never imports the profile.
Message tombstones are not consulted by an import.

Documents and provenance: a patch may create a document under the identity of a forgotten one
(`NoReuse`; `Dual-Mem_Wiki_v1.md:79`, `:253`, `workspace.rs:1228`). Evidence accumulates over
revisions, so evidence of a replaced text keeps a record readable. An import with replacement
replaces the ledger as a whole, and local histories of records the container does not hold are lost;
one that keeps skips the ledger altogether. A decay or move of an untracked document creates a
history without policy, and it stops being readable (`docs/memory_provenance_runtime.md` says bound
untracked records may stay in use). A move pins whatever text the file has.

Graph and context: automatic `create_node` into another file does not look for its id
(`Narrative_Semantic_Graph_v2.md:1495`), after which approval calls the node ambiguous, and two canon
nodes of one id make every rebuild of the index fail. Expansion keeps the first source of a node, not
the best score (`:926`). The normalisation by `max_rrf.max(1.0)` never takes effect. The approval of
a candidate applies its change to whatever its node has become. The newest plain turn can be dropped
when only the overhead of its message fits. An identity scope with budget 0 fingerprints nothing. A
rebuild of the index reads and replaces without reserving the Space.

## Not modelled

Out of reach or without state of its own: encoding and encryption of containers, HTTP routing and
authentication, model requests, vision, similarity in floating point, parsing and rendering of
Markdown, character formats, types of configuration. Of what is modelled, left out are: tool rounds
and images of a response; validation of requests; `updated_at`; drafts and context policies of
conversations; the default assistant and metadata of a removed Space; evidence and cue texts of
projections; scenes and validity times in provenance; merging of configuration layers, prompt
spaces, governance, model registry. Each component in `PROJECT.json` says which part that is.

## Plan

What is left to prove: `ProjectionSound`, `RecallExact` and `ContextExact`, which compare computed
results with their definitions and need an induction over the data they are computed from.

Possible later modules: drafts and context policies of conversations, the tool rounds of a response,
merging of settings.
