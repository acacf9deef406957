-------------------------- MODULE StateOperations --------------------------
(***************************************************************************)
(* The journal of MO State for the Space that responses write to.  Each    *)
(* response reads its sources, reserves the Space, observes what it read   *)
(* as revisions, compiles one projection, publishes it with the bands of   *)
(* the disposition model, asks the model, and completes.  Attempts end at  *)
(* any step and are retried; memory, the character and the journal change  *)
(* between and beside them.                                                *)
(***************************************************************************)
EXTENDS Integers, Sequences, FiniteSets, SequencesExt

CONSTANTS
  Requests,        \* responses, by their operation key
  Sources, Managed, \* the Spaces that are sources of a response, and the one it writes to
  Contents, Nothing, \* what a Space may hold; Nothing: it is blank
  Retrieved,       \* what retrieval returns of a content: the input of the projection
  Definitions, Written,  \* texts of the character, and the first of them
  Nobody,          \* nobody owns the reservation
  MaxChanges, MaxClears, MaxFaults

ASSUME StateAssumption ==
  /\ Managed \in Sources /\ Nothing \in Contents /\ Written \in Definitions /\ DOMAIN Retrieved = Contents /\ Nobody \notin Requests
  /\ {MaxChanges, MaxClears, MaxFaults} \subseteq Nat

VARIABLES
  memory,      \* the content of each Space
  owner,       \* who owns the reservation of Managed
  registry,    \* mo_state_spaces and mo_state_source_versions: {} or {row}
  operations,  \* mo_state_operations, by key, as sets
  bands,       \* ddm_projection_states: {} or {row}; steps: the projections it went through
  definition, cache,  \* the character, and the definition its cached profile is for
  at, read, profile, found,  \* each attempt: place, sources, profile, bands it starts from
  responded,   \* the state operation of each completed response
  changes, clears, faults

journal == <<registry, operations, bands>>
inputs  == <<memory, definition, cache>>
attempt == <<at, read, profile, found>>
bounds  == <<changes, clears, faults>>
stateVars == <<inputs, journal, attempt, owner, responded, bounds>>

Views == [Sources -> {Retrieved[c] : c \in Contents}]
Keys  == Requests \X Views

View(reading) == [s \in Sources |-> Retrieved[reading[s]]]

(* state_key: the request with what was retrieved for it. *)
KeysOf(r) == {<<r, View(x.sources)>> : x \in {y \in read[r] : y.observed}}
Key(r) == CHOOSE k \in KeysOf(r) : TRUE
Row(S) == CHOOSE x \in S : TRUE

StateInit ==
  /\ memory \in [Sources -> {Nothing}] /\ owner = Nobody
  /\ registry = {} /\ operations = [k \in Keys |-> {}] /\ bands = {}
  /\ definition = Written /\ cache = {}
  /\ at = [r \in Requests |-> "idle"] /\ read = [r \in Requests |-> {}]
  /\ profile = [r \in Requests |-> {}] /\ found = [r \in Requests |-> <<>>]
  /\ responded = [r \in Requests |-> {}] /\ changes = 0 /\ clears = 0 /\ faults = 0

Go(r, next) == at' = [at EXCEPT ![r] = next]
Fault == faults < MaxFaults /\ faults' = faults + 1
----------------------------------------------------------------------------
(* An attempt captures the character, then reads its sources under their   *)
(* reservations and fingerprints them there; or goes on without them.      *)
Begin(r) ==
  /\ at[r] = "idle" /\ Go(r, "reading")
  /\ profile' = [profile EXCEPT ![r] = {definition}] /\ read' = [read EXCEPT ![r] = {}]
  /\ UNCHANGED <<found, faults, owner, journal, cache, responded>>

ReadSources(r) ==
  /\ at[r] = "reading" /\ owner = Nobody /\ Go(r, "reserving")
  /\ \/ UNCHANGED faults /\ read' = [read EXCEPT ![r] = {[sources |-> memory, observed |-> TRUE]}]
     \/ Fault /\ read' = [read EXCEPT ![r] = {}]
  /\ UNCHANGED <<profile, found, owner, journal, cache, responded>>

Reserve(r) ==
  /\ at[r] = "reserving" /\ owner = Nobody /\ owner' = r /\ Go(r, "observing")
  /\ UNCHANGED <<read, profile, found, faults, journal, cache, responded>>

(* Mutant of NextVersion: a known source keeps its revision. *)
NextVersionFirst(known, c) ==
  LET first == {[revision |-> 1, content |-> c]} IN
  IF known = {} THEN first ELSE {[v EXCEPT !.content = c] : v \in known}

(* next_revision, for a row that starts at zero without a fingerprint. *)
NextVersion(known, c) ==
  IF \E v \in known : v.content = c THEN known
  ELSE {[revision |-> IF known = {} THEN 1 ELSE Row(known).revision + 1, content |-> c]}

Blanks == [versions |-> [s \in Sources |-> {}], published |-> 0, current |-> {}]

(* Mutant of Observe: an observation replaces the one before it. *)
ObserveAfresh(r) ==
  /\ at[r] = "observing" /\ Go(r, "resolving")
  /\ \/ KeysOf(r) = {} /\ UNCHANGED <<registry, operations>>
     \/ \E k \in KeysOf(r) :
          LET row == IF registry = {} THEN Blanks ELSE Row(registry)
              now == [s \in Sources |-> NextVersion(row.versions[s], Row(read[r]).sources[s])] IN
          /\ registry' = {[row EXCEPT !.versions = now]}
          /\ operations' = [operations EXCEPT ![k] = {[phase |-> "applying", versions |-> now, snapshot |-> {}]}]
  /\ UNCHANGED <<profile, found, read, faults, owner, bands, cache, responded>>

(* observe_mo_state_operation: the first observation stays. *)
Observe(r) ==
  /\ at[r] = "observing"
  /\ \/ /\ KeysOf(r) = {} /\ Go(r, "resolving") /\ UNCHANGED <<registry, operations, read, faults>>
     \/ /\ \E k \in KeysOf(r) : \E o \in operations[k] :
             Go(r, IF o.snapshot = {} THEN "resolving" ELSE "replying")
        /\ UNCHANGED <<registry, operations, read, faults>>
     \/ /\ \E k \in KeysOf(r) :
             LET row == IF registry = {} THEN Blanks ELSE Row(registry)
                 now == [s \in Sources |-> NextVersion(row.versions[s], Row(read[r]).sources[s])] IN
             /\ operations[k] = {}
             /\ registry' = {[row EXCEPT !.versions = now]}
             /\ operations' = [operations EXCEPT ![k] = {[phase |-> "applying", versions |-> now, snapshot |-> {}]}]
        /\ Go(r, "resolving") /\ UNCHANGED <<read, faults>>
     \/ /\ KeysOf(r) # {} /\ Fault /\ Go(r, "resolving")
        /\ read' = [read EXCEPT ![r] = {[x EXCEPT !.observed = FALSE] : x \in @}]
        /\ UNCHANGED <<registry, operations>>
  /\ UNCHANGED <<profile, found, owner, bands, cache, responded>>
----------------------------------------------------------------------------
Compatible(r, p) ==
  {b \in bands : b.profile \in p /\ \E x \in read[r] : b.partition = View(x.sources)}

(* The bands of this profile and these sources are the next one's start.   *)
Resolved(r, p) ==
  /\ Go(r, "publishing") /\ profile' = [profile EXCEPT ![r] = p]
  /\ found' = [found EXCEPT ![r] = IF Compatible(r, p) = {} THEN <<>> ELSE Row(Compatible(r, p)).steps]

(* resolve_ddm_profile: a cached profile of this text, or a generated one, *)
(* which is kept only if the character is still the one that was captured. *)
Resolve(r) ==
  /\ at[r] = "resolving"
  /\ \/ profile[r] \cap cache # {} /\ Resolved(r, profile[r])
     \/ profile[r] \cap cache = {} /\ Go(r, "generating") /\ UNCHANGED <<profile, found>>
  /\ UNCHANGED <<read, faults, owner, journal, cache, responded>>

Generate(r) ==
  /\ at[r] = "generating"
  /\ \/ definition \in profile[r] /\ Resolved(r, profile[r]) /\ cache' = profile[r] /\ UNCHANGED faults
     \/ definition \notin profile[r] /\ Resolved(r, {}) /\ UNCHANGED <<cache, faults>>
     \/ Fault /\ Resolved(r, {}) /\ UNCHANGED cache
  /\ UNCHANGED <<read, owner, journal, responded>>

Published(o, row, degraded) ==
  [o EXCEPT !.phase = "projected",
            !.snapshot = {[number |-> row.published + 1, version |-> row.versions[Managed],
                           versions |-> o.versions, degraded |-> degraded]}]

NextBands(r, degraded) ==
  IF degraded \/ profile[r] = {} THEN bands
  ELSE {[profile |-> Row(profile[r]), partition |-> View(Row(read[r]).sources), steps |-> Append(found[r], Key(r))]}

(* publish_mo_state_snapshot: snapshot, current snapshot and bands in one  *)
(* transaction, once per operation.                                        *)
Publish(r) ==
  /\ at[r] = "publishing" /\ Go(r, "replying")
  /\ \/ KeysOf(r) = {} /\ UNCHANGED <<journal, read, faults>>
     \/ \E k \in KeysOf(r), degraded \in BOOLEAN : \E o \in operations[k], row \in registry :
          LET new == Published(o, row, degraded) IN
          /\ IF degraded THEN Fault ELSE UNCHANGED faults
          /\ o.snapshot = {}
          /\ operations' = [operations EXCEPT ![k] = {new}]
          /\ registry' = {[row EXCEPT !.published = @ + 1, !.current = new.snapshot]}
          /\ bands' = NextBands(r, degraded) /\ UNCHANGED read
     \/ /\ KeysOf(r) # {} /\ Fault
        /\ operations' = [operations EXCEPT ![Key(r)] = {[o EXCEPT !.phase = "failed"] : o \in @}]
        /\ read' = [read EXCEPT ![r] = {[x EXCEPT !.observed = FALSE] : x \in @}]
        /\ UNCHANGED <<registry, bands>>
  /\ UNCHANGED <<profile, found, owner, cache, responded>>

(* The reservation ends with the reply of the model ... *)
Reply(r) ==
  /\ at[r] = "replying" /\ Go(r, "replied") /\ owner' = Nobody
  /\ UNCHANGED <<read, profile, found, faults, journal, cache, responded>>

(* Mutant of Complete: the state operation is not looked at. *)
CompleteAnyway(r) ==
  /\ at[r] = "replied" /\ responded' = [responded EXCEPT ![r] = KeysOf(r)] /\ Go(r, "done")
  /\ operations' = [k \in Keys |-> IF k \in KeysOf(r)
                                   THEN {[o EXCEPT !.phase = "completed"] : o \in operations[k]}
                                   ELSE operations[k]]
  /\ UNCHANGED <<read, profile, found, faults, owner, registry, bands, cache>>

(* ... so the operation may be gone when the response completes, which     *)
(* fails then as a whole.                                                  *)
Complete(r) ==
  /\ at[r] = "replied"
  /\ \/ /\ \A k \in KeysOf(r) : \E o \in operations[k] : o.phase \in {"projected", "completed"}
        /\ responded' = [responded EXCEPT ![r] = KeysOf(r)] /\ Go(r, "done")
        /\ operations' = [k \in Keys |-> IF k \in KeysOf(r)
                                         THEN {[o EXCEPT !.phase = "completed"] : o \in operations[k]}
                                         ELSE operations[k]]
     \/ /\ \E k \in KeysOf(r) : \A o \in operations[k] : o.phase \notin {"projected", "completed"}
        /\ Go(r, "idle") /\ UNCHANGED <<operations, responded>>
  /\ UNCHANGED <<read, profile, found, faults, owner, registry, bands, cache>>

(* Mutant of Drop: the reservation outlives its attempt. *)
DropHolding(r) ==
  /\ at[r] \notin {"idle", "done"} /\ Fault /\ Go(r, "idle")
  /\ UNCHANGED <<owner, read, profile, found, journal, cache, responded>>

(* A timeout, a cancellation, an error, a caller that is gone. *)
Drop(r) ==
  /\ at[r] \notin {"idle", "done"} /\ Fault /\ Go(r, "idle")
  /\ owner' = IF owner = r THEN Nobody ELSE owner
  /\ UNCHANGED <<read, profile, found, journal, cache, responded>>

Step(r) == ReadSources(r) \/ Reserve(r) \/ Observe(r) \/ Resolve(r) \/ Generate(r) \/ Publish(r) \/ Reply(r) \/ Complete(r)
----------------------------------------------------------------------------
(* Owners of the Space change its memory; other Spaces have theirs. *)
Change(s, c) ==
  /\ changes < MaxChanges /\ changes' = changes + 1 /\ c # memory[s] /\ (s = Managed => owner = Nobody)
  /\ memory' = [memory EXCEPT ![s] = c]
  /\ UNCHANGED <<definition, cache, journal, attempt, owner, responded, clears, faults>>

(* clear_space_memory_state, by an owner of the Space; bands and versions  *)
(* go with the row they refer to.                                          *)
Clear ==
  /\ clears < MaxClears /\ clears' = clears + 1 /\ owner = Nobody
  /\ memory' = [memory EXCEPT ![Managed] = Nothing]
  /\ registry' = {} /\ operations' = [k \in Keys |-> {}] /\ bands' = {}
  /\ UNCHANGED <<definition, cache, attempt, owner, responded, changes, faults>>

EditCharacter(d) ==
  /\ changes < MaxChanges /\ changes' = changes + 1 /\ d # definition /\ definition' = d
  /\ UNCHANGED <<memory, cache, journal, attempt, owner, responded, clears, faults>>

(* reset_managed_ddm_profile waits for a profile that is being generated. *)
ResetProfile ==
  /\ cache # {} /\ cache' = {} /\ \A r \in Requests : at[r] # "generating"
  /\ UNCHANGED <<memory, definition, journal, attempt, owner, responded, bounds>>

StateNext ==
  \/ \E r \in Requests : (Begin(r) \/ Step(r) \/ Drop(r)) /\ UNCHANGED <<memory, definition, changes, clears>>
  \/ \E s \in Sources, c \in Contents : Change(s, c)
  \/ Clear \/ ResetProfile \/ \E d \in Definitions : EditCharacter(d)

Fairness == \A r \in Requests : WF_stateVars(Step(r) /\ UNCHANGED <<memory, definition, changes, clears>>)

StateSpec == StateInit /\ [][StateNext]_stateVars /\ Fairness
----------------------------------------------------------------------------
Rows == {o \in UNION {operations[k] : k \in Keys} : TRUE}

TypeOK ==
  /\ memory \in [Sources -> Contents] /\ owner \in Requests \cup {Nobody} /\ cache \subseteq Definitions
  /\ \A k \in Keys : Cardinality(operations[k]) <= 1
  /\ \A o \in Rows : o.phase \in {"applying", "projected", "completed", "failed"}

(* A revision of a source stands for one content: whatever was observed in *)
(* any order, equal revisions in two operations mean equal sources.        *)
Versions == {o.versions : o \in Rows} \cup {row.versions : row \in registry}

RevisionsIdentify ==
  \A v, w \in Versions, s \in Sources :
    \A x \in v[s], y \in w[s] : x.revision = y.revision => x.content = y.content

(* Snapshots are published once each, in one order, and never changed; the *)
(* current one is the last; and the bands go through each of them at most  *)
(* once, however often its response is retried.                            *)
Snapshots == UNION {o.snapshot : o \in Rows}

PublishedOnce ==
  /\ \A k \in Keys : \A o \in operations[k], p \in operations'[k] : o.snapshot # {} => p.snapshot = o.snapshot
  /\ \A row \in registry', x \in Snapshots' : x.number <= row.published /\ (x.number = row.published => x \in row.current)
  /\ \A b \in bands' : IsInjective(b.steps)
  /\ \A k, m \in Keys : \A o \in operations'[k], p \in operations'[m] :
       k # m => \A x \in o.snapshot, y \in p.snapshot : x.number # y.number

(* A response completes with its state operation or not at all, although a *)
(* clear can remove the operation while the model speaks; a completed      *)
(* operation has its snapshot, and one that failed has none, so that a     *)
(* retry can still publish it.                                             *)
CompletedTogether ==
  /\ \A r \in Requests : \A k \in responded'[r] \ responded[r] : \E o \in operations'[k] : o.phase = "completed"
  /\ \A k \in Keys : \A o \in operations'[k] :
       /\ o.phase = "completed" => o.snapshot # {} /\ k \in responded'[k[1]]
       /\ o.phase = "failed" => o.snapshot = {}

(* Every step of the journal is exact in both ways. *)
JournalExact == [][PublishedOnce /\ CompletedTogether]_stateVars

(* What a snapshot says of the managed Space is what its operation froze.  *)
SnapshotConsistent ==
  \A k \in Keys : \A o \in operations[k] : \A x \in o.snapshot : x.version = x.versions[Managed]

(* A response that its client keeps retrying is answered, although clears  *)
(* and failures undo the state it had.                                     *)
RetriesComplete == \A r \in Requests : []<>(at[r] # "idle") => <>(at[r] = "done")
=============================================================================
