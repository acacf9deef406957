------------------------- MODULE SpaceWorkerProofs -------------------------
(***************************************************************************)
(* Safety of one SpaceWorker for every set of files, contents, callers and *)
(* commands and every number of faults and edits.  The argument has two    *)
(* layers: JournalInv needs no hypothesis on hand edits; CopyInv relates   *)
(* the working copy and the materialized files to the journal, and holds   *)
(* when no edit falls inside an open or a publication.  The last part is   *)
(* about the Space's graph: its vector index, which rebuilds replace beside *)
(* edits and each other, and its canon, which no proposal may touch.        *)
(***************************************************************************)
EXTENDS SpaceWorker, SemanticGraph, WellFoundedInduction, TLAPS

(* Where an incarnation stands relative to its journal. *)
Opening    == {"preserve", "wipe", "fill", "stage", "layout"}
Replaying  == {"preserve", "wipe", "fill"}
Publishing == {"prepare", "validate", "apply", "mark"}
Serving    == {"idle", "exec"}

JobHeld == (job = Nobody) <=> (pc \in {"down", "idle"})

BootPhase ==
  /\ pc \in Opening => boot
  /\ pc \in Serving \cup {"down"} => ~boot

(* An image exists wherever one is read. *)
ImageExists ==
  /\ 0 \notin DOMAIN rows
  /\ pc \in Replaying \cup Publishing \cup Serving \cup {"layout"} => seq > 0
  /\ pc \in {"publish", "journal"} /\ ~boot => seq > 0

(* The newest image is marked before another one can be admitted. *)
MarkedBeforeNext ==
  pc \in Serving \cup {"stage", "layout", "publish", "journal"} /\ seq > 0 => rows[seq].applied

JournalInv ==
  /\ TypeOK
  /\ JournalRetention
  /\ JobHeld
  /\ BootPhase
  /\ ImageExists
  /\ MarkedBeforeNext

(* The working copy is the newest image, except while a command or a first *)
(* open is preparing the next one.                                         *)
CopyCurrent ==
  /\ pc \in Serving \cup Publishing \cup {"layout"} => cache = rows[seq].snapshot
  /\ pc \in Serving => before = rows[seq].snapshot
  /\ pc \in {"publish", "journal"} /\ ~boot => before = rows[seq].snapshot

(* A restored working copy lacks no required file. *)
BootLaidOut ==
  boot /\ pc \in Publishing \cup {"publish", "journal", "layout"} => WithLayout(cache) = cache

(* Progress of a replay: what is not left to do is done. *)
ReplayProgress ==
  /\ pc = "wipe" => \A p \in Paths \ todo : files[p] = Absent
  /\ pc = "fill" => \A p \in Paths \ todo : files[p] = rows[seq].snapshot[p]
  /\ pc \in {"stage", "layout"} /\ seq > 0 => files = rows[seq].snapshot

(* Progress of a publication. *)
ApplyProgress ==
  /\ pc \in {"validate", "apply"} => \A p \in Paths \ todo : files[p] = cache[p]
  /\ pc = "mark" => files = cache

CopyInv ==
  /\ CopyCurrent
  /\ BootLaidOut
  /\ ReplayProgress
  /\ ApplyProgress
  /\ MaterializedCurrent
----------------------------------------------------------------------------
(* What a command makes of an image is an image. *)
LEMMA LayoutType ==
  ASSUME NEW image \in Image
  PROVE  WithLayout(image) \in Image
BY LayoutAssumption DEF WithLayout, Image

(* initialize_layout finds nothing to create the second time. *)
LEMMA LayoutIdempotent ==
  ASSUME NEW image \in Image
  PROVE  WithLayout(WithLayout(image)) = WithLayout(image)
<1>1. \A p \in Paths : p \in Required => WithLayout(image)[p] # Absent
  BY LayoutAssumption DEF WithLayout
<1>2. WithLayout(image) = [p \in Paths |-> WithLayout(image)[p]]
  BY DEF WithLayout
<1>3. WithLayout(WithLayout(image)) = [p \in Paths |-> WithLayout(image)[p]]
  BY <1>1 DEF WithLayout
<1> QED BY <1>2, <1>3

(* Whatever a command does to an image of the files is an image. *)
LEMMA EffectType ==
  ASSUME NEW o \in Op, NEW image \in Image
  PROVE  Effect(o, image) \in Image
<1>1. CASE o.kind = "write"
  <2>1. o.path \in Paths /\ o.body \in Bodies \cup {Absent}
    BY <1>1 DEF Op
  <2> QED BY <1>1, <2>1 DEF Effect, Image
<1>2. CASE o.kind = "clear"
  <2> DEFINE kept == [p \in Paths |-> IF ModuleOf(p) \in o.modules THEN Absent ELSE image[p]]
  <2>1. kept \in Image
    BY DEF Image
  <2>2. Effect(o, image) = WithLayout(kept)
    BY <1>2 DEF Effect, Cleared
  <2> QED BY <2>1, <2>2, LayoutType
<1>3. CASE o.kind \notin {"write", "clear"}
  BY <1>3 DEF Effect
<1> QED BY <1>1, <1>2, <1>3

(* The row the code selects is the one AUTOINCREMENT gave last. *)
LEMMA LatestIsNewest ==
  ASSUME seq \in Nat, seq > 0, DOMAIN rows \subseteq {seq - 1, seq}, seq \in DOMAIN rows
  PROVE  LatestRevision = seq /\ Latest = rows[seq].snapshot
<1>1. \A q \in DOMAIN rows : q <= seq
  OBVIOUS
<1>2. \A r \in DOMAIN rows : (\A q \in DOMAIN rows : q <= r) => r = seq
  OBVIOUS
<1> QED BY <1>1, <1>2 DEF LatestRevision, Latest

(* A journal that has a row has its newest one under the latest revision. *)
LEMMA NewestExists ==
  ASSUME JournalInv, seq > 0
  PROVE  /\ seq \in DOMAIN rows /\ DOMAIN rows \subseteq {seq - 1, seq}
         /\ LatestRevision = seq /\ Latest = rows[seq].snapshot
         /\ rows[seq] \in Row /\ Latest \in Image
<1>1. seq \in Nat /\ seq \in DOMAIN rows /\ DOMAIN rows \subseteq {seq - 1, seq}
  BY DEF JournalInv, TypeOK, JournalType, JournalRetention
<1>2. LatestRevision = seq /\ Latest = rows[seq].snapshot
  BY <1>1, LatestIsNewest
<1>3. rows[seq] \in Row
  BY <1>1 DEF JournalInv, TypeOK, JournalType
<1> QED BY <1>1, <1>2, <1>3 DEF Row

(* Marking the newest row changes nothing but its mark. *)
LEMMA MarkingRows ==
  ASSUME JournalInv, seq > 0
  PROVE  /\ DOMAIN MarkedApplied = DOMAIN rows
         /\ \A r \in DOMAIN rows : MarkedApplied[r] \in Row
         /\ MarkedApplied[seq] = [snapshot |-> rows[seq].snapshot, applied |-> TRUE]
         /\ \A r \in DOMAIN rows : r # seq => MarkedApplied[r] = rows[r]
<1>1. /\ seq \in DOMAIN rows /\ LatestRevision = seq
      /\ \A r \in DOMAIN rows : rows[r] \in Row
  BY NewestExists DEF JournalInv, TypeOK, JournalType
<1>2. [snapshot |-> Latest, applied |-> TRUE] \in Row
  BY NewestExists DEF Row
<1>3. MarkedApplied = [r \in DOMAIN rows |->
         IF r = seq THEN [snapshot |-> Latest, applied |-> TRUE] ELSE rows[r]]
  BY <1>1 DEF MarkedApplied
<1> QED BY <1>1, <1>2, <1>3, NewestExists

(* Admitting an image keeps at most the one before it. *)
LEMMA AdmittingRows ==
  ASSUME JournalInv, NEW image \in Image, seq > 0 => rows[seq].applied
  PROVE  /\ DOMAIN Admitted(image) \subseteq {seq, seq + 1}
         /\ 0 \notin DOMAIN Admitted(image)
         /\ seq + 1 \in DOMAIN Admitted(image)
         /\ \A r \in DOMAIN Admitted(image) : Admitted(image)[r] \in Row
         /\ Admitted(image)[seq + 1] = [snapshot |-> image, applied |-> FALSE]
         /\ \A r \in DOMAIN Admitted(image) : r = seq + 1 \/ Admitted(image)[r].applied
<1> DEFINE kept == {r \in DOMAIN rows : r >= seq \/ ~rows[r].applied}
<1>1. /\ seq \in Nat /\ DOMAIN rows \subseteq {seq - 1, seq} /\ 0 \notin DOMAIN rows
      /\ \A r \in DOMAIN rows : rows[r] \in Row
      /\ \A r \in DOMAIN rows : r = seq \/ rows[r].applied
  BY DEF JournalInv, TypeOK, JournalType, JournalRetention, ImageExists
<1>2. kept \subseteq {seq} /\ kept \subseteq DOMAIN rows /\ 0 \notin kept
  BY <1>1
<1>3. \A r \in kept : r = seq /\ seq > 0 /\ rows[r].applied
  BY <1>1, <1>2
<1>4. Admitted(image) = [r \in kept \cup {seq + 1} |->
        IF r = seq + 1 THEN [snapshot |-> image, applied |-> FALSE] ELSE rows[r]]
  BY DEF Admitted
<1>5. [snapshot |-> image, applied |-> FALSE] \in Row
  BY DEF Row
<1> QED BY <1>1, <1>2, <1>3, <1>4, <1>5

(* The same of the journal after a step. *)
LEMMA NewestExistsNext ==
  ASSUME JournalInv', seq' > 0
  PROVE  /\ LatestRevision' = seq' /\ Latest' = rows'[seq'].snapshot
<1>1. seq' \in Nat /\ seq' \in DOMAIN rows' /\ DOMAIN rows' \subseteq {seq' - 1, seq'}
  BY DEF JournalInv, TypeOK, JournalType, JournalRetention
<1>2. \A q \in DOMAIN rows' : q <= seq'
  BY <1>1
<1>3. \A r \in DOMAIN rows' : (\A q \in DOMAIN rows' : q <= r) => r = seq'
  BY <1>1
<1> QED BY <1>1, <1>2, <1>3 DEF LatestRevision, Latest

----------------------------------------------------------------------------
(* A worker that was never opened, over any files, satisfies the journal   *)
(* invariant.                                                              *)
LEMMA JournalInvInit == Init => JournalInv
<1> SUFFICES ASSUME Init PROVE JournalInv
  OBVIOUS
<1>1. Empty \in Image
  BY DEF Empty, Image
<1>2. JournalType /\ FilesType /\ JournalRetention
  BY WorkerAssumption DEF Init, JournalType, FilesType, JournalRetention
<1>3. ThreadType
  BY <1>1 DEF Init, ThreadType, Labels, Interrupted
<1>4. CallersType
  BY DEF Init, CallersType, Op
<1>5. JobHeld /\ BootPhase /\ ImageExists /\ MarkedBeforeNext
  BY DEF Init, JobHeld, BootPhase, ImageExists, MarkedBeforeNext,
     Opening, Replaying, Publishing, Serving
<1> QED BY <1>2, <1>3, <1>4, <1>5 DEF JournalInv, TypeOK

(* Every step of restore, execute, publish, a crash or a hand edit keeps   *)
(* the journal and the working copy in agreement.                          *)
LEMMA JournalInvStep == JournalInv /\ [Next]_vars => JournalInv'
<1> SUFFICES ASSUME JournalInv, [Next]_vars PROVE JournalInv'
  OBVIOUS
<1> USE WorkerAssumption DEF JournalInv, TypeOK
<1>e. Empty \in Image
  BY DEF Empty, Image
<1>1. CASE RestorePreserve
  <2>1. JournalType' /\ JournalRetention'
    BY <1>1 DEF RestorePreserve, JournalType, JournalRetention, disk
  <2>2. FilesType'
    BY <1>1 DEF RestorePreserve, FilesType, disk, Preserved
  <2>3. ThreadType'
    BY <1>1, <1>e DEF RestorePreserve, ThreadType, FilesType, thread, Goto, Finish,
       Forget, Discard, Labels, Interrupted
  <2>4. CallersType'
    BY <1>1 DEF RestorePreserve, CallersType, ThreadType, callers, bounds, Finish,
       Discard
  <2>5. JobHeld' /\ BootPhase'
    BY <1>1 DEF RestorePreserve, ThreadType, JobHeld, BootPhase, Goto, Finish, Forget,
       Discard, Opening, Serving, thread, Interrupted
  <2>6. ImageExists' /\ MarkedBeforeNext'
    BY <1>1 DEF RestorePreserve, JournalType, ThreadType, BootPhase, ImageExists,
       MarkedBeforeNext, Goto, Finish, Forget, Discard, Opening, Serving, Replaying,
       Publishing, thread, disk, Interrupted
  <2> QED BY <2>1, <2>2, <2>3, <2>4, <2>5, <2>6
<1>2. CASE RestoreWipe
  <2>1. JournalType' /\ JournalRetention'
    BY <1>2 DEF RestoreWipe, JournalType, JournalRetention, disk
  <2>2. FilesType'
    BY <1>2 DEF RestoreWipe, FilesType, disk, WriteFile, Image
  <2>3. ThreadType'
    BY <1>2, <1>e DEF RestoreWipe, ThreadType, FilesType, thread, Goto, Finish, Forget,
       Discard, Labels, Interrupted
  <2>4. CallersType'
    BY <1>2 DEF RestoreWipe, CallersType, ThreadType, callers, bounds, Finish, Discard
  <2>5. JobHeld' /\ BootPhase'
    BY <1>2 DEF RestoreWipe, ThreadType, JobHeld, BootPhase, Goto, Finish, Forget,
       Discard, Opening, Serving, thread, Interrupted
  <2>6. ImageExists' /\ MarkedBeforeNext'
    BY <1>2 DEF RestoreWipe, JournalType, ThreadType, BootPhase, ImageExists,
       MarkedBeforeNext, Goto, Finish, Forget, Discard, Opening, Serving, Replaying,
       Publishing, thread, disk, Interrupted
  <2> QED BY <2>1, <2>2, <2>3, <2>4, <2>5, <2>6
<1>3. CASE RestoreFill
  <2>1. JournalType' /\ JournalRetention'
    BY <1>3, NewestExists, MarkingRows DEF RestoreFill, JournalType, JournalRetention,
       disk, ImageExists, Replaying
  <2>2. FilesType'
    BY <1>3, NewestExists DEF RestoreFill, FilesType, disk, WriteFile, Image,
       ImageExists, Replaying
  <2>3. ThreadType'
    BY <1>3, <1>e DEF RestoreFill, ThreadType, FilesType, thread, Goto, Finish, Forget,
       Discard, Labels, Interrupted
  <2>4. CallersType'
    BY <1>3 DEF RestoreFill, CallersType, ThreadType, callers, bounds, Finish, Discard
  <2>5. JobHeld' /\ BootPhase'
    BY <1>3 DEF RestoreFill, ThreadType, JobHeld, BootPhase, Goto, Finish, Forget,
       Discard, Opening, Serving, thread, Interrupted
  <2>6. ImageExists' /\ MarkedBeforeNext'
    BY <1>3, NewestExists, MarkingRows DEF RestoreFill, JournalType, ThreadType,
       BootPhase, ImageExists, MarkedBeforeNext, Goto, Finish, Forget, Discard, Opening,
       Serving, Replaying, Publishing, thread, disk, Interrupted
  <2> QED BY <2>1, <2>2, <2>3, <2>4, <2>5, <2>6
<1>4. CASE RestoreStage
  <2>1. JournalType' /\ JournalRetention'
    BY <1>4 DEF RestoreStage, JournalType, JournalRetention, disk
  <2>2. FilesType'
    BY <1>4 DEF RestoreStage, FilesType, disk
  <2>3. ThreadType'
    BY <1>4, <1>e, LayoutType DEF RestoreStage, ThreadType, FilesType, thread, Goto,
       Finish, Forget, Discard, Labels, Interrupted
  <2>4. CallersType'
    BY <1>4 DEF RestoreStage, CallersType, ThreadType, callers, bounds, Finish, Discard
  <2>5. JobHeld' /\ BootPhase'
    BY <1>4 DEF RestoreStage, ThreadType, JobHeld, BootPhase, Goto, Finish, Forget,
       Discard, Opening, Serving, thread, Interrupted
  <2>6. ImageExists' /\ MarkedBeforeNext'
    BY <1>4 DEF RestoreStage, JournalType, ThreadType, BootPhase, ImageExists,
       MarkedBeforeNext, Goto, Finish, Forget, Discard, Opening, Serving, Replaying,
       Publishing, thread, disk, Interrupted, Checkpointed, JournalRetention
  <2> QED BY <2>1, <2>2, <2>3, <2>4, <2>5, <2>6
<1>5. CASE RestoreLayout
  <2>1. JournalType' /\ JournalRetention'
    BY <1>5 DEF RestoreLayout, JournalType, JournalRetention, disk
  <2>2. FilesType'
    BY <1>5, LayoutType DEF RestoreLayout, FilesType, disk
  <2>3. ThreadType'
    BY <1>5, <1>e DEF RestoreLayout, ThreadType, FilesType, thread, Goto, Finish,
       Forget, Discard, Labels, Interrupted
  <2>4. CallersType'
    BY <1>5 DEF RestoreLayout, CallersType, ThreadType, callers, bounds, Finish, Discard
  <2>5. JobHeld' /\ BootPhase'
    BY <1>5 DEF RestoreLayout, ThreadType, JobHeld, BootPhase, Goto, Finish, Forget,
       Discard, Opening, Serving, thread, Interrupted
  <2>6. ImageExists' /\ MarkedBeforeNext'
    BY <1>5 DEF RestoreLayout, JournalType, ThreadType, BootPhase, ImageExists,
       MarkedBeforeNext, Goto, Finish, Forget, Discard, Opening, Serving, Replaying,
       Publishing, thread, disk, Interrupted
  <2> QED BY <2>1, <2>2, <2>3, <2>4, <2>5, <2>6
<1>6. CASE ExecuteRead
  <2>1. JournalType' /\ JournalRetention'
    BY <1>6 DEF ExecuteRead, JournalType, JournalRetention, disk
  <2>2. FilesType'
    BY <1>6 DEF ExecuteRead, FilesType, disk
  <2>3. ThreadType'
    BY <1>6, <1>e DEF ExecuteRead, ThreadType, FilesType, thread, Goto, Finish, Forget,
       Discard, Labels, Interrupted
  <2>4. CallersType'
    BY <1>6 DEF ExecuteRead, CallersType, ThreadType, callers, bounds, Finish, Discard
  <2>5. JobHeld' /\ BootPhase'
    BY <1>6 DEF ExecuteRead, ThreadType, JobHeld, BootPhase, Goto, Finish, Forget,
       Discard, Opening, Serving, thread, Interrupted
  <2>6. ImageExists' /\ MarkedBeforeNext'
    BY <1>6 DEF ExecuteRead, JournalType, ThreadType, BootPhase, ImageExists,
       MarkedBeforeNext, Goto, Finish, Forget, Discard, Opening, Serving, Replaying,
       Publishing, thread, disk, Interrupted
  <2> QED BY <2>1, <2>2, <2>3, <2>4, <2>5, <2>6
<1>7. CASE Acknowledge
  <2>1. JournalType' /\ JournalRetention'
    BY <1>7 DEF Acknowledge, JournalType, JournalRetention, disk
  <2>2. FilesType'
    BY <1>7 DEF Acknowledge, FilesType, disk
  <2>3. ThreadType'
    BY <1>7, <1>e DEF Acknowledge, ThreadType, FilesType, thread, Goto, Finish, Forget,
       Discard, Labels, Interrupted
  <2>4. CallersType'
    BY <1>7 DEF Acknowledge, CallersType, ThreadType, callers, bounds, Finish, Discard
  <2>5. JobHeld' /\ BootPhase'
    BY <1>7 DEF Acknowledge, ThreadType, JobHeld, BootPhase, Goto, Finish, Forget,
       Discard, Opening, Serving, thread, Interrupted
  <2>6. ImageExists' /\ MarkedBeforeNext'
    BY <1>7 DEF Acknowledge, JournalType, ThreadType, BootPhase, ImageExists,
       MarkedBeforeNext, Goto, Finish, Forget, Discard, Opening, Serving, Replaying,
       Publishing, thread, disk, Interrupted
  <2> QED BY <2>1, <2>2, <2>3, <2>4, <2>5, <2>6
<1>8. CASE ExecuteMutation
  <2>1. JournalType' /\ JournalRetention'
    BY <1>8 DEF ExecuteMutation, JournalType, JournalRetention, disk
  <2>2. FilesType'
    BY <1>8 DEF ExecuteMutation, FilesType, disk
  <2>3. ThreadType'
    BY <1>8, <1>e, EffectType DEF ExecuteMutation, ThreadType, FilesType, thread, Goto,
       Finish, Forget, Discard, Labels, Interrupted, Mutates, CallersType, JobHeld
  <2>4. CallersType'
    BY <1>8 DEF ExecuteMutation, CallersType, ThreadType, callers, bounds, Finish,
       Discard
  <2>5. JobHeld' /\ BootPhase'
    BY <1>8 DEF ExecuteMutation, ThreadType, JobHeld, BootPhase, Goto, Finish, Forget,
       Discard, Opening, Serving, thread, Interrupted
  <2>6. ImageExists' /\ MarkedBeforeNext'
    BY <1>8 DEF ExecuteMutation, JournalType, ThreadType, BootPhase, ImageExists,
       MarkedBeforeNext, Goto, Finish, Forget, Discard, Opening, Serving, Replaying,
       Publishing, thread, disk, Interrupted
  <2> QED BY <2>1, <2>2, <2>3, <2>4, <2>5, <2>6
<1>9. CASE ExecuteRejected
  <2>1. JournalType' /\ JournalRetention'
    BY <1>9 DEF ExecuteRejected, JournalType, JournalRetention, disk
  <2>2. FilesType'
    BY <1>9 DEF ExecuteRejected, FilesType, disk
  <2>3. ThreadType'
    BY <1>9, <1>e DEF ExecuteRejected, ThreadType, FilesType, thread, Goto, Finish,
       Forget, Discard, Labels, Interrupted
  <2>4. CallersType'
    BY <1>9 DEF ExecuteRejected, CallersType, ThreadType, callers, bounds, Finish,
       Discard
  <2>5. JobHeld' /\ BootPhase'
    BY <1>9 DEF ExecuteRejected, ThreadType, JobHeld, BootPhase, Goto, Finish, Forget,
       Discard, Opening, Serving, thread, Interrupted
  <2>6. ImageExists' /\ MarkedBeforeNext'
    BY <1>9 DEF ExecuteRejected, JournalType, ThreadType, BootPhase, ImageExists,
       MarkedBeforeNext, Goto, Finish, Forget, Discard, Opening, Serving, Replaying,
       Publishing, thread, disk, Interrupted
  <2> QED BY <2>1, <2>2, <2>3, <2>4, <2>5, <2>6
<1>10. CASE PublishPreserve
  <2>1. JournalType' /\ JournalRetention'
    BY <1>10 DEF PublishPreserve, JournalType, JournalRetention, disk
  <2>2. FilesType'
    BY <1>10 DEF PublishPreserve, FilesType, disk, Preserved
  <2>3. ThreadType'
    BY <1>10, <1>e DEF PublishPreserve, ThreadType, FilesType, thread, Goto, Finish,
       Forget, Discard, Labels, Interrupted
  <2>4. CallersType'
    BY <1>10 DEF PublishPreserve, CallersType, ThreadType, callers, bounds, Finish,
       Discard
  <2>5. JobHeld' /\ BootPhase'
    BY <1>10 DEF PublishPreserve, ThreadType, JobHeld, BootPhase, Goto, Finish, Forget,
       Discard, Opening, Serving, thread, Interrupted
  <2>6. ImageExists' /\ MarkedBeforeNext'
    BY <1>10 DEF PublishPreserve, JournalType, ThreadType, BootPhase, ImageExists,
       MarkedBeforeNext, Goto, Finish, Forget, Discard, Opening, Serving, Replaying,
       Publishing, thread, disk, Interrupted
  <2> QED BY <2>1, <2>2, <2>3, <2>4, <2>5, <2>6
<1>11. CASE PublishJournal
  <2>1. JournalType' /\ JournalRetention'
    <3>1. cache \in Image /\ (seq > 0 => rows[seq].applied)
      BY <1>11 DEF PublishJournal, ThreadType, MarkedBeforeNext
    <3>2. seq' = seq + 1 /\ rows' = Admitted(cache) /\ pc' = "prepare" /\ seq \in Nat
      BY <1>11 DEF PublishJournal, Goto, JournalType
    <3>3. /\ DOMAIN rows' \subseteq {seq, seq + 1} /\ 0 \notin DOMAIN rows'
          /\ seq + 1 \in DOMAIN rows'
          /\ \A r \in DOMAIN rows' : rows'[r] \in Row
          /\ \A r \in DOMAIN rows' : r = seq + 1 \/ rows'[r].applied
      BY ONLY JournalInv, <3>1, <3>2, AdmittingRows
    <3> QED BY ONLY <3>2, <3>3 DEF JournalType, JournalRetention
  <2>2. FilesType'
    BY <1>11 DEF PublishJournal, FilesType, disk, CallersType, ThreadType, Op, JobHeld
  <2>3. ThreadType'
    BY <1>11, <1>e DEF PublishJournal, ThreadType, FilesType, thread, Goto, Finish,
       Forget, Discard, Labels, Interrupted
  <2>4. CallersType'
    BY <1>11 DEF PublishJournal, CallersType, ThreadType, callers, bounds, Finish,
       Discard
  <2>5. JobHeld' /\ BootPhase'
    BY <1>11 DEF PublishJournal, ThreadType, JobHeld, BootPhase, Goto, Finish, Forget,
       Discard, Opening, Serving, thread, Interrupted
  <2>6. ImageExists' /\ MarkedBeforeNext'
    <3>1. cache \in Image /\ (seq > 0 => rows[seq].applied)
      BY <1>11 DEF PublishJournal, ThreadType, MarkedBeforeNext
    <3>2. seq' = seq + 1 /\ rows' = Admitted(cache) /\ pc' = "prepare" /\ seq \in Nat
      BY <1>11 DEF PublishJournal, Goto, JournalType
    <3>3. /\ DOMAIN rows' \subseteq {seq, seq + 1} /\ 0 \notin DOMAIN rows'
          /\ seq + 1 \in DOMAIN rows'
          /\ \A r \in DOMAIN rows' : rows'[r] \in Row
          /\ \A r \in DOMAIN rows' : r = seq + 1 \/ rows'[r].applied
      BY ONLY JournalInv, <3>1, <3>2, AdmittingRows
    <3> QED BY ONLY <3>2, <3>3 DEF ImageExists, MarkedBeforeNext, Serving
  <2> QED BY <2>1, <2>2, <2>3, <2>4, <2>5, <2>6
<1>12. CASE PublishPrepare
  <2>1. JournalType' /\ JournalRetention'
    BY <1>12 DEF PublishPrepare, JournalType, JournalRetention, disk
  <2>2. FilesType'
    BY <1>12 DEF PublishPrepare, FilesType, disk
  <2>3. ThreadType'
    BY <1>12, <1>e DEF PublishPrepare, ThreadType, FilesType, thread, Goto, Finish,
       Forget, Discard, Labels, Interrupted
  <2>4. CallersType'
    BY <1>12 DEF PublishPrepare, CallersType, ThreadType, callers, bounds, Finish,
       Discard
  <2>5. JobHeld' /\ BootPhase'
    BY <1>12 DEF PublishPrepare, ThreadType, JobHeld, BootPhase, Goto, Finish, Forget,
       Discard, Opening, Serving, thread, Interrupted
  <2>6. ImageExists' /\ MarkedBeforeNext'
    BY <1>12 DEF PublishPrepare, JournalType, ThreadType, BootPhase, ImageExists,
       MarkedBeforeNext, Goto, Finish, Forget, Discard, Opening, Serving, Replaying,
       Publishing, thread, disk, Interrupted
  <2> QED BY <2>1, <2>2, <2>3, <2>4, <2>5, <2>6
<1>13. CASE PublishValidate
  <2>1. JournalType' /\ JournalRetention'
    BY <1>13 DEF PublishValidate, JournalType, JournalRetention, disk
  <2>2. FilesType'
    BY <1>13 DEF PublishValidate, FilesType, disk
  <2>3. ThreadType'
    BY <1>13, <1>e DEF PublishValidate, ThreadType, FilesType, thread, Goto, Finish,
       Forget, Discard, Labels, Interrupted
  <2>4. CallersType'
    BY <1>13 DEF PublishValidate, CallersType, ThreadType, callers, bounds, Finish,
       Discard
  <2>5. JobHeld' /\ BootPhase'
    BY <1>13 DEF PublishValidate, ThreadType, JobHeld, BootPhase, Goto, Finish, Forget,
       Discard, Opening, Serving, thread, Interrupted
  <2>6. ImageExists' /\ MarkedBeforeNext'
    BY <1>13 DEF PublishValidate, JournalType, ThreadType, BootPhase, ImageExists,
       MarkedBeforeNext, Goto, Finish, Forget, Discard, Opening, Serving, Replaying,
       Publishing, thread, disk, Interrupted
  <2> QED BY <2>1, <2>2, <2>3, <2>4, <2>5, <2>6
<1>14. CASE PublishConflict
  <2>1. JournalType' /\ JournalRetention'
    BY <1>14 DEF PublishConflict, JournalType, JournalRetention, disk
  <2>2. FilesType'
    BY <1>14 DEF PublishConflict, FilesType, disk
  <2>3. ThreadType'
    BY <1>14, <1>e DEF PublishConflict, ThreadType, FilesType, thread, Goto, Finish,
       Forget, Discard, Labels, Interrupted
  <2>4. CallersType'
    BY <1>14 DEF PublishConflict, CallersType, ThreadType, callers, bounds, Finish,
       Discard
  <2>5. JobHeld' /\ BootPhase'
    BY <1>14 DEF PublishConflict, ThreadType, JobHeld, BootPhase, Goto, Finish, Forget,
       Discard, Opening, Serving, thread, Interrupted
  <2>6. ImageExists' /\ MarkedBeforeNext'
    BY <1>14 DEF PublishConflict, JournalType, ThreadType, BootPhase, ImageExists,
       MarkedBeforeNext, Goto, Finish, Forget, Discard, Opening, Serving, Replaying,
       Publishing, thread, disk, Interrupted
  <2> QED BY <2>1, <2>2, <2>3, <2>4, <2>5, <2>6
<1>15. CASE PublishApply
  <2>1. JournalType' /\ JournalRetention'
    BY <1>15 DEF PublishApply, JournalType, JournalRetention, disk
  <2>2. FilesType'
    BY <1>15 DEF PublishApply, FilesType, disk, WriteFile, Image, ThreadType
  <2>3. ThreadType'
    BY <1>15, <1>e DEF PublishApply, ThreadType, FilesType, thread, Goto, Finish,
       Forget, Discard, Labels, Interrupted
  <2>4. CallersType'
    BY <1>15 DEF PublishApply, CallersType, ThreadType, callers, bounds, Finish, Discard
  <2>5. JobHeld' /\ BootPhase'
    BY <1>15 DEF PublishApply, ThreadType, JobHeld, BootPhase, Goto, Finish, Forget,
       Discard, Opening, Serving, thread, Interrupted
  <2>6. ImageExists' /\ MarkedBeforeNext'
    BY <1>15 DEF PublishApply, JournalType, ThreadType, BootPhase, ImageExists,
       MarkedBeforeNext, Goto, Finish, Forget, Discard, Opening, Serving, Replaying,
       Publishing, thread, disk, Interrupted
  <2> QED BY <2>1, <2>2, <2>3, <2>4, <2>5, <2>6
<1>16. CASE PublishMark
  <2>1. JournalType' /\ JournalRetention'
    BY <1>16, NewestExists, MarkingRows DEF PublishMark, JournalType, JournalRetention,
       disk, ImageExists, Publishing
  <2>2. FilesType'
    BY <1>16 DEF PublishMark, FilesType, disk
  <2>3. ThreadType'
    BY <1>16, <1>e DEF PublishMark, ThreadType, FilesType, thread, Goto, Finish, Forget,
       Discard, Labels, Interrupted
  <2>4. CallersType'
    BY <1>16 DEF PublishMark, CallersType, ThreadType, callers, bounds, Finish, Discard
  <2>5. JobHeld' /\ BootPhase'
    BY <1>16 DEF PublishMark, ThreadType, JobHeld, BootPhase, Goto, Finish, Forget,
       Discard, Opening, Serving, thread, Interrupted
  <2>6. ImageExists' /\ MarkedBeforeNext'
    BY <1>16, NewestExists, MarkingRows DEF PublishMark, JournalType, ThreadType,
       BootPhase, ImageExists, MarkedBeforeNext, Goto, Finish, Forget, Discard, Opening,
       Serving, Replaying, Publishing, thread, disk, Interrupted
  <2> QED BY <2>1, <2>2, <2>3, <2>4, <2>5, <2>6
<1>17. CASE Receive
  <2>1. JournalType' /\ JournalRetention'
    BY <1>17 DEF Receive, JournalType, JournalRetention, disk
  <2>2. FilesType'
    BY <1>17 DEF Receive, FilesType, disk
  <2>3. ThreadType'
    <3>1. job' \in Clients
      BY <1>17 DEF Receive, CallersType
    <3>2. boot' \in BOOLEAN /\ pc' \in {"exec", "preserve", "stage"}
      BY <1>17 DEF Receive, Goto
    <3>3. UNCHANGED <<before, cache, base, todo, failure>>
      BY <1>17 DEF Receive
    <3> QED BY <3>1, <3>2, <3>3 DEF ThreadType, Labels, Interrupted
  <2>4. CallersType'
    BY <1>17 DEF Receive, CallersType, ThreadType, callers, bounds, Finish, Discard
  <2>5. JobHeld' /\ BootPhase'
    <3>1. job' \in Clients
      BY <1>17 DEF Receive, CallersType
    <3>2. CASE pc = "idle"
      <4>1. boot' = FALSE /\ pc' = "exec"
        BY <1>17, <3>2 DEF Receive, Goto
      <4> QED BY <3>1, <4>1 DEF Opening, Serving, JobHeld, BootPhase
    <3>3. CASE pc = "down"
      <4>1. boot' = TRUE
        BY <1>17, <3>3 DEF Receive
      <4>2. pc' \in {"preserve", "stage"}
        BY <1>17, <3>3 DEF Receive, Goto
      <4> QED BY <3>1, <4>1, <4>2 DEF Opening, Serving, JobHeld, BootPhase
    <3> QED BY <1>17, <3>2, <3>3 DEF Receive
  <2>6. ImageExists' /\ MarkedBeforeNext'
    BY <1>17 DEF Receive, JournalType, ThreadType, BootPhase, ImageExists,
       MarkedBeforeNext, Goto, Finish, Forget, Discard, Opening, Serving, Replaying,
       Publishing, thread, disk, Interrupted, Checkpointed, JournalRetention
  <2> QED BY <2>1, <2>2, <2>3, <2>4, <2>5, <2>6
<1>18. CASE Evict
  <2>1. JournalType' /\ JournalRetention'
    BY <1>18 DEF Evict, JournalType, JournalRetention, disk
  <2>2. FilesType'
    BY <1>18 DEF Evict, FilesType, disk
  <2>3. ThreadType'
    BY <1>18, <1>e DEF Evict, ThreadType, FilesType, thread, Goto, Finish, Forget,
       Discard, Labels, Interrupted
  <2>4. CallersType'
    BY <1>18 DEF Evict, CallersType, ThreadType, callers, bounds, Finish, Discard
  <2>5. JobHeld' /\ BootPhase'
    BY <1>18 DEF Evict, ThreadType, JobHeld, BootPhase, Goto, Finish, Forget, Discard,
       Opening, Serving, thread, Interrupted
  <2>6. ImageExists' /\ MarkedBeforeNext'
    BY <1>18 DEF Evict, JournalType, ThreadType, BootPhase, ImageExists,
       MarkedBeforeNext, Goto, Finish, Forget, Discard, Opening, Serving, Replaying,
       Publishing, thread, disk, Interrupted
  <2> QED BY <2>1, <2>2, <2>3, <2>4, <2>5, <2>6
<1>19. CASE Refuse
  <2>1. JournalType' /\ JournalRetention'
    BY <1>19 DEF Refuse, JournalType, JournalRetention, disk
  <2>2. FilesType'
    BY <1>19 DEF Refuse, FilesType, disk, RolledBack, ThreadType, Image
  <2>3. ThreadType'
    BY <1>19, <1>e DEF Refuse, ThreadType, FilesType, thread, Goto, Finish, Forget,
       Discard, Labels, Interrupted
  <2>4. CallersType'
    <3>1. \E r \in {"error", "uncertain"} : reply' = [reply EXCEPT ![job] = r]
      BY <1>19 DEF Refuse, Discard
    <3>2. /\ mailbox' = mailbox /\ op' = op /\ committed' = committed
          /\ calls' = calls /\ edits' = edits /\ faults' = faults + 1
      BY <1>19 DEF Refuse
    <3>3. reply' \in [Clients -> {"waiting", "ok", "error", "uncertain"}]
      BY <3>1 DEF CallersType
    <3> QED BY <3>2, <3>3 DEF CallersType
  <2>5. JobHeld' /\ BootPhase'
    BY <1>19 DEF Refuse, ThreadType, JobHeld, BootPhase, Goto, Finish, Forget, Discard,
       Opening, Serving, thread, Interrupted
  <2>6. ImageExists' /\ MarkedBeforeNext'
    BY <1>19 DEF Refuse, JournalType, ThreadType, BootPhase, ImageExists,
       MarkedBeforeNext, Goto, Finish, Forget, Discard, Opening, Serving, Replaying,
       Publishing, thread, disk, Interrupted
  <2> QED BY <2>1, <2>2, <2>3, <2>4, <2>5, <2>6
<1>20. CASE Crash
  <2>1. JournalType' /\ JournalRetention'
    BY <1>20 DEF Crash, JournalType, JournalRetention, disk
  <2>2. FilesType'
    BY <1>20 DEF Crash, FilesType, disk
  <2>3. ThreadType'
    BY <1>20, <1>e DEF Crash, ThreadType, FilesType, thread, Goto, Finish, Forget,
       Discard, Labels, Interrupted
  <2>4. CallersType'
    BY <1>20 DEF Crash, CallersType, ThreadType, callers, bounds, Finish, Discard
  <2>5. JobHeld' /\ BootPhase'
    BY <1>20 DEF Crash, ThreadType, JobHeld, BootPhase, Goto, Finish, Forget, Discard,
       Opening, Serving, thread, Interrupted
  <2>6. ImageExists' /\ MarkedBeforeNext'
    BY <1>20 DEF Crash, JournalType, ThreadType, BootPhase, ImageExists,
       MarkedBeforeNext, Goto, Finish, Forget, Discard, Opening, Serving, Replaying,
       Publishing, thread, disk, Interrupted
  <2> QED BY <2>1, <2>2, <2>3, <2>4, <2>5, <2>6
<1>21. CASE \E c \in Clients, o \in Ops : Submit(c, o)
  <2>1. JournalType' /\ JournalRetention'
    BY <1>21 DEF Submit, JournalType, JournalRetention, disk
  <2>2. FilesType'
    BY <1>21 DEF Submit, FilesType, disk
  <2>3. ThreadType'
    BY <1>21, <1>e DEF Submit, ThreadType, FilesType, thread, Goto, Finish, Forget,
       Discard, Labels, Interrupted
  <2>4. CallersType'
    BY <1>21 DEF Submit, CallersType, ThreadType, callers, bounds, Finish, Discard
  <2>5. JobHeld' /\ BootPhase'
    BY <1>21 DEF Submit, ThreadType, JobHeld, BootPhase, Goto, Finish, Forget, Discard,
       Opening, Serving, thread, Interrupted
  <2>6. ImageExists' /\ MarkedBeforeNext'
    BY <1>21 DEF Submit, JournalType, ThreadType, BootPhase, ImageExists,
       MarkedBeforeNext, Goto, Finish, Forget, Discard, Opening, Serving, Replaying,
       Publishing, thread, disk, Interrupted
  <2> QED BY <2>1, <2>2, <2>3, <2>4, <2>5, <2>6
<1>22. CASE \E p \in Paths, body \in Bodies \cup {Absent} : HandEdit(p, body)
  <2>1. JournalType' /\ JournalRetention'
    BY <1>22 DEF HandEdit, JournalType, JournalRetention, disk
  <2>2. FilesType'
    BY <1>22 DEF HandEdit, FilesType, disk, Image
  <2>3. ThreadType'
    BY <1>22, <1>e DEF HandEdit, ThreadType, FilesType, thread, Goto, Finish, Forget,
       Discard, Labels, Interrupted
  <2>4. CallersType'
    BY <1>22 DEF HandEdit, CallersType, ThreadType, callers, bounds, Finish, Discard
  <2>5. JobHeld' /\ BootPhase'
    BY <1>22 DEF HandEdit, ThreadType, JobHeld, BootPhase, Goto, Finish, Forget,
       Discard, Opening, Serving, thread, Interrupted
  <2>6. ImageExists' /\ MarkedBeforeNext'
    BY <1>22 DEF HandEdit, JournalType, ThreadType, BootPhase, ImageExists,
       MarkedBeforeNext, Goto, Finish, Forget, Discard, Opening, Serving, Replaying,
       Publishing, thread, disk, Interrupted
  <2> QED BY <2>1, <2>2, <2>3, <2>4, <2>5, <2>6
<1>23. CASE UNCHANGED vars
  <2>1. JournalType' /\ JournalRetention'
    BY <1>23 DEF vars, JournalType, JournalRetention, disk
  <2>2. FilesType'
    BY <1>23 DEF vars, FilesType, disk
  <2>3. ThreadType'
    BY <1>23, <1>e DEF vars, ThreadType, FilesType, thread, Goto, Finish, Forget,
       Discard, Labels, Interrupted
  <2>4. CallersType'
    BY <1>23 DEF vars, CallersType, ThreadType, callers, bounds, Finish, Discard
  <2>5. JobHeld' /\ BootPhase'
    BY <1>23 DEF vars, ThreadType, JobHeld, BootPhase, Goto, Finish, Forget, Discard,
       Opening, Serving, thread, Interrupted
  <2>6. ImageExists' /\ MarkedBeforeNext'
    BY <1>23 DEF vars, JournalType, ThreadType, BootPhase, ImageExists,
       MarkedBeforeNext, Goto, Finish, Forget, Discard, Opening, Serving, Replaying,
       Publishing, thread, disk, Interrupted
  <2> QED BY <2>1, <2>2, <2>3, <2>4, <2>5, <2>6
<1> QED BY <1>1, <1>2, <1>3, <1>4, <1>5, <1>6, <1>7, <1>8, <1>9, <1>10, <1>11, <1>12, <1>13, <1>14, <1>15, <1>16, <1>17, <1>18, <1>19, <1>20, <1>21, <1>22, <1>23 DEF Next, Work, Restore, Execute, Publish
----------------------------------------------------------------------------
(* The journal invariant of SpaceWorker holds in every reachable state,    *)
(* even when hand edits race with an open or a publication.                *)
THEOREM JournalInvariant == Spec => []JournalInv
<1>1. Init => JournalInv
  BY JournalInvInit
<1>2. JournalInv /\ [Next]_vars => JournalInv'
  BY JournalInvStep
<1> QED BY <1>1, <1>2, PTL DEF Spec

(* Without such races every step also keeps track of which files are still *)
(* to be written, so that files and journal agree when a command ends.     *)
LEMMA CopyInvStep ==
  ASSUME JournalInv, JournalInv', CopyInv, [Next]_vars, RacyEdits = FALSE
  PROVE  CopyInv'
<1> USE DEF CopyInv
<1>s. seq > 0 => Latest = rows[seq].snapshot /\ LatestRevision = seq
  BY NewestExists
<1>t. seq' > 0 => Latest' = rows'[seq'].snapshot /\ LatestRevision' = seq'
  BY NewestExistsNext
<1>1. CASE RestorePreserve
  <2>1. CopyCurrent'
    BY <1>1, <1>s, <1>t DEF RestorePreserve, CopyCurrent, JournalInv, TypeOK,
       ThreadType, FilesType, BootPhase, ImageExists, Goto, Finish, Opening, Serving,
       Publishing, Replaying, thread, disk
  <2>2. BootLaidOut'
    BY <1>1, <1>s, <1>t DEF RestorePreserve, BootLaidOut, JournalInv, TypeOK,
       ThreadType, FilesType, BootPhase, ImageExists, Goto, Finish, Opening, Serving,
       Publishing, Replaying, thread, disk
  <2>3. ReplayProgress'
    BY <1>1, <1>s, <1>t DEF RestorePreserve, ReplayProgress, JournalInv, TypeOK,
       ThreadType, FilesType, BootPhase, ImageExists, Goto, Finish, Opening, Serving,
       Publishing, Replaying, thread, disk
  <2>4. ApplyProgress'
    BY <1>1, <1>s, <1>t DEF RestorePreserve, ApplyProgress, JournalInv, TypeOK,
       ThreadType, FilesType, BootPhase, ImageExists, Goto, Finish, Opening, Serving,
       Publishing, Replaying, thread, disk
  <2>5. MaterializedCurrent'
    BY <1>1, <1>s, <1>t DEF RestorePreserve, MaterializedCurrent, JournalInv, TypeOK,
       ThreadType, FilesType, BootPhase, ImageExists, Goto, Finish, Opening, Serving,
       Publishing, Replaying, thread, disk
  <2> QED BY <2>1, <2>2, <2>3, <2>4, <2>5
<1>2. CASE RestoreWipe
  <2>1. CopyCurrent'
    BY <1>2, <1>s, <1>t DEF RestoreWipe, CopyCurrent, JournalInv, TypeOK, ThreadType,
       FilesType, BootPhase, ImageExists, Goto, Finish, Opening, Serving, Publishing,
       Replaying, thread, disk
  <2>2. BootLaidOut'
    BY <1>2, <1>s, <1>t DEF RestoreWipe, BootLaidOut, JournalInv, TypeOK, ThreadType,
       FilesType, BootPhase, ImageExists, Goto, Finish, Opening, Serving, Publishing,
       Replaying, thread, disk
  <2>3. ReplayProgress'
    <3>1. seq > 0 /\ seq' = seq /\ rows' = rows /\ \A p \in Paths \ todo : files[p] = Absent
      BY <1>2 DEF RestoreWipe, JournalInv, ImageExists, Replaying, ReplayProgress
    <3>2. CASE todo = {} /\ todo' = {p \in Paths : Latest[p] # Absent} /\ pc' = "fill" /\ files' = files
      BY <1>s, <3>1, <3>2 DEF ReplayProgress
    <3>3. ASSUME NEW p \in todo, WriteFile(p, Absent), todo' = todo \ {p}, pc' = "wipe"
          PROVE  ReplayProgress'
      BY <3>1, <3>3 DEF ReplayProgress, WriteFile, JournalInv, TypeOK, FilesType, Image
    <3> QED BY <1>2, <3>2, <3>3 DEF RestoreWipe, Goto
  <2>4. ApplyProgress'
    BY <1>2, <1>s, <1>t DEF RestoreWipe, ApplyProgress, JournalInv, TypeOK, ThreadType,
       FilesType, BootPhase, ImageExists, Goto, Finish, Opening, Serving, Publishing,
       Replaying, thread, disk
  <2>5. MaterializedCurrent'
    BY <1>2, <1>s, <1>t DEF RestoreWipe, MaterializedCurrent, JournalInv, TypeOK,
       ThreadType, FilesType, BootPhase, ImageExists, Goto, Finish, Opening, Serving,
       Publishing, Replaying, thread, disk
  <2> QED BY <2>1, <2>2, <2>3, <2>4, <2>5
<1>3. CASE RestoreFill
  <2>1. CopyCurrent'
    BY <1>3, <1>s, <1>t DEF RestoreFill, CopyCurrent, JournalInv, TypeOK, ThreadType,
       FilesType, BootPhase, ImageExists, Goto, Finish, Opening, Serving, Publishing,
       Replaying, thread, disk
  <2>2. BootLaidOut'
    BY <1>3, <1>s, <1>t DEF RestoreFill, BootLaidOut, JournalInv, TypeOK, ThreadType,
       FilesType, BootPhase, ImageExists, Goto, Finish, Opening, Serving, Publishing,
       Replaying, thread, disk
  <2>3. ReplayProgress'
    <3>1. /\ seq > 0 /\ seq' = seq
          /\ \A p \in Paths \ todo : files[p] = rows[seq].snapshot[p]
      BY <1>3 DEF RestoreFill, JournalInv, ImageExists, Replaying, ReplayProgress
    <3>2. CASE todo = {} /\ rows' = MarkedApplied /\ pc' = "stage" /\ files' = files
      <4>1. files \in Image /\ rows[seq].snapshot \in Image
        BY <3>1, NewestExists DEF JournalInv, TypeOK, FilesType
      <4>2. files = rows[seq].snapshot
        BY <3>1, <3>2, <4>1 DEF Image
      <4>3. rows'[seq'].snapshot = rows[seq].snapshot
        BY <3>1, <3>2, MarkingRows
      <4> QED BY <3>2, <4>2, <4>3 DEF ReplayProgress
    <3>3. ASSUME NEW p \in todo, WriteFile(p, Latest[p]), todo' = todo \ {p}, pc' = "fill", rows' = rows
          PROVE  ReplayProgress'
      BY <1>s, <3>1, <3>3 DEF ReplayProgress, WriteFile, JournalInv, TypeOK, FilesType, Image
    <3> QED BY <1>3, <3>2, <3>3 DEF RestoreFill, Goto
  <2>4. ApplyProgress'
    BY <1>3, <1>s, <1>t DEF RestoreFill, ApplyProgress, JournalInv, TypeOK, ThreadType,
       FilesType, BootPhase, ImageExists, Goto, Finish, Opening, Serving, Publishing,
       Replaying, thread, disk
  <2>5. MaterializedCurrent'
    BY <1>3, <1>s, <1>t DEF RestoreFill, MaterializedCurrent, JournalInv, TypeOK,
       ThreadType, FilesType, BootPhase, ImageExists, Goto, Finish, Opening, Serving,
       Publishing, Replaying, thread, disk
  <2> QED BY <2>1, <2>2, <2>3, <2>4, <2>5
<1>4. CASE RestoreStage
  <2>1. CopyCurrent'
    BY <1>4, <1>s, <1>t DEF RestoreStage, CopyCurrent, JournalInv, TypeOK, ThreadType,
       FilesType, BootPhase, ImageExists, Goto, Finish, Opening, Serving, Publishing,
       Replaying, thread, disk, Checkpointed, JournalType, JournalRetention,
       ReplayProgress
  <2>2. BootLaidOut'
    BY <1>4, <1>s, <1>t, LayoutIdempotent DEF RestoreStage, BootLaidOut, JournalInv,
       TypeOK, ThreadType, FilesType, BootPhase, ImageExists, Goto, Finish, Opening,
       Serving, Publishing, Replaying, thread, disk
  <2>3. ReplayProgress'
    BY <1>4, <1>s, <1>t DEF RestoreStage, ReplayProgress, JournalInv, TypeOK,
       ThreadType, FilesType, BootPhase, ImageExists, Goto, Finish, Opening, Serving,
       Publishing, Replaying, thread, disk, Checkpointed, JournalType, JournalRetention
  <2>4. ApplyProgress'
    BY <1>4, <1>s, <1>t DEF RestoreStage, ApplyProgress, JournalInv, TypeOK, ThreadType,
       FilesType, BootPhase, ImageExists, Goto, Finish, Opening, Serving, Publishing,
       Replaying, thread, disk
  <2>5. MaterializedCurrent'
    BY <1>4, <1>s, <1>t DEF RestoreStage, MaterializedCurrent, JournalInv, TypeOK,
       ThreadType, FilesType, BootPhase, ImageExists, Goto, Finish, Opening, Serving,
       Publishing, Replaying, thread, disk
  <2> QED BY <2>1, <2>2, <2>3, <2>4, <2>5
<1>5. CASE RestoreLayout
  <2>1. CopyCurrent'
    BY <1>5, <1>s, <1>t DEF RestoreLayout, CopyCurrent, JournalInv, TypeOK, ThreadType,
       FilesType, BootPhase, ImageExists, Goto, Finish, Opening, Serving, Publishing,
       Replaying, thread, disk
  <2>2. BootLaidOut'
    BY <1>5, <1>s, <1>t DEF RestoreLayout, BootLaidOut, JournalInv, TypeOK, ThreadType,
       FilesType, BootPhase, ImageExists, Goto, Finish, Opening, Serving, Publishing,
       Replaying, thread, disk
  <2>3. ReplayProgress'
    BY <1>5, <1>s, <1>t DEF RestoreLayout, ReplayProgress, JournalInv, TypeOK,
       ThreadType, FilesType, BootPhase, ImageExists, Goto, Finish, Opening, Serving,
       Publishing, Replaying, thread, disk
  <2>4. ApplyProgress'
    BY <1>5, <1>s, <1>t DEF RestoreLayout, ApplyProgress, JournalInv, TypeOK,
       ThreadType, FilesType, BootPhase, ImageExists, Goto, Finish, Opening, Serving,
       Publishing, Replaying, thread, disk
  <2>5. MaterializedCurrent'
    <3>1. files = rows[seq].snapshot /\ cache = rows[seq].snapshot /\ WithLayout(cache) = cache
      BY <1>5 DEF RestoreLayout, JournalInv, ImageExists, BootPhase, Opening,
         CopyCurrent, BootLaidOut, ReplayProgress
    <3>2. files' = rows[seq].snapshot /\ rows' = rows /\ seq' = seq /\ seq > 0
      BY <1>5, <3>1 DEF RestoreLayout, JournalInv, ImageExists
    <3> QED BY <3>2, <1>t DEF MaterializedCurrent
  <2> QED BY <2>1, <2>2, <2>3, <2>4, <2>5
<1>6. CASE ExecuteRead
  <2>1. CopyCurrent'
    BY <1>6, <1>s, <1>t DEF ExecuteRead, CopyCurrent, JournalInv, TypeOK, ThreadType,
       FilesType, BootPhase, ImageExists, Goto, Finish, Opening, Serving, Publishing,
       Replaying, thread, disk
  <2>2. BootLaidOut'
    BY <1>6, <1>s, <1>t DEF ExecuteRead, BootLaidOut, JournalInv, TypeOK, ThreadType,
       FilesType, BootPhase, ImageExists, Goto, Finish, Opening, Serving, Publishing,
       Replaying, thread, disk
  <2>3. ReplayProgress'
    BY <1>6, <1>s, <1>t DEF ExecuteRead, ReplayProgress, JournalInv, TypeOK, ThreadType,
       FilesType, BootPhase, ImageExists, Goto, Finish, Opening, Serving, Publishing,
       Replaying, thread, disk
  <2>4. ApplyProgress'
    BY <1>6, <1>s, <1>t DEF ExecuteRead, ApplyProgress, JournalInv, TypeOK, ThreadType,
       FilesType, BootPhase, ImageExists, Goto, Finish, Opening, Serving, Publishing,
       Replaying, thread, disk
  <2>5. MaterializedCurrent'
    BY <1>6, <1>s, <1>t DEF ExecuteRead, MaterializedCurrent, JournalInv, TypeOK,
       ThreadType, FilesType, BootPhase, ImageExists, Goto, Finish, Opening, Serving,
       Publishing, Replaying, thread, disk
  <2> QED BY <2>1, <2>2, <2>3, <2>4, <2>5
<1>7. CASE Acknowledge
  <2>1. CopyCurrent'
    BY <1>7, <1>s, <1>t DEF Acknowledge, CopyCurrent, JournalInv, TypeOK, ThreadType,
       FilesType, BootPhase, ImageExists, Goto, Finish, Opening, Serving, Publishing,
       Replaying, thread, disk
  <2>2. BootLaidOut'
    BY <1>7, <1>s, <1>t DEF Acknowledge, BootLaidOut, JournalInv, TypeOK, ThreadType,
       FilesType, BootPhase, ImageExists, Goto, Finish, Opening, Serving, Publishing,
       Replaying, thread, disk
  <2>3. ReplayProgress'
    BY <1>7, <1>s, <1>t DEF Acknowledge, ReplayProgress, JournalInv, TypeOK, ThreadType,
       FilesType, BootPhase, ImageExists, Goto, Finish, Opening, Serving, Publishing,
       Replaying, thread, disk
  <2>4. ApplyProgress'
    BY <1>7, <1>s, <1>t DEF Acknowledge, ApplyProgress, JournalInv, TypeOK, ThreadType,
       FilesType, BootPhase, ImageExists, Goto, Finish, Opening, Serving, Publishing,
       Replaying, thread, disk
  <2>5. MaterializedCurrent'
    BY <1>7, <1>s, <1>t DEF Acknowledge, MaterializedCurrent, JournalInv, TypeOK,
       ThreadType, FilesType, BootPhase, ImageExists, Goto, Finish, Opening, Serving,
       Publishing, Replaying, thread, disk
  <2> QED BY <2>1, <2>2, <2>3, <2>4, <2>5
<1>8. CASE ExecuteMutation
  <2>1. CopyCurrent'
    BY <1>8, <1>s, <1>t DEF ExecuteMutation, CopyCurrent, JournalInv, TypeOK,
       ThreadType, FilesType, BootPhase, ImageExists, Goto, Finish, Opening, Serving,
       Publishing, Replaying, thread, disk
  <2>2. BootLaidOut'
    BY <1>8, <1>s, <1>t DEF ExecuteMutation, BootLaidOut, JournalInv, TypeOK,
       ThreadType, FilesType, BootPhase, ImageExists, Goto, Finish, Opening, Serving,
       Publishing, Replaying, thread, disk
  <2>3. ReplayProgress'
    BY <1>8, <1>s, <1>t DEF ExecuteMutation, ReplayProgress, JournalInv, TypeOK,
       ThreadType, FilesType, BootPhase, ImageExists, Goto, Finish, Opening, Serving,
       Publishing, Replaying, thread, disk
  <2>4. ApplyProgress'
    BY <1>8, <1>s, <1>t DEF ExecuteMutation, ApplyProgress, JournalInv, TypeOK,
       ThreadType, FilesType, BootPhase, ImageExists, Goto, Finish, Opening, Serving,
       Publishing, Replaying, thread, disk
  <2>5. MaterializedCurrent'
    BY <1>8, <1>s, <1>t DEF ExecuteMutation, MaterializedCurrent, JournalInv, TypeOK,
       ThreadType, FilesType, BootPhase, ImageExists, Goto, Finish, Opening, Serving,
       Publishing, Replaying, thread, disk
  <2> QED BY <2>1, <2>2, <2>3, <2>4, <2>5
<1>9. CASE ExecuteRejected
  <2>1. CopyCurrent'
    BY <1>9, <1>s, <1>t DEF ExecuteRejected, CopyCurrent, JournalInv, TypeOK,
       ThreadType, FilesType, BootPhase, ImageExists, Goto, Finish, Opening, Serving,
       Publishing, Replaying, thread, disk
  <2>2. BootLaidOut'
    BY <1>9, <1>s, <1>t DEF ExecuteRejected, BootLaidOut, JournalInv, TypeOK,
       ThreadType, FilesType, BootPhase, ImageExists, Goto, Finish, Opening, Serving,
       Publishing, Replaying, thread, disk
  <2>3. ReplayProgress'
    BY <1>9, <1>s, <1>t DEF ExecuteRejected, ReplayProgress, JournalInv, TypeOK,
       ThreadType, FilesType, BootPhase, ImageExists, Goto, Finish, Opening, Serving,
       Publishing, Replaying, thread, disk
  <2>4. ApplyProgress'
    BY <1>9, <1>s, <1>t DEF ExecuteRejected, ApplyProgress, JournalInv, TypeOK,
       ThreadType, FilesType, BootPhase, ImageExists, Goto, Finish, Opening, Serving,
       Publishing, Replaying, thread, disk
  <2>5. MaterializedCurrent'
    BY <1>9, <1>s, <1>t DEF ExecuteRejected, MaterializedCurrent, JournalInv, TypeOK,
       ThreadType, FilesType, BootPhase, ImageExists, Goto, Finish, Opening, Serving,
       Publishing, Replaying, thread, disk
  <2> QED BY <2>1, <2>2, <2>3, <2>4, <2>5
<1>10. CASE PublishPreserve
  <2>1. CopyCurrent'
    BY <1>10, <1>s, <1>t DEF PublishPreserve, CopyCurrent, JournalInv, TypeOK,
       ThreadType, FilesType, BootPhase, ImageExists, Goto, Finish, Opening, Serving,
       Publishing, Replaying, thread, disk
  <2>2. BootLaidOut'
    BY <1>10, <1>s, <1>t DEF PublishPreserve, BootLaidOut, JournalInv, TypeOK,
       ThreadType, FilesType, BootPhase, ImageExists, Goto, Finish, Opening, Serving,
       Publishing, Replaying, thread, disk
  <2>3. ReplayProgress'
    BY <1>10, <1>s, <1>t DEF PublishPreserve, ReplayProgress, JournalInv, TypeOK,
       ThreadType, FilesType, BootPhase, ImageExists, Goto, Finish, Opening, Serving,
       Publishing, Replaying, thread, disk
  <2>4. ApplyProgress'
    BY <1>10, <1>s, <1>t DEF PublishPreserve, ApplyProgress, JournalInv, TypeOK,
       ThreadType, FilesType, BootPhase, ImageExists, Goto, Finish, Opening, Serving,
       Publishing, Replaying, thread, disk
  <2>5. MaterializedCurrent'
    BY <1>10, <1>s, <1>t DEF PublishPreserve, MaterializedCurrent, JournalInv, TypeOK,
       ThreadType, FilesType, BootPhase, ImageExists, Goto, Finish, Opening, Serving,
       Publishing, Replaying, thread, disk
  <2> QED BY <2>1, <2>2, <2>3, <2>4, <2>5
<1>11. CASE PublishJournal
  <2>1. CopyCurrent'
    <3>1. /\ pc' = "prepare" /\ cache' = cache /\ rows' = Admitted(cache) /\ seq' = seq + 1
          /\ cache \in Image /\ (seq > 0 => rows[seq].applied)
      BY <1>11 DEF PublishJournal, JournalInv, TypeOK, ThreadType, MarkedBeforeNext, Goto
    <3>2. rows'[seq'] = [snapshot |-> cache, applied |-> FALSE]
      BY <3>1, AdmittingRows
    <3> QED BY <3>1, <3>2 DEF CopyCurrent, Serving
  <2>2. BootLaidOut'
    BY <1>11, <1>s, <1>t DEF PublishJournal, BootLaidOut, JournalInv, TypeOK,
       ThreadType, FilesType, BootPhase, ImageExists, Goto, Finish, Opening, Serving,
       Publishing, Replaying, thread, disk
  <2>3. ReplayProgress'
    BY <1>11, <1>s, <1>t DEF PublishJournal, ReplayProgress, JournalInv, TypeOK,
       ThreadType, FilesType, BootPhase, ImageExists, Goto, Finish, Opening, Serving,
       Publishing, Replaying, thread, disk
  <2>4. ApplyProgress'
    BY <1>11, <1>s, <1>t DEF PublishJournal, ApplyProgress, JournalInv, TypeOK,
       ThreadType, FilesType, BootPhase, ImageExists, Goto, Finish, Opening, Serving,
       Publishing, Replaying, thread, disk
  <2>5. MaterializedCurrent'
    BY <1>11, <1>s, <1>t DEF PublishJournal, MaterializedCurrent, JournalInv, TypeOK,
       ThreadType, FilesType, BootPhase, ImageExists, Goto, Finish, Opening, Serving,
       Publishing, Replaying, thread, disk
  <2> QED BY <2>1, <2>2, <2>3, <2>4, <2>5
<1>12. CASE PublishPrepare
  <2>1. CopyCurrent'
    BY <1>12, <1>s, <1>t DEF PublishPrepare, CopyCurrent, JournalInv, TypeOK,
       ThreadType, FilesType, BootPhase, ImageExists, Goto, Finish, Opening, Serving,
       Publishing, Replaying, thread, disk
  <2>2. BootLaidOut'
    BY <1>12, <1>s, <1>t DEF PublishPrepare, BootLaidOut, JournalInv, TypeOK,
       ThreadType, FilesType, BootPhase, ImageExists, Goto, Finish, Opening, Serving,
       Publishing, Replaying, thread, disk
  <2>3. ReplayProgress'
    BY <1>12, <1>s, <1>t DEF PublishPrepare, ReplayProgress, JournalInv, TypeOK,
       ThreadType, FilesType, BootPhase, ImageExists, Goto, Finish, Opening, Serving,
       Publishing, Replaying, thread, disk
  <2>4. ApplyProgress'
    BY <1>12, <1>s, <1>t DEF PublishPrepare, ApplyProgress, JournalInv, TypeOK,
       ThreadType, FilesType, BootPhase, ImageExists, Goto, Finish, Opening, Serving,
       Publishing, Replaying, thread, disk
  <2>5. MaterializedCurrent'
    BY <1>12, <1>s, <1>t DEF PublishPrepare, MaterializedCurrent, JournalInv, TypeOK,
       ThreadType, FilesType, BootPhase, ImageExists, Goto, Finish, Opening, Serving,
       Publishing, Replaying, thread, disk
  <2> QED BY <2>1, <2>2, <2>3, <2>4, <2>5
<1>13. CASE PublishValidate
  <2>1. CopyCurrent'
    BY <1>13, <1>s, <1>t DEF PublishValidate, CopyCurrent, JournalInv, TypeOK,
       ThreadType, FilesType, BootPhase, ImageExists, Goto, Finish, Opening, Serving,
       Publishing, Replaying, thread, disk
  <2>2. BootLaidOut'
    BY <1>13, <1>s, <1>t DEF PublishValidate, BootLaidOut, JournalInv, TypeOK,
       ThreadType, FilesType, BootPhase, ImageExists, Goto, Finish, Opening, Serving,
       Publishing, Replaying, thread, disk
  <2>3. ReplayProgress'
    BY <1>13, <1>s, <1>t DEF PublishValidate, ReplayProgress, JournalInv, TypeOK,
       ThreadType, FilesType, BootPhase, ImageExists, Goto, Finish, Opening, Serving,
       Publishing, Replaying, thread, disk
  <2>4. ApplyProgress'
    BY <1>13, <1>s, <1>t DEF PublishValidate, ApplyProgress, JournalInv, TypeOK,
       ThreadType, FilesType, BootPhase, ImageExists, Goto, Finish, Opening, Serving,
       Publishing, Replaying, thread, disk
  <2>5. MaterializedCurrent'
    BY <1>13, <1>s, <1>t DEF PublishValidate, MaterializedCurrent, JournalInv, TypeOK,
       ThreadType, FilesType, BootPhase, ImageExists, Goto, Finish, Opening, Serving,
       Publishing, Replaying, thread, disk
  <2> QED BY <2>1, <2>2, <2>3, <2>4, <2>5
<1>14. CASE PublishConflict
  <2>1. pc' = "down"
    BY <1>14 DEF PublishConflict, Forget, Discard, Goto
  <2> QED BY <2>1 DEF CopyCurrent, BootLaidOut, ReplayProgress, ApplyProgress, MaterializedCurrent,
       Serving, Publishing
<1>15. CASE PublishApply
  <2>1. CopyCurrent'
    BY <1>15, <1>s, <1>t DEF PublishApply, CopyCurrent, JournalInv, TypeOK, ThreadType,
       FilesType, BootPhase, ImageExists, Goto, Finish, Opening, Serving, Publishing,
       Replaying, thread, disk
  <2>2. BootLaidOut'
    BY <1>15, <1>s, <1>t DEF PublishApply, BootLaidOut, JournalInv, TypeOK, ThreadType,
       FilesType, BootPhase, ImageExists, Goto, Finish, Opening, Serving, Publishing,
       Replaying, thread, disk
  <2>3. ReplayProgress'
    BY <1>15, <1>s, <1>t DEF PublishApply, ReplayProgress, JournalInv, TypeOK,
       ThreadType, FilesType, BootPhase, ImageExists, Goto, Finish, Opening, Serving,
       Publishing, Replaying, thread, disk
  <2>4. ApplyProgress'
    <3>1. \A p \in Paths \ todo : files[p] = cache[p]
      BY <1>15 DEF PublishApply, ApplyProgress
    <3>2. files \in Image /\ cache \in Image /\ cache' = cache
      BY <1>15 DEF PublishApply, JournalInv, TypeOK, FilesType, ThreadType
    <3>3. CASE todo = {} /\ pc' = "mark" /\ files' = files
      <4>1. files = cache
        BY <3>1, <3>2, <3>3 DEF Image
      <4> QED BY <3>2, <3>3, <4>1 DEF ApplyProgress
    <3>4. ASSUME NEW p \in todo, WriteFile(p, cache[p]), todo' = todo \ {p}, pc' = "apply"
          PROVE  ApplyProgress'
      BY <3>1, <3>2, <3>4 DEF ApplyProgress, WriteFile, Image
    <3> QED BY <1>15, <3>3, <3>4 DEF PublishApply, Goto
  <2>5. MaterializedCurrent'
    BY <1>15, <1>s, <1>t DEF PublishApply, MaterializedCurrent, JournalInv, TypeOK,
       ThreadType, FilesType, BootPhase, ImageExists, Goto, Finish, Opening, Serving,
       Publishing, Replaying, thread, disk
  <2> QED BY <2>1, <2>2, <2>3, <2>4, <2>5
<1>16. CASE PublishMark
  <2>1. CopyCurrent'
    <3>1. /\ seq > 0 /\ seq' = seq /\ rows' = MarkedApplied /\ files' = files
          /\ files = cache /\ cache' = cache /\ cache = rows[seq].snapshot
          /\ pc' = "layout" \/ (pc' = "idle" /\ before' = cache)
      BY <1>16 DEF PublishMark, JournalInv, ImageExists, CopyCurrent, ApplyProgress,
         Publishing, Finish, Goto
    <3>2. rows'[seq'].snapshot = rows[seq].snapshot
      BY <3>1, MarkingRows
    <3> QED BY <3>1, <3>2, <1>t DEF CopyCurrent, Publishing, Serving
  <2>2. BootLaidOut'
    BY <1>16, <1>s, <1>t DEF PublishMark, BootLaidOut, JournalInv, TypeOK, ThreadType,
       FilesType, BootPhase, ImageExists, Goto, Finish, Opening, Serving, Publishing,
       Replaying, thread, disk
  <2>3. ReplayProgress'
    <3>1. /\ seq > 0 /\ seq' = seq /\ rows' = MarkedApplied /\ files' = files
          /\ files = cache /\ cache' = cache /\ cache = rows[seq].snapshot
          /\ pc' = "layout" \/ (pc' = "idle" /\ before' = cache)
      BY <1>16 DEF PublishMark, JournalInv, ImageExists, CopyCurrent, ApplyProgress,
         Publishing, Finish, Goto
    <3>2. rows'[seq'].snapshot = rows[seq].snapshot
      BY <3>1, MarkingRows
    <3> QED BY <3>1, <3>2, <1>t DEF ReplayProgress
  <2>4. ApplyProgress'
    BY <1>16, <1>s, <1>t DEF PublishMark, ApplyProgress, JournalInv, TypeOK, ThreadType,
       FilesType, BootPhase, ImageExists, Goto, Finish, Opening, Serving, Publishing,
       Replaying, thread, disk
  <2>5. MaterializedCurrent'
    <3>1. /\ seq > 0 /\ seq' = seq /\ rows' = MarkedApplied /\ files' = files
          /\ files = cache /\ cache' = cache /\ cache = rows[seq].snapshot
          /\ pc' = "layout" \/ (pc' = "idle" /\ before' = cache)
      BY <1>16 DEF PublishMark, JournalInv, ImageExists, CopyCurrent, ApplyProgress,
         Publishing, Finish, Goto
    <3>2. rows'[seq'].snapshot = rows[seq].snapshot
      BY <3>1, MarkingRows
    <3> QED BY <3>1, <3>2, <1>t DEF MaterializedCurrent
  <2> QED BY <2>1, <2>2, <2>3, <2>4, <2>5
<1>17. CASE Receive
  <2>1. CopyCurrent'
    BY <1>17, <1>s, <1>t DEF Receive, CopyCurrent, JournalInv, TypeOK, ThreadType,
       FilesType, BootPhase, ImageExists, Goto, Finish, Opening, Serving, Publishing,
       Replaying, thread, disk
  <2>2. BootLaidOut'
    BY <1>17, <1>s, <1>t DEF Receive, BootLaidOut, JournalInv, TypeOK, ThreadType,
       FilesType, BootPhase, ImageExists, Goto, Finish, Opening, Serving, Publishing,
       Replaying, thread, disk
  <2>3. ReplayProgress'
    <3>1. pc' \in {"exec", "preserve"} \/ (pc' = "stage" /\ ~Checkpointed)
      BY <1>17 DEF Receive, Goto
    <3>2. ~Checkpointed => seq = 0
      BY DEF Checkpointed, JournalInv, TypeOK, JournalType, JournalRetention
    <3>3. seq' = seq
      BY <1>17 DEF Receive, disk
    <3> QED BY <3>1, <3>2, <3>3 DEF ReplayProgress
  <2>4. ApplyProgress'
    BY <1>17, <1>s, <1>t DEF Receive, ApplyProgress, JournalInv, TypeOK, ThreadType,
       FilesType, BootPhase, ImageExists, Goto, Finish, Opening, Serving, Publishing,
       Replaying, thread, disk
  <2>5. MaterializedCurrent'
    BY <1>17, <1>s, <1>t DEF Receive, MaterializedCurrent, JournalInv, TypeOK,
       ThreadType, FilesType, BootPhase, ImageExists, Goto, Finish, Opening, Serving,
       Publishing, Replaying, thread, disk
  <2> QED BY <2>1, <2>2, <2>3, <2>4, <2>5
<1>18. CASE Evict
  <2>1. pc' = "down"
    BY <1>18 DEF Evict, Forget, Discard, Goto
  <2> QED BY <2>1 DEF CopyCurrent, BootLaidOut, ReplayProgress, ApplyProgress, MaterializedCurrent,
       Serving, Publishing
<1>19. CASE Refuse
  <2>1. pc' = "down"
    BY <1>19 DEF Refuse, Forget, Discard, Goto
  <2> QED BY <2>1 DEF CopyCurrent, BootLaidOut, ReplayProgress, ApplyProgress, MaterializedCurrent,
       Serving, Publishing
<1>20. CASE Crash
  <2>1. pc' = "down"
    BY <1>20 DEF Crash, Forget, Discard, Goto
  <2> QED BY <2>1 DEF CopyCurrent, BootLaidOut, ReplayProgress, ApplyProgress, MaterializedCurrent,
       Serving, Publishing
<1>21. CASE \E c \in Clients, o \in Ops : Submit(c, o)
  <2>1. CopyCurrent'
    BY <1>21, <1>s, <1>t DEF Submit, CopyCurrent, JournalInv, TypeOK, ThreadType,
       FilesType, BootPhase, ImageExists, Goto, Finish, Opening, Serving, Publishing,
       Replaying, thread, disk
  <2>2. BootLaidOut'
    BY <1>21, <1>s, <1>t DEF Submit, BootLaidOut, JournalInv, TypeOK, ThreadType,
       FilesType, BootPhase, ImageExists, Goto, Finish, Opening, Serving, Publishing,
       Replaying, thread, disk
  <2>3. ReplayProgress'
    BY <1>21, <1>s, <1>t DEF Submit, ReplayProgress, JournalInv, TypeOK, ThreadType,
       FilesType, BootPhase, ImageExists, Goto, Finish, Opening, Serving, Publishing,
       Replaying, thread, disk
  <2>4. ApplyProgress'
    BY <1>21, <1>s, <1>t DEF Submit, ApplyProgress, JournalInv, TypeOK, ThreadType,
       FilesType, BootPhase, ImageExists, Goto, Finish, Opening, Serving, Publishing,
       Replaying, thread, disk
  <2>5. MaterializedCurrent'
    BY <1>21, <1>s, <1>t DEF Submit, MaterializedCurrent, JournalInv, TypeOK,
       ThreadType, FilesType, BootPhase, ImageExists, Goto, Finish, Opening, Serving,
       Publishing, Replaying, thread, disk
  <2> QED BY <2>1, <2>2, <2>3, <2>4, <2>5
<1>22. CASE \E p \in Paths, body \in Bodies \cup {Absent} : HandEdit(p, body)
  <2>1. CopyCurrent'
    BY <1>22, <1>s, <1>t DEF HandEdit, CopyCurrent, JournalInv, TypeOK, ThreadType,
       FilesType, BootPhase, ImageExists, Goto, Finish, Opening, Serving, Publishing,
       Replaying, thread, disk
  <2>2. BootLaidOut'
    BY <1>22, <1>s, <1>t DEF HandEdit, BootLaidOut, JournalInv, TypeOK, ThreadType,
       FilesType, BootPhase, ImageExists, Goto, Finish, Opening, Serving, Publishing,
       Replaying, thread, disk
  <2>3. ReplayProgress'
    BY <1>22, <1>s, <1>t DEF HandEdit, ReplayProgress, JournalInv, TypeOK, ThreadType,
       FilesType, BootPhase, ImageExists, Goto, Finish, Opening, Serving, Publishing,
       Replaying, thread, disk
  <2>4. ApplyProgress'
    BY <1>22, <1>s, <1>t DEF HandEdit, ApplyProgress, JournalInv, TypeOK, ThreadType,
       FilesType, BootPhase, ImageExists, Goto, Finish, Opening, Serving, Publishing,
       Replaying, thread, disk
  <2>5. MaterializedCurrent'
    BY <1>22, <1>s, <1>t DEF HandEdit, MaterializedCurrent, JournalInv, TypeOK,
       ThreadType, FilesType, BootPhase, ImageExists, Goto, Finish, Opening, Serving,
       Publishing, Replaying, thread, disk
  <2> QED BY <2>1, <2>2, <2>3, <2>4, <2>5
<1>23. CASE UNCHANGED vars
  <2>1. CopyCurrent'
    BY <1>23, <1>s, <1>t DEF vars, CopyCurrent, JournalInv, TypeOK, ThreadType,
       FilesType, BootPhase, ImageExists, Goto, Finish, Opening, Serving, Publishing,
       Replaying, thread, disk
  <2>2. BootLaidOut'
    BY <1>23, <1>s, <1>t DEF vars, BootLaidOut, JournalInv, TypeOK, ThreadType,
       FilesType, BootPhase, ImageExists, Goto, Finish, Opening, Serving, Publishing,
       Replaying, thread, disk
  <2>3. ReplayProgress'
    BY <1>23, <1>s, <1>t DEF vars, ReplayProgress, JournalInv, TypeOK, ThreadType,
       FilesType, BootPhase, ImageExists, Goto, Finish, Opening, Serving, Publishing,
       Replaying, thread, disk
  <2>4. ApplyProgress'
    BY <1>23, <1>s, <1>t DEF vars, ApplyProgress, JournalInv, TypeOK, ThreadType,
       FilesType, BootPhase, ImageExists, Goto, Finish, Opening, Serving, Publishing,
       Replaying, thread, disk
  <2>5. MaterializedCurrent'
    BY <1>23, <1>s, <1>t DEF vars, MaterializedCurrent, JournalInv, TypeOK, ThreadType,
       FilesType, BootPhase, ImageExists, Goto, Finish, Opening, Serving, Publishing,
       Replaying, thread, disk
  <2> QED BY <2>1, <2>2, <2>3, <2>4, <2>5
<1> QED BY <1>1, <1>2, <1>3, <1>4, <1>5, <1>6, <1>7, <1>8, <1>9, <1>10, <1>11, <1>12, <1>13, <1>14, <1>15, <1>16, <1>17, <1>18, <1>19, <1>20, <1>21, <1>22, <1>23 DEF Next, Work, Restore, Execute, Publish

(* A worker that was never opened has no copy to keep. *)
LEMMA CopyInvInit == Init => CopyInv
BY DEF Init, CopyInv, CopyCurrent, BootLaidOut, ReplayProgress, ApplyProgress,
   MaterializedCurrent, Serving, Publishing

(* The invariant of the materialized copy, which restore rebuilds from the *)
(* journal and publish then keeps equal to it file by file.                *)
THEOREM CopyInvariant == ASSUME RacyEdits = FALSE PROVE Spec => []CopyInv
<1>1. Init => CopyInv
  BY CopyInvInit
<1>2. JournalInv /\ JournalInv' /\ CopyInv /\ [Next]_vars => CopyInv'
  BY CopyInvStep
<1> QED BY <1>1, <1>2, JournalInvariant, PTL DEF Spec
----------------------------------------------------------------------------
(* Type correctness, whatever fails and whoever edits the files. *)
THEOREM TypeCorrect == Spec => []TypeOK
<1>1. JournalInv => TypeOK
  BY DEF JournalInv
<1> QED BY <1>1, JournalInvariant, PTL

(* The journal keeps the newest image and at most its predecessor, and     *)
(* everything but the newest is marked, even under racing hand edits.      *)
THEOREM RetentionHolds == Spec => []JournalRetention
<1>1. JournalInv => JournalRetention
  BY DEF JournalInv
<1> QED BY <1>1, JournalInvariant, PTL

(* A serving worker serves the newest journaled image, when no edit falls  *)
(* inside an open or a publication.                                        *)
THEOREM ServesJournalHolds == ASSUME RacyEdits = FALSE PROVE Spec => []ServesJournal
<1>1. JournalInv /\ CopyInv => ServesJournal
  <2> SUFFICES ASSUME JournalInv, CopyInv, pc \in Serving
               PROVE  /\ Checkpointed /\ before = Latest /\ cache = Latest
                      /\ rows[LatestRevision].applied
    BY DEF ServesJournal, Serving
  <2>1. seq > 0 /\ rows[seq].applied
    BY DEF JournalInv, ImageExists, MarkedBeforeNext
  <2>2. cache = rows[seq].snapshot /\ before = rows[seq].snapshot
    BY DEF CopyInv, CopyCurrent
  <2> QED BY <2>1, <2>2, NewestExists DEF Checkpointed
<1> QED BY <1>1, JournalInvariant, CopyInvariant, PTL

(* Between commands the files are the newest image, hand edits apart. *)
THEOREM MaterializedHolds == ASSUME RacyEdits = FALSE PROVE Spec => []MaterializedCurrent
<1>1. CopyInv => MaterializedCurrent
  BY DEF CopyInv
<1> QED BY <1>1, CopyInvariant, PTL

(* Journal, cache and files agree, when no edit falls inside an open or a  *)
(* publication: what restore, execute and publish of the worker keep.      *)
THEOREM CopiesAgreeHolds == ASSUME RacyEdits = FALSE PROVE Spec => []CopiesAgree
<1>1. TypeOK /\ JournalRetention /\ ServesJournal /\ MaterializedCurrent => CopiesAgree
  BY DEF CopiesAgree
<1> QED BY <1>1, TypeCorrect, RetentionHolds, ServesJournalHolds, MaterializedHolds, PTL
----------------------------------------------------------------------------
(* Every call that is waiting has one place: the mailbox or the thread.    *)
QueueInv ==
  /\ job # Nobody => reply[job] = "waiting"
  /\ \A i \in 1..Len(mailbox) :
       mailbox[i] # job /\ reply[mailbox[i]] = "waiting" /\ ~committed[mailbox[i]]
  /\ \A i, j \in 1..Len(mailbox) : mailbox[i] = mailbox[j] => i = j

(* The command in hand: its effect is what is being published, and it is   *)
(* committed from the journal transaction to its answer.                   *)
CommandInv ==
  /\ job # Nobody => (committed[job] <=> (pc \in Publishing /\ ~boot))
  /\ pc \in Publishing \cup {"publish", "journal"} /\ ~boot => op[job].kind \in {"write", "clear"}
  /\ pc \in {"publish", "journal"} /\ ~boot => clearRow = {} /\ cache = Effect(op[job], before)
  /\ pc \in {"publish", "journal"} /\ boot => before = files /\ cache = WithLayout(before)
  /\ pc \in {"publish", "journal"} /\ boot /\ seq > 0 => before = rows[seq].snapshot

(* What a file held before it is replaced can be found again. *)
Kept(p) ==
  \/ files[p] = Absent
  \/ \E b \in backups : b[p] = files[p]
  \/ \E r \in DOMAIN rows : rows[r].snapshot[p] = files[p]

BackupInv ==
  /\ pc = "wipe" => \A p \in todo : Kept(p)
  /\ pc = "fill" => \A p \in todo : files[p] = Absent
  /\ pc = "journal" => \A p \in Paths :
       \/ files[p] \in {Absent, cache[p]}
       \/ \E b \in backups : b[p] = files[p]
       \/ seq > 0 /\ rows[seq].snapshot[p] = files[p]
  /\ pc \in {"prepare", "validate", "apply"} => \A p \in Paths : files[p] = cache[p] \/ Kept(p)

(* A step that leaves every call where it is, and one that answers a call. *)
Quiet == UNCHANGED <<mailbox, job, callers>>
Answered ==
  /\ job \in Clients /\ job' = Nobody /\ mailbox' = mailbox /\ op' = op
  /\ \E r \in {"ok", "error", "uncertain"} : reply' = [reply EXCEPT ![job] = r]
  /\ committed' \in {committed, [committed EXCEPT ![job] = TRUE]}

(* What the steps of restore, execute and publish do to the calls.         *)
LEMMA StepKinds ==
  ASSUME JournalInv, Next
  PROVE  \/ Quiet \/ Answered \/ PublishJournal \/ Receive \/ Evict \/ Crash
         \/ \E c \in Clients, o \in Ops : Submit(c, o)
<1>t. /\ pc \in Labels /\ job \in Clients \cup {Nobody}
      /\ job = Nobody <=> pc \in {"down", "idle"}
  BY DEF JournalInv, JobHeld, TypeOK, ThreadType
<1>1. CASE Restore
  BY <1>1 DEF Restore, RestorePreserve, RestoreWipe, RestoreFill, RestoreStage, RestoreLayout, Quiet
<1>2. CASE Execute
  <2>1. pc = "exec" /\ job \in Clients
    BY <1>2, <1>t DEF Execute, ExecuteRead, Acknowledge, ExecuteMutation, ExecuteRejected
  <2>2. CASE ExecuteRead
    BY <2>1, <2>2 DEF ExecuteRead, Finish, Answered
  <2>3. CASE Acknowledge
    BY <2>1, <2>3 DEF Acknowledge, Finish, Answered
  <2>4. CASE ExecuteMutation
    BY <2>1, <2>4 DEF ExecuteMutation, Finish, Answered, Quiet, callers
  <2>5. CASE ExecuteRejected
    BY <2>1, <2>5 DEF ExecuteRejected, Finish, Answered
  <2> QED BY <1>2, <2>2, <2>3, <2>4, <2>5 DEF Execute
<1>3. CASE Publish
  <2>1. CASE PublishPreserve \/ PublishPrepare \/ PublishValidate \/ PublishApply
    BY <2>1 DEF PublishPreserve, PublishPrepare, PublishValidate, PublishApply, Quiet
  <2>2. CASE PublishConflict
    BY <1>t, <2>2 DEF PublishConflict, Discard, Forget, Answered
  <2>3. CASE PublishMark
    BY <1>t, <2>3 DEF PublishMark, Finish, Answered, Quiet, callers
  <2> QED BY <1>3, <2>1, <2>2, <2>3 DEF Publish
<1>4. CASE Refuse
  BY <1>t, <1>4 DEF Refuse, Discard, Forget, Answered, Interrupted
<1>5. ASSUME NEW p \in Paths, NEW b \in Bodies \cup {Absent}, HandEdit(p, b)
      PROVE  Quiet
  BY <1>5 DEF HandEdit, Quiet, thread
<1> QED BY <1>1, <1>2, <1>3, <1>4, <1>5 DEF Next, Work

(* Nobody waits at the start.                                              *)
LEMMA QueueInvInit == Init => QueueInv
BY DEF Init, QueueInv

(* Submit and Receive move a call from its caller to the mailbox and to    *)
(* the thread, and an answer or a crash ends it.                           *)
LEMMA QueueInvStep ==
  ASSUME JournalInv, QueueInv, [Next]_vars
  PROVE  QueueInv'
<1>t. /\ mailbox \in Seq(Clients) /\ job \in Clients \cup {Nobody} /\ Nobody \notin Clients
      /\ reply \in [Clients -> {"waiting", "ok", "error", "uncertain"}]
      /\ committed \in [Clients -> BOOLEAN]
      /\ job = Nobody <=> pc \in {"down", "idle"}
  BY WorkerAssumption DEF JournalInv, JobHeld, TypeOK, ThreadType, CallersType
<1>m. Len(mailbox) \in Nat /\ \A i \in 1..Len(mailbox) : mailbox[i] \in Clients
  BY <1>t
<1>1. CASE Quiet
  BY <1>1 DEF Quiet, QueueInv, callers
<1>2. CASE Answered
  BY <1>2, <1>t, <1>m DEF Answered, QueueInv
<1>3. CASE PublishJournal
  BY <1>3, <1>t, <1>m DEF PublishJournal, QueueInv
<1>4. CASE Receive
  <2>1. /\ Len(mailbox) > 0 /\ job' = mailbox[1]
        /\ Len(mailbox') = Len(mailbox) - 1
        /\ \A i \in 1..Len(mailbox') : mailbox'[i] = mailbox[i + 1]
        /\ reply' = reply /\ committed' = committed
    BY <1>4, <1>t, <1>m DEF Receive, callers
  <2>2. \A i \in 1..Len(mailbox') : i + 1 \in 1..Len(mailbox) /\ i + 1 # 1
    BY <2>1, <1>m
  <2>3. job' # Nobody => reply'[job'] = "waiting"
    BY <2>1, <1>m DEF QueueInv
  <2>4. \A i \in 1..Len(mailbox') :
          mailbox'[i] # job' /\ reply'[mailbox'[i]] = "waiting" /\ ~committed'[mailbox'[i]]
    <3> SUFFICES ASSUME NEW i \in 1..Len(mailbox')
                 PROVE  mailbox'[i] # job' /\ reply'[mailbox'[i]] = "waiting" /\ ~committed'[mailbox'[i]]
      OBVIOUS
    <3>1. i + 1 \in 1..Len(mailbox) /\ 1 \in 1..Len(mailbox) /\ i + 1 # 1
      BY <2>1, <2>2, <1>m
    <3>2. mailbox[i + 1] # mailbox[1]
      BY <3>1 DEF QueueInv
    <3> QED BY <2>1, <3>1, <3>2 DEF QueueInv
  <2>5. \A i, j \in 1..Len(mailbox') : mailbox'[i] = mailbox'[j] => i = j
    <3> SUFFICES ASSUME NEW i \in 1..Len(mailbox'), NEW j \in 1..Len(mailbox'), mailbox'[i] = mailbox'[j]
                 PROVE  i = j
      OBVIOUS
    <3>1. i + 1 \in 1..Len(mailbox) /\ j + 1 \in 1..Len(mailbox) /\ mailbox[i + 1] = mailbox[j + 1]
      BY <2>1, <2>2
    <3>2. i + 1 = j + 1
      BY <3>1 DEF QueueInv
    <3> QED BY <3>2, <2>1, <1>m
  <2> QED BY <2>3, <2>4, <2>5 DEF QueueInv
<1>5. CASE Evict
  BY <1>5, <1>t, <1>m DEF Evict, Forget, callers, QueueInv
<1>6. CASE Crash
  BY <1>6, <1>t DEF Crash, Forget, QueueInv
<1>7. ASSUME NEW c \in Clients, NEW o \in Ops, Submit(c, o)
      PROVE  QueueInv'
  <2>1. /\ mailbox' = Append(mailbox, c) /\ reply[c] # "waiting" /\ job' = job
        /\ reply' = [reply EXCEPT ![c] = "waiting"]
        /\ committed' = [committed EXCEPT ![c] = FALSE]
    BY <1>7 DEF Submit, thread
  <2>2. /\ Len(mailbox') = Len(mailbox) + 1 /\ mailbox'[Len(mailbox) + 1] = c
        /\ \A i \in 1..Len(mailbox) : mailbox'[i] = mailbox[i]
    BY <2>1, <1>t
  <2>3. c # job /\ \A i \in 1..Len(mailbox) : mailbox[i] # c
    BY <2>1, <1>t DEF QueueInv
  <2>4. \A i \in 1..Len(mailbox') : i \in 1..Len(mailbox) \/ i = Len(mailbox) + 1
    BY <2>2, <1>m
  <2> QED BY <2>1, <2>2, <2>3, <2>4, <1>t, <1>m DEF QueueInv
<1>8. CASE UNCHANGED vars
  BY <1>8 DEF vars, thread, callers, QueueInv
<1> QED BY <1>1, <1>2, <1>3, <1>4, <1>5, <1>6, <1>7, <1>8, StepKinds

(* No command is in hand at the start.                                     *)
LEMMA CommandInvInit == Init => CommandInv
BY DEF Init, CommandInv, Publishing

(* What a step leaves the command in hand to be: the journal transaction   *)
(* commits it, and nothing else does before its answer.                    *)
LEMMA CommandInvStep ==
  ASSUME JournalInv, CopyInv, QueueInv, CommandInv, [Next]_vars, RacyEdits = FALSE
  PROVE  CommandInv'
<1>t. /\ job \in Clients \cup {Nobody} /\ Nobody \notin Clients
      /\ committed \in [Clients -> BOOLEAN] /\ op \in [Clients -> Op]
      /\ job = Nobody <=> pc \in {"down", "idle"}
      /\ pc \in {"idle", "exec", "down"} => ~boot
      /\ pc \in Opening => boot
      /\ seq \in Nat
  BY WorkerAssumption DEF JournalInv, JobHeld, BootPhase, TypeOK, ThreadType, CallersType, JournalType, Serving
<1>1. CASE RestorePreserve \/ RestoreWipe \/ RestoreFill \/ RestoreLayout
  BY <1>1, <1>t DEF RestorePreserve, RestoreWipe, RestoreFill, RestoreLayout, Goto, callers,
     CommandInv, Publishing, Opening
<1>2. CASE RestoreStage
  <2>1. boot /\ boot' /\ job' = job /\ committed' = committed /\ pc' \in {"layout", "publish"}
        /\ before' = files /\ files' = files /\ cache' = WithLayout(files) /\ pc = "stage"
        /\ seq' = seq /\ rows' = rows
    BY <1>2, <1>t DEF RestoreStage, Goto, callers, Opening, disk
  <2>2. seq > 0 => files = rows[seq].snapshot
    BY <2>1 DEF CopyInv, ReplayProgress
  <2> QED BY <2>1, <2>2 DEF CommandInv, Publishing
<1>3. CASE ExecuteRead \/ Acknowledge \/ ExecuteRejected
  BY <1>3, <1>t DEF ExecuteRead, Acknowledge, ExecuteRejected, Finish, Goto, CommandInv, Publishing
<1>4. CASE ExecuteMutation
  <2>1. CASE pc' = "idle" /\ job' = Nobody
    BY <2>1 DEF CommandInv, Publishing
  <2>2. CASE pc' = "publish" /\ cache' = Effect(op[job], before)
                /\ UNCHANGED <<job, before, committed>>
    <3>1. /\ pc = "exec" /\ boot' = FALSE /\ op' = op /\ clearRow' = clearRow /\ seq' = seq
          /\ op[job].kind \in {"write", "clear"} /\ clearRow = {}
      BY <1>4, <1>t DEF ExecuteMutation, Mutates, Unavailable, disk
    <3>2. job \in Clients /\ ~committed[job]
      BY <3>1, <1>t DEF CommandInv, Publishing
    <3> QED BY <2>2, <3>1, <3>2 DEF CommandInv, Publishing
  <2> QED BY <1>4, <2>1, <2>2 DEF ExecuteMutation, Finish, Goto
<1>5. CASE PublishPreserve
  BY <1>5, <1>t DEF PublishPreserve, Goto, callers, CommandInv, Publishing
<1>6. CASE PublishJournal
  BY <1>6, <1>t DEF PublishJournal, Goto, CommandInv, Publishing
<1>7. CASE PublishPrepare \/ PublishValidate \/ PublishApply
  BY <1>7, <1>t DEF PublishPrepare, PublishValidate, PublishApply, Goto, callers,
     CommandInv, Publishing, disk
<1>8. CASE PublishMark
  BY <1>8, <1>t DEF PublishMark, Finish, Goto, CommandInv, Publishing
<1>9. CASE PublishConflict \/ Refuse \/ Crash \/ Evict
  BY <1>9 DEF PublishConflict, Refuse, Crash, Evict, Discard, Forget, Goto, CommandInv, Publishing
<1>10. CASE Receive
  <2>1. job' \in Clients /\ ~committed[job'] /\ committed' = committed
        /\ pc' \notin Publishing \cup {"publish", "journal"}
    <3>1. mailbox \in Seq(Clients) /\ mailbox # <<>>
      BY <1>10 DEF Receive, JournalInv, TypeOK, CallersType
    <3>2. 1 \in 1..Len(mailbox) /\ Head(mailbox) = mailbox[1] /\ mailbox[1] \in Clients
      BY <3>1
    <3> QED BY <1>10, <3>2 DEF Receive, callers, Goto, QueueInv, Publishing
  <2> QED BY <2>1 DEF CommandInv
<1>11. ASSUME NEW c \in Clients, NEW o \in Ops, Submit(c, o)
       PROVE  CommandInv'
  <2>1. c # job /\ reply[c] # "waiting"
    BY <1>11, <1>t DEF Submit, QueueInv
  <2> QED BY <1>11, <1>t, <2>1 DEF Submit, CommandInv, thread, disk, Publishing
<1>12. ASSUME NEW p \in Paths, NEW b \in Bodies \cup {Absent}, HandEdit(p, b)
       PROVE  CommandInv'
  BY <1>12 DEF HandEdit, CommandInv, thread, callers, Publishing
<1>13. CASE UNCHANGED vars
  BY <1>13 DEF vars, thread, callers, disk, CommandInv
<1> QED BY <1>1, <1>2, <1>3, <1>4, <1>5, <1>6, <1>7, <1>8, <1>9, <1>10, <1>11, <1>12, <1>13
        DEF Next, Work, Restore, Execute, Publish

(* Every call has one place, and the command in hand is committed exactly  *)
(* between its journal transaction and its answer.                         *)
THEOREM CommandInvariant == ASSUME RacyEdits = FALSE PROVE Spec => [](QueueInv /\ CommandInv)
<1>1. Init => QueueInv /\ CommandInv
  BY QueueInvInit, CommandInvInit
<1>2. JournalInv /\ CopyInv /\ QueueInv /\ CommandInv /\ [Next]_vars => (QueueInv /\ CommandInv)'
  BY QueueInvStep, CommandInvStep
<1> QED BY <1>1, <1>2, JournalInvariant, CopyInvariant, PTL DEF Spec
----------------------------------------------------------------------------
(* A replayed, rewritten or compacted journal holds the same image; so do  *)
(* the files before there is a journal.                                    *)
LEMMA StoreIs ==
  ASSUME JournalInv
  PROVE  /\ Checkpointed <=> seq > 0
         /\ seq > 0 => Store = rows[seq].snapshot
         /\ seq = 0 => Store = WithLayout(files)
         /\ Store \in Image
<1>1. seq \in Nat /\ (seq > 0 => seq \in DOMAIN rows) /\ DOMAIN rows \subseteq {seq - 1, seq}
      /\ DOMAIN rows \subseteq Nat /\ 0 \notin DOMAIN rows /\ files \in Image
  BY DEF JournalInv, TypeOK, JournalType, FilesType, JournalRetention, ImageExists
<1>2. Checkpointed <=> seq > 0
  BY <1>1 DEF Checkpointed
<1>3. seq > 0 => Latest = rows[seq].snapshot /\ Latest \in Image
  BY NewestExists
<1> QED BY <1>1, <1>2, <1>3, LayoutType DEF Store

(* The same of the Space after a step.                                     *)
LEMMA StoreIsNext ==
  ASSUME JournalInv'
  PROVE  /\ Checkpointed' <=> seq' > 0
         /\ seq' > 0 => Store' = rows'[seq'].snapshot
         /\ seq' = 0 => Store' = WithLayout(files')
<1>1. seq' \in Nat /\ (seq' > 0 => seq' \in DOMAIN rows') /\ DOMAIN rows' \subseteq {seq' - 1, seq'}
      /\ DOMAIN rows' \subseteq Nat /\ 0 \notin DOMAIN rows'
  BY DEF JournalInv, TypeOK, JournalType, JournalRetention, ImageExists
<1>2. Checkpointed' <=> seq' > 0
  BY <1>1 DEF Checkpointed
<1>3. seq' > 0 => Latest' = rows'[seq'].snapshot
  BY NewestExistsNext
<1> QED BY <1>1, <1>2, <1>3 DEF Store

(* While a journal exists, only an admitted image changes the Space.       *)
LEMMA StoreKept ==
  ASSUME JournalInv, JournalInv', seq' = seq,
         rows' = rows \/ rows' = MarkedApplied, seq = 0 => files' = files /\ rows' = rows
  PROVE  Store' = Store /\ Checkpointed' = Checkpointed
<1>1. seq \in Nat
  BY DEF JournalInv, TypeOK, JournalType
<1>2. CASE seq = 0
  <2>1. Store' = WithLayout(files') /\ Store = WithLayout(files)
    BY <1>2, StoreIs, StoreIsNext
  <2> QED BY <1>2, <2>1 DEF Checkpointed
<1>3. CASE seq > 0
  <2>1. rows'[seq].snapshot = rows[seq].snapshot
    BY <1>3, MarkingRows
  <2>2. DOMAIN rows' = DOMAIN rows
    BY <1>3, MarkingRows
  <2> QED BY <1>3, <2>1, <2>2, StoreIs, StoreIsNext DEF Checkpointed
<1> QED BY <1>1, <1>2, <1>3

(* The Space and its worker mean the same by an image and by a command.    *)
LEMMA SameData ==
  /\ Space!Op = Op /\ Space!Image = Image
  /\ \A image : Space!WithLayout(image) = WithLayout(image)
  /\ \A o, image : Space!Effect(o, image) = Effect(o, image)
<1>1. Space!Image = Image /\ Space!Modules = Modules
  BY DEF Space!Image, Image, Space!Modules, Modules
<1>2. Space!Op = Op
  BY <1>1 DEF Space!Op, Op
<1>3. \A image : Space!WithLayout(image) = WithLayout(image)
  BY DEF Space!WithLayout, WithLayout
<1>4. \A p : Space!ModuleOf(p) = ModuleOf(p)
  BY DEF Space!ModuleOf, ModuleOf
<1>5. \A image, m : Space!Cleared(image, m) = Cleared(image, m)
  BY <1>3, <1>4 DEF Space!Cleared, Cleared
<1>6. \A o, image : Space!Effect(o, image) = Effect(o, image)
  BY <1>5 DEF Space!Effect, Effect
<1> QED BY <1>1, <1>2, <1>3, <1>6

(* Every step of the worker is a step of the Space it stands for, or none: *)
(* the journal transaction is the instant a command takes effect, an open  *)
(* repairs the layout, and the rest is seen by nobody.                     *)
LEMMA WorkerRefines ==
  ASSUME JournalInv, JournalInv', CopyInv, QueueInv, CommandInv, [Next]_vars, RacyEdits = FALSE
  PROVE  [Space!Next]_(Space!vars)
<1> DEFINE Same == UNCHANGED Space!vars
<1>t. /\ job \in Clients \cup {Nobody} /\ Nobody \notin Clients
      /\ committed \in [Clients -> BOOLEAN] /\ op \in [Clients -> Op]
      /\ reply \in [Clients -> {"waiting", "ok", "error", "uncertain"}]
      /\ job = Nobody <=> pc \in {"down", "idle"}
      /\ pc \in Replaying \cup Publishing \cup Serving \cup {"layout"} => seq > 0
      /\ pc \in {"publish", "journal"} /\ ~boot => seq > 0
      /\ pc \in Serving \cup {"down"} => ~boot
      /\ seq \in Nat
  BY WorkerAssumption DEF JournalInv, JobHeld, BootPhase, ImageExists, TypeOK, ThreadType, CallersType, JournalType
<1>1. CASE Receive \/ RestorePreserve \/ RestoreWipe \/ RestoreFill \/ RestoreStage \/ RestoreLayout
  <2>1. /\ seq' = seq /\ rows' \in {rows, MarkedApplied} /\ clearRow' = clearRow
        /\ op' = op /\ reply' = reply /\ committed' = committed
        /\ seq = 0 => files' = files /\ rows' = rows
    BY <1>1, <1>t DEF Receive, RestorePreserve, RestoreWipe, RestoreFill, RestoreStage, RestoreLayout,
       disk, callers, Replaying
  <2>2. Store' = Store /\ Checkpointed' = Checkpointed
    BY <2>1, StoreKept
  <2> QED BY <2>1, <2>2 DEF Space!vars
<1>2. CASE PublishPreserve \/ PublishPrepare \/ PublishValidate \/ PublishApply \/ Evict
  <2>1. /\ seq' = seq /\ rows' = rows /\ clearRow' = clearRow
        /\ op' = op /\ reply' = reply /\ committed' = committed
        /\ seq = 0 => files' = files
    BY <1>2, <1>t DEF PublishPreserve, PublishPrepare, PublishValidate, PublishApply, Evict,
       disk, callers, Publishing
  <2>2. Store' = Store /\ Checkpointed' = Checkpointed
    BY <2>1, StoreKept
  <2> QED BY <2>1, <2>2 DEF Space!vars
<1>3. ASSUME NEW r \in {"ok", "error", "uncertain"}, job \in Clients,
             reply' = [reply EXCEPT ![job] = r],
             r = "ok" => IF op[job].kind = "read" THEN clearRow = {} ELSE committed[job],
             UNCHANGED <<seq, clearRow, op, committed>>, rows' \in {rows, MarkedApplied},
             seq = 0 => files' = files /\ rows' = rows
      PROVE  Space!Next
  <2>1. Store' = Store /\ Checkpointed' = Checkpointed
    BY <1>3, StoreKept
  <2>2. reply[job] = "waiting"
    BY <1>3, <1>t DEF QueueInv
  <2>3. Space!Answer(job, r)
    BY <1>3, <2>1, <2>2 DEF Space!Answer
  <2> QED BY <1>3, <2>3 DEF Space!Next, Space!Answers
<1>4. CASE ExecuteRead
  <2>1. PICK r \in {"ok", "error"} :
          /\ reply' = [reply EXCEPT ![job] = r]
          /\ r = "ok" => op[job].kind = "read" /\ clearRow = {}
    BY <1>4 DEF ExecuteRead, Finish, Unavailable
  <2>2. job \in Clients /\ UNCHANGED <<seq, rows, files, clearRow, op, committed>>
    BY <1>4, <1>t DEF ExecuteRead, disk
  <2> QED BY <1>3, <2>1, <2>2
<1>5. CASE ExecuteRejected
  BY <1>3, <1>5, <1>t DEF ExecuteRejected, Finish, disk
<1>6. CASE PublishConflict
  BY <1>3, <1>6, <1>t DEF PublishConflict, Discard, disk
<1>7. CASE Refuse
  <2>1. pc \in Interrupted \cup {"exec"} /\ job \in Clients
    BY <1>7, <1>t DEF Refuse, Interrupted
  <2>2. UNCHANGED <<seq, rows, clearRow, op, committed>> /\ (seq = 0 => files' = files)
    BY <1>7, <1>t DEF Refuse, Publishing
  <2>3. PICK r \in {"error", "uncertain"} : reply' = [reply EXCEPT ![job] = r]
    BY <1>7 DEF Refuse, Discard
  <2> QED BY <1>3, <2>1, <2>2, <2>3
<1>8. CASE PublishMark
  <2>1. /\ UNCHANGED <<seq, clearRow, op, committed>> /\ rows' = MarkedApplied /\ seq > 0
        /\ job \in Clients
    BY <1>8, <1>t DEF PublishMark, Publishing
  <2>2. CASE boot
    <3>1. reply' = reply
      BY <1>8, <2>2 DEF PublishMark
    <3>2. Store' = Store /\ Checkpointed' = Checkpointed
      BY <2>1, StoreKept
    <3> QED BY <2>1, <3>1, <3>2 DEF Space!vars
  <2>3. CASE ~boot
    <3>1. reply' = [reply EXCEPT ![job] = "ok"] /\ committed[job] /\ op[job].kind # "read"
      BY <1>8, <2>1, <2>3, <1>t DEF PublishMark, Finish, CommandInv, Publishing
    <3> QED BY <1>3, <2>1, <3>1
  <2> QED BY <2>2, <2>3
<1>9. CASE Acknowledge
  <2>1. /\ job \in Clients /\ op[job].kind = "acknowledge" /\ ~committed[job] /\ reply[job] = "waiting"
        /\ UNCHANGED <<seq, rows, files, op>> /\ clearRow' = {}
        /\ committed' = [committed EXCEPT ![job] = TRUE] /\ reply' = [reply EXCEPT ![job] = "ok"]
    BY <1>9, <1>t DEF Acknowledge, Finish, QueueInv, CommandInv, Publishing
  <2>2. Store' = Store /\ Checkpointed' = Checkpointed
    BY <2>1, StoreKept
  <2>3. Effect(op[job], Store) = Store
    BY <2>1 DEF Effect
  <2>4. Space!TakeEffect(job)
    BY <2>1, <2>2, <2>3, SameData DEF Space!TakeEffect
  <2> QED BY <2>1, <2>4 DEF Space!Next
<1>10. CASE ExecuteMutation
  <2>1. /\ job \in Clients /\ ~committed[job] /\ reply[job] = "waiting" /\ clearRow = {}
        /\ op[job].kind \in {"write", "clear"} /\ seq > 0 /\ before = rows[seq].snapshot
        /\ UNCHANGED <<seq, rows, files, op, clearRow>>
    BY <1>10, <1>t DEF ExecuteMutation, Mutates, Unavailable, disk, QueueInv, CommandInv, Publishing,
       CopyInv, CopyCurrent, Serving
  <2>2. Store' = Store /\ Checkpointed' = Checkpointed
    BY <2>1, StoreKept
  <2>3. CASE reply' = reply /\ committed' = committed
    BY <2>1, <2>2, <2>3 DEF Space!vars
  <2>4. CASE /\ reply' = [reply EXCEPT ![job] = "ok"] /\ committed' = [committed EXCEPT ![job] = TRUE]
             /\ Effect(op[job], before) = before /\ op[job].kind # "clear"
    <3>1. Effect(op[job], Store) = Store
      BY <2>1, <2>4, StoreIs
    <3>2. Space!TakeEffect(job)
      BY <2>1, <2>2, <2>4, <3>1, SameData DEF Space!TakeEffect
    <3> QED BY <2>1, <3>2 DEF Space!Next
  <2> QED BY <1>10, <2>3, <2>4 DEF ExecuteMutation, Finish
<1>11. CASE PublishJournal
  <2>1. /\ job \in Clients /\ seq' = seq + 1 /\ rows' = Admitted(cache) /\ op' = op /\ reply' = reply
        /\ cache \in Image /\ (seq > 0 => rows[seq].applied)
    BY <1>11, <1>t DEF PublishJournal, JournalInv, TypeOK, ThreadType, MarkedBeforeNext
  <2>2. Store' = cache /\ Checkpointed'
    <3>1. rows'[seq + 1] = [snapshot |-> cache, applied |-> FALSE]
      BY <2>1, AdmittingRows
    <3> QED BY <2>1, <3>1, <1>t, StoreIsNext
  <2>3. CASE boot
    <3>1. cache = WithLayout(Store)
      <4>1. before = files /\ cache = WithLayout(before) /\ (seq > 0 => before = rows[seq].snapshot)
        BY <1>11, <2>3 DEF PublishJournal, CommandInv
      <4>2. files \in Image
        BY DEF JournalInv, TypeOK, FilesType
      <4> QED BY <4>1, <4>2, <1>t, StoreIs, LayoutIdempotent
    <3>2. UNCHANGED <<clearRow, committed>>
      BY <1>11, <2>3 DEF PublishJournal
    <3>3. Space!Repair
      BY <2>1, <2>2, <3>1, <3>2, SameData DEF Space!Repair, Checkpointed
    <3> QED BY <3>3 DEF Space!Next
  <2>4. CASE ~boot
    <3>1. /\ op[job].kind \in {"write", "clear"} /\ clearRow = {} /\ cache = Effect(op[job], before)
          /\ ~committed[job] /\ reply[job] = "waiting" /\ seq > 0 /\ before = rows[seq].snapshot
      BY <1>11, <2>1, <2>4, <1>t DEF PublishJournal, CommandInv, QueueInv, Publishing, CopyInv, CopyCurrent
    <3>2. cache = Effect(op[job], Store) /\ Checkpointed
      BY <3>1, StoreIs
    <3>3. /\ committed' = [committed EXCEPT ![job] = TRUE]
          /\ clearRow' = IF op[job].kind = "clear" THEN {op[job].modules} ELSE clearRow
      BY <1>11, <2>4 DEF PublishJournal
    <3>4. Space!TakeEffect(job)
      BY <2>1, <2>2, <3>1, <3>2, <3>3, SameData DEF Space!TakeEffect, Checkpointed
    <3> QED BY <2>1, <3>4 DEF Space!Next
  <2> QED BY <2>3, <2>4
<1>12. CASE Crash
  <2>1. Store' = Store /\ Checkpointed' = Checkpointed
    BY <1>12, StoreKept DEF Crash, disk
  <2>2. Space!Exit
    BY <1>12, <2>1 DEF Crash, disk, Space!Exit
  <2> QED BY <2>2 DEF Space!Next
<1>13. ASSUME NEW c \in Clients, NEW o \in Ops, Submit(c, o)
       PROVE  Space!Next
  <2>1. Store' = Store /\ Checkpointed' = Checkpointed
    BY <1>13, StoreKept DEF Submit, disk
  <2>2. Space!Call(c, o)
    BY <1>13, <2>1 DEF Submit, disk, Space!Call
  <2> QED BY <2>2, WorkerAssumption, SameData DEF Space!Next
<1>14. ASSUME NEW p \in Paths, NEW b \in Bodies \cup {Absent}, HandEdit(p, b)
       PROVE  [Space!Next]_(Space!vars)
  <2>1. UNCHANGED <<seq, rows, clearRow, op, reply, committed>>
    BY <1>14 DEF HandEdit, callers
  <2>2. CASE seq > 0
    <3>1. Store' = Store /\ Checkpointed' = Checkpointed
      BY <2>1, <2>2, StoreKept
    <3> QED BY <2>1, <3>1 DEF Space!vars
  <2>3. CASE seq = 0
    <3>1. ~Checkpointed /\ ~Checkpointed' /\ Store' = WithLayout(files') /\ files' \in Image
      BY <2>1, <2>3, StoreIs, StoreIsNext DEF JournalInv, TypeOK, FilesType
    <3>2. Checkpointed' = Checkpointed
      BY <2>1 DEF Checkpointed
    <3>3. Store' \in {WithLayout(image) : image \in Image}
      BY <3>1
    <3>4. Store' \in {Space!WithLayout(image) : image \in Space!Image}
      BY <3>3, SameData
    <3>5. Space!Migrate
      BY <2>1, <3>1, <3>2, <3>4 DEF Space!Migrate
    <3> QED BY <3>5 DEF Space!Next
  <2> QED BY <2>2, <2>3, <1>t
<1>15. CASE UNCHANGED vars
  <2>1. UNCHANGED <<files, seq, rows, clearRow, op, reply, committed>>
    BY <1>15 DEF vars, disk, callers
  <2>2. Store' = Store /\ Checkpointed' = Checkpointed
    BY <2>1, StoreKept
  <2> QED BY <2>1, <2>2 DEF Space!vars
<1> QED BY <1>1, <1>2, <1>4, <1>5, <1>6, <1>7, <1>8, <1>9, <1>10, <1>11, <1>12, <1>13, <1>14, <1>15
        DEF Next, Work, Restore, Execute, Publish

(* The worker of a Space implements what a Space promises, when no edit    *)
(* falls inside an open or a publication: commands take effect at one      *)
(* instant and at most once, answers tell the truth, and opens, crashes,   *)
(* rejected commands and hand edits change nothing that anyone can see.    *)
THEOREM SpaceImplemented == ASSUME RacyEdits = FALSE PROVE Spec => ImplementsSpace
<1>1. Init => Space!Init
  <2> SUFFICES ASSUME Init PROVE Space!Init
    OBVIOUS
  <2>1. ~Checkpointed /\ Store = WithLayout(files) /\ files \in Image
    BY WorkerAssumption DEF Init, Checkpointed, Store
  <2> QED BY <2>1, SameData DEF Init, Space!Init
<1>2. JournalInv /\ JournalInv' /\ CopyInv /\ QueueInv /\ CommandInv /\ [Next]_vars
        => [Space!Next]_(Space!vars)
  BY WorkerRefines
<1> QED BY <1>1, <1>2, JournalInvariant, CopyInvariant, CommandInvariant, PTL
        DEF Spec, ImplementsSpace, Space!Spec
----------------------------------------------------------------------------
(* Nothing is to be replaced before the first open.                        *)
LEMMA BackupInvInit == Init => BackupInv
BY DEF Init, BackupInv

(* The backup of restore and of publish is taken before the first write,   *)
(* and the journal keeps the image that a publication started from.        *)
LEMMA BackupInvStep ==
  ASSUME JournalInv, CopyInv, CommandInv, BackupInv, [Next]_vars, RacyEdits = FALSE
  PROVE  BackupInv'
<1>t. /\ pc \in Labels /\ seq \in Nat /\ files \in Image
      /\ pc \in Replaying \cup Publishing \cup Serving \cup {"layout"} => seq > 0
      /\ pc \in {"publish", "journal"} /\ ~boot => seq > 0
      /\ seq > 0 => seq \in DOMAIN rows /\ Latest = rows[seq].snapshot /\ LatestRevision = seq
      /\ DOMAIN rows \subseteq {seq - 1, seq}
  BY NewestExists DEF JournalInv, ImageExists, TypeOK, ThreadType, FilesType, JournalType, JournalRetention
<1>1. ASSUME pc' \notin {"wipe", "fill", "journal", "prepare", "validate", "apply"}
      PROVE  BackupInv'
  BY <1>1 DEF BackupInv
<1>2. CASE RestorePreserve
  <2>1. /\ pc' = "wipe" /\ files' = files /\ rows' = rows /\ backups' = Preserved(Latest)
        /\ todo' \subseteq Paths /\ seq > 0
    BY <1>2, <1>t DEF RestorePreserve, Goto, Replaying
  <2>2. \A p \in Paths : Kept(p)'
    <3>1. CASE files = Latest
      BY <2>1, <3>1, <1>t DEF Kept
    <3>2. CASE files # Latest
      BY <2>1, <3>2 DEF Kept, Preserved
    <3> QED BY <3>1, <3>2
  <2> QED BY <2>1, <2>2 DEF BackupInv
<1>3. CASE RestoreWipe
  <2>1. pc = "wipe" /\ rows' = rows /\ backups' = backups /\ todo \subseteq Paths
    BY <1>3 DEF RestoreWipe, JournalInv, TypeOK, ThreadType
  <2>2. CASE pc' = "fill" /\ todo = {} /\ files' = files /\ todo' = {p \in Paths : Latest[p] # Absent}
    BY <2>1, <2>2 DEF BackupInv, CopyInv, ReplayProgress
  <2>3. ASSUME NEW p \in todo, WriteFile(p, Absent), todo' = todo \ {p}, pc' = "wipe"
        PROVE  BackupInv'
    <3>1. \A q \in todo' : files'[q] = files[q] /\ Kept(q)
      BY <1>t, <2>1, <2>3 DEF WriteFile, Image, BackupInv
    <3>2. \A q \in todo' : Kept(q)'
      BY <2>1, <3>1 DEF Kept
    <3> QED BY <2>3, <3>2 DEF BackupInv
  <2> QED BY <1>3, <2>2, <2>3 DEF RestoreWipe, Goto
<1>4. CASE RestoreFill
  <2>1. CASE pc' = "stage"
    BY <1>1, <2>1
  <2>2. ASSUME NEW p \in todo, WriteFile(p, Latest[p]), todo' = todo \ {p}, pc' = "fill"
        PROVE  BackupInv'
    <3>1. pc = "fill" /\ todo \subseteq Paths
      BY <1>4 DEF RestoreFill, JournalInv, TypeOK, ThreadType
    <3>2. \A q \in todo' : files'[q] = Absent
      BY <1>t, <2>2, <3>1 DEF WriteFile, Image, BackupInv
    <3> QED BY <2>2, <3>2 DEF BackupInv
  <2> QED BY <1>4, <2>1, <2>2 DEF RestoreFill, Goto
<1>5. CASE PublishPreserve
  <2>1. /\ pc' = "journal" /\ UNCHANGED <<files, rows, seq, before, cache>> /\ backups' = Preserved(before)
        /\ pc = "publish"
    BY <1>5 DEF PublishPreserve, Goto
  <2>2. CASE files # before
    BY <2>1, <2>2 DEF Preserved, BackupInv
  <2>3. CASE files = before /\ seq > 0
    <3>1. before = rows[seq].snapshot
      BY <2>1, <2>3 DEF CommandInv, CopyInv, CopyCurrent
    <3> QED BY <2>1, <2>3, <3>1 DEF BackupInv
  <2>4. CASE files = before /\ seq = 0
    <3>1. cache = WithLayout(files)
      BY <2>1, <2>4, <1>t DEF CommandInv
    <3>2. \A p \in Paths : files[p] \in {Absent, cache[p]}
      BY <3>1 DEF WithLayout
    <3> QED BY <2>1, <3>2 DEF BackupInv
  <2> QED BY <1>t, <2>2, <2>3, <2>4
<1>6. CASE PublishJournal
  <2>1. /\ pc' = "prepare" /\ pc = "journal" /\ UNCHANGED <<files, cache, backups>>
        /\ rows' = Admitted(cache)
    BY <1>6 DEF PublishJournal, Goto
  <2>2. seq > 0 => seq \in DOMAIN rows' /\ rows'[seq] = rows[seq]
    BY <2>1, <1>t DEF Admitted
  <2>3. \A p \in Paths : files[p] = cache[p] \/ Kept(p)'
    BY <2>1, <2>2 DEF BackupInv, Kept
  <2> QED BY <2>1, <2>3 DEF BackupInv
<1>7. CASE PublishPrepare \/ PublishValidate
  <2>1. /\ pc \in {"prepare", "validate"} /\ UNCHANGED <<files, cache, rows, backups>>
        /\ pc' \in {"validate", "apply"}
    BY <1>7 DEF PublishPrepare, PublishValidate, Goto, disk
  <2>2. \A p \in Paths : Kept(p) => Kept(p)'
    BY <2>1 DEF Kept
  <2> QED BY <2>1, <2>2 DEF BackupInv
<1>8. CASE PublishApply
  <2>1. pc = "apply" /\ UNCHANGED <<cache, rows, backups>> /\ todo \subseteq Paths
    BY <1>8 DEF PublishApply, JournalInv, TypeOK, ThreadType
  <2>2. CASE pc' = "mark"
    BY <1>1, <2>2
  <2>3. ASSUME NEW p \in todo, WriteFile(p, cache[p]), pc' = "apply"
        PROVE  BackupInv'
    <3>1. \A q \in Paths : IF q = p THEN files'[q] = cache[q] ELSE files'[q] = files[q]
      BY <1>t, <2>1, <2>3 DEF WriteFile, Image
    <3>2. \A q \in Paths : files'[q] = files[q] /\ Kept(q) => Kept(q)'
      BY <2>1 DEF Kept
    <3>3. \A q \in Paths : files'[q] = cache'[q] \/ Kept(q)'
      BY <2>1, <3>1, <3>2 DEF BackupInv
    <3> QED BY <2>3, <3>3 DEF BackupInv
  <2> QED BY <1>8, <2>2, <2>3 DEF PublishApply, Goto
<1>9. CASE RestoreStage \/ RestoreLayout \/ Execute \/ PublishMark \/ PublishConflict \/ Refuse \/ Crash
             \/ Evict \/ Receive
  <2>1. pc' \notin {"wipe", "fill", "journal", "prepare", "validate", "apply"}
    BY <1>9 DEF RestoreStage, RestoreLayout, Execute, ExecuteRead, Acknowledge, ExecuteMutation, ExecuteRejected,
       PublishMark, PublishConflict, Refuse, Crash, Evict, Receive, Finish, Forget, Discard, Goto
  <2> QED BY <1>1, <2>1
<1>10. CASE \/ UNCHANGED vars \/ \E c \in Clients, o \in Ops : Submit(c, o)
  <2>1. UNCHANGED <<disk, thread>>
    BY <1>10 DEF vars, Submit
  <2>2. \A p \in Paths : Kept(p) => Kept(p)'
    BY <2>1 DEF Kept, disk
  <2> QED BY <2>1, <2>2 DEF BackupInv, disk, thread, JournalInv, TypeOK, ThreadType
<1>11. ASSUME NEW p \in Paths, NEW b \in Bodies \cup {Absent}, HandEdit(p, b)
       PROVE  BackupInv'
  BY <1>1, <1>11 DEF HandEdit, thread
<1> QED BY <1>2, <1>3, <1>4, <1>5, <1>6, <1>7, <1>8, <1>9, <1>10, <1>11 DEF Next, Work, Restore, Publish

(* What files still have to lose can be found in a backup or in the journal. *)
THEOREM BackupInvariant == ASSUME RacyEdits = FALSE PROVE Spec => []BackupInv
<1>1. Init => BackupInv
  BY BackupInvInit
<1>2. JournalInv /\ CopyInv /\ QueueInv /\ CommandInv /\ BackupInv /\ [Next]_vars => BackupInv'
  BY BackupInvStep
<1> QED BY <1>1, <1>2, JournalInvariant, CopyInvariant, CommandInvariant, PTL DEF Spec

(* What somebody wrote into a file by hand is replaced, by a replay or a   *)
(* publication, only when a backup or the journal holds it, when no edit   *)
(* falls inside an open or a publication.                                  *)
THEOREM EditsBackedUpHolds == ASSUME RacyEdits = FALSE PROVE Spec => EditsBackedUp
<1> DEFINE Saved ==
      \A p \in edited \ edited' :
        files[p] \in {Absent} \cup {b[p] : b \in backups} \cup {rows[r].snapshot[p] : r \in DOMAIN rows}
<1>1. ASSUME JournalInv, CopyInv, BackupInv, [Next]_vars
      PROVE  [Saved]_vars
  <2>t. edited \subseteq Paths /\ todo \subseteq Paths
    BY <1>1 DEF JournalInv, TypeOK, FilesType, ThreadType
  <2>1. SUFFICES ASSUME NEW p \in edited \ edited'
                 PROVE  Kept(p)
    BY DEF Kept
  <2>2. /\ RestoreWipe \/ RestoreFill \/ PublishApply \/ RestoreLayout
        /\ ~RestoreLayout => p \in todo
    <3>1. edited' # edited
      BY <2>1
    <3>2. CASE RestoreWipe \/ RestoreFill \/ PublishApply
      BY <3>1, <3>2, <2>1 DEF RestoreWipe, RestoreFill, PublishApply, WriteFile
    <3>3. CASE \E q \in Paths, body \in Bodies \cup {Absent} : HandEdit(q, body)
      BY <3>3, <2>1 DEF HandEdit
    <3>4. CASE \/ UNCHANGED vars \/ Execute \/ RestorePreserve \/ RestoreStage \/ Receive \/ Evict \/ Refuse \/ Crash
               \/ PublishPreserve \/ PublishJournal \/ PublishPrepare \/ PublishValidate \/ PublishConflict \/ PublishMark
               \/ \E c \in Clients, o \in Ops : Submit(c, o)
      BY <3>4, <2>1 DEF vars, Execute, ExecuteRead, Acknowledge, ExecuteMutation, ExecuteRejected, RestorePreserve,
         RestoreStage, Receive, Evict, Refuse, Crash, PublishPreserve, PublishJournal, PublishPrepare,
         PublishValidate, PublishConflict, PublishMark, Submit
    <3> QED BY <1>1, <3>2, <3>3, <3>4 DEF Next, Work, Restore, Publish
  <2>3. CASE RestoreWipe /\ p \in todo
    BY <1>1, <2>3 DEF RestoreWipe, BackupInv
  <2>4. CASE RestoreFill /\ p \in todo
    BY <1>1, <2>4 DEF RestoreFill, BackupInv, Kept
  <2>5. CASE PublishApply /\ p \in todo
    <3>1. files[p] = cache[p] \/ Kept(p)
      BY <1>1, <2>5, <2>t DEF PublishApply, BackupInv
    <3>2. cache = rows[seq].snapshot /\ seq \in DOMAIN rows
      BY <1>1, <2>5, NewestExists DEF PublishApply, CopyInv, CopyCurrent, Publishing, JournalInv, ImageExists
    <3> QED BY <3>1, <3>2 DEF Kept
  <2>6. CASE RestoreLayout
    <3>1. files' = WithLayout(files) /\ files'[p] # files[p] /\ p \in Paths
      BY <2>1, <2>6, <2>t DEF RestoreLayout
    <3> QED BY <3>1 DEF WithLayout, Kept
  <2> QED BY <2>2, <2>3, <2>4, <2>5, <2>6
<1>2. Spec => [][Saved]_vars
  BY <1>1, JournalInvariant, CopyInvariant, BackupInvariant, PTL DEF Spec
<1> QED BY <1>2, PTL DEF EditsBackedUp
----------------------------------------------------------------------------
(* A rebuild has vectors of exactly the documents that are not left to     *)
(* embed; a stored vector remembers the text its hash names.               *)
Ready(b) == b.place = "embedding" => b.todo \subseteq b.docs /\ b.ready = {Vector(d) : d \in b.docs \ b.todo}

Embedded(v) == v = [id |-> v.id, hash |-> v.hash, of |-> v.hash]

IndexInv ==
  /\ DOMAIN rebuild = Rebuilds
  /\ \A r \in Rebuilds : {"place", "todo", "docs", "ready"} \subseteq DOMAIN rebuild[r] /\ Ready(rebuild[r])
  /\ \A v \in index : Embedded(v)

(* A rebuild moves on and the index stays. *)
LEMMA RebuildMoved ==
  ASSUME IndexInv, NEW r \in Rebuilds, NEW b, {"place", "todo", "docs", "ready"} \subseteq DOMAIN b, Ready(b),
         rebuild' = [rebuild EXCEPT ![r] = b], UNCHANGED index
  PROVE  IndexInv'
BY DEF IndexInv

(* What is reused is what would be embedded again. *)
LEMMA ReusedAsEmbedded ==
  ASSUME NEW docs, NEW stored, \A v \in stored : Embedded(v),
         NEW kept, kept = Reusable(docs, stored) \/ kept = {},
         NEW rest, rest = {d \in docs : \A v \in kept : d.id # v.id \/ d.hash # v.hash}
  PROVE  kept = {Vector(d) : d \in docs \ rest}
<1>1. ASSUME NEW v \in kept
      PROVE  v \in {Vector(d) : d \in docs \ rest}
  <2>1. v \in stored /\ \E d \in docs : d.id = v.id /\ d.hash = v.hash
    BY DEF Reusable
  <2>2. PICK d \in docs : d.id = v.id /\ d.hash = v.hash
    BY <2>1
  <2>3. d \notin rest
    BY <2>2
  <2>4. v = Vector(d)
    BY <2>1, <2>2 DEF Embedded, Vector
  <2> QED BY <2>3, <2>4
<1>2. ASSUME NEW d \in docs \ rest
      PROVE  Vector(d) \in kept
  <2>1. PICK v \in kept : d.id = v.id /\ d.hash = v.hash
    OBVIOUS
  <2>2. v \in stored
    BY DEF Reusable
  <2>3. Vector(d) = v
    BY <2>1, <2>2 DEF Embedded, Vector
  <2> QED BY <2>3
<1> QED BY <1>1, <1>2

LEMMA IndexRead ==
  ASSUME IndexInv, NEW r \in Rebuilds, NEW incremental \in BOOLEAN, ReadIndex(r, incremental)
  PROVE  IndexInv'
<1> DEFINE docs == rebuild[r].docs
           kept == IF incremental THEN Reusable(docs, index) ELSE {}
           rest == {d \in docs : \A v \in kept : d.id # v.id \/ d.hash # v.hash}
           b == [rebuild[r] EXCEPT !.place = "embedding", !.ready = kept, !.todo = rest]
<1>1. kept = {Vector(d) : d \in docs \ rest} /\ rest \subseteq docs
  <2>1. \A v \in index : Embedded(v)
    BY DEF IndexInv
  <2>2. rest = {d \in docs : \A v \in kept : d.id # v.id \/ d.hash # v.hash}
    OBVIOUS
  <2>3. kept = Reusable(docs, index) \/ kept = {}
    OBVIOUS
  <2>4. rest \subseteq docs
    OBVIOUS
  <2> HIDE DEF kept, rest, docs
  <2>5. kept = {Vector(d) : d \in docs \ rest}
    BY <2>1, <2>2, <2>3, ReusedAsEmbedded
  <2> QED BY <2>4, <2>5
<1>2. rebuild' = [rebuild EXCEPT ![r] = b] /\ UNCHANGED index
  BY DEF ReadIndex
<1>3. {"place", "todo", "docs", "ready"} \subseteq DOMAIN rebuild[r]
  BY DEF IndexInv
<1> HIDE DEF kept, rest
<1>4. /\ {"place", "todo", "docs", "ready"} \subseteq DOMAIN b
      /\ b.todo = rest /\ b.docs = docs /\ b.ready = kept
  BY <1>3
<1> HIDE DEF b, docs
<1>5. Ready(b)
  BY <1>1, <1>4 DEF Ready
<1> QED BY <1>2, <1>4, <1>5, RebuildMoved

LEMMA BatchEmbedded ==
  ASSUME IndexInv, NEW r \in Rebuilds, Embed(r)
  PROVE  IndexInv'
<1> DEFINE docs == rebuild[r].docs
           rest == rebuild[r].todo
<1>1. PICK batch \in kSubset(Min({BatchSize, Cardinality(rest)}), rest) :
        rebuild' = [rebuild EXCEPT ![r].todo = @ \ batch, ![r].ready = @ \cup {Vector(d) : d \in batch}]
  BY DEF Embed
<1> DEFINE done == {Vector(d) : d \in batch}
           b == [rebuild[r] EXCEPT !.todo = @ \ batch, !.ready = @ \cup done]
<1>2. rebuild' = [rebuild EXCEPT ![r] = b]
  BY <1>1
<1>3. rebuild[r].place = "embedding" /\ UNCHANGED index /\ {"place", "todo", "docs", "ready"} \subseteq DOMAIN rebuild[r]
  BY DEF Embed, IndexInv
<1>4. batch \subseteq rest /\ rest \subseteq docs /\ rebuild[r].ready = {Vector(d) : d \in docs \ rest}
  BY <1>1, <1>3 DEF kSubset, IndexInv, Ready
<1>5. docs \ (rest \ batch) = (docs \ rest) \cup batch
  BY <1>4
<1>6. rebuild[r].ready \cup done = {Vector(d) : d \in (docs \ rest) \cup batch}
  BY <1>4
<1> HIDE DEF done
<1>7. /\ {"place", "todo", "docs", "ready"} \subseteq DOMAIN b
      /\ b.todo = rest \ batch /\ b.docs = docs /\ b.ready = rebuild[r].ready \cup done
  BY <1>3
<1> HIDE DEF b, docs, rest
<1>8. Ready(b)
  BY <1>4, <1>5, <1>6, <1>7 DEF Ready
<1> QED BY <1>2, <1>3, <1>7, <1>8, RebuildMoved

LEMMA IndexReplaced ==
  ASSUME IndexInv, NEW r \in Rebuilds, EndRebuild(r)
  PROVE  IndexInv' /\ (index' # index => index' = {Vector(d) : d \in rebuild[r].docs})
<1> DEFINE b == [place |-> "new", todo |-> {}, docs |-> {}, ready |-> {}]
<1>1. {"place", "todo", "docs", "ready"} \subseteq DOMAIN b /\ Ready(b)
  BY DEF Ready
<1>2. rebuild' = [rebuild EXCEPT ![r] = b]
  BY DEF EndRebuild
<1>3. index' = index \/ index' = {Vector(d) : d \in rebuild[r].docs}
  <2>1. rebuild[r].todo = {} => rebuild[r].ready = {Vector(d) : d \in rebuild[r].docs}
    BY DEF EndRebuild, IndexInv, Ready
  <2> QED BY <2>1 DEF EndRebuild, Stored
<1>4. \A v \in index' : Embedded(v)
  BY <1>3 DEF IndexInv, Embedded, Vector
<1> HIDE DEF b
<1>5. IndexInv'
  BY <1>1, <1>2, <1>4 DEF IndexInv
<1> QED BY <1>3, <1>5

LEMMA RebuildBegun ==
  ASSUME IndexInv, NEW r \in Rebuilds, BeginRebuild(r)
  PROVE  IndexInv'
<1> DEFINE b == [rebuild[r] EXCEPT !.place = "read", !.docs = Documents(graph)]
<1>1. rebuild' = [rebuild EXCEPT ![r] = b] /\ UNCHANGED index
  BY DEF BeginRebuild
<1>2. {"place", "todo", "docs", "ready"} \subseteq DOMAIN rebuild[r]
  BY DEF IndexInv
<1>3. {"place", "todo", "docs", "ready"} \subseteq DOMAIN b /\ b.place = "read"
  BY <1>2
<1> HIDE DEF b
<1> QED BY <1>1, <1>3, RebuildMoved DEF Ready

LEMMA GraphStep ==
  ASSUME IndexInv, [GraphNext]_graphVars
  PROVE  IndexInv' /\ (index' # index => \E r \in Rebuilds : index' = {Vector(d) : d \in rebuild[r].docs})
<1>1. CASE UNCHANGED <<index, rebuild>>
  BY <1>1 DEF IndexInv
<1>2. ASSUME NEW r \in Rebuilds, BeginRebuild(r)
      PROVE  IndexInv' /\ UNCHANGED index
  BY <1>2, RebuildBegun DEF BeginRebuild
<1>3. ASSUME NEW r \in Rebuilds, Embed(r)
      PROVE  IndexInv' /\ UNCHANGED index
  BY <1>3, BatchEmbedded DEF Embed
<1>4. ASSUME NEW r \in Rebuilds, NEW incremental \in BOOLEAN, ReadIndex(r, incremental)
      PROVE  IndexInv' /\ UNCHANGED index
  BY <1>4, IndexRead DEF ReadIndex
<1>5. ASSUME NEW r \in Rebuilds, EndRebuild(r)
      PROVE  IndexInv' /\ (index' # index => \E s \in Rebuilds : index' = {Vector(d) : d \in rebuild[s].docs})
  BY <1>5, IndexReplaced
<1>6. CASE UNCHANGED graphVars
  BY <1>1, <1>6 DEF graphVars
<1>7. ASSUME NEW patch \in Patches, Proposal(patch) \/ Authorized(patch)
      PROVE  UNCHANGED <<index, rebuild>>
  BY <1>7 DEF Proposal, Authorized, ApplyPatch
<1>8. ASSUME NEW c \in pending, Approve(c) \/ Reject(c)
      PROVE  UNCHANGED <<index, rebuild>>
  BY <1>8 DEF Approve, Reject
<1>9. ASSUME NEW f \in Files, NEW node \in Written, WriteNode(f, node)
      PROVE  UNCHANGED <<index, rebuild>>
  BY <1>9 DEF WriteNode
<1>10. ASSUME NEW f \in Files, ArchiveNode(f) \/ DeleteNode(f)
       PROVE  UNCHANGED <<index, rebuild>>
  BY <1>10 DEF ArchiveNode, DeleteNode
<1> QED BY <1>1, <1>2, <1>3, <1>4, <1>5, <1>6, <1>7, <1>8, <1>9, <1>10 DEF GraphNext

(* What a rebuild of rebuild_nsg_vector_index has, and the store, in every *)
(* state.                                                                  *)
THEOREM IndexInvariant == GraphSpec => []IndexInv
<1>1. GraphInit => IndexInv
  BY DEF GraphInit, IndexInv, Ready
<1>2. IndexInv /\ [GraphNext]_graphVars => IndexInv'
  BY GraphStep
<1> QED BY <1>1, <1>2, PTL DEF GraphSpec

(* replace_nsg_vectors gives the store the vectors of exactly the documents *)
(* one rebuild read, each of the text its hash names, whatever was edited,  *)
(* reused or rebuilt meanwhile.                                             *)
THEOREM IndexSnapshotHolds == GraphSpec => IndexIsSnapshot
<1> DEFINE Replaced == index' # index => \E r \in Rebuilds : index' = {Vector(d) : d \in rebuild[r].docs}
<1>1. IndexInv /\ [GraphNext]_graphVars => [Replaced]_graphVars
  BY GraphStep
<1>2. GraphSpec => [][Replaced]_graphVars
  <2> HIDE DEF Replaced
  <2> QED BY <1>1, IndexInvariant, PTL DEF GraphSpec
<1> QED BY <1>2 DEF IndexIsSnapshot
-----------------------------------------------------------------------------
(* A set of numbers has a least one ... *)
LEMMA LeastNumber ==
  ASSUME NEW T, T \subseteq Nat, T # {}
  PROVE  \E n \in T : \A m \in T : n <= m
<1>1. PICK n \in T : \A m \in T : ~ (<<m, n>> \in OpToRel(<, Nat))
  BY NatLessThanWellFounded, WFMin
<1>2. \A m \in T : ~ (m < n)
  BY <1>1 DEF OpToRel
<1> QED BY <1>2

(* ... so that one which has 0, and with a number the next, has them all. *)
LEMMA AllNumbers ==
  ASSUME NEW T, 0 \in T, \A n \in Nat : n \in T => n + 1 \in T
  PROVE  Nat \subseteq T
<1>1. SUFFICES ASSUME Nat \ T # {} PROVE FALSE
  OBVIOUS
<1>2. PICK n \in Nat \ T : \A m \in Nat \ T : n <= m
  BY <1>1, LeastNumber
<1>3. n - 1 \in Nat /\ n - 1 \in T
  BY <1>2
<1> QED BY <1>2, <1>3

(* What a patch makes of a file is made one operation after the other. *)
LEMMA PatchedInOrder ==
  ASSUME NEW part, NEW authorized, IsList(part.ops)
  PROVE  LET P == Patched(part, authorized) IN
         /\ P[0] = Alone(graph[part.file])
         /\ \A n \in 1 .. Len(part.ops) : P[n] = Prepared(part.file, P[n - 1], part.ops[n], authorized)
<1> DEFINE Next1(g, n) == IF n = 0 THEN Alone(graph[part.file])
                          ELSE Prepared(part.file, g[n - 1], part.ops[n], authorized)
           Follows(g, k) == g = [n \in 0 .. k |-> Next1(g, n)]
           T == {k \in Nat : \E g : Follows(g, k)}
           P == Patched(part, authorized)
           L == Len(part.ops)
<1>1. 0 \in T
  <2>1. Follows([n \in 0 .. 0 |-> Alone(graph[part.file])], 0)
    OBVIOUS
  <2> QED BY <2>1
<1>2. ASSUME NEW k \in Nat, k \in T PROVE k + 1 \in T
  <2>1. PICK g : Follows(g, k)
    BY <1>2
  <2> DEFINE x == Prepared(part.file, g[k], part.ops[k + 1], authorized)
             h == [n \in 0 .. k + 1 |-> IF n = k + 1 THEN x ELSE g[n]]
  <2>2. \A n \in 0 .. k + 1 : h[n] = Next1(h, n)
    <3>1. ASSUME NEW n \in 0 .. k PROVE h[n] = Next1(h, n)
      <4>1. h[n] = g[n] /\ g[n] = Next1(g, n)
        BY <2>1, <3>1
      <4>2. n # 0 => h[n - 1] = g[n - 1]
        BY <3>1
      <4> HIDE DEF h
      <4> QED BY <4>1, <4>2
    <3>2. h[k + 1] = Next1(h, k + 1)
      <4>1. h[k + 1] = x /\ h[(k + 1) - 1] = g[k] /\ k + 1 # 0
        OBVIOUS
      <4> HIDE DEF h
      <4> QED BY <4>1
    <3> HIDE DEF h, Next1
    <3> QED BY <3>1, <3>2
  <2>3. Follows(h, k + 1)
    <3> HIDE DEF Next1, x
    <3> QED BY <2>2
  <2> HIDE DEF Follows, h
  <2> QED BY <2>3
<1>3. L \in T
  <2> HIDE DEF T
  <2> QED BY <1>1, <1>2, AllNumbers DEF IsList
<1>4. P = CHOOSE g : Follows(g, L)
  BY DEF Patched
<1>5. Follows(P, L)
  <2> HIDE DEF Follows
  <2> QED BY <1>3, <1>4
<1> HIDE DEF P
<1>6. \A n \in 0 .. L : P[n] = Next1(P, n)
  <2> HIDE DEF Next1
  <2> QED BY <1>5
<1>7. L \in Nat
  BY DEF IsList
<1> HIDE DEF L
<1>8. P[0] = Alone(graph[part.file]) /\ \A n \in 1 .. L : P[n] = Prepared(part.file, P[n - 1], part.ops[n], authorized)
  BY <1>6, <1>7
<1> QED BY <1>8 DEF P, L

(* So are the changes of a candidate. *)
LEMMA ChangedInOrder ==
  ASSUME NEW node, NEW changes, IsList(changes)
  PROVE  LET C == Changed(node, changes) IN
         /\ C[0] = node
         /\ \A n \in 1 .. Len(changes) : C[n] = IF C[n - 1] = Bad THEN Bad ELSE Apply(C[n - 1], changes[n])
<1> DEFINE Next1(g, n) == IF n = 0 THEN node ELSE IF g[n - 1] = Bad THEN Bad ELSE Apply(g[n - 1], changes[n])
           Follows(g, k) == g = [n \in 0 .. k |-> Next1(g, n)]
           T == {k \in Nat : \E g : Follows(g, k)}
           C == Changed(node, changes)
           L == Len(changes)
<1>1. 0 \in T
  <2>1. Follows([n \in 0 .. 0 |-> node], 0)
    OBVIOUS
  <2> QED BY <2>1
<1>2. ASSUME NEW k \in Nat, k \in T PROVE k + 1 \in T
  <2>1. PICK g : Follows(g, k)
    BY <1>2
  <2> DEFINE x == IF g[k] = Bad THEN Bad ELSE Apply(g[k], changes[k + 1])
             h == [n \in 0 .. k + 1 |-> IF n = k + 1 THEN x ELSE g[n]]
  <2>2. \A n \in 0 .. k + 1 : h[n] = Next1(h, n)
    <3>1. ASSUME NEW n \in 0 .. k PROVE h[n] = Next1(h, n)
      <4>1. h[n] = g[n] /\ g[n] = Next1(g, n)
        BY <2>1, <3>1
      <4>2. n # 0 => h[n - 1] = g[n - 1]
        BY <3>1
      <4> HIDE DEF h
      <4> QED BY <4>1, <4>2
    <3>2. h[k + 1] = Next1(h, k + 1)
      <4>1. h[k + 1] = x /\ h[(k + 1) - 1] = g[k] /\ k + 1 # 0
        OBVIOUS
      <4> HIDE DEF h
      <4> QED BY <4>1
    <3> HIDE DEF h, Next1
    <3> QED BY <3>1, <3>2
  <2>3. Follows(h, k + 1)
    <3> HIDE DEF Next1, x
    <3> QED BY <2>2
  <2> HIDE DEF Follows, h
  <2> QED BY <2>3
<1>3. L \in T
  <2> HIDE DEF T
  <2> QED BY <1>1, <1>2, AllNumbers DEF IsList
<1>4. C = CHOOSE g : Follows(g, L)
  BY DEF Changed
<1>5. Follows(C, L)
  <2> HIDE DEF Follows
  <2> QED BY <1>3, <1>4
<1> HIDE DEF C
<1>6. \A n \in 0 .. L : C[n] = Next1(C, n)
  <2> HIDE DEF Next1
  <2> QED BY <1>5
<1>7. L \in Nat
  BY DEF IsList
<1> HIDE DEF L
<1>8. C[0] = node /\ \A n \in 1 .. L : C[n] = IF C[n - 1] = Bad THEN Bad ELSE Apply(C[n - 1], changes[n])
  BY <1>6, <1>7
<1> QED BY <1>8 DEF C, L

(* An operation leaves a node its mode, or it is one that sets it. *)
LEMMA ApplyKeepsMode ==
  ASSUME NEW node, NEW change, HasMode(node)
  PROVE  /\ HasMode(Apply(node, change))
         /\ node.mode # "canon" /\ ~(change.type = "update_frontmatter" /\ change.mode = "canon")
            => Apply(node, change).mode # "canon"
<1>1. CASE change.type = "update_node"
  BY <1>1 DEF Apply, HasMode
<1>2. CASE change.type = "add_edge"
  <2>1. Apply(node, change) = Linked(node, change.edge)
    BY <1>2 DEF Apply
  <2>2. Linked(node, change.edge) \in {[node EXCEPT !.edges = @ \cup {change.edge}], node, Bad}
    BY DEF Linked
  <2> QED BY <1>2, <2>1, <2>2 DEF HasMode, Bad
<1>3. CASE change.type = "remove_edge"
  BY <1>3 DEF Apply, HasMode
<1>4. CASE change.type = "update_frontmatter"
  <2>1. Apply(node, change) = [node EXCEPT !.mode = Or(change.mode, @), !.status = Or(change.status, @)]
    BY <1>4 DEF Apply
  <2>2. HasMode(Apply(node, change)) /\ Apply(node, change).mode = Or(change.mode, node.mode)
    BY <2>1 DEF HasMode
  <2> QED BY <1>4, <2>2 DEF Or
<1>5. CASE change.type = "archive_node"
  BY <1>5 DEF Apply, HasMode
<1>6. CASE change.type \notin {"update_node", "add_edge", "remove_edge", "update_frontmatter", "archive_node"}
  BY <1>6 DEF Apply, HasMode, Bad
<1> QED BY <1>1, <1>2, <1>3, <1>4, <1>5, <1>6

(* What an operation of a patch has made so far. *)
Progress(acc) ==
  /\ {"node", "candidates"} \subseteq DOMAIN acc /\ HasMode(acc.node)
  /\ \A c \in acc.candidates : IsList(c.changes)

(* Without authority an operation leaves canon as it is, and makes none. *)
LEMMA PreparedKeepsCanon ==
  ASSUME NEW file, NEW acc, NEW change, NEW authorized \in BOOLEAN, Progress(acc),
         change.type = "revision_candidate" => IsList(change.changes)
  PROVE  LET next == Prepared(file, acc, change, authorized) IN
         /\ Progress(next)
         /\ ~authorized /\ acc.node.mode = "canon" => next.node = acc.node
         /\ ~authorized /\ acc.node.mode # "canon" => next.node.mode # "canon"
<1> DEFINE next == Prepared(file, acc, change, authorized)
           waits(reason, changes) ==
             [acc EXCEPT !.candidates = @ \cup {Candidate(file, acc.node.id, reason, changes)}]
<1>1. ASSUME NEW reason, NEW changes, IsList(changes)
      PROVE  Progress(waits(reason, changes)) /\ waits(reason, changes).node = acc.node
  <2>1. /\ DOMAIN waits(reason, changes) = DOMAIN acc /\ waits(reason, changes).node = acc.node
        /\ waits(reason, changes).candidates = acc.candidates \cup {Candidate(file, acc.node.id, reason, changes)}
    BY DEF Progress
  <2>2. Candidate(file, acc.node.id, reason, changes).changes = changes
    BY DEF Candidate
  <2> HIDE DEF waits
  <2> QED BY <1>1, <2>1, <2>2 DEF Progress
<1>2. CASE acc.node = Bad
  BY <1>2 DEF Prepared
<1>3. CASE acc.node # Bad /\ change.type = "revision_candidate"
  <2>1. next = waits(change.reason, change.changes)
    BY <1>3 DEF Prepared
  <2> HIDE DEF next, waits
  <2> QED BY <1>1, <1>3, <2>1 DEF next
<1>4. CASE acc.node # Bad /\ change.type # "revision_candidate" /\ ~authorized /\ Protected(acc.node, change)
  <2>1. next = waits("canon", <<change>>)
    BY <1>4 DEF Prepared
  <2>2. IsList(<<change>>)
    BY DEF IsList
  <2> HIDE DEF next, waits
  <2> QED BY <1>1, <2>1, <2>2 DEF next
<1>5. CASE acc.node # Bad /\ change.type # "revision_candidate" /\ ~(~authorized /\ Protected(acc.node, change))
  <2>1. next = [acc EXCEPT !.node = Apply(@, change)]
    BY <1>5 DEF Prepared
  <2>2. DOMAIN next = DOMAIN acc /\ next.node = Apply(acc.node, change) /\ next.candidates = acc.candidates
    BY <2>1 DEF Progress
  <2>3. HasMode(Apply(acc.node, change))
    BY ApplyKeepsMode DEF Progress
  <2>4. ~authorized => acc.node.mode # "canon" /\ ~(change.type = "update_frontmatter" /\ change.mode = "canon")
    BY <1>5 DEF Protected
  <2>5. ~authorized => Apply(acc.node, change).mode # "canon"
    BY <2>4, ApplyKeepsMode DEF Progress
  <2> HIDE DEF next
  <2> QED BY <2>2, <2>3, <2>4, <2>5 DEF next, Progress
<1> HIDE DEF next
<1> QED BY <1>2, <1>3, <1>4, <1>5 DEF next

(* The operations of a patch that is fit to be applied. *)
Fit(part) ==
  /\ IsList(part.ops)
  /\ \A n \in DOMAIN part.ops :
       /\ part.ops[n].type = "create_node" => HasMode(part.ops[n].node)
       /\ part.ops[n].type = "revision_candidate" => IsList(part.ops[n].changes)

(* Nor do all of them together, however they follow on each other. *)
LEMMA PatchedKeepsCanon ==
  ASSUME NEW part, NEW authorized \in BOOLEAN, Fit(part), HasMode(graph[part.file])
  PROVE  LET end == Patched(part, authorized)[Len(part.ops)]
             old == graph[part.file] IN
         /\ Progress(end)
         /\ ~authorized /\ old.mode = "canon" => end.node = old
         /\ ~authorized /\ old.mode # "canon" => end.node.mode # "canon"
<1> DEFINE P == Patched(part, authorized)
           old == graph[part.file]
           L == Len(part.ops)
           CanonLeft(n) ==
             /\ Progress(P[n])
             /\ ~authorized /\ old.mode = "canon" => P[n].node = old
             /\ ~authorized /\ old.mode # "canon" => P[n].node.mode # "canon"
           T == {n \in Nat : n <= L => CanonLeft(n)}
<1>1. /\ P[0] = Alone(old)
      /\ \A n \in 1 .. L : P[n] = Prepared(part.file, P[n - 1], part.ops[n], authorized)
  BY PatchedInOrder DEF Fit
<1>2. L \in Nat /\ DOMAIN part.ops = 1 .. L
  BY DEF Fit, IsList
<1> HIDE DEF P, L
<1>3. CanonLeft(0)
  BY <1>1 DEF Alone, Progress
<1>4. ASSUME NEW n \in Nat, n \in T PROVE n + 1 \in T
  <2>1. SUFFICES ASSUME n + 1 <= L PROVE CanonLeft(n + 1)
    OBVIOUS
  <2>2. CanonLeft(n)
    BY <1>2, <1>4, <2>1
  <2>3. n + 1 \in 1 .. L /\ (n + 1) - 1 = n
    BY <1>2, <2>1
  <2>4. P[n + 1] = Prepared(part.file, P[n], part.ops[n + 1], authorized)
    BY <1>1, <2>3
  <2>5. part.ops[n + 1].type = "revision_candidate" => IsList(part.ops[n + 1].changes)
    BY <1>2, <2>3 DEF Fit
  <2>6. /\ Progress(P[n + 1])
        /\ ~authorized /\ P[n].node.mode = "canon" => P[n + 1].node = P[n].node
        /\ ~authorized /\ P[n].node.mode # "canon" => P[n + 1].node.mode # "canon"
    BY <2>2, <2>4, <2>5, PreparedKeepsCanon
  <2> QED BY <2>2, <2>6
<1>5. CanonLeft(L)
  <2> HIDE DEF CanonLeft
  <2>1. 0 \in T
    BY <1>3
  <2>2. L \in T
    <3> HIDE DEF T
    <3> QED BY <1>2, <1>4, <2>1, AllNumbers
  <2> QED BY <1>2, <2>2
<1> QED BY <1>5 DEF P, L

(* What an unauthorized patch of a file may make of its node. *)
LEMMA FileKeepsCanon ==
  ASSUME NEW part, NEW authorized \in BOOLEAN, Fit(part), graph[part.file] # NoNode => HasMode(graph[part.file])
  PROVE  LET result == FilePatch(part, authorized)
             old == graph[part.file] IN
         /\ Progress(result)
         /\ ~authorized /\ result.node # Bad /\ old # NoNode /\ old.mode = "canon" => result.node = old
         /\ ~authorized /\ ~(old # NoNode /\ old.mode = "canon") => result.node.mode # "canon"
<1> DEFINE result == FilePatch(part, authorized)
           old == graph[part.file]
           node == part.ops[1].node
           creates == {i \in DOMAIN part.ops : part.ops[i].type = "create_node"}
<1>1. Progress(Alone(Bad)) /\ Alone(Bad).node = Bad /\ Bad.mode # "canon"
  BY DEF Progress, Alone, HasMode, Bad
<1>2. CASE result = Alone(Bad)
  BY <1>1, <1>2
<1>3. CASE part.ops # <<>> /\ creates # {} /\ Len(part.ops) = 1
  <2>1. result = Alone(IF \/ ~authorized /\ node.mode # "draft"
                          \/ old \notin {NoNode, node}
                       THEN Bad ELSE node)
    BY <1>3 DEF FilePatch
  <2>2. HasMode(node)
    BY <1>3 DEF Fit, IsList
  <2>3. CASE result = Alone(node) /\ ~(~authorized /\ node.mode # "draft") /\ old \in {NoNode, node}
    <3>1. Progress(result) /\ result.node = node
      BY <2>2, <2>3 DEF Progress, Alone
    <3> HIDE DEF result
    <3> QED BY <2>3, <3>1 DEF result
  <2> HIDE DEF result
  <2> QED BY <1>2, <2>1, <2>3 DEF result
<1>4. CASE part.ops # <<>> /\ creates = {} /\ old # NoNode
  <2>1. result = Patched(part, authorized)[Len(part.ops)]
    BY <1>4 DEF FilePatch
  <2>2. HasMode(old)
    BY <1>4
  <2> HIDE DEF result
  <2> QED BY <1>4, <2>1, <2>2, PatchedKeepsCanon DEF result
<1>5. \/ part.ops # <<>> /\ creates # {} /\ Len(part.ops) = 1
      \/ part.ops # <<>> /\ creates = {} /\ old # NoNode
      \/ result = Alone(Bad)
  <2> DEFINE L == Len(part.ops)
  <2>1. L \in Nat /\ (creates # {} => L = 1 \/ L > 1)
    <3>1. L \in Nat /\ DOMAIN part.ops = 1 .. L
      BY DEF Fit, IsList
    <3>2. creates # {} => \E i \in 1 .. L : TRUE
      BY <3>1
    <3> HIDE DEF L, creates
    <3> QED BY <3>1, <3>2
  <2>2. part.ops = <<>> => result = Alone(Bad)
    BY DEF FilePatch
  <2>3. part.ops # <<>> /\ creates # {} /\ L > 1 => result = Alone(Bad)
    <3>1. result = CASE part.ops = <<>> -> Alone(Bad)
                     [] creates # {} /\ L > 1 -> Alone(Bad)
                     [] creates # {} /\ L = 1 ->
                          Alone(IF \/ ~authorized /\ node.mode # "draft"
                                   \/ old \notin {NoNode, node}
                                THEN Bad ELSE node)
                     [] creates = {} /\ old = NoNode -> Alone(Bad)
                     [] OTHER -> Patched(part, authorized)[L]
      BY DEF FilePatch
    <3>2. ~(L > 1 /\ L = 1)
      <4> HIDE DEF L
      <4> QED BY <2>1
    <3> HIDE DEF result, creates, L, node, old
    <3> QED BY <3>1, <3>2
  <2>4. part.ops # <<>> /\ creates = {} /\ old = NoNode => result = Alone(Bad)
    BY DEF FilePatch
  <2> HIDE DEF result, creates, old, L
  <2>5. CASE creates = {}
    BY <2>2, <2>4, <2>5
  <2>6. CASE creates # {}
    <3>1. L = 1 \/ L > 1
      BY <2>1, <2>6
    <3> QED BY <2>2, <2>3, <2>6, <3>1 DEF L
  <2> QED BY <2>5, <2>6
<1> HIDE DEF result
<1> QED BY <1>2, <1>3, <1>4, <1>5 DEF result

(* Nodes have modes, and what waits for a user can be applied. *)
GraphTyped ==
  /\ graph = [f \in Files |-> graph[f]]
  /\ \A f \in Files : graph[f] # NoNode => HasMode(graph[f])
  /\ \A c \in pending : IsList(c.changes)

(* A patch changes the files it names, each to what its operations make of  *)
(* the node there.                                                          *)
LEMMA PatchStep ==
  ASSUME GraphTyped, PatchesAreLists, NEW patch \in Patches, NEW authorized \in BOOLEAN, ApplyPatch(patch, authorized)
  PROVE  /\ GraphTyped'
         /\ ~authorized => \A f \in Files :
              LET canon(n) == n # NoNode /\ n.mode = "canon" IN
              canon(graph[f]) \/ canon(graph'[f]) => graph'[f] = graph[f]
<1> DEFINE result(i) == FilePatch(patch[i], authorized)
           place(f) == CHOOSE i \in DOMAIN patch : patch[i].file = f
<1>1. ASSUME NEW i \in DOMAIN patch
      PROVE  patch[i].file \in Files /\ Fit(patch[i])
  BY DEF PatchesAreLists, Fit
<1>2. /\ \A i \in DOMAIN patch : result(i).node # Bad
      /\ graph' = [f \in Files |-> IF \E i \in DOMAIN patch : patch[i].file = f THEN result(place(f)).node ELSE graph[f]]
      /\ pending' = pending \cup UNION {result(i).candidates : i \in DOMAIN patch}
  <2>1. /\ \A i \in DOMAIN patch : [j \in DOMAIN patch |-> FilePatch(patch[j], authorized)][i].node # Bad
        /\ graph' = [f \in Files |->
             IF \E i \in DOMAIN patch : patch[i].file = f
             THEN [j \in DOMAIN patch |-> FilePatch(patch[j], authorized)][place(f)].node
             ELSE graph[f]]
        /\ pending' = pending \cup UNION {[j \in DOMAIN patch |-> FilePatch(patch[j], authorized)][i].candidates : i \in DOMAIN patch}
    BY DEF ApplyPatch
  <2>2. \A f : (\E i \in DOMAIN patch : patch[i].file = f) => place(f) \in DOMAIN patch
    OBVIOUS
  <2> HIDE DEF place
  <2> QED BY <2>1, <2>2
<1>3. ASSUME NEW i \in DOMAIN patch
      PROVE  LET old == graph[patch[i].file] IN
             /\ Progress(result(i))
             /\ ~authorized /\ old # NoNode /\ old.mode = "canon" => result(i).node = old
             /\ ~authorized /\ ~(old # NoNode /\ old.mode = "canon") => result(i).node.mode # "canon"
  BY <1>1, <1>2, FileKeepsCanon DEF GraphTyped
<1>4. ASSUME NEW f \in Files, NEW i \in DOMAIN patch, patch[i].file = f
      PROVE  place(f) \in DOMAIN patch /\ patch[place(f)].file = f
  BY <1>4
<1> HIDE DEF result, place
<1>5. ASSUME NEW f \in Files
      PROVE  graph'[f] # NoNode => HasMode(graph'[f])
  BY <1>2, <1>3, <1>4 DEF GraphTyped, Progress
<1>6. \A c \in pending' : IsList(c.changes)
  BY <1>2, <1>3 DEF GraphTyped, Progress
<1>7. graph' = [f \in Files |-> graph'[f]]
  BY <1>2
<1>8. ASSUME ~authorized, NEW f \in Files,
             \/ graph[f] # NoNode /\ graph[f].mode = "canon"
             \/ graph'[f] # NoNode /\ graph'[f].mode = "canon"
      PROVE  graph'[f] = graph[f]
  <2>1. CASE \E i \in DOMAIN patch : patch[i].file = f
    <3>1. graph'[f] = result(place(f)).node /\ place(f) \in DOMAIN patch /\ patch[place(f)].file = f
      BY <1>2, <1>4, <2>1
    <3> QED BY <1>3, <1>8, <3>1
  <2>2. CASE ~\E i \in DOMAIN patch : patch[i].file = f
    BY <1>2, <2>2
  <2> QED BY <2>1, <2>2
<1> QED BY <1>5, <1>6, <1>7, <1>8 DEF GraphTyped

(* A candidate makes of a node another one. *)
LEMMA ChangedHasMode ==
  ASSUME NEW node, NEW changes, IsList(changes), HasMode(node)
  PROVE  HasMode(ApplyAll(node, changes))
<1> DEFINE C == Changed(node, changes)
           L == Len(changes)
           T == {n \in Nat : n <= L => HasMode(C[n])}
<1>1. /\ C[0] = node
      /\ \A n \in 1 .. L : C[n] = IF C[n - 1] = Bad THEN Bad ELSE Apply(C[n - 1], changes[n])
  BY ChangedInOrder
<1>2. L \in Nat
  BY DEF IsList
<1> HIDE DEF C, L
<1>3. 0 \in T
  BY <1>1
<1>4. ASSUME NEW n \in Nat, n \in T PROVE n + 1 \in T
  <2>1. SUFFICES ASSUME n + 1 <= L PROVE HasMode(C[n + 1])
    OBVIOUS
  <2>2. HasMode(C[n]) /\ n + 1 \in 1 .. L /\ (n + 1) - 1 = n
    BY <1>2, <1>4, <2>1
  <2>3. C[n + 1] = IF C[n] = Bad THEN Bad ELSE Apply(C[n], changes[n + 1])
    BY <1>1, <2>2
  <2>4. HasMode(Bad)
    BY DEF HasMode, Bad
  <2> QED BY <2>2, <2>3, <2>4, ApplyKeepsMode
<1>5. L \in T
  <2> HIDE DEF T
  <2> QED BY <1>2, <1>3, <1>4, AllNumbers
<1> QED BY <1>2, <1>5 DEF ApplyAll, C, L

LEMMA GraphStaysTyped ==
  ASSUME GraphTyped, PatchesAreLists, [GraphNext]_graphVars
  PROVE  GraphTyped'
<1>1. ASSUME NEW patch \in Patches, Proposal(patch) \/ Authorized(patch) PROVE GraphTyped'
  BY <1>1, PatchStep DEF Proposal, Authorized
<1>2. ASSUME NEW c \in pending, Approve(c) PROVE GraphTyped'
  <2>1. PICK f \in Files : /\ graph[f] # NoNode /\ pending' = pending \ {c}
                           /\ graph' = [graph EXCEPT ![f] = ApplyAll(graph[f], c.changes)]
    BY <1>2 DEF Approve
  <2>2. HasMode(ApplyAll(graph[f], c.changes))
    BY <1>2, <2>1, ChangedHasMode DEF GraphTyped
  <2> QED BY <2>1, <2>2 DEF GraphTyped
<1>3. ASSUME NEW c \in pending, Reject(c) PROVE GraphTyped'
  BY <1>3 DEF Reject, GraphTyped
<1>4. ASSUME NEW f \in Files, NEW node \in Written, WriteNode(f, node) PROVE GraphTyped'
  <2>1. graph' = [graph EXCEPT ![f] = node] /\ UNCHANGED pending /\ HasMode(node)
    BY <1>4 DEF WriteNode, PatchesAreLists
  <2> QED BY <2>1 DEF GraphTyped
<1>5. ASSUME NEW f \in Files, ArchiveNode(f) PROVE GraphTyped'
  <2>1. graph[f] # NoNode /\ graph' = [graph EXCEPT ![f] = [graph[f] EXCEPT !.status = "archived"]] /\ UNCHANGED pending
    BY <1>5 DEF ArchiveNode
  <2>2. HasMode([graph[f] EXCEPT !.status = "archived"])
    BY <2>1 DEF GraphTyped, HasMode
  <2> QED BY <2>1, <2>2 DEF GraphTyped
<1>6. ASSUME NEW f \in Files, DeleteNode(f) PROVE GraphTyped'
  BY <1>6 DEF DeleteNode, GraphTyped
<1>7. ASSUME NEW r \in Rebuilds,
             \/ BeginRebuild(r) \/ Embed(r) \/ EndRebuild(r)
             \/ \E incremental \in BOOLEAN : ReadIndex(r, incremental)
      PROVE  GraphTyped'
  BY <1>7 DEF BeginRebuild, Embed, EndRebuild, ReadIndex, GraphTyped
<1>8. CASE UNCHANGED graphVars
  BY <1>8 DEF graphVars, GraphTyped
<1> QED BY <1>1, <1>2, <1>3, <1>4, <1>5, <1>6, <1>7, <1>8 DEF GraphNext

(* However long the patch and whatever its operations promote or edit on    *)
(* their way, a proposal leaves canon as it was and makes none; what it may *)
(* not do waits for a user (prepare_patch).                                 *)
THEOREM CanonIsProtected == ASSUME PatchesAreLists PROVE GraphSpec => CanonProtected
<1>1. GraphInit => GraphTyped
  BY DEF GraphInit, GraphTyped, PatchesAreLists
<1>2. ASSUME GraphTyped, NEW patch \in Patches, Proposal(patch) PROVE Canon' = Canon
  <2>1. \A f \in Files :
          \/ graph[f] # NoNode /\ graph[f].mode = "canon"
          \/ graph'[f] # NoNode /\ graph'[f].mode = "canon"
          => graph'[f] = graph[f]
    BY <1>2, PatchStep DEF Proposal
  <2> QED BY <2>1 DEF Canon
<1> DEFINE CanonLeft == (\E patch \in Patches : Proposal(patch)) => Canon' = Canon
<1>3. GraphTyped => [CanonLeft]_graphVars
  BY <1>2
<1>4. GraphTyped /\ [GraphNext]_graphVars => GraphTyped'
  BY GraphStaysTyped
<1>5. GraphSpec => [][CanonLeft]_graphVars
  <2> HIDE DEF CanonLeft
  <2> QED BY <1>1, <1>3, <1>4, PTL DEF GraphSpec
<1> QED BY <1>5 DEF CanonProtected
=============================================================================
