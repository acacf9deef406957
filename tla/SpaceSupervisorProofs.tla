----------------------- MODULE SpaceSupervisorProofs -----------------------
(***************************************************************************)
(* Proofs about SpaceSupervisor for any callers, Spaces, worker threads    *)
(* and limits.  That a Space has one worker rests on what the properties   *)
(* do not say: who asks for a Space is in one place only (a lookup, a      *)
(* queue of waiters, or the initialization it owns), an announcement       *)
(* speaks of the worker that exists, and while the Core runs a worker that *)
(* is not being joined has an entry in the table.  And about               *)
(* RecordPolicies, the ledger of a Space, for any records, evidence and    *)
(* containers: what a history says of the text beside it.                  *)
(***************************************************************************)
EXTENDS SpaceSupervisor, RecordPolicies, FiniteSetTheorems, TLAPS

(* What a caller asks for, and owns, by where it is. *)
CallerInv ==
  \A c \in Callers :
    /\ at[c] = "idle" => wants[c] = {} /\ has[c] = {}
    /\ at[c] # "idle" => \E s \in Spaces : wants[c] = {s}
    /\ at[c] \in {"asking", "opening"} => has[c] = {}
    /\ at[c] = "holding" => has[c] # {}
    /\ \A h \in has[c] : roots[h] = wants[c]

(* A lookup is the only trace of its caller. *)
LookupInv ==
  \A i \in DOMAIN inbox : inbox[i].type = "lookup" =>
    /\ at[inbox[i].caller] = "asking" /\ wants[inbox[i].caller] = {inbox[i].space}
    /\ inbox[i].handle = {}
    /\ \A s \in Spaces : inbox[i].caller \notin waiters[s]
    /\ \A j \in DOMAIN inbox : inbox[j].type = "lookup" /\ inbox[j].caller = inbox[i].caller => i = j

(* Callers wait for a Space they asked for, and that is being initialized. *)
WaitInv ==
  \A s \in Spaces : \A c \in waiters[s] : s \in starting /\ at[c] = "asking" /\ wants[c] = {s}

(* An initialization has one initializer, and then one announcement, which *)
(* speaks of every worker of the Space.                                    *)
Initializing(c, s) == at[c] \in {"opening", "announcing"} /\ s \in wants[c]
Announced(i, s) == inbox[i].type = "initialized" /\ inbox[i].space = s

StartInv ==
  /\ \A c \in Callers, s \in Spaces : Initializing(c, s) =>
       /\ s \in starting
       /\ \A d \in Callers : Initializing(d, s) => c = d
       /\ \A i \in DOMAIN inbox : ~Announced(i, s)
       /\ at[c] = "announcing" => Owners(s) = has[c]
  /\ \A i \in DOMAIN inbox, s \in Spaces : Announced(i, s) =>
       /\ s \in starting /\ Owners(s) = inbox[i].handle
       /\ \A j \in DOMAIN inbox : Announced(j, s) => i = j

(* The table names every worker of a Space it calls ready. *)
ReadyInv == \A s \in Spaces : ready[s] # {} => s \notin starting /\ Owners(s) = ready[s]

(* A worker owns the files of one Space. *)
RootInv == \A h \in Handles : \A s \in roots[h] : roots[h] = {s}

(* Every worker of a running Core has an entry, unless it is being joined; *)
(* otherwise nobody is inside a call.                                      *)
RunInv ==
  /\ core = "running" => \A h \in Alive \ joining : roots[h] \subseteq Entries
  /\ core # "running" => \A c \in Callers : at[c] \in {"idle", "holding"}

(* The table and the threads are finite, whatever the sets they are from. *)
FiniteInv == IsFiniteSet(Entries) /\ IsFiniteSet(Alive) /\ \A s \in Spaces : IsFiniteSet(waiters[s])

SupervisorInv ==
  /\ TypeOK /\ CallerInv /\ LookupInv /\ WaitInv /\ StartInv /\ ReadyInv /\ RootInv /\ RunInv
  /\ FiniteInv /\ SoleWorker /\ WithinLimit
----------------------------------------------------------------------------
(* A message joins the end of the inbox. *)
LEMMA InboxAppended ==
  ASSUME NEW m \in Messages, inbox \in Seq(Messages), inbox' = Append(inbox, m)
  PROVE  /\ inbox' \in Seq(Messages)
         /\ \A i \in DOMAIN inbox : i \in DOMAIN inbox' /\ inbox'[i] = inbox[i]
         /\ \A i \in DOMAIN inbox' : i \in DOMAIN inbox \/ (i = Len(inbox) + 1 /\ inbox'[i] = m)
         /\ Len(inbox) + 1 \in DOMAIN inbox' /\ Len(inbox) + 1 \notin DOMAIN inbox
OBVIOUS

(* The first message leaves the inbox. *)
LEMMA InboxTaken ==
  ASSUME inbox \in Seq(Messages), inbox # <<>>, inbox' = Tail(inbox)
  PROVE  /\ inbox' \in Seq(Messages) /\ Head(inbox) \in Messages
         /\ 1 \in DOMAIN inbox /\ Head(inbox) = inbox[1]
         /\ \A i \in DOMAIN inbox' : i + 1 \in DOMAIN inbox /\ i + 1 # 1 /\ inbox'[i] = inbox[i + 1]
         /\ \A i, j \in DOMAIN inbox' : i + 1 = j + 1 => i = j
OBVIOUS

(* At most one worker owns a Space, and so forth, at the start. *)
LEMMA SupervisorInvInit == Init => SupervisorInv
<1> SUFFICES ASSUME Init PROVE SupervisorInv
  OBVIOUS
<1>1. Entries = {} /\ Alive = {} /\ BeingOpened = {}
  BY DEF Init, Entries, Alive, BeingOpened, Opening
<1>2. IsFiniteSet({}) /\ Cardinality({}) = 0
  BY FS_EmptySet
<1>3. TypeOK
  BY <1>2, LimitAssumption DEF Init, TypeOK, Labels
<1>4. FiniteInv
  BY <1>1, <1>2 DEF FiniteInv, Init
<1>5. WithinLimit
  BY <1>1, <1>2, LimitAssumption DEF WithinLimit
<1>6. CallerInv /\ LookupInv /\ WaitInv /\ StartInv /\ ReadyInv /\ RootInv /\ RunInv /\ SoleWorker
  BY DEF Init, CallerInv, LookupInv, WaitInv, StartInv, Initializing, Announced, ReadyInv, RootInv, RunInv,
         SoleWorker, Alive, Opening, Owners
<1> QED BY <1>3, <1>4, <1>5, <1>6 DEF SupervisorInv

(* Every message is typed field by field. *)
LEMMA MessageTyped ==
  ASSUME inbox \in Seq(Messages), NEW i \in DOMAIN inbox
  PROVE  /\ inbox[i].type \in {"lookup", "initialized"} /\ inbox[i].caller \in Callers
         /\ inbox[i].space \in Spaces /\ inbox[i].handle \subseteq Handles
<1>1. inbox[i] \in Messages
  OBVIOUS
<1> QED BY <1>1 DEF Messages

(* Steps that begin or end no opening and no worker leave who works alone. *)
LEMMA ThreadsKept ==
  ASSUME SoleWorker, WithinLimit, roots' = roots,
         \A d \in Callers : (at'[d] = "opening" <=> at[d] = "opening")
                            /\ (at[d] = "opening" => wants'[d] = wants[d])
  PROVE  SoleWorker' /\ WithinLimit' /\ Alive' = Alive /\ \A t \in Spaces : Owners(t)' = Owners(t)
<1>1. \A t \in Spaces : Opening(t)' = Opening(t) /\ Owners(t)' = Owners(t)
  BY DEF Opening, Owners
<1>2. Alive' = Alive /\ BeingOpened' = BeingOpened
  BY <1>1 DEF Alive, BeingOpened
<1> QED BY <1>1, <1>2 DEF SoleWorker, WithinLimit

(* A message that is handled leaves the lookups behind it as they were, if *)
(* the callers it concerns have no other one.                              *)
LEMMA LookupsBehind ==
  ASSUME TypeOK, LookupInv, inbox # <<>>, inbox' = Tail(inbox), NEW K,
         \A j \in DOMAIN inbox : j # 1 /\ inbox[j].type = "lookup" => inbox[j].caller \notin K,
         \A d \in Callers \ K : at'[d] = at[d] /\ wants'[d] = wants[d]
                                /\ \A t \in Spaces : d \in waiters'[t] => d \in waiters[t]
  PROVE  LookupInv'
<1>1. /\ \A i \in DOMAIN inbox' : i + 1 \in DOMAIN inbox /\ i + 1 # 1 /\ inbox'[i] = inbox[i + 1]
      /\ \A i, j \in DOMAIN inbox' : i + 1 = j + 1 => i = j
      /\ inbox \in Seq(Messages)
  BY InboxTaken DEF TypeOK
<1> SUFFICES ASSUME NEW i \in DOMAIN inbox', inbox'[i].type = "lookup"
             PROVE  /\ at'[inbox'[i].caller] = "asking" /\ wants'[inbox'[i].caller] = {inbox'[i].space}
                    /\ inbox'[i].handle = {}
                    /\ \A s \in Spaces : inbox'[i].caller \notin waiters'[s]
                    /\ \A j \in DOMAIN inbox' :
                         inbox'[j].type = "lookup" /\ inbox'[j].caller = inbox'[i].caller => i = j
  BY DEF LookupInv
<1>2. i + 1 \in DOMAIN inbox /\ i + 1 # 1 /\ inbox'[i] = inbox[i + 1]
  BY <1>1
<1>3. inbox'[i].caller \in Callers \ K
  BY <1>1, <1>2, MessageTyped
<1>4. \A j \in DOMAIN inbox' : inbox'[j].type = "lookup" /\ inbox'[j].caller = inbox'[i].caller => i = j
  BY <1>1, <1>2 DEF LookupInv
<1> QED BY <1>2, <1>3, <1>4 DEF LookupInv

(* Announcements that go on waiting are true of the same initializations. *)
LEMMA StartsBehind ==
  ASSUME TypeOK, StartInv, inbox # <<>>, inbox' = Tail(inbox), starting' = starting,
         \A t \in Spaces : Owners(t)' = Owners(t),
         \A d \in Callers : at'[d] \in {"opening", "announcing"} =>
           at'[d] = at[d] /\ wants'[d] = wants[d] /\ has'[d] = has[d]
  PROVE  StartInv'
<1>1. \A i \in DOMAIN inbox' : i + 1 \in DOMAIN inbox /\ inbox'[i] = inbox[i + 1]
  BY InboxTaken DEF TypeOK
<1>2. \A i, j \in DOMAIN inbox' : i + 1 = j + 1 => i = j
  BY InboxTaken DEF TypeOK
<1>3. \A i \in DOMAIN inbox', t \in Spaces : Announced(i, t)' => Announced(i + 1, t)
  BY <1>1 DEF Announced
<1>4. \A d \in Callers, t \in Spaces : Initializing(d, t)' =>
        Initializing(d, t) /\ at'[d] = at[d] /\ has'[d] = has[d]
  BY DEF Initializing
<1>5. ASSUME NEW d \in Callers, NEW t \in Spaces, Initializing(d, t)'
      PROVE  /\ t \in starting'
             /\ \A e \in Callers : Initializing(e, t)' => d = e
             /\ \A i \in DOMAIN inbox' : ~Announced(i, t)'
             /\ at'[d] = "announcing" => Owners(t)' = has'[d]
  BY <1>1, <1>3, <1>4, <1>5 DEF StartInv
<1>6. ASSUME NEW i \in DOMAIN inbox', NEW t \in Spaces, Announced(i, t)'
      PROVE  /\ t \in starting' /\ Owners(t)' = inbox'[i].handle
             /\ \A j \in DOMAIN inbox' : Announced(j, t)' => i = j
  BY <1>1, <1>2, <1>3, <1>6 DEF StartInv
<1> QED BY <1>5, <1>6 DEF StartInv
----------------------------------------------------------------------------
(* A caller asks. *)
LEMMA AskStep ==
  ASSUME SupervisorInv, NEW c \in Callers, NEW s \in Spaces, Ask(c, s)
  PROVE  SupervisorInv'
<1> USE DEF SupervisorInv
<1>0. Lookup(c, s) \in Messages /\ inbox \in Seq(Messages) /\ inbox' = Append(inbox, Lookup(c, s))
  BY DEF Lookup, Messages, TypeOK, Ask
<1>1. TypeOK'
  BY <1>0, InboxAppended DEF TypeOK, Ask, table, Labels
<1>2. CallerInv'
  BY DEF CallerInv, TypeOK, Ask
<1>a. /\ \A i \in DOMAIN inbox' : (i \in DOMAIN inbox /\ inbox'[i] = inbox[i]) \/ i = Len(inbox) + 1
      /\ inbox'[Len(inbox) + 1] = Lookup(c, s)
  BY <1>0, InboxAppended
<1>b. /\ Lookup(c, s).type = "lookup" /\ Lookup(c, s).caller = c
      /\ Lookup(c, s).space = s /\ Lookup(c, s).handle = {}
  BY DEF Lookup
<1>c. /\ at[c] = "idle" /\ at'[c] = "asking" /\ wants'[c] = {s} /\ UNCHANGED <<has, table, joining, roots, core>>
      /\ \A d \in Callers : d # c => at'[d] = at[d] /\ wants'[d] = wants[d]
  BY DEF Ask, TypeOK
<1>3. LookupInv'
  <2>1. \A i \in DOMAIN inbox : inbox[i].type = "lookup" => inbox[i].caller # c
    BY <1>c DEF LookupInv
  <2>2. \A t \in Spaces : c \notin waiters[t]
    BY <1>c DEF WaitInv
  <2>3. \A i \in DOMAIN inbox : inbox[i].caller \in Callers
    BY <1>0, MessageTyped
  <2> QED BY <1>a, <1>b, <1>c, <2>1, <2>2, <2>3 DEF LookupInv, table
<1>4. WaitInv'
  BY <1>c DEF WaitInv, TypeOK, table
<1>5. StartInv'
  <2>1. \A d \in Callers, t \in Spaces : Initializing(d, t)' <=> Initializing(d, t)
    BY <1>c DEF Initializing
  <2>2. \A i \in DOMAIN inbox', t \in Spaces : Announced(i, t)' => i \in DOMAIN inbox /\ Announced(i, t) /\ inbox'[i] = inbox[i]
    BY <1>a, <1>b DEF Announced
  <2>3. starting' = starting /\ has' = has /\ \A t \in Spaces : Owners(t)' = Owners(t)
    BY <1>c DEF table, Owners
  <2>4. \A d \in Callers, t \in Spaces : Initializing(d, t) => (at'[d] = at[d])
    BY <1>c DEF Initializing
  <2> QED BY <2>1, <2>2, <2>3, <2>4 DEF StartInv
<1>6. ReadyInv' /\ RootInv' /\ RunInv' /\ FiniteInv'
  BY <1>c DEF ReadyInv, RootInv, RunInv, FiniteInv, Owners, Alive, Entries, Ask, table
<1>7. SoleWorker' /\ WithinLimit'
  BY <1>c, ThreadsKept DEF TypeOK
<1> QED BY <1>1, <1>2, <1>3, <1>4, <1>5, <1>6, <1>7

(* The supervisor has joined a worker: its thread has ended. *)
LEMMA JoinedStep == SupervisorInv /\ Joined => SupervisorInv'
<1> SUFFICES ASSUME SupervisorInv, Joined PROVE SupervisorInv'
  OBVIOUS
<1> USE DEF SupervisorInv
<1>1. joining \cap Alive = {} /\ joining' = {} /\ UNCHANGED <<callers, inbox, table, roots, core>>
  BY DEF Joined
<1>2. TypeOK' /\ CallerInv' /\ LookupInv' /\ WaitInv' /\ ReadyInv' /\ RootInv' /\ FiniteInv'
  BY <1>1 DEF TypeOK, CallerInv, LookupInv, WaitInv, ReadyInv, RootInv, FiniteInv, Owners, Alive, Entries, callers, table
<1>3. StartInv'
  BY <1>1 DEF StartInv, Initializing, Announced, Owners, callers, table
<1>4. RunInv'
  BY <1>1 DEF RunInv, Alive, Entries, callers, table
<1>5. SoleWorker' /\ WithinLimit'
  BY <1>1, ThreadsKept DEF callers
<1> QED BY <1>2, <1>3, <1>4, <1>5

(* The Core is dropped, closes, or starts: no thread of a Space moves. *)
LEMMA CoreStep ==
  ASSUME SupervisorInv, DropCore \/ Closed \/ Restart
  PROVE  SupervisorInv'
<1> USE DEF SupervisorInv
<1>1. UNCHANGED <<callers, inbox, table, joining, roots>> /\ core' \in {"running", "closing", "closed"}
  BY DEF DropCore, Closed, Restart
<1>2. TypeOK' /\ CallerInv' /\ LookupInv' /\ WaitInv' /\ ReadyInv' /\ RootInv' /\ FiniteInv'
  BY <1>1 DEF TypeOK, CallerInv, LookupInv, WaitInv, ReadyInv, RootInv, FiniteInv, Owners, Alive, Entries, callers, table
<1>3. StartInv'
  BY <1>1 DEF StartInv, Initializing, Announced, Owners, callers, table
<1>4. RunInv'
  <2>1. CASE DropCore
    BY <1>1, <2>1 DEF RunInv, DropCore, callers
  <2>2. CASE Closed
    BY <1>1, <2>2 DEF RunInv, Closed, Supervising, callers
  <2>3. CASE Restart
    BY <1>1, <2>3 DEF RunInv, Restart, Alive
  <2> QED BY <2>1, <2>2, <2>3
<1>5. SoleWorker' /\ WithinLimit'
  BY <1>1, ThreadsKept DEF callers
<1> QED BY <1>2, <1>3, <1>4, <1>5

(* A caller lets its handle go. *)
LEMMA ReleaseStep ==
  ASSUME SupervisorInv, NEW c \in Callers, Release(c)
  PROVE  SupervisorInv'
<1> USE DEF SupervisorInv
<1>1. /\ at[c] = "holding" /\ at'[c] = "idle" /\ wants'[c] = {} /\ has'[c] = {}
      /\ UNCHANGED <<inbox, table, joining, roots, core>>
      /\ \A d \in Callers : d # c => at'[d] = at[d] /\ wants'[d] = wants[d] /\ has'[d] = has[d]
  BY DEF Release, TypeOK
<1>2. TypeOK'
  BY DEF TypeOK, Release, table, Labels
<1>3. CallerInv' /\ WaitInv' /\ ReadyInv' /\ RootInv' /\ FiniteInv'
  BY <1>1 DEF CallerInv, WaitInv, ReadyInv, RootInv, FiniteInv, Owners, Alive, Entries, table, TypeOK
<1>4. LookupInv'
  <2>1. \A i \in DOMAIN inbox : inbox[i].caller \in Callers
    BY MessageTyped DEF TypeOK
  <2> QED BY <1>1, <2>1 DEF LookupInv, table
<1>5. StartInv'
  <2>1. \A d \in Callers, t \in Spaces : Initializing(d, t)' => Initializing(d, t) /\ d # c
    BY <1>1 DEF Initializing
  <2> QED BY <1>1, <2>1 DEF StartInv, Announced, Owners, table
<1>6. RunInv'
  BY <1>1 DEF RunInv, Alive, Entries, table
<1>7. SoleWorker' /\ WithinLimit'
  BY <1>1, ThreadsKept
<1> QED BY <1>2, <1>3, <1>4, <1>5, <1>6, <1>7

(* A worker nobody refers to ends: no caller, message or entry named it. *)
LEMMA WorkerEndsStep ==
  ASSUME SupervisorInv, NEW h \in Handles, WorkerEnds(h)
  PROVE  SupervisorInv'
<1> USE DEF SupervisorInv
<1>1. /\ roots[h] # {} /\ roots'[h] = {} /\ UNCHANGED <<callers, inbox, table, joining, core>>
      /\ \A g \in Handles : g # h => roots'[g] = roots[g]
  BY DEF WorkerEnds, Alive, TypeOK
<1>2. /\ \A c \in Callers : h \notin has[c]
      /\ \A i \in DOMAIN inbox : h \notin inbox[i].handle
      /\ \A s \in Spaces : h \notin ready[s]
  BY DEF WorkerEnds, Holders
<1>3. \A s \in Spaces : Owners(s)' = Owners(s) \ {h}
  BY <1>1 DEF Owners
<1>4. TypeOK'
  BY <1>1 DEF TypeOK, WorkerEnds, callers, table
<1>5. CallerInv' /\ LookupInv' /\ WaitInv' /\ ReadyInv' /\ RootInv'
  <2>1. CallerInv'
    BY <1>1, <1>2 DEF CallerInv, callers, TypeOK
  <2>2. LookupInv' /\ WaitInv' /\ RootInv'
    BY <1>1 DEF LookupInv, WaitInv, RootInv, callers, table
  <2>3. ReadyInv'
    BY <1>1, <1>2, <1>3 DEF ReadyInv, table
  <2> QED BY <2>1, <2>2, <2>3
<1>6. StartInv'
  <2>1. \A d \in Callers, t \in Spaces : Initializing(d, t)' <=> Initializing(d, t)
    BY <1>1 DEF Initializing, callers
  <2>2. \A i \in DOMAIN inbox', t \in Spaces : Announced(i, t)' <=> Announced(i, t)
    BY <1>1 DEF Announced
  <2>3. UNCHANGED <<at, has, inbox, starting>>
    BY <1>1 DEF callers, table
  <2>4. \A d \in Callers, t \in Spaces : Owners(t) = has[d] => Owners(t)' = has[d]
    BY <1>2, <1>3
  <2>5. \A i \in DOMAIN inbox, t \in Spaces : Owners(t) = inbox[i].handle => Owners(t)' = inbox[i].handle
    BY <1>2, <1>3
  <2> QED BY <2>1, <2>2, <2>3, <2>4, <2>5 DEF StartInv
<1>7. Alive' = Alive \ {h} /\ h \in Alive
  BY <1>1 DEF Alive
<1>8. RunInv'
  BY <1>1, <1>7 DEF RunInv, Entries, callers, table, Alive
<1>9. /\ IsFiniteSet(Alive') /\ Cardinality(Alive') = Cardinality(Alive) - 1
      /\ Cardinality(Alive) \in Nat
  BY <1>7, FS_RemoveElement, FS_CardinalityType DEF FiniteInv
<1>10. FiniteInv'
  BY <1>1, <1>9 DEF FiniteInv, Entries, table
<1>11. \A s \in Spaces : Opening(s)' = Opening(s)
  BY <1>1 DEF Opening, callers
<1>12. SoleWorker'
  BY <1>3, <1>11 DEF SoleWorker
<1>13. WithinLimit'
  <2>1. BeingOpened' = BeingOpened
    BY <1>11 DEF BeingOpened
  <2>2. BeingOpened \subseteq Entries
    BY Z3 DEF BeingOpened, Opening, StartInv, Initializing, Entries
  <2>3. Cardinality(BeingOpened) \in Nat
    BY <2>2, FS_Subset, FS_CardinalityType DEF FiniteInv
  <2> QED BY <1>9, <2>1, <2>3, LimitAssumption DEF WithinLimit
<1> QED BY <1>4, <1>5, <1>6, <1>8, <1>10, <1>12, <1>13

(* The Spaces that are being opened have an entry: they can be counted. *)
LEMMA Countable ==
  ASSUME TypeOK, StartInv, FiniteInv
  PROVE  /\ BeingOpened \subseteq Entries /\ IsFiniteSet(BeingOpened)
         /\ Cardinality(BeingOpened) \in Nat /\ Cardinality(Alive) \in Nat
<1>1. BeingOpened \subseteq Entries
  BY Z3 DEF BeingOpened, Opening, StartInv, Initializing, Entries
<1>2. IsFiniteSet(BeingOpened)
  BY <1>1, FS_Subset DEF FiniteInv
<1> QED BY <1>1, <1>2, FS_CardinalityType DEF FiniteInv

(* The initializer fails, or starts the worker that its announcement will  *)
(* name: nobody else works on that Space.                                  *)
LEMMA OpenStep ==
  ASSUME SupervisorInv, NEW c \in Callers, Open(c)
  PROVE  SupervisorInv'
<1> USE DEF SupervisorInv
<1>1. /\ at[c] = "opening" /\ at'[c] = "announcing" /\ UNCHANGED <<wants, inbox, table, joining, core>>
      /\ \A d \in Callers : d # c => at'[d] = at[d] /\ has'[d] = has[d]
  BY DEF Open, TypeOK
<1>2. PICK s \in Spaces : wants[c] = {s}
  BY <1>1 DEF CallerInv
<1>3. /\ has[c] = {} /\ s \in starting /\ ready[s] = {} /\ Owners(s) = {} /\ Opening(s) = {c}
      /\ \A i \in DOMAIN inbox : ~Announced(i, s)
      /\ \A d \in Callers : Initializing(d, s) => d = c
  BY <1>1, <1>2 DEF CallerInv, StartInv, ReadyInv, SoleWorker, Opening, Initializing
<1>4. \A t \in Spaces : Opening(t)' = IF t = s THEN {} ELSE Opening(t)
  <2>1. c \notin Opening(s)'
    BY <1>1 DEF Opening
  <2>2. \A d \in Callers, t \in Spaces : d # c => (d \in Opening(t)' <=> d \in Opening(t))
    BY <1>1 DEF Opening
  <2>3. \A t \in Spaces : t # s => c \notin Opening(t) /\ c \notin Opening(t)'
    BY <1>1, <1>2 DEF Opening
  <2>4. \A t \in Spaces : Opening(t) \subseteq Callers /\ Opening(t)' \subseteq Callers
    BY DEF Opening
  <2> QED BY <1>3, <2>1, <2>2, <2>3, <2>4
<1>5. BeingOpened' = BeingOpened \ {s} /\ s \in BeingOpened
  BY <1>3, <1>4 DEF BeingOpened
<1>6. Cardinality(BeingOpened') = Cardinality(BeingOpened) - 1
  BY <1>5, Countable, FS_RemoveElement
<1>7. LookupInv' /\ WaitInv'
  BY <1>1, MessageTyped DEF LookupInv, WaitInv, table, TypeOK
<1>8. \A d \in Callers, t \in Spaces : Initializing(d, t)' <=> Initializing(d, t)
  BY <1>1 DEF Initializing
<1>9. \A i \in DOMAIN inbox', t \in Spaces : Announced(i, t)' <=> Announced(i, t)
  BY <1>1 DEF Announced
<1>a. CASE UNCHANGED <<has, roots>>
  <2>1. TypeOK'
    BY <1>a DEF Open, TypeOK, table, Labels
  <2>2. \A t \in Spaces : Owners(t)' = Owners(t)
    BY <1>a DEF Owners
  <2>3. CallerInv' /\ ReadyInv' /\ RootInv' /\ RunInv' /\ FiniteInv'
    BY <1>1, <1>2, <1>3, <1>a, <2>2 DEF CallerInv, ReadyInv, RootInv, RunInv, FiniteInv, Alive, Entries, table
  <2>4. StartInv'
    <3>1. \A d \in Callers, t \in Spaces : Initializing(d, t) /\ at'[d] = "announcing" => Owners(t)' = has'[d]
      <4>1. \A t \in Spaces : Initializing(c, t) => Owners(t)' = has'[c]
        BY <1>2, <1>3, <1>a, <2>2 DEF Initializing
      <4>2. \A d \in Callers, t \in Spaces : Initializing(d, t) /\ d # c => t # s
        BY <1>3
      <4>3. ASSUME NEW d \in Callers, NEW t \in Spaces, Initializing(d, t), d # c, at'[d] = "announcing"
            PROVE  Owners(t)' = has'[d]
        BY <1>1, <1>a, <2>2, <4>2, <4>3 DEF StartInv
      <4> QED BY <4>1, <4>3
    <3>2. \A d \in Callers, t \in Spaces : Initializing(d, t)' =>
            /\ t \in starting' /\ \A e \in Callers : Initializing(e, t)' => d = e
            /\ \A i \in DOMAIN inbox' : ~Announced(i, t)'
      BY <1>1, <1>8, <1>9 DEF StartInv, table
    <3>3. \A i \in DOMAIN inbox', t \in Spaces : Announced(i, t)' =>
            /\ t \in starting' /\ Owners(t)' = inbox'[i].handle
            /\ \A j \in DOMAIN inbox' : Announced(j, t)' => i = j
      BY <1>1, <1>9, <2>2 DEF StartInv, table
    <3> QED BY <1>8, <3>1, <3>2, <3>3 DEF StartInv
  <2>5. SoleWorker'
    BY <1>3, <1>4, <2>2 DEF SoleWorker
  <2>6. WithinLimit'
    <3>1. Alive' = Alive
      BY <1>a DEF Alive
    <3> QED BY <1>6, <3>1, Countable, LimitAssumption DEF WithinLimit
  <2> QED BY <1>7, <2>1, <2>3, <2>4, <2>5, <2>6
<1>b. ASSUME NEW h \in Free, has' = [has EXCEPT ![c] = {h}], roots' = [roots EXCEPT ![h] = wants[c]]
      PROVE  SupervisorInv'
  <2>1. /\ h \in Handles /\ h \notin joining /\ roots[h] = {} /\ roots'[h] = {s} /\ has'[c] = {h}
        /\ \A g \in Handles : g # h => roots'[g] = roots[g]
    BY <1>2, <1>b DEF Free, Alive, TypeOK
  <2>2. TypeOK'
    BY <1>b, <2>1 DEF Open, TypeOK, table, Labels
  <2>3. \A t \in Spaces : Owners(t)' = IF t = s THEN {h} ELSE Owners(t)
    <3>1. \A t \in Spaces : t # s => Owners(t)' = Owners(t)
      BY <2>1 DEF Owners
    <3>2. \A g \in Handles : s \in roots'[g] <=> g = h
      BY <1>3, <2>1 DEF Owners
    <3>3. Owners(s)' = {h}
      BY <2>1, <3>2 DEF Owners
    <3> QED BY <3>1, <3>3
  <2>4. CallerInv'
    <3>1. \A d \in Callers : h \notin has[d]
      BY <2>1 DEF CallerInv
    <3>2. \A d \in Callers, g \in Handles : g \in has[d] => roots'[g] = roots[g]
      BY <2>1, <3>1
    <3>3. \A d \in Callers : has[d] \subseteq Handles /\ wants'[d] = wants[d]
      BY <1>1 DEF TypeOK
    <3>4. /\ at'[c] # "idle" /\ \E t \in Spaces : wants'[c] = {t}
          /\ \A g \in has'[c] : roots'[g] = wants'[c]
      BY <1>1, <1>2, <2>1
    <3>5. ASSUME NEW d \in Callers
          PROVE  /\ at'[d] = "idle" => wants'[d] = {} /\ has'[d] = {}
                 /\ at'[d] # "idle" => \E t \in Spaces : wants'[d] = {t}
                 /\ at'[d] \in {"asking", "opening"} => has'[d] = {}
                 /\ at'[d] = "holding" => has'[d] # {}
                 /\ \A g \in has'[d] : roots'[g] = wants'[d]
      <4>1. CASE d # c
        <5>1. at'[d] = at[d] /\ wants'[d] = wants[d] /\ has'[d] = has[d]
          BY <1>1, <4>1
        <5>2. \A g \in has[d] : roots'[g] = wants[d]
          BY <3>2, <3>3 DEF CallerInv
        <5> QED BY <5>1, <5>2 DEF CallerInv
      <4>2. CASE d = c
        BY <1>1, <3>4, <4>2
      <4> QED BY <4>1, <4>2
    <3> QED BY <3>5 DEF CallerInv
  <2>5. ReadyInv' /\ RootInv'
    BY <1>1, <1>3, <2>1, <2>3 DEF ReadyInv, RootInv, table
  <2>6. Alive' = Alive \cup {h} /\ h \notin Alive
    BY <2>1 DEF Alive
  <2>7. RunInv'
    BY <1>1, <1>3, <2>1, <2>6 DEF RunInv, Entries, table, Alive
  <2>8. /\ IsFiniteSet(Alive') /\ Cardinality(Alive') = Cardinality(Alive) + 1
    BY <2>6, FS_AddElement DEF FiniteInv
  <2>9. FiniteInv'
    BY <1>1, <2>8 DEF FiniteInv, Entries, table
  <2>10. StartInv'
    <3>1. \A d \in Callers, t \in Spaces : Initializing(d, t) /\ at'[d] = "announcing" => Owners(t)' = has'[d]
      <4>1. \A t \in Spaces : Initializing(c, t) => Owners(t)' = has'[c]
        BY <1>2, <1>3, <2>1, <2>3 DEF Initializing
      <4>2. \A d \in Callers, t \in Spaces : Initializing(d, t) /\ d # c => t # s
        BY <1>3
      <4>3. ASSUME NEW d \in Callers, NEW t \in Spaces, Initializing(d, t), d # c, at'[d] = "announcing"
            PROVE  Owners(t)' = has'[d]
        BY <1>1, <2>1, <2>3, <4>2, <4>3 DEF StartInv
      <4> QED BY <4>1, <4>3
    <3>2. \A d \in Callers, t \in Spaces : Initializing(d, t)' =>
            /\ t \in starting' /\ \A e \in Callers : Initializing(e, t)' => d = e
            /\ \A i \in DOMAIN inbox' : ~Announced(i, t)'
      BY <1>1, <1>8, <1>9 DEF StartInv, table
    <3>3. \A i \in DOMAIN inbox', t \in Spaces : Announced(i, t)' =>
            /\ t \in starting' /\ Owners(t)' = inbox'[i].handle
            /\ \A j \in DOMAIN inbox' : Announced(j, t)' => i = j
      <4>1. \A i \in DOMAIN inbox', t \in Spaces : Announced(i, t)' => t # s
        BY <1>1, <1>3, <1>9
      <4> QED BY <1>1, <1>9, <2>3, <4>1 DEF StartInv, table
    <3> QED BY <1>8, <3>1, <3>2, <3>3 DEF StartInv
  <2>11. SoleWorker'
    BY <1>3, <1>4, <2>3 DEF SoleWorker
  <2>12. WithinLimit'
    BY <1>6, <2>8, Countable, LimitAssumption DEF WithinLimit
  <2> QED BY <1>7, <2>2, <2>4, <2>5, <2>7, <2>9, <2>10, <2>11, <2>12
<1> QED BY <1>a, <1>b DEF Open

(* The initializer announces what it has, or that it failed. *)
LEMMA AnnounceStep ==
  ASSUME SupervisorInv, NEW c \in Callers, Announce(c)
  PROVE  SupervisorInv'
<1> USE DEF SupervisorInv
<1>1. at[c] = "announcing" /\ UNCHANGED <<has, table, joining, roots, core>>
  BY DEF Announce
<1>2. PICK s \in Spaces : wants[c] = {s}
  BY <1>1 DEF CallerInv
<1> DEFINE m == Initialized(c)
<1>3. /\ m \in Messages /\ m.type = "initialized" /\ m.space = s /\ m.handle = has[c] /\ m.caller = c
  <2>1. (CHOOSE t \in wants[c] : TRUE) = s
    BY <1>2
  <2> QED BY <2>1 DEF Initialized, Messages, TypeOK
<1> HIDE DEF m
<1>4. inbox \in Seq(Messages) /\ inbox' = Append(inbox, m)
  BY DEF Announce, TypeOK, m
<1>5. /\ \A i \in DOMAIN inbox' : (i \in DOMAIN inbox /\ inbox'[i] = inbox[i]) \/ i = Len(inbox) + 1
      /\ inbox'[Len(inbox) + 1] = m /\ Len(inbox) + 1 \notin DOMAIN inbox
      /\ inbox' \in Seq(Messages)
  BY <1>3, <1>4, InboxAppended
<1>6. /\ at'[c] = (IF has[c] = {} THEN "idle" ELSE "holding")
      /\ wants'[c] = (IF has[c] = {} THEN {} ELSE wants[c])
      /\ \A d \in Callers : d # c => at'[d] = at[d] /\ wants'[d] = wants[d]
  BY DEF Announce, TypeOK
<1>7. TypeOK'
  BY <1>1, <1>5, <1>6 DEF TypeOK, table, Labels, Announce
<1>8. CallerInv' /\ WaitInv'
  <2>1. CallerInv'
    <3>1. has' = has /\ roots' = roots
      BY DEF Announce
    <3>2. ASSUME NEW d \in Callers
          PROVE  /\ at'[d] = "idle" => wants'[d] = {} /\ has'[d] = {}
                 /\ at'[d] # "idle" => \E t \in Spaces : wants'[d] = {t}
                 /\ at'[d] \in {"asking", "opening"} => has'[d] = {}
                 /\ at'[d] = "holding" => has'[d] # {}
                 /\ \A h \in has'[d] : roots'[h] = wants'[d]
      <4>1. CASE d # c
        BY <1>6, <3>1, <4>1 DEF CallerInv
      <4>2. CASE d = c
        <5>1. \A h \in has[c] : roots[h] = wants[c]
          BY DEF CallerInv
        <5> QED BY <1>2, <1>6, <3>1, <4>2, <5>1
      <4> QED BY <4>1, <4>2
    <3> QED BY <3>2 DEF CallerInv
  <2>2. \A t \in Spaces : c \notin waiters[t] /\ waiters[t] \subseteq Callers
    BY <1>1 DEF WaitInv, TypeOK
  <2>3. WaitInv'
    BY <1>1, <1>6, <2>2 DEF WaitInv, table
  <2> QED BY <2>1, <2>3
<1>9. LookupInv'
  <2>1. \A i \in DOMAIN inbox : inbox[i].type = "lookup" => inbox[i].caller \in Callers /\ inbox[i].caller # c
    BY <1>1, <1>4, MessageTyped DEF LookupInv
  <2>2. \A i \in DOMAIN inbox' : inbox'[i].type = "lookup" => i \in DOMAIN inbox /\ inbox'[i] = inbox[i]
    BY <1>3, <1>5
  <2> QED BY <1>1, <1>6, <2>1, <2>2 DEF LookupInv, table
<1>10. StartInv'
  <2>1. \A d \in Callers, t \in Spaces :
          Initializing(d, t)' => Initializing(d, t) /\ d # c /\ t # s /\ at'[d] = at[d]
    <3>1. \A d \in Callers, t \in Spaces : Initializing(d, t)' => Initializing(d, t) /\ d # c /\ at'[d] = at[d]
      BY <1>1, <1>6 DEF Initializing
    <3>2. Initializing(c, s)
      BY <1>1, <1>2 DEF Initializing
    <3> QED BY <3>1, <3>2 DEF StartInv
  <2>2. \A i \in DOMAIN inbox', t \in Spaces : Announced(i, t)' =>
          \/ i \in DOMAIN inbox /\ Announced(i, t) /\ inbox'[i] = inbox[i]
          \/ i = Len(inbox) + 1 /\ t = s /\ inbox'[i].handle = has[c]
    BY <1>3, <1>5 DEF Announced
  <2>3. Initializing(c, s) /\ s \in starting /\ Owners(s) = has[c] /\ \A i \in DOMAIN inbox : ~Announced(i, s)
    BY <1>1, <1>2 DEF StartInv, Initializing
  <2>4. \A t \in Spaces : Owners(t)' = Owners(t)
    BY <1>1 DEF Owners
  <2> QED BY <1>1, <2>1, <2>2, <2>3, <2>4 DEF StartInv, table
<1>11. ReadyInv' /\ RootInv' /\ RunInv' /\ FiniteInv'
  <2>1. ReadyInv' /\ RootInv' /\ FiniteInv'
    BY <1>1 DEF ReadyInv, RootInv, FiniteInv, Owners, Alive, Entries, table
  <2>2. RunInv'
    BY <1>1, <1>6 DEF RunInv, Alive, Entries, table
  <2> QED BY <2>1, <2>2
<1>12. SoleWorker' /\ WithinLimit'
  BY <1>1, <1>6, ThreadsKept
<1> QED BY <1>7, <1>8, <1>9, <1>10, <1>11, <1>12

(* A table entry is dropped.  Unless the Core has been dropped before, its *)
(* worker is the one that is then joined.                                  *)
LEMMA EntryDropped ==
  ASSUME SupervisorInv, NEW s \in Spaces, joining' = Dropped(s), ready' = [ready EXCEPT ![s] = {}],
         UNCHANGED <<callers, inbox, starting, waiters, roots, core>>,
         ready[s] # {}, joining = {}, core # "running" \/ Dropped(s) = ready[s]
  PROVE  SupervisorInv'
<1> USE DEF SupervisorInv
<1>1. ready'[s] = {} /\ \A t \in Spaces : t # s => ready'[t] = ready[t]
  BY DEF TypeOK
<1>2. TypeOK'
  BY DEF TypeOK, Dropped, callers
<1>3. CallerInv' /\ LookupInv' /\ WaitInv' /\ RootInv'
  BY DEF CallerInv, LookupInv, WaitInv, RootInv, callers
<1>4. StartInv'
  BY DEF StartInv, Initializing, Announced, Owners, callers
<1>5. ReadyInv'
  BY <1>1 DEF ReadyInv, Owners
<1>6. Entries' = Entries \ {s} /\ Alive' = Alive /\ s \in Entries
  BY <1>1 DEF Entries, Alive, ReadyInv
<1>7. RunInv'
  <2>1. CASE core # "running"
    BY <2>1 DEF RunInv, callers
  <2>2. ASSUME core = "running", NEW h \in Alive, h \notin joining'
        PROVE  roots'[h] \subseteq Entries'
    <3>1. h \notin Owners(s) /\ h \in Handles
      BY <2>2 DEF ReadyInv, Alive
    <3>2. roots[h] \subseteq Entries
      BY <2>2 DEF RunInv
    <3> QED BY <1>6, <3>1, <3>2 DEF Owners
  <2> QED BY <1>6, <2>1, <2>2 DEF RunInv
<1>8. FiniteInv'
  BY <1>6, FS_RemoveElement DEF FiniteInv
<1>9. SoleWorker' /\ WithinLimit'
  BY ThreadsKept DEF callers
<1> QED BY <1>2, <1>3, <1>4, <1>5, <1>7, <1>8, <1>9

(* A full table gives up an idle worker. *)
LEMMA EvictStep ==
  ASSUME SupervisorInv, NEW s \in Spaces, Evict(s)
  PROVE  SupervisorInv'
<1>1. Dropped(s) = ready[s] /\ ready[s] # {}
  BY DEF Evict, Idle, Dropped
<1>2. joining = {}
  BY DEF Evict, Supervising
<1> QED BY <1>1, <1>2, EntryDropped DEF Evict

(* The table of a dropped Core is emptied. *)
LEMMA DropEntryStep ==
  ASSUME SupervisorInv, NEW s \in Spaces, DropEntry(s)
  PROVE  SupervisorInv'
<1>1. core # "running" /\ joining = {} /\ ready[s] # {}
  BY DEF DropEntry, Supervising
<1> QED BY <1>1, EntryDropped DEF DropEntry

(* The supervisor hears a caller that waits for nothing else. *)
Hearing(c, s) ==
  /\ inbox \in Seq(Messages) /\ inbox # <<>> /\ inbox' = Tail(inbox) /\ c \in Callers /\ s \in Spaces
  /\ at[c] = "asking" /\ wants[c] = {s} /\ has[c] = {} /\ core = "running" /\ joining = {}
  /\ \A t \in Spaces : c \notin waiters[t]
  /\ \A j \in DOMAIN inbox : j # 1 /\ inbox[j].type = "lookup" => inbox[j].caller # c
  /\ UNCHANGED <<ready, joining, roots, core>>

LEMMA Heard ==
  ASSUME SupervisorInv, Answer
  PROVE  \E c \in Callers, s \in Spaces :
           Hearing(c, s) /\ (Hand(c, s) \/ Wait(c, s) \/ Initialize(c, s) \/ Refuse(c, s))
<1> USE DEF SupervisorInv
<1>1. /\ inbox \in Seq(Messages) /\ inbox # <<>> /\ inbox' = Tail(inbox) /\ Head(inbox).type = "lookup"
      /\ joining = {} /\ UNCHANGED <<ready, joining, roots, core>>
  BY DEF Answer, Supervising, TypeOK
<1>2. 1 \in DOMAIN inbox /\ Head(inbox) = inbox[1]
  BY <1>1, InboxTaken
<1> DEFINE c == Head(inbox).caller
           s == Head(inbox).space
<1>3. c \in Callers /\ s \in Spaces
  BY <1>1, <1>2, MessageTyped
<1>4. at[c] = "asking" /\ wants[c] = {s} /\ \A t \in Spaces : c \notin waiters[t]
  BY <1>1, <1>2 DEF LookupInv
<1>5. \A j \in DOMAIN inbox : j # 1 /\ inbox[j].type = "lookup" => inbox[j].caller # c
  BY <1>1, <1>2 DEF LookupInv
<1>6. has[c] = {} /\ core = "running"
  BY <1>3, <1>4 DEF CallerInv, RunInv
<1>7. Hearing(c, s)
  BY <1>1, <1>3, <1>4, <1>5, <1>6 DEF Hearing
<1>8. Hand(c, s) \/ Wait(c, s) \/ Initialize(c, s) \/ Refuse(c, s)
  BY DEF Answer
<1> QED BY <1>3, <1>7, <1>8

(* An answer that begins no initialization changes what its caller owns. *)
LEMMA AnswerKept ==
  ASSUME SupervisorInv, NEW c \in Callers, NEW s \in Spaces, Hearing(c, s), starting' = starting,
         \A d \in Callers : d # c => at'[d] = at[d] /\ wants'[d] = wants[d] /\ has'[d] = has[d],
         at'[c] \notin {"opening", "announcing"},
         \A t \in Spaces : \A d \in waiters'[t] : d # c => d \in waiters[t]
  PROVE  LookupInv' /\ StartInv' /\ ReadyInv' /\ RootInv' /\ RunInv' /\ SoleWorker' /\ WithinLimit'
         /\ Entries' = Entries /\ Alive' = Alive
<1> USE DEF SupervisorInv
<1>1. /\ inbox # <<>> /\ inbox' = Tail(inbox) /\ at[c] = "asking"
      /\ UNCHANGED <<ready, joining, roots, core>> /\ core = "running"
  BY DEF Hearing
<1>2. LookupInv'
  <2>1. \A j \in DOMAIN inbox : j # 1 /\ inbox[j].type = "lookup" => inbox[j].caller \notin {c}
    BY DEF Hearing
  <2>2. \A d \in Callers \ {c} : at'[d] = at[d] /\ wants'[d] = wants[d]
                                 /\ \A t \in Spaces : d \in waiters'[t] => d \in waiters[t]
    OBVIOUS
  <2> QED BY <1>1, <2>1, <2>2, LookupsBehind
<1>3. \A t \in Spaces : Owners(t)' = Owners(t)
  BY <1>1 DEF Owners
<1>4. StartInv'
  BY <1>1, <1>3, StartsBehind
<1>5. Entries' = Entries /\ Alive' = Alive
  BY <1>1 DEF Entries, Alive
<1>6. ReadyInv' /\ RootInv' /\ RunInv'
  BY <1>1, <1>3, <1>5 DEF ReadyInv, RootInv, RunInv
<1>7. SoleWorker' /\ WithinLimit'
  BY <1>1, ThreadsKept
<1> QED BY <1>2, <1>4, <1>5, <1>6, <1>7

(* The caller gets the worker of the Space, and there is no other. *)
LEMMA HandStep ==
  ASSUME SupervisorInv, NEW c \in Callers, NEW s \in Spaces, Hearing(c, s), Hand(c, s)
  PROVE  SupervisorInv'
<1> USE DEF SupervisorInv
<1>1. /\ ready[s] # {} /\ at'[c] = "holding" /\ has'[c] = ready[s] /\ UNCHANGED <<wants, starting, waiters>>
      /\ \A d \in Callers : d # c => at'[d] = at[d] /\ has'[d] = has[d]
  BY DEF Hand, TypeOK
<1>2. UNCHANGED <<ready, joining, roots, core>> /\ wants[c] = {s} /\ \A t \in Spaces : c \notin waiters[t]
  BY DEF Hearing
<1>3. LookupInv' /\ StartInv' /\ ReadyInv' /\ RootInv' /\ RunInv' /\ SoleWorker' /\ WithinLimit'
      /\ Entries' = Entries /\ Alive' = Alive
  BY <1>1, AnswerKept
<1>4. inbox' \in Seq(Messages)
  BY InboxTaken DEF Hearing
<1>5. TypeOK'
  BY <1>2, <1>4 DEF TypeOK, Hand, Labels
<1>6. CallerInv'
  <2>1. \A h \in ready[s] : h \in Handles /\ roots[h] = {s}
    BY <1>1 DEF ReadyInv, Owners, RootInv
  <2>2. ASSUME NEW d \in Callers
        PROVE  /\ at'[d] = "idle" => wants'[d] = {} /\ has'[d] = {}
               /\ at'[d] # "idle" => \E t \in Spaces : wants'[d] = {t}
               /\ at'[d] \in {"asking", "opening"} => has'[d] = {}
               /\ at'[d] = "holding" => has'[d] # {}
               /\ \A h \in has'[d] : roots'[h] = wants'[d]
    <3>1. CASE d # c
      BY <1>1, <1>2, <3>1 DEF CallerInv
    <3>2. CASE d = c
      BY <1>1, <1>2, <2>1, <3>2
    <3> QED BY <3>1, <3>2
  <2> QED BY <2>2 DEF CallerInv
<1>7. WaitInv' /\ FiniteInv'
  <2>1. WaitInv'
    <3>1. ASSUME NEW t \in Spaces, NEW d \in waiters[t]
          PROVE  t \in starting' /\ at'[d] = "asking" /\ wants'[d] = {t}
      <4>1. d \in Callers /\ d # c
        BY <1>2 DEF TypeOK
      <4>2. t \in starting /\ at[d] = "asking" /\ wants[d] = {t}
        BY DEF WaitInv
      <4> QED BY <1>1, <4>1, <4>2
    <3> QED BY <1>1, <3>1 DEF WaitInv
  <2>2. FiniteInv'
    BY <1>1, <1>3 DEF FiniteInv
  <2> QED BY <2>1, <2>2
<1> QED BY <1>3, <1>5, <1>6, <1>7

(* The caller waits for the one that opens the Space. *)
LEMMA WaitStep ==
  ASSUME SupervisorInv, NEW c \in Callers, NEW s \in Spaces, Hearing(c, s), Wait(c, s)
  PROVE  SupervisorInv'
<1> USE DEF SupervisorInv
<1>1. /\ s \in starting /\ waiters' = [waiters EXCEPT ![s] = @ \cup {c}] /\ UNCHANGED <<callers, starting>>
      /\ Cardinality(waiters[s]) < MaxWaiters
  BY DEF Wait
<1>2. /\ UNCHANGED <<ready, joining, roots, core>> /\ wants[c] = {s} /\ at[c] = "asking"
      /\ \A t \in Spaces : c \notin waiters[t]
  BY DEF Hearing
<1>a. \A t \in Spaces : waiters'[t] = IF t = s THEN waiters[s] \cup {c} ELSE waiters[t]
  BY <1>1 DEF TypeOK
<1>3. LookupInv' /\ StartInv' /\ ReadyInv' /\ RootInv' /\ RunInv' /\ SoleWorker' /\ WithinLimit'
      /\ Entries' = Entries /\ Alive' = Alive
  <2>1. \A t \in Spaces : \A d \in waiters'[t] : d # c => d \in waiters[t]
    BY <1>a
  <2> QED BY <1>1, <1>2, <2>1, AnswerKept DEF callers
<1>4. inbox' \in Seq(Messages)
  BY InboxTaken DEF Hearing
<1>5. IsFiniteSet(waiters'[s]) /\ Cardinality(waiters'[s]) <= MaxWaiters
  <2>1. IsFiniteSet(waiters[s]) /\ Cardinality(waiters[s]) \in Nat
    BY FS_CardinalityType DEF FiniteInv
  <2>2. IsFiniteSet(waiters[s] \cup {c}) /\ Cardinality(waiters[s] \cup {c}) = Cardinality(waiters[s]) + 1
    BY <1>2, <2>1, FS_AddElement
  <2> QED BY <1>1, <1>a, <2>1, <2>2, LimitAssumption
<1>6. TypeOK'
  <2>1. \A t \in Spaces : Cardinality(waiters'[t]) <= MaxWaiters
    BY <1>5, <1>a DEF TypeOK
  <2> QED BY <1>1, <1>2, <1>4, <2>1 DEF TypeOK, callers
<1>7. CallerInv' /\ WaitInv' /\ FiniteInv'
  <2>1. CallerInv'
    BY <1>1, <1>2 DEF CallerInv, callers
  <2>2. WaitInv'
    BY <1>1, <1>2, <1>a DEF WaitInv, callers
  <2>3. FiniteInv'
    BY <1>3, <1>5, <1>a DEF FiniteInv
  <2> QED BY <2>1, <2>2, <2>3
<1> QED BY <1>3, <1>6, <1>7

(* The caller gets an error, and has nothing left. *)
LEMMA RefuseStep ==
  ASSUME SupervisorInv, NEW c \in Callers, NEW s \in Spaces, Hearing(c, s), Refuse(c, s)
  PROVE  SupervisorInv'
<1> USE DEF SupervisorInv
<1>1. /\ at'[c] = "idle" /\ wants'[c] = {} /\ UNCHANGED <<has, starting, waiters>>
      /\ \A d \in Callers : d # c => at'[d] = at[d] /\ wants'[d] = wants[d]
  BY DEF Refuse, TypeOK
<1>2. /\ UNCHANGED <<ready, joining, roots, core>> /\ has[c] = {} /\ at[c] = "asking"
      /\ \A t \in Spaces : c \notin waiters[t]
  BY DEF Hearing
<1>3. LookupInv' /\ StartInv' /\ ReadyInv' /\ RootInv' /\ RunInv' /\ SoleWorker' /\ WithinLimit'
      /\ Entries' = Entries /\ Alive' = Alive
  BY <1>1, AnswerKept
<1>4. inbox' \in Seq(Messages)
  BY InboxTaken DEF Hearing
<1>5. TypeOK'
  BY <1>2, <1>4 DEF TypeOK, Refuse, Labels
<1>6. CallerInv' /\ WaitInv' /\ FiniteInv'
  <2>1. CallerInv'
    BY <1>1, <1>2 DEF CallerInv
  <2>2. WaitInv' /\ FiniteInv'
    BY <1>1, <1>2, <1>3 DEF WaitInv, FiniteInv, TypeOK
  <2> QED BY <2>1, <2>2
<1> QED BY <1>3, <1>5, <1>6

(* Every entry has a worker or an initializer of its own, or neither: a    *)
(* table with room leaves room for another thread.                         *)
LEMMA ThreadsWithinEntries ==
  ASSUME SupervisorInv, core = "running", joining = {}
  PROVE  Cardinality(BeingOpened) + Cardinality(Alive) <= Cardinality(Entries)
<1> USE DEF SupervisorInv
<1> DEFINE Served == Entries \ BeingOpened
           spaceOf == [h \in Alive |-> CHOOSE s \in Spaces : s \in roots[h]]
<1>1. /\ BeingOpened \subseteq Entries /\ IsFiniteSet(Entries) /\ IsFiniteSet(BeingOpened) /\ IsFiniteSet(Alive)
      /\ Cardinality(BeingOpened) \in Nat /\ Cardinality(Alive) \in Nat
  BY Countable DEF FiniteInv
<1>2. /\ Entries \cap BeingOpened = BeingOpened
      /\ IsFiniteSet(Served) /\ Cardinality(Served) = Cardinality(Entries) - Cardinality(BeingOpened)
  BY <1>1, FS_Difference
<1>3. \A h \in Alive : spaceOf[h] \in Spaces /\ roots[h] = {spaceOf[h]}
  <2> SUFFICES ASSUME NEW h \in Alive PROVE spaceOf[h] \in Spaces /\ roots[h] = {spaceOf[h]}
    OBVIOUS
  <2>1. h \in Handles /\ \E s \in Spaces : s \in roots[h]
    BY DEF Alive, TypeOK
  <2>2. spaceOf[h] \in Spaces /\ spaceOf[h] \in roots[h]
    BY <2>1
  <2> QED BY <2>1, <2>2 DEF RootInv
<1>4. \A h \in Alive : spaceOf[h] \in Served
  <2>1. \A h \in Alive : spaceOf[h] \in Entries
    BY <1>3 DEF RunInv
  <2>2. \A h \in Alive : h \in Owners(spaceOf[h])
    BY <1>3 DEF Owners, Alive
  <2> QED BY <1>3, <2>1, <2>2 DEF SoleWorker, BeingOpened
<1>5. \A g, h \in Alive : spaceOf[g] = spaceOf[h] => g = h
  BY <1>3 DEF SoleWorker, Owners, Alive
<1>6. spaceOf \in Injection(Alive, Served)
  BY <1>4, <1>5 DEF Injection, IsInjective
<1>7. Cardinality(Alive) <= Cardinality(Served)
  BY <1>2, <1>6, FS_Injection
<1>8. Cardinality(Entries) \in Nat
  BY <1>1, FS_CardinalityType
<1> HIDE DEF Served, spaceOf
<1> QED BY <1>1, <1>2, <1>7, <1>8

(* The caller is told to open a Space that no worker owns, with room for   *)
(* one more thread.                                                        *)
LEMMA InitializeStep ==
  ASSUME SupervisorInv, NEW c \in Callers, NEW s \in Spaces, Hearing(c, s), Initialize(c, s)
  PROVE  SupervisorInv'
<1> USE DEF SupervisorInv
<1>1. /\ s \notin Entries /\ ~Full(s) /\ at'[c] = "opening" /\ starting' = starting \cup {s}
      /\ UNCHANGED <<wants, has, waiters>> /\ \A d \in Callers : d # c => at'[d] = at[d]
  BY DEF Initialize, TypeOK
<1>2. /\ UNCHANGED <<ready, joining, roots, core>> /\ wants[c] = {s} /\ at[c] = "asking" /\ has[c] = {}
      /\ core = "running" /\ joining = {} /\ \A t \in Spaces : c \notin waiters[t]
      /\ inbox \in Seq(Messages) /\ inbox # <<>> /\ inbox' = Tail(inbox)
  BY DEF Hearing
<1>3. Owners(s) = {} /\ s \notin starting /\ ready[s] = {}
  BY <1>1, <1>2 DEF RunInv, Owners, Alive, Entries
<1>4. /\ inbox' \in Seq(Messages)
      /\ \A i \in DOMAIN inbox' : i + 1 \in DOMAIN inbox /\ inbox'[i] = inbox[i + 1]
      /\ \A i, j \in DOMAIN inbox' : i + 1 = j + 1 => i = j
  BY <1>2, InboxTaken
<1>5. TypeOK'
  BY <1>2, <1>4 DEF TypeOK, Initialize, Labels
<1>6. CallerInv' /\ WaitInv'
  BY <1>1, <1>2 DEF CallerInv, WaitInv, TypeOK
<1>7. LookupInv'
  <2>1. \A j \in DOMAIN inbox : j # 1 /\ inbox[j].type = "lookup" => inbox[j].caller \notin {c}
    BY DEF Hearing
  <2>2. \A d \in Callers \ {c} : at'[d] = at[d] /\ wants'[d] = wants[d]
                                 /\ \A t \in Spaces : d \in waiters'[t] => d \in waiters[t]
    BY <1>1
  <2> QED BY <1>2, <2>1, <2>2, LookupsBehind
<1>8. \A t \in Spaces : Owners(t)' = Owners(t)
  BY <1>2 DEF Owners
<1>9. \A d \in Callers, t \in Spaces : Initializing(d, t) => t # s
  BY <1>3 DEF StartInv
<1>10. StartInv'
  <2>1. \A i \in DOMAIN inbox', t \in Spaces : Announced(i, t)' => Announced(i + 1, t) /\ t # s
    BY <1>3, <1>4 DEF Announced, StartInv
  <2>2. \A d \in Callers, t \in Spaces : Initializing(d, t)' =>
          (d = c /\ t = s) \/ (d # c /\ t # s /\ Initializing(d, t) /\ at'[d] = at[d])
    BY <1>1, <1>2, <1>9 DEF Initializing
  <2>3. ASSUME NEW d \in Callers, NEW t \in Spaces, Initializing(d, t)'
        PROVE  /\ t \in starting'
               /\ \A e \in Callers : Initializing(e, t)' => d = e
               /\ \A i \in DOMAIN inbox' : ~Announced(i, t)'
               /\ at'[d] = "announcing" => Owners(t)' = has'[d]
    <3>1. CASE d = c /\ t = s
      BY <1>1, <2>1, <2>2, <3>1
    <3>2. CASE d # c /\ t # s
      BY <1>1, <1>4, <1>8, <2>1, <2>2, <2>3, <3>2 DEF StartInv
    <3> QED BY <2>2, <2>3, <3>1, <3>2
  <2>4. ASSUME NEW i \in DOMAIN inbox', NEW t \in Spaces, Announced(i, t)'
        PROVE  /\ t \in starting' /\ Owners(t)' = inbox'[i].handle
               /\ \A j \in DOMAIN inbox' : Announced(j, t)' => i = j
    BY <1>1, <1>4, <1>8, <2>1, <2>4 DEF StartInv
  <2> QED BY <2>3, <2>4 DEF StartInv
<1>11. Alive' = Alive /\ Entries' = Entries \cup {s}
  BY <1>1, <1>2 DEF Alive, Entries
<1>12. ReadyInv' /\ RootInv' /\ RunInv'
  <2>1. ReadyInv' /\ RootInv'
    BY <1>1, <1>2, <1>3, <1>8 DEF ReadyInv, RootInv
  <2>2. RunInv'
    BY <1>2, <1>11 DEF RunInv
  <2> QED BY <2>1, <2>2
<1>13. FiniteInv'
  BY <1>1, <1>11, FS_AddElement DEF FiniteInv
<1>14. \A t \in Spaces : Opening(t)' = IF t = s THEN {c} ELSE Opening(t)
  <2>1. Opening(s) = {}
    BY <1>9 DEF Opening, Initializing
  <2>2. Opening(s)' = {c}
    BY <1>1, <1>2, <2>1 DEF Opening
  <2>3. \A t \in Spaces : t # s => Opening(t)' = Opening(t)
    BY <1>1, <1>2 DEF Opening
  <2> QED BY <2>2, <2>3
<1>15. SoleWorker'
  BY <1>3, <1>8, <1>14 DEF SoleWorker
<1>16. WithinLimit'
  <2>1. BeingOpened' = BeingOpened \cup {s} /\ s \notin BeingOpened
    BY <1>9, <1>14 DEF BeingOpened, Opening, Initializing
  <2>2. Cardinality(BeingOpened') = Cardinality(BeingOpened) + 1
    BY <2>1, Countable, FS_AddElement
  <2>3. Cardinality(Entries) < Limit
    BY <1>1, FS_CardinalityType, LimitAssumption DEF Full, FiniteInv
  <2>4. Cardinality(BeingOpened) + Cardinality(Alive) <= Cardinality(Entries)
    BY <1>2, ThreadsWithinEntries
  <2>5. Cardinality(Entries) \in Nat
    BY FS_CardinalityType DEF FiniteInv
  <2> QED BY <1>11, <2>2, <2>3, <2>4, <2>5, Countable, LimitAssumption DEF WithinLimit
<1> QED BY <1>5, <1>6, <1>7, <1>10, <1>12, <1>13, <1>15, <1>16

(* The announced worker is the only one of its Space, and the table and    *)
(* whoever waited get it; or nobody has one.                               *)
LEMMA SettleStep ==
  ASSUME SupervisorInv, Settle
  PROVE  SupervisorInv'
<1> USE DEF SupervisorInv
<1> DEFINE s == Head(inbox).space
           handle == Head(inbox).handle
<1>1. /\ inbox \in Seq(Messages) /\ inbox # <<>> /\ inbox' = Tail(inbox) /\ Head(inbox).type = "initialized"
      /\ joining = {} /\ core # "closed" /\ UNCHANGED <<joining, roots, core>>
  BY DEF Settle, Supervising, TypeOK
<1>2. 1 \in DOMAIN inbox /\ Head(inbox) = inbox[1]
  BY <1>1, InboxTaken
<1>3. s \in Spaces /\ handle \subseteq Handles
  BY <1>1, <1>2, MessageTyped
<1>4. /\ \A c \in Callers : c \notin waiters[s] => at'[c] = at[c] /\ has'[c] = has[c] /\ wants'[c] = wants[c]
      /\ \A c \in Callers : c \in waiters[s] =>
           /\ at'[c] = (IF handle = {} THEN "idle" ELSE "holding") /\ has'[c] = handle
           /\ wants'[c] = (IF handle = {} THEN {} ELSE wants[c])
  BY DEF Settle
<1>5. s \in starting /\ Owners(s) = handle /\ \A j \in DOMAIN inbox : Announced(j, s) => j = 1
  BY <1>1, <1>2, <1>3 DEF StartInv, Announced
<1>6. \A c \in Callers : ~Initializing(c, s)
  BY <1>1, <1>2, <1>3 DEF StartInv, Announced
<1>7. /\ starting' = starting \ {s} /\ waiters' = [waiters EXCEPT ![s] = {}]
      /\ ready' = [ready EXCEPT ![s] = handle]
  BY <1>5 DEF Settle, Install
<1>8. /\ \A t \in Spaces : waiters'[t] = IF t = s THEN {} ELSE waiters[t]
      /\ \A t \in Spaces : ready'[t] = IF t = s THEN handle ELSE ready[t]
  BY <1>7 DEF TypeOK
<1>9. \A c \in Callers : c \in waiters[s] => at[c] = "asking" /\ wants[c] = {s}
  BY <1>3 DEF WaitInv
<1>10. /\ inbox' \in Seq(Messages)
       /\ \A i \in DOMAIN inbox' : i + 1 \in DOMAIN inbox /\ i + 1 # 1 /\ inbox'[i] = inbox[i + 1]
       /\ \A i, j \in DOMAIN inbox' : i + 1 = j + 1 => i = j
  BY <1>1, InboxTaken
<1> HIDE DEF s, handle
<1>11. TypeOK'
  <2>1. at' \in [Callers -> Labels] /\ wants' \in [Callers -> SUBSET Spaces] /\ has' \in [Callers -> SUBSET Handles]
    BY <1>3 DEF Settle, TypeOK, Labels, s, handle
  <2>2. Cardinality({}) <= MaxWaiters
    BY FS_EmptySet, LimitAssumption
  <2>3. \A t \in Spaces : Cardinality(waiters'[t]) <= MaxWaiters
    BY <1>8, <2>2 DEF TypeOK
  <2>4. starting' \subseteq Spaces /\ ready' \in [Spaces -> SUBSET Handles] /\ waiters' \in [Spaces -> SUBSET Callers]
    BY <1>3, <1>7 DEF TypeOK
  <2> QED BY <1>1, <1>10, <2>1, <2>3, <2>4 DEF TypeOK
<1>12. CallerInv'
  <2>1. \A h \in handle : h \in Handles /\ roots'[h] = {s}
    BY <1>1, <1>3, <1>5 DEF Owners, RootInv
  <2>2. ASSUME NEW c \in Callers, c \in waiters[s]
        PROVE  /\ at'[c] = "idle" => wants'[c] = {} /\ has'[c] = {}
               /\ at'[c] # "idle" => \E t \in Spaces : wants'[c] = {t}
               /\ at'[c] \in {"idle", "holding"}
               /\ at'[c] = "holding" => has'[c] # {}
               /\ \A h \in has'[c] : roots'[h] = wants'[c]
    BY <1>3, <1>4, <1>9, <2>1, <2>2
  <2> QED BY <1>1, <1>4, <2>2 DEF CallerInv
<1>13. LookupInv'
  <2>1. \A j \in DOMAIN inbox : j # 1 /\ inbox[j].type = "lookup" => inbox[j].caller \notin waiters[s]
    BY <1>3 DEF LookupInv
  <2>2. \A d \in Callers \ waiters[s] : at'[d] = at[d] /\ wants'[d] = wants[d]
                                 /\ \A t \in Spaces : d \in waiters'[t] => d \in waiters[t]
    BY <1>4, <1>8
  <2> QED BY <1>1, <2>1, <2>2, LookupsBehind
<1>14. WaitInv'
  <2> SUFFICES ASSUME NEW t \in Spaces, NEW c \in waiters'[t]
               PROVE  t \in starting' /\ at'[c] = "asking" /\ wants'[c] = {t}
    BY DEF WaitInv
  <2>1. t # s /\ c \in waiters[t] /\ c \in Callers
    BY <1>8 DEF TypeOK
  <2>2. c \notin waiters[s]
    BY <1>3, <2>1 DEF WaitInv
  <2> QED BY <1>4, <1>7, <2>1, <2>2 DEF WaitInv
<1>15. \A t \in Spaces : Owners(t)' = Owners(t)
  BY <1>1 DEF Owners
<1>16. StartInv'
  <2>1. \A i \in DOMAIN inbox', t \in Spaces : Announced(i, t)' => Announced(i + 1, t) /\ t # s
    BY <1>5, <1>10 DEF Announced
  <2>2. \A d \in Callers, t \in Spaces : Initializing(d, t)' =>
          Initializing(d, t) /\ t # s /\ at'[d] = at[d] /\ has'[d] = has[d]
    BY <1>4, <1>6, <1>9 DEF Initializing
  <2>3. ASSUME NEW d \in Callers, NEW t \in Spaces, Initializing(d, t)'
        PROVE  /\ t \in starting'
               /\ \A e \in Callers : Initializing(e, t)' => d = e
               /\ \A i \in DOMAIN inbox' : ~Announced(i, t)'
               /\ at'[d] = "announcing" => Owners(t)' = has'[d]
    BY <1>7, <1>10, <1>15, <2>1, <2>2, <2>3 DEF StartInv
  <2>4. ASSUME NEW i \in DOMAIN inbox', NEW t \in Spaces, Announced(i, t)'
        PROVE  /\ t \in starting' /\ Owners(t)' = inbox'[i].handle
               /\ \A j \in DOMAIN inbox' : Announced(j, t)' => i = j
    BY <1>7, <1>10, <1>15, <2>1, <2>4 DEF StartInv
  <2> QED BY <2>3, <2>4 DEF StartInv
<1>17. ReadyInv' /\ RootInv'
  BY <1>1, <1>5, <1>7, <1>8, <1>15 DEF ReadyInv, RootInv
<1>18. Alive' = Alive /\ Entries' \subseteq Entries
       /\ \A t \in Entries : t # s \/ handle # {} => t \in Entries'
  <2>1. Alive' = Alive
    BY <1>1 DEF Alive
  <2>2. Entries' \subseteq Entries
    BY <1>5, <1>7, <1>8 DEF Entries
  <2>3. \A t \in Entries : t # s => t \in Entries'
    BY <1>7, <1>8 DEF Entries
  <2>4. handle # {} => s \in Entries'
    BY <1>3, <1>8 DEF Entries
  <2> QED BY <2>1, <2>2, <2>3, <2>4
<1>19. RunInv'
  <2>1. \A h \in Alive : s \in roots[h] => handle # {}
    BY <1>5 DEF Alive, Owners
  <2>2. \A c \in Callers : at[c] \in {"idle", "holding"} => at'[c] = at[c]
    BY <1>4, <1>9
  <2> QED BY <1>1, <1>18, <2>1, <2>2 DEF RunInv
<1>20. FiniteInv'
  BY <1>8, <1>18, FS_Subset, FS_EmptySet DEF FiniteInv
<1>21. SoleWorker' /\ WithinLimit'
  <2>1. \A d \in Callers : (at'[d] = "opening" <=> at[d] = "opening")
                           /\ (at[d] = "opening" => wants'[d] = wants[d])
    BY <1>4, <1>9
  <2> QED BY <1>1, <2>1, ThreadsKept
<1> QED BY <1>11, <1>12, <1>13, <1>14, <1>16, <1>17, <1>19, <1>20, <1>21

(* Every step, or none, keeps the invariant. *)
LEMMA SupervisorInvNext == SupervisorInv /\ [Next]_vars => SupervisorInv'
<1> SUFFICES ASSUME SupervisorInv, [Next]_vars PROVE SupervisorInv'
  OBVIOUS
<1>1. ASSUME NEW c \in Callers, Caller(c) \/ Release(c) \/ \E s \in Spaces : Ask(c, s)
      PROVE  SupervisorInv'
  BY <1>1, OpenStep, AnnounceStep, ReleaseStep, AskStep DEF Caller
<1>2. ASSUME NEW h \in Handles, WorkerEnds(h) PROVE SupervisorInv'
  BY <1>2, WorkerEndsStep
<1>3. CASE Supervisor
  <2>1. CASE Answer
    BY <2>1, Heard, HandStep, WaitStep, InitializeStep, RefuseStep
  <2>2. ASSUME NEW s \in Spaces, Evict(s) \/ DropEntry(s) PROVE SupervisorInv'
    BY <2>2, EvictStep, DropEntryStep
  <2>3. Joined \/ Settle \/ Closed => SupervisorInv'
    BY JoinedStep, SettleStep, CoreStep
  <2> QED BY <1>3, <2>1, <2>2, <2>3 DEF Supervisor
<1>4. CASE DropCore \/ Restart
  BY <1>4, CoreStep
<1>5. CASE UNCHANGED vars
  <2>1. UNCHANGED <<callers, inbox, table, joining, roots, core>>
    BY <1>5 DEF vars
  <2>2. TypeOK' /\ CallerInv' /\ LookupInv' /\ WaitInv' /\ ReadyInv' /\ RootInv' /\ FiniteInv'
    BY <2>1 DEF SupervisorInv, TypeOK, CallerInv, LookupInv, WaitInv, ReadyInv, RootInv, FiniteInv, Owners, Alive,
                Entries, callers, table
  <2>3. StartInv' /\ RunInv'
    BY <2>1 DEF SupervisorInv, StartInv, Initializing, Announced, Owners, RunInv, Alive, Entries, callers, table
  <2>4. SoleWorker' /\ WithinLimit'
    BY <2>1, ThreadsKept DEF SupervisorInv, callers
  <2> QED BY <2>2, <2>3, <2>4 DEF SupervisorInv
<1> QED BY <1>1, <1>2, <1>3, <1>4, <1>5 DEF Next

(* A Space has one worker, within the limit of the table, and whoever      *)
(* holds its handle holds that worker.                                     *)
THEOREM OneWorkerHolds == Spec => []OneWorker
<1>1. SupervisorInv => OneWorker
  BY DEF SupervisorInv, OneWorker, HandleServes, CallerInv
<1> QED BY <1>1, SupervisorInvInit, SupervisorInvNext, PTL DEF Spec
----------------------------------------------------------------------------
(* What a record of a Space may be, and what its history says of its text. *)
IsHistory(h) ==
  /\ {"policy", "hash", "evidence", "exact", "deleted"} \subseteq DOMAIN h
  /\ h.hash \in Nat /\ h.exact \in BOOLEAN /\ h.deleted \in BOOLEAN
  /\ \A p \in h.policy : h.policy = {p}

RestsOn(r) == IF text[r] = 0 THEN {} ELSE rests[text[r]]

OpenText(r, h) ==
  \/ <<r, text[r]>> \in approved \/ maker[text[r]] = "author"
  \/ \E p \in h.policy : p.owner = maker[text[r]]

(* A policy is never without a pinned text; who changes a text in the open *)
(* pins it; a text that matches its policy was written under it; the       *)
(* evidence covers what the text rests on, and, if it is exact, nothing    *)
(* but that and what the record rested on before.                          *)
HistoryInv(r, h) ==
  /\ IsHistory(h) /\ h.hash <= texts
  /\ h.policy # {} /\ ~h.deleted => h.hash # 0
  /\ text[r] # 0 /\ maker[text[r]] \in Characters \cup {"author"} => h.hash \in {0, text[r]}
  /\ r \in Visible /\ text[r] # 0 /\ h.policy # {} /\ ~h.deleted /\ h.hash = text[r] => OpenText(r, h)
  /\ r \notin lost => /\ RestsOn(r) \subseteq h.evidence \cup {Foreign}
                      /\ h.exact => h.evidence \subseteq RestsOn(r) \cup former[r]

RecordInv(r) ==
  /\ text[r] \in 0..texts
  /\ \A h \in records[r] : records[r] = {h}
  /\ HistoryInv(r, History(r))
  /\ text[r] # 0 /\ records[r] = {} => maker[text[r]] \in {"legacy", "import"} \/ r \in lost

PoliciesInv ==
  /\ texts \in 1..MaxTexts
  /\ DOMAIN text = Records /\ DOMAIN records = Records /\ DOMAIN former = Records
  /\ DOMAIN maker = 1..MaxTexts /\ DOMAIN rests = 1..MaxTexts
  /\ \A r \in Records : RecordInv(r)
  /\ (\A r \in Records : records[r] = {}) =>
       \A r \in Records : text[r] # 0 => maker[text[r]] \in {"legacy", "import"}

(* Texts are only added, and what is lost or approved stays so.            *)
Grows ==
  /\ texts \in Nat /\ texts' \in Nat /\ texts <= texts'
  /\ \A t \in 1..texts : maker'[t] = maker[t] /\ rests'[t] = rests[t]
  /\ lost \subseteq lost' /\ approved \subseteq approved'

LEMMA Untouched ==
  ASSUME NEW r \in Records, RecordInv(r), Grows,
         text'[r] = text[r], records'[r] = records[r], former[r] \subseteq former'[r]
  PROVE  RecordInv(r)'
<1>1. History(r)' = History(r)
  BY DEF History
<1>2. PICK h : h = History(r)
  OBVIOUS
<1>3. text[r] # 0 => maker'[text[r]] = maker[text[r]] /\ rests'[text[r]] = rests[text[r]]
  BY DEF RecordInv, Grows
<1>4. RestsOn(r)' = RestsOn(r)
  BY <1>3 DEF RestsOn
<1>5. HistoryInv(r, h) /\ text[r] \in 0..texts
  BY <1>2 DEF RecordInv
<1>6. OpenText(r, h) => text[r] = 0 \/ OpenText(r, h)'
  BY <1>3 DEF OpenText, Grows
<1>7. IsHistory(h) /\ h.hash <= texts'
  BY <1>5 DEF HistoryInv, IsHistory, Grows
<1>8. HistoryInv(r, h)'
  <2>1. IsHistory(h)'
    BY <1>7 DEF IsHistory
  <2> QED BY <1>3, <1>4, <1>5, <1>6, <1>7, <2>1 DEF HistoryInv, Grows
<1>9. HistoryInv(r, History(r))'
  BY <1>1, <1>2, <1>8
<1>10. text'[r] \in 0..texts'
  BY <1>5 DEF Grows
<1> QED BY <1>3, <1>9, <1>10 DEF RecordInv, Grows

LEMMA Revised ==
  ASSUME NEW r \in Records, NEW h, records'[r] = {h}, text'[r] \in 0..texts', HistoryInv(r, h)'
  PROVE  RecordInv(r)'
<1>1. History(r)' = h
  BY DEF History
<1>2. HistoryInv(r, History(r))'
  BY <1>1
<1> QED BY <1>2 DEF RecordInv

(* The history of a record without one is blank. *)
LEMMA HistoryTyped ==
  ASSUME PoliciesInv, NEW r \in Records
  PROVE  /\ HistoryInv(r, History(r)) /\ IsHistory(History(r)) /\ texts \in Nat /\ text[r] \in 0..texts
         /\ records[r] = {} => History(r).evidence = {} /\ History(r).policy = {}
         /\ records[r] # {} => records[r] = {History(r)}
<1>1. HistoryInv(r, History(r)) /\ IsHistory(History(r)) /\ texts \in Nat /\ text[r] \in 0..texts
  BY DEF PoliciesInv, RecordInv, HistoryInv
<1>2. records[r] = {} => History(r).evidence = {} /\ History(r).policy = {}
  BY DEF History, Blank
<1>3. records[r] # {} => records[r] = {History(r)}
  BY DEF PoliciesInv, RecordInv, History
<1> QED BY <1>1, <1>2, <1>3

LEMMA OthersKept ==
  ASSUME PoliciesInv, Grows, NEW S \in SUBSET Records,
         texts' \in 1..MaxTexts, DOMAIN text' = Records, DOMAIN records' = Records, DOMAIN former' = Records,
         DOMAIN maker' = 1..MaxTexts, DOMAIN rests' = 1..MaxTexts,
         \A r \in Records \ S : text'[r] = text[r] /\ records'[r] = records[r] /\ former[r] \subseteq former'[r],
         \A r \in S : RecordInv(r)', \E r \in S : records'[r] # {}
  PROVE  PoliciesInv'
<1>1. ASSUME NEW r \in Records \ S PROVE RecordInv(r)'
  <2>1. RecordInv(r)
    BY DEF PoliciesInv
  <2> QED BY <2>1, Untouched
<1> QED BY <1>1 DEF PoliciesInv

(* The fields of the history that a revision makes. *)
Single(as) == \A a \in as : as = {a}

RevisionOf(n, r, hash, used, selected, parents) ==
  /\ n.hash = hash /\ (n.deleted <=> hash = 0)
  /\ n.evidence = (History(r).evidence \cup used \cup Inherited(parents))
  /\ n.exact => (selected /\ (\A p \in parents : records[p] # {} => History(p).exact) /\ (records[r] # {} => History(r).exact))
  /\ IsHistory(n)

LEMMA Revises ==
  ASSUME PoliciesInv, NEW r \in Records, NEW hash \in Nat, NEW as, NEW used, NEW selected \in BOOLEAN,
         NEW parents \in SUBSET Records, Single(as)
  PROVE  RevisionOf(Revision(r, hash, as, used, selected, parents), r, hash, used, selected, parents)
<1> PICK n : n = Revision(r, hash, as, used, selected, parents)
  OBVIOUS
<1> PICK h : h = History(r)
  OBVIOUS
<1>1. IsHistory(h)
  BY HistoryTyped
<1>2. n.hash = hash
  BY Zenon DEF Revision
<1>3. n.deleted <=> hash = 0
  BY Zenon DEF Revision
<1>4. n.evidence = (h.evidence \cup used \cup Inherited(parents))
  BY Zenon DEF Revision
<1>5. n.exact <=> /\ selected /\ \A p \in parents : records[p] # {} => History(p).exact
                  /\ records[r] # {} => h.exact
  BY Zenon DEF Revision
<1>6. {"policy", "hash", "evidence", "exact", "deleted"} \subseteq DOMAIN n
  BY Zenon DEF Revision
<1>7. n.policy = IF h.policy # {} THEN h.policy
              ELSE {[revision |-> 1, owner |-> who.character, readers |-> {}, continuities |-> {who.continuity}] : who \in as}
  BY Zenon DEF Revision
<1>8. n.exact \in BOOLEAN /\ n.deleted \in BOOLEAN
  BY Zenon DEF Revision
<1>9. \A p \in n.policy : n.policy = {p}
  <2>1. CASE h.policy # {}
    BY <1>1, <1>7, <2>1 DEF IsHistory
  <2>2. CASE h.policy = {} /\ as = {}
    BY <1>7, <2>2
  <2>3. CASE h.policy = {} /\ as # {}
    <3>1. PICK a : as = {a}
      BY <2>3 DEF Single
    <3> DEFINE begun(who) == [revision |-> 1, owner |-> who.character, readers |-> {}, continuities |-> {who.continuity}]
    <3>2. n.policy = {begun(who) : who \in as}
      BY <1>7, <2>3
    <3> HIDE DEF begun
    <3>3. n.policy = {begun(a)}
      BY <3>1, <3>2
    <3> QED BY <3>3
  <2> QED BY <2>1, <2>2, <2>3
<1>10. IsHistory(n)
  BY <1>2, <1>6, <1>8, <1>9 DEF IsHistory
<1> QED BY <1>2, <1>3, <1>4, <1>5, <1>10 DEF RevisionOf

(* A text made in the open by maintenance of the owner or by the author,   *)
(* with a history that inherits from what was read.                        *)
LEMMA WriteStep ==
  ASSUME PoliciesAssumption, PoliciesInv, NEW r \in Records, NEW by, NEW as, NEW used, NEW selected \in BOOLEAN, NEW extends \in BOOLEAN,
         NEW parents \in SUBSET Records, \A p \in parents : text[p] # 0, Single(as),
         r \in Visible => by = "author" \/ \E p \in Revision(r, texts + 1, as, used, selected, parents).policy : p.owner = by,
         Write(r, by, as, used, selected, extends, parents)
  PROVE  PoliciesInv'
<1> DEFINE t == texts + 1
           before == IF extends /\ text[r] # 0 THEN rests[text[r]] ELSE {}
           given == UNION {rests[text[p]] : p \in {q \in parents : text[q] # 0}}
           all == before \cup given \cup used
<1> PICK h : h = History(r)
  OBVIOUS
<1> PICK n : n = Revision(r, t, as, used, selected, parents)
  OBVIOUS
<1>1. HistoryInv(r, h) /\ IsHistory(h) /\ texts \in Nat /\ texts \in 1..MaxTexts /\ text[r] \in 0..texts /\ MaxTexts \in Nat
  BY HistoryTyped DEF PoliciesInv, PoliciesAssumption
<1>2. /\ texts < MaxTexts /\ texts' = t /\ text' = [text EXCEPT ![r] = t]
      /\ records' = [records EXCEPT ![r] = {n}] /\ maker' = [maker EXCEPT ![t] = by]
      /\ approved' = approved
      /\ former' = [former EXCEPT ![r] = @ \cup ((IF text[r] = 0 THEN {} ELSE rests[text[r]]) \ before)
                                      \cup UNION {former[p] : p \in parents}]
      /\ lost' = IF parents \cap lost = {} THEN lost ELSE lost \cup {r}
  BY DEF Write
<1>3. PICK some \in SUBSET all : rests' = [rests EXCEPT ![t] = some] /\ (selected => some = all)
  BY Zenon DEF Write
<1>4. t \in 1..MaxTexts /\ t \notin 1..texts /\ t # 0 /\ t \in Nat
  BY <1>1, <1>2
<1>5. text'[r] = t /\ records'[r] = {n} /\ maker'[t] = by /\ rests'[t] = some
      /\ former'[r] = former[r] \cup (RestsOn(r) \ before) \cup UNION {former[p] : p \in parents}
  BY <1>2, <1>3, <1>4 DEF PoliciesInv, RestsOn
<1>6. /\ DOMAIN text' = Records /\ DOMAIN records' = Records /\ DOMAIN former' = Records
      /\ DOMAIN maker' = 1..MaxTexts /\ DOMAIN rests' = 1..MaxTexts
  BY <1>2, <1>3 DEF PoliciesInv
<1>7. Grows
  BY <1>1, <1>2, <1>3, <1>4 DEF Grows
<1>8. \A x \in Records \ {r} : text'[x] = text[x] /\ records'[x] = records[x] /\ former[x] \subseteq former'[x]
  BY <1>2 DEF PoliciesInv
<1>8a. RevisionOf(n, r, t, used, selected, parents)
  BY <1>4, Revises
<1>9. /\ n.hash = t /\ n.evidence = (h.evidence \cup used \cup Inherited(parents))
      /\ (n.exact => (selected /\ (\A p \in parents : records[p] # {} => History(p).exact) /\ (records[r] # {} => h.exact)))
  BY <1>8a DEF RevisionOf
<1>12. IsHistory(n)' /\ n.hash <= texts' /\ n.hash # 0 /\ n.hash = text'[r]
  <2>1. IsHistory(n)'
    BY <1>8a DEF RevisionOf, IsHistory
  <2>2. t <= t
    BY <1>1
  <2>3. n.hash = t
    BY <1>9
  <2> QED BY <1>2, <1>4, <1>5, <2>1, <2>2, <2>3
<1>13. r \in Visible => OpenText(r, n)'
  BY <1>5 DEF OpenText
<1>14. RestsOn(r)' = some
  BY <1>4, <1>5 DEF RestsOn
<1>15. before \subseteq RestsOn(r)
  BY DEF RestsOn
<1>16. ASSUME r \notin lost'
       PROVE  /\ some \subseteq n.evidence \cup {Foreign}
              /\ n.exact => n.evidence \subseteq some \cup former'[r]
  <2>1. r \notin lost /\ \A p \in parents : p \notin lost
    BY <1>2, <1>16
  <2>2. RestsOn(r) \subseteq h.evidence \cup {Foreign} /\ (h.exact => h.evidence \subseteq RestsOn(r) \cup former[r])
    BY <1>1, <2>1 DEF HistoryInv
  <2>3. ASSUME NEW p \in parents
        PROVE  /\ RestsOn(p) = rests[text[p]] /\ RestsOn(p) \subseteq given /\ RestsOn(p) \subseteq History(p).evidence \cup {Foreign}
               /\ (records[p] # {} => History(p).exact) => History(p).evidence \subseteq given \cup former'[r]
    <3>1. HistoryInv(p, History(p)) /\ p \notin lost /\ text[p] # 0
      BY <2>1, HistoryTyped
    <3>2. RestsOn(p) = rests[text[p]] /\ RestsOn(p) \subseteq given
      BY <3>1 DEF RestsOn
    <3>3. former[p] \subseteq former'[r]
      BY <1>5
    <3>4. records[p] = {} => History(p).evidence = {}
      BY HistoryTyped
    <3> QED BY <3>1, <3>2, <3>3, <3>4 DEF HistoryInv
  <2>4. given \subseteq Inherited(parents) \cup {Foreign}
    BY <2>3 DEF Inherited
  <2>5. some \subseteq n.evidence \cup {Foreign}
    BY <1>9, <1>15, <2>2, <2>4
  <2>6. ASSUME n.exact PROVE n.evidence \subseteq some \cup former'[r]
    <3>1. some = all /\ Inherited(parents) \subseteq all \cup former'[r]
      <4>1. \A p \in parents : History(p).evidence \subseteq given \cup former'[r]
        BY <1>9, <2>3, <2>6
      <4>2. Inherited(parents) \subseteq given \cup former'[r]
        BY <4>1 DEF Inherited
      <4> QED BY <1>3, <1>9, <2>6, <4>2
    <3>2. h.evidence \subseteq all \cup former'[r]
      <4>1. CASE records[r] = {}
        BY <4>1, HistoryTyped
      <4>2. CASE records[r] # {}
        BY <1>5, <1>9, <2>2, <2>6, <4>2
      <4> QED BY <4>1, <4>2
    <3> QED BY <1>9, <3>1, <3>2
  <2> QED BY <2>5, <2>6
<1>17. HistoryInv(r, n)'
  BY <1>2, <1>4, <1>5, <1>12, <1>13, <1>14, <1>16 DEF HistoryInv
<1>18. RecordInv(r)'
  <2>1. text'[r] \in 0..texts'
    BY <1>2, <1>4, <1>5
  <2> QED BY <1>5, <1>17, <2>1, Revised
<1>19. texts' \in 1..MaxTexts /\ \A x \in {r} : RecordInv(x)'
  BY <1>2, <1>4, <1>18
<1> HIDE DEF t, before, given, all
<1>20. {r} \in SUBSET Records /\ \E x \in {r} : records'[x] # {}
  BY <1>5
<1> QED BY <1>6, <1>7, <1>8, <1>19, <1>20, OthersKept

(* What is deleted leaves its evidence behind. *)
LEMMA DeleteStep ==
  ASSUME PoliciesAssumption, PoliciesInv, NEW r \in Records, NEW as, NEW used, NEW selected \in BOOLEAN,
         NEW parents \in SUBSET Records, \A p \in parents : text[p] # 0, Single(as),
         Delete(r, as, used, selected, parents)
  PROVE  PoliciesInv'
<1> PICK h : h = History(r)
  OBVIOUS
<1> PICK n : n = Revision(r, 0, as, used, selected, parents)
  OBVIOUS
<1>1. HistoryInv(r, h) /\ IsHistory(h) /\ texts \in Nat /\ texts \in 1..MaxTexts /\ text[r] \in 0..texts /\ MaxTexts \in Nat
  BY HistoryTyped DEF PoliciesInv, PoliciesAssumption
<1>2. /\ text[r] # 0 /\ texts' = texts /\ text' = [text EXCEPT ![r] = 0] /\ records' = [records EXCEPT ![r] = {n}]
      /\ maker' = maker /\ rests' = rests /\ approved' = approved /\ lost' = lost
      /\ former' = [former EXCEPT ![r] = @ \cup rests[text[r]] \cup used \cup Inherited(parents)]
  BY DEF Delete
<1>3. text'[r] = 0 /\ records'[r] = {n} /\ former'[r] = former[r] \cup rests[text[r]] \cup used \cup Inherited(parents)
  BY <1>2 DEF PoliciesInv
<1>4a. RevisionOf(n, r, 0, used, selected, parents)
  BY Revises
<1>4. /\ n.hash = 0 /\ n.deleted /\ n.evidence = (h.evidence \cup used \cup Inherited(parents))
      /\ (n.exact /\ records[r] # {} => h.exact)
      /\ IsHistory(n)'
  BY <1>4a DEF RevisionOf, IsHistory
<1>5. ASSUME r \notin lost, n.exact PROVE n.evidence \subseteq former'[r]
  <2>1. CASE records[r] = {}
    BY <1>3, <1>4, <2>1, HistoryTyped
  <2>2. CASE records[r] # {}
    BY <1>1, <1>2, <1>3, <1>4, <1>5, <2>2 DEF HistoryInv, RestsOn
  <2> QED BY <2>1, <2>2
<1>6. RestsOn(r)' = {}
  BY <1>3 DEF RestsOn
<1>7. HistoryInv(r, n)'
  <2>1. n.hash = 0 /\ n.deleted /\ IsHistory(n)'
    BY <1>4
  <2>2. 0 <= texts
    BY <1>1
  <2> QED BY <1>2, <1>3, <1>5, <1>6, <2>1, <2>2 DEF HistoryInv
<1>8. RecordInv(r)'
  <2>1. text'[r] \in 0..texts'
    BY <1>1, <1>2, <1>3
  <2> QED BY <1>3, <1>7, <2>1, Revised
<1>9. Grows
  BY <1>1, <1>2 DEF Grows
<1>10. /\ DOMAIN text' = Records /\ DOMAIN records' = Records /\ DOMAIN former' = Records
       /\ DOMAIN maker' = 1..MaxTexts /\ DOMAIN rests' = 1..MaxTexts
  BY <1>2 DEF PoliciesInv
<1>11. \A x \in Records \ {r} : text'[x] = text[x] /\ records'[x] = records[x] /\ former[x] \subseteq former'[x]
  BY <1>2 DEF PoliciesInv
<1>12. texts' \in 1..MaxTexts /\ (\A x \in {r} : RecordInv(x)') /\ {r} \in SUBSET Records /\ \E x \in {r} : records'[x] # {}
  BY <1>1, <1>2, <1>3, <1>8
<1> QED BY <1>9, <1>10, <1>11, <1>12, OthersKept

(* A history of the same text that the author has approved. *)
LEMMA ApprovedStep ==
  ASSUME PoliciesInv, NEW r \in Records, NEW n, text[r] # 0, IsHistory(n)', n.hash <= texts,
         n.policy # {} /\ ~n.deleted => n.hash # 0,
         maker[text[r]] \in Characters \cup {"author"} => n.hash \in {0, text[r]},
         n.evidence = History(r).evidence, n.exact => History(r).exact,
         records' = [records EXCEPT ![r] = {n}], approved' = approved \cup {<<r, text[r]>>},
         UNCHANGED <<text, texts, maker, rests, former, lost>>
  PROVE  PoliciesInv'
<1>1. HistoryInv(r, History(r)) /\ texts \in Nat /\ text[r] \in 0..texts
  BY HistoryTyped
<1>2. OpenText(r, n)' /\ RestsOn(r)' = RestsOn(r)
  BY DEF OpenText, RestsOn
<1>3. HistoryInv(r, n)'
  BY <1>1, <1>2 DEF HistoryInv
<1>4. records'[r] = {n}
  BY DEF PoliciesInv
<1>5. RecordInv(r)'
  BY <1>1, <1>3, <1>4, Revised
<1>6. Grows
  BY <1>1 DEF Grows
<1>7. /\ DOMAIN text' = Records /\ DOMAIN records' = Records /\ DOMAIN former' = Records
      /\ DOMAIN maker' = 1..MaxTexts /\ DOMAIN rests' = 1..MaxTexts
  BY DEF PoliciesInv
<1>8. \A x \in Records \ {r} : text'[x] = text[x] /\ records'[x] = records[x] /\ former[x] \subseteq former'[x]
  BY DEF PoliciesInv
<1>9. texts' \in 1..MaxTexts /\ (\A x \in {r} : RecordInv(x)') /\ {r} \in SUBSET Records /\ \E x \in {r} : records'[x] # {}
  BY <1>4, <1>5 DEF PoliciesInv
<1> QED BY <1>6, <1>7, <1>8, <1>9, OthersKept

LEMMA MoveStep ==
  ASSUME PoliciesInv, NEW r \in Records, Move(r)
  PROVE  PoliciesInv'
<1> PICK n : n = Revision(r, text[r], {}, {}, FALSE, {})
  OBVIOUS
<1>1. texts \in Nat /\ text[r] \in 0..texts /\ text[r] # 0 /\ text[r] \in Nat
  BY HistoryTyped DEF Move
<1>2a. RevisionOf(n, r, text[r], {}, FALSE, {})
  BY <1>1, Revises DEF Single
<1>2. /\ n.hash = text[r] /\ n.evidence = (History(r).evidence \cup {} \cup Inherited({})) /\ (n.exact => FALSE) /\ IsHistory(n)'
  BY <1>2a DEF RevisionOf, IsHistory
<1>3. n.evidence = History(r).evidence
  BY <1>2 DEF Inherited
<1>4. /\ records' = [records EXCEPT ![r] = {n}] /\ approved' = approved \cup {<<r, text[r]>>}
      /\ UNCHANGED <<text, texts, maker, rests, former, lost>>
  BY DEF Move, SemanticHash
<1>5. n.hash <= texts /\ n.hash # 0 /\ n.hash \in {0, text[r]}
  <2>1. n.hash = text[r]
    BY <1>2
  <2>2. text[r] <= texts /\ text[r] # 0
    BY <1>1
  <2> QED BY <2>1, <2>2
<1> QED BY <1>1, <1>2, <1>3, <1>4, <1>5, ApprovedStep

LEMMA GrantStep ==
  ASSUME PoliciesInv, NEW r \in Records, NEW policy, Grant(r, policy)
  PROVE  PoliciesInv'
<1> PICK h : h = History(r)
  OBVIOUS
<1> PICK n : n = Granted(r, policy)
  OBVIOUS
<1>1. HistoryInv(r, h) /\ IsHistory(h) /\ texts \in Nat /\ text[r] \in 0..texts /\ text[r] # 0 /\ text[r] \in Nat
  BY HistoryTyped DEF Grant
<1> DEFINE q == [revision |-> IF h.policy = {} THEN 1 ELSE 1 + (CHOOSE p \in h.policy : TRUE).revision,
                 owner |-> policy.owner, readers |-> policy.readers, continuities |-> policy.continuities]
<1>2. n = [h EXCEPT !.hash = IF @ = 0 THEN text[r] ELSE @, !.policy = {q}]
  BY DEF Granted, SemanticHash
<1> HIDE DEF q
<1>3. {"policy", "hash", "evidence", "exact", "deleted"} \subseteq DOMAIN h
  BY <1>1 DEF IsHistory
<1>4. DOMAIN n = DOMAIN h
  BY <1>2
<1>5. n.policy = {q}
  BY <1>2, <1>3
<1>6. n.hash = IF h.hash = 0 THEN text[r] ELSE h.hash
  BY <1>2, <1>3
<1>7. n.evidence = h.evidence
  BY <1>2, <1>3
<1>8. n.exact = h.exact
  BY <1>2, <1>3
<1>9. n.deleted = h.deleted
  BY <1>2, <1>3
<1>10. n.hash \in Nat /\ n.exact \in BOOLEAN /\ n.deleted \in BOOLEAN
  BY <1>1, <1>6, <1>8, <1>9 DEF IsHistory
<1>11. IsHistory(n)'
  BY <1>3, <1>4, <1>5, <1>10 DEF IsHistory
<1>12. n.hash <= texts /\ n.hash # 0
  BY <1>1, <1>6 DEF HistoryInv
<1>13. maker[text[r]] \in Characters \cup {"author"} => n.hash \in {0, text[r]}
  BY <1>1, <1>6 DEF HistoryInv
<1>14. n.exact => History(r).exact
  BY <1>8
<1>15. /\ records' = [records EXCEPT ![r] = {n}] /\ approved' = approved \cup {<<r, text[r]>>}
      /\ UNCHANGED <<text, texts, maker, rests, former, lost>>
  BY DEF Grant
<1> QED BY <1>1, <1>7, <1>11, <1>12, <1>13, <1>14, <1>15, ApprovedStep

(* What approves a candidate rests on both and says so. *)
LEMMA ApproveStep ==
  ASSUME PoliciesAssumption, PoliciesInv, NEW p \in Records, NEW r \in Records, Approve(p, r)
  PROVE  PoliciesInv'
<1> DEFINE t == texts + 1
<1> PICK n : n = Revision(r, t, {}, {}, FALSE, {p})
  OBVIOUS
<1> PICK d : d = Revision(p, 0, {}, {}, FALSE, {p})
  OBVIOUS
<1> PICK some : some = (IF text[r] = 0 THEN {} ELSE rests[text[r]]) \cup rests[text[p]]
  OBVIOUS
<1>1. /\ texts < MaxTexts /\ texts' = t /\ text' = [text EXCEPT ![r] = t, ![p] = 0]
      /\ records' = [records EXCEPT ![r] = {n}, ![p] = {d}] /\ maker' = [maker EXCEPT ![t] = "author"]
      /\ rests' = [rests EXCEPT ![t] = some] /\ former' = former /\ approved' = approved
      /\ lost' = IF p \in lost THEN lost \cup {r} ELSE lost
      /\ text[p] # 0 /\ text[r] # 0 /\ p # r
  BY DEF Approve, Visible
<1>2. texts \in Nat /\ texts \in 1..MaxTexts /\ MaxTexts \in Nat
  BY HistoryTyped DEF PoliciesInv, PoliciesAssumption
<1>3. t \in 1..MaxTexts /\ t \notin 1..texts /\ t # 0 /\ t \in Nat /\ t <= t /\ 0 <= t
  BY <1>1, <1>2
<1>4. /\ text'[r] = t /\ text'[p] = 0 /\ records'[r] = {n} /\ records'[p] = {d}
      /\ maker'[t] = "author" /\ rests'[t] = some
  BY <1>1, <1>3 DEF PoliciesInv
<1>5. RevisionOf(n, r, t, {}, FALSE, {p}) /\ RevisionOf(d, p, 0, {}, FALSE, {p})
  BY <1>3, Revises DEF Single
<1>6. n.hash = t /\ n.evidence = (History(r).evidence \cup History(p).evidence) /\ ~n.exact /\ IsHistory(n)'
  <2>1. Inherited({p}) = History(p).evidence
    BY DEF Inherited
  <2> QED BY <1>5, <2>1 DEF RevisionOf, IsHistory
<1>7. d.hash = 0 /\ d.deleted /\ ~d.exact /\ IsHistory(d)'
  BY <1>5 DEF RevisionOf, IsHistory
<1>8. RestsOn(r)' = some /\ RestsOn(p)' = {}
  BY <1>3, <1>4 DEF RestsOn
<1>9. ASSUME r \notin lost' PROVE some \subseteq n.evidence \cup {Foreign}
  <2>1. HistoryInv(r, History(r)) /\ HistoryInv(p, History(p)) /\ r \notin lost /\ p \notin lost
    BY <1>1, <1>9, HistoryTyped
  <2> QED BY <1>1, <1>6, <2>1 DEF HistoryInv, RestsOn
<1>10. OpenText(r, n)'
  BY <1>4 DEF OpenText
<1>11. HistoryInv(r, n)'
  <2>1. n.hash = t /\ ~n.exact /\ IsHistory(n)'
    BY <1>6
  <2> QED BY <1>1, <1>3, <1>4, <1>8, <1>9, <1>10, <2>1 DEF HistoryInv
<1>12. HistoryInv(p, d)'
  <2>1. d.hash = 0 /\ d.deleted /\ ~d.exact /\ IsHistory(d)'
    BY <1>7
  <2> QED BY <1>1, <1>3, <1>4, <1>8, <2>1 DEF HistoryInv
<1>13. RecordInv(r)' /\ RecordInv(p)'
  <2>1. text'[r] \in 0..texts' /\ text'[p] \in 0..texts'
    BY <1>1, <1>3, <1>4
  <2> QED BY <1>4, <1>11, <1>12, <2>1, Revised
<1>14. Grows
  BY <1>1, <1>2, <1>3 DEF Grows
<1>15. /\ DOMAIN text' = Records /\ DOMAIN records' = Records /\ DOMAIN former' = Records
       /\ DOMAIN maker' = 1..MaxTexts /\ DOMAIN rests' = 1..MaxTexts
  BY <1>1 DEF PoliciesInv
<1>16. \A x \in Records \ {p, r} : text'[x] = text[x] /\ records'[x] = records[x] /\ former[x] \subseteq former'[x]
  BY <1>1 DEF PoliciesInv
<1>17. texts' \in 1..MaxTexts /\ (\A x \in {p, r} : RecordInv(x)') /\ {p, r} \in SUBSET Records /\ \E x \in {p, r} : records'[x] # {}
  BY <1>1, <1>3, <1>4, <1>13
<1> QED BY <1>14, <1>15, <1>16, <1>17, OthersKept

(* The history of a record that a container lists. *)
LEMMA ListedHistory ==
  ASSUME NEW hash \in Nat, NEW owner, NEW n, n = Imported(Described(hash, owner))
  PROVE  n.policy = {} /\ n.hash = hash /\ n.evidence = {Foreign} /\ n.exact /\ IsHistory(n)
<1> DEFINE q == [revision |-> 1, owner |-> owner, readers |-> {}, continuities |-> {}]
<1> PICK A : A = {Foreign}
  OBVIOUS
<1> PICK b \in BOOLEAN : b <=> hash = 0
  OBVIOUS
<1> PICK P : P = {q}
  OBVIOUS
<1> HIDE DEF q
<1>1. Described(hash, owner) = [hash |-> hash, evidence |-> A, exact |-> TRUE, deleted |-> b, policy |-> P]
  BY Zenon DEF Described, q
<1>2. n = [[hash |-> hash, evidence |-> A, exact |-> TRUE, deleted |-> b, policy |-> P] EXCEPT !.policy = {}]
  BY <1>1 DEF Imported
<1>3. n = [hash |-> hash, evidence |-> A, exact |-> TRUE, deleted |-> b, policy |-> {}]
  BY <1>2
<1> QED BY <1>3 DEF IsHistory

(* An import takes the texts and the ledger one without the other: what a  *)
(* text rested on is forgotten where only its history is dropped.          *)
LEMMA ImportStep ==
  ASSUME PoliciesAssumption, PoliciesInv, NEW files \in SUBSET Records, NEW listed \in SUBSET Records,
         NEW owner, NEW replace \in BOOLEAN, Import(files, listed, owner, replace)
  PROVE  PoliciesInv'
<1> DEFINE t == texts + 1
<1> PICK taken : taken = {r \in files : replace \/ text[r] = 0}
  OBVIOUS
<1> PICK ledger \in BOOLEAN : ledger <=> listed # {} /\ (replace \/ \A r \in Records : records[r] = {})
  OBVIOUS
<1> DEFINE new(r) == IF r \in listed THEN {Imported(Described(IF r \in files THEN t ELSE 0, owner))} ELSE {}
<1>1. /\ texts < MaxTexts /\ texts' = t
      /\ text' = [r \in Records |-> IF r \in taken THEN t ELSE text[r]]
      /\ maker' = [maker EXCEPT ![t] = "import"] /\ rests' = [rests EXCEPT ![t] = {Foreign}]
      /\ approved' = approved
      /\ former' = [r \in Records |-> former[r] \cup (IF r \in taken /\ text[r] # 0 THEN rests[text[r]] ELSE {})
                                              \cup (IF ledger /\ r \in listed THEN {Foreign} ELSE {})]
  BY DEF Import
<1>2. records' = IF ledger THEN [r \in Records |-> new(r)] ELSE records
  BY DEF Import
<1>3. lost' = lost \cup {r \in Records \ taken : ledger /\ records[r] # {}}
  BY DEF Import
<1>4. texts \in Nat /\ texts \in 1..MaxTexts /\ MaxTexts \in Nat
  BY HistoryTyped DEF PoliciesInv, PoliciesAssumption
<1>4a. PICK r \in Records : TRUE
  <2>1. files \cup listed # {}
    BY DEF Import
  <2> QED BY <2>1
<1>5. t \in 1..MaxTexts /\ t \notin 1..texts /\ t # 0 /\ t \in Nat /\ t <= t /\ 0 <= t
  BY <1>1, <1>4
<1>6. /\ DOMAIN text' = Records /\ DOMAIN records' = Records /\ DOMAIN former' = Records
      /\ DOMAIN maker' = 1..MaxTexts /\ DOMAIN rests' = 1..MaxTexts /\ maker'[t] = "import" /\ rests'[t] = {Foreign}
  BY <1>1, <1>2, <1>5 DEF PoliciesInv
<1>7. Grows
  BY <1>1, <1>3, <1>4, <1>5 DEF Grows
<1>8. "import" \notin Characters \cup {"author"}
  BY DEF PoliciesAssumption, Makers
<1>9. ASSUME NEW x \in Records PROVE RecordInv(x)'
  <2> PICK h : h = History(x)
    OBVIOUS
  <2>1. HistoryInv(x, h) /\ IsHistory(h) /\ text[x] \in 0..texts /\ text[x] \in Nat
    BY HistoryTyped, <1>4
  <2>2. /\ x \in taken => text'[x] = t
        /\ x \notin taken => text'[x] = text[x]
        /\ former[x] \subseteq former'[x]
        /\ ledger /\ x \in listed => Foreign \in former'[x]
        /\ x \in taken => RestsOn(x) \subseteq former'[x]
    BY <1>1 DEF RestsOn
  <2>3. text'[x] \in 0..texts'
    BY <1>1, <1>4, <1>5, <2>1, <2>2
  <2>4. x \in taken => RestsOn(x)' = {Foreign}
    BY <1>5, <1>6, <2>2 DEF RestsOn
  <2>5. x \notin taken => RestsOn(x)' = RestsOn(x)
    BY <1>7, <2>1, <2>2 DEF Grows, RestsOn
  <2>6. x \notin taken /\ text[x] # 0 => maker'[text[x]] = maker[text[x]]
    BY <1>7, <2>1 DEF Grows
  <2>7. x \notin lost' => /\ x \notin lost
                          /\ ledger /\ x \notin taken => records[x] = {}
    BY <1>3
  <2>8. x \notin lost' /\ ledger => RestsOn(x)' \subseteq {Foreign}
    <3>1. records[x] = {} => h.evidence = {}
      BY HistoryTyped
    <3> QED BY <2>1, <2>4, <2>5, <2>7, <3>1 DEF HistoryInv
  <2>9. CASE ledger /\ x \in listed
    <3> PICK hash : hash = IF x \in files THEN t ELSE 0
      OBVIOUS
    <3> PICK n : n = Imported(Described(hash, owner))
      OBVIOUS
    <3>1. hash \in Nat /\ hash \in {0, t} /\ hash <= t
      BY <1>5
    <3>2. n.policy = {} /\ n.hash = hash /\ n.evidence = {Foreign} /\ IsHistory(n)'
      BY <3>1, ListedHistory DEF IsHistory
    <3>3. records'[x] = {n}
      BY <1>2, <2>9
    <3>4. ASSUME text'[x] # 0, maker'[text'[x]] \in Characters \cup {"author"} PROVE n.hash \in {0, text'[x]}
      <4>1. x \notin taken
        BY <1>6, <1>8, <2>2, <3>4
      <4>2. maker[text[x]] \in Characters \cup {"author"} /\ text[x] # 0
        BY <2>2, <2>6, <3>4, <4>1
      <4>3. maker[text[x]] \notin {"legacy", "import"}
        BY <4>2 DEF PoliciesAssumption, Makers
      <4>4. ~(\A y \in Records : records[y] = {})
        BY <4>2, <4>3 DEF PoliciesInv
      <4>5. replace
        BY <4>4, <2>9
      <4>6. x \notin files
        BY <4>1, <4>5
      <4> QED BY <3>2, <4>6
    <3>5. HistoryInv(x, n)'
      <4>1. n.hash <= texts'
        BY <1>1, <3>1, <3>2
      <4>2. x \notin lost' => RestsOn(x)' \subseteq {Foreign} /\ n.evidence \subseteq former'[x]
        BY <2>2, <2>8, <2>9, <3>2
      <4>3. n.policy = {} /\ IsHistory(n)'
        BY <3>2
      <4> QED BY <3>4, <4>1, <4>2, <4>3 DEF HistoryInv
    <3> QED BY <2>3, <3>3, <3>5, Revised
  <2>10. CASE ledger /\ x \notin listed
    <3>1. records'[x] = {}
      BY <1>2, <2>10
    <3>2. History(x)' = Blank
      BY <3>1 DEF History
    <3>3. HistoryInv(x, Blank)'
      <4>1. Blank.hash = 0 /\ Blank.policy = {} /\ Blank.exact = FALSE /\ Blank.evidence = {} /\ IsHistory(Blank)'
        BY DEF Blank, IsHistory
      <4>2. 0 <= texts'
        BY <1>1, <1>5
      <4> HIDE DEF Blank
      <4>3. Blank.hash <= texts'
        BY <4>1, <4>2
      <4>4. x \notin lost' => RestsOn(x)' \subseteq {Foreign}
        BY <2>8, <2>10
      <4> QED BY <4>1, <4>3, <4>4 DEF HistoryInv
    <3>4. text'[x] # 0 => maker'[text'[x]] \in {"legacy", "import"} \/ x \in lost'
      <4>1. RecordInv(x)
        BY DEF PoliciesInv
      <4> QED BY <1>6, <2>2, <2>6, <2>7, <2>10, <4>1 DEF RecordInv
    <3> QED BY <2>3, <3>1, <3>2, <3>3, <3>4 DEF RecordInv
  <2>11. CASE ~ledger /\ x \notin taken
    <3>1. RecordInv(x) /\ records'[x] = records[x]
      BY <1>2, <2>11 DEF PoliciesInv
    <3> QED BY <1>7, <2>2, <2>11, <3>1, Untouched
  <2>12. CASE ~ledger /\ x \in taken
    <3>1. RecordInv(x) /\ records' = records
      BY <1>2, <2>12 DEF PoliciesInv
    <3>2. History(x)' = h
      BY <3>1 DEF History
    <3>3. h.hash \in Nat /\ h.hash <= texts /\ IsHistory(h)'
      BY <2>1 DEF HistoryInv, IsHistory
    <3>4. h.hash <= texts' /\ h.hash # t
      BY <1>1, <1>4, <3>3
    <3>5. HistoryInv(x, h)'
      <4>1. x \notin lost' => (h.exact => h.evidence \subseteq former'[x])
        BY <2>1, <2>2, <2>7, <2>12 DEF HistoryInv
      <4>2. h.policy # {} /\ ~h.deleted => h.hash # 0
        BY <2>1 DEF HistoryInv
      <4> QED BY <1>6, <1>8, <2>2, <2>4, <2>12, <3>3, <3>4, <4>1, <4>2 DEF HistoryInv
    <3>6. HistoryInv(x, History(x))'
      BY <3>2, <3>5
    <3> QED BY <1>6, <2>2, <2>3, <2>12, <3>1, <3>6 DEF RecordInv
  <2> QED BY <2>9, <2>10, <2>11, <2>12
<1>10. ASSUME \A x \in Records : records'[x] = {}, NEW x \in Records, text'[x] # 0
       PROVE  maker'[text'[x]] \in {"legacy", "import"}
  <2>1. ~ledger
    <3>1. ledger => \A y \in listed : records'[y] # {}
      BY <1>2
    <3> QED BY <1>10, <3>1
  <2>2. \A y \in Records : records[y] = {}
    BY <1>2, <1>10, <2>1
  <2>3. x \notin taken => text'[x] = text[x] /\ text[x] \in 0..texts
    BY <1>1, HistoryTyped
  <2>4. CASE x \in taken
    BY <1>1, <1>6, <2>4
  <2>5. CASE x \notin taken
    <3>1. maker[text[x]] \in {"legacy", "import"}
      BY <1>10, <2>2, <2>3, <2>5 DEF PoliciesInv
    <3>2. maker'[text[x]] = maker[text[x]]
      BY <1>4, <1>7, <1>10, <2>3, <2>5 DEF Grows
    <3> QED BY <2>3, <2>5, <3>1, <3>2
  <2> QED BY <2>4, <2>5
<1>11. texts' \in 1..MaxTexts
  BY <1>1, <1>5
<1> QED BY <1>6, <1>9, <1>10, <1>11 DEF PoliciesInv

LEMMA RecordsInitHolds ==
  ASSUME PoliciesAssumption, RecordsInit
  PROVE  PoliciesInv
<1>1. /\ texts = 1 /\ 1 \in 1..MaxTexts
      /\ DOMAIN text = Records /\ DOMAIN records = Records /\ DOMAIN former = Records
      /\ DOMAIN maker = 1..MaxTexts /\ DOMAIN rests = 1..MaxTexts
  BY DEF RecordsInit, PoliciesAssumption
<1>2. ASSUME NEW r \in Records PROVE RecordInv(r) /\ (text[r] # 0 => maker[text[r]] = "legacy")
  <2>1. text[r] \in {0, 1} /\ records[r] = {} /\ maker[1] = "legacy" /\ rests[1] = {}
    BY <1>1 DEF RecordsInit
  <2>2. History(r) = Blank /\ RestsOn(r) = {}
    BY <2>1 DEF History, RestsOn
  <2>3. HistoryInv(r, Blank)
    <3>1. Blank.hash = 0 /\ Blank.policy = {} /\ Blank.exact = FALSE /\ Blank.evidence = {} /\ IsHistory(Blank)
      BY DEF Blank, IsHistory
    <3> HIDE DEF Blank
    <3>2. Blank.hash <= texts
      BY <1>1, <3>1
    <3> QED BY <2>2, <3>1, <3>2 DEF HistoryInv
  <2> QED BY <1>1, <2>1, <2>2, <2>3 DEF RecordInv
<1> QED BY <1>1, <1>2 DEF PoliciesInv

LEMMA RecordsStep ==
  ASSUME PoliciesAssumption, PoliciesInv, [RecordsNext]_recordVars
  PROVE  PoliciesInv'
<1>1. ASSUME UNCHANGED <<text, records, texts, history>> PROVE PoliciesInv'
  <2>1. UNCHANGED <<text, records, texts, maker, rests, former, approved, lost>>
    BY <1>1 DEF history
  <2>2. texts \in Nat /\ texts <= texts
    BY DEF PoliciesInv, PoliciesAssumption
  <2>3. Grows
    BY <2>1, <2>2 DEF Grows
  <2>4. \A r \in Records : RecordInv(r)'
    BY <2>1, <2>3, Untouched DEF PoliciesInv
  <2> QED BY <2>1, <2>4 DEF PoliciesInv
<1>2. CASE UNCHANGED recordVars
  BY <1>1, <1>2 DEF recordVars
<1>3. ASSUME NEW e \in Turns, Capture(e) PROVE PoliciesInv'
  BY <1>1, <1>3 DEF Capture
<1>4. ASSUME NEW e \in Turns PROVE Seen(e) \in SUBSET Records /\ \A p \in Seen(e) : text[p] # 0
  BY DEF Seen, Visible, Reads
<1>5. ASSUME NEW e \in Turns, NEW r \in Records, NEW selected \in BOOLEAN, NEW extends \in BOOLEAN,
             Maintain(e, r, selected, extends)
      PROVE  PoliciesInv'
  <2>1. PICK who \in captured[e] : Owned(who, r) /\ Write(r, who.character, {who}, {e}, selected, extends, Seen(e))
    BY <1>5 DEF Maintain
  <2> PICK n : n = Revision(r, texts + 1, {who}, {e}, selected, Seen(e))
    OBVIOUS
  <2>2. ASSUME r \in Visible PROVE \E p \in n.policy : p.owner = who.character
    <3> PICK h : h = History(r)
      OBVIOUS
    <3> DEFINE begun(w) == [revision |-> 1, owner |-> w.character, readers |-> {}, continuities |-> {w.continuity}]
    <3>1. n.policy = IF h.policy # {} THEN h.policy ELSE {begun(w) : w \in {who}}
      BY Zenon DEF Revision
    <3>2. begun(who).owner = who.character
      OBVIOUS
    <3> HIDE DEF begun
    <3>3. CASE text[r] = 0 /\ records[r] = {}
      <4>1. h.policy = {}
        BY <3>3, HistoryTyped
      <4>2. n.policy = {begun(who)}
        BY <3>1, <4>1
      <4> QED BY <3>2, <4>2
    <3>4. CASE \E p \in h.policy : p.owner = who.character
      BY <3>1, <3>4
    <3> QED BY <2>1, <2>2, <3>3, <3>4 DEF Owned, Visible
  <2>3. Single({who})
    BY DEF Single
  <2>4. r \in Visible => who.character = "author" \/ \E p \in Revision(r, texts + 1, {who}, {e}, selected, Seen(e)).policy : p.owner = who.character
    BY <2>2
  <2> QED BY <1>4, <2>1, <2>3, <2>4, WriteStep
<1>6. ASSUME NEW e \in Turns, NEW r \in Records, NEW selected \in BOOLEAN, Remove(e, r, selected)
      PROVE  PoliciesInv'
  <2>1. PICK who \in captured[e] : Delete(r, {who}, {e}, selected, Seen(e))
    BY <1>6 DEF Remove
  <2>2. Single({who})
    BY DEF Single
  <2> QED BY <1>4, <2>1, <2>2, DeleteStep
<1>7. Single({}) /\ {} \in SUBSET Records
  BY DEF Single
<1>8. ASSUME NEW r \in Records, NEW extends \in BOOLEAN, Edit(r, extends) PROVE PoliciesInv'
  <2>1. Write(r, "author", {}, {}, FALSE, extends, {})
    BY <1>8 DEF Edit
  <2> QED BY <1>7, <2>1, WriteStep
<1>9. ASSUME NEW r \in Records, Erase(r) PROVE PoliciesInv'
  <2>1. Delete(r, {}, {}, FALSE, {})
    BY <1>9 DEF Erase
  <2> QED BY <1>7, <2>1, DeleteStep
<1>10. ASSUME NEW r \in Records, Touch(r) PROVE PoliciesInv'
  BY <1>1, <1>10 DEF Touch
<1>11. ASSUME NEW container \in Containers, NEW replace \in BOOLEAN,
              Import(container.files, container.listed, container.owner, replace)
       PROVE  PoliciesInv'
  <2>1. container.files \in SUBSET Records /\ container.listed \in SUBSET Records
    BY DEF PoliciesAssumption
  <2> QED BY <1>11, <2>1, ImportStep
<1>12. ASSUME NEW c \in Conversations, Revoke(c) PROVE PoliciesInv'
  BY <1>1, <1>12 DEF Revoke
<1>13. ASSUME NEW c \in Conversations, NEW continuity \in Continuities, Bind(c, continuity) PROVE PoliciesInv'
  BY <1>1, <1>13 DEF Bind
<1> QED BY <1>2, <1>3, <1>5, <1>6, <1>8, <1>9, <1>10, <1>11, <1>12, <1>13, MoveStep, ApproveStep, GrantStep DEF RecordsNext

LEMMA ReadIsVouched ==
  ASSUME PoliciesAssumption, PoliciesInv, NEW c \in Conversations, NEW r \in Records
  PROVE  Vouched(c, r)
<1> SUFFICES ASSUME Reads(c, r) PROVE Vouched(c, r)
  BY DEF Vouched
<1> PICK h : h = History(r)
  OBVIOUS
<1>1. HistoryInv(r, h) /\ text[r] # 0 /\ r \in Visible /\ ~h.deleted /\ Supported(h) /\ h.hash \in {0, text[r]}
  BY HistoryTyped DEF Reads, RevisionMatches, SemanticHash
<1>2. \/ <<r, text[r]>> \in approved
      \/ maker[text[r]] = "author"
      \/ records[r] = {} /\ (maker[text[r]] \in {"legacy", "import"} \/ r \in lost)
      \/ \E p \in h.policy : p.owner = maker[text[r]]
  <2>1. CASE h.policy # {}
    BY <1>1, <2>1 DEF HistoryInv, OpenText
  <2>2. CASE h.policy = {}
    <3>1. records[r] = {} /\ RecordInv(r)
      BY <2>2 DEF Reads, PoliciesInv
    <3> QED BY <1>1, <3>1 DEF RecordInv
  <2> QED BY <2>1, <2>2
<1>3. ASSUME rests[text[r]] # {}, r \notin lost, (rests[text[r]] \cup former[r]) \subseteq Revoked PROVE FALSE
  <2>1. rests[text[r]] \subseteq h.evidence \cup {Foreign} /\ (h.exact => h.evidence \subseteq rests[text[r]] \cup former[r])
    BY <1>1, <1>3 DEF HistoryInv, RestsOn
  <2>2. Foreign \notin Revoked
    BY DEF PoliciesAssumption, Revoked
  <2>3. rests[text[r]] \subseteq h.evidence
    BY <1>3, <2>1, <2>2
  <2>4. h.exact /\ ~(h.evidence \subseteq Revoked)
    BY <1>1, <1>3, <2>3 DEF Supported
  <2> QED BY <1>3, <2>1, <2>4
<1> QED BY <1>2, <1>3 DEF Vouched

LEMMA OpenIsKept ==
  ASSUME PoliciesInv, NEW c \in Conversations, NEW r \in Records
  PROVE  Kept(c, r)
<1> PICK h : h = History(r)
  OBVIOUS
<1>1. HistoryInv(r, h) /\ IsHistory(h)
  BY HistoryTyped
<1> SUFFICES ASSUME text[r] # 0, r \in Visible, Bound[r] \subseteq {c}, maker[text[r]] \in Characters \cup {"author"},
                    ~h.deleted, \E p \in h.policy : Permits(p, Identity(c)), h.evidence \cap Revoked = {}
             PROVE  Reads(c, r)
  BY DEF Kept
<1>2. h.policy # {} /\ \A p \in h.policy : Permits(p, Identity(c))
  <2>1. PICK p \in h.policy : Permits(p, Identity(c))
    OBVIOUS
  <2>2. h.policy = {p}
    BY <1>1 DEF IsHistory
  <2> QED BY <2>1, <2>2
<1>3. Supported(h)
  BY DEF Supported
<1>4. h.hash \in {0, text[r]}
  BY <1>1 DEF HistoryInv
<1> QED BY <1>2, <1>3, <1>4 DEF Reads, RevisionMatches, SemanticHash

(* The ledger and its histories of what the texts rest on agree.           *)
THEOREM LedgerInvariant ==
  ASSUME PoliciesAssumption
  PROVE  RecordsInit /\ [][RecordsNext]_recordVars => []PoliciesInv
<1>1. RecordsInit => PoliciesInv
  BY RecordsInitHolds
<1>2. PoliciesInv /\ [RecordsNext]_recordVars => PoliciesInv'
  BY RecordsStep
<1> QED BY <1>1, <1>2, PTL

(* What a conversation reads was written in the open, and goes on being    *)
(* readable for those its policy names while its evidence stands.          *)
THEOREM ReadsAreVouched ==
  ASSUME PoliciesAssumption
  PROVE  RecordsInit /\ [][RecordsNext]_recordVars => []RecordsHold
<1>1. PoliciesInv => RecordsHold
  BY ReadIsVouched, OpenIsKept DEF RecordsHold
<1> QED BY <1>1, LedgerInvariant, PTL
=============================================================================
