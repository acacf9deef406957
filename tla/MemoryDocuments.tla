-------------------------- MODULE MemoryDocuments --------------------------
(***************************************************************************)
(* The long-term documents of one Space and what becomes of them: patches  *)
(* and manual edits write them, completed turns of the conversations age   *)
(* them by their own clocks, the unused ones fade into the archive, and    *)
(* what is unimportant and forgotten there leaves a tombstone.  One worker *)
(* runs every operation alone (SpaceWorker); a turn is planned and applied *)
(* as one commit (MemoryCommits).                                          *)
(***************************************************************************)
EXTENDS Integers, FiniteSets

CONSTANTS
  Ids, Contexts,         \* documents; conversations with a character
  Importance,            \* "core" documents do not age, "low" ones can be forgotten
  Bound,                 \* the only context that may read a document, {} for any
  Full, Archive, ForgetBelow, \* a weight counted in decays; below Archive, below ForgetBelow
  DecayAfter, ForgetAfter,
  MaxTurns, MaxWrites

ASSUME DocumentsAssumption ==
  /\ Importance \in [Ids -> {"low", "some", "core"}]
  /\ Bound \in [Ids -> SUBSET Contexts] /\ \A id \in Ids : Cardinality(Bound[id]) <= 1
  /\ {DecayAfter, ForgetAfter, ForgetBelow} \subseteq Nat \ {0} /\ ForgetBelow < Archive /\ Archive <= Full
  /\ {Full, Archive, MaxTurns, MaxWrites} \subseteq Nat

VARIABLES
  docs,     \* {} or the document of an identity: where it is, its weight, what it refers to
  scenes,   \* what the current scene of each context refers to
  turns,    \* the activity ledger: completed turns of each context
  clocks,   \*   for each document its clocks in the contexts enrolled with it
  known,    \*   and its fingerprint, what the last turn that looked at it left of it
  tombs,    \* tombstones
  cooled,   \* history: turns of each user of a document since its hit or the last decay
  shelved,  \* history: turns of each user with the document in the archive, since a turn that looked found it elsewhere
  writes

ledger == <<turns, clocks, known>>
history == <<cooled, shelved>>
documentVars == <<docs, scenes, ledger, tombs, history, writes>>

None == -1
Unknown == [c \in Contexts |-> {}]
Filed(id) == docs[id] # {}
Doc(id) == CHOOSE d \in docs[id] : TRUE
Archived(id) == \E d \in docs[id] : d.place = "archive"

DocumentsInit ==
  /\ docs = [id \in Ids |-> {}] /\ scenes = [c \in Contexts |-> {}]
  /\ turns = [c \in Contexts |-> 0] /\ clocks = [id \in Ids |-> Unknown]
  /\ known = [id \in Ids |-> {}] /\ tombs = {} /\ writes = 0
  /\ cooled = [id \in Ids |-> Unknown] /\ shelved = [id \in Ids |-> Unknown]
----------------------------------------------------------------------------
(* What is referred to by any document, the archived ones included, or by  *)
(* the scene of any context does not age.                                  *)
References ==
  (UNION {d.refs : d \in UNION {docs[id] : id \in Ids}}) \cup (UNION {scenes[c] : c \in Contexts})

(* A turn of c looks at a document that ages and that c may read. *)
Aging(c, id) == Filed(id) /\ Importance[id] # "core" /\ Bound[id] \subseteq {c}

(* A query or the scene of the context itself hits a document; who only    *)
(* mentions an archived one does not bring it back.                        *)
Hit(c, query, id) == ~Archived(id) /\ id \in query \cup scenes[c]

At(now, id, k) == [hit |-> now[k], decay |-> now[k], archived |-> IF Archived(id) THEN now[k] ELSE None]

(* The clocks of a document after the turn began: all of them start again  *)
(* when the document is not what its fingerprint says, a context enrolls by a hit or by   *)
(* its binding, and a hit starts its own clock again.                      *)
Clocks(c, query, now, id) ==
  LET reset == [k \in Contexts |-> IF known[id] = docs[id] THEN clocks[id][k] ELSE {At(now, id, k) : x \in clocks[id][k]}]
      own == IF Hit(c, query, id) \/ (reset[c] = {} /\ c \in Bound[id]) THEN {At(now, id, c)}
             ELSE {[x EXCEPT !.archived = IF ~Archived(id) THEN None ELSE IF @ = None THEN now[c] ELSE @] : x \in reset[c]}
  IN [reset EXCEPT ![c] = own]

(* Activity of one context does not spend the retention of another: every  *)
(* enrolled context must have gone on for long enough.                     *)
EveryContext(set, Elapsed(_, _)) == \A k \in Contexts : \A x \in set[k] : Elapsed(k, x)

(* Mutant of Decays: the turns of the context at hand are enough. *)
DecaysForOne(c, now, set, id) ==
  id \notin References /\ \A x \in set[c] : now[c] - x.hit >= DecayAfter /\ now[c] - x.decay >= DecayAfter

Decays(c, now, set, id) ==
  /\ id \notin References
  /\ EveryContext(set, LAMBDA k, x : now[k] - x.hit >= DecayAfter /\ now[k] - x.decay >= DecayAfter)

(* Mutant of Forgets: a reference protects against decay only. *)
ForgetsReferenced(now, set, id, weight) ==
  /\ Archived(id) /\ Importance[id] = "low" /\ weight < ForgetBelow
  /\ EveryContext(set, LAMBDA k, x : x.archived # None /\ now[k] - x.archived >= ForgetAfter)

Forgets(now, set, id, weight) ==
  /\ Archived(id) /\ id \notin References /\ Importance[id] = "low" /\ weight < ForgetBelow
  /\ EveryContext(set, LAMBDA k, x : x.archived # None /\ now[k] - x.archived >= ForgetAfter)

(* What a turn makes of one document and its clocks. *)
Aged(c, query, now, id) ==
  LET set == Clocks(c, query, now, id)
      decays == Decays(c, now, set, id)
      weight == IF decays /\ Doc(id).weight > 0 THEN Doc(id).weight - 1 ELSE Doc(id).weight
      archives == ~Archived(id) /\ decays /\ weight < Archive
      after == [k \in Contexts |-> {[x EXCEPT !.decay = IF decays THEN now[k] ELSE @,
                                              !.archived = IF archives THEN now[k] ELSE @] : x \in set[k]}]
  IN IF set[c] = {} THEN [doc |-> docs[id], clocks |-> set, decays |-> FALSE, forgets |-> FALSE]
     ELSE IF Forgets(now, set, id, weight) THEN [doc |-> {}, clocks |-> Unknown, decays |-> decays, forgets |-> TRUE]
     ELSE [doc |-> {[Doc(id) EXCEPT !.weight = weight, !.place = IF archives THEN "archive" ELSE @]},
           clocks |-> after, decays |-> decays, forgets |-> FALSE]
(* The turns of the users of a document, those that hit it or own it. *)
Passed(past, c, uses, restart, cap) ==
  [k \in Contexts |->
     IF k = c /\ uses /\ past[k] = {} THEN {0}
     ELSE {IF restart THEN 0 ELSE IF k = c /\ n < cap THEN n + 1 ELSE n : n \in past[k]}]

(* A completed turn of c, planned and applied as one commit: every clock   *)
(* and every weight, from the references and the places before the turn.   *)
(* What no document stands for any more leaves the ledger.                 *)
Turn(c, query) ==
  LET now == [turns EXCEPT ![c] = @ + 1]
      looked == {id \in Ids : Aging(c, id)}
      aged == [id \in looked |-> Aged(c, query, now, id)]
  IN /\ turns[c] < MaxTurns /\ turns' = now
     /\ docs' = [id \in Ids |-> IF id \in looked THEN aged[id].doc ELSE docs[id]]
     /\ clocks' = [id \in Ids |-> IF id \in looked THEN aged[id].clocks ELSE IF Filed(id) THEN clocks[id] ELSE Unknown]
     /\ known' = [id \in Ids |-> IF id \in looked THEN aged[id].doc ELSE IF Filed(id) THEN known[id] ELSE {}]
     /\ tombs' = tombs \cup {id \in looked : aged[id].forgets}
     /\ cooled' = [id \in Ids |->
          IF docs'[id] = {} THEN Unknown
          ELSE LET hit == id \in looked /\ Hit(c, query, id)
                   passed == Passed(cooled[id], c, hit \/ (id \in looked /\ c \in Bound[id]), id \in looked /\ aged[id].decays, DecayAfter)
               IN IF hit THEN [passed EXCEPT ![c] = {0}] ELSE passed]
     /\ shelved' = [id \in Ids |->
          IF docs'[id] = {} THEN Unknown
          ELSE IF id \in looked /\ ~Archived(id) THEN [k \in Contexts |-> {0 : n \in cooled'[id][k]}]
          ELSE Passed(shelved[id], c, cooled'[id][c] # {}, FALSE, ForgetAfter)]
     /\ UNCHANGED <<scenes, writes>>

Write == writes < MaxWrites /\ writes' = writes + 1

(* A patch or a manual edit creates a document; an identity the index has  *)
(* is refused, a tombstone is not looked at.                               *)
CreateDocument(id, refs) ==
  /\ Write /\ ~Filed(id)
  /\ docs' = [docs EXCEPT ![id] = {[place |-> "active", weight |-> Full, refs |-> refs]}]
  /\ UNCHANGED <<scenes, ledger, tombs, history>>

(* A patch or a manual edit of the body; place and weight stay. *)
Edit(id, refs) ==
  /\ Write /\ Filed(id) /\ refs # Doc(id).refs
  /\ docs' = [docs EXCEPT ![id] = {[Doc(id) EXCEPT !.refs = refs]}]
  /\ UNCHANGED <<scenes, ledger, tombs, history>>

(* The scene of a conversation is rewritten by its own patches. *)
Scene(c, refs) ==
  /\ Write /\ refs # scenes[c] /\ scenes' = [scenes EXCEPT ![c] = refs]
  /\ UNCHANGED <<docs, ledger, tombs, history>>

(* archive_memory_document: marked and weakened by a patch, then moved. *)
ArchiveByHand(id) ==
  /\ Write /\ Filed(id) /\ ~Archived(id)
  /\ docs' = [docs EXCEPT ![id] = {[Doc(id) EXCEPT !.place = "archive", !.weight = Archive - 1]}]
  /\ UNCHANGED <<scenes, ledger, tombs, history>>

RestoreDocument(id) ==
  /\ Write /\ Archived(id)
  /\ docs' = [docs EXCEPT ![id] = {[Doc(id) EXCEPT !.place = "active"]}]
  /\ UNCHANGED <<scenes, ledger, tombs, history>>

(* An explicit deletion leaves no tombstone. *)
DeleteDocument(id) ==
  /\ Write /\ Filed(id) /\ docs' = [docs EXCEPT ![id] = {}]
  /\ UNCHANGED <<scenes, ledger, tombs, history>>

DocumentsNext ==
  \/ \E c \in Contexts, query \in SUBSET Ids : Turn(c, query)
  \/ \E id \in Ids, refs \in SUBSET Ids : CreateDocument(id, refs) \/ Edit(id, refs)
  \/ \E c \in Contexts, refs \in SUBSET Ids : Scene(c, refs)
  \/ \E id \in Ids : ArchiveByHand(id) \/ RestoreDocument(id) \/ DeleteDocument(id)

DocumentsSpec == DocumentsInit /\ [][DocumentsNext]_documentVars
----------------------------------------------------------------------------
TurnOf(c) == turns'[c] = turns[c] + 1

(* Retention is spent by its owner only: a turn weakens a document when    *)
(* every conversation that ever used it went on for DecayAfter turns since *)
(* its own last use and the last decay, however many turns the others had. *)
SharedRetention ==
  [][\A id \in Ids, c \in Contexts : \A d \in docs[id], e \in docs'[id] :
       TurnOf(c) /\ e.weight < d.weight =>
         \A k \in Contexts : \A n \in cooled[id][k] : (IF k = c THEN n + 1 ELSE n) >= DecayAfter]_documentVars

(* What is forgotten was in the archive for ForgetAfter turns of every     *)
(* conversation that used it, and no document and no scene loses a target: *)
(* a turn leaves no reference to what it forgets.                          *)
ForgottenUnreferenced ==
  [][\A id \in Ids, c \in Contexts : TurnOf(c) /\ Filed(id) /\ docs'[id] = {} =>
       /\ id \in tombs' /\ id \notin References'
       /\ \A k \in Contexts : \A n \in shelved[id][k] : (IF k = c THEN n + 1 ELSE n) >= ForgetAfter]_documentVars

(* The identity of a forgotten memory is not given to a new one. *)
NoReuse == [][\A id \in tombs : docs[id] = {} => docs'[id] = {}]_documentVars
=============================================================================
