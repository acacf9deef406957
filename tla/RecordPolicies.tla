--------------------------- MODULE RecordPolicies ---------------------------
(***************************************************************************)
(* Who may read a record of a Space, and on whose evidence it rests.  A    *)
(* ledger beside the files keeps, for each record, the policy the local    *)
(* author granted or maintenance began with, the evidence its revisions    *)
(* used, and the hash of the text that was last written in the open.       *)
(* Maintenance writes as the identity of a completed turn, the author      *)
(* without one; an import changes files and ledger beside both.  A file    *)
(* is known by the number of the write that made its text.                 *)
(***************************************************************************)
EXTENDS Integers, FiniteSets

CONSTANTS
  Records,
  Candidates,      \* records that only wait for an approval
  Conversations, Character,   \* whom each conversation is with
  Continuities,
  Turns, Place,    \* what is evidence, and the conversation it comes from
  Completed,       \* the turns completed before
  Bound,           \* the only conversation a document names itself, {} for none
  Legacy,          \* records that are older than the ledger
  Foreign,         \* the evidence an imported history names
  Containers,      \* what a container may hold: files, the records it lists, their owner
  Grants,          \* what a policy may say: owner, readers, continuities
  MaxTexts, MaxTouches

VARIABLES
  text,       \* the text of each record, 0 without a file
  touched,    \* whether its retrieval stamps have changed since it was written
  records,    \* the ledger: {} or the history of each record
  binding,    \* the continuity each conversation belongs to
  captured,   \* completed turns, each with the identity it was captured under
  revoked,    \* conversations whose evidence is revoked
  texts,      \* counts the texts
  maker,      \* history: who made each text: a character, or one of Makers
  rests,      \* history: the evidence that a text really rests on
  former,     \* history: evidence of replaced texts, of an imported past, or of those of what was read
  approved,   \* history: the texts that were there when their record was granted
  lost        \* history: texts whose history an import dropped, and what was made from them

history == <<maker, rests, former, approved, lost>>
recordVars == <<text, touched, records, binding, captured, revoked, texts, history>>

Makers == {"author", "import", "legacy"}
Characters == {Character[c] : c \in Conversations}
Visible == Records \ Candidates

Identity(c) == [character |-> Character[c], conversation |-> c, continuity |-> binding[c]]
Blank == [policy |-> {}, hash |-> 0, evidence |-> {}, exact |-> FALSE, deleted |-> FALSE]
History(r) == IF records[r] = {} THEN Blank ELSE CHOOSE h \in records[r] : TRUE

(* Who makes a text is told apart, what a container lists is a record, and *)
(* foreign evidence is no turn of this Space.                              *)
PoliciesAssumption ==
  /\ MaxTexts \in Nat \ {0} /\ Characters \cap Makers = {} /\ Foreign \notin Turns
  /\ \A container \in Containers : container.files \cup container.listed \subseteq Records

RecordsInit ==
  /\ text = [r \in Records |-> IF r \in Legacy THEN 1 ELSE 0] /\ texts = 1
  /\ touched = [r \in Records |-> FALSE] /\ records = [r \in Records |-> {}]
  /\ binding \in [Conversations -> Continuities]
  /\ captured = [e \in Turns |-> IF e \in Completed THEN {Identity(Place[e])} ELSE {}] /\ revoked = {}
  /\ maker = [t \in 1..MaxTexts |-> "legacy"] /\ rests = [t \in 1..MaxTexts |-> {}]
  /\ former = [r \in Records |-> {}] /\ approved = {} /\ lost = {}
----------------------------------------------------------------------------
(* A policy is for its owner and its readers, in the continuities it names *)
(* or, if it names none, in all.                                           *)
Permits(policy, who) ==
  /\ who.character \in policy.readers \cup {policy.owner}
  /\ policy.continuities = {} \/ who.continuity \in policy.continuities

(* The hash of a text leaves the stamps of its retrieval out. *)
SemanticHash(r) == text[r]

(* Revoked is a conversation, its later turns included. *)
Revoked == {e \in Turns : Place[e] \in revoked}

(* Mutant of Supported: what is revoked in part is still read. *)
SupportedInPart(h) == h.evidence = {} \/ ~(h.evidence \subseteq Revoked)

(* Evidence that is revoked in part leaves a record only if each of its    *)
(* revisions named what it used; what cannot be found here is not revoked. *)
Supported(h) ==
  h.evidence \cap Revoked # {} => h.exact /\ ~(h.evidence \subseteq Revoked)

(* An empty hash was never pinned. *)
RevisionMatches(r) == History(r).hash \in {0, SemanticHash(r)}

(* A record that retrieval found for conversation c.  Without a policy     *)
(* only a document without any history that names c itself.                *)
Reads(c, r) ==
  /\ text[r] # 0 /\ r \in Visible /\ Bound[r] \subseteq {c}
  /\ IF History(r).policy # {}
       THEN \A p \in History(r).policy : Permits(p, Identity(c))
       ELSE records[r] = {} /\ Bound[r] = {c}
  /\ ~History(r).deleted /\ Supported(History(r)) /\ RevisionMatches(r)
----------------------------------------------------------------------------
(* Mutant of Inherited: evidence of what was read is not taken over. *)
InheritedNothing(parents) == {}

Inherited(parents) == UNION {History(p).evidence : p \in parents}

(* Maintenance may begin a record; one with a file or a past it changes    *)
(* only as its owner, where the policy lets the owner be.                  *)
Owned(who, r) ==
  \/ r \in Candidates
  \/ text[r] = 0 /\ records[r] = {}
  \/ \E p \in History(r).policy : p.owner = who.character /\ Permits(p, who)

(* What one revision makes of the history of a record: `as` is the         *)
(* identity of a maintenance or {}, `selected` says that the patch named   *)
(* its evidence.                                                           *)
Revision(r, hash, as, used, selected, parents) ==
  LET h == History(r) IN
  [policy |-> IF h.policy # {} THEN h.policy
              ELSE {[revision |-> 1, owner |-> who.character, readers |-> {}, continuities |-> {who.continuity}] : who \in as},
   hash |-> hash, deleted |-> hash = 0,
   evidence |-> h.evidence \cup used \cup Inherited(parents),
   exact |-> /\ selected /\ \A p \in parents : records[p] # {} => History(p).exact
             /\ records[r] # {} => h.exact]

(* The text of r is made anew.  A text that extends the one before rests   *)
(* on all of it; if its evidence is not named, on any part of what was at  *)
(* hand.                                                                   *)
Write(r, by, as, used, selected, extends, parents) ==
  LET t == texts + 1
      before == IF extends /\ text[r] # 0 THEN rests[text[r]] ELSE {}
      given == UNION {rests[text[p]] : p \in {q \in parents : text[q] # 0}}
      all == before \cup given \cup used
  IN
  /\ texts < MaxTexts /\ texts' = t /\ text' = [text EXCEPT ![r] = t]
  /\ touched' = [touched EXCEPT ![r] = FALSE]
  /\ records' = [records EXCEPT ![r] = {Revision(r, t, as, used, selected, parents)}]
  /\ maker' = [maker EXCEPT ![t] = by]
  /\ \E some \in IF selected THEN {all} ELSE {s \in SUBSET all : as # {} => s # {}} : rests' = [rests EXCEPT ![t] = some]
  /\ former' = [former EXCEPT ![r] = @ \cup ((IF text[r] = 0 THEN {} ELSE rests[text[r]]) \ before)
                                      \cup UNION {former[p] : p \in parents}]
  /\ lost' = IF parents \cap lost = {} THEN lost ELSE lost \cup {r}
  /\ UNCHANGED <<binding, captured, revoked, approved>>

Delete(r, as, used, selected, parents) ==
  /\ text[r] # 0
  /\ text' = [text EXCEPT ![r] = 0] /\ touched' = [touched EXCEPT ![r] = FALSE]
  /\ records' = [records EXCEPT ![r] = {Revision(r, 0, as, used, selected, parents)}]
  /\ former' = [former EXCEPT ![r] = @ \cup rests[text[r]] \cup used \cup Inherited(parents)]
  /\ UNCHANGED <<binding, captured, revoked, texts, maker, rests, approved, lost>>

(* A turn is completed; what is captured with it stays as it was then. *)
Capture(e) ==
  /\ captured[e] = {} /\ captured' = [captured EXCEPT ![e] = {Identity(Place[e])}]
  /\ UNCHANGED <<text, touched, records, binding, revoked, texts, history>>

(* Maintenance of turn e, which saw the records its identity may read. *)
Seen(e) == {r \in Visible : Reads(Place[e], r)}

Maintain(e, r, selected, extends) ==
  \E who \in captured[e] :
    /\ Place[e] \notin revoked /\ Owned(who, r)
    /\ Write(r, who.character, {who}, {e}, selected, extends, Seen(e))

Remove(e, r, selected) ==
  \E who \in captured[e] : Place[e] \notin revoked /\ Owned(who, r) /\ Delete(r, {who}, {e}, selected, Seen(e))

(* The author writes and deletes as nobody; lifecycle moves do the same. *)
Edit(r, extends) == r \in Visible /\ Write(r, "author", {}, {}, FALSE, extends, {})
Erase(r) == Delete(r, {}, {}, FALSE, {})

(* To move a file is to write it and to delete the other one: the same     *)
(* text, one revision more.                                                *)
Move(r) ==
  /\ text[r] # 0 /\ r \in Visible
  /\ records' = [records EXCEPT ![r] = {Revision(r, SemanticHash(r), {}, {}, FALSE, {})}]
  /\ approved' = approved \cup {<<r, text[r]>>}
  /\ UNCHANGED <<text, touched, binding, captured, revoked, texts, maker, rests, former, lost>>

(* A candidate is approved: its text goes into a node, which inherits its  *)
(* evidence, and its file goes.                                            *)
Approve(p, r) ==
  LET t == texts + 1
      before == IF text[r] = 0 THEN {} ELSE rests[text[r]] IN
  /\ p \in Candidates /\ text[p] # 0 /\ r \in Visible /\ text[r] # 0 /\ texts < MaxTexts
  /\ texts' = t /\ text' = [text EXCEPT ![r] = t, ![p] = 0] /\ touched' = [touched EXCEPT ![r] = FALSE]
  /\ records' = [records EXCEPT ![r] = {Revision(r, t, {}, {}, FALSE, {p})},
                                ![p] = {Revision(p, 0, {}, {}, FALSE, {p})}]
  /\ maker' = [maker EXCEPT ![t] = "author"]
  /\ rests' = [rests EXCEPT ![t] = before \cup rests[text[p]]]
  /\ lost' = IF p \in lost THEN lost \cup {r} ELSE lost
  /\ UNCHANGED <<binding, captured, revoked, former, approved>>

(* A retrieval changes only the stamps, which no revision records. *)
Touch(r) ==
  /\ text[r] # 0 /\ r \in Visible /\ ~touched[r]
  /\ Cardinality({s \in Records : touched[s]}) < MaxTouches
  /\ touched' = [touched EXCEPT ![r] = TRUE]
  /\ UNCHANGED <<text, records, binding, captured, revoked, texts, history>>

(* The policy of the next revision; a text nobody had recorded is pinned. *)
Granted(r, policy) ==
  LET h == History(r)
      next == IF h.policy = {} THEN 1 ELSE 1 + (CHOOSE p \in h.policy : TRUE).revision IN
  [h EXCEPT !.hash = IF @ = 0 THEN SemanticHash(r) ELSE @,
            !.policy = {[revision |-> next, owner |-> policy.owner, readers |-> policy.readers,
                         continuities |-> policy.continuities]}]

(* The author grants a record. *)
Grant(r, policy) ==
  /\ text[r] # 0 /\ r \in Visible /\ \A p \in History(r).policy : p.revision < 2
  /\ records' = [records EXCEPT ![r] = {Granted(r, policy)}]
  /\ approved' = approved \cup {<<r, text[r]>>}
  /\ UNCHANGED <<text, touched, binding, captured, revoked, texts, maker, rests, former, lost>>

(* A record as a container describes it, with the policy it had where it  *)
(* comes from.                                                             *)
Described(t, owner) ==
  [hash |-> t, evidence |-> {Foreign}, exact |-> TRUE, deleted |-> t = 0,
   policy |-> {[revision |-> 1, owner |-> owner, readers |-> {}, continuities |-> {}]}]

(* Mutant of Imported: a history keeps the policy it came with. *)
ImportedTrusted(h) == h

(* Its history goes on here without the policy. *)
Imported(h) == [h EXCEPT !.policy = {}]

(* A container with the files of some records and a ledger of some: the    *)
(* files that exist are kept or replaced one by one, and the ledger is one *)
(* of them.                                                                *)
Import(files, listed, owner, replace) ==
  LET t == texts + 1
      taken == {r \in files : replace \/ text[r] = 0}
      ledger == listed # {} /\ (replace \/ \A r \in Records : records[r] = {}) IN
  /\ files \cup listed # {} /\ texts < MaxTexts /\ texts' = t
  /\ text' = [r \in Records |-> IF r \in taken THEN t ELSE text[r]]
  /\ touched' = [r \in Records |-> r \notin taken /\ touched[r]]
  /\ records' = IF ledger
                  THEN [r \in Records |-> IF r \in listed THEN {Imported(Described(IF r \in files THEN t ELSE 0, owner))} ELSE {}]
                  ELSE records
  /\ maker' = [maker EXCEPT ![t] = "import"]
  /\ lost' = lost \cup {r \in Records \ taken : ledger /\ records[r] # {}}
  /\ rests' = [rests EXCEPT ![t] = {Foreign}]
  /\ former' = [r \in Records |-> former[r] \cup (IF r \in taken /\ text[r] # 0 THEN rests[text[r]] ELSE {})
                                              \cup (IF ledger /\ r \in listed THEN {Foreign} ELSE {})]
  /\ UNCHANGED <<binding, captured, revoked, approved>>

(* The evidence of a conversation is revoked, its pending turns with it. *)
Revoke(c) ==
  /\ c \notin revoked /\ revoked' = revoked \cup {c}
  /\ UNCHANGED <<text, touched, records, binding, captured, texts, history>>

(* A conversation is bound to another continuity. *)
Bind(c, continuity) ==
  /\ binding[c] # continuity /\ binding' = [binding EXCEPT ![c] = continuity]
  /\ UNCHANGED <<text, touched, records, captured, revoked, texts, history>>

RecordsNext ==
  \/ \E e \in Turns : Capture(e)
  \/ \E e \in Turns, r \in Records, selected, extends \in BOOLEAN : Maintain(e, r, selected, extends)
  \/ \E e \in Turns, r \in Records, selected \in BOOLEAN : Remove(e, r, selected)
  \/ \E r \in Records, extends \in BOOLEAN : Edit(r, extends)
  \/ \E r \in Records : Erase(r)
  \/ \E r \in Records : Move(r)
  \/ \E p, r \in Records : Approve(p, r)
  \/ \E r \in Records : Touch(r)
  \/ \E r \in Records, policy \in Grants : Grant(r, policy)
  \/ \E container \in Containers, replace \in BOOLEAN : Import(container.files, container.listed, container.owner, replace)
  \/ \E c \in Conversations : Revoke(c)
  \/ \E c \in Conversations, continuity \in Continuities : Bind(c, continuity)
----------------------------------------------------------------------------
(* What a conversation reads was written in the open: by maintenance of    *)
(* the owner, by the author, or it was there when the author granted the   *)
(* record; only a document without history may vouch for itself.  Nothing  *)
(* is read once all the evidence it rests on is revoked, unless evidence   *)
(* of an older text of the record still stands.                            *)
Vouched(c, r) ==
  Reads(c, r) =>
    LET t == text[r] IN
    /\ \/ <<r, t>> \in approved
       \/ maker[t] = "author"
       \/ records[r] = {} /\ (maker[t] \in {"legacy", "import"} \/ r \in lost)
       \/ \E p \in History(r).policy : p.owner = maker[t]
    /\ rests[t] # {} /\ r \notin lost => ~((rests[t] \cup former[r]) \subseteq Revoked)

(* What was written in the open stays readable for those its policy names, *)
(* while none of its evidence is revoked.                                  *)
Kept(c, r) ==
  (/\ text[r] # 0 /\ r \in Visible /\ Bound[r] \subseteq {c}
   /\ maker[text[r]] \in Characters \cup {"author"}
   /\ ~History(r).deleted /\ \E p \in History(r).policy : Permits(p, Identity(c))
   /\ History(r).evidence \cap Revoked = {}) => Reads(c, r)

RecordsHold == \A c \in Conversations, r \in Records : Vouched(c, r) /\ Kept(c, r)
=============================================================================
