---------------------------- MODULE LocalRecords ----------------------------
(***************************************************************************)
(* The tables of characters, conversations and messages with the           *)
(* tombstones of what was deleted, and the handlers of the local API that  *)
(* read in one statement and write in a later one.  The handlers hold      *)
(* neither a lock nor a reservation, so they interleave.                   *)
(***************************************************************************)
EXTENDS Integers, FiniteSets

CONSTANTS
  Cards, Chats, Messages,  \* the identities of characters, conversations and messages
  Of,              \* the conversation of each message
  Old,             \* the messages an installation in use has
  Spaces, Home,    \* the Spaces that own records, and where clients create them
  Texts, First,    \* what a card, a title or a message may say, and says at first
  Clients, MaxCalls

Objects == Cards \cup Chats \cup Messages

ASSUME RecordsAssumption ==
  /\ Of \in [Messages -> Chats] /\ Old \subseteq Messages /\ Home \in Spaces /\ First \in Texts /\ MaxCalls \in Nat
  /\ Cards \cap Chats = {} /\ Messages \cap (Cards \cup Chats) = {}

VARIABLES
  db,     \* the tables: {} or {row} for each identity; and the tombstones
  call,   \* the handler each client is in
  fate,   \* history: messages "unused", "kept", "dropped" on purpose, or "exposed" to a race
  calls

Idle == [op |-> "idle"]
Only(S) == CHOOSE x \in S : TRUE

MessagesOf(v) == {m \in Messages : Of[m] = v}

Empty == [characters |-> [c \in Cards |-> {}], conversations |-> [v \in Chats |-> {}],
          messages |-> [m \in Messages |-> {}], tombstones |-> [o \in Objects |-> {}]]

(* An installation with nothing, or one where everybody talks to the       *)
(* one character there is.                                                 *)
InUse(S) ==
  [Empty EXCEPT
     !.characters = [c \in Cards |-> IF c \in S THEN {[space |-> Home, text |-> First]} ELSE {}],
     !.conversations = [v \in Chats |->
       {[space |-> Home, character |-> {c}, title |-> First, archived |-> FALSE] : c \in S}],
     !.messages = [m \in Messages |-> {[text |-> First, context |-> TRUE] : c \in IF m \in Old THEN S ELSE {}}]]

RecordsInit ==
  /\ \E S \in {{}} \cup {{c} : c \in Cards} : db = InUse(S)
  /\ call = [p \in Clients |-> Idle] /\ calls = 0
  /\ fate = [m \in Messages |-> IF db.messages[m] = {} THEN "unused" ELSE "kept"]
----------------------------------------------------------------------------
Exists(d, o) ==
  CASE o \in Cards -> d.characters[o] # {}
    [] o \in Chats -> d.conversations[o] # {}
    [] OTHER -> d.messages[o] # {}

Tombstoned(d, o) == d.tombstones[o] # {}

Links(d, c) == {v \in Chats : \E row \in d.conversations[v] : row.character = {c}}

(* The payload of a tombstone: the row with what goes or loosens with it. *)
Snapshot(d, o) ==
  CASE o \in Cards -> {[row |-> x, links |-> Links(d, o)] : x \in d.characters[o]}
    [] o \in Chats ->
         {[row |-> x, messages |-> [m \in MessagesOf(o) |-> d.messages[m]]] : x \in d.conversations[o]}
    [] OTHER -> {[row |-> x] : x \in d.messages[o]}

(* Foreign keys: messages go with their conversation, conversations lose   *)
(* their character.                                                        *)
Without(d, o) ==
  CASE o \in Cards ->
         [d EXCEPT !.characters[o] = {},
                   !.conversations = [v \in Chats |-> {[x EXCEPT !.character = @ \ {o}] : x \in @[v]}]]
    [] o \in Chats ->
         [d EXCEPT !.conversations[o] = {}, !.messages = [m \in Messages |-> IF Of[m] = o THEN {} ELSE @[m]]]
    [] OTHER -> [d EXCEPT !.messages[o] = {}]

(* Mutant of Erased: a second deletion, of nothing, empties the payload. *)
ErasedTwice(d, o) ==
  [Without(d, o) EXCEPT !.tombstones[o] = {[payload |-> Snapshot(d, o), hidden |-> FALSE]}]

(* stage_delete: a row that is already gone leaves the payload there was. *)
Erased(d, o) ==
  LET old == UNION {t.payload : t \in d.tombstones[o]}
      new == Snapshot(d, o) IN
  [Without(d, o) EXCEPT !.tombstones[o] = {[payload |-> IF new = {} THEN old ELSE new, hidden |-> FALSE]}]

(* What a restore may not meet: another message under the same identity,   *)
(* and a parent that is gone.                                              *)
Restorable(d, o, saved) ==
  CASE o \in Cards -> TRUE
    [] o \in Chats ->
         /\ \A c \in saved.row.character : d.characters[c] # {}
         /\ \A m \in MessagesOf(o) : \A x \in saved.messages[m], y \in d.messages[m] : x.text = y.text
    [] OTHER -> d.conversations[Of[o]] # {} /\ \A y \in d.messages[o] : y.text = saved.row.text

(* The saved message, or the same one that is there, with the context of either. *)
PutBack(saved, there) == {[x EXCEPT !.context = @ \/ \E y \in there : y.context] : x \in saved}

Restored(d, o, saved) ==
  LET back == [d EXCEPT !.tombstones[o] = {}] IN
  CASE o \in Cards ->
         [back EXCEPT !.characters[o] = {saved.row},
                      !.conversations = [v \in Chats |->
                        {IF v \in saved.links /\ x.character = {} THEN [x EXCEPT !.character = {o}] ELSE x : x \in @[v]}]]
    [] o \in Chats ->
         [back EXCEPT !.conversations[o] = {saved.row},
                      !.messages = [m \in Messages |->
                        IF Of[m] = o /\ saved.messages[m] # {} THEN PutBack(saved.messages[m], @[m]) ELSE @[m]]]
    [] OTHER -> [back EXCEPT !.messages[o] = PutBack({saved.row}, @)]

(* A message is there, or comes back with a restore.  The payload of a     *)
(* conversation that is there again lasts only until it is deleted again.  *)
Recoverable(d, m) ==
  \/ d.messages[m] # {} \/ \E t \in d.tombstones[m] : t.payload # {}
  \/ /\ d.conversations[Of[m]] = {}
     /\ \E t \in d.tombstones[Of[m]] : \E saved \in t.payload : saved.messages[m] # {}

(* What nobody can bring back any more was dropped. *)
Drop == fate' = [m \in Messages |-> IF fate[m] = "kept" /\ ~Recoverable(db', m) THEN "dropped" ELSE fate[m]]

(* A conversation that is saved over the tombstone of a deletion since the *)
(* look for one: the next deletion replaces the payload.                   *)
Expose(v) ==
  fate' = [m \in Messages |->
    IF \E t \in db.tombstones[v] : \E saved \in t.payload : Of[m] = v /\ saved.messages[m] # {} THEN "exposed" ELSE fate[m]]
----------------------------------------------------------------------------
(* A handler's first statement finds what it is about; its later ones act. *)
Start(p, step) == call[p] = Idle /\ calls < MaxCalls /\ calls' = calls + 1 /\ call' = [call EXCEPT ![p] = step]
Continue(p, step) == call' = [call EXCEPT ![p] = step] /\ UNCHANGED calls
Return(p) == call' = [call EXCEPT ![p] = Idle] /\ UNCHANGED calls
Once == calls < MaxCalls /\ calls' = calls + 1

(* stage_character_card creates, stage_character_update changes.  Both     *)
(* save the whole card, after a look for its tombstone.                    *)
AskSaveCharacter(p, c, text) ==
  /\ Start(p, [op |-> "fence_character", on |-> c, with |-> [space |-> Home, text |-> text]])
  /\ \A card \in db.characters[c] : card.space = Home
  /\ UNCHANGED <<db, fate>>

FenceCharacter(p) ==
  /\ call[p].op = "fence_character"
  /\ IF Tombstoned(db, call[p].on) THEN Return(p) ELSE Continue(p, [call[p] EXCEPT !.op = "save_character"])
  /\ UNCHANGED <<db, fate>>

SaveCharacter(p) ==
  /\ call[p].op = "save_character" /\ Return(p)
  /\ db' = [db EXCEPT !.characters[call[p].on] = {call[p].with}] /\ UNCHANGED fate

AskCreate(p, v, c) ==
  /\ db.characters[c] # {} /\ Start(p, [op |-> "fence_conversation", on |-> v, with |-> c]) /\ UNCHANGED <<db, fate>>

FenceConversation(p) ==
  /\ call[p].op = "fence_conversation"
  /\ IF Tombstoned(db, call[p].on) THEN Return(p) ELSE Continue(p, [call[p] EXCEPT !.op = "create_conversation"])
  /\ UNCHANGED <<db, fate>>

(* create_conversation_with_opening, for a card without an opening: an     *)
(* identity that is taken keeps its history.                               *)
CreateConversation(p) ==
  /\ call[p].op = "create_conversation" /\ Return(p)
  /\ LET v == call[p].on IN
     IF db.conversations[v] = {} /\ db.characters[call[p].with] # {}
     THEN db' = [db EXCEPT !.conversations[v] =
                   {[space |-> Home, character |-> {call[p].with}, title |-> First, archived |-> FALSE]}] /\ Expose(v)
     ELSE UNCHANGED <<db, fate>>

AskSay(p, m) ==
  /\ m \notin Old /\ fate[m] = "unused" /\ db.conversations[Of[m]] # {}
  /\ ~\E q \in Clients : call[q] # Idle /\ call[q].op = "say" /\ call[q].on = m
  /\ Start(p, [op |-> "say", on |-> m]) /\ UNCHANGED <<db, fate>>

Say(p) ==
  /\ call[p].op = "say" /\ Return(p)
  /\ LET m == call[p].on IN
     IF db.conversations[Of[m]] # {}
     THEN db' = [db EXCEPT !.messages[m] = {[text |-> First, context |-> TRUE]}] /\ fate' = [fate EXCEPT ![m] = "kept"]
     ELSE UNCHANGED <<db, fate>>

EditMessage(m, text) ==
  /\ Once /\ db.messages[m] # {} /\ db' = [db EXCEPT !.messages[m] = {[x EXCEPT !.text = text] : x \in @}]
  /\ UNCHANGED <<call, fate>>

AskRename(p, v, text) ==
  /\ db.conversations[v] # {} /\ Start(p, [op |-> "rename", on |-> v, with |-> text]) /\ UNCHANGED <<db, fate>>

Rename(p) ==
  /\ call[p].op = "rename" /\ Return(p) /\ UNCHANGED fate
  /\ db' = [db EXCEPT !.conversations[call[p].on] = {[x EXCEPT !.title = call[p].with] : x \in @}]

SetArchived(v, archived) ==
  /\ Once /\ \E x \in db.conversations[v] : x.archived # archived
  /\ db' = [db EXCEPT !.conversations[v] = {[x EXCEPT !.archived = archived] : x \in @}] /\ UNCHANGED <<call, fate>>

AskDelete(p, o) == Exists(db, o) /\ Start(p, [op |-> "delete", on |-> o]) /\ UNCHANGED <<db, fate>>

DeleteObject(p) == call[p].op = "delete" /\ Return(p) /\ db' = Erased(db, call[p].on) /\ UNCHANGED fate

(* restore_recently_deleted reads the payload before its transaction. *)
AskRestore(p, o) ==
  /\ \E t \in db.tombstones[o] : \E saved \in t.payload : Start(p, [op |-> "restore", on |-> o, with |-> saved])
  /\ UNCHANGED <<db, fate>>

(* A payload that another deletion replaced meanwhile, or that somebody    *)
(* restored, is put back all the same, and the newer one is gone.          *)
Restore(p) ==
  /\ call[p].op = "restore" /\ Return(p)
  /\ LET o == call[p].on IN
     IF Restorable(db, o, call[p].with)
     THEN /\ db' = Restored(db, o, call[p].with)
          /\ IF \E t \in db.tombstones[o] : call[p].with \in t.payload THEN UNCHANGED fate ELSE Drop
     ELSE UNCHANGED <<db, fate>>

Purge(o) ==
  /\ Once /\ \E t \in db.tombstones[o] : ~t.hidden
  /\ db' = [db EXCEPT !.tombstones[o] = {[payload |-> {}, hidden |-> TRUE]}] /\ Drop /\ UNCHANGED call

Forget(o) ==
  /\ Once /\ \E t \in db.tombstones[o] : ~t.hidden
  /\ db' = [db EXCEPT !.tombstones[o] = {}] /\ Drop /\ UNCHANGED call

Handle(p) ==
  \/ \E c \in Cards, text \in Texts : AskSaveCharacter(p, c, text)
  \/ FenceCharacter(p) \/ SaveCharacter(p) \/ FenceConversation(p) \/ CreateConversation(p)
  \/ \E v \in Chats, c \in Cards : AskCreate(p, v, c)
  \/ \E m \in Messages : AskSay(p, m)
  \/ \E v \in Chats, text \in Texts : AskRename(p, v, text)
  \/ Say(p) \/ Rename(p) \/ DeleteObject(p) \/ Restore(p)
  \/ \E o \in Objects : AskDelete(p, o) \/ AskRestore(p, o)

Operate ==
  \/ \E p \in Clients : Handle(p)
  \/ \E m \in Messages, text \in Texts : EditMessage(m, text)
  \/ \E v \in Chats, archived \in BOOLEAN : SetArchived(v, archived)
  \/ \E o \in Objects : Purge(o) \/ Forget(o)
----------------------------------------------------------------------------
(* Whatever is deleted, restored, purged and forgotten by whom and in      *)
(* which order: a message that nobody purged is there, or in the payload   *)
(* of a tombstone.  A restore that puts back a replaced payload, and a     *)
(* conversation that is saved while it is deleted, are the exceptions.     *)
NothingUnrecoverable == \A m \in Messages : fate[m] = "kept" => Recoverable(db, m)

(* What the list of recently deleted items offers to restore can be        *)
(* restored, if nothing was saved anew under its identity.                 *)
OffersHold ==
  \A v \in Chats : \A t \in db.tombstones[v] : \A saved \in t.payload :
    \A c \in saved.row.character : db.characters[c] # {} \/ \E u \in db.tombstones[c] : u.payload # {}
=============================================================================
