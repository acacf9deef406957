--------------------------- MODULE PortableImport ---------------------------
(***************************************************************************)
(* The export of a Space to a portable container and the import of one,    *)
(* statement by statement, beside the clients of LocalRecords.  A job owns *)
(* its Spaces, which keeps the memory files still; the clients do not ask. *)
(***************************************************************************)
EXTENDS LocalRecords

CONSTANTS MaxJobs, MaxBreaks

VARIABLES
  profiles,  \* the disposition profile of each character: {} or {text}
  files,     \* the memory file of each Space: {} or {text}
  pack,      \* the container at hand
  job,       \* the export or import that runs
  jobs, breaks

portable == <<profiles, files, pack>>
portableVars == <<db, call, fate, calls, profiles, files, pack, job, jobs, breaks>>

Nothing == [characters |-> [c \in Cards |-> {}], conversations |-> [v \in Chats |-> {}],
            messages |-> [m \in Messages |-> {}], profiles |-> [c \in Cards |-> {}], files |-> {}]

(* A container that another installation exported. *)
Foreign(text) ==
  [characters |-> [c \in Cards |-> {[text |-> text]}],
   conversations |-> [v \in Chats |->
     {[character |-> {CHOOSE c \in Cards : TRUE}, title |-> text, archived |-> TRUE]}],
   messages |-> [m \in Messages |-> IF m \in Old THEN {[text |-> text, context |-> FALSE]} ELSE {}],
   profiles |-> [c \in Cards |-> {text}], files |-> {text}]

NoJob == [at |-> "none"]

PortableInit ==
  /\ RecordsInit /\ profiles = [c \in Cards |-> {}]
  /\ \E here \in {{}, {First}} : files = [s \in Spaces |-> IF s = Home THEN here ELSE {}]
  /\ \E text \in Texts \ {First} : pack = Foreign(text)
  /\ job = NoJob /\ jobs = 0 /\ breaks = 0
----------------------------------------------------------------------------
Present(table) == {o \in DOMAIN table : table[o] # {}}

Over == {"none", "refused", "failed", "broken", "ended"}
Free == job.at \in Over /\ jobs < MaxJobs /\ jobs' = jobs + 1

BeginJob(new) == Free /\ job' = new /\ UNCHANGED <<db, call, fate, calls, portable, breaks>>

To(at) == job' = [job EXCEPT !.at = at]

Reads == UNCHANGED <<db, call, fate, calls, portable, jobs, breaks>>

BeginExport == BeginJob([at |-> "export_characters", kind |-> "export", quiet |-> TRUE, out |-> Nothing])

ExportCharacters ==
  /\ job.at = "export_characters" /\ Reads
  /\ job' = [job EXCEPT !.at = "export_profiles",
       !.out.characters = [c \in Cards |-> {[text |-> x.text] : x \in {y \in db.characters[c] : y.space = Home}}]]

ExportProfiles ==
  /\ job.at = "export_profiles" /\ Reads
  /\ job' = [job EXCEPT !.at = "export_conversations",
       !.out.profiles = [c \in Cards |-> IF job.out.characters[c] # {} THEN profiles[c] ELSE {}]]

ExportConversations ==
  /\ job.at = "export_conversations" /\ Reads
  /\ job' = [job EXCEPT !.at = "export_messages",
       !.out.conversations = [v \in Chats |->
         {[character |-> x.character, title |-> x.title, archived |-> x.archived] :
            x \in {y \in db.conversations[v] : y.space = Home}}]]

ExportMessages ==
  /\ job.at = "export_messages" /\ Reads
  /\ job' = [job EXCEPT !.at = "export_contexts",
       !.out.messages = [m \in Messages |->
         IF job.out.conversations[Of[m]] # {} THEN {[x EXCEPT !.context = FALSE] : x \in db.messages[m]} ELSE {}]]

ExportContexts ==
  /\ job.at = "export_contexts" /\ Reads
  /\ job' = [job EXCEPT !.at = "create",
       !.out.messages = [m \in Messages |->
         {[x EXCEPT !.context = \E y \in db.messages[m] : y.context] : x \in @[m]}],
       !.out.files = files[Home]]

Create ==
  /\ job.at = "create" /\ pack' = job.out /\ job' = NoJob
  /\ UNCHANGED <<db, call, fate, calls, profiles, files, jobs, breaks>>
----------------------------------------------------------------------------
(* The mode says what wins where a record is on both sides. *)
Keep == job.mode = "keep_existing"

BeginImport(mode, target) ==
  BeginJob([at |-> "preflight", kind |-> "import", mode |-> mode, target |-> target,
         seen |-> {}, left |-> {}, item |-> {}, quiet |-> TRUE,
         before |-> [db |-> db, profiles |-> profiles, files |-> files]])

(* What is in the container may not belong to another Space here.  All of  *)
(* it is checked before the first write.                                   *)
Preflight ==
  /\ job.at = "preflight" /\ Reads
  /\ To(IF /\ \A c \in Present(pack.characters) : \A x \in db.characters[c] : x.space = job.target
           /\ \A v \in Present(pack.conversations) : \A x \in db.conversations[v] : x.space = job.target
        THEN "characters" ELSE "refused")

(* Mutant of Phase: what is there is not left out. *)
PhaseOfAll(at, first, here, packed) ==
  /\ job.at = at /\ Reads
  /\ job' = [job EXCEPT !.at = first, !.seen = here, !.left = packed]

(* A phase reads what is there and works on the rest, or on all of it. *)
Phase(at, first, here, packed) ==
  /\ job.at = at /\ Reads
  /\ job' = [job EXCEPT !.at = first, !.seen = here, !.left = IF Keep THEN packed \ here ELSE packed]

Take(at, next, o) ==
  job.at = at /\ o \in job.left /\ job' = [job EXCEPT !.at = next, !.item = {o}, !.left = @ \ {o}] /\ Reads

Item == CHOOSE o \in job.item : TRUE

Done(at, next) == job.at = at /\ job.left = {} /\ To(next) /\ Reads

Writes == UNCHANGED <<call, calls, pack, jobs, breaks>>

ImportCharacters == Phase("characters", "card", Present(db.characters), Present(pack.characters))

(* save_character: a card that was deleted here stays deleted, silently.   *)
FenceCard(c) == Take("card", IF Tombstoned(db, c) THEN "profile" ELSE "save_card", c)

SaveCard ==
  /\ job.at = "save_card" /\ To("profile") /\ Writes /\ UNCHANGED <<fate, profiles, files>>
  /\ db' = [db EXCEPT !.characters[Item] = {[space |-> job.target, text |-> x.text] : x \in pack.characters[Item]}]

(* A container without a profile takes away the one that was here. *)
SaveProfile ==
  /\ job.at = "profile" /\ To("card") /\ Writes /\ UNCHANGED <<db, fate, files>>
  /\ profiles' = [profiles EXCEPT ![Item] = pack.profiles[Item]]

(* The conversations and the characters that are here are read once.       *)
ImportConversations ==
  Phase("conversations", "conversation", Present(db.conversations) \cup Present(db.characters),
        Present(pack.conversations))

(* A conversation that is here gets the title and the archive mark in two  *)
(* statements, and keeps its character.                                    *)
Retitle(v) ==
  /\ job.at = "conversation" /\ v \in job.left \cap job.seen /\ Writes /\ UNCHANGED <<fate, profiles, files>>
  /\ IF \E x \in db.conversations[v] : x.space = job.target
     THEN /\ job' = [job EXCEPT !.at = "archive", !.item = {v}, !.left = @ \ {v}]
          /\ db' = [db EXCEPT !.conversations[v] =
                      {[x EXCEPT !.title = y.title] : x \in @, y \in pack.conversations[v]}]
     ELSE To("failed") /\ UNCHANGED db

Rearchive ==
  /\ job.at = "archive" /\ To("conversation") /\ Writes /\ UNCHANGED <<fate, profiles, files>>
  /\ db' = [db EXCEPT !.conversations[Item] =
              {IF x.space = job.target THEN [x EXCEPT !.archived = y.archived] ELSE x :
                 x \in @, y \in pack.conversations[Item]}]

FenceNew(v) ==
  /\ job.at = "conversation" /\ v \notin job.seen
  /\ Take("conversation", IF Tombstoned(db, v) THEN "conversation" ELSE "save_conversation", v)

(* save_conversation, without the link to a character that was not seen.   *)
(* A link to one that has gone since breaks the foreign key.               *)
SaveNew ==
  /\ job.at = "save_conversation" /\ Writes /\ UNCHANGED <<profiles, files>>
  /\ IF \A x \in pack.conversations[Item] : x.character \cap job.seen \subseteq Present(db.characters)
     THEN /\ To("conversation") /\ Expose(Item)
          /\ db' = [db EXCEPT !.conversations[Item] =
                      {[space |-> job.target, character |-> x.character \cap job.seen, title |-> x.title,
                        archived |-> IF @ = {} THEN x.archived ELSE Only(@).archived] : x \in pack.conversations[Item]}]
     ELSE To("failed") /\ UNCHANGED <<db, fate>>

ImportMessages == Phase("messages", "message", Present(db.messages), Present(pack.messages))

(* Mutant of SaveMessage: a message that is here keeps its context. *)
SaveMessageText(m) ==
  /\ job.at = "message" /\ m \in job.left /\ Writes /\ UNCHANGED <<profiles, files>>
  /\ IF db.conversations[Of[m]] # {}
     THEN /\ db' = [db EXCEPT !.messages[m] = IF @ = {} THEN pack.messages[m]
                      ELSE {[x EXCEPT !.text = y.text] : x \in @, y \in pack.messages[m]}]
          /\ job' = [job EXCEPT !.left = @ \ {m}] /\ fate' = [fate EXCEPT ![m] = "kept"]
     ELSE To("failed") /\ UNCHANGED <<db, fate>>

(* save_message_with_context: a message that is here gets the other text,  *)
(* and the context of the container or none.                               *)
SaveMessage(m) ==
  /\ job.at = "message" /\ m \in job.left /\ Writes /\ UNCHANGED <<profiles, files>>
  /\ IF db.conversations[Of[m]] # {}
     THEN /\ db' = [db EXCEPT !.messages[m] = pack.messages[m]]
          /\ job' = [job EXCEPT !.left = @ \ {m}] /\ fate' = [fate EXCEPT ![m] = "kept"]
     ELSE To("failed") /\ UNCHANGED <<db, fate>>

(* The worker of the Space merges the files in one command. *)
ImportFiles ==
  /\ job.at = "files" /\ To("ended") /\ Writes /\ UNCHANGED <<db, fate, profiles>>
  /\ files' = [files EXCEPT ![job.target] = IF pack.files = {} \/ (Keep /\ @ # {}) THEN @ ELSE pack.files]
----------------------------------------------------------------------------
Fault == breaks < MaxBreaks /\ breaks' = breaks + 1

(* A statement of the job fails, or the process exits: what was written    *)
(* stays.                                                                  *)
Break ==
  /\ job.at \notin Over /\ Fault /\ To("broken") /\ UNCHANGED <<db, call, fate, calls, portable, jobs>>

Crash ==
  /\ Fault /\ job' = NoJob /\ call' = [p \in Clients |-> Idle] /\ UNCHANGED <<db, fate, calls, portable, jobs>>

Manage ==
  /\ Operate /\ UNCHANGED <<portable, jobs, breaks>>
  /\ job' = IF job.at # "none" /\ db' # db THEN [job EXCEPT !.quiet = FALSE] ELSE job

Export ==
  BeginExport \/ ExportCharacters \/ ExportProfiles \/ ExportConversations \/ ExportMessages \/ ExportContexts \/ Create

Import ==
  \/ \E mode \in {"keep_existing", "replace"}, target \in Spaces : BeginImport(mode, target)
  \/ Preflight
  \/ ImportCharacters \/ SaveCard \/ SaveProfile \/ Done("card", "conversations")
  \/ ImportConversations \/ Rearchive \/ SaveNew \/ Done("conversation", "messages")
  \/ ImportMessages \/ Done("message", "files") \/ ImportFiles
  \/ \E c \in Cards : FenceCard(c)
  \/ \E v \in Chats : Retitle(v) \/ FenceNew(v)
  \/ \E m \in Messages : SaveMessage(m)

PortableNext == Manage \/ Export \/ Import \/ Break \/ Crash

PortableSpec == PortableInit /\ [][PortableNext]_portableVars
----------------------------------------------------------------------------
(* An export that nobody disturbs holds the Space as it is. *)
ExportExact ==
  job.at = "create" /\ job.quiet =>
    LET InHome(S) == {x \in S : x.space = Home} IN
    job.out = [characters |-> [c \in Cards |-> {[text |-> x.text] : x \in InHome(db.characters[c])}],
               conversations |-> [v \in Chats |->
                 {[character |-> x.character, title |-> x.title, archived |-> x.archived] : x \in InHome(db.conversations[v])}],
               messages |-> [m \in Messages |-> IF InHome(db.conversations[Of[m]]) = {} THEN {} ELSE db.messages[m]],
               profiles |-> [c \in Cards |-> IF InHome(db.characters[c]) = {} THEN {} ELSE profiles[c]],
               files |-> files[Home]]

(* What an import should leave of a record here and one in the container. *)
Merged(here, packed) == IF packed = {} \/ (Keep /\ here # {}) THEN here ELSE packed

(* An import that nobody disturbs and that ends has merged the container   *)
(* into the Space, record by record; a card or a conversation that was     *)
(* deleted here stays so, and a conversation that was here keeps its       *)
(* character.                                                              *)
ImportExact ==
  job.at = "ended" /\ job.quiet =>
    LET was == job.before IN
    /\ \A c \in Cards :
         /\ Tombstoned(db, c) \/ db.characters[c] =
              Merged(was.db.characters[c], {[space |-> job.target, text |-> x.text] : x \in pack.characters[c]})
         /\ pack.characters[c] = {} \/ (Keep /\ was.db.characters[c] # {}) \/ profiles[c] = pack.profiles[c]
    /\ \A v \in Chats :
         LET link == UNION {y.character : y \in was.db.conversations[v]} IN
         Tombstoned(db, v) \/ db.conversations[v] =
           Merged(was.db.conversations[v],
                  {[space |-> job.target, title |-> x.title, archived |-> x.archived,
                    character |-> IF was.db.conversations[v] # {} THEN link
                                  ELSE x.character \cap Present(db.characters)] : x \in pack.conversations[v]})
    /\ \A m \in Messages : db.messages[m] = Merged(was.db.messages[m], pack.messages[m])
    /\ files[job.target] = Merged(was.files[job.target], pack.files)

(* An import that may not replace changes nothing that was here before it, *)
(* however far it gets.                                                    *)
KeepsExisting ==
  job.at # "none" /\ job.kind = "import" /\ job.quiet /\ Keep =>
    LET Kept(was, now) == \A o \in DOMAIN was : was[o] \in {{}, now[o]} IN
    /\ Kept(job.before.db.characters, db.characters) /\ Kept(job.before.db.conversations, db.conversations)
    /\ Kept(job.before.db.messages, db.messages) /\ Kept(job.before.files, files)
    /\ \A c \in Present(job.before.db.characters) : profiles[c] = job.before.profiles[c]

(* What goes out is what is here, what comes in is what went out, and what *)
(* may not be replaced stays.                                              *)
PortableExact == ExportExact /\ ImportExact /\ KeepsExisting

(* An import that passes its preflight, and that nobody disturbs, does not *)
(* fail on what it finds.                                                  *)
PreflightSuffices == job.at = "failed" => ~job.quiet
=============================================================================
