----------------------------- MODULE Responses -----------------------------
(***************************************************************************)
(* Idempotent response operations.  Every attempt enters the state of its  *)
(* operation, takes the operation's lock and then the conversation's lock, *)
(* and passes through statements that each may be the last: its caller may *)
(* drop it at every await, a cancellation may stop it at the checks, the   *)
(* process may exit.  A retry continues from what the store holds.         *)
(***************************************************************************)
EXTENDS Integers, Sequences

CONSTANTS
  Attempts,        \* calls of MomoApiService::execute
  Requests,        \* what they may ask: [key, content, conversation, speaks]
  Known,           \* conversations that exist, "none" not among them
  Fresh,           \* bound: identities of new conversations
  MaxFaults        \* bound: failures, dropped callers, process exits

(* A conversation is new when it has an identity no conversation had. *)
ASSUME ResponsesAssumption == Known \cap Fresh = {} /\ MaxFaults \in Nat

Keys == {q.key : q \in Requests}
Conversations == Known \cup Fresh

VARIABLES
  at,          \* where each attempt is
  asks,        \* its request, as a set
  seen,        \* the operation it loaded, as a set
  in,          \* the conversation it works in, as a set
  active,      \* operation_states: the attempts inside each operation
  cancelled,   \* operation_states: operations whose flag is set
  opLock,      \* operation_locks: the attempt that owns each key, as a set
  convLock,    \* conversation_locks: the attempt that owns each, as a set
  attempted,   \* response_attempts: the conversation of each key, as a set
  ops,         \* response_operations: the record of each key, as a set
  convs,       \* the conversations that exist
  messages,    \* their messages, in order
  created,     \* history: the new conversations, each with its operation
  orphans,     \* history: those whose attempt ended before it noted them
  warned,      \* history: attempts that were cancelled before their last check
  faults

attempt  == <<at, asks, seen, in>>
locks    == <<active, cancelled, opLock, convLock>>
store    == <<ops, convs, messages>>
history  == <<created, orphans, warned, faults>>
vars     == <<attempt, locks, attempted, store, history>>

Message(k, role) == [key |-> k, role |-> role]
Operation(q, c) == [content |-> q.content, conversation |-> c, written |-> FALSE, reply |-> FALSE]

Ended == {"refused", "cancelled", "failed", "replayed", "answered", "dropped"}

Init ==
  /\ at = [a \in Attempts |-> "idle"] /\ asks = [a \in Attempts |-> {}]
  /\ seen = [a \in Attempts |-> {}] /\ in = [a \in Attempts |-> {}]
  /\ active = [k \in Keys |-> {}] /\ cancelled = {}
  /\ opLock = [k \in Keys |-> {}] /\ convLock = [c \in Conversations |-> {}]
  /\ attempted = [k \in Keys |-> {}] /\ ops = [k \in Keys |-> {}]
  /\ convs = Known /\ messages = [c \in Conversations |-> <<>>]
  /\ created = {} /\ orphans = {} /\ warned = {} /\ faults = 0
----------------------------------------------------------------------------
(* Mutant of Leave: the flag outlives the attempts it was set for. *)
LeaveFlagged(k, gone) ==
  /\ active' = [active EXCEPT ![k] = @ \ gone] /\ UNCHANGED cancelled

(* Mutant of Leave: the first attempt to leave takes the state with it. *)
LeaveAll(k, gone) ==
  /\ active' = [active EXCEPT ![k] = {}] /\ cancelled' = cancelled \ {k}

(* OperationGuard::drop: the last attempt takes the operation's state, and *)
(* so the cancellation, with it.                                           *)
Leave(k, gone) ==
  /\ active' = [active EXCEPT ![k] = @ \ gone]
  /\ cancelled' = IF active[k] \subseteq gone THEN cancelled \ {k} ELSE cancelled

(* The attempt returns, or is dropped: its guards go with it. *)
End(a, q, answer) ==
  /\ at' = [at EXCEPT ![a] = answer]
  /\ seen' = [seen EXCEPT ![a] = {}] /\ in' = [in EXCEPT ![a] = {}] /\ UNCHANGED asks
  /\ Leave(q.key, {a})
  /\ opLock' = [opLock EXCEPT ![q.key] = @ \ {a}]
  /\ convLock' = [c \in Conversations |-> convLock[c] \ {a}]

Move(a, place) == at' = [at EXCEPT ![a] = place] /\ UNCHANGED <<asks, seen, in, locks>>

Cancelled(q) == q.key \in cancelled

(* ensure_active *)
Checked(a, q, place) == IF Cancelled(q) THEN End(a, q, "cancelled") ELSE Move(a, place)

Enter(a, q) ==
  /\ at[a] = "idle" /\ at' = [at EXCEPT ![a] = "entered"]
  /\ asks' = [asks EXCEPT ![a] = {q}] /\ active' = [active EXCEPT ![q.key] = @ \cup {a}]
  /\ UNCHANGED <<seen, in, cancelled, opLock, convLock, attempted, store, history>>

Queue(a, q) ==
  /\ at[a] = "entered" /\ Checked(a, q, "queued") /\ UNCHANGED <<attempted, store, history>>

(* Mutant of LockOperation: two attempts of one operation run at once. *)
LockOperationShared(a, q) ==
  /\ at[a] = "queued" /\ Checked(a, q, "loading") /\ UNCHANGED <<attempted, store, history>>

(* The lock of the operation, and the check behind it. *)
LockOperation(a, q) ==
  /\ at[a] = "queued" /\ opLock[q.key] = {}
  /\ IF Cancelled(q) THEN End(a, q, "cancelled")
     ELSE /\ at' = [at EXCEPT ![a] = "loading"] /\ opLock' = [opLock EXCEPT ![q.key] = {a}]
          /\ UNCHANGED <<asks, seen, in, active, cancelled, convLock>>
  /\ UNCHANGED <<attempted, store, history>>

(* Mutant of Load: a stored reply answers every request with its key. *)
LoadKey(a, q) ==
  /\ at[a] = "loading"
  /\ \/ (\E op \in ops[q.key] : op.reply) /\ End(a, q, "replayed")
     \/ /\ \A op \in ops[q.key] : ~op.reply
        /\ at' = [at EXCEPT ![a] = IF q.conversation \in Known THEN "locating" ELSE "resolving"]
        /\ seen' = [seen EXCEPT ![a] = ops[q.key]] /\ UNCHANGED <<asks, in, locks>>
  /\ UNCHANGED <<attempted, store, history>>

(* The operation's record: another content, a reply to replay, or work. *)
Load(a, q) ==
  /\ at[a] = "loading"
  /\ \/ (\E op \in ops[q.key] : op.content # q.content) /\ End(a, q, "refused")
     \/ (\E op \in ops[q.key] : op.content = q.content /\ op.reply) /\ End(a, q, "replayed")
     \/ /\ \A op \in ops[q.key] : op.content = q.content /\ ~op.reply
        /\ at' = [at EXCEPT ![a] = IF q.conversation \in Known THEN "locating" ELSE "resolving"]
        /\ seen' = [seen EXCEPT ![a] = ops[q.key]] /\ UNCHANGED <<asks, in, locks>>
  /\ UNCHANGED <<attempted, store, history>>

(* Mutant of LockConversation: two attempts work in one conversation. *)
LockConversationShared(a, q, c, place) ==
  IF Cancelled(q) THEN End(a, q, "cancelled")
  ELSE /\ at' = [at EXCEPT ![a] = place]
       /\ in' = [in EXCEPT ![a] = {c}] /\ convLock' = [convLock EXCEPT ![c] = @ \cup {a}]
       /\ UNCHANGED <<asks, seen, active, cancelled, opLock>>

(* lock_active_conversation *)
LockConversation(a, q, c, place) ==
  /\ convLock[c] = {}
  /\ IF Cancelled(q) THEN End(a, q, "cancelled")
     ELSE /\ at' = [at EXCEPT ![a] = place]
          /\ in' = [in EXCEPT ![a] = {c}] /\ convLock' = [convLock EXCEPT ![c] = {a}]
          /\ UNCHANGED <<asks, seen, active, cancelled, opLock>>

Locate(a, q) ==
  /\ at[a] = "locating" /\ LockConversation(a, q, q.conversation, "resolving")
  /\ UNCHANGED <<attempted, store, history>>

(* Capability and vision calls; their failure is a Fail. *)
Resolve(a, q) ==
  /\ at[a] = "resolving" /\ Checked(a, q, "preparing")
  /\ UNCHANGED <<attempted, store, history>>
----------------------------------------------------------------------------
(* Mutant of Earlier: what an earlier attempt noted is not looked at. *)
EarlierRecorded(a, q) ==
  IF in[a] # {} THEN in[a] ELSE {op.conversation : op \in seen[a]}

(* The conversation that was asked for, or the one an earlier attempt      *)
(* recorded, or one that an attempt of this process has noted.             *)
Earlier(a, q) ==
  IF in[a] # {} THEN in[a]
  ELSE IF seen[a] # {} THEN {op.conversation : op \in seen[a]} ELSE attempted[q.key]

(* prepare_response_conversation: an earlier conversation is locked first. *)
Join(a, q) ==
  /\ at[a] = "preparing" /\ in[a] = {}
  /\ \E c \in Earlier(a, q) : LockConversation(a, q, c, "preparing")
  /\ UNCHANGED <<attempted, store, history>>

(* The conversation must still exist; the attempt is noted for a retry. *)
Reuse(a, q) ==
  /\ at[a] = "preparing" /\ in[a] # {}
  /\ IF in[a] \subseteq convs
     THEN /\ Move(a, "beginning")
          /\ attempted' = [attempted EXCEPT ![q.key] = IF @ = {} THEN in[a] ELSE @]
     ELSE End(a, q, "refused") /\ UNCHANGED attempted
  /\ UNCHANGED <<store, history>>

Unused == Fresh \ {p[2] : p \in created}

(* Nothing earlier: a new conversation, locked before it is saved. *)
Create(a, q) ==
  /\ at[a] = "preparing" /\ Earlier(a, q) = {} /\ Unused # {}
  /\ LET c == CHOOSE c \in Unused : TRUE
     IN IF Cancelled(q) THEN End(a, q, "cancelled") /\ UNCHANGED <<convs, created>>
        ELSE /\ LockConversation(a, q, c, "saved")
             /\ convs' = convs \cup {c} /\ created' = created \cup {<<q.key, c>>}
  /\ UNCHANGED <<attempted, ops, messages, orphans, warned, faults>>

(* The next poll of the attempt notes what it has created. *)
Note(a, q) ==
  /\ at[a] = "saved" /\ attempted' = [attempted EXCEPT ![q.key] = in[a]]
  /\ Move(a, "beginning") /\ UNCHANGED <<store, history>>

(* begin_response_operation: an insertion, or nothing. *)
Begin(a, q) ==
  /\ at[a] = "beginning"
  /\ ops' = [ops EXCEPT ![q.key] = IF @ = {} THEN {Operation(q, c) : c \in in[a]} ELSE @]
  /\ Move(a, "begun") /\ UNCHANGED <<attempted, convs, messages, history>>
----------------------------------------------------------------------------
Written(k) == [ops EXCEPT ![k] = {[op EXCEPT !.written = TRUE] : op \in @}]
Say(c, k, role) == messages' = [messages EXCEPT ![c] = Append(@, Message(k, role))]

(* Mutant of AppendUser: the message and its mark are two statements. *)
AppendUnmarked(a, q) ==
  /\ at[a] = "begun"
  /\ attempted' = [attempted EXCEPT ![q.key] = {}]
  /\ \E c \in in[a] : Say(c, q.key, "user")
  /\ Move(a, "generating") /\ UNCHANGED <<ops, convs, history>>

Writable(a, q) ==
  /\ \A op \in ops[q.key] : {op.conversation} = in[a]
  /\ in[a] \subseteq convs

(* append_response_user_message: the message and its mark are one          *)
(* transaction, which checks the record and the conversation again; a tool *)
(* continuation only sets the mark.  The note is removed first.            *)
AppendUser(a, q) ==
  /\ at[a] = "begun"
  /\ attempted' = [attempted EXCEPT ![q.key] = {}]
  /\ \/ /\ \E op \in seen[a] : op.written
        /\ Move(a, "generating") /\ UNCHANGED <<ops, messages>>
     \/ /\ \A op \in seen[a] : ~op.written
        /\ IF q.speaks /\ ~Writable(a, q)
           THEN End(a, q, "failed") /\ UNCHANGED <<ops, messages>>
           ELSE /\ ops' = Written(q.key) /\ Move(a, "generating")
                /\ IF q.speaks /\ \E op \in ops[q.key] : ~op.written
                   THEN \E c \in in[a] : Say(c, q.key, "user")
                   ELSE UNCHANGED messages
  /\ UNCHANGED <<convs, history>>

(* Mutant of Generated: the answer is committed without a last look. *)
GeneratedUnchecked(a, q) ==
  /\ at[a] = "generating" /\ Move(a, "committing") /\ UNCHANGED <<attempted, store, history>>

(* The model has answered, and the last check is passed. *)
Generated(a, q) ==
  /\ at[a] = "generating" /\ Checked(a, q, "committing")
  /\ UNCHANGED <<attempted, store, history>>

(* Mutant of Commit: the reply is stored behind the message. *)
CommitMessage(a, q) ==
  /\ at[a] = "committing"
  /\ \E c \in in[a] : Say(c, q.key, "assistant")
  /\ End(a, q, "answered") /\ UNCHANGED <<attempted, ops, convs, history>>

(* commit_response_completion: message and reply in one transaction, once. *)
Commit(a, q) ==
  /\ at[a] = "committing"
  /\ IF ~Writable(a, q) THEN End(a, q, "failed") /\ UNCHANGED <<ops, messages>>
     ELSE /\ End(a, q, "answered")
          /\ ops' = [ops EXCEPT ![q.key] = {[op EXCEPT !.reply = TRUE] : op \in @}]
          /\ \E c \in in[a] : Say(c, q.key, "assistant")
  /\ UNCHANGED <<attempted, convs, history>>
----------------------------------------------------------------------------
Running == {a \in Attempts : at[a] \notin Ended \cup {"idle"}}
Unnoted(gone) == {p[2] : p \in {p \in created : \E a \in gone : at[a] = "saved" /\ in[a] = {p[2]}}}

(* A statement or a model call fails, or the caller drops the attempt.  *)
Fail(a, q) ==
  /\ a \in Running /\ faults < MaxFaults /\ faults' = faults + 1
  /\ End(a, q, "dropped") /\ orphans' = orphans \cup Unnoted({a})
  /\ UNCHANGED <<attempted, store, created, warned>>

(* The process exits; the store remains. *)
Restart ==
  /\ Running # {} /\ faults < MaxFaults /\ faults' = faults + 1
  /\ at' = [a \in Attempts |-> IF a \in Running THEN "dropped" ELSE at[a]]
  /\ seen' = [a \in Attempts |-> {}] /\ in' = [a \in Attempts |-> {}]
  /\ active' = [k \in Keys |-> {}] /\ cancelled' = {}
  /\ opLock' = [k \in Keys |-> {}] /\ convLock' = [c \in Conversations |-> {}]
  /\ attempted' = [k \in Keys |-> {}]
  /\ orphans' = orphans \cup Unnoted(Running)
                \cup {c \in Conversations : \E k \in Keys : c \in attempted[k] /\ <<k, c>> \in created /\ ops[k] = {}}
  /\ UNCHANGED <<asks, store, created, warned>>

(* cancel_operation; the flag reaches every attempt of the operation. *)
Cancel(k) ==
  /\ active[k] # {} /\ cancelled' = cancelled \cup {k}
  /\ warned' = warned \cup {a \in active[k] : at[a] # "committing"}
  /\ UNCHANGED <<attempt, active, opLock, convLock, attempted, store, created, orphans, faults>>

(* A control deletes a conversation, whatever is going on in it. *)
Delete(c) ==
  /\ c \in convs /\ convs' = convs \ {c} /\ messages' = [messages EXCEPT ![c] = <<>>]
  /\ UNCHANGED <<attempt, locks, attempted, ops, history>>

Step(a, q) ==
  \/ Queue(a, q) \/ LockOperation(a, q) \/ Load(a, q) \/ Locate(a, q) \/ Resolve(a, q)
  \/ Join(a, q) \/ Reuse(a, q) \/ Create(a, q) \/ Note(a, q) \/ Begin(a, q)
  \/ AppendUser(a, q) \/ Generated(a, q) \/ Commit(a, q)

Work(a) == \E q \in asks[a] : Step(a, q)

Next ==
  \/ \E a \in Attempts : Work(a) \/ (\E q \in asks[a] : Fail(a, q)) \/ \E q \in Requests : Enter(a, q)
  \/ Restart \/ (\E k \in Keys : Cancel(k)) \/ \E c \in Conversations : Delete(c)

Spec == Init /\ [][Next]_vars
----------------------------------------------------------------------------
Places ==
  {"idle", "entered", "queued", "loading", "locating", "resolving", "preparing", "saved",
   "beginning", "begun", "generating", "committing"} \cup Ended
Operations == [content : {q.content : q \in Requests}, conversation : Conversations,
               written : BOOLEAN, reply : BOOLEAN]

(* Every variable has its type, and the state of an operation counts the   *)
(* attempts that are inside it.                                            *)
TypeOK ==
  /\ at \in [Attempts -> Places] /\ asks \in [Attempts -> SUBSET Requests]
  /\ seen \in [Attempts -> SUBSET Operations] /\ in \in [Attempts -> SUBSET Conversations]
  /\ active \in [Keys -> SUBSET Attempts] /\ cancelled \subseteq Keys
  /\ opLock \in [Keys -> SUBSET Attempts] /\ convLock \in [Conversations -> SUBSET Attempts]
  /\ attempted \in [Keys -> SUBSET Conversations] /\ ops \in [Keys -> SUBSET Operations]
  /\ convs \subseteq Conversations
  /\ messages \in [Conversations -> Seq([key : Keys, role : {"user", "assistant"}])]
  /\ created \subseteq Keys \X Fresh /\ orphans \subseteq Fresh
  /\ warned \subseteq Attempts /\ faults \in 0..MaxFaults
  /\ \A k \in Keys : active[k] = {a \in Running : \E q \in asks[a] : q.key = k}

(* Where a message of an operation is: its conversation, and its index. *)
Said(k, role) ==
  UNION {{c} \X {i \in DOMAIN messages[c] : messages[c][i] = Message(k, role)} : c \in Conversations}

(* An operation speaks once and is answered once, in one conversation and  *)
(* in this order, however often it is tried and wherever a try ends.       *)
SpokenOnce ==
  \A k \in Keys :
    /\ \A role \in {"user", "assistant"} : \A u, v \in Said(k, role) : u = v
    /\ \A u \in Said(k, "user"), r \in Said(k, "assistant") : u[1] = r[1] /\ u[2] < r[2]

(* The reply that is replayed and the message in the conversation appear   *)
(* together: neither a message without a reply that a retry would repeat,  *)
(* nor a reply whose message is missing from its conversation.             *)
ReplyHasMessage ==
  \A k \in Keys, op \in Operations : op \in ops[k] /\ op.conversation \in convs =>
    (op.reply <=> Said(k, "assistant") # {})

(* A stored reply stays, and whoever has it replayed asked for it. *)
ReplyStays ==
  /\ \A k \in Keys : \A op \in ops[k] : op.reply => op \in ops'[k]
  /\ \A a \in Attempts : at'[a] = "replayed" /\ at[a] # "replayed" =>
       \A q \in asks[a] : \A op \in ops[q.key] : op.content = q.content

(* From its user message to its reply nobody else writes into the          *)
(* conversation of an attempt: the model answers what the reader sees.     *)
TurnUnbroken ==
  \A a \in Attempts, c \in Conversations :
    at[a] \in {"generating", "committing"} /\ c \in in[a] /\ messages'[c] # messages[c] =>
      at'[a] # at[a] \/ c \notin convs'

(* No step breaks a turn that is under way, or one that was answered. *)
KeepsTurns == ReplyStays /\ TurnUnbroken

(* No behaviour has such a step. *)
TurnsKept == [][KeepsTurns]_vars

(* Retries of an operation never make a second conversation, except when   *)
(* an attempt ends between saving one and recording it.                    *)
OneConversation ==
  \A p, q \in created : p[1] = q[1] /\ p[2] # q[2] => p[2] \in orphans \/ q[2] \in orphans

(* A cancellation reaches exactly the attempts it found: one that was      *)
(* cancelled before its last check never answers, and the flag is gone     *)
(* with them, so that it never refuses a later retry.                      *)
CancelExact ==
  /\ \A a \in warned : at[a] # "answered"
  /\ \A k \in cancelled : active[k] # {}

(* A request identity speaks and is answered once, in one conversation,    *)
(* whatever attempts at it race, stop or are retried.                      *)
AnsweredOnce == TypeOK /\ SpokenOnce /\ ReplyHasMessage /\ OneConversation
=============================================================================
