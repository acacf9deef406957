---------------------------- MODULE AtomicSpace ----------------------------
(***************************************************************************)
(* What one Space promises the rest of Core: a single durable image of its *)
(* files together with at most one pending-clear intent.  A command takes  *)
(* effect at one instant between its call and its answer, at most once; an *)
(* "ok" answer means it did; a process exit answers everybody "uncertain"  *)
(* and changes nothing durable.                                            *)
(***************************************************************************)
EXTENDS SpaceImage

VARIABLES
  store,        \* the durable image
  intent,       \* {} or {modules}: the pending_clear row
  checkpointed, \* the image has been journaled once
  op,           \* what each client last asked for
  reply,        \* the answer each client holds, or "waiting"
  committed     \* the client's latest command has taken effect

vars == <<store, intent, checkpointed, op, reply, committed>>
----------------------------------------------------------------------------
Answers == {"ok", "error", "uncertain"}
----------------------------------------------------------------------------
Init ==
  /\ store \in {WithLayout(image) : image \in Image}
  /\ intent = {}
  /\ checkpointed = FALSE
  /\ op = [c \in Clients |-> [kind |-> "read"]]
  /\ reply = [c \in Clients |-> "ok"]
  /\ committed = [c \in Clients |-> FALSE]

Call(c, o) ==
  /\ reply[c] # "waiting"
  /\ op' = [op EXCEPT ![c] = o]
  /\ reply' = [reply EXCEPT ![c] = "waiting"]
  /\ committed' = [committed EXCEPT ![c] = FALSE]
  /\ UNCHANGED <<store, intent, checkpointed>>

(* The instant a command becomes durable.  Only an acknowledgement is      *)
(* admitted while a clear is pending.  The answer may leave at once.       *)
TakeEffect(c) ==
  /\ reply[c] = "waiting"
  /\ ~committed[c]
  /\ op[c].kind # "read"
  /\ op[c].kind = "acknowledge" \/ intent = {}
  /\ store' = Effect(op[c], store)
  /\ intent' = CASE op[c].kind = "clear" -> {op[c].modules}
                 [] op[c].kind = "acknowledge" -> {}
                 [] OTHER -> intent
  /\ committed' = [committed EXCEPT ![c] = TRUE]
  /\ reply' \in {reply, [reply EXCEPT ![c] = "ok"]}
  /\ UNCHANGED <<checkpointed, op>>

(* "ok" tells the truth; "error" and "uncertain" leave the outcome open.   *)
Answer(c, r) ==
  /\ reply[c] = "waiting"
  /\ r = "ok" => IF op[c].kind = "read" THEN intent = {} ELSE committed[c]
  /\ reply' = [reply EXCEPT ![c] = r]
  /\ UNCHANGED <<store, intent, checkpointed, op, committed>>

(* The process exits: every caller is left in doubt, nothing durable moves. *)
Exit ==
  /\ reply' = [c \in Clients |-> IF reply[c] = "waiting" THEN "uncertain" ELSE reply[c]]
  /\ UNCHANGED <<store, intent, checkpointed, op, committed>>

(* Opening the Space re-creates missing required files, durably. *)
Repair ==
  /\ store' = WithLayout(store)
  /\ checkpointed' = TRUE
  /\ UNCHANGED <<intent, op, reply, committed>>

(* Direct edits of the files count only until the first checkpoint. *)
Migrate ==
  /\ ~checkpointed
  /\ store' \in {WithLayout(image) : image \in Image}
  /\ UNCHANGED <<intent, checkpointed, op, reply, committed>>

Next ==
  \/ \E c \in Clients :
       \/ \E o \in Op : Call(c, o)
       \/ TakeEffect(c)
       \/ \E r \in Answers : Answer(c, r)
  \/ Exit
  \/ Repair
  \/ Migrate

Spec == Init /\ [][Next]_vars
=============================================================================
