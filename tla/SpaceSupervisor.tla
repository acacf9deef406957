-------------------------- MODULE SpaceSupervisor --------------------------
(***************************************************************************)
(* The registry of Space workers.  One thread owns the table of workers;   *)
(* callers send it lookups.  The first caller of a Space opens its worker  *)
(* itself and announces the result; later callers wait for that.  A full   *)
(* table evicts a worker that only the table still refers to.  The Core    *)
(* may be dropped and started again in the same process: an instance lock, *)
(* which every worker thread shares, keeps the two apart.                  *)
(***************************************************************************)
EXTENDS Integers, Sequences, FiniteSets

CONSTANTS
  Callers,     \* threads that call SpaceSupervisor::space
  Spaces,      \* Space identifiers
  Handles,     \* worker threads, that is SpaceHandles; used again once ended
  Limit,       \* MAX_WORKERS: size of the table
  MaxWaiters   \* callers that may wait for one initialization

ASSUME LimitAssumption == Limit \in Nat \ {0} /\ MaxWaiters \in Nat

VARIABLES
  at,        \* where each caller is
  wants,     \* the Space it asked for, as a set
  has,       \* the handle it owns, as a set
  inbox,     \* the messages sent to the supervisor, in order
  starting,  \* table: the Spaces that are being initialized
  waiters,   \* table: the callers that wait for each of them
  ready,     \* table: the handle of each Space, as a set
  joining,   \* the worker whose end the supervisor waits for, as a set
  roots,     \* the Space whose files each worker thread owns, as a set
  core       \* "running", "closing" once dropped, "closed"

callers == <<at, wants, has>>
table   == <<starting, waiters, ready>>
vars    == <<callers, inbox, table, joining, roots, core>>

Lookup(c, s) == [type |-> "lookup", caller |-> c, space |-> s, handle |-> {}]
Initialized(c) == [type |-> "initialized", caller |-> c, space |-> CHOOSE s \in wants[c] : TRUE, handle |-> has[c]]

Entries == starting \cup {s \in Spaces : ready[s] # {}}
Alive == {h \in Handles : roots[h] # {}}
Free == Handles \ (Alive \cup joining)   \* names for the next worker thread

(* Mutant of Holders: an announcement does not keep the handle alive. *)
HoldersCalling(h) == {c \in Callers : h \in has[c]}

(* Everything that refers to a handle besides the table: Arc::strong_count *)
(* is one exactly when there is none.                                      *)
Holders(h) ==
  {c \in Callers : h \in has[c]} \cup {inbox[i].caller : i \in {j \in DOMAIN inbox : h \in inbox[j].handle}}

Init ==
  /\ at = [c \in Callers |-> "idle"] /\ wants = [c \in Callers |-> {}]
  /\ has = [c \in Callers |-> {}] /\ inbox = <<>>
  /\ starting = {} /\ waiters = [s \in Spaces |-> {}] /\ ready = [s \in Spaces |-> {}]
  /\ joining = {} /\ roots = [h \in Handles |-> {}] /\ core = "running"
----------------------------------------------------------------------------
(* SpaceSupervisor::space sends its lookup and blocks. *)
Ask(c, s) ==
  /\ core = "running" /\ at[c] = "idle"
  /\ at' = [at EXCEPT ![c] = "asking"] /\ wants' = [wants EXCEPT ![c] = {s}]
  /\ inbox' = Append(inbox, Lookup(c, s))
  /\ UNCHANGED <<has, table, joining, roots, core>>

(* SpaceHandle::start: the worker thread runs once it has opened the Space *)
(* and ends if it could not.                                               *)
Open(c) ==
  /\ at[c] = "opening" /\ at' = [at EXCEPT ![c] = "announcing"]
  /\ \/ /\ Free # {}
        /\ LET h == CHOOSE h \in Free : TRUE
           IN has' = [has EXCEPT ![c] = {h}] /\ roots' = [roots EXCEPT ![h] = wants[c]]
     \/ UNCHANGED <<has, roots>>
  /\ UNCHANGED <<wants, inbox, table, joining, core>>

(* Mutant of Announce: the caller returns its error before it announces it. *)
AnnounceWorking(c) ==
  /\ at[c] = "announcing"
  /\ inbox' = IF has[c] = {} THEN inbox ELSE Append(inbox, Initialized(c))
  /\ at' = [at EXCEPT ![c] = IF has[c] = {} THEN "idle" ELSE "holding"]
  /\ wants' = [wants EXCEPT ![c] = IF has[c] = {} THEN {} ELSE @]
  /\ UNCHANGED <<has, table, joining, roots, core>>

(* The result goes to the table with a clone of the handle.  The caller    *)
(* keeps its own, or returns the error.                                    *)
Announce(c) ==
  /\ at[c] = "announcing"
  /\ inbox' = Append(inbox, Initialized(c))
  /\ at' = [at EXCEPT ![c] = IF has[c] = {} THEN "idle" ELSE "holding"]
  /\ wants' = [wants EXCEPT ![c] = IF has[c] = {} THEN {} ELSE @]
  /\ UNCHANGED <<has, table, joining, roots, core>>

(* The caller drops its handle.  The last owner joins the worker thread,   *)
(* and that can only be a caller when the table has been dropped.          *)
Release(c) ==
  /\ at[c] = "holding"
  /\ at' = [at EXCEPT ![c] = "idle"] /\ has' = [has EXCEPT ![c] = {}]
  /\ wants' = [wants EXCEPT ![c] = {}]
  /\ UNCHANGED <<inbox, table, joining, roots, core>>

(* A worker thread whose handle nobody owns any more has drained its       *)
(* mailbox; it closes the Space, then its share of the instance lock.      *)
WorkerEnds(h) ==
  /\ h \in Alive /\ Holders(h) = {} /\ \A s \in Spaces : h \notin ready[s]
  /\ roots' = [roots EXCEPT ![h] = {}]
  /\ UNCHANGED <<callers, inbox, table, joining, core>>
----------------------------------------------------------------------------
Supervising == core # "closed" /\ joining = {}

(* Mutant of Full: one entry too many. *)
FullBeyond(s) == s \notin Entries /\ Cardinality(Entries) > Limit

Full(s) == s \notin Entries /\ Cardinality(Entries) >= Limit

(* Mutant of Idle: the owners of the handle are not counted. *)
IdleOwned(s) == ready[s] # {}

Idle(s) == ready[s] # {} /\ \A h \in ready[s] : Holders(h) = {}

(* Mutant of Dropped: every worker is joined, whoever owns its handle. *)
DroppedJoined(s) == ready[s]

(* Dropping the table's reference joins the thread if it was the last. *)
Dropped(s) == {h \in ready[s] : Holders(h) = {}}

(* A lookup that finds the table full evicts an idle worker first and      *)
(* waits for its thread to end.                                            *)
Evict(s) ==
  /\ Supervising /\ inbox # <<>> /\ Head(inbox).type = "lookup"
  /\ Full(Head(inbox).space) /\ Idle(s)
  /\ joining' = Dropped(s) /\ ready' = [ready EXCEPT ![s] = {}]
  /\ UNCHANGED <<callers, inbox, starting, waiters, roots, core>>

(* JoinHandle::join of the evicted worker returns. *)
Joined ==
  /\ joining # {} /\ joining \cap Alive = {}
  /\ joining' = {}
  /\ UNCHANGED <<callers, inbox, table, roots, core>>

(* The answers to a lookup: a handle, an order to initialize the Space, an *)
(* error; or none yet.                                                     *)
Hand(c, s) ==
  /\ ready[s] # {}
  /\ at' = [at EXCEPT ![c] = "holding"] /\ has' = [has EXCEPT ![c] = ready[s]]
  /\ UNCHANGED <<wants, starting, waiters>>

(* Mutant of Wait: one waiter too many. *)
WaitBeyond(c, s) ==
  /\ s \in starting /\ Cardinality(waiters[s]) <= MaxWaiters
  /\ waiters' = [waiters EXCEPT ![s] = @ \cup {c}]
  /\ UNCHANGED <<callers, starting>>

Wait(c, s) ==
  /\ s \in starting /\ Cardinality(waiters[s]) < MaxWaiters
  /\ waiters' = [waiters EXCEPT ![s] = @ \cup {c}]
  /\ UNCHANGED <<callers, starting>>

Initialize(c, s) ==
  /\ s \notin Entries /\ ~Full(s)
  /\ at' = [at EXCEPT ![c] = "opening"] /\ starting' = starting \cup {s}
  /\ UNCHANGED <<wants, has, waiters>>

Refuse(c, s) ==
  /\ \/ s \in starting /\ Cardinality(waiters[s]) >= MaxWaiters
     \/ Full(s) /\ \A t \in Spaces : ~Idle(t)
  /\ at' = [at EXCEPT ![c] = "idle"] /\ wants' = [wants EXCEPT ![c] = {}]
  /\ UNCHANGED <<has, starting, waiters>>

(* The supervisor handles a lookup.  A caller blocks until it is answered, *)
(* so the answer is always received.                                       *)
Answer ==
  /\ Supervising /\ inbox # <<>> /\ Head(inbox).type = "lookup"
  /\ LET c == Head(inbox).caller
         s == Head(inbox).space
     IN Hand(c, s) \/ Wait(c, s) \/ Initialize(c, s) \/ Refuse(c, s)
  /\ inbox' = Tail(inbox)
  /\ UNCHANGED <<ready, joining, roots, core>>

(* The announced worker enters the table; a failure clears the entry.  An  *)
(* announcement for a Space that is not being initialized is dropped.      *)
Install(s, handle) ==
  /\ starting' = starting \ {s} /\ waiters' = [waiters EXCEPT ![s] = {}]
  /\ ready' = [ready EXCEPT ![s] = IF s \in starting THEN handle ELSE @]

(* The supervisor handles an announcement: everybody who waited gets the   *)
(* handle, or the error.                                                   *)
Settle ==
  /\ Supervising /\ inbox # <<>> /\ Head(inbox).type = "initialized"
  /\ LET s == Head(inbox).space
         handle == Head(inbox).handle
     IN /\ Install(s, handle)
        /\ at' = [c \in Callers |-> IF c \notin waiters[s] THEN at[c]
                                    ELSE IF handle = {} THEN "idle" ELSE "holding"]
        /\ has' = [c \in Callers |-> IF c \in waiters[s] THEN handle ELSE has[c]]
        /\ wants' = [c \in Callers |-> IF c \in waiters[s] /\ handle = {} THEN {} ELSE wants[c]]
  /\ inbox' = Tail(inbox)
  /\ UNCHANGED <<joining, roots, core>>
----------------------------------------------------------------------------
(* The Core is dropped when nobody is inside a call of it; handles may     *)
(* outlive it.  The supervisor then empties its inbox and ends.            *)
DropCore ==
  /\ core = "running" /\ \A c \in Callers : at[c] \in {"idle", "holding"}
  /\ core' = "closing"
  /\ UNCHANGED <<callers, inbox, table, joining, roots>>

(* Dropping an entry joins the worker only if nobody else owns it. *)
DropEntry(s) ==
  /\ Supervising /\ core = "closing" /\ inbox = <<>> /\ ready[s] # {}
  /\ joining' = Dropped(s)
  /\ ready' = [ready EXCEPT ![s] = {}]
  /\ UNCHANGED <<callers, inbox, starting, waiters, roots, core>>

Closed ==
  /\ Supervising /\ core = "closing" /\ inbox = <<>> /\ Entries = {}
  /\ core' = "closed"
  /\ UNCHANGED <<callers, inbox, table, joining, roots>>

(* acquire_instance_lock succeeds once no worker thread shares the lock. *)
Restart ==
  /\ core = "closed" /\ Alive = {} /\ core' = "running"
  /\ UNCHANGED <<callers, inbox, table, joining, roots>>

Supervisor ==
  Joined \/ Answer \/ Settle \/ Closed \/ \E s \in Spaces : Evict(s) \/ DropEntry(s)

Caller(c) == Open(c) \/ Announce(c)

Next ==
  \/ \E c \in Callers : Caller(c) \/ Release(c) \/ \E s \in Spaces : Ask(c, s)
  \/ \E h \in Handles : WorkerEnds(h)
  \/ Supervisor \/ DropCore \/ Restart

(* The supervisor's thread runs, opening a Space ends one way or another,  *)
(* and so does a worker without an owner.  Nobody has to let a handle go.  *)
Spec ==
  /\ Init /\ [][Next]_vars /\ WF_vars(Supervisor)
  /\ \A c \in Callers : WF_vars(Caller(c))
  /\ \A h \in Handles : WF_vars(WorkerEnds(h))
----------------------------------------------------------------------------
Messages ==
  [type : {"lookup", "initialized"}, caller : Callers, space : Spaces, handle : SUBSET Handles]
Labels == {"idle", "asking", "opening", "announcing", "holding"}

(* Every variable has its type, and no initialization has more waiters     *)
(* than its queue may hold.                                                *)
TypeOK ==
  /\ at \in [Callers -> Labels] /\ wants \in [Callers -> SUBSET Spaces]
  /\ has \in [Callers -> SUBSET Handles] /\ inbox \in Seq(Messages)
  /\ starting \subseteq Spaces /\ ready \in [Spaces -> SUBSET Handles]
  /\ waiters \in [Spaces -> SUBSET Callers]
  /\ \A s \in Spaces : Cardinality(waiters[s]) <= MaxWaiters
  /\ joining \subseteq Handles /\ roots \in [Handles -> SUBSET Spaces]
  /\ core \in {"running", "closing", "closed"}

(* The threads that read or write the files of a Space: its workers and    *)
(* the one that is being opened.                                           *)
Opening(s) == {c \in Callers : at[c] = "opening" /\ s \in wants[c]}
Owners(s) == {h \in Handles : s \in roots[h]}
BeingOpened == {s \in Spaces : Opening(s) # {}}

(* The files and the journal of a Space never have two workers, through    *)
(* initialization, eviction, failure, and the restart of the Core while    *)
(* handles of the previous one are still in use.                           *)
SoleWorker ==
  \A s \in Spaces :
    /\ \A c, d \in Opening(s) : c = d
    /\ \A g, h \in Owners(s) : g = h
    /\ Opening(s) = {} \/ Owners(s) = {}

(* The limit of the table bounds the threads that exist, those that are    *)
(* being opened, announced, or evicted included.                           *)
WithinLimit == Cardinality(BeingOpened) + Cardinality(Alive) <= Limit

(* Whoever holds the handle of a Space holds the worker that owns it. *)
HandleServes == \A c \in Callers : at[c] = "holding" => has[c] # {} /\ \A h \in has[c] : roots[h] = wants[c]

(* A Space has one worker, of few, and it is the one that callers hold,    *)
(* through initialization, eviction, failure, and the restart of the Core  *)
(* while handles of the one before are in use.                             *)
OneWorker == TypeOK /\ SoleWorker /\ WithinLimit /\ HandleServes

(* Every lookup is answered although its initializer may fail, the table   *)
(* may be full, and the supervisor waits for threads to end.               *)
EveryLookupAnswered == \A c \in Callers : at[c] = "asking" ~> at[c] # "asking"

(* Dropping the Core ends: the supervisor never waits for a handle that    *)
(* somebody may keep.                                                      *)
ClosingEnds == core = "closing" ~> core = "closed"

(* Neither callers of the registry nor the Core wait for ever. *)
NobodyWaitsForEver == EveryLookupAnswered /\ ClosingEnds
=============================================================================
