------------------------- MODULE SpaceReservations -------------------------
(***************************************************************************)
(* The admission of operations that span several commands of a Space, or   *)
(* several Spaces: one thread owns the set of reserved Spaces and a queue, *)
(* and is sent "acquire" and "release" messages.  A caller may go away at  *)
(* any time; a reservation is a value whose drop sends the release.        *)
(***************************************************************************)
EXTENDS Integers, Sequences, FiniteSets

CONSTANTS
  Requests,   \* calls of acquire
  Spaces      \* Space identifiers

VARIABLES
  at,        \* where each call is
  wants,     \* the Spaces it names
  inbox,     \* the messages sent to the thread, in order
  active,    \* the thread's set of reserved Spaces
  pending,   \* its queue; while it scans, the entries already looked at and kept
  todo,      \* the entries it has still to look at in this scan
  blocked,   \* the Spaces of the entries it kept in this scan
  scanning,  \* it is inside a scan
  granting,  \* the entry it has made active and not answered yet, as a set
  order      \* history: the calls in the order in which they were sent

calls  == <<at, wants, order>>
thread == <<active, pending, todo, blocked, scanning, granting>>
vars   == <<calls, inbox, thread>>

Acquiring(r) == [type |-> "acquire", request |-> r]
Releasing(r) == [type |-> "release", request |-> r]

Init ==
  /\ at = [r \in Requests |-> "idle"] /\ wants = [r \in Requests |-> {}]
  /\ inbox = <<>> /\ order = <<>>
  /\ active = {} /\ pending = <<>> /\ todo = <<>> /\ blocked = {}
  /\ scanning = FALSE /\ granting = {}
----------------------------------------------------------------------------
(* SpaceReservations::acquire; an operation may concern no Space at all. *)
Acquire(r, spaces) ==
  /\ at[r] = "idle"
  /\ at' = [at EXCEPT ![r] = "waiting"]
  /\ wants' = [wants EXCEPT ![r] = spaces]
  /\ order' = Append(order, r)
  /\ inbox' = Append(inbox, Acquiring(r))
  /\ UNCHANGED thread

(* The caller receives its reservation. *)
Take(r) ==
  /\ at[r] = "answered"
  /\ at' = [at EXCEPT ![r] = "held"]
  /\ UNCHANGED <<wants, order, inbox, thread>>

(* The caller is dropped while it waits; an answer it did not take is      *)
(* dropped with it, which releases the reservation.                        *)
Cancel(r) ==
  /\ at[r] \in {"waiting", "answered"}
  /\ at' = [at EXCEPT ![r] = "cancelled"]
  /\ inbox' = IF at[r] = "answered" THEN Append(inbox, Releasing(r)) ELSE inbox
  /\ UNCHANGED <<wants, order, thread>>

(* SpaceReservation::drop *)
Release(r) ==
  /\ at[r] = "held"
  /\ at' = [at EXCEPT ![r] = "done"]
  /\ inbox' = Append(inbox, Releasing(r))
  /\ UNCHANGED <<wants, order, thread>>
----------------------------------------------------------------------------
(* Mutant of Receive: the queue takes the message for the request. *)
ReceiveWhole ==
  /\ ~scanning /\ inbox # <<>>
  /\ inbox' = Tail(inbox) /\ todo' = Append(pending, Head(inbox))
  /\ pending' = <<>> /\ blocked' = {} /\ scanning' = TRUE
  /\ UNCHANGED <<calls, active, granting>>

(* A message arrives, and a scan of the whole queue begins. *)
Receive ==
  /\ ~scanning /\ inbox # <<>>
  /\ inbox' = Tail(inbox)
  /\ LET message == Head(inbox)
     IN \/ /\ message.type = "acquire"
           /\ todo' = Append(pending, message.request) /\ UNCHANGED active
        \/ /\ message.type = "release"
           /\ todo' = pending /\ active' = active \ wants[message.request]
  /\ pending' = <<>> /\ blocked' = {} /\ scanning' = TRUE
  /\ UNCHANGED <<calls, granting>>

(* Mutant of Keep: later entries may pass an entry that was kept. *)
KeepUnblocked(r) == pending' = Append(pending, r) /\ UNCHANGED <<active, blocked, granting>>

(* The entry stays in the queue, and nothing behind it may take its Spaces. *)
Keep(r) ==
  /\ pending' = Append(pending, r) /\ blocked' = blocked \cup wants[r]
  /\ UNCHANGED <<active, granting>>

(* Mutant of Admit: the Spaces are not recorded as reserved. *)
AdmitUnrecorded(r) == granting' = {r} /\ UNCHANGED <<active, pending, blocked>>

(* The entry is admitted: all of its Spaces at once. *)
Admit(r) ==
  /\ active' = active \cup wants[r] /\ granting' = {r}
  /\ UNCHANGED <<pending, blocked>>

(* Mutant of Free: the Spaces that are reserved already are not looked at. *)
FreeOfBlocked(r) == wants[r] \cap blocked = {}

Free(r) == wants[r] \cap active = {} /\ wants[r] \cap blocked = {}

(* The next entry of the queue: dropped if its caller has gone, kept if it *)
(* must wait, admitted otherwise.                                          *)
Examine ==
  /\ scanning /\ granting = {} /\ todo # <<>>
  /\ todo' = Tail(todo)
  /\ LET r == Head(todo)
     IN \/ at[r] = "cancelled" /\ UNCHANGED <<active, pending, blocked, granting>>
        \/ at[r] # "cancelled" /\ ~Free(r) /\ Keep(r)
        \/ at[r] # "cancelled" /\ Free(r) /\ Admit(r)
  /\ UNCHANGED <<calls, inbox, scanning>>

(* Mutant of Reply: an answer nobody takes keeps its Spaces. *)
ReplyLost(r) ==
  /\ r \in granting /\ granting' = {} /\ at[r] = "cancelled"
  /\ UNCHANGED <<calls, inbox, active, pending, todo, blocked, scanning>>

(* The reservation is sent to the caller, or dropped if the caller went    *)
(* away since the thread looked.                                           *)
Reply(r) ==
  /\ r \in granting /\ granting' = {}
  /\ IF at[r] = "cancelled"
     THEN inbox' = Append(inbox, Releasing(r)) /\ UNCHANGED at
     ELSE at' = [at EXCEPT ![r] = "answered"] /\ UNCHANGED inbox
  /\ UNCHANGED <<wants, order, active, pending, todo, blocked, scanning>>

ScanEnds ==
  /\ scanning /\ granting = {} /\ todo = <<>>
  /\ scanning' = FALSE
  /\ UNCHANGED <<calls, inbox, active, pending, todo, blocked, granting>>

Thread == Receive \/ Examine \/ (\E r \in Requests : Reply(r)) \/ ScanEnds

Call(r) == Take(r) \/ Release(r)

Next ==
  \/ \E r \in Requests : Cancel(r) \/ Call(r) \/ \E spaces \in SUBSET Spaces : Acquire(r, spaces)
  \/ Thread

(* The thread runs, and a caller that owns its reservation finishes. *)
Spec == Init /\ [][Next]_vars /\ WF_vars(Thread) /\ \A r \in Requests : WF_vars(Call(r))
----------------------------------------------------------------------------
Messages == [type : {"acquire", "release"}, request : Requests]
Labels == {"idle", "waiting", "answered", "held", "cancelled", "done"}

(* Every variable has its type. *)
TypeOK ==
  /\ at \in [Requests -> Labels] /\ wants \in [Requests -> SUBSET Spaces]
  /\ inbox \in Seq(Messages) /\ order \in Seq(Requests)
  /\ active \subseteq Spaces /\ blocked \subseteq Spaces
  /\ pending \in Seq(Requests) /\ todo \in Seq(Requests)
  /\ scanning \in BOOLEAN /\ granting \subseteq Requests

(* Requests whose reservation exists at the caller. *)
Owning == {r \in Requests : at[r] \in {"answered", "held"}}

(* No Space is ever reserved by two operations at once, although the       *)
(* thread learns of releases late and callers vanish at any moment.        *)
MutualExclusion == \A r, q \in Owning : r # q => wants[r] \cap wants[q] = {}

(* The requests sent before r was. *)
Before(r) == {q \in Requests : \E i, j \in DOMAIN order : i < j /\ order[i] = q /\ order[j] = r}

(* Nobody is admitted ahead of an earlier request that still waits for one *)
(* of the same Spaces: a request for many Spaces is not starved by a       *)
(* stream of requests for one of them.                                     *)
NoOvertaking ==
  [][\A r \in Owning' \ Owning, q \in Requests :
       q \in Before(r) /\ at[q] = "waiting" => wants[q] \cap wants[r] = {}]_vars

(* Requests for overlapping sets of Spaces never block one another for     *)
(* ever, and a Space whose caller vanished is not reserved for ever.       *)
EventuallyAdmitted == \A r \in Requests : at[r] = "waiting" ~> at[r] # "waiting"

Reservations == INSTANCE AtomicReservations WITH wanted <- wants, owning <- Owning

(* The queue, the messages and their delays implement a lock manager that  *)
(* grants all the Spaces of a request in one step.                         *)
ImplementsReservations == Reservations!Spec
=============================================================================
