---------------------- MODULE SpaceReservationsProofs ----------------------
(***************************************************************************)
(* Proofs about SpaceReservations for any set of requests and of Spaces.   *)
(* Mutual exclusion is not inductive by itself: a Space is protected by    *)
(* the thread's active set from the moment the thread admits an entry      *)
(* until it has processed the release, and the reservation passes through  *)
(* four places meanwhile (being granted, answered, held, in a release      *)
(* message).  ReservationInv says that these places never overlap and are  *)
(* covered by the active set.                                              *)
(***************************************************************************)
EXTENDS SpaceReservations, TLAPS

(* The release messages the thread has not received, and what they carry. *)
InFlight == {i \in DOMAIN inbox : inbox[i].type = "release"}
Carried(i) == wants[inbox[i].request]

(* What a call wants is fixed once it is sent. *)
SentInv ==
  /\ \A r \in Requests : at[r] = "idle" => wants[r] = {}
  /\ \A i \in InFlight : at[inbox[i].request] # "idle"
  /\ \A i \in DOMAIN todo : at[todo[i]] # "idle"
  /\ \A i \in DOMAIN pending : at[pending[i]] # "idle"
  /\ \A i \in DOMAIN inbox : at[inbox[i].request] # "idle"
  /\ \A r \in granting : at[r] # "idle"

(* Everything reserved is active. *)
ActiveInv ==
  /\ \A r \in Owning \cup granting : wants[r] \subseteq active
  /\ \A i \in InFlight : Carried(i) \subseteq active

(* The places where a reservation may be do not overlap. *)
DisjointInv ==
  /\ \A r, q \in Owning : r # q => wants[r] \cap wants[q] = {}
  /\ \A r \in granting, q \in Owning : wants[r] \cap wants[q] = {}
  /\ \A r, q \in granting : r = q
  /\ \A i \in InFlight, r \in Owning \cup granting : Carried(i) \cap wants[r] = {}
  /\ \A i, j \in InFlight : i # j => Carried(i) \cap Carried(j) = {}

ReservationInv == TypeOK /\ SentInv /\ ActiveInv /\ DisjointInv

(* Messages and queue entries are about requests. *)
LEMMA MessageTyped ==
  /\ \A r \in Requests : Acquiring(r) \in Messages /\ Releasing(r) \in Messages
  /\ \A m \in Messages : m.request \in Requests /\ m.type \in {"acquire", "release"}
  BY DEF Acquiring, Releasing, Messages

(* The first message and the first entry of each queue are well typed. *)
LEMMA EntriesTyped ==
  ASSUME TypeOK
  PROVE  /\ \A i \in DOMAIN todo : todo[i] \in Requests
         /\ \A i \in DOMAIN pending : pending[i] \in Requests
         /\ \A i \in DOMAIN inbox : inbox[i] \in Messages /\ inbox[i].request \in Requests
         /\ granting \subseteq Requests
<1>1. \A i \in DOMAIN todo : todo[i] \in Requests
  BY DEF TypeOK
<1>2. \A i \in DOMAIN pending : pending[i] \in Requests
  BY DEF TypeOK
<1>3. \A i \in DOMAIN inbox : inbox[i] \in Messages
  BY DEF TypeOK
<1> QED BY <1>1, <1>2, <1>3, MessageTyped DEF TypeOK

(* An entry appended to a queue is its last one. *)
LEMMA Appended ==
  \A s \in Seq(Requests), x \in Requests : \A t :
    t = Append(s, x) => \A i \in DOMAIN t : t[i] = x \/ (i \in DOMAIN s /\ t[i] = s[i])
  OBVIOUS

(* A step of the specification preserves the types. *)
LEMMA TypeStep == ASSUME TypeOK, [Next]_vars PROVE TypeOK'
<1> USE DEF TypeOK
<1>0. \A m \in Messages : Append(inbox, m) \in Seq(Messages)
  OBVIOUS
<1>1. ASSUME NEW r \in Requests, NEW spaces \in SUBSET Spaces, Acquire(r, spaces) PROVE TypeOK'
  <2>1. inbox' \in Seq(Messages)
    BY <1>0, <1>1, MessageTyped DEF Acquire
  <2>2. at' \in [Requests -> Labels] /\ wants' \in [Requests -> SUBSET Spaces]
    BY <1>1 DEF Acquire, Labels
  <2> QED BY <1>1, <2>1, <2>2 DEF Acquire, thread
<1>2. ASSUME NEW r \in Requests, Cancel(r) PROVE TypeOK'
  <2>1. inbox' \in Seq(Messages)
    BY <1>0, <1>2, MessageTyped DEF Cancel
  <2>2. at' \in [Requests -> Labels]
    BY <1>2 DEF Cancel, Labels
  <2> QED BY <1>2, <2>1, <2>2 DEF Cancel, thread
<1>3. ASSUME NEW r \in Requests, Call(r) PROVE TypeOK'
  <2>1. inbox' \in Seq(Messages)
    BY <1>0, <1>3, MessageTyped DEF Call, Take, Release
  <2>2. at' \in [Requests -> Labels]
    BY <1>3 DEF Call, Take, Release, Labels
  <2> QED BY <1>3, <2>1, <2>2 DEF Call, Take, Release, thread
<1>4. CASE Receive
  <2>1. Head(inbox) \in Messages /\ Tail(inbox) \in Seq(Messages)
    BY <1>4 DEF Receive
  <2>2. Append(pending, Head(inbox).request) \in Seq(Requests)
    BY <2>1, MessageTyped
  <2>3. /\ inbox' \in Seq(Messages) /\ todo' \in Seq(Requests) /\ active' \subseteq Spaces
        /\ pending' = <<>> /\ blocked' = {} /\ scanning' = TRUE /\ UNCHANGED <<calls, granting>>
    BY <1>4, <2>1, <2>2 DEF Receive
  <2> QED BY <2>3 DEF calls
<1>5. CASE Examine
  <2>1. Head(todo) \in Requests /\ Tail(todo) \in Seq(Requests)
    BY <1>5 DEF Examine
  <2>2. Append(pending, Head(todo)) \in Seq(Requests) /\ wants[Head(todo)] \subseteq Spaces
    BY <2>1
  <2>3. /\ todo' \in Seq(Requests) /\ pending' \in Seq(Requests)
        /\ UNCHANGED <<calls, inbox, scanning>>
    BY <1>5, <2>1, <2>2 DEF Examine, Keep, Admit
  <2>4. active' \subseteq Spaces /\ blocked' \subseteq Spaces /\ granting' \subseteq Requests
    BY <1>5, <2>1, <2>2 DEF Examine, Keep, Admit
  <2> QED BY <2>3, <2>4 DEF calls
<1>6. ASSUME NEW r \in Requests, Reply(r) PROVE TypeOK'
  <2>1. inbox' \in Seq(Messages)
    BY <1>0, <1>6, MessageTyped DEF Reply
  <2>2. at' \in [Requests -> Labels]
    BY <1>6 DEF Reply, Labels
  <2> QED BY <1>6, <2>1, <2>2 DEF Reply
<1>7. CASE ScanEnds
  BY <1>7 DEF ScanEnds, calls
<1>8. CASE UNCHANGED vars
  BY <1>8 DEF vars, calls, thread
<1> QED BY <1>1, <1>2, <1>3, <1>4, <1>5, <1>6, <1>7, <1>8 DEF Next, Thread

(* Sending a message adds one message behind the others. *)
LEMMA SentBehind ==
  ASSUME TypeOK, NEW m \in Messages, inbox' = Append(inbox, m)
  PROVE  \E n \in Nat :
           /\ DOMAIN inbox' = 1..n /\ n \in DOMAIN inbox' /\ DOMAIN inbox = 1..(n - 1)
           /\ \A i \in DOMAIN inbox : inbox'[i] = inbox[i]
           /\ inbox'[n] = m
<1>1. inbox \in Seq(Messages)
  BY DEF TypeOK
<1>2. /\ DOMAIN inbox' = 1..(Len(inbox) + 1) /\ DOMAIN inbox = 1..Len(inbox)
      /\ \A i \in DOMAIN inbox : inbox'[i] = inbox[i]
      /\ inbox'[Len(inbox) + 1] = m
      /\ Len(inbox) \in Nat
  BY <1>1
<1> QED BY <1>2

(* Receiving one moves the others up by one place. *)
LEMMA ReceivedAhead ==
  ASSUME TypeOK, inbox # <<>>, inbox' = Tail(inbox)
  PROVE  /\ Head(inbox) = inbox[1] /\ 1 \in DOMAIN inbox
         /\ \A i \in DOMAIN inbox' : i + 1 \in DOMAIN inbox /\ i # 0 /\ i \in Nat
         /\ \A i \in DOMAIN inbox' : inbox'[i] = inbox[i + 1]
  BY DEF TypeOK

(* A release message joins the inbox when its reservation leaves the place *)
(* it was in: what the message carries belongs to nobody else.             *)
LEMMA ReleaseSent ==
  ASSUME ReservationInv, NEW r \in Requests,
         inbox' = Append(inbox, Releasing(r)),
         UNCHANGED <<wants, active, todo, pending>>,
         \/ r \in Owning /\ r \notin Owning' /\ granting' = granting
         \/ r \notin Owning /\ r \in granting /\ granting' = {},
         at[r] # "idle", at'[r] # "idle",
         \A q \in Requests : q # r => at'[q] = at[q],
         Owning' \subseteq Owning
  PROVE  SentInv' /\ ActiveInv' /\ DisjointInv'
<1> USE DEF ReservationInv
<1>1. Releasing(r) \in Messages /\ Releasing(r).type = "release" /\ Releasing(r).request = r
  BY DEF Releasing, Messages
<1>2. PICK n \in Nat :
        /\ DOMAIN inbox' = 1..n /\ n \in DOMAIN inbox' /\ DOMAIN inbox = 1..(n - 1)
        /\ \A i \in DOMAIN inbox : inbox'[i] = inbox[i]
        /\ inbox'[n] = Releasing(r)
  BY <1>1, SentBehind
<1>3. InFlight' = InFlight \cup {n}
  BY <1>1, <1>2 DEF InFlight
<1>4. \A i \in InFlight : Carried(i)' = Carried(i) /\ i # n
  BY <1>2 DEF InFlight, Carried
<1>5. Carried(n)' = wants[r]
  BY <1>1, <1>2 DEF Carried
<1>6. \A q \in Requests : at'[q] = "idle" <=> at[q] = "idle"
  OBVIOUS
<1>7. /\ \A i \in DOMAIN todo : todo[i] \in Requests
      /\ \A i \in DOMAIN pending : pending[i] \in Requests
      /\ \A i \in DOMAIN inbox : inbox[i].request \in Requests
      /\ granting \subseteq Requests /\ granting' \subseteq granting
  BY EntriesTyped
<1>8. SentInv'
  <2>1. \A q \in Requests : at'[q] = "idle" => wants'[q] = {}
    BY <1>6 DEF SentInv
  <2>2. \A i \in DOMAIN inbox' : at'[inbox'[i].request] # "idle"
    BY <1>1, <1>2, <1>6, <1>7 DEF SentInv
  <2>3. /\ \A i \in DOMAIN todo' : at'[todo'[i]] # "idle"
        /\ \A i \in DOMAIN pending' : at'[pending'[i]] # "idle"
        /\ \A q \in granting' : at'[q] # "idle"
    BY <1>6, <1>7 DEF SentInv
  <2> QED BY <2>1, <2>2, <2>3 DEF SentInv, InFlight
<1>9. ActiveInv'
  BY <1>3, <1>4, <1>5, <1>7 DEF ActiveInv
<1>10. DisjointInv'
  <2>1. \A q \in Owning' \cup granting' : wants[r] \cap wants[q] = {} \/ q = r
    BY <1>7 DEF DisjointInv
  <2>2. r \in Owning' \cup granting' => wants[r] = {}
    BY <1>7 DEF DisjointInv
  <2>3. \A i \in InFlight : Carried(i) \cap wants[r] = {}
    BY DEF DisjointInv
  <2>4. \A i \in InFlight', q \in Owning' \cup granting' : Carried(i)' \cap wants[q] = {}
    BY <1>3, <1>4, <1>5, <1>7, <2>1, <2>2 DEF DisjointInv
  <2>5. \A i, j \in InFlight' : i # j => Carried(i)' \cap Carried(j)' = {}
    BY <1>3, <1>4, <1>5, <2>3 DEF DisjointInv
  <2> QED BY <1>7, <2>4, <2>5 DEF DisjointInv
<1> QED BY <1>8, <1>9, <1>10

(* A step that moves no reservation keeps them apart. *)
LEMMA SamePlaces ==
  ASSUME SentInv, ActiveInv, DisjointInv,
         UNCHANGED <<at, wants, inbox, active, todo, pending, granting>>
  PROVE  SentInv' /\ ActiveInv' /\ DisjointInv'
<1>1. Owning' = Owning /\ InFlight' = InFlight /\ \A i \in InFlight : Carried(i)' = Carried(i)
  BY DEF Owning, InFlight, Carried
<1>2. SentInv'
  BY <1>1 DEF SentInv
<1>3. ActiveInv'
  BY <1>1 DEF ActiveInv
<1>4. DisjointInv'
  BY <1>1 DEF DisjointInv
<1> QED BY <1>2, <1>3, <1>4

(* Nothing is reserved at first. *)
LEMMA ReservationInit == Init => ReservationInv
<1> SUFFICES ASSUME Init PROVE ReservationInv
  OBVIOUS
<1>1. TypeOK
  <2>1. <<>> \in Seq(Messages) /\ <<>> \in Seq(Requests)
    OBVIOUS
  <2> QED BY <2>1 DEF Init, TypeOK, Labels
<1>2. InFlight = {} /\ Owning = {} /\ granting = {} /\ DOMAIN inbox = {}
      /\ DOMAIN todo = {} /\ DOMAIN pending = {}
  BY DEF Init, InFlight, Owning
<1>3. SentInv
  BY <1>2 DEF Init, SentInv
<1>4. ActiveInv /\ DisjointInv
  BY <1>2 DEF ActiveInv, DisjointInv
<1> QED BY <1>1, <1>3, <1>4 DEF ReservationInv

(* Each step keeps the places apart and covered. *)
LEMMA ReservationStep == ReservationInv /\ [Next]_vars => ReservationInv'
<1> SUFFICES ASSUME ReservationInv, [Next]_vars PROVE ReservationInv'
  OBVIOUS
<1> USE DEF ReservationInv
<1>0. TypeOK'
  BY TypeStep
<1>1. ASSUME NEW r \in Requests, NEW spaces \in SUBSET Spaces, Acquire(r, spaces)
      PROVE SentInv' /\ ActiveInv' /\ DisjointInv'
  <2>1. /\ Acquiring(r) \in Messages /\ Acquiring(r).type = "acquire"
        /\ Acquiring(r).request = r
    BY DEF Acquiring, Messages
  <2>2. PICK n \in Nat :
          /\ DOMAIN inbox' = 1..n /\ n \in DOMAIN inbox' /\ DOMAIN inbox = 1..(n - 1)
          /\ \A i \in DOMAIN inbox : inbox'[i] = inbox[i]
          /\ inbox'[n] = Acquiring(r)
    BY <1>1, <2>1, SentBehind DEF Acquire
  <2>3. InFlight' = InFlight
    BY <2>1, <2>2 DEF InFlight
  <2>4. \A q \in Requests : at[q] # "idle" => at'[q] = at[q] /\ wants'[q] = wants[q] /\ q # r
    BY <1>1 DEF Acquire, TypeOK
  <2>5. /\ \A i \in DOMAIN todo : todo[i] \in Requests
        /\ \A i \in DOMAIN pending : pending[i] \in Requests
        /\ \A i \in DOMAIN inbox : inbox[i].request \in Requests
        /\ granting \subseteq Requests
    BY EntriesTyped
  <2>6. Owning' = Owning /\ \A q \in Owning : wants'[q] = wants[q]
    BY <1>1 DEF Acquire, TypeOK, Owning
  <2>7. \A q \in granting : wants'[q] = wants[q]
    BY <2>4, <2>5 DEF SentInv
  <2>8. \A i \in InFlight : Carried(i)' = Carried(i)
    BY <2>2, <2>4, <2>5 DEF InFlight, Carried, SentInv
  <2>9. UNCHANGED <<todo, pending, granting, active>>
    BY <1>1 DEF Acquire, thread
  <2>10. at'[r] = "waiting" /\ \A q \in Requests : q # r => at'[q] = at[q] /\ wants'[q] = wants[q]
    BY <1>1 DEF Acquire, TypeOK
  <2>11. SentInv'
    <3>1. \A q \in Requests : at'[q] = "idle" => wants'[q] = {}
      BY <2>10 DEF SentInv
    <3>2. \A i \in DOMAIN inbox' : at'[inbox'[i].request] # "idle"
      BY <2>1, <2>2, <2>4, <2>5, <2>10 DEF SentInv
    <3> QED BY <3>1, <3>2, <2>3, <2>4, <2>5, <2>9 DEF SentInv, InFlight
  <2>12. ActiveInv'
    BY <2>3, <2>6, <2>7, <2>8, <2>9 DEF ActiveInv
  <2>13. DisjointInv'
    BY <2>3, <2>6, <2>7, <2>8, <2>9 DEF DisjointInv
  <2> QED BY <2>11, <2>12, <2>13
<1>2. ASSUME NEW r \in Requests, Cancel(r) PROVE SentInv' /\ ActiveInv' /\ DisjointInv'
  <2>1. /\ at'[r] = "cancelled" /\ \A q \in Requests : q # r => at'[q] = at[q]
        /\ UNCHANGED <<wants, active, todo, pending, granting>>
    BY <1>2 DEF Cancel, TypeOK, thread
  <2>2. CASE at[r] = "answered"
    BY <1>2, <2>1, <2>2, ReleaseSent DEF Cancel, Owning
  <2>3. CASE at[r] # "answered"
    <3>1. Owning' = Owning /\ inbox' = inbox
      BY <1>2, <2>1, <2>3 DEF Cancel, Owning
    <3>2. \A q \in Requests : at[q] # "idle" => at'[q] # "idle"
      BY <2>1
    <3>3. /\ \A i \in DOMAIN todo : todo[i] \in Requests
          /\ \A i \in DOMAIN pending : pending[i] \in Requests
          /\ \A i \in DOMAIN inbox : inbox[i].request \in Requests
          /\ granting \subseteq Requests
      BY EntriesTyped
    <3>4. SentInv'
      BY <2>1, <3>1, <3>2, <3>3 DEF SentInv, InFlight
    <3> QED BY <2>1, <3>1, <3>4 DEF ActiveInv, DisjointInv, InFlight, Carried
  <2> QED BY <2>2, <2>3
<1>3. ASSUME NEW r \in Requests, Call(r) PROVE SentInv' /\ ActiveInv' /\ DisjointInv'
  <2>1. CASE Release(r)
    BY <2>1, ReleaseSent DEF Release, Owning, TypeOK, thread
  <2>2. CASE Take(r)
    <3>1. Owning' = Owning /\ UNCHANGED <<inbox, wants, active, todo, pending, granting>>
      BY <2>2 DEF Take, Owning, TypeOK, thread
    <3>2. \A q \in Requests : at'[q] = "idle" <=> at[q] = "idle"
      BY <2>2 DEF Take, TypeOK
    <3>3. /\ \A i \in DOMAIN todo : todo[i] \in Requests
          /\ \A i \in DOMAIN pending : pending[i] \in Requests
          /\ \A i \in DOMAIN inbox : inbox[i].request \in Requests
          /\ granting \subseteq Requests
      BY EntriesTyped
    <3>4. SentInv'
      BY <3>1, <3>2, <3>3 DEF SentInv, InFlight
    <3> QED BY <3>1, <3>4 DEF ActiveInv, DisjointInv, InFlight, Carried
  <2> QED BY <1>3, <2>1, <2>2 DEF Call
<1>4. CASE Receive
  <2>1. /\ Head(inbox) = inbox[1] /\ 1 \in DOMAIN inbox
        /\ \A i \in DOMAIN inbox' : i + 1 \in DOMAIN inbox /\ i # 0 /\ i \in Nat
        /\ \A i \in DOMAIN inbox' : inbox'[i] = inbox[i + 1]
    BY <1>4, ReceivedAhead DEF Receive
  <2>2. Head(inbox) \in Messages /\ Head(inbox).request \in Requests
    <3>1. inbox \in Seq(Messages) /\ inbox # <<>>
      BY <1>4 DEF Receive, TypeOK
    <3>2. Head(inbox) \in Messages
      BY <3>1
    <3> QED BY <3>2, MessageTyped
  <2>3. UNCHANGED <<at, wants, granting>> /\ Owning' = Owning
    BY <1>4 DEF Receive, calls, Owning
  <2>4. \A i \in InFlight' : i + 1 \in InFlight /\ Carried(i)' = Carried(i + 1) /\ i + 1 # 1
    BY <2>1, <2>3 DEF InFlight, Carried
  <2>5. SentInv'
    <3>1. \A i \in DOMAIN inbox' : at'[inbox'[i].request] # "idle"
      BY <2>1, <2>3 DEF SentInv
    <3>2. /\ \A i \in DOMAIN todo' : at'[todo'[i]] # "idle"
          /\ \A i \in DOMAIN pending' : at'[pending'[i]] # "idle"
      <4>1. \A i \in DOMAIN pending' : at'[pending'[i]] # "idle"
        BY <1>4 DEF Receive
      <4>2. at[Head(inbox).request] # "idle"
        BY <2>1 DEF SentInv
      <4>3. CASE Head(inbox).type = "acquire"
        <5>1. todo' = Append(pending, Head(inbox).request)
          BY <1>4, <4>3 DEF Receive
        <5>2. pending \in Seq(Requests)
          BY DEF TypeOK
        <5>3. \A i \in DOMAIN todo' : todo'[i] = Head(inbox).request
                                        \/ (i \in DOMAIN pending /\ todo'[i] = pending[i])
          BY <2>2, <5>1, <5>2, Appended
        <5> QED BY <2>3, <4>1, <4>2, <5>3 DEF SentInv
      <4>4. CASE Head(inbox).type = "release"
        BY <1>4, <2>3, <4>1, <4>4 DEF Receive, SentInv
      <4> QED BY <2>2, <4>3, <4>4 DEF Messages
    <3> QED BY <2>3, <3>1, <3>2 DEF SentInv, InFlight
  <2>6. ActiveInv'
    <3>1. CASE Head(inbox).type = "acquire"
      BY <1>4, <2>3, <2>4, <3>1 DEF Receive, ActiveInv
    <3>2. CASE Head(inbox).type = "release"
      <4>1. 1 \in InFlight /\ Carried(1) = wants[Head(inbox).request]
        BY <2>1, <3>2 DEF InFlight, Carried
      <4>2. active' = active \ Carried(1)
        BY <1>4, <3>2, <4>1 DEF Receive
      <4>3. \A r \in Owning' \cup granting' : wants'[r] \subseteq active'
        BY <2>3, <4>1, <4>2 DEF ActiveInv, DisjointInv
      <4>4. \A i \in InFlight' : Carried(i)' \subseteq active'
        BY <2>4, <4>1, <4>2 DEF ActiveInv, DisjointInv
      <4> QED BY <4>3, <4>4 DEF ActiveInv
    <3> QED BY <2>2, <3>1, <3>2 DEF Messages
  <2>7. DisjointInv'
    <3>1. \A i, j \in InFlight' : i # j => i + 1 # j + 1
      BY <2>1 DEF InFlight
    <3>2. \A i, j \in InFlight' : i # j => Carried(i)' \cap Carried(j)' = {}
      BY <2>4, <3>1 DEF DisjointInv
    <3>3. \A i \in InFlight', r \in Owning \cup granting : Carried(i)' \cap wants[r] = {}
      BY <2>4 DEF DisjointInv
    <3>4. /\ \A r, q \in Owning : r # q => wants[r] \cap wants[q] = {}
          /\ \A r \in granting, q \in Owning : wants[r] \cap wants[q] = {}
          /\ \A r, q \in granting : r = q
      BY DEF DisjointInv
    <3>5. \A i \in InFlight', r \in (Owning \cup granting)' : Carried(i)' \cap wants'[r] = {}
      BY <2>3, <3>3
    <3> QED BY <2>3, <3>2, <3>4, <3>5 DEF DisjointInv
  <2> QED BY <1>0, <2>5, <2>6, <2>7
<1>5. CASE Examine
  <2>1. /\ UNCHANGED <<at, wants, inbox>> /\ Owning' = Owning /\ InFlight' = InFlight
        /\ \A i \in InFlight : Carried(i)' = Carried(i)
    BY <1>5 DEF Examine, calls, Owning, InFlight, Carried
  <2>2. Head(todo) = todo[1] /\ 1 \in DOMAIN todo /\ Head(todo) \in Requests
    BY <1>5 DEF Examine, TypeOK
  <2>3. \A i \in DOMAIN todo' : i + 1 \in DOMAIN todo /\ todo'[i] = todo[i + 1]
    BY <1>5 DEF Examine, TypeOK
  <2>4. at[Head(todo)] # "idle"
    BY <2>2 DEF SentInv
  <2>5. \A i \in DOMAIN pending' : pending'[i] = Head(todo)
                                     \/ (i \in DOMAIN pending /\ pending'[i] = pending[i])
    <3>1. pending \in Seq(Requests)
      BY DEF TypeOK
    <3>2. pending' = pending \/ pending' = Append(pending, Head(todo))
      BY <1>5 DEF Examine, Keep, Admit
    <3> QED BY <2>2, <3>1, <3>2, Appended, Zenon
  <2>6. granting = {} /\ granting' \subseteq {Head(todo)} /\ active \subseteq active'
    BY <1>5 DEF Examine, Keep, Admit
  <2>7. SentInv'
    <3>1. /\ \A i \in DOMAIN todo' : at'[todo'[i]] # "idle"
          /\ \A i \in DOMAIN pending' : at'[pending'[i]] # "idle"
          /\ \A r \in granting' : at'[r] # "idle"
      BY <2>1, <2>3, <2>4, <2>5, <2>6 DEF SentInv
    <3> QED BY <2>1, <3>1 DEF SentInv
  <2>8. granting' # {} => Free(Head(todo)) /\ active' = active \cup wants[Head(todo)]
    BY <1>5 DEF Examine, Keep, Admit
  <2>9. ActiveInv'
    BY <2>1, <2>6, <2>8 DEF ActiveInv
  <2>10. DisjointInv'
    <3>1. \A r \in granting', q \in Owning : wants[r] \cap wants[q] = {}
      BY <2>6, <2>8 DEF Free, ActiveInv
    <3>2. \A r \in granting', i \in InFlight : wants[r] \cap Carried(i) = {}
      BY <2>6, <2>8 DEF Free, ActiveInv
    <3>3. /\ \A r, q \in Owning : r # q => wants[r] \cap wants[q] = {}
          /\ \A i \in InFlight, r \in Owning : Carried(i) \cap wants[r] = {}
          /\ \A i, j \in InFlight : i # j => Carried(i) \cap Carried(j) = {}
      BY DEF DisjointInv
    <3>4. \A r, q \in granting' : r = q
      BY <2>6
    <3>5. \A i \in InFlight, r \in Owning \cup granting' : Carried(i) \cap wants[r] = {}
      BY <3>2, <3>3
    <3>6. \A i, j \in InFlight' : i # j => Carried(i)' \cap Carried(j)' = {}
      BY <2>1, <3>3
    <3>7. \A i \in InFlight', r \in (Owning \cup granting)' : Carried(i)' \cap wants'[r] = {}
      BY <2>1, <3>5
    <3> QED BY <2>1, <3>1, <3>3, <3>4, <3>6, <3>7 DEF DisjointInv
  <2> QED BY <1>0, <2>7, <2>9, <2>10
<1>6. ASSUME NEW r \in Requests, Reply(r) PROVE SentInv' /\ ActiveInv' /\ DisjointInv'
  <2>1. /\ r \in granting /\ at[r] # "idle" /\ granting' = {}
        /\ UNCHANGED <<wants, active, todo, pending>>
    BY <1>6 DEF Reply, SentInv
  <2>2. CASE at[r] = "cancelled"
    BY <1>6, <2>1, <2>2, ReleaseSent DEF Reply, Owning
  <2>3. CASE at[r] # "cancelled"
    <3>1. /\ inbox' = inbox /\ at'[r] = "answered"
          /\ \A q \in Requests : q # r => at'[q] = at[q]
      BY <1>6, <2>3 DEF Reply, TypeOK
    <3>2. Owning' = Owning \cup {r}
      BY <3>1 DEF Owning
    <3>3. InFlight' = InFlight /\ \A i \in InFlight : Carried(i)' = Carried(i)
      BY <2>1, <3>1 DEF InFlight, Carried
    <3>4. /\ \A i \in DOMAIN todo : todo[i] \in Requests
          /\ \A i \in DOMAIN pending : pending[i] \in Requests
          /\ \A i \in DOMAIN inbox : inbox[i].request \in Requests
      BY EntriesTyped
    <3>5. SentInv'
      <4>1. \A q \in Requests : at'[q] = "idle" => wants'[q] = {}
        BY <2>1, <3>1 DEF SentInv
      <4>2. \A q \in Requests : at[q] # "idle" => at'[q] # "idle"
        BY <3>1
      <4>3. /\ \A i \in DOMAIN todo' : at'[todo'[i]] # "idle"
            /\ \A i \in DOMAIN pending' : at'[pending'[i]] # "idle"
        BY <2>1, <3>4, <4>2 DEF SentInv
      <4>4. \A i \in DOMAIN inbox' : at'[inbox'[i].request] # "idle"
        BY <3>1, <3>4, <4>2 DEF SentInv
      <4> QED BY <2>1, <4>1, <4>3, <4>4 DEF SentInv, InFlight
    <3>6. ActiveInv'
      BY <2>1, <3>2, <3>3 DEF ActiveInv
    <3>7. DisjointInv'
      BY <2>1, <3>2, <3>3 DEF DisjointInv
    <3> QED BY <3>5, <3>6, <3>7
  <2> QED BY <2>2, <2>3
<1>7. CASE ScanEnds
  <2>1. UNCHANGED <<at, wants, inbox, active, todo, pending, granting>>
    BY <1>7 DEF ScanEnds, calls
  <2> QED BY <1>0, <2>1, SamePlaces
<1>8. CASE UNCHANGED vars
  <2>1. UNCHANGED <<at, wants, inbox, active, todo, pending, granting>>
    BY <1>8 DEF vars, calls, thread
  <2> QED BY <1>0, <2>1, SamePlaces
<1> QED BY <1>0, <1>1, <1>2, <1>3, <1>4, <1>5, <1>6, <1>7, <1>8 DEF Next, Thread

(* The reservation invariant holds in every reachable state. *)
THEOREM ReservationInvariant == Spec => []ReservationInv
<1>1. ReservationInv /\ [Next]_vars => ReservationInv'
  BY ReservationStep
<1> QED BY <1>1, ReservationInit, PTL DEF Spec

(* Every variable of the admission thread and of its callers keeps its     *)
(* type, for any number of calls and of Spaces.                            *)
THEOREM TypeHolds == Spec => []TypeOK
<1>1. ReservationInv => TypeOK
  BY DEF ReservationInv
<1> QED BY <1>1, ReservationInvariant, PTL

(* SpaceReservations::start never lets two operations own one Space.       *)
THEOREM ExclusionHolds == Spec => []MutualExclusion
<1>1. ReservationInv => MutualExclusion
  BY DEF ReservationInv, DisjointInv, MutualExclusion
<1> QED BY <1>1, ReservationInvariant, PTL

(* Every step of the thread and of the callers is a step of the atomic     *)
(* lock manager, or none: acquire takes all its Spaces at once.            *)
LEMMA ReservationRefines ==
  ReservationInv /\ [Next]_vars => [Reservations!Next]_(Reservations!vars)
<1> SUFFICES ASSUME ReservationInv, [Next]_vars
             PROVE  [Reservations!Next]_(Reservations!vars)
  OBVIOUS
<1> USE DEF ReservationInv
<1>0. SUFFICES ASSUME ~ UNCHANGED <<wants, Owning>> PROVE Reservations!Next
  BY DEF Reservations!vars
<1>1. ASSUME NEW r \in Requests, NEW spaces \in SUBSET Spaces, Acquire(r, spaces)
      PROVE Reservations!Next
  <2>1. r \notin Owning /\ wants[r] = {} /\ Owning' = Owning
    BY <1>1 DEF Acquire, Owning, SentInv, TypeOK
  <2>2. Reservations!Ask(r, spaces)
    BY <1>1, <2>1 DEF Acquire, Reservations!Ask
  <2> QED BY <2>2 DEF Reservations!Next
<1>2. ASSUME NEW r \in Requests, Cancel(r) \/ Release(r) PROVE Reservations!Next
  <2>1. wants' = wants /\ Owning' = Owning \ {r}
    BY <1>2 DEF Cancel, Release, Owning, TypeOK
  <2>2. r \in Owning
    BY <1>0, <2>1
  <2>3. Reservations!Release(r)
    BY <2>1, <2>2 DEF Reservations!Release
  <2> QED BY <2>3 DEF Reservations!Next
<1>3. ASSUME NEW r \in Requests, Take(r) PROVE FALSE
  BY <1>0, <1>3 DEF Take, Owning, TypeOK
<1>4. ASSUME NEW r \in Requests, Reply(r) PROVE Reservations!Next
  <2>1. wants' = wants /\ Owning' \in {Owning, Owning \cup {r}} /\ r \in granting
    BY <1>4 DEF Reply, Owning, TypeOK
  <2>2. r \notin Owning /\ Owning' = Owning \cup {r}
    BY <1>0, <2>1
  <2>3. wants[r] \cap Reservations!Owned = {}
    BY <2>1 DEF DisjointInv, Reservations!Owned
  <2>4. Reservations!Grant(r)
    BY <2>1, <2>2, <2>3 DEF Reservations!Grant
  <2> QED BY <2>4 DEF Reservations!Next
<1>5. CASE Receive \/ Examine \/ ScanEnds
  BY <1>0, <1>5 DEF Receive, Examine, ScanEnds, calls, Owning
<1>6. CASE UNCHANGED vars
  BY <1>0, <1>6 DEF vars, calls, Owning
<1> QED BY <1>1, <1>2, <1>3, <1>4, <1>5, <1>6 DEF Next, Thread, Call

(* The queue and the messages of SpaceReservations implement               *)
(* AtomicReservations.                                                     *)
THEOREM ReservationsImplemented == Spec => ImplementsReservations
<1>1. Init => Reservations!Init
  BY DEF Init, Reservations!Init, Owning
<1>2. ReservationInv /\ [Next]_vars => [Reservations!Next]_(Reservations!vars)
  BY ReservationRefines
<1> QED BY <1>1, <1>2, ReservationInvariant, PTL DEF Spec, ImplementsReservations, Reservations!Spec
----------------------------------------------------------------------------
(* The acquire messages the thread has not received. *)
Asked == {i \in DOMAIN inbox : inbox[i].type = "acquire"}

(* Calls are in the history once, from the moment they are sent.           *)
OrderInv ==
  /\ \A i \in DOMAIN order : at[order[i]] # "idle"
  /\ \A i, j \in DOMAIN order : order[i] = order[j] => i = j

(* Call q was sent before call r.                                          *)
Earlier(sent, q, r) == \E i, j \in DOMAIN sent : i < j /\ sent[i] = q /\ sent[j] = r

(* Nothing of a scan is left when it is over.                              *)
ScanInv == ~scanning => todo = <<>> /\ granting = {}

(* The entry being granted, the entries to look at and the messages stand  *)
(* in the order in which the calls were sent, and so do entries kept.      *)
LineInv ==
  /\ \A r \in granting : \A i \in DOMAIN todo : ~Earlier(order, todo[i], r)
  /\ \A r \in granting : \A i \in Asked : ~Earlier(order, inbox[i].request, r)
  /\ \A i \in DOMAIN todo, j \in Asked : ~Earlier(order, inbox[j].request, todo[i])
  /\ \A i \in DOMAIN pending, j \in Asked : ~Earlier(order, inbox[j].request, pending[i])
  /\ \A i \in DOMAIN pending, j \in DOMAIN todo : ~Earlier(order, todo[j], pending[i])
  /\ \A i, j \in DOMAIN pending : i < j => ~Earlier(order, pending[j], pending[i])
  /\ \A i, j \in DOMAIN todo : i < j => ~Earlier(order, todo[j], todo[i])
  /\ \A i, j \in Asked : i < j => ~Earlier(order, inbox[j].request, inbox[i].request)

(* A call that waits is in one of these places.                            *)
WaitInv ==
  \A q \in Requests : at[q] = "waiting" =>
    \/ q \in granting
    \/ \E i \in DOMAIN pending : pending[i] = q
    \/ \E i \in DOMAIN todo : todo[i] = q
    \/ \E i \in Asked : inbox[i].request = q

(* What kept entries want is blocked, and what is granted was not.         *)
BlockedInv ==
  /\ scanning => \A i \in DOMAIN pending : wants[pending[i]] \subseteq blocked
  /\ \A r \in granting : wants[r] \cap blocked = {}

QueueInv == OrderInv /\ ScanInv /\ LineInv /\ WaitInv /\ BlockedInv

(* A release message is no acquire message.                                *)
LEMMA AskedKept ==
  ASSUME TypeOK, inbox' = inbox \/ \E r \in Requests : inbox' = Append(inbox, Releasing(r))
  PROVE  Asked' = Asked /\ \A i \in Asked : inbox'[i] = inbox[i]
<1>1. CASE inbox' = inbox
  BY <1>1 DEF Asked
<1>2. ASSUME NEW r \in Requests, inbox' = Append(inbox, Releasing(r))
      PROVE  Asked' = Asked /\ \A i \in Asked : inbox'[i] = inbox[i]
  <2>1. Releasing(r) \in Messages /\ Releasing(r).type = "release"
    BY DEF Releasing, Messages
  <2>2. PICK n \in Nat :
          /\ DOMAIN inbox' = 1..n /\ n \in DOMAIN inbox' /\ DOMAIN inbox = 1..(n - 1)
          /\ \A i \in DOMAIN inbox : inbox'[i] = inbox[i]
          /\ inbox'[n] = Releasing(r)
    BY <1>2, <2>1, SentBehind
  <2>3. \A i \in DOMAIN inbox' : i \in DOMAIN inbox \/ i = n
    BY <2>2
  <2>4. \A i \in DOMAIN inbox : i \in DOMAIN inbox'
    BY <2>2
  <2> QED BY <2>1, <2>2, <2>3, <2>4 DEF Asked
<1> QED BY <1>1, <1>2

(* What is appended comes last.                                            *)
LEMMA AppendedLast ==
  ASSUME NEW s \in Seq(Requests), NEW x \in Requests, NEW t, t = Append(s, x)
  PROVE  \E n \in Nat : /\ DOMAIN t = 1..(n + 1) /\ DOMAIN s = 1..n /\ t[n + 1] = x
                        /\ \A i \in 1..n : t[i] = s[i]
<1>1. /\ Len(s) \in Nat /\ DOMAIN t = 1..(Len(s) + 1) /\ DOMAIN s = 1..Len(s) /\ t[Len(s) + 1] = x
      /\ \A i \in 1..Len(s) : t[i] = s[i]
  OBVIOUS
<1> QED BY <1>1

(* The rest of a queue moves up by one place.                              *)
LEMMA TailAhead ==
  ASSUME NEW s \in Seq(Requests), s # <<>>, NEW t, t = Tail(s)
  PROVE  \E n \in Nat : /\ DOMAIN s = 1..(n + 1) /\ DOMAIN t = 1..n
                        /\ Head(s) = s[1] /\ Head(s) \in Requests
                        /\ \A i \in 1..n : t[i] = s[i + 1]
<1>1. /\ Len(s) \in Nat /\ Len(s) > 0 /\ DOMAIN s = 1..Len(s) /\ DOMAIN t = 1..(Len(s) - 1)
      /\ Head(s) = s[1] /\ s[1] \in Requests
      /\ \A i \in 1..(Len(s) - 1) : t[i] = s[i + 1]
  OBVIOUS
<1>2. (Len(s) - 1) \in Nat /\ (Len(s) - 1) + 1 = Len(s)
  BY <1>1
<1> QED BY <1>1, <1>2

(* Nobody is in a queue at first.                                          *)
LEMMA QueueInit == Init => QueueInv
<1> SUFFICES ASSUME Init PROVE QueueInv
  OBVIOUS
<1>1. DOMAIN inbox = {} /\ DOMAIN todo = {} /\ DOMAIN pending = {} /\ DOMAIN order = {} /\ Asked = {}
  BY DEF Init, Asked
<1> QED BY <1>1 DEF Init, QueueInv, OrderInv, ScanInv, LineInv, WaitInv, BlockedInv

(* Steps of callers that hold, get or give up a reservation, and answers,  *)
(* leave the line as it is.                                                *)
LEMMA LineStays ==
  ASSUME ReservationInv, QueueInv,
         UNCHANGED <<wants, order, pending, todo, blocked, scanning>>,
         inbox' = inbox \/ \E r \in Requests : inbox' = Append(inbox, Releasing(r)),
         granting' \subseteq granting,
         \A q \in Requests : at'[q] = "waiting" => at[q] = "waiting" /\ (q \in granting' \/ q \notin granting),
         \A q \in Requests : at[q] # "idle" => at'[q] # "idle"
  PROVE  QueueInv'
<1>1. Asked' = Asked /\ \A i \in Asked : inbox'[i] = inbox[i]
  BY AskedKept DEF ReservationInv
<1>2. order' = order
  OBVIOUS
<1>3. \A i \in DOMAIN order : order[i] \in Requests
  BY DEF ReservationInv, TypeOK
<1>4. OrderInv'
  BY <1>3 DEF QueueInv, OrderInv
<1>5. ScanInv'
  BY DEF QueueInv, ScanInv
<1>6. LineInv'
  BY <1>1, <1>2 DEF QueueInv, LineInv
<1>7. WaitInv'
  BY <1>1 DEF QueueInv, WaitInv
<1>8. BlockedInv'
  BY DEF QueueInv, BlockedInv
<1> QED BY <1>4, <1>5, <1>6, <1>7, <1>8 DEF QueueInv

(* The thread looks at its queue in order, and keeps it in order; a new    *)
(* call goes to the end of the line.                                       *)
LEMMA QueueStep ==
  ASSUME ReservationInv, ReservationInv', QueueInv, [Next]_vars
  PROVE  QueueInv'
<1> USE DEF ReservationInv
<1>t. /\ \A i \in DOMAIN todo : todo[i] \in Requests
      /\ \A i \in DOMAIN pending : pending[i] \in Requests
      /\ \A i \in DOMAIN inbox : inbox[i] \in Messages /\ inbox[i].request \in Requests
      /\ granting \subseteq Requests
      /\ at \in [Requests -> Labels] /\ wants \in [Requests -> SUBSET Spaces]
      /\ pending \in Seq(Requests) /\ todo \in Seq(Requests) /\ order \in Seq(Requests)
      /\ \A i \in DOMAIN order : order[i] \in Requests
  BY EntriesTyped DEF TypeOK
<1>1. ASSUME NEW r \in Requests, NEW spaces \in SUBSET Spaces, Acquire(r, spaces)
      PROVE  QueueInv'
  <2>1. /\ Acquiring(r) \in Messages /\ Acquiring(r).type = "acquire" /\ Acquiring(r).request = r
    BY DEF Acquiring, Messages
  <2>2. /\ at[r] = "idle" /\ at' = [at EXCEPT ![r] = "waiting"] /\ wants' = [wants EXCEPT ![r] = spaces]
        /\ order' = Append(order, r) /\ inbox' = Append(inbox, Acquiring(r))
        /\ UNCHANGED <<pending, todo, blocked, scanning, granting>>
    BY <1>1 DEF Acquire, thread
  <2>3. PICK n \in Nat :
          /\ DOMAIN inbox' = 1..n /\ n \in DOMAIN inbox' /\ DOMAIN inbox = 1..(n - 1)
          /\ \A i \in DOMAIN inbox : inbox'[i] = inbox[i]
          /\ inbox'[n] = Acquiring(r)
    BY <2>1, <2>2, SentBehind
  <2>4. Asked' = Asked \cup {n} /\ (\A i \in Asked : inbox'[i] = inbox[i] /\ i # n /\ i < n) /\ inbox'[n].request = r
    BY <2>1, <2>3 DEF Asked
  <2>5. PICK m \in Nat : /\ DOMAIN order' = 1..(m + 1) /\ DOMAIN order = 1..m /\ order'[m + 1] = r
                         /\ \A i \in 1..m : order'[i] = order[i]
    BY <1>t, <2>2
  <2>6. \A i \in 1..m : order[i] # r /\ order[i] \in Requests
    BY <1>t, <2>2, <2>5 DEF QueueInv, OrderInv
  <2>7. \A x, y \in Requests : x # r /\ Earlier(order', y, x) => Earlier(order, y, x)
    <3> SUFFICES ASSUME NEW x \in Requests, NEW y \in Requests, x # r, Earlier(order', y, x)
                 PROVE  Earlier(order, y, x)
      OBVIOUS
    <3>1. \A j \in 1..(m + 1) : order'[j] = x => j \in 1..m
      BY <2>5
    <3>2. \A i \in 1..(m + 1), j \in 1..m : i < j => i \in 1..m
      OBVIOUS
    <3>3. \A i, j \in 1..m : order'[i] = order[i] /\ order'[j] = order[j] /\ i \in 1..(m + 1)
      BY <2>5
    <3> QED BY <2>5, <3>1, <3>2, <3>3 DEF Earlier
  <2>8. \A x \in Requests : ~Earlier(order, r, x)
    BY <2>5, <2>6 DEF Earlier
  <2>9. /\ \A i \in DOMAIN todo : todo[i] # r
        /\ \A i \in DOMAIN pending : pending[i] # r
        /\ r \notin granting
        /\ \A i \in Asked : inbox[i].request # r
    BY <2>2 DEF SentInv, Asked
  <2>10. OrderInv'
    <3>1. \A i \in DOMAIN order' : i \in 1..m \/ i = m + 1
      BY <2>5
    <3>2. \A i \in DOMAIN order' : at'[order'[i]] # "idle"
      BY <1>t, <2>2, <2>5, <2>6, <3>1 DEF QueueInv, OrderInv
    <3>3. \A i, j \in DOMAIN order' : order'[i] = order'[j] => i = j
      BY <2>5, <2>6, <3>1 DEF QueueInv, OrderInv
    <3> QED BY <3>2, <3>3 DEF OrderInv
  <2>11. ScanInv'
    BY <2>2 DEF QueueInv, ScanInv
  <2>12. LineInv'
    <3>1. \A x, y \in Requests : x # r /\ (y = r \/ ~Earlier(order, y, x)) => ~Earlier(order', y, x)
      BY <2>7, <2>8
    <3>2. \A j \in Asked' : (j \in Asked /\ inbox'[j] = inbox[j]) \/ (j = n /\ inbox'[j].request = r)
      BY <2>4
    <3>3. \A i, j \in Asked' : i < j => i \in Asked
      BY <2>3, <2>4 DEF Asked
    <3>4. \A i \in Asked : inbox[i].request \in Requests
      BY <1>t DEF Asked
    <3>5. \A x \in granting : \A i \in DOMAIN todo : ~Earlier(order', todo[i], x)
      BY <1>t, <2>9, <3>1 DEF QueueInv, LineInv
    <3>6. \A x \in granting : \A i \in Asked' : ~Earlier(order', inbox'[i].request, x)
      BY <1>t, <2>9, <3>1, <3>2, <3>4 DEF QueueInv, LineInv
    <3>7. \A i \in DOMAIN todo, j \in Asked' : ~Earlier(order', inbox'[j].request, todo[i])
      BY <1>t, <2>9, <3>1, <3>2, <3>4 DEF QueueInv, LineInv
    <3>8. \A i \in DOMAIN pending, j \in Asked' : ~Earlier(order', inbox'[j].request, pending[i])
      BY <1>t, <2>9, <3>1, <3>2, <3>4 DEF QueueInv, LineInv
    <3>9. \A i \in DOMAIN pending, j \in DOMAIN todo : ~Earlier(order', todo[j], pending[i])
      BY <1>t, <2>9, <3>1 DEF QueueInv, LineInv
    <3>10. \A i, j \in DOMAIN pending : i < j => ~Earlier(order', pending[j], pending[i])
      BY <1>t, <2>9, <3>1 DEF QueueInv, LineInv
    <3>11. \A i, j \in DOMAIN todo : i < j => ~Earlier(order', todo[j], todo[i])
      BY <1>t, <2>9, <3>1 DEF QueueInv, LineInv
    <3>12. \A i, j \in Asked' : i < j => ~Earlier(order', inbox'[j].request, inbox'[i].request)
      <4> SUFFICES ASSUME NEW i \in Asked', NEW j \in Asked', i < j
                   PROVE  ~Earlier(order', inbox'[j].request, inbox'[i].request)
        OBVIOUS
      <4>1. i \in Asked /\ inbox'[i] = inbox[i] /\ inbox[i].request # r /\ inbox[i].request \in Requests
        BY <2>4, <2>9, <3>3, <3>4
      <4> QED BY <2>9, <3>1, <3>2, <3>4, <4>1 DEF QueueInv, LineInv
    <3> QED BY <2>2, <3>5, <3>6, <3>7, <3>8, <3>9, <3>10, <3>11, <3>12 DEF LineInv
  <2>13. WaitInv'
    <3> SUFFICES ASSUME NEW q \in Requests, at'[q] = "waiting"
                 PROVE  \/ q \in granting
                        \/ \E i \in DOMAIN pending : pending[i] = q
                        \/ \E i \in DOMAIN todo : todo[i] = q
                        \/ \E i \in Asked' : inbox'[i].request = q
      BY <2>2 DEF WaitInv
    <3>1. CASE q = r
      BY <2>4, <3>1
    <3>2. CASE q # r
      <4>1. at[q] = "waiting"
        BY <1>t, <2>2, <3>2
      <4>2. ASSUME NEW i \in Asked, inbox[i].request = q
            PROVE  \E j \in Asked' : inbox'[j].request = q
        BY <2>4, <4>2
      <4> QED BY <4>1, <4>2 DEF QueueInv, WaitInv
    <3> QED BY <3>1, <3>2
  <2>14. BlockedInv'
    BY <1>t, <2>2, <2>9 DEF QueueInv, BlockedInv
  <2> QED BY <2>10, <2>11, <2>12, <2>13, <2>14 DEF QueueInv
<1>2. ASSUME NEW r \in Requests, Cancel(r) \/ Call(r)
      PROVE  QueueInv'
  <2>1. /\ UNCHANGED <<wants, order, pending, todo, blocked, scanning, granting>>
        /\ inbox' = inbox \/ inbox' = Append(inbox, Releasing(r))
    BY <1>2 DEF Cancel, Call, Take, Release, thread
  <2>2. \A q \in Requests : (at'[q] = "waiting" => at[q] = "waiting") /\ (at[q] # "idle" => at'[q] # "idle")
    BY <1>t, <1>2 DEF Cancel, Call, Take, Release
  <2> QED BY <2>1, <2>2, LineStays
<1>3. ASSUME NEW r \in Requests, Reply(r)
      PROVE  QueueInv'
  <2>1. /\ UNCHANGED <<wants, order, pending, todo, blocked, scanning>> /\ granting' = {} /\ r \in granting
        /\ inbox' = inbox \/ inbox' = Append(inbox, Releasing(r))
    BY <1>3 DEF Reply
  <2>2. \A q \in granting : q = r
    BY <2>1 DEF DisjointInv
  <2>3. \A q \in Requests : (at'[q] = "waiting" => at[q] = "waiting" /\ q # r) /\ (at[q] # "idle" => at'[q] # "idle")
    BY <1>t, <1>3 DEF Reply
  <2>4. \A q \in Requests : at'[q] = "waiting" => at[q] = "waiting" /\ q \notin granting
    BY <2>2, <2>3
  <2> QED BY <2>1, <2>3, <2>4, LineStays
<1>4. CASE Receive
  <2>1. /\ ~scanning /\ inbox # <<>> /\ inbox' = Tail(inbox) /\ pending' = <<>> /\ blocked' = {}
        /\ UNCHANGED <<at, wants, order, granting>>
        /\ todo = <<>> /\ granting = {} /\ scanning' = TRUE
    BY <1>4 DEF Receive, calls, QueueInv, ScanInv
  <2>2. /\ Head(inbox) = inbox[1] /\ 1 \in DOMAIN inbox
        /\ \A i \in DOMAIN inbox' : i + 1 \in DOMAIN inbox /\ i # 0 /\ i \in Nat
        /\ \A i \in DOMAIN inbox' : inbox'[i] = inbox[i + 1]
    BY <2>1, ReceivedAhead
  <2>3. \A i \in DOMAIN inbox : i = 1 \/ (i - 1 \in DOMAIN inbox' /\ inbox'[i - 1] = inbox[i] /\ i \in Nat)
    BY <2>1 DEF TypeOK
  <2>4. order' = order
    BY <2>1
  <2>5. DOMAIN pending' = {} /\ DOMAIN todo = {}
    BY <2>1
  <2>6. \A i \in Asked' : i + 1 \in Asked /\ inbox'[i].request = inbox[i + 1].request /\ i \in Nat /\ i # 0
    BY <2>2 DEF Asked
  <2>7. OrderInv' /\ ScanInv'
    BY <2>1 DEF QueueInv, OrderInv, ScanInv
  <2>8. BlockedInv'
    BY <2>1, <2>5 DEF BlockedInv
  <2>9. \A i, j \in Asked' : i < j => ~Earlier(order', inbox'[j].request, inbox'[i].request)
    <3> SUFFICES ASSUME NEW i \in Asked', NEW j \in Asked', i < j
                 PROVE  ~Earlier(order, inbox[j + 1].request, inbox[i + 1].request)
      BY <2>4, <2>6
    <3>1. i + 1 \in Asked /\ j + 1 \in Asked /\ i + 1 < j + 1
      BY <2>6
    <3> QED BY <3>1 DEF QueueInv, LineInv
  <2>10. CASE inbox[1].type = "acquire" /\ todo' = Append(pending, inbox[1].request)
    <3> DEFINE r == inbox[1].request
    <3>1. 1 \in Asked /\ r \in Requests
      BY <1>t, <2>2, <2>10 DEF Asked
    <3>2. PICK n \in Nat : /\ DOMAIN todo' = 1..(n + 1) /\ DOMAIN pending = 1..n /\ todo'[n + 1] = r
                           /\ \A i \in 1..n : todo'[i] = pending[i]
      <4>1. pending \in Seq(Requests) /\ r \in Requests /\ todo' = Append(pending, r)
        BY <1>t, <2>10, <3>1
      <4> HIDE DEF r
      <4> QED BY ONLY <4>1, AppendedLast
    <3>3. \A i \in DOMAIN todo' : (i \in DOMAIN pending /\ todo'[i] = pending[i]) \/ (i = n + 1 /\ todo'[i] = r)
      BY <3>2
    <3>4. \A i \in DOMAIN todo', j \in Asked' : ~Earlier(order, inbox'[j].request, todo'[i])
      <4> SUFFICES ASSUME NEW i \in DOMAIN todo', NEW j \in Asked'
                   PROVE  ~Earlier(order, inbox[j + 1].request, todo'[i])
        BY <2>6
      <4>1. j + 1 \in Asked /\ 1 < j + 1
        BY <2>6
      <4>2. ~Earlier(order, inbox[j + 1].request, r)
        BY <3>1, <4>1 DEF QueueInv, LineInv
      <4> QED BY <3>3, <4>1, <4>2 DEF QueueInv, LineInv
    <3>5. \A i, j \in DOMAIN todo' : i < j => ~Earlier(order, todo'[j], todo'[i])
      <4> SUFFICES ASSUME NEW i \in DOMAIN todo', NEW j \in DOMAIN todo', i < j
                   PROVE  ~Earlier(order, todo'[j], todo'[i])
        OBVIOUS
      <4>1. i \in DOMAIN pending /\ todo'[i] = pending[i]
        BY <3>2
      <4> QED BY <3>1, <3>3, <4>1 DEF QueueInv, LineInv
    <3>6. LineInv'
      BY <2>1, <2>4, <2>5, <2>9, <3>4, <3>5 DEF LineInv
    <3>7. WaitInv'
      <4> SUFFICES ASSUME NEW q \in Requests, at[q] = "waiting"
                   PROVE  (\E i \in DOMAIN todo' : todo'[i] = q) \/ \E i \in Asked' : inbox'[i].request = q
        BY <2>1 DEF WaitInv
      <4>1. CASE \E i \in DOMAIN pending : pending[i] = q
        BY <3>2, <4>1
      <4>2. CASE \E i \in Asked : inbox[i].request = q
        <5>1. PICK i \in Asked : inbox[i].request = q
          BY <4>2
        <5>2. CASE i = 1
          BY <3>2, <5>1, <5>2
        <5>3. CASE i # 1
          BY <2>3, <5>1, <5>3 DEF Asked
        <5> QED BY <5>2, <5>3
      <4> QED BY <2>1, <2>5, <4>1, <4>2 DEF QueueInv, WaitInv
    <3> QED BY <2>7, <2>8, <3>6, <3>7 DEF QueueInv
  <2>11. CASE inbox[1].type = "release" /\ todo' = pending
    <3>1. \A i \in DOMAIN todo', j \in Asked' : ~Earlier(order, inbox'[j].request, todo'[i])
      BY <2>6, <2>11 DEF QueueInv, LineInv
    <3>2. \A i, j \in DOMAIN todo' : i < j => ~Earlier(order, todo'[j], todo'[i])
      BY <2>11 DEF QueueInv, LineInv
    <3>3. LineInv'
      BY <2>1, <2>4, <2>5, <2>9, <3>1, <3>2 DEF LineInv
    <3>4. \A i \in Asked : i # 1
      BY <2>11 DEF Asked
    <3>5. \A i \in Asked : i - 1 \in Asked' /\ inbox'[i - 1].request = inbox[i].request
      BY <2>3, <3>4 DEF Asked
    <3>6. WaitInv'
      <4> SUFFICES ASSUME NEW q \in Requests, at[q] = "waiting"
                   PROVE  (\E i \in DOMAIN todo' : todo'[i] = q) \/ \E i \in Asked' : inbox'[i].request = q
        BY <2>1 DEF WaitInv
      <4>1. ASSUME NEW i \in Asked, inbox[i].request = q
            PROVE  \E j \in Asked' : inbox'[j].request = q
        BY <3>5, <4>1
      <4> QED BY <2>1, <2>5, <2>11, <4>1 DEF QueueInv, WaitInv
    <3> QED BY <2>7, <2>8, <3>3, <3>6 DEF QueueInv
  <2> QED BY <1>4, <2>2, <2>10, <2>11 DEF Receive
<1>5. CASE Examine
  <2> DEFINE r == Head(todo)
  <2>1. /\ scanning /\ granting = {} /\ todo # <<>> /\ todo' = Tail(todo)
        /\ UNCHANGED <<at, wants, order, inbox, scanning>>
    BY <1>5 DEF Examine, calls
  <2>2. PICK n \in Nat : /\ DOMAIN todo = 1..(n + 1) /\ DOMAIN todo' = 1..n /\ r = todo[1] /\ r \in Requests
                         /\ \A i \in 1..n : todo'[i] = todo[i + 1]
    BY <1>t, <2>1, TailAhead
  <2>3. order' = order
    BY <2>1
  <2>4. Asked' = Asked
    BY <2>1 DEF Asked
  <2>5. \A i \in DOMAIN todo' : i + 1 \in DOMAIN todo /\ todo'[i] = todo[i + 1] /\ 1 < i + 1 /\ 1 \in DOMAIN todo
    BY <2>2
  <2>6. /\ \A i \in DOMAIN todo' : ~Earlier(order, todo'[i], r)
        /\ \A j \in Asked : ~Earlier(order, inbox[j].request, r)
        /\ \A i \in DOMAIN pending : ~Earlier(order, r, pending[i])
    BY <2>2, <2>5 DEF QueueInv, LineInv
  <2>7. /\ \A i \in DOMAIN todo', j \in Asked : ~Earlier(order, inbox[j].request, todo'[i])
        /\ \A i \in DOMAIN pending, j \in DOMAIN todo' : ~Earlier(order, todo'[j], pending[i])
    BY <2>5 DEF QueueInv, LineInv
  <2>8. \A i, j \in DOMAIN todo' : i < j => ~Earlier(order, todo'[j], todo'[i])
    <3> SUFFICES ASSUME NEW i \in DOMAIN todo', NEW j \in DOMAIN todo', i < j
                 PROVE  ~Earlier(order, todo[j + 1], todo[i + 1])
      BY <2>5
    <3>1. i + 1 \in DOMAIN todo /\ j + 1 \in DOMAIN todo /\ i + 1 < j + 1
      BY <2>2
    <3> QED BY <3>1 DEF QueueInv, LineInv
  <2>9. OrderInv' /\ ScanInv'
    BY <2>1 DEF QueueInv, OrderInv, ScanInv
  <2>10. \A q \in Requests : at[q] = "waiting" =>
           \/ q = r
           \/ \E i \in DOMAIN pending : pending[i] = q
           \/ \E i \in DOMAIN todo' : todo'[i] = q
           \/ \E i \in Asked : inbox[i].request = q
    <3> SUFFICES ASSUME NEW q \in Requests, NEW i \in DOMAIN todo, todo[i] = q, q # r
                 PROVE  \E j \in DOMAIN todo' : todo'[j] = q
      BY <2>1 DEF QueueInv, WaitInv
    <3>1. i # 1 /\ i - 1 \in DOMAIN todo' /\ todo'[i - 1] = q
      BY <2>2
    <3> QED BY <3>1
  <2>11. CASE at[r] = "cancelled" /\ UNCHANGED <<active, pending, blocked, granting>>
    <3>1. LineInv'
      BY <2>1, <2>3, <2>4, <2>7, <2>8, <2>11 DEF QueueInv, LineInv
    <3>2. WaitInv'
      BY <2>1, <2>4, <2>10, <2>11 DEF WaitInv
    <3>3. BlockedInv'
      BY <2>1, <2>11 DEF QueueInv, BlockedInv
    <3> QED BY <2>9, <3>1, <3>2, <3>3 DEF QueueInv
  <2>12. CASE Keep(r)
    <3>1. pending' = Append(pending, r) /\ blocked' = blocked \cup wants[r] /\ granting' = {}
      BY <2>1, <2>12 DEF Keep
    <3>2. PICK m \in Nat : /\ DOMAIN pending' = 1..(m + 1) /\ DOMAIN pending = 1..m /\ pending'[m + 1] = r
                           /\ \A i \in 1..m : pending'[i] = pending[i]
      BY <1>t, <2>2, <3>1, AppendedLast
    <3>3. \A i \in DOMAIN pending' :
            (i \in DOMAIN pending /\ pending'[i] = pending[i]) \/ (i = m + 1 /\ pending'[i] = r)
      BY <3>2
    <3>4. \A i, j \in DOMAIN pending' : i < j => ~Earlier(order, pending'[j], pending'[i])
      <4> SUFFICES ASSUME NEW i \in DOMAIN pending', NEW j \in DOMAIN pending', i < j
                   PROVE  ~Earlier(order, pending'[j], pending'[i])
        OBVIOUS
      <4>1. i \in DOMAIN pending /\ pending'[i] = pending[i]
        BY <3>2
      <4> QED BY <2>6, <3>3, <4>1 DEF QueueInv, LineInv
    <3>5. LineInv'
      <4>1. /\ \A i \in DOMAIN pending', j \in Asked : ~Earlier(order, inbox[j].request, pending'[i])
            /\ \A i \in DOMAIN pending', j \in DOMAIN todo' : ~Earlier(order, todo'[j], pending'[i])
        BY <2>6, <2>7, <3>3 DEF QueueInv, LineInv
      <4> QED BY <2>1, <2>3, <2>4, <2>7, <2>8, <3>1, <3>4, <4>1 DEF QueueInv, LineInv
    <3>6. WaitInv'
      BY <2>1, <2>4, <2>10, <3>2 DEF WaitInv
    <3>7. BlockedInv'
      BY <1>t, <2>1, <3>1, <3>3 DEF QueueInv, BlockedInv
    <3> QED BY <2>9, <3>5, <3>6, <3>7 DEF QueueInv
  <2>13. CASE Free(r) /\ Admit(r)
    <3>1. granting' = {r} /\ UNCHANGED <<pending, blocked>> /\ wants[r] \cap blocked = {}
      BY <2>13 DEF Admit, Free
    <3>2. LineInv'
      BY <2>1, <2>3, <2>4, <2>6, <2>7, <2>8, <3>1 DEF QueueInv, LineInv
    <3>3. WaitInv'
      BY <2>1, <2>4, <2>10, <3>1 DEF WaitInv
    <3>4. BlockedInv'
      BY <2>1, <3>1 DEF QueueInv, BlockedInv
    <3>5. OrderInv' /\ ScanInv'
      BY <2>1 DEF QueueInv, OrderInv, ScanInv
    <3> QED BY <3>2, <3>3, <3>4, <3>5 DEF QueueInv
  <2> QED BY <1>5, <2>11, <2>12, <2>13 DEF Examine
<1>6. CASE ScanEnds \/ UNCHANGED vars
  <2>1. /\ UNCHANGED <<at, wants, order, inbox, active, pending, todo, blocked, granting>>
        /\ scanning' = scanning \/ (scanning' = FALSE /\ granting = {} /\ todo = <<>>)
    BY <1>6 DEF ScanEnds, vars, calls, thread
  <2>2. order' = order /\ Asked' = Asked
    BY <2>1 DEF Asked
  <2>3. OrderInv' /\ ScanInv'
    BY <2>1 DEF QueueInv, OrderInv, ScanInv
  <2>4. LineInv'
    BY <2>1, <2>2 DEF QueueInv, LineInv
  <2>5. WaitInv' /\ BlockedInv'
    BY <2>1, <2>2 DEF QueueInv, WaitInv, BlockedInv
  <2> QED BY <2>3, <2>4, <2>5 DEF QueueInv
<1> QED BY <1>1, <1>2, <1>3, <1>4, <1>5, <1>6 DEF Next, Thread

(* The queue is in order in every reachable state.                         *)
THEOREM QueueInvariant == Spec => []QueueInv
<1>1. Init => QueueInv
  BY QueueInit
<1>2. ReservationInv /\ ReservationInv' /\ QueueInv /\ [Next]_vars => QueueInv'
  BY QueueStep
<1> QED BY <1>1, <1>2, ReservationInvariant, PTL DEF Spec

(* Whoever is admitted passes nobody who asked earlier, still waits, and   *)
(* wants one of the same Spaces: admit_pending keeps what it cannot admit  *)
(* and blocks its Spaces for everybody behind.                             *)
THEOREM NoOvertakingHolds == Spec => NoOvertaking
<1> DEFINE InTurn == \A r \in Owning' \ Owning, q \in Requests :
                       q \in Before(r) /\ at[q] = "waiting" => wants[q] \cap wants[r] = {}
<1>1. ReservationInv /\ QueueInv /\ [Next]_vars => [InTurn]_vars
  <2> SUFFICES ASSUME ReservationInv, QueueInv, Next, NEW r \in Owning' \ Owning, NEW q \in Requests,
                      q \in Before(r), at[q] = "waiting"
               PROVE  wants[q] \cap wants[r] = {}
    OBVIOUS
  <2>t. at \in [Requests -> Labels] /\ r \in Requests /\ at'[r] \in {"answered", "held"}
        /\ at[r] \notin {"answered", "held"}
    BY DEF ReservationInv, TypeOK, Owning
  <2>1. PICK x \in Requests : Reply(x)
    <3>1. ASSUME NEW x \in Requests, Cancel(x) \/ Call(x) \/ \E spaces \in SUBSET Spaces : Acquire(x, spaces)
          PROVE  FALSE
      BY <2>t, <3>1 DEF Cancel, Call, Take, Release, Acquire
    <3>2. ASSUME Receive \/ Examine \/ ScanEnds PROVE FALSE
      BY <2>t, <3>2 DEF Receive, Examine, ScanEnds, calls
    <3> QED BY <3>1, <3>2 DEF Next, Thread
  <2>2. x = r /\ r \in granting
    BY <2>t, <2>1 DEF Reply
  <2>3. \A y \in granting : y = r
    BY <2>2 DEF ReservationInv, DisjointInv
  <2>4. q # r
    <3>1. PICK i \in DOMAIN order, j \in DOMAIN order : i < j /\ order[i] = q /\ order[j] = r
      BY DEF Before
    <3>2. order \in Seq(Requests) /\ i \in Nat /\ j \in Nat
      BY DEF ReservationInv, TypeOK
    <3> QED BY <3>1, <3>2 DEF QueueInv, OrderInv
  <2>5. scanning
    BY <2>2 DEF QueueInv, ScanInv
  <2>6. PICK i \in DOMAIN pending : pending[i] = q
    <3>1. Earlier(order, q, r)
      BY DEF Before, Earlier
    <3> QED BY <2>2, <2>3, <2>4, <3>1 DEF QueueInv, WaitInv, LineInv
  <2> QED BY <2>2, <2>5, <2>6 DEF QueueInv, BlockedInv
<1>2. Spec => [][InTurn]_vars
  <2> HIDE DEF InTurn
  <2> QED BY <1>1, ReservationInvariant, QueueInvariant, PTL DEF Spec
<1> QED BY <1>2 DEF NoOvertaking
=============================================================================
