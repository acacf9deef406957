-------------------------- MODULE AttemptProofs --------------------------
(***************************************************************************)
(* Proofs about Generation for any attempts, Spaces and scripts of the     *)
(* provider.  The map of gates keeps only a weak reference: that it is     *)
(* still the gate of the Space rests on what the attempts hold.  What a    *)
(* client has read and what waits for it in the channel are one line of    *)
(* events, numbered below the next number of the task; and while the       *)
(* client stays, what that line has told is what the task has gathered of  *)
(* the chunks of its provider.                                             *)
(*                                                                         *)
(* Then about StateOperations, the journal of MO State, for any responses, *)
(* sources, contents and bounds: what an attempt observed stays known to   *)
(* the row of its source, and what it holds until it publishes cannot be   *)
(* published by another.                                                   *)
(***************************************************************************)
EXTENDS Generation, StateOperations, FiniteSetTheorems, SequenceTheorems, WellFoundedInduction, TLAPS

(* A task is a record, whose place and gate are known. *)
Shaped ==
  /\ task = [a \in Attempts |-> task[a]] /\ gates = [s \in Spaces |-> gates[s]]
  /\ \A a \in Attempts : {"place", "gate"} \subseteq DOMAIN task[a]

(* Whoever waits for a gate or has its permit holds the gate the map has   *)
(* for its Space, and a gate has one permit.                               *)
GateInv ==
  \A a \in Attempts :
    /\ task[a].place \in Holds \cup {"queued"} => task[a].gate # None
    /\ task[a].gate # None => gates[SpaceOf[a]] = task[a].gate
    /\ \A b \in Attempts :
         a # b /\ task[a].place \in Holds /\ task[b].place \in Holds => task[a].gate # task[b].gate

GenerationInv == Shaped /\ GateInv
----------------------------------------------------------------------------
(* A step of one attempt that takes no permit may give its permit back. *)
LEMMA PermitsKept ==
  ASSUME GenerationInv, NEW a \in Attempts, NEW t, task' = [task EXCEPT ![a] = t], gates' = gates,
         {"place", "gate"} \subseteq DOMAIN t, t.gate \in {task[a].gate, None},
         t.place \in Holds => task[a].place \in Holds /\ t.gate = task[a].gate,
         t.place # "queued"
  PROVE  GenerationInv'
<1>1. task'[a] = t /\ \A b \in Attempts : b # a => task'[b] = task[b]
  BY DEF GenerationInv, Shaped
<1>2. Shaped'
  BY <1>1 DEF GenerationInv, Shaped
<1>3. GateInv'
  BY <1>1 DEF GenerationInv, GateInv
<1> QED BY <1>2, <1>3 DEF GenerationInv

(* What Send and Dropped make of a task. *)
LEMMA Sent ==
  ASSUME NEW a \in Attempts, NEW t, NEW events, NEW place, Send(a, t, events, place),
         {"place", "gate"} \subseteq DOMAIN t
  PROVE  \E u : /\ task' = [task EXCEPT ![a] = u] /\ {"place", "gate"} \subseteq DOMAIN u
                /\ u.place = place /\ u.gate = t.gate
<1> DEFINE n == IF Fits(a, t, events) THEN Len(events) ELSE Room(a, t)
           used == IF Fits(a, t, events) THEN n ELSE n + 1
           u == [t EXCEPT !.sequence = @ + used, !.sent = @ + n, !.place = place]
<1>1. task' = [task EXCEPT ![a] = u]
  BY DEF Send
<1>2. DOMAIN u = DOMAIN t /\ u.place = place /\ u.gate = t.gate
  OBVIOUS
<1> QED BY <1>1, <1>2

LEMMA DroppedShape ==
  ASSUME NEW t, NEW place, {"place", "gate"} \subseteq DOMAIN t
  PROVE  /\ {"place", "gate"} \subseteq DOMAIN Dropped(t, place)
         /\ Dropped(t, place).place = place /\ Dropped(t, place).gate = None
BY DEF Dropped

(* Nothing is held at the start. *)
LEMMA GenerationInvInit == Init => GenerationInv
BY DEF Init, GenerationInv, Shaped, GateInv, Holds

(* A failure gives the permit back. *)
LEMMA FailStep ==
  ASSUME GenerationInv, NEW a \in Attempts, Fail(a), gates' = gates
  PROVE  GenerationInv'
<1>1. {"place", "gate"} \subseteq DOMAIN task[a]
  BY DEF GenerationInv, Shaped
<1>2. task' = [task EXCEPT ![a] = Dropped(task[a], "failing")]
  BY DEF Fail
<1>3. /\ {"place", "gate"} \subseteq DOMAIN Dropped(task[a], "failing")
      /\ Dropped(task[a], "failing").place = "failing" /\ Dropped(task[a], "failing").gate = None
  BY <1>1, DroppedShape
<1>4. "failing" \notin Holds
  BY DEF Holds
<1> QED BY <1>2, <1>3, <1>4, PermitsKept

(* What is sent from a place keeps the permit, or gives it back. *)
LEMMA SendStep ==
  ASSUME GenerationInv, NEW a \in Attempts, NEW t, NEW events, NEW place, Send(a, t, events, place),
         gates' = gates, {"place", "gate"} \subseteq DOMAIN t, t.gate \in {task[a].gate, None},
         place \in Holds => task[a].place \in Holds /\ t.gate = task[a].gate, place # "queued"
  PROVE  GenerationInv'
<1>1. PICK u : /\ task' = [task EXCEPT ![a] = u] /\ {"place", "gate"} \subseteq DOMAIN u
               /\ u.place = place /\ u.gate = t.gate
  BY Sent
<1> QED BY <1>1, PermitsKept

(* A task moves, and what it holds stays. *)
LEMMA PlaceStep ==
  ASSUME GenerationInv, NEW a \in Attempts, NEW place, task' = [task EXCEPT ![a].place = place],
         gates' = gates, place \in Holds => task[a].place \in Holds, place # "queued"
  PROVE  GenerationInv'
<1> DEFINE t == [task[a] EXCEPT !.place = place]
<1>1. {"place", "gate"} \subseteq DOMAIN task[a]
  BY DEF GenerationInv, Shaped
<1>2. {"place", "gate"} \subseteq DOMAIN t /\ t.place = place /\ t.gate = task[a].gate
  BY <1>1
<1>3. task' = [task EXCEPT ![a] = t]
  OBVIOUS
<1> HIDE DEF t
<1> QED BY <1>2, <1>3, PermitsKept

(* The gate is the one the attempts of the Space hold, if any does. *)
LEMMA LookupStep ==
  ASSUME GenerationInv, NEW a \in Attempts, Lookup(a)
  PROVE  GenerationInv'
<1> DEFINE s == SpaceOf[a]
           g == GateOf(a)
<1>1. /\ task[a].place = "entered" /\ gates' = [gates EXCEPT ![s] = g]
      /\ task' = [task EXCEPT ![a].place = "queued", ![a].gate = g]
  BY DEF Lookup
<1>2. \A b \in Attempts : SpaceOf[b] \in Spaces
  BY BoundsArePositive
<1>3. {"place", "gate"} \subseteq DOMAIN task[a]
  BY DEF GenerationInv, Shaped
<1>4. /\ task'[a].place = "queued" /\ task'[a].gate = g /\ {"place", "gate"} \subseteq DOMAIN task'[a]
      /\ \A b \in Attempts : b # a => task'[b] = task[b]
  BY <1>1, <1>3 DEF GenerationInv, Shaped
<1>5. gates'[s] = g /\ \A z \in Spaces : z # s => gates'[z] = gates[z]
  BY <1>1, <1>2 DEF GenerationInv, Shaped
<1>6. g # None
  BY BoundsArePositive DEF GateOf, Alive
<1>7. \A b \in Attempts : SpaceOf[b] = s /\ task[b].gate # None => task[b].gate = g
  BY DEF GenerationInv, GateInv, GateOf, Alive
<1> HIDE DEF s, g
<1>8. Shaped'
  BY <1>1, <1>4 DEF GenerationInv, Shaped
<1>9. GateInv'
  <2>1. ASSUME NEW b \in Attempts
        PROVE  /\ task'[b].place \in Holds \cup {"queued"} => task'[b].gate # None
               /\ task'[b].gate # None => gates'[SpaceOf[b]] = task'[b].gate
    <3>1. CASE b = a
      BY <1>4, <1>5, <1>6, <3>1 DEF s
    <3>2. CASE b # a
      BY <1>2, <1>4, <1>5, <1>7, <3>2 DEF GenerationInv, GateInv
    <3> QED BY <3>1, <3>2
  <2>2. ASSUME NEW b \in Attempts, NEW c \in Attempts, b # c, task'[b].place \in Holds, task'[c].place \in Holds
        PROVE  task'[b].gate # task'[c].gate
    BY <1>4, <2>2 DEF GenerationInv, GateInv, Holds
  <2> QED BY <2>1, <2>2 DEF GateInv
<1> QED BY <1>8, <1>9 DEF GenerationInv

(* A permit is taken when nobody has it. *)
LEMMA AcquireStep ==
  ASSUME GenerationInv, NEW a \in Attempts, Acquire(a)
  PROVE  GenerationInv'
<1>1. /\ task[a].place = "queued" /\ gates' = gates /\ task' = [task EXCEPT ![a].place = "holding"]
      /\ \A b \in Attempts : task[b].gate = task[a].gate => task[b].place \notin Holds
  BY DEF Acquire
<1>2. {"place", "gate"} \subseteq DOMAIN task[a]
  BY DEF GenerationInv, Shaped
<1>3. /\ task'[a].place = "holding" /\ task'[a].gate = task[a].gate /\ {"place", "gate"} \subseteq DOMAIN task'[a]
      /\ \A b \in Attempts : b # a => task'[b] = task[b]
  BY <1>1, <1>2 DEF GenerationInv, Shaped
<1>4. Shaped'
  BY <1>1, <1>3 DEF GenerationInv, Shaped
<1>5. GateInv'
  <2>1. ASSUME NEW b \in Attempts
        PROVE  /\ task'[b].place \in Holds \cup {"queued"} => task'[b].gate # None
               /\ task'[b].gate # None => gates'[SpaceOf[b]] = task'[b].gate
    BY <1>1, <1>3 DEF GenerationInv, GateInv
  <2>2. ASSUME NEW b \in Attempts, NEW c \in Attempts, b # c, task'[b].place \in Holds, task'[c].place \in Holds
        PROVE  task'[b].gate # task'[c].gate
    BY <1>1, <1>3, <2>2 DEF GenerationInv, GateInv
  <2> QED BY <2>1, <2>2 DEF GateInv
<1> QED BY <1>4, <1>5 DEF GenerationInv

(* Every step, or none, keeps the gates. *)
LEMMA GenerationInvNext == GenerationInv /\ [Next]_vars => GenerationInv'
<1> SUFFICES ASSUME GenerationInv, [Next]_vars PROVE GenerationInv'
  OBVIOUS
<1>1. CASE UNCHANGED vars
  BY <1>1 DEF vars, GenerationInv, Shaped, GateInv
<1> SUFFICES ASSUME NEW a \in Attempts,
                    \/ Request(a) \/ Admit(a) \/ Lookup(a) \/ Acquire(a) \/ Open(a)
                    \/ Register(a) \/ EnsureActive(a) \/ Chunk(a) \/ Finish(a) \/ Stop(a)
                    \/ Record(a) \/ Expire(a) \/ Close(a) \/ Failure(a)
                    \/ Mark(a) \/ Signal(a) \/ Read(a) \/ Leave(a)
             PROVE  GenerationInv'
  BY <1>1 DEF Next
<1> DEFINE t == task[a]
<1>2. {"place", "gate"} \subseteq DOMAIN t
  BY DEF GenerationInv, Shaped
<1> HIDE DEF t
<1>3. CASE Request(a)
  <2>1. PICK script \in Scripts[a] :
          task' = [task EXCEPT ![a].place = "created", ![a].rest = script, ![a].sequence = 1, ![a].sent = 1]
    BY <1>3 DEF Request
  <2> DEFINE u == [t EXCEPT !.place = "created", !.rest = script, !.sequence = 1, !.sent = 1]
  <2>2. {"place", "gate"} \subseteq DOMAIN u /\ u.place = "created" /\ u.gate = t.gate
    BY <1>2
  <2>3. task' = [task EXCEPT ![a] = u]
    BY <2>1 DEF t
  <2>4. gates' = gates
    BY <1>3 DEF Request
  <2> HIDE DEF u
  <2> QED BY <2>2, <2>3, <2>4, PermitsKept DEF t, Holds
<1>4. CASE Admit(a)
  BY <1>4, PlaceStep DEF Admit, Holds
<1>5. CASE Lookup(a)
  BY <1>5, LookupStep
<1>6. CASE Acquire(a)
  BY <1>6, AcquireStep
<1>7. CASE Open(a)
  <2>1. CASE Fail(a)
    BY <1>7, <2>1, FailStep DEF Open
  <2>2. CASE Send(a, t, Opening, "opened")
    BY <1>2, <1>7, <2>2, SendStep DEF Open, t, Holds
  <2>3. CASE Send(a, Dropped(t, "holding"), Opening, "failing")
    BY <1>2, <1>7, <2>3, DroppedShape, SendStep DEF Open, t, Holds
  <2> QED BY <1>7, <2>1, <2>2, <2>3 DEF Open, t
<1>8. CASE Register(a)
  BY <1>8, PlaceStep DEF Register, Holds
<1>9. CASE EnsureActive(a)
  BY <1>9, PlaceStep, FailStep DEF EnsureActive, Holds
<1>10. CASE Chunk(a)
  <2> DEFINE d == Head(t.rest)
             events == Forwarded(t.tools, d)
             next == [t EXCEPT !.rest = Tail(@), !.text = @ \o d.text,
                               !.calls = Gather(@, d), !.tools = Tools(@, d)]
  <2>1. {"place", "gate"} \subseteq DOMAIN next /\ next.gate = t.gate
    BY <1>2
  <2>2. t.place = "streaming" /\ gates' = gates
    BY <1>10 DEF Chunk, t
  <2>3. Send(a, next, events, "streaming") \/ Send(a, Dropped(next, "failing"), events, "failing")
    BY <1>10 DEF Chunk, t
  <2> HIDE DEF next, events
  <2>4. CASE Send(a, next, events, "streaming")
    BY <2>1, <2>2, <2>4, SendStep DEF Holds, t
  <2>5. CASE Send(a, Dropped(next, "failing"), events, "failing")
    BY <2>1, <2>2, <2>5, DroppedShape, SendStep DEF Holds, t
  <2> QED BY <2>3, <2>4, <2>5
<1>11. CASE Finish(a)
  <2>1. CASE task' = [task EXCEPT ![a] = Dropped(t, "recording")]
    <3>1. /\ {"place", "gate"} \subseteq DOMAIN Dropped(t, "recording")
          /\ Dropped(t, "recording").place = "recording" /\ Dropped(t, "recording").gate = None
      BY <1>2, DroppedShape
    <3>2. "recording" \notin Holds /\ gates' = gates
      BY <1>11 DEF Finish, Holds
    <3> QED BY <2>1, <3>1, <3>2, PermitsKept
  <2>2. CASE Fail(a)
    BY <1>11, <2>2, FailStep DEF Finish
  <2> QED BY <1>11, <2>1, <2>2 DEF Finish, t
<1>12. CASE Stop(a) \/ Expire(a)
  BY <1>12, FailStep DEF Stop, Expire
<1>13. CASE Record(a)
  <2> DEFINE u == IF a \in flagged \/ t.sent + Len(Closing(t)) > Limit
                  THEN Dropped(t, "failing")
                  ELSE [Dropped(t, "closing") EXCEPT !.batch = Closing(t)]
  <2>1. task' = [task EXCEPT ![a] = u]
    BY <1>13 DEF Record, t
  <2>2. {"place", "gate"} \subseteq DOMAIN u /\ u.gate = None /\ u.place \in {"failing", "closing"}
    <3>1. {"place", "gate"} \subseteq DOMAIN [Dropped(t, "closing") EXCEPT !.batch = Closing(t)]
          /\ [Dropped(t, "closing") EXCEPT !.batch = Closing(t)].place = "closing"
          /\ [Dropped(t, "closing") EXCEPT !.batch = Closing(t)].gate = None
      BY <1>2, DroppedShape
    <3> QED BY <1>2, <3>1, DroppedShape
  <2>3. gates' = gates
    BY <1>13 DEF Record
  <2> HIDE DEF u
  <2> QED BY <2>1, <2>2, <2>3, PermitsKept DEF Holds
<1>14. CASE Close(a)
  <2> DEFINE next == [t EXCEPT !.batch = Tail(@)]
             last == <<Head(t.batch)>>
  <2>1. {"place", "gate"} \subseteq DOMAIN next /\ next.gate = t.gate
    BY <1>2
  <2>2. gates' = gates
    BY <1>14 DEF Close
  <2>3. \/ Send(a, next, last, IF Len(t.batch) = 1 THEN "ended" ELSE "closing")
        \/ Send(a, t, last, "failing")
    BY <1>14 DEF Close, t
  <2> HIDE DEF next, last
  <2>4. CASE Send(a, next, last, IF Len(t.batch) = 1 THEN "ended" ELSE "closing")
    BY <2>1, <2>2, <2>4, SendStep DEF t, Holds
  <2>5. CASE Send(a, t, last, "failing")
    BY <1>2, <2>2, <2>5, SendStep DEF t, Holds
  <2> QED BY <2>3, <2>4, <2>5
<1>15. CASE Failure(a)
  BY <1>2, <1>15, SendStep DEF Failure, Holds, t
<1>16. CASE Mark(a) \/ Signal(a) \/ Read(a) \/ Leave(a)
  BY <1>16 DEF Mark, Signal, Read, Leave, GenerationInv, Shaped, GateInv
<1> QED BY <1>3, <1>4, <1>5, <1>6, <1>7, <1>8, <1>9, <1>10, <1>11, <1>12, <1>13, <1>14, <1>15, <1>16

(* One foreground generation of a personal Space at a time. *)
THEOREM OneGenerationHolds == Spec => []OneGeneration
<1>1. GenerationInv => OneGeneration
  BY DEF GenerationInv, GateInv, OneGeneration
<1> QED BY <1>1, GenerationInvInit, GenerationInvNext, PTL DEF Spec
-----------------------------------------------------------------------------
(* The fields of a task. *)
Fields == {"place", "gate", "rest", "text", "calls", "tools", "sequence", "sent", "batch"}

(* Numbers of events increase, and are below that of the next one. *)
Ordered(s, next) ==
  /\ \A n \in DOMAIN s : s[n].number \in Nat /\ s[n].number < next
  /\ \A m, n \in DOMAIN s : m < n => s[m].number < s[n].number

(* Only the last event may be an end, and only if the stream has ended. *)
Closed(s, ended) == \A n \in DOMAIN s : Ends(s[n]) => n = Len(s) /\ ended

(* A task within its limits ... *)
Counted(t) ==
  /\ Fields \subseteq DOMAIN t
  /\ t.sequence \in Nat /\ t.sent \in Nat /\ t.sent <= Limit
  /\ IsFiniteSet(DOMAIN t.calls)

(* ... that may be about to send its closing events. *)
TaskInv(t) ==
  /\ Counted(t)
  /\ t.place = "closing" => Listed(t.batch) /\ t.batch # <<>> /\ Closed(t.batch, TRUE)

(* What the client has read and what is on its way are one line of events. *)
LineInv(l, c, t) ==
  /\ Listed(l) /\ Listed(c) /\ Len(c) <= Buffer
  /\ t.place = "new" => l = <<>> /\ c = <<>>
  /\ Ordered(l \o c, t.sequence)
  /\ Closed(l \o c, t.place = "ended")

StreamOf(l, c, t) == TaskInv(t) /\ LineInv(l, c, t)

StreamInv ==
  /\ task = [a \in Attempts |-> task[a]] /\ chan = [a \in Attempts |-> chan[a]]
  /\ log = [a \in Attempts |-> log[a]]
  /\ \A a \in Attempts : StreamOf(log[a], chan[a], task[a])

(* What is in some Seq is listed, and what is listed has its length. *)
LEMMA ListedIs == ASSUME NEW S, NEW s \in Seq(S) PROVE Listed(s)
BY DEF Listed

(* Joined sequences keep their elements, in their places. *)
LEMMA ListedJoined ==
  \A s, t : Listed(s) /\ Listed(t) =>
    /\ Listed(s \o t) /\ Len(s \o t) = Len(s) + Len(t)
    /\ \A n \in 1 .. Len(s) : (s \o t)[n] = s[n]
    /\ \A n \in 1 .. Len(t) : (s \o t)[Len(s) + n] = t[n]
<1> SUFFICES ASSUME NEW s, NEW t, Listed(s), Listed(t)
             PROVE  /\ Listed(s \o t) /\ Len(s \o t) = Len(s) + Len(t)
                    /\ \A n \in 1 .. Len(s) : (s \o t)[n] = s[n]
                    /\ \A n \in 1 .. Len(t) : (s \o t)[Len(s) + n] = t[n]
  OBVIOUS
<1> DEFINE S == {s[n] : n \in DOMAIN s} \cup {t[n] : n \in DOMAIN t}
<1>1. s \in Seq(S) /\ t \in Seq(S)
  BY DEF Listed
<1> HIDE DEF S
<1>2. s \o t \in Seq(S) /\ Len(s \o t) = Len(s) + Len(t)
  BY <1>1
<1>3. \A n \in 1 .. Len(s) : (s \o t)[n] = s[n]
  BY <1>1
<1>4. \A n \in 1 .. Len(t) : (s \o t)[Len(s) + n] = t[n]
  BY <1>1
<1> QED BY <1>2, <1>3, <1>4, ListedIs

(* A listed sequence has a length, and its indices. *)
LEMMA ListedLength == ASSUME NEW s, Listed(s) PROVE Len(s) \in Nat /\ DOMAIN s = 1 .. Len(s)
BY DEF Listed

(* The first of a line, and the rest. *)
LEMMA TailIs ==
  ASSUME NEW b, Listed(b), b # <<>>
  PROVE  /\ Len(b) \in Nat /\ Len(b) # 0 /\ DOMAIN b = 1 .. Len(b) /\ Head(b) = b[1]
         /\ Listed(Tail(b)) /\ Len(Tail(b)) = Len(b) - 1 /\ DOMAIN Tail(b) = 1 .. Len(b) - 1
         /\ \A n \in 1 .. Len(b) - 1 : Tail(b)[n] = b[n + 1]
<1> DEFINE S == {b[n] : n \in DOMAIN b}
<1>1. b \in Seq(S)
  BY DEF Listed
<1> HIDE DEF S
<1>2. /\ Len(b) \in Nat /\ Len(b) # 0 /\ DOMAIN b = 1 .. Len(b) /\ Head(b) = b[1]
      /\ Tail(b) \in Seq(S) /\ Len(Tail(b)) = Len(b) - 1 /\ DOMAIN Tail(b) = 1 .. Len(b) - 1
  BY <1>1
<1>3. \A n \in 1 .. Len(b) - 1 : Tail(b)[n] = b[n + 1]
  BY <1>1
<1> QED BY <1>2, <1>3, ListedIs

(* The bound of what is left of the buffer and of the limit. *)
LEMMA MinOf == ASSUME NEW x \in Int, NEW y \in Int PROVE Min({x, y}) = IF x <= y THEN x ELSE y
<1> DEFINE m == IF x <= y THEN x ELSE y
<1>1. m \in {x, y} /\ \A z \in {x, y} : m <= z
  OBVIOUS
<1>2. \A z \in {x, y} : (\A w \in {x, y} : z <= w) => z = m
  OBVIOUS
<1> HIDE DEF m
<1> QED BY <1>1, <1>2 DEF Min, m

(* Two events that differ at most in their numbers. *)
Alike(e, f) == e.type = f.type /\ e.item = f.item /\ e.data = f.data

(* What is sent gets the next numbers. *)
LEMMA NumberedIs ==
  ASSUME NEW events, Listed(events), NEW from \in Nat, NEW n \in 0 .. Len(events)
  PROVE  LET sent == Numbered(SubSeq(events, 1, n), from)
         IN /\ Listed(sent) /\ Len(sent) = n
            /\ \A i \in 1 .. n : sent[i].number = from + i - 1 /\ Alike(sent[i], events[i])
<1> DEFINE s == SubSeq(events, 1, n)
           sent == Numbered(s, from)
<1>1. DOMAIN s = 1 .. n /\ \A i \in 1 .. n : s[i] = events[i]
  BY DEF Listed
<1>2. sent = [i \in 1 .. n |->
                [number |-> from + i - 1, type |-> s[i].type, item |-> s[i].item, data |-> s[i].data]]
  BY <1>1 DEF Numbered
<1> DEFINE S == {sent[i] : i \in 1 .. n}
<1>3. DOMAIN sent = 1 .. n /\ n \in Nat
  BY <1>2
<1>4. sent \in [1 .. n -> S]
  BY <1>2
<1>5. sent \in Seq(S) /\ Len(sent) = n
  <2> HIDE DEF S, sent
  <2> QED BY <1>3, <1>4
<1>6. Listed(sent)
  BY <1>5, ListedIs
<1>7. \A i \in 1 .. n : sent[i].number = from + i - 1 /\ Alike(sent[i], events[i])
  BY <1>1, <1>2 DEF Alike
<1> QED BY <1>5, <1>6, <1>7

(* A line that has not ended goes on with events that have the next numbers. *)
LEMMA LineGoesOn ==
  ASSUME NEW s, NEW e, Listed(s), Listed(e), NEW from \in Nat, NEW next \in Nat, NEW ended \in BOOLEAN,
         Ordered(s, from), Closed(s, FALSE), Closed(e, ended), from + Len(e) <= next,
         \A i \in 1 .. Len(e) : e[i].number = from + i - 1
  PROVE  Ordered(s \o e, next) /\ Closed(s \o e, ended)
<1> DEFINE j == s \o e
<1>1. /\ Listed(j) /\ Len(j) = Len(s) + Len(e)
      /\ \A n \in 1 .. Len(s) : j[n] = s[n]
      /\ \A n \in 1 .. Len(e) : j[Len(s) + n] = e[n]
  BY ListedJoined
<1>2. /\ Len(s) \in Nat /\ Len(e) \in Nat /\ DOMAIN s = 1 .. Len(s) /\ DOMAIN e = 1 .. Len(e)
      /\ DOMAIN j = 1 .. Len(s) + Len(e)
  BY <1>1, ListedLength
<1> HIDE DEF j
<1>3. ASSUME NEW n \in DOMAIN j
      PROVE  \/ n \in 1 .. Len(s) /\ j[n] = s[n]
             \/ n - Len(s) \in 1 .. Len(e) /\ j[n] = e[n - Len(s)]
  <2>1. CASE n \in 1 .. Len(s)
    BY <1>1, <2>1
  <2>2. CASE n \notin 1 .. Len(s)
    <3>1. n - Len(s) \in 1 .. Len(e) /\ n = Len(s) + (n - Len(s))
      BY <1>2, <2>2
    <3> QED BY <1>1, <3>1
  <2> QED BY <2>1, <2>2
<1>4. ASSUME NEW n \in DOMAIN j PROVE j[n].number \in Nat /\ j[n].number < next
  <2>1. CASE n \in 1 .. Len(s) /\ j[n] = s[n]
    BY <1>2, <2>1 DEF Ordered
  <2>2. CASE n - Len(s) \in 1 .. Len(e) /\ j[n] = e[n - Len(s)]
    BY <1>2, <2>2
  <2> QED BY <1>3, <2>1, <2>2
<1>5. ASSUME NEW m \in DOMAIN j, NEW n \in DOMAIN j, m < n PROVE j[m].number < j[n].number
  <2>1. CASE n \in 1 .. Len(s) /\ j[n] = s[n]
    <3>1. m \in 1 .. Len(s) /\ j[m] = s[m]
      BY <1>1, <1>2, <1>5, <2>1
    <3> QED BY <1>2, <1>5, <2>1, <3>1 DEF Ordered
  <2>2. CASE n - Len(s) \in 1 .. Len(e) /\ j[n] = e[n - Len(s)]
    <3>1. j[n].number = from + (n - Len(s)) - 1
      BY <2>2
    <3>2. CASE m \in 1 .. Len(s) /\ j[m] = s[m]
      <4>1. s[m].number \in Nat /\ s[m].number < from
        BY <1>2, <3>2 DEF Ordered
      <4> QED BY <1>2, <2>2, <3>1, <3>2, <4>1
    <3>3. CASE m - Len(s) \in 1 .. Len(e) /\ j[m] = e[m - Len(s)]
      <4>1. j[m].number = from + (m - Len(s)) - 1
        BY <3>3
      <4> QED BY <1>2, <1>5, <2>2, <3>1, <3>3, <4>1
    <3> QED BY <1>3, <3>2, <3>3
  <2> QED BY <1>3, <2>1, <2>2
<1>6. ASSUME NEW n \in DOMAIN j, Ends(j[n]) PROVE n = Len(j) /\ ended
  <2>1. CASE n \in 1 .. Len(s) /\ j[n] = s[n]
    BY <1>2, <1>6, <2>1 DEF Closed
  <2>2. CASE n - Len(s) \in 1 .. Len(e) /\ j[n] = e[n - Len(s)]
    <3>1. n - Len(s) = Len(e) /\ ended
      BY <1>2, <1>6, <2>2 DEF Closed
    <3> QED BY <1>1, <1>2, <3>1
  <2> QED BY <1>3, <2>1, <2>2
<1>7. Ordered(j, next)
  BY <1>4, <1>5 DEF Ordered
<1>8. Closed(j, ended)
  BY <1>6 DEF Closed
<1> QED BY <1>7, <1>8 DEF j

(* Joining is associative. *)
LEMMA JoinedTwice ==
  \A s, t, u : Listed(s) /\ Listed(t) /\ Listed(u) => s \o (t \o u) = (s \o t) \o u
<1> SUFFICES ASSUME NEW s, NEW t, NEW u, Listed(s), Listed(t), Listed(u)
             PROVE  s \o (t \o u) = (s \o t) \o u
  OBVIOUS
<1> DEFINE S == {s[n] : n \in DOMAIN s} \cup {t[n] : n \in DOMAIN t} \cup {u[n] : n \in DOMAIN u}
<1>1. s \in Seq(S) /\ t \in Seq(S) /\ u \in Seq(S)
  BY DEF Listed
<1> HIDE DEF S
<1> QED BY <1>1, ConcatAssociative

(* How many events there is room for. *)
LEMMA RoomIs ==
  ASSUME NEW a \in Attempts, NEW t, Listed(chan[a]), Len(chan[a]) <= Buffer, t.sent \in Nat, t.sent <= Limit
  PROVE  /\ Room(a, t) \in Nat /\ Len(chan[a]) + Room(a, t) <= Buffer /\ t.sent + Room(a, t) <= Limit
<1>1. /\ Len(chan[a]) \in Nat /\ Buffer - Len(chan[a]) \in Nat /\ Limit - t.sent \in Nat
      /\ Buffer \in Nat /\ Limit \in Nat
  BY ListedLength, BoundsArePositive
<1>2. CASE a \in gone
  BY <1>1, <1>2 DEF Room
<1>3. CASE a \notin gone
  <2>1. Room(a, t) = Min({Buffer - Len(chan[a]), Limit - t.sent})
    BY <1>3 DEF Room
  <2> QED BY <1>1, <2>1, MinOf
<1> QED BY <1>2, <1>3

(* What an attempt has sent is on its line, and its task counts it. *)
LEMMA SendLine ==
  ASSUME NEW a \in Attempts, NEW t, NEW events, NEW place, Send(a, t, events, place), StreamInv,
         Counted(t), t.sequence = task[a].sequence, place # "new", task[a].place # "ended",
         place = "closing" => Listed(t.batch) /\ t.batch # <<>> /\ Closed(t.batch, TRUE),
         Listed(events), Closed(events, place = "ended") \/ (Len(events) = 1 /\ ~Fits(a, t, events))
  PROVE  StreamOf(log[a], chan'[a], task'[a])
<1> DEFINE fits == Fits(a, t, events)
           n == IF fits THEN Len(events) ELSE Room(a, t)
           used == IF fits THEN n ELSE n + 1
           new == Numbered(SubSeq(events, 1, n), t.sequence)
           u == [t EXCEPT !.sequence = @ + used, !.sent = @ + n, !.place = place]
<1>1. /\ Listed(log[a]) /\ Listed(chan[a]) /\ Len(chan[a]) <= Buffer
      /\ Ordered(log[a] \o chan[a], t.sequence) /\ Closed(log[a] \o chan[a], FALSE)
  BY DEF StreamInv, StreamOf, LineInv
<1>2. chan'[a] = chan[a] \o new /\ task'[a] = u
  BY DEF Send, StreamInv
<1>3. /\ Fields \subseteq DOMAIN t /\ t.sequence \in Nat /\ t.sent \in Nat /\ t.sent <= Limit
      /\ IsFiniteSet(DOMAIN t.calls)
  BY DEF Counted
<1>4. /\ Room(a, t) \in Nat /\ Len(chan[a]) + Room(a, t) <= Buffer /\ t.sent + Room(a, t) <= Limit
      /\ Len(chan[a]) \in Nat /\ Len(events) \in Nat /\ Buffer \in Nat /\ Limit \in Nat
  BY <1>1, <1>3, RoomIs, ListedLength, BoundsArePositive
<1>5. /\ n \in 0 .. Len(events) /\ used \in Nat /\ n <= used
      /\ Len(chan[a]) + n <= Buffer /\ t.sent + n <= Limit
      /\ Len(events) = 1 /\ ~fits => n = 0
  <2> DEFINE e == Len(events)
             r == Room(a, t)
  <2>1. fits <=> e <= r
    BY DEF Fits
  <2> HIDE DEF fits, e, r
  <2>2. /\ r \in Nat /\ e \in Nat /\ Len(chan[a]) \in Nat /\ Buffer \in Nat /\ Limit \in Nat
        /\ Len(chan[a]) + r <= Buffer /\ t.sent + r <= Limit
    BY <1>4 DEF e, r
  <2>3. n = IF fits THEN e ELSE r
    BY DEF e, r
  <2>4. used = IF fits THEN n ELSE n + 1
    OBVIOUS
  <2> HIDE DEF n, used
  <2>5. n \in 0 .. e /\ used \in Nat /\ n <= used /\ n <= r /\ (e = 1 /\ ~fits => n = 0)
    BY <2>1, <2>2, <2>3, <2>4
  <2> QED BY <1>3, <2>2, <2>5 DEF e
<1> HIDE DEF fits, n, used
<1>6. /\ Listed(new) /\ Len(new) = n
      /\ \A i \in 1 .. n : new[i].number = t.sequence + i - 1 /\ new[i].type = events[i].type
  <2>1. /\ Listed(new) /\ Len(new) = n
        /\ \A i \in 1 .. n : new[i].number = t.sequence + i - 1 /\ Alike(new[i], events[i])
    BY <1>3, <1>5, NumberedIs
  <2> QED BY <2>1 DEF Alike
<1>7. DOMAIN u = DOMAIN t /\ u.sequence = t.sequence + used /\ u.sent = t.sent + n /\ u.place = place
      /\ u.calls = t.calls /\ u.batch = t.batch
  BY <1>3 DEF Fields
<1> HIDE DEF new, u
<1>8. TaskInv(u)
  <2>1. u.sequence \in Nat /\ u.sent \in Nat /\ u.sent <= Limit
    BY <1>3, <1>5, <1>7
  <2>2. Fields \subseteq DOMAIN u /\ IsFiniteSet(DOMAIN u.calls)
    BY <1>3, <1>7
  <2>3. u.place = "closing" => Listed(u.batch) /\ u.batch # <<>> /\ Closed(u.batch, TRUE)
    BY <1>7
  <2> QED BY <2>1, <2>2, <2>3 DEF TaskInv, Counted
<1>9. Closed(new, place = "ended")
  <2>1. DOMAIN new = 1 .. n /\ DOMAIN events = 1 .. Len(events)
    BY <1>6, ListedLength
  <2>2. Closed(events, place = "ended") \/ n = 0
    BY <1>5 DEF fits
  <2> QED BY <1>5, <1>6, <2>1, <2>2 DEF Closed, Ends
<1>10. Listed(log[a] \o chan[a]) /\ Listed(chan[a] \o new) /\ Len(chan[a] \o new) <= Buffer
  <2>1. Listed(log[a] \o chan[a])
    BY <1>1, ListedJoined
  <2>2. Listed(chan[a] \o new) /\ Len(chan[a] \o new) = Len(chan[a]) + Len(new)
    BY <1>1, <1>6, ListedJoined
  <2> QED BY <1>5, <1>6, <2>1, <2>2
<1>11. Ordered((log[a] \o chan[a]) \o new, u.sequence) /\ Closed((log[a] \o chan[a]) \o new, place = "ended")
  <2>1. t.sequence + Len(new) <= u.sequence /\ u.sequence \in Nat
    BY <1>3, <1>5, <1>6, <1>7
  <2> QED BY <1>1, <1>3, <1>6, <1>9, <1>10, <2>1, LineGoesOn
<1>12. LineInv(log[a], chan[a] \o new, u)
  <2>1. log[a] \o (chan[a] \o new) = (log[a] \o chan[a]) \o new
    <3> DEFINE l == log[a]
               c == chan[a]
    <3>1. Listed(l) /\ Listed(c) /\ Listed(new)
      BY <1>1, <1>6
    <3> HIDE DEF l, c
    <3>2. l \o (c \o new) = (l \o c) \o new
      BY <3>1, JoinedTwice
    <3> QED BY <3>2 DEF l, c
  <2>2. Ordered(log[a] \o (chan[a] \o new), u.sequence) /\ Closed(log[a] \o (chan[a] \o new), u.place = "ended")
    BY <1>7, <1>11, <2>1
  <2>3. u.place # "new"
    BY <1>7
  <2> QED BY <1>1, <1>10, <2>2, <2>3 DEF LineInv
<1> QED BY <1>2, <1>8, <1>12 DEF StreamOf

(* A task that sends nothing goes on, with the same numbers. *)
LEMMA Quiet ==
  ASSUME NEW l, NEW c, NEW t, NEW u, StreamOf(l, c, t), TaskInv(u), u.sequence = t.sequence,
         t.place # "ended", u.place # "new"
  PROVE  StreamOf(l, c, u)
<1>1. LineInv(l, c, u)
  BY DEF StreamOf, LineInv, Closed
<1> QED BY <1>1 DEF StreamOf

(* One attempt moves, and its client. *)
LEMMA OneMoves ==
  ASSUME StreamInv, NEW a \in Attempts,
         \E t : task' = [task EXCEPT ![a] = t], \E c : chan' = [chan EXCEPT ![a] = c],
         \E l : log' = [log EXCEPT ![a] = l],
         StreamOf(log'[a], chan'[a], task'[a])
  PROVE  StreamInv'
<1>1. /\ task' = [b \in Attempts |-> task'[b]] /\ chan' = [b \in Attempts |-> chan'[b]]
      /\ log' = [b \in Attempts |-> log'[b]]
  BY DEF StreamInv
<1>2. \A b \in Attempts : b # a => task'[b] = task[b] /\ chan'[b] = chan[b] /\ log'[b] = log[b]
  BY DEF StreamInv
<1>3. ASSUME NEW b \in Attempts PROVE StreamOf(log'[b], chan'[b], task'[b])
  BY <1>2 DEF StreamInv
<1> QED BY <1>1, <1>3 DEF StreamInv

(* A single event. *)
LEMMA SingleEvent ==
  ASSUME NEW e, NEW ended \in BOOLEAN, Ends(e) => ended
  PROVE  Listed(<<e>>) /\ Closed(<<e>>, ended)
BY DEF Closed, Listed

(* Lines of which no event is an end. *)
Going(s) == Listed(s) /\ Closed(s, FALSE)

(* Lines without an end, joined, have none. *)
LEMMA GoingJoined ==
  \A s, t : Going(s) /\ Going(t) => Going(s \o t)
<1> SUFFICES ASSUME NEW s, NEW t, Going(s), Going(t) PROVE Going(s \o t)
  OBVIOUS
<1> DEFINE j == s \o t
<1>1. /\ Listed(s) /\ Listed(t) /\ Listed(j) /\ Len(j) = Len(s) + Len(t)
      /\ \A n \in 1 .. Len(s) : j[n] = s[n]
      /\ \A n \in 1 .. Len(t) : j[Len(s) + n] = t[n]
  BY ListedJoined DEF Going
<1> HIDE DEF j
<1>2. /\ Len(s) \in Nat /\ Len(t) \in Nat /\ DOMAIN s = 1 .. Len(s) /\ DOMAIN t = 1 .. Len(t)
      /\ DOMAIN j = 1 .. Len(s) + Len(t)
  BY <1>1, ListedLength
<1>3. (\A n \in DOMAIN s : ~Ends(s[n])) /\ (\A n \in DOMAIN t : ~Ends(t[n]))
  BY DEF Going, Closed
<1>4. ASSUME NEW n \in DOMAIN j PROVE ~Ends(j[n])
  <2>1. CASE n \in 1 .. Len(s)
    BY <1>1, <1>2, <1>3, <2>1
  <2>2. CASE n \notin 1 .. Len(s)
    <3>1. n - Len(s) \in 1 .. Len(t) /\ n = Len(s) + (n - Len(s))
      BY <1>2, <2>2
    <3> QED BY <1>1, <1>2, <1>3, <3>1
  <2> QED BY <2>1, <2>2
<1>5. Closed(j, FALSE)
  BY <1>4 DEF Closed
<1> QED BY <1>1, <1>5 DEF Going, j

(* No event, and one that is no end. *)
LEMMA GoingSome ==
  Going(<<>>) /\ \A t, i, d : t \notin {"completed", "failed"} => Going(<<Event(t, i, d)>>)
BY DEF Going, Listed, Closed, Event, Ends

(* A chunk is forwarded as text, an announcement and arguments. *)
LEMMA ForwardedGoing == ASSUME NEW tools, NEW d PROVE Going(Forwarded(tools, d))
<1> DEFINE t == Tool(tools[d.index], d)
           text == IF d.text = <<>> THEN <<>> ELSE <<Event("text", None, d.text)>>
           added == IF t.added /\ ~tools[d.index].added
                    THEN <<Event("added", d.index, <<t.id, t.name>>)>> ELSE <<>>
           arguments == IF d.arguments = <<>> THEN <<>>
                        ELSE <<Event("arguments", d.index, d.arguments)>>
           call == IF d.index = None THEN <<>> ELSE added \o arguments
<1>1. Going(text)
  BY GoingSome
<1>2. Going(added)
  BY GoingSome
<1>3. Going(arguments)
  BY GoingSome
<1>4. Forwarded(tools, d) = text \o call
  BY DEF Forwarded
<1>5. call = IF d.index = None THEN <<>> ELSE added \o arguments
  OBVIOUS
<1> HIDE DEF text, added, arguments, call
<1>6. Going(call)
  BY <1>2, <1>3, <1>5, GoingJoined, GoingSome
<1> QED BY <1>1, <1>4, <1>6, GoingJoined

(* The closing events are as many as the calls, and two: one of them is the *)
(* end, and it is the last.                                                 *)
LEMMA ClosingIs ==
  ASSUME NEW t, IsFiniteSet(DOMAIN t.calls)
  PROVE  Listed(Closing(t)) /\ Closing(t) # <<>> /\ Closed(Closing(t), TRUE)
<1> DEFINE first == <<Event("text_done", None, Trimmed(t.text))>>
           k == Cardinality(DOMAIN t.calls)
           Call(n) == LET i == CHOOSE j \in DOMAIN t.calls : Cardinality({m \in DOMAIN t.calls : m < j}) = n - 1
                      IN Event("call_done", n - 1,
                               <<t.calls[i].id, t.calls[i].name, t.calls[i].arguments>>)
           calls == [n \in 1 .. k |-> Call(n)]
           last == <<Event("completed", None, <<>>)>>
<1>1. k \in Nat
  BY FS_CardinalityType
<1>2. \A n : Call(n).type = "call_done"
  BY DEF Event
<1>3. Closing(t) = (first \o calls) \o last
  BY DEF Closing
<1> HIDE DEF k, Call
<1>4. Going(calls)
  <2>1. DOMAIN calls = 1 .. k
    OBVIOUS
  <2>2. calls \in Seq({calls[n] : n \in DOMAIN calls}) /\ Len(calls) = k
    BY <1>1
  <2>3. \A n \in DOMAIN calls : ~Ends(calls[n])
    BY <1>2 DEF Ends
  <2> QED BY <2>2, <2>3 DEF Going, Listed, Closed
<1>5. Going(first)
  BY GoingSome
<1> DEFINE lead == first \o calls
<1>6. Going(lead)
  BY <1>4, <1>5, GoingJoined
<1>7. Listed(last) /\ Len(last) = 1 /\ DOMAIN last = {1}
  BY DEF Listed
<1>8. Closing(t) = lead \o last
  BY <1>3
<1> HIDE DEF lead, last
<1> DEFINE j == lead \o last
<1>9. /\ Listed(j) /\ Len(j) = Len(lead) + 1
      /\ \A n \in 1 .. Len(lead) : j[n] = lead[n]
  <2>1. Listed(lead)
    BY <1>6 DEF Going
  <2>2. /\ Listed(lead \o last) /\ Len(lead \o last) = Len(lead) + Len(last)
        /\ \A n \in 1 .. Len(lead) : (lead \o last)[n] = lead[n]
    BY <1>7, <2>1, ListedJoined
  <2>3. Len(j) = Len(lead) + 1
    BY <1>7, <2>2
  <2>4. \A n \in 1 .. Len(lead) : j[n] = lead[n]
    BY <2>2
  <2> HIDE DEF j
  <2> QED BY <2>2, <2>3, <2>4 DEF j
<1>10. /\ Len(lead) \in Nat /\ DOMAIN lead = 1 .. Len(lead) /\ DOMAIN j = 1 .. Len(lead) + 1
  BY <1>6, <1>9, ListedLength DEF Going
<1> HIDE DEF j
<1>11. ASSUME NEW n \in DOMAIN j, Ends(j[n]) PROVE n = Len(j)
  BY <1>6, <1>9, <1>10, <1>11 DEF Going, Closed
<1>12. j # <<>>
  BY <1>10
<1> QED BY <1>8, <1>9, <1>11, <1>12 DEF Closed, j

(* A chunk adds at most one call. *)
LEMMA GatherFinite ==
  ASSUME NEW calls, NEW d, IsFiniteSet(DOMAIN calls)
  PROVE  IsFiniteSet(DOMAIN Gather(calls, d))
<1>1. CASE d.index = None
  BY <1>1 DEF Gather
<1>2. CASE d.index # None
  <2>1. DOMAIN Gather(calls, d) = DOMAIN calls \cup {d.index}
    BY <1>2 DEF Gather
  <2> QED BY <2>1, FS_AddElement
<1> QED BY <1>1, <1>2

(* What is dropped with a future changes no number. *)
LEMMA DroppedTask ==
  ASSUME NEW t, NEW place, TaskInv(t), place # "closing"
  PROVE  /\ TaskInv(Dropped(t, place)) /\ Dropped(t, place).sequence = t.sequence
         /\ Dropped(t, place).place = place
BY DEF TaskInv, Counted, Dropped, Fields

(* Where an attempt neither sends nor starts. *)
LEMMA QuietStep ==
  ASSUME StreamInv, NEW a \in Attempts, NEW u, task' = [task EXCEPT ![a] = u], chan' = chan, log' = log,
         TaskInv(u), u.sequence = task[a].sequence, task[a].place # "ended", u.place # "new"
  PROVE  StreamInv'
<1>1. /\ task'[a] = u /\ chan'[a] = chan[a] /\ log'[a] = log[a] /\ StreamOf(log[a], chan[a], task[a])
      /\ chan' = [chan EXCEPT ![a] = chan[a]] /\ log' = [log EXCEPT ![a] = log[a]]
  BY DEF StreamInv
<1>2. StreamOf(log[a], chan[a], u)
  BY <1>1, Quiet
<1> QED BY <1>1, <1>2, OneMoves

(* ... because it only moves ... *)
LEMMA PlaceOnly ==
  ASSUME StreamInv, NEW a \in Attempts, NEW place, task' = [task EXCEPT ![a].place = place],
         chan' = chan, log' = log, task[a].place # "ended", place \notin {"new", "closing"}
  PROVE  StreamInv'
<1> DEFINE u == [task[a] EXCEPT !.place = place]
<1>1. TaskInv(task[a])
  BY DEF StreamInv, StreamOf
<1>2. TaskInv(u) /\ u.sequence = task[a].sequence /\ u.place = place
  BY <1>1 DEF TaskInv, Counted, Fields
<1>3. task' = [task EXCEPT ![a] = u]
  OBVIOUS
<1> HIDE DEF u
<1> QED BY <1>2, <1>3, QuietStep

(* ... or fails. *)
LEMMA FailQuiet ==
  ASSUME StreamInv, NEW a \in Attempts, Fail(a), chan' = chan, log' = log, task[a].place # "ended"
  PROVE  StreamInv'
<1> DEFINE u == Dropped(task[a], "failing")
<1>1. TaskInv(task[a])
  BY DEF StreamInv, StreamOf
<1>2. TaskInv(u) /\ u.sequence = task[a].sequence /\ u.place = "failing"
  BY <1>1, DroppedTask
<1>3. task' = [task EXCEPT ![a] = u]
  BY DEF Fail
<1> HIDE DEF u
<1> QED BY <1>2, <1>3, QuietStep

(* Where it sends. *)
LEMMA SendMoves ==
  ASSUME NEW a \in Attempts, NEW t, NEW events, NEW place, Send(a, t, events, place), StreamInv, log' = log,
         Counted(t), t.sequence = task[a].sequence, place # "new", task[a].place # "ended",
         place = "closing" => Listed(t.batch) /\ t.batch # <<>> /\ Closed(t.batch, TRUE),
         Listed(events), Closed(events, place = "ended") \/ (Len(events) = 1 /\ ~Fits(a, t, events))
  PROVE  StreamInv'
<1>1. StreamOf(log[a], chan'[a], task'[a])
  BY SendLine
<1>2. log'[a] = log[a] /\ log' = [log EXCEPT ![a] = log[a]]
  BY DEF StreamInv
<1>3. (\E u : task' = [task EXCEPT ![a] = u]) /\ \E c : chan' = [chan EXCEPT ![a] = c]
  <2> DEFINE n == IF Fits(a, t, events) THEN Len(events) ELSE Room(a, t)
             used == IF Fits(a, t, events) THEN n ELSE n + 1
  <2>1. task' = [task EXCEPT ![a] = [t EXCEPT !.sequence = @ + used, !.sent = @ + n, !.place = place]]
    BY DEF Send
  <2>2. chan' = [chan EXCEPT ![a] = chan[a] \o Numbered(SubSeq(events, 1, n), t.sequence)]
    BY DEF Send, StreamInv
  <2> HIDE DEF n, used
  <2> QED BY <2>1, <2>2
<1> QED BY <1>1, <1>2, <1>3, OneMoves

(* To read on leaves the line as it is. *)
LEMMA ReadOn ==
  ASSUME NEW l, NEW c, Listed(l), Listed(c), c # <<>>
  PROVE  Append(l, Head(c)) \o Tail(c) = l \o c
<1> DEFINE S == {l[n] : n \in DOMAIN l} \cup {c[n] : n \in DOMAIN c}
           x == <<Head(c)>>
           r == Tail(c)
<1>1. l \in Seq(S) /\ c \in Seq(S)
  BY DEF Listed
<1> HIDE DEF S
<1>2. Append(l, Head(c)) = l \o x /\ x \o r = c /\ x \in Seq(S) /\ r \in Seq(S)
  BY <1>1
<1> HIDE DEF x, r
<1>3. Listed(x) /\ Listed(r)
  BY <1>2, ListedIs
<1>4. l \o (x \o r) = (l \o x) \o r
  BY <1>3, JoinedTwice
<1> QED BY <1>2, <1>4 DEF r

(* The client takes the next event: the line stays as it is. *)
LEMMA ReadLine ==
  ASSUME StreamInv, NEW a \in Attempts, Read(a)
  PROVE  StreamInv'
<1> DEFINE l == log[a]
           c == chan[a]
           t == task[a]
<1>1. StreamOf(l, c, t)
  BY DEF StreamInv
<1>2. /\ c # <<>> /\ task' = task /\ log' = [log EXCEPT ![a] = Append(l, Head(c))]
      /\ chan' = [chan EXCEPT ![a] = Tail(c)]
  BY DEF Read, StreamInv
<1>3. log'[a] = Append(l, Head(c)) /\ chan'[a] = Tail(c) /\ task' = [task EXCEPT ![a] = t] /\ task'[a] = t
  BY <1>2 DEF StreamInv
<1> HIDE DEF l, c, t
<1>4. Listed(l) /\ Listed(c) /\ Len(c) <= Buffer
  BY <1>1 DEF StreamOf, LineInv
<1> DEFINE S == {l[n] : n \in DOMAIN l} \cup {c[n] : n \in DOMAIN c}
<1>5. l \in Seq(S) /\ c \in Seq(S)
  BY <1>4 DEF Listed
<1> HIDE DEF S
<1>6. /\ Append(l, Head(c)) \in Seq(S) /\ Tail(c) \in Seq(S) /\ Len(Tail(c)) = Len(c) - 1 /\ Len(c) \in Nat
  BY <1>2, <1>5
<1>7. Append(l, Head(c)) \o Tail(c) = l \o c
  BY <1>2, <1>4, ReadOn
<1>8. StreamOf(Append(l, Head(c)), Tail(c), t)
  <2>1. Listed(Append(l, Head(c))) /\ Listed(Tail(c)) /\ Len(Tail(c)) <= Buffer
    <3>1. Listed(Append(l, Head(c)))
      BY <1>6, ListedIs
    <3>2. Listed(Tail(c))
      BY <1>6, ListedIs
    <3>3. Len(Tail(c)) <= Buffer
      BY <1>4, <1>6, BoundsArePositive
    <3> QED BY <3>1, <3>2, <3>3
  <2>2. t.place # "new"
    BY <1>1, <1>2 DEF StreamOf, LineInv
  <2>3. Ordered(l \o c, t.sequence) /\ Closed(l \o c, t.place = "ended") /\ TaskInv(t)
    BY <1>1 DEF StreamOf, LineInv
  <2>4. LineInv(Append(l, Head(c)), Tail(c), t)
    BY <1>7, <2>1, <2>2, <2>3 DEF LineInv
  <2> QED BY <2>3, <2>4 DEF StreamOf
<1> QED BY <1>2, <1>3, <1>8, OneMoves

(* The client leaves: what was on its way is lost, what it read stays. *)
LEMMA LeaveLine ==
  ASSUME StreamInv, NEW a \in Attempts, Leave(a)
  PROVE  StreamInv'
<1> DEFINE l == log[a]
           c == chan[a]
           t == task[a]
<1>1. StreamOf(l, c, t)
  BY DEF StreamInv
<1>2. task' = task /\ log' = log /\ chan' = [chan EXCEPT ![a] = <<>>]
  BY DEF Leave
<1>3. /\ log'[a] = l /\ chan'[a] = <<>> /\ task'[a] = t
      /\ task' = [task EXCEPT ![a] = t] /\ log' = [log EXCEPT ![a] = l]
  BY <1>2 DEF StreamInv
<1> HIDE DEF l, c, t
<1>4. /\ Listed(l) /\ Listed(c) /\ Ordered(l \o c, t.sequence) /\ Closed(l \o c, t.place = "ended")
      /\ TaskInv(t)
  BY <1>1 DEF StreamOf, LineInv
<1>5. /\ Listed(l \o c) /\ Len(l \o c) = Len(l) + Len(c) /\ \A n \in 1 .. Len(l) : (l \o c)[n] = l[n]
  BY <1>4, ListedJoined
<1>6. /\ Len(l) \in Nat /\ Len(c) \in Nat /\ DOMAIN l = 1 .. Len(l) /\ DOMAIN (l \o c) = 1 .. Len(l) + Len(c)
  BY <1>4, <1>5, ListedLength
<1>7. l \o <<>> = l
  BY <1>4 DEF Listed
<1>8. Ordered(l, t.sequence)
  BY <1>4, <1>5, <1>6 DEF Ordered
<1>9. Closed(l, t.place = "ended")
  <2>1. ASSUME NEW n \in DOMAIN l, Ends(l[n]) PROVE n = Len(l) /\ t.place = "ended"
    <3>1. n \in DOMAIN (l \o c) /\ Ends((l \o c)[n])
      BY <1>5, <1>6, <2>1
    <3>2. n = Len(l \o c) /\ t.place = "ended"
      BY <1>4, <3>1 DEF Closed
    <3>3. Len(l \o c) = Len(l) + Len(c) /\ n \in 1 .. Len(l)
      BY <1>5, <1>6
    <3>4. n = Len(l) + Len(c) /\ n \in Nat /\ n <= Len(l)
      BY <1>6, <3>2, <3>3
    <3>5. Len(l) \in Nat /\ Len(c) \in Nat
      BY <1>6
    <3>6. \A i, j \in Nat : i + j <= i => j = 0
      OBVIOUS
    <3>7. Len(l) + Len(c) <= Len(l)
      BY <3>4
    <3>8. Len(c) = 0
      BY <3>5, <3>6, <3>7
    <3>9. n = Len(l)
      BY <3>4, <3>5, <3>8
    <3> QED BY <3>2, <3>9
  <2> QED BY <2>1 DEF Closed
<1>10. Listed(<<>>) /\ Len(<<>>) <= Buffer
  BY GoingSome, BoundsArePositive DEF Going
<1>11. LineInv(l, <<>>, t)
  <2>1. t.place = "new" => l = <<>>
    BY <1>1 DEF StreamOf, LineInv
  <2> QED BY <1>4, <1>7, <1>8, <1>9, <1>10, <2>1 DEF LineInv
<1> QED BY <1>2, <1>3, <1>4, <1>11, OneMoves DEF StreamOf

(* The stream opens, with its first event in the channel. *)
LEMMA RequestLine ==
  ASSUME StreamInv, NEW a \in Attempts, Request(a)
  PROVE  StreamInv'
<1> DEFINE opening == <<Event("created", None, <<>>)>>
           c == Numbered(opening, 0)
<1>1. PICK script \in Scripts[a] :
        task' = [task EXCEPT ![a].place = "created", ![a].rest = script, ![a].sequence = 1, ![a].sent = 1]
  BY DEF Request
<1> DEFINE u == [task[a] EXCEPT !.place = "created", !.rest = script, !.sequence = 1, !.sent = 1]
<1>2. task' = [task EXCEPT ![a] = u] /\ chan' = [chan EXCEPT ![a] = c] /\ log' = log /\ task[a].place = "new"
  BY <1>1 DEF Request, client
<1>3. task'[a] = u /\ chan'[a] = c /\ log'[a] = log[a] /\ log' = [log EXCEPT ![a] = log[a]]
  BY <1>2 DEF StreamInv
<1>4. TaskInv(task[a]) /\ log[a] = <<>>
  BY <1>2 DEF StreamInv, StreamOf, LineInv
<1>5. /\ Fields \subseteq DOMAIN u /\ u.place = "created" /\ u.sequence = 1 /\ u.sent = 1
      /\ u.calls = task[a].calls
  BY <1>4 DEF TaskInv, Counted, Fields
<1> HIDE DEF u
<1>6. TaskInv(u)
  BY <1>4, <1>5, BoundsArePositive DEF TaskInv, Counted
<1>7. Going(opening) /\ Len(opening) = 1
  BY GoingSome
<1>8. opening = SubSeq(opening, 1, 1)
  BY <1>7 DEF Going, Listed
<1> HIDE DEF opening
<1>9. Listed(c) /\ Len(c) = 1 /\ c[1].number = 0 /\ c[1].type = opening[1].type
  <2>1. Listed(opening) /\ 1 \in 0 .. Len(opening) /\ 0 \in Nat
    BY <1>7 DEF Going
  <2> DEFINE sent == Numbered(SubSeq(opening, 1, 1), 0)
  <2>2. /\ Listed(sent) /\ Len(sent) = 1
        /\ \A i \in 1 .. 1 : sent[i].number = 0 + i - 1 /\ Alike(sent[i], opening[i])
    BY <2>1, NumberedIs
  <2>3. c = sent
    BY <1>8
  <2> HIDE DEF c, sent
  <2> QED BY <2>2, <2>3 DEF Alike
<1>10. ~Ends(c[1]) /\ DOMAIN c = {1}
  BY <1>7, <1>9, ListedLength DEF Going, Closed, Ends
<1> HIDE DEF c
<1>11. <<>> \o c = c
  BY <1>9 DEF Listed
<1>12. Ordered(c, 1) /\ Closed(c, FALSE)
  BY <1>9, <1>10 DEF Ordered, Closed
<1>13. LineInv(<<>>, c, u)
  <2>1. Listed(<<>>) /\ Len(c) <= Buffer
    BY <1>9, GoingSome, BoundsArePositive DEF Going
  <2>2. Ordered(<<>> \o c, u.sequence) /\ Closed(<<>> \o c, u.place = "ended") /\ u.place # "new"
    BY <1>5, <1>11, <1>12
  <2> QED BY <1>9, <2>1, <2>2 DEF LineInv
<1> QED BY <1>2, <1>3, <1>4, <1>6, <1>13, OneMoves DEF StreamOf

(* The invariant at the start. *)
LEMMA StreamInvInit == Init => StreamInv
<1> SUFFICES ASSUME Init PROVE StreamInv
  OBVIOUS
<1>1. /\ task = [a \in Attempts |-> task[a]] /\ chan = [a \in Attempts |-> chan[a]]
      /\ log = [a \in Attempts |-> log[a]]
  BY DEF Init
<1>2. ASSUME NEW a \in Attempts PROVE StreamOf(log[a], chan[a], task[a])
  <2>1. log[a] = <<>> /\ chan[a] = <<>>
    BY DEF Init
  <2>2. /\ Fields \subseteq DOMAIN task[a] /\ task[a].place = "new" /\ task[a].sequence = 0
        /\ task[a].sent = 0 /\ DOMAIN task[a].calls = {}
    BY DEF Init, Fields
  <2>3. TaskInv(task[a])
    BY <2>2, FS_EmptySet, BoundsArePositive DEF TaskInv, Counted
  <2>4. <<>> \o <<>> = <<>> /\ Ordered(<<>>, 0) /\ Closed(<<>>, FALSE) /\ Listed(<<>>) /\ Len(<<>>) <= Buffer
    <3>1. Closed(<<>>, FALSE) /\ Listed(<<>>)
      BY GoingSome DEF Going
    <3>2. Ordered(<<>>, 0)
      BY DEF Ordered
    <3>3. <<>> \o <<>> = <<>> /\ Len(<<>>) <= Buffer
      BY BoundsArePositive
    <3> QED BY <3>1, <3>2, <3>3
  <2> QED BY <2>1, <2>2, <2>3, <2>4 DEF StreamOf, LineInv
<1> QED BY <1>1, <1>2 DEF StreamInv

(* Every step, or none, keeps the lines in order. *)
LEMMA StreamInvNext == StreamInv /\ [Next]_vars => StreamInv'
<1> SUFFICES ASSUME StreamInv, [Next]_vars PROVE StreamInv'
  OBVIOUS
<1>1. CASE UNCHANGED vars
  BY <1>1 DEF vars, StreamInv
<1> SUFFICES ASSUME NEW a \in Attempts,
                    \/ Request(a) \/ Admit(a) \/ Lookup(a) \/ Acquire(a) \/ Open(a)
                    \/ Register(a) \/ EnsureActive(a) \/ Chunk(a) \/ Finish(a) \/ Stop(a)
                    \/ Record(a) \/ Expire(a) \/ Close(a) \/ Failure(a)
                    \/ Mark(a) \/ Signal(a) \/ Read(a) \/ Leave(a)
             PROVE  StreamInv'
  BY <1>1 DEF Next
<1> DEFINE t == task[a]
<1>2. TaskInv(t)
  BY DEF StreamInv, StreamOf
<1> HIDE DEF t
<1>3. CASE Request(a)
  BY <1>3, RequestLine
<1>4. CASE Admit(a)
  BY <1>4, PlaceOnly DEF Admit, client
<1>5. CASE Lookup(a)
  <2> DEFINE u == [t EXCEPT !.place = "queued", !.gate = GateOf(a)]
  <2>1. task' = [task EXCEPT ![a] = u] /\ chan' = chan /\ log' = log /\ t.place = "entered"
    BY <1>5 DEF Lookup, client, t
  <2>2. TaskInv(u) /\ u.sequence = t.sequence /\ u.place = "queued"
    BY <1>2 DEF TaskInv, Counted, Fields
  <2> HIDE DEF u
  <2> QED BY <2>1, <2>2, QuietStep DEF t
<1>6. CASE Acquire(a)
  <2> DEFINE u == [t EXCEPT !.place = "holding"]
  <2>1. task' = [task EXCEPT ![a] = u] /\ chan' = chan /\ log' = log /\ t.place = "queued"
    BY <1>6 DEF Acquire, client, t
  <2>2. TaskInv(u) /\ u.sequence = t.sequence /\ u.place = "holding"
    BY <1>2 DEF TaskInv, Counted, Fields
  <2> HIDE DEF u
  <2> QED BY <2>1, <2>2, QuietStep DEF t
<1>7. CASE Open(a)
  <2>1. t.place = "holding" /\ log' = log
    BY <1>7 DEF Open, client, t
  <2>2. Listed(Opening) /\ Closed(Opening, FALSE)
    BY GoingSome DEF Going, Opening
  <2>3. CASE Fail(a) /\ chan' = chan
    BY <2>1, <2>3, FailQuiet DEF t
  <2>4. CASE Send(a, t, Opening, "opened")
    BY <1>2, <2>1, <2>2, <2>4, SendMoves DEF t, TaskInv
  <2>5. CASE Send(a, Dropped(t, "holding"), Opening, "failing")
    <3>1. TaskInv(Dropped(t, "holding")) /\ Dropped(t, "holding").sequence = t.sequence
      BY <1>2, DroppedTask
    <3> QED BY <2>1, <2>2, <2>5, <3>1, SendMoves DEF t, TaskInv
  <2> QED BY <1>7, <2>3, <2>4, <2>5 DEF Open, t
<1>8. CASE Register(a)
  <2> DEFINE u == [t EXCEPT !.place = "registered"]
  <2>1. task' = [task EXCEPT ![a] = u] /\ chan' = chan /\ log' = log /\ t.place = "opened"
    BY <1>8 DEF Register, client, t
  <2>2. Counted(t)
    BY <1>2 DEF TaskInv
  <2>3. u.sequence = t.sequence /\ u.place = "registered"
    BY <2>2 DEF Counted, Fields
  <2>4. Counted(u)
    BY <2>2 DEF Counted, Fields
  <2>5. TaskInv(u)
    BY <2>3, <2>4 DEF TaskInv
  <2> HIDE DEF u
  <2> QED BY <2>1, <2>3, <2>5, QuietStep DEF t
<1>9. CASE EnsureActive(a)
  BY <1>9, PlaceOnly, FailQuiet DEF EnsureActive, client
<1>10. CASE Chunk(a)
  <2> DEFINE d == Head(t.rest)
             events == Forwarded(t.tools, d)
             next == [t EXCEPT !.rest = Tail(@), !.text = @ \o d.text,
                               !.calls = Gather(@, d), !.tools = Tools(@, d)]
  <2>1. t.place = "streaming" /\ log' = log
    BY <1>10 DEF Chunk, client, t
  <2>2. Send(a, next, events, "streaming") \/ Send(a, Dropped(next, "failing"), events, "failing")
    BY <1>10 DEF Chunk, t
  <2>3. Listed(events) /\ Closed(events, FALSE)
    BY ForwardedGoing DEF Going
  <2>4. /\ Fields \subseteq DOMAIN t /\ t.sequence \in Nat /\ t.sent \in Nat /\ t.sent <= Limit
        /\ IsFiniteSet(DOMAIN Gather(t.calls, d))
    BY <1>2, GatherFinite DEF TaskInv, Counted
  <2>5. /\ Fields \subseteq DOMAIN next /\ next.sequence = t.sequence /\ next.sent = t.sent
        /\ next.place = t.place /\ next.calls = Gather(t.calls, d)
    BY <2>4 DEF Fields
  <2> HIDE DEF next, events, d
  <2>6. TaskInv(next)
    BY <2>1, <2>4, <2>5 DEF TaskInv, Counted
  <2>7. CASE Send(a, next, events, "streaming")
    BY <2>1, <2>3, <2>5, <2>6, <2>7, SendMoves DEF t, TaskInv
  <2>8. CASE Send(a, Dropped(next, "failing"), events, "failing")
    <3>1. TaskInv(Dropped(next, "failing")) /\ Dropped(next, "failing").sequence = t.sequence
      BY <2>5, <2>6, DroppedTask
    <3> QED BY <2>1, <2>3, <2>8, <3>1, SendMoves DEF t, TaskInv
  <2> QED BY <2>2, <2>7, <2>8
<1>11. CASE Finish(a)
  <2>1. t.place = "streaming" /\ chan' = chan /\ log' = log
    BY <1>11 DEF Finish, client, t
  <2>2. CASE task' = [task EXCEPT ![a] = Dropped(t, "recording")]
    <3> DEFINE u == Dropped(t, "recording")
    <3>1. TaskInv(u) /\ u.sequence = t.sequence /\ u.place = "recording"
      BY <1>2, DroppedTask
    <3> HIDE DEF u
    <3> QED BY <2>1, <2>2, <3>1, QuietStep DEF t, u
  <2>3. CASE Fail(a)
    BY <2>1, <2>3, FailQuiet DEF t
  <2> QED BY <1>11, <2>2, <2>3 DEF Finish, t
<1>12. CASE Stop(a) \/ Expire(a)
  BY <1>12, FailQuiet DEF Stop, Expire, client, Waits
<1>13. CASE Record(a)
  <2> DEFINE v == [Dropped(t, "closing") EXCEPT !.batch = Closing(t)]
             u == IF a \in flagged \/ t.sent + Len(Closing(t)) > Limit THEN Dropped(t, "failing") ELSE v
  <2>1. task' = [task EXCEPT ![a] = u] /\ chan' = chan /\ log' = log /\ t.place = "recording"
    BY <1>13 DEF Record, client, t
  <2>2. TaskInv(Dropped(t, "failing")) /\ Dropped(t, "failing").sequence = t.sequence /\ Dropped(t, "failing").place = "failing"
    BY <1>2, DroppedTask
  <2>3. TaskInv(v) /\ v.sequence = t.sequence /\ v.place = "closing"
    <3>1. Listed(Closing(t)) /\ Closing(t) # <<>> /\ Closed(Closing(t), TRUE)
      BY <1>2, ClosingIs DEF TaskInv, Counted
    <3>2. /\ Fields \subseteq DOMAIN v /\ v.sequence = t.sequence /\ v.sent = t.sent /\ v.place = "closing"
          /\ v.calls = t.calls /\ v.batch = Closing(t)
      BY <1>2 DEF TaskInv, Counted, Fields, Dropped
    <3> HIDE DEF v
    <3> QED BY <1>2, <3>1, <3>2 DEF TaskInv, Counted
  <2> HIDE DEF v
  <2>4. TaskInv(u) /\ u.sequence = t.sequence /\ u.place # "new"
    BY <2>2, <2>3
  <2> HIDE DEF u
  <2> QED BY <2>1, <2>4, QuietStep DEF t
<1>14. CASE Close(a)
  <2> DEFINE b == t.batch
             next == [t EXCEPT !.batch = Tail(@)]
             one == <<Head(b)>>
             place == IF Len(b) = 1 THEN "ended" ELSE "closing"
  <2>1. t.place = "closing" /\ log' = log
    BY <1>14 DEF Close, client, t
  <2>2. Send(a, next, one, place) \/ (Send(a, t, one, "failing") /\ ~Fits(a, t, one))
    BY <1>14 DEF Close, t
  <2>3. Listed(b) /\ b # <<>> /\ Closed(b, TRUE)
    BY <1>2, <2>1 DEF TaskInv, Counted
  <2>4. /\ Fields \subseteq DOMAIN next /\ next.sequence = t.sequence /\ next.sent = t.sent
        /\ next.place = t.place /\ next.calls = t.calls /\ next.batch = Tail(b)
    BY <1>2 DEF TaskInv, Counted, Fields
  <2> HIDE DEF next, b
  <2>5. /\ Len(b) \in Nat /\ Len(b) # 0 /\ DOMAIN b = 1 .. Len(b) /\ Head(b) = b[1]
        /\ Listed(Tail(b)) /\ Len(Tail(b)) = Len(b) - 1 /\ DOMAIN Tail(b) = 1 .. Len(b) - 1
        /\ \A n \in 1 .. Len(b) - 1 : Tail(b)[n] = b[n + 1]
    BY <2>3, TailIs
  <2>6. Len(b) # 1 => Tail(b) # <<>>
    BY <2>5
  <2>7. Closed(Tail(b), TRUE)
    <3>1. ASSUME NEW n \in DOMAIN Tail(b), Ends(Tail(b)[n]) PROVE n = Len(Tail(b))
      <4>1. n \in 1 .. Len(b) - 1 /\ n + 1 \in DOMAIN b /\ Ends(b[n + 1])
        BY <2>5, <3>1
      <4>2. n + 1 = Len(b)
        BY <2>3, <4>1 DEF Closed
      <4> QED BY <2>5, <4>1, <4>2
    <3> QED BY <3>1 DEF Closed
  <2>8. Ends(Head(b)) => Len(b) = 1
    BY <2>3, <2>5 DEF Closed
  <2>9. CASE Send(a, next, one, place)
    <3>1. place # "new" /\ (place = "closing" => Len(b) # 1) /\ (place = "ended" <=> Len(b) = 1)
      OBVIOUS
    <3>2. Listed(one) /\ Closed(one, place = "ended")
      BY <2>8, SingleEvent
    <3>3. place = "closing" => Listed(next.batch) /\ next.batch # <<>> /\ Closed(next.batch, TRUE)
      BY <2>4, <2>5, <2>6, <2>7, <3>1
    <3>4. Counted(next)
      BY <1>2, <2>4 DEF TaskInv, Counted
    <3> HIDE DEF place, one
    <3> QED BY <2>1, <2>4, <2>9, <3>1, <3>2, <3>3, <3>4, SendMoves DEF t
  <2>10. CASE Send(a, t, one, "failing") /\ ~Fits(a, t, one)
    <3>1. Counted(t) /\ Listed(one) /\ Len(one) = 1
      BY <1>2, SingleEvent DEF TaskInv
    <3> HIDE DEF one
    <3> QED BY <2>1, <2>10, <3>1, SendMoves DEF t
  <2> QED BY <2>2, <2>9, <2>10
<1>15. CASE Failure(a)
  <2> DEFINE e == Event("failed", None, <<>>)
  <2>1. Listed(<<e>>) /\ Closed(<<e>>, TRUE)
    BY SingleEvent
  <2>2. t.place = "failing" /\ log' = log /\ Send(a, t, <<e>>, "ended")
    BY <1>15 DEF Failure, client, t
  <2> HIDE DEF e
  <2> QED BY <1>2, <2>1, <2>2, SendMoves DEF t, TaskInv
<1>16. CASE Mark(a) \/ Signal(a)
  BY <1>16 DEF Mark, Signal, client, StreamInv
<1>17. CASE Read(a)
  BY <1>17, ReadLine
<1>18. CASE Leave(a)
  BY <1>18, LeaveLine
<1> QED BY <1>3, <1>4, <1>5, <1>6, <1>7, <1>8, <1>9, <1>10, <1>11, <1>12, <1>13, <1>14, <1>15, <1>16, <1>17, <1>18

(* Of a line in order, what was read is in order. *)
LEMMA LineInOrder == StreamInv => StreamInOrder
<1> SUFFICES ASSUME StreamInv, NEW a \in Attempts, NEW m \in DOMAIN log[a], NEW n \in DOMAIN log[a], m < n
             PROVE  log[a][m].number < log[a][n].number /\ ~Ends(log[a][m])
  BY DEF StreamInOrder
<1> DEFINE l == log[a]
           c == chan[a]
           j == l \o c
<1>1. Listed(l) /\ Listed(c) /\ Ordered(j, task[a].sequence) /\ Closed(j, task[a].place = "ended")
  <2>1. LineInv(l, c, task[a])
    BY DEF StreamInv, StreamOf
  <2> QED BY <2>1 DEF LineInv
<1>2. /\ Listed(j) /\ Len(j) = Len(l) + Len(c) /\ \A i \in 1 .. Len(l) : j[i] = l[i]
      /\ Len(l) \in Nat /\ Len(c) \in Nat /\ DOMAIN l = 1 .. Len(l)
  BY <1>1, ListedJoined, ListedLength
<1> HIDE DEF j
<1>3. DOMAIN j = 1 .. Len(l) + Len(c)
  BY <1>2, ListedLength
<1> HIDE DEF l, c
<1>4. m \in 1 .. Len(l) /\ n \in 1 .. Len(l)
  BY <1>2 DEF l
<1>5. m \in DOMAIN j /\ n \in DOMAIN j /\ j[m] = l[m] /\ j[n] = l[n]
  BY <1>2, <1>3, <1>4
<1>6. m # Len(j)
  BY <1>2, <1>4
<1> QED BY <1>1, <1>5, <1>6 DEF Ordered, Closed, l

(* What a client reads is numbered in order, and nothing follows an end:     *)
(* whatever the provider sends, however small the buffer and the limit, and  *)
(* wherever the response fails, is cancelled or times out (ResponseStream,   *)
(* send_completed_events).                                                   *)
THEOREM StreamInOrderHolds == Spec => []StreamInOrder
BY LineInOrder, StreamInvInit, StreamInvNext, PTL DEF Spec
-----------------------------------------------------------------------------
(* Any numbers have a least one ... *)
LEMMA LeastNumber ==
  ASSUME NEW T, T \subseteq Nat, T # {}
  PROVE  \E n \in T : \A m \in T : n <= m
<1>1. PICK n \in T : \A m \in T : ~ (<<m, n>> \in OpToRel(<, Nat))
  BY NatLessThanWellFounded, WFMin
<1>2. \A m \in T : ~ (m < n)
  BY <1>1 DEF OpToRel
<1> QED BY <1>2

(* ... so that one which has 0, and with a number the next, has them all. *)
LEMMA AllNumbers ==
  ASSUME NEW T, 0 \in T, \A n \in Nat : n \in T => n + 1 \in T
  PROVE  Nat \subseteq T
<1>1. SUFFICES ASSUME Nat \ T # {} PROVE FALSE
  OBVIOUS
<1>2. PICK n \in Nat \ T : \A m \in Nat \ T : n <= m
  BY <1>1, LeastNumber
<1>3. n - 1 \in Nat /\ n - 1 \in T
  BY <1>2
<1> QED BY <1>2, <1>3

(* What was told so far, with an event more. *)
Heard(x, e, type, item) == IF Is(e, type, item) THEN x \o e.data ELSE x

(* What a line tells is told one event after the other. *)
LEMMA ToldInOrder ==
  ASSUME NEW s, NEW type, NEW item, Len(s) \in Nat
  PROVE  \E g : /\ g[0] = <<>> /\ Told(s, type, item) = g[Len(s)]
                /\ \A n \in 1 .. Len(s) : g[n] = Heard(g[n - 1], s[n], type, item)
<1> DEFINE Nth(g, n) == IF n = 0 THEN <<>>
                        ELSE IF Is(s[n], type, item) THEN g[n - 1] \o s[n].data
                        ELSE g[n - 1]
           Grows(g, k) == g = [n \in 0 .. k |-> Nth(g, n)]
           T == {k \in Nat : \E g : Grows(g, k)}
           L == Len(s)
           P == CHOOSE g : Grows(g, L)
<1>1. 0 \in T
  <2>1. Grows([n \in 0 .. 0 |-> <<>>], 0)
    OBVIOUS
  <2> QED BY <2>1
<1>2. ASSUME NEW k \in Nat, k \in T PROVE k + 1 \in T
  <2>1. PICK g : Grows(g, k)
    BY <1>2
  <2> DEFINE x == IF Is(s[k + 1], type, item) THEN g[k] \o s[k + 1].data ELSE g[k]
             h == [n \in 0 .. k + 1 |-> IF n = k + 1 THEN x ELSE g[n]]
  <2>2. \A n \in 0 .. k + 1 : h[n] = Nth(h, n)
    <3>1. ASSUME NEW n \in 0 .. k PROVE h[n] = Nth(h, n)
      <4>1. h[n] = g[n]
        BY <3>1
      <4>2. g[n] = Nth(g, n)
        <5> HIDE DEF Nth
        <5> QED BY <2>1, <3>1
      <4>3. n # 0 => h[n - 1] = g[n - 1]
        BY <3>1
      <4> HIDE DEF h
      <4> QED BY <4>1, <4>2, <4>3
    <3>2. h[k + 1] = Nth(h, k + 1)
      <4>1. h[k + 1] = x /\ h[(k + 1) - 1] = g[k] /\ k + 1 # 0
        OBVIOUS
      <4> HIDE DEF h
      <4> QED BY <4>1
    <3> HIDE DEF h, Nth
    <3> QED BY <3>1, <3>2
  <2>3. Grows(h, k + 1)
    <3> HIDE DEF Nth, x
    <3> QED BY <2>2
  <2> HIDE DEF Grows, h
  <2> QED BY <2>3
<1>3. \E g : Grows(g, L)
  <2> HIDE DEF Grows
  <2> QED BY <1>1, <1>2, AllNumbers
<1>4. Told(s, type, item) = P[L]
  BY DEF Told
<1>5. Grows(P, L)
  <2> HIDE DEF Grows
  <2> QED BY <1>3
<1> HIDE DEF P
<1>6. \A n \in 0 .. L : P[n] = Nth(P, n)
  <2> HIDE DEF Nth
  <2> QED BY <1>5
<1>7. L \in Nat
  OBVIOUS
<1> HIDE DEF L
<1>8. P[0] = <<>> /\ \A n \in 1 .. L : P[n] = Heard(P[n - 1], s[n], type, item)
  BY <1>6, <1>7 DEF Heard
<1> QED BY <1>4, <1>8 DEF L

(* A line that begins like another, and goes on with what tells nothing of   *)
(* an item, tells the same of it.                                           *)
LEMMA ToldMore ==
  ASSUME NEW s, NEW r, NEW type, NEW item, Len(s) \in Nat, Len(r) \in Nat, Len(s) <= Len(r),
         \A n \in 1 .. Len(s) : Alike(s[n], r[n]),
         \A n \in Len(s) + 1 .. Len(r) : ~Is(r[n], type, item)
  PROVE  Told(r, type, item) = Told(s, type, item)
<1>1. PICK g : /\ g[0] = <<>> /\ Told(s, type, item) = g[Len(s)]
               /\ \A n \in 1 .. Len(s) : g[n] = Heard(g[n - 1], s[n], type, item)
  BY ToldInOrder
<1>2. PICK h : /\ h[0] = <<>> /\ Told(r, type, item) = h[Len(r)]
               /\ \A n \in 1 .. Len(r) : h[n] = Heard(h[n - 1], r[n], type, item)
  BY ToldInOrder
<1> DEFINE L == Len(s)
           M == Len(r)
           T == {n \in Nat : n <= L => h[n] = g[n]}
           U == {n \in Nat : L + n <= M => h[L + n] = g[L]}
<1>3. L \in Nat /\ M \in Nat /\ L <= M
  OBVIOUS
<1>4. Nat \subseteq T
  <2>1. 0 \in T
    BY <1>1, <1>2
  <2>2. ASSUME NEW n \in Nat, n \in T PROVE n + 1 \in T
    <3>1. SUFFICES ASSUME n + 1 <= L PROVE h[n + 1] = g[n + 1]
      OBVIOUS
    <3>2. n + 1 \in 1 .. L /\ n + 1 \in 1 .. M /\ (n + 1) - 1 = n /\ h[n] = g[n]
      BY <1>3, <2>2, <3>1
    <3>3. Alike(s[n + 1], r[n + 1])
      BY <3>2
    <3>4. g[n + 1] = Heard(g[n], s[n + 1], type, item) /\ h[n + 1] = Heard(g[n], r[n + 1], type, item)
      BY <1>1, <1>2, <3>2
    <3> QED BY <3>3, <3>4 DEF Heard, Alike, Is
  <2> HIDE DEF T
  <2> QED BY <2>1, <2>2, AllNumbers
<1>5. Nat \subseteq U
  <2>1. 0 \in U
    BY <1>3, <1>4
  <2>2. ASSUME NEW n \in Nat, n \in U PROVE n + 1 \in U
    <3>1. SUFFICES ASSUME L + (n + 1) <= M PROVE h[L + (n + 1)] = g[L]
      OBVIOUS
    <3> DEFINE p == L + (n + 1)
    <3>2. p \in 1 .. M /\ p \in L + 1 .. M /\ p - 1 = L + n /\ h[L + n] = g[L]
      BY <1>3, <2>2, <3>1
    <3> HIDE DEF p
    <3>3. h[p] = Heard(h[p - 1], r[p], type, item) /\ ~Is(r[p], type, item)
      BY <1>2, <3>2
    <3>4. h[p] = g[L]
      BY <3>2, <3>3 DEF Heard
    <3> QED BY <3>4 DEF p
  <2> HIDE DEF U
  <2> QED BY <2>1, <2>2, AllNumbers
<1>6. h[M] = g[L]
  <2>1. M - L \in Nat /\ L + (M - L) = M
    BY <1>3
  <2>2. \A n \in Nat : L + n <= M => h[L + n] = g[L]
    BY <1>5
  <2> HIDE DEF L, M, U
  <2>3. L + (M - L) <= M
    BY <1>3, <2>1
  <2> QED BY <2>1, <2>2, <2>3
<1> QED BY <1>1, <1>2, <1>6

(* Lines that differ at most in their numbers say the same ... *)
Same(s, r) == Listed(s) /\ Listed(r) /\ Len(s) = Len(r) /\ \A n \in 1 .. Len(s) : Alike(s[n], r[n])

LEMMA SaidAlike ==
  ASSUME NEW s, NEW r, Same(s, r), NEW type, NEW item
  PROVE  Spots(s, type, item) = Spots(r, type, item) /\ Told(s, type, item) = Told(r, type, item)
<1>1. Len(s) \in Nat /\ DOMAIN s = 1 .. Len(s) /\ Len(r) = Len(s) /\ DOMAIN r = 1 .. Len(s)
  BY ListedLength DEF Same
<1>2. \A n \in 1 .. Len(s) : Alike(s[n], r[n])
  BY DEF Same
<1>3. Spots(s, type, item) = Spots(r, type, item)
  BY <1>1, <1>2 DEF Spots, Is, Alike
<1>4. Told(r, type, item) = Told(s, type, item)
  <2> DEFINE L == Len(s)
  <2>1. L \in Nat /\ Len(r) = L /\ \A n \in L + 1 .. Len(r) : ~Is(r[n], type, item)
    <3>1. L \in Nat /\ Len(r) = L
      BY <1>1
    <3> HIDE DEF L
    <3>2. L + 1 .. Len(r) = {}
      BY <3>1
    <3> QED BY <3>1, <3>2
  <2>2. Len(s) <= Len(r)
    BY <1>1
  <2> QED BY <1>1, <1>2, <2>1, <2>2, ToldMore
<1> QED BY <1>3, <1>4

(* ... and add up alike. *)
LEMMA AddsUpAlike ==
  ASSUME NEW s, NEW r, Same(s, r), AddsUp(s)
  PROVE  AddsUp(r)
<1>1. DOMAIN s = DOMAIN r /\ \A n \in DOMAIN s : s[n].data = r[n].data
  BY ListedLength DEF Same, Alike
<1>2. \A type, item : Spots(s, type, item) = Spots(r, type, item) /\ Told(s, type, item) = Told(r, type, item)
  BY SaidAlike
<1>3. \E n \in DOMAIN r :
        /\ Spots(r, "text_done", None) = {n}
        /\ r[n].data = Trimmed(Told(r, "text", None))
  <2>1. PICK n \in DOMAIN s :
        /\ Spots(s, "text_done", None) = {n}
        /\ s[n].data = Trimmed(Told(s, "text", None))
    BY DEF AddsUp
  <2>2. Told(r, "text", None) = Told(s, "text", None) /\ Spots(r, "text_done", None) = {n} /\ r[n].data = s[n].data /\ n \in DOMAIN r
    BY <1>1, <1>2, <2>1
  <2> QED BY <2>1, <2>2
<1>4. ASSUME NEW i \in Calls
      PROVE  \/ \A type \in {"added", "arguments", "call_done"} : Spots(r, type, i) = {}
             \/ \E m, n \in DOMAIN r :
                  /\ Spots(r, "added", i) = {m} /\ Spots(r, "call_done", i) = {n}
                  /\ r[n].data = <<r[m].data[1], r[m].data[2], Told(r, "arguments", i)>>
                  /\ \A k \in Spots(r, "arguments", i) : m < k
  <2>1. CASE \A type \in {"added", "arguments", "call_done"} : Spots(s, type, i) = {}
    BY <1>2, <2>1
  <2>2. CASE \E m, n \in DOMAIN s :
                  /\ Spots(s, "added", i) = {m} /\ Spots(s, "call_done", i) = {n}
                  /\ s[n].data = <<s[m].data[1], s[m].data[2], Told(s, "arguments", i)>>
                  /\ \A k \in Spots(s, "arguments", i) : m < k
    <3>1. PICK m \in DOMAIN s, n \in DOMAIN s :
                  /\ Spots(s, "added", i) = {m} /\ Spots(s, "call_done", i) = {n}
                  /\ s[n].data = <<s[m].data[1], s[m].data[2], Told(s, "arguments", i)>>
                  /\ \A k \in Spots(s, "arguments", i) : m < k
      BY <2>2
    <3>2. /\ Told(r, "arguments", i) = Told(s, "arguments", i) /\ Spots(r, "added", i) = {m}
          /\ Spots(r, "call_done", i) = {n} /\ Spots(r, "arguments", i) = Spots(s, "arguments", i)
          /\ r[n].data = s[n].data /\ r[m].data = s[m].data /\ m \in DOMAIN r /\ n \in DOMAIN r
      BY <1>1, <1>2, <3>1
    <3>3. r[n].data = <<r[m].data[1], r[m].data[2], Told(r, "arguments", i)>>
      BY <3>1, <3>2
    <3> QED BY <3>1, <3>2, <3>3
  <2> QED BY <2>1, <2>2 DEF AddsUp
<1> QED BY <1>3, <1>4 DEF AddsUp

(* A line and events behind it. *)
LEMMA SpotsJoined ==
  ASSUME NEW s, NEW e, Listed(s), Listed(e), NEW type, NEW item
  PROVE  Spots(s \o e, type, item) = Spots(s, type, item) \cup {Len(s) + n : n \in Spots(e, type, item)}
<1> DEFINE j == s \o e
<1>1. /\ Listed(j) /\ Len(j) = Len(s) + Len(e)
      /\ \A n \in 1 .. Len(s) : j[n] = s[n]
      /\ \A n \in 1 .. Len(e) : j[Len(s) + n] = e[n]
  BY ListedJoined
<1>2. /\ Len(s) \in Nat /\ Len(e) \in Nat /\ DOMAIN s = 1 .. Len(s) /\ DOMAIN e = 1 .. Len(e)
      /\ DOMAIN j = 1 .. Len(s) + Len(e)
  BY <1>1, ListedLength
<1> HIDE DEF j
<1>3. ASSUME NEW n \in Spots(j, type, item)
      PROVE  n \in Spots(s, type, item) \cup {Len(s) + k : k \in Spots(e, type, item)}
  <2>1. n \in 1 .. Len(s) + Len(e) /\ Is(j[n], type, item)
    BY <1>2 DEF Spots
  <2>2. CASE n \in 1 .. Len(s)
    BY <1>1, <1>2, <2>1, <2>2 DEF Spots
  <2>3. CASE n \notin 1 .. Len(s)
    <3>1. n - Len(s) \in 1 .. Len(e) /\ n = Len(s) + (n - Len(s))
      BY <1>2, <2>1, <2>3
    <3>2. Is(e[n - Len(s)], type, item)
      BY <1>1, <2>1, <3>1
    <3>3. n - Len(s) \in Spots(e, type, item)
      BY <1>2, <3>1, <3>2 DEF Spots
    <3> QED BY <3>1, <3>3
  <2> QED BY <2>2, <2>3
<1>4. Spots(s, type, item) \subseteq Spots(j, type, item)
  BY <1>1, <1>2 DEF Spots
<1>5. ASSUME NEW n \in Spots(e, type, item) PROVE Len(s) + n \in Spots(j, type, item)
  <2>1. n \in 1 .. Len(e) /\ Is(e[n], type, item)
    BY <1>2 DEF Spots
  <2>2. j[Len(s) + n] = e[n] /\ Len(s) + n \in DOMAIN j
    BY <1>1, <1>2, <2>1
  <2> QED BY <2>1, <2>2 DEF Spots
<1> QED BY <1>3, <1>4, <1>5 DEF j

(* Events that tell nothing of an item add nothing to it. *)
LEMMA ToldJoined ==
  ASSUME NEW s, NEW e, Listed(s), Listed(e), NEW type, NEW item, Spots(e, type, item) = {}
  PROVE  Told(s \o e, type, item) = Told(s, type, item)
<1> DEFINE j == s \o e
<1>1. /\ Listed(j) /\ Len(j) = Len(s) + Len(e)
      /\ \A n \in 1 .. Len(s) : j[n] = s[n]
      /\ \A n \in 1 .. Len(e) : j[Len(s) + n] = e[n]
  BY ListedJoined
<1>2. /\ Len(s) \in Nat /\ Len(e) \in Nat /\ DOMAIN s = 1 .. Len(s) /\ DOMAIN e = 1 .. Len(e)
  BY <1>1, ListedLength
<1> HIDE DEF j
<1>3. ASSUME NEW n \in Len(s) + 1 .. Len(j) PROVE ~Is(j[n], type, item)
  <2>1. n - Len(s) \in 1 .. Len(e) /\ n = Len(s) + (n - Len(s))
    BY <1>1, <1>2
  <2>2. j[n] = e[n - Len(s)]
    BY <1>1, <2>1
  <2> QED BY <1>2, <2>1, <2>2 DEF Spots
<1>4. \A n \in 1 .. Len(s) : Alike(s[n], j[n])
  BY <1>1 DEF Alike
<1>5. Len(j) \in Nat /\ Len(s) <= Len(j)
  BY <1>1, <1>2
<1>6. Told(j, type, item) = Told(s, type, item)
  BY <1>2, <1>3, <1>4, <1>5, ToldMore
<1> QED BY <1>6 DEF j

LEMMA OneMore ==
  ASSUME NEW s, NEW x, Listed(s), Listed(x), Len(x) = 1
  PROVE  /\ Listed(s \o x) /\ Len(s \o x) = Len(s) + 1
         /\ \A n \in 1 .. Len(s) : (s \o x)[n] = s[n]
         /\ (s \o x)[Len(s) + 1] = x[1]
<1>1. Listed(s \o x) /\ Len(s \o x) = Len(s) + Len(x)
  BY ListedJoined
<1>2. \A n \in 1 .. Len(s) : (s \o x)[n] = s[n]
  BY ListedJoined
<1>3. \A n \in 1 .. Len(x) : (s \o x)[Len(s) + n] = x[n]
  BY ListedJoined
<1> QED BY <1>1, <1>2, <1>3

(* One event more, or none. *)
Also(s, given, e) == s \o (IF given THEN <<e>> ELSE <<>>)

LEMMA AlsoIs ==
  ASSUME NEW s, NEW given \in BOOLEAN, NEW e, Listed(s)
  PROVE  LET j == Also(s, given, e)
         IN /\ Listed(j) /\ (given => Len(j) = Len(s) + 1 /\ j[Len(s) + 1] = e) /\ (~given => j = s)
            /\ \A n \in 1 .. Len(s) : j[n] = s[n]
            /\ \A type, item :
                 /\ Spots(j, type, item) = Spots(s, type, item)
                      \cup (IF given /\ Is(e, type, item) THEN {Len(s) + 1} ELSE {})
                 /\ Told(j, type, item) =
                      IF given THEN Heard(Told(s, type, item), e, type, item) ELSE Told(s, type, item)
<1> DEFINE o == <<e>>
           j == s \o o
<1>1. Len(s) \in Nat /\ DOMAIN s = 1 .. Len(s)
  BY ListedLength
<1>2. CASE ~given
  <2>1. s \o <<>> = s
    BY DEF Listed
  <2> QED BY <1>2, <2>1 DEF Also
<1>3. CASE given
  <2>1. Listed(o) /\ Len(o) = 1 /\ DOMAIN o = {1} /\ o[1] = e
    BY DEF Listed
  <2>2. Also(s, given, e) = j
    BY <1>3 DEF Also
  <2> HIDE DEF o
  <2>3. /\ Listed(j) /\ Len(j) = Len(s) + 1
        /\ \A n \in 1 .. Len(s) : j[n] = s[n]
        /\ j[Len(s) + 1] = e
    <3>1. \A x : Listed(x) /\ Len(x) = 1 =>
            /\ Listed(s \o x) /\ Len(s \o x) = Len(s) + 1
            /\ \A n \in 1 .. Len(s) : (s \o x)[n] = s[n]
            /\ (s \o x)[Len(s) + 1] = x[1]
      BY OneMore
    <3> QED BY <2>1, <3>1
  <2>4. ASSUME NEW type, NEW item
        PROVE  Spots(j, type, item) = Spots(s, type, item)
                 \cup (IF Is(e, type, item) THEN {Len(s) + 1} ELSE {})
    <3>1. Spots(o, type, item) = IF Is(e, type, item) THEN {1} ELSE {}
      BY <2>1 DEF Spots
    <3>2. Spots(j, type, item) = Spots(s, type, item) \cup {Len(s) + n : n \in Spots(o, type, item)}
      BY <2>1, SpotsJoined
    <3> HIDE DEF j
    <3> QED BY <3>1, <3>2
  <2>5. ASSUME NEW type, NEW item
        PROVE  Told(j, type, item) = Heard(Told(s, type, item), e, type, item)
    <3> HIDE DEF j
    <3>1. Len(j) \in Nat
      BY <2>3, <1>1
    <3>2. PICK h : /\ h[0] = <<>> /\ Told(j, type, item) = h[Len(j)]
                   /\ \A n \in 1 .. Len(j) : h[n] = Heard(h[n - 1], j[n], type, item)
      BY <3>1, ToldInOrder
    <3>3. PICK g : /\ g[0] = <<>> /\ Told(s, type, item) = g[Len(s)]
                   /\ \A n \in 1 .. Len(s) : g[n] = Heard(g[n - 1], s[n], type, item)
      BY <1>1, ToldInOrder
    <3> DEFINE T == {n \in Nat : n <= Len(s) => h[n] = g[n]}
    <3>4. Nat \subseteq T
      <4>1. 0 \in T
        BY <3>2, <3>3
      <4>2. ASSUME NEW n \in Nat, n \in T PROVE n + 1 \in T
        <5>1. SUFFICES ASSUME n + 1 <= Len(s) PROVE h[n + 1] = g[n + 1]
          OBVIOUS
        <5>2. n + 1 \in 1 .. Len(s) /\ n + 1 \in 1 .. Len(j) /\ (n + 1) - 1 = n /\ h[n] = g[n]
          BY <1>1, <2>3, <4>2, <5>1 DEF j
        <5>3. j[n + 1] = s[n + 1]
          BY <2>3, <5>2 DEF j
        <5> QED BY <3>2, <3>3, <5>2, <5>3
      <4> HIDE DEF T
      <4> QED BY <4>1, <4>2, AllNumbers
    <3>5. h[Len(s)] = g[Len(s)]
      BY <1>1, <3>4
    <3>6. Len(j) = Len(s) + 1 /\ j[Len(s) + 1] = e /\ Len(s) + 1 \in 1 .. Len(j) /\ (Len(s) + 1) - 1 = Len(s)
      BY <1>1, <2>3 DEF j
    <3>7. h[Len(s) + 1] = Heard(h[Len(s)], e, type, item)
      BY <3>2, <3>6
    <3> QED BY <3>2, <3>3, <3>5, <3>6, <3>7
  <2> HIDE DEF j
  <2> QED BY <1>3, <2>2, <2>3, <2>4, <2>5
<1> QED BY <1>2, <1>3

(* What the provider still sends goes with the calls gathered before: a chunk *)
(* agrees with what was said of its call, it has arguments only of a call     *)
(* that is named, and the calls before it have begun.                         *)
Said(calls, rest, n) ==
  LET i == rest[n].index
  IN /\ rest[n].id # "" /\ rest[n].name # ""
     /\ i \in DOMAIN calls => Agree(calls[i].id, rest[n].id) /\ Agree(calls[i].name, rest[n].name)
     /\ \A m \in 1 .. n : rest[m].index = i =>
          Agree(rest[m].id, rest[n].id) /\ Agree(rest[m].name, rest[n].name)
     /\ rest[n].arguments # <<>> =>
          /\ \/ i \in DOMAIN calls /\ calls[i].id # None
             \/ \E m \in 1 .. n : rest[m].index = i /\ rest[m].id # None
          /\ \/ i \in DOMAIN calls /\ calls[i].name # None
             \/ \E m \in 1 .. n : rest[m].index = i /\ rest[m].name # None
     /\ \A j \in 0 .. i - 1 : j \in DOMAIN calls \/ \E m \in 1 .. n : rest[m].index = j

Chunked(d) == Listed(d.text) /\ Listed(d.arguments) /\ d.index \in Calls \cup {None}
Follows(calls, rest) ==
  /\ Listed(rest)
  /\ \A n \in 1 .. Len(rest) : Chunked(rest[n]) /\ (rest[n].index # None => Said(calls, rest, n))

LEMMA FollowsFirst ==
  ASSUME ProviderIsSound, NEW a \in Attempts, NEW s \in Scripts[a], NEW calls, DOMAIN calls = {}
  PROVE  Follows(calls, s)
<1>1. Listed(s) /\ DOMAIN s = 1 .. Len(s)
  BY ListedLength DEF ProviderIsSound
<1>2. ASSUME NEW n \in 1 .. Len(s) PROVE Chunked(s[n])
  BY <1>1 DEF ProviderIsSound, Chunked
<1>3. ASSUME NEW n \in 1 .. Len(s), s[n].index # None PROVE Said(calls, s, n)
  <2> DEFINE i == s[n].index
             about(k) == {m \in 1 .. n : s[m].index = k}
  <2>1. /\ s[n].id # "" /\ s[n].name # ""
        /\ \A m \in about(i) : Agree(s[m].id, s[n].id) /\ Agree(s[m].name, s[n].name)
        /\ s[n].arguments # <<>> =>
             (\E m \in about(i) : s[m].id # None) /\ \E m \in about(i) : s[m].name # None
        /\ \A j \in 0 .. i - 1 : about(j) # {}
    BY <1>1, <1>3 DEF ProviderIsSound
  <2>2. \A m \in 1 .. n : s[m].index = i => Agree(s[m].id, s[n].id) /\ Agree(s[m].name, s[n].name)
    BY <2>1
  <2>3. s[n].arguments # <<>> =>
          /\ \E m \in 1 .. n : s[m].index = i /\ s[m].id # None
          /\ \E m \in 1 .. n : s[m].index = i /\ s[m].name # None
    BY <2>1
  <2>4. \A j \in 0 .. i - 1 : \E m \in 1 .. n : s[m].index = j
    BY <2>1
  <2>5. i \notin DOMAIN calls
    OBVIOUS
  <2> QED BY <2>1, <2>2, <2>3, <2>4, <2>5 DEF Said
<1> QED BY <1>1, <1>2, <1>3 DEF Follows

(* What is gathered of a chunk. *)
Gathers(calls, d) ==
  LET c == IF d.index \in DOMAIN calls THEN calls[d.index] ELSE NoCall
      g == Gather(calls, d)
  IN /\ DOMAIN g = DOMAIN calls \cup {d.index}
     /\ g[d.index].id = Kept(c.id, d.id) /\ g[d.index].name = Kept(c.name, d.name)
     /\ g[d.index].arguments = c.arguments \o d.arguments
     /\ \A i \in DOMAIN calls : i # d.index => g[i] = calls[i]

LEMMA Gathered == ASSUME NEW calls, NEW d, d.index # None PROVE Gathers(calls, d)
BY DEF Gather, Gathers

LEMMA FollowsOn ==
  ASSUME NEW calls, NEW rest, Follows(calls, rest), rest # <<>>
  PROVE  Follows(Gather(calls, Head(rest)), Tail(rest))
<1> DEFINE d == Head(rest)
           g == Gather(calls, d)
           r == Tail(rest)
<1>1. /\ Listed(rest) /\ Len(rest) \in Nat /\ Len(rest) # 0 /\ d = rest[1]
      /\ Listed(r) /\ Len(r) = Len(rest) - 1 /\ \A n \in 1 .. Len(r) : r[n] = rest[n + 1]
  BY TailIs DEF Follows
<1>2. d.index = None \/ d.index \in Nat
  <2>1. Chunked(rest[1])
    BY <1>1 DEF Follows
  <2> HIDE DEF d
  <2> QED BY <1>1, <2>1, BoundsArePositive DEF Chunked
<1>3. /\ DOMAIN calls \subseteq DOMAIN g /\ (d.index # None => d.index \in DOMAIN g)
      /\ \A i \in DOMAIN g : i # d.index => i \in DOMAIN calls /\ g[i] = calls[i]
      /\ d.index # None => /\ d.index \in DOMAIN calls /\ calls[d.index].id # None => g[d.index].id = calls[d.index].id
                           /\ d.index \in DOMAIN calls /\ calls[d.index].name # None => g[d.index].name = calls[d.index].name
                           /\ ~(d.index \in DOMAIN calls /\ calls[d.index].id # None) => g[d.index].id = d.id
                           /\ ~(d.index \in DOMAIN calls /\ calls[d.index].name # None) => g[d.index].name = d.name
      /\ d.index = None => g = calls
  <2>1. CASE d.index = None
    BY <2>1 DEF Gather
  <2>2. CASE d.index # None
    <3> DEFINE c == IF d.index \in DOMAIN calls THEN calls[d.index] ELSE NoCall
    <3>1. /\ DOMAIN g = DOMAIN calls \cup {d.index}
          /\ g[d.index].id = Kept(c.id, d.id) /\ g[d.index].name = Kept(c.name, d.name)
          /\ \A i \in DOMAIN calls : i # d.index => g[i] = calls[i]
      BY <2>2, Gathered DEF Gathers
    <3>2. (d.index \notin DOMAIN calls => c.id = None /\ c.name = None) /\ (d.index \in DOMAIN calls => c = calls[d.index])
      BY DEF NoCall
    <3> HIDE DEF d, g, c
    <3>3. (c.id # None => g[d.index].id = c.id) /\ (c.id = None => g[d.index].id = d.id)
      BY <3>1 DEF Kept
    <3>4. (c.name # None => g[d.index].name = c.name) /\ (c.name = None => g[d.index].name = d.name)
      BY <3>1 DEF Kept
    <3> QED BY <2>2, <3>1, <3>2, <3>3, <3>4
  <2> QED BY <2>1, <2>2
<1> HIDE DEF d, g, r
<1>4. ASSUME NEW n \in 1 .. Len(r) PROVE Chunked(r[n])
  BY <1>1 DEF Follows
<1>5. ASSUME NEW n \in 1 .. Len(r), r[n].index # None PROVE Said(g, r, n)
  <2> DEFINE i == r[n].index
  <2>1. n + 1 \in 1 .. Len(rest) /\ r[n] = rest[n + 1] /\ 1 \in 1 .. n + 1
    BY <1>1
  <2>2. Said(calls, rest, n + 1)
    BY <1>5, <2>1 DEF Follows
  <2>3. \A m \in 1 .. n : m + 1 \in 1 .. n + 1 /\ r[m] = rest[m + 1]
    BY <1>1
  <2>4. \A m \in 1 .. n + 1 : m = 1 \/ (m - 1 \in 1 .. n /\ rest[m] = r[m - 1])
    BY <1>1
  <2>5. /\ r[n].id # "" /\ r[n].name # ""
        /\ i \in DOMAIN calls => Agree(calls[i].id, r[n].id) /\ Agree(calls[i].name, r[n].name)
        /\ \A m \in 1 .. n + 1 : rest[m].index = i =>
             Agree(rest[m].id, r[n].id) /\ Agree(rest[m].name, r[n].name)
    BY <2>1, <2>2 DEF Said
  <2>6. r[n].arguments # <<>> =>
             /\ \/ i \in DOMAIN calls /\ calls[i].id # None
                \/ \E m \in 1 .. n + 1 : rest[m].index = i /\ rest[m].id # None
             /\ \/ i \in DOMAIN calls /\ calls[i].name # None
                \/ \E m \in 1 .. n + 1 : rest[m].index = i /\ rest[m].name # None
    BY <2>1, <2>2 DEF Said
  <2>7. \A j \in 0 .. i - 1 : j \in DOMAIN calls \/ \E m \in 1 .. n + 1 : rest[m].index = j
    BY <2>1, <2>2 DEF Said
  <2>8. i \in DOMAIN g => Agree(g[i].id, r[n].id) /\ Agree(g[i].name, r[n].name)
    <3>1. CASE i # d.index
      BY <1>3, <2>5, <3>1
    <3>2. CASE i = d.index
      <4>1. Agree(d.id, r[n].id) /\ Agree(d.name, r[n].name)
        BY <1>1, <2>1, <2>5, <3>2
      <4> DEFINE x == d.index
      <4>2. i = x /\ x # None
        BY <1>5, <3>2
      <4>3. g[x].id = d.id \/ (x \in DOMAIN calls /\ g[x].id = calls[x].id)
        <5>1. /\ x \in DOMAIN calls /\ calls[x].id # None => g[x].id = calls[x].id
              /\ ~(x \in DOMAIN calls /\ calls[x].id # None) => g[x].id = d.id
          BY <1>3, <4>2
        <5> QED BY <5>1
      <4>4. g[x].name = d.name \/ (x \in DOMAIN calls /\ g[x].name = calls[x].name)
        <5>1. /\ x \in DOMAIN calls /\ calls[x].name # None => g[x].name = calls[x].name
              /\ ~(x \in DOMAIN calls /\ calls[x].name # None) => g[x].name = d.name
          BY <1>3, <4>2
        <5> QED BY <5>1
      <4>5. i \in DOMAIN calls => Agree(calls[i].id, r[n].id) /\ Agree(calls[i].name, r[n].name)
        BY <2>5
      <4> HIDE DEF x, i
      <4>6. Agree(g[i].id, r[n].id)
        BY <4>1, <4>2, <4>3, <4>5
      <4>7. Agree(g[i].name, r[n].name)
        BY <4>1, <4>2, <4>4, <4>5
      <4> QED BY <4>6, <4>7
    <3> QED BY <3>1, <3>2
  <2>9. ASSUME NEW m \in 1 .. n, r[m].index = i PROVE Agree(r[m].id, r[n].id) /\ Agree(r[m].name, r[n].name)
    <3>1. m + 1 \in 1 .. n + 1 /\ r[m] = rest[m + 1]
      BY <2>3
    <3> HIDE DEF i
    <3> QED BY <2>5, <2>9, <3>1
  <2>10. ASSUME r[n].arguments # <<>>
        PROVE  (i \in DOMAIN g /\ g[i].id # None) \/ \E m \in 1 .. n : r[m].index = i /\ r[m].id # None
    <3>1. CASE i \in DOMAIN calls /\ calls[i].id # None
      BY <1>3, <1>5, <3>1
    <3>2. CASE ~(i \in DOMAIN calls /\ calls[i].id # None)
      <4>1. PICK m \in 1 .. n + 1 : rest[m].index = i /\ rest[m].id # None
        BY <2>10, <2>6, <3>2
      <4>2. CASE m = 1
        BY <1>1, <1>3, <1>5, <3>2, <4>1, <4>2
      <4>3. CASE m # 1
        BY <2>4, <4>1, <4>3
      <4> QED BY <4>2, <4>3
    <3> QED BY <3>1, <3>2
  <2>11. ASSUME r[n].arguments # <<>>
        PROVE  (i \in DOMAIN g /\ g[i].name # None) \/ \E m \in 1 .. n : r[m].index = i /\ r[m].name # None
    <3>1. CASE i \in DOMAIN calls /\ calls[i].name # None
      BY <1>3, <1>5, <3>1
    <3>2. CASE ~(i \in DOMAIN calls /\ calls[i].name # None)
      <4>1. PICK m \in 1 .. n + 1 : rest[m].index = i /\ rest[m].name # None
        BY <2>11, <2>6, <3>2
      <4>2. CASE m = 1
        BY <1>1, <1>3, <1>5, <3>2, <4>1, <4>2
      <4>3. CASE m # 1
        BY <2>4, <4>1, <4>3
      <4> QED BY <4>2, <4>3
    <3> QED BY <3>1, <3>2
  <2>12. ASSUME NEW j \in 0 .. i - 1 PROVE j \in DOMAIN g \/ \E m \in 1 .. n : r[m].index = j
    <3>1. CASE j \in DOMAIN calls
      BY <1>3, <3>1
    <3>2. CASE j \notin DOMAIN calls
      <4>1. PICK m \in 1 .. n + 1 : rest[m].index = j
        BY <2>7, <3>2
      <4>2. CASE m = 1
        <5>1. j \in Nat
          OBVIOUS
        <5>2. j # None
          BY <5>1, BoundsArePositive
        <5> QED BY <1>1, <1>3, <4>1, <4>2, <5>2
      <4>3. CASE m # 1
        BY <2>4, <4>1, <4>3
      <4> QED BY <4>2, <4>3
    <3> QED BY <3>1, <3>2
  <2> QED BY <2>5, <2>8, <2>9, <2>10, <2>11, <2>12 DEF Said
<1> QED BY <1>1, <1>4, <1>5 DEF Follows, d, g, r

(* What is forwarded of a chunk: a text, an announcement, arguments. *)
Announces(tools, d) == d.index # None /\ Tool(tools[d.index], d).added /\ ~tools[d.index].added
Announcement(tools, d) ==
  Event("added", d.index, <<Tool(tools[d.index], d).id, Tool(tools[d.index], d).name>>)
Instructs(d) == d.index # None /\ d.arguments # <<>>

LEMMA ForwardedIs ==
  ASSUME NEW h, NEW tools, NEW d, Listed(h)
  PROVE  h \o Forwarded(tools, d) =
           Also(Also(Also(h, d.text # <<>>, Event("text", None, d.text)),
                     Announces(tools, d), Announcement(tools, d)),
                Instructs(d), Event("arguments", d.index, d.arguments))
<1> DEFINE A == IF d.text # <<>> THEN <<Event("text", None, d.text)>> ELSE <<>>
           B == IF Announces(tools, d) THEN <<Announcement(tools, d)>> ELSE <<>>
           C == IF Instructs(d) THEN <<Event("arguments", d.index, d.arguments)>> ELSE <<>>
<1>1. \A x : Listed(<<x>>)
  BY DEF Listed
<1>2. Listed(<<>>) /\ <<>> \o <<>> = <<>>
  BY DEF Listed
<1>3. Listed(A) /\ Listed(B) /\ Listed(C)
  BY <1>1, <1>2
<1>4. Forwarded(tools, d) = A \o (B \o C)
  <2> DEFINE X == IF d.text = <<>> THEN <<>> ELSE <<Event("text", None, d.text)>>
             Y == IF d.index = None THEN <<>>
                  ELSE LET t == Tool(tools[d.index], d)
                       IN (IF t.added /\ ~tools[d.index].added
                           THEN <<Event("added", d.index, <<t.id, t.name>>)>> ELSE <<>>)
                          \o (IF d.arguments = <<>> THEN <<>>
                              ELSE <<Event("arguments", d.index, d.arguments)>>)
  <2>1. Forwarded(tools, d) = X \o Y
    BY DEF Forwarded
  <2>2. X = A
    OBVIOUS
  <2>3. Y = B \o C
    <3>1. CASE d.index = None
      BY <1>2, <3>1 DEF Announces, Instructs
    <3>2. CASE d.index # None
      <4>1. B = IF Tool(tools[d.index], d).added /\ ~tools[d.index].added
                THEN <<Event("added", d.index, <<Tool(tools[d.index], d).id, Tool(tools[d.index], d).name>>)>> ELSE <<>>
        BY <3>2 DEF Announces, Announcement
      <4>2. C = IF d.arguments = <<>> THEN <<>> ELSE <<Event("arguments", d.index, d.arguments)>>
        BY <3>2 DEF Instructs
      <4> HIDE DEF B, C
      <4> QED BY <3>2, <4>1, <4>2
    <3> QED BY <3>1, <3>2
  <2> HIDE DEF X, Y, A, B, C
  <2> QED BY <2>1, <2>2, <2>3
<1>5. Also(Also(Also(h, d.text # <<>>, Event("text", None, d.text)),
                Announces(tools, d), Announcement(tools, d)),
           Instructs(d), Event("arguments", d.index, d.arguments)) = ((h \o A) \o B) \o C
  BY DEF Also
<1> HIDE DEF A, B, C
<1>6. h \o (A \o (B \o C)) = ((h \o A) \o B) \o C
  <2> DEFINE r == B \o C
             k == h \o A
  <2>1. Listed(r) /\ Listed(k)
    BY <1>3, ListedJoined
  <2>2. h \o (A \o r) = k \o r
    <3> HIDE DEF r
    <3> QED BY <1>3, <2>1, JoinedTwice
  <2>3. k \o r = (k \o B) \o C
    <3> HIDE DEF k
    <3> QED BY <1>3, <2>1, JoinedTwice
  <2> QED BY <2>2, <2>3
<1> QED BY <1>4, <1>5, <1>6

(* What the client is told by it. *)
TellsOf(h, tools, d) ==
  LET g == h \o Forwarded(tools, d)
      t == Tool(tools[d.index], d)
  IN /\ Listed(g) /\ Len(h) <= Len(g) /\ \A n \in 1 .. Len(h) : g[n] = h[n]
     /\ Told(g, "text", None) =
          IF d.text # <<>> THEN Told(h, "text", None) \o d.text ELSE Told(h, "text", None)
     /\ \A i : Told(g, "arguments", i) =
          IF Instructs(d) /\ i = d.index THEN Told(h, "arguments", i) \o d.arguments
          ELSE Told(h, "arguments", i)
     /\ \A i : ~(Announces(tools, d) /\ i = d.index) => Spots(g, "added", i) = Spots(h, "added", i)
     /\ \A i : ~(Instructs(d) /\ i = d.index) => Spots(g, "arguments", i) = Spots(h, "arguments", i)
     /\ \A i : \A n \in Spots(g, "arguments", i) : n \in Spots(h, "arguments", i) \/ n > Len(h)
     /\ Announces(tools, d) =>
          \E m \in DOMAIN g :
            /\ Spots(g, "added", d.index) = Spots(h, "added", d.index) \cup {m}
            /\ g[m].data = <<t.id, t.name>>
            /\ \A n \in Spots(g, "arguments", d.index) : n \in Spots(h, "arguments", d.index) \/ m < n
     /\ \A i : Spots(g, "text_done", i) = Spots(h, "text_done", i)
               /\ Spots(g, "call_done", i) = Spots(h, "call_done", i)

LEMMA ForwardedSays ==
  ASSUME NEW h, NEW tools, NEW d, Listed(h)
  PROVE  TellsOf(h, tools, d)
<1> DEFINE g1 == d.text # <<>>
           g2 == Announces(tools, d)
           g3 == Instructs(d)
           e1 == Event("text", None, d.text)
           e2 == Announcement(tools, d)
           e3 == Event("arguments", d.index, d.arguments)
           t == Tool(tools[d.index], d)
           s1 == Also(h, g1, e1)
           s2 == Also(s1, g2, e2)
           g == Also(s2, g3, e3)
<1>1. h \o Forwarded(tools, d) = g
  BY ForwardedIs
<1>2. g1 \in BOOLEAN /\ g2 \in BOOLEAN /\ g3 \in BOOLEAN
  BY DEF Announces, Instructs
<1>3. /\ e1.type = "text" /\ e1.item = None /\ e1.data = d.text
      /\ e2.type = "added" /\ e2.item = d.index /\ e2.data = <<t.id, t.name>>
      /\ e3.type = "arguments" /\ e3.item = d.index /\ e3.data = d.arguments
  BY DEF Event, Announcement
<1> HIDE DEF g1, g2, g3, e1, e2, e3, t
<1>4. /\ Listed(s1) /\ (g1 => Len(s1) = Len(h) + 1 /\ s1[Len(h) + 1] = e1) /\ (~g1 => s1 = h)
      /\ \A n \in 1 .. Len(h) : s1[n] = h[n]
      /\ \A type, item :
           /\ Spots(s1, type, item) = Spots(h, type, item)
                \cup (IF g1 /\ Is(e1, type, item) THEN {Len(h) + 1} ELSE {})
           /\ Told(s1, type, item) =
                IF g1 THEN Heard(Told(h, type, item), e1, type, item) ELSE Told(h, type, item)
  BY <1>2, AlsoIs
<1> HIDE DEF s1
<1>5. /\ Listed(s2) /\ (g2 => Len(s2) = Len(s1) + 1 /\ s2[Len(s1) + 1] = e2) /\ (~g2 => s2 = s1)
      /\ \A n \in 1 .. Len(s1) : s2[n] = s1[n]
      /\ \A type, item :
           /\ Spots(s2, type, item) = Spots(s1, type, item)
                \cup (IF g2 /\ Is(e2, type, item) THEN {Len(s1) + 1} ELSE {})
           /\ Told(s2, type, item) =
                IF g2 THEN Heard(Told(s1, type, item), e2, type, item) ELSE Told(s1, type, item)
  BY <1>2, <1>4, AlsoIs
<1> HIDE DEF s2
<1>6. /\ Listed(g) /\ (g3 => Len(g) = Len(s2) + 1 /\ g[Len(s2) + 1] = e3) /\ (~g3 => g = s2)
      /\ \A n \in 1 .. Len(s2) : g[n] = s2[n]
      /\ \A type, item :
           /\ Spots(g, type, item) = Spots(s2, type, item)
                \cup (IF g3 /\ Is(e3, type, item) THEN {Len(s2) + 1} ELSE {})
           /\ Told(g, type, item) =
                IF g3 THEN Heard(Told(s2, type, item), e3, type, item) ELSE Told(s2, type, item)
  BY <1>2, <1>5, AlsoIs
<1> HIDE DEF g
<1>7. /\ Len(h) \in Nat /\ Len(s1) \in Nat /\ Len(s2) \in Nat /\ Len(g) \in Nat /\ DOMAIN g = 1 .. Len(g)
      /\ Len(h) <= Len(s1) /\ Len(s1) <= Len(s2) /\ Len(s2) <= Len(g)
  BY <1>2, <1>4, <1>5, <1>6, ListedLength
<1>8. /\ \A n \in 1 .. Len(h) : g[n] = h[n]
      /\ g2 => g[Len(s1) + 1] = e2 /\ Len(s1) + 1 \in 1 .. Len(g)
      /\ g2 => Len(s2) = Len(s1) + 1
  <2>1. ASSUME NEW n \in 1 .. Len(h) PROVE g[n] = h[n]
    <3>1. n \in 1 .. Len(s1) /\ n \in 1 .. Len(s2)
      BY <1>7
    <3>2. g[n] = s2[n]
      BY <1>6, <3>1
    <3>3. s2[n] = s1[n]
      BY <1>5, <3>1
    <3>4. s1[n] = h[n]
      BY <1>4
    <3> QED BY <3>2, <3>3, <3>4
  <2>2. g2 => Len(s2) = Len(s1) + 1 /\ s2[Len(s1) + 1] = e2
    BY <1>5
  <2>3. g2 => Len(s1) + 1 \in 1 .. Len(s2) /\ Len(s1) + 1 \in 1 .. Len(g)
    BY <1>7, <2>2
  <2>4. g2 => g[Len(s1) + 1] = s2[Len(s1) + 1]
    BY <1>6, <2>3
  <2> QED BY <2>1, <2>2, <2>3, <2>4
<1>9. Told(g, "text", None) = IF g1 THEN Told(h, "text", None) \o d.text ELSE Told(h, "text", None)
  <2>1. Told(g, "text", None) = Told(s2, "text", None)
    BY <1>3, <1>6 DEF Heard, Is
  <2>2. Told(s2, "text", None) = Told(s1, "text", None)
    BY <1>3, <1>5 DEF Heard, Is
  <2> QED BY <1>3, <1>4, <2>1, <2>2 DEF Heard, Is
<1>10. ASSUME NEW i
       PROVE  Told(g, "arguments", i) = IF g3 /\ i = d.index THEN Told(h, "arguments", i) \o d.arguments
                                       ELSE Told(h, "arguments", i)
  <2>1. Told(s1, "arguments", i) = Told(h, "arguments", i)
    BY <1>3, <1>4 DEF Heard, Is
  <2>2. Told(s2, "arguments", i) = Told(s1, "arguments", i)
    BY <1>3, <1>5 DEF Heard, Is
  <2> QED BY <1>3, <1>6, <2>1, <2>2 DEF Heard, Is
<1>11. ASSUME NEW i
       PROVE  /\ Spots(g, "added", i) = Spots(h, "added", i) \cup (IF g2 /\ i = d.index THEN {Len(s1) + 1} ELSE {})
              /\ Spots(g, "arguments", i) = Spots(h, "arguments", i) \cup (IF g3 /\ i = d.index THEN {Len(s2) + 1} ELSE {})
              /\ Spots(g, "text_done", i) = Spots(h, "text_done", i)
              /\ Spots(g, "call_done", i) = Spots(h, "call_done", i)
  <2>1. ASSUME NEW type, type # "text" PROVE Spots(s1, type, i) = Spots(h, type, i)
    <3>1. ~Is(e1, type, i)
      BY <1>3, <2>1 DEF Is
    <3>2. Spots(s1, type, i) = Spots(h, type, i) \cup (IF g1 /\ Is(e1, type, i) THEN {Len(h) + 1} ELSE {})
      BY <1>4
    <3> QED BY <3>1, <3>2
  <2>2. ASSUME NEW type, type # "added" PROVE Spots(s2, type, i) = Spots(s1, type, i)
    <3>1. ~Is(e2, type, i)
      BY <1>3, <2>2 DEF Is
    <3>2. Spots(s2, type, i) = Spots(s1, type, i) \cup (IF g2 /\ Is(e2, type, i) THEN {Len(s1) + 1} ELSE {})
      BY <1>5
    <3> QED BY <3>1, <3>2
  <2>3. Spots(s2, "added", i) = Spots(s1, "added", i) \cup (IF g2 /\ i = d.index THEN {Len(s1) + 1} ELSE {})
    <3>1. Is(e2, "added", i) <=> i = d.index
      BY <1>3 DEF Is
    <3> QED BY <1>5, <3>1
  <2>4. ASSUME NEW type, type # "arguments" PROVE Spots(g, type, i) = Spots(s2, type, i)
    <3>1. ~Is(e3, type, i)
      BY <1>3, <2>4 DEF Is
    <3>2. Spots(g, type, i) = Spots(s2, type, i) \cup (IF g3 /\ Is(e3, type, i) THEN {Len(s2) + 1} ELSE {})
      BY <1>6
    <3> QED BY <3>1, <3>2
  <2>5. Spots(g, "arguments", i) = Spots(s2, "arguments", i) \cup (IF g3 /\ i = d.index THEN {Len(s2) + 1} ELSE {})
    <3>1. Is(e3, "arguments", i) <=> i = d.index
      BY <1>3 DEF Is
    <3> QED BY <1>6, <3>1
  <2>6. Spots(g, "added", i) = Spots(s2, "added", i) /\ Spots(s1, "added", i) = Spots(h, "added", i)
    BY <2>1, <2>4
  <2>7. Spots(s2, "arguments", i) = Spots(h, "arguments", i)
    BY <2>1, <2>2
  <2>8. Spots(g, "text_done", i) = Spots(h, "text_done", i) /\ Spots(g, "call_done", i) = Spots(h, "call_done", i)
    BY <2>1, <2>2, <2>4
  <2> QED BY <2>3, <2>5, <2>6, <2>7, <2>8
<1>12. \A i : \A n \in Spots(g, "arguments", i) : n \in Spots(h, "arguments", i) \/ n > Len(h)
  BY <1>7, <1>11
<1>13. g2 => /\ Len(s1) + 1 \in DOMAIN g
             /\ Spots(g, "added", d.index) = Spots(h, "added", d.index) \cup {Len(s1) + 1}
             /\ g[Len(s1) + 1].data = <<t.id, t.name>>
             /\ \A n \in Spots(g, "arguments", d.index) : n \in Spots(h, "arguments", d.index) \/ Len(s1) + 1 < n
  BY <1>3, <1>7, <1>8, <1>11
<1>14. /\ \A i : ~(g2 /\ i = d.index) => Spots(g, "added", i) = Spots(h, "added", i)
       /\ \A i : ~(g3 /\ i = d.index) => Spots(g, "arguments", i) = Spots(h, "arguments", i)
       /\ \A i : Spots(g, "text_done", i) = Spots(h, "text_done", i)
                 /\ Spots(g, "call_done", i) = Spots(h, "call_done", i)
  BY <1>11
<1>15. Listed(g) /\ Len(h) <= Len(g)
  <2>1. Len(h) <= Len(g)
    BY <1>7
  <2> QED BY <1>6, <2>1
<1> QED BY <1>1, <1>8, <1>9, <1>10, <1>12, <1>13, <1>14, <1>15 DEF TellsOf, g1, g2, g3, t

(* The forwarder starts a call with an empty id and name: what is absent of  *)
(* the gathered call is empty in what was forwarded of it.                   *)
Shown(x) == IF x = None THEN "" ELSE x

(* What a line has told of a call is what was gathered of it, and the call   *)
(* is announced once it has an id and a name, before its arguments.          *)
CallTold(h, t, i) ==
  /\ i \notin DOMAIN t.calls => t.tools[i].id = "" /\ t.tools[i].name = "" /\ Told(h, "arguments", i) = <<>>
  /\ i \in DOMAIN t.calls =>
       /\ t.tools[i].id = Shown(t.calls[i].id) /\ t.tools[i].name = Shown(t.calls[i].name)
       /\ t.calls[i].id # "" /\ t.calls[i].name # ""
       /\ Told(h, "arguments", i) = t.calls[i].arguments /\ Listed(t.calls[i].arguments)
  /\ t.tools[i].added <=> t.tools[i].id # "" /\ t.tools[i].name # ""
  /\ t.tools[i].added =>
       \E m \in DOMAIN h :
         /\ Spots(h, "added", i) = {m} /\ h[m].data = <<t.tools[i].id, t.tools[i].name>>
         /\ \A n \in Spots(h, "arguments", i) : m < n
  /\ ~t.tools[i].added => Spots(h, "added", i) = {} /\ Spots(h, "arguments", i) = {}

(* Until an attempt closes its stream, what it told is what it has gathered. *)
Content(h, t) ==
  /\ Listed(h) /\ \A i : Spots(h, "text_done", i) = {} /\ Spots(h, "call_done", i) = {}
  /\ Told(h, "text", None) = t.text /\ Listed(t.text)
  /\ DOMAIN t.calls \subseteq Calls /\ \E k \in Nat : DOMAIN t.calls = 0 .. k - 1
  /\ DOMAIN t.tools = Calls /\ \A i \in Calls : CallTold(h, t, i)
  /\ Follows(t.calls, t.rest)

LEMMA ContentAlike ==
  ASSUME NEW h, NEW r, NEW t, Same(h, r), Content(h, t)
  PROVE  Content(r, t)
<1>1. DOMAIN h = DOMAIN r /\ Listed(r) /\ \A n \in DOMAIN h : h[n].data = r[n].data
  BY ListedLength DEF Same, Alike
<1>2. \A type, item : Spots(h, type, item) = Spots(r, type, item) /\ Told(h, type, item) = Told(r, type, item)
  BY SaidAlike
<1>3. ASSUME NEW i \in Calls PROVE CallTold(r, t, i)
  <2>1. CallTold(h, t, i)
    BY DEF Content
  <2>2. /\ Told(h, "arguments", i) = Told(r, "arguments", i) /\ Spots(h, "added", i) = Spots(r, "added", i)
        /\ Spots(h, "arguments", i) = Spots(r, "arguments", i)
    BY <1>2
  <2> QED BY <1>1, <2>1, <2>2 DEF CallTold
<1>4. Told(r, "text", None) = t.text /\ \A i : Spots(r, "text_done", i) = {} /\ Spots(r, "call_done", i) = {}
  BY <1>2 DEF Content
<1> QED BY <1>1, <1>3, <1>4 DEF Content

(* A chunk keeps it so: the call it speaks of ... *)
LEMMA CallGoesOn ==
  ASSUME NEW h, NEW t, Content(h, t), t.rest # <<>>, NEW u, NEW i \in Calls, i = Head(t.rest).index, i # None,
         u.calls = Gather(t.calls, Head(t.rest)), u.tools = Tools(t.tools, Head(t.rest))
  PROVE  CallTold(h \o Forwarded(t.tools, Head(t.rest)), u, i)
<1> DEFINE d == Head(t.rest)
           old == t.tools[i]
           new == Tool(old, d)
           c == IF i \in DOMAIN t.calls THEN t.calls[i] ELSE NoCall
           g == h \o Forwarded(t.tools, d)
<1>1. CallTold(h, t, i) /\ Listed(h) /\ DOMAIN t.tools = Calls /\ Follows(t.calls, t.rest)
  BY DEF Content
<1>2. Chunked(d) /\ Said(t.calls, t.rest, 1) /\ d = t.rest[1]
  BY <1>1, TailIs DEF Follows
<1>3. d.index = i /\ Listed(d.arguments)
  BY <1>2 DEF Chunked
<1>4. /\ old.id = Shown(c.id) /\ old.name = Shown(c.name)
      /\ (c.id = None \/ c.id # "") /\ (c.name = None \/ c.name # "")
      /\ Told(h, "arguments", i) = c.arguments /\ Listed(c.arguments)
  <2>1. Listed(<<>>)
    BY DEF Listed
  <2> QED BY <1>1, <2>1 DEF CallTold, NoCall, Shown
<1>5. /\ Agree(c.id, d.id) /\ Agree(c.name, d.name) /\ d.id # "" /\ d.name # ""
      /\ d.arguments # <<>> => (c.id # None \/ d.id # None) /\ (c.name # None \/ d.name # None)
  <2>1. t.rest[1] = d
    BY <1>2
  <2>2. \A m \in 1 .. 1 : m = 1
    OBVIOUS
  <2> HIDE DEF d
  <2> QED BY <1>2, <1>3, <2>1, <2>2 DEF Said, Agree, NoCall
<1>6. /\ i \in DOMAIN u.calls /\ u.calls[i].id = Kept(c.id, d.id) /\ u.calls[i].name = Kept(c.name, d.name)
      /\ u.calls[i].arguments = c.arguments \o d.arguments
  <2>1. Gathers(t.calls, d)
    BY <1>3, Gathered
  <2>2. d.index = i /\ u.calls = Gather(t.calls, d)
    BY <1>3
  <2> HIDE DEF d
  <2> QED BY <2>1, <2>2 DEF Gathers
<1>7. u.tools[i] = new
  BY <1>1, <1>3 DEF Tools
<1>8. new.id = Latest(old.id, d.id) /\ new.name = Latest(old.name, d.name)
      /\ new.added = (old.added \/ (new.id # "" /\ new.name # ""))
  BY DEF Tool
<1>9. new = Tool(t.tools[d.index], d) /\ old = t.tools[d.index]
  BY <1>3
<1> HIDE DEF d, old, new, c
<1>10. /\ new.id = Shown(Kept(c.id, d.id)) /\ new.name = Shown(Kept(c.name, d.name))
       /\ Kept(c.id, d.id) # "" /\ Kept(c.name, d.name) # ""
  BY <1>4, <1>5, <1>8 DEF Kept, Latest, Agree, Shown
<1>11. (old.added <=> old.id # "" /\ old.name # "") /\ (new.added <=> new.id # "" /\ new.name # "")
  <2>1. old.added <=> old.id # "" /\ old.name # ""
    BY <1>1 DEF CallTold, old
  <2>2. old.id # "" => new.id # ""
    BY <1>5, <1>8 DEF Latest
  <2>3. old.name # "" => new.name # ""
    BY <1>5, <1>8 DEF Latest
  <2> QED BY <1>8, <2>1, <2>2, <2>3
<1>12. /\ Listed(g) /\ Len(h) <= Len(g) /\ \A n \in 1 .. Len(h) : g[n] = h[n]
       /\ Told(g, "arguments", i) = IF Instructs(d) THEN Told(h, "arguments", i) \o d.arguments
                                    ELSE Told(h, "arguments", i)
       /\ ~Announces(t.tools, d) => Spots(g, "added", i) = Spots(h, "added", i)
       /\ ~Instructs(d) => Spots(g, "arguments", i) = Spots(h, "arguments", i)
       /\ \A n \in Spots(g, "arguments", i) : n \in Spots(h, "arguments", i) \/ n > Len(h)
       /\ Announces(t.tools, d) =>
            \E m \in DOMAIN g :
              /\ Spots(g, "added", i) = Spots(h, "added", i) \cup {m}
              /\ g[m].data = <<new.id, new.name>>
              /\ \A n \in Spots(g, "arguments", i) : n \in Spots(h, "arguments", i) \/ m < n
  <2>1. TellsOf(h, t.tools, d)
    BY <1>1, ForwardedSays
  <2> QED BY <1>3, <1>9, <2>1 DEF TellsOf
<1>13. (Announces(t.tools, d) <=> new.added /\ ~old.added) /\ (Instructs(d) <=> d.arguments # <<>>)
  BY <1>3, <1>9 DEF Announces, Instructs
<1>14. Len(h) \in Nat /\ DOMAIN h = 1 .. Len(h) /\ DOMAIN g = 1 .. Len(g) /\ Len(g) \in Nat
  BY <1>1, <1>12, ListedLength
<1> HIDE DEF g
<1>15. Told(g, "arguments", i) = u.calls[i].arguments /\ Listed(u.calls[i].arguments)
  <2>1. Listed(c.arguments \o d.arguments)
    BY <1>3, <1>4, ListedJoined
  <2>2. c.arguments \o <<>> = c.arguments
    <3>1. Listed(c.arguments)
      BY <1>4
    <3> QED BY <3>1 DEF Listed
  <2> QED BY <1>4, <1>6, <1>12, <1>13, <2>1, <2>2
<1>16. ASSUME new.added
       PROVE  \E m \in DOMAIN g :
                /\ Spots(g, "added", i) = {m} /\ g[m].data = <<new.id, new.name>>
                /\ \A n \in Spots(g, "arguments", i) : m < n
  <2>1. CASE old.added
    <3>1. PICK m \in DOMAIN h :
            /\ Spots(h, "added", i) = {m} /\ h[m].data = <<old.id, old.name>>
            /\ \A n \in Spots(h, "arguments", i) : m < n
      BY <1>1, <2>1 DEF CallTold, old
    <3>2. new.id = old.id /\ new.name = old.name
      BY <1>4, <1>5, <1>8, <1>11, <2>1 DEF Latest, Agree, Shown
    <3>3. m \in DOMAIN g /\ g[m] = h[m] /\ Spots(g, "added", i) = {m}
      BY <1>12, <1>13, <1>14, <2>1, <3>1
    <3>4. \A n \in Spots(g, "arguments", i) : m < n
      <4>1. \A n \in Spots(g, "arguments", i) : n \in DOMAIN g
        BY DEF Spots
      <4> QED BY <1>12, <1>14, <3>1, <4>1
    <3> QED BY <3>1, <3>2, <3>3, <3>4
  <2>2. CASE ~old.added
    <3>1. Spots(h, "added", i) = {} /\ Spots(h, "arguments", i) = {}
      BY <1>1, <2>2 DEF CallTold, old
    <3> QED BY <1>12, <1>13, <1>16, <2>2, <3>1
  <2> QED BY <2>1, <2>2
<1>17. ASSUME ~new.added PROVE Spots(g, "added", i) = {} /\ Spots(g, "arguments", i) = {}
  <2>1. ~old.added
    BY <1>8, <1>17
  <2>2. Spots(h, "added", i) = {} /\ Spots(h, "arguments", i) = {}
    BY <1>1, <2>1 DEF CallTold, old
  <2>3. d.arguments = <<>>
    BY <1>5, <1>10, <1>11, <1>17 DEF Kept, Shown
  <2> QED BY <1>12, <1>13, <1>17, <2>2, <2>3
<1>18. CallTold(g, u, i)
  BY <1>6, <1>7, <1>10, <1>11, <1>15, <1>16, <1>17 DEF CallTold
<1> QED BY <1>18 DEF g, d

(* ... the calls it does not speak of, and the text. *)
LEMMA ContentGoesOn ==
  ASSUME NEW h, NEW t, Content(h, t), t.rest # <<>>, NEW u, u.rest = Tail(t.rest),
         u.text = t.text \o Head(t.rest).text,
         u.calls = Gather(t.calls, Head(t.rest)), u.tools = Tools(t.tools, Head(t.rest))
  PROVE  Content(h \o Forwarded(t.tools, Head(t.rest)), u)
<1> DEFINE d == Head(t.rest)
           g == h \o Forwarded(t.tools, d)
<1>1. /\ Listed(h) /\ DOMAIN t.tools = Calls /\ Follows(t.calls, t.rest) /\ Listed(t.text)
      /\ Told(h, "text", None) = t.text
      /\ \A i : Spots(h, "text_done", i) = {} /\ Spots(h, "call_done", i) = {}
  BY DEF Content
<1>2. Chunked(d) /\ (d.index # None => Said(t.calls, t.rest, 1)) /\ d = t.rest[1]
  BY <1>1, TailIs DEF Follows
<1> TellsOf(h, t.tools, d)
  BY <1>1, ForwardedSays
<1>3. Listed(g) /\ \A i : Spots(g, "text_done", i) = {} /\ Spots(g, "call_done", i) = {}
  <2> HIDE DEF d
  <2> QED BY <1>1 DEF TellsOf
<1>4. Told(g, "text", None) = u.text /\ Listed(u.text)
  <2>1. Told(g, "text", None) = IF d.text # <<>> THEN t.text \o d.text ELSE t.text
    <3> HIDE DEF d
    <3> QED BY <1>1 DEF TellsOf
  <2>2. Listed(t.text \o d.text) /\ t.text \o <<>> = t.text
    <3>1. Listed(d.text)
      BY <1>2 DEF Chunked
    <3>2. t.text \o <<>> = t.text
      BY <1>1 DEF Listed
    <3> HIDE DEF d
    <3> QED BY <1>1, <3>1, <3>2, ListedJoined
  <2> QED BY <2>1, <2>2
<1>5. DOMAIN u.calls \subseteq Calls /\ \E k \in Nat : DOMAIN u.calls = 0 .. k - 1
  <2>1. PICK k \in Nat : DOMAIN t.calls = 0 .. k - 1 /\ DOMAIN t.calls \subseteq Calls
    BY DEF Content
  <2>2. CASE d.index = None
    BY <2>1, <2>2 DEF Gather
  <2>3. CASE d.index # None
    <3>1. DOMAIN u.calls = DOMAIN t.calls \cup {d.index} /\ d.index \in Calls
      <4>1. Gathers(t.calls, d) /\ u.calls = Gather(t.calls, d)
        BY <2>3, Gathered
      <4>2. d.index \in Calls
        BY <1>2, <2>3 DEF Chunked
      <4> HIDE DEF d
      <4> QED BY <4>1, <4>2 DEF Gathers
    <3>2. d.index \in Nat
      BY <3>1, BoundsArePositive
    <3>3. \A j \in 0 .. d.index - 1 : j \in DOMAIN t.calls
      <4>1. SUFFICES ASSUME NEW j \in 0 .. d.index - 1, j \notin DOMAIN t.calls PROVE FALSE
        OBVIOUS
      <4>2. PICK m \in 1 .. 1 : t.rest[m].index = j
        BY <1>2, <2>3, <4>1 DEF Said
      <4>3. d.index = j
        BY <1>2, <4>2
      <4> HIDE DEF d
      <4> QED BY <3>2, <4>1, <4>3
    <3> HIDE DEF d
    <3>4. d.index <= k
      <4>1. CASE d.index = 0
        BY <4>1
      <4>2. CASE d.index # 0
        <5>1. d.index - 1 \in 0 .. d.index - 1
          BY <3>2, <4>2
        <5>2. d.index - 1 \in 0 .. k - 1
          BY <2>1, <3>3, <5>1
        <5> QED BY <3>2, <5>2
      <4> QED BY <4>1, <4>2
    <3>5. CASE d.index = k
      <4>1. DOMAIN u.calls = 0 .. (k + 1) - 1
        <5>1. 0 .. (k + 1) - 1 = (0 .. k - 1) \cup {k}
          OBVIOUS
        <5> QED BY <2>1, <3>1, <3>5, <5>1
      <4>2. k + 1 \in Nat /\ DOMAIN u.calls \subseteq Calls
        BY <2>1, <3>1
      <4> QED BY <4>1, <4>2
    <3>6. CASE d.index # k
      <4>1. d.index \in 0 .. k - 1
        BY <3>2, <3>4, <3>6
      <4> QED BY <2>1, <3>1, <4>1
    <3> QED BY <3>5, <3>6
  <2> QED BY <2>2, <2>3
<1>6. DOMAIN u.tools = Calls
  BY <1>1 DEF Tools
<1>7. ASSUME NEW i \in Calls PROVE CallTold(g, u, i)
  <2>1. CASE d.index # None /\ i = d.index
    BY <2>1, CallGoesOn
  <2>2. CASE ~(d.index # None /\ i = d.index)
    <3>1. CallTold(h, t, i) /\ i # None
      BY BoundsArePositive DEF Content
    <3>2. u.tools[i] = t.tools[i]
      BY <1>1, <2>2 DEF Tools
    <3>3. (i \in DOMAIN u.calls <=> i \in DOMAIN t.calls) /\ (i \in DOMAIN t.calls => u.calls[i] = t.calls[i])
      <4>1. CASE d.index = None
        BY <4>1 DEF Gather
      <4>2. CASE d.index # None
        <5>1. Gathers(t.calls, d) /\ u.calls = Gather(t.calls, d)
          BY <4>2, Gathered
        <5> HIDE DEF d
        <5> QED BY <2>2, <4>2, <5>1 DEF Gathers
      <4> QED BY <4>1, <4>2
    <3>4. /\ Len(h) <= Len(g) /\ \A n \in 1 .. Len(h) : g[n] = h[n]
          /\ Told(g, "arguments", i) = Told(h, "arguments", i)
          /\ Spots(g, "added", i) = Spots(h, "added", i)
          /\ Spots(g, "arguments", i) = Spots(h, "arguments", i)
      <4>1. ~(Announces(t.tools, d) /\ i = d.index) /\ ~(Instructs(d) /\ i = d.index)
        BY <2>2 DEF Announces, Instructs
      <4> HIDE DEF d
      <4> QED BY <4>1 DEF TellsOf
    <3>5. Len(h) \in Nat /\ DOMAIN h = 1 .. Len(h) /\ DOMAIN g = 1 .. Len(g) /\ Len(g) \in Nat
      BY <1>1, <1>3, ListedLength
    <3> HIDE DEF g, d
    <3>6. \A m \in DOMAIN h : m \in DOMAIN g /\ g[m] = h[m]
      BY <3>4, <3>5
    <3> QED BY <3>1, <3>2, <3>3, <3>4, <3>6 DEF CallTold
  <2> QED BY <2>1, <2>2
<1>8. Follows(u.calls, u.rest)
  BY <1>1, FollowsOn
<1> QED BY <1>3, <1>4, <1>5, <1>6, <1>7, <1>8 DEF Content

(* Calls that are numbered from none on are closed in their order. *)
LEMMA RankIs ==
  ASSUME NEW k \in Nat, NEW n \in 1 .. k
  PROVE  (CHOOSE i \in 0 .. k - 1 : Cardinality({j \in 0 .. k - 1 : j < i}) = n - 1) = n - 1
<1>1. ASSUME NEW i \in 0 .. k - 1 PROVE Cardinality({j \in 0 .. k - 1 : j < i}) = i
  <2>1. {j \in 0 .. k - 1 : j < i} = 0 .. i - 1
    OBVIOUS
  <2>2. i \in Nat /\ i - 1 \in Int /\ 0 \in Int
    OBVIOUS
  <2>3. Cardinality(0 .. i - 1) = IF 0 > i - 1 THEN 0 ELSE (i - 1) - 0 + 1
    BY <2>2, FS_Interval
  <2>4. Cardinality(0 .. i - 1) = i
    BY <2>2, <2>3
  <2> QED BY <2>1, <2>4
<1>2. n - 1 \in 0 .. k - 1
  OBVIOUS
<1> DEFINE P(i) == Cardinality({j \in 0 .. k - 1 : j < i}) = n - 1
<1>3. P(n - 1) /\ \A i \in 0 .. k - 1 : P(i) => i = n - 1
  BY <1>1, <1>2
<1> HIDE DEF P
<1>4. (CHOOSE i \in 0 .. k - 1 : P(i)) = n - 1
  BY <1>2, <1>3
<1> QED BY <1>4 DEF P

(* What the closing events say. *)
ClosingEvents(e, t, k) ==
  /\ Listed(e) /\ Len(e) = k + 2
  /\ e[1] = Event("text_done", None, Trimmed(t.text)) /\ e[k + 2] = Event("completed", None, <<>>)
  /\ \A i \in 0 .. k - 1 :
       e[i + 2] = Event("call_done", i, <<t.calls[i].id, t.calls[i].name, t.calls[i].arguments>>)

LEMMA ClosingSays ==
  ASSUME NEW t, NEW k \in Nat, DOMAIN t.calls = 0 .. k - 1
  PROVE  ClosingEvents(Closing(t), t, k)
<1> DEFINE first == <<Event("text_done", None, Trimmed(t.text))>>
           Call(i) == Event("call_done", i, <<t.calls[i].id, t.calls[i].name, t.calls[i].arguments>>)
           calls == [n \in 1 .. k |-> Call(n - 1)]
           last == <<Event("completed", None, <<>>)>>
           lead == first \o calls
<1>1. Cardinality(DOMAIN t.calls) = k
  <2>1. Cardinality(0 .. k - 1) = IF 0 > k - 1 THEN 0 ELSE (k - 1) - 0 + 1
    BY FS_Interval
  <2> QED BY <2>1
<1>2. Closing(t) = lead \o last
  <2> DEFINE chosen == [n \in 1 .. k |->
                          LET i == CHOOSE j \in DOMAIN t.calls : Cardinality({m \in DOMAIN t.calls : m < j}) = n - 1
                          IN Event("call_done", n - 1,
                                   <<t.calls[i].id, t.calls[i].name, t.calls[i].arguments>>)]
  <2>1. Closing(t) = (first \o chosen) \o last
    BY <1>1 DEF Closing
  <2>2. ASSUME NEW n \in 1 .. k PROVE chosen[n] = calls[n]
    <3> DEFINE i == CHOOSE j \in DOMAIN t.calls : Cardinality({m \in DOMAIN t.calls : m < j}) = n - 1
    <3>1. i = n - 1
      BY RankIs
    <3>2. chosen[n] = Event("call_done", n - 1, <<t.calls[i].id, t.calls[i].name, t.calls[i].arguments>>)
      OBVIOUS
    <3>3. calls[n] = Call(n - 1)
      OBVIOUS
    <3> HIDE DEF i, chosen, calls
    <3> QED BY <3>1, <3>2, <3>3
  <2>3. chosen = calls
    <3>1. chosen = [n \in 1 .. k |-> chosen[n]] /\ calls = [n \in 1 .. k |-> calls[n]]
      OBVIOUS
    <3> HIDE DEF chosen, calls
    <3> QED BY <2>2, <3>1
  <2> HIDE DEF first, chosen, calls, last
  <2> QED BY <2>1, <2>3 DEF lead
<1>3. Listed(first) /\ Len(first) = 1 /\ first[1] = Event("text_done", None, Trimmed(t.text))
  BY DEF Listed
<1>4. Listed(last) /\ Len(last) = 1 /\ last[1] = Event("completed", None, <<>>)
  BY DEF Listed
<1>5. Listed(calls) /\ Len(calls) = k /\ \A n \in 1 .. k : calls[n] = Call(n - 1)
  <2>1. \A n \in 1 .. k : calls[n] = Call(n - 1)
    OBVIOUS
  <2>2. DOMAIN calls = 1 .. k
    OBVIOUS
  <2> DEFINE S == {calls[n] : n \in 1 .. k}
  <2>3. calls \in [1 .. k -> S]
    <3> HIDE DEF Call
    <3> QED OBVIOUS
  <2> HIDE DEF calls, S
  <2>4. calls \in Seq(S) /\ Len(calls) = k
    BY <2>2, <2>3
  <2> QED BY <2>1, <2>4, ListedIs
<1> HIDE DEF first, calls, last
<1>6. /\ Listed(lead) /\ Len(lead) = 1 + k /\ lead[1] = first[1]
      /\ \A n \in 1 .. k : lead[1 + n] = calls[n]
  <2>1. /\ Listed(first \o calls) /\ Len(first \o calls) = Len(first) + Len(calls)
        /\ \A n \in 1 .. Len(first) : (first \o calls)[n] = first[n]
        /\ \A n \in 1 .. Len(calls) : (first \o calls)[Len(first) + n] = calls[n]
    <3>1. Listed(first) /\ Listed(calls)
      BY <1>3, <1>5
    <3> QED BY <3>1, ListedJoined
  <2> HIDE DEF lead
  <2>2. /\ Listed(lead) /\ Len(lead) = Len(first) + Len(calls)
        /\ \A n \in 1 .. Len(first) : lead[n] = first[n]
        /\ \A n \in 1 .. Len(calls) : lead[Len(first) + n] = calls[n]
    BY <2>1 DEF lead
  <2>3. 1 \in 1 .. Len(first)
    BY <1>3
  <2> QED BY <1>3, <1>5, <2>2, <2>3
<1> HIDE DEF lead
<1> DEFINE e == lead \o last
<1>7. /\ Listed(e) /\ Len(e) = Len(lead) + 1 /\ \A n \in 1 .. Len(lead) : e[n] = lead[n]
      /\ e[Len(lead) + 1] = last[1]
  BY <1>4, <1>6, OneMore
<1> HIDE DEF e
<1>8. Len(e) = k + 2 /\ e[1] = first[1] /\ e[k + 2] = last[1]
  <2>1. Len(lead) = k + 1 /\ Len(lead) + 1 = k + 2 /\ 1 \in 1 .. Len(lead)
    BY <1>6
  <2> QED BY <1>6, <1>7, <2>1
<1>9. ASSUME NEW i \in 0 .. k - 1 PROVE e[i + 2] = Call(i)
  <2>1. i + 1 \in 1 .. k /\ i + 2 \in 1 .. Len(lead) /\ 1 + (i + 1) = i + 2 /\ (i + 1) - 1 = i
    BY <1>6
  <2>2. lead[i + 2] = calls[i + 1] /\ calls[i + 1] = Call(i)
    <3> HIDE DEF Call
    <3>1. lead[1 + (i + 1)] = calls[i + 1]
      BY <1>6, <2>1
    <3>2. calls[i + 1] = Call((i + 1) - 1)
      BY <1>5, <2>1
    <3> QED BY <2>1, <3>1, <3>2
  <2> HIDE DEF Call
  <2> QED BY <1>7, <2>1, <2>2
<1> QED BY <1>2, <1>3, <1>4, <1>7, <1>8, <1>9 DEF ClosingEvents, e

(* What an attempt has gathered closes what it has told. *)
Named(t) == \A i \in DOMAIN t.calls : t.calls[i].id # None /\ t.calls[i].name # None
Begun(t, k) == DOMAIN t.calls = 0 .. k - 1 /\ Named(t)

LEMMA EventsClose ==
  ASSUME NEW h, NEW t, NEW e, NEW k \in Nat, Content(h, t), Begun(t, k), ClosingEvents(e, t, k)
  PROVE  AddsUp(h \o e)
<1> DEFINE g == h \o e
<1>3. Listed(e) /\ Listed(h)
  BY DEF ClosingEvents, Content
<1>4. Len(e) = k + 2 /\ DOMAIN e = 1 .. k + 2
  BY <1>3, ListedLength DEF ClosingEvents
<1>5. /\ Told(h, "text", None) = t.text /\ DOMAIN t.calls \subseteq Calls
      /\ \A i : Spots(h, "text_done", i) = {} /\ Spots(h, "call_done", i) = {}
      /\ \A i \in Calls : CallTold(h, t, i)
  BY DEF Content
<1>6. /\ e[1].type = "text_done" /\ e[1].item = None /\ e[1].data = Trimmed(t.text)
      /\ e[k + 2].type = "completed"
  BY DEF ClosingEvents, Event
<1>7. \A i \in 0 .. k - 1 :
        /\ e[i + 2].type = "call_done" /\ e[i + 2].item = i
        /\ e[i + 2].data = <<t.calls[i].id, t.calls[i].name, t.calls[i].arguments>>
  <2> SUFFICES ASSUME NEW i \in 0 .. k - 1
               PROVE  /\ e[i + 2].type = "call_done" /\ e[i + 2].item = i
                      /\ e[i + 2].data = <<t.calls[i].id, t.calls[i].name, t.calls[i].arguments>>
    OBVIOUS
  <2> DEFINE d == <<t.calls[i].id, t.calls[i].name, t.calls[i].arguments>>
  <2>1. e[i + 2] = Event("call_done", i, d)
    BY DEF ClosingEvents
  <2> HIDE DEF d
  <2>2. e[i + 2].type = "call_done" /\ e[i + 2].item = i /\ e[i + 2].data = d
    BY <2>1 DEF Event
  <2> QED BY <2>2 DEF d
<1>16. /\ Listed(g) /\ Len(g) = Len(h) + Len(e)
       /\ \A n \in 1 .. Len(h) : g[n] = h[n]
       /\ \A n \in 1 .. Len(e) : g[Len(h) + n] = e[n]
  BY <1>3, ListedJoined
<1> HIDE DEF g
<1>17. Len(h) \in Nat /\ DOMAIN h = 1 .. Len(h) /\ DOMAIN g = 1 .. Len(h) + (k + 2)
  BY <1>3, <1>4, <1>16, ListedLength
<1>8. ASSUME NEW n \in DOMAIN e
      PROVE  /\ n = 1 => e[n].type = "text_done"
             /\ n = k + 2 => e[n].type = "completed"
             /\ n # 1 /\ n # k + 2 => e[n].type = "call_done" /\ e[n].item = n - 2 /\ n - 2 \in 0 .. k - 1
  <2>1. ASSUME n # 1, n # k + 2 PROVE e[n].type = "call_done" /\ e[n].item = n - 2 /\ n - 2 \in 0 .. k - 1
    <3>1. n - 2 \in 0 .. k - 1 /\ (n - 2) + 2 = n
      BY <1>4, <2>1
    <3>2. e[(n - 2) + 2].type = "call_done" /\ e[(n - 2) + 2].item = n - 2
      BY <1>7, <3>1
    <3> QED BY <3>1, <3>2
  <2> QED BY <1>6, <2>1
<1>9. ASSUME NEW type, NEW i, type \in {"text", "added", "arguments"} PROVE Spots(e, type, i) = {}
  <2>1. \A n \in DOMAIN e : e[n].type \in {"text_done", "completed", "call_done"}
    BY <1>8
  <2> QED BY <1>9, <2>1 DEF Spots, Is
<1>10. Spots(e, "text_done", None) = {1}
  <2>1. 1 \in DOMAIN e
    BY <1>4
  <2>2. 1 \in Spots(e, "text_done", None)
    BY <1>6, <2>1 DEF Spots, Is
  <2>3. \A n \in Spots(e, "text_done", None) : n \in DOMAIN e /\ e[n].type = "text_done"
    BY DEF Spots, Is
  <2>4. \A n \in Spots(e, "text_done", None) : n = 1
    BY <1>8, <2>3
  <2> QED BY <2>2, <2>4
<1>11. ASSUME NEW i \in Nat PROVE Spots(e, "call_done", i) = IF i < k THEN {i + 2} ELSE {}
  <2>1. ASSUME NEW n \in Spots(e, "call_done", i) PROVE n = i + 2 /\ i < k
    <3>1. n \in DOMAIN e /\ e[n].type = "call_done" /\ e[n].item = i
      BY DEF Spots, Is
    <3>2. n # 1 /\ n # k + 2
      BY <1>8, <3>1
    <3>3. n - 2 = i /\ n - 2 \in 0 .. k - 1
      BY <1>8, <3>1, <3>2
    <3> QED BY <1>4, <3>1, <3>3
  <2>2. ASSUME i < k PROVE i + 2 \in Spots(e, "call_done", i)
    <3>1. i \in 0 .. k - 1 /\ i + 2 \in DOMAIN e
      BY <1>4, <2>2
    <3>2. e[i + 2].type = "call_done" /\ e[i + 2].item = i
      BY <1>7, <3>1
    <3> QED BY <3>1, <3>2 DEF Spots, Is
  <2> QED BY <2>1, <2>2
<1>12. \A type, i : type \in {"text", "added", "arguments"} =>
          Spots(g, type, i) = Spots(h, type, i) /\ Told(g, type, i) = Told(h, type, i)
  <2> SUFFICES ASSUME NEW type, NEW i, type \in {"text", "added", "arguments"}
               PROVE  Spots(g, type, i) = Spots(h, type, i) /\ Told(g, type, i) = Told(h, type, i)
    OBVIOUS
  <2>1. Spots(e, type, i) = {}
    BY <1>9
  <2>2. Spots(h \o e, type, i) = Spots(h, type, i) \cup {Len(h) + n : n \in Spots(e, type, i)}
    BY <1>3, SpotsJoined
  <2>3. Told(h \o e, type, i) = Told(h, type, i)
    BY <1>3, <2>1, ToldJoined
  <2> QED BY <2>1, <2>2, <2>3 DEF g
<1>13. \E n \in DOMAIN g :
         /\ Spots(g, "text_done", None) = {n}
         /\ g[n].data = Trimmed(Told(g, "text", None))
  <2>1. Spots(h \o e, "text_done", None) = Spots(h, "text_done", None) \cup {Len(h) + n : n \in Spots(e, "text_done", None)}
    BY <1>3, SpotsJoined
  <2>2. Spots(g, "text_done", None) = {Len(h) + 1}
    BY <1>5, <1>10, <2>1 DEF g
  <2>3. 1 \in 1 .. Len(e) /\ Len(h) + 1 \in DOMAIN g
    BY <1>4, <1>17
  <2>4. g[Len(h) + 1].data = Trimmed(t.text)
    BY <1>6, <1>16, <2>3
  <2>5. Told(g, "text", None) = Told(h, "text", None)
    BY <1>12
  <2>6. Told(g, "text", None) = t.text
    BY <1>5, <2>5
  <2> QED BY <2>2, <2>3, <2>4, <2>6
<1>14. ASSUME NEW i \in Calls
       PROVE  \/ \A type \in {"added", "arguments", "call_done"} : Spots(g, type, i) = {}
              \/ \E m, n \in DOMAIN g :
                   /\ Spots(g, "added", i) = {m} /\ Spots(g, "call_done", i) = {n}
                   /\ g[n].data = <<g[m].data[1], g[m].data[2], Told(g, "arguments", i)>>
                   /\ \A j \in Spots(g, "arguments", i) : m < j
  <2>1. i \in Nat /\ CallTold(h, t, i) /\ (i \in DOMAIN t.calls <=> i < k)
    <3>1. i \in Nat
      BY BoundsArePositive
    <3>2. i \in DOMAIN t.calls <=> i < k
      BY <3>1 DEF Begun
    <3> QED BY <1>5, <3>1, <3>2
  <2>2. /\ Spots(g, "added", i) = Spots(h, "added", i) /\ Spots(g, "arguments", i) = Spots(h, "arguments", i)
        /\ Told(g, "arguments", i) = Told(h, "arguments", i)
    <3>1. "added" \in {"text", "added", "arguments"} /\ "arguments" \in {"text", "added", "arguments"}
      OBVIOUS
    <3> QED BY <1>12, <3>1
  <2>3. Spots(g, "call_done", i) = IF i < k THEN {Len(h) + (i + 2)} ELSE {}
    <3>1. Spots(h \o e, "call_done", i) = Spots(h, "call_done", i) \cup {Len(h) + n : n \in Spots(e, "call_done", i)}
      BY <1>3, SpotsJoined
    <3>2. Spots(e, "call_done", i) = IF i < k THEN {i + 2} ELSE {}
      BY <1>11, <2>1
    <3> QED BY <1>5, <3>1, <3>2 DEF g
  <2>4. CASE i < k
    <3>1. /\ t.tools[i].added /\ t.tools[i].id = t.calls[i].id /\ t.tools[i].name = t.calls[i].name
          /\ Told(h, "arguments", i) = t.calls[i].arguments
      BY <2>1, <2>4 DEF CallTold, Begun, Named, Shown
    <3>2. PICK m \in DOMAIN h :
            /\ Spots(h, "added", i) = {m} /\ h[m].data = <<t.tools[i].id, t.tools[i].name>>
            /\ \A j \in Spots(h, "arguments", i) : m < j
      BY <2>1, <3>1 DEF CallTold
    <3> DEFINE n == Len(h) + (i + 2)
    <3>3. i \in 0 .. k - 1 /\ i + 2 \in 1 .. Len(e) /\ n \in DOMAIN g /\ m \in DOMAIN g /\ g[m] = h[m]
      BY <1>4, <1>16, <1>17, <2>1, <2>4
    <3>4. g[n] = e[i + 2] /\ e[i + 2].data = <<t.calls[i].id, t.calls[i].name, t.calls[i].arguments>>
      BY <1>7, <1>16, <3>3
    <3>5. g[m].data[1] = t.calls[i].id /\ g[m].data[2] = t.calls[i].name
      <4>1. g[m].data = <<t.calls[i].id, t.calls[i].name>>
        BY <3>1, <3>2, <3>3
      <4> QED BY <4>1
    <3>6. Spots(g, "call_done", i) = {n}
      BY <2>3, <2>4
    <3> HIDE DEF n
    <3>7. g[n].data = <<g[m].data[1], g[m].data[2], Told(g, "arguments", i)>>
      BY <2>2, <3>1, <3>4, <3>5
    <3> QED BY <2>2, <3>2, <3>3, <3>6, <3>7
  <2>5. CASE ~(i < k)
    <3>1. Spots(h, "added", i) = {} /\ Spots(h, "arguments", i) = {}
      BY <2>1, <2>5 DEF CallTold
    <3> QED BY <2>2, <2>3, <2>5, <3>1
  <2> QED BY <2>4, <2>5
<1>15. AddsUp(g)
  BY <1>13, <1>14 DEF AddsUp
<1> QED BY <1>15 DEF g

LEMMA ContentCloses ==
  ASSUME NEW h, NEW t, Content(h, t), Named(t)
  PROVE  AddsUp(h \o Closing(t))
<1>1. PICK k \in Nat : DOMAIN t.calls = 0 .. k - 1
  BY DEF Content
<1>2. ClosingEvents(Closing(t), t, k)
  BY <1>1, ClosingSays
<1> QED BY <1>1, <1>2, EventsClose DEF Begun

(* Lines that say the same, joined. *)
LEMMA SameJoined ==
  ASSUME NEW s, NEW r, NEW e, NEW f, Same(s, r), Same(e, f)
  PROVE  Same(s \o e, r \o f)
<1> DEFINE j == s \o e
           k == r \o f
<1>1. /\ Listed(s) /\ Listed(r) /\ Len(s) = Len(r) /\ \A n \in 1 .. Len(s) : Alike(s[n], r[n])
      /\ Listed(e) /\ Listed(f) /\ Len(e) = Len(f) /\ \A n \in 1 .. Len(e) : Alike(e[n], f[n])
  BY DEF Same
<1>2. /\ Listed(j) /\ Len(j) = Len(s) + Len(e)
      /\ \A n \in 1 .. Len(s) : j[n] = s[n]
      /\ \A n \in 1 .. Len(e) : j[Len(s) + n] = e[n]
  BY <1>1, ListedJoined
<1>3. /\ Listed(k) /\ Len(k) = Len(r) + Len(f)
      /\ \A n \in 1 .. Len(r) : k[n] = r[n]
      /\ \A n \in 1 .. Len(f) : k[Len(r) + n] = f[n]
  BY <1>1, ListedJoined
<1> HIDE DEF j, k
<1>4. Len(s) \in Nat /\ Len(e) \in Nat
  BY <1>1, ListedLength
<1>5. ASSUME NEW n \in 1 .. Len(j) PROVE Alike(j[n], k[n])
  <2>1. CASE n \in 1 .. Len(s)
    <3>1. j[n] = s[n] /\ k[n] = r[n] /\ Alike(s[n], r[n])
      BY <1>1, <1>2, <1>3, <2>1
    <3> QED BY <3>1
  <2>2. CASE n \notin 1 .. Len(s)
    <3>1. n - Len(s) \in 1 .. Len(e) /\ Len(s) + (n - Len(s)) = n
      BY <1>2, <1>4, <2>2
    <3>2. j[n] = e[n - Len(s)] /\ k[n] = f[n - Len(s)] /\ Alike(e[n - Len(s)], f[n - Len(s)])
      BY <1>1, <1>2, <1>3, <3>1
    <3> QED BY <3>2
  <2> QED BY <2>1, <2>2
<1> QED BY <1>1, <1>2, <1>3, <1>5 DEF Same, j, k

(* A line says what it says. *)
LEMMA SameItself == ASSUME NEW s, Listed(s) PROVE Same(s, s)
BY DEF Same, Alike

(* What an attempt keeps while it sends or waits. *)
Keeps(t, u) == u.text = t.text /\ u.calls = t.calls /\ u.tools = t.tools /\ u.rest = t.rest

LEMMA ContentKept ==
  ASSUME NEW h, NEW t, NEW u, Content(h, t), Keeps(t, u)
  PROVE  Content(h, u)
<1>1. ASSUME NEW i \in Calls PROVE CallTold(h, u, i)
  <2>1. CallTold(h, t, i)
    BY DEF Content
  <2> QED BY <2>1 DEF CallTold, Keeps
<1> QED BY <1>1 DEF Content, Keeps

(* The events that open a stream tell nothing. *)
LEMMA ContentOpens ==
  ASSUME NEW h, NEW t, Content(h, t), NEW type, type \in {"created", "opened"}
  PROVE  Content(h \o <<Event(type, None, <<>>)>>, t)
<1>0. PICK more \in BOOLEAN : more
  OBVIOUS
<1> DEFINE e == Event(type, None, <<>>)
           g == Also(h, more, e)
<1>1. Listed(h)
  BY DEF Content
<1>2. /\ Listed(g) /\ Len(g) = Len(h) + 1
      /\ \A n \in 1 .. Len(h) : g[n] = h[n]
      /\ \A kind, item :
           /\ Spots(g, kind, item) = Spots(h, kind, item) \cup (IF Is(e, kind, item) THEN {Len(h) + 1} ELSE {})
           /\ Told(g, kind, item) = Heard(Told(h, kind, item), e, kind, item)
  <2> HIDE DEF e
  <2>1. /\ Listed(g) /\ (more => Len(g) = Len(h) + 1 /\ g[Len(h) + 1] = e) /\ (~more => g = h)
        /\ \A n \in 1 .. Len(h) : g[n] = h[n]
        /\ \A kind, item :
             /\ Spots(g, kind, item) = Spots(h, kind, item)
                  \cup (IF more /\ Is(e, kind, item) THEN {Len(h) + 1} ELSE {})
             /\ Told(g, kind, item) =
                  IF more THEN Heard(Told(h, kind, item), e, kind, item) ELSE Told(h, kind, item)
    BY <1>1, AlsoIs
  <2> HIDE DEF g
  <2> QED BY <1>0, <2>1
<1>3. g = h \o <<e>>
  BY <1>0 DEF Also
<1>4. e.type \in {"created", "opened"}
  BY DEF Event
<1> HIDE DEF e, g
<1>5. ASSUME NEW kind, NEW item, kind \in {"text", "text_done", "added", "arguments", "call_done"}
      PROVE  Spots(g, kind, item) = Spots(h, kind, item) /\ Told(g, kind, item) = Told(h, kind, item)
  <2>1. ~Is(e, kind, item)
    BY <1>4, <1>5 DEF Is
  <2> QED BY <1>2, <2>1 DEF Heard
<1>6. Len(h) \in Nat /\ DOMAIN h = 1 .. Len(h) /\ DOMAIN g = 1 .. Len(g)
  BY <1>1, <1>2, ListedLength
<1>7. ASSUME NEW i \in Calls PROVE CallTold(g, t, i)
  <2>1. CallTold(h, t, i)
    BY DEF Content
  <2>2. /\ Told(g, "arguments", i) = Told(h, "arguments", i) /\ Spots(g, "added", i) = Spots(h, "added", i)
        /\ Spots(g, "arguments", i) = Spots(h, "arguments", i)
    BY <1>5
  <2>3. \A m \in DOMAIN h : m \in DOMAIN g /\ g[m] = h[m]
    BY <1>2, <1>6
  <2> QED BY <2>1, <2>2, <2>3 DEF CallTold
<1>8. /\ Told(g, "text", None) = Told(h, "text", None)
      /\ \A i : Spots(g, "text_done", i) = Spots(h, "text_done", i) /\ Spots(g, "call_done", i) = Spots(h, "call_done", i)
  BY <1>5
<1>9. Content(g, t)
  BY <1>2, <1>7, <1>8 DEF Content
<1> QED BY <1>3, <1>9 DEF e

(* Places of an attempt that has not yet failed or completed. *)
Working == {"new", "created", "entered", "queued", "holding", "opened", "registered", "streaming", "recording"}

(* What a line that ends with a completed response has told adds up; and so   *)
(* it will, while its client stays: what was told is what was gathered, until *)
(* the closing events that are still to be sent make the rest of it.          *)
Done(h) == h # <<>> /\ h[Len(h)].type = "completed" => AddsUp(h)
Goes(h, t) ==
  /\ t.place \in Working => Content(h, t)
  /\ t.place = "recording" => Named(t)
  /\ t.place = "closing" => AddsUp(h \o t.batch)
LineExact(h, t, away) ==
  /\ Done(h) /\ (~away => Goes(h, t))
  /\ t.place = "new" => ~away /\ DOMAIN t.calls = {}
ExactInv ==
  /\ StreamInv
  /\ \A a \in Attempts :
       /\ a \in gone => chan[a] = <<>>
       /\ LineExact(log[a] \o chan[a], task[a], a \in gone)

(* A line that has not ended is not completed. *)
LEMMA NotDone ==
  ASSUME NEW l, NEW c, NEW t, LineInv(l, c, t), t.place \notin {"new", "ended"},
         NEW away \in BOOLEAN, ~away => Goes(l \o c, t)
  PROVE  LineExact(l \o c, t, away)
<1> DEFINE h == l \o c
<1>1. Listed(l) /\ Listed(c) /\ Closed(h, FALSE)
  BY DEF LineInv
<1>2. Listed(h)
  BY <1>1, ListedJoined
<1> HIDE DEF h
<1>3. ASSUME h # <<>> PROVE h[Len(h)].type # "completed"
  <2>1. Len(h) \in DOMAIN h
    BY <1>2, <1>3 DEF Listed
  <2> QED BY <1>1, <2>1 DEF Closed, Ends
<1>4. Done(h)
  BY <1>3 DEF Done
<1> QED BY <1>4 DEF LineExact, h

(* One attempt moves. *)
LEMMA ExactMoves ==
  ASSUME ExactInv, StreamInv', NEW a \in Attempts,
         \E t : task' = [task EXCEPT ![a] = t], \E c : chan' = [chan EXCEPT ![a] = c],
         \E l : log' = [log EXCEPT ![a] = l], gone' \ {a} = gone \ {a},
         a \in gone' => chan'[a] = <<>>, LineExact(log'[a] \o chan'[a], task'[a], a \in gone')
  PROVE  ExactInv'
<1>1. \A b \in Attempts : b # a =>
        task'[b] = task[b] /\ chan'[b] = chan[b] /\ log'[b] = log[b] /\ (b \in gone' <=> b \in gone)
  BY DEF ExactInv, StreamInv
<1>2. ASSUME NEW b \in Attempts
      PROVE  (b \in gone' => chan'[b] = <<>>) /\ LineExact(log'[b] \o chan'[b], task'[b], b \in gone')
  <2>1. CASE b = a
    BY <2>1
  <2>2. CASE b # a
    <3>1. (b \in gone => chan[b] = <<>>) /\ LineExact(log[b] \o chan[b], task[b], b \in gone)
      BY DEF ExactInv
    <3>2. task'[b] = task[b] /\ chan'[b] = chan[b] /\ log'[b] = log[b] /\ (b \in gone' <=> b \in gone)
      BY <1>1, <2>2
    <3> QED BY <3>1, <3>2 DEF LineExact
  <2> QED BY <2>1, <2>2
<1> QED BY <1>2 DEF ExactInv

(* ... and sends nothing: it works on, or fails. *)
LEMMA ExactQuiet ==
  ASSUME ExactInv, StreamInv', NEW a \in Attempts, NEW u, task' = [task EXCEPT ![a] = u],
         chan' = chan, log' = log, gone' = gone, task[a].place \in Working, Keeps(task[a], u),
         u.place \in (Working \ {"new"}) \cup {"failing"}, u.place = "recording" => Named(u)
  PROVE  ExactInv'
<1>1. /\ task'[a] = u /\ chan'[a] = chan[a] /\ log'[a] = log[a]
      /\ chan' = [chan EXCEPT ![a] = chan[a]] /\ log' = [log EXCEPT ![a] = log[a]]
  BY DEF ExactInv, StreamInv
<1>2. LineInv(log[a], chan[a], u)
  BY <1>1 DEF StreamInv, StreamOf
<1>3. (a \in gone => chan[a] = <<>>) /\ (a \notin gone => Content(log[a] \o chan[a], task[a]))
  BY DEF ExactInv, LineExact, Goes
<1>4. a \notin gone => Content(log[a] \o chan[a], u)
  BY <1>3, ContentKept
<1>5. a \notin gone => Goes(log[a] \o chan[a], u)
  BY <1>4 DEF Goes, Working
<1>6. u.place \notin {"new", "ended"} /\ (a \in gone) \in BOOLEAN
  BY DEF Working
<1>7. LineExact(log[a] \o chan[a], u, a \in gone)
  BY <1>2, <1>5, <1>6, NotDone
<1> QED BY <1>1, <1>3, <1>7, ExactMoves

LEMMA ExactPlace ==
  ASSUME ExactInv, StreamInv', NEW a \in Attempts, NEW place, task' = [task EXCEPT ![a].place = place],
         chan' = chan, log' = log, gone' = gone, task[a].place \in Working,
         place \in (Working \ {"new", "recording"}) \cup {"failing"}
  PROVE  ExactInv'
<1> DEFINE u == [task[a] EXCEPT !.place = place]
<1>1. Fields \subseteq DOMAIN task[a]
  BY DEF ExactInv, StreamInv, StreamOf, TaskInv, Counted
<1>2. u.place = place /\ Keeps(task[a], u)
  BY <1>1 DEF Fields, Keeps
<1>3. task' = [task EXCEPT ![a] = u]
  OBVIOUS
<1> HIDE DEF u
<1>4. u.place # "recording" /\ u.place \in (Working \ {"new"}) \cup {"failing"}
  BY <1>2
<1> QED BY <1>2, <1>3, <1>4, ExactQuiet

LEMMA DroppedKeeps ==
  ASSUME NEW t, NEW place, Fields \subseteq DOMAIN t
  PROVE  Keeps(t, Dropped(t, place)) /\ Dropped(t, place).place = place
BY DEF Fields, Keeps, Dropped

LEMMA ExactFail ==
  ASSUME ExactInv, StreamInv', NEW a \in Attempts, Fail(a), chan' = chan, log' = log, gone' = gone,
         task[a].place \in Working
  PROVE  ExactInv'
<1> DEFINE u == Dropped(task[a], "failing")
<1>1. Fields \subseteq DOMAIN task[a]
  BY DEF ExactInv, StreamInv, StreamOf, TaskInv, Counted
<1>2. u.place = "failing" /\ Keeps(task[a], u)
  BY <1>1, DroppedKeeps
<1>3. task' = [task EXCEPT ![a] = u]
  BY DEF Fail
<1> HIDE DEF u
<1> QED BY <1>2, <1>3, ExactQuiet

(* What an attempt sends its line says, if its client is there and it fits; *)
(* a single event that does not fit leaves the line as it was.              *)
LEMMA SendSays ==
  ASSUME StreamInv, NEW a \in Attempts, NEW t, NEW events, NEW place, Send(a, t, events, place), Counted(t),
         Listed(events)
  PROVE  \E u, c : /\ task' = [task EXCEPT ![a] = u] /\ chan' = [chan EXCEPT ![a] = c]
                   /\ u.place = place /\ Keeps(t, u) /\ u.batch = t.batch
                   /\ a \in gone => c = chan[a]
                   /\ Fits(a, t, events) /\ a \notin gone => Same((log[a] \o chan[a]) \o events, log[a] \o c)
                   /\ ~Fits(a, t, events) /\ Len(events) = 1 => c = chan[a]
<1> DEFINE fits == Fits(a, t, events)
           n == IF fits THEN Len(events) ELSE Room(a, t)
           used == IF fits THEN n ELSE n + 1
           new == Numbered(SubSeq(events, 1, n), t.sequence)
           u == [t EXCEPT !.sequence = @ + used, !.sent = @ + n, !.place = place]
           c == chan[a] \o new
<1>1. Listed(log[a]) /\ Listed(chan[a]) /\ Len(chan[a]) <= Buffer
  BY DEF StreamInv, StreamOf, LineInv
<1>2. /\ Fields \subseteq DOMAIN t /\ t.sequence \in Nat /\ t.sent \in Nat /\ t.sent <= Limit
  BY DEF Counted
<1>3. task' = [task EXCEPT ![a] = u] /\ chan' = [chan EXCEPT ![a] = c]
  BY DEF Send, StreamInv
<1>4. /\ Room(a, t) \in Nat /\ Len(events) \in Nat /\ (fits <=> Len(events) <= Room(a, t))
      /\ a \in gone => Room(a, t) = 0
  <2>1. Room(a, t) \in Nat
    BY <1>1, <1>2, RoomIs
  <2>2. a \in gone => Room(a, t) = 0
    BY DEF Room
  <2> QED BY <2>1, <2>2, ListedLength DEF Fits
<1>5. /\ n \in 0 .. Len(events) /\ (fits => n = Len(events)) /\ (a \in gone => n = 0)
      /\ ~fits /\ Len(events) = 1 => n = 0
  <2> DEFINE e == Len(events)
             r == Room(a, t)
  <2>1. r \in Nat /\ e \in Nat /\ (fits <=> e <= r) /\ (a \in gone => r = 0) /\ n = IF fits THEN e ELSE r
    BY <1>4
  <2> HIDE DEF fits, e, r, n
  <2>2. n \in 0 .. e /\ (fits => n = e) /\ (a \in gone => n = 0) /\ (~fits /\ e = 1 => n = 0)
    BY <2>1
  <2> QED BY <2>2 DEF e
<1>6. u.place = place /\ Keeps(t, u) /\ u.batch = t.batch
  <2> HIDE DEF n, used
  <2> QED BY <1>2 DEF Fields, Keeps
<1> HIDE DEF n, used, u
<1>7. Listed(new) /\ Len(new) = n /\ \A i \in 1 .. n : Alike(new[i], events[i])
  BY <1>2, <1>5, NumberedIs
<1> HIDE DEF new
<1>8. ASSUME n = 0 PROVE c = chan[a]
  <2>1. new = <<>>
    BY <1>7, <1>8 DEF Listed
  <2> QED BY <1>1, <2>1 DEF Listed
<1>9. ASSUME fits PROVE Same((log[a] \o chan[a]) \o events, log[a] \o c)
  <2> DEFINE l == log[a]
             k == chan[a]
  <2>1. Listed(l) /\ Listed(k) /\ Listed(new) /\ Listed(l \o k)
    BY <1>1, <1>7, ListedJoined
  <2>2. Len(new) = Len(events)
    BY <1>5, <1>7, <1>9
  <2>3. Same(events, new)
    BY <1>5, <1>7, <1>9, <2>2 DEF Same, Alike
  <2> HIDE DEF l, k
  <2>4. Same((l \o k) \o events, (l \o k) \o new)
    BY <2>1, <2>3, SameItself, SameJoined
  <2>5. l \o (k \o new) = (l \o k) \o new
    BY <2>1, JoinedTwice
  <2>6. Same((l \o k) \o events, l \o (k \o new))
    BY <2>4, <2>5
  <2> QED BY <2>6 DEF l, k
<1> HIDE DEF c
<1> QED BY <1>3, <1>5, <1>6, <1>8, <1>9

(* Sending ends in a line that has not ended, or ... *)
LEMMA ExactSend ==
  ASSUME ExactInv, StreamInv', NEW a \in Attempts, NEW u, NEW c,
         task' = [task EXCEPT ![a] = u], chan' = [chan EXCEPT ![a] = c], log' = log, gone' = gone,
         a \in gone => c = chan[a], u.place # "new",
         u.place = "ended" => Done(log[a] \o c),
         a \notin gone => Goes(log[a] \o c, u)
  PROVE  ExactInv'
<1>1. task'[a] = u /\ chan'[a] = c /\ log'[a] = log[a] /\ log' = [log EXCEPT ![a] = log[a]]
  BY DEF ExactInv, StreamInv
<1>2. a \in gone => c = <<>>
  BY DEF ExactInv
<1>3. LineInv(log[a], c, u)
  BY <1>1 DEF StreamInv, StreamOf
<1>4. LineExact(log[a] \o c, u, a \in gone)
  <2>1. CASE u.place = "ended"
    BY <2>1 DEF LineExact
  <2>2. CASE u.place # "ended"
    <3>1. (a \in gone) \in BOOLEAN
      OBVIOUS
    <3> QED BY <1>3, <2>2, <3>1, NotDone
  <2> QED BY <2>1, <2>2
<1> QED BY <1>1, <1>2, <1>4, ExactMoves

(* The stream opens with nothing told. *)
LEMMA RequestExact ==
  ASSUME ProviderIsSound, ExactInv, StreamInv', NEW a \in Attempts, Request(a)
  PROVE  ExactInv'
<1> DEFINE one == <<Event("created", None, <<>>)>>
           c == Numbered(one, 0)
           t == task[a]
<1>1. PICK script \in Scripts[a] :
        task' = [task EXCEPT ![a].place = "created", ![a].rest = script, ![a].sequence = 1, ![a].sent = 1]
  BY DEF Request
<1> DEFINE u == [t EXCEPT !.place = "created", !.rest = script, !.sequence = 1, !.sent = 1]
<1>2. /\ task' = [task EXCEPT ![a] = u] /\ chan' = [chan EXCEPT ![a] = c] /\ log' = log /\ gone' = gone
      /\ t.place = "new"
  BY <1>1 DEF Request, client
<1>3. /\ Fields \subseteq DOMAIN t /\ log[a] = <<>> /\ chan[a] = <<>> /\ a \notin gone /\ DOMAIN t.calls = {}
      /\ Content(log[a] \o chan[a], t)
  BY <1>2 DEF ExactInv, StreamInv, StreamOf, TaskInv, LineInv, Counted, LineExact, Goes, Working
<1>4. u.place = "created" /\ u.text = t.text /\ u.calls = t.calls /\ u.tools = t.tools /\ u.rest = script
  BY <1>3 DEF Fields
<1> HIDE DEF t, u
<1>5. Content(<<>>, t)
  <2>1. <<>> \o <<>> = <<>>
    OBVIOUS
  <2> QED BY <1>3, <2>1
<1>6. Content(<<>>, u)
  <2>1. Follows(u.calls, u.rest)
    BY <1>3, <1>4, FollowsFirst
  <2>2. ASSUME NEW i \in Calls PROVE CallTold(<<>>, u, i)
    <3>1. CallTold(<<>>, t, i)
      BY <1>5 DEF Content
    <3> QED BY <1>4, <3>1 DEF CallTold
  <2> QED BY <1>4, <1>5, <2>1, <2>2 DEF Content
<1>7. Content(<<>> \o one, u)
  BY <1>6, ContentOpens
<1>8. Listed(one) /\ Len(one) = 1 /\ one = SubSeq(one, 1, 1) /\ <<>> \o one = one
  BY DEF Listed
<1> HIDE DEF one
<1>9. Same(one, c)
  <2>1. 1 \in 0 .. Len(one) /\ 0 \in Nat
    BY <1>8
  <2> DEFINE sent == Numbered(SubSeq(one, 1, 1), 0)
  <2>2. Listed(sent) /\ Len(sent) = 1 /\ \A i \in 1 .. 1 : Alike(sent[i], one[i])
    BY <1>8, <2>1, NumberedIs
  <2>3. c = sent
    BY <1>8
  <2> HIDE DEF c, sent
  <2> QED BY <1>8, <2>2, <2>3 DEF Same, Alike
<1> HIDE DEF c
<1>10. log[a] \o c = c
  BY <1>3, <1>9 DEF Same, Listed
<1>11. Content(log[a] \o c, u)
  BY <1>7, <1>8, <1>9, <1>10, ContentAlike
<1>12. Goes(log[a] \o c, u)
  BY <1>4, <1>11 DEF Goes
<1> QED BY <1>2, <1>3, <1>4, <1>12, ExactSend

(* The message item opens, or the attempt fails. *)
LEMMA OpenExact ==
  ASSUME ExactInv, StreamInv', NEW a \in Attempts, Open(a)
  PROVE  ExactInv'
<1> DEFINE t == task[a]
<1>1. t.place = "holding" /\ log' = log /\ gone' = gone
  BY DEF Open, client
<1>2. TaskInv(t) /\ StreamInv /\ (a \notin gone => Content(log[a] \o chan[a], t))
  BY <1>1 DEF ExactInv, StreamInv, StreamOf, LineExact, Goes, Working
<1>3. Listed(Opening)
  BY GoingSome DEF Going, Opening
<1> HIDE DEF t
<1>4. CASE Fail(a) /\ chan' = chan
  BY <1>1, <1>4, ExactFail DEF Working, t
<1>5. CASE Send(a, t, Opening, "opened") /\ Fits(a, t, Opening)
  <2>1. PICK u, c : /\ task' = [task EXCEPT ![a] = u] /\ chan' = [chan EXCEPT ![a] = c]
                    /\ u.place = "opened" /\ Keeps(t, u) /\ (a \in gone => c = chan[a])
                    /\ a \notin gone => Same((log[a] \o chan[a]) \o Opening, log[a] \o c)
    BY <1>2, <1>3, <1>5, SendSays DEF TaskInv
  <2>2. ASSUME a \notin gone PROVE Goes(log[a] \o c, u)
    <3>1. Content((log[a] \o chan[a]) \o Opening, t)
      BY <1>2, <2>2, ContentOpens DEF Opening
    <3>2. Content(log[a] \o c, t)
      BY <2>1, <2>2, <3>1, ContentAlike
    <3>3. Content(log[a] \o c, u)
      BY <2>1, <3>2, ContentKept
    <3> QED BY <2>1, <3>3 DEF Goes
  <2> QED BY <1>1, <2>1, <2>2, ExactSend
<1>6. CASE Send(a, Dropped(t, "holding"), Opening, "failing")
  <2>1. Counted(Dropped(t, "holding"))
    BY <1>2, DroppedTask DEF TaskInv
  <2>2. PICK u, c : /\ task' = [task EXCEPT ![a] = u] /\ chan' = [chan EXCEPT ![a] = c]
                    /\ u.place = "failing" /\ (a \in gone => c = chan[a])
    BY <1>2, <1>3, <1>6, <2>1, SendSays
  <2>3. Goes(log[a] \o c, u)
    BY <2>2 DEF Goes, Working
  <2> QED BY <1>1, <2>2, <2>3, ExactSend
<1> QED BY <1>4, <1>5, <1>6 DEF Open, t

(* A chunk is gathered and told, or the attempt fails. *)
LEMMA ChunkExact ==
  ASSUME ExactInv, StreamInv', NEW a \in Attempts, Chunk(a)
  PROVE  ExactInv'
<1> DEFINE t == task[a]
           d == Head(t.rest)
           events == Forwarded(t.tools, d)
           next == [t EXCEPT !.rest = Tail(@), !.text = @ \o d.text,
                             !.calls = Gather(@, d), !.tools = Tools(@, d)]
<1>1. t.place = "streaming" /\ t.rest # <<>> /\ log' = log /\ gone' = gone
  BY DEF Chunk, client
<1>2. TaskInv(t) /\ StreamInv /\ (a \notin gone => Content(log[a] \o chan[a], t))
  BY <1>1 DEF ExactInv, StreamInv, StreamOf, LineExact, Goes, Working
<1>3. \/ Send(a, next, events, "streaming") /\ Fits(a, t, events)
      \/ Send(a, Dropped(next, "failing"), events, "failing")
  BY DEF Chunk
<1> HIDE DEF t
<1>4. Listed(events)
  BY ForwardedGoing DEF Going
<1>5. /\ Fields \subseteq DOMAIN next /\ next.sequence = t.sequence /\ next.sent = t.sent /\ next.place = t.place
      /\ next.rest = Tail(t.rest) /\ next.text = t.text \o d.text
      /\ next.calls = Gather(t.calls, d) /\ next.tools = Tools(t.tools, d)
  BY <1>2 DEF TaskInv, Counted, Fields
<1>6. Counted(next) /\ TaskInv(next)
  <2>1. IsFiniteSet(DOMAIN Gather(t.calls, d))
    BY <1>2, GatherFinite DEF TaskInv, Counted
  <2> HIDE DEF next, d
  <2> QED BY <1>1, <1>2, <1>5, <2>1 DEF TaskInv, Counted
<1>7. a \notin gone => Content((log[a] \o chan[a]) \o events, next)
  <2> HIDE DEF next
  <2> QED BY <1>1, <1>2, <1>5, ContentGoesOn
<1>8. Fits(a, t, events) = Fits(a, next, events)
  BY <1>5 DEF Fits, Room
<1> HIDE DEF next, events, d
<1>9. CASE Send(a, next, events, "streaming") /\ Fits(a, t, events)
  <2>0. Fits(a, next, events)
    BY <1>8, <1>9
  <2>1. PICK u, c : /\ task' = [task EXCEPT ![a] = u] /\ chan' = [chan EXCEPT ![a] = c]
                    /\ u.place = "streaming" /\ Keeps(next, u) /\ u.batch = next.batch
                    /\ a \in gone => c = chan[a]
                    /\ Fits(a, next, events) /\ a \notin gone => Same((log[a] \o chan[a]) \o events, log[a] \o c)
                    /\ ~Fits(a, next, events) /\ Len(events) = 1 => c = chan[a]
    BY <1>2, <1>4, <1>6, <1>9, SendSays
  <2>2. ASSUME a \notin gone PROVE Goes(log[a] \o c, u)
    <3>1. Content(log[a] \o c, next)
      BY <1>7, <2>0, <2>1, <2>2, ContentAlike
    <3>2. Content(log[a] \o c, u)
      BY <2>1, <3>1, ContentKept
    <3> QED BY <2>1, <3>2 DEF Goes
  <2> QED BY <1>1, <2>1, <2>2, ExactSend
<1>10. CASE Send(a, Dropped(next, "failing"), events, "failing")
  <2>1. Counted(Dropped(next, "failing"))
    BY <1>6, DroppedTask DEF TaskInv
  <2>2. PICK u, c : /\ task' = [task EXCEPT ![a] = u] /\ chan' = [chan EXCEPT ![a] = c]
                    /\ u.place = "failing" /\ (a \in gone => c = chan[a])
    BY <1>2, <1>4, <1>10, <2>1, SendSays
  <2>3. Goes(log[a] \o c, u)
    BY <2>2 DEF Goes, Working
  <2> QED BY <1>1, <2>2, <2>3, ExactSend
<1> QED BY <1>3, <1>9, <1>10

(* What was gathered is recorded: the closing events are what remains to say. *)
LEMMA RecordExact ==
  ASSUME ExactInv, StreamInv', NEW a \in Attempts, Record(a)
  PROVE  ExactInv'
<1> DEFINE t == task[a]
           u == IF a \in flagged \/ t.sent + Len(Closing(t)) > Limit THEN Dropped(t, "failing")
                ELSE [Dropped(t, "closing") EXCEPT !.batch = Closing(t)]
<1>1. /\ task' = [task EXCEPT ![a] = u] /\ chan' = chan /\ log' = log /\ gone' = gone
      /\ t.place = "recording"
  BY DEF Record, client
<1>2. Fields \subseteq DOMAIN t /\ (a \notin gone => Content(log[a] \o chan[a], t) /\ Named(t))
  BY <1>1 DEF ExactInv, StreamInv, StreamOf, TaskInv, Counted, LineExact, Goes, Working
<1>3. u.place = "failing" \/ (u.place = "closing" /\ u.batch = Closing(t))
  BY <1>2 DEF Dropped, Fields
<1> HIDE DEF t, u
<1>4. ASSUME a \notin gone PROVE Goes(log[a] \o chan[a], u)
  <2>1. AddsUp((log[a] \o chan[a]) \o Closing(t))
    BY <1>2, <1>4, ContentCloses
  <2> QED BY <1>3, <2>1 DEF Goes, Working
<1>5. chan' = [chan EXCEPT ![a] = chan[a]]
  BY <1>1 DEF ExactInv, StreamInv
<1>6. u.place \notin {"new", "ended"}
  BY <1>3
<1> QED BY <1>1, <1>4, <1>5, <1>6, ExactSend

(* One of the closing events is sent, until the line has them all. *)
LEMMA CloseExact ==
  ASSUME ExactInv, StreamInv', NEW a \in Attempts, Close(a)
  PROVE  ExactInv'
<1> DEFINE t == task[a]
           b == t.batch
           one == <<Head(b)>>
           next == [t EXCEPT !.batch = Tail(@)]
           place == IF Len(b) = 1 THEN "ended" ELSE "closing"
           h == log[a] \o chan[a]
<1>1. t.place = "closing" /\ log' = log /\ gone' = gone
  BY DEF Close, client
<1>2. TaskInv(t) /\ StreamInv /\ Done(h) /\ (a \notin gone => AddsUp(h \o b))
  BY <1>1 DEF ExactInv, StreamInv, StreamOf, LineExact, Goes
<1>3. \/ Send(a, next, one, place) /\ Fits(a, t, one)
      \/ Send(a, t, one, "failing")
  BY DEF Close
<1>4. Listed(b) /\ b # <<>> /\ Listed(h)
  <2>1. Listed(log[a]) /\ Listed(chan[a])
    BY DEF ExactInv, StreamInv, StreamOf, LineInv
  <2> QED BY <1>1, <1>2, <2>1, ListedJoined DEF TaskInv
<1> HIDE DEF t
<1>5. /\ Fields \subseteq DOMAIN next /\ next.sequence = t.sequence /\ next.sent = t.sent
      /\ next.calls = t.calls /\ next.batch = Tail(b)
  BY <1>2 DEF TaskInv, Counted, Fields
<1>6. Counted(next) /\ Counted(t)
  <2> HIDE DEF next
  <2> QED BY <1>2, <1>5 DEF TaskInv, Counted
<1>7. Fits(a, t, one) = Fits(a, next, one)
  BY <1>5 DEF Fits, Room
<1> HIDE DEF next, b
<1>8. /\ Listed(one) /\ Len(one) = 1 /\ Listed(Tail(b)) /\ one \o Tail(b) = b
      /\ Len(b) = 1 => one = b
  <2> DEFINE S == {b[n] : n \in DOMAIN b}
  <2>1. b \in Seq(S)
    BY <1>4 DEF Listed
  <2> HIDE DEF S
  <2>2. one \in Seq(S) /\ Len(one) = 1 /\ Tail(b) \in Seq(S) /\ one \o Tail(b) = b
    BY <1>4, <2>1
  <2>3. Len(b) = 1 => one = b
    BY <1>4, <2>1
  <2> QED BY <2>2, <2>3, ListedIs
<1>9. h \o b = (h \o one) \o Tail(b)
  <2> HIDE DEF h, one
  <2>1. h \o (one \o Tail(b)) = (h \o one) \o Tail(b)
    <3> DEFINE r == Tail(b)
    <3>1. Listed(h) /\ Listed(one) /\ Listed(r)
      BY <1>4, <1>8
    <3> HIDE DEF r
    <3>2. h \o (one \o r) = (h \o one) \o r
      BY <3>1, JoinedTwice
    <3> QED BY <3>2 DEF r
  <2> QED BY <1>8, <2>1
<1> HIDE DEF one, h
<1>10. CASE Send(a, next, one, place) /\ Fits(a, t, one)
  <2>1. place \in {"ended", "closing"} /\ (place = "ended" <=> Len(b) = 1)
    OBVIOUS
  <2> HIDE DEF place
  <2>0. Fits(a, next, one)
    BY <1>7, <1>10
  <2>2. PICK u, c : /\ task' = [task EXCEPT ![a] = u] /\ chan' = [chan EXCEPT ![a] = c]
                    /\ u.place = place /\ Keeps(next, u) /\ u.batch = next.batch
                    /\ a \in gone => c = chan[a]
                    /\ Fits(a, next, one) /\ a \notin gone => Same((log[a] \o chan[a]) \o one, log[a] \o c)
                    /\ ~Fits(a, next, one) /\ Len(one) = 1 => c = chan[a]
    BY <1>2, <1>6, <1>8, <1>10, SendSays
  <2>3. ASSUME a \notin gone, Len(b) = 1 PROVE AddsUp(log[a] \o c)
    <3>1. AddsUp(h \o one) /\ Same(h \o one, log[a] \o c)
      BY <1>2, <1>8, <2>0, <2>2, <2>3 DEF h
    <3> QED BY <3>1, AddsUpAlike
  <2>4. ASSUME a \notin gone, Len(b) # 1 PROVE AddsUp((log[a] \o c) \o u.batch)
    <3>1. AddsUp((h \o one) \o Tail(b)) /\ Same(h \o one, log[a] \o c)
      BY <1>2, <1>9, <2>0, <2>2, <2>4 DEF h
    <3>2. Same((h \o one) \o Tail(b), (log[a] \o c) \o Tail(b))
      BY <1>8, <3>1, SameItself, SameJoined
    <3>3. AddsUp((log[a] \o c) \o Tail(b))
      BY <3>1, <3>2, AddsUpAlike
    <3> QED BY <1>5, <2>2, <3>3
  <2>5. u.place = "ended" => Done(log[a] \o c)
    BY <1>2, <2>1, <2>2, <2>3 DEF Done, h
  <2>6. a \notin gone => Goes(log[a] \o c, u)
    BY <2>1, <2>2, <2>4 DEF Goes, Working
  <2>7. u.place # "new"
    BY <2>1, <2>2
  <2> QED BY <1>1, <2>2, <2>5, <2>6, <2>7, ExactSend
<1>11. CASE Send(a, t, one, "failing")
  <2>1. PICK u, c : /\ task' = [task EXCEPT ![a] = u] /\ chan' = [chan EXCEPT ![a] = c]
                    /\ u.place = "failing" /\ Keeps(t, u) /\ u.batch = t.batch
                    /\ a \in gone => c = chan[a]
                    /\ Fits(a, t, one) /\ a \notin gone => Same((log[a] \o chan[a]) \o one, log[a] \o c)
                    /\ ~Fits(a, t, one) /\ Len(one) = 1 => c = chan[a]
    BY <1>2, <1>6, <1>8, <1>11, SendSays
  <2>2. Goes(log[a] \o c, u)
    BY <2>1 DEF Goes, Working
  <2> QED BY <1>1, <2>1, <2>2, ExactSend
<1> QED BY <1>3, <1>10, <1>11

(* Nothing waits behind a completed response. *)
LEMMA DoneRead ==
  ASSUME NEW l, NEW c, NEW ended \in BOOLEAN, Listed(l), Listed(c), Closed(l \o c, ended), Done(l \o c)
  PROVE  Done(l) /\ l \o <<>> = l
<1> DEFINE j == l \o c
<1>1. l \o <<>> = l
  BY DEF Listed
<1>2. /\ Listed(j) /\ Len(j) = Len(l) + Len(c) /\ \A n \in 1 .. Len(l) : j[n] = l[n]
  BY ListedJoined
<1> HIDE DEF j
<1>3. /\ Len(l) \in Nat /\ Len(c) \in Nat /\ DOMAIN l = 1 .. Len(l) /\ DOMAIN j = 1 .. Len(l) + Len(c)
  BY <1>2, ListedLength
<1>4. ASSUME l # <<>>, l[Len(l)].type = "completed" PROVE AddsUp(l)
  <2>1. Len(l) \in 1 .. Len(l)
    BY <1>3, <1>4 DEF Listed
  <2>2. Len(l) \in DOMAIN j /\ j[Len(l)] = l[Len(l)]
    BY <1>2, <1>3, <2>1
  <2>3. Ends(j[Len(l)])
    BY <1>4, <2>2 DEF Ends
  <2>4. Len(l) = Len(j)
    BY <2>2, <2>3 DEF Closed, j
  <2>5. Len(c) = 0
    <3> DEFINE m == Len(l)
               k == Len(c)
    <3>1. m = m + k /\ m \in Nat /\ k \in Nat
      BY <1>2, <1>3, <2>4
    <3> HIDE DEF m, k
    <3> QED BY <3>1 DEF k
  <2>6. c = <<>>
    BY <2>5 DEF Listed
  <2>7. Done(l)
    BY <1>1, <2>6 DEF j
  <2> QED BY <1>4, <2>7 DEF Done
<1> QED BY <1>1, <1>4 DEF Done

(* A response that failed says so, if it can. *)
LEMMA FailureExact ==
  ASSUME ExactInv, StreamInv', NEW a \in Attempts, Failure(a)
  PROVE  ExactInv'
<1> DEFINE t == task[a]
           e == Event("failed", None, <<>>)
           one == <<e>>
           h == log[a] \o chan[a]
<1>1. t.place = "failing" /\ log' = log /\ gone' = gone /\ Send(a, t, one, "ended")
  BY DEF Failure, client
<1>2. Counted(t) /\ StreamInv /\ Done(h)
  BY DEF ExactInv, StreamInv, StreamOf, TaskInv, LineExact
<1>3. Listed(one) /\ Len(one) = 1 /\ one[1].type = "failed" /\ Listed(h)
  <2>1. Listed(log[a]) /\ Listed(chan[a])
    BY DEF ExactInv, StreamInv, StreamOf, LineInv
  <2>2. e.type = "failed"
    BY DEF Event
  <2> HIDE DEF e
  <2> QED BY <2>1, <2>2, ListedJoined, SingleEvent
<1> HIDE DEF t, one
<1>4. PICK u, c : /\ task' = [task EXCEPT ![a] = u] /\ chan' = [chan EXCEPT ![a] = c]
                  /\ u.place = "ended" /\ Keeps(t, u) /\ u.batch = t.batch
                  /\ a \in gone => c = chan[a]
                  /\ Fits(a, t, one) /\ a \notin gone => Same((log[a] \o chan[a]) \o one, log[a] \o c)
                  /\ ~Fits(a, t, one) /\ Len(one) = 1 => c = chan[a]
  BY <1>1, <1>2, <1>3, SendSays
<1>5. Done(log[a] \o c)
  <2>1. CASE c = chan[a]
    BY <1>2, <2>1
  <2>2. CASE c # chan[a]
    <3> DEFINE g == log[a] \o c
    <3>1. Same(h \o one, g)
      BY <1>3, <1>4, <2>2
    <3> HIDE DEF h, g
    <3>2. Len(h \o one) = Len(h) + 1 /\ (h \o one)[Len(h) + 1] = one[1] /\ Len(h) \in Nat
      BY <1>3, OneMore, ListedLength
    <3>3. Len(g) = Len(h) + 1 /\ Alike((h \o one)[Len(h) + 1], g[Len(h) + 1])
      BY <3>1, <3>2 DEF Same
    <3>4. g[Len(g)].type # "completed"
      BY <1>3, <3>2, <3>3 DEF Alike
    <3> QED BY <3>4 DEF Done, g
  <2> QED BY <2>1, <2>2
<1>6. Goes(log[a] \o c, u) /\ u.place # "new"
  BY <1>4 DEF Goes, Working
<1> QED BY <1>1, <1>4, <1>5, <1>6, ExactSend

(* What is read stays on its line. *)
LEMMA ReadExact ==
  ASSUME ExactInv, StreamInv', NEW a \in Attempts, Read(a)
  PROVE  ExactInv'
<1> DEFINE l == log[a]
           c == chan[a]
<1>1. /\ c # <<>> /\ task' = task /\ gone' = gone /\ log' = [log EXCEPT ![a] = Append(l, Head(c))]
      /\ chan' = [chan EXCEPT ![a] = Tail(c)]
  BY DEF Read, ExactInv, StreamInv
<1>2. /\ task' = [task EXCEPT ![a] = task[a]] /\ task'[a] = task[a]
      /\ log'[a] = Append(l, Head(c)) /\ chan'[a] = Tail(c)
  BY <1>1 DEF ExactInv, StreamInv
<1>3. a \notin gone /\ LineExact(l \o c, task[a], a \in gone) /\ Listed(l) /\ Listed(c)
  BY <1>1 DEF ExactInv, StreamInv, StreamOf, LineInv
<1> HIDE DEF l, c
<1>4. Append(l, Head(c)) \o Tail(c) = l \o c
  BY <1>1, <1>3, ReadOn
<1>5. LineExact(log'[a] \o chan'[a], task'[a], a \in gone')
  BY <1>1, <1>2, <1>3, <1>4
<1> QED BY <1>1, <1>2, <1>3, <1>5, ExactMoves

(* What a client that leaves has not read is lost, but nothing behind its end. *)
LEMMA LeaveExact ==
  ASSUME ExactInv, StreamInv', NEW a \in Attempts, Leave(a)
  PROVE  ExactInv'
<1> DEFINE l == log[a]
           c == chan[a]
           t == task[a]
<1>1. /\ task' = task /\ log' = log /\ gone' = gone \cup {a} /\ chan' = [chan EXCEPT ![a] = <<>>]
      /\ t.place # "new"
  BY DEF Leave
<1>2. /\ task' = [task EXCEPT ![a] = t] /\ task'[a] = t /\ log' = [log EXCEPT ![a] = l] /\ log'[a] = l
      /\ chan'[a] = <<>>
  BY <1>1 DEF ExactInv, StreamInv
<1>3. Listed(l) /\ Listed(c) /\ Closed(l \o c, t.place = "ended") /\ Done(l \o c)
  BY DEF ExactInv, StreamInv, StreamOf, LineInv, LineExact
<1> HIDE DEF l, c, t
<1>4. Done(l) /\ l \o <<>> = l
  BY <1>3, DoneRead
<1>5. LineExact(l \o <<>>, t, TRUE)
  BY <1>1, <1>4 DEF LineExact
<1>6. LineExact(log'[a] \o chan'[a], task'[a], a \in gone')
  BY <1>1, <1>2, <1>5
<1>7. gone' \ {a} = gone \ {a}
  BY <1>1
<1> QED BY <1>1, <1>2, <1>6, <1>7, ExactMoves

(* The invariant at the start. *)
LEMMA ExactInit == Init => ExactInv
<1> SUFFICES ASSUME Init PROVE ExactInv
  OBVIOUS
<1>1. StreamInv
  BY StreamInvInit
<1>2. ASSUME NEW a \in Attempts
      PROVE  (a \in gone => chan[a] = <<>>) /\ LineExact(log[a] \o chan[a], task[a], a \in gone)
  <2> DEFINE t == task[a]
  <2>1. log[a] = <<>> /\ chan[a] = <<>> /\ gone = {} /\ <<>> \o <<>> = <<>>
    BY DEF Init
  <2>2. /\ t.place = "new" /\ t.rest = <<>> /\ t.text = <<>> /\ DOMAIN t.calls = {}
        /\ t.tools = [i \in Calls |-> NoTool]
    BY DEF Init
  <2> HIDE DEF t
  <2>3. Listed(<<>>) /\ Len(<<>>) = 0 /\ DOMAIN <<>> = {}
    BY DEF Listed
  <2>4. \A type, item : Spots(<<>>, type, item) = {}
    BY <2>3 DEF Spots
  <2>5. \A type, item : Told(<<>>, type, item) = <<>>
    <3> SUFFICES ASSUME NEW type, NEW item PROVE Told(<<>>, type, item) = <<>>
      OBVIOUS
    <3>1. PICK g : g[0] = <<>> /\ Told(<<>>, type, item) = g[Len(<<>>)]
      BY <2>3, ToldInOrder
    <3> QED BY <2>3, <3>1
  <2>6. ASSUME NEW i \in Calls PROVE CallTold(<<>>, t, i)
    <3>1. i \notin DOMAIN t.calls /\ t.tools[i] = NoTool
      BY <2>2
    <3>2. Spots(<<>>, "added", i) = {} /\ Spots(<<>>, "arguments", i) = {} /\ Told(<<>>, "arguments", i) = <<>>
      BY <2>4, <2>5
    <3>3. NoTool.id = "" /\ NoTool.name = "" /\ NoTool.added = FALSE
      BY DEF NoTool
    <3> QED BY <3>1, <3>2, <3>3 DEF CallTold
  <2>7. Follows(t.calls, <<>>)
    BY <2>3 DEF Follows
  <2>8. \E k \in Nat : DOMAIN t.calls = 0 .. k - 1
    <3>1. 0 \in Nat /\ 0 .. 0 - 1 = {}
      OBVIOUS
    <3> QED BY <2>2, <3>1
  <2>9. Content(<<>>, t)
    BY <2>2, <2>3, <2>4, <2>5, <2>6, <2>7, <2>8 DEF Content
  <2>10. Done(<<>>) /\ Goes(<<>>, t)
    BY <2>2, <2>9 DEF Done, Goes
  <2>11. LineExact(<<>>, t, a \in gone)
    BY <2>1, <2>2, <2>10 DEF LineExact
  <2> QED BY <2>1, <2>11 DEF t
<1> QED BY <1>1, <1>2 DEF ExactInv

(* Every step, or none, keeps what was told exact. *)
LEMMA ExactNext == ProviderIsSound /\ ExactInv /\ [Next]_vars => ExactInv'
<1> SUFFICES ASSUME ProviderIsSound, ExactInv, [Next]_vars PROVE ExactInv'
  OBVIOUS
<1>1. StreamInv'
  BY StreamInvNext DEF ExactInv
<1>2. CASE UNCHANGED vars
  BY <1>1, <1>2 DEF vars, client, ExactInv
<1> SUFFICES ASSUME NEW a \in Attempts,
                    \/ Request(a) \/ Admit(a) \/ Lookup(a) \/ Acquire(a) \/ Open(a)
                    \/ Register(a) \/ EnsureActive(a) \/ Chunk(a) \/ Finish(a) \/ Stop(a)
                    \/ Record(a) \/ Expire(a) \/ Close(a) \/ Failure(a)
                    \/ Mark(a) \/ Signal(a) \/ Read(a) \/ Leave(a)
             PROVE  ExactInv'
  BY <1>2 DEF Next
<1> DEFINE t == task[a]
<1>3. Fields \subseteq DOMAIN t
  BY DEF ExactInv, StreamInv, StreamOf, TaskInv, Counted
<1>4. CASE Request(a)
  BY <1>1, <1>4, RequestExact
<1>5. CASE Admit(a)
  <2>1. PICK place \in {"entered", "failing"} : task' = [task EXCEPT ![a].place = place]
    BY <1>5 DEF Admit
  <2>2. chan' = chan /\ log' = log /\ gone' = gone /\ t.place = "created"
    BY <1>5 DEF Admit, client
  <2> QED BY <1>1, <2>1, <2>2, ExactPlace DEF Working
<1>6. CASE Lookup(a)
  <2> DEFINE u == [t EXCEPT !.place = "queued", !.gate = GateOf(a)]
  <2>1. /\ task' = [task EXCEPT ![a] = u] /\ chan' = chan /\ log' = log /\ gone' = gone
        /\ t.place = "entered"
    BY <1>6 DEF Lookup, client
  <2>2. u.place = "queued" /\ Keeps(t, u)
    BY <1>3 DEF Fields, Keeps
  <2> HIDE DEF u
  <2> QED BY <1>1, <2>1, <2>2, ExactQuiet DEF Working
<1>7. CASE Acquire(a) \/ Register(a)
  <2>1. PICK place \in {"holding", "registered"} : task' = [task EXCEPT ![a].place = place]
    BY <1>7 DEF Acquire, Register
  <2>2. chan' = chan /\ log' = log /\ gone' = gone /\ t.place \in {"queued", "opened"}
    BY <1>7 DEF Acquire, Register, client
  <2> QED BY <1>1, <2>1, <2>2, ExactPlace DEF Working
<1>8. CASE Open(a)
  BY <1>1, <1>8, OpenExact
<1>9. CASE EnsureActive(a)
  <2>1. chan' = chan /\ log' = log /\ gone' = gone /\ t.place = "registered"
    BY <1>9 DEF EnsureActive, client
  <2>2. CASE Fail(a)
    BY <1>1, <2>1, <2>2, ExactFail DEF Working
  <2>3. CASE task' = [task EXCEPT ![a].place = "streaming"]
    BY <1>1, <2>1, <2>3, ExactPlace DEF Working
  <2> QED BY <1>9, <2>2, <2>3 DEF EnsureActive
<1>10. CASE Chunk(a)
  BY <1>1, <1>10, ChunkExact
<1>11. CASE Finish(a)
  <2> DEFINE u == Dropped(t, "recording")
  <2>1. chan' = chan /\ log' = log /\ gone' = gone /\ t.place = "streaming"
    BY <1>11 DEF Finish, client
  <2>2. CASE task' = [task EXCEPT ![a] = u] /\ Whole(t)
    <3>1. u.place = "recording" /\ Keeps(t, u)
      BY <1>3, DroppedKeeps
    <3> HIDE DEF u
    <3>2. Named(u)
      BY <2>2, <3>1 DEF Whole, Named, Keeps
    <3> QED BY <1>1, <2>1, <2>2, <3>1, <3>2, ExactQuiet DEF Working
  <2>3. CASE Fail(a)
    BY <1>1, <2>1, <2>3, ExactFail DEF Working
  <2> QED BY <1>11, <2>2, <2>3 DEF Finish
<1>12. CASE Stop(a) \/ Expire(a)
  <2>1. chan' = chan /\ log' = log /\ gone' = gone /\ t.place \in Working /\ Fail(a)
    BY <1>12 DEF Stop, Expire, client, Waits, Working
  <2> QED BY <1>1, <2>1, ExactFail
<1>13. CASE Record(a)
  BY <1>1, <1>13, RecordExact
<1>14. CASE Close(a)
  BY <1>1, <1>14, CloseExact
<1>15. CASE Failure(a)
  BY <1>1, <1>15, FailureExact
<1>16. CASE Mark(a) \/ Signal(a)
  <2>1. task' = task /\ chan' = chan /\ log' = log /\ gone' = gone
    BY <1>16 DEF Mark, Signal, client
  <2> QED BY <1>1, <2>1 DEF ExactInv
<1>17. CASE Read(a)
  BY <1>1, <1>17, ReadExact
<1>18. CASE Leave(a)
  BY <1>1, <1>18, LeaveExact
<1> QED BY <1>4, <1>5, <1>6, <1>7, <1>8, <1>9, <1>10, <1>11, <1>12, <1>13, <1>14, <1>15, <1>16, <1>17, <1>18

(* If the provider keeps to its protocol (ProviderIsSound), a completed       *)
(* response is what its client was told on the way, neither more nor less:    *)
(* the text deltas make its text, and every call was announced once, under    *)
(* the identity it completes with, before the pieces that make its arguments  *)
(* (forward_stream_delta, stream_messages, send_completed_events).            *)
THEOREM StreamIsExact == ASSUME ProviderIsSound PROVE Spec => []StreamExact
<1>1. ExactInv => StreamExact
  <2> SUFFICES ASSUME ExactInv PROVE StreamExact
    OBVIOUS
  <2>1. StreamInOrder
    BY LineInOrder DEF ExactInv
  <2>2. ASSUME NEW a \in Attempts, log[a] # <<>>, Last(log[a]).type = "completed" PROVE AddsUp(log[a])
    <3> DEFINE l == log[a]
               c == chan[a]
    <3>1. Listed(l) /\ Listed(c) /\ Closed(l \o c, task[a].place = "ended") /\ Done(l \o c)
      BY DEF ExactInv, StreamInv, StreamOf, LineInv, LineExact
    <3>2. l # <<>> /\ l[Len(l)].type = "completed"
      BY <2>2 DEF Last
    <3> HIDE DEF l, c
    <3>3. Done(l)
      BY <3>1, DoneRead
    <3>4. AddsUp(l)
      BY <3>2, <3>3 DEF Done
    <3> QED BY <3>4 DEF l
  <2> QED BY <2>1, <2>2 DEF StreamExact, StreamComplete
<1>2. ExactInv /\ [Next]_vars => ExactInv'
  BY ExactNext
<1> QED BY <1>1, <1>2, ExactInit, PTL DEF Spec
-----------------------------------------------------------------------------
(* A cancellation is not lost: what was signalled while the attempt streams  *)
(* is what its stream waits for, and only who asked for a cancellation is    *)
(* stopped by one.                                                          *)
CancelSeen == \A a \in Attempts :
  /\ task[a].place = "streaming" /\ a \in flagged /\ asked[a] = "done" => a \in fired
  /\ a \in fired => asked[a] = "done"
  /\ a \in flagged => task[a].place \in Running

(* A mark is of an attempt that runs and was cancelled, and a registration   *)
(* is there from before the last look to the end of the stream.             *)
CancelInv ==
  /\ Shaped /\ asked = [a \in Attempts |-> asked[a]]
  /\ \A a \in Attempts :
       /\ a \in flagged => task[a].place \in Running /\ asked[a] # "no"
       /\ task[a].place \in {"registered", "streaming"} => a \in registered
       /\ a \in fired => asked[a] = "done"
       /\ task[a].place = "streaming" /\ a \in flagged /\ asked[a] = "done" => a \in fired

(* A step that does not cancel moves one attempt. *)
LEMMA CancelKept ==
  ASSUME CancelInv, NEW a \in Attempts, NEW u, task' = [task EXCEPT ![a] = u], Shaped', UNCHANGED asked,
         {"place", "gate"} \subseteq DOMAIN u,
         \/ /\ UNCHANGED <<flagged, registered, fired>>
            /\ u.place \in {"registered", "streaming"} => task[a].place = u.place
            /\ a \in flagged => u.place \in Running
         \/ /\ flagged' \subseteq flagged \ {a} /\ flagged \ {a} \subseteq flagged'
            /\ registered' = registered \ {a} /\ fired' = fired
            /\ u.place \notin {"registered", "streaming"}
  PROVE  CancelInv'
<1>1. task'[a] = u /\ \A b \in Attempts : b # a => task'[b] = task[b]
  BY DEF CancelInv, Shaped
<1>2. asked' = [b \in Attempts |-> asked'[b]]
  BY DEF CancelInv
<1>3. ASSUME NEW b \in Attempts
      PROVE  /\ b \in flagged' => task'[b].place \in Running /\ asked'[b] # "no"
             /\ task'[b].place \in {"registered", "streaming"} => b \in registered'
             /\ b \in fired' => asked'[b] = "done"
             /\ task'[b].place = "streaming" /\ b \in flagged' /\ asked'[b] = "done" => b \in fired'
  BY <1>1 DEF CancelInv
<1> QED BY <1>2, <1>3 DEF CancelInv

LEMMA CancelFail ==
  ASSUME CancelInv, NEW a \in Attempts, NEW t, NEW events, NEW place, Shaped', Released(a),
         {"place", "gate"} \subseteq DOMAIN t, place \notin {"registered", "streaming"},
         Send(a, t, events, place) \/ task' = [task EXCEPT ![a] = Dropped(t, place)]
  PROVE  CancelInv'
<1>1. UNCHANGED <<fired, asked>> /\ flagged' = flagged \ {a} /\ registered' = registered \ {a}
  BY DEF Released
<1>2. PICK u : task' = [task EXCEPT ![a] = u] /\ {"place", "gate"} \subseteq DOMAIN u /\ u.place = place
  <2>1. CASE Send(a, t, events, place)
    BY <2>1, Sent
  <2>2. CASE task' = [task EXCEPT ![a] = Dropped(t, place)]
    BY <2>2, DroppedShape
  <2> QED BY <2>1, <2>2
<1> QED BY <1>1, <1>2, CancelKept

LEMMA CancelMoves ==
  ASSUME CancelInv, NEW a \in Attempts, NEW place, Shaped', UNCHANGED <<flagged, registered, fired, asked>>,
         task' = [task EXCEPT ![a].place = place],
         place \notin {"registered", "streaming"}, a \in flagged => place \in Running
  PROVE  CancelInv'
<1> DEFINE u == [task[a] EXCEPT !.place = place]
<1>1. {"place", "gate"} \subseteq DOMAIN task[a]
  BY DEF CancelInv, Shaped
<1>2. {"place", "gate"} \subseteq DOMAIN u /\ u.place = place /\ task' = [task EXCEPT ![a] = u]
  BY <1>1
<1> HIDE DEF u
<1> QED BY <1>2, CancelKept

(* No order of marking, registering and signalling loses a cancellation. *)
LEMMA CancelStep ==
  ASSUME CancelInv, GenerationInv, [Next]_vars
  PROVE  CancelInv'
<1>1. Shaped'
  BY GenerationInvNext DEF GenerationInv
<1>2. CASE UNCHANGED vars
  BY <1>1, <1>2 DEF vars, CancelInv
<1> SUFFICES ASSUME NEW a \in Attempts,
                    \/ Request(a) \/ Admit(a) \/ Lookup(a) \/ Acquire(a) \/ Open(a)
                    \/ Register(a) \/ EnsureActive(a) \/ Chunk(a) \/ Finish(a) \/ Stop(a)
                    \/ Record(a) \/ Expire(a) \/ Close(a) \/ Failure(a)
                    \/ Mark(a) \/ Signal(a) \/ Read(a) \/ Leave(a)
             PROVE  CancelInv'
  BY <1>2 DEF Next
<1> DEFINE t == task[a]
<1>3. /\ {"place", "gate"} \subseteq DOMAIN t
      /\ a \in flagged => t.place \in Running
  BY DEF CancelInv, Shaped
<1> HIDE DEF t
<1>4. CASE Request(a)
  <2>1. PICK script \in Scripts[a] :
          task' = [task EXCEPT ![a].place = "created", ![a].rest = script, ![a].sequence = 1, ![a].sent = 1]
    BY <1>4 DEF Request
  <2> DEFINE u == [t EXCEPT !.place = "created", !.rest = script, !.sequence = 1, !.sent = 1]
  <2>2. {"place", "gate"} \subseteq DOMAIN u /\ u.place = "created"
    BY <1>3
  <2>3. task' = [task EXCEPT ![a] = u]
    BY <2>1 DEF t
  <2>4. a \notin flagged /\ UNCHANGED <<flagged, registered, fired, asked>>
    BY <1>3, <1>4 DEF Request, signals, t, Running, Waits
  <2> HIDE DEF u
  <2> QED BY <1>1, <2>2, <2>3, <2>4, CancelKept
<1>5. CASE Admit(a)
  <2>1. t.place = "created" /\ UNCHANGED <<flagged, registered, fired, asked>>
    BY <1>5 DEF Admit, signals, t
  <2>2. a \notin flagged
    BY <1>3, <2>1 DEF Running, Waits
  <2> QED BY <1>1, <1>5, <2>1, <2>2, CancelMoves DEF Admit
<1>6. CASE Lookup(a)
  <2> DEFINE u == [t EXCEPT !.place = "queued", !.gate = GateOf(a)]
  <2>1. {"place", "gate"} \subseteq DOMAIN u /\ u.place = "queued"
    BY <1>3
  <2>2. task' = [task EXCEPT ![a] = u] /\ UNCHANGED <<flagged, registered, fired, asked>>
    BY <1>6 DEF Lookup, signals, t
  <2> HIDE DEF u
  <2> QED BY <1>1, <2>1, <2>2, CancelKept DEF Running, Waits
<1>7. CASE Acquire(a)
  <2>1. task' = [task EXCEPT ![a].place = "holding"] /\ UNCHANGED <<flagged, registered, fired, asked>>
    BY <1>7 DEF Acquire, signals
  <2>2. "holding" \in Running
    BY DEF Running
  <2>3. "holding" \notin {"registered", "streaming"}
    OBVIOUS
  <2> QED BY <1>1, <2>1, <2>2, <2>3, CancelMoves
<1>8. CASE Open(a)
  <2>1. CASE Fail(a)
    BY <1>1, <1>3, <2>1, CancelFail DEF Fail, t
  <2>2. CASE Send(a, t, Opening, "opened") /\ UNCHANGED <<flagged, signals>>
    <3>1. PICK u : task' = [task EXCEPT ![a] = u] /\ {"place", "gate"} \subseteq DOMAIN u /\ u.place = "opened"
      BY <1>3, <2>2, Sent
    <3> QED BY <1>1, <2>2, <3>1, CancelKept DEF signals, Running
  <2>3. CASE Send(a, Dropped(t, "holding"), Opening, "failing") /\ Released(a)
    BY <1>1, <1>3, <2>3, DroppedShape, CancelFail
  <2> QED BY <1>8, <2>1, <2>2, <2>3 DEF Open, t
<1>9. CASE Register(a)
  <2>1. /\ t.place = "opened" /\ registered' = registered \cup {a} /\ fired' = fired \ {a}
        /\ task' = [task EXCEPT ![a].place = "registered"] /\ UNCHANGED <<flagged, asked>>
    BY <1>9 DEF Register, t
  <2>2. /\ task'[a].place = "registered" /\ \A b \in Attempts : b # a => task'[b] = task[b]
    BY <1>3, <2>1 DEF CancelInv, Shaped, t
  <2>3. ASSUME NEW b \in Attempts
        PROVE  /\ b \in flagged' => task'[b].place \in Running /\ asked'[b] # "no"
               /\ task'[b].place \in {"registered", "streaming"} => b \in registered'
               /\ b \in fired' => asked'[b] = "done"
               /\ task'[b].place = "streaming" /\ b \in flagged' /\ asked'[b] = "done" => b \in fired'
    BY <2>1, <2>2 DEF CancelInv, Running
  <2>4. asked' = [b \in Attempts |-> asked'[b]]
    BY <2>1 DEF CancelInv
  <2> QED BY <1>1, <2>3, <2>4 DEF CancelInv
<1>10. CASE EnsureActive(a)
  <2>1. CASE Fail(a)
    BY <1>1, <1>3, <2>1, CancelFail DEF Fail, t
  <2>2. CASE a \notin flagged /\ task' = [task EXCEPT ![a].place = "streaming"] /\ UNCHANGED <<flagged, signals>>
    <3>1. task'[a].place = "streaming" /\ \A b \in Attempts : b # a => task'[b] = task[b]
      BY <1>3, <2>2 DEF CancelInv, Shaped, t
    <3>2. a \in registered
      BY <1>10 DEF EnsureActive, CancelInv
    <3>3. ASSUME NEW b \in Attempts
          PROVE  /\ b \in flagged' => task'[b].place \in Running /\ asked'[b] # "no"
                 /\ task'[b].place \in {"registered", "streaming"} => b \in registered'
                 /\ b \in fired' => asked'[b] = "done"
                 /\ task'[b].place = "streaming" /\ b \in flagged' /\ asked'[b] = "done" => b \in fired'
      BY <2>2, <3>1, <3>2 DEF CancelInv, signals
    <3>4. asked' = [b \in Attempts |-> asked'[b]]
      BY <2>2 DEF CancelInv, signals
    <3> QED BY <1>1, <3>3, <3>4 DEF CancelInv
  <2> QED BY <1>10, <2>1, <2>2 DEF EnsureActive
<1>11. CASE Chunk(a)
  <2> DEFINE d == Head(t.rest)
             events == Forwarded(t.tools, d)
             next == [t EXCEPT !.rest = Tail(@), !.text = @ \o d.text,
                               !.calls = Gather(@, d), !.tools = Tools(@, d)]
  <2>1. {"place", "gate"} \subseteq DOMAIN next
    BY <1>3
  <2>2. \/ Send(a, next, events, "streaming") /\ UNCHANGED <<flagged, signals>>
        \/ Send(a, Dropped(next, "failing"), events, "failing") /\ Released(a)
    BY <1>11 DEF Chunk, t
  <2>3. t.place = "streaming"
    BY <1>11 DEF Chunk, t
  <2> HIDE DEF next, events
  <2>4. CASE Send(a, next, events, "streaming") /\ UNCHANGED <<flagged, signals>>
    <3>1. PICK u : task' = [task EXCEPT ![a] = u] /\ {"place", "gate"} \subseteq DOMAIN u /\ u.place = "streaming"
      BY <2>1, <2>4, Sent
    <3> QED BY <1>1, <2>3, <2>4, <3>1, CancelKept DEF signals, Running, Waits, t
  <2>5. CASE Send(a, Dropped(next, "failing"), events, "failing") /\ Released(a)
    BY <1>1, <2>1, <2>5, DroppedShape, CancelFail
  <2> QED BY <2>2, <2>4, <2>5
<1>12. CASE Finish(a)
  <2>1. CASE /\ task' = [task EXCEPT ![a] = Dropped(t, "recording")]
             /\ registered' = registered \ {a} /\ UNCHANGED <<flagged, fired, asked>>
    <3>1. /\ {"place", "gate"} \subseteq DOMAIN Dropped(t, "recording") /\ Dropped(t, "recording").place = "recording"
      BY <1>3, DroppedShape
    <3>2. task'[a].place = "recording" /\ \A b \in Attempts : b # a => task'[b] = task[b]
      BY <2>1, <3>1 DEF CancelInv, Shaped
    <3>3. ASSUME NEW b \in Attempts
          PROVE  /\ b \in flagged' => task'[b].place \in Running /\ asked'[b] # "no"
                 /\ task'[b].place \in {"registered", "streaming"} => b \in registered'
                 /\ b \in fired' => asked'[b] = "done"
                 /\ task'[b].place = "streaming" /\ b \in flagged' /\ asked'[b] = "done" => b \in fired'
      BY <2>1, <3>2 DEF CancelInv, Running, Waits
    <3>4. asked' = [b \in Attempts |-> asked'[b]]
      BY <2>1 DEF CancelInv
    <3> QED BY <1>1, <3>3, <3>4 DEF CancelInv
  <2>2. CASE Fail(a)
    BY <1>1, <1>3, <2>2, CancelFail DEF Fail, t
  <2> QED BY <1>12, <2>1, <2>2 DEF Finish, t
<1>13. CASE Stop(a) \/ Expire(a)
  <2>1. Fail(a)
    BY <1>13 DEF Stop, Expire
  <2> QED BY <1>1, <1>3, <2>1, CancelFail DEF Fail, t
<1>14. CASE Record(a)
  <2> DEFINE u == IF a \in flagged \/ t.sent + Len(Closing(t)) > Limit
                  THEN Dropped(t, "failing")
                  ELSE [Dropped(t, "closing") EXCEPT !.batch = Closing(t)]
  <2>1. task' = [task EXCEPT ![a] = u] /\ Released(a)
    BY <1>14 DEF Record, t
  <2>2. {"place", "gate"} \subseteq DOMAIN u /\ u.place \in {"failing", "closing"}
    <3>1. {"place", "gate"} \subseteq DOMAIN [Dropped(t, "closing") EXCEPT !.batch = Closing(t)]
          /\ [Dropped(t, "closing") EXCEPT !.batch = Closing(t)].place = "closing"
      BY <1>3, DroppedShape
    <3> QED BY <1>3, <3>1, DroppedShape
  <2> HIDE DEF u
  <2> QED BY <1>1, <2>1, <2>2, CancelKept DEF Released
<1>15. CASE Close(a)
  <2> DEFINE next == [t EXCEPT !.batch = Tail(@)]
             last == <<Head(t.batch)>>
  <2>1. {"place", "gate"} \subseteq DOMAIN next
    BY <1>3
  <2>2. PICK place \in {"ended", "closing", "failing"} : Send(a, next, last, place) \/ Send(a, t, last, place)
    BY <1>15 DEF Close, t
  <2>3. a \notin flagged /\ UNCHANGED <<flagged, registered, fired, asked>>
    BY <1>3, <1>15 DEF Close, signals, t, Running, Waits
  <2> HIDE DEF next, last
  <2>4. PICK u : task' = [task EXCEPT ![a] = u] /\ {"place", "gate"} \subseteq DOMAIN u /\ u.place = place
    BY <1>3, <2>1, <2>2, Sent
  <2> QED BY <1>1, <2>3, <2>4, CancelKept
<1>16. CASE Failure(a)
  <2>1. a \notin flagged /\ UNCHANGED <<flagged, registered, fired, asked>>
    BY <1>3, <1>16 DEF Failure, signals, t, Running, Waits
  <2>2. PICK u : task' = [task EXCEPT ![a] = u] /\ {"place", "gate"} \subseteq DOMAIN u /\ u.place = "ended"
    BY <1>3, <1>16, Sent DEF Failure, t
  <2> QED BY <1>1, <2>1, <2>2, CancelKept
<1>17. CASE Mark(a)
  <2>1. /\ asked[a] = "no" /\ asked' = [asked EXCEPT ![a] = "marked"] /\ UNCHANGED <<task, registered, fired>>
        /\ flagged \subseteq flagged' /\ \A b \in flagged' \ flagged : b = a /\ task[b].place \in Running
    BY <1>17 DEF Mark
  <2> QED BY <1>1, <2>1 DEF CancelInv
<1>18. CASE Signal(a)
  <2>1. /\ asked[a] = "marked" /\ asked' = [asked EXCEPT ![a] = "done"] /\ UNCHANGED <<task, flagged, registered>>
        /\ fired \subseteq fired' /\ fired' \ fired \subseteq {a} /\ (a \in registered => a \in fired')
    BY <1>18 DEF Signal
  <2> QED BY <1>1, <2>1 DEF CancelInv
<1>19. CASE Read(a) \/ Leave(a)
  BY <1>1, <1>19 DEF Read, Leave, signals, CancelInv
<1> QED BY <1>4, <1>5, <1>6, <1>7, <1>8, <1>9, <1>10, <1>11, <1>12, <1>13, <1>14, <1>15, <1>16, <1>17, <1>18, <1>19

(* A cancellation is not lost, whatever the order of marking, registering,   *)
(* looking and signalling (MomoApiService::cancel, ensure_active), and        *)
(* nobody is stopped by one that was not asked for.                          *)
THEOREM CancelIsSeen == Spec => []CancelSeen
<1>1. Init => CancelInv
  BY DEF Init, CancelInv, Shaped
<1>2. CancelInv => CancelSeen
  BY DEF CancelInv, CancelSeen
<1> QED BY <1>1, <1>2, CancelStep, GenerationInvInit, GenerationInvNext, PTL DEF Spec
----------------------------------------------------------------------------
(* What the tables and the attempts hold. *)
Places == {"idle", "reading", "reserving", "observing", "resolving", "generating", "publishing", "replying", "replied", "done"}
Phases == {"applying", "projected", "completed", "failed"}

Revision  == [revision : Nat, content : Contents]
Observed  == [Sources -> SUBSET Revision]
Snapshot  == [number : Nat, version : SUBSET Revision, versions : Observed, degraded : BOOLEAN]
Operation == [phase : Phases, versions : Observed, snapshot : SUBSET Snapshot]
Entry     == [versions : Observed, published : Nat, current : SUBSET Snapshot]
Band      == [profile : Definitions, partition : Views, steps : Seq(Keys)]
Reading   == [sources : [Sources -> Contents], observed : BOOLEAN]

StateTypes ==
  /\ memory \in [Sources -> Contents] /\ owner \in Requests \cup {Nobody}
  /\ registry \subseteq Entry /\ operations \in [Keys -> SUBSET Operation] /\ bands \subseteq Band
  /\ definition \in Definitions /\ cache \subseteq Definitions
  /\ at \in [Requests -> Places] /\ read \in [Requests -> SUBSET Reading]
  /\ profile \in [Requests -> SUBSET Definitions] /\ found \in [Requests -> Seq(Keys)]
  /\ responded \in [Requests -> SUBSET Keys]

(* A set that is empty or holds one row. *)
Single(S) == \A x, y \in S : x = y

Singles ==
  /\ Single(registry)
  /\ \A k \in Keys : Single(operations[k])
  /\ \A r \in Requests : Single(read[r])
  /\ \A row \in registry, s \in Sources : Single(row.versions[s]) /\ row.versions[s] # {}

(* Of what an operation observed, the row knows a revision at least as     *)
(* new; revisions start afresh only when no operation is left.             *)
RevisionInv ==
  /\ registry = {} => \A k \in Keys : operations[k] = {}
  /\ \A k \in Keys : \A o \in operations[k], row \in registry, s \in Sources :
       \A x \in o.versions[s], y \in row.versions[s] :
         x.revision <= y.revision /\ (x.revision = y.revision => x.content = y.content)
  /\ RevisionsIdentify

Unpublished(k) == \E o \in operations[k] : o.snapshot = {}
IsPublished(k) == \E o \in operations[k] : o.snapshot # {}

(* An attempt that observes, compiles or publishes has the reservation,    *)
(* its operation waits for its snapshot, and the bands it starts from are  *)
(* of other operations.                                                    *)
AttemptOf(r) ==
  /\ at[r] \in {"observing", "resolving", "generating", "publishing", "replying"} => owner = r
  /\ at[r] \in {"resolving", "generating", "publishing"} => \A k \in KeysOf(r) : Unpublished(k)
  /\ at[r] = "publishing" => IsInjective(found[r]) /\ \A i \in DOMAIN found[r] : IsPublished(found[r][i])
  /\ responded[r] # {} => at[r] = "done"

AttemptInv == \A r \in Requests : AttemptOf(r)

SnapshotsNumbered ==
  /\ \A row \in registry, k \in Keys : \A o \in operations[k] : \A x \in o.snapshot :
       x.number <= row.published /\ (x.number = row.published => x \in row.current)
  /\ \A k, m \in Keys : \A o \in operations[k], p \in operations[m] :
       k # m => \A x \in o.snapshot, y \in p.snapshot : x.number # y.number

BandsInv == \A b \in bands : IsInjective(b.steps) /\ \A i \in DOMAIN b.steps : IsPublished(b.steps[i])

PhaseInv ==
  \A k \in Keys : \A o \in operations[k] :
    /\ o.phase \in {"applying", "failed"} <=> o.snapshot = {}
    /\ o.phase = "completed" => k \in responded[k[1]]

StateInv == StateTypes /\ Singles /\ RevisionInv /\ AttemptInv /\ SnapshotsNumbered /\ BandsInv /\ PhaseInv
----------------------------------------------------------------------------
(* The state key of an attempt is a key of its request, and there is one. *)
LEMMA KeysOfRequest ==
  ASSUME StateTypes, NEW r \in Requests
  PROVE  KeysOf(r) \subseteq Keys /\ \A k \in KeysOf(r) : k[1] = r
<1>1. ASSUME NEW x \in read[r]
      PROVE  View(x.sources) \in Views
  <2>1. x.sources \in [Sources -> Contents]
    BY DEF StateTypes, Reading
  <2> QED BY <2>1 DEF View, Views
<1>2. \A k \in KeysOf(r) : \E x \in read[r] : k = <<r, View(x.sources)>>
  BY DEF KeysOf
<1> QED BY <1>1, <1>2 DEF Keys

LEMMA OneKey ==
  ASSUME Singles, NEW r \in Requests, NEW k \in KeysOf(r)
  PROVE  k = Key(r) /\ KeysOf(r) = {k}
<1>1. Single(read[r])
  BY DEF Singles
<1>2. \A m \in KeysOf(r) : \E x \in read[r] : m = <<r, View(x.sources)>>
  BY DEF KeysOf
<1>3. \A m \in KeysOf(r) : m = k
  BY <1>1, <1>2 DEF Single
<1>4. Key(r) \in KeysOf(r)
  BY DEF Key
<1> QED BY <1>3, <1>4

LEMMA RowIn ==
  ASSUME NEW S, S # {}
  PROVE  Row(S) \in S
BY DEF Row

LEMMA RowOf ==
  ASSUME NEW S, Single(S), NEW x \in S
  PROVE  Row(S) = x
BY RowIn DEF Single

(* What has been observed is what an operation or the row says. *)
LEMMA VersionsOf ==
  \A v : v \in Versions <=> \/ \E k \in Keys : \E o \in operations[k] : v = o.versions
                            \/ \E row \in registry : v = row.versions
<1>1. \A o : o \in Rows <=> \E k \in Keys : o \in operations[k]
  BY DEF Rows
<1> QED BY <1>1 DEF Versions

LEMMA VersionsAfter ==
  \A v : v \in Versions' <=> \/ \E k \in Keys : \E o \in operations'[k] : v = o.versions
                             \/ \E row \in registry' : v = row.versions
<1>1. \A o : o \in Rows' <=> \E k \in Keys : o \in operations'[k]
  BY DEF Rows
<1> QED BY <1>1 DEF Versions

(* next_revision gives one revision, which is the known one, or newer. *)
LEMMA NextRevision ==
  ASSUME NEW known \in SUBSET Revision, Single(known), NEW c \in Contents
  PROVE  /\ NextVersion(known, c) \in SUBSET Revision /\ Single(NextVersion(known, c))
         /\ NextVersion(known, c) # {}
         /\ \A v \in known, w \in NextVersion(known, c) :
              v.revision <= w.revision /\ (v.revision = w.revision => v.content = w.content)
<1>1. CASE \E v \in known : v.content = c
  BY <1>1 DEF NextVersion, Single, Revision
<1>2. CASE known = {}
  <2> DEFINE w == [revision |-> 1, content |-> c]
  <2>1. NextVersion(known, c) = {w} /\ w \in Revision
    BY <1>2 DEF NextVersion, Revision
  <2> HIDE DEF w
  <2> QED BY <1>2, <2>1 DEF Single
<1>3. CASE known # {} /\ ~ \E v \in known : v.content = c
  <2>1. Row(known) \in known /\ \A v \in known : v = Row(known)
    BY <1>3, RowIn DEF Single
  <2> DEFINE w == [revision |-> Row(known).revision + 1, content |-> c]
  <2>2. NextVersion(known, c) = {w}
    BY <1>3 DEF NextVersion
  <2>3. w \in Revision /\ \A v \in known : v.revision < w.revision /\ v.revision \in Nat
    BY <2>1 DEF Revision
  <2> HIDE DEF w
  <2> QED BY <2>2, <2>3 DEF Single, Revision
<1> QED BY <1>1, <1>2, <1>3
----------------------------------------------------------------------------
THEOREM StateInitially ==
  ASSUME StateInit
  PROVE  StateInv
<1> USE StateAssumption
<1>1. StateTypes
  BY DEF StateInit, StateTypes, Places, Operation, Reading
<1>2. Singles
  BY DEF StateInit, Singles, Single
<1>3. RevisionInv
  BY DEF StateInit, RevisionInv, RevisionsIdentify, Versions, Rows
<1>4. AttemptInv
  BY DEF StateInit, AttemptInv, AttemptOf
<1>5. SnapshotsNumbered /\ BandsInv /\ PhaseInv
  BY DEF StateInit, SnapshotsNumbered, BandsInv, PhaseInv
<1> QED BY <1>1, <1>2, <1>3, <1>4, <1>5 DEF StateInv

(* A step that leaves the journal and the responses alone disturbs only    *)
(* what is known of the attempts.                                          *)
LEMMA JournalKept ==
  ASSUME StateInv, UNCHANGED journal, UNCHANGED responded
  PROVE  RevisionInv' /\ SnapshotsNumbered' /\ BandsInv' /\ PhaseInv'
<1>1. UNCHANGED <<registry, operations, bands, responded>>
  BY DEF journal
<1>2. RevisionInv'
  BY <1>1 DEF StateInv, RevisionInv, RevisionsIdentify, Versions, Rows
<1>3. SnapshotsNumbered' /\ PhaseInv'
  BY <1>1 DEF StateInv, SnapshotsNumbered, PhaseInv
<1>4. BandsInv'
  BY <1>1 DEF StateInv, BandsInv, IsPublished
<1> QED BY <1>2, <1>3, <1>4

(* An attempt stays as it is beside the steps of others, which hold its    *)
(* reservation up and leave its operations alone.                          *)
LEMMA OtherAttempt ==
  ASSUME StateInv, NEW q \in Requests, owner = q => owner' = q,
         at'[q] = at[q], read'[q] = read[q], found'[q] = found[q], responded'[q] = responded[q],
         owner = q => \A k \in Keys : /\ k[1] = q => operations'[k] = operations[k]
                                      /\ IsPublished(k) => IsPublished(k)'
  PROVE  AttemptOf(q)'
<1>1. AttemptOf(q) /\ StateTypes
  BY DEF StateInv, AttemptInv
<1>2. KeysOf(q)' = KeysOf(q) /\ KeysOf(q) \subseteq Keys /\ \A k \in KeysOf(q) : k[1] = q
  BY <1>1, KeysOfRequest DEF KeysOf
<1>3. (at[q] \in {"observing", "resolving", "generating", "publishing", "replying"} => owner = q)'
  BY <1>1 DEF AttemptOf
<1>4. ASSUME at'[q] \in {"resolving", "generating", "publishing"}, NEW k \in KeysOf(q)'
      PROVE  Unpublished(k)'
  BY <1>1, <1>2, <1>4 DEF AttemptOf, Unpublished
<1>5. ASSUME at'[q] = "publishing"
      PROVE  (IsInjective(found[q]) /\ \A i \in DOMAIN found[q] : IsPublished(found[q][i]))'
  <2>1. IsInjective(found[q]) /\ \A i \in DOMAIN found[q] : IsPublished(found[q][i])
    BY <1>1, <1>5 DEF AttemptOf
  <2>2. \A i \in DOMAIN found[q] : found[q][i] \in Keys
    BY <1>1 DEF StateTypes
  <2>3. ASSUME NEW k \in Keys, IsPublished(k)
        PROVE  IsPublished(k)'
    BY <1>1, <1>5, <2>3 DEF AttemptOf
  <2>4. ASSUME NEW i \in DOMAIN found[q]
        PROVE  \E o \in operations'[found'[q][i]] : o.snapshot # {}
    <3> DEFINE k == found[q][i]
    <3>1. IsPublished(k) /\ k \in Keys
      BY <2>1, <2>2
    <3> HIDE DEF k
    <3>2. \E o \in operations'[k] : o.snapshot # {}
      BY <2>3, <3>1 DEF IsPublished
    <3> QED BY <3>2 DEF k
  <2>5. found'[q] = found[q]
    OBVIOUS
  <2>6. (\A i \in DOMAIN found[q] : IsPublished(found[q][i]))'
    BY <2>4, <2>5 DEF IsPublished
  <2> QED BY <2>1, <2>5, <2>6
<1>6. (responded[q] # {} => at[q] = "done")'
  BY <1>1 DEF AttemptOf
<1> QED BY <1>3, <1>4, <1>5, <1>6 DEF AttemptOf

(* A step of one attempt that leaves the journal alone keeps everything if *)
(* its own place, sources and bands stay right.                            *)
LEMMA AttemptStep ==
  ASSUME StateInv, NEW r \in Requests, NEW next \in Places, Go(r, next),
         UNCHANGED journal, UNCHANGED responded, UNCHANGED memory, UNCHANGED definition,
         owner' \in Requests \cup {Nobody}, \A q \in Requests : q # r /\ owner = q => owner' = q,
         cache' \subseteq Definitions, profile' \in [Requests -> SUBSET Definitions],
         read' \in [Requests -> SUBSET Reading], Single(read'[r]),
         found' \in [Requests -> Seq(Keys)],
         \A q \in Requests : q # r => read'[q] = read[q] /\ found'[q] = found[q],
         AttemptOf(r)'
  PROVE  StateInv'
<1>1. StateTypes /\ Singles /\ at' = [at EXCEPT ![r] = next]
  BY DEF StateInv, Go
<1>2. StateTypes'
  BY <1>1 DEF StateTypes, journal
<1>3. Singles'
  <2>1. UNCHANGED registry /\ UNCHANGED operations
    BY DEF journal
  <2>2. \A q \in Requests : Single(read'[q])
    BY <1>1 DEF Singles
  <2> QED BY <1>1, <2>1, <2>2 DEF Singles
<1>4. RevisionInv' /\ SnapshotsNumbered' /\ BandsInv' /\ PhaseInv'
  BY JournalKept
<1>5. ASSUME NEW q \in Requests
      PROVE  AttemptOf(q)'
  <2>1. CASE q = r
    BY <2>1
  <2>2. CASE q # r
    <3>1. at'[q] = at[q] /\ read'[q] = read[q] /\ found'[q] = found[q] /\ responded'[q] = responded[q]
      BY <1>1, <2>2 DEF StateTypes
    <3>2. UNCHANGED operations
      BY DEF journal
    <3>3. owner = q => \A k \in Keys : /\ k[1] = q => operations'[k] = operations[k]
                                       /\ IsPublished(k) => IsPublished(k)'
      BY <3>2 DEF IsPublished
    <3> QED BY <2>2, <3>1, <3>3, OtherAttempt
  <2> QED BY <2>1, <2>2
<1>6. AttemptInv'
  BY <1>5 DEF AttemptInv
<1> QED BY <1>2, <1>3, <1>4, <1>6 DEF StateInv

(* What the attempt itself needs, when its keys stay or it has none. *)
LEMMA OwnAttempt ==
  ASSUME StateInv, NEW r \in Requests, NEW next \in Places, Go(r, next), UNCHANGED journal, UNCHANGED responded,
         at[r] # "done",
         next \in {"observing", "resolving", "generating", "publishing", "replying"} => owner' = r,
         next \in {"resolving", "generating", "publishing"} => KeysOf(r)' = {} \/ (KeysOf(r)' = KeysOf(r) /\ \A k \in KeysOf(r) : Unpublished(k)),
         next = "publishing" => IsInjective(found'[r]) /\ \A i \in DOMAIN found'[r] : IsPublished(found'[r][i])
  PROVE  AttemptOf(r)'
<1>1. AttemptOf(r) /\ at'[r] = next /\ operations' = operations /\ responded'[r] = {}
  BY DEF StateInv, AttemptInv, AttemptOf, StateTypes, Go, journal
<1>2. ASSUME NEW k
      PROVE  (Unpublished(k) => Unpublished(k)') /\ (IsPublished(k) => IsPublished(k)')
  BY <1>1 DEF Unpublished, IsPublished
<1>3. at'[r] \in {"resolving", "generating", "publishing"} => (\A k \in KeysOf(r) : Unpublished(k))'
  BY <1>1 DEF Unpublished
<1>4. at'[r] = "publishing" => (IsInjective(found[r]) /\ \A i \in DOMAIN found[r] : IsPublished(found[r][i]))'
  BY <1>1 DEF IsPublished
<1> QED BY <1>1, <1>3, <1>4 DEF AttemptOf
----------------------------------------------------------------------------
LEMMA BeginKeeps ==
  ASSUME StateInv, NEW r \in Requests, Begin(r), UNCHANGED <<memory, definition>>
  PROVE  StateInv'
<1>1. StateTypes
  BY DEF StateInv
<1>2. Go(r, "reading") /\ "reading" \in Places /\ at[r] = "idle"
  BY DEF Begin, Places
<1>3. profile' \in [Requests -> SUBSET Definitions] /\ read' \in [Requests -> SUBSET Reading]
  BY <1>1 DEF StateTypes, Begin
<1>4. \A q \in Requests : q # r => read'[q] = read[q] /\ found'[q] = found[q]
  BY <1>1 DEF StateTypes, Begin
<1>5. Single(read'[r])
  BY <1>1 DEF StateTypes, Begin, Single
<1>6. UNCHANGED <<journal, responded, owner, cache, found>>
  BY DEF Begin
<1>7. AttemptOf(r)'
  BY <1>2, <1>6, OwnAttempt
<1> QED BY <1>1, <1>2, <1>3, <1>4, <1>5, <1>6, <1>7, AttemptStep DEF StateTypes

LEMMA ReadSourcesKeeps ==
  ASSUME StateInv, NEW r \in Requests, ReadSources(r), UNCHANGED <<memory, definition>>
  PROVE  StateInv'
<1>1. StateTypes
  BY DEF StateInv
<1>2. Go(r, "reserving") /\ "reserving" \in Places /\ at[r] = "reading"
  BY DEF ReadSources, Places
<1>3. PICK S : read' = [read EXCEPT ![r] = S] /\ (S = {[sources |-> memory, observed |-> TRUE]} \/ S = {})
  BY DEF ReadSources
<1>4. S \in SUBSET Reading /\ Single(S)
  <2>1. [sources |-> memory, observed |-> TRUE] \in Reading
    BY <1>1 DEF StateTypes, Reading
  <2> QED BY <1>3, <2>1 DEF Single
<1>5. read' \in [Requests -> SUBSET Reading] /\ Single(read'[r]) /\ \A q \in Requests : q # r => read'[q] = read[q]
  BY <1>1, <1>3, <1>4 DEF StateTypes
<1>6. UNCHANGED <<journal, responded, owner, cache, found, profile>>
  BY DEF ReadSources
<1>7. AttemptOf(r)'
  BY <1>2, <1>6, OwnAttempt
<1> QED BY <1>1, <1>2, <1>5, <1>6, <1>7, AttemptStep DEF StateTypes

LEMMA ReserveKeeps ==
  ASSUME StateInv, NEW r \in Requests, Reserve(r), UNCHANGED <<memory, definition>>
  PROVE  StateInv'
<1>1. StateTypes /\ Singles
  BY DEF StateInv
<1>2. Go(r, "observing") /\ "observing" \in Places /\ at[r] = "reserving" /\ owner = Nobody /\ owner' = r
  BY DEF Reserve, Places
<1>3. UNCHANGED <<journal, responded, cache, found, read, profile>>
  BY DEF Reserve
<1>4. Single(read'[r])
  BY <1>1, <1>3 DEF Singles
<1>5. AttemptOf(r)'
  BY <1>2, <1>3, OwnAttempt
<1>6. \A q \in Requests : q # r /\ owner = q => owner' = q
  BY <1>2, StateAssumption
<1> QED BY <1>1, <1>2, <1>3, <1>4, <1>5, <1>6, AttemptStep DEF StateTypes

LEMMA ReplyKeeps ==
  ASSUME StateInv, NEW r \in Requests, Reply(r), UNCHANGED <<memory, definition>>
  PROVE  StateInv'
<1>1. StateTypes /\ Singles /\ AttemptOf(r)
  BY DEF StateInv, AttemptInv
<1>2. Go(r, "replied") /\ "replied" \in Places /\ at[r] = "replying" /\ owner' = Nobody
  BY DEF Reply, Places
<1>3. UNCHANGED <<journal, responded, cache, found, read, profile>>
  BY DEF Reply
<1>4. Single(read'[r]) /\ owner = r
  BY <1>1, <1>2, <1>3 DEF Singles, AttemptOf
<1>5. AttemptOf(r)'
  BY <1>2, <1>3, OwnAttempt
<1> QED BY <1>1, <1>2, <1>3, <1>4, <1>5, AttemptStep DEF StateTypes

LEMMA DropKeeps ==
  ASSUME StateInv, NEW r \in Requests, Drop(r), UNCHANGED <<memory, definition>>
  PROVE  StateInv'
<1>1. StateTypes /\ Singles
  BY DEF StateInv
<1>2. Go(r, "idle") /\ "idle" \in Places /\ at[r] # "done" /\ owner' = IF owner = r THEN Nobody ELSE owner
  BY DEF Drop, Places
<1>3. UNCHANGED <<journal, responded, cache, found, read, profile>>
  BY DEF Drop
<1>4. Single(read'[r])
  BY <1>1, <1>3 DEF Singles
<1>5. AttemptOf(r)'
  BY <1>2, <1>3, OwnAttempt
<1>6. owner' \in Requests \cup {Nobody} /\ \A q \in Requests : q # r /\ owner = q => owner' = q
  BY <1>1, <1>2 DEF StateTypes
<1> QED BY <1>1, <1>2, <1>3, <1>4, <1>5, <1>6, AttemptStep DEF StateTypes

(* An attempt starts from bands that went through published operations. *)
LEMMA ResolvedKeeps ==
  ASSUME StateInv, NEW r \in Requests, NEW p \in SUBSET Definitions, Resolved(r, p), at[r] \in {"resolving", "generating"},
         UNCHANGED <<memory, definition, read, owner, journal, responded>>, cache' \subseteq Definitions
  PROVE  StateInv'
<1>1. StateTypes /\ Singles /\ BandsInv /\ AttemptOf(r)
  BY DEF StateInv, AttemptInv
<1>2. Go(r, "publishing") /\ "publishing" \in Places /\ at[r] # "done" /\ profile' = [profile EXCEPT ![r] = p]
  BY DEF Resolved, Places
<1>3. PICK start : /\ found' = [found EXCEPT ![r] = start]
                   /\ start = IF Compatible(r, p) = {} THEN <<>> ELSE Row(Compatible(r, p)).steps
  BY DEF Resolved
<1>4. start \in Seq(Keys) /\ IsInjective(start) /\ \A i \in DOMAIN start : IsPublished(start[i])
  <2>1. CASE Compatible(r, p) = {}
    BY <1>3, <2>1 DEF IsInjective
  <2>2. CASE Compatible(r, p) # {}
    <3>1. PICK b \in bands : start = b.steps
      BY <1>3, <2>2, RowIn DEF Compatible
    <3> QED BY <1>1, <3>1 DEF BandsInv, StateTypes, Band
  <2> QED BY <2>1, <2>2
<1>5. profile' \in [Requests -> SUBSET Definitions]
  BY <1>1, <1>2 DEF StateTypes
<1>6. found' \in [Requests -> Seq(Keys)] /\ found'[r] = start /\ \A q \in Requests : q # r => found'[q] = found[q]
  BY <1>1, <1>3, <1>4 DEF StateTypes
<1>7. read' \in [Requests -> SUBSET Reading] /\ Single(read'[r]) /\ \A q \in Requests : q # r => read'[q] = read[q]
  BY <1>1 DEF StateTypes, Singles
<1>8. owner = r /\ owner' = owner /\ \A k \in KeysOf(r) : Unpublished(k)
  BY <1>1 DEF AttemptOf
<1>9. KeysOf(r)' = KeysOf(r)
  BY DEF KeysOf
<1>10. IsInjective(found'[r]) /\ \A i \in DOMAIN found'[r] : IsPublished(found'[r][i])
  BY <1>4, <1>6
<1>11. AttemptOf(r)'
  BY <1>2, <1>8, <1>9, <1>10, OwnAttempt
<1>12. owner' \in Requests \cup {Nobody}
  BY <1>8
<1> QED BY <1>2, <1>5, <1>6, <1>7, <1>8, <1>11, <1>12, AttemptStep

LEMMA ResolveKeeps ==
  ASSUME StateInv, NEW r \in Requests, Resolve(r), UNCHANGED <<memory, definition>>
  PROVE  StateInv'
<1>1. StateTypes /\ Singles /\ AttemptOf(r)
  BY DEF StateInv, AttemptInv
<1>2. at[r] = "resolving" /\ UNCHANGED <<read, owner, journal, cache, responded>>
  BY DEF Resolve
<1>3. CASE Resolved(r, profile[r])
  <2>1. profile[r] \in SUBSET Definitions /\ cache' \subseteq Definitions
    BY <1>1, <1>2 DEF StateTypes
  <2> QED BY <1>2, <1>3, <2>1, ResolvedKeeps
<1>4. CASE Go(r, "generating") /\ UNCHANGED <<profile, found>>
  <2>1. KeysOf(r)' = KeysOf(r) /\ \A k \in KeysOf(r) : Unpublished(k)
    BY <1>1, <1>2 DEF KeysOf, AttemptOf
  <2>2. owner' = r /\ Single(read'[r]) /\ "generating" \in Places
    BY <1>1, <1>2 DEF AttemptOf, Singles, Places
  <2>3. AttemptOf(r)'
    BY <1>2, <1>4, <2>1, <2>2, OwnAttempt
  <2> QED BY <1>1, <1>2, <1>4, <2>2, <2>3, AttemptStep DEF StateTypes
<1> QED BY <1>3, <1>4 DEF Resolve

LEMMA GenerateKeeps ==
  ASSUME StateInv, NEW r \in Requests, Generate(r), UNCHANGED <<memory, definition>>
  PROVE  StateInv'
<1>1. StateTypes
  BY DEF StateInv
<1>2. at[r] = "generating" /\ UNCHANGED <<read, owner, journal, responded>>
  BY DEF Generate
<1>3. profile[r] \in SUBSET Definitions /\ cache \subseteq Definitions
  BY <1>1 DEF StateTypes
<1>4. cache' \subseteq Definitions
  BY <1>3 DEF Generate
<1>5. Resolved(r, profile[r]) \/ Resolved(r, {})
  BY DEF Generate
<1> QED BY <1>2, <1>3, <1>4, <1>5, ResolvedKeeps
----------------------------------------------------------------------------
(* The sources of an attempt whose observation fails are no longer looked at. *)
LEMMA Unobserved ==
  ASSUME StateTypes, NEW r \in Requests, Singles, read' = [read EXCEPT ![r] = {[x EXCEPT !.observed = FALSE] : x \in @}]
  PROVE  /\ read' \in [Requests -> SUBSET Reading] /\ Single(read'[r]) /\ KeysOf(r)' = {}
         /\ \A q \in Requests : q # r => read'[q] = read[q]
<1>1. read'[r] = {[x EXCEPT !.observed = FALSE] : x \in read[r]} /\ \A q \in Requests : q # r => read'[q] = read[q]
  BY DEF StateTypes
<1>2. read[r] \in SUBSET Reading /\ Single(read[r])
  BY DEF StateTypes, Singles
<1>3. \A x \in read[r] : [x EXCEPT !.observed = FALSE] \in Reading
  BY <1>2 DEF Reading
<1>4. \A y \in read'[r] : y.observed = FALSE
  BY <1>1, <1>2 DEF Reading
<1>5. read'[r] \in SUBSET Reading
  BY <1>1, <1>3
<1>6. Single(read'[r])
  BY <1>1, <1>2 DEF Single
<1>7. KeysOf(r)' = {}
  BY <1>4 DEF KeysOf
<1>8. read' \in [Requests -> SUBSET Reading]
  BY <1>5 DEF StateTypes
<1> QED BY <1>1, <1>6, <1>7, <1>8

LEMMA ObserveFound ==
  ASSUME StateInv, NEW r \in Requests, at[r] = "observing", NEW next \in {"resolving", "replying"}, Go(r, next),
         UNCHANGED <<memory, definition, profile, found, owner, cache, responded, read, journal>>,
         next = "resolving" => \A k \in KeysOf(r) : Unpublished(k)
  PROVE  StateInv'
<1>1. StateTypes /\ Singles /\ AttemptOf(r)
  BY DEF StateInv, AttemptInv
<1>2. owner' = r /\ Single(read'[r]) /\ next \in Places
  BY <1>1 DEF AttemptOf, Singles, Places
<1>3. KeysOf(r)' = KeysOf(r)
  BY DEF KeysOf
<1>4. AttemptOf(r)'
  BY <1>2, <1>3, OwnAttempt
<1> QED BY <1>1, <1>2, <1>4, AttemptStep DEF StateTypes

LEMMA ObserveFails ==
  ASSUME StateInv, NEW r \in Requests, at[r] = "observing", Go(r, "resolving"),
         UNCHANGED <<memory, definition, profile, found, owner, cache, responded, journal>>,
         read' = [read EXCEPT ![r] = {[x EXCEPT !.observed = FALSE] : x \in @}]
  PROVE  StateInv'
<1>1. StateTypes /\ Singles /\ AttemptOf(r)
  BY DEF StateInv, AttemptInv
<1>2. /\ read' \in [Requests -> SUBSET Reading] /\ Single(read'[r]) /\ KeysOf(r)' = {}
      /\ \A q \in Requests : q # r => read'[q] = read[q]
  BY <1>1, Unobserved
<1>3. owner' = r /\ "resolving" \in Places
  BY <1>1 DEF AttemptOf, Places
<1>4. AttemptOf(r)'
  BY <1>2, <1>3, OwnAttempt
<1> QED BY <1>1, <1>2, <1>3, <1>4, AttemptStep DEF StateTypes
----------------------------------------------------------------------------
(* A step of the owner of the reservation that writes one of its own       *)
(* operations leaves the other attempts as they are.                       *)
LEMMA OwnerStep ==
  ASSUME StateInv, NEW r \in Requests, at[r] \in {"observing", "publishing"},
         NEW next \in Places, Go(r, next), next # "publishing", UNCHANGED <<owner, responded, found>>,
         read' \in [Requests -> SUBSET Reading], \A q \in Requests : q # r => read'[q] = read[q],
         next \in {"resolving", "generating"} => (\A k \in KeysOf(r) : Unpublished(k))',
         next \in {"observing", "resolving", "generating", "replying"}
  PROVE  AttemptInv'
<1>1. StateTypes /\ AttemptOf(r) /\ owner = r
  BY DEF StateInv, AttemptInv, AttemptOf
<1>2. at'[r] = next /\ owner' = r /\ responded'[r] = {}
  BY <1>1 DEF AttemptOf, StateTypes, Go
<1>3. AttemptOf(r)'
  BY <1>2 DEF AttemptOf
<1>4. ASSUME NEW q \in Requests, q # r
      PROVE  AttemptOf(q)'
  <2>1. at'[q] = at[q] /\ read'[q] = read[q] /\ found'[q] = found[q] /\ responded'[q] = responded[q]
    BY <1>1, <1>4 DEF StateTypes, Go
  <2>2. owner # q
    BY <1>1, <1>4
  <2> QED BY <2>1, <2>2, OtherAttempt
<1> QED BY <1>3, <1>4 DEF AttemptInv

(* What an operation observes first: each source with its next revision. *)
LEMMA ObserveNew ==
  ASSUME StateInv, NEW r \in Requests, NEW k \in KeysOf(r), at[r] = "observing", Go(r, "resolving"),
         UNCHANGED <<memory, definition, profile, found, owner, cache, responded, read, bands>>,
         NEW row, row = IF registry = {} THEN Blanks ELSE Row(registry),
         NEW now, now = [s \in Sources |-> NextVersion(row.versions[s], Row(read[r]).sources[s])],
         operations[k] = {}, registry' = {[row EXCEPT !.versions = now]},
         operations' = [operations EXCEPT ![k] = {[phase |-> "applying", versions |-> now, snapshot |-> {}]}]
  PROVE  StateInv'
<1> DEFINE o == [phase |-> "applying", versions |-> now, snapshot |-> {}]
           new == [row EXCEPT !.versions = now]
<1>1. StateTypes /\ Singles /\ RevisionInv /\ AttemptInv /\ AttemptOf(r) /\ SnapshotsNumbered /\ BandsInv /\ PhaseInv
  BY DEF StateInv, AttemptInv
<1>2. k \in Keys /\ KeysOf(r) = {k}
  BY <1>1, KeysOfRequest, OneKey
<1>3. row \in Entry /\ (registry # {} => registry = {row})
  <2>1. CASE registry = {}
    BY <2>1 DEF Blanks, Entry, Observed
  <2>2. CASE registry # {}
    <3>1. Row(registry) \in registry
      BY <2>2, RowIn
    <3> QED BY <1>1, <2>2, <3>1 DEF Singles, Single, StateTypes
  <2> QED BY <2>1, <2>2
<1>4. ASSUME NEW s \in Sources
      PROVE  Single(row.versions[s]) /\ row.versions[s] \in SUBSET Revision
  <2>1. CASE registry = {}
    BY <2>1 DEF Blanks, Single
  <2>2. CASE registry # {}
    BY <1>1, <1>3, <2>2 DEF Singles, Entry, Observed
  <2> QED BY <2>1, <2>2
<1>5. ASSUME NEW s \in Sources
      PROVE  Row(read[r]).sources[s] \in Contents
  <2>1. read[r] # {}
    BY DEF KeysOf
  <2>2. Row(read[r]) \in Reading
    BY <1>1, <2>1, RowIn DEF StateTypes
  <2> QED BY <2>2 DEF Reading
<1>6. ASSUME NEW s \in Sources
      PROVE  /\ now[s] \in SUBSET Revision /\ Single(now[s]) /\ now[s] # {}
             /\ \A v \in row.versions[s], w \in now[s] :
                  v.revision <= w.revision /\ (v.revision = w.revision => v.content = w.content)
  <2> DEFINE known == row.versions[s]
             c == Row(read[r]).sources[s]
  <2>1. known \in SUBSET Revision /\ Single(known) /\ c \in Contents
    BY <1>4, <1>5
  <2>2. now[s] = NextVersion(known, c)
    OBVIOUS
  <2> HIDE DEF known, c
  <2>3. /\ now[s] \in SUBSET Revision /\ Single(now[s]) /\ now[s] # {}
        /\ \A v \in known, w \in now[s] : v.revision <= w.revision /\ (v.revision = w.revision => v.content = w.content)
    BY <2>1, <2>2, NextRevision
  <2> QED BY <2>3 DEF known
<1>7. now \in Observed
  BY <1>6 DEF Observed
<1>8. new \in Entry /\ new.versions = now /\ new.published = row.published /\ new.current = row.current
  BY <1>3, <1>7 DEF Entry
<1>9. o \in Operation /\ o.versions = now /\ o.snapshot = {} /\ o.phase = "applying"
  BY <1>7 DEF Operation, Phases
<1>10. registry' = {new} /\ operations'[k] = {o} /\ \A m \in Keys : m # k => operations'[m] = operations[m]
  BY <1>1, <1>2 DEF StateTypes
<1>11. operations' \in [Keys -> SUBSET Operation]
  BY <1>1, <1>9 DEF StateTypes
<1> HIDE DEF o, new
<1>12. StateTypes'
  <2>1. at' \in [Requests -> Places]
    BY <1>1 DEF StateTypes, Go, Places
  <2>2. registry' \subseteq Entry
    BY <1>8, <1>10
  <2> QED BY <1>1, <1>11, <2>1, <2>2 DEF StateTypes
<1>13. Singles'
  <2>1. \A m \in Keys : Single(operations'[m])
    BY <1>1, <1>10 DEF Singles, Single
  <2>2. Single(registry')
    BY <1>10 DEF Single
  <2>3. \A x \in registry', s \in Sources : Single(x.versions[s]) /\ x.versions[s] # {}
    BY <1>6, <1>8, <1>10
  <2> QED BY <1>1, <2>1, <2>2, <2>3 DEF Singles
<1>14. AttemptInv'
  <2>1. (\A m \in KeysOf(r) : Unpublished(m))'
    <3>1. KeysOf(r)' = {k}
      BY <1>2 DEF KeysOf
    <3>2. Unpublished(k)'
      BY <1>9, <1>10 DEF Unpublished
    <3> QED BY <3>1, <3>2
  <2>2. "resolving" \in Places /\ read' \in [Requests -> SUBSET Reading]
    BY <1>1 DEF Places, StateTypes
  <2> QED BY <2>1, <2>2, OwnerStep
<1>15. \A m \in Keys : \A p \in operations'[m] : p = o \/ p \in operations[m]
  BY <1>10
<1>16. RevisionInv'
  <2>1. \A m \in Keys : \A p \in operations[m], s \in Sources : \A x \in p.versions[s], y \in now[s] :
          x.revision <= y.revision /\ (x.revision = y.revision => x.content = y.content)
    <3> SUFFICES ASSUME NEW m \in Keys, NEW p \in operations[m], NEW s \in Sources,
                        NEW x \in p.versions[s], NEW y \in now[s]
                 PROVE  x.revision <= y.revision /\ (x.revision = y.revision => x.content = y.content)
      OBVIOUS
    <3>1. registry = {row} /\ row \in registry
      BY <1>1, <1>3 DEF RevisionInv
    <3>2. PICK v \in row.versions[s] : TRUE
      BY <1>1, <3>1 DEF Singles
    <3>3. x.revision <= v.revision /\ (x.revision = v.revision => x.content = v.content)
      <4>1. RevisionInv /\ row \in registry
        BY <1>1, <3>1
      <4> QED BY <3>2, <4>1 DEF RevisionInv
    <3>4. v.revision <= y.revision /\ (v.revision = y.revision => v.content = y.content)
      BY <1>6, <3>2
    <3>5. p \in Operation /\ v \in Revision /\ y \in Revision
      BY <1>1, <1>4, <1>6, <3>2 DEF StateTypes
    <3>6. x \in Revision
      BY <3>5 DEF Operation, Observed
    <3> QED BY <3>3, <3>4, <3>5, <3>6 DEF Revision
  <2>2. \A s \in Sources : \A x, y \in now[s] :
          x.revision <= y.revision /\ (x.revision = y.revision => x.content = y.content)
    BY <1>6 DEF Single, Revision
  <2>3. \A m \in Keys : \A p \in operations'[m], s \in Sources : \A x \in p.versions[s], y \in now[s] :
          x.revision <= y.revision /\ (x.revision = y.revision => x.content = y.content)
    BY <1>9, <1>15, <2>1, <2>2
  <2>4. Versions' \subseteq Versions \cup {now}
    <3>1. ASSUME NEW v \in Versions', v # now
          PROVE  v \in Versions
      <4>1. ~ \E x \in registry' : v = x.versions
        BY <1>8, <1>10, <3>1
      <4>2. PICK m \in Keys : \E p \in operations'[m] : v = p.versions
        BY <3>1, <4>1, VersionsAfter
      <4>3. \E p \in operations[m] : v = p.versions
        BY <1>9, <1>15, <3>1, <4>2
      <4> QED BY <4>3, VersionsOf
    <3> QED BY <3>1
  <2>5. ASSUME NEW v \in Versions'
        PROVE  v = now \/ \E m \in Keys : \E p \in operations'[m] : v = p.versions
    <3>1. \A x \in registry' : x.versions = now
      BY <1>8, <1>10
    <3> QED BY <3>1, VersionsAfter
  <2>6. ASSUME NEW v \in Versions', NEW s \in Sources, NEW x \in v[s], NEW y \in now[s]
        PROVE  x.revision = y.revision => x.content = y.content
    BY <2>2, <2>3, <2>5, <2>6
  <2>7. ASSUME NEW v \in Versions', NEW w \in Versions', NEW s \in Sources, NEW x \in v[s], NEW y \in w[s],
               x.revision = y.revision
        PROVE  x.content = y.content
    <3>1. CASE v = now
      BY <2>6, <2>7, <3>1
    <3>2. CASE w = now
      BY <2>6, <2>7, <3>2
    <3>3. CASE v \in Versions /\ w \in Versions
      BY <1>1, <2>7, <3>3 DEF RevisionInv, RevisionsIdentify
    <3> QED BY <2>4, <3>1, <3>2, <3>3
  <2>8. RevisionsIdentify'
    BY <2>7 DEF RevisionsIdentify
  <2>9. \A x \in registry' : x.versions = now
    BY <1>8, <1>10
  <2>10. (\A m \in Keys : \A p \in operations[m], x \in registry, s \in Sources :
           \A u \in p.versions[s], y \in x.versions[s] :
             u.revision <= y.revision /\ (u.revision = y.revision => u.content = y.content))'
    <3> SUFFICES ASSUME NEW m \in Keys, NEW p \in operations'[m], NEW x \in registry', NEW s \in Sources,
                        NEW u \in p.versions[s], NEW y \in x.versions[s]
                 PROVE  u.revision <= y.revision /\ (u.revision = y.revision => u.content = y.content)
      OBVIOUS
    <3>1. y \in now[s]
      BY <2>9
    <3> QED BY <2>3, <3>1
  <2>11. registry' # {}
    BY <1>10
  <2> QED BY <2>8, <2>10, <2>11 DEF RevisionInv
<1>17. SnapshotsNumbered'
  <2>1. registry = {} => \A m \in Keys : operations[m] = {}
    BY <1>1 DEF RevisionInv
  <2>2. \A x \in registry', m \in Keys : \A p \in operations'[m] : \A z \in p.snapshot :
          z.number <= x.published /\ (z.number = x.published => z \in x.current)
    BY <1>1, <1>3, <1>8, <1>9, <1>10, <1>15, <2>1 DEF SnapshotsNumbered
  <2>3. \A m, n \in Keys : \A p \in operations'[m], q \in operations'[n] :
          m # n => \A x \in p.snapshot, y \in q.snapshot : x.number # y.number
    BY <1>1, <1>9, <1>15 DEF SnapshotsNumbered
  <2> QED BY <2>2, <2>3 DEF SnapshotsNumbered
<1>18. BandsInv'
  <2>1. \A b \in bands : IsInjective(b.steps) /\ (\A i \in DOMAIN b.steps : b.steps[i] \in Keys)
    BY <1>1 DEF BandsInv, StateTypes, Band
  <2>2. \A b \in bands : \A i \in DOMAIN b.steps : \E p \in operations[b.steps[i]] : p.snapshot # {}
    BY <1>1 DEF BandsInv, IsPublished
  <2>3. \A b \in bands : \A i \in DOMAIN b.steps : b.steps[i] # k
    BY <2>2
  <2>4. \A b \in bands : \A i \in DOMAIN b.steps : \E p \in operations'[b.steps[i]] : p.snapshot # {}
    BY <1>10, <2>1, <2>2, <2>3
  <2> QED BY <2>1, <2>4 DEF BandsInv, IsPublished
<1>19. PhaseInv'
  BY <1>1, <1>9, <1>15 DEF PhaseInv
<1> QED BY <1>12, <1>13, <1>14, <1>16, <1>17, <1>18, <1>19 DEF StateInv

LEMMA ObserveKeeps ==
  ASSUME StateInv, NEW r \in Requests, Observe(r), UNCHANGED <<memory, definition>>
  PROVE  StateInv'
<1>1. StateTypes /\ Singles /\ at[r] = "observing" /\ UNCHANGED <<profile, found, owner, bands, cache, responded>>
  BY DEF StateInv, Observe
<1>2. ASSUME NEW k \in KeysOf(r)
      PROVE  k \in Keys /\ KeysOf(r) = {k} /\ Single(operations[k])
  BY <1>1, KeysOfRequest, OneKey DEF Singles
<1>3. CASE KeysOf(r) = {} /\ Go(r, "resolving") /\ UNCHANGED <<registry, operations, read, faults>>
  BY <1>1, <1>3, ObserveFound DEF journal
<1>4. CASE /\ \E k \in KeysOf(r) : \E o \in operations[k] : Go(r, IF o.snapshot = {} THEN "resolving" ELSE "replying")
           /\ UNCHANGED <<registry, operations, read, faults>>
  <2>1. PICK k \in KeysOf(r) : \E o \in operations[k] : Go(r, IF o.snapshot = {} THEN "resolving" ELSE "replying")
    BY <1>4
  <2>2. PICK o \in operations[k] : Go(r, IF o.snapshot = {} THEN "resolving" ELSE "replying")
    BY <2>1
  <2>3. CASE o.snapshot = {}
    <3>1. \A m \in KeysOf(r) : Unpublished(m)
      BY <1>2, <2>3 DEF Unpublished
    <3>2. Go(r, "resolving") /\ UNCHANGED journal
      BY <1>1, <1>4, <2>2, <2>3 DEF journal
    <3> QED BY <1>1, <1>4, <3>1, <3>2, ObserveFound
  <2>4. CASE o.snapshot # {}
    <3>1. Go(r, "replying") /\ UNCHANGED journal
      BY <1>1, <1>4, <2>2, <2>4 DEF journal
    <3> QED BY <1>1, <1>4, <3>1, ObserveFound
  <2> QED BY <2>3, <2>4
<1>5. CASE /\ \E k \in KeysOf(r) :
                LET row == IF registry = {} THEN Blanks ELSE Row(registry)
                    now == [s \in Sources |-> NextVersion(row.versions[s], Row(read[r]).sources[s])] IN
                /\ operations[k] = {}
                /\ registry' = {[row EXCEPT !.versions = now]}
                /\ operations' = [operations EXCEPT ![k] = {[phase |-> "applying", versions |-> now, snapshot |-> {}]}]
           /\ Go(r, "resolving") /\ UNCHANGED <<read, faults>>
  <2> DEFINE row == IF registry = {} THEN Blanks ELSE Row(registry)
             now == [s \in Sources |-> NextVersion(row.versions[s], Row(read[r]).sources[s])]
  <2>1. PICK k \in KeysOf(r) :
          /\ operations[k] = {} /\ registry' = {[row EXCEPT !.versions = now]}
          /\ operations' = [operations EXCEPT ![k] = {[phase |-> "applying", versions |-> now, snapshot |-> {}]}]
    BY <1>5
  <2>2. row = IF registry = {} THEN Blanks ELSE Row(registry)
    OBVIOUS
  <2>3. now = [s \in Sources |-> NextVersion(row.versions[s], Row(read[r]).sources[s])]
    OBVIOUS
  <2> HIDE DEF row, now
  <2> QED BY <1>1, <1>5, <2>1, <2>2, <2>3, ObserveNew
<1>6. CASE /\ KeysOf(r) # {} /\ Fault /\ Go(r, "resolving")
           /\ read' = [read EXCEPT ![r] = {[x EXCEPT !.observed = FALSE] : x \in @}]
           /\ UNCHANGED <<registry, operations>>
  <2>1. UNCHANGED journal
    BY <1>1, <1>6 DEF journal
  <2> QED BY <1>1, <1>6, <2>1, ObserveFails
<1> QED BY <1>3, <1>4, <1>5, <1>6 DEF Observe
----------------------------------------------------------------------------
(* Operations that keep what they observed and published keep the          *)
(* revisions and the numbers right ...                                     *)
LEMMA RowsKept ==
  ASSUME RevisionInv, SnapshotsNumbered, UNCHANGED registry,
         \A m \in Keys : \A p \in operations'[m] : \E q \in operations[m] : p.versions = q.versions /\ p.snapshot = q.snapshot
  PROVE  RevisionInv' /\ SnapshotsNumbered'
<1>1. registry' = {} => \A m \in Keys : operations'[m] = {}
  BY DEF RevisionInv
<1>2. (\A m \in Keys : \A p \in operations[m], x \in registry, s \in Sources :
         \A u \in p.versions[s], y \in x.versions[s] :
           u.revision <= y.revision /\ (u.revision = y.revision => u.content = y.content))'
  <2> SUFFICES ASSUME NEW m \in Keys, NEW p \in operations'[m], NEW x \in registry', NEW s \in Sources,
                      NEW u \in p.versions[s], NEW y \in x.versions[s]
               PROVE  u.revision <= y.revision /\ (u.revision = y.revision => u.content = y.content)
    OBVIOUS
  <2>1. PICK q \in operations[m] : p.versions = q.versions
    OBVIOUS
  <2>2. u \in q.versions[s]
    BY <2>1
  <2> QED BY <2>2 DEF RevisionInv
<1>3. Versions' \subseteq Versions
  <2>1. ASSUME NEW v \in Versions'
        PROVE  v \in Versions
    <3>1. CASE \E x \in registry' : v = x.versions
      BY <3>1, VersionsOf
    <3>2. CASE \E m \in Keys : \E p \in operations'[m] : v = p.versions
      <4>1. PICK m \in Keys : \E p \in operations'[m] : v = p.versions
        BY <3>2
      <4>2. \E q \in operations[m] : v = q.versions
        BY <4>1
      <4> QED BY <4>2, VersionsOf
    <3> QED BY <2>1, <3>1, <3>2, VersionsAfter
  <2> QED BY <2>1
<1>4. RevisionsIdentify'
  BY <1>3 DEF RevisionInv, RevisionsIdentify
<1>5. SnapshotsNumbered'
  <2>1. \A row \in registry', m \in Keys : \A p \in operations'[m] : \A z \in p.snapshot :
          z.number <= row.published /\ (z.number = row.published => z \in row.current)
    <3> SUFFICES ASSUME NEW row \in registry, NEW m \in Keys, NEW p \in operations'[m], NEW z \in p.snapshot
                 PROVE  z.number <= row.published /\ (z.number = row.published => z \in row.current)
      OBVIOUS
    <3>1. PICK q \in operations[m] : p.snapshot = q.snapshot
      OBVIOUS
    <3> QED BY <3>1 DEF SnapshotsNumbered
  <2>2. \A m, n \in Keys : \A p \in operations'[m], q \in operations'[n] :
          m # n => \A x \in p.snapshot, y \in q.snapshot : x.number # y.number
    <3> SUFFICES ASSUME NEW m \in Keys, NEW n \in Keys, m # n, NEW p \in operations'[m], NEW q \in operations'[n],
                        NEW x \in p.snapshot, NEW y \in q.snapshot
                 PROVE  x.number # y.number
      OBVIOUS
    <3>1. PICK c \in operations[m] : p.snapshot = c.snapshot
      OBVIOUS
    <3>2. PICK d \in operations[n] : q.snapshot = d.snapshot
      OBVIOUS
    <3> QED BY <3>1, <3>2 DEF SnapshotsNumbered
  <2> QED BY <2>1, <2>2 DEF SnapshotsNumbered
<1> QED BY <1>1, <1>2, <1>4, <1>5 DEF RevisionInv

(* ... and bands stay right while what they went through stays published. *)
LEMMA BandsKept ==
  ASSUME StateTypes, BandsInv, UNCHANGED bands,
         \A m \in Keys : IsPublished(m) => \E p \in operations'[m] : p.snapshot # {}
  PROVE  BandsInv'
<1>1. \A b \in bands : \A i \in DOMAIN b.steps : b.steps[i] \in Keys
  BY DEF StateTypes, Band
<1>2. \A b \in bands : \A i \in DOMAIN b.steps : \E p \in operations'[b.steps[i]] : p.snapshot # {}
  BY <1>1 DEF BandsInv
<1>3. \A b \in bands' : IsInjective(b.steps)
  BY DEF BandsInv
<1> QED BY <1>2, <1>3 DEF BandsInv, IsPublished
----------------------------------------------------------------------------
(* A snapshot is numbered after all others, and is the current one. *)
LEMMA PublishNew ==
  ASSUME StateInv, NEW r \in Requests, at[r] = "publishing", Go(r, "replying"),
         UNCHANGED <<memory, definition, profile, found, owner, cache, responded, read>>,
         NEW k \in KeysOf(r), NEW degraded \in BOOLEAN, NEW o \in operations[k], NEW row \in registry, o.snapshot = {},
         NEW new, new = Published(o, row, degraded),
         operations' = [operations EXCEPT ![k] = {new}],
         registry' = {[row EXCEPT !.published = @ + 1, !.current = new.snapshot]},
         bands' = NextBands(r, degraded)
  PROVE  StateInv'
<1> DEFINE snap == [number |-> row.published + 1, version |-> row.versions[Managed], versions |-> o.versions, degraded |-> degraded]
           entry == [row EXCEPT !.published = @ + 1, !.current = new.snapshot]
           Out(m) == \E p \in operations'[m] : p.snapshot # {}
<1> USE StateAssumption
<1>1. StateTypes /\ Singles /\ RevisionInv /\ AttemptInv /\ AttemptOf(r) /\ SnapshotsNumbered /\ BandsInv /\ PhaseInv
  BY DEF StateInv, AttemptInv
<1>2. k \in Keys /\ k = Key(r) /\ KeysOf(r) = {k} /\ registry = {row} /\ operations[k] = {o}
  BY <1>1, KeysOfRequest, OneKey DEF Singles, Single
<1>3. row \in Entry /\ o \in Operation
  BY <1>1, <1>2 DEF StateTypes
<1>4. new = [o EXCEPT !.phase = "projected", !.snapshot = {snap}]
  BY DEF Published
<1>5. snap \in Snapshot /\ snap.number = row.published + 1 /\ row.published \in Nat
  BY <1>3 DEF Snapshot, Entry, Operation, Observed
<1> HIDE DEF snap
<1>6. new \in Operation /\ new.versions = o.versions /\ new.snapshot = {snap} /\ new.phase = "projected"
  <2> DEFINE S == {snap}
  <2>1. S \in SUBSET Snapshot /\ new = [o EXCEPT !.phase = "projected", !.snapshot = S]
    BY <1>4, <1>5
  <2> HIDE DEF S
  <2>2. new \in Operation /\ new.versions = o.versions /\ new.snapshot = S /\ new.phase = "projected"
    BY <1>3, <2>1 DEF Operation, Phases
  <2> QED BY <2>2 DEF S
<1>7. entry \in Entry /\ entry.versions = row.versions /\ entry.published = row.published + 1 /\ entry.current = {snap}
  <2> DEFINE S == new.snapshot
             n == row.published + 1
  <2>1. S \in SUBSET Snapshot /\ S = {snap} /\ n \in Nat
    BY <1>5, <1>6
  <2>2. entry = [row EXCEPT !.published = n, !.current = S]
    OBVIOUS
  <2> HIDE DEF S, n, entry
  <2>3. entry \in Entry /\ entry.versions = row.versions /\ entry.published = n /\ entry.current = S
    BY <1>3, <2>1, <2>2 DEF Entry
  <2> QED BY <2>1, <2>3 DEF n
<1>8. registry' = {entry} /\ operations'[k] = {new} /\ \A m \in Keys : m # k => operations'[m] = operations[m]
  BY <1>1, <1>2 DEF StateTypes
<1> HIDE DEF entry
<1>9. operations' \in [Keys -> SUBSET Operation]
  BY <1>1, <1>6 DEF StateTypes
<1>10. \A m \in Keys : \A p \in operations'[m] : (m = k /\ p = new) \/ (m # k /\ p \in operations[m])
  BY <1>8
<1>11. \A m \in Keys : IsPublished(m) => Out(m)
  <2>1. ASSUME NEW m \in Keys, \E p \in operations[m] : p.snapshot # {}
        PROVE  Out(m)
    <3>1. m # k
      BY <1>2, <2>1
    <3> QED BY <1>8, <2>1, <3>1
  <2> QED BY <2>1 DEF IsPublished
<1>12. Out(k) /\ ~ IsPublished(k)
  BY <1>2, <1>6, <1>8 DEF IsPublished
<1>13. \A b \in bands' : b \in Band /\ IsInjective(b.steps) /\ \A i \in DOMAIN b.steps : b.steps[i] \in Keys /\ Out(b.steps[i])
  <2>1. ASSUME NEW b \in bands
        PROVE  b \in Band /\ IsInjective(b.steps) /\ \A i \in DOMAIN b.steps : b.steps[i] \in Keys /\ Out(b.steps[i])
    <3>1. b \in Band /\ IsInjective(b.steps) /\ \A i \in DOMAIN b.steps : IsPublished(b.steps[i])
      BY <1>1, <2>1 DEF BandsInv, StateTypes
    <3>2. \A i \in DOMAIN b.steps : b.steps[i] \in Keys
      BY <3>1 DEF Band
    <3> QED BY <1>11, <3>1, <3>2
  <2>2. CASE degraded \/ profile[r] = {}
    BY <2>1, <2>2 DEF NextBands
  <2>3. CASE ~ (degraded \/ profile[r] = {})
    <3> DEFINE path == Append(found[r], k)
               band == [profile |-> Row(profile[r]), partition |-> View(Row(read[r]).sources), steps |-> path]
    <3>1. found[r] \in Seq(Keys) /\ IsInjective(found[r]) /\ \A i \in DOMAIN found[r] : IsPublished(found[r][i])
      BY <1>1 DEF AttemptOf, StateTypes
    <3>2. path \in Seq(Keys) /\ DOMAIN path = 1..(Len(found[r]) + 1) /\ path[Len(found[r]) + 1] = k
          /\ \A i \in DOMAIN found[r] : path[i] = found[r][i]
      BY <1>2, <3>1
    <3>3. DOMAIN found[r] = 1..Len(found[r]) /\ Len(found[r]) \in Nat
      BY <3>1
    <3>4. \A i \in DOMAIN path : i = Len(found[r]) + 1 \/ i \in DOMAIN found[r]
      BY <3>2, <3>3
    <3>5. \A i \in DOMAIN found[r] : found[r][i] # k
      BY <1>12, <3>1
    <3> HIDE DEF path, Out
    <3>6. IsInjective(path)
      BY <3>1, <3>2, <3>4, <3>5 DEF IsInjective
    <3>7. \A i \in DOMAIN path : path[i] \in Keys /\ Out(path[i])
      <4>1. \A i \in DOMAIN found[r] : found[r][i] \in Keys /\ Out(found[r][i])
        BY <1>11, <3>1
      <4> QED BY <1>2, <1>12, <3>2, <3>4, <4>1
    <3>8. Row(profile[r]) \in Definitions
      BY <1>1, <2>3, RowIn DEF StateTypes
    <3>9. View(Row(read[r]).sources) \in Views
      <4>1. read[r] # {}
        BY DEF KeysOf
      <4>2. Row(read[r]).sources \in [Sources -> Contents]
        BY <1>1, <4>1, RowIn DEF StateTypes, Reading
      <4> QED BY <4>2 DEF View, Views
    <3>10. band \in Band /\ band.steps = path
      BY <3>2, <3>8, <3>9 DEF Band
    <3>11. bands' = {band}
      BY <1>2, <2>3 DEF NextBands, path
    <3> HIDE DEF band
    <3>12. IsInjective(band.steps) /\ \A i \in DOMAIN band.steps : band.steps[i] \in Keys /\ Out(band.steps[i])
      BY <3>6, <3>7, <3>10
    <3> QED BY <3>10, <3>11, <3>12
  <2> QED BY <2>2, <2>3
<1>14. StateTypes'
  <2>1. at' \in [Requests -> Places]
    BY <1>1 DEF StateTypes, Go, Places
  <2>2. registry' \subseteq Entry /\ bands' \subseteq Band
    BY <1>7, <1>8, <1>13
  <2> QED BY <1>1, <1>9, <2>1, <2>2 DEF StateTypes
<1>15. Singles'
  <2>1. \A m \in Keys : Single(operations'[m])
    BY <1>1, <1>8 DEF Singles, Single
  <2>2. Single(registry')
    BY <1>8 DEF Single
  <2>3. \A x \in registry', s \in Sources : Single(x.versions[s]) /\ x.versions[s] # {}
    BY <1>1, <1>2, <1>7, <1>8 DEF Singles
  <2> QED BY <1>1, <2>1, <2>2, <2>3 DEF Singles
<1>16. AttemptInv'
  <2>1. "replying" \in Places /\ read' \in [Requests -> SUBSET Reading]
    BY <1>1 DEF Places, StateTypes
  <2> QED BY <2>1, OwnerStep
<1>17. RevisionInv'
  <2>1. registry' # {}
    BY <1>8
  <2>2. \A x \in registry' : x.versions = row.versions
    BY <1>7, <1>8
  <2>3. \A m \in Keys : \A p \in operations'[m] : \E q \in operations[m] : p.versions = q.versions
    BY <1>2, <1>6, <1>10
  <2>4. (\A m \in Keys : \A p \in operations[m], x \in registry, s \in Sources :
           \A u \in p.versions[s], y \in x.versions[s] :
             u.revision <= y.revision /\ (u.revision = y.revision => u.content = y.content))'
    <3> SUFFICES ASSUME NEW m \in Keys, NEW p \in operations'[m], NEW x \in registry', NEW s \in Sources,
                        NEW u \in p.versions[s], NEW y \in x.versions[s]
                 PROVE  u.revision <= y.revision /\ (u.revision = y.revision => u.content = y.content)
      OBVIOUS
    <3>1. PICK q \in operations[m] : p.versions = q.versions
      BY <2>3
    <3>2. u \in q.versions[s] /\ y \in row.versions[s]
      BY <2>2, <3>1
    <3> QED BY <1>1, <3>2 DEF RevisionInv
  <2>5. Versions' \subseteq Versions
    <3>1. ASSUME NEW v \in Versions'
          PROVE  v \in Versions
      <4>1. v = row.versions \/ \E m \in Keys : \E p \in operations'[m] : v = p.versions
        BY <2>2, <3>1, VersionsAfter
      <4>2. v = row.versions \/ \E m \in Keys : \E p \in operations[m] : v = p.versions
        BY <2>3, <4>1
      <4> QED BY <1>2, <4>2, VersionsOf
    <3> QED BY <3>1
  <2>6. RevisionsIdentify'
    BY <1>1, <2>5 DEF RevisionInv, RevisionsIdentify
  <2> QED BY <2>1, <2>4, <2>6 DEF RevisionInv
<1>18. SnapshotsNumbered'
  <2>1. \A m \in Keys : \A p \in operations[m] : \A x \in p.snapshot :
          x.number <= row.published /\ x.number \in Nat
    BY <1>1 DEF SnapshotsNumbered, StateTypes, Operation, Snapshot
  <2>2. \A m \in Keys : \A p \in operations'[m] : \A z \in p.snapshot :
          (m = k /\ z = snap) \/ (m # k /\ p \in operations[m])
    BY <1>6, <1>10
  <2>3. \A x \in registry', m \in Keys : \A p \in operations'[m] : \A z \in p.snapshot :
          z.number <= x.published /\ (z.number = x.published => z \in x.current)
    <3> SUFFICES ASSUME NEW m \in Keys, NEW p \in operations'[m], NEW z \in p.snapshot
                 PROVE  z.number <= entry.published /\ (z.number = entry.published => z \in entry.current)
      BY <1>8
    <3>1. CASE z = snap
      BY <1>5, <1>7, <3>1
    <3>2. CASE p \in operations[m]
      <4>1. z.number <= row.published /\ z.number \in Nat
        BY <2>1, <3>2
      <4> QED BY <1>5, <1>7, <4>1
    <3> QED BY <2>2, <3>1, <3>2
  <2>4. \A m, n \in Keys : \A p \in operations'[m], q \in operations'[n] :
          m # n => \A x \in p.snapshot, y \in q.snapshot : x.number # y.number
    <3> SUFFICES ASSUME NEW m \in Keys, NEW n \in Keys, m # n, NEW p \in operations'[m], NEW q \in operations'[n],
                        NEW x \in p.snapshot, NEW y \in q.snapshot
                 PROVE  x.number # y.number
      OBVIOUS
    <3>1. CASE m = k
      <4>1. x = snap /\ q \in operations[n]
        BY <2>2, <3>1
      <4>2. y.number <= row.published /\ y.number \in Nat
        BY <2>1, <4>1
      <4> QED BY <1>5, <4>1, <4>2
    <3>2. CASE n = k
      <4>1. y = snap /\ p \in operations[m]
        BY <2>2, <3>2
      <4>2. x.number <= row.published /\ x.number \in Nat
        BY <2>1, <4>1
      <4> QED BY <1>5, <4>1, <4>2
    <3>3. CASE m # k /\ n # k
      BY <1>1, <2>2, <3>3 DEF SnapshotsNumbered
    <3> QED BY <3>1, <3>2, <3>3
  <2> QED BY <2>3, <2>4 DEF SnapshotsNumbered
<1>19. BandsInv'
  BY <1>13 DEF BandsInv, IsPublished
<1>20. PhaseInv'
  BY <1>1, <1>6, <1>10 DEF PhaseInv
<1> QED BY <1>14, <1>15, <1>16, <1>17, <1>18, <1>19, <1>20 DEF StateInv

(* A publication that fails leaves its operation without a snapshot. *)
LEMMA PublishFails ==
  ASSUME StateInv, NEW r \in Requests, at[r] = "publishing", Go(r, "replying"), KeysOf(r) # {},
         UNCHANGED <<memory, definition, profile, found, owner, cache, responded, registry, bands>>,
         operations' = [operations EXCEPT ![Key(r)] = {[o EXCEPT !.phase = "failed"] : o \in @}],
         read' = [read EXCEPT ![r] = {[x EXCEPT !.observed = FALSE] : x \in @}]
  PROVE  StateInv'
<1>1. StateTypes /\ Singles /\ RevisionInv /\ AttemptInv /\ AttemptOf(r) /\ SnapshotsNumbered /\ BandsInv /\ PhaseInv
  BY DEF StateInv, AttemptInv
<1>2. PICK k \in KeysOf(r) : TRUE
  OBVIOUS
<1>3. k \in Keys /\ k = Key(r) /\ KeysOf(r) = {k} /\ Unpublished(k) /\ Single(operations[k])
  BY <1>1, KeysOfRequest, OneKey DEF AttemptOf, Singles
<1>4. PICK o \in operations[k] : o.snapshot = {}
  BY <1>3 DEF Unpublished
<1>5. operations[k] = {o} /\ o \in Operation
  BY <1>1, <1>3, <1>4 DEF Single, StateTypes
<1> DEFINE new == [o EXCEPT !.phase = "failed"]
<1>6. new \in Operation /\ new.versions = o.versions /\ new.snapshot = {} /\ new.phase = "failed"
  BY <1>4, <1>5 DEF Operation, Phases
<1>7. operations'[k] = {new} /\ \A m \in Keys : m # k => operations'[m] = operations[m]
  BY <1>1, <1>3, <1>5 DEF StateTypes
<1>8. operations' = [operations EXCEPT ![k] = {new}]
  BY <1>1, <1>3, <1>5 DEF StateTypes
<1> HIDE DEF new
<1>9. operations' \in [Keys -> SUBSET Operation]
  <2> DEFINE S == {new}
  <2>1. S \in SUBSET Operation /\ operations' = [operations EXCEPT ![k] = S]
    BY <1>6, <1>8
  <2> HIDE DEF S
  <2> QED BY <1>1, <2>1 DEF StateTypes
<1>10. \A m \in Keys : \A p \in operations'[m] :
         \E q \in operations[m] : p.versions = q.versions /\ p.snapshot = q.snapshot /\ (p = q \/ (m = k /\ p = new))
  <2>1. ASSUME NEW m \in Keys, m = k, NEW p \in operations'[m]
        PROVE  p = new /\ o \in operations[m] /\ p.versions = o.versions /\ p.snapshot = o.snapshot
    BY <1>4, <1>5, <1>6, <1>7, <2>1
  <2>2. \A m \in Keys : m # k => operations'[m] = operations[m]
    BY <1>7
  <2> QED BY <2>1, <2>2
<1>11. /\ read' \in [Requests -> SUBSET Reading] /\ Single(read'[r]) /\ KeysOf(r)' = {}
       /\ \A q \in Requests : q # r => read'[q] = read[q]
  BY <1>1, Unobserved
<1>12. StateTypes'
  <2>1. at' \in [Requests -> Places]
    BY <1>1 DEF StateTypes, Go, Places
  <2> QED BY <1>1, <1>9, <1>11, <2>1 DEF StateTypes
<1>13. Singles'
  <2>1. \A m \in Keys : Single(operations'[m])
    BY <1>1, <1>7 DEF Singles, Single
  <2>2. \A q \in Requests : Single(read'[q])
    BY <1>1, <1>11 DEF Singles
  <2> QED BY <1>1, <2>1, <2>2 DEF Singles
<1>14. AttemptInv'
  <2>1. "replying" \in Places
    BY DEF Places
  <2> QED BY <1>11, <2>1, OwnerStep
<1>15. RevisionInv' /\ SnapshotsNumbered'
  BY <1>1, <1>10, RowsKept
<1>16. BandsInv'
  <2>1. ASSUME NEW m \in Keys, IsPublished(m)
        PROVE  \E p \in operations'[m] : p.snapshot # {}
    BY <1>4, <1>5, <1>7, <2>1 DEF IsPublished
  <2> QED BY <1>1, <2>1, BandsKept
<1>17. PhaseInv'
  BY <1>1, <1>6, <1>10 DEF PhaseInv
<1> QED BY <1>12, <1>13, <1>14, <1>15, <1>16, <1>17 DEF StateInv

LEMMA PublishKeeps ==
  ASSUME StateInv, NEW r \in Requests, Publish(r), UNCHANGED <<memory, definition>>
  PROVE  StateInv'
<1>1. StateTypes /\ Singles /\ AttemptOf(r)
  BY DEF StateInv, AttemptInv
<1>2. at[r] = "publishing" /\ Go(r, "replying") /\ UNCHANGED <<profile, found, owner, cache, responded>>
  BY DEF Publish
<1>3. CASE KeysOf(r) = {} /\ UNCHANGED <<journal, read, faults>>
  <2>1. owner' = r /\ Single(read'[r]) /\ "replying" \in Places
    BY <1>1, <1>2, <1>3 DEF AttemptOf, Singles, Places
  <2>2. AttemptOf(r)'
    BY <1>2, <1>3, <2>1, OwnAttempt
  <2> QED BY <1>1, <1>2, <1>3, <2>1, <2>2, AttemptStep DEF StateTypes
<1>4. CASE \E k \in KeysOf(r), degraded \in BOOLEAN : \E o \in operations[k], row \in registry :
             LET new == Published(o, row, degraded) IN
             /\ IF degraded THEN Fault ELSE UNCHANGED faults
             /\ o.snapshot = {}
             /\ operations' = [operations EXCEPT ![k] = {new}]
             /\ registry' = {[row EXCEPT !.published = @ + 1, !.current = new.snapshot]}
             /\ bands' = NextBands(r, degraded) /\ UNCHANGED read
  <2>1. PICK k \in KeysOf(r), degraded \in BOOLEAN : \E o \in operations[k], row \in registry :
             LET new == Published(o, row, degraded) IN
             /\ o.snapshot = {}
             /\ operations' = [operations EXCEPT ![k] = {new}]
             /\ registry' = {[row EXCEPT !.published = @ + 1, !.current = new.snapshot]}
             /\ bands' = NextBands(r, degraded) /\ UNCHANGED read
    BY <1>4
  <2>2. PICK o \in operations[k], row \in registry :
             LET new == Published(o, row, degraded) IN
             /\ o.snapshot = {}
             /\ operations' = [operations EXCEPT ![k] = {new}]
             /\ registry' = {[row EXCEPT !.published = @ + 1, !.current = new.snapshot]}
             /\ bands' = NextBands(r, degraded) /\ UNCHANGED read
    BY <2>1
  <2> DEFINE new == Published(o, row, degraded)
  <2>3. new = Published(o, row, degraded)
    OBVIOUS
  <2>4. /\ o.snapshot = {}
        /\ operations' = [operations EXCEPT ![k] = {new}]
        /\ registry' = {[row EXCEPT !.published = @ + 1, !.current = new.snapshot]}
        /\ bands' = NextBands(r, degraded) /\ UNCHANGED read
    BY <2>2
  <2> HIDE DEF new
  <2> QED BY <1>2, <2>3, <2>4, PublishNew
<1>5. CASE /\ KeysOf(r) # {} /\ Fault
           /\ operations' = [operations EXCEPT ![Key(r)] = {[o EXCEPT !.phase = "failed"] : o \in @}]
           /\ read' = [read EXCEPT ![r] = {[x EXCEPT !.observed = FALSE] : x \in @}]
           /\ UNCHANGED <<registry, bands>>
  BY <1>2, <1>5, PublishFails
<1> QED BY <1>3, <1>4, <1>5 DEF Publish
----------------------------------------------------------------------------
LEMMA CompleteKeeps ==
  ASSUME StateInv, NEW r \in Requests, Complete(r), UNCHANGED <<memory, definition>>
  PROVE  StateInv'
<1>1. StateTypes /\ Singles /\ RevisionInv /\ AttemptInv /\ AttemptOf(r) /\ SnapshotsNumbered /\ BandsInv /\ PhaseInv
  BY DEF StateInv, AttemptInv
<1>2. at[r] = "replied" /\ UNCHANGED <<read, profile, found, faults, owner, registry, bands, cache>>
  BY DEF Complete
<1>3. KeysOf(r) \subseteq Keys /\ (\A k \in KeysOf(r) : k[1] = r) /\ responded[r] = {}
  BY <1>1, <1>2, KeysOfRequest DEF AttemptOf
<1>4. CASE Go(r, "idle") /\ UNCHANGED <<operations, responded>>
  <2>1. Single(read'[r]) /\ "idle" \in Places /\ UNCHANGED journal
    BY <1>1, <1>2, <1>4 DEF Singles, Places, journal
  <2>2. AttemptOf(r)'
    BY <1>2, <1>4, <2>1, OwnAttempt
  <2> QED BY <1>1, <1>2, <1>4, <2>1, <2>2, AttemptStep DEF StateTypes
<1>5. CASE /\ \A k \in KeysOf(r) : \E o \in operations[k] : o.phase \in {"projected", "completed"}
           /\ responded' = [responded EXCEPT ![r] = KeysOf(r)] /\ Go(r, "done")
           /\ operations' = [k \in Keys |-> IF k \in KeysOf(r)
                                            THEN {[o EXCEPT !.phase = "completed"] : o \in operations[k]}
                                            ELSE operations[k]]
  <2>1. \A k \in Keys : k \notin KeysOf(r) => operations'[k] = operations[k]
    BY <1>5
  <2>2. \A k \in Keys : k \in KeysOf(r) => operations'[k] = {[o EXCEPT !.phase = "completed"] : o \in operations[k]}
    BY <1>5
  <2>3. ASSUME NEW k \in Keys, NEW o \in operations[k]
        PROVE  LET p == [o EXCEPT !.phase = "completed"] IN
               p \in Operation /\ p.versions = o.versions /\ p.snapshot = o.snapshot /\ p.phase = "completed"
    <3>1. o \in Operation
      BY <1>1 DEF StateTypes
    <3> QED BY <3>1 DEF Operation, Phases
  <2>4. ASSUME NEW k \in Keys, NEW p \in operations'[k]
        PROVE  /\ p \in Operation
               /\ \E o \in operations[k] : /\ p.versions = o.versions /\ p.snapshot = o.snapshot
                                           /\ p = o \/ (k \in KeysOf(r) /\ p = [o EXCEPT !.phase = "completed"])
    <3>1. CASE k \in KeysOf(r)
      <4>1. PICK o \in operations[k] : p = [o EXCEPT !.phase = "completed"]
        BY <2>2, <3>1
      <4> QED BY <2>3, <3>1, <4>1
    <3>2. CASE k \notin KeysOf(r)
      BY <1>1, <2>1, <3>2 DEF StateTypes
    <3> QED BY <3>1, <3>2
  <2>5. StateTypes'
    <3>1. operations' \in [Keys -> SUBSET Operation]
      <4>1. \A k \in Keys : operations'[k] \subseteq Operation
        BY <2>4
      <4> QED BY <1>5, <4>1
    <3>2. at' \in [Requests -> Places]
      BY <1>1, <1>5 DEF StateTypes, Go, Places
    <3>3. responded' \in [Requests -> SUBSET Keys]
      BY <1>1, <1>3, <1>5 DEF StateTypes
    <3> QED BY <1>1, <1>2, <3>1, <3>2, <3>3 DEF StateTypes
  <2>6. Singles'
    <3>1. ASSUME NEW k \in Keys
          PROVE  Single(operations'[k])
      BY <1>1, <2>1, <2>2 DEF Singles, Single
    <3> QED BY <1>1, <1>2, <3>1 DEF Singles
  <2>7. RevisionInv' /\ SnapshotsNumbered'
    BY <1>1, <1>2, <2>4, RowsKept
  <2>8. \A m \in Keys : IsPublished(m) => \E p \in operations'[m] : p.snapshot # {}
    <3>1. ASSUME NEW m \in Keys, NEW o \in operations[m], o.snapshot # {}
          PROVE  \E p \in operations'[m] : p.snapshot # {}
      <4>1. CASE m \in KeysOf(r)
        <5>1. [o EXCEPT !.phase = "completed"] \in operations'[m]
          BY <2>2, <4>1
        <5> QED BY <2>3, <3>1, <5>1
      <4>2. CASE m \notin KeysOf(r)
        BY <2>1, <3>1, <4>2
      <4> QED BY <4>1, <4>2
    <3> QED BY <3>1 DEF IsPublished
  <2>9. BandsInv'
    BY <1>1, <1>2, <2>8, BandsKept
  <2>10. PhaseInv'
    <3>1. responded'[r] = KeysOf(r) /\ \A q \in Requests : q # r => responded'[q] = responded[q]
      BY <1>1, <1>5 DEF StateTypes
    <3>2. ASSUME NEW k \in Keys, NEW p \in operations'[k]
          PROVE  /\ p.phase \in {"applying", "failed"} <=> p.snapshot = {}
                 /\ p.phase = "completed" => k \in responded'[k[1]]
      <4>1. CASE k \in KeysOf(r)
        <5>1. PICK o \in operations[k] : p = [o EXCEPT !.phase = "completed"]
          BY <2>2, <4>1
        <5>2. p.phase = "completed" /\ p.snapshot = o.snapshot
          BY <2>3, <5>1
        <5>3. o.phase \in {"projected", "completed"}
          BY <1>1, <1>5, <4>1 DEF Singles, Single
        <5>4. o.snapshot # {}
          BY <1>1, <5>3 DEF PhaseInv
        <5> QED BY <1>3, <3>1, <4>1, <5>2, <5>4
      <4>2. CASE k \notin KeysOf(r)
        <5>1. p \in operations[k] /\ (p.phase \in {"applying", "failed"} <=> p.snapshot = {})
          BY <1>1, <2>1, <4>2 DEF PhaseInv
        <5>2. ASSUME p.phase = "completed"
              PROVE  k \in responded'[k[1]]
          <6>1. k \in responded[k[1]] /\ k[1] \in Requests
            BY <1>1, <5>1, <5>2 DEF PhaseInv, Keys
          <6>2. k[1] # r
            BY <1>3, <6>1
          <6> QED BY <3>1, <6>1, <6>2
        <5> QED BY <5>1, <5>2
      <4> QED BY <4>1, <4>2
    <3> QED BY <3>2 DEF PhaseInv
  <2>11. ASSUME NEW q \in Requests
         PROVE  AttemptOf(q)'
    <3>1. CASE q = r
      <4>1. at'[r] = "done"
        BY <1>1, <1>5 DEF StateTypes, Go
      <4> QED BY <3>1, <4>1 DEF AttemptOf
    <3>2. CASE q # r
      <4>1. at'[q] = at[q] /\ read'[q] = read[q] /\ found'[q] = found[q] /\ responded'[q] = responded[q]
        BY <1>1, <1>2, <1>5, <3>2 DEF StateTypes, Go
      <4>2. \A k \in Keys : k[1] = q => operations'[k] = operations[k]
        BY <1>3, <2>1, <3>2
      <4>3. \A k \in Keys : IsPublished(k) => IsPublished(k)'
        BY <2>8 DEF IsPublished
      <4> QED BY <1>2, <4>1, <4>2, <4>3, OtherAttempt
    <3> QED BY <3>1, <3>2
  <2>12. AttemptInv'
    BY <2>11 DEF AttemptInv
  <2> QED BY <2>5, <2>6, <2>7, <2>9, <2>10, <2>12 DEF StateInv
<1> QED BY <1>4, <1>5 DEF Complete
----------------------------------------------------------------------------
(* What is outside of attempts: memory, the character, and its profile ... *)
LEMMA OutsideKeeps ==
  ASSUME StateInv, UNCHANGED <<journal, attempt, owner, responded>>,
         memory' \in [Sources -> Contents], definition' \in Definitions, cache' \subseteq Definitions
  PROVE  StateInv'
<1>1. StateTypes /\ Singles /\ AttemptInv
  BY DEF StateInv
<1>2. UNCHANGED <<registry, operations, bands, at, read, profile, found, owner, responded>>
  BY DEF journal, attempt
<1>3. StateTypes'
  BY <1>1, <1>2 DEF StateTypes
<1>4. Singles'
  BY <1>1, <1>2 DEF Singles
<1>5. AttemptInv'
  <2>1. ASSUME NEW q \in Requests
        PROVE  AttemptOf(q)'
    <3>1. \A k \in Keys : IsPublished(k) => IsPublished(k)'
      BY <1>2 DEF IsPublished
    <3> QED BY <1>2, <3>1, OtherAttempt
  <2> QED BY <2>1 DEF AttemptInv
<1> QED BY <1>3, <1>4, <1>5, JournalKept DEF StateInv

(* ... and the clear, which nobody who holds the reservation sees. *)
LEMMA ClearKeeps ==
  ASSUME StateInv, Clear
  PROVE  StateInv'
<1> USE StateAssumption
<1>1. StateTypes /\ Singles /\ AttemptInv
  BY DEF StateInv
<1>2. /\ owner = Nobody /\ registry' = {} /\ operations' = [k \in Keys |-> {}] /\ bands' = {}
      /\ memory' = [memory EXCEPT ![Managed] = Nothing]
      /\ UNCHANGED <<definition, cache, at, read, profile, found, owner, responded>>
  BY DEF Clear, attempt
<1>3. StateTypes'
  BY <1>1, <1>2 DEF StateTypes
<1>4. Singles'
  BY <1>1, <1>2 DEF Singles, Single
<1>5. RevisionInv'
  BY <1>2 DEF RevisionInv, RevisionsIdentify, Versions, Rows
<1>6. SnapshotsNumbered' /\ BandsInv' /\ PhaseInv'
  BY <1>2 DEF SnapshotsNumbered, BandsInv, PhaseInv
<1>7. AttemptInv'
  <2>1. ASSUME NEW q \in Requests
        PROVE  AttemptOf(q)'
    <3>1. owner # q
      BY <1>2
    <3> QED BY <1>2, <3>1, OtherAttempt
  <2> QED BY <2>1 DEF AttemptInv
<1> QED BY <1>3, <1>4, <1>5, <1>6, <1>7 DEF StateInv

LEMMA StateStuttering ==
  ASSUME StateInv, UNCHANGED stateVars
  PROVE  StateInv'
<1>1. UNCHANGED <<journal, attempt, owner, responded, memory, definition, cache>>
  BY DEF stateVars, inputs
<1> QED BY <1>1, OutsideKeeps DEF StateInv, StateTypes

LEMMA StateStep ==
  ASSUME StateInv, StateNext
  PROVE  StateInv'
<1>1. StateTypes
  BY DEF StateInv
<1>2. ASSUME NEW r \in Requests, Begin(r) \/ Step(r) \/ Drop(r), UNCHANGED <<memory, definition, changes, clears>>
      PROVE  StateInv'
  <2>1. UNCHANGED <<memory, definition>>
    BY <1>2
  <2>2. CASE Begin(r)
    BY <2>1, <2>2, BeginKeeps
  <2>3. CASE Step(r)
    BY <2>1, <2>3, ReadSourcesKeeps, ReserveKeeps, ObserveKeeps, ResolveKeeps, GenerateKeeps, PublishKeeps,
       ReplyKeeps, CompleteKeeps DEF Step
  <2>4. CASE Drop(r)
    BY <2>1, <2>4, DropKeeps
  <2> QED BY <1>2, <2>2, <2>3, <2>4
<1>3. ASSUME NEW s \in Sources, NEW c \in Contents, Change(s, c)
      PROVE  StateInv'
  <2>1. memory' \in [Sources -> Contents] /\ definition' \in Definitions /\ cache' \subseteq Definitions
    BY <1>1, <1>3 DEF StateTypes, Change
  <2>2. UNCHANGED <<journal, attempt, owner, responded>>
    BY <1>3 DEF Change
  <2> QED BY <2>1, <2>2, OutsideKeeps
<1>4. ASSUME ResetProfile
      PROVE  StateInv'
  <2>1. memory' \in [Sources -> Contents] /\ definition' \in Definitions /\ cache' \subseteq Definitions
    BY <1>1, <1>4 DEF StateTypes, ResetProfile
  <2>2. UNCHANGED <<journal, attempt, owner, responded>>
    BY <1>4 DEF ResetProfile
  <2> QED BY <2>1, <2>2, OutsideKeeps
<1>5. ASSUME NEW d \in Definitions, EditCharacter(d)
      PROVE  StateInv'
  <2>1. memory' \in [Sources -> Contents] /\ definition' \in Definitions /\ cache' \subseteq Definitions
    BY <1>1, <1>5 DEF StateTypes, EditCharacter
  <2>2. UNCHANGED <<journal, attempt, owner, responded>>
    BY <1>5 DEF EditCharacter
  <2> QED BY <2>1, <2>2, OutsideKeeps
<1> QED BY <1>2, <1>3, <1>4, <1>5, ClearKeeps DEF StateNext

(* The journal of MO State is right in every state. *)
THEOREM StateCorrect == StateSpec => []StateInv
<1>1. StateInv /\ [StateNext]_stateVars => StateInv'
  BY StateStep, StateStuttering
<1> QED BY <1>1, StateInitially, PTL DEF StateSpec
----------------------------------------------------------------------------
(* Equal revisions of a source stand for equal contents: what a response   *)
(* observed names the memory it was compiled from, whatever was observed,  *)
(* cleared and edited beside it.                                           *)
THEOREM RevisionsAlwaysIdentify == StateSpec => []RevisionsIdentify
<1>1. StateInv => RevisionsIdentify
  BY DEF StateInv, RevisionInv
<1> QED BY <1>1, StateCorrect, PTL

(* The part of PublishedOnce and CompletedTogether that relates a step's   *)
(* two states; the rest is true of every state.                            *)
PublishedStay == \A k \in Keys : \A o \in operations[k], p \in operations'[k] : o.snapshot # {} => p.snapshot = o.snapshot

RespondedCompleted ==
  \A r \in Requests : \A k \in responded'[r] \ responded[r] : \E o \in operations'[k] : o.phase = "completed"

LEMMA ExactFromParts ==
  ASSUME StateInv', PublishedStay, RespondedCompleted
  PROVE  PublishedOnce /\ CompletedTogether
<1>1. SnapshotsNumbered' /\ BandsInv' /\ PhaseInv' /\ StateTypes'
  BY DEF StateInv
<1>2. \A k \in Keys : \A o \in operations'[k] : o.snapshot \subseteq Snapshot
  BY <1>1 DEF StateTypes, Operation
<1>3. \A row \in registry', x \in Snapshots' : x.number <= row.published /\ (x.number = row.published => x \in row.current)
  <2>1. ASSUME NEW x \in Snapshots'
        PROVE  \E k \in Keys : \E o \in operations'[k] : x \in o.snapshot
    BY <2>1 DEF Snapshots, Rows
  <2> QED BY <1>1, <2>1 DEF SnapshotsNumbered
<1>4. \A b \in bands' : IsInjective(b.steps)
  BY <1>1 DEF BandsInv
<1>5. \A k, m \in Keys : \A o \in operations'[k], p \in operations'[m] :
        k # m => \A x \in o.snapshot, y \in p.snapshot : x.number # y.number
  BY <1>1 DEF SnapshotsNumbered
<1>6. PublishedOnce
  BY <1>3, <1>4, <1>5 DEF PublishedOnce, PublishedStay
<1>7. \A k \in Keys : \A o \in operations'[k] :
        /\ o.phase = "completed" => o.snapshot # {} /\ k \in responded'[k[1]]
        /\ o.phase = "failed" => o.snapshot = {}
  BY <1>1 DEF PhaseInv
<1>8. CompletedTogether
  BY <1>7 DEF CompletedTogether, RespondedCompleted
<1> QED BY <1>6, <1>8

(* Only the completion of a response writes that it has responded.         *)
LEMMA StepsExact ==
  ASSUME StateInv, StateInv', NEW r \in Requests, Begin(r) \/ Step(r) \/ Drop(r)
  PROVE  PublishedStay /\ RespondedCompleted
<1>1. StateTypes /\ Singles /\ AttemptOf(r) /\ PhaseInv
  BY DEF StateInv, AttemptInv
<1>2. KeysOf(r) \subseteq Keys
  BY <1>1, KeysOfRequest
<1>3. ASSUME UNCHANGED operations
      PROVE  PublishedStay
  BY <1>1, <1>3 DEF PublishedStay, Singles, Single
<1>4. ASSUME UNCHANGED responded
      PROVE  RespondedCompleted
  BY <1>4 DEF RespondedCompleted
<1>5. CASE Begin(r) \/ Drop(r) \/ ReadSources(r) \/ Reserve(r) \/ Resolve(r) \/ Generate(r) \/ Reply(r)
  <2>1. UNCHANGED operations /\ UNCHANGED responded
    BY <1>5 DEF Begin, Drop, ReadSources, Reserve, Resolve, Generate, Reply, journal
  <2> QED BY <1>3, <1>4, <2>1
<1>6. CASE Observe(r)
  <2>1. UNCHANGED responded
    BY <1>6 DEF Observe
  <2>2. UNCHANGED operations \/ \E k \in KeysOf(r) : operations[k] = {} /\ \E S : operations' = [operations EXCEPT ![k] = S]
    BY <1>6 DEF Observe
  <2>3. CASE \E k \in KeysOf(r) : operations[k] = {} /\ \E S : operations' = [operations EXCEPT ![k] = S]
    <3>1. PICK k \in KeysOf(r) : operations[k] = {} /\ \E S : operations' = [operations EXCEPT ![k] = S]
      BY <2>3
    <3>2. \A m \in Keys : m # k => operations'[m] = operations[m]
      BY <1>1, <3>1 DEF StateTypes
    <3> QED BY <1>1, <1>4, <2>1, <3>1, <3>2 DEF PublishedStay, Singles, Single
  <2> QED BY <1>3, <1>4, <2>1, <2>2, <2>3
<1>7. CASE Publish(r)
  <2>1. UNCHANGED responded /\ at[r] = "publishing"
    BY <1>7 DEF Publish
  <2>2. UNCHANGED operations \/ \E k \in KeysOf(r) : \E S : operations' = [operations EXCEPT ![k] = S]
    <3>1. KeysOf(r) # {} => Key(r) \in KeysOf(r)
      BY DEF Key
    <3> QED BY <1>7, <3>1 DEF Publish, journal
  <2>3. CASE \E k \in KeysOf(r) : \E S : operations' = [operations EXCEPT ![k] = S]
    <3>1. PICK k \in KeysOf(r) : \E S : operations' = [operations EXCEPT ![k] = S]
      BY <2>3
    <3>2. \A m \in Keys : m # k => operations'[m] = operations[m]
      BY <1>1, <3>1 DEF StateTypes
    <3>3. \A o \in operations[k] : o.snapshot = {}
      BY <1>1, <1>2, <2>1 DEF AttemptOf, Unpublished, Singles, Single
    <3> QED BY <1>1, <1>4, <2>1, <3>2, <3>3 DEF PublishedStay, Singles, Single
  <2> QED BY <1>3, <1>4, <2>1, <2>2, <2>3
<1>8. CASE Complete(r)
  <2>1. CASE UNCHANGED <<operations, responded>>
    BY <1>3, <1>4, <2>1
  <2>2. CASE /\ \A k \in KeysOf(r) : \E o \in operations[k] : o.phase \in {"projected", "completed"}
             /\ responded' = [responded EXCEPT ![r] = KeysOf(r)] /\ Go(r, "done")
             /\ operations' = [k \in Keys |-> IF k \in KeysOf(r)
                                              THEN {[o EXCEPT !.phase = "completed"] : o \in operations[k]}
                                              ELSE operations[k]]
    <3>1. \A k \in Keys : k \notin KeysOf(r) => operations'[k] = operations[k]
      BY <2>2
    <3>2. \A k \in Keys : k \in KeysOf(r) => operations'[k] = {[o EXCEPT !.phase = "completed"] : o \in operations[k]}
      BY <2>2
    <3>3. ASSUME NEW k \in Keys, NEW o \in operations[k]
          PROVE  LET p == [o EXCEPT !.phase = "completed"] IN p.snapshot = o.snapshot /\ p.phase = "completed"
      <4>1. o \in Operation
        BY <1>1 DEF StateTypes
      <4> QED BY <4>1 DEF Operation
    <3>4. PublishedStay
      <4>1. ASSUME NEW k \in Keys, NEW o \in operations[k], NEW p \in operations'[k]
            PROVE  p.snapshot = o.snapshot
        <5>1. Single(operations[k])
          BY <1>1 DEF Singles
        <5>2. CASE k \in KeysOf(r)
          <6>1. PICK q \in operations[k] : p = [q EXCEPT !.phase = "completed"]
            BY <3>2, <5>2
          <6> QED BY <3>3, <5>1, <6>1 DEF Single
        <5>3. CASE k \notin KeysOf(r)
          BY <3>1, <5>1, <5>3 DEF Single
        <5> QED BY <5>2, <5>3
      <4> QED BY <4>1 DEF PublishedStay
    <3>5. RespondedCompleted
      <4>1. ASSUME NEW q \in Requests, NEW k \in responded'[q] \ responded[q]
            PROVE  \E o \in operations'[k] : o.phase = "completed"
        <5>1. q = r /\ k \in KeysOf(r) /\ k \in Keys
          BY <1>1, <1>2, <2>2 DEF StateTypes
        <5>2. PICK o \in operations[k] : TRUE
          BY <2>2, <5>1
        <5>3. [o EXCEPT !.phase = "completed"] \in operations'[k]
          BY <3>2, <5>1, <5>2
        <5> QED BY <3>3, <5>1, <5>3
      <4> QED BY <4>1 DEF RespondedCompleted
    <3> QED BY <3>4, <3>5
  <2> QED BY <1>8, <2>1, <2>2 DEF Complete
<1> QED BY <1>5, <1>6, <1>7, <1>8 DEF Step

(* Snapshots are published once each and in one order, bands go through    *)
(* each at most once, and responses complete with their state operation or *)
(* not at all: in every step of any number of attempts, retries, clears    *)
(* and edits.                                                              *)
THEOREM JournalAlwaysExact == StateSpec => JournalExact
<1>1. ASSUME StateInv, StateInv', StateNext
      PROVE  PublishedOnce /\ CompletedTogether
  <2>1. CASE \E r \in Requests : Begin(r) \/ Step(r) \/ Drop(r)
    BY <1>1, <2>1, StepsExact, ExactFromParts
  <2>2. CASE Clear
    <3>1. PublishedStay /\ RespondedCompleted
      BY <2>2 DEF Clear, PublishedStay, RespondedCompleted
    <3> QED BY <1>1, <3>1, ExactFromParts
  <2>3. CASE ResetProfile \/ (\E s \in Sources, c \in Contents : Change(s, c)) \/ (\E d \in Definitions : EditCharacter(d))
    <3>1. UNCHANGED operations /\ UNCHANGED responded
      BY <2>3 DEF ResetProfile, Change, EditCharacter, journal
    <3>2. PublishedStay /\ RespondedCompleted
      BY <1>1, <3>1 DEF StateInv, Singles, Single, PublishedStay, RespondedCompleted
    <3> QED BY <1>1, <3>2, ExactFromParts
  <2> QED BY <1>1, <2>1, <2>2, <2>3 DEF StateNext
<1>2. StateInv /\ StateInv' /\ [StateNext]_stateVars => [PublishedOnce /\ CompletedTogether]_stateVars
  BY <1>1
<1> QED BY <1>2, StateCorrect, PTL DEF StateSpec, JournalExact
=============================================================================
