----------------------------- MODULE Generation -----------------------------
(***************************************************************************)
(* A streamed response from the HTTP task that creates its event stream to *)
(* the last event its client reads: the permit of the server, the gate     *)
(* that lets one foreground generation of a personal Space run at a time,  *)
(* the registration that a cancellation wakes, the provider's chunks as    *)
(* the gateway gathers them and as they are forwarded, the bounded channel *)
(* between the task and its client, the timer around the whole attempt,    *)
(* and the events that close the stream.                                   *)
(*                                                                         *)
(* Each attempt has a request id of its own: attempts that share one are   *)
(* serialised by the operation lock of Responses.  What that module does   *)
(* between the completion and the answer is one step here, Record.         *)
(***************************************************************************)
EXTENDS Naturals, Sequences, SequencesExt, FiniteSets

CONSTANTS
  Attempts,   \* HTTP requests for a streamed response
  Spaces,     \* personal Spaces
  SpaceOf,    \* the personal Space of each attempt
  Buffer,     \* capacity of the event channel
  Limit,      \* cumulative limit of a stream, one unit for an event
  Calls,      \* indices of tool calls
  Scripts,    \* what the provider may send each attempt: sequences of chunks
  Fickle,     \* attempts whose client may leave, or ask to cancel
  None

ASSUME BoundsArePositive ==
  /\ {Buffer, Limit} \subseteq Nat \ {0}
  /\ SpaceOf \in [Attempts -> Spaces] /\ Calls \subseteq Nat /\ None \notin Attempts \cup Nat

VARIABLES
  task,     \* the place of each task and what its future holds
  gates,    \* generation_gates: the semaphore last put in the map, by its maker
  flagged,  \* operation_states: active operations that were cancelled
  registered, fired,  \* cancellations, and the signals that were set
  asked,    \* how far each cancel request is
  chan,     \* events in the channel
  gone,     \* clients that dropped their end
  log       \* events each client has read

vars == <<task, gates, flagged, registered, fired, asked, chan, gone, log>>
signals == <<registered, fired, asked>>
client  == <<gone, log>>

Blank   == "blank"      \* a piece of text that is only white space
NoCall  == [id |-> None, name |-> None, arguments |-> <<>>]
NoTool  == [id |-> "", name |-> "", added |-> FALSE]

Waits   == {"entered", "queued", "streaming", "recording"}  \* awaits of execute
Running == Waits \cup {"holding", "opened", "registered"}
Holds   == {"holding", "opened", "registered", "streaming"}

Init ==
  /\ task = [a \in Attempts |->
       [place |-> "new", gate |-> None, rest |-> <<>>, text |-> <<>>,
        calls |-> [i \in {} |-> NoCall], tools |-> [i \in Calls |-> NoTool],
        sequence |-> 0, sent |-> 0, batch |-> <<>>]]
  /\ gates = [s \in Spaces |-> None]
  /\ flagged = {} /\ registered = {} /\ fired = {}
  /\ asked = [a \in Attempts |-> "no"]
  /\ chan = [a \in Attempts |-> <<>>] /\ log = [a \in Attempts |-> <<>>]
  /\ gone = {}

Event(type, item, data) == [type |-> type, item |-> item, data |-> data]

-----------------------------------------------------------------------------
(* ResponseStream::send for a run of events: each takes the next number,    *)
(* and the first that finds the channel full or closed, or the stream at    *)
(* its limit, is dropped with its number and fails the rest.                *)
Room(a, t) ==
  IF a \in gone THEN 0
  ELSE Min({Buffer - Len(chan[a]), Limit - t.sent})

Numbered(events, from) ==
  [n \in DOMAIN events |-> LET e == events[n] IN
     [number |-> from + n - 1, type |-> e.type, item |-> e.item, data |-> e.data]]

Fits(a, t, events) == Len(events) <= Room(a, t)

Send(a, t, events, place) ==
  LET n == IF Fits(a, t, events) THEN Len(events) ELSE Room(a, t)
      used == IF Fits(a, t, events) THEN n ELSE n + 1
  IN /\ chan' = [chan EXCEPT ![a] =
                   @ \o Numbered(SubSeq(events, 1, n), t.sequence)]
     /\ task' = [task EXCEPT ![a] =
                   [t EXCEPT !.sequence = @ + used, !.sent = @ + n,
                             !.place = place]]

(* What goes with the future of an attempt: the permit of its gate, its      *)
(* registration and the entry of its operation.                             *)
Dropped(t, place) == [t EXCEPT !.place = place, !.gate = None]
Released(a) ==
  /\ registered' = registered \ {a} /\ flagged' = flagged \ {a}
  /\ UNCHANGED <<fired, asked>>

Fail(a) ==
  /\ task' = [task EXCEPT ![a] = Dropped(@, "failing")]
  /\ Released(a)

(* create_response: the stream opens before the task starts *)
Request(a) ==
  /\ task[a].place = "new"
  /\ \E script \in Scripts[a] :
       /\ task' = [task EXCEPT ![a].place = "created", ![a].rest = script,
                               ![a].sequence = 1, ![a].sent = 1]
       /\ chan' = [chan EXCEPT ![a] =
                     Numbered(<<Event("created", None, <<>>)>>, 0)]
  /\ UNCHANGED <<gates, flagged, signals, client>>

(* execute_response_bounded: a permit of the server now or not at all; the   *)
(* responses of other Spaces, which are not followed here, may hold them all *)
Admit(a) ==
  /\ task[a].place = "created"
  /\ \E place \in {"entered", "failing"} : task' = [task EXCEPT ![a].place = place]
  /\ UNCHANGED <<gates, flagged, signals, chan, client>>

(* generation_gate: the semaphore in the map if anything still holds it *)
(* Mutant of Alive: a waiter does not keep the gate alive. *)
AliveHeld(s) ==
  \E b \in Attempts : task[b].place \in Holds /\ task[b].gate = gates[s]
Alive(s) == \E b \in Attempts : task[b].gate # None /\ task[b].gate = gates[s]
GateOf(a) == IF Alive(SpaceOf[a]) THEN gates[SpaceOf[a]] ELSE a
Lookup(a) ==
  /\ task[a].place = "entered"
  /\ task' = [task EXCEPT ![a].place = "queued", ![a].gate = GateOf(a)]
  /\ gates' = [gates EXCEPT ![SpaceOf[a]] = GateOf(a)]
  /\ UNCHANGED <<flagged, signals, chan, client>>

Acquire(a) ==
  /\ task[a].place = "queued"
  /\ ~\E b \in Attempts : task[b].gate = task[a].gate /\ task[b].place \in Holds
  /\ task' = [task EXCEPT ![a].place = "holding"]
  /\ UNCHANGED <<gates, flagged, signals, chan, client>>

(* generate_response_completion past its gate: the operation is looked at    *)
(* and the message item opened; only then is the cancellation registered,   *)
(* and the operation looked at again                                        *)
Opening == <<Event("opened", None, <<>>)>>
Open(a) ==
  /\ task[a].place = "holding"
  /\ IF a \in flagged THEN Fail(a) /\ UNCHANGED chan
     ELSE IF Fits(a, task[a], Opening)
     THEN Send(a, task[a], Opening, "opened") /\ UNCHANGED <<flagged, signals>>
     ELSE Send(a, Dropped(task[a], "holding"), Opening, "failing") /\ Released(a)
  /\ UNCHANGED <<gates, client>>

Register(a) ==
  /\ task[a].place = "opened"
  /\ registered' = registered \cup {a} /\ fired' = fired \ {a}
  /\ task' = [task EXCEPT ![a].place = "registered"]
  /\ UNCHANGED <<gates, flagged, asked, chan, client>>

(* Mutant of EnsureActive: not looked at again. *)
EnsureActiveNever(a) ==
  /\ task[a].place = "registered"
  /\ task' = [task EXCEPT ![a].place = "streaming"]
  /\ UNCHANGED <<gates, flagged, signals, chan, client>>
EnsureActive(a) ==
  /\ task[a].place = "registered"
  /\ IF a \in flagged THEN Fail(a)
     ELSE /\ task' = [task EXCEPT ![a].place = "streaming"]
          /\ UNCHANGED <<flagged, signals>>
  /\ UNCHANGED <<gates, chan, client>>

-----------------------------------------------------------------------------
(* The gateway gathers a chunk: the first id and the first name of a call    *)
(* stay, even an empty one; its arguments are appended.                     *)
Kept(old, new) == IF old = None THEN new ELSE old
Gather(calls, d) ==
  IF d.index = None THEN calls
  ELSE LET c == IF d.index \in DOMAIN calls THEN calls[d.index] ELSE NoCall
           call == [id |-> Kept(c.id, d.id), name |-> Kept(c.name, d.name),
                    arguments |-> c.arguments \o d.arguments]
       IN [i \in DOMAIN calls \cup {d.index} |->
             IF i = d.index THEN call ELSE calls[i]]

(* forward_stream_delta: a call is announced once its id and its name are    *)
(* not empty; a later chunk may replace either, with an empty one too.      *)
Latest(old, new) == IF new = None THEN old ELSE new
Tool(t, d) ==
  LET id == Latest(t.id, d.id)
      name == Latest(t.name, d.name)
  IN [id |-> id, name |-> name, added |-> t.added \/ (id # "" /\ name # "")]
Tools(tools, d) ==
  IF d.index = None THEN tools
  ELSE [tools EXCEPT ![d.index] = Tool(@, d)]
Forwarded(tools, d) ==
  (IF d.text = <<>> THEN <<>> ELSE <<Event("text", None, d.text)>>)
  \o (IF d.index = None THEN <<>>
      ELSE LET t == Tool(tools[d.index], d)
           IN (IF t.added /\ ~tools[d.index].added
               THEN <<Event("added", d.index, <<t.id, t.name>>)>> ELSE <<>>)
              \o (IF d.arguments = <<>> THEN <<>>
                  ELSE <<Event("arguments", d.index, d.arguments)>>))

(* stream_messages: one chunk of the provider is gathered, then forwarded;   *)
(* a client that cannot take it cancels its response.                       *)
(* Mutant of Chunk: what the client could not take is dropped. *)
ChunkRegardless(a) ==
  LET t == task[a]
      d == Head(t.rest)
      next == [t EXCEPT !.rest = Tail(@), !.text = @ \o d.text,
                        !.calls = Gather(@, d), !.tools = Tools(@, d)]
  IN /\ t.place = "streaming" /\ t.rest # <<>> /\ d.kind = "data"
     /\ Send(a, next, Forwarded(t.tools, d), "streaming")
     /\ UNCHANGED <<gates, flagged, signals, client>>
Chunk(a) ==
  LET t == task[a]
      d == Head(t.rest)
      events == Forwarded(t.tools, d)
      next == [t EXCEPT !.rest = Tail(@), !.text = @ \o d.text,
                        !.calls = Gather(@, d), !.tools = Tools(@, d)]
  IN /\ t.place = "streaming" /\ t.rest # <<>> /\ d.kind = "data"
     /\ IF Fits(a, t, events)
        THEN Send(a, next, events, "streaming") /\ UNCHANGED <<flagged, signals>>
        ELSE Send(a, Dropped(next, "failing"), events, "failing") /\ Released(a)
     /\ UNCHANGED <<gates, client>>

(* [DONE]: every call must be whole, and the answer not empty *)
Trimmed(text) ==
  LET inked == {n \in DOMAIN text : text[n] # Blank}
  IN IF inked = {} THEN <<>> ELSE SubSeq(text, Min(inked), Max(inked))
Whole(t) ==
  /\ \A i \in DOMAIN t.calls : t.calls[i].id # None /\ t.calls[i].name # None
  /\ Trimmed(t.text) # <<>> \/ DOMAIN t.calls # {}
Finish(a) ==
  LET t == task[a] IN
  /\ t.place = "streaming" /\ t.rest # <<>> /\ Head(t.rest).kind # "data"
  /\ IF Head(t.rest).kind = "done" /\ Whole(t)
     THEN /\ task' = [task EXCEPT ![a] = Dropped(t, "recording")]
          /\ registered' = registered \ {a} /\ UNCHANGED <<flagged, fired, asked>>
     ELSE Fail(a)
  /\ UNCHANGED <<gates, chan, client>>

(* the other arm of the select *)
Stop(a) ==
  /\ task[a].place = "streaming" /\ a \in fired
  /\ Fail(a)
  /\ UNCHANGED <<gates, chan, client>>

-----------------------------------------------------------------------------
(* send_completed_events: the events that close the stream, sent all or,     *)
(* when they would not fit, not at all                                      *)
Closing(t) ==
  <<Event("text_done", None, Trimmed(t.text))>>
  \o [n \in 1 .. Cardinality(DOMAIN t.calls) |->
        LET i == CHOOSE j \in DOMAIN t.calls : Cardinality({k \in DOMAIN t.calls : k < j}) = n - 1
        IN Event("call_done", n - 1,
                 <<t.calls[i].id, t.calls[i].name, t.calls[i].arguments>>)]
  \o <<Event("completed", None, <<>>)>>

(* the answer is recorded unless the operation was cancelled before *)
Record(a) ==
  LET t == task[a] IN
  /\ t.place = "recording"
  /\ task' = [task EXCEPT ![a] =
       IF a \in flagged \/ t.sent + Len(Closing(t)) > Limit
       THEN Dropped(t, "failing")
       ELSE [Dropped(t, "closing") EXCEPT !.batch = Closing(t)]]
  /\ Released(a)
  /\ UNCHANGED <<gates, chan, client>>

(* the timer of execute_response_bounded, at any await of the attempt *)
Expire(a) ==
  /\ task[a].place \in Waits
  /\ Fail(a)
  /\ UNCHANGED <<gates, chan, client>>

(* send_async waits for room; it fails once the client is gone *)
Free(a) == a \in gone \/ Len(chan[a]) < Buffer
Close(a) ==
  LET t == task[a] IN
  /\ t.place = "closing" /\ Free(a)
  /\ IF Fits(a, t, <<Head(t.batch)>>)
     THEN Send(a, [t EXCEPT !.batch = Tail(@)], <<Head(t.batch)>>,
               IF Len(t.batch) = 1 THEN "ended" ELSE "closing")
     ELSE Send(a, t, <<Head(t.batch)>>, "failing")
  /\ UNCHANGED <<gates, flagged, signals, client>>

(* Mutant of Failure: the last event does not wait for room. *)
FailureNow(a) ==
  /\ task[a].place = "failing"
  /\ Send(a, task[a], <<Event("failed", None, <<>>)>>, "ended")
  /\ UNCHANGED <<gates, flagged, signals, client>>
Failure(a) ==
  /\ task[a].place = "failing" /\ Free(a)
  /\ Send(a, task[a], <<Event("failed", None, <<>>)>>, "ended")
  /\ UNCHANGED <<gates, flagged, signals, client>>

-----------------------------------------------------------------------------
(* MomoApiService::cancel: the operation is marked, then its signal set *)
Mark(a) ==
  /\ a \in Fickle /\ asked[a] = "no" /\ asked' = [asked EXCEPT ![a] = "marked"]
  /\ flagged' = flagged \cup ({a} \cap {b \in Attempts : task[b].place \in Running})
  /\ UNCHANGED <<task, gates, registered, fired, chan, client>>

Signal(a) ==
  /\ asked[a] = "marked" /\ asked' = [asked EXCEPT ![a] = "done"]
  /\ fired' = fired \cup ({a} \cap registered)
  /\ UNCHANGED <<task, gates, flagged, registered, chan, client>>

Read(a) ==
  /\ chan[a] # <<>>
  /\ log' = [log EXCEPT ![a] = Append(@, Head(chan[a]))]
  /\ chan' = [chan EXCEPT ![a] = Tail(@)]
  /\ UNCHANGED <<task, gates, flagged, signals, gone>>

Leave(a) ==
  /\ a \in Fickle \ gone /\ task[a].place # "new"
  /\ gone' = gone \cup {a} /\ chan' = [chan EXCEPT ![a] = <<>>]
  /\ UNCHANGED <<task, gates, flagged, signals, log>>

Next == \E a \in Attempts :
  \/ Request(a) \/ Admit(a) \/ Lookup(a) \/ Acquire(a) \/ Open(a)
  \/ Register(a) \/ EnsureActive(a) \/ Chunk(a) \/ Finish(a) \/ Stop(a)
  \/ Record(a) \/ Expire(a) \/ Close(a) \/ Failure(a)
  \/ Mark(a) \/ Signal(a) \/ Read(a) \/ Leave(a)

Spec == Init /\ [][Next]_vars

(* The task and a cancel request run on; the provider, the timer and the     *)
(* client owe nothing.                                                      *)
Fair(a) ==
  /\ WF_vars(Admit(a)) /\ WF_vars(Lookup(a)) /\ WF_vars(Acquire(a))
  /\ WF_vars(Open(a)) /\ WF_vars(Register(a)) /\ WF_vars(EnsureActive(a))
  /\ WF_vars(Stop(a)) /\ WF_vars(Record(a)) /\ WF_vars(Close(a))
  /\ WF_vars(Failure(a)) /\ WF_vars(Signal(a))
FairSpec == Spec /\ \A a \in Attempts : Fair(a)

-----------------------------------------------------------------------------
Ends(e) == e.type \in {"completed", "failed"}
Is(e, type, item) == e.type = type /\ e.item = item
Spots(events, type, item) == {n \in DOMAIN events : Is(events[n], type, item)}

(* What events of a type said of an item, laid end to end. *)
Told(events, type, item) ==
  LET told[n \in 0 .. Len(events)] ==
        IF n = 0 THEN <<>>
        ELSE IF Is(events[n], type, item) THEN told[n - 1] \o events[n].data
        ELSE told[n - 1]
  IN told[Len(events)]

(* What a client reads is in order and ends once. *)
StreamInOrder == \A a \in Attempts :
  \A m, n \in DOMAIN log[a] :
    m < n => log[a][m].number < log[a][n].number /\ ~Ends(log[a][m])

(* If it ends with a completed response then nothing the client was told on  *)
(* the way is missing from it or extra: the deltas of the text make its      *)
(* text, and every call was announced once, under the identity it completes  *)
(* with, before the arguments whose pieces make its arguments.              *)
AddsUp(events) ==
  /\ \E n \in DOMAIN events :
       /\ Spots(events, "text_done", None) = {n}
       /\ events[n].data = Trimmed(Told(events, "text", None))
  /\ \A i \in Calls :
       \/ \A type \in {"added", "arguments", "call_done"} : Spots(events, type, i) = {}
       \/ \E m, n \in DOMAIN events :
            /\ Spots(events, "added", i) = {m} /\ Spots(events, "call_done", i) = {n}
            /\ events[n].data =
                 <<events[m].data[1], events[m].data[2], Told(events, "arguments", i)>>
            /\ \A k \in Spots(events, "arguments", i) : m < k
StreamComplete == \A a \in Attempts :
  log[a] # <<>> /\ Last(log[a]).type = "completed" => AddsUp(log[a])

(* That a completed response is what was told supposes that the provider     *)
(* keeps to its protocol: it begins the calls in their order, names a call   *)
(* once or always alike and never with an empty id or name, and sends        *)
(* arguments only of a call it has named.                                    *)
Listed(s) == s \in Seq({s[n] : n \in DOMAIN s})
Agree(x, y) == x = None \/ y = None \/ x = y
ProviderIsSound == \A a \in Attempts : \A s \in Scripts[a] :
  /\ Listed(s)
  /\ \A n \in DOMAIN s :
       LET about(i) == {m \in 1 .. n : s[m].index = i}
           i == s[n].index
       IN /\ Listed(s[n].text) /\ Listed(s[n].arguments) /\ i \in Calls \cup {None}
          /\ i # None =>
               /\ s[n].id # "" /\ s[n].name # ""
               /\ \A m \in about(i) : Agree(s[m].id, s[n].id) /\ Agree(s[m].name, s[n].name)
               /\ s[n].arguments # <<>> =>
                    (\E m \in about(i) : s[m].id # None) /\ \E m \in about(i) : s[m].name # None
               /\ \A j \in 0 .. i - 1 : about(j) # {}

(* A client reads the events of its response in order, one end behind them,  *)
(* and a completed response is the sum of what it was told.                  *)
StreamExact == StreamInOrder /\ StreamComplete

(* One foreground generation of a personal Space at a time, though the map   *)
(* keeps only a weak reference to the gate and drops what nobody holds.      *)
OneGeneration == \A a, b \in Attempts :
  a # b /\ SpaceOf[a] = SpaceOf[b] =>
    ~(task[a].place \in Holds /\ task[b].place \in Holds)

(* A cancellation that found its attempt ends it: no order of marking,       *)
(* registering and signalling loses it, and neither a silent provider nor a  *)
(* client that has stopped reading can keep the attempt going.              *)
CancelStops == \A a \in Attempts :
  (asked[a] = "done" /\ a \in flagged /\ task[a].place \in Holds)
    ~> task[a].place \in {"failing", "ended"}

(* With a timer that fires and a client that reads or leaves, every stream   *)
(* is brought to its end: the client that stays reads how its response       *)
(* ended, unless the stream had already used up its limit.                  *)
Attentive == \A a \in Attempts : WF_vars(Expire(a)) /\ WF_vars(Read(a))
EndsTold == Attentive =>
  \A a \in Attempts : (task[a].place = "created")
    ~> \/ a \in gone \/ task[a].sent = Limit
       \/ log[a] # <<>> /\ Ends(Last(log[a]))
=============================================================================
