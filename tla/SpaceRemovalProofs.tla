------------------------- MODULE SpaceRemovalProofs -------------------------
(***************************************************************************)
(* Proofs about the removal of a Space, for any Spaces, documents, rows,   *)
(* operations and tasks: what is being removed is fenced, a removed Space  *)
(* is and stays empty, nothing is lost that nobody confirmed, and callers  *)
(* see the settings that are on disk.                                      *)
(*                                                                         *)
(* Whoever is inside a removal owns the gate, or is the recovery of a Core *)
(* that is not up yet, so one removal is finished at a time.  The removal  *)
(* that is recorded and not done keeps its Spaces retired and the settings *)
(* frozen; every stage it has passed is a fact about one store, which      *)
(* nobody else can disturb before the last transaction.                    *)
(***************************************************************************)
EXTENDS SpaceRemoval, TLAPS

Removers == Clients \cup {Startup}

(* Where a task has passed a stage of finish_space_removal. *)
Dropped == {"listing", "deleting"}
Emptied == {"dropping"} \cup Dropped
Configured == {"emptying"} \cup Emptied
Imported == {"unindexing", "configuring"} \cup Configured
Stages == {"importing"} \cup Imported
Inside == {"looking", "reserving", "planning", "publishing"} \cup Stages
Active == {"admitted", "entered", "owning", "answering"}
Quiet == {"idle", "confirmed", "waiting", "answered", "refused", "failed", "done", "gone", "opening"}
Places == Quiet \cup Active \cup Inside

Removals == [asks : Requests, image : SUBSET Docs, settings : SUBSET Resources, done : BOOLEAN]

(* Every variable of the model has its type, for the proof; an operation   *)
(* has one record, which is its own, and a task asks for one thing.        *)
TaskTypes ==
  /\ at \in [Tasks -> Places] /\ core \in {"up", "starting", "down"} /\ pending \in BOOLEAN
  /\ readers \subseteq Writers /\ writer \subseteq Clients /\ queue \in Seq(Clients)
  /\ reserved \in [Tasks -> SUBSET Spaces] /\ retired \subseteq Spaces
  /\ asks \in [Clients -> SUBSET Requests] /\ place \in [Writers -> SUBSET Spaces]

StoreTypes ==
  /\ files \in [Spaces -> SUBSET Docs] /\ vectors \subseteq Spaces
  /\ rows \in [Spaces -> SUBSET Rows] /\ trash \in [Spaces -> SUBSET Rows]
  /\ disk \in Resources /\ settings \in Resources /\ listed \subseteq Rows
  /\ removals \in [Operations -> SUBSET Removals]

AsksInv ==
  /\ \A c \in Clients : \A p, q \in asks[c] : p = q
  /\ \A c \in Clients : \A q \in asks[c] : q.source # q.target
  /\ \A w \in Writers : \A s, z \in place[w] : s = z

RecordInv ==
  /\ \A o \in Operations : \A r, u \in removals[o] : r = u
  /\ \A o \in Operations : \A r \in removals[o] : r.asks.op = o
  /\ \A o \in Operations : \A r \in removals[o] : r.asks.source # r.asks.target

(* Who is inside a removal owns the gate alone; who waits for it is in the *)
(* queue; the recovery at startup runs while nobody else does.             *)
GateInv ==
  /\ \A c \in Clients : at[c] \in Inside => c \in writer
  /\ \A c, d \in writer : c = d
  /\ \A c \in Clients : at[c] = "waiting" => \E i \in 1..Len(queue) : queue[i] = c
  /\ at[Startup] \in Stages \cup {"opening"} => core = "starting"
  /\ core # "up" => \A c \in Clients : at[c] \notin Inside \cup {"waiting"}
  /\ core # "up" => \A w \in Writers : at[w] \notin Active
  /\ core # "up" => \A t \in Tasks : reserved[t] = {}

(* No operation is recorded and not done. *)
NonePending == \A o \in Operations : \A r \in removals[o] : r.done

(* Who commits owns the Space it commits to, which is not retired; who is  *)
(* about to plan owns what it will touch.                                  *)
ReservedInv ==
  /\ \A w \in Writers : at[w] = "owning" => reserved[w] = place[w]
  /\ \A w \in Writers : reserved[w] \cap retired = {}
  /\ \A c \in Clients, w \in Writers : reserved[c] \cap reserved[w] = {}
  /\ \A c \in Clients : at[c] \in {"reserving", "planning"} => NonePending
  /\ \A c \in Clients : at[c] \in {"reserving", "planning"} => \A q \in asks[c] : removals[q.op] = {}
  /\ \A c \in Clients : at[c] = "planning" =>
       \A q \in asks[c] : Touched(q) \subseteq reserved[c] /\ Touched(q) \cap retired = {}

Control == TaskTypes /\ StoreTypes /\ AsksInv /\ RecordInv /\ GateInv /\ ReservedInv

(* A removal that is not done is the only one; its Spaces are retired, its *)
(* target never was, and no settings are written but its own.              *)
FenceInv ==
  /\ \A o, p \in Operations : \A r \in removals[o], u \in removals[p] : ~r.done /\ ~u.done => o = p
  /\ \A o \in Operations : \A r \in removals[o] : ~r.done /\ core # "down" => Touched(r.asks) \subseteq retired
  /\ \A o \in Operations : \A r \in removals[o] : ~r.done /\ core = "up" => pending
  /\ \A o \in Operations : \A r \in removals[o] : r.done /\ core # "down" => r.asks.source \in retired
  /\ \A o, p \in Operations : \A r \in removals[o], u \in removals[p] :
       ~r.done /\ u.done => u.asks.source \notin Touched(r.asks)
  /\ at[Startup] = "opening" => NonePending

(* The image of the settings is exact: it is on disk, or replaces what is. *)
SettingsInv ==
  /\ core = "up" /\ ~pending => settings = disk
  /\ \A o \in Operations : \A r \in removals[o] : \A i, j \in r.settings : i = j
  /\ \A o \in Operations : \A r \in removals[o] : \A i \in r.settings :
       ~r.done => disk = i \/ disk.revision < i.revision
  /\ \A o \in Operations : \A r \in removals[o] : \A i \in r.settings :
       ~r.done => i.overrides[r.asks.source] = Default
  /\ \A o, p \in Operations : \A r \in removals[o], u \in removals[p] : \A i \in r.settings :
       ~r.done /\ u.done => i.overrides[u.asks.source] = Default
  /\ \A o \in Operations : \A r \in removals[o] :
       ~r.done /\ r.settings = {} => disk.overrides[r.asks.source] = Default
  /\ \A t \in Removers, o \in Operations : \A r \in removals[o] :
       at[t] \in Configured /\ ~r.done => r.settings = {} \/ disk \in r.settings

(* What a removal has emptied remains empty, up to its end ... *)
EmptiedInv ==
  /\ \A t \in Removers, o \in Operations : \A r \in removals[o] :
       at[t] \in Emptied /\ ~r.done => files[r.asks.source] = {}
  /\ \A t \in Removers, o \in Operations : \A r \in removals[o] :
       at[t] \in Dropped /\ ~r.done => r.asks.source \notin vectors
  /\ \A t \in Removers, o \in Operations : \A r \in removals[o] :
       at[t] = "deleting" /\ ~r.done /\ r.asks.target = Nowhere => trash[r.asks.source] \subseteq listed \cup late

(* ... and ever after. *)
DoneInv ==
  /\ \A o \in Operations : \A r \in removals[o] : r.done => files[r.asks.source] = {} /\ rows[r.asks.source] = {}
  /\ \A o \in Operations : \A r \in removals[o] : r.done => r.asks.source \notin vectors
  /\ \A o \in Operations : \A r \in removals[o] : r.done => disk.overrides[r.asks.source] = Default
  /\ \A o \in Operations : \A r \in removals[o] : r.done => trash[r.asks.source] \subseteq late

(* What a removal takes away is in its image and then in the target, or    *)
(* was confirmed by the client who saw it.                                 *)
ImageInv ==
  /\ \A o \in Operations : \A r \in removals[o] :
       ~r.done /\ r.asks.target # Nowhere => files[r.asks.source] \cup files[r.asks.target] \subseteq r.image
  /\ \A t \in Removers, o \in Operations : \A r \in removals[o] :
       at[t] \in Imported /\ ~r.done /\ r.asks.target # Nowhere => r.image \subseteq files[r.asks.target]
  /\ \A o \in Operations : \A r \in removals[o] :
       ~r.done /\ r.asks.target = Nowhere => files[r.asks.source] \subseteq r.asks.assets.files
  /\ \A o \in Operations : \A r \in removals[o] :
       ~r.done /\ r.asks.target = Nowhere =>
         rows[r.asks.source] \cup trash[r.asks.source] \subseteq r.asks.assets.rows \cup r.asks.assets.trash
  /\ \A o \in Operations : \A r \in removals[o] : ~r.done /\ r.asks.target = Nowhere => r.image = {}

Data == FenceInv /\ SettingsInv /\ EmptiedInv /\ DoneInv /\ ImageInv

RemovalInv == Control /\ Data
----------------------------------------------------------------------------
LEMMA Kinds ==
  /\ Clients \subseteq Tasks /\ Writers \subseteq Tasks /\ Controls \subseteq Tasks /\ Startup \in Tasks
  /\ \A c \in Clients, w \in Writers : c # w
  /\ \A k \in Controls : k \notin Clients /\ k \notin Writers /\ k # Startup
  /\ Startup \notin Clients /\ Startup \notin Writers
  /\ Removers \subseteq Tasks
BY TasksAssumption DEF Tasks, Removers

(* The operator of the model picks the one record of an operation. *)
LEMMA RecordIs ==
  ASSUME RecordInv, NEW o \in Operations, NEW r \in removals[o]
  PROVE  Record(o) = r
BY DEF RecordInv, Record

LEMMA PendingRecord ==
  ASSUME RecordInv, NEW o \in Pending
  PROVE  o \in Operations /\ Record(o) \in removals[o] /\ ~Record(o).done
<1>1. o \in Operations /\ \E r \in removals[o] : ~r.done
  BY DEF Pending
<1>2. PICK r \in removals[o] : ~r.done
  BY <1>1
<1>3. Record(o) = r
  BY <1>1, RecordIs
<1> QED BY <1>1, <1>2, <1>3

LEMMA NonePendingIs == NonePending <=> Pending = {}
BY DEF NonePending, Pending

LEMMA NonePendingAfter == NonePending' <=> Pending' = {}
BY DEF NonePending, Pending

(* One task at a time is inside a removal. *)
LEMMA OneInside ==
  ASSUME GateInv, NEW t \in Removers, at[t] \in Stages
  PROVE  /\ \A c \in Clients : at[c] \in Inside => c = t
         /\ at[Startup] \in Stages \cup {"opening"} => Startup = t
         /\ t \in Clients => core = "up"
         /\ t = Startup => core = "starting"
<1>1. CASE t = Startup
  BY <1>1, Kinds DEF GateInv
<1>2. CASE t \in Clients
  <2>1. at[t] \in Inside
    BY DEF Inside
  <2>2. t \in writer /\ core = "up"
    BY <1>2, <2>1 DEF GateInv
  <2>3. \A c \in Clients : at[c] \in Inside => c = t
    BY <2>2 DEF GateInv
  <2>4. at[Startup] \notin Stages \cup {"opening"}
    BY <2>2 DEF GateInv
  <2> QED BY <1>2, <2>2, <2>3, <2>4, Kinds
<1> QED BY <1>1, <1>2 DEF Removers

LEMMA RemovalInvInit == Init => RemovalInv
<1> SUFFICES ASSUME Init PROVE RemovalInv
  OBVIOUS
<1>1. \A o \in Operations : removals[o] = {}
  BY DEF Init
<1>2. \A t \in Tasks : at[t] = "idle"
  BY DEF Init
<1>3. TaskTypes
  <2>1. queue \in Seq(Clients)
    BY DEF Init
  <2>2. at \in [Tasks -> Places]
    <3>1. at = [t \in Tasks |-> "idle"] /\ "idle" \in Places
      BY DEF Init, Places, Quiet
    <3> QED BY <3>1
  <2>3. reserved \in [Tasks -> SUBSET Spaces] /\ asks \in [Clients -> SUBSET Requests]
        /\ place \in [Writers -> SUBSET Spaces]
    BY DEF Init
  <2>4. /\ core = "up" /\ pending = FALSE /\ readers = {} /\ writer = {} /\ retired = {}
    BY DEF Init
  <2> QED BY <2>1, <2>2, <2>3, <2>4 DEF TaskTypes
<1>4. StoreTypes
  <2>1. [revision |-> 0, overrides |-> FirstOverrides] \in Resources
    BY FirstAssumption DEF Resources
  <2>2. removals \in [Operations -> SUBSET Removals]
    BY DEF Init
  <2> QED BY <2>1, <2>2, FirstAssumption DEF Init, StoreTypes
<1>5. AsksInv /\ RecordInv
  BY <1>1 DEF Init, AsksInv, RecordInv
<1>6. GateInv
  BY <1>2, Kinds DEF Init, GateInv, Stages, Imported, Configured, Emptied, Dropped, Inside
<1>7. ReservedInv
  BY <1>1, <1>2, Kinds DEF Init, ReservedInv
<1>8. FenceInv /\ DoneInv /\ ImageInv /\ EmptiedInv
  BY <1>1, <1>2, Kinds DEF FenceInv, DoneInv, ImageInv, EmptiedInv
<1>9. SettingsInv
  BY <1>1 DEF Init, SettingsInv
<1> QED BY <1>3, <1>4, <1>5, <1>6, <1>7, <1>8, <1>9 DEF RemovalInv, Control, Data
----------------------------------------------------------------------------
(* What kinds of steps keep the tasks apart: a request or a commit moves,  *)
(* a control moves, nobody moves, a removal moves within its gate.         *)
LEMMA WriterControl ==
  ASSUME Control, NEW w \in Writers, core = "up", NEW next \in Places, NEW S \in SUBSET Spaces,
         at' = [at EXCEPT ![w] = next], reserved' = [reserved EXCEPT ![w] = S],
         next = "owning" => S = place'[w], S \cap retired = {}, \A c \in Clients : S \cap reserved[c] = {},
         readers' \subseteq Writers, place' \in [Writers -> SUBSET Spaces],
         \A v \in Writers : \A s, z \in place'[v] : s = z, \A v \in Writers : v # w => place'[v] = place[v],
         UNCHANGED <<asks, writer, queue, removals, retired, pending, core>>, StoreTypes'
  PROVE  Control'
<1>1. UNCHANGED asks /\ UNCHANGED writer /\ UNCHANGED queue /\ UNCHANGED removals /\ UNCHANGED retired
      /\ UNCHANGED pending /\ UNCHANGED core
  OBVIOUS
<1>2. TaskTypes /\ StoreTypes /\ AsksInv /\ RecordInv /\ GateInv /\ ReservedInv
  BY DEF Control
<1>3. \A t \in Tasks : t # w => at'[t] = at[t] /\ reserved'[t] = reserved[t]
  BY <1>2 DEF TaskTypes
<1>4. at'[w] = next /\ reserved'[w] = S
  BY <1>2, Kinds DEF TaskTypes
<1>5. \A t \in Removers : at'[t] = at[t] /\ reserved'[t] = reserved[t]
  BY <1>3, Kinds DEF Removers
<1>6. TaskTypes'
  BY <1>1, <1>2, Kinds DEF TaskTypes
<1>7. AsksInv' /\ RecordInv'
  BY <1>1, <1>2 DEF AsksInv, RecordInv
<1>8. GateInv'
  BY <1>1, <1>2, <1>5 DEF GateInv, Removers
<1>9. ReservedInv'
  <2>1. \A v \in Writers : at'[v] = "owning" => reserved'[v] = place'[v]
    BY <1>2, <1>3, <1>4, Kinds DEF ReservedInv
  <2>2. \A v \in Writers : reserved'[v] \cap retired' = {}
    BY <1>1, <1>2, <1>3, <1>4, Kinds DEF ReservedInv
  <2>3. \A c \in Clients, v \in Writers : reserved'[c] \cap reserved'[v] = {}
    BY <1>2, <1>3, <1>4, Kinds DEF ReservedInv
  <2>4. NonePending' <=> NonePending
    BY <1>1 DEF NonePending
  <2>5. \A c \in Clients : at'[c] = at[c] /\ reserved'[c] = reserved[c]
    BY <1>5 DEF Removers
  <2> QED BY <1>1, <1>2, <2>1, <2>2, <2>3, <2>4, <2>5 DEF ReservedInv
<1> QED BY <1>6, <1>7, <1>8, <1>9 DEF Control

LEMMA OtherControl ==
  ASSUME Control, StoreTypes',
         UNCHANGED <<asks, place, readers, writer, queue, reserved, removals, retired, core>>, pending' \in BOOLEAN,
         at' = at \/ \E k \in Controls, next \in Places : at' = [at EXCEPT ![k] = next]
  PROVE  Control'
<1>1. UNCHANGED asks /\ UNCHANGED place /\ UNCHANGED readers /\ UNCHANGED writer /\ UNCHANGED queue
      /\ UNCHANGED reserved /\ UNCHANGED removals /\ UNCHANGED retired /\ UNCHANGED core
  OBVIOUS
<1>2. TaskTypes /\ StoreTypes /\ AsksInv /\ RecordInv /\ GateInv /\ ReservedInv
  BY DEF Control
<1>3. \A t \in Removers \cup Writers : at'[t] = at[t]
  BY <1>2, Kinds DEF TaskTypes, Removers
<1>4. TaskTypes'
  <2>1. at' \in [Tasks -> Places]
    BY <1>2, Kinds DEF TaskTypes
  <2> QED BY <1>1, <1>2, <2>1 DEF TaskTypes
<1>5. AsksInv' /\ RecordInv'
  BY <1>1, <1>2 DEF AsksInv, RecordInv
<1>6. GateInv'
  BY <1>1, <1>2, <1>3 DEF GateInv, Removers
<1>7. NonePending' <=> NonePending
  BY <1>1 DEF NonePending
<1>8. ReservedInv'
  BY <1>1, <1>2, <1>3, <1>7 DEF ReservedInv, Removers
<1> QED BY <1>4, <1>5, <1>6, <1>8, StoreTypes' DEF Control

(* A client moves from outside or inside the gate to outside of it. *)
LEMMA OutsideControl ==
  ASSUME Control, NEW c \in Clients, core = "up", NEW next \in Places \ (Inside \cup {"waiting"}),
         at' = [at EXCEPT ![c] = next], reserved' = [reserved EXCEPT ![c] = {}] \/ reserved' = reserved,
         writer' \subseteq writer, writer \ {c} \subseteq writer',
         UNCHANGED <<place, readers, queue, removals, retired, core>>, pending' \in BOOLEAN,
         StoreTypes', asks' \in [Clients -> SUBSET Requests], AsksInv', \A d \in Clients : d # c => asks'[d] = asks[d]
  PROVE  Control'
<1>1. UNCHANGED place /\ UNCHANGED readers /\ UNCHANGED queue /\ UNCHANGED removals /\ UNCHANGED retired
      /\ UNCHANGED core
  OBVIOUS
<1>2. TaskTypes /\ StoreTypes /\ AsksInv /\ RecordInv /\ GateInv /\ ReservedInv
  BY DEF Control
<1>3. \A t \in Tasks : t # c => at'[t] = at[t] /\ reserved'[t] = reserved[t]
  BY <1>2 DEF TaskTypes
<1>4. at'[c] = next /\ reserved'[c] \subseteq reserved[c]
  BY <1>2, Kinds DEF TaskTypes
<1>5. TaskTypes'
  <2>1. at' \in [Tasks -> Places]
    BY <1>2 DEF TaskTypes
  <2>2. reserved' \in [Tasks -> SUBSET Spaces]
    BY <1>2 DEF TaskTypes
  <2> QED BY <1>1, <1>2, <2>1, <2>2 DEF TaskTypes
<1>6. RecordInv'
  BY <1>1, <1>2 DEF RecordInv
<1>7. GateInv'
  <2>1. \A d \in Clients : at'[d] \in Inside => d \in writer'
    BY <1>2, <1>3, <1>4, Kinds DEF GateInv
  <2>2. \A d \in Clients : at'[d] = "waiting" => \E i \in 1..Len(queue') : queue'[i] = d
    BY <1>1, <1>2, <1>3, <1>4, Kinds DEF GateInv
  <2>3. \A d, e \in writer' : d = e
    BY <1>2 DEF GateInv
  <2>4. at'[Startup] = at[Startup] /\ core' = "up"
    BY <1>1, <1>3, Kinds
  <2> QED BY <1>2, <2>1, <2>2, <2>3, <2>4 DEF GateInv
<1>8. NonePending' <=> NonePending
  BY <1>1 DEF NonePending
<1>9. ReservedInv'
  <2>1. \A v \in Writers : at'[v] = at[v] /\ reserved'[v] = reserved[v]
    BY <1>3, Kinds
  <2>2. \A d \in Clients : reserved'[d] \subseteq reserved[d]
    BY <1>3, <1>4, Kinds
  <2>3. \A d \in Clients : at'[d] \in {"reserving", "planning"} =>
          at'[d] = at[d] /\ asks'[d] = asks[d] /\ reserved'[d] = reserved[d]
    BY <1>3, <1>4, Kinds DEF Inside
  <2>4. \A d \in Clients, v \in Writers : reserved'[d] \cap reserved'[v] = {}
    BY <1>2, <2>1, <2>2 DEF ReservedInv
  <2>5. \A v \in Writers : at'[v] = "owning" => reserved'[v] = place'[v]
    BY <1>1, <1>2, <2>1 DEF ReservedInv
  <2>6. \A v \in Writers : reserved'[v] \cap retired' = {}
    BY <1>1, <1>2, <2>1 DEF ReservedInv
  <2> QED BY <1>1, <1>2, <1>8, <2>3, <2>4, <2>5, <2>6 DEF ReservedInv
<1> QED BY <1>5, <1>6, <1>7, <1>9 DEF Control

(* A task goes on inside: a client with the gate, or the recovery. *)
LEMMA InsideControl ==
  ASSUME Control, NEW t \in Removers, NEW next \in Places \ {"waiting"}, at' = [at EXCEPT ![t] = next],
         t \in Clients => core = "up" /\ at[t] \in Inside /\ next \in Inside,
         t = Startup => core = "starting" /\ (next \in Stages \cup {"opening"}),
         next \notin {"reserving", "planning"},
         UNCHANGED <<asks, place, readers, writer, queue, reserved, core>>, pending' \in BOOLEAN,
         retired' \subseteq Spaces, \A w \in Writers : reserved[w] \cap retired' = {}, StoreTypes', RecordInv'
  PROVE  Control'
<1>1. UNCHANGED asks /\ UNCHANGED place /\ UNCHANGED readers /\ UNCHANGED writer /\ UNCHANGED queue
      /\ UNCHANGED reserved /\ UNCHANGED core
  OBVIOUS
<1>2. TaskTypes /\ StoreTypes /\ AsksInv /\ RecordInv /\ GateInv /\ ReservedInv
  BY DEF Control
<1>3. t \in Tasks /\ (\A u \in Tasks : u # t => at'[u] = at[u]) /\ at'[t] = next
  BY <1>2, Kinds DEF TaskTypes
<1>4. TaskTypes'
  <2>1. at' \in [Tasks -> Places]
    BY <1>2 DEF TaskTypes
  <2> QED BY <1>1, <1>2, <2>1 DEF TaskTypes
<1>5. AsksInv'
  BY <1>1, <1>2 DEF AsksInv
<1>6. GateInv'
  <2>1. \A c \in Clients : at'[c] \in Inside => c \in writer'
    BY <1>1, <1>2, <1>3, Kinds DEF GateInv
  <2>2. \A c \in Clients : at'[c] = "waiting" => at[c] = "waiting"
    BY <1>3, Kinds
  <2>3. at'[Startup] \in Stages \cup {"opening"} => core' = "starting"
    BY <1>1, <1>2, <1>3, Kinds DEF GateInv
  <2>4. core' # "up" => \A c \in Clients : at'[c] \notin Inside \cup {"waiting"}
    BY <1>1, <1>2, <1>3, Kinds DEF GateInv, Removers
  <2>5. \A w \in Writers : at'[w] = at[w]
    BY <1>3, Kinds DEF Removers
  <2> QED BY <1>1, <1>2, <2>1, <2>2, <2>3, <2>4, <2>5 DEF GateInv
<1>7. ReservedInv'
  <2>1. \A c \in Clients : at'[c] \notin {"reserving", "planning"}
    <3>1. CASE t = Startup
      BY <1>2, <1>3, <3>1, Kinds DEF GateInv, Inside
    <3>2. CASE t \in Clients
      <4>1. \A c \in Clients : at[c] \in Inside => c = t
        BY <1>2, <3>2 DEF GateInv
      <4> QED BY <1>3, <4>1, Kinds DEF Inside
    <3> QED BY <3>1, <3>2 DEF Removers
  <2>2. \A w \in Writers : at'[w] = at[w]
    BY <1>3, Kinds DEF Removers
  <2> QED BY <1>1, <1>2, <2>1, <2>2 DEF ReservedInv
<1> QED BY <1>4, <1>5, <1>6, <1>7 DEF Control
----------------------------------------------------------------------------
LEMMA DataParts == Data <=> FenceInv /\ SettingsInv /\ EmptiedInv /\ DoneInv /\ ImageInv
BY DEF Data

(* A step that changes no store, and brings nobody past a stage. *)
LEMMA DataAside ==
  ASSUME Data, UNCHANGED <<files, vectors, rows, trash, disk, settings, removals, retired, pending, core, late>>,
         \A t \in Removers : at'[t] \in Imported => at'[t] = at[t] /\ listed' = listed,
         at'[Startup] = "opening" => at[Startup] = "opening"
  PROVE  Data'
<1>1. UNCHANGED files /\ UNCHANGED vectors /\ UNCHANGED rows /\ UNCHANGED trash /\ UNCHANGED disk
      /\ UNCHANGED settings /\ UNCHANGED removals /\ UNCHANGED retired /\ UNCHANGED pending /\ UNCHANGED core
      /\ UNCHANGED late
  OBVIOUS
<1>2. \A t \in Removers : at'[t] \in Imported => at[t] = at'[t]
  OBVIOUS
<1>3. \A t \in Removers : at'[t] \in Configured => at[t] \in Configured
  BY <1>2 DEF Imported
<1>4. \A t \in Removers : at'[t] \in Emptied => at[t] \in Emptied
  BY <1>2 DEF Imported, Configured
<1>5. \A t \in Removers : at'[t] \in Dropped => at[t] \in Dropped
  BY <1>2 DEF Imported, Configured, Emptied
<1>6. \A t \in Removers : at'[t] = "deleting" => at[t] = "deleting" /\ listed' = listed
  BY DEF Imported, Configured, Emptied, Dropped
<1>7. at'[Startup] = "opening" => at[Startup] = "opening"
  OBVIOUS
<1>8. FenceInv'
  <2>1. NonePending' <=> NonePending
    BY <1>1 DEF NonePending
  <2> QED BY <1>1, <1>7, <2>1 DEF Data, FenceInv
<1>9. SettingsInv'
  BY <1>1, <1>3 DEF Data, SettingsInv
<1>10. EmptiedInv'
  BY <1>1, <1>4, <1>5, <1>6 DEF Data, EmptiedInv
<1>11. DoneInv'
  BY <1>1 DEF Data, DoneInv
<1>12. ImageInv'
  BY <1>1, <1>2 DEF Data, ImageInv
<1> QED BY <1>8, <1>9, <1>10, <1>11, <1>12 DEF Data
----------------------------------------------------------------------------
(* Requests, commits and responses. *)
LEMMA WriterAside ==
  ASSUME RemovalInv, NEW w \in Writers, core = "up", NEW next \in Places, NEW S \in SUBSET Spaces,
         at' = [at EXCEPT ![w] = next], reserved' = [reserved EXCEPT ![w] = S],
         next = "owning" => S = place'[w], S \cap retired = {}, \A c \in Clients : S \cap reserved[c] = {},
         readers' \subseteq Writers, place' \in [Writers -> SUBSET Spaces],
         \A v \in Writers : \A s, z \in place'[v] : s = z, \A v \in Writers : v # w => place'[v] = place[v],
         UNCHANGED <<asks, writer, queue, files, vectors, rows, trash, disk, settings, removals, retired, pending,
                     listed, core, late>>
  PROVE  RemovalInv'
<1>1. Control /\ Data /\ TaskTypes /\ StoreTypes
  BY DEF RemovalInv, Control
<1>2. StoreTypes'
  BY <1>1 DEF StoreTypes
<1>3. Control'
  BY <1>1, <1>2, WriterControl
<1>4. \A t \in Removers : at'[t] = at[t]
  BY <1>1, Kinds DEF TaskTypes, Removers
<1>5. Data'
  BY <1>1, <1>4, DataAside DEF Removers
<1> QED BY <1>3, <1>5 DEF RemovalInv

LEMMA ReservedAsBefore ==
  ASSUME Control, NEW w \in Writers
  PROVE  /\ reserved = [reserved EXCEPT ![w] = reserved[w]] /\ reserved[w] \in SUBSET Spaces
         /\ reserved[w] \cap retired = {} /\ \A c \in Clients : reserved[w] \cap reserved[c] = {}
<1>1. TaskTypes /\ ReservedInv
  BY DEF Control
<1>2. w \in Tasks
  BY Kinds
<1> QED BY <1>1, <1>2 DEF TaskTypes, ReservedInv

LEMMA LeavePlaces == {"refused", "done", "gone", "admitted", "entered", "owning", "answering"} \subseteq Places
BY DEF Places, Quiet, Active

LEMMA AdmitStep ==
  ASSUME RemovalInv, NEW w \in Writers, NEW s \in Spaces, Admit(w, s)
  PROVE  RemovalInv'
<1>1. Control /\ TaskTypes /\ AsksInv
  BY DEF RemovalInv, Control
<1>2. /\ core = "up" /\ at' = [at EXCEPT ![w] = "admitted"] /\ readers' = readers \cup {w}
      /\ place' = [place EXCEPT ![w] = {s}] /\ reserved' = reserved
      /\ UNCHANGED <<asks, writer, queue, files, vectors, rows, trash, disk, settings, removals, retired, pending,
                     listed, core, late>>
  BY DEF Admit, Readable, Move, local, memory, bounds
<1>3. /\ readers' \subseteq Writers /\ place' \in [Writers -> SUBSET Spaces]
      /\ \A v \in Writers : v # w => place'[v] = place[v]
  BY <1>1, <1>2 DEF TaskTypes
<1>4. \A v \in Writers : \A x, z \in place'[v] : x = z
  BY <1>1, <1>2 DEF TaskTypes, AsksInv
<1>5. "admitted" \in Places
  BY LeavePlaces
<1>6. /\ reserved' = [reserved EXCEPT ![w] = reserved[w]] /\ reserved[w] \in SUBSET Spaces
      /\ reserved[w] \cap retired = {} /\ \A c \in Clients : reserved[w] \cap reserved[c] = {}
  BY <1>1, <1>2, ReservedAsBefore
<1> QED BY <1>2, <1>3, <1>4, <1>5, <1>6, WriterAside

LEMMA PlacesAsBefore ==
  ASSUME Control, UNCHANGED place
  PROVE  /\ place' \in [Writers -> SUBSET Spaces] /\ \A v \in Writers : \A s, z \in place'[v] : s = z
         /\ \A v \in Writers : place'[v] = place[v]
BY DEF Control, TaskTypes, AsksInv

LEMMA WorkStep ==
  ASSUME RemovalInv, NEW w \in Writers, Work(w)
  PROVE  RemovalInv'
<1>1. Control /\ TaskTypes /\ AsksInv
  BY DEF RemovalInv, Control
<1>2. /\ core = "up"
      /\ UNCHANGED <<asks, place, writer, queue, files, vectors, rows, trash, disk, settings, removals, retired,
                     pending, listed, core, late>>
  BY DEF Work, memory, bounds
<1>3. UNCHANGED place
  BY <1>2
<1>4. ASSUME NEW next \in Places \ {"owning"}, at' = [at EXCEPT ![w] = next], readers' = readers, reserved' = reserved
      PROVE  RemovalInv'
  <2> DEFINE S == reserved[w]
  <2>1. readers' \subseteq Writers /\ next \in Places /\ (next = "owning" => S = place'[w])
    BY <1>1, <1>4 DEF TaskTypes
  <2>2. /\ place' \in [Writers -> SUBSET Spaces] /\ \A v \in Writers : \A s, z \in place'[v] : s = z
        /\ \A v \in Writers : v # w => place'[v] = place[v]
    BY <1>1, <1>3, PlacesAsBefore
  <2>3. /\ reserved' = [reserved EXCEPT ![w] = S] /\ S \in SUBSET Spaces
        /\ S \cap retired = {} /\ \A c \in Clients : S \cap reserved[c] = {}
    BY <1>1, <1>2, <1>4, ReservedAsBefore
  <2> HIDE DEF S
  <2> QED BY <1>2, <1>4, <2>1, <2>2, <2>3, WriterAside
<1>5. ASSUME NEW next, Leave(w, next), next \in {"refused", "gone"} PROVE RemovalInv'
  <2>1. /\ at' = [at EXCEPT ![w] = next] /\ reserved' = [reserved EXCEPT ![w] = {}] /\ readers' \subseteq Writers
        /\ next \in Places /\ next # "owning"
    BY <1>1, <1>5, LeavePlaces DEF Leave, Move, TaskTypes
  <2> QED BY <1>1, <1>2, <1>3, <2>1, PlacesAsBefore, WriterAside
<1>6. CASE Enter(w)
  BY <1>4, <1>5, <1>6, LeavePlaces DEF Enter, Move
<1>7. ASSUME NEW s \in place[w], Own(w, s) PROVE RemovalInv'
  <2>1. s \in Spaces /\ place[w] = {s}
    BY <1>1, <1>7 DEF TaskTypes, AsksInv
  <2>2. CASE s \notin retired
    <3>1. at' = [at EXCEPT ![w] = "owning"] /\ reserved' = [reserved EXCEPT ![w] = {s}] /\ readers' = readers
      BY <1>7, <2>2 DEF Own, Move
    <3>2. \A c \in Clients : {s} \cap reserved[c] = {}
      BY <1>7, Kinds DEF Own, Free
    <3>3. {s} \in SUBSET Spaces /\ {s} \cap retired = {} /\ place'[w] = {s} /\ readers' \subseteq Writers
      BY <1>1, <1>3, <2>1, <2>2, <3>1 DEF TaskTypes
    <3> QED BY <1>1, <1>2, <1>3, <3>1, <3>2, <3>3, LeavePlaces, PlacesAsBefore, WriterAside
  <2>3. CASE s \in retired
    BY <1>5, <1>7, <2>3 DEF Own
  <2> QED BY <2>2, <2>3
<1>8. ASSUME NEW s \in place[w], Begin(w, s) PROVE RemovalInv'
  BY <1>4, <1>8, LeavePlaces DEF Begin, Move
<1> QED BY <1>6, <1>7, <1>8 DEF Work

LEMMA GiveUpStep ==
  ASSUME RemovalInv, NEW w \in Writers, GiveUp(w)
  PROVE  RemovalInv'
<1>1. Control /\ TaskTypes
  BY DEF RemovalInv, Control
<1>2. /\ core = "up" /\ at' = [at EXCEPT ![w] = "gone"] /\ reserved' = [reserved EXCEPT ![w] = {}]
      /\ readers' = readers \ {w} /\ UNCHANGED place
      /\ UNCHANGED <<asks, writer, queue, files, vectors, rows, trash, disk, settings, removals, retired,
                     pending, listed, core, late>>
  BY DEF GiveUp, Leave, Move, local, memory, bounds
<1>3. readers' \subseteq Writers /\ "gone" \in Places
  BY <1>1, <1>2, LeavePlaces DEF TaskTypes
<1>4. /\ place' \in [Writers -> SUBSET Spaces] /\ \A v \in Writers : \A s, z \in place'[v] : s = z
      /\ \A v \in Writers : v # w => place'[v] = place[v]
  BY <1>1, <1>2, PlacesAsBefore
<1>5. {} \in SUBSET Spaces /\ {} \cap retired = {} /\ \A c \in Clients : {} \cap reserved[c] = {}
  OBVIOUS
<1> QED BY <1>2, <1>3, <1>4, <1>5, WriterAside

LEMMA DisconnectStep ==
  ASSUME RemovalInv, NEW w \in Writers, Disconnect(w)
  PROVE  RemovalInv'
<1>1. Control /\ TaskTypes /\ ReservedInv
  BY DEF RemovalInv, Control
<1>2. /\ core = "up" /\ at' = at /\ reserved' = reserved /\ readers' = readers \ {w} /\ UNCHANGED place
      /\ UNCHANGED <<asks, writer, queue, files, vectors, rows, trash, disk, settings, removals, retired,
                     pending, listed, core, late>>
  BY DEF Disconnect, local, memory, bounds
<1> DEFINE next == at[w]
           S == reserved[w]
<1>3. at' = [at EXCEPT ![w] = next] /\ next \in Places /\ readers' \subseteq Writers
  BY <1>1, <1>2, Kinds DEF TaskTypes
<1>4. next = "owning" => S = place'[w]
  BY <1>1, <1>2 DEF ReservedInv
<1>5. /\ place' \in [Writers -> SUBSET Spaces] /\ \A v \in Writers : \A s, z \in place'[v] : s = z
      /\ \A v \in Writers : v # w => place'[v] = place[v]
  BY <1>1, <1>2, PlacesAsBefore
<1>6. /\ reserved' = [reserved EXCEPT ![w] = S] /\ S \in SUBSET Spaces
      /\ S \cap retired = {} /\ \A c \in Clients : S \cap reserved[c] = {}
  BY <1>1, <1>2, ReservedAsBefore
<1> HIDE DEF next, S
<1> QED BY <1>2, <1>3, <1>4, <1>5, <1>6, WriterAside
----------------------------------------------------------------------------
(* What is not retired is not fenced, and what is not fenced is free to    *)
(* change: no removal, done or not, is about it.                           *)
LEMMA LiveIsUnfenced ==
  ASSUME RemovalInv, core = "up", NEW s \in Spaces, s \notin retired
  PROVE  ~Fenced(s)
<1>1. FenceInv
  BY DEF RemovalInv, Data
<1>2. \A o \in Operations : \A r \in removals[o] : ~r.done => Touched(r.asks) \subseteq retired
  BY <1>1 DEF FenceInv
<1>3. \A o \in Operations : \A r \in removals[o] : r.done => r.asks.source \in retired
  BY <1>1 DEF FenceInv
<1>4. \A o \in Operations : \A r \in removals[o] :
        (r.asks.source = s => s \in Touched(r.asks)) /\ (r.asks.target = s => s \in Touched(r.asks))
  BY DEF Touched
<1>5. \A o \in Operations : \A r \in removals[o] : r.done \/ ~r.done
  OBVIOUS
<1> QED BY <1>2, <1>3, <1>4, <1>5 DEF Fenced

LEMMA UnfencedData ==
  ASSUME RemovalInv, NEW s \in Spaces, ~Fenced(s),
         \A z \in Spaces : z # s => files'[z] = files[z] /\ rows'[z] = rows[z] /\ (z \in vectors' <=> z \in vectors),
         UNCHANGED <<trash, disk, settings, removals, retired, pending, listed, core, late>>,
         \A t \in Removers : at'[t] = at[t]
  PROVE  Data'
<1>1. UNCHANGED trash /\ UNCHANGED disk /\ UNCHANGED settings /\ UNCHANGED removals /\ UNCHANGED retired
      /\ UNCHANGED pending /\ UNCHANGED listed /\ UNCHANGED core /\ UNCHANGED late
  OBVIOUS
<1>2. Data /\ StoreTypes
  BY DEF RemovalInv, Control
<1>3. \A o \in Operations : \A r \in removals[o] : r.asks.source \in Spaces /\ r.asks.source # s
  BY <1>2 DEF StoreTypes, Removals, Requests, Fenced
<1>4. \A o \in Operations : \A r \in removals[o] : ~r.done /\ r.asks.target # Nowhere =>
        r.asks.target \in Spaces /\ r.asks.target # s
  BY <1>2 DEF StoreTypes, Removals, Requests, Fenced
<1>5. FenceInv'
  <2>1. NonePending' <=> NonePending
    BY <1>1 DEF NonePending
  <2>2. at'[Startup] = at[Startup]
    BY DEF Removers
  <2> QED BY <1>1, <1>2, <2>1, <2>2 DEF Data, FenceInv
<1>6. SettingsInv'
  BY <1>1, <1>2 DEF Data, SettingsInv
<1>7. EmptiedInv'
  BY <1>1, <1>2, <1>3 DEF Data, EmptiedInv
<1>8. DoneInv'
  BY <1>1, <1>2, <1>3 DEF Data, DoneInv
<1>9. ImageInv'
  BY <1>1, <1>2, <1>3, <1>4 DEF Data, ImageInv
<1> QED BY <1>5, <1>6, <1>7, <1>8, <1>9 DEF Data

LEMMA LeaveControl ==
  ASSUME Control, NEW w \in Writers, core = "up", Leave(w, "done"), StoreTypes',
         UNCHANGED <<place, asks, writer, queue, removals, retired, pending, core>>
  PROVE  Control'
<1>1. TaskTypes
  BY DEF Control
<1>2. /\ at' = [at EXCEPT ![w] = "done"] /\ reserved' = [reserved EXCEPT ![w] = {}]
      /\ readers' \subseteq Writers /\ "done" \in Places
  BY <1>1, LeavePlaces DEF TaskTypes, Leave, Move
<1>3. /\ place' \in [Writers -> SUBSET Spaces] /\ \A v \in Writers : \A x, z \in place'[v] : x = z
      /\ \A v \in Writers : v # w => place'[v] = place[v]
  BY PlacesAsBefore
<1>4. {} \in SUBSET Spaces /\ {} \cap retired = {} /\ \A c \in Clients : {} \cap reserved[c] = {}
  OBVIOUS
<1>5. UNCHANGED <<asks, writer, queue, removals, retired, pending, core>>
  OBVIOUS
<1> QED BY <1>2, <1>3, <1>4, <1>5, WriterControl

LEMMA CommitStep ==
  ASSUME RemovalInv, NEW w \in Writers, NEW s \in place[w], NEW d \in Docs, Commit(w, s, d)
  PROVE  RemovalInv'
<1>1. Control /\ TaskTypes /\ StoreTypes /\ ReservedInv /\ AsksInv
  BY DEF RemovalInv, Control
<1>2. /\ core = "up" /\ at[w] = "owning" /\ files' = [files EXCEPT ![s] = @ \cup {d}] /\ vectors' = vectors \cup {s}
      /\ Leave(w, "done") /\ at' = [at EXCEPT ![w] = "done"] /\ UNCHANGED place
      /\ UNCHANGED <<asks, writer, queue, rows, trash, disk, settings, removals, retired, pending, listed, core, late>>
  BY DEF Commit, Leave, Move, memory
<1>3. s \in Spaces /\ s \notin retired
  BY <1>1, <1>2 DEF TaskTypes, ReservedInv
<1>4. UNCHANGED rows /\ UNCHANGED trash /\ UNCHANGED disk /\ UNCHANGED settings /\ UNCHANGED removals /\ UNCHANGED listed
  BY <1>2
<1>5. StoreTypes'
  BY <1>1, <1>2, <1>3, <1>4 DEF StoreTypes
<1>6. Control'
  BY <1>1, <1>2, <1>5, LeaveControl
<1>7. \A t \in Removers : at'[t] = at[t]
  BY <1>1, <1>2, Kinds DEF TaskTypes, Removers
<1>8. \A z \in Spaces : z # s => files'[z] = files[z] /\ rows'[z] = rows[z] /\ (z \in vectors' <=> z \in vectors)
  BY <1>1, <1>2, <1>4 DEF StoreTypes
<1>9. Data'
  BY <1>2, <1>3, <1>7, <1>8, LiveIsUnfenced, UnfencedData
<1> QED BY <1>6, <1>9 DEF RemovalInv

LEMMA CompleteStep ==
  ASSUME RemovalInv, NEW w \in Writers, NEW s \in place[w], NEW x \in Rows, Complete(w, s, x)
  PROVE  RemovalInv'
<1>1. Control /\ TaskTypes /\ StoreTypes /\ AsksInv
  BY DEF RemovalInv, Control
<1>2. /\ core = "up" /\ ~Fenced(s) /\ rows' = [rows EXCEPT ![s] = @ \cup {x}]
      /\ Leave(w, "done") /\ at' = [at EXCEPT ![w] = "done"] /\ UNCHANGED place
      /\ UNCHANGED <<asks, writer, queue, files, vectors, trash, disk, settings, removals, retired, pending, listed,
                     core, late>>
  BY DEF Complete, Leave, Move, memory
<1>3. s \in Spaces
  BY <1>1 DEF TaskTypes
<1>4. UNCHANGED files /\ UNCHANGED vectors /\ UNCHANGED trash /\ UNCHANGED disk /\ UNCHANGED settings
      /\ UNCHANGED removals /\ UNCHANGED listed
  BY <1>2
<1>5. StoreTypes'
  BY <1>1, <1>2, <1>3, <1>4 DEF StoreTypes
<1>6. Control'
  BY <1>1, <1>2, <1>5, LeaveControl
<1>7. \A t \in Removers : at'[t] = at[t]
  BY <1>1, <1>2, Kinds DEF TaskTypes, Removers
<1>8. \A z \in Spaces : z # s => files'[z] = files[z] /\ rows'[z] = rows[z] /\ (z \in vectors' <=> z \in vectors)
  BY <1>1, <1>2, <1>4 DEF StoreTypes
<1>9. Data'
  BY <1>2, <1>3, <1>7, <1>8, UnfencedData
<1> QED BY <1>6, <1>9 DEF RemovalInv
----------------------------------------------------------------------------
(* Controls and settings. *)
LEMMA SubmitControlStep ==
  ASSUME RemovalInv, NEW k \in Controls, SubmitControl(k)
  PROVE  RemovalInv'
<1>1. Control /\ Data /\ TaskTypes /\ StoreTypes
  BY DEF RemovalInv, Control
<1>2. /\ at' = [at EXCEPT ![k] = "owning"]
      /\ UNCHANGED <<asks, place, readers, writer, queue, reserved, removals, retired, core>> /\ UNCHANGED pending
      /\ UNCHANGED <<files, vectors, rows, trash, disk, settings, removals, retired, pending, core, late>>
      /\ UNCHANGED listed
  BY DEF SubmitControl, Move, gate, local, memory, bounds
<1>3. StoreTypes'
  BY <1>1, <1>2 DEF StoreTypes
<1>4. Control'
  <2>1. pending' \in BOOLEAN /\ "owning" \in Places
    BY <1>1, <1>2, LeavePlaces DEF TaskTypes
  <2>2. \E j \in Controls, next \in Places : at' = [at EXCEPT ![j] = next]
    BY <1>2, <2>1
  <2> QED BY <1>1, <1>2, <1>3, <2>1, <2>2, OtherControl
<1>5. \A t \in Removers : at'[t] = at[t]
  BY <1>1, <1>2, Kinds DEF TaskTypes, Removers
<1>6. Data'
  BY <1>1, <1>2, <1>5, DataAside
<1> QED BY <1>4, <1>6 DEF RemovalInv

LEMMA DeleteRowStep ==
  ASSUME RemovalInv, NEW k \in Controls, NEW s \in Spaces, NEW x \in Rows, DeleteRow(k, s, x)
  PROVE  RemovalInv'
<1>1. Control /\ Data /\ TaskTypes /\ StoreTypes /\ RecordInv
  BY DEF RemovalInv, Control
<1>2. /\ x \in rows[s] /\ at' = [at EXCEPT ![k] = "done"]
      /\ rows' = [rows EXCEPT ![s] = @ \ {x}] /\ trash' = [trash EXCEPT ![s] = @ \cup {x}]
      /\ late' = IF Finishing(s) THEN late \cup {x} ELSE late
      /\ UNCHANGED <<asks, place, readers, writer, queue, reserved, removals, retired, core>>
      /\ UNCHANGED files /\ UNCHANGED vectors /\ UNCHANGED disk /\ UNCHANGED settings /\ UNCHANGED removals
      /\ UNCHANGED retired /\ UNCHANGED pending /\ UNCHANGED listed /\ UNCHANGED core
  BY DEF DeleteRow, Move, gate, memory
<1>3. StoreTypes'
  BY <1>1, <1>2 DEF StoreTypes
<1>4. Control'
  <2>1. pending' \in BOOLEAN /\ "done" \in Places
    BY <1>1, <1>2, LeavePlaces DEF TaskTypes
  <2>2. \E j \in Controls, next \in Places : at' = [at EXCEPT ![j] = next]
    BY <1>2, <2>1
  <2> QED BY <1>1, <1>2, <1>3, <2>1, <2>2, OtherControl
<1>5. \A t \in Removers : at'[t] = at[t]
  BY <1>1, <1>2, Kinds DEF TaskTypes, Removers
<1>6. \A z \in Spaces : rows'[z] \cup trash'[z] = rows[z] \cup trash[z] /\ trash'[z] \subseteq trash[z] \cup {x}
                        /\ rows'[z] \subseteq rows[z] /\ (z # s => trash'[z] = trash[z])
  BY <1>1, <1>2 DEF StoreTypes
<1>7. late \subseteq late'
  BY <1>2
<1>8. \A o \in Operations : \A r \in removals[o] : ~r.done /\ r.asks.target = Nowhere /\ r.asks.source = s => x \in late'
  <2> SUFFICES ASSUME NEW o \in Operations, NEW r \in removals[o], ~r.done, r.asks.target = Nowhere, r.asks.source = s
               PROVE  x \in late'
    OBVIOUS
  <2>1. o \in Pending /\ Record(o) = r
    BY <1>1, RecordIs DEF Pending
  <2> QED BY <1>2, <2>1 DEF Finishing
<1>9. \A o \in Operations : \A r \in removals[o] : r.asks.source \in Spaces
  BY <1>1 DEF StoreTypes, Removals, Requests
<1>10. FenceInv'
  <2>1. NonePending' <=> NonePending
    BY <1>2 DEF NonePending
  <2>2. at'[Startup] = at[Startup]
    BY <1>5 DEF Removers
  <2> QED BY <1>1, <1>2, <2>1, <2>2 DEF Data, FenceInv
<1>11. SettingsInv'
  BY <1>1, <1>2, <1>5 DEF Data, SettingsInv
<1>12. EmptiedInv'
  <2>1. \A t \in Removers, o \in Operations : \A r \in removals[o] :
          at[t] = "deleting" /\ ~r.done /\ r.asks.target = Nowhere => trash'[r.asks.source] \subseteq listed \cup late'
    BY <1>1, <1>6, <1>7, <1>8, <1>9 DEF Data, EmptiedInv
  <2> QED BY <1>1, <1>2, <1>5, <2>1 DEF Data, EmptiedInv
<1>13. DoneInv'
  <2>1. \A o \in Operations : \A r \in removals[o] : r.done => r.asks.source # s
    BY <1>1, <1>2 DEF Data, DoneInv
  <2>2. \A o \in Operations : \A r \in removals[o] : r.done => rows'[r.asks.source] = {}
    BY <1>1, <1>6, <1>9 DEF Data, DoneInv
  <2>3. \A o \in Operations : \A r \in removals[o] : r.done => trash'[r.asks.source] \subseteq late'
    BY <1>1, <1>6, <1>7, <1>9, <2>1 DEF Data, DoneInv
  <2> QED BY <1>1, <1>2, <2>2, <2>3 DEF Data, DoneInv
<1>14. ImageInv'
  BY <1>1, <1>2, <1>5, <1>6, <1>9 DEF Data, ImageInv
<1> QED BY <1>4, <1>10, <1>11, <1>12, <1>13, <1>14 DEF RemovalInv, Data

LEMMA OverrideStep ==
  ASSUME RemovalInv, NEW s \in Spaces, NEW v \in Values \cup {Default}, Override(s, v)
  PROVE  RemovalInv'
<1>1. Control /\ Data /\ TaskTypes /\ StoreTypes
  BY DEF RemovalInv, Control
<1>2. /\ core = "up" /\ ~pending /\ s \notin retired
      /\ settings' = [revision |-> settings.revision + 1, overrides |-> [settings.overrides EXCEPT ![s] = v]]
      /\ disk' = settings'
      /\ UNCHANGED <<asks, place, readers, writer, queue, reserved, removals, retired, core>>
      /\ UNCHANGED at /\ UNCHANGED files /\ UNCHANGED vectors /\ UNCHANGED rows /\ UNCHANGED trash
      /\ UNCHANGED removals /\ UNCHANGED retired /\ UNCHANGED pending /\ UNCHANGED listed /\ UNCHANGED core
      /\ UNCHANGED late
  BY DEF Override, Readable, gate, local, memory, bounds
<1>3. NonePending /\ settings = disk
  BY <1>1, <1>2 DEF Data, FenceInv, SettingsInv, NonePending
<1>4. settings' \in Resources
  <2>1. settings \in Resources
    BY <1>1 DEF StoreTypes
  <2>2. settings.revision + 1 \in Nat /\ [settings.overrides EXCEPT ![s] = v] \in [Spaces -> Values \cup {Default}]
    BY <2>1 DEF Resources
  <2> QED BY <1>2, <2>2 DEF Resources
<1>5. StoreTypes'
  BY <1>1, <1>2, <1>4 DEF StoreTypes
<1>6. Control'
  <2>1. pending' \in BOOLEAN
    BY <1>1, <1>2 DEF TaskTypes
  <2> QED BY <1>1, <1>2, <1>5, <2>1, OtherControl
<1>7. \A z \in Spaces : z # s => disk'.overrides[z] = disk.overrides[z]
  BY <1>1, <1>2, <1>3 DEF StoreTypes, Resources
<1>8. \A o \in Operations : \A r \in removals[o] : r.done
  BY <1>3 DEF NonePending
<1>9. \A o \in Operations : \A r \in removals[o] : r.asks.source \in Spaces /\ r.asks.source \in retired
  BY <1>1, <1>2, <1>8 DEF StoreTypes, Removals, Requests, Data, FenceInv
<1>10. FenceInv'
  <2>1. NonePending' <=> NonePending
    BY <1>2 DEF NonePending
  <2> QED BY <1>1, <1>2, <2>1 DEF Data, FenceInv
<1>11. SettingsInv'
  <2>1. \A o \in Operations : \A r \in removals'[o] : r.done
    BY <1>2, <1>8
  <2>2. \A o \in Operations : \A r \in removals'[o] : \A i, j \in r.settings : i = j
    BY <1>1, <1>2 DEF Data, SettingsInv
  <2> QED BY <1>2, <2>1, <2>2 DEF SettingsInv
<1>12. EmptiedInv' /\ ImageInv'
  BY <1>2, <1>8 DEF EmptiedInv, ImageInv
<1>13. DoneInv'
  <2>1. \A o \in Operations : \A r \in removals'[o] : r.done => disk'.overrides[r.asks.source] = Default
    BY <1>1, <1>2, <1>7, <1>9 DEF Data, DoneInv
  <2> QED BY <1>1, <1>2, <2>1 DEF Data, DoneInv
<1> QED BY <1>6, <1>10, <1>11, <1>12, <1>13 DEF RemovalInv, Data
----------------------------------------------------------------------------
(* A client moves on before its removal has changed anything. *)
LEMMA ClientControl ==
  ASSUME Control, NEW c \in Clients, core = "up", NEW next \in Places, at' = [at EXCEPT ![c] = next],
         reserved' \in [Tasks -> SUBSET Spaces], \A t \in Tasks : t # c => reserved'[t] = reserved[t],
         writer' \subseteq Clients, \A d, e \in writer' : d = e, writer \ {c} \subseteq writer',
         next \in Inside => c \in writer',
         queue' \in Seq(Clients), next = "waiting" => \E i \in 1..Len(queue') : queue'[i] = c,
         \A d \in Clients : d # c /\ (\E i \in 1..Len(queue) : queue[i] = d) => \E i \in 1..Len(queue') : queue'[i] = d,
         \A w \in Writers : reserved'[c] \cap reserved[w] = {},
         next \in {"reserving", "planning"} => NonePending /\ \A q \in asks[c] : removals[q.op] = {},
         next = "planning" => \A q \in asks[c] : Touched(q) \subseteq reserved'[c] /\ Touched(q) \cap retired = {},
         UNCHANGED <<asks, place, readers, removals, retired, pending, core>>, StoreTypes'
  PROVE  Control'
<1>1. UNCHANGED asks /\ UNCHANGED place /\ UNCHANGED readers /\ UNCHANGED removals /\ UNCHANGED retired
      /\ UNCHANGED pending /\ UNCHANGED core
  OBVIOUS
<1>2. TaskTypes /\ StoreTypes /\ AsksInv /\ RecordInv /\ GateInv /\ ReservedInv
  BY DEF Control
<1>3. \A t \in Tasks : t # c => at'[t] = at[t] /\ reserved'[t] = reserved[t]
  BY <1>2 DEF TaskTypes
<1>4. at'[c] = next
  BY <1>2, Kinds DEF TaskTypes
<1>5. TaskTypes'
  <2>1. at' \in [Tasks -> Places]
    BY <1>2 DEF TaskTypes
  <2> QED BY <1>1, <1>2, <2>1 DEF TaskTypes
<1>6. AsksInv' /\ RecordInv'
  BY <1>1, <1>2 DEF AsksInv, RecordInv
<1>7. GateInv'
  <2>1. \A d \in Clients : at'[d] \in Inside => d \in writer'
    BY <1>2, <1>3, <1>4, Kinds DEF GateInv
  <2>2. \A d \in Clients : at'[d] = "waiting" => \E i \in 1..Len(queue') : queue'[i] = d
    BY <1>2, <1>3, <1>4, Kinds DEF GateInv
  <2>3. at'[Startup] = at[Startup] /\ core' = "up"
    BY <1>1, <1>3, Kinds
  <2> QED BY <1>2, <2>1, <2>2, <2>3 DEF GateInv
<1>8. NonePending' <=> NonePending
  BY <1>1 DEF NonePending
<1>9. ReservedInv'
  <2>1. \A v \in Writers : at'[v] = at[v] /\ reserved'[v] = reserved[v]
    BY <1>3, Kinds
  <2>2. \A d \in Clients, v \in Writers : reserved'[d] \cap reserved'[v] = {}
    <3>1. \A d \in Clients, v \in Writers : d # c => reserved'[d] = reserved[d]
      BY <1>3, Kinds
    <3> QED BY <1>2, <2>1, <3>1 DEF ReservedInv
  <2>3. \A d \in Clients : at'[d] \in {"reserving", "planning"} => NonePending
    BY <1>2, <1>3, <1>4, Kinds DEF ReservedInv
  <2>4. \A d \in Clients : at'[d] \in {"reserving", "planning"} => \A q \in asks[d] : removals[q.op] = {}
    BY <1>2, <1>3, <1>4, Kinds DEF ReservedInv
  <2>5. \A d \in Clients : at'[d] = "planning" =>
          \A q \in asks[d] : Touched(q) \subseteq reserved'[d] /\ Touched(q) \cap retired = {}
    BY <1>2, <1>3, <1>4, Kinds DEF ReservedInv
  <2>6. \A v \in Writers : at'[v] = "owning" => reserved'[v] = place'[v]
    BY <1>1, <1>2, <2>1 DEF ReservedInv
  <2>7. \A v \in Writers : reserved'[v] \cap retired' = {}
    BY <1>1, <1>2, <2>1 DEF ReservedInv
  <2> QED BY <1>1, <1>8, <2>2, <2>3, <2>4, <2>5, <2>6, <2>7 DEF ReservedInv
<1> QED BY <1>5, <1>6, <1>7, <1>9 DEF Control

LEMMA ClientPlaces ==
  /\ {"confirmed", "refused", "failed", "answered"} \subseteq Places \ (Inside \cup {"waiting"})
  /\ {"looking", "reserving", "planning", "publishing"} \cup Stages \subseteq Inside /\ Inside \subseteq Places
  /\ "waiting" \notin Inside /\ "waiting" \in Places /\ "opening" \notin Inside /\ "opening" \in Places
  /\ Imported \subseteq Stages /\ Configured \subseteq Imported /\ Emptied \subseteq Configured
  /\ Dropped \subseteq Emptied
  /\ {"looking", "reserving", "planning", "publishing"} \cap Stages = {}
BY DEF Places, Quiet, Active, Inside, Stages, Imported, Configured, Emptied, Dropped

(* A client who moves leaves the others where they are. *)
LEMMA OnlyMoves ==
  ASSUME TaskTypes, NEW c \in Clients, NEW next, at' = [at EXCEPT ![c] = next]
  PROVE  /\ at'[c] = next /\ \A t \in Removers : t # c => at'[t] = at[t]
BY Kinds DEF TaskTypes

LEMMA ConfirmStep ==
  ASSUME RemovalInv, NEW c \in Clients, NEW o \in Operations, NEW s \in Spaces, NEW t \in Spaces \cup {Nowhere},
         Confirm(c, o, s, t)
  PROVE  RemovalInv'
<1>1. Control /\ Data /\ TaskTypes /\ StoreTypes /\ AsksInv
  BY DEF RemovalInv, Control
<1> DEFINE q == [op |-> o, source |-> s, target |-> t, assets |-> Inventory(s)]
<1>2. /\ core = "up" /\ asks' = [asks EXCEPT ![c] = {q}] /\ at' = [at EXCEPT ![c] = "confirmed"] /\ s # t
      /\ UNCHANGED <<place, readers, queue, removals, retired, core>> /\ UNCHANGED writer /\ UNCHANGED reserved
      /\ UNCHANGED <<files, vectors, rows, trash, disk, settings, removals, retired, pending, core, late>>
      /\ UNCHANGED listed /\ UNCHANGED pending /\ UNCHANGED place
  BY DEF Confirm, Readable, Move, gate, local, memory, bounds
<1>3. q \in Requests
  <2>1. disk.overrides[s] \in Values \cup {Default} /\ files[s] \in SUBSET Docs /\ rows[s] \in SUBSET Rows
        /\ trash[s] \in SUBSET Rows
    BY <1>1 DEF StoreTypes, Resources
  <2>2. Inventory(s) \in [files : SUBSET Docs, rows : SUBSET Rows, trash : SUBSET Rows, override : Values \cup {Default}]
    BY <2>1 DEF Inventory
  <2> QED BY <2>2 DEF Requests
<1>4. StoreTypes'
  BY <1>1, <1>2 DEF StoreTypes
<1> HIDE DEF q
<1>5. asks' \in [Clients -> SUBSET Requests] /\ asks'[c] = {q} /\ \A d \in Clients : d # c => asks'[d] = asks[d]
  BY <1>1, <1>2, <1>3 DEF TaskTypes
<1>6. AsksInv'
  <2>1. q.source # q.target
    BY <1>2 DEF q
  <2> QED BY <1>1, <1>2, <1>5, <2>1 DEF AsksInv
<1>7. Control'
  <2>1. pending' \in BOOLEAN /\ writer' \subseteq writer /\ writer \ {c} \subseteq writer'
    BY <1>1, <1>2 DEF TaskTypes
  <2> QED BY <1>1, <1>2, <1>4, <1>5, <1>6, <2>1, ClientPlaces, OutsideControl
<1>8. (\A u \in Removers : at'[u] \in Imported => at'[u] = at[u]) /\ at'[Startup] = at[Startup]
  BY <1>1, <1>2, Kinds, OnlyMoves, ClientPlaces DEF Removers
<1>9. Data'
  BY <1>1, <1>2, <1>8, DataAside
<1> QED BY <1>7, <1>9 DEF RemovalInv

LEMMA AgainStep ==
  ASSUME RemovalInv, NEW c \in Clients, NEW o \in Operations, Again(c, o)
  PROVE  RemovalInv'
<1>1. Control /\ Data /\ TaskTypes /\ StoreTypes /\ AsksInv /\ RecordInv
  BY DEF RemovalInv, Control
<1>2. /\ core = "up" /\ removals[o] # {} /\ asks' = [asks EXCEPT ![c] = {Record(o).asks}]
      /\ at' = [at EXCEPT ![c] = "confirmed"]
      /\ UNCHANGED <<place, readers, queue, removals, retired, core>> /\ UNCHANGED writer /\ UNCHANGED reserved
      /\ UNCHANGED <<files, vectors, rows, trash, disk, settings, removals, retired, pending, core, late>>
      /\ UNCHANGED listed /\ UNCHANGED pending /\ UNCHANGED place
  BY DEF Again, Move, gate, local, memory, bounds
<1>3. PICK r \in removals[o] : Record(o) = r
  BY <1>1, <1>2, RecordIs
<1>4. r.asks \in Requests /\ r.asks.source # r.asks.target
  BY <1>1 DEF StoreTypes, Removals, RecordInv
<1>5. StoreTypes'
  BY <1>1, <1>2 DEF StoreTypes
<1>6. asks' \in [Clients -> SUBSET Requests] /\ asks'[c] = {r.asks} /\ \A d \in Clients : d # c => asks'[d] = asks[d]
  BY <1>1, <1>2, <1>3, <1>4 DEF TaskTypes
<1>7. AsksInv'
  BY <1>1, <1>2, <1>4, <1>6 DEF AsksInv
<1>8. Control'
  <2>1. pending' \in BOOLEAN /\ writer' \subseteq writer /\ writer \ {c} \subseteq writer'
    BY <1>1, <1>2 DEF TaskTypes
  <2> QED BY <1>1, <1>2, <1>5, <1>6, <1>7, <2>1, ClientPlaces, OutsideControl
<1>9. (\A u \in Removers : at'[u] \in Imported => at'[u] = at[u]) /\ at'[Startup] = at[Startup]
  BY <1>1, <1>2, Kinds, OnlyMoves, ClientPlaces DEF Removers
<1>10. Data'
  BY <1>1, <1>2, <1>9, DataAside
<1> QED BY <1>8, <1>10 DEF RemovalInv

LEMMA AskStep ==
  ASSUME RemovalInv, NEW c \in Clients, Ask(c)
  PROVE  RemovalInv'
<1>1. Control /\ Data /\ TaskTypes /\ StoreTypes /\ GateInv /\ ReservedInv
  BY DEF RemovalInv, Control
<1>2. /\ core = "up" /\ at' = [at EXCEPT ![c] = "waiting"] /\ queue' = Append(queue, c)
      /\ UNCHANGED <<asks, place, readers, removals, retired, pending, core>> /\ UNCHANGED writer /\ UNCHANGED reserved
      /\ UNCHANGED <<files, vectors, rows, trash, disk, settings, removals, retired, pending, core, late>>
      /\ UNCHANGED listed
  BY DEF Ask, Move, local, memory
<1>3. StoreTypes'
  BY <1>1, <1>2 DEF StoreTypes
<1>4. /\ queue' \in Seq(Clients) /\ Len(queue') = Len(queue) + 1 /\ Len(queue) \in Nat /\ queue'[Len(queue')] = c
      /\ \A i \in 1..Len(queue) : i \in 1..Len(queue') /\ queue'[i] = queue[i]
  BY <1>1, <1>2 DEF TaskTypes
<1>5. \E i \in 1..Len(queue') : queue'[i] = c
  BY <1>4
<1>6. \A d \in Clients : (\E i \in 1..Len(queue) : queue[i] = d) => \E i \in 1..Len(queue') : queue'[i] = d
  BY <1>4
<1>7. /\ reserved' \in [Tasks -> SUBSET Spaces] /\ \A t \in Tasks : t # c => reserved'[t] = reserved[t]
      /\ \A w \in Writers : reserved'[c] \cap reserved[w] = {}
  BY <1>1, <1>2, Kinds DEF TaskTypes, ReservedInv
<1>8. /\ writer' \subseteq Clients /\ \A d, e \in writer' : d = e
      /\ writer \ {c} \subseteq writer'
  BY <1>1, <1>2 DEF TaskTypes, GateInv
<1>9. Control'
  <2>1. Control /\ "waiting" \in Places /\ "waiting" \notin Inside
    BY <1>1, ClientPlaces
  <2>2. queue' \in Seq(Clients)
    BY <1>4
  <2> QED BY <1>2, <1>3, <1>5, <1>6, <1>7, <1>8, <2>1, <2>2, ClientControl
<1>10. (\A u \in Removers : at'[u] \in Imported => at'[u] = at[u]) /\ at'[Startup] = at[Startup]
  BY <1>1, <1>2, Kinds, OnlyMoves, ClientPlaces DEF Removers
<1>11. Data'
  BY <1>1, <1>2, <1>10, DataAside
<1> QED BY <1>9, <1>11 DEF RemovalInv

LEMMA TakeGateStep ==
  ASSUME RemovalInv, NEW c \in Clients, core = "up", TakeGate(c)
  PROVE  RemovalInv'
<1>1. Control /\ Data /\ TaskTypes /\ StoreTypes /\ GateInv /\ ReservedInv
  BY DEF RemovalInv, Control
<1>2. /\ at[c] = "waiting" /\ Head(queue) = c /\ writer = {} /\ queue' = Tail(queue) /\ writer' = {c}
      /\ at' = [at EXCEPT ![c] = "looking"]
      /\ UNCHANGED <<asks, place, readers, removals, retired, pending, core>> /\ UNCHANGED reserved
      /\ UNCHANGED <<files, vectors, rows, trash, disk, settings, removals, retired, pending, core, late>>
      /\ UNCHANGED listed
  BY DEF TakeGate, Move, local, memory, bounds
<1>3. StoreTypes'
  BY <1>1, <1>2 DEF StoreTypes
<1>4. queue # <<>> /\ queue \in Seq(Clients)
  BY <1>1, <1>2 DEF TaskTypes, GateInv
<1>5. /\ queue' \in Seq(Clients) /\ Len(queue') = Len(queue) - 1 /\ Len(queue) \in Nat /\ queue[1] = c
      /\ \A i \in 1..Len(queue') : queue'[i] = queue[i + 1]
  BY <1>2, <1>4
<1>6. ASSUME NEW d \in Clients, d # c, NEW i \in 1..Len(queue), queue[i] = d
      PROVE  \E j \in 1..Len(queue') : queue'[j] = d
  <2>1. i # 1
    BY <1>5, <1>6
  <2>2. i - 1 \in 1..Len(queue') /\ queue'[i - 1] = d
    BY <1>5, <1>6, <2>1
  <2> QED BY <2>2
<1>7. /\ reserved' \in [Tasks -> SUBSET Spaces] /\ \A t \in Tasks : t # c => reserved'[t] = reserved[t]
      /\ \A w \in Writers : reserved'[c] \cap reserved[w] = {}
  BY <1>1, <1>2, Kinds DEF TaskTypes, ReservedInv
<1>8. /\ writer' \subseteq Clients /\ \A d, e \in writer' : d = e
      /\ writer \ {c} \subseteq writer' /\ c \in writer'
  BY <1>1, <1>2 DEF TaskTypes
<1>9. Control'
  <2>1. Control /\ "looking" \in Places
    BY <1>1, ClientPlaces
  <2>2. queue' \in Seq(Clients)
    BY <1>5
  <2>3. \A d \in Clients : d # c /\ (\E i \in 1..Len(queue) : queue[i] = d) => \E i \in 1..Len(queue') : queue'[i] = d
    BY <1>6
  <2> QED BY <1>2, <1>3, <1>7, <1>8, <2>1, <2>2, <2>3, ClientControl
<1>10. (\A u \in Removers : at'[u] \in Imported => at'[u] = at[u]) /\ at'[Startup] = at[Startup]
  BY <1>1, <1>2, Kinds, OnlyMoves, ClientPlaces DEF Removers
<1>11. Data'
  BY <1>1, <1>2, <1>10, DataAside
<1> QED BY <1>9, <1>11 DEF RemovalInv
(* Nobody else has passed a stage while a client is inside. *)
LEMMA AloneInside ==
  ASSUME GateInv, core = "up", NEW c \in Clients, at[c] \in Inside
  PROVE  /\ c \in writer /\ at[Startup] \notin Stages \cup {"opening"}
         /\ \A u \in Removers : u # c => at[u] \notin Stages
<1>1. c \in writer /\ \A d \in Clients : d # c => at[d] \notin Inside
  BY DEF GateInv
<1>2. at[Startup] \notin Stages \cup {"opening"}
  BY DEF GateInv
<1>3. \A d \in Clients : d # c => at[d] \notin Stages
  BY <1>1, ClientPlaces
<1> QED BY <1>1, <1>2, <1>3 DEF Removers

(* A removal is refused, or fails where it is. *)
LEMMA ReturnAside ==
  ASSUME RemovalInv, core = "up", NEW c \in Clients, at[c] \in Inside, NEW answer \in {"refused", "failed"},
         Return(c, answer), listed' = listed \/ listed' = {},
         UNCHANGED <<asks, place, local, disk, settings, removals, memory, core, late>>
  PROVE  RemovalInv'
<1>1. Control /\ Data /\ TaskTypes /\ StoreTypes /\ GateInv /\ AsksInv
  BY DEF RemovalInv, Control
<1>2. /\ at' = [at EXCEPT ![c] = answer] /\ writer' = writer \ {c} /\ reserved' = [reserved EXCEPT ![c] = {}]
      /\ UNCHANGED <<place, readers, queue, removals, retired, core>> /\ UNCHANGED asks /\ UNCHANGED pending
      /\ UNCHANGED <<files, vectors, rows, trash, disk, settings, removals, retired, pending, core, late>>
  BY DEF Return, Move, local, memory
<1>3. StoreTypes'
  BY <1>1, <1>2 DEF StoreTypes
<1>4. Control'
  <2>1. pending' \in BOOLEAN /\ writer' \subseteq writer /\ writer \ {c} \subseteq writer'
        /\ asks' \in [Clients -> SUBSET Requests]
    BY <1>1, <1>2 DEF TaskTypes
  <2>2. AsksInv'
    BY <1>1, <1>2 DEF AsksInv
  <2>3. answer \in Places \ (Inside \cup {"waiting"})
    BY ClientPlaces
  <2>4. \A d \in Clients : d # c => asks'[d] = asks[d]
    BY <1>2
  <2> QED BY <1>1, <1>2, <1>3, <2>1, <2>2, <2>3, <2>4, OutsideControl
<1>5. (\A u \in Removers : at'[u] \notin Imported) /\ at'[Startup] # "opening"
  <2>1. answer \notin Imported /\ Imported \subseteq Stages
    BY DEF Imported, Configured, Emptied, Dropped, Stages
  <2>2. /\ at[Startup] # "opening" /\ at[Startup] \notin Stages
        /\ \A u \in Removers : u # c => at[u] \notin Stages
    BY <1>1, AloneInside
  <2>3. at'[c] = answer /\ \A t \in Removers : t # c => at'[t] = at[t]
    BY <1>1, <1>2, OnlyMoves
  <2>4. Startup \in Removers /\ Startup # c
    BY Kinds DEF Removers
  <2> QED BY <2>1, <2>2, <2>3, <2>4
<1>6. Data'
  BY <1>1, <1>2, <1>5, DataAside
<1> QED BY <1>4, <1>6 DEF RemovalInv

LEMMA FailStep ==
  ASSUME RemovalInv, NEW c \in Clients, Fail(c)
  PROVE  RemovalInv'
<1>1. core = "up" /\ at[c] \in Inside /\ Return(c, "failed") /\ listed' = {}
  BY ClientPlaces DEF Fail, Steps, Inside, Stages, Imported, Configured, Emptied, Dropped
<1>2. UNCHANGED <<asks, place, local, disk, settings, removals, memory, core, late>>
  BY DEF Fail
<1> QED BY <1>1, <1>2, ReturnAside

LEMMA LookStep ==
  ASSUME RemovalInv, core = "up", NEW c \in Clients, NEW q \in asks[c], Look(c, q)
  PROVE  RemovalInv'
<1>1. Control /\ Data /\ TaskTypes /\ StoreTypes /\ GateInv /\ ReservedInv /\ RecordInv /\ AsksInv
  BY DEF RemovalInv, Control
<1>2. /\ at[c] = "looking" /\ at[c] \in Inside /\ UNCHANGED listed
      /\ UNCHANGED <<asks, place, local, disk, settings, removals, memory, core, late>>
  BY ClientPlaces DEF Look, bounds
<1>3. CASE Return(c, "refused")
  BY <1>2, <1>3, ReturnAside
<1>4. ASSUME NEW next \in {"importing", "publishing", "reserving"}, Go(c, next),
             next = "reserving" => removals[q.op] = {} /\ Pending = {}
      PROVE  RemovalInv'
  <2>1. /\ at' = [at EXCEPT ![c] = next] /\ UNCHANGED <<readers, writer, queue, reserved>>
        /\ UNCHANGED <<asks, place, readers, removals, retired, pending, core>>
        /\ UNCHANGED <<files, vectors, rows, trash, disk, settings, removals, retired, pending, core, late>>
    BY <1>2, <1>4 DEF Go, Move, gate, local, memory
  <2>2. StoreTypes'
    BY <1>1, <1>2, <2>1 DEF StoreTypes
  <2>3. Control'
    <3>1. next \in Inside /\ next \in Places /\ next # "waiting" /\ c \in writer
      BY <1>1, <1>2, ClientPlaces, AloneInside DEF Stages
    <3>2. /\ writer' \subseteq Clients /\ \A d, e \in writer' : d = e
          /\ writer \ {c} \subseteq writer' /\ c \in writer'
      BY <1>1, <2>1, <3>1 DEF TaskTypes, GateInv
    <3>3. /\ reserved' \in [Tasks -> SUBSET Spaces] /\ \A t \in Tasks : t # c => reserved'[t] = reserved[t]
          /\ \A w \in Writers : reserved'[c] \cap reserved[w] = {}
      BY <1>1, <2>1 DEF TaskTypes, ReservedInv
    <3>4. next \in {"reserving", "planning"} => NonePending /\ \A p \in asks[c] : removals[p.op] = {}
      BY <1>1, <1>4, NonePendingIs DEF AsksInv
    <3>5. /\ queue' \in Seq(Clients)
          /\ \A d \in Clients : d # c /\ (\E i \in 1..Len(queue) : queue[i] = d) => \E i \in 1..Len(queue') : queue'[i] = d
      BY <1>1, <2>1 DEF TaskTypes
    <3>6. next # "planning"
      OBVIOUS
    <3> QED BY <1>1, <2>1, <2>2, <3>1, <3>2, <3>3, <3>4, <3>5, <3>6, ClientControl
  <2>4. (\A u \in Removers : at'[u] \notin Imported) /\ at'[Startup] # "opening"
    <3>1. next \notin Imported
      BY DEF Imported, Configured, Emptied, Dropped
    <3> QED BY <1>1, <1>2, <2>1, <3>1, Kinds, OnlyMoves, AloneInside, ClientPlaces DEF Removers
  <2>5. Data'
    BY <1>1, <2>1, <2>4, DataAside
  <2> QED BY <2>3, <2>5 DEF RemovalInv
<1>5. ASSUME NEW r \in removals[q.op], Go(c, IF r.done THEN "publishing" ELSE "importing") PROVE RemovalInv'
  <2>1. CASE r.done
    BY <1>4, <1>5, <2>1
  <2>2. CASE ~r.done
    BY <1>4, <1>5, <2>2
  <2> QED BY <2>1, <2>2
<1>6. CASE removals[q.op] = {} /\ Pending = {} /\ Go(c, "reserving")
  BY <1>4, <1>6
<1> QED BY <1>3, <1>5, <1>6 DEF Look

LEMMA ReserveStep ==
  ASSUME RemovalInv, core = "up", NEW c \in Clients, NEW q \in asks[c], Reserve(c, q)
  PROVE  RemovalInv'
<1>1. Control /\ Data /\ TaskTypes /\ StoreTypes /\ GateInv /\ ReservedInv /\ RecordInv /\ AsksInv
  BY DEF RemovalInv, Control
<1>2. /\ at[c] = "reserving" /\ at[c] \in Inside /\ UNCHANGED listed
      /\ UNCHANGED <<asks, place, local, disk, settings, removals, memory, core, late>>
  BY ClientPlaces DEF Reserve, bounds
<1>3. CASE Touched(q) \cap retired # {}
  <2>1. Return(c, "refused")
    BY <1>3 DEF Reserve
  <2> QED BY <1>2, <2>1, ReturnAside
<1>4. CASE Touched(q) \cap retired = {}
  <2>1. /\ at' = [at EXCEPT ![c] = "planning"] /\ reserved' = [reserved EXCEPT ![c] = Touched(q)]
        /\ UNCHANGED <<readers, writer, queue>>
        /\ UNCHANGED <<asks, place, readers, removals, retired, pending, core>>
        /\ UNCHANGED <<files, vectors, rows, trash, disk, settings, removals, retired, pending, core, late>>
    BY <1>2, <1>4 DEF Reserve, Move, gate, local, memory
  <2>2. StoreTypes'
    BY <1>1, <1>2, <2>1 DEF StoreTypes
  <2>3. Control'
    <3>1. "planning" \in Places /\ c \in writer
      BY <1>1, <1>2, ClientPlaces, AloneInside
    <3>2. /\ writer' \subseteq Clients /\ \A d, e \in writer' : d = e
          /\ writer \ {c} \subseteq writer' /\ c \in writer'
      BY <1>1, <2>1, <3>1 DEF TaskTypes, GateInv
    <3>3. reserved' \in [Tasks -> SUBSET Spaces] /\ (\A t \in Tasks : t # c => reserved'[t] = reserved[t])
          /\ reserved'[c] = Touched(q)
      BY <1>1, <2>1, Kinds DEF TaskTypes, Touched
    <3>4. \A w \in Writers : reserved'[c] \cap reserved[w] = {}
      BY <3>3, Kinds DEF Reserve, Free
    <3>5. NonePending /\ \A p \in asks[c] : removals[p.op] = {}
      BY <1>1, <1>2 DEF ReservedInv
    <3>6. \A p \in asks[c] : Touched(p) \subseteq reserved'[c] /\ Touched(p) \cap retired = {}
      BY <1>1, <1>4, <3>3 DEF AsksInv
    <3>7. /\ queue' \in Seq(Clients)
          /\ \A d \in Clients : d # c /\ (\E i \in 1..Len(queue) : queue[i] = d) => \E i \in 1..Len(queue') : queue'[i] = d
      BY <1>1, <2>1 DEF TaskTypes
    <3> QED BY <1>1, <2>1, <2>2, <3>1, <3>2, <3>3, <3>4, <3>5, <3>6, <3>7, ClientControl
  <2>4. (\A u \in Removers : at'[u] \notin Imported) /\ at'[Startup] # "opening"
    <3>1. "planning" \notin Imported
      BY DEF Imported, Configured, Emptied, Dropped
    <3> QED BY <1>1, <1>2, <2>1, <3>1, Kinds, OnlyMoves, AloneInside, ClientPlaces DEF Removers
  <2>5. Data'
    BY <1>1, <2>1, <2>4, DataAside
  <2> QED BY <2>3, <2>5 DEF RemovalInv
<1> QED BY <1>3, <1>4
----------------------------------------------------------------------------
(* The intent of a removal becomes durable.  Its record is the only one    *)
(* that is not done, and nothing of it has been done.                      *)
LEMMA PlanStep ==
  ASSUME RemovalInv, core = "up", NEW c \in Clients, NEW q \in asks[c], Plan(c, q)
  PROVE  RemovalInv'
<1>1. Control /\ Data /\ TaskTypes /\ StoreTypes /\ GateInv /\ ReservedInv /\ RecordInv /\ AsksInv
  BY DEF RemovalInv, Control
<1>2. /\ at[c] = "planning" /\ at[c] \in Inside /\ UNCHANGED listed
      /\ UNCHANGED <<asks, place, local, disk, settings, core, late>>
  BY ClientPlaces DEF Plan, bounds
<1>3. CASE ~Plannable(q)
  <2>1. Return(c, "refused") /\ UNCHANGED <<asks, place, local, disk, settings, removals, memory, core, late>>
    BY <1>2, <1>3 DEF Plan
  <2> QED BY <1>2, <2>1, ReturnAside
<1>4. CASE Plannable(q)
  <2> DEFINE u == [asks |-> q, image |-> MemoryImage(q), settings |-> SettingsImage(q), done |-> FALSE]
  <2>1. /\ removals' = [removals EXCEPT ![q.op] = {u}] /\ retired' = retired \cup Touched(q) /\ pending' = TRUE
        /\ at' = [at EXCEPT ![c] = "importing"]
        /\ UNCHANGED <<asks, place, readers, writer, queue, reserved, core>>
    BY <1>2, <1>4 DEF Plan, Go, Move, gate
  <2>2. /\ UNCHANGED files /\ UNCHANGED vectors /\ UNCHANGED rows /\ UNCHANGED trash /\ UNCHANGED disk
        /\ UNCHANGED settings /\ UNCHANGED core /\ UNCHANGED late /\ UNCHANGED listed
    BY <1>2 DEF local
  <2>3. /\ q \in Requests /\ q.op \in Operations /\ q.source \in Spaces /\ q.target \in Spaces \cup {Nowhere}
        /\ q.source # q.target
    BY <1>1 DEF TaskTypes, AsksInv, Requests
  <2>4. /\ NonePending /\ Touched(q) \subseteq reserved[c] /\ Touched(q) \cap retired = {}
    BY <1>1, <1>2 DEF ReservedInv
  <2>5. Touched(q) \subseteq Spaces /\ q.source \in Touched(q) /\ (q.target # Nowhere => q.target \in Touched(q))
    BY <2>3 DEF Touched
  (* The image of the settings. *)
  <2>6. /\ disk.revision \in Nat /\ disk.overrides \in [Spaces -> Values \cup {Default}]
        /\ disk \in Resources
    BY <1>1 DEF StoreTypes, Resources
  <2>7. /\ SettingsImage(q) \subseteq Resources
        /\ \A i, j \in SettingsImage(q) : i = j
        /\ \A i \in SettingsImage(q) : disk.revision < i.revision /\ i.overrides[q.source] = Default
        /\ \A i \in SettingsImage(q), s \in Spaces \ Touched(q) : i.overrides[s] = disk.overrides[s]
        /\ SettingsImage(q) = {} => disk.overrides[q.source] = Default
    <3>1. CASE disk.overrides[q.source] = Default
      <4>1. SettingsImage(q) = {}
        BY <3>1 DEF SettingsImage
      <4> QED BY <3>1, <4>1
    <3>2. CASE disk.overrides[q.source] # Default
      <4> DEFINE kept == [disk.overrides EXCEPT ![q.source] = Default]
                 over == [s \in Spaces |-> IF s = q.target THEN disk.overrides[q.source] ELSE kept[s]]
                 i    == [revision |-> disk.revision + 1, overrides |-> over]
      <4>1. SettingsImage(q) = {i}
        BY <3>2 DEF SettingsImage
      <4>2. over \in [Spaces -> Values \cup {Default}] /\ over[q.source] = Default
            /\ \A s \in Spaces \ Touched(q) : over[s] = disk.overrides[s]
        BY <2>3, <2>6 DEF Touched
      <4> HIDE DEF over
      <4>3. i \in Resources /\ disk.revision < i.revision /\ i.overrides = over
        BY <2>6, <4>2 DEF Resources
      <4> QED BY <4>1, <4>2, <4>3
    <3> QED BY <3>1, <3>2
  (* The image of the memory. *)
  <2>8. /\ MemoryImage(q) \subseteq Docs
        /\ q.target # Nowhere => files[q.source] \cup files[q.target] \subseteq MemoryImage(q)
        /\ q.target = Nowhere => MemoryImage(q) = {}
    <3>1. files \in [Spaces -> SUBSET Docs]
      BY <1>1 DEF StoreTypes
    <3> QED BY <2>3, <3>1 DEF MemoryImage
  <2>9. /\ files[q.source] \subseteq q.assets.files
        /\ rows[q.source] \cup trash[q.source] \subseteq q.assets.rows \cup q.assets.trash
    BY <1>4 DEF Plannable, Inventory
  <2>10. /\ u \in Removals /\ u.asks = q /\ u.image = MemoryImage(q) /\ u.settings = SettingsImage(q) /\ ~u.done
    BY <2>3, <2>7, <2>8 DEF Removals
  <2> HIDE DEF u
  <2>11. /\ removals'[q.op] = {u} /\ \A o \in Operations : o # q.op => removals'[o] = removals[o]
         /\ removals' \in [Operations -> SUBSET Removals]
    BY <1>1, <2>1, <2>3, <2>10 DEF StoreTypes
  <2>12. \A o \in Operations : \A r \in removals'[o] :
           \/ r = u /\ o = q.op
           \/ r \in removals[o] /\ r.done /\ r.asks.source \in Spaces /\ r.asks.source \notin Touched(q) /\ r # u
    <3> SUFFICES ASSUME NEW o \in Operations, NEW r \in removals'[o], o # q.op
                 PROVE  r \in removals[o] /\ r.done /\ r.asks.source \in Spaces /\ r.asks.source \notin Touched(q) /\ r # u
      BY <2>11
    <3>1. r \in removals[o] /\ r.done
      BY <2>4, <2>11 DEF NonePending
    <3>2. r.asks.source \in Spaces /\ r.asks.source \in retired
      BY <1>1, <3>1 DEF StoreTypes, Removals, Requests, Data, FenceInv
    <3> QED BY <2>4, <2>10, <3>1, <3>2
  <2>13. StoreTypes'
    BY <1>1, <2>2, <2>11 DEF StoreTypes
  <2>14. RecordInv'
    <3>1. \A o \in Operations : \A r, v \in removals'[o] : r = v
      BY <1>1, <2>11 DEF RecordInv
    <3>2. \A o \in Operations : \A r \in removals'[o] : r.asks.op = o
      BY <1>1, <2>10, <2>12 DEF RecordInv
    <3>3. \A o \in Operations : \A r \in removals'[o] : r.asks.source # r.asks.target
      BY <1>1, <2>3, <2>10, <2>12 DEF RecordInv
    <3> QED BY <3>1, <3>2, <3>3 DEF RecordInv
  <2>15. Control'
    <3>1. retired' \subseteq Spaces /\ pending' \in BOOLEAN
      BY <1>1, <2>1, <2>5 DEF TaskTypes
    <3>2. \A w \in Writers : reserved[w] \cap retired' = {}
      <4>1. \A w \in Writers : reserved[w] \cap retired = {} /\ reserved[c] \cap reserved[w] = {}
        BY <1>1 DEF ReservedInv
      <4> QED BY <2>1, <2>4, <4>1
    <3>3. "importing" \in Places \ {"waiting"} /\ "importing" \in Inside /\ c \in Removers
      BY ClientPlaces DEF Stages, Removers
    <3> QED BY <1>1, <1>2, <2>1, <2>13, <2>14, <3>1, <3>2, <3>3, Kinds, InsideControl
  <2>16. (\A t \in Removers : at'[t] \notin Imported) /\ at'[Startup] # "opening"
    <3>1. "importing" \notin Imported
      BY DEF Imported, Configured, Emptied, Dropped
    <3> QED BY <1>1, <1>2, <2>1, <3>1, Kinds, OnlyMoves, AloneInside, ClientPlaces DEF Removers
  <2>17. FenceInv'
    <3>1. \A o, p \in Operations : \A r \in removals'[o], v \in removals'[p] : ~r.done /\ ~v.done => o = p
      BY <2>12
    <3>2. \A o \in Operations : \A r \in removals'[o] : ~r.done => Touched(r.asks) \subseteq retired'
      BY <2>1, <2>10, <2>12
    <3>3. \A o \in Operations : \A r \in removals'[o] : r.done => r.asks.source \in retired'
      BY <1>1, <2>1, <2>10, <2>12 DEF Data, FenceInv
    <3>4. \A o, p \in Operations : \A r \in removals'[o], v \in removals'[p] :
            ~r.done /\ v.done => v.asks.source \notin Touched(r.asks)
      BY <2>10, <2>12
    <3> QED BY <2>1, <2>16, <3>1, <3>2, <3>3, <3>4 DEF FenceInv, Touched
  <2>18. SettingsInv'
    <3>1. \A o \in Operations : \A r \in removals'[o] : \A i, j \in r.settings : i = j
      BY <1>1, <2>7, <2>10, <2>12 DEF Data, SettingsInv
    <3>2. \A o \in Operations : \A r \in removals'[o] : \A i \in r.settings : ~r.done => disk'.revision < i.revision
      BY <2>2, <2>7, <2>10, <2>12
    <3>3. \A o \in Operations : \A r \in removals'[o] : \A i \in r.settings :
            ~r.done => i.overrides[r.asks.source] = Default
      BY <2>7, <2>10, <2>12
    <3>4. \A o, p \in Operations : \A r \in removals'[o], v \in removals'[p] : \A i \in r.settings :
            ~r.done /\ v.done => i.overrides[v.asks.source] = Default
      <4>1. \A p \in Operations : \A v \in removals'[p] : v.done =>
              v.asks.source \in Spaces \ Touched(q) /\ disk.overrides[v.asks.source] = Default
        BY <1>1, <2>10, <2>12 DEF Data, DoneInv
      <4> QED BY <2>7, <2>10, <2>12, <4>1
    <3>5. \A o \in Operations : \A r \in removals'[o] :
            ~r.done /\ r.settings = {} => disk'.overrides[r.asks.source] = Default
      BY <2>2, <2>7, <2>10, <2>12
    <3>6. \A t \in Removers : at'[t] \notin Configured
      BY <2>16 DEF Imported
    <3> QED BY <2>1, <3>1, <3>2, <3>3, <3>4, <3>5, <3>6 DEF SettingsInv
  <2>19. EmptiedInv'
    BY <2>16 DEF EmptiedInv, Imported, Configured, Emptied, Dropped
  <2>20. DoneInv'
    BY <1>1, <2>2, <2>10, <2>12 DEF Data, DoneInv
  <2>21. ImageInv'
    <3>1. \A o \in Operations : \A r \in removals'[o] :
            ~r.done /\ r.asks.target # Nowhere => files'[r.asks.source] \cup files'[r.asks.target] \subseteq r.image
      BY <2>2, <2>8, <2>10, <2>12
    <3>2. \A o \in Operations : \A r \in removals'[o] :
            ~r.done /\ r.asks.target = Nowhere => files'[r.asks.source] \subseteq r.asks.assets.files
      BY <2>2, <2>9, <2>10, <2>12
    <3>3. \A o \in Operations : \A r \in removals'[o] :
            ~r.done /\ r.asks.target = Nowhere =>
              rows'[r.asks.source] \cup trash'[r.asks.source] \subseteq r.asks.assets.rows \cup r.asks.assets.trash
      BY <2>2, <2>9, <2>10, <2>12
    <3>4. \A o \in Operations : \A r \in removals'[o] : ~r.done /\ r.asks.target = Nowhere => r.image = {}
      BY <2>8, <2>10, <2>12
    <3> QED BY <2>16, <3>1, <3>2, <3>3, <3>4 DEF ImageInv
  <2> QED BY <2>15, <2>17, <2>18, <2>19, <2>20, <2>21 DEF RemovalInv, Data
<1> QED BY <1>3, <1>4
----------------------------------------------------------------------------
(* The stages of finish_space_removal.  Whoever passes one is alone with   *)
(* the one record that is not done.                                        *)
LEMMA StageFacts ==
  ASSUME RemovalInv, NEW t \in Removers, at[t] \in Stages, NEW o \in Operations, NEW r \in removals[o], ~r.done
  PROVE  /\ core # "down" /\ (core = "up" => pending)
         /\ \A p \in Operations : \A v \in removals[p] : ~v.done => p = o /\ v = r
         /\ \A p \in Operations : \A v \in removals[p] : v.done =>
              v.asks.source \in Spaces /\ v.asks.source # r.asks.source /\ v.asks.source # r.asks.target
         /\ r \in Removals /\ r.asks.op = o /\ r.asks.source \in Spaces /\ r.asks.target \in Spaces \cup {Nowhere}
         /\ r.asks.source # r.asks.target
         /\ \A u \in Removers : u # t => at[u] \notin Stages
         /\ t # Startup => at[Startup] # "opening"
<1>1. Control /\ Data /\ TaskTypes /\ StoreTypes /\ GateInv /\ RecordInv /\ FenceInv
  BY DEF RemovalInv, Control, Data
<1>2. /\ \A c \in Clients : at[c] \in Inside => c = t
      /\ at[Startup] \in Stages \cup {"opening"} => Startup = t
      /\ (t \in Clients => core = "up") /\ (t = Startup => core = "starting")
  BY <1>1, OneInside
<1>3. core # "down"
  BY <1>1, <1>2, OneInside DEF Removers
<1>4. core = "up" => pending
  BY <1>1 DEF FenceInv
<1>5. r \in Removals /\ r.asks.op = o /\ r.asks.source \in Spaces /\ r.asks.target \in Spaces \cup {Nowhere}
      /\ r.asks.source # r.asks.target
  BY <1>1 DEF StoreTypes, RecordInv, Removals, Requests
<1>6. \A p \in Operations : \A v \in removals[p] : ~v.done => p = o /\ v = r
  BY <1>1 DEF FenceInv, RecordInv
<1>7. \A p \in Operations : \A v \in removals[p] : v.done =>
        v.asks.source \in Spaces /\ v.asks.source # r.asks.source /\ v.asks.source # r.asks.target
  <2> SUFFICES ASSUME NEW p \in Operations, NEW v \in removals[p], v.done
               PROVE  v.asks.source \in Spaces /\ v.asks.source # r.asks.source /\ v.asks.source # r.asks.target
    OBVIOUS
  <2>1. v.asks.source \in Spaces
    BY <1>1 DEF StoreTypes, Removals, Requests
  <2>2. v.asks.source \notin Touched(r.asks)
    BY <1>1 DEF FenceInv
  <2> QED BY <2>1, <2>2 DEF Touched
<1>8. \A u \in Removers : u # t => at[u] \notin Stages
  BY <1>2, ClientPlaces DEF Removers
<1>9. t # Startup => at[Startup] # "opening"
  BY <1>2
<1> QED BY <1>3, <1>4, <1>5, <1>6, <1>7, <1>8, <1>9

(* A stage that only moves its task on keeps the tasks apart. *)
LEMMA StageControl ==
  ASSUME RemovalInv, NEW t \in Removers, at[t] \in Stages, NEW next \in Stages, Go(t, next),
         UNCHANGED <<asks, place, core>>, UNCHANGED <<removals, memory>>, StoreTypes'
  PROVE  Control' /\ at' = [at EXCEPT ![t] = next] /\ at'[t] = next /\ \A u \in Removers : u # t => at'[u] \notin Stages
<1>1. Control /\ TaskTypes /\ GateInv /\ ReservedInv /\ RecordInv
  BY DEF RemovalInv, Control
<1>2. /\ at' = [at EXCEPT ![t] = next] /\ UNCHANGED <<asks, place, readers, writer, queue, reserved, core>>
      /\ UNCHANGED removals /\ UNCHANGED retired /\ UNCHANGED pending
  BY DEF Go, Move, gate, memory
<1>3. t \in Clients => core = "up" /\ at[t] \in Inside /\ next \in Inside
  BY <1>1, OneInside, ClientPlaces
<1>4. t = Startup => core = "starting" /\ next \in Stages \cup {"opening"}
  BY <1>1, OneInside
<1>5. next \in Places \ {"waiting"} /\ next \notin {"reserving", "planning"}
  BY ClientPlaces
<1>6. RecordInv' /\ pending' \in BOOLEAN /\ retired' \subseteq Spaces
  BY <1>1, <1>2 DEF RecordInv, TaskTypes
<1>7. \A w \in Writers : reserved[w] \cap retired' = {}
  BY <1>1, <1>2 DEF ReservedInv
<1>8. Control'
  BY <1>1, <1>2, <1>3, <1>4, <1>5, <1>6, <1>7, InsideControl
<1>9. at'[t] = next /\ \A u \in Removers : u # t => at'[u] = at[u]
  BY <1>1, <1>2, Kinds DEF TaskTypes
<1>10. \A u \in Removers : u # t => at[u] \notin Stages
  BY <1>1, OneInside, ClientPlaces DEF Removers
<1> QED BY <1>2, <1>8, <1>9, <1>10

(* ... and what is recorded and retired as it is. *)
LEMMA StageFence ==
  ASSUME RemovalInv, NEW t \in Removers, at[t] \in Stages, NEW next \in Stages, at' = [at EXCEPT ![t] = next],
         UNCHANGED <<removals, memory, core>>
  PROVE  FenceInv'
<1>1. GateInv /\ FenceInv /\ TaskTypes
  BY DEF RemovalInv, Control, Data
<1>2. UNCHANGED removals /\ UNCHANGED retired /\ UNCHANGED pending /\ UNCHANGED core
  BY DEF memory
<1>3. at'[Startup] # "opening"
  <2>1. "opening" \notin Stages
    BY DEF Stages, Imported, Configured, Emptied, Dropped
  <2>2. t = Startup \/ at[Startup] # "opening"
    BY <1>1, OneInside
  <2>3. t \in Tasks /\ Startup \in Tasks
    BY Kinds
  <2> QED BY <1>1, <2>1, <2>2, <2>3 DEF TaskTypes
<1> QED BY <1>1, <1>2, <1>3 DEF FenceInv

LEMMA ImportStep ==
  ASSUME RemovalInv, NEW t \in Removers, NEW o \in Operations, NEW r \in removals[o], ~r.done, Import(t, r),
         UNCHANGED <<asks, place, settings, core>>
  PROVE  RemovalInv'
<1>1. Control /\ Data /\ TaskTypes /\ StoreTypes
  BY DEF RemovalInv, Control
<1>2. /\ at[t] = "importing" /\ Go(t, "unindexing")
      /\ files' = IF r.asks.target = Nowhere THEN files ELSE [files EXCEPT ![r.asks.target] = r.image]
      /\ UNCHANGED vectors /\ UNCHANGED rows /\ UNCHANGED trash /\ UNCHANGED disk /\ UNCHANGED settings
      /\ UNCHANGED removals /\ UNCHANGED memory /\ UNCHANGED listed /\ UNCHANGED late /\ UNCHANGED core
      /\ UNCHANGED pending
  BY DEF Import, memory
<1>3. at[t] \in Stages /\ "unindexing" \in Stages /\ "unindexing" \notin Configured
  BY <1>2 DEF Stages, Imported, Configured, Emptied, Dropped
<1>4. /\ \A p \in Operations : \A v \in removals[p] : ~v.done => p = o /\ v = r
      /\ \A p \in Operations : \A v \in removals[p] : v.done =>
           v.asks.source \in Spaces /\ v.asks.source # r.asks.source /\ v.asks.source # r.asks.target
      /\ r \in Removals /\ r.asks.source \in Spaces /\ r.asks.target \in Spaces \cup {Nowhere}
      /\ r.asks.source # r.asks.target
  BY <1>3, StageFacts
<1>5. r.image \subseteq Docs
  BY <1>4 DEF Removals
<1>6. /\ files' \in [Spaces -> SUBSET Docs] /\ \A z \in Spaces : z # r.asks.target => files'[z] = files[z]
      /\ r.asks.target # Nowhere => files'[r.asks.target] = r.image
      /\ r.asks.target = Nowhere => files' = files
  BY <1>1, <1>2, <1>4, <1>5 DEF StoreTypes
<1>7. StoreTypes'
  BY <1>1, <1>2, <1>6 DEF StoreTypes
<1>8. Control' /\ at' = [at EXCEPT ![t] = "unindexing"] /\ at'[t] = "unindexing"
      /\ \A u \in Removers : u # t => at'[u] \notin Stages
  BY <1>2, <1>3, <1>7, StageControl
<1>9. \A u \in Removers : at'[u] \notin Configured
  BY <1>3, <1>8, ClientPlaces
<1>10. FenceInv'
  BY <1>2, <1>3, <1>8, StageFence
<1>11. SettingsInv'
  BY <1>1, <1>2, <1>9 DEF Data, SettingsInv
<1>12. EmptiedInv'
  BY <1>9 DEF EmptiedInv, Configured, Emptied, Dropped
<1>13. DoneInv'
  BY <1>1, <1>2, <1>4, <1>6 DEF Data, DoneInv
<1>14. ImageInv'
  <2>1. r.asks.target # Nowhere => files'[r.asks.source] \cup files'[r.asks.target] \subseteq r.image
    BY <1>1, <1>4, <1>6 DEF Data, ImageInv
  <2>2. r.asks.target # Nowhere => r.image \subseteq files'[r.asks.target]
    BY <1>6
  <2>3. r.asks.target = Nowhere => files'[r.asks.source] \subseteq r.asks.assets.files
    BY <1>1, <1>6 DEF Data, ImageInv
  <2>4. r.asks.target = Nowhere =>
          rows'[r.asks.source] \cup trash'[r.asks.source] \subseteq r.asks.assets.rows \cup r.asks.assets.trash
    BY <1>1, <1>2 DEF Data, ImageInv
  <2>5. \A p \in Operations : \A v \in removals'[p] : ~v.done => v = r
    BY <1>2, <1>4
  <2>6. r.asks.target = Nowhere => r.image = {}
    BY <1>1 DEF Data, ImageInv
  <2> QED BY <2>1, <2>2, <2>3, <2>4, <2>5, <2>6 DEF ImageInv
<1> QED BY <1>8, <1>10, <1>11, <1>12, <1>13, <1>14 DEF RemovalInv, Data
LEMMA UnindexStep ==
  ASSUME RemovalInv, NEW t \in Removers, NEW o \in Operations, NEW r \in removals[o], ~r.done, Unindex(t, r),
         UNCHANGED <<asks, place, settings, core>>
  PROVE  RemovalInv'
<1>1. Control /\ Data /\ TaskTypes /\ StoreTypes
  BY DEF RemovalInv, Control
<1>2. /\ at[t] = "unindexing" /\ Go(t, "configuring") /\ vectors' = vectors \ {r.asks.target}
      /\ UNCHANGED files /\ UNCHANGED rows /\ UNCHANGED trash /\ UNCHANGED disk /\ UNCHANGED settings
      /\ UNCHANGED removals /\ UNCHANGED memory /\ UNCHANGED listed /\ UNCHANGED late /\ UNCHANGED core
      /\ UNCHANGED pending
  BY DEF Unindex, memory
<1>3. at[t] \in Imported /\ at[t] \in Stages /\ "configuring" \in Stages /\ "configuring" \notin Configured
  BY <1>2 DEF Stages, Imported, Configured, Emptied, Dropped
<1>4. StoreTypes'
  BY <1>1, <1>2 DEF StoreTypes
<1>5. Control' /\ at' = [at EXCEPT ![t] = "configuring"] /\ at'[t] = "configuring"
      /\ \A u \in Removers : u # t => at'[u] \notin Stages
  BY <1>2, <1>3, <1>4, StageControl
<1>6. \A u \in Removers : at'[u] \notin Configured
  BY <1>3, <1>5, ClientPlaces
<1>7. FenceInv'
  BY <1>2, <1>3, <1>5, StageFence
<1>8. SettingsInv'
  BY <1>1, <1>2, <1>6 DEF Data, SettingsInv
<1>9. EmptiedInv'
  BY <1>6 DEF EmptiedInv, Configured, Emptied, Dropped
<1>10. DoneInv'
  BY <1>1, <1>2 DEF Data, DoneInv
<1>11. ImageInv'
  <2>1. \A u \in Removers : at'[u] \in Imported => at[u] \in Imported
    BY <1>3, <1>5, ClientPlaces
  <2> QED BY <1>1, <1>2, <2>1 DEF Data, ImageInv
<1> QED BY <1>5, <1>7, <1>8, <1>9, <1>10, <1>11 DEF RemovalInv, Data

LEMMA ConfigureStep ==
  ASSUME RemovalInv, NEW t \in Removers, NEW o \in Operations, NEW r \in removals[o], ~r.done, Configure(t, r),
         UNCHANGED <<asks, place, settings, core>>
  PROVE  RemovalInv'
<1>1. Control /\ Data /\ TaskTypes /\ StoreTypes
  BY DEF RemovalInv, Control
<1>2. /\ at[t] = "configuring" /\ Go(t, "emptying")
      /\ disk' = IF r.settings = {} THEN disk ELSE CHOOSE image \in r.settings : TRUE
      /\ UNCHANGED files /\ UNCHANGED vectors /\ UNCHANGED rows /\ UNCHANGED trash /\ UNCHANGED settings
      /\ UNCHANGED removals /\ UNCHANGED memory /\ UNCHANGED listed /\ UNCHANGED late /\ UNCHANGED core
      /\ UNCHANGED pending
  BY DEF Configure, local, memory
<1>3. at[t] \in Imported /\ at[t] \in Stages /\ "emptying" \in Stages /\ "emptying" \notin Emptied
  BY <1>2 DEF Stages, Imported, Configured, Emptied, Dropped
<1>4. /\ \A p \in Operations : \A v \in removals[p] : ~v.done => p = o /\ v = r
      /\ core = "up" => pending
      /\ r \in Removals /\ core # "down"
  BY <1>3, StageFacts
<1>5. \/ r.settings = {} /\ disk' = disk
      \/ disk' \in r.settings
  BY <1>2
<1>6. disk' \in Resources
  BY <1>1, <1>4, <1>5 DEF StoreTypes, Removals
<1>7. StoreTypes'
  BY <1>1, <1>2, <1>6 DEF StoreTypes
<1>8. Control' /\ at' = [at EXCEPT ![t] = "emptying"] /\ at'[t] = "emptying"
      /\ \A u \in Removers : u # t => at'[u] \notin Stages
  BY <1>2, <1>3, <1>7, StageControl
<1>9. \A u \in Removers : at'[u] \notin Emptied
  BY <1>3, <1>8, ClientPlaces
<1>10. FenceInv'
  BY <1>2, <1>3, <1>8, StageFence
<1>11. \A p \in Operations : \A v \in removals'[p] : ~v.done => v = r
  BY <1>2, <1>4
<1>12. SettingsInv'
  <2>1. core' = "up" => pending'
    BY <1>2, <1>4
  <2>2. \A i, j \in r.settings : i = j
    BY <1>1 DEF Data, SettingsInv
  <2>3. \A p \in Operations : \A v \in removals'[p] : \A i \in v.settings :
          ~v.done => disk' = i \/ disk'.revision < i.revision
    BY <1>5, <1>11, <2>2
  <2>4. \A p \in Operations : \A v \in removals'[p] :
          ~v.done /\ v.settings = {} => disk'.overrides[v.asks.source] = Default
    BY <1>1, <1>5, <1>11 DEF Data, SettingsInv
  <2>5. \A u \in Removers, p \in Operations : \A v \in removals'[p] :
          at'[u] \in Configured /\ ~v.done => v.settings = {} \/ disk' \in v.settings
    BY <1>5, <1>11
  <2>6. /\ \A p \in Operations : \A v \in removals'[p] : \A i, j \in v.settings : i = j
        /\ \A p \in Operations : \A v \in removals'[p] : \A i \in v.settings :
             ~v.done => i.overrides[v.asks.source] = Default
        /\ \A p, x \in Operations : \A v \in removals'[p], u \in removals'[x] : \A i \in v.settings :
             ~v.done /\ u.done => i.overrides[u.asks.source] = Default
    BY <1>1, <1>2 DEF Data, SettingsInv
  <2> QED BY <2>1, <2>3, <2>4, <2>5, <2>6 DEF SettingsInv
<1>13. EmptiedInv'
  BY <1>9 DEF EmptiedInv, Emptied, Dropped
<1>14. DoneInv'
  <2>1. \A p \in Operations : \A v \in removals[p] : v.done => disk'.overrides[v.asks.source] = Default
    BY <1>1, <1>5 DEF Data, DoneInv, SettingsInv
  <2> QED BY <1>1, <1>2, <2>1 DEF Data, DoneInv
<1>15. ImageInv'
  <2>1. \A u \in Removers : at'[u] \in Imported => at[u] \in Imported
    BY <1>3, <1>8, ClientPlaces
  <2> QED BY <1>1, <1>2, <2>1 DEF Data, ImageInv
<1> QED BY <1>8, <1>10, <1>12, <1>13, <1>14, <1>15 DEF RemovalInv, Data

LEMMA EmptyStep ==
  ASSUME RemovalInv, NEW t \in Removers, NEW o \in Operations, NEW r \in removals[o], ~r.done, Empty(t, r),
         UNCHANGED <<asks, place, settings, core>>
  PROVE  RemovalInv'
<1>1. Control /\ Data /\ TaskTypes /\ StoreTypes
  BY DEF RemovalInv, Control
<1>2. /\ at[t] = "emptying" /\ Go(t, "dropping") /\ files' = [files EXCEPT ![r.asks.source] = {}]
      /\ UNCHANGED vectors /\ UNCHANGED rows /\ UNCHANGED trash /\ UNCHANGED disk /\ UNCHANGED settings
      /\ UNCHANGED removals /\ UNCHANGED memory /\ UNCHANGED listed /\ UNCHANGED late /\ UNCHANGED core
      /\ UNCHANGED pending
  BY DEF Empty, memory
<1>3. /\ at[t] \in Imported /\ at[t] \in Configured /\ at[t] \in Stages
      /\ "dropping" \in Stages /\ "dropping" \notin Dropped
  BY <1>2 DEF Stages, Imported, Configured, Emptied, Dropped
<1>4. /\ \A p \in Operations : \A v \in removals[p] : ~v.done => p = o /\ v = r
      /\ r.asks.source \in Spaces /\ r.asks.source # r.asks.target
  BY <1>3, StageFacts
<1>5. files' \in [Spaces -> SUBSET Docs] /\ files'[r.asks.source] = {} /\ files'[r.asks.target] = files[r.asks.target]
      /\ \A z \in Spaces : files'[z] \subseteq files[z]
  BY <1>1, <1>2, <1>4 DEF StoreTypes
<1>6. StoreTypes'
  BY <1>1, <1>2, <1>5 DEF StoreTypes
<1>7. Control' /\ at' = [at EXCEPT ![t] = "dropping"] /\ at'[t] = "dropping"
      /\ \A u \in Removers : u # t => at'[u] \notin Stages
  BY <1>2, <1>3, <1>6, StageControl
<1>8. \A u \in Removers : at'[u] \notin Dropped
  BY <1>3, <1>7, ClientPlaces
<1>9. \A u \in Removers : (at'[u] \in Imported => at[u] \in Imported) /\ (at'[u] \in Configured => at[u] \in Configured)
  BY <1>3, <1>7, ClientPlaces
<1>10. FenceInv'
  BY <1>2, <1>3, <1>7, StageFence
<1>11. SettingsInv'
  BY <1>1, <1>2, <1>9 DEF Data, SettingsInv
<1>12. \A p \in Operations : \A v \in removals'[p] : ~v.done => v = r
  BY <1>2, <1>4
<1>13. EmptiedInv'
  BY <1>5, <1>8, <1>12 DEF EmptiedInv, Dropped
<1>14. DoneInv'
  <2>1. \A p \in Operations : \A v \in removals[p] : v.asks.source \in Spaces
    BY <1>1 DEF StoreTypes, Removals, Requests
  <2> QED BY <1>1, <1>2, <1>5, <2>1 DEF Data, DoneInv
<1>15. ImageInv'
  <2>1. r.asks.target # Nowhere => files'[r.asks.source] \cup files'[r.asks.target] \subseteq r.image
    BY <1>1, <1>5 DEF Data, ImageInv
  <2>2. \A u \in Removers : at'[u] \in Imported /\ r.asks.target # Nowhere => r.image \subseteq files'[r.asks.target]
    BY <1>1, <1>5, <1>9 DEF Data, ImageInv
  <2>3. r.asks.target = Nowhere =>
          rows'[r.asks.source] \cup trash'[r.asks.source] \subseteq r.asks.assets.rows \cup r.asks.assets.trash
    BY <1>1, <1>2 DEF Data, ImageInv
  <2>4. r.asks.target = Nowhere => r.image = {}
    BY <1>1 DEF Data, ImageInv
  <2> QED BY <1>5, <1>12, <2>1, <2>2, <2>3, <2>4 DEF ImageInv
<1> QED BY <1>7, <1>10, <1>11, <1>13, <1>14, <1>15 DEF RemovalInv, Data

LEMMA DropStep ==
  ASSUME RemovalInv, NEW t \in Removers, NEW o \in Operations, NEW r \in removals[o], ~r.done, Drop(t, r),
         UNCHANGED <<asks, place, settings, core>>
  PROVE  RemovalInv'
<1>1. Control /\ Data /\ TaskTypes /\ StoreTypes
  BY DEF RemovalInv, Control
<1>2. /\ at[t] = "dropping" /\ Go(t, "listing") /\ vectors' = vectors \ {r.asks.source}
      /\ UNCHANGED files /\ UNCHANGED rows /\ UNCHANGED trash /\ UNCHANGED disk /\ UNCHANGED settings
      /\ UNCHANGED removals /\ UNCHANGED memory /\ UNCHANGED listed /\ UNCHANGED late /\ UNCHANGED core
      /\ UNCHANGED pending
  BY DEF Drop, memory
<1>3. /\ at[t] \in Imported /\ at[t] \in Configured /\ at[t] \in Emptied /\ at[t] \in Stages
      /\ "listing" \in Stages /\ "listing" # "deleting"
  BY <1>2 DEF Stages, Imported, Configured, Emptied, Dropped
<1>4. \A p \in Operations : \A v \in removals[p] : ~v.done => p = o /\ v = r
  BY <1>3, StageFacts
<1>5. StoreTypes'
  BY <1>1, <1>2 DEF StoreTypes
<1>6. Control' /\ at' = [at EXCEPT ![t] = "listing"] /\ at'[t] = "listing"
      /\ \A u \in Removers : u # t => at'[u] \notin Stages
  BY <1>2, <1>3, <1>5, StageControl
<1>7. \A u \in Removers : /\ at'[u] \in Imported => at[u] \in Imported
                          /\ at'[u] \in Configured => at[u] \in Configured
                          /\ at'[u] \in Emptied => at[u] \in Emptied
  BY <1>3, <1>6, ClientPlaces
<1>8. FenceInv'
  BY <1>2, <1>3, <1>6, StageFence
<1>9. SettingsInv'
  BY <1>1, <1>2, <1>7 DEF Data, SettingsInv
<1>10. EmptiedInv'
  <2>1. r.asks.source \notin vectors'
    BY <1>2
  <2>2. \A p \in Operations : \A v \in removals'[p] : ~v.done => v = r
    BY <1>2, <1>4
  <2>3. \A u \in Removers : at'[u] # "deleting"
    BY <1>6 DEF Stages, Imported, Configured, Emptied, Dropped
  <2> QED BY <1>1, <1>2, <1>7, <2>1, <2>2, <2>3 DEF Data, EmptiedInv
<1>11. DoneInv'
  BY <1>1, <1>2 DEF Data, DoneInv
<1>12. ImageInv'
  BY <1>1, <1>2, <1>7 DEF Data, ImageInv
<1> QED BY <1>6, <1>8, <1>9, <1>10, <1>11, <1>12 DEF RemovalInv, Data

LEMMA ListStep ==
  ASSUME RemovalInv, NEW t \in Removers, NEW o \in Operations, NEW r \in removals[o], ~r.done, List(t, r),
         UNCHANGED <<asks, place, settings, core>>
  PROVE  RemovalInv'
<1>1. Control /\ Data /\ TaskTypes /\ StoreTypes
  BY DEF RemovalInv, Control
<1>2. /\ at[t] = "listing" /\ Go(t, "deleting") /\ listed' = trash[r.asks.source]
      /\ UNCHANGED files /\ UNCHANGED vectors /\ UNCHANGED rows /\ UNCHANGED trash /\ UNCHANGED disk
      /\ UNCHANGED settings /\ UNCHANGED removals /\ UNCHANGED memory /\ UNCHANGED late /\ UNCHANGED core
      /\ UNCHANGED pending
  BY DEF List, local, memory
<1>3. /\ at[t] \in Imported /\ at[t] \in Configured /\ at[t] \in Emptied /\ at[t] \in Dropped /\ at[t] \in Stages
      /\ "deleting" \in Stages
  BY <1>2 DEF Stages, Imported, Configured, Emptied, Dropped
<1>4. /\ \A p \in Operations : \A v \in removals[p] : ~v.done => p = o /\ v = r
      /\ r.asks.source \in Spaces
  BY <1>3, StageFacts
<1>5. StoreTypes'
  BY <1>1, <1>2, <1>4 DEF StoreTypes
<1>6. Control' /\ at' = [at EXCEPT ![t] = "deleting"] /\ at'[t] = "deleting"
      /\ \A u \in Removers : u # t => at'[u] \notin Stages
  BY <1>2, <1>3, <1>5, StageControl
<1>7. \A u \in Removers : /\ at'[u] \in Imported => at[u] \in Imported
                          /\ at'[u] \in Configured => at[u] \in Configured
                          /\ at'[u] \in Emptied => at[u] \in Emptied
                          /\ at'[u] \in Dropped => at[u] \in Dropped
  BY <1>3, <1>6, ClientPlaces
<1>8. FenceInv'
  BY <1>2, <1>3, <1>6, StageFence
<1>9. SettingsInv'
  BY <1>1, <1>2, <1>7 DEF Data, SettingsInv
<1>10. EmptiedInv'
  <2>1. trash'[r.asks.source] \subseteq listed' \cup late'
    BY <1>2
  <2>2. \A p \in Operations : \A v \in removals'[p] : ~v.done => v = r
    BY <1>2, <1>4
  <2> QED BY <1>1, <1>2, <1>7, <2>1, <2>2 DEF Data, EmptiedInv
<1>11. DoneInv'
  BY <1>1, <1>2 DEF Data, DoneInv
<1>12. ImageInv'
  BY <1>1, <1>2, <1>7 DEF Data, ImageInv
<1> QED BY <1>6, <1>8, <1>9, <1>10, <1>11, <1>12 DEF RemovalInv, Data
(* The last stage: what is left of the removal is done at once. *)
LEMMA AcknowledgeStep ==
  ASSUME RemovalInv, NEW t \in Removers, NEW o \in Operations, NEW r \in removals[o], ~r.done, Acknowledge(t, r),
         UNCHANGED <<asks, place, settings, core>>
  PROVE  RemovalInv'
<1>1. Control /\ Data /\ TaskTypes /\ StoreTypes /\ RecordInv /\ GateInv /\ ReservedInv
  BY DEF RemovalInv, Control
<1> DEFINE s == r.asks.source
           z == r.asks.target
           e == [r EXCEPT !.done = TRUE, !.image = {}, !.settings = {}]
           next == IF t = Startup THEN "opening" ELSE "publishing"
<1>2. /\ at[t] = "deleting" /\ at' = [at EXCEPT ![t] = next]
      /\ UNCHANGED <<asks, place, readers, writer, queue, reserved, core>>
      /\ rows' = [x \in Spaces |-> IF x = s THEN {} ELSE IF x = z THEN rows[z] \cup rows[s] ELSE rows[x]]
      /\ trash' = IF z = Nowhere THEN [trash EXCEPT ![s] = @ \ listed]
                  ELSE [trash EXCEPT ![s] = {}, ![z] = @ \cup trash[s]]
      /\ removals' = [removals EXCEPT ![r.asks.op] = {e}]
      /\ retired' = retired \ {z} /\ listed' = {}
      /\ UNCHANGED files /\ UNCHANGED vectors /\ UNCHANGED disk /\ UNCHANGED settings /\ UNCHANGED pending
      /\ UNCHANGED late /\ UNCHANGED core
  BY DEF Acknowledge, Go, Move, gate
<1>3. /\ at[t] \in Configured /\ at[t] \in Emptied /\ at[t] \in Dropped /\ at[t] \in Stages
  BY <1>2 DEF Stages, Imported, Configured, Emptied, Dropped
<1>4. /\ \A p \in Operations : \A v \in removals[p] : ~v.done => p = o /\ v = r
      /\ \A p \in Operations : \A v \in removals[p] : v.done => v.asks.source \in Spaces /\ v.asks.source # s /\ v.asks.source # z
      /\ r \in Removals /\ r.asks.op = o /\ s \in Spaces /\ z \in Spaces \cup {Nowhere} /\ s # z
      /\ \A u \in Removers : u # t => at[u] \notin Stages
      /\ core # "down"
  BY <1>3, StageFacts
<1>5. e \in Removals /\ e.asks = r.asks /\ e.done /\ e.settings = {}
  BY <1>4 DEF Removals
<1> HIDE DEF e
<1>6. /\ removals'[o] = {e} /\ \A p \in Operations : p # o => removals'[p] = removals[p]
      /\ removals' \in [Operations -> SUBSET Removals]
  BY <1>1, <1>2, <1>4, <1>5 DEF StoreTypes
<1>7. \A p \in Operations : \A v \in removals'[p] :
        \/ v = e /\ p = o
        \/ v \in removals[p] /\ v.done /\ v.asks.source \in Spaces \ {s, z}
  BY <1>4, <1>6
<1>8. \A p \in Operations : \A v \in removals'[p] : v.done
  BY <1>5, <1>7
<1>9. rows' \in [Spaces -> SUBSET Rows] /\ rows'[s] = {} /\ \A x \in Spaces \ {s, z} : rows'[x] = rows[x]
  <2>1. rows \in [Spaces -> SUBSET Rows]
    BY <1>1 DEF StoreTypes
  <2>2. \A x \in Spaces : rows'[x] = IF x = s THEN {} ELSE IF x = z THEN rows[z] \cup rows[s] ELSE rows[x]
    BY <1>2
  <2>3. \A x \in Spaces : rows'[x] \in SUBSET Rows
    BY <1>4, <2>1, <2>2
  <2> QED BY <1>2, <1>4, <2>2, <2>3
<1>10. trash' \in [Spaces -> SUBSET Rows] /\ \A x \in Spaces \ {s, z} : trash'[x] = trash[x]
  BY <1>1, <1>2, <1>4 DEF StoreTypes
<1>11. trash'[s] \subseteq late
  <2>1. CASE z = Nowhere
    <3>1. trash[s] \subseteq listed \cup late
      BY <1>1, <1>2, <1>4, <2>1 DEF Data, EmptiedInv
    <3>2. trash'[s] = trash[s] \ listed
      BY <1>1, <1>2, <1>4, <2>1 DEF StoreTypes
    <3> QED BY <3>1, <3>2
  <2>2. CASE z # Nowhere
    BY <1>1, <1>2, <1>4, <2>2 DEF StoreTypes
  <2> QED BY <2>1, <2>2
<1>12. StoreTypes'
  BY <1>1, <1>2, <1>6, <1>9, <1>10 DEF StoreTypes
<1>13. RecordInv'
  <2>1. \A p \in Operations : \A v, u \in removals'[p] : v = u
    BY <1>1, <1>6 DEF RecordInv
  <2>2. \A p \in Operations : \A v \in removals'[p] : v.asks.op = p /\ v.asks.source # v.asks.target
    BY <1>1, <1>4, <1>5, <1>7 DEF RecordInv
  <2> QED BY <2>1, <2>2 DEF RecordInv
<1>14. Control'
  <2>1. next \in Places \ {"waiting"} /\ next \notin {"reserving", "planning"}
    BY ClientPlaces
  <2>2. t \in Clients => core = "up" /\ at[t] \in Inside /\ next \in Inside
    BY <1>1, <1>3, OneInside, Kinds, ClientPlaces
  <2>3. t = Startup => core = "starting" /\ next \in Stages \cup {"opening"}
    BY <1>1, <1>3, OneInside
  <2>4. retired' \subseteq Spaces /\ pending' \in BOOLEAN /\ \A w \in Writers : reserved[w] \cap retired' = {}
    BY <1>1, <1>2 DEF TaskTypes, ReservedInv
  <2> HIDE DEF next
  <2> QED BY <1>1, <1>2, <1>12, <1>13, <2>1, <2>2, <2>3, <2>4, InsideControl
<1>15. \A u \in Removers : at'[u] \notin Stages
  <2>1. next \notin Stages
    BY DEF Stages, Imported, Configured, Emptied, Dropped
  <2> HIDE DEF next
  <2> QED BY <1>1, <1>2, <1>4, <2>1, Kinds DEF TaskTypes
<1>16. FenceInv'
  <2>1. \A p \in Operations : \A v \in removals'[p] : v.asks.source \in retired'
    <3>1. s \in retired
      <4>1. Touched(r.asks) \subseteq retired
        BY <1>1, <1>4 DEF Data, FenceInv
      <4> QED BY <1>4, <4>1 DEF Touched
    <3>2. \A p \in Operations : \A v \in removals[p] : v.done => v.asks.source \in retired
      BY <1>1, <1>4 DEF Data, FenceInv
    <3> QED BY <1>2, <1>4, <1>5, <1>7, <3>1, <3>2
  <2> QED BY <1>8, <2>1 DEF FenceInv, NonePending
<1>17. SettingsInv'
  <2>1. \A p \in Operations : \A v \in removals'[p] : \A i, j \in v.settings : i = j
    BY <1>1, <1>5, <1>7 DEF Data, SettingsInv
  <2>2. core' = "up" /\ ~pending' => settings' = disk'
    BY <1>1, <1>2 DEF Data, SettingsInv
  <2> QED BY <1>8, <2>1, <2>2 DEF SettingsInv
<1>18. EmptiedInv' /\ ImageInv'
  BY <1>8 DEF EmptiedInv, ImageInv
<1>19. DoneInv'
  <2>1. files[s] = {} /\ s \notin vectors
    BY <1>1, <1>3, <1>4 DEF Data, EmptiedInv
  <2>2. disk.overrides[s] = Default
    BY <1>1, <1>3, <1>4 DEF Data, SettingsInv
  <2>3. \A p \in Operations : \A v \in removals'[p] :
          files'[v.asks.source] = {} /\ rows'[v.asks.source] = {} /\ v.asks.source \notin vectors'
    <3>1. \A p \in Operations : \A v \in removals[p] : v.done =>
            files[v.asks.source] = {} /\ rows[v.asks.source] = {} /\ v.asks.source \notin vectors
      BY <1>1 DEF Data, DoneInv
    <3>2. files' = files /\ vectors' = vectors
      BY <1>2
    <3> SUFFICES ASSUME NEW p \in Operations, NEW v \in removals'[p]
                 PROVE  /\ files'[v.asks.source] = {} /\ rows'[v.asks.source] = {}
                        /\ v.asks.source \notin vectors'
      OBVIOUS
    <3>3. CASE v = e /\ p = o
      BY <1>5, <1>9, <2>1, <3>2, <3>3
    <3>4. CASE v \in removals[p] /\ v.done /\ v.asks.source \in Spaces \ {s, z}
      BY <1>9, <3>1, <3>2, <3>4
    <3> QED BY <1>7, <3>3, <3>4
  <2>4. \A p \in Operations : \A v \in removals'[p] : disk'.overrides[v.asks.source] = Default
    BY <1>1, <1>2, <1>5, <1>7, <2>2 DEF Data, DoneInv
  <2>5. \A p \in Operations : \A v \in removals'[p] : trash'[v.asks.source] \subseteq late'
    <3>1. \A p \in Operations : \A v \in removals[p] : v.done => trash[v.asks.source] \subseteq late
      BY <1>1 DEF Data, DoneInv
    <3>2. e.asks.source = s /\ trash'[s] \subseteq late'
      BY <1>2, <1>5, <1>11
    <3>3. \A x \in Spaces \ {s, z} : trash'[x] = trash[x]
      BY <1>10
    <3>4. late' = late
      BY <1>2
    <3> HIDE DEF s, z
    <3> QED BY <1>7, <3>1, <3>2, <3>3, <3>4
  <2> QED BY <2>3, <2>4, <2>5 DEF DoneInv
<1> QED BY <1>14, <1>16, <1>17, <1>18, <1>19 DEF RemovalInv, Data

LEMMA FinishStep ==
  ASSUME RemovalInv, NEW t \in Removers, Finish(t)
  PROVE  RemovalInv'
<1>1. RecordInv
  BY DEF RemovalInv, Control
<1>2. UNCHANGED <<asks, place, settings, core>>
  BY DEF Finish
<1>3. PICK o \in Pending :
        \/ Import(t, Record(o)) \/ Unindex(t, Record(o)) \/ Configure(t, Record(o)) \/ Empty(t, Record(o))
        \/ Drop(t, Record(o)) \/ List(t, Record(o)) \/ Acknowledge(t, Record(o))
  BY DEF Finish, Finishes
<1>4. o \in Operations /\ Record(o) \in removals[o] /\ ~Record(o).done
  BY <1>1, PendingRecord
<1> QED BY <1>2, <1>3, <1>4, ImportStep, UnindexStep, ConfigureStep, EmptyStep, DropStep, ListStep, AcknowledgeStep
LEMMA PublishStep ==
  ASSUME RemovalInv, core = "up", NEW c \in Clients, Publish(c)
  PROVE  RemovalInv'
<1>1. Control /\ Data /\ TaskTypes /\ StoreTypes /\ GateInv /\ AsksInv
  BY DEF RemovalInv, Control
<1>2. /\ at[c] = "publishing" /\ at' = [at EXCEPT ![c] = "answered"] /\ writer' = writer \ {c}
      /\ reserved' = [reserved EXCEPT ![c] = {}]
      /\ UNCHANGED <<place, readers, queue, removals, retired, core>>
      /\ IF Pending = {} THEN settings' = disk /\ pending' = FALSE ELSE UNCHANGED <<settings, pending>>
      /\ UNCHANGED asks /\ UNCHANGED files /\ UNCHANGED vectors /\ UNCHANGED rows /\ UNCHANGED trash
      /\ UNCHANGED disk /\ UNCHANGED removals /\ UNCHANGED retired /\ UNCHANGED listed /\ UNCHANGED core
      /\ UNCHANGED late
  BY DEF Publish, Return, Move, local, bounds
<1>3. at[c] \in Inside /\ c \in Removers
  BY <1>2, ClientPlaces DEF Removers
<1>4. StoreTypes'
  BY <1>1, <1>2 DEF StoreTypes
<1>5. Control'
  <2>1. pending' \in BOOLEAN /\ writer' \subseteq writer /\ writer \ {c} \subseteq writer'
        /\ asks' \in [Clients -> SUBSET Requests]
    BY <1>1, <1>2 DEF TaskTypes
  <2>2. AsksInv' /\ \A d \in Clients : d # c => asks'[d] = asks[d]
    BY <1>1, <1>2 DEF AsksInv
  <2>3. "answered" \in Places \ (Inside \cup {"waiting"})
    BY ClientPlaces
  <2> QED BY <1>1, <1>2, <1>4, <2>1, <2>2, <2>3, OutsideControl
<1>6. /\ \A u \in Removers : at'[u] \notin Stages
      /\ at'[Startup] # "opening"
  <2>1. "answered" \notin Stages
    BY DEF Stages, Imported, Configured, Emptied, Dropped
  <2>2. at'[Startup] = at[Startup]
    BY <1>1, <1>2, Kinds DEF TaskTypes
  <2>3. /\ at[Startup] # "opening" /\ \A u \in Removers : u # c => at[u] \notin Stages
    BY <1>1, <1>3, AloneInside
  <2>4. at'[c] = "answered" /\ \A u \in Removers : u # c => at'[u] = at[u]
    BY <1>1, <1>2, OnlyMoves
  <2> QED BY <2>1, <2>2, <2>3, <2>4
<1>7. \A u \in Removers : at'[u] \notin Imported /\ at'[u] \notin Configured /\ at'[u] \notin Emptied
                          /\ at'[u] \notin Dropped /\ at'[u] # "deleting"
  BY <1>6 DEF Stages, Imported, Configured, Emptied, Dropped
<1>8. FenceInv'
  <2>1. \A o \in Operations : \A r \in removals'[o] : ~r.done /\ core' = "up" => pending'
    BY <1>1, <1>2 DEF Data, FenceInv, Pending
  <2> QED BY <1>1, <1>2, <1>6, <2>1 DEF Data, FenceInv
<1>9. SettingsInv'
  <2>1. core' = "up" /\ ~pending' => settings' = disk'
    BY <1>1, <1>2 DEF Data, SettingsInv
  <2> QED BY <1>1, <1>2, <1>7, <2>1 DEF Data, SettingsInv
<1>10. EmptiedInv'
  BY <1>7 DEF EmptiedInv
<1>11. DoneInv'
  BY <1>1, <1>2 DEF Data, DoneInv
<1>12. ImageInv'
  BY <1>1, <1>2, <1>7 DEF Data, ImageInv
<1> QED BY <1>5, <1>8, <1>9, <1>10, <1>11, <1>12 DEF RemovalInv, Data
----------------------------------------------------------------------------
(* The process exits, and starts again with what is recorded. *)
LEMMA ExitStep ==
  ASSUME RemovalInv, Exit
  PROVE  RemovalInv'
<1>1. Control /\ Data /\ TaskTypes /\ StoreTypes /\ GateInv /\ AsksInv /\ RecordInv
  BY DEF RemovalInv, Control
<1>2. /\ core' = "down" /\ retired' = {} /\ pending' = FALSE /\ readers' = {} /\ writer' = {} /\ queue' = <<>>
      /\ reserved' = [t \in Tasks |-> {}] /\ listed' = {}
      /\ at' = [t \in Tasks |-> IF t \in Clients /\ at[t] \notin {"idle", "confirmed", "answered"} THEN "failed"
                                ELSE IF t \notin Clients /\ at[t] \notin {"idle", "done", "refused"} THEN "gone"
                                ELSE at[t]]
      /\ UNCHANGED asks /\ UNCHANGED place /\ UNCHANGED files /\ UNCHANGED vectors /\ UNCHANGED rows
      /\ UNCHANGED trash /\ UNCHANGED disk /\ UNCHANGED settings /\ UNCHANGED removals /\ UNCHANGED late
  BY DEF Exit, local
<1>3. \A t \in Tasks : at'[t] \in {"failed", "gone", "idle", "confirmed", "answered", "done", "refused"}
  <2> SUFFICES ASSUME NEW t \in Tasks
               PROVE  at'[t] \in {"failed", "gone", "idle", "confirmed", "answered", "done", "refused"}
    OBVIOUS
  <2>1. at'[t] = IF t \in Clients /\ at[t] \notin {"idle", "confirmed", "answered"} THEN "failed"
                 ELSE IF t \notin Clients /\ at[t] \notin {"idle", "done", "refused"} THEN "gone" ELSE at[t]
    BY <1>2
  <2> QED BY <2>1
<1>4. \A t \in Tasks : at'[t] \in Places /\ at'[t] \notin Inside \cup {"waiting", "opening"} /\ at'[t] \notin Active
  <2>1. {"failed", "gone", "idle", "confirmed", "answered", "done", "refused"}
          \subseteq Places \ (Inside \cup Active \cup {"waiting", "opening"})
    BY DEF Places, Quiet, Active, Inside, Stages, Imported, Configured, Emptied, Dropped
  <2> QED BY <1>3, <2>1
<1>5. \A t \in Removers : t \in Tasks /\ at'[t] \notin Stages /\ at'[t] # "opening"
  BY <1>4, Kinds, ClientPlaces
<1>6. \A u \in Removers : at'[u] \notin Imported /\ at'[u] \notin Configured /\ at'[u] \notin Emptied
                          /\ at'[u] \notin Dropped /\ at'[u] # "deleting"
  BY <1>5 DEF Stages, Imported, Configured, Emptied, Dropped
<1>7. TaskTypes'
  <2>1. at' \in [Tasks -> Places]
    <3>1. DOMAIN at' = Tasks /\ at' = [t \in Tasks |-> at'[t]]
      BY <1>2
    <3> QED BY <1>4, <3>1
  <2>2. queue' \in Seq(Clients) /\ reserved' \in [Tasks -> SUBSET Spaces]
    BY <1>2
  <2> QED BY <1>1, <1>2, <2>1, <2>2 DEF TaskTypes
<1>8. StoreTypes' /\ AsksInv' /\ RecordInv'
  BY <1>1, <1>2 DEF StoreTypes, AsksInv, RecordInv
<1>9. GateInv'
  <2>1. \A c \in Clients : at'[c] \notin Inside \cup {"waiting"}
    BY <1>4, Kinds
  <2>2. \A w \in Writers : at'[w] \notin Active
    BY <1>4, Kinds
  <2>3. at'[Startup] \notin Stages \cup {"opening"}
    BY <1>5 DEF Removers
  <2> QED BY <1>2, <2>1, <2>2, <2>3 DEF GateInv
<1>10. ReservedInv'
  <2>1. \A w \in Writers : w \in Tasks /\ at'[w] # "owning"
    BY <1>4, Kinds DEF Active
  <2>2. \A c \in Clients : c \in Tasks /\ at'[c] \notin {"reserving", "planning"}
    BY <1>3, Kinds
  <2> QED BY <1>2, <2>1, <2>2 DEF ReservedInv
<1>11. FenceInv'
  <2>1. at'[Startup] # "opening"
    BY <1>5 DEF Removers
  <2> QED BY <1>1, <1>2, <2>1 DEF Data, FenceInv
<1>12. SettingsInv'
  BY <1>1, <1>2, <1>6 DEF Data, SettingsInv
<1>13. EmptiedInv'
  BY <1>6 DEF EmptiedInv
<1>14. DoneInv'
  BY <1>1, <1>2 DEF Data, DoneInv
<1>15. ImageInv'
  BY <1>1, <1>2, <1>6 DEF Data, ImageInv
<1> QED BY <1>7, <1>8, <1>9, <1>10, <1>11, <1>12, <1>13, <1>14, <1>15 DEF RemovalInv, Control, Data

LEMMA StartStep ==
  ASSUME RemovalInv, Start
  PROVE  RemovalInv'
<1>1. Control /\ Data /\ TaskTypes /\ StoreTypes /\ GateInv /\ AsksInv /\ RecordInv /\ ReservedInv
  BY DEF RemovalInv, Control
<1> DEFINE next == IF Pending = {} THEN "opening" ELSE "importing"
           sources == {{r.asks.source} : r \in UNION {removals[o] : o \in Operations}}
           fenced == {Touched(Record(o).asks) : o \in Pending}
<1>2. /\ core = "down" /\ core' = "starting" /\ at' = [at EXCEPT ![Startup] = next]
      /\ retired' = (UNION sources) \cup (UNION fenced)
      /\ UNCHANGED asks /\ UNCHANGED place /\ UNCHANGED readers /\ UNCHANGED writer /\ UNCHANGED queue
      /\ UNCHANGED reserved /\ UNCHANGED files /\ UNCHANGED vectors /\ UNCHANGED rows /\ UNCHANGED trash
      /\ UNCHANGED disk /\ UNCHANGED settings /\ UNCHANGED removals /\ UNCHANGED pending /\ UNCHANGED listed
      /\ UNCHANGED late
  BY DEF Start, Move, gate, local, bounds
<1>3. next \in Places /\ next \in Stages \cup {"opening"} /\ next \notin Imported
  BY DEF Places, Quiet, Inside, Stages, Imported, Configured, Emptied, Dropped
<1>4. at'[Startup] = next /\ \A t \in Tasks : t # Startup => at'[t] = at[t]
  BY <1>1, <1>2, Kinds DEF TaskTypes
<1>5. next = "opening" => NonePending
  BY NonePendingIs
<1> HIDE DEF next
<1>6. /\ \A o \in Operations : \A r \in removals[o] : r.asks.source \in retired'
      /\ \A o \in Operations : \A r \in removals[o] : ~r.done => Touched(r.asks) \subseteq retired'
      /\ retired' \subseteq Spaces
  <2>1. \A o \in Operations : \A r \in removals[o] : {r.asks.source} \in sources
    OBVIOUS
  <2>2. \A o \in Operations : \A r \in removals[o] : ~r.done => o \in Pending /\ Record(o) = r
    BY <1>1, RecordIs DEF Pending
  <2>3. \A o \in Pending : Touched(Record(o).asks) \in fenced
    OBVIOUS
  <2>4. \A o \in Operations : \A r \in removals[o] : ~r.done => Touched(r.asks) \in fenced
    BY <2>2, <2>3
  <2>5. \A o \in Operations : \A r \in removals[o] : r.asks.source \in Spaces
    BY <1>1 DEF StoreTypes, Removals, Requests
  <2>6. \A S \in sources : S \subseteq Spaces
    BY <2>5
  <2>7. \A S \in fenced : S \subseteq Spaces
    BY DEF Touched
  <2> HIDE DEF sources, fenced
  <2>8. retired' = (UNION sources) \cup (UNION fenced)
    BY <1>2
  <2>9. \A o \in Operations : \A r \in removals[o] : r.asks.source \in retired'
    BY <2>1, <2>8
  <2>10. \A o \in Operations : \A r \in removals[o] : ~r.done => Touched(r.asks) \subseteq retired'
    BY <2>4, <2>8
  <2>11. retired' \subseteq Spaces
    BY <2>6, <2>7, <2>8
  <2> QED BY <2>9, <2>10, <2>11
<1>7. TaskTypes'
  <2>1. at' \in [Tasks -> Places]
    BY <1>1, <1>2, <1>3 DEF TaskTypes
  <2> QED BY <1>1, <1>2, <1>6, <2>1 DEF TaskTypes
<1>8. StoreTypes' /\ AsksInv' /\ RecordInv'
  BY <1>1, <1>2 DEF StoreTypes, AsksInv, RecordInv
<1>9. (\A c \in Clients : at'[c] = at[c]) /\ \A w \in Writers : at'[w] = at[w]
  BY <1>4, Kinds
<1>10. GateInv'
  BY <1>1, <1>2, <1>9 DEF GateInv
<1>11. ReservedInv'
  <2>1. \A t \in Tasks : reserved'[t] = {}
    BY <1>1, <1>2 DEF GateInv
  <2>2. \A w \in Writers : at'[w] # "owning"
    BY <1>1, <1>2, <1>9 DEF GateInv, Active
  <2>3. \A c \in Clients : at'[c] \notin {"reserving", "planning"}
    BY <1>1, <1>2, <1>9 DEF GateInv, Inside
  <2> QED BY <2>1, <2>2, <2>3, Kinds DEF ReservedInv
<1>12. \A u \in Removers : at'[u] \notin Imported
  <2>1. \A c \in Clients : at'[c] \notin Imported
    BY <1>1, <1>2, <1>9, ClientPlaces DEF GateInv
  <2> QED BY <1>3, <1>4, <2>1 DEF Removers
<1>13. FenceInv'
  <2>1. at'[Startup] = "opening" => NonePending'
    BY <1>2, <1>4, <1>5 DEF NonePending
  <2> QED BY <1>1, <1>2, <1>6, <2>1 DEF Data, FenceInv
<1>14. SettingsInv'
  BY <1>1, <1>2, <1>12, ClientPlaces DEF Data, SettingsInv
<1>15. EmptiedInv'
  BY <1>12 DEF EmptiedInv, Imported, Configured, Emptied, Dropped
<1>16. DoneInv'
  BY <1>1, <1>2 DEF Data, DoneInv
<1>17. ImageInv'
  BY <1>1, <1>2, <1>12 DEF Data, ImageInv
<1> QED BY <1>7, <1>8, <1>10, <1>11, <1>13, <1>14, <1>15, <1>16, <1>17 DEF RemovalInv, Control, Data

LEMMA OpenStep ==
  ASSUME RemovalInv, Open
  PROVE  RemovalInv'
<1>1. Control /\ Data /\ TaskTypes /\ StoreTypes /\ GateInv /\ AsksInv /\ RecordInv /\ ReservedInv
  BY DEF RemovalInv, Control
<1>2. /\ core = "starting" /\ at[Startup] = "opening" /\ core' = "up" /\ settings' = disk
      /\ at' = [at EXCEPT ![Startup] = "idle"]
      /\ UNCHANGED asks /\ UNCHANGED place /\ UNCHANGED readers /\ UNCHANGED writer /\ UNCHANGED queue
      /\ UNCHANGED reserved /\ UNCHANGED files /\ UNCHANGED vectors /\ UNCHANGED rows /\ UNCHANGED trash
      /\ UNCHANGED disk /\ UNCHANGED removals /\ UNCHANGED retired /\ UNCHANGED pending /\ UNCHANGED listed
      /\ UNCHANGED late
  BY DEF Open, Move, gate, local, memory, bounds
<1>3. "idle" \in Places /\ "idle" \notin Stages \cup {"opening"}
  BY DEF Places, Quiet, Stages, Imported, Configured, Emptied, Dropped
<1>4. at'[Startup] = "idle" /\ \A t \in Tasks : t # Startup => at'[t] = at[t]
  BY <1>1, <1>2, Kinds DEF TaskTypes
<1>5. NonePending
  BY <1>1, <1>2 DEF Data, FenceInv
<1>6. TaskTypes'
  <2>1. at' \in [Tasks -> Places]
    BY <1>1, <1>2, <1>3 DEF TaskTypes
  <2> QED BY <1>1, <1>2, <2>1 DEF TaskTypes
<1>7. StoreTypes' /\ AsksInv' /\ RecordInv'
  BY <1>1, <1>2 DEF StoreTypes, AsksInv, RecordInv
<1>8. (\A c \in Clients : at'[c] = at[c]) /\ \A w \in Writers : at'[w] = at[w]
  BY <1>4, Kinds
<1>9. GateInv'
  BY <1>1, <1>2, <1>3, <1>4, <1>8 DEF GateInv
<1>10. ReservedInv'
  <2>1. NonePending' <=> NonePending
    BY <1>2 DEF NonePending
  <2> QED BY <1>1, <1>2, <1>8, <2>1 DEF ReservedInv
<1>11. \A o \in Operations : \A r \in removals'[o] : r.done
  BY <1>2, <1>5 DEF NonePending
<1>12. FenceInv'
  BY <1>1, <1>2, <1>4, <1>11 DEF Data, FenceInv
<1>13. SettingsInv'
  <2>1. \A o \in Operations : \A r \in removals'[o] : \A i, j \in r.settings : i = j
    BY <1>1, <1>2 DEF Data, SettingsInv
  <2> QED BY <1>2, <1>11, <2>1 DEF SettingsInv
<1>14. EmptiedInv' /\ ImageInv'
  BY <1>11 DEF EmptiedInv, ImageInv
<1>15. DoneInv'
  BY <1>1, <1>2 DEF Data, DoneInv
<1> QED BY <1>6, <1>7, <1>9, <1>10, <1>12, <1>13, <1>14, <1>15 DEF RemovalInv, Control, Data
----------------------------------------------------------------------------
LEMMA WritersStep ==
  ASSUME RemovalInv, NEW w \in Writers,
         (\E s \in Spaces : Admit(w, s)) \/ Work(w) \/ Commits(w) \/ GiveUp(w) \/ Disconnect(w)
  PROVE  RemovalInv'
BY AdmitStep, WorkStep, CommitStep, CompleteStep, GiveUpStep, DisconnectStep DEF Commits

LEMMA ClientsStep ==
  ASSUME RemovalInv, NEW c \in Clients,
         \/ \E o \in Operations, s \in Spaces, t \in Spaces \cup {Nowhere} : Confirm(c, o, s, t)
         \/ (\E o \in Operations : Again(c, o)) \/ Ask(c) \/ Remove(c) \/ Fail(c)
  PROVE  RemovalInv'
<1>1. CASE Remove(c)
  <2>1. core = "up" /\ c \in Removers
    BY <1>1 DEF Remove, Removers
  <2> QED BY <1>1, <2>1, TakeGateStep, LookStep, ReserveStep, PlanStep, FinishStep, PublishStep DEF Remove
<1> QED BY <1>1, ConfirmStep, AgainStep, AskStep, FailStep

LEMMA RemovalInvNext == RemovalInv /\ [Next]_vars => RemovalInv'
<1> SUFFICES ASSUME RemovalInv, [Next]_vars PROVE RemovalInv'
  OBVIOUS
<1>1. ASSUME NEW c \in Clients,
             \/ \E o \in Operations, s \in Spaces, t \in Spaces \cup {Nowhere} : Confirm(c, o, s, t)
             \/ (\E o \in Operations : Again(c, o)) \/ Ask(c) \/ Remove(c) \/ Fail(c)
      PROVE  RemovalInv'
  BY <1>1, ClientsStep
<1>2. ASSUME NEW w \in Writers,
             (\E s \in Spaces : Admit(w, s)) \/ Work(w) \/ Commits(w) \/ GiveUp(w) \/ Disconnect(w)
      PROVE  RemovalInv'
  BY <1>2, WritersStep
<1>3. ASSUME NEW k \in Controls, SubmitControl(k) \/ \E s \in Spaces, x \in Rows : DeleteRow(k, s, x)
      PROVE  RemovalInv'
  BY <1>3, SubmitControlStep, DeleteRowStep
<1>4. CASE \E s \in Spaces, v \in Values \cup {Default} : Override(s, v)
  BY <1>4, OverrideStep
<1>5. CASE Exit
  BY <1>5, ExitStep
<1>6. CASE Recover
  BY <1>6, StartStep, OpenStep, FinishStep DEF Recover, Removers
<1>7. CASE UNCHANGED vars
  <2>1. /\ UNCHANGED at /\ UNCHANGED asks /\ UNCHANGED place /\ UNCHANGED readers /\ UNCHANGED writer
        /\ UNCHANGED queue /\ UNCHANGED reserved /\ UNCHANGED files /\ UNCHANGED vectors /\ UNCHANGED rows
        /\ UNCHANGED trash /\ UNCHANGED disk /\ UNCHANGED settings /\ UNCHANGED removals /\ UNCHANGED retired
        /\ UNCHANGED pending /\ UNCHANGED listed /\ UNCHANGED core /\ UNCHANGED late
    BY <1>7 DEF vars, gate, local, memory, bounds
  <2>2. Control /\ Data
    BY DEF RemovalInv
  <2>3. Control'
    <3>1. StoreTypes' /\ pending' \in BOOLEAN
      BY <2>1, <2>2 DEF Control, StoreTypes, TaskTypes
    <3> QED BY <2>1, <2>2, <3>1, OtherControl
  <2>4. Data'
    BY <2>1, <2>2, DataAside
  <2> QED BY <2>3, <2>4 DEF RemovalInv
<1> QED BY <1>1, <1>2, <1>3, <1>4, <1>5, <1>6, <1>7 DEF Next

(* The inductive invariant of the removal of Spaces: who is inside a       *)
(* removal is alone, its Spaces are fenced, and every stage it has passed  *)
(* remains true of the stores (space_removal.rs, finish_space_removal).    *)
THEOREM RemovalInvHolds == Spec => []RemovalInv
<1>1. Init => RemovalInv
  BY RemovalInvInit
<1>2. RemovalInv /\ [Next]_vars => RemovalInv'
  BY RemovalInvNext
<1> QED BY <1>1, <1>2, PTL DEF Spec
----------------------------------------------------------------------------
(* What the model states of a removal follows from the invariant.          *)
LEMMA TypesFollow ==
  ASSUME RemovalInv
  PROVE  TypeOK
<1>1. TaskTypes /\ StoreTypes
  BY DEF RemovalInv, Control
<1>2. \A o \in Operations : \A r \in removals[o] : r.asks \in Requests /\ r.image \subseteq Docs
  BY <1>1 DEF StoreTypes, Removals
<1>3. /\ DOMAIN at = Tasks /\ core \in {"up", "starting", "down"} /\ \A c \in Clients : asks[c] \subseteq Requests
      /\ readers \subseteq Writers /\ writer \subseteq Clients /\ queue \in Seq(Clients)
      /\ reserved \in [Tasks -> SUBSET Spaces] /\ retired \subseteq Spaces /\ pending \in BOOLEAN
  BY <1>1 DEF TaskTypes
<1> QED BY <1>1, <1>2, <1>3 DEF TypeOK, StoreTypes

LEMMA FencesFollow ==
  ASSUME RemovalInv
  PROVE  SpacesFenced
<1>1. RecordInv /\ ReservedInv /\ FenceInv
  BY DEF RemovalInv, Control, Data
<1> SUFFICES ASSUME NEW o \in Pending, NEW p \in Pending
             PROVE  /\ o = p
                    /\ core = "up" => /\ Touched(Record(o).asks) \subseteq retired /\ pending
                                      /\ \A w \in Writers : reserved[w] \cap Touched(Record(o).asks) = {}
  BY DEF SpacesFenced
<1>2. /\ o \in Operations /\ Record(o) \in removals[o] /\ ~Record(o).done
      /\ p \in Operations /\ Record(p) \in removals[p] /\ ~Record(p).done
  BY <1>1, PendingRecord
<1>3. o = p
  BY <1>1, <1>2 DEF FenceInv
<1>4. core = "up" => Touched(Record(o).asks) \subseteq retired /\ pending
  BY <1>1, <1>2 DEF FenceInv
<1>5. \A w \in Writers : reserved[w] \cap retired = {}
  BY <1>1 DEF ReservedInv
<1> QED BY <1>3, <1>4, <1>5

LEMMA EmptinessFollows ==
  ASSUME RemovalInv
  PROVE  RetiredEmpty
<1>1. FenceInv /\ DoneInv
  BY DEF RemovalInv, Data
<1> SUFFICES ASSUME NEW s \in Retired
             PROVE  /\ files[s] = {} /\ rows[s] = {} /\ s \notin vectors
                    /\ disk.overrides[s] = Default /\ trash[s] \subseteq late
                    /\ core = "up" => s \in retired
  BY DEF RetiredEmpty
<1>2. \E o \in Operations : \E r \in removals[o] : r.done /\ s = r.asks.source
  BY DEF Retired
<1> QED BY <1>1, <1>2 DEF FenceInv, DoneInv

(* A removal fences what it works on until it is done, and what it removed *)
(* stays empty in every store, whoever was still at work in it; the rows   *)
(* that were put in its trash as it finished are the exception             *)
(* (space_removal.rs, finish_space_sql and the triggers of 0029).          *)
THEOREM RemovalCompleteHolds == Spec => []RemovalComplete
<1>1. RemovalInv => RemovalComplete
  BY TypesFollow, FencesFollow, EmptinessFollows DEF RemovalComplete
<1> QED BY <1>1, RemovalInvHolds, PTL
----------------------------------------------------------------------------
(* Where something that was stored may be. *)
Stored(x) == \E s \in Spaces : x \in files[s] \cup rows[s] \cup trash[s]
Held(x) == \E o \in Operations : \E r \in removals[o] : ~r.done /\ x \in r.image
Agreed(x) ==
  \E o \in Operations : \E r \in removals[o] :
    r.asks.target = Nowhere /\ x \in r.asks.assets.files \cup r.asks.assets.rows \cup r.asks.assets.trash

Kept(x) == Stored(x) \/ Held(x) \/ Agreed(x)

LEMMA KeptIs ==
  ASSUME RecordInv
  PROVE  NothingLost <=> \A x \in written : Kept(x)
<1>1. \A x : (\E o \in Pending : x \in Record(o).image) <=> Held(x)
  <2>1. \A x : (\E o \in Pending : x \in Record(o).image) => Held(x)
    BY PendingRecord DEF Held
  <2>2. \A x : Held(x) => \E o \in Pending : x \in Record(o).image
    BY RecordIs DEF Held, Pending
  <2> QED BY <2>1, <2>2
<1>2. \A x : x \in Confirmed <=> Agreed(x)
  BY DEF Confirmed, Agreed
<1> QED BY <1>1, <1>2 DEF NothingLost, Kept, Stored

LEMMA KeptAfter ==
  ASSUME RecordInv', \A x \in written' : Kept(x)'
  PROVE  NothingLost'
<1>1. \A x : Held(x)' => \E o \in Pending' : x \in Record(o)'.image
  <2> SUFFICES ASSUME NEW x, Held(x)'
               PROVE  \E o \in Pending' : x \in Record(o)'.image
    OBVIOUS
  <2>1. PICK o \in Operations : \E r \in removals'[o] : ~r.done /\ x \in r.image
    BY DEF Held
  <2>2. PICK r \in removals'[o] : ~r.done /\ x \in r.image
    BY <2>1
  <2>3. o \in Pending' /\ Record(o)' = r
    BY <2>2 DEF Pending, Record, RecordInv
  <2> QED BY <2>2, <2>3
<1>2. \A x : Agreed(x)' => x \in Confirmed'
  BY DEF Confirmed, Agreed
<1> QED BY <1>1, <1>2 DEF NothingLost, Kept, Stored

(* A step that leaves files, rows, trash and records as they are. *)
LEMMA KeptAside ==
  ASSUME \A x \in written : Kept(x), UNCHANGED <<files, rows, trash, removals, written>>
  PROVE  \A x \in written' : Kept(x)'
BY DEF Kept, Stored, Held, Agreed

(* One that changes no record, and moves what is stored within the stores. *)
LEMMA KeptStored ==
  ASSUME \A x \in written : Kept(x), UNCHANGED <<removals, written>>, \A x : Stored(x) => Stored(x)'
  PROVE  \A x \in written' : Kept(x)'
BY DEF Kept, Held, Agreed

LEMMA KeptByWriters ==
  ASSUME RemovalInv, \A x \in written : Kept(x), NEW w \in Writers, NEW s \in place[w],
         (\E d \in Docs : Commit(w, s, d)) \/ (\E x \in Rows : Complete(w, s, x))
  PROVE  \A x \in written' : Kept(x)'
<1>1. TaskTypes /\ StoreTypes /\ s \in Spaces
  BY DEF RemovalInv, Control, TaskTypes
<1>2. ASSUME NEW d \in Docs, Commit(w, s, d) PROVE \A x \in written' : Kept(x)'
  <2>1. /\ files' = [files EXCEPT ![s] = @ \cup {d}] /\ written' = written \cup {d}
        /\ UNCHANGED rows /\ UNCHANGED trash /\ UNCHANGED removals
    BY <1>2 DEF Commit
  <2>2. d \in files'[s] /\ \A z \in Spaces : files[z] \subseteq files'[z]
    BY <1>1, <2>1 DEF StoreTypes
  <2>3. Stored(d)' /\ \A x : Stored(x) => Stored(x)'
    BY <1>1, <2>1, <2>2 DEF Stored
  <2> QED BY <2>1, <2>3 DEF Kept, Held, Agreed
<1>3. ASSUME NEW y \in Rows, Complete(w, s, y) PROVE \A x \in written' : Kept(x)'
  <2>1. /\ rows' = [rows EXCEPT ![s] = @ \cup {y}] /\ written' = written \cup {y}
        /\ UNCHANGED files /\ UNCHANGED trash /\ UNCHANGED removals
    BY <1>3 DEF Complete
  <2>2. y \in rows'[s] /\ \A z \in Spaces : rows[z] \subseteq rows'[z]
    BY <1>1, <2>1 DEF StoreTypes
  <2>3. Stored(y)' /\ \A x : Stored(x) => Stored(x)'
    BY <1>1, <2>1, <2>2 DEF Stored
  <2> QED BY <2>1, <2>3 DEF Kept, Held, Agreed
<1> QED BY <1>2, <1>3

LEMMA KeptByDeletion ==
  ASSUME RemovalInv, \A x \in written : Kept(x), NEW k \in Controls, NEW s \in Spaces, NEW y \in Rows, DeleteRow(k, s, y)
  PROVE  \A x \in written' : Kept(x)'
<1>1. StoreTypes
  BY DEF RemovalInv, Control
<1>2. /\ rows' = [rows EXCEPT ![s] = @ \ {y}] /\ trash' = [trash EXCEPT ![s] = @ \cup {y}]
      /\ UNCHANGED files /\ UNCHANGED <<removals, written>>
  BY DEF DeleteRow
<1>3. \A z \in Spaces : rows[z] \cup trash[z] \subseteq rows'[z] \cup trash'[z]
  BY <1>1, <1>2 DEF StoreTypes
<1>4. \A x : Stored(x) => Stored(x)'
  BY <1>2, <1>3 DEF Stored
<1> QED BY <1>2, <1>4, KeptStored

(* The intent replaces no earlier one. *)
LEMMA KeptByPlan ==
  ASSUME RemovalInv, \A x \in written : Kept(x), NEW c \in Clients, NEW q \in asks[c], Plan(c, q)
  PROVE  \A x \in written' : Kept(x)'
<1>1. TaskTypes /\ StoreTypes /\ ReservedInv
  BY DEF RemovalInv, Control
<1>2. at[c] = "planning" /\ UNCHANGED local /\ UNCHANGED written
  BY DEF Plan, bounds
<1>3. UNCHANGED files /\ UNCHANGED rows /\ UNCHANGED trash
  BY <1>2 DEF local
<1>4. CASE UNCHANGED removals
  BY <1>2, <1>3, <1>4, KeptAside
<1>5. CASE \E u : removals' = [removals EXCEPT ![q.op] = {u}]
  <2>1. q.op \in Operations /\ removals[q.op] = {}
    BY <1>1, <1>2 DEF TaskTypes, Requests, ReservedInv
  <2>2. \A o \in Operations : removals[o] \subseteq removals'[o]
    BY <1>1, <1>5, <2>1 DEF StoreTypes
  <2>3. \A x : (Held(x) => Held(x)') /\ (Agreed(x) => Agreed(x)') /\ (Stored(x) => Stored(x)')
    BY <1>3, <2>2 DEF Held, Agreed, Stored
  <2> QED BY <1>2, <2>3 DEF Kept
<1> QED BY <1>4, <1>5 DEF Plan

(* Memory enters the target with what it had, and only then leaves the     *)
(* source; a client who has it deleted has seen it.                        *)
LEMMA KeptByStages ==
  ASSUME RemovalInv, \A x \in written : Kept(x), NEW t \in Removers, NEW o \in Operations, NEW r \in removals[o],
         ~r.done, Import(t, r) \/ Empty(t, r), UNCHANGED written
  PROVE  \A x \in written' : Kept(x)'
<1>1. StoreTypes /\ ImageInv
  BY DEF RemovalInv, Control, Data
<1>2. at[t] \in Stages /\ UNCHANGED rows /\ UNCHANGED trash /\ UNCHANGED removals
  BY DEF Import, Empty, Stages, Imported, Configured, Emptied, Dropped
<1>3. r.asks.source \in Spaces /\ r.asks.target \in Spaces \cup {Nowhere}
  BY <1>2, StageFacts
<1>4. \A x : (Held(x) => Held(x)') /\ (Agreed(x) => Agreed(x)')
  BY <1>2 DEF Held, Agreed
<1>5. CASE Import(t, r)
  <2>1. files' = IF r.asks.target = Nowhere THEN files ELSE [files EXCEPT ![r.asks.target] = r.image]
    BY <1>5 DEF Import
  <2>2. \A z \in Spaces : files[z] \subseteq files'[z]
    BY <1>1, <1>3, <2>1 DEF StoreTypes, ImageInv
  <2>3. \A x : Stored(x) => Stored(x)'
    BY <1>2, <2>2 DEF Stored
  <2> QED BY <1>4, <2>3 DEF Kept
<1>6. CASE Empty(t, r)
  <2>1. files' = [files EXCEPT ![r.asks.source] = {}]
    BY <1>6 DEF Empty
  <2>2. \A z \in Spaces : z # r.asks.source => files'[z] = files[z]
    BY <1>1, <2>1 DEF StoreTypes
  <2>3. \A x \in files[r.asks.source] : Held(x)' \/ Agreed(x)'
    <3>1. CASE r.asks.target = Nowhere
      <4>1. files[r.asks.source] \subseteq r.asks.assets.files
        BY <1>1, <3>1 DEF ImageInv
      <4> QED BY <1>2, <3>1, <4>1 DEF Agreed
    <3>2. CASE r.asks.target # Nowhere
      <4>1. files[r.asks.source] \subseteq r.image
        BY <1>1, <3>2 DEF ImageInv
      <4> QED BY <1>2, <4>1 DEF Held
    <3> QED BY <3>1, <3>2
  <2>4. \A x : Stored(x) => Stored(x)' \/ Held(x)' \/ Agreed(x)'
    BY <1>2, <2>2, <2>3 DEF Stored
  <2> QED BY <1>4, <2>4 DEF Kept
<1> QED BY <1>5, <1>6

LEMMA KeptByAcknowledge ==
  ASSUME RemovalInv, \A x \in written : Kept(x), NEW t \in Removers, NEW o \in Operations, NEW r \in removals[o],
         ~r.done, Acknowledge(t, r), UNCHANGED written
  PROVE  \A x \in written' : Kept(x)'
<1>1. StoreTypes /\ ImageInv
  BY DEF RemovalInv, Control, Data
<1> DEFINE s == r.asks.source
           z == r.asks.target
           e == [r EXCEPT !.done = TRUE, !.image = {}, !.settings = {}]
<1>2. /\ at[t] = "deleting" /\ UNCHANGED files
      /\ rows' = [x \in Spaces |-> IF x = s THEN {} ELSE IF x = z THEN rows[z] \cup rows[s] ELSE rows[x]]
      /\ trash' = IF z = Nowhere THEN [trash EXCEPT ![s] = @ \ listed]
                  ELSE [trash EXCEPT ![s] = {}, ![z] = @ \cup trash[s]]
      /\ removals' = [removals EXCEPT ![r.asks.op] = {e}]
  BY DEF Acknowledge
<1>3. at[t] \in Imported /\ at[t] \in Stages
  BY <1>2 DEF Stages, Imported, Configured, Emptied, Dropped
<1>4. /\ \A p \in Operations : \A v \in removals[p] : ~v.done => p = o /\ v = r
      /\ r \in Removals /\ r.asks.op = o /\ s \in Spaces /\ z \in Spaces \cup {Nowhere} /\ s # z
  BY <1>3, StageFacts
<1>5. e.asks = r.asks
  BY <1>4 DEF Removals
<1> HIDE DEF e
<1>6. removals'[o] = {e} /\ \A p \in Operations : p # o => removals'[p] = removals[p]
  BY <1>1, <1>2, <1>4 DEF StoreTypes
<1>7. removals[o] = {r}
  BY DEF RemovalInv, Control, RecordInv
<1>8. \A x : Agreed(x) => Agreed(x)'
  <2> SUFFICES ASSUME NEW x, NEW p \in Operations, NEW v \in removals[p], v.asks.target = Nowhere,
                      x \in v.asks.assets.files \cup v.asks.assets.rows \cup v.asks.assets.trash
               PROVE  Agreed(x)'
    BY DEF Agreed
  <2>1. \E u \in removals'[p] : u.asks = v.asks
    BY <1>5, <1>6, <1>7
  <2> QED BY <2>1 DEF Agreed
<1>9. \A x : Held(x) => Stored(x)'
  <2>1. \A x : Held(x) => x \in r.image
    BY <1>4 DEF Held
  <2>2. r.image # {} => z \in Spaces /\ r.image \subseteq files[z]
    BY <1>1, <1>3, <1>4 DEF ImageInv
  <2> QED BY <1>2, <2>1, <2>2 DEF Stored
<1>10. CASE z = Nowhere
  <2>1. \A y \in Spaces \ {s} : rows'[y] = rows[y] /\ trash'[y] = trash[y]
    BY RemovalAssumption, <1>1, <1>2, <1>4, <1>10 DEF StoreTypes
  <2>2. rows[s] \cup trash[s] \subseteq r.asks.assets.rows \cup r.asks.assets.trash
    BY <1>1, <1>10 DEF ImageInv
  <2>3. \A x \in rows[s] \cup trash[s] : Agreed(x)'
    BY <1>5, <1>6, <1>10, <2>2 DEF Agreed
  <2>4. \A x : Stored(x) => Stored(x)' \/ Agreed(x)'
    BY <1>2, <2>1, <2>3 DEF Stored
  <2> QED BY <1>8, <1>9, <2>4 DEF Kept
<1>11. CASE z # Nowhere
  <2>1. \A y \in Spaces \ {s} : rows[y] \subseteq rows'[y] /\ trash[y] \subseteq trash'[y]
    BY <1>1, <1>2, <1>4, <1>11 DEF StoreTypes
  <2>2. z \in Spaces /\ rows[s] \subseteq rows'[z] /\ trash[s] \subseteq trash'[z]
    BY <1>1, <1>2, <1>4, <1>11 DEF StoreTypes
  <2>3. \A x : Stored(x) => Stored(x)'
    BY <1>2, <2>1, <2>2 DEF Stored
  <2> QED BY <1>8, <1>9, <2>3 DEF Kept
<1> QED BY <1>10, <1>11
LEMMA NothingLostNext ==
  ASSUME RemovalInv, RemovalInv', NothingLost, [Next]_vars
  PROVE  NothingLost'
<1>1. RecordInv /\ RecordInv'
  BY DEF RemovalInv, Control
<1>2. \A x \in written : Kept(x)
  BY <1>1, KeptIs
<1>3. SUFFICES \A x \in written' : Kept(x)'
  BY <1>1, KeptAfter
<1>4. CASE UNCHANGED <<files, rows, trash, removals, written>>
  BY <1>2, <1>4, KeptAside
<1>5. ASSUME NEW t \in Removers, Finish(t)
      PROVE  \A x \in written' : Kept(x)'
  <2>1. UNCHANGED written
    BY <1>5 DEF Finish
  <2>2. PICK o \in Pending :
          \/ Import(t, Record(o)) \/ Unindex(t, Record(o)) \/ Configure(t, Record(o)) \/ Empty(t, Record(o))
          \/ Drop(t, Record(o)) \/ List(t, Record(o)) \/ Acknowledge(t, Record(o))
    BY <1>5 DEF Finish, Finishes
  <2>3. o \in Operations /\ Record(o) \in removals[o] /\ ~Record(o).done
    BY <1>1, PendingRecord
  <2>4. CASE Import(t, Record(o)) \/ Empty(t, Record(o))
    BY <1>2, <2>1, <2>3, <2>4, KeptByStages
  <2>5. CASE Acknowledge(t, Record(o))
    BY <1>2, <2>1, <2>3, <2>5, KeptByAcknowledge
  <2>6. CASE Unindex(t, Record(o)) \/ Configure(t, Record(o)) \/ Drop(t, Record(o)) \/ List(t, Record(o))
    BY <1>4, <2>1, <2>6 DEF Unindex, Configure, Drop, List, local
  <2> QED BY <2>2, <2>4, <2>5, <2>6
<1>6. ASSUME NEW c \in Clients,
             \/ \E o \in Operations, s \in Spaces, t \in Spaces \cup {Nowhere} : Confirm(c, o, s, t)
             \/ (\E o \in Operations : Again(c, o)) \/ Ask(c) \/ Remove(c) \/ Fail(c)
      PROVE  \A x \in written' : Kept(x)'
  <2>1. CASE \/ \E o \in Operations, s \in Spaces, t \in Spaces \cup {Nowhere} : Confirm(c, o, s, t)
             \/ (\E o \in Operations : Again(c, o)) \/ Ask(c) \/ Fail(c)
    BY <1>4, <2>1 DEF Confirm, Again, Ask, Fail, local, bounds
  <2>2. CASE TakeGate(c) \/ (\E q \in asks[c] : Look(c, q) \/ Reserve(c, q)) \/ Publish(c)
    BY <1>4, <2>2 DEF TakeGate, Look, Reserve, Publish, local, bounds
  <2>3. ASSUME NEW q \in asks[c], Plan(c, q) PROVE \A x \in written' : Kept(x)'
    BY <1>2, <2>3, KeptByPlan
  <2>4. CASE Finish(c)
    BY <1>5, <2>4 DEF Removers
  <2> QED BY <1>6, <2>1, <2>2, <2>3, <2>4 DEF Remove
<1>7. ASSUME NEW w \in Writers,
             (\E s \in Spaces : Admit(w, s)) \/ Work(w) \/ Commits(w) \/ GiveUp(w) \/ Disconnect(w)
      PROVE  \A x \in written' : Kept(x)'
  <2>1. CASE Commits(w)
    BY <1>2, <2>1, KeptByWriters DEF Commits
  <2>2. CASE (\E s \in Spaces : Admit(w, s)) \/ GiveUp(w) \/ Disconnect(w)
    BY <1>4, <2>2 DEF Admit, GiveUp, Disconnect, local, bounds
  <2>3. CASE Work(w)
    BY <1>4, <2>3 DEF Work, bounds
  <2> QED BY <1>7, <2>1, <2>2, <2>3
<1>8. ASSUME NEW k \in Controls, SubmitControl(k) \/ \E s \in Spaces, x \in Rows : DeleteRow(k, s, x)
      PROVE  \A x \in written' : Kept(x)'
  <2>1. CASE SubmitControl(k)
    BY <1>4, <2>1 DEF SubmitControl, local, bounds
  <2> QED BY <1>2, <1>8, <2>1, KeptByDeletion
<1>9. CASE \E s \in Spaces, v \in Values \cup {Default} : Override(s, v)
  BY <1>4, <1>9 DEF Override, local, bounds
<1>10. CASE Exit
  BY <1>4, <1>10 DEF Exit, local
<1>11. CASE Recover
  <2>1. CASE Start \/ Open
    BY <1>4, <2>1 DEF Start, Open, local, bounds
  <2>2. CASE Finish(Startup)
    BY <1>5, <2>2 DEF Removers
  <2> QED BY <1>11, <2>1, <2>2 DEF Recover
<1>12. CASE UNCHANGED vars
  BY <1>4, <1>12 DEF vars, local, bounds
<1> QED BY <1>6, <1>7, <1>8, <1>9, <1>10, <1>11, <1>12 DEF Next

(* Whatever was stored is still in some Space, in its trash or in the      *)
(* image of a migration, unless a client saw it and asked for its deletion *)
(* (space_removal.rs, plan and finish_space_removal).                      *)
THEOREM NothingLostHolds == Spec => []NothingLost
<1>1. Init => NothingLost
  <2> SUFFICES ASSUME Init PROVE NothingLost
    OBVIOUS
  <2>1. \A x \in written : \E s \in Spaces : x \in files[s] \cup rows[s]
    BY DEF Init
  <2> QED BY <2>1 DEF NothingLost
<1>2. NothingLost /\ RemovalInv /\ RemovalInv' /\ [Next]_vars => NothingLost'
  BY NothingLostNext
<1> QED BY <1>1, <1>2, RemovalInvHolds, PTL DEF Spec
----------------------------------------------------------------------------
(* Who writes the settings starts from what is on disk. *)
LEMMA RevisionGrows ==
  ASSUME RemovalInv, [Next]_vars, disk' # disk
  PROVE  disk'.revision > disk.revision
<1>1. StoreTypes /\ RecordInv /\ FenceInv /\ SettingsInv
  BY DEF RemovalInv, Control, Data
<1>2. ASSUME NEW s \in Spaces, NEW v \in Values \cup {Default}, Override(s, v)
      PROVE  disk'.revision > disk.revision
  <2>1. settings = disk /\ disk'.revision = settings.revision + 1
    BY <1>1, <1>2 DEF Override, Readable, SettingsInv
  <2>2. disk.revision \in Nat
    BY <1>1 DEF StoreTypes, Resources
  <2> QED BY <2>1, <2>2
<1>3. ASSUME NEW t \in Removers, Finish(t)
      PROVE  disk'.revision > disk.revision
  <2>1. PICK o \in Pending :
          \/ Import(t, Record(o)) \/ Unindex(t, Record(o)) \/ Configure(t, Record(o)) \/ Empty(t, Record(o))
          \/ Drop(t, Record(o)) \/ List(t, Record(o)) \/ Acknowledge(t, Record(o))
    BY <1>3 DEF Finish, Finishes
  <2>2. o \in Operations /\ Record(o) \in removals[o] /\ ~Record(o).done /\ Record(o) \in Removals
    BY <1>1, PendingRecord DEF StoreTypes
  <2>3. Configure(t, Record(o))
    BY <2>1 DEF Import, Unindex, Empty, Drop, List, Acknowledge
  <2>4. disk' \in Record(o).settings
    BY <2>3 DEF Configure
  <2>5. disk.revision < disk'.revision
    BY <1>1, <2>2, <2>4 DEF SettingsInv
  <2>6. disk.revision \in Nat /\ disk'.revision \in Nat
    BY <1>1, <2>2, <2>4 DEF StoreTypes, Removals, Resources
  <2> QED BY <2>5, <2>6
<1>4. ASSUME NEW c \in Clients, Remove(c) PROVE Finish(c)
  <2>1. CASE TakeGate(c) \/ \E q \in asks[c] : Look(c, q) \/ Reserve(c, q) \/ Plan(c, q)
    BY <2>1 DEF TakeGate, Look, Reserve, Plan
  <2>2. CASE Publish(c)
    BY <2>2 DEF Publish
  <2> QED BY <1>4, <2>1, <2>2 DEF Remove
<1>5. ASSUME NEW c \in Clients,
             \/ \E o \in Operations, s \in Spaces, t \in Spaces \cup {Nowhere} : Confirm(c, o, s, t)
             \/ (\E o \in Operations : Again(c, o)) \/ Ask(c) \/ Fail(c)
      PROVE  FALSE
  BY <1>5 DEF Confirm, Again, Ask, Fail
<1>6. ASSUME NEW w \in Writers,
             (\E s \in Spaces : Admit(w, s)) \/ Work(w) \/ Commits(w) \/ GiveUp(w) \/ Disconnect(w)
      PROVE  FALSE
  BY <1>6 DEF Admit, Work, Commits, Commit, Complete, GiveUp, Disconnect
<1>7. ASSUME NEW k \in Controls, SubmitControl(k) \/ \E s \in Spaces, x \in Rows : DeleteRow(k, s, x)
      PROVE  FALSE
  BY <1>7 DEF SubmitControl, DeleteRow
<1>8. ~Exit /\ ~Start /\ ~Open /\ ~UNCHANGED vars
  BY DEF Exit, Start, Open, vars
<1> QED BY <1>2, <1>3, <1>4, <1>5, <1>6, <1>7, <1>8 DEF Next, Recover, Removers

(* The settings that callers see are those on disk whenever writes are     *)
(* admitted, and every write of the file follows the one it replaces       *)
(* (runtime_settings.rs, SettingsStore::update and removal_image).         *)
THEOREM SettingsPublishedHolds == Spec => SettingsPublished
<1>1. RemovalInv /\ RemovalInv' /\ [Next]_vars =>
        [/\ disk' # disk => disk'.revision > disk.revision
         /\ core' = "up" /\ ~pending' => settings' = disk']_vars
  <2> SUFFICES ASSUME RemovalInv, RemovalInv', [Next]_vars
               PROVE  /\ disk' # disk => disk'.revision > disk.revision
                      /\ core' = "up" /\ ~pending' => settings' = disk'
    OBVIOUS
  <2>1. disk' # disk => disk'.revision > disk.revision
    BY RevisionGrows
  <2>2. core' = "up" /\ ~pending' => settings' = disk'
    BY DEF RemovalInv, Data, SettingsInv
  <2> QED BY <2>1, <2>2
<1> QED BY <1>1, RemovalInvHolds, PTL DEF Spec, SettingsPublished
=============================================================================
