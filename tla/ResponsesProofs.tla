-------------------------- MODULE ResponsesProofs --------------------------
(***************************************************************************)
(* Proofs about Responses for any attempts, requests and conversations.    *)
(* That a request is answered once, whatever attempts race, stop, or are   *)
(* retried, rests on what an attempt holds: the lock of its operation from *)
(* the moment it loads the record, so that what it loaded is still the     *)
(* record when it writes, and the lock of its conversation from the moment *)
(* it is in it.                                                            *)
(***************************************************************************)
EXTENDS Responses, TLAPS

Locked  == {"loading", "locating", "resolving", "preparing", "saved", "beginning", "begun", "generating", "committing"}
Loaded  == {"locating", "resolving", "preparing", "saved", "beginning"}
Settled == {"saved", "beginning", "begun", "generating", "committing"}
Turn    == {"generating", "committing"}

(* An attempt asks one thing, holds the lock of its operation while it     *)
(* works on the record, and that of the conversation it is in.             *)
AttemptInv ==
  \A a \in Attempts :
    /\ at[a] = "idle" => asks[a] = {}
    /\ \A p, q \in asks[a] : p = q
    /\ at[a] \in Locked => \A q \in asks[a] : opLock[q.key] = {a}
    /\ \A c \in in[a] : convLock[c] = {a}
    /\ \A c, d \in in[a] : c = d
    /\ at[a] \in Settled => in[a] # {}
    /\ at[a] = "locating" => \A q \in asks[a] : q.conversation \in Known

(* What an attempt loaded is the record until it writes it.  It writes     *)
(* what is neither written nor answered.                                   *)
RecordOf(a, q) ==
  /\ at[a] \in Loaded => seen[a] = ops[q.key] /\ \A op \in ops[q.key] : ~op.reply
  /\ at[a] = "begun" => /\ ops[q.key] # {} /\ \A op \in ops[q.key] : ~op.reply
                        /\ seen[a] = ops[q.key] \/ (seen[a] = {} /\ \A op \in ops[q.key] : ~op.written)
  /\ at[a] \in Turn => ops[q.key] # {} /\ \A op \in ops[q.key] : op.written /\ ~op.reply
  /\ at[a] = "saved" => ops[q.key] = {} /\ attempted[q.key] = {}

RecordInv == \A a \in Attempts : \A q \in asks[a] : RecordOf(a, q)

(* An operation has one record, and is answered after it has spoken. *)
OpInv == \A k \in Keys : \A op \in ops[k] : (op.reply => op.written) /\ \A other \in ops[k] : op = other

(* The record knows what was said, and where. *)
SpeechInv ==
  \A k \in Keys :
    /\ \A p \in Said(k, "user") : \E op \in ops[k] : op.conversation = p[1] /\ op.written
    /\ \A p \in Said(k, "assistant") : \E op \in ops[k] : op.conversation = p[1] /\ op.reply

(* A conversation that is deleted does not come back: nothing refers to an *)
(* identity before it is used.                                             *)
Used == Known \cup {p[2] : p \in created}

UsedInv ==
  /\ convs \subseteq Used
  /\ \A a \in Attempts : in[a] \subseteq Used
  /\ \A k \in Keys : attempted[k] \subseteq Used /\ \A op \in ops[k] : op.conversation \in Used

(* A new conversation that no record names is noted, or about to be. *)
NotedInv ==
  \A k \in Keys :
    /\ \A c, d \in attempted[k] : c = d
    /\ ops[k] = {} => \A p \in created : p[1] = k /\ p[2] \notin orphans =>
         \/ attempted[k] = {p[2]}
         \/ \E a \in Attempts : at[a] = "saved" /\ in[a] = {p[2]} /\ \E q \in asks[a] : q.key = k

(* A cancelled attempt has ended, or will at its next check. *)
WarnedInv ==
  \A a \in warned :
    \/ at[a] \in Ended \ {"answered"}
    \/ /\ at[a] \notin Ended \cup {"idle", "committing"}
       /\ \A q \in asks[a] : q.key \in cancelled

ResponsesInv ==
  /\ TypeOK /\ AttemptInv /\ RecordInv /\ OpInv /\ SpeechInv /\ UsedInv /\ NotedInv /\ WarnedInv
  /\ SpokenOnce /\ ReplyHasMessage /\ OneConversation /\ \A k \in cancelled : active[k] # {}
----------------------------------------------------------------------------
(* The types, of what ends with an attempt and of what stays. *)
AttemptTypes ==
  /\ at \in [Attempts -> Places] /\ asks \in [Attempts -> SUBSET Requests]
  /\ seen \in [Attempts -> SUBSET Operations] /\ in \in [Attempts -> SUBSET Conversations]
  /\ active \in [Keys -> SUBSET Attempts] /\ cancelled \subseteq Keys
  /\ opLock \in [Keys -> SUBSET Attempts] /\ convLock \in [Conversations -> SUBSET Attempts]
  /\ \A k \in Keys : active[k] = {a \in Running : \E q \in asks[a] : q.key = k}

StoreTypes ==
  /\ attempted \in [Keys -> SUBSET Conversations] /\ ops \in [Keys -> SUBSET Operations]
  /\ convs \subseteq Conversations
  /\ messages \in [Conversations -> Seq([key : Keys, role : {"user", "assistant"}])]
  /\ created \subseteq Keys \X Fresh /\ orphans \subseteq Fresh
  /\ warned \subseteq Attempts /\ faults \in 0..MaxFaults

LEMMA TypeParts == TypeOK <=> AttemptTypes /\ StoreTypes
BY DEF TypeOK, AttemptTypes, StoreTypes

(* The conversations that were used stay so, and a flag has an attempt. *)
FlagInv == \A k \in cancelled : active[k] # {}

(* What depends only on the store. *)
StoreInv == OpInv /\ SpeechInv /\ SpokenOnce /\ ReplyHasMessage

LEMMA InvParts ==
  ResponsesInv <=>
    /\ AttemptTypes /\ StoreTypes /\ AttemptInv /\ RecordInv /\ StoreInv /\ UsedInv /\ NotedInv /\ WarnedInv
    /\ OneConversation /\ FlagInv
BY TypeParts DEF ResponsesInv, StoreInv, FlagInv

LEMMA StoreInvKept == ASSUME StoreInv, UNCHANGED <<ops, convs, messages>> PROVE StoreInv'
BY DEF StoreInv, OpInv, SpeechInv, SpokenOnce, ReplyHasMessage, Said

(* Each key has one attempt behind its lock, each conversation one in it. *)
LEMMA OneBehindLock ==
  ASSUME AttemptInv, NEW a \in Attempts, NEW q \in asks[a], at[a] \in Locked
  PROVE  /\ \A b \in Attempts : \A p \in asks[b] : at[b] \in Locked /\ p.key = q.key => b = a
         /\ \A b \in Attempts : \A c \in in[a] : c \in in[b] => b = a
<1>1. opLock[q.key] = {a} /\ \A c \in in[a] : convLock[c] = {a}
  BY DEF AttemptInv
<1>2. \A b \in Attempts : \A p \in asks[b] : at[b] \in Locked => opLock[p.key] = {b}
  BY DEF AttemptInv
<1>3. \A b \in Attempts : \A c \in in[b] : convLock[c] = {b}
  BY DEF AttemptInv
<1> QED BY <1>1, <1>2, <1>3

(* A request has its key. *)
LEMMA AskTyped ==
  ASSUME AttemptTypes, NEW a \in Attempts, NEW q \in asks[a]
  PROVE  q \in Requests /\ q.key \in Keys
BY DEF AttemptTypes, Keys

(* An attempt that ends leaves the others their locks, and takes the flag  *)
(* of its operation with it if it is the last inside.                      *)
LEMMA EndAttempt ==
  ASSUME ResponsesInv, NEW a \in Attempts, NEW q \in asks[a], at[a] \notin Ended \cup {"idle"},
         NEW answer \in Ended, End(a, q, answer)
  PROVE  /\ AttemptTypes' /\ AttemptInv' /\ FlagInv'
         /\ at'[a] = answer /\ in'[a] = {} /\ seen'[a] = {} /\ asks' = asks
         /\ \A b \in Attempts : b # a => at'[b] = at[b] /\ in'[b] = in[b] /\ seen'[b] = seen[b]
         /\ (answer # "answered" \/ a \notin warned) /\ warned' = warned => WarnedInv'
<1>0. /\ AttemptTypes /\ AttemptInv /\ WarnedInv /\ FlagInv /\ warned \subseteq Attempts
      /\ q.key \in Keys /\ \A p \in asks[a] : p = q
  BY InvParts, AskTyped DEF StoreTypes, AttemptInv
<1>1. /\ at'[a] = answer /\ in'[a] = {} /\ seen'[a] = {} /\ asks' = asks
      /\ \A b \in Attempts : b # a => at'[b] = at[b] /\ in'[b] = in[b] /\ seen'[b] = seen[b]
  BY <1>0 DEF End, AttemptTypes
<1>2. /\ \A k \in Keys : active'[k] = IF k = q.key THEN active[k] \ {a} ELSE active[k]
      /\ \A k \in Keys : opLock'[k] = IF k = q.key THEN opLock[k] \ {a} ELSE opLock[k]
      /\ \A c \in Conversations : convLock'[c] = convLock[c] \ {a}
      /\ cancelled' = IF active[q.key] \subseteq {a} THEN cancelled \ {q.key} ELSE cancelled
  BY <1>0 DEF End, Leave, AttemptTypes
<1>3. Running' = Running \ {a} /\ a \in Running
  BY <1>1 DEF Running
<1>4. \A k \in Keys : active'[k] = {b \in Running' : \E p \in asks'[b] : p.key = k}
  <2>1. \A k \in Keys : active[k] = {b \in Running : \E p \in asks[b] : p.key = k}
    BY <1>0 DEF AttemptTypes
  <2>2. \A k \in Keys : k # q.key => a \notin active[k]
    BY <1>0, <2>1
  <2>3. \A k \in Keys : active'[k] = active[k] \ {a}
    BY <1>2, <2>2
  <2>4. \A k \in Keys : active[k] \ {a} = {b \in Running \ {a} : \E p \in asks[b] : p.key = k}
    BY <2>1
  <2> QED BY <1>1, <1>3, <2>3, <2>4
<1>5. AttemptTypes'
  <2>1. /\ at' \in [Attempts -> Places] /\ asks' \in [Attempts -> SUBSET Requests]
        /\ seen' \in [Attempts -> SUBSET Operations] /\ in' \in [Attempts -> SUBSET Conversations]
    BY <1>0 DEF End, AttemptTypes, Places
  <2>2. /\ active' \in [Keys -> SUBSET Attempts] /\ cancelled' \subseteq Keys
        /\ opLock' \in [Keys -> SUBSET Attempts] /\ convLock' \in [Conversations -> SUBSET Attempts]
    BY <1>0 DEF End, Leave, AttemptTypes
  <2> QED BY <1>4, <2>1, <2>2 DEF AttemptTypes
<1>6. AttemptInv'
  <2> SUFFICES ASSUME NEW b \in Attempts
               PROVE  /\ at'[b] = "idle" => asks'[b] = {}
                      /\ \A p, r \in asks'[b] : p = r
                      /\ at'[b] \in Locked => \A p \in asks'[b] : opLock'[p.key] = {b}
                      /\ \A c \in in'[b] : convLock'[c] = {b}
                      /\ \A c, d \in in'[b] : c = d
                      /\ at'[b] \in Settled => in'[b] # {}
                      /\ at'[b] = "locating" => \A p \in asks'[b] : p.conversation \in Known
    BY DEF AttemptInv
  <2>1. CASE b = a
    BY <1>0, <1>1, <2>1 DEF AttemptInv, Ended, Locked, Settled
  <2>2. CASE b # a
    <3>1. \A p \in asks[b] : p.key \in Keys
      BY <1>0, AskTyped
    <3>2. in[b] \subseteq Conversations
      BY <1>0 DEF AttemptTypes
    <3>3. at'[b] = at[b] /\ in'[b] = in[b] /\ asks'[b] = asks[b]
      BY <1>1, <2>2
    <3>4. at[b] \in Locked => \A p \in asks[b] : opLock'[p.key] = {b}
      <4>1. at[b] \in Locked => \A p \in asks[b] : opLock[p.key] = {b}
        BY <1>0 DEF AttemptInv
      <4> QED BY <1>2, <2>2, <3>1, <4>1
    <3>5. \A c \in in[b] : convLock'[c] = {b}
      <4>1. \A c \in in[b] : convLock[c] = {b}
        BY <1>0 DEF AttemptInv
      <4> QED BY <1>2, <2>2, <3>2, <4>1
    <3> QED BY <1>0, <3>3, <3>4, <3>5 DEF AttemptInv
  <2> QED BY <2>1, <2>2
<1>7. FlagInv'
  BY <1>0, <1>2 DEF FlagInv, AttemptTypes
<1>8. ASSUME answer # "answered" \/ a \notin warned, warned' = warned PROVE WarnedInv'
  <2> SUFFICES ASSUME NEW b \in warned
               PROVE  \/ at'[b] \in Ended \ {"answered"}
                      \/ /\ at'[b] \notin Ended \cup {"idle", "committing"}
                         /\ \A p \in asks'[b] : p.key \in cancelled'
    BY <1>8 DEF WarnedInv
  <2>1. CASE b = a
    BY <1>1, <1>8, <2>1
  <2>2. ASSUME b # a, at[b] \notin Ended \cup {"idle", "committing"}, NEW p \in asks[b], p.key \in cancelled
        PROVE  p.key \in cancelled'
    <3>1. b \in active[p.key]
      BY <1>0, <2>2 DEF AttemptTypes, Running
    <3> QED BY <1>2, <2>2, <3>1
  <2> QED BY <1>0, <1>1, <2>1, <2>2 DEF WarnedInv
<1> QED BY <1>1, <1>5, <1>6, <1>7, <1>8

(* An attempt that goes on, and may take a lock that is free, leaves the   *)
(* others theirs.  It commits only if it was not cancelled.                *)
TakesOpLock(a, q) ==
  opLock' = opLock \/ (opLock[q.key] = {} /\ opLock' = [opLock EXCEPT ![q.key] = {a}])
TakesConvLock(a) ==
  \/ UNCHANGED <<in, convLock>>
  \/ \E c \in Conversations : /\ convLock[c] = {} /\ convLock' = [convLock EXCEPT ![c] = {a}]
                              /\ in' = [in EXCEPT ![a] = {c}]
Onward(a, q, place) ==
  /\ place \in Places \ (Ended \cup {"idle"}) /\ at' = [at EXCEPT ![a] = place]
  /\ UNCHANGED <<asks, active, cancelled>>
  /\ seen' \in [Attempts -> SUBSET Operations] /\ \A b \in Attempts : b # a => seen'[b] = seen[b]
  /\ TakesOpLock(a, q) /\ TakesConvLock(a)
  /\ place \in Locked => at[a] \in Locked \/ opLock'[q.key] = {a}
  /\ place \in Settled => in'[a] # {}
  /\ place = "locating" => q.conversation \in Known
  /\ place = "committing" => q.key \notin cancelled

LEMMA GoOn ==
  ASSUME ResponsesInv, NEW a \in Attempts, NEW q \in asks[a], at[a] \notin Ended \cup {"idle", "committing"},
         NEW place, Onward(a, q, place)
  PROVE  /\ AttemptTypes' /\ AttemptInv' /\ FlagInv'
         /\ at'[a] = place /\ asks' = asks
         /\ \A b \in Attempts : b # a => at'[b] = at[b] /\ in'[b] = in[b] /\ seen'[b] = seen[b]
         /\ warned' = warned => WarnedInv'
<1>0. /\ AttemptTypes /\ AttemptInv /\ WarnedInv /\ FlagInv /\ warned \subseteq Attempts
      /\ q.key \in Keys /\ \A p \in asks[a] : p = q
  BY InvParts, AskTyped DEF StoreTypes, AttemptInv
<1>1. /\ at'[a] = place /\ asks' = asks /\ at'[a] \notin Ended \cup {"idle"}
      /\ \A b \in Attempts : b # a => at'[b] = at[b] /\ in'[b] = in[b] /\ seen'[b] = seen[b]
  BY <1>0 DEF Onward, TakesConvLock, AttemptTypes
<1>2. Running' = Running
  BY <1>1 DEF Running
<1>3. AttemptTypes'
  <2>1. in' \in [Attempts -> SUBSET Conversations] /\ convLock' \in [Conversations -> SUBSET Attempts]
    <3>1. CASE UNCHANGED <<in, convLock>>
      BY <1>0, <3>1 DEF AttemptTypes
    <3>2. ASSUME NEW c \in Conversations, convLock' = [convLock EXCEPT ![c] = {a}], in' = [in EXCEPT ![a] = {c}]
          PROVE  in' \in [Attempts -> SUBSET Conversations] /\ convLock' \in [Conversations -> SUBSET Attempts]
      BY <1>0, <3>2 DEF AttemptTypes
    <3> QED BY <3>1, <3>2 DEF Onward, TakesConvLock
  <2>2. opLock' \in [Keys -> SUBSET Attempts]
    BY <1>0 DEF AttemptTypes, Onward, TakesOpLock
  <2> QED BY <1>0, <1>2, <2>1, <2>2 DEF AttemptTypes, Onward
<1>4. \A b \in Attempts : \A p \in asks[b] : opLock[p.key] = {b} => opLock'[p.key] = {b}
  <2> SUFFICES ASSUME NEW b \in Attempts, NEW p \in asks[b], opLock[p.key] = {b} PROVE opLock'[p.key] = {b}
    OBVIOUS
  <2>1. p.key \in Keys
    BY <1>0, AskTyped
  <2>2. CASE opLock' = opLock
    BY <2>2
  <2>3. CASE opLock[q.key] = {} /\ opLock' = [opLock EXCEPT ![q.key] = {a}]
    <3>1. p.key # q.key
      BY <2>3
    <3> QED BY <1>0, <2>1, <2>3, <3>1 DEF AttemptTypes
  <2> QED BY <2>2, <2>3 DEF Onward, TakesOpLock
<1>5. \A b \in Attempts : b # a => \A c \in in[b] : convLock'[c] = {b}
  <2> SUFFICES ASSUME NEW b \in Attempts, b # a, NEW d \in in[b] PROVE convLock'[d] = {b}
    OBVIOUS
  <2>1. convLock[d] = {b} /\ d \in Conversations
    BY <1>0 DEF AttemptInv, AttemptTypes
  <2>2. ASSUME NEW c \in Conversations, convLock[c] = {}, convLock' = [convLock EXCEPT ![c] = {a}]
        PROVE  convLock'[d] = {b}
    BY <1>0, <2>1, <2>2 DEF AttemptTypes
  <2> QED BY <2>1, <2>2 DEF Onward, TakesConvLock
<1>6. AttemptInv'
  <2>1. ASSUME NEW b \in Attempts, b # a
        PROVE  /\ at'[b] = "idle" => asks'[b] = {}
               /\ \A p, r \in asks'[b] : p = r
               /\ at'[b] \in Locked => \A p \in asks'[b] : opLock'[p.key] = {b}
               /\ \A c \in in'[b] : convLock'[c] = {b}
               /\ \A c, d \in in'[b] : c = d
               /\ at'[b] \in Settled => in'[b] # {}
               /\ at'[b] = "locating" => \A p \in asks'[b] : p.conversation \in Known
    BY <1>0, <1>1, <1>4, <1>5, <2>1 DEF AttemptInv
  <2>2. place \in Locked => opLock'[q.key] = {a}
    BY <1>0, <1>4 DEF AttemptInv, Onward
  <2>3. (\A c \in in'[a] : convLock'[c] = {a}) /\ \A c, d \in in'[a] : c = d
    BY <1>0 DEF Onward, TakesConvLock, AttemptTypes, AttemptInv
  <2>4. /\ at'[a] = "idle" => asks'[a] = {}
        /\ \A p, r \in asks'[a] : p = r
        /\ at'[a] \in Locked => \A p \in asks'[a] : opLock'[p.key] = {a}
        /\ at'[a] \in Settled => in'[a] # {}
        /\ at'[a] = "locating" => \A p \in asks'[a] : p.conversation \in Known
    BY <1>0, <1>1, <2>2 DEF Onward
  <2> QED BY <2>1, <2>3, <2>4 DEF AttemptInv
<1>7. FlagInv'
  BY <1>0 DEF FlagInv, Onward
<1>8. ASSUME warned' = warned PROVE WarnedInv'
  <2> SUFFICES ASSUME NEW b \in warned
               PROVE  \/ at'[b] \in Ended \ {"answered"}
                      \/ /\ at'[b] \notin Ended \cup {"idle", "committing"}
                         /\ \A p \in asks'[b] : p.key \in cancelled'
    BY <1>8 DEF WarnedInv
  <2>1. CASE b = a
    <3>1. \A p \in asks[a] : p.key \in cancelled
      BY <1>0, <2>1 DEF WarnedInv
    <3>2. place # "committing"
      BY <3>1 DEF Onward
    <3> QED BY <1>1, <2>1, <3>1, <3>2 DEF Onward
  <2>2. CASE b # a
    BY <1>0, <1>1, <2>2 DEF WarnedInv, Onward
  <2> QED BY <2>1, <2>2
<1> QED BY <1>1, <1>3, <1>6, <1>7, <1>8

(* What concerns the store survives a step that ends an attempt, if a new  *)
(* conversation that nobody noted is an orphan then.                       *)
LEMMA EndStep ==
  ASSUME ResponsesInv, NEW a \in Attempts, NEW q \in asks[a], at[a] \notin Ended \cup {"idle"},
         NEW answer \in Ended \ {"answered"}, End(a, q, answer),
         \/ attempted' = attempted
         \/ attempted' = [attempted EXCEPT ![q.key] = {}] /\ ops[q.key] # {},
         UNCHANGED <<store, created, warned>>,
         faults' \in 0..MaxFaults, orphans' \subseteq Fresh, orphans \subseteq orphans',
         at[a] = "saved" => \A p \in created : in[a] = {p[2]} => p[2] \in orphans'
  PROVE  ResponsesInv'
<1>0. /\ AttemptTypes /\ StoreTypes /\ AttemptInv /\ RecordInv /\ StoreInv /\ UsedInv /\ NotedInv /\ OneConversation
      /\ q.key \in Keys /\ \A p \in asks[a] : p = q
  BY InvParts, AskTyped DEF AttemptInv
<1>1. /\ AttemptTypes' /\ AttemptInv' /\ FlagInv' /\ WarnedInv'
      /\ at'[a] = answer /\ in'[a] = {} /\ seen'[a] = {} /\ asks' = asks
      /\ \A b \in Attempts : b # a => at'[b] = at[b] /\ in'[b] = in[b] /\ seen'[b] = seen[b]
  BY EndAttempt
<1>2. /\ \A k \in Keys : attempted'[k] = attempted[k] \/ (attempted'[k] = {} /\ ops[k] # {})
      /\ attempted' \in [Keys -> SUBSET Conversations]
  BY <1>0 DEF StoreTypes
<1>3. StoreTypes'
  BY <1>0, <1>2 DEF StoreTypes, store
<1>4. RecordInv'
  <2> SUFFICES ASSUME NEW b \in Attempts, NEW p \in asks'[b] PROVE RecordOf(b, p)'
    BY DEF RecordInv
  <2>1. CASE b = a
    BY <1>1, <2>1 DEF RecordOf, Ended, Loaded, Turn
  <2>2. CASE b # a
    BY <1>0, <1>1, <1>2, <2>2, AskTyped DEF RecordInv, RecordOf, store
  <2> QED BY <2>1, <2>2
<1>5. StoreInv'
  BY <1>0, StoreInvKept DEF store
<1>6. UsedInv'
  BY <1>0, <1>1, <1>2 DEF UsedInv, Used, store, StoreTypes
<1>7. NotedInv'
  <2> SUFFICES ASSUME NEW k \in Keys
               PROVE  /\ \A c, d \in attempted'[k] : c = d
                      /\ ops'[k] = {} => \A p \in created' : p[1] = k /\ p[2] \notin orphans' =>
                           \/ attempted'[k] = {p[2]}
                           \/ \E b \in Attempts : at'[b] = "saved" /\ in'[b] = {p[2]} /\ \E r \in asks'[b] : r.key = k
    BY DEF NotedInv
  <2>1. \A c, d \in attempted'[k] : c = d
    BY <1>0, <1>2 DEF NotedInv
  <2>2. ASSUME ops[k] = {}, NEW p \in created, p[1] = k, p[2] \notin orphans'
        PROVE  \/ attempted'[k] = {p[2]}
               \/ \E b \in Attempts : at'[b] = "saved" /\ in'[b] = {p[2]} /\ \E r \in asks'[b] : r.key = k
    <3>1. attempted'[k] = attempted[k] /\ p[2] \notin orphans
      BY <1>2, <2>2
    <3>2. ASSUME NEW b \in Attempts, at[b] = "saved", in[b] = {p[2]}, \E r \in asks[b] : r.key = k
          PROVE  at'[b] = "saved" /\ in'[b] = {p[2]} /\ \E r \in asks'[b] : r.key = k
      BY <1>1, <2>2, <3>2
    <3> QED BY <1>0, <2>2, <3>1, <3>2 DEF NotedInv
  <2> QED BY <2>1, <2>2 DEF store
<1>8. OneConversation'
  BY <1>0 DEF OneConversation
<1> QED BY <1>1, <1>3, <1>4, <1>5, <1>6, <1>7, <1>8, InvParts, PTL

(* ... and a step that goes on without touching the store. *)
LEMMA OnwardStep ==
  ASSUME ResponsesInv, NEW a \in Attempts, NEW q \in asks[a], at[a] \notin Ended \cup {"idle", "committing", "saved"},
         NEW place, Onward(a, q, place), UNCHANGED <<attempted, store, history>>,
         place \in Loaded => seen'[a] = ops[q.key] /\ \A op \in ops[q.key] : ~op.reply,
         place \in Turn => at[a] \in Turn, place \notin {"begun", "saved"}, in'[a] \subseteq Used
  PROVE  ResponsesInv'
<1>0. /\ AttemptTypes /\ StoreTypes /\ AttemptInv /\ RecordInv /\ StoreInv /\ UsedInv /\ NotedInv /\ OneConversation
      /\ q.key \in Keys /\ \A p \in asks[a] : p = q
  BY InvParts, AskTyped DEF AttemptInv
<1>1. /\ AttemptTypes' /\ AttemptInv' /\ FlagInv' /\ WarnedInv'
      /\ at'[a] = place /\ asks' = asks
      /\ \A b \in Attempts : b # a => at'[b] = at[b] /\ in'[b] = in[b] /\ seen'[b] = seen[b]
  BY GoOn DEF history
<1>2. StoreTypes'
  BY <1>0 DEF StoreTypes, store, history
<1>3. RecordInv'
  <2> SUFFICES ASSUME NEW b \in Attempts, NEW p \in asks'[b] PROVE RecordOf(b, p)'
    BY DEF RecordInv
  <2>1. CASE b = a
    BY <1>0, <1>1, <2>1 DEF RecordInv, RecordOf, store
  <2>2. CASE b # a
    BY <1>0, <1>1, <2>2 DEF RecordInv, RecordOf, store
  <2> QED BY <2>1, <2>2
<1>4. StoreInv'
  BY <1>0, StoreInvKept DEF store
<1>5. UsedInv'
  BY <1>0, <1>1 DEF UsedInv, Used, store, history
<1>6. NotedInv'
  <2>1. \A b \in Attempts : at[b] = "saved" => at'[b] = "saved" /\ in'[b] = in[b] /\ asks'[b] = asks[b]
    BY <1>1
  <2>2. UNCHANGED <<attempted, ops, created, orphans>>
    BY DEF store, history
  <2> QED BY <1>0, <2>1, <2>2 DEF NotedInv
<1>7. OneConversation'
  BY <1>0 DEF OneConversation, history
<1> QED BY <1>1, <1>2, <1>3, <1>4, <1>5, <1>6, <1>7, InvParts, PTL

(* Where an attempt that stops ends: no orphan is left behind. *)
LEMMA StopStep ==
  ASSUME ResponsesInv, NEW a \in Attempts, NEW q \in asks[a], at[a] \notin Ended \cup {"idle", "saved"},
         NEW answer \in Ended \ {"answered"}, End(a, q, answer), UNCHANGED <<attempted, store, history>>
  PROVE  ResponsesInv'
<1>1. faults \in 0..MaxFaults /\ orphans \subseteq Fresh
  BY InvParts DEF StoreTypes
<1> QED BY <1>1, EndStep DEF history

(* A check that is passed moves the attempt, and nothing else. *)
LEMMA MovedOn ==
  ASSUME AttemptTypes, NEW a \in Attempts, NEW q \in asks[a], NEW place \in Places \ (Ended \cup {"idle", "locating"}),
         Move(a, place), place \in Locked => at[a] \in Locked, place \in Settled => in[a] # {},
         place = "committing" => q.key \notin cancelled
  PROVE  Onward(a, q, place) /\ seen' = seen /\ in' = in
BY DEF Move, locks, Onward, TakesOpLock, TakesConvLock, AttemptTypes

(* The places between which attempts only pass a check. *)
LEMMA CheckedStep ==
  ASSUME ResponsesInv, NEW a \in Attempts, NEW q \in asks[a],
         NEW place, UNCHANGED <<attempted, store, history>>, Checked(a, q, place),
         \/ at[a] = "entered" /\ place = "queued"
         \/ at[a] = "resolving" /\ place = "preparing"
         \/ at[a] = "generating" /\ place = "committing"
  PROVE  ResponsesInv'
<1>1. AttemptTypes /\ AttemptInv /\ RecordInv /\ UsedInv
  BY InvParts
<1>2. CASE Cancelled(q)
  BY <1>2, StopStep DEF Checked, Ended
<1>3. CASE ~Cancelled(q)
  <2>1. /\ Move(a, place) /\ q.key \notin cancelled
        /\ place \in Places \ (Ended \cup {"idle", "locating"})
        /\ at[a] \notin Ended \cup {"idle", "committing", "saved"}
    BY <1>3 DEF Checked, Cancelled, Places, Ended
  <2>2. /\ place \in Locked => at[a] \in Locked
        /\ place \in Settled => in[a] # {}
        /\ place \in Turn => at[a] \in Turn
        /\ place \notin {"begun", "saved"}
    BY <1>1 DEF AttemptInv, Locked, Settled, Turn
  <2>3. place \in Loaded => seen[a] = ops[q.key] /\ \A op \in ops[q.key] : ~op.reply
    BY <1>1 DEF RecordInv, RecordOf, Loaded
  <2>4. Onward(a, q, place) /\ seen' = seen /\ in' = in
    BY <1>1, <2>1, <2>2, MovedOn
  <2>5. in[a] \subseteq Used
    BY <1>1 DEF UsedInv
  <2> QED BY <2>1, <2>2, <2>3, <2>4, <2>5, OnwardStep
<1> QED BY <1>2, <1>3

(* The lock of the operation. *)
LEMMA LockOperationStep ==
  ASSUME ResponsesInv, NEW a \in Attempts, NEW q \in asks[a], LockOperation(a, q)
  PROVE  ResponsesInv'
<1>1. AttemptTypes /\ AttemptInv /\ UsedInv /\ q.key \in Keys
  BY InvParts, AskTyped
<1>2. at[a] = "queued" /\ opLock[q.key] = {} /\ UNCHANGED <<attempted, store, history>>
  BY DEF LockOperation
<1>3. CASE Cancelled(q)
  BY <1>2, <1>3, StopStep DEF LockOperation, Ended
<1>4. CASE ~Cancelled(q)
  <2>1. /\ at' = [at EXCEPT ![a] = "loading"] /\ opLock' = [opLock EXCEPT ![q.key] = {a}]
        /\ UNCHANGED <<asks, seen, in, active, cancelled, convLock>>
    BY <1>4 DEF LockOperation
  <2>2. opLock'[q.key] = {a}
    BY <1>1, <2>1 DEF AttemptTypes
  <2>3. Onward(a, q, "loading")
    BY <1>1, <1>2, <2>1, <2>2 DEF Onward, TakesOpLock, TakesConvLock, Places, Ended, AttemptTypes, Settled
  <2>4. in'[a] \subseteq Used
    BY <1>1, <2>1 DEF UsedInv
  <2> QED BY <1>2, <2>3, <2>4, OnwardStep DEF Ended, Loaded, Turn
<1> QED BY <1>3, <1>4

(* The record is loaded behind the lock of its operation. *)
LEMMA LoadStep ==
  ASSUME ResponsesInv, NEW a \in Attempts, NEW q \in asks[a], Load(a, q)
  PROVE  ResponsesInv'
<1>1. AttemptTypes /\ AttemptInv /\ UsedInv /\ StoreTypes /\ q.key \in Keys
  BY InvParts, AskTyped
<1>2. at[a] = "loading" /\ UNCHANGED <<attempted, store, history>>
  BY DEF Load
<1>3. CASE End(a, q, "refused") \/ End(a, q, "replayed")
  BY <1>2, <1>3, StopStep DEF Ended
<1>4. ASSUME NEW place \in {"locating", "resolving"}, place = "locating" => q.conversation \in Known,
             at' = [at EXCEPT ![a] = place], seen' = [seen EXCEPT ![a] = ops[q.key]], UNCHANGED <<asks, in, locks>>,
             \A op \in ops[q.key] : ~op.reply
      PROVE  ResponsesInv'
  <2>1. seen' \in [Attempts -> SUBSET Operations] /\ seen'[a] = ops[q.key]
        /\ \A b \in Attempts : b # a => seen'[b] = seen[b]
    BY <1>1, <1>4 DEF AttemptTypes, StoreTypes
  <2>2. Onward(a, q, place)
    BY <1>1, <1>2, <1>4, <2>1 DEF Onward, TakesOpLock, TakesConvLock, Places, Ended, locks, Locked, Settled
  <2>3. in'[a] \subseteq Used
    BY <1>1, <1>4 DEF UsedInv
  <2> QED BY <1>2, <1>4, <2>1, <2>2, <2>3, OnwardStep DEF Ended, Turn
<1> QED BY <1>3, <1>4 DEF Load

(* A conversation is locked, by an attempt that then works in it alone. *)
LEMMA LockConversationStep ==
  ASSUME ResponsesInv, NEW a \in Attempts, NEW q \in asks[a], NEW c \in Conversations, NEW place, c \in Used,
         LockConversation(a, q, c, place), UNCHANGED <<attempted, store, history>>,
         \/ at[a] = "locating" /\ place = "resolving"
         \/ at[a] = "preparing" /\ place = "preparing"
  PROVE  ResponsesInv'
<1>1. AttemptTypes /\ RecordInv
  BY InvParts
<1>2. CASE Cancelled(q)
  BY <1>2, StopStep DEF LockConversation, Ended
<1>3. CASE ~Cancelled(q)
  <2>1. /\ convLock[c] = {} /\ at' = [at EXCEPT ![a] = place]
        /\ in' = [in EXCEPT ![a] = {c}] /\ convLock' = [convLock EXCEPT ![c] = {a}]
        /\ UNCHANGED <<asks, seen, active, cancelled, opLock>>
    BY <1>3 DEF LockConversation
  <2>2. in'[a] = {c}
    BY <1>1, <2>1 DEF AttemptTypes
  <2>3. TakesConvLock(a)
    BY <2>1 DEF TakesConvLock
  <2>4. Onward(a, q, place)
    BY <1>1, <2>1, <2>2, <2>3 DEF Onward, TakesOpLock, Places, Ended, Locked, AttemptTypes
  <2>5. seen'[a] = ops[q.key] /\ \A op \in ops[q.key] : ~op.reply
    BY <1>1, <2>1 DEF RecordInv, RecordOf, Loaded
  <2> QED BY <2>2, <2>4, <2>5, OnwardStep DEF Ended, Turn
<1> QED BY <1>2, <1>3

LEMMA LocateStep ==
  ASSUME ResponsesInv, NEW a \in Attempts, NEW q \in asks[a], Locate(a, q)
  PROVE  ResponsesInv'
<1>1. q.conversation \in Conversations /\ q.conversation \in Used
  BY InvParts DEF Locate, AttemptInv, Conversations, Used
<1> QED BY <1>1, LockConversationStep DEF Locate

LEMMA JoinStep ==
  ASSUME ResponsesInv, NEW a \in Attempts, NEW q \in asks[a], Join(a, q)
  PROVE  ResponsesInv'
<1>1. AttemptTypes /\ StoreTypes /\ RecordInv /\ UsedInv /\ q.key \in Keys
  BY InvParts, AskTyped
<1>2. at[a] = "preparing" /\ in[a] = {} /\ UNCHANGED <<attempted, store, history>>
  BY DEF Join
<1>3. PICK c \in Earlier(a, q) : LockConversation(a, q, c, "preparing")
  BY DEF Join
<1>4. seen[a] = ops[q.key]
  BY <1>1, <1>2 DEF RecordInv, RecordOf, Loaded
<1>5. c \in Conversations /\ c \in Used
  <2>1. CASE c \in attempted[q.key]
    BY <1>1, <2>1 DEF StoreTypes, UsedInv
  <2>2. ASSUME NEW op \in ops[q.key], c = op.conversation PROVE c \in Conversations /\ c \in Used
    <3>1. op \in Operations
      BY <1>1, <2>2 DEF StoreTypes
    <3> QED BY <1>1, <2>2, <3>1 DEF UsedInv, Operations
  <2> QED BY <1>2, <1>3, <1>4, <2>1, <2>2 DEF Earlier
<1> QED BY <1>2, <1>3, <1>5, LockConversationStep
----------------------------------------------------------------------------
(* What others loaded is the record of another operation. *)
LEMMA OthersRecords ==
  ASSUME ResponsesInv, NEW a \in Attempts, NEW q \in asks[a], at[a] \in Locked, asks' = asks,
         \A b \in Attempts : b # a => at'[b] = at[b] /\ seen'[b] = seen[b],
         \A k \in Keys : k # q.key => ops'[k] = ops[k] /\ attempted'[k] = attempted[k],
         RecordOf(a, q)'
  PROVE  RecordInv'
<1>1. AttemptTypes /\ AttemptInv /\ RecordInv /\ \A p \in asks[a] : p = q
  BY InvParts DEF AttemptInv
<1> SUFFICES ASSUME NEW b \in Attempts, NEW p \in asks[b], b # a PROVE RecordOf(b, p)'
  BY <1>1 DEF RecordInv
<1>2. p.key \in Keys /\ at'[b] = at[b] /\ seen'[b] = seen[b]
  BY <1>1, AskTyped
<1>3. CASE at[b] \in Locked
  <2>1. p.key # q.key
    BY <1>1, <1>3, OneBehindLock
  <2> QED BY <1>1, <1>2, <2>1 DEF RecordInv, RecordOf
<1>4. CASE at[b] \notin Locked
  BY <1>2, <1>4 DEF RecordOf, Locked, Loaded, Turn
<1> QED BY <1>3, <1>4

(* The attempt works in an earlier conversation, and notes it. *)
LEMMA ReuseStep ==
  ASSUME ResponsesInv, NEW a \in Attempts, NEW q \in asks[a], Reuse(a, q)
  PROVE  ResponsesInv'
<1>1. /\ AttemptTypes /\ StoreTypes /\ AttemptInv /\ RecordInv /\ StoreInv /\ UsedInv /\ NotedInv /\ OneConversation
      /\ q.key \in Keys /\ \A p \in asks[a] : p = q
  BY InvParts, AskTyped DEF AttemptInv
<1>2. at[a] = "preparing" /\ in[a] # {} /\ UNCHANGED <<store, history>>
  BY DEF Reuse
<1>3. CASE End(a, q, "refused") /\ UNCHANGED attempted
  BY <1>2, <1>3, StopStep DEF Ended
<1>4. ASSUME Move(a, "beginning"), attempted' = [attempted EXCEPT ![q.key] = IF @ = {} THEN in[a] ELSE @]
      PROVE  ResponsesInv'
  <2>1. Onward(a, q, "beginning") /\ seen' = seen /\ in' = in
    BY <1>1, <1>2, <1>4, MovedOn DEF Places, Ended, Locked, Settled
  <2>2. /\ AttemptTypes' /\ AttemptInv' /\ FlagInv' /\ WarnedInv'
        /\ at'[a] = "beginning" /\ asks' = asks /\ \A b \in Attempts : b # a => at'[b] = at[b]
    BY <1>2, <2>1, GoOn DEF history, Ended
  <2>3. /\ \A k \in Keys : k # q.key => attempted'[k] = attempted[k]
        /\ attempted'[q.key] = IF attempted[q.key] = {} THEN in[a] ELSE attempted[q.key]
    BY <1>1, <1>4 DEF StoreTypes
  <2>4. StoreTypes'
    BY <1>1, <1>2, <1>4 DEF StoreTypes, store, history, AttemptTypes
  <2>5. RecordInv'
    <3>1. RecordOf(a, q)'
      BY <1>1, <1>2, <2>1, <2>2 DEF RecordInv, RecordOf, Loaded, Turn, store
    <3> QED BY <1>2, <2>1, <2>2, <2>3, <3>1, OthersRecords DEF store, Locked
  <2>6. StoreInv' /\ OneConversation'
    BY <1>1, <1>2, StoreInvKept DEF store, history, OneConversation
  <2>7. UsedInv'
    BY <1>1, <1>2, <2>1, <2>3 DEF UsedInv, Used, store, history
  <2>8. NotedInv'
    <3>1. \A c, d \in attempted'[q.key] : c = d
      BY <1>1, <2>3 DEF NotedInv, AttemptInv
    <3>2. \A b \in Attempts : at[b] = "saved" => \A r \in asks[b] : r.key # q.key
      BY <1>1, <1>2, OneBehindLock DEF Locked
    <3>3. ops[q.key] = {} => \A p \in created : p[1] = q.key /\ p[2] \notin orphans => attempted[q.key] = {p[2]}
      BY <1>1, <3>2 DEF NotedInv
    <3>4. \A k \in Keys, p \in created : k # q.key =>
            ((\E b \in Attempts : at[b] = "saved" /\ in[b] = {p[2]} /\ \E r \in asks[b] : r.key = k)
              => (\E b \in Attempts : at'[b] = "saved" /\ in'[b] = {p[2]} /\ \E r \in asks'[b] : r.key = k))
      BY <1>2, <2>1, <2>2
    <3>5. UNCHANGED <<ops, created, orphans>>
      BY <1>2 DEF store, history
    <3>6. ASSUME NEW k \in Keys, k # q.key
          PROVE  /\ \A c, d \in attempted'[k] : c = d
                 /\ ops'[k] = {} => \A p \in created' : p[1] = k /\ p[2] \notin orphans' =>
                      \/ attempted'[k] = {p[2]}
                      \/ \E b \in Attempts : at'[b] = "saved" /\ in'[b] = {p[2]} /\ \E r \in asks'[b] : r.key = k
      <4>1. attempted'[k] = attempted[k]
        BY <2>3, <3>6
      <4>2. \A c, d \in attempted'[k] : c = d
        BY <1>1, <4>1 DEF NotedInv
      <4>3. ASSUME ops'[k] = {}, NEW p \in created', p[1] = k, p[2] \notin orphans'
            PROVE  \/ attempted'[k] = {p[2]}
                   \/ \E b \in Attempts : at'[b] = "saved" /\ in'[b] = {p[2]} /\ \E r \in asks'[b] : r.key = k
        <5>1. p \in created /\ p[2] \notin orphans /\ ops[k] = {}
          BY <3>5, <4>3
        <5>2. \/ attempted[k] = {p[2]}
              \/ \E b \in Attempts : at[b] = "saved" /\ in[b] = {p[2]} /\ \E r \in asks[b] : r.key = k
          BY <1>1, <4>3, <5>1 DEF NotedInv
        <5> QED BY <3>4, <3>6, <4>1, <5>1, <5>2
      <4> QED BY <4>2, <4>3
    <3>7. ops'[q.key] = {} => \A p \in created' : p[1] = q.key /\ p[2] \notin orphans' => attempted'[q.key] = {p[2]}
      BY <2>3, <3>3, <3>5
    <3> QED BY <3>1, <3>6, <3>7 DEF NotedInv
  <2> QED BY <2>2, <2>4, <2>5, <2>6, <2>7, <2>8, InvParts, PTL
<1> QED BY <1>3, <1>4 DEF Reuse

(* A new conversation gets an identity nothing referred to before. *)
LEMMA CreateStep ==
  ASSUME ResponsesInv, NEW a \in Attempts, NEW q \in asks[a], Create(a, q)
  PROVE  ResponsesInv'
<1>1. /\ AttemptTypes /\ StoreTypes /\ AttemptInv /\ RecordInv /\ StoreInv /\ UsedInv /\ NotedInv /\ OneConversation
      /\ q.key \in Keys /\ \A p \in asks[a] : p = q
  BY InvParts, AskTyped DEF AttemptInv
<1>2. /\ at[a] = "preparing" /\ Earlier(a, q) = {}
      /\ UNCHANGED <<attempted, ops, messages, orphans, warned, faults>>
  BY DEF Create
<1>3. PICK c \in Unused : IF Cancelled(q) THEN End(a, q, "cancelled") /\ UNCHANGED <<convs, created>>
                          ELSE /\ LockConversation(a, q, c, "saved")
                               /\ convs' = convs \cup {c} /\ created' = created \cup {<<q.key, c>>}
  BY DEF Create
<1>4. CASE Cancelled(q)
  BY <1>2, <1>3, <1>4, StopStep DEF store, history, Ended
<1>5. CASE ~Cancelled(q)
  <2>1. /\ convLock[c] = {} /\ at' = [at EXCEPT ![a] = "saved"]
        /\ in' = [in EXCEPT ![a] = {c}] /\ convLock' = [convLock EXCEPT ![c] = {a}]
        /\ UNCHANGED <<asks, seen, active, cancelled, opLock>>
        /\ convs' = convs \cup {c} /\ created' = created \cup {<<q.key, c>>}
    BY <1>3, <1>5 DEF LockConversation
  <2>2. c \in Fresh /\ c \in Conversations /\ c \notin Used
    BY <1>1, ResponsesAssumption DEF Unused, Used, Conversations
  <2>3. ops[q.key] = {} /\ attempted[q.key] = {}
    <3>1. in[a] = {} /\ seen[a] = ops[q.key]
      BY <1>1, <1>2 DEF RecordInv, RecordOf, Loaded, Earlier
    <3>2. \A op \in seen[a] : op.conversation \in {o.conversation : o \in seen[a]}
      OBVIOUS
    <3> QED BY <1>2, <3>1, <3>2 DEF Earlier
  <2>4. in'[a] = {c} /\ \A b \in Attempts : b # a => in'[b] = in[b]
    BY <1>1, <2>1 DEF AttemptTypes
  <2>5. Onward(a, q, "saved")
    BY <1>1, <1>2, <2>1, <2>2, <2>4 DEF Onward, TakesOpLock, TakesConvLock, Places, Ended, Locked, AttemptTypes
  <2>6. /\ AttemptTypes' /\ AttemptInv' /\ FlagInv' /\ WarnedInv'
        /\ at'[a] = "saved" /\ asks' = asks /\ \A b \in Attempts : b # a => at'[b] = at[b]
    BY <1>2, <2>5, GoOn DEF Ended
  <2>7. StoreTypes'
    <3>1. <<q.key, c>> \in Keys \X Fresh
      BY <1>1, <2>2
    <3>2. convs' \subseteq Conversations /\ created' \subseteq Keys \X Fresh
      BY <1>1, <2>1, <2>2, <3>1 DEF StoreTypes
    <3> QED BY <1>1, <1>2, <3>2 DEF StoreTypes
  <2>8. RecordInv'
    <3>1. RecordOf(a, q)'
      BY <1>1, <1>2, <2>1, <2>3, <2>6 DEF RecordInv, RecordOf, Loaded, Turn
    <3> QED BY <1>2, <2>1, <2>6, <3>1, OthersRecords DEF Locked
  <2>9. StoreInv'
    <3>1. \A k \in Keys : \A op \in ops[k] : op.conversation # c
      BY <1>1, <2>2 DEF UsedInv
    <3> QED BY <1>1, <1>2, <2>1, <3>1 DEF StoreInv, OpInv, SpeechInv, SpokenOnce, ReplyHasMessage, Said
  <2>10. UsedInv'
    <3>1. Used' = Used \cup {c}
      <4>1. <<q.key, c>>[2] = c
        OBVIOUS
      <4>2. \A x : x \in {p[2] : p \in created'} <=> x \in {p[2] : p \in created} \/ x = c
        BY <2>1, <4>1
      <4> QED BY <4>2 DEF Used
    <3> QED BY <1>1, <1>2, <2>1, <2>4, <3>1 DEF UsedInv
  <2>11. \A p \in created : p[1] = q.key => p[2] \in orphans
    <3>1. \A b \in Attempts : at[b] = "saved" => \A r \in asks[b] : r.key # q.key
      BY <1>1, <1>2, OneBehindLock DEF Locked
    <3> QED BY <1>1, <2>3, <3>1 DEF NotedInv
  <2>12. NotedInv'
    <3>1. \A b \in Attempts : at[b] = "saved" => at'[b] = "saved" /\ in'[b] = in[b]
      BY <1>2, <2>4, <2>6
    <3>2. \E b \in Attempts : at'[b] = "saved" /\ in'[b] = {c} /\ \E r \in asks'[b] : r.key = q.key
      BY <2>1, <2>4, <2>6
    <3>3. \A p \in created' : p \in created \/ (p[1] = q.key /\ p[2] = c)
      BY <2>1
    <3>4. ASSUME NEW k \in Keys, ops[k] = {}, NEW p \in created, p[1] = k, p[2] \notin orphans
          PROVE  \/ attempted[k] = {p[2]}
                 \/ \E b \in Attempts : at'[b] = "saved" /\ in'[b] = {p[2]} /\ \E r \in asks'[b] : r.key = k
      <4>1. \/ attempted[k] = {p[2]}
            \/ \E b \in Attempts : at[b] = "saved" /\ in[b] = {p[2]} /\ \E r \in asks[b] : r.key = k
        BY <1>1, <3>4 DEF NotedInv
      <4>2. asks' = asks
        BY <2>6
      <4> QED BY <3>1, <4>1, <4>2
    <3>5. \A k \in Keys : ops'[k] = ops[k] /\ attempted'[k] = attempted[k]
      BY <1>2
    <3>6. \A k \in Keys : \A d, e \in attempted'[k] : d = e
      BY <1>1, <3>5 DEF NotedInv
    <3>7. ASSUME NEW k \in Keys, ops'[k] = {}, NEW p \in created', p[1] = k, p[2] \notin orphans'
          PROVE  \/ attempted'[k] = {p[2]}
                 \/ \E b \in Attempts : at'[b] = "saved" /\ in'[b] = {p[2]} /\ \E r \in asks'[b] : r.key = k
      <4>1. CASE p \in created
        <5>1. ops[k] = {} /\ p[2] \notin orphans
          BY <1>2, <2>1, <3>5, <3>7
        <5> QED BY <3>4, <3>5, <3>7, <4>1, <5>1
      <4>2. CASE p[1] = q.key /\ p[2] = c
        BY <3>2, <3>7, <4>2
      <4> QED BY <3>3, <4>1, <4>2
    <3> QED BY <3>6, <3>7 DEF NotedInv
  <2>13. OneConversation'
    BY <1>1, <1>2, <2>1, <2>11 DEF OneConversation
  <2> QED BY <2>6, <2>7, <2>8, <2>9, <2>10, <2>12, <2>13, InvParts, PTL
<1> QED BY <1>4, <1>5

(* The attempt notes the conversation it has created. *)
LEMMA NoteStep ==
  ASSUME ResponsesInv, NEW a \in Attempts, NEW q \in asks[a], Note(a, q)
  PROVE  ResponsesInv'
<1>1. /\ AttemptTypes /\ StoreTypes /\ AttemptInv /\ RecordInv /\ StoreInv /\ UsedInv /\ NotedInv /\ OneConversation
      /\ q.key \in Keys /\ \A p \in asks[a] : p = q
  BY InvParts, AskTyped DEF AttemptInv
<1>2. /\ at[a] = "saved" /\ UNCHANGED <<store, history>> /\ Move(a, "beginning")
      /\ attempted' = [attempted EXCEPT ![q.key] = in[a]]
  BY DEF Note
<1>3. Onward(a, q, "beginning") /\ seen' = seen /\ in' = in
  BY <1>1, <1>2, MovedOn DEF Places, Ended, Locked, Settled, AttemptInv
<1>4. /\ AttemptTypes' /\ AttemptInv' /\ FlagInv' /\ WarnedInv'
      /\ at'[a] = "beginning" /\ asks' = asks /\ \A b \in Attempts : b # a => at'[b] = at[b]
  BY <1>2, <1>3, GoOn DEF history, Ended
<1>5. attempted'[q.key] = in[a] /\ \A k \in Keys : k # q.key => attempted'[k] = attempted[k]
  BY <1>1, <1>2 DEF StoreTypes
<1>6. StoreTypes'
  BY <1>1, <1>2 DEF StoreTypes, store, history, AttemptTypes
<1>7. RecordInv'
  <2>1. RecordOf(a, q)'
    BY <1>1, <1>2, <1>3, <1>4 DEF RecordInv, RecordOf, Loaded, Turn, store
  <2> QED BY <1>2, <1>3, <1>4, <1>5, <2>1, OthersRecords DEF store, Locked
<1>8. StoreInv' /\ OneConversation'
  BY <1>1, <1>2, StoreInvKept DEF store, history, OneConversation
<1>9. UsedInv'
  BY <1>1, <1>2, <1>3, <1>5 DEF UsedInv, Used, store, history
<1>10. NotedInv'
  <2>1. \A b \in Attempts : at[b] = "saved" /\ (\E r \in asks[b] : r.key = q.key) => b = a
    BY <1>1, <1>2, OneBehindLock DEF Locked
  <2>2. \A c, d \in in[a] : c = d
    BY <1>1 DEF AttemptInv
  <2>3. attempted[q.key] = {}
    BY <1>1, <1>2 DEF RecordInv, RecordOf
  <2>4. ops[q.key] = {} => \A p \in created : p[1] = q.key /\ p[2] \notin orphans => in[a] = {p[2]}
    BY <1>1, <2>1, <2>3 DEF NotedInv
  <2>5. UNCHANGED <<ops, created, orphans>>
    BY <1>2 DEF store, history
  <2>6. ASSUME NEW k \in Keys, k # q.key, ops[k] = {}, NEW p \in created, p[1] = k, p[2] \notin orphans
        PROVE  \/ attempted[k] = {p[2]}
               \/ \E b \in Attempts : at'[b] = "saved" /\ in'[b] = {p[2]} /\ \E r \in asks'[b] : r.key = k
    <3>1. ASSUME NEW b \in Attempts, at[b] = "saved", in[b] = {p[2]}, NEW r \in asks[b], r.key = k
          PROVE  at'[b] = "saved" /\ in'[b] = {p[2]} /\ \E z \in asks'[b] : z.key = k
      BY <1>1, <1>3, <1>4, <2>6, <3>1
    <3> QED BY <1>1, <2>6, <3>1 DEF NotedInv
  <2>7. \A k \in Keys : \A c, d \in attempted'[k] : c = d
    BY <1>1, <1>5, <2>2 DEF NotedInv
  <2> QED BY <1>5, <2>4, <2>5, <2>6, <2>7 DEF NotedInv
<1> QED BY <1>4, <1>6, <1>7, <1>8, <1>9, <1>10, InvParts, PTL

(* Once an operation has a record, no conversation of it waits to be noted. *)
LEMMA NotedKept ==
  ASSUME ResponsesInv, NEW a \in Attempts, NEW q \in asks[a], at[a] \in Locked \ {"saved"}, asks' = asks,
         \A b \in Attempts : b # a => at'[b] = at[b] /\ in'[b] = in[b],
         ops'[q.key] # {}, \A k \in Keys : k # q.key => ops'[k] = ops[k] /\ attempted'[k] = attempted[k],
         attempted'[q.key] \in {attempted[q.key], {}}, UNCHANGED <<created, orphans>>
  PROVE  NotedInv'
<1>1. AttemptTypes /\ NotedInv /\ q.key \in Keys
  BY InvParts, AskTyped
<1>2. \A k \in Keys : \A c, d \in attempted'[k] : c = d
  BY <1>1 DEF NotedInv
<1>3. ASSUME NEW k \in Keys, ops'[k] = {}, NEW p \in created, p[1] = k, p[2] \notin orphans
      PROVE  \/ attempted'[k] = {p[2]}
             \/ \E b \in Attempts : at'[b] = "saved" /\ in'[b] = {p[2]} /\ \E r \in asks'[b] : r.key = k
  <2>1. ops[k] = {} /\ attempted'[k] = attempted[k]
    BY <1>3
  <2>2. ASSUME NEW b \in Attempts, at[b] = "saved", in[b] = {p[2]}, \E r \in asks[b] : r.key = k
        PROVE  at'[b] = "saved" /\ in'[b] = {p[2]} /\ \E z \in asks'[b] : z.key = k
    BY <2>2
  <2>3. \/ attempted[k] = {p[2]}
        \/ \E b \in Attempts : at[b] = "saved" /\ in[b] = {p[2]} /\ \E r \in asks[b] : r.key = k
    BY <1>1, <1>3, <2>1 DEF NotedInv
  <2> QED BY <2>1, <2>2, <2>3
<1> QED BY <1>2, <1>3 DEF NotedInv

(* The record is inserted, naming the conversation, or it is there. *)
LEMMA BeginStep ==
  ASSUME ResponsesInv, NEW a \in Attempts, NEW q \in asks[a], Begin(a, q)
  PROVE  ResponsesInv'
<1>1. /\ AttemptTypes /\ StoreTypes /\ AttemptInv /\ RecordInv /\ StoreInv /\ UsedInv /\ NotedInv /\ OneConversation
      /\ q \in Requests /\ q.key \in Keys /\ \A p \in asks[a] : p = q
  BY InvParts, AskTyped DEF AttemptInv
<1>2. /\ at[a] = "beginning" /\ UNCHANGED <<attempted, convs, messages, history>> /\ Move(a, "begun")
      /\ ops' = [ops EXCEPT ![q.key] = IF @ = {} THEN {Operation(q, c) : c \in in[a]} ELSE @]
  BY DEF Begin
<1>3. PICK c \in Conversations : in[a] = {c}
  BY <1>1, <1>2 DEF AttemptInv, Settled, AttemptTypes
<1> DEFINE new == Operation(q, c)
<1>4. /\ new \in Operations /\ ~new.written /\ ~new.reply /\ new.conversation = c /\ c \in Used
      /\ {Operation(q, d) : d \in in[a]} = {new}
  <2>1. c \in Used
    BY <1>1, <1>3 DEF UsedInv
  <2> QED BY <1>1, <1>3, <2>1 DEF Operation, Operations
<1> HIDE DEF new
<1>5. /\ ops'[q.key] = IF ops[q.key] = {} THEN {new} ELSE ops[q.key]
      /\ \A k \in Keys : k # q.key => ops'[k] = ops[k]
  BY <1>1, <1>2, <1>4 DEF StoreTypes
<1>6. Onward(a, q, "begun") /\ seen' = seen /\ in' = in
  BY <1>1, <1>2, MovedOn DEF Places, Ended, Locked, Settled, AttemptInv
<1>7. /\ AttemptTypes' /\ AttemptInv' /\ FlagInv' /\ WarnedInv'
      /\ at'[a] = "begun" /\ asks' = asks /\ \A b \in Attempts : b # a => at'[b] = at[b]
  BY <1>2, <1>6, GoOn DEF history, Ended
<1>8. StoreTypes'
  BY <1>1, <1>2, <1>4 DEF StoreTypes, history
<1>9. RecordInv'
  <2>1. seen[a] = ops[q.key] /\ \A op \in ops[q.key] : ~op.reply
    BY <1>1, <1>2 DEF RecordInv, RecordOf, Loaded
  <2>2. RecordOf(a, q)'
    BY <1>4, <1>5, <1>6, <1>7, <2>1 DEF RecordOf, Loaded, Turn
  <2> QED BY <1>2, <1>5, <1>6, <1>7, <2>2, OthersRecords DEF Locked
<1>10. StoreInv'
  <2>1. \A k \in Keys, role \in {"user", "assistant"} : Said(k, role)' = Said(k, role)
    BY <1>2 DEF Said
  <2>2. OpInv'
    BY <1>1, <1>4, <1>5 DEF StoreInv, OpInv
  <2>3. SpeechInv'
    BY <1>1, <1>5, <2>1 DEF StoreInv, SpeechInv
  <2>4. SpokenOnce'
    BY <1>1, <2>1 DEF StoreInv, SpokenOnce
  <2>5. ops[q.key] = {} => Said(q.key, "assistant") = {}
    BY <1>1 DEF StoreInv, SpeechInv
  <2>6. ReplyHasMessage'
    BY <1>1, <1>2, <1>4, <1>5, <2>1, <2>5 DEF StoreInv, ReplyHasMessage
  <2> QED BY <2>2, <2>3, <2>4, <2>6 DEF StoreInv
<1>11. UsedInv'
  BY <1>1, <1>2, <1>4, <1>5, <1>6 DEF UsedInv, Used, history
<1>12. NotedInv'
  BY <1>2, <1>5, <1>6, <1>7, NotedKept DEF Locked, history
<1>13. OneConversation'
  BY <1>1, <1>2 DEF OneConversation, history
<1> QED BY <1>7, <1>8, <1>9, <1>10, <1>11, <1>12, <1>13, InvParts, PTL

(* Where a message is said, and that it is said last. *)
LEMMA SaidAfter ==
  ASSUME StoreTypes, NEW c \in Conversations, NEW k \in Keys, NEW role \in {"user", "assistant"}, Say(c, k, role)
  PROVE  /\ \A other \in Keys, r \in {"user", "assistant"} :
              Said(other, r)' = Said(other, r) \cup IF other = k /\ r = role THEN {<<c, Len(messages[c]) + 1>>} ELSE {}
         /\ \A other \in Keys, r \in {"user", "assistant"} : \A p \in Said(other, r) :
              p[1] = c => p[2] < Len(messages[c]) + 1
         /\ messages' \in [Conversations -> Seq([key : Keys, role : {"user", "assistant"}])]
         /\ \A d \in Conversations : d # c => messages'[d] = messages[d]
<1> DEFINE M == [key : Keys, role : {"user", "assistant"}]
           m == Message(k, role)
           n == Len(messages[c]) + 1
<1>1. messages \in [Conversations -> Seq(M)] /\ m \in M /\ messages' = [messages EXCEPT ![c] = Append(@, m)]
  BY DEF StoreTypes, Message, Say
<1> HIDE DEF m, M
<1>2. messages' \in [Conversations -> Seq(M)]
  BY <1>1
<1>3. \A d \in Conversations : d # c => messages'[d] = messages[d]
  BY <1>1
<1>4. messages[c] \in Seq(M) /\ messages'[c] = Append(messages[c], m)
  BY <1>1
<1>5. /\ n \in DOMAIN messages'[c] /\ messages'[c][n] = m /\ n \notin DOMAIN messages[c]
      /\ \A i \in DOMAIN messages'[c] : i = n \/ (i \in DOMAIN messages[c] /\ messages'[c][i] = messages[c][i])
      /\ \A i \in DOMAIN messages[c] : i \in DOMAIN messages'[c] /\ messages'[c][i] = messages[c][i] /\ i < n
  BY <1>1, <1>4
<1>6. ASSUME NEW other \in Keys, NEW r \in {"user", "assistant"}
      PROVE  /\ m = Message(other, r) <=> (other = k /\ r = role)
             /\ {i \in DOMAIN messages'[c] : messages'[c][i] = Message(other, r)} =
                  {i \in DOMAIN messages[c] : messages[c][i] = Message(other, r)}
                    \cup IF other = k /\ r = role THEN {n} ELSE {}
  <2>1. m = Message(other, r) <=> (other = k /\ r = role)
    BY DEF m, Message
  <2> QED BY <1>5, <2>1
<1> HIDE DEF n
<1>7. ASSUME NEW other \in Keys, NEW r \in {"user", "assistant"}, NEW p
      PROVE  p \in Said(other, r)' <=> p \in Said(other, r) \/ (other = k /\ r = role /\ p = <<c, n>>)
  <2>1. p \in Said(other, r)' <=>
          \E d \in Conversations : p \in {d} \X {i \in DOMAIN messages'[d] : messages'[d][i] = Message(other, r)}
    BY DEF Said
  <2>2. p \in Said(other, r) <=>
          \E d \in Conversations : p \in {d} \X {i \in DOMAIN messages[d] : messages[d][i] = Message(other, r)}
    BY DEF Said
  <2>3. \A d \in Conversations : d # c =>
          {i \in DOMAIN messages'[d] : messages'[d][i] = Message(other, r)} =
          {i \in DOMAIN messages[d] : messages[d][i] = Message(other, r)}
    BY <1>3
  <2>4. p \in {c} \X {i \in DOMAIN messages'[c] : messages'[c][i] = Message(other, r)} <=>
          \/ p \in {c} \X {i \in DOMAIN messages[c] : messages[c][i] = Message(other, r)}
          \/ (other = k /\ r = role /\ p = <<c, n>>)
    BY <1>6
  <2> QED BY <2>1, <2>2, <2>3, <2>4
<1>8. ASSUME NEW other \in Keys, NEW r \in {"user", "assistant"}, NEW p \in Said(other, r), p[1] = c
      PROVE  p[2] < n
  <2>1. PICK d \in Conversations : p \in {d} \X {i \in DOMAIN messages[d] : messages[d][i] = Message(other, r)}
    BY DEF Said
  <2>2. d = c /\ p[2] \in DOMAIN messages[c]
    BY <1>8, <2>1
  <2> QED BY <1>5, <2>2
<1>9. ASSUME NEW other \in Keys, NEW r \in {"user", "assistant"}
      PROVE  Said(other, r)' = Said(other, r) \cup IF other = k /\ r = role THEN {<<c, n>>} ELSE {}
  BY <1>7
<1> QED BY <1>2, <1>3, <1>8, <1>9 DEF n, M

(* The record of an operation goes on, in the same conversation, with the  *)
(* message it stands for, if that is said.                                 *)
LEMMA RecordGoesOn ==
  ASSUME StoreTypes, StoreInv, convs' = convs, NEW k \in Keys, NEW old, NEW new, ops[k] = {old}, ops'[k] = {new},
         \A other \in Keys : other # k => ops'[other] = ops[other],
         new.conversation = old.conversation, old.written => new.written, old.reply => new.reply,
         new.reply => new.written, NEW role \in {"user", "assistant"},
         \/ messages' = messages /\ new.reply = old.reply
         \/ /\ \E c \in Conversations : c = new.conversation /\ Say(c, k, role)
            /\ role = "user" => ~old.written /\ new.written /\ new.reply = old.reply
            /\ role = "assistant" => ~old.reply /\ new.reply
  PROVE  StoreInv' /\ messages' \in [Conversations -> Seq([key : Keys, role : {"user", "assistant"}])]
<1>1. OpInv'
  BY DEF StoreInv, OpInv
<1>2. CASE messages' = messages /\ new.reply = old.reply
  <2>1. \A other \in Keys, r \in {"user", "assistant"} : Said(other, r)' = Said(other, r)
    BY <1>2 DEF Said
  <2>2. SpeechInv' /\ SpokenOnce'
    BY <1>2, <2>1 DEF StoreInv, SpeechInv, SpokenOnce
  <2>3. \A op \in Operations, other \in Keys : op \in ops'[other] =>
          \E before \in ops[other] : before.conversation = op.conversation /\ before.reply = op.reply
    BY <1>2
  <2>4. ReplyHasMessage'
    <3>1. ops[k] \subseteq Operations
      BY DEF StoreTypes
    <3> QED BY <1>2, <2>1, <3>1 DEF StoreInv, ReplyHasMessage
  <2> QED BY <1>1, <1>2, <2>2, <2>4 DEF StoreInv, StoreTypes
<1>3. ASSUME NEW c \in Conversations, c = new.conversation, Say(c, k, role),
             role = "user" => ~old.written /\ new.written /\ new.reply = old.reply,
             role = "assistant" => ~old.reply /\ new.reply
      PROVE  StoreInv' /\ messages' \in [Conversations -> Seq([key : Keys, role : {"user", "assistant"}])]
  <2> DEFINE n == Len(messages[c]) + 1
  <2>1. /\ \A other \in Keys, r \in {"user", "assistant"} :
             Said(other, r)' = Said(other, r) \cup IF other = k /\ r = role THEN {<<c, n>>} ELSE {}
        /\ \A other \in Keys, r \in {"user", "assistant"} : \A p \in Said(other, r) : p[1] = c => p[2] < n
        /\ messages' \in [Conversations -> Seq([key : Keys, role : {"user", "assistant"}])]
    <3>1. Say(c, k, role)
      BY <1>3
    <3>2. messages' \in [Conversations -> Seq([key : Keys, role : {"user", "assistant"}])]
      BY <3>1, SaidAfter
    <3>3. \A other \in Keys, r \in {"user", "assistant"} : \A p \in Said(other, r) : p[1] = c => p[2] < Len(messages[c]) + 1
      BY <3>1, SaidAfter
    <3>4. \A other \in Keys, r \in {"user", "assistant"} :
             Said(other, r)' = Said(other, r) \cup IF other = k /\ r = role THEN {<<c, Len(messages[c]) + 1>>} ELSE {}
      BY <3>1, SaidAfter
    <3> QED BY <3>2, <3>3, <3>4
  <2> HIDE DEF n
  <2>2. /\ \A p \in Said(k, "user") : p[1] = c /\ old.written
        /\ \A p \in Said(k, "assistant") : p[1] = c /\ old.reply
    BY <1>3 DEF StoreInv, SpeechInv
  <2>3. old.reply => old.written
    BY DEF StoreInv, OpInv
  <2>4. ASSUME NEW other \in Keys, NEW r \in {"user", "assistant"}, other # k PROVE Said(other, r)' = Said(other, r)
    <3>1. Said(other, r)' = Said(other, r) \cup IF other = k /\ r = role THEN {<<c, n>>} ELSE {}
      BY <2>1
    <3> QED BY <2>4, <3>1
  <2>5. /\ role = "user" => /\ Said(k, "user")' = {<<c, n>>} /\ Said(k, "assistant")' = {}
                            /\ Said(k, "assistant") = {}
        /\ role = "assistant" => /\ Said(k, "user")' = Said(k, "user") /\ Said(k, "assistant")' = {<<c, n>>}
    <3>1. \A r \in {"user", "assistant"} :
            Said(k, r)' = Said(k, r) \cup IF r = role THEN {<<c, n>>} ELSE {}
      <4> TAKE r \in {"user", "assistant"}
      <4>1. Said(k, r)' = Said(k, r) \cup IF k = k /\ r = role THEN {<<c, n>>} ELSE {}
        BY <2>1
      <4> QED BY <4>1
    <3>2. Said(k, "user")' = Said(k, "user") \cup IF "user" = role THEN {<<c, n>>} ELSE {}
      BY <3>1
    <3>3. Said(k, "assistant")' = Said(k, "assistant") \cup IF "assistant" = role THEN {<<c, n>>} ELSE {}
      BY <3>1
    <3>4. CASE role = "user"
      <4>1. Said(k, "user") = {} /\ Said(k, "assistant") = {}
        BY <1>3, <2>2, <2>3, <3>4
      <4> QED BY <3>2, <3>3, <3>4, <4>1
    <3>5. CASE role = "assistant"
      <4>1. Said(k, "assistant") = {}
        BY <1>3, <2>2, <3>5
      <4> QED BY <3>2, <3>3, <3>5, <4>1
    <3> QED BY <3>4, <3>5
  <2>6. SpeechInv'
    <3>1. ASSUME NEW p \in Said(k, "user")' PROVE \E op \in ops'[k] : op.conversation = p[1] /\ op.written
      BY <1>3, <2>2, <2>5, <3>1
    <3>2. ASSUME NEW p \in Said(k, "assistant")' PROVE \E op \in ops'[k] : op.conversation = p[1] /\ op.reply
      BY <1>3, <2>2, <2>5, <3>2
    <3> QED BY <2>4, <3>1, <3>2 DEF StoreInv, SpeechInv
  <2>7. SpokenOnce'
    <3>1. \A r \in {"user", "assistant"} : \A u, v \in Said(k, r)' : u = v
      BY <2>5 DEF StoreInv, SpokenOnce
    <3>2. \A u \in Said(k, "user")', r \in Said(k, "assistant")' : u[1] = r[1] /\ u[2] < r[2]
      BY <2>1, <2>2, <2>5
    <3> QED BY <2>4, <3>1, <3>2 DEF StoreInv, SpokenOnce
  <2>8. ReplyHasMessage'
    <3>1. \A op \in ops'[k] : op = new
      OBVIOUS
    <3>2. new.reply <=> Said(k, "assistant")' # {}
      BY <1>3, <2>2, <2>3, <2>5
    <3> QED BY <2>4, <3>1, <3>2 DEF StoreInv, ReplyHasMessage
  <2> QED BY <1>1, <2>1, <2>6, <2>7, <2>8 DEF StoreInv
<1> QED BY <1>2, <1>3

(* What the attempt writes: the message of its user, once. *)
LEMMA AppendUserStep ==
  ASSUME ResponsesInv, NEW a \in Attempts, NEW q \in asks[a], AppendUser(a, q)
  PROVE  ResponsesInv'
<1>1. /\ AttemptTypes /\ StoreTypes /\ AttemptInv /\ RecordInv /\ StoreInv /\ UsedInv /\ NotedInv /\ OneConversation
      /\ q.key \in Keys /\ \A p \in asks[a] : p = q
  BY InvParts, AskTyped DEF AttemptInv
<1>2. /\ at[a] = "begun" /\ attempted' = [attempted EXCEPT ![q.key] = {}]
      /\ UNCHANGED <<convs, history>>
  BY DEF AppendUser
<1>3. /\ ops[q.key] # {} /\ \A op \in ops[q.key] : ~op.reply
      /\ seen[a] = ops[q.key] \/ (seen[a] = {} /\ \A op \in ops[q.key] : ~op.written)
  BY <1>1, <1>2 DEF RecordInv, RecordOf
<1>4. PICK old \in Operations : ops[q.key] = {old}
  <2>1. PICK op : op \in ops[q.key]
    BY <1>3
  <2>2. op \in Operations /\ \A other \in ops[q.key] : other = op
    BY <1>1, <2>1 DEF StoreTypes, StoreInv, OpInv
  <2> QED BY <2>1, <2>2
<1>5. PICK c \in Conversations : in[a] = {c}
  BY <1>1, <1>2 DEF AttemptInv, Settled, AttemptTypes
<1>6. CASE End(a, q, "failed") /\ UNCHANGED <<ops, messages>>
  <2>1. faults' \in 0..MaxFaults /\ orphans' \subseteq Fresh
    BY <1>1, <1>2 DEF StoreTypes, history
  <2> QED BY <1>2, <1>3, <1>6, <2>1, EndStep DEF Ended, store, history
<1>7. ASSUME Move(a, "generating"), NEW new \in Operations, ops'[q.key] = {new}, new.written, new.reply = old.reply,
             new.conversation = old.conversation, ops' \in [Keys -> SUBSET Operations],
             \A k \in Keys : k # q.key => ops'[k] = ops[k],
             \/ messages' = messages
             \/ ~old.written /\ old.conversation = c /\ Say(c, q.key, "user")
      PROVE  ResponsesInv'
  <2>1. Onward(a, q, "generating") /\ seen' = seen /\ in' = in
    BY <1>1, <1>2, <1>7, MovedOn DEF Places, Ended, Locked, Settled, AttemptInv
  <2>2. /\ AttemptTypes' /\ AttemptInv' /\ FlagInv' /\ WarnedInv'
        /\ at'[a] = "generating" /\ asks' = asks /\ \A b \in Attempts : b # a => at'[b] = at[b]
    BY <1>2, <2>1, GoOn DEF history, Ended
  <2>3. /\ \A k \in Keys : k # q.key => attempted'[k] = attempted[k]
        /\ attempted'[q.key] = {}
    BY <1>1, <1>2 DEF StoreTypes
  <2>4. StoreInv' /\ messages' \in [Conversations -> Seq([key : Keys, role : {"user", "assistant"}])]
    <3> DEFINE role == "user"
    <3>1. /\ convs' = convs /\ role \in {"user", "assistant"}
          /\ (old.written => new.written) /\ (old.reply => new.reply) /\ (new.reply => new.written)
      BY <1>2, <1>7
    <3>2. \/ messages' = messages /\ new.reply = old.reply
          \/ /\ \E d \in Conversations : d = new.conversation /\ Say(d, q.key, role)
             /\ role = "user" => ~old.written /\ new.written /\ new.reply = old.reply
             /\ role = "assistant" => ~old.reply /\ new.reply
      BY <1>7
    <3> HIDE DEF role
    <3> QED BY <1>1, <1>4, <1>7, <3>1, <3>2, RecordGoesOn
  <2>5. StoreTypes'
    BY <1>1, <1>2, <1>7, <2>4 DEF StoreTypes, history
  <2>6. RecordInv'
    <3>1. RecordOf(a, q)'
      BY <1>3, <1>4, <1>7, <2>2 DEF RecordOf, Loaded, Turn
    <3> QED BY <1>2, <1>7, <2>1, <2>2, <2>3, <3>1, OthersRecords DEF Locked
  <2>7. UsedInv'
    BY <1>1, <1>2, <1>4, <1>7, <2>1, <2>3 DEF UsedInv, Used, history
  <2>8. NotedInv'
    BY <1>2, <1>7, <2>1, <2>2, <2>3, NotedKept DEF Locked, history
  <2>9. OneConversation'
    BY <1>1, <1>2 DEF OneConversation, history
  <2> QED BY <2>2, <2>4, <2>5, <2>6, <2>7, <2>8, <2>9, InvParts, PTL
<1>8. CASE Move(a, "generating") /\ UNCHANGED <<ops, messages>> /\ \E op \in seen[a] : op.written
  <2>1. old.written
    BY <1>3, <1>4, <1>8
  <2> QED BY <1>1, <1>4, <1>7, <1>8, <2>1 DEF StoreTypes
<1>9. CASE /\ Move(a, "generating") /\ ops' = Written(q.key) /\ ~(q.speaks /\ ~Writable(a, q))
           /\ IF q.speaks /\ \E op \in ops[q.key] : ~op.written
              THEN \E d \in in[a] : Say(d, q.key, "user") ELSE UNCHANGED messages
  <2> DEFINE new == [old EXCEPT !.written = TRUE]
  <2>1. /\ new \in Operations /\ new.written /\ new.reply = old.reply /\ new.conversation = old.conversation
    BY DEF Operations
  <2>2. {[op EXCEPT !.written = TRUE] : op \in ops[q.key]} = {new}
    BY <1>4
  <2> HIDE DEF new
  <2>3. /\ ops' = [ops EXCEPT ![q.key] = {new}]
    BY <1>9, <2>2 DEF Written
  <2>4. /\ ops'[q.key] = {new} /\ ops' \in [Keys -> SUBSET Operations]
        /\ \A k \in Keys : k # q.key => ops'[k] = ops[k]
    BY <1>1, <2>1, <2>3 DEF StoreTypes
  <2>5. CASE messages' = messages
    BY <1>7, <1>9, <2>1, <2>4, <2>5
  <2>6. CASE q.speaks /\ ~old.written /\ Say(c, q.key, "user")
    <3>1. old.conversation = c
      BY <1>4, <1>5, <1>9, <2>6 DEF Writable
    <3> QED BY <1>7, <1>9, <2>1, <2>4, <2>6, <3>1
  <2> QED BY <1>4, <1>5, <1>9, <2>5, <2>6
<1> QED BY <1>6, <1>8, <1>9 DEF AppendUser

(* The answer and the reply that is replayed, in one transaction. *)
LEMMA CommitStep ==
  ASSUME ResponsesInv, NEW a \in Attempts, NEW q \in asks[a], Commit(a, q)
  PROVE  ResponsesInv'
<1>1. /\ AttemptTypes /\ StoreTypes /\ AttemptInv /\ RecordInv /\ StoreInv /\ UsedInv /\ NotedInv /\ OneConversation
      /\ WarnedInv /\ q.key \in Keys /\ \A p \in asks[a] : p = q
  BY InvParts, AskTyped DEF AttemptInv
<1>2. at[a] = "committing" /\ UNCHANGED <<attempted, convs, history>>
  BY DEF Commit
<1>3. CASE End(a, q, "failed") /\ UNCHANGED <<ops, messages>>
  BY <1>2, <1>3, StopStep DEF Ended, store
<1>4. CASE /\ Writable(a, q) /\ End(a, q, "answered")
           /\ ops' = [ops EXCEPT ![q.key] = {[op EXCEPT !.reply = TRUE] : op \in @}]
           /\ \E c \in in[a] : Say(c, q.key, "assistant")
  <2>1. ops[q.key] # {} /\ \A op \in ops[q.key] : op.written /\ ~op.reply
    BY <1>1, <1>2 DEF RecordInv, RecordOf, Turn
  <2>2. PICK old \in Operations : ops[q.key] = {old}
    <3>1. PICK op : op \in ops[q.key]
      BY <2>1
    <3>2. op \in Operations /\ \A other \in ops[q.key] : other = op
      BY <1>1, <3>1 DEF StoreTypes, StoreInv, OpInv
    <3> QED BY <3>1, <3>2
  <2>3. PICK c \in Conversations : in[a] = {c} /\ old.conversation = c /\ Say(c, q.key, "assistant")
    BY <1>1, <1>4, <2>2 DEF Writable, AttemptTypes, AttemptInv
  <2> DEFINE new == [old EXCEPT !.reply = TRUE]
  <2>4. new \in Operations /\ new.written /\ new.reply /\ new.conversation = old.conversation /\ old.written /\ ~old.reply
    BY <2>1, <2>2 DEF Operations
  <2>5. {[op EXCEPT !.reply = TRUE] : op \in ops[q.key]} = {new}
    BY <2>2
  <2> HIDE DEF new
  <2>6. /\ ops'[q.key] = {new} /\ ops' \in [Keys -> SUBSET Operations]
        /\ \A k \in Keys : k # q.key => ops'[k] = ops[k]
    BY <1>1, <1>4, <2>4, <2>5 DEF StoreTypes
  <2>7. a \notin warned
    BY <1>1, <1>2 DEF WarnedInv, Ended
  <2>8. /\ AttemptTypes' /\ AttemptInv' /\ FlagInv' /\ WarnedInv'
        /\ at'[a] = "answered" /\ in'[a] = {} /\ asks' = asks
        /\ \A b \in Attempts : b # a => at'[b] = at[b] /\ in'[b] = in[b] /\ seen'[b] = seen[b]
    BY <1>2, <1>4, <2>7, EndAttempt DEF Ended, history
  <2>9. StoreInv' /\ messages' \in [Conversations -> Seq([key : Keys, role : {"user", "assistant"}])]
    BY <1>1, <1>2, <2>2, <2>3, <2>4, <2>6, RecordGoesOn
  <2>10. StoreTypes'
    BY <1>1, <1>2, <2>6, <2>9 DEF StoreTypes, history
  <2>11. RecordInv'
    <3>1. RecordOf(a, q)'
      BY <2>8 DEF RecordOf, Loaded, Turn
    <3> QED BY <1>2, <2>6, <2>8, <3>1, OthersRecords DEF Locked
  <2>12. UsedInv'
    BY <1>1, <1>2, <2>2, <2>4, <2>6, <2>8 DEF UsedInv, Used, history
  <2>13. NotedInv'
    BY <1>2, <2>6, <2>8, NotedKept DEF Locked, history
  <2>14. OneConversation'
    BY <1>1, <1>2 DEF OneConversation, history
  <2> QED BY <2>8, <2>9, <2>10, <2>11, <2>12, <2>13, <2>14, InvParts, PTL
<1> QED BY <1>3, <1>4 DEF Commit
----------------------------------------------------------------------------
(* An attempt enters: nothing is held, and nothing was cancelled. *)
LEMMA EnterStep ==
  ASSUME ResponsesInv, NEW a \in Attempts, NEW q \in Requests, Enter(a, q)
  PROVE  ResponsesInv'
<1>1. /\ AttemptTypes /\ StoreTypes /\ AttemptInv /\ RecordInv /\ StoreInv /\ UsedInv /\ NotedInv /\ OneConversation
      /\ WarnedInv /\ FlagInv /\ q.key \in Keys
  BY InvParts DEF Keys
<1>2. /\ at[a] = "idle" /\ at' = [at EXCEPT ![a] = "entered"]
      /\ asks' = [asks EXCEPT ![a] = {q}] /\ active' = [active EXCEPT ![q.key] = @ \cup {a}]
      /\ UNCHANGED <<seen, in, cancelled, opLock, convLock, attempted, ops, convs, messages,
                     created, orphans, warned, faults>>
  BY DEF Enter, store, history
<1>3. /\ at'[a] = "entered" /\ asks'[a] = {q}
      /\ \A b \in Attempts : b # a => at'[b] = at[b] /\ asks'[b] = asks[b]
  BY <1>1, <1>2 DEF AttemptTypes
<1>4. AttemptTypes'
  <2>1. Running' = Running \cup {a}
    BY <1>3 DEF Running, Ended
  <2>2. asks[a] = {} /\ a \notin Running
    BY <1>1, <1>2 DEF AttemptInv, Running
  <2>3. \A k \in Keys : active[k] = {b \in Running : \E p \in asks[b] : p.key = k}
    BY <1>1 DEF AttemptTypes
  <2>4. \A k \in Keys : active'[k] = IF k = q.key THEN active[k] \cup {a} ELSE active[k]
    BY <1>1, <1>2 DEF AttemptTypes
  <2>5. \A k \in Keys : active'[k] = {b \in Running' : \E p \in asks'[b] : p.key = k}
    <3> TAKE k \in Keys
    <3>1. \A b \in Running : b \in Attempts /\ b # a
      BY <2>2 DEF Running
    <3>2. \A b : b \in {z \in Running' : \E p \in asks'[z] : p.key = k} <=>
                   b \in {z \in Running : \E p \in asks[z] : p.key = k} \/ (b = a /\ q.key = k)
      BY <1>3, <2>1, <3>1
    <3> QED BY <2>3, <2>4, <3>2
  <2>6. /\ at' \in [Attempts -> Places] /\ asks' \in [Attempts -> SUBSET Requests]
        /\ active' \in [Keys -> SUBSET Attempts]
    BY <1>1, <1>2 DEF AttemptTypes, Places
  <2> QED BY <1>1, <1>2, <2>5, <2>6 DEF AttemptTypes
<1>5. StoreTypes' /\ StoreInv' /\ OneConversation'
  BY <1>1, <1>2, StoreInvKept DEF StoreTypes, OneConversation
<1>6. AttemptInv'
  <2> SUFFICES ASSUME NEW b \in Attempts
               PROVE  /\ at'[b] = "idle" => asks'[b] = {}
                      /\ \A p, r \in asks'[b] : p = r
                      /\ at'[b] \in Locked => \A p \in asks'[b] : opLock'[p.key] = {b}
                      /\ \A c \in in'[b] : convLock'[c] = {b}
                      /\ \A c, d \in in'[b] : c = d
                      /\ at'[b] \in Settled => in'[b] # {}
                      /\ at'[b] = "locating" => \A p \in asks'[b] : p.conversation \in Known
    BY DEF AttemptInv
  <2>1. CASE b = a
    BY <1>1, <1>2, <1>3, <2>1 DEF AttemptInv, Locked, Settled
  <2>2. CASE b # a
    BY <1>1, <1>2, <1>3, <2>2 DEF AttemptInv
  <2> QED BY <2>1, <2>2
<1>7. RecordInv'
  BY <1>1, <1>2, <1>3 DEF RecordInv, RecordOf, Loaded, Turn
<1>8. UsedInv'
  BY <1>1, <1>2 DEF UsedInv, Used
<1>9. NotedInv'
  <2>1. \A b \in Attempts : at[b] = "saved" => at'[b] = "saved" /\ asks'[b] = asks[b]
    BY <1>2, <1>3
  <2> QED BY <1>1, <1>2, <2>1 DEF NotedInv
<1>10. WarnedInv' /\ FlagInv'
  <2>1. a \notin warned
    BY <1>1, <1>2 DEF WarnedInv, Ended
  <2>2. WarnedInv'
    BY <1>1, <1>2, <1>3, <2>1 DEF WarnedInv, StoreTypes
  <2>3. \A k \in Keys : active[k] \subseteq active'[k]
    BY <1>1, <1>2 DEF AttemptTypes
  <2>4. FlagInv'
    BY <1>1, <1>2, <2>3 DEF FlagInv, AttemptTypes
  <2> QED BY <2>2, <2>4
<1> QED BY <1>4, <1>5, <1>6, <1>7, <1>8, <1>9, <1>10, InvParts, PTL

(* An attempt fails or is dropped: what it created and did not note is an *)
(* orphan.                                                                *)
LEMMA FailStep ==
  ASSUME ResponsesInv, NEW a \in Attempts, NEW q \in asks[a], Fail(a, q)
  PROVE  ResponsesInv'
<1>1. StoreTypes /\ AttemptTypes
  BY InvParts
<1>2. /\ at[a] \notin Ended \cup {"idle"} /\ faults < MaxFaults /\ faults' = faults + 1
      /\ End(a, q, "dropped") /\ orphans' = orphans \cup Unnoted({a})
      /\ UNCHANGED <<attempted, store, created, warned>>
  BY DEF Fail, Running
<1>3. faults' \in 0..MaxFaults
  BY <1>1, <1>2, ResponsesAssumption DEF StoreTypes
<1>4. Unnoted({a}) \subseteq Fresh
  BY <1>1 DEF Unnoted, StoreTypes
<1>5. orphans' \subseteq Fresh /\ orphans \subseteq orphans'
  BY <1>1, <1>2, <1>4 DEF StoreTypes
<1>6. at[a] = "saved" => \A p \in created : in[a] = {p[2]} => p[2] \in orphans'
  BY <1>2 DEF Unnoted
<1>7. "dropped" \in Ended \ {"answered"}
  BY DEF Ended
<1> QED BY <1>2, <1>3, <1>5, <1>6, <1>7, EndStep

(* The process exits: only the store remains, and an identity that only    *)
(* the process had noted is an orphan.                                     *)
LEMMA RestartStep ==
  ASSUME ResponsesInv, Restart
  PROVE  ResponsesInv'
<1>1. /\ AttemptTypes /\ StoreTypes /\ AttemptInv /\ StoreInv /\ UsedInv /\ NotedInv /\ OneConversation /\ WarnedInv
  BY InvParts
<1>2. /\ faults < MaxFaults /\ faults' = faults + 1
      /\ at' = [a \in Attempts |-> IF a \in Running THEN "dropped" ELSE at[a]]
      /\ seen' = [a \in Attempts |-> {}] /\ in' = [a \in Attempts |-> {}]
      /\ active' = [k \in Keys |-> {}] /\ cancelled' = {}
      /\ opLock' = [k \in Keys |-> {}] /\ convLock' = [c \in Conversations |-> {}]
      /\ attempted' = [k \in Keys |-> {}]
      /\ UNCHANGED <<asks, ops, convs, messages, created, warned>>
  BY DEF Restart, store
<1> DEFINE Forgotten == {c \in Conversations : \E k \in Keys : c \in attempted[k] /\ <<k, c>> \in created /\ ops[k] = {}}
<1>3. orphans' = orphans \cup Unnoted(Running) \cup Forgotten
  BY DEF Restart
<1>4. \A a \in Attempts : at'[a] \in Ended \cup {"idle"} /\ (at'[a] = "idle" => at[a] = "idle")
  BY <1>1, <1>2 DEF Running, Ended, AttemptTypes, Places
<1>5. AttemptTypes'
  <2>1. Running' = {}
    BY <1>4 DEF Running
  <2>2. at' \in [Attempts -> Places]
    BY <1>1, <1>2 DEF AttemptTypes, Places, Ended
  <2>3. \A k \in Keys : active'[k] = {a \in Running' : \E q \in asks'[a] : q.key = k}
    BY <1>2, <2>1
  <2> QED BY <1>1, <1>2, <2>2, <2>3 DEF AttemptTypes
<1>6. StoreTypes'
  <2>1. Unnoted(Running) \subseteq Fresh /\ Forgotten \subseteq Fresh
    BY <1>1 DEF Unnoted, StoreTypes
  <2>2. orphans' \subseteq Fresh
    BY <1>1, <1>3, <2>1 DEF StoreTypes
  <2>3. faults' \in 0..MaxFaults
    BY <1>1, <1>2, ResponsesAssumption DEF StoreTypes
  <2> QED BY <1>1, <1>2, <2>2, <2>3 DEF StoreTypes
<1>7. AttemptInv'
  BY <1>1, <1>2, <1>4 DEF AttemptInv, Locked, Settled, Ended
<1>8. RecordInv'
  BY <1>4, <1>2, <1>1 DEF RecordInv, RecordOf, Loaded, Turn, Ended, AttemptTypes
<1>9. StoreInv'
  BY <1>1, <1>2, StoreInvKept
<1>10. UsedInv'
  BY <1>1, <1>2 DEF UsedInv, Used
<1>11. NotedInv'
  <2>1. ASSUME NEW k \in Keys, ops[k] = {}, NEW p \in created, p[1] = k PROVE p[2] \in orphans'
    <3>1. p = <<k, p[2]>> /\ p[2] \in Conversations
      BY <1>1, <2>1 DEF StoreTypes, Conversations
    <3>2. CASE attempted[k] = {p[2]}
      <4>1. p[2] \in Forgotten
        BY <2>1, <3>1, <3>2
      <4> QED BY <1>3, <4>1
    <3>3. ASSUME NEW a \in Attempts, at[a] = "saved", in[a] = {p[2]} PROVE p[2] \in orphans'
      <4>1. a \in Running
        BY <3>3 DEF Running, Ended
      <4>2. p[2] \in Unnoted(Running)
        BY <2>1, <3>3, <4>1 DEF Unnoted
      <4> QED BY <1>3, <4>2
    <3>4. CASE p[2] \in orphans
      BY <1>3, <3>4
    <3>5. CASE p[2] \notin orphans
      <4>1. \/ attempted[k] = {p[2]}
            \/ \E a \in Attempts : at[a] = "saved" /\ in[a] = {p[2]} /\ \E q \in asks[a] : q.key = k
        BY <1>1, <2>1, <3>5 DEF NotedInv
      <4> QED BY <3>2, <3>3, <4>1
    <3> QED BY <3>4, <3>5
  <2> QED BY <1>2, <2>1 DEF NotedInv
<1>12. OneConversation'
  BY <1>1, <1>2, <1>3 DEF OneConversation
<1>13. FlagInv'
  BY <1>2 DEF FlagInv
<1>14. WarnedInv'
  <2> SUFFICES ASSUME NEW a \in warned PROVE at'[a] \in Ended \ {"answered"}
    BY <1>2 DEF WarnedInv
  <2>1. a \in Attempts
    BY <1>1 DEF StoreTypes
  <2>2. CASE at[a] \in Ended \ {"answered"}
    BY <1>2, <2>1, <2>2 DEF Running
  <2>3. CASE at[a] \notin Ended \cup {"idle", "committing"}
    BY <1>2, <2>1, <2>3 DEF Running, Ended
  <2> QED BY <1>1, <2>2, <2>3 DEF WarnedInv
<1> QED BY <1>5, <1>6, <1>7, <1>8, <1>9, <1>10, <1>11, <1>12, <1>13, <1>14, InvParts, PTL

(* A cancellation reaches the attempts inside, and nothing else. *)
LEMMA CancelStep ==
  ASSUME ResponsesInv, NEW k \in Keys, Cancel(k)
  PROVE  ResponsesInv'
<1>1. /\ AttemptTypes /\ StoreTypes /\ AttemptInv /\ RecordInv /\ StoreInv /\ UsedInv /\ NotedInv /\ OneConversation
      /\ WarnedInv /\ FlagInv
  BY InvParts
<1>2. /\ active[k] # {} /\ cancelled' = cancelled \cup {k}
      /\ warned' = warned \cup {a \in active[k] : at[a] # "committing"}
      /\ UNCHANGED <<at, asks, seen, in, active, opLock, convLock, attempted, ops, convs, messages,
                     created, orphans, faults>>
  BY DEF Cancel, attempt, store
<1>3. active[k] = {a \in Running : \E q \in asks[a] : q.key = k} /\ active[k] \subseteq Attempts
  BY <1>1 DEF AttemptTypes
<1>4. AttemptTypes' /\ StoreTypes'
  BY <1>1, <1>2, <1>3 DEF AttemptTypes, StoreTypes, Running
<1>5. AttemptInv' /\ RecordInv'
  BY <1>1, <1>2 DEF AttemptInv, RecordInv, RecordOf
<1>6. StoreInv' /\ UsedInv' /\ NotedInv' /\ OneConversation'
  BY <1>1, <1>2, StoreInvKept DEF UsedInv, Used, NotedInv, OneConversation
<1>7. FlagInv'
  BY <1>1, <1>2 DEF FlagInv
<1>8. WarnedInv'
  <2> SUFFICES ASSUME NEW a \in warned'
               PROVE  \/ at[a] \in Ended \ {"answered"}
                      \/ /\ at[a] \notin Ended \cup {"idle", "committing"}
                         /\ \A q \in asks[a] : q.key \in cancelled'
    BY <1>2 DEF WarnedInv
  <2>1. CASE a \in warned
    BY <1>1, <1>2, <2>1 DEF WarnedInv
  <2>2. CASE a \in active[k] /\ at[a] # "committing"
    <3>1. at[a] \notin Ended \cup {"idle"} /\ a \in Attempts /\ \E q \in asks[a] : q.key = k
      BY <1>3, <2>2 DEF Running
    <3>2. \A q \in asks[a] : q.key = k
      BY <1>1, <3>1 DEF AttemptInv
    <3> QED BY <1>2, <2>2, <3>1, <3>2
  <2> QED BY <1>2, <2>1, <2>2
<1> QED BY <1>4, <1>5, <1>6, <1>7, <1>8, InvParts, PTL

(* A conversation is deleted: what was said elsewhere stays. *)
LEMMA DeleteStep ==
  ASSUME ResponsesInv, NEW c \in Conversations, Delete(c)
  PROVE  ResponsesInv'
<1>1. /\ AttemptTypes /\ StoreTypes /\ AttemptInv /\ RecordInv /\ StoreInv /\ UsedInv /\ NotedInv /\ OneConversation
      /\ WarnedInv /\ FlagInv
  BY InvParts
<1>2. /\ convs' = convs \ {c} /\ messages' = [messages EXCEPT ![c] = <<>>]
      /\ UNCHANGED <<at, asks, seen, in, active, cancelled, opLock, convLock, attempted, ops,
                     created, orphans, warned, faults>>
  BY DEF Delete, attempt, locks, history
<1>3. AttemptTypes' /\ AttemptInv' /\ RecordInv' /\ NotedInv' /\ OneConversation' /\ WarnedInv' /\ FlagInv'
  <2>1. AttemptTypes' /\ AttemptInv'
    BY <1>1, <1>2 DEF AttemptTypes, Running, AttemptInv
  <2>2. RecordInv'
    BY <1>1, <1>2 DEF RecordInv, RecordOf
  <2>3. NotedInv'
    <3>1. NotedInv /\ UNCHANGED <<attempted, ops, created, orphans, at, in, asks>>
      BY <1>1, <1>2
    <3> QED BY <3>1 DEF NotedInv
  <2>4. OneConversation' /\ WarnedInv' /\ FlagInv'
    BY <1>1, <1>2 DEF OneConversation, WarnedInv, FlagInv
  <2> QED BY <2>1, <2>2, <2>3, <2>4
<1>4. StoreTypes'
  <2>1. messages' \in [Conversations -> Seq([key : Keys, role : {"user", "assistant"}])]
    <3> DEFINE M == [key : Keys, role : {"user", "assistant"}]
    <3>1. messages \in [Conversations -> Seq(M)]
      BY <1>1 DEF StoreTypes
    <3> HIDE DEF M
    <3>2. <<>> \in Seq(M)
      OBVIOUS
    <3>3. messages' \in [Conversations -> Seq(M)]
      BY <1>2, <3>1, <3>2
    <3> QED BY <3>3 DEF M
  <2> QED BY <1>1, <1>2, <2>1 DEF StoreTypes
<1>5. UsedInv'
  BY <1>1, <1>2 DEF UsedInv, Used
<1>6. /\ messages'[c] = <<>> /\ \A d \in Conversations : d # c => messages'[d] = messages[d]
  BY <1>1, <1>2 DEF StoreTypes
<1>7. ASSUME NEW k \in Keys, NEW role \in {"user", "assistant"}, NEW p
      PROVE  p \in Said(k, role)' <=> p \in Said(k, role) /\ p[1] # c
  <2>1. p \in Said(k, role)' <=>
          \E d \in Conversations : p \in {d} \X {i \in DOMAIN messages'[d] : messages'[d][i] = Message(k, role)}
    BY DEF Said
  <2>2. p \in Said(k, role) <=>
          \E d \in Conversations : p \in {d} \X {i \in DOMAIN messages[d] : messages[d][i] = Message(k, role)}
    BY DEF Said
  <2>3. \A d \in Conversations : d # c =>
          {i \in DOMAIN messages'[d] : messages'[d][i] = Message(k, role)} =
          {i \in DOMAIN messages[d] : messages[d][i] = Message(k, role)}
    BY <1>6
  <2>4. {i \in DOMAIN messages'[c] : messages'[c][i] = Message(k, role)} = {}
    BY <1>6
  <2>5. \A d, S : p \in {d} \X S => p[1] = d
    OBVIOUS
  <2>6. ASSUME p \in Said(k, role)' PROVE p \in Said(k, role) /\ p[1] # c
    <3>1. PICK d \in Conversations : p \in {d} \X {i \in DOMAIN messages'[d] : messages'[d][i] = Message(k, role)}
      BY <2>1, <2>6
    <3>2. d # c
      BY <2>4, <3>1
    <3> QED BY <2>2, <2>3, <2>5, <3>1, <3>2
  <2>7. ASSUME p \in Said(k, role), p[1] # c PROVE p \in Said(k, role)'
    <3>1. PICK d \in Conversations : p \in {d} \X {i \in DOMAIN messages[d] : messages[d][i] = Message(k, role)}
      BY <2>2, <2>7
    <3>2. d # c
      BY <2>5, <2>7, <3>1
    <3> QED BY <2>1, <2>3, <3>1, <3>2
  <2> QED BY <2>6, <2>7
<1>8. StoreInv'
  <2>1. OpInv'
    BY <1>1, <1>2 DEF StoreInv, OpInv
  <2>2. SpeechInv'
    BY <1>1, <1>2, <1>7 DEF StoreInv, SpeechInv
  <2>3. SpokenOnce'
    BY <1>1, <1>7 DEF StoreInv, SpokenOnce
  <2>4. ASSUME NEW k \in Keys, NEW op \in ops[k], op.conversation \in convs, op.conversation # c
        PROVE  op.reply <=> Said(k, "assistant")' # {}
    <3>1. \A p \in Said(k, "assistant") : p[1] = op.conversation
      BY <1>1, <2>4 DEF StoreInv, SpeechInv, OpInv
    <3>2. Said(k, "assistant")' = Said(k, "assistant")
      BY <1>7, <2>4, <3>1
    <3>3. op \in Operations
      BY <1>1, <2>4 DEF StoreTypes
    <3> QED BY <1>1, <2>4, <3>2, <3>3 DEF StoreInv, ReplyHasMessage
  <2>5. ReplyHasMessage'
    BY <1>2, <2>4 DEF ReplyHasMessage
  <2> QED BY <2>1, <2>2, <2>3, <2>5 DEF StoreInv
<1> QED BY <1>3, <1>4, <1>5, <1>8, InvParts, PTL
----------------------------------------------------------------------------
LEMMA ResponsesInvInit == Init => ResponsesInv
<1> SUFFICES ASSUME Init PROVE ResponsesInv
  OBVIOUS
<1>1. AttemptTypes
  <2>1. Running = {}
    BY DEF Init, Running
  <2> QED BY <2>1 DEF Init, AttemptTypes, Places
<1>2. StoreTypes
  <2> DEFINE M == [key : Keys, role : {"user", "assistant"}]
  <2>1. messages \in [Conversations -> Seq(M)]
    <3> HIDE DEF M
    <3>1. <<>> \in Seq(M)
      OBVIOUS
    <3> QED BY <3>1 DEF Init
  <2> QED BY <2>1, ResponsesAssumption DEF Init, StoreTypes, Conversations
<1>3. AttemptInv /\ RecordInv /\ NotedInv
  BY DEF Init, AttemptInv, RecordInv, NotedInv, Locked, Settled
<1>4. \A k \in Keys, role \in {"user", "assistant"} : Said(k, role) = {}
  <2> TAKE k \in Keys, role \in {"user", "assistant"}
  <2>1. \A c \in Conversations : {i \in DOMAIN messages[c] : messages[c][i] = Message(k, role)} = {}
    BY DEF Init
  <2>2. \A c \in Conversations : {c} \X {i \in DOMAIN messages[c] : messages[c][i] = Message(k, role)} = {}
    BY <2>1
  <2> QED BY <2>2 DEF Said
<1>5. StoreInv
  BY <1>4 DEF Init, StoreInv, OpInv, SpeechInv, SpokenOnce, ReplyHasMessage
<1>6. UsedInv /\ WarnedInv /\ OneConversation /\ FlagInv
  BY DEF Init, UsedInv, Used, WarnedInv, OneConversation, FlagInv
<1> QED BY <1>1, <1>2, <1>3, <1>5, <1>6, InvParts

LEMMA ResponsesInvNext == ResponsesInv /\ [Next]_vars => ResponsesInv'
<1> SUFFICES ASSUME ResponsesInv, [Next]_vars PROVE ResponsesInv'
  OBVIOUS
<1>1. ASSUME NEW a \in Attempts, NEW q \in asks[a], Step(a, q) PROVE ResponsesInv'
  <2>1. CASE Queue(a, q)
    BY <2>1, CheckedStep DEF Queue
  <2>2. CASE LockOperation(a, q)
    BY <2>2, LockOperationStep
  <2>3. CASE Load(a, q)
    BY <2>3, LoadStep
  <2>4. CASE Locate(a, q)
    BY <2>4, LocateStep
  <2>5. CASE Resolve(a, q)
    BY <2>5, CheckedStep DEF Resolve
  <2>6. CASE Join(a, q)
    BY <2>6, JoinStep
  <2>7. CASE Reuse(a, q)
    BY <2>7, ReuseStep
  <2>8. CASE Create(a, q)
    BY <2>8, CreateStep
  <2>9. CASE Note(a, q)
    BY <2>9, NoteStep
  <2>10. CASE Begin(a, q)
    BY <2>10, BeginStep
  <2>11. CASE AppendUser(a, q)
    BY <2>11, AppendUserStep
  <2>12. CASE Generated(a, q)
    BY <2>12, CheckedStep DEF Generated
  <2>13. CASE Commit(a, q)
    BY <2>13, CommitStep
  <2> QED BY <1>1, <2>1, <2>2, <2>3, <2>4, <2>5, <2>6, <2>7, <2>8, <2>9, <2>10, <2>11, <2>12, <2>13 DEF Step
<1>2. ASSUME NEW a \in Attempts, NEW q \in asks[a], Fail(a, q) PROVE ResponsesInv'
  BY <1>2, FailStep
<1>3. ASSUME NEW a \in Attempts, NEW q \in Requests, Enter(a, q) PROVE ResponsesInv'
  BY <1>3, EnterStep
<1>4. ASSUME NEW k \in Keys, Cancel(k) PROVE ResponsesInv'
  BY <1>4, CancelStep
<1>5. ASSUME NEW c \in Conversations, Delete(c) PROVE ResponsesInv'
  BY <1>5, DeleteStep
<1>6. CASE Restart
  BY <1>6, RestartStep
<1>7. CASE UNCHANGED vars
  <2>1. UNCHANGED <<at, asks, seen, in, active, cancelled, opLock, convLock, attempted, ops, convs, messages,
                    created, orphans, warned, faults>>
    BY <1>7 DEF vars, attempt, locks, store, history
  <2>2. /\ AttemptTypes /\ StoreTypes /\ AttemptInv /\ RecordInv /\ StoreInv /\ UsedInv /\ NotedInv /\ WarnedInv
        /\ OneConversation /\ FlagInv
    BY InvParts
  <2>3. AttemptTypes'
    BY <2>1, <2>2 DEF AttemptTypes, Running
  <2>4. StoreTypes'
    BY <2>1, <2>2 DEF StoreTypes
  <2>5. AttemptInv'
    BY <2>1, <2>2 DEF AttemptInv
  <2>6. RecordInv'
    BY <2>1, <2>2 DEF RecordInv, RecordOf
  <2>7. StoreInv' /\ UsedInv'
    BY <2>1, <2>2, StoreInvKept DEF UsedInv, Used
  <2>8. NotedInv'
    BY <2>1, <2>2 DEF NotedInv
  <2>9. WarnedInv' /\ OneConversation' /\ FlagInv'
    BY <2>1, <2>2 DEF WarnedInv, OneConversation, FlagInv
  <2> QED BY <2>3, <2>4, <2>5, <2>6, <2>7, <2>8, <2>9, InvParts, PTL
<1> QED BY <1>1, <1>2, <1>3, <1>4, <1>5, <1>6, <1>7 DEF Next, Work

LEMMA ResponsesInvHolds == Spec => []ResponsesInv
BY ResponsesInvInit, ResponsesInvNext, PTL DEF Spec

(* Whatever attempts at a request race, are dropped at an await, are       *)
(* cancelled, or are lost with the process: the request speaks once and is *)
(* answered once, in one conversation and in this order; its reply is      *)
(* stored exactly when the answer is in the conversation; and only an      *)
(* attempt that ends between two statements leaves a conversation behind   *)
(* (MomoApiService::execute and what it calls).                            *)
THEOREM AnsweredOnceHolds == Spec => []AnsweredOnce
<1>1. ResponsesInv => AnsweredOnce
  BY DEF ResponsesInv, AnsweredOnce
<1> QED BY <1>1, ResponsesInvHolds, PTL

(* A cancellation reaches exactly the attempts it found: none of them      *)
(* answers that had not passed its last check, and the flag does not       *)
(* outlive them (cancel_operation, OperationGuard::drop, ensure_active).   *)
THEOREM CancelExactHolds == Spec => []CancelExact
<1>1. ResponsesInv => CancelExact
  BY DEF ResponsesInv, CancelExact, WarnedInv, Ended
<1> QED BY <1>1, ResponsesInvHolds, PTL
----------------------------------------------------------------------------
(* Who changes a record, and who ends with a replay. *)
LEMMA ReplyStaysStep ==
  ASSUME ResponsesInv, NEW a \in Attempts, NEW q \in asks[a], Step(a, q)
  PROVE  ReplyStays
<1>1. /\ AttemptTypes /\ StoreTypes /\ AttemptInv /\ RecordInv /\ StoreInv
      /\ q.key \in Keys /\ \A p \in asks[a] : p = q
  BY InvParts, AskTyped DEF AttemptInv
<1>2. ASSUME NEW k \in Keys, NEW op \in ops[k], op.reply PROVE op \in ops'[k]
  <2>1. CASE ops' = ops
    BY <2>1
  <2>2. CASE Begin(a, q)
    BY <1>1, <1>2, <2>2 DEF Begin, StoreTypes
  <2>3. ASSUME at[a] \in {"begun", "committing"} PROVE k = q.key => FALSE
    BY <1>1, <1>2, <2>3 DEF RecordInv, RecordOf, Turn
  <2>4. CASE AppendUser(a, q)
    <3>1. ops' = ops \/ ops' = Written(q.key)
      BY <2>4 DEF AppendUser
    <3> QED BY <1>1, <1>2, <2>3, <2>4, <3>1 DEF AppendUser, Written, StoreTypes
  <2>5. CASE Commit(a, q)
    BY <1>1, <1>2, <2>3, <2>5 DEF Commit, StoreTypes
  <2> QED
    BY <2>1, <2>2, <2>4, <2>5
    DEF Step, Queue, LockOperation, Load, Locate, Resolve, Join, Reuse, Create, Note, Generated, store
<1>3. ASSUME NEW b \in Attempts, at'[b] = "replayed", at[b] # "replayed", NEW p \in asks[b],
             NEW op \in ops[p.key]
      PROVE  op.content = p.content
  <2>1. CASE Load(a, q)
    <3>1. \A answer : End(a, q, answer) => at' = [at EXCEPT ![a] = answer]
      BY DEF End
    <3>2. b = a
      BY <1>1, <1>3, <2>1, <3>1 DEF Load, AttemptTypes
    <3>3. p = q
      BY <1>1, <3>2
    <3>4. \E other \in ops[q.key] : other.content = q.content
      BY <1>1, <1>3, <2>1, <3>1, <3>2 DEF Load, AttemptTypes
    <3> QED BY <1>1, <3>3, <3>4 DEF StoreInv, OpInv
  <2>2. CASE ~Load(a, q)
    <3>1. \E place \in (Places \ {"replayed"}) : at' = [at EXCEPT ![a] = place]
      BY <2>2
      DEF Step, Queue, LockOperation, Locate, Resolve, Join, Reuse, Create, Note, Begin, AppendUser, Generated,
          Commit, Checked, LockConversation, Move, End, Places, Ended
    <3> QED BY <1>1, <1>3, <3>1 DEF AttemptTypes
  <2> QED BY <2>1, <2>2
<1> QED BY <1>2, <1>3 DEF ReplyStays

(* Who writes into a conversation: the attempt that holds its lock. *)
LEMMA TurnUnbrokenStep ==
  ASSUME ResponsesInv, NEW a \in Attempts, NEW q \in asks[a], Step(a, q)
  PROVE  TurnUnbroken
<1>1. AttemptTypes /\ StoreTypes /\ AttemptInv
  BY InvParts
<1> SUFFICES ASSUME NEW b \in Attempts, NEW c \in Conversations, at[b] \in Turn, c \in in[b],
                    messages'[c] # messages[c]
             PROVE  at'[b] # at[b]
  BY DEF TurnUnbroken, Turn
<1>2. ASSUME NEW d \in in[a], NEW role, Say(d, q.key, role) PROVE b = a
  <2>1. d = c
    BY <1>1, <1>2 DEF Say, StoreTypes
  <2> QED BY <1>1, <2>1 DEF AttemptInv
<1>3. CASE AppendUser(a, q)
  <2>1. b = a
    BY <1>2, <1>3 DEF AppendUser
  <2> QED BY <1>3, <2>1 DEF AppendUser, Turn
<1>4. CASE Commit(a, q)
  <2>1. b = a
    BY <1>2, <1>4 DEF Commit
  <2>2. at'[a] = "answered" \/ at'[a] = "failed"
    BY <1>1, <1>4 DEF Commit, End, AttemptTypes
  <2> QED BY <2>1, <2>2 DEF Turn
<1>5. CASE messages' = messages
  BY <1>5
<1> QED
  BY <1>3, <1>4, <1>5
  DEF Step, Queue, LockOperation, Load, Locate, Resolve, Join, Reuse, Create, Note, Begin, Generated, store

(* A stored reply stays and is replayed only to who asked for it, and from *)
(* its user message to its answer no other attempt writes into the         *)
(* conversation of an attempt (the operation's lock, the conversation's    *)
(* lock, commit_response_completion).                                      *)
THEOREM KeepsTurnsHold == Spec => TurnsKept
<1>1. ResponsesInv /\ [Next]_vars => [KeepsTurns]_vars
  <2> SUFFICES ASSUME ResponsesInv, Next PROVE KeepsTurns
    OBVIOUS
  <2>1. AttemptTypes /\ StoreTypes
    BY InvParts
  <2>2. ASSUME NEW a \in Attempts, NEW q \in asks[a], Step(a, q) PROVE KeepsTurns
    BY <2>2, ReplyStaysStep, TurnUnbrokenStep DEF KeepsTurns
  <2>3. ASSUME ops' = ops, messages' = messages, \A b \in Attempts : at'[b] \in {at[b], "dropped", "entered"}
        PROVE  KeepsTurns
    BY <2>3 DEF KeepsTurns, ReplyStays, TurnUnbroken
  <2>4. ASSUME NEW a \in Attempts, NEW q \in asks[a], Fail(a, q) PROVE KeepsTurns
    BY <2>1, <2>3, <2>4 DEF Fail, End, store, AttemptTypes
  <2>5. ASSUME NEW a \in Attempts, NEW q \in Requests, Enter(a, q) PROVE KeepsTurns
    BY <2>1, <2>3, <2>5 DEF Enter, store, AttemptTypes
  <2>6. CASE Restart
    BY <2>1, <2>3, <2>6 DEF Restart, store, AttemptTypes
  <2>7. ASSUME NEW k \in Keys, Cancel(k) PROVE KeepsTurns
    BY <2>3, <2>7 DEF Cancel, store, attempt
  <2>8. ASSUME NEW c \in Conversations, Delete(c) PROVE KeepsTurns
    <3>1. /\ ops' = ops /\ at' = at /\ convs' = convs \ {c}
          /\ \A d \in Conversations : d # c => messages'[d] = messages[d]
      BY <2>1, <2>8 DEF Delete, attempt, StoreTypes
    <3>2. ReplyStays
      BY <3>1 DEF ReplyStays
    <3>3. TurnUnbroken
      BY <3>1 DEF TurnUnbroken
    <3> QED BY <3>2, <3>3 DEF KeepsTurns
  <2> QED BY <2>2, <2>4, <2>5, <2>6, <2>7, <2>8 DEF Next, Work
<1> QED BY <1>1, ResponsesInvHolds, PTL DEF Spec, TurnsKept
=============================================================================
