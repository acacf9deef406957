--------------------------- MODULE RecordsProofs ----------------------------
(***************************************************************************)
(* Proofs about three parts that keep records: Controls, for any attempts, *)
(* requests, titles and bounds; LocalRecords with PortableImport, for any  *)
(* identities, clients, Spaces, containers and bounds; and the clocks of   *)
(* MemoryDocuments, for any documents, contexts, references and periods.   *)
(*                                                                         *)
(* That a claim is owned by one attempt, and released, rests on facts      *)
(* these properties do not state: an attempt holds the lock of what it     *)
(* names from its first look at the record to its end, what it asks never  *)
(* changes, and a record is kept under the key of its request.             *)
(*                                                                         *)
(* That no message is lost rests on the schema: a message has its          *)
(* conversation, so a payload is enough to give it back, and on what an    *)
(* import carries from its reads to its writes.                            *)
(*                                                                         *)
(* That retention is shared rests on the clocks never running ahead of the *)
(* turns their users really spent.                                         *)
(***************************************************************************)
EXTENDS Controls, PortableImport, MemoryDocuments, TLAPS

Locking == {"locked", "inspected"} \cup Owning

(* An attempt asks one thing, from its submission on. *)
AsksInv ==
  \A a \in Attempts :
    /\ \A p, q \in asks[a] : p = q
    /\ at[a] = "idle" <=> asks[a] = {}

(* The lock is held from the first look at the record to the end. *)
LockInv ==
  \A a \in Attempts : at[a] \in Locking => \A q \in asks[a] : lock[q.conversation] = {a}

(* A record is kept under the key of its request. *)
KeyInv == \A k \in Keys : \A op \in ops[k] : op.request.key = k

ControlInv == TypeOK /\ AsksInv /\ LockInv /\ KeyInv /\ ClaimOwned /\ NoStrandedClaim
----------------------------------------------------------------------------
(* The key, conversation and character of a request are in their sets. *)
LEMMA RequestTyped ==
  ASSUME NEW q \in Requests
  PROVE  q.key \in Keys /\ q.conversation \in Conversations /\ q.character \in Characters
BY DEF Keys, Conversations, Characters

(* A claim is not a response, and both are records of the table. *)
LEMMA RecordTyped ==
  ASSUME NEW q \in Requests
  PROVE  /\ Claim(q) \in [request : Requests, done : BOOLEAN]
         /\ Reply(q) \in [request : Requests, done : BOOLEAN]
         /\ ~Claim(q).done /\ Reply(q).done
         /\ Claim(q).request = q /\ Reply(q).request = q
BY DEF Claim, Reply

(* Conversations begin with a row each, and nothing else has happened. *)
LEMMA ControlInvInit == Init => ControlInv
<1> SUFFICES ASSUME Init PROVE ControlInv
  OBVIOUS
<1> DEFINE first == CHOOSE r \in Row : TRUE
<1>1. ASSUME NEW c \in Conversations PROVE first \in Row
  <2>1. PICK q \in Requests, t \in Titles : TRUE
    BY ControlsAssumption DEF Conversations
  <2>2. [character |-> q.character, title |-> t] \in Row
    BY RequestTyped DEF Row
  <2> QED BY <2>2
<1>2. rows \in [Conversations -> SUBSET Row] /\ \A c \in Conversations : \A x, y \in rows[c] : x = y
  BY <1>1 DEF Init
<1>3. TypeOK
  BY <1>2, ControlsAssumption DEF Init, TypeOK, Places
<1> QED BY <1>3 DEF Init, ControlInv, AsksInv, LockInv, KeyInv, ClaimOwned, NoStrandedClaim, Locking, Owning

(* Every step keeps the types and the single record per key and row. *)
LEMMA TypeStep ==
  ASSUME ControlInv, [Next]_vars
  PROVE  TypeOK'
<1> USE DEF ControlInv
<1> USE ControlsAssumption
<1>1. CASE UNCHANGED vars
  BY <1>1 DEF vars, attempts, store, bounds, TypeOK, Row
<1>2. ASSUME NEW a \in Attempts, NEW q \in asks[a], Step(a, q)
      PROVE  TypeOK'
  <2>0. q \in Requests
    BY DEF TypeOK
  <2>1. CASE Lock(a, q)
    BY <2>0, <2>1, RequestTyped DEF Lock, TypeOK, Places, store, bounds, Row
  <2>2. CASE Inspect(a, q)
    BY <2>0, <2>2, RequestTyped DEF Inspect, Move, End, TypeOK, Places, Ended, store, bounds, Row
  <2>3. CASE Begin(a, q)
    BY <2>0, <2>3, RequestTyped, RecordTyped DEF Begin, Move, End, TypeOK, Places, Owning, Ended, bounds, Row
  <2>4. CASE Found(a, q)
    BY <2>0, <2>4, RequestTyped DEF Found, TypeOK, Places, Owning, store, bounds, Row
  <2>5. CASE Missing(a, q)
    BY <2>0, <2>5, RequestTyped DEF Missing, Move, TypeOK, Places, Owning, store, bounds, Row
  <2>6. CASE Delete(a, q)
    BY <2>0, <2>6, RequestTyped DEF Delete, Erase, Move, TypeOK, Places, Owning, bounds, Row
  <2>7. CASE LookForTombstone(a, q)
    BY <2>0, <2>7, RequestTyped DEF LookForTombstone, Move, TypeOK, Places, Owning, store, bounds, Row
  <2>8. CASE Upsert(a, q)
    <3> DEFINE saved == {[r EXCEPT !.character = q.character] : r \in read[a]}
    <3>1. saved \subseteq Row /\ \A x, y \in saved : x = y
      <4>1. \A r \in Row : [r EXCEPT !.character = q.character] \in Row
        BY <2>0, RequestTyped DEF Row
      <4> QED BY <4>1 DEF TypeOK
    <3>2. rows' \in [Conversations -> SUBSET Row] /\ \A c \in Conversations : \A x, y \in rows'[c] : x = y
      BY <2>0, <2>8, <3>1, RequestTyped DEF Upsert, TypeOK
    <3> QED BY <2>0, <2>8, <3>2, RequestTyped DEF Upsert, Move, TypeOK, Places, Owning
  <2>9. CASE Complete(a, q)
    BY <2>0, <2>9, RequestTyped, RecordTyped DEF Complete, End, TypeOK, Places, Ended, bounds, Row
  <2>10. CASE Abandon(a, q)
    BY <2>0, <2>10, RequestTyped DEF Abandon, Unclaimed, End, TypeOK, Places, Ended, bounds, Row
  <2> QED BY <1>2, <2>1, <2>2, <2>3, <2>4, <2>5, <2>6, <2>7, <2>8, <2>9, <2>10 DEF Step
<1>3. ASSUME NEW a \in Attempts, NEW q \in asks[a], Fail(a, q)
      PROVE  TypeOK'
  <2>0. q \in Requests
    BY DEF TypeOK
  <2> QED BY <1>3, <2>0, RequestTyped DEF Fail, End, Move, TypeOK, Places, Owning, Ended, store, Row
<1>4. ASSUME NEW a \in Attempts, NEW q \in Requests, Submit(a, q)
      PROVE  TypeOK'
  BY <1>4 DEF Submit, TypeOK, Places, store, bounds, Row
<1>5. ASSUME NEW c \in Conversations, LocalDelete(c)
      PROVE  TypeOK'
  BY <1>5 DEF LocalDelete, Erase, attempts, bounds, TypeOK, Row
<1>6. ASSUME NEW c \in Conversations, NEW title \in Titles, LocalRename(c, title)
      PROVE  TypeOK'
  <2> DEFINE renamed == {[r EXCEPT !.title = title] : r \in rows[c]}
  <2>1. renamed \subseteq Row /\ \A x, y \in renamed : x = y
    <3>1. \A r \in Row : [r EXCEPT !.title = title] \in Row
      BY <1>6 DEF Row
    <3> QED BY <3>1 DEF TypeOK
  <2>2. rows' \in [Conversations -> SUBSET Row] /\ \A d \in Conversations : \A x, y \in rows'[d] : x = y
    BY <1>6, <2>1 DEF LocalRename, TypeOK
  <2> QED BY <1>6, <2>2 DEF LocalRename, attempts, TypeOK
<1>7. CASE Restart
  BY <1>7 DEF Restart, Released, Unclaimed, TypeOK, Places, Ended, Row
<1> QED BY <1>1, <1>2, <1>3, <1>4, <1>5, <1>6, <1>7 DEF Next, Work
----------------------------------------------------------------------------
(* An attempt that asks something asks it alone, and it holds the lock of  *)
(* its conversation as long as it looks, owns or acts.                     *)
LEMMA LockStep ==
  ASSUME ControlInv, [Next]_vars
  PROVE  AsksInv' /\ LockInv'
<1> USE DEF ControlInv
<1>0. TypeOK'
  BY TypeStep
<1>1. CASE UNCHANGED vars
  BY <1>1 DEF vars, attempts, AsksInv, LockInv
<1>2. ASSUME NEW a \in Attempts, NEW q \in asks[a], Step(a, q) \/ Fail(a, q)
      PROVE  AsksInv' /\ LockInv'
  <2>0. q \in Requests /\ at[a] \in Places
    BY DEF TypeOK
  <2>1. CASE Lock(a, q)
    <3>1. \A b \in Attempts \ {a} : at[b] \in Locking => \A p \in asks[b] : p.conversation # q.conversation
      BY <2>0, <2>1, RequestTyped DEF Lock, LockInv, TypeOK
    <3> QED BY <2>0, <2>1, <3>1, RequestTyped DEF Lock, TypeOK, AsksInv, LockInv, Locking
  <2>2. CASE UNCHANGED <<asks, lock>> /\ at[a] \in Locking /\ \E place \in Locking : at' = [at EXCEPT ![a] = place]
    BY <2>0, <2>2 DEF TypeOK, AsksInv, LockInv, Locking, Owning
  <2>3. CASE at[a] \in Locking /\ \E answer \in Ended : End(a, q, answer)
    <3>1. \A b \in Attempts \ {a} : at[b] \in Locking => \A p \in asks[b] : p.conversation # q.conversation
      BY <2>0, <2>3, RequestTyped DEF LockInv, TypeOK
    <3> QED BY <2>0, <2>3, <3>1, RequestTyped DEF End, TypeOK, AsksInv, LockInv, Locking, Owning, Ended
  <2> QED
    BY <1>2, <2>1, <2>2, <2>3
    DEF Step, Fail, Inspect, Begin, Found, Missing, Delete, LookForTombstone, Upsert, Complete,
        Abandon, Move, Locking, Owning, Ended
<1>3. ASSUME NEW a \in Attempts, NEW q \in Requests, Submit(a, q)
      PROVE  AsksInv' /\ LockInv'
  <2>1. lock' = lock /\ at'[a] = "waiting" /\ asks'[a] = {q}
    BY <1>3 DEF Submit, TypeOK
  <2>2. \A b \in Attempts \ {a} : at'[b] = at[b] /\ asks'[b] = asks[b]
    BY <1>3 DEF Submit, TypeOK
  <2>3. "waiting" \notin Locking
    BY DEF Locking, Owning
  <2> QED BY <2>1, <2>2, <2>3 DEF AsksInv, LockInv
<1>4. ASSUME NEW c \in Conversations, LocalDelete(c) \/ \E title \in Titles : LocalRename(c, title)
      PROVE  AsksInv' /\ LockInv'
  BY <1>4 DEF LocalDelete, LocalRename, attempts, AsksInv, LockInv
<1>5. CASE Restart
  BY <1>5 DEF Restart, TypeOK, AsksInv, LockInv, Locking, Owning, Ended
<1> QED BY <1>1, <1>2, <1>3, <1>4, <1>5 DEF Next, Work
----------------------------------------------------------------------------
(* No statement moves a record from one key to another. *)
LEMMA KeyStep ==
  ASSUME ControlInv, [Next]_vars
  PROVE  KeyInv'
<1> USE DEF ControlInv
<1>1. CASE ops' = ops
  BY <1>1 DEF KeyInv
<1>2. ASSUME NEW a \in Attempts, NEW q \in asks[a], Step(a, q) \/ Fail(a, q), ops' # ops
      PROVE  KeyInv'
  <2>0. q \in Requests
    BY DEF TypeOK
  <2>1. CASE Begin(a, q)
    BY <1>2, <2>0, <2>1, RecordTyped DEF Begin, TypeOK, KeyInv
  <2>2. CASE Complete(a, q)
    BY <2>0, <2>2 DEF Complete, Reply, TypeOK, KeyInv
  <2>3. CASE Abandon(a, q)
    BY <2>0, <2>3 DEF Abandon, Unclaimed, TypeOK, KeyInv
  <2> QED
    BY <1>2, <2>1, <2>2, <2>3
    DEF Step, Fail, Lock, Inspect, Found, Missing, Delete, LookForTombstone, Upsert, Erase, store
<1>3. CASE Restart
  BY <1>3 DEF Restart, Released, Unclaimed, TypeOK, KeyInv
<1> QED
  BY <1>1, <1>2, <1>3
  DEF Next, Work, Submit, LocalDelete, LocalRename, Erase, store, vars
----------------------------------------------------------------------------
(* What a step of one attempt does to the others: none of those that own a *)
(* claim loses it or finds its key taken; it owns only what it claims.     *)
LEMMA OthersKeep ==
  ASSUME ControlInv, NEW a \in Attempts, NEW q \in asks[a], Step(a, q) \/ Fail(a, q)
  PROVE  /\ asks' = asks /\ \A b \in Attempts \ {a} : at'[b] = at[b]
         /\ \A b \in Attempts \ {a} : at[b] \in Owning =>
              \A p \in asks[b] : /\ ops'[p.key] = ops[p.key]
                                 /\ at'[a] \in Owning => p.key # q.key
         /\ at'[a] \in Owning => ops'[q.key] = {Claim(q)}
<1> USE DEF ControlInv
<1>0. q \in Requests /\ q.key \in Keys /\ at[a] \in Places
  BY RequestTyped DEF TypeOK
<1>1. \A b \in Attempts \ {a} : at[b] \in Owning =>
        \A p \in asks[b] : /\ p.key \in Keys /\ ops[p.key] # {}
                           /\ at[a] \in Owning => p.key # q.key
  BY RequestTyped DEF TypeOK, ClaimOwned
<1>2. at[a] \in Owning => ops[q.key] = {Claim(q)}
  BY DEF ClaimOwned
<1>3. CASE Begin(a, q)
  <2>1. CASE ops[q.key] = {}
    <3>1. /\ asks' = asks /\ \A b \in Attempts \ {a} : at'[b] = at[b]
          /\ ops' = [ops EXCEPT ![q.key] = {Claim(q)}]
      BY <1>3, <2>1 DEF Begin, Move, TypeOK
    <3>2. /\ ops'[q.key] = {Claim(q)} /\ \A k \in Keys : k # q.key => ops'[k] = ops[k]
      BY <1>0, <3>1 DEF TypeOK
    <3>3. \A b \in Attempts \ {a} : at[b] \in Owning => \A p \in asks[b] : p.key \in Keys /\ p.key # q.key
      BY <1>1, <2>1
    <3> QED BY <3>1, <3>2, <3>3
  <2>2. CASE ops[q.key] # {}
    BY <1>0, <1>1, <1>3, <2>2 DEF Begin, End, TypeOK, Owning
  <2> QED BY <2>1, <2>2
<1>4. CASE Complete(a, q) \/ Abandon(a, q)
  BY <1>0, <1>1, <1>4 DEF Complete, Abandon, End, TypeOK, Owning
<1>5. CASE Lock(a, q) \/ Inspect(a, q)
  BY <1>0, <1>1, <1>5 DEF Lock, Inspect, Move, End, store, TypeOK, Owning
<1>6. CASE Found(a, q) \/ Missing(a, q) \/ Delete(a, q) \/ LookForTombstone(a, q) \/ Upsert(a, q)
  <2>1. at[a] \in Owning /\ UNCHANGED <<ops, asks>> /\ \E place \in Places : at' = [at EXCEPT ![a] = place]
    BY <1>6
    DEF Found, Missing, Delete, LookForTombstone, Upsert, Erase, Move, store, Owning, Places
  <2> QED BY <1>0, <1>1, <1>2, <2>1 DEF TypeOK
<1>7. CASE Fail(a, q)
  BY <1>0, <1>1, <1>2, <1>7 DEF Fail, Move, End, store, TypeOK, Owning
<1> QED BY <1>3, <1>4, <1>5, <1>6, <1>7 DEF Step

(* Who owns a claim still owns it after any step, and alone: an attempt    *)
(* begins to act only over an empty record, and acts under its own lock.   *)
LEMMA ClaimStep ==
  ASSUME ControlInv, [Next]_vars
  PROVE  ClaimOwned'
<1> USE DEF ControlInv
<1>0. AsksInv' /\ LockInv'
  BY LockStep
<1>1. CASE UNCHANGED vars
  BY <1>1 DEF vars, attempts, store, ClaimOwned
<1>2. ASSUME NEW a \in Attempts, NEW q \in asks[a], Step(a, q) \/ Fail(a, q)
      PROVE  ClaimOwned'
  <2>1. \A b \in Attempts : at'[b] \in Owning => \A p \in asks'[b] : ops'[p.key] = {Claim(p)}
    BY <1>2, OthersKeep DEF AsksInv, ClaimOwned
  <2>2. \A b, c \in Attempts : b # c /\ at'[b] \in Owning /\ at'[c] \in Owning =>
          \A p \in asks'[b], r \in asks'[c] : r.key # p.key
    BY <1>2, OthersKeep DEF AsksInv, ClaimOwned
  <2>3. \A b, c \in Attempts : b # c /\ at'[b] \in Owning /\ at'[c] \in Owning =>
          \A p \in asks'[b], r \in asks'[c] : r.conversation # p.conversation
    BY <1>0 DEF LockInv, Locking
  <2> QED BY <2>1, <2>2, <2>3 DEF ClaimOwned
<1>3. ASSUME NEW a \in Attempts, NEW q \in Requests, Submit(a, q)
      PROVE  ClaimOwned'
  <2>1. at'[a] \notin Owning /\ ops' = ops
    BY <1>3 DEF Submit, TypeOK, store, Owning
  <2>2. \A b \in Attempts \ {a} : at'[b] = at[b] /\ asks'[b] = asks[b]
    BY <1>3 DEF Submit, TypeOK
  <2> QED BY <2>1, <2>2 DEF ClaimOwned
<1>4. ASSUME NEW c \in Conversations, LocalDelete(c) \/ \E title \in Titles : LocalRename(c, title)
      PROVE  ClaimOwned'
  BY <1>4 DEF LocalDelete, LocalRename, Erase, attempts, ClaimOwned
<1>5. CASE Restart
  BY <1>5 DEF Restart, TypeOK, ClaimOwned, Owning, Ended
<1> QED BY <1>1, <1>2, <1>3, <1>4, <1>5 DEF Next, Work

(* A claim stays with the attempt that owns it, goes with its response or  *)
(* its release, or is counted as stranded; a start leaves none.            *)
LEMMA StrandStep ==
  ASSUME ControlInv, [Next]_vars
  PROVE  NoStrandedClaim'
<1> USE DEF ControlInv
<1>0. TypeOK' /\ ClaimOwned'
  BY TypeStep, ClaimStep
<1>1. CASE UNCHANGED vars
  BY <1>1 DEF vars, attempts, store, bounds, NoStrandedClaim
<1>2. ASSUME NEW a \in Attempts, NEW q \in asks[a], Step(a, q) \/ Fail(a, q)
      PROVE  NoStrandedClaim'
  <2>0. q \in Requests /\ q.key \in Keys /\ at[a] \in Places
    BY RequestTyped DEF TypeOK
  <2>1. asks' = asks /\ \A b \in Attempts \ {a} : at'[b] = at[b]
    BY <1>2, OthersKeep
  <2>2. stranded \subseteq stranded'
    BY <1>2
    DEF Step, Fail, Lock, Inspect, Begin, Found, Missing, Delete, LookForTombstone, Upsert,
        Complete, Abandon, bounds
  <2>3. \A k \in Keys \ {q.key} : ops'[k] = ops[k]
    BY <1>2, <2>0
    DEF Step, Fail, Lock, Inspect, Begin, Found, Missing, Delete, LookForTombstone, Upsert, Erase,
        Complete, Abandon, store, TypeOK
  <2>4. \A op \in ops'[q.key] : \/ op.done \/ q.key \in stranded'
                                \/ at'[a] \in Owning
                                \/ at[a] \notin Owning /\ op \in ops[q.key]
    <3>1. CASE Complete(a, q)
      BY <2>0, <3>1, RecordTyped DEF Complete, TypeOK, Reply
    <3>2. CASE Abandon(a, q)
      BY <2>0, <3>2 DEF Abandon, Unclaimed, TypeOK
    <3>3. CASE Fail(a, q)
      BY <2>0, <3>3 DEF Fail, Move, End, store, TypeOK, Owning
    <3>4. CASE Begin(a, q)
      BY <2>0, <3>4 DEF Begin, Move, TypeOK, Owning
    <3> QED
      BY <1>2, <2>0, <3>1, <3>2, <3>3, <3>4
      DEF Step, Lock, Inspect, Found, Missing, Delete, LookForTombstone, Upsert, Erase, Move,
          store, TypeOK, Owning
  <2>5. ASSUME NEW k \in Keys, NEW op \in ops[k], ~op.done, k \notin stranded, k # q.key \/ at[a] \notin Owning
        PROVE  \E b \in Attempts : at'[b] \in Owning /\ op.request \in asks'[b]
    <3>1. PICK b \in Attempts : at[b] \in Owning /\ op.request \in asks[b]
      BY <2>5 DEF NoStrandedClaim
    <3>2. b # a
      BY <2>5, <3>1 DEF KeyInv, AsksInv
    <3> QED BY <2>1, <3>1, <3>2
  <2>6. at'[a] \in Owning => \A op \in ops'[q.key] : op.request \in asks'[a]
    BY <1>2, <2>0, <2>1, OthersKeep, RecordTyped
  <2> QED BY <2>2, <2>3, <2>4, <2>5, <2>6 DEF NoStrandedClaim
<1>3. ASSUME NEW a \in Attempts, NEW q \in Requests, Submit(a, q)
      PROVE  NoStrandedClaim'
  <2>1. at[a] \notin Owning /\ UNCHANGED <<ops, stranded>>
    BY <1>3 DEF Submit, store, bounds, Owning
  <2>2. \A b \in Attempts \ {a} : at'[b] = at[b] /\ asks'[b] = asks[b]
    BY <1>3 DEF Submit, TypeOK
  <2> QED BY <2>1, <2>2 DEF NoStrandedClaim
<1>4. ASSUME NEW c \in Conversations, LocalDelete(c) \/ \E title \in Titles : LocalRename(c, title)
      PROVE  NoStrandedClaim'
  BY <1>4 DEF LocalDelete, LocalRename, Erase, attempts, bounds, NoStrandedClaim
<1>5. CASE Restart
  BY <1>5 DEF Restart, Released, Unclaimed, NoStrandedClaim
<1> QED BY <1>1, <1>2, <1>3, <1>4, <1>5 DEF Next, Work

(* A stored response survives every step, and whoever is answered is       *)
(* answered from the record of its own request.                            *)
LEMMA ReplayStep ==
  ASSUME ControlInv, [Next]_vars
  PROVE  /\ \A k \in Keys : \A op \in ops[k] : op.done => op \in ops'[k]
         /\ \A a \in Attempts : at'[a] = "replied" /\ at[a] # "replied" =>
              \A q \in asks[a] : Reply(q) \in ops'[q.key]
<1> DEFINE Kept == \A k \in Keys : \A op \in ops[k] : op.done => op \in ops'[k]
           Answered == \A a \in Attempts : at'[a] = "replied" /\ at[a] # "replied" =>
                         \A q \in asks[a] : Reply(q) \in ops'[q.key]
<1> USE DEF ControlInv
<1>1. ASSUME NEW a \in Attempts, NEW q \in asks[a], Step(a, q) \/ Fail(a, q)
      PROVE  Kept /\ Answered
  <2>0. q \in Requests /\ q.key \in Keys /\ at[a] \in Places
    BY RequestTyped DEF TypeOK
  <2>1. CASE ops' = ops
    <3>1. at'[a] = "replied" => Reply(q) \in ops[q.key] \/ Complete(a, q)
      BY <1>1, <2>0
      DEF Step, Fail, Lock, Inspect, Begin, Found, Missing, Delete, LookForTombstone, Upsert,
          Abandon, Move, End, TypeOK
    <3>2. Complete(a, q) => Reply(q) \in ops'[q.key]
      BY <2>0, RecordTyped DEF Complete, TypeOK, ClaimOwned, Owning
    <3> QED BY <1>1, <2>1, <3>1, <3>2, OthersKeep DEF AsksInv
  <2>2. CASE Begin(a, q) /\ ops' # ops
    <3>1. Kept
      BY <2>0, <2>2 DEF Begin, TypeOK
    <3>2. at'[a] # "replied"
      BY <2>0, <2>2 DEF Begin, Move, TypeOK
    <3> QED BY <1>1, <3>1, <3>2, OthersKeep
  <2>3. CASE Complete(a, q)
    <3>1. ops[q.key] = {Claim(q)} /\ ~Claim(q).done
      BY <2>0, <2>3, RecordTyped DEF Complete, ClaimOwned, Owning
    <3>2. {Reply(r.request) : r \in ops[q.key]} = {Reply(q)}
      BY <2>0, <3>1, RecordTyped
    <3>3. ops' = [ops EXCEPT ![q.key] = {Reply(q)}]
      BY <2>3, <3>2 DEF Complete
    <3> QED BY <1>1, <2>0, <3>1, <3>3, OthersKeep DEF TypeOK, AsksInv
  <2>4. CASE Abandon(a, q)
    <3>1. Kept
      BY <2>0, <2>4 DEF Abandon, Unclaimed, TypeOK
    <3>2. at'[a] # "replied"
      BY <2>0, <2>4 DEF Abandon, End, TypeOK
    <3> QED BY <1>1, <3>1, <3>2, OthersKeep
  <2> QED
    BY <1>1, <2>1, <2>2, <2>3, <2>4
    DEF Step, Fail, Lock, Inspect, Found, Missing, Delete, LookForTombstone, Upsert, Erase, store
<1>2. ASSUME NEW a \in Attempts, NEW q \in Requests, Submit(a, q)
      PROVE  Kept /\ Answered
  BY <1>2 DEF Submit, store, TypeOK
<1>3. ASSUME NEW c \in Conversations, LocalDelete(c) \/ \E title \in Titles : LocalRename(c, title)
      PROVE  Kept /\ Answered
  BY <1>3 DEF LocalDelete, LocalRename, Erase, attempts
<1>4. CASE Restart
  BY <1>4 DEF Restart, Released, Unclaimed, TypeOK, Ended
<1>5. CASE UNCHANGED vars
  BY <1>5 DEF vars, attempts, store
<1> QED BY <1>1, <1>2, <1>3, <1>4, <1>5 DEF Next, Work
----------------------------------------------------------------------------
(* The parts of the invariant hold together in every reachable state. *)
THEOREM ControlInvariant == Spec => []ControlInv
<1>1. Init => ControlInv
  BY ControlInvInit
<1>2. ControlInv /\ [Next]_vars => ControlInv'
  <2> SUFFICES ASSUME ControlInv, [Next]_vars PROVE ControlInv'
    OBVIOUS
  <2>1. TypeOK' /\ AsksInv' /\ LockInv' /\ KeyInv' /\ ClaimOwned' /\ NoStrandedClaim'
    BY TypeStep, LockStep, KeyStep, ClaimStep, StrandStep
  <2> QED BY <2>1 DEF ControlInv
<1> QED BY <1>1, <1>2, PTL DEF Spec

(* The tables keep their types and one record per key and conversation. *)
THEOREM ControlsTyped == Spec => []TypeOK
<1>1. ControlInv => TypeOK
  BY DEF ControlInv
<1> QED BY <1>1, ControlInvariant, PTL

(* An attempt that acts owns the claim of its key, and no other acts for   *)
(* that key or on that conversation: execute_control's claim and lock.     *)
THEOREM ClaimsOwned == Spec => []ClaimOwned
<1>1. ControlInv => ClaimOwned
  BY DEF ControlInv
<1> QED BY <1>1, ControlInvariant, PTL

(* A claim without a response has a running owner, unless the store failed *)
(* its release: abandon_control_operation and the deletion at the start.   *)
THEOREM ClaimsReleased == Spec => []NoStrandedClaim
<1>1. ControlInv => NoStrandedClaim
  BY DEF ControlInv
<1> QED BY <1>1, ControlInvariant, PTL

(* Claims have one owner and are not left behind, whatever attempts race,  *)
(* fail or are cut off: begin, complete and abandon_control_operation.     *)
THEOREM ClaimsKeptHolds == Spec => []ClaimsKept
<1>1. ControlInv => ClaimsKept
  BY DEF ControlInv, ClaimsKept
<1> QED BY <1>1, ControlInvariant, PTL

(* A stored response is never changed or lost, and every answer given is   *)
(* the stored one of the request itself.                                   *)
THEOREM ReplaysStable == Spec => ReplayStable
<1> DEFINE Replay == /\ \A k \in Keys : \A op \in ops[k] : op.done => op \in ops'[k]
                     /\ \A a \in Attempts : at'[a] = "replied" /\ at[a] # "replied" =>
                          \A q \in asks[a] : Reply(q) \in ops'[q.key]
<1>1. ControlInv /\ [Next]_vars => [Replay]_vars
  BY ReplayStep
<1>2. Spec => [][Replay]_vars
  <2> HIDE DEF Replay
  <2> QED BY <1>1, ControlInvariant, PTL DEF Spec
<1> QED BY <1>2 DEF ReplayStable
----------------------------------------------------------------------------
(* A tombstone hides its conversation, unless a switch revived it; and an  *)
(* attempt about to answer has reached the state it was asked for.         *)
TargetInv ==
  /\ \A c \in tombstones \ revived : rows[c] = {}
  /\ \A a \in Attempts : at[a] = "completing" =>
       \A q \in asks[a] : q.conversation \notin revived => Holds(q)
  /\ \A a \in Attempts : at[a] = "upserting" => \A q \in asks[a] : q.type # "delete"

(* Nothing is deleted, and nobody answers, at the start.                   *)
LEMMA TargetInvInit == Init => TargetInv
<1> SUFFICES ASSUME Init PROVE TargetInv
  OBVIOUS
<1> QED BY DEF Init, TargetInv

(* Erasing or renaming a row keeps what a control reached; and only the    *)
(* attempt that owns a conversation saves it.                              *)
LEMMA TargetInvStep ==
  ASSUME ControlInv, TargetInv, [Next]_vars
  PROVE  TargetInv'
<1>t. /\ at \in [Attempts -> Places] /\ asks \in [Attempts -> SUBSET Requests]
      /\ rows \in [Conversations -> SUBSET Row] /\ read \in [Attempts -> SUBSET Row]
      /\ \A a \in Attempts : \A p, q \in asks[a] : p = q
  BY DEF ControlInv, TypeOK, AsksInv
<1>1. ASSUME UNCHANGED <<rows, tombstones, revived, asks>>,
             \A a \in Attempts : at'[a] \in {"completing", "upserting"} => at[a] = at'[a]
      PROVE  TargetInv'
  BY <1>1 DEF TargetInv, Holds
<1>2. ASSUME NEW a \in Attempts, NEW q \in asks[a], Lock(a, q) \/ Inspect(a, q) \/ Begin(a, q) \/ Found(a, q)
               \/ Complete(a, q) \/ Abandon(a, q) \/ Fail(a, q)
      PROVE  TargetInv'
  <2>1. UNCHANGED <<rows, tombstones, revived, asks>>
    BY <1>2 DEF Lock, Inspect, Begin, Found, Complete, Abandon, Fail, Move, End, store, bounds
  <2>2. \A b \in Attempts : at'[b] \in {"completing", "upserting"} => at[b] = at'[b]
    BY <1>2, <1>t DEF Lock, Inspect, Begin, Found, Complete, Abandon, Fail, Move, End
  <2> QED BY <1>1, <2>1, <2>2
<1>3. ASSUME NEW a \in Attempts, NEW q \in Requests, Submit(a, q)
      PROVE  TargetInv'
  BY <1>3, <1>t DEF Submit, store, bounds, TargetInv, Holds
<1>4. CASE Restart
  <2>1. \A a \in Attempts : at'[a] \notin {"completing", "upserting"}
    BY <1>4 DEF Restart, Ended
  <2> QED BY <1>4, <2>1 DEF Restart, TargetInv
<1>5. ASSUME NEW a \in Attempts, NEW q \in asks[a], UNCHANGED <<rows, tombstones, revived, asks>>,
             \A b \in Attempts : at'[b] = "completing" => at[b] = "completing" \/ b = a,
             \A b \in Attempts : at'[b] = "upserting" => at[b] = "upserting",
             q.conversation \notin revived => Holds(q)
      PROVE  TargetInv'
  <2>1. \A p \in Requests : Holds(p)' <=> Holds(p)
    BY <1>5 DEF Holds
  <2>2. ASSUME NEW b \in Attempts, at'[b] = "completing", NEW p \in asks[b], p.conversation \notin revived
        PROVE  Holds(p)
    <3>1. CASE at[b] = "completing"
      BY <2>2, <3>1 DEF TargetInv
    <3>2. CASE b = a
      BY <1>5, <2>2, <3>2, <1>t
    <3> QED BY <1>5, <2>2, <3>1, <3>2
  <2>3. \A b \in Attempts : at'[b] = "upserting" => \A p \in asks[b] : p.type # "delete"
    BY <1>5 DEF TargetInv
  <2>4. \A c \in tombstones \ revived : rows[c] = {}
    BY DEF TargetInv
  <2> QED BY <1>5, <1>t, <2>1, <2>2, <2>3, <2>4 DEF TargetInv
<1>6. ASSUME NEW a \in Attempts, NEW q \in asks[a], Missing(a, q)
      PROVE  TargetInv'
  <2>1. /\ UNCHANGED <<rows, tombstones, revived, asks>> /\ Holds(q)
        /\ \A b \in Attempts : at'[b] = "completing" => at[b] = "completing" \/ b = a
        /\ \A b \in Attempts : at'[b] = "upserting" => at[b] = "upserting"
    BY <1>6, <1>t DEF Missing, Move, store, bounds, Holds
  <2> QED BY <1>5, <2>1
<1>7. ASSUME NEW a \in Attempts, NEW q \in asks[a], LookForTombstone(a, q)
      PROVE  TargetInv'
  <2>1. /\ UNCHANGED <<rows, tombstones, revived, asks>> /\ q.type = "switch"
        /\ \A b \in Attempts : at'[b] = "completing" =>
             at[b] = "completing" \/ (b = a /\ q.conversation \in tombstones)
        /\ \A b \in Attempts : at'[b] = "upserting" => at[b] = "upserting" \/ b = a
    BY <1>7, <1>t DEF LookForTombstone, Move, store, bounds
  <2>2. q.conversation \in tombstones \ revived => Holds(q)
    BY <2>1 DEF TargetInv, Holds
  <2> QED BY <1>t, <2>1, <2>2 DEF TargetInv, Holds
<1>8. ASSUME NEW c \in Conversations, Erase(c), UNCHANGED <<revived, asks>>,
             NEW A \in SUBSET Attempts,
             \A b \in Attempts : at'[b] = "completing" => at[b] = "completing" \/ b \in A,
             \A b \in Attempts : at'[b] = "upserting" => at[b] = "upserting",
             \A b \in A : \A q \in asks[b] : q.conversation = c
      PROVE  TargetInv'
  <2>1. /\ \A d \in Conversations : rows'[d] = IF d = c THEN {} ELSE rows[d]
        /\ tombstones' = tombstones \cup {c}
    BY <1>8, <1>t DEF Erase
  <2>2. \A d \in tombstones' \ revived' : rows'[d] = {}
    BY <1>8, <2>1 DEF TargetInv, ControlInv, TypeOK
  <2>4. \A q \in Requests : Holds(q) \/ q.conversation = c => Holds(q)'
    BY <2>1, RequestTyped DEF Holds
  <2> QED BY <1>8, <1>t, <2>2, <2>4 DEF TargetInv
<1>9. ASSUME NEW a \in Attempts, NEW q \in asks[a], Delete(a, q)
      PROVE  TargetInv'
  <2>1. /\ Erase(q.conversation) /\ UNCHANGED <<revived, asks>>
        /\ \A b \in Attempts : at'[b] = "completing" => at[b] = "completing" \/ b \in {a}
        /\ \A b \in Attempts : at'[b] = "upserting" => at[b] = "upserting"
    BY <1>9, <1>t DEF Delete, Move, bounds
  <2>2. q.conversation \in Conversations /\ {a} \in SUBSET Attempts
        /\ \A b \in {a} : \A p \in asks[b] : p.conversation = q.conversation
    BY <1>9, <1>t, RequestTyped
  <2> QED BY <1>8, <2>1, <2>2
<1>10. ASSUME NEW c \in Conversations, LocalDelete(c)
       PROVE  TargetInv'
  <2>1. Erase(c) /\ UNCHANGED <<revived, asks, at>>
    BY <1>10 DEF LocalDelete, attempts, bounds
  <2> DEFINE A == {}
  <2>2. A \in SUBSET Attempts /\ \A b \in A : \A q \in asks[b] : q.conversation = c
    OBVIOUS
  <2>3. /\ \A b \in Attempts : at'[b] = "completing" => at[b] = "completing" \/ b \in A
        /\ \A b \in Attempts : at'[b] = "upserting" => at[b] = "upserting"
    BY <2>1
  <2> HIDE DEF A
  <2> QED BY <1>8, <2>1, <2>2, <2>3
<1>11. ASSUME NEW c \in Conversations, NEW title \in Titles, LocalRename(c, title)
       PROVE  TargetInv'
  <2>1. /\ UNCHANGED <<tombstones, revived, asks, at>>
        /\ \A d \in Conversations : rows'[d] = IF d = c THEN {[r EXCEPT !.title = title] : r \in rows[c]} ELSE rows[d]
    BY <1>11, <1>t DEF LocalRename, attempts
  <2>2. \A d \in Conversations : rows'[d] = {} <=> rows[d] = {}
    <3>1. rows'[c] = {} <=> rows[c] = {}
      <4>1. \A r \in rows[c] : [r EXCEPT !.title = title] \in rows'[c]
        BY <2>1
      <4>2. \A x \in rows'[c] : \E r \in rows[c] : TRUE
        BY <2>1
      <4> QED BY <4>1, <4>2
    <3> QED BY <2>1, <3>1
  <2>3. \A r \in Row : [r EXCEPT !.title = title].character = r.character
    BY DEF Row
  <2>4. ASSUME NEW q \in Requests, Holds(q) PROVE Holds(q)'
    <3>1. q.conversation \in Conversations
      BY RequestTyped
    <3>2. CASE q.type = "delete"
      BY <2>2, <2>4, <3>1, <3>2 DEF Holds
    <3>3. CASE q.type # "delete"
      <4>1. \A r \in rows[q.conversation] : r \in Row /\ r.character = q.character
        BY <1>t, <2>4, <3>1, <3>3 DEF Holds
      <4>2. \A r \in rows'[q.conversation] : r.character = q.character
        <5>1. CASE q.conversation # c
          BY <2>1, <3>1, <4>1, <5>1
        <5>2. CASE q.conversation = c
          <6>1. rows'[c] = {[r EXCEPT !.title = title] : r \in rows[c]}
            BY <2>1
          <6>2. \A r \in rows[c] : [r EXCEPT !.title = title].character = q.character
            BY <2>3, <4>1, <5>2
          <6>3. ASSUME NEW x \in rows'[c] PROVE x.character = q.character
            <7>1. PICK r \in rows[c] : x = [r EXCEPT !.title = title]
              BY <6>1
            <7> QED BY <6>2, <7>1
          <6> QED BY <5>2, <6>3
        <5> QED BY <5>1, <5>2
      <4> QED BY <3>3, <4>2 DEF Holds
    <3> QED BY <3>2, <3>3
  <2>5. tombstones \subseteq Conversations
    BY DEF ControlInv, TypeOK
  <2> QED BY <1>t, <2>1, <2>2, <2>4, <2>5 DEF TargetInv
<1>12. ASSUME NEW a \in Attempts, NEW q \in asks[a], Upsert(a, q)
       PROVE  TargetInv'
  <2> DEFINE saved == {[r EXCEPT !.character = q.character] : r \in read[a]}
  <2>1. /\ at[a] = "upserting" /\ UNCHANGED <<tombstones, asks>>
        /\ \A b \in Attempts : at'[b] = "completing" => at[b] = "completing" \/ b = a
        /\ \A d \in Conversations : rows'[d] = IF d = q.conversation THEN saved ELSE rows[d]
        /\ revived' = IF rows[q.conversation] = {} THEN revived \cup {q.conversation} ELSE revived
        /\ q \in Requests /\ q.conversation \in Conversations
    BY <1>12, <1>t, RequestTyped DEF Upsert, Move
  <2>2. \A d \in tombstones' \ revived' : rows'[d] = {}
    BY <2>1 DEF TargetInv, ControlInv, TypeOK
  <2>3. \A r \in saved : r.character = q.character
    BY <1>t DEF Row
  <2>4. q.type # "delete"
    BY <2>1 DEF TargetInv
  <2>5. ASSUME NEW b \in Attempts, at'[b] = "completing", NEW p \in asks[b], p.conversation \notin revived'
        PROVE  Holds(p)'
    <3>1. CASE b = a
      <4>1. p = q /\ rows'[q.conversation] = saved
        BY <1>t, <2>1, <3>1
      <4>2. \A r \in rows'[q.conversation] : r.character = q.character
        BY <2>3, <4>1
      <4> QED BY <2>4, <4>1, <4>2 DEF Holds
    <3>2. CASE b # a
      <4>1. at[b] = "completing" /\ p.conversation \notin revived /\ p \in Requests
        BY <1>t, <2>1, <2>5, <3>2
      <4>2. p.conversation # q.conversation
        BY <2>1, <3>2, <4>1 DEF ControlInv, ClaimOwned, Owning
      <4>3. rows'[p.conversation] = rows[p.conversation] /\ Holds(p)
        BY <2>1, <4>1, <4>2, RequestTyped DEF TargetInv
      <4> QED BY <4>3 DEF Holds
    <3> QED BY <3>1, <3>2
  <2>6. \A b \in Attempts : at'[b] # "upserting" \/ at[b] = "upserting"
    BY <1>12, <1>t DEF Upsert, Move
  <2> QED BY <2>1, <2>2, <2>5, <2>6 DEF TargetInv
<1>13. CASE UNCHANGED vars
  BY <1>1, <1>13 DEF vars, attempts, store, bounds
<1> QED BY <1>2, <1>3, <1>4, <1>6, <1>7, <1>9, <1>10, <1>11, <1>12, <1>13 DEF Next, Work, Step

(* A control's target is reached before its answer, in every state.        *)
THEOREM TargetInvariant == Spec => []TargetInv
<1>1. Init => TargetInv
  BY TargetInvInit
<1>2. ControlInv /\ TargetInv /\ [Next]_vars => TargetInv'
  BY TargetInvStep
<1> QED BY <1>1, <1>2, ControlInvariant, PTL DEF Spec

(* A response is stored only when what was asked for is true, unless a     *)
(* switch revived the conversation after its deletion: delete_conversation *)
(* and switch_character through any races, failures and restarts.          *)
THEOREM ConvergesHolds == Spec => ConvergesUnlessRevived
<1> DEFINE Converged == \A q \in Requests : Stores(q) /\ q.conversation \notin revived => Holds(q)
<1>1. ControlInv /\ TargetInv /\ [Next]_vars => [Converged]_vars
  <2> SUFFICES ASSUME ControlInv, TargetInv, Next, NEW q \in Requests, Stores(q), q.conversation \notin revived
               PROVE  Holds(q)
    OBVIOUS
  <2>t. /\ asks \in [Attempts -> SUBSET Requests] /\ q.key \in Keys
        /\ ops \in [Keys -> SUBSET [request : Requests, done : BOOLEAN]]
    BY RequestTyped DEF ControlInv, TypeOK
  <2>0. Reply(q) \in ops'[q.key] /\ Reply(q) \notin ops[q.key] /\ Reply(q).done
    BY RecordTyped DEF Stores
  <2>1. ASSUME ops' = ops PROVE FALSE
    BY <2>0, <2>1
  <2>2. ASSUME NEW a \in Attempts, NEW p \in asks[a], Begin(a, p) PROVE FALSE
    <3>1. p \in Requests /\ ~Claim(p).done /\ p.key \in Keys
      BY <2>t, RequestTyped, RecordTyped
    <3> QED BY <2>t, <2>0, <2>2, <3>1 DEF Begin
  <2>3. ASSUME NEW a \in Attempts, NEW p \in asks[a], Abandon(a, p) PROVE FALSE
    <3>1. p.key \in Keys
      BY <2>t, RequestTyped
    <3> QED BY <2>t, <2>0, <2>3, <3>1 DEF Abandon, Unclaimed
  <2>4. ASSUME Restart PROVE FALSE
    BY <2>t, <2>0, <2>4 DEF Restart, Released, Unclaimed
  <2>5. ASSUME NEW a \in Attempts, NEW p \in asks[a], Complete(a, p) PROVE Holds(q)
    <3>1. /\ p \in Requests /\ p.key \in Keys /\ ops[p.key] = {Claim(p)} /\ at[a] = "completing"
          /\ Claim(p).request = p
      BY <2>t, <2>5, RequestTyped, RecordTyped DEF Complete, ControlInv, ClaimOwned, Owning
    <3>2. \A k \in Keys : ops'[k] = IF k = p.key THEN {Reply(p)} ELSE ops[k]
      BY <2>t, <2>5, <3>1 DEF Complete
    <3>3. Reply(q) = Reply(p) /\ q = p
      BY <2>t, <2>0, <3>1, <3>2, RecordTyped
    <3> QED BY <3>1, <3>3 DEF TargetInv
  <2>6. ASSUME NEW a \in Attempts, NEW p \in asks[a],
               Lock(a, p) \/ Inspect(a, p) \/ Found(a, p) \/ Missing(a, p) \/ Delete(a, p)
                 \/ LookForTombstone(a, p) \/ Upsert(a, p) \/ Fail(a, p)
        PROVE  FALSE
    BY <2>1, <2>6 DEF Lock, Inspect, Found, Missing, Delete, LookForTombstone, Upsert, Fail, Erase, store
  <2>7. ASSUME \/ \E a \in Attempts, p \in Requests : Submit(a, p)
               \/ \E c \in Conversations : LocalDelete(c) \/ \E title \in Titles : LocalRename(c, title)
        PROVE  FALSE
    BY <2>1, <2>7 DEF Submit, LocalDelete, LocalRename, Erase, store
  <2> QED BY <2>2, <2>3, <2>4, <2>5, <2>6, <2>7 DEF Next, Work, Step
<1>2. Spec => [][Converged]_vars
  <2> HIDE DEF Converged
  <2> QED BY <1>1, ControlInvariant, TargetInvariant, PTL DEF Spec
<1> QED BY <1>2 DEF ConvergesUnlessRevived
----------------------------------------------------------------------------
(* A set that is empty or holds one row. *)
Single(S) == \A x, y \in S : x = y

(* The tables, their primary keys, and the foreign key of messages. *)
Tables(d) ==
  /\ {"characters", "conversations", "messages", "tombstones"} \subseteq DOMAIN d
  /\ DOMAIN d.conversations = Chats /\ DOMAIN d.messages = Messages /\ DOMAIN d.tombstones = Objects

PrimaryKeys(d) ==
  \A v \in Chats :
    /\ Single(d.conversations[v]) /\ Single(d.tombstones[v])
    /\ \A t \in d.tombstones[v] : Single(t.payload)

ForeignKeys(d) == \A m \in Messages : d.messages[m] # {} => d.conversations[Of[m]] # {}

Sound(d) == Tables(d) /\ PrimaryKeys(d) /\ ForeignKeys(d)

(* What an import has left to do is in the container, which has one row of *)
(* each conversation, and so will have one that is being exported.         *)
ExportPlaces == {"export_characters", "export_profiles", "export_conversations", "export_messages", "export_contexts", "create"}
ImportPlaces ==
  {"preflight", "characters", "card", "save_card", "profile", "conversations", "conversation", "archive",
   "save_conversation", "messages", "message", "files"}

JobInv ==
  /\ "at" \in DOMAIN job /\ job.at \in Over \cup ExportPlaces \cup ImportPlaces
  /\ job.at \in ImportPlaces => {"left", "item", "seen"} \subseteq DOMAIN job
  /\ job.at \in ExportPlaces => "out" \in DOMAIN job /\ "conversations" \in DOMAIN job.out
  /\ job.at \in {"conversation", "archive", "save_conversation"} => job.left \subseteq Present(pack.conversations)
  /\ job.at \in {"archive", "save_conversation"} => \E v \in Chats : pack.conversations[v] # {} /\ job.item = {v}
  /\ job.at = "message" => job.left \subseteq Present(pack.messages)
  /\ job.at \in {"export_messages", "export_contexts", "create"} => \A v \in Chats : Single(job.out.conversations[v])
  /\ \A v \in Chats : Single(pack.conversations[v])

(* A handler that will write a row, a message or a tombstone has its identity. *)
RowSteps == {"fence_conversation", "create_conversation", "rename"}

About(step) ==
  \/ step = Idle
  \/ /\ {"op", "on"} \subseteq DOMAIN step
     /\ step.op \in RowSteps => step.on \in Chats
     /\ step.op = "say" => step.on \in Messages
     /\ step.op \in {"delete", "restore"} => step.on \in Objects

CallInv == DOMAIN call = Clients /\ \A p \in Clients : About(call[p])

LedgerInv == DOMAIN fate = Messages /\ Sound(db) /\ NothingUnrecoverable

RecordsInv == LedgerInv /\ CallInv /\ JobInv
----------------------------------------------------------------------------
(* What the operators on the tables do to each of them. *)
LEMMA ErasedTables ==
  ASSUME NEW d, Sound(d), NEW o \in Objects
  PROVE  LET e == Erased(d, o) IN
         /\ Tables(e)
         /\ \A v \in Chats : IF v = o THEN e.conversations[v] = {}
                             ELSE \/ e.conversations[v] = d.conversations[v]
                                  \/ e.conversations[v] = {[x EXCEPT !.character = @ \ {o}] : x \in d.conversations[v]}
         /\ \A m \in Messages : e.messages[m] = IF o \in Chats
                                                THEN IF Of[m] = o THEN {} ELSE d.messages[m]
                                                ELSE IF m = o THEN {} ELSE d.messages[m]
         /\ e.tombstones = [d.tombstones EXCEPT ![o] =
              {[payload |-> IF Snapshot(d, o) = {} THEN UNION {t.payload : t \in d.tombstones[o]} ELSE Snapshot(d, o), hidden |-> FALSE]}]
<1> USE RecordsAssumption
<1> DEFINE w == Without(d, o)
           new == {[payload |-> IF Snapshot(d, o) = {} THEN UNION {t.payload : t \in d.tombstones[o]} ELSE Snapshot(d, o), hidden |-> FALSE]}
           e == [w EXCEPT !.tombstones[o] = new]
<1>1. Erased(d, o) = e
  BY DEF Erased
<1>2. Tables(d)
  BY DEF Sound
<1>3. /\ Tables(w) /\ w.tombstones = d.tombstones
      /\ \A v \in Chats : IF v = o THEN w.conversations[v] = {}
                          ELSE \/ w.conversations[v] = d.conversations[v]
                               \/ w.conversations[v] = {[x EXCEPT !.character = @ \ {o}] : x \in d.conversations[v]}
      /\ \A m \in Messages : w.messages[m] = IF o \in Chats
                                             THEN IF Of[m] = o THEN {} ELSE d.messages[m]
                                             ELSE IF m = o THEN {} ELSE d.messages[m]
  <2>1. CASE o \in Cards
    <3>1. w = [d EXCEPT !.characters[o] = {},
                        !.conversations = [v \in Chats |-> {[x EXCEPT !.character = @ \ {o}] : x \in d.conversations[v]}]]
      BY <2>1 DEF Without
    <3>2. o \notin Chats /\ o \notin Messages
      BY <2>1
    <3> QED BY <1>2, <3>1, <3>2 DEF Tables
  <2>2. CASE o \in Chats
    <3>1. w = [d EXCEPT !.conversations[o] = {}, !.messages = [m \in Messages |-> IF Of[m] = o THEN {} ELSE d.messages[m]]]
      BY <2>2 DEF Without
    <3> QED BY <1>2, <2>2, <3>1 DEF Tables
  <2>3. CASE o \notin Cards \cup Chats
    <3>1. w = [d EXCEPT !.messages[o] = {}] /\ o \in Messages
      BY <2>3 DEF Without, Objects
    <3> QED BY <1>2, <2>3, <3>1 DEF Tables
  <2> QED BY <2>1, <2>2, <2>3
<1> HIDE DEF w, new
<1>4. /\ Tables(e) /\ e.tombstones = [d.tombstones EXCEPT ![o] = new]
      /\ e.conversations = w.conversations /\ e.messages = w.messages
  BY <1>3 DEF Tables
<1> HIDE DEF e
<1> QED BY <1>1, <1>3, <1>4 DEF new

(* What is deleted goes into its payload, with the messages of a           *)
(* conversation; a deletion of nothing keeps the payload there was.        *)
LEMMA SnapshotOf ==
  ASSUME NEW d, Sound(d), NEW o \in Objects
  PROVE  /\ o \in Chats => /\ Single(Snapshot(d, o)) /\ (Snapshot(d, o) = {} <=> d.conversations[o] = {})
                           /\ \A saved \in Snapshot(d, o), m \in Messages : Of[m] = o => saved.messages[m] = d.messages[m]
         /\ o \in Messages => (Snapshot(d, o) = {} <=> d.messages[o] = {})
<1> USE RecordsAssumption
<1>1. CASE o \in Chats
  <2> DEFINE kept == [m \in MessagesOf(o) |-> d.messages[m]]
  <2>1. Snapshot(d, o) = {[row |-> x, messages |-> kept] : x \in d.conversations[o]}
    BY <1>1 DEF Snapshot
  <2>2. \A m \in Messages : Of[m] = o => kept[m] = d.messages[m]
    BY DEF MessagesOf
  <2>3. Single(d.conversations[o])
    BY <1>1 DEF Sound, PrimaryKeys
  <2> HIDE DEF kept
  <2>4. Single(Snapshot(d, o))
    BY <2>1, <2>3 DEF Single
  <2>5. \A saved \in Snapshot(d, o) : saved.messages = kept
    BY <2>1
  <2>6. ASSUME NEW x \in d.conversations[o]
        PROVE  Snapshot(d, o) # {}
    <3>1. [row |-> x, messages |-> kept] \in Snapshot(d, o)
      BY <2>1
    <3> QED BY <3>1
  <2>7. ASSUME NEW saved \in Snapshot(d, o)
        PROVE  d.conversations[o] # {}
    BY <2>1
  <2> QED BY <1>1, <2>2, <2>4, <2>5, <2>6, <2>7
<1>2. CASE o \in Messages
  <2>1. Snapshot(d, o) = {[row |-> x] : x \in d.messages[o]} /\ o \notin Chats
    BY <1>2 DEF Snapshot
  <2>2. ASSUME NEW x \in d.messages[o]
        PROVE  Snapshot(d, o) # {}
    <3>1. [row |-> x] \in Snapshot(d, o)
      BY <2>1
    <3> QED BY <3>1
  <2>3. ASSUME NEW saved \in Snapshot(d, o)
        PROVE  d.messages[o] # {}
    BY <2>1
  <2> QED BY <2>1, <2>2, <2>3
<1> QED BY <1>1, <1>2

(* A deletion leaves no message without its conversation, and one payload. *)
LEMMA ErasedSound ==
  ASSUME NEW d, Sound(d), NEW o \in Objects
  PROVE  Sound(Erased(d, o))
<1> USE RecordsAssumption
<1> DEFINE e == Erased(d, o)
           payload == IF Snapshot(d, o) = {} THEN UNION {t.payload : t \in d.tombstones[o]} ELSE Snapshot(d, o)
<1>1. /\ Tables(e)
      /\ \A v \in Chats : IF v = o THEN e.conversations[v] = {}
                          ELSE \/ e.conversations[v] = d.conversations[v]
                               \/ e.conversations[v] = {[x EXCEPT !.character = @ \ {o}] : x \in d.conversations[v]}
      /\ \A m \in Messages : e.messages[m] = IF o \in Chats
                                             THEN IF Of[m] = o THEN {} ELSE d.messages[m]
                                             ELSE IF m = o THEN {} ELSE d.messages[m]
      /\ e.tombstones = [d.tombstones EXCEPT ![o] = {[payload |-> payload, hidden |-> FALSE]}]
  BY ErasedTables
<1>2. DOMAIN d.tombstones = Objects /\ PrimaryKeys(d) /\ ForeignKeys(d)
  BY DEF Sound, Tables
<1>3. o \in Chats => Single(payload)
  <2>1. ASSUME o \in Chats
        PROVE  Single(UNION {t.payload : t \in d.tombstones[o]}) /\ Single(Snapshot(d, o))
    <3>1. Single(d.tombstones[o]) /\ \A t \in d.tombstones[o] : Single(t.payload)
      BY <1>2, <2>1 DEF PrimaryKeys
    <3>2. Single(UNION {t.payload : t \in d.tombstones[o]})
      BY <3>1 DEF Single
    <3> QED BY <2>1, <3>2, SnapshotOf
  <2> QED BY <2>1
<1> HIDE DEF e, payload
<1>4. ASSUME NEW v \in Chats
      PROVE  Single(e.conversations[v])
  <2>1. Single(d.conversations[v])
    BY <1>2 DEF PrimaryKeys
  <2>2. CASE v = o
    BY <1>1, <2>2 DEF Single
  <2>3. CASE e.conversations[v] = d.conversations[v]
    BY <2>1, <2>3
  <2>4. CASE e.conversations[v] = {[x EXCEPT !.character = @ \ {o}] : x \in d.conversations[v]}
    BY <2>1, <2>4 DEF Single
  <2> QED BY <1>1, <2>2, <2>3, <2>4
<1>5. ASSUME NEW v \in Chats
      PROVE  Single(e.tombstones[v]) /\ \A t \in e.tombstones[v] : Single(t.payload)
  <2>1. CASE v = o
    <3>1. e.tombstones[v] = {[payload |-> payload, hidden |-> FALSE]}
      BY <1>1, <1>2, <2>1
    <3> QED BY <1>3, <2>1, <3>1 DEF Single
  <2>2. CASE v # o
    <3>1. e.tombstones[v] = d.tombstones[v]
      BY <1>1, <2>2
    <3> QED BY <1>2, <3>1 DEF PrimaryKeys
  <2> QED BY <2>1, <2>2
<1>6. PrimaryKeys(e)
  BY <1>4, <1>5 DEF PrimaryKeys
<1>7. ForeignKeys(e)
  <2>1. ASSUME NEW m \in Messages, e.messages[m] # {}
        PROVE  e.conversations[Of[m]] # {}
    <3>1. d.messages[m] # {} /\ Of[m] \in Chats /\ Of[m] # o
      BY <1>1, <2>1
    <3>2. d.conversations[Of[m]] # {}
      BY <1>2, <3>1 DEF ForeignKeys
    <3>3. \/ e.conversations[Of[m]] = d.conversations[Of[m]]
          \/ e.conversations[Of[m]] = {[x EXCEPT !.character = @ \ {o}] : x \in d.conversations[Of[m]]}
      BY <1>1, <3>1
    <3>4. PICK x \in d.conversations[Of[m]] : TRUE
      BY <3>2
    <3>5. x \in e.conversations[Of[m]] \/ [x EXCEPT !.character = @ \ {o}] \in e.conversations[Of[m]]
      BY <3>3, <3>4
    <3> QED BY <3>5
  <2> QED BY <2>1 DEF ForeignKeys
<1>8. Sound(e)
  BY <1>1, <1>6, <1>7 DEF Sound
<1> QED BY <1>8 DEF e

(* A deletion loses nothing: what a second one finds gone is in the        *)
(* payload of the first.                                                   *)
LEMMA ErasedRecoverable ==
  ASSUME NEW d, Sound(d), NEW o \in Objects, NEW m \in Messages, Recoverable(d, m)
  PROVE  Recoverable(Erased(d, o), m)
<1> USE RecordsAssumption
<1> DEFINE e == Erased(d, o)
           payload == IF Snapshot(d, o) = {} THEN UNION {t.payload : t \in d.tombstones[o]} ELSE Snapshot(d, o)
<1>1. /\ \A v \in Chats : IF v = o THEN e.conversations[v] = {}
                          ELSE \/ e.conversations[v] = d.conversations[v]
                               \/ e.conversations[v] = {[x EXCEPT !.character = @ \ {o}] : x \in d.conversations[v]}
      /\ \A k \in Messages : e.messages[k] = IF o \in Chats
                                             THEN IF Of[k] = o THEN {} ELSE d.messages[k]
                                             ELSE IF k = o THEN {} ELSE d.messages[k]
      /\ e.tombstones = [d.tombstones EXCEPT ![o] = {[payload |-> payload, hidden |-> FALSE]}]
  BY ErasedTables
<1>2. DOMAIN d.tombstones = Objects /\ ForeignKeys(d) /\ Of[m] \in Chats /\ m \in Objects /\ Of[m] \in Objects /\ Of[m] # m
  BY DEF Sound, Tables, Objects
<1>3. \A k \in Objects : k # o => e.tombstones[k] = d.tombstones[k]
  BY <1>1, <1>2
<1>4. \E t \in e.tombstones[o] : t.payload = payload
  <2>1. e.tombstones[o] = {[payload |-> payload, hidden |-> FALSE]}
    BY <1>1, <1>2
  <2> QED BY <2>1
<1>5. \A v \in Chats : v # o => (e.conversations[v] = {} <=> d.conversations[v] = {})
  <2> SUFFICES ASSUME NEW v \in Chats, v # o
               PROVE  e.conversations[v] = {} <=> d.conversations[v] = {}
    OBVIOUS
  <2>1. \/ e.conversations[v] = d.conversations[v]
        \/ e.conversations[v] = {[x EXCEPT !.character = @ \ {o}] : x \in d.conversations[v]}
    BY <1>1
  <2>2. \A x \in d.conversations[v] : e.conversations[v] # {}
    <3> SUFFICES ASSUME NEW x \in d.conversations[v]
                 PROVE  e.conversations[v] # {}
      OBVIOUS
    <3>1. x \in e.conversations[v] \/ [x EXCEPT !.character = @ \ {o}] \in e.conversations[v]
      BY <2>1
    <3> QED BY <3>1
  <2>3. d.conversations[v] = {} => e.conversations[v] = {}
    BY <2>1
  <2> QED BY <2>2, <2>3
<1>6. SUFFICES Recoverable(e, m)
  OBVIOUS
<1> HIDE DEF e, payload
<1>7. CASE o = m
  <2>1. o \in Messages /\ o \notin Chats /\ (e.conversations[Of[m]] = {} <=> d.conversations[Of[m]] = {})
    BY <1>1, <1>2, <1>5, <1>7
  <2>2. CASE d.messages[m] # {}
    <3>1. payload # {}
      BY <1>7, <2>2, SnapshotOf DEF payload
    <3> QED BY <1>4, <1>7, <3>1 DEF Recoverable
  <2>3. CASE \E t \in d.tombstones[m] : t.payload # {}
    <3>1. payload # {}
      BY <1>7, <2>3 DEF payload
    <3> QED BY <1>4, <1>7, <3>1 DEF Recoverable
  <2>4. CASE d.conversations[Of[m]] = {} /\ \E t \in d.tombstones[Of[m]] : \E saved \in t.payload : saved.messages[m] # {}
    <3>1. e.tombstones[Of[m]] = d.tombstones[Of[m]] /\ e.conversations[Of[m]] = {}
      BY <1>1, <1>2, <1>3, <1>5, <1>7, <2>4
    <3> QED BY <2>4, <3>1 DEF Recoverable
  <2> QED BY <2>2, <2>3, <2>4 DEF Recoverable
<1>8. CASE o = Of[m]
  <2>1. e.tombstones[m] = d.tombstones[m] /\ e.conversations[Of[m]] = {} /\ o \in Chats
    BY <1>1, <1>2, <1>3, <1>8
  <2>2. CASE d.messages[m] # {}
    <3>1. Snapshot(d, o) # {} /\ \A saved \in Snapshot(d, o) : saved.messages[m] = d.messages[m]
      <4>1. d.conversations[o] # {}
        BY <1>2, <1>8, <2>2 DEF ForeignKeys
      <4> QED BY <1>8, <2>1, <4>1, SnapshotOf
    <3>2. \E saved \in payload : saved.messages[m] # {}
      BY <2>2, <3>1 DEF payload
    <3> QED BY <1>4, <1>8, <2>1, <3>2 DEF Recoverable
  <2>3. CASE \E t \in d.tombstones[m] : t.payload # {}
    BY <2>1, <2>3 DEF Recoverable
  <2>4. CASE d.conversations[Of[m]] = {} /\ \E t \in d.tombstones[Of[m]] : \E saved \in t.payload : saved.messages[m] # {}
    <3>1. Snapshot(d, o) = {}
      BY <1>8, <2>1, <2>4, SnapshotOf
    <3>2. \E saved \in payload : saved.messages[m] # {}
      BY <1>8, <2>4, <3>1 DEF payload
    <3> QED BY <1>4, <1>8, <2>1, <3>2 DEF Recoverable
  <2> QED BY <2>2, <2>3, <2>4 DEF Recoverable
<1>9. CASE o # m /\ o # Of[m]
  <2>1. /\ e.tombstones[m] = d.tombstones[m] /\ e.tombstones[Of[m]] = d.tombstones[Of[m]] /\ e.messages[m] = d.messages[m]
        /\ (e.conversations[Of[m]] = {} <=> d.conversations[Of[m]] = {})
    BY <1>1, <1>2, <1>3, <1>5, <1>9
  <2> QED BY <2>1 DEF Recoverable
<1> QED BY <1>7, <1>8, <1>9
(* The rows that are linked again to the character that comes back. *)
Relinked(S, v, o, saved) ==
  {IF v \in saved.links /\ x.character = {} THEN [x EXCEPT !.character = {o}] ELSE x : x \in S}

(* A restore brings back the row, and the messages of a conversation. *)
BroughtBack(d, o, saved, e) ==
  /\ Tables(e) /\ e.tombstones = [d.tombstones EXCEPT ![o] = {}]
  /\ \A v \in Chats :
       \/ v # o /\ e.conversations[v] = d.conversations[v]
       \/ v = o /\ e.conversations[v] = {saved.row}
       \/ v # o /\ e.conversations[v] = Relinked(d.conversations[v], v, o, saved)
  /\ \A m \in Messages : e.messages[m] =
       IF o = m THEN PutBack({saved.row}, d.messages[m])
       ELSE IF o = Of[m] /\ saved.messages[m] # {} THEN PutBack(saved.messages[m], d.messages[m]) ELSE d.messages[m]

(* What a restore does to each of the tables. *)
LEMMA RestoredTables ==
  ASSUME NEW d, Sound(d), NEW o \in Objects, NEW saved
  PROVE  BroughtBack(d, o, saved, Restored(d, o, saved))
<1> USE RecordsAssumption
<1> DEFINE back == [d EXCEPT !.tombstones[o] = {}]
           e == Restored(d, o, saved)
<1>1. /\ Tables(back) /\ back.tombstones = [d.tombstones EXCEPT ![o] = {}]
      /\ back.conversations = d.conversations /\ back.messages = d.messages
  BY DEF Sound, Tables
<1> HIDE DEF back
<1>2. SUFFICES BroughtBack(d, o, saved, e)
  OBVIOUS
<1>3. CASE o \in Cards
  <2>1. e = [back EXCEPT !.characters[o] = {saved.row},
                         !.conversations = [v \in Chats |->
                           Relinked(back.conversations[v], v, o, saved)]]
    BY <1>3 DEF Restored, back, Relinked
  <2>2. o \notin Chats /\ o \notin Messages /\ \A m \in Messages : Of[m] # o
    BY <1>3
  <2> HIDE DEF e
  <2>3. /\ Tables(e) /\ e.tombstones = back.tombstones /\ e.messages = back.messages
        /\ \A v \in Chats : e.conversations[v] = Relinked(back.conversations[v], v, o, saved)
    BY <1>1, <2>1 DEF Tables
  <2>4. Tables(e) /\ e.tombstones = [d.tombstones EXCEPT ![o] = {}]
    BY <1>1, <2>3
  <2>5. \A v \in Chats : v # o /\ e.conversations[v] = Relinked(d.conversations[v], v, o, saved)
    BY <1>1, <2>2, <2>3
  <2>6. \A m \in Messages : o # m /\ o # Of[m] /\ e.messages[m] = d.messages[m]
    BY <1>1, <2>2, <2>3
  <2> QED BY <2>4, <2>5, <2>6 DEF BroughtBack
<1>4. CASE o \in Chats
  <2>1. e = [back EXCEPT !.conversations[o] = {saved.row},
                         !.messages = [m \in Messages |->
                           IF Of[m] = o /\ saved.messages[m] # {} THEN PutBack(saved.messages[m], back.messages[m]) ELSE back.messages[m]]]
    BY <1>4 DEF Restored, back
  <2>2. \A m \in Messages : o # m
    BY <1>4
  <2> HIDE DEF e
  <2>3. /\ Tables(e) /\ e.tombstones = back.tombstones
        /\ \A v \in Chats : e.conversations[v] = IF v = o THEN {saved.row} ELSE back.conversations[v]
        /\ \A m \in Messages : e.messages[m] =
             IF Of[m] = o /\ saved.messages[m] # {} THEN PutBack(saved.messages[m], back.messages[m]) ELSE back.messages[m]
    BY <1>1, <2>1 DEF Tables
  <2>4. Tables(e) /\ e.tombstones = [d.tombstones EXCEPT ![o] = {}]
    BY <1>1, <2>3
  <2>5. \A v \in Chats : \/ v # o /\ e.conversations[v] = d.conversations[v]
                         \/ v = o /\ e.conversations[v] = {saved.row}
    BY <1>1, <2>3
  <2>6. \A m \in Messages : o # m /\ e.messages[m] =
             IF o = Of[m] /\ saved.messages[m] # {} THEN PutBack(saved.messages[m], d.messages[m]) ELSE d.messages[m]
    BY <1>1, <2>2, <2>3
  <2> QED BY <2>4, <2>5, <2>6 DEF BroughtBack
<1>5. CASE o \notin Cards \cup Chats
  <2>1. e = [back EXCEPT !.messages[o] = PutBack({saved.row}, back.messages[o])] /\ o \in Messages
    BY <1>5 DEF Restored, Objects, back
  <2>2. o \notin Chats /\ \A m \in Messages : Of[m] # o
    BY <1>5
  <2> HIDE DEF e
  <2>3. /\ Tables(e) /\ e.tombstones = back.tombstones /\ e.conversations = back.conversations
        /\ \A m \in Messages : e.messages[m] = IF m = o THEN PutBack({saved.row}, back.messages[o]) ELSE back.messages[m]
    BY <1>1, <2>1 DEF Tables
  <2>4. Tables(e) /\ e.tombstones = [d.tombstones EXCEPT ![o] = {}]
    BY <1>1, <2>3
  <2>5. \A v \in Chats : v # o /\ e.conversations[v] = d.conversations[v]
    BY <1>1, <2>2, <2>3
  <2>6. \A m \in Messages : o # Of[m] /\ e.messages[m] = IF o = m THEN PutBack({saved.row}, d.messages[m]) ELSE d.messages[m]
    BY <1>1, <2>2, <2>3
  <2> QED BY <2>4, <2>5, <2>6 DEF BroughtBack
<1> QED BY <1>3, <1>4, <1>5

(* What was saved comes back whatever is there. *)
LEMMA PutBackSome == \A saved, there : PutBack(saved, there) = {} <=> saved = {}
<1> SUFFICES ASSUME NEW saved, NEW there
             PROVE  PutBack(saved, there) = {} <=> saved = {}
  OBVIOUS
<1>1. saved = {} => PutBack(saved, there) = {}
  BY DEF PutBack
<1>2. ASSUME NEW x \in saved
      PROVE  PutBack(saved, there) # {}
  <2>1. [x EXCEPT !.context = @ \/ \E y \in there : y.context] \in PutBack(saved, there)
    BY <1>2 DEF PutBack
  <2> QED BY <2>1
<1> QED BY <1>1, <1>2

(* A restore that meets its conditions breaks no key. *)
LEMMA RestoredSound ==
  ASSUME NEW d, Sound(d), NEW o \in Objects, NEW saved, Restorable(d, o, saved)
  PROVE  /\ Sound(Restored(d, o, saved))
         /\ \A v \in Chats : v # o => (Restored(d, o, saved).conversations[v] = {} <=> d.conversations[v] = {})
<1> USE RecordsAssumption
<1> DEFINE e == Restored(d, o, saved)
<1>1. BroughtBack(d, o, saved, e)
  BY RestoredTables
<1>2. DOMAIN d.tombstones = Objects /\ PrimaryKeys(d) /\ ForeignKeys(d)
  BY DEF Sound, Tables
<1>3. SUFFICES Sound(e) /\ \A v \in Chats : v # o => (e.conversations[v] = {} <=> d.conversations[v] = {})
  OBVIOUS
<1> HIDE DEF e
<1>4. ASSUME NEW v \in Chats
      PROVE  /\ Single(e.conversations[v])
             /\ v # o => (e.conversations[v] = {} <=> d.conversations[v] = {})
  <2>1. Single(d.conversations[v])
    BY <1>2 DEF PrimaryKeys
  <2>2. CASE v = o /\ e.conversations[v] = {saved.row}
    BY <2>2 DEF Single
  <2>3. CASE v # o /\ e.conversations[v] = d.conversations[v]
    BY <2>1, <2>3
  <2>4. CASE v # o /\ e.conversations[v] = Relinked(d.conversations[v], v, o, saved)
    <3>1. Single(e.conversations[v])
      BY <2>1, <2>4 DEF Single, Relinked
    <3>2. d.conversations[v] = {} => e.conversations[v] = {}
      BY <2>4 DEF Relinked
    <3>3. ASSUME NEW x \in d.conversations[v]
          PROVE  e.conversations[v] # {}
      <4> DEFINE y == IF v \in saved.links /\ x.character = {} THEN [x EXCEPT !.character = {o}] ELSE x
      <4>1. y \in e.conversations[v]
        BY <2>4, <3>3 DEF Relinked
      <4> QED BY <4>1
    <3> QED BY <3>1, <3>2, <3>3
  <2> QED BY <1>1, <2>2, <2>3, <2>4 DEF BroughtBack
<1>5. PrimaryKeys(e)
  <2>1. \A v \in Chats : v \in Objects
    BY DEF Objects
  <2>2. \A v \in Chats : e.tombstones[v] = {} \/ e.tombstones[v] = d.tombstones[v]
    BY <1>1, <1>2, <2>1 DEF BroughtBack
  <2>3. ASSUME NEW v \in Chats
        PROVE  Single(e.tombstones[v]) /\ \A t \in e.tombstones[v] : Single(t.payload)
    BY <1>2, <2>2, <2>3 DEF PrimaryKeys, Single
  <2> QED BY <1>4, <2>3 DEF PrimaryKeys
<1>6. ForeignKeys(e)
  <2>1. ASSUME NEW m \in Messages, e.messages[m] # {}
        PROVE  e.conversations[Of[m]] # {}
    <3>1. Of[m] \in Chats /\ Of[m] # m
      OBVIOUS
    <3>2. CASE Of[m] = o
      BY <1>1, <3>1, <3>2 DEF BroughtBack
    <3>3. CASE Of[m] # o
      <4>1. d.conversations[Of[m]] # {}
        <5>1. CASE o = m
          BY <5>1 DEF Restorable
        <5>2. CASE o # m
          BY <1>1, <1>2, <2>1, <3>3, <5>2 DEF ForeignKeys, BroughtBack
        <5> QED BY <5>1, <5>2
      <4> QED BY <1>4, <3>1, <3>3, <4>1
    <3> QED BY <3>2, <3>3
  <2> QED BY <2>1 DEF ForeignKeys
<1> QED BY <1>1, <1>4, <1>5, <1>6 DEF Sound, BroughtBack

(* A restore of the payload that is there loses nothing. *)
LEMMA RestoredRecoverable ==
  ASSUME NEW d, Sound(d), NEW o \in Objects, NEW saved, Restorable(d, o, saved),
         \E t \in d.tombstones[o] : saved \in t.payload, NEW m \in Messages, Recoverable(d, m)
  PROVE  Recoverable(Restored(d, o, saved), m)
<1> USE RecordsAssumption
<1> DEFINE e == Restored(d, o, saved)
<1>1. BroughtBack(d, o, saved, e)
  BY RestoredTables
<1>2. \A v \in Chats : v # o => (e.conversations[v] = {} <=> d.conversations[v] = {})
  BY RestoredSound
<1>3. /\ DOMAIN d.tombstones = Objects /\ PrimaryKeys(d)
      /\ Of[m] \in Chats /\ m \in Objects /\ Of[m] \in Objects /\ Of[m] # m
  BY DEF Sound, Tables, Objects
<1>4. SUFFICES Recoverable(e, m)
  OBVIOUS
<1> HIDE DEF e
<1>5. \A k \in Objects : k # o => e.tombstones[k] = d.tombstones[k]
  BY <1>1, <1>3 DEF BroughtBack
<1>6. CASE d.messages[m] # {} \/ o = m
  <2>1. e.messages[m] # {}
    BY <1>1, <1>6, PutBackSome DEF BroughtBack
  <2> QED BY <2>1 DEF Recoverable
<1>7. CASE o # m /\ \E t \in d.tombstones[m] : t.payload # {}
  BY <1>3, <1>5, <1>7 DEF Recoverable
<1>8. CASE o # m /\ d.conversations[Of[m]] = {} /\ \E t \in d.tombstones[Of[m]] : \E x \in t.payload : x.messages[m] # {}
  <2>1. CASE o = Of[m]
    <3>1. saved.messages[m] # {}
      BY <1>3, <1>8, <2>1 DEF PrimaryKeys, Single
    <3>2. e.messages[m] # {}
      BY <1>1, <1>8, <2>1, <3>1, PutBackSome DEF BroughtBack
    <3> QED BY <3>2 DEF Recoverable
  <2>2. CASE o # Of[m]
    <3>1. e.conversations[Of[m]] = {} /\ e.tombstones[Of[m]] = d.tombstones[Of[m]]
      BY <1>2, <1>3, <1>5, <1>8, <2>2
    <3> QED BY <1>8, <3>1 DEF Recoverable
  <2> QED BY <2>1, <2>2
<1> QED BY <1>6, <1>7, <1>8 DEF Recoverable
----------------------------------------------------------------------------
(* Whoever writes a card, a row, or a message loses no message. *)
LEMMA CardsWritten ==
  ASSUME LedgerInv, NEW c, NEW X, db' = [db EXCEPT !.characters[c] = X], UNCHANGED fate
  PROVE  LedgerInv'
<1>1. Tables(db)
  BY DEF LedgerInv, Sound
<1>2. Tables(db)' /\ db'.conversations = db.conversations /\ db'.messages = db.messages /\ db'.tombstones = db.tombstones
  BY <1>1 DEF Tables
<1>3. Sound(db)'
  BY <1>2 DEF LedgerInv, Sound, PrimaryKeys, ForeignKeys
<1>4. NothingUnrecoverable'
  BY <1>2 DEF LedgerInv, NothingUnrecoverable, Recoverable
<1> QED BY <1>3, <1>4 DEF LedgerInv

LEMMA RowRewritten ==
  ASSUME LedgerInv, NEW v \in Chats, NEW X, db' = [db EXCEPT !.conversations[v] = X], UNCHANGED fate,
         Single(X), X = {} <=> db.conversations[v] = {}
  PROVE  LedgerInv'
<1> USE RecordsAssumption
<1>1. Sound(db) /\ Tables(db)
  BY DEF LedgerInv, Sound
<1>2. /\ Tables(db)' /\ db'.messages = db.messages /\ db'.tombstones = db.tombstones
      /\ db'.conversations[v] = X /\ \A w \in Chats : w # v => db'.conversations[w] = db.conversations[w]
  BY <1>1 DEF Tables
<1>3. \A w \in Chats : db'.conversations[w] = {} <=> db.conversations[w] = {}
  BY <1>2
<1>4. PrimaryKeys(db)'
  BY <1>1, <1>2 DEF Sound, PrimaryKeys
<1>5. ForeignKeys(db)'
  BY <1>1, <1>2, <1>3 DEF Sound, ForeignKeys
<1>6. NothingUnrecoverable'
  BY <1>2, <1>3 DEF LedgerInv, NothingUnrecoverable, Recoverable
<1>7. Sound(db)'
  BY <1>2, <1>4, <1>5 DEF Sound
<1> QED BY <1>6, <1>7 DEF LedgerInv

LEMMA RowCreated ==
  ASSUME LedgerInv, NEW v \in Chats, NEW X, db' = [db EXCEPT !.conversations[v] = X], Expose(v), Single(X), X # {}
  PROVE  LedgerInv'
<1> USE RecordsAssumption
<1>1. Sound(db) /\ Tables(db)
  BY DEF LedgerInv, Sound
<1>2. /\ Tables(db)' /\ db'.messages = db.messages /\ db'.tombstones = db.tombstones
      /\ db'.conversations[v] = X /\ \A w \in Chats : w # v => db'.conversations[w] = db.conversations[w]
  BY <1>1 DEF Tables
<1>3. PrimaryKeys(db)'
  BY <1>1, <1>2 DEF Sound, PrimaryKeys
<1>4. ForeignKeys(db)'
  BY <1>1, <1>2 DEF Sound, ForeignKeys
<1>5. DOMAIN fate' = Messages
  BY DEF Expose
<1>6. ASSUME NEW m \in Messages, fate'[m] = "kept"
      PROVE  Recoverable(db, m)'
  <2>1. fate[m] = "kept" /\ ~ \E t \in db.tombstones[v] : \E saved \in t.payload : Of[m] = v /\ saved.messages[m] # {}
    BY <1>6 DEF Expose
  <2>2. Recoverable(db, m)
    BY <2>1 DEF LedgerInv, NothingUnrecoverable
  <2>3. CASE Of[m] = v
    BY <1>2, <2>1, <2>2, <2>3 DEF Recoverable
  <2>4. CASE Of[m] # v
    BY <1>2, <2>2, <2>4 DEF Recoverable
  <2> QED BY <2>3, <2>4
<1>7. NothingUnrecoverable'
  BY <1>6 DEF NothingUnrecoverable
<1>8. Sound(db)'
  BY <1>2, <1>3, <1>4 DEF Sound
<1> QED BY <1>5, <1>7, <1>8 DEF LedgerInv

LEMMA MessageWritten ==
  ASSUME LedgerInv, NEW m \in Messages, NEW X, X # {}, db.conversations[Of[m]] # {},
         db' = [db EXCEPT !.messages[m] = X], fate' = fate \/ fate' = [fate EXCEPT ![m] = "kept"]
  PROVE  LedgerInv'
<1> USE RecordsAssumption
<1>1. Sound(db) /\ Tables(db)
  BY DEF LedgerInv, Sound
<1>2. /\ Tables(db)' /\ db'.conversations = db.conversations /\ db'.tombstones = db.tombstones
      /\ db'.messages[m] = X /\ \A k \in Messages : k # m => db'.messages[k] = db.messages[k]
  BY <1>1 DEF Tables
<1>3. PrimaryKeys(db)'
  BY <1>1, <1>2 DEF Sound, PrimaryKeys
<1>4. ForeignKeys(db)'
  BY <1>1, <1>2 DEF Sound, ForeignKeys
<1>5. DOMAIN fate' = Messages
  BY DEF LedgerInv
<1>6. ASSUME NEW k \in Messages, fate'[k] = "kept"
      PROVE  Recoverable(db, k)'
  <2>1. CASE k = m
    BY <1>2, <2>1 DEF Recoverable
  <2>2. CASE k # m
    <3>1. fate[k] = "kept"
      BY <1>6, <2>2 DEF LedgerInv
    <3>2. Recoverable(db, k)
      BY <3>1 DEF LedgerInv, NothingUnrecoverable
    <3> QED BY <1>2, <2>2, <3>2 DEF Recoverable
  <2> QED BY <2>1, <2>2
<1>7. NothingUnrecoverable'
  BY <1>6 DEF NothingUnrecoverable
<1>8. Sound(db)'
  BY <1>2, <1>3, <1>4 DEF Sound
<1> QED BY <1>5, <1>7, <1>8 DEF LedgerInv

(* A deletion keeps what it takes away; a restore gives it back, unless    *)
(* its payload was replaced; purging and forgetting drop on purpose.       *)
LEMMA ObjectErased ==
  ASSUME LedgerInv, NEW o \in Objects, db' = Erased(db, o), UNCHANGED fate
  PROVE  LedgerInv'
<1>1. Sound(db)
  BY DEF LedgerInv
<1>2. Sound(db')
  BY <1>1, ErasedSound
<1>3. ASSUME NEW m \in Messages, fate'[m] = "kept"
      PROVE  Recoverable(db', m)
  BY <1>1, <1>3, ErasedRecoverable DEF LedgerInv, NothingUnrecoverable
<1>4. NothingUnrecoverable'
  BY <1>3 DEF NothingUnrecoverable
<1> QED BY <1>2, <1>4 DEF LedgerInv

LEMMA OthersDropped ==
  ASSUME DOMAIN fate = Messages, Sound(db)', Drop
  PROVE  LedgerInv'
<1>1. \A m \in Messages : fate'[m] = "kept" => Recoverable(db', m)
  BY DEF Drop
<1>2. DOMAIN fate' = Messages
  BY DEF Drop
<1>3. NothingUnrecoverable'
  BY <1>1 DEF NothingUnrecoverable
<1> QED BY <1>2, <1>3 DEF LedgerInv

LEMMA ObjectRestored ==
  ASSUME LedgerInv, NEW o \in Objects, NEW saved, Restorable(db, o, saved), db' = Restored(db, o, saved),
         Drop \/ ((\E t \in db.tombstones[o] : saved \in t.payload) /\ UNCHANGED fate)
  PROVE  LedgerInv'
<1>1. Sound(db) /\ DOMAIN fate = Messages
  BY DEF LedgerInv
<1>2. Sound(db')
  BY <1>1, RestoredSound
<1>3. CASE Drop
  BY <1>1, <1>2, <1>3, OthersDropped
<1>4. CASE (\E t \in db.tombstones[o] : saved \in t.payload) /\ UNCHANGED fate
  <2>1. ASSUME NEW m \in Messages, fate'[m] = "kept"
        PROVE  Recoverable(db', m)
    BY <1>1, <1>4, <2>1, RestoredRecoverable DEF LedgerInv, NothingUnrecoverable
  <2>2. NothingUnrecoverable'
    BY <2>1 DEF NothingUnrecoverable
  <2> QED BY <1>1, <1>2, <1>4, <2>2 DEF LedgerInv
<1> QED BY <1>3, <1>4

LEMMA TombstoneSettled ==
  ASSUME LedgerInv, NEW o \in Objects, NEW T, db' = [db EXCEPT !.tombstones[o] = T], Drop,
         Single(T), \A t \in T : t.payload = {}
  PROVE  LedgerInv'
<1>1. Sound(db) /\ Tables(db) /\ DOMAIN fate = Messages
  BY DEF LedgerInv, Sound
<1>2. /\ Tables(db)' /\ db'.conversations = db.conversations /\ db'.messages = db.messages
      /\ db'.tombstones[o] = T /\ \A k \in Objects : k # o => db'.tombstones[k] = db.tombstones[k]
  BY <1>1 DEF Tables
<1>3. ForeignKeys(db)'
  BY <1>1, <1>2 DEF Sound, ForeignKeys
<1>4. ASSUME NEW v \in Chats
      PROVE  Single(db'.tombstones[v]) /\ \A t \in db'.tombstones[v] : Single(t.payload)
  <2>1. v \in Objects
    BY DEF Objects
  <2>2. CASE v = o
    BY <1>2, <2>2 DEF Single
  <2>3. CASE v # o
    <3>1. db'.tombstones[v] = db.tombstones[v]
      BY <1>2, <2>1, <2>3
    <3> QED BY <1>1, <3>1 DEF Sound, PrimaryKeys
  <2> QED BY <2>2, <2>3
<1>5. PrimaryKeys(db)'
  BY <1>1, <1>2, <1>4 DEF Sound, PrimaryKeys
<1>6. Sound(db)'
  BY <1>2, <1>3, <1>5 DEF Sound
<1> QED BY <1>1, <1>6, OthersDropped
----------------------------------------------------------------------------
(* The handlers of the clients. *)
LEMMA StepTaken ==
  ASSUME CallInv, NEW p \in Clients, NEW step, About(step), call' = [call EXCEPT ![p] = step]
  PROVE  CallInv'
BY DEF CallInv

LEMMA HandlerReturned ==
  ASSUME CallInv, NEW p \in Clients, Return(p)
  PROVE  CallInv'
<1>1. About(Idle)
  BY DEF About
<1> QED BY <1>1, StepTaken DEF Return

LEMMA FencePassed ==
  ASSUME CallInv, NEW p \in Clients, NEW place, Continue(p, [call[p] EXCEPT !.op = place]),
         \/ call[p].op = "fence_character" /\ place = "save_character"
         \/ call[p].op = "fence_conversation" /\ place = "create_conversation"
  PROVE  CallInv'
<1>1. About(call[p]) /\ call[p].op # "idle"
  BY DEF CallInv
<1>2. {"op", "on"} \subseteq DOMAIN call[p] /\ (call[p].op \in RowSteps => call[p].on \in Chats)
  BY <1>1 DEF About, Idle
<1> DEFINE step == [call[p] EXCEPT !.op = place]
<1>3. {"op", "on"} \subseteq DOMAIN step /\ step.op = place /\ step.on = call[p].on
  BY <1>2
<1>4. About(step)
  BY <1>2, <1>3 DEF About, RowSteps
<1>5. call' = [call EXCEPT ![p] = step]
  BY DEF Continue
<1> HIDE DEF step
<1> QED BY <1>4, <1>5, StepTaken

LEMMA HandleKeepsCalls ==
  ASSUME CallInv, NEW p \in Clients, Handle(p)
  PROVE  CallInv'
<1>1. ASSUME NEW c \in Cards, NEW text \in Texts, AskSaveCharacter(p, c, text)
      PROVE  CallInv'
  <2> DEFINE step == [op |-> "fence_character", on |-> c, with |-> [space |-> Home, text |-> text]]
  <2>1. About(step)
    BY DEF About, RowSteps
  <2>2. call' = [call EXCEPT ![p] = step]
    BY <1>1 DEF AskSaveCharacter, Start
  <2> HIDE DEF step
  <2> QED BY <2>1, <2>2, StepTaken
<1>2. ASSUME FenceCharacter(p)
      PROVE  CallInv'
  BY <1>2, HandlerReturned, FencePassed DEF FenceCharacter
<1>3. ASSUME FenceConversation(p)
      PROVE  CallInv'
  BY <1>3, HandlerReturned, FencePassed DEF FenceConversation
<1>4. ASSUME NEW v \in Chats, NEW c \in Cards, AskCreate(p, v, c)
      PROVE  CallInv'
  <2> DEFINE step == [op |-> "fence_conversation", on |-> v, with |-> c]
  <2>1. About(step)
    BY DEF About, RowSteps
  <2>2. call' = [call EXCEPT ![p] = step]
    BY <1>4 DEF AskCreate, Start
  <2> HIDE DEF step
  <2> QED BY <2>1, <2>2, StepTaken
<1>5. ASSUME NEW m \in Messages, AskSay(p, m)
      PROVE  CallInv'
  <2> DEFINE step == [op |-> "say", on |-> m]
  <2>1. About(step)
    BY DEF About, RowSteps
  <2>2. call' = [call EXCEPT ![p] = step]
    BY <1>5 DEF AskSay, Start
  <2> HIDE DEF step
  <2> QED BY <2>1, <2>2, StepTaken
<1>6. ASSUME NEW v \in Chats, NEW text \in Texts, AskRename(p, v, text)
      PROVE  CallInv'
  <2> DEFINE step == [op |-> "rename", on |-> v, with |-> text]
  <2>1. About(step)
    BY DEF About, RowSteps
  <2>2. call' = [call EXCEPT ![p] = step]
    BY <1>6 DEF AskRename, Start
  <2> HIDE DEF step
  <2> QED BY <2>1, <2>2, StepTaken
<1>7. ASSUME NEW o \in Objects, AskDelete(p, o)
      PROVE  CallInv'
  <2> DEFINE step == [op |-> "delete", on |-> o]
  <2>1. About(step)
    BY DEF About, RowSteps
  <2>2. call' = [call EXCEPT ![p] = step]
    BY <1>7 DEF AskDelete, Start
  <2> HIDE DEF step
  <2> QED BY <2>1, <2>2, StepTaken
<1>8. ASSUME NEW o \in Objects, AskRestore(p, o)
      PROVE  CallInv'
  <2>1. PICK saved : Start(p, [op |-> "restore", on |-> o, with |-> saved])
    BY <1>8 DEF AskRestore
  <2> DEFINE step == [op |-> "restore", on |-> o, with |-> saved]
  <2>2. About(step)
    BY DEF About, RowSteps
  <2>3. call' = [call EXCEPT ![p] = step]
    BY <2>1 DEF Start
  <2> HIDE DEF step
  <2> QED BY <2>2, <2>3, StepTaken
<1>9. ASSUME SaveCharacter(p) \/ CreateConversation(p) \/ Say(p) \/ Rename(p) \/ DeleteObject(p) \/ Restore(p)
      PROVE  CallInv'
  BY <1>9, HandlerReturned DEF SaveCharacter, CreateConversation, Say, Rename, DeleteObject, Restore
<1> QED BY <1>1, <1>2, <1>3, <1>4, <1>5, <1>6, <1>7, <1>8, <1>9 DEF Handle

LEMMA OperateKeepsCalls ==
  ASSUME CallInv, Operate
  PROVE  CallInv'
<1>1. CASE \E p \in Clients : Handle(p)
  BY <1>1, HandleKeepsCalls
<1>2. CASE UNCHANGED call
  BY <1>2 DEF CallInv
<1> QED BY <1>1, <1>2 DEF Operate, EditMessage, SetArchived, Purge, Forget

(* What each of them does to the tables. *)
LEMMA Untouched ==
  ASSUME LedgerInv, UNCHANGED <<db, fate>>
  PROVE  LedgerInv'
BY DEF LedgerInv, Sound, Tables, PrimaryKeys, ForeignKeys, NothingUnrecoverable, Recoverable

LEMMA ConversationCreated ==
  ASSUME LedgerInv, CallInv, NEW p \in Clients, CreateConversation(p)
  PROVE  LedgerInv'
<1> DEFINE v == call[p].on
           X == {[space |-> Home, character |-> {call[p].with}, title |-> First, archived |-> FALSE]}
<1>1. v \in Chats
  BY DEF CreateConversation, CallInv, About, Idle, RowSteps
<1>2. CASE db' = [db EXCEPT !.conversations[v] = X] /\ Expose(v)
  <2>1. Single(X) /\ X # {}
    BY DEF Single
  <2> HIDE DEF X, v
  <2> QED BY <1>1, <1>2, <2>1, RowCreated
<1>3. CASE UNCHANGED <<db, fate>>
  BY <1>3, Untouched
<1> QED BY <1>2, <1>3 DEF CreateConversation

LEMMA MessageSaid ==
  ASSUME LedgerInv, CallInv, NEW p \in Clients, Say(p)
  PROVE  LedgerInv'
<1> DEFINE m == call[p].on
           X == {[text |-> First, context |-> TRUE]}
<1>1. m \in Messages
  BY DEF Say, CallInv, About, Idle
<1>2. CASE db.conversations[Of[m]] # {} /\ db' = [db EXCEPT !.messages[m] = X] /\ fate' = [fate EXCEPT ![m] = "kept"]
  <2>1. X # {}
    OBVIOUS
  <2> HIDE DEF X, m
  <2> QED BY <1>1, <1>2, <2>1, MessageWritten
<1>3. CASE UNCHANGED <<db, fate>>
  BY <1>3, Untouched
<1> QED BY <1>2, <1>3 DEF Say

LEMMA MessageEdited ==
  ASSUME LedgerInv, NEW m \in Messages, NEW text, EditMessage(m, text)
  PROVE  LedgerInv'
<1> DEFINE X == {[x EXCEPT !.text = text] : x \in db.messages[m]}
<1>1. db' = [db EXCEPT !.messages[m] = X] /\ fate' = fate /\ db.messages[m] # {}
  BY DEF EditMessage
<1>2. X # {}
  BY <1>1
<1>3. db.conversations[Of[m]] # {}
  BY <1>1 DEF LedgerInv, Sound, ForeignKeys
<1> HIDE DEF X
<1> QED BY <1>1, <1>2, <1>3, MessageWritten

LEMMA ConversationRenamed ==
  ASSUME LedgerInv, CallInv, NEW p \in Clients, Rename(p)
  PROVE  LedgerInv'
<1> DEFINE v == call[p].on
           X == {[x EXCEPT !.title = call[p].with] : x \in db.conversations[v]}
<1>1. v \in Chats
  BY DEF Rename, CallInv, About, Idle, RowSteps
<1>2. db' = [db EXCEPT !.conversations[v] = X] /\ fate' = fate
  BY DEF Rename
<1>3. Single(X) /\ (X = {} <=> db.conversations[v] = {})
  <2>1. Single(db.conversations[v])
    BY <1>1 DEF LedgerInv, Sound, PrimaryKeys
  <2>2. Single(X)
    <3> SUFFICES ASSUME NEW a \in X, NEW b \in X
                 PROVE  a = b
      BY DEF Single
    <3>1. PICK x \in db.conversations[v] : a = [x EXCEPT !.title = call[p].with]
      OBVIOUS
    <3>2. PICK y \in db.conversations[v] : b = [y EXCEPT !.title = call[p].with]
      OBVIOUS
    <3> QED BY <2>1, <3>1, <3>2 DEF Single
  <2>3. X = {} => db.conversations[v] = {}
    OBVIOUS
  <2>4. db.conversations[v] = {} => X = {}
    OBVIOUS
  <2> QED BY <2>2, <2>3, <2>4
<1> HIDE DEF X, v
<1> QED BY <1>1, <1>2, <1>3, RowRewritten

LEMMA ConversationFiled ==
  ASSUME LedgerInv, NEW v \in Chats, NEW archived, SetArchived(v, archived)
  PROVE  LedgerInv'
<1> DEFINE X == {[x EXCEPT !.archived = archived] : x \in db.conversations[v]}
<1>1. db' = [db EXCEPT !.conversations[v] = X] /\ fate' = fate
  BY DEF SetArchived
<1>2. Single(X) /\ (X = {} <=> db.conversations[v] = {})
  <2>1. Single(db.conversations[v])
    BY DEF LedgerInv, Sound, PrimaryKeys
  <2>2. Single(X)
    <3> SUFFICES ASSUME NEW a \in X, NEW b \in X
                 PROVE  a = b
      BY DEF Single
    <3>1. PICK x \in db.conversations[v] : a = [x EXCEPT !.archived = archived]
      OBVIOUS
    <3>2. PICK y \in db.conversations[v] : b = [y EXCEPT !.archived = archived]
      OBVIOUS
    <3> QED BY <2>1, <3>1, <3>2 DEF Single
  <2>3. X = {} => db.conversations[v] = {}
    OBVIOUS
  <2>4. db.conversations[v] = {} => X = {}
    OBVIOUS
  <2> QED BY <2>2, <2>3, <2>4
<1> HIDE DEF X
<1> QED BY <1>1, <1>2, RowRewritten

LEMMA TombstoneCleared ==
  ASSUME LedgerInv, NEW o \in Objects, Purge(o) \/ Forget(o)
  PROVE  LedgerInv'
<1>1. CASE Purge(o)
  <2> DEFINE T == {[payload |-> {}, hidden |-> TRUE]}
  <2>1. db' = [db EXCEPT !.tombstones[o] = T] /\ Drop
    BY <1>1 DEF Purge
  <2>2. Single(T) /\ \A t \in T : t.payload = {}
    BY DEF Single
  <2> HIDE DEF T
  <2> QED BY <2>1, <2>2, TombstoneSettled
<1>2. CASE Forget(o)
  <2> DEFINE T == {}
  <2>1. db' = [db EXCEPT !.tombstones[o] = T] /\ Drop
    BY <1>2 DEF Forget
  <2>2. Single(T) /\ \A t \in T : t.payload = {}
    BY DEF Single
  <2> HIDE DEF T
  <2> QED BY <2>1, <2>2, TombstoneSettled
<1> QED BY <1>1, <1>2

LEMMA DeletionDone ==
  ASSUME LedgerInv, CallInv, NEW p \in Clients, DeleteObject(p)
  PROVE  LedgerInv'
<1>1. call[p].on \in Objects
  BY DEF DeleteObject, CallInv, About, Idle
<1>2. db' = Erased(db, call[p].on) /\ UNCHANGED fate
  BY DEF DeleteObject
<1> QED BY <1>1, <1>2, ObjectErased

LEMMA RestoreDone ==
  ASSUME LedgerInv, CallInv, NEW p \in Clients, Restore(p)
  PROVE  LedgerInv'
<1> DEFINE o == call[p].on
           saved == call[p].with
<1>1. o \in Objects
  BY DEF Restore, CallInv, About, Idle
<1>2. CASE UNCHANGED <<db, fate>>
  BY <1>2, Untouched
<1>3. CASE /\ Restorable(db, o, saved) /\ db' = Restored(db, o, saved)
           /\ Drop \/ ((\E t \in db.tombstones[o] : saved \in t.payload) /\ UNCHANGED fate)
  <2> HIDE DEF o, saved
  <2> QED BY <1>1, <1>3, ObjectRestored
<1> QED BY <1>2, <1>3 DEF Restore

LEMMA CharacterSaved ==
  ASSUME LedgerInv, NEW p \in Clients, SaveCharacter(p)
  PROVE  LedgerInv'
<1> DEFINE c == call[p].on
           X == {call[p].with}
<1>1. db' = [db EXCEPT !.characters[c] = X] /\ UNCHANGED fate
  BY DEF SaveCharacter
<1> HIDE DEF c, X
<1> QED BY <1>1, CardsWritten

LEMMA OperateKeepsLedger ==
  ASSUME LedgerInv, CallInv, Operate
  PROVE  LedgerInv'
<1>1. ASSUME NEW p \in Clients, Handle(p)
      PROVE  LedgerInv'
  <2>1. CASE UNCHANGED <<db, fate>>
    BY <2>1, Untouched
  <2>2. CASE SaveCharacter(p) \/ CreateConversation(p) \/ Say(p) \/ Rename(p) \/ DeleteObject(p) \/ Restore(p)
    BY <2>2, CharacterSaved, ConversationCreated, MessageSaid, ConversationRenamed, DeletionDone, RestoreDone
  <2> QED BY <1>1, <2>1, <2>2
       DEF Handle, AskSaveCharacter, FenceCharacter, FenceConversation, AskCreate, AskSay, AskRename, AskDelete, AskRestore
<1> QED BY <1>1, MessageEdited, ConversationFiled, TombstoneCleared DEF Operate
----------------------------------------------------------------------------
(* An import writes what the container has. *)
LEMMA CardImported ==
  ASSUME LedgerInv, SaveCard
  PROVE  LedgerInv'
<1> DEFINE c == Item
           X == {[space |-> job.target, text |-> x.text] : x \in pack.characters[Item]}
<1>1. db' = [db EXCEPT !.characters[c] = X] /\ UNCHANGED fate
  BY DEF SaveCard
<1> HIDE DEF c, X
<1> QED BY <1>1, CardsWritten

LEMMA ConversationRetitled ==
  ASSUME LedgerInv, JobInv, NEW v \in Chats, Retitle(v)
  PROVE  LedgerInv'
<1> DEFINE X == {[x EXCEPT !.title = y.title] : x \in db.conversations[v], y \in pack.conversations[v]}
<1>1. CASE UNCHANGED db
  BY <1>1, Untouched DEF Retitle
<1>2. CASE db' = [db EXCEPT !.conversations[v] = X]
  <2>1. Single(db.conversations[v]) /\ Single(pack.conversations[v])
    BY DEF LedgerInv, Sound, PrimaryKeys, JobInv
  <2>2. pack.conversations[v] # {}
    BY DEF Retitle, JobInv, Present
  <2>3. Single(X)
    <3> SUFFICES ASSUME NEW a \in X, NEW b \in X
                 PROVE  a = b
      BY DEF Single
    <3>1. PICK x \in db.conversations[v], y \in pack.conversations[v] : a = [x EXCEPT !.title = y.title]
      OBVIOUS
    <3>2. PICK xx \in db.conversations[v], yy \in pack.conversations[v] : b = [xx EXCEPT !.title = yy.title]
      OBVIOUS
    <3> QED BY <2>1, <3>1, <3>2 DEF Single
  <2>4. ASSUME NEW x \in db.conversations[v]
        PROVE  X # {}
    <3>1. PICK y \in pack.conversations[v] : TRUE
      BY <2>2
    <3>2. [x EXCEPT !.title = y.title] \in X
      OBVIOUS
    <3> QED BY <3>2
  <2>5. db.conversations[v] = {} => X = {}
    OBVIOUS
  <2>6. UNCHANGED fate
    BY DEF Retitle
  <2> HIDE DEF X
  <2> QED BY <1>2, <2>3, <2>4, <2>5, <2>6, RowRewritten
<1> QED BY <1>1, <1>2 DEF Retitle

LEMMA ItemOf ==
  ASSUME NEW v, job.item = {v}
  PROVE  Item = v
BY DEF Item

LEMMA ConversationRearchived ==
  ASSUME LedgerInv, JobInv, Rearchive
  PROVE  LedgerInv'
<1>1. PICK v \in Chats : pack.conversations[v] # {} /\ job.item = {v}
  BY DEF Rearchive, JobInv
<1> DEFINE Marked(x, y) == IF x.space = job.target THEN [x EXCEPT !.archived = y.archived] ELSE x
           X == {Marked(x, y) : x \in db.conversations[v], y \in pack.conversations[v]}
<1>2. db' = [db EXCEPT !.conversations[v] = X] /\ UNCHANGED fate
  <2>1. Item = v
    BY <1>1, ItemOf
  <2> QED BY <2>1 DEF Rearchive
<1>3. Single(db.conversations[v]) /\ Single(pack.conversations[v])
  BY DEF LedgerInv, Sound, PrimaryKeys, JobInv
<1>4. Single(X)
  <2> SUFFICES ASSUME NEW a \in X, NEW b \in X
               PROVE  a = b
    BY DEF Single
  <2> HIDE DEF Marked
  <2>1. PICK x \in db.conversations[v], y \in pack.conversations[v] : a = Marked(x, y)
    OBVIOUS
  <2>2. PICK xx \in db.conversations[v], yy \in pack.conversations[v] : b = Marked(xx, yy)
    OBVIOUS
  <2>3. x = xx /\ y = yy
    BY <1>3 DEF Single
  <2> QED BY <2>1, <2>2, <2>3
<1>5. ASSUME NEW x \in db.conversations[v]
      PROVE  X # {}
  <2>1. PICK y \in pack.conversations[v] : TRUE
    BY <1>1
  <2>2. Marked(x, y) \in X
    OBVIOUS
  <2> QED BY <2>2
<1>6. db.conversations[v] = {} => X = {}
  OBVIOUS
<1> HIDE DEF X
<1> QED BY <1>2, <1>4, <1>5, <1>6, RowRewritten

LEMMA ConversationImported ==
  ASSUME LedgerInv, JobInv, SaveNew
  PROVE  LedgerInv'
<1>1. PICK v \in Chats : pack.conversations[v] # {} /\ job.item = {v}
  BY DEF SaveNew, JobInv
<1> DEFINE NewRow(x) == [space |-> job.target, character |-> x.character \cap job.seen, title |-> x.title,
                         archived |-> IF db.conversations[v] = {} THEN x.archived ELSE Only(db.conversations[v]).archived]
           X == {NewRow(x) : x \in pack.conversations[v]}
<1> SUFFICES ASSUME ~UNCHANGED <<db, fate>>
             PROVE  LedgerInv'
  BY Untouched
<1>2. db' = [db EXCEPT !.conversations[v] = X] /\ Expose(v)
  <2>1. Item = v
    BY <1>1, ItemOf
  <2> QED BY <2>1 DEF SaveNew
<1>3. Single(pack.conversations[v])
  BY DEF JobInv
<1>4. Single(X)
  <2> SUFFICES ASSUME NEW a \in X, NEW b \in X
               PROVE  a = b
    BY DEF Single
  <2> HIDE DEF NewRow
  <2>1. PICK x \in pack.conversations[v] : a = NewRow(x)
    OBVIOUS
  <2>2. PICK y \in pack.conversations[v] : b = NewRow(y)
    OBVIOUS
  <2>3. x = y
    BY <1>3 DEF Single
  <2> QED BY <2>1, <2>2, <2>3
<1>5. X # {}
  BY <1>1
<1> HIDE DEF X
<1> QED BY <1>2, <1>4, <1>5, RowCreated

LEMMA MessageImported ==
  ASSUME LedgerInv, JobInv, NEW m \in Messages, SaveMessage(m)
  PROVE  LedgerInv'
<1> DEFINE X == pack.messages[m]
<1>1. X # {}
  BY DEF SaveMessage, JobInv, Present
<1>2. CASE UNCHANGED <<db, fate>>
  BY <1>2, Untouched
<1>3. CASE db.conversations[Of[m]] # {} /\ db' = [db EXCEPT !.messages[m] = X] /\ fate' = [fate EXCEPT ![m] = "kept"]
  <2> HIDE DEF X
  <2> QED BY <1>1, <1>3, MessageWritten
<1> QED BY <1>2, <1>3 DEF SaveMessage

LEMMA ImportKeepsLedger ==
  ASSUME LedgerInv, JobInv, Import
  PROVE  LedgerInv'
<1>1. CASE UNCHANGED <<db, fate>>
  BY <1>1, Untouched
<1>2. CASE SaveCard \/ Rearchive \/ SaveNew
  BY <1>2, CardImported, ConversationRearchived, ConversationImported
<1>3. ASSUME NEW v \in Chats, Retitle(v)
      PROVE  LedgerInv'
  BY <1>3, ConversationRetitled
<1>4. ASSUME NEW m \in Messages, SaveMessage(m)
      PROVE  LedgerInv'
  BY <1>4, MessageImported
<1> QED BY <1>1, <1>2, <1>3, <1>4
     DEF Import, BeginImport, BeginJob, Preflight, Reads, ImportCharacters, ImportConversations, ImportMessages, Phase,
         Done, FenceCard, FenceNew, Take, SaveProfile, ImportFiles

LEMMA ImportLeavesCalls ==
  ASSUME Import
  PROVE  UNCHANGED call
<1>2. CASE Reads
  BY <1>2 DEF Reads
<1>3. CASE Writes
  BY <1>3 DEF Writes
<1>4. CASE Preflight \/ ImportCharacters \/ ImportConversations \/ ImportMessages \/ Done("card", "conversations")
           \/ Done("conversation", "messages") \/ Done("message", "files")
  BY <1>2, <1>4 DEF Preflight, ImportCharacters, ImportConversations, ImportMessages, Phase, Done
<1>5. CASE SaveCard \/ SaveProfile \/ Rearchive \/ SaveNew \/ ImportFiles
  BY <1>3, <1>5 DEF SaveCard, SaveProfile, Rearchive, SaveNew, ImportFiles
<1>6. CASE \E mode \in {"keep_existing", "replace"}, target \in Spaces : BeginImport(mode, target)
  BY <1>6 DEF BeginImport, BeginJob
<1>7. CASE \E c \in Cards : FenceCard(c)
  BY <1>2, <1>7 DEF FenceCard, Take
<1>8. CASE \E v \in Chats : Retitle(v) \/ FenceNew(v)
  BY <1>2, <1>3, <1>8 DEF Retitle, FenceNew, Take
<1>9. CASE \E m \in Messages : SaveMessage(m)
  BY <1>3, <1>9 DEF SaveMessage
<1> QED BY <1>4, <1>5, <1>6, <1>7, <1>8, <1>9 DEF Import

LEMMA ImportKeepsCalls ==
  ASSUME CallInv, Import
  PROVE  CallInv'
BY ImportLeavesCalls DEF CallInv

----------------------------------------------------------------------------
(* Where a job goes. *)
LEMMA JobUntouched ==
  ASSUME JobInv, UNCHANGED <<pack, job>>
  PROVE  JobInv'
BY DEF JobInv, Present

LEMMA JobDisturbed ==
  ASSUME JobInv, UNCHANGED pack, job' = [job EXCEPT !.quiet = FALSE]
  PROVE  JobInv'
<1>1. /\ DOMAIN job' = DOMAIN job /\ job'.at = job.at
      /\ ("left" \in DOMAIN job => job'.left = job.left) /\ ("item" \in DOMAIN job => job'.item = job.item)
      /\ ("out" \in DOMAIN job => job'.out = job.out)
  BY DEF JobInv
<1> QED BY <1>1 DEF JobInv, Present, ImportPlaces, ExportPlaces

LEMMA JobOver ==
  ASSUME JobInv, UNCHANGED pack, "at" \in DOMAIN job', job'.at \in Over
  PROVE  JobInv'
<1>1. job'.at \notin ExportPlaces /\ job'.at \notin ImportPlaces
  BY DEF Over, ExportPlaces, ImportPlaces
<1> QED BY <1>1 DEF JobInv, ExportPlaces, ImportPlaces

LEMMA ExportKeepsJob ==
  ASSUME JobInv, LedgerInv, Export
  PROVE  JobInv'
<1> USE DEF Over, ExportPlaces, ImportPlaces
<1>1. CASE BeginExport
  BY <1>1 DEF BeginExport, BeginJob, Nothing, portable, JobInv
<1>2. CASE ExportCharacters
  BY <1>2 DEF ExportCharacters, Reads, portable, JobInv
<1>3. CASE ExportProfiles
  BY <1>3 DEF ExportProfiles, Reads, portable, JobInv
<1>4. CASE ExportConversations
  <2> DEFINE Packed(x) == [character |-> x.character, title |-> x.title, archived |-> x.archived]
             table == [v \in Chats |-> {Packed(x) : x \in {y \in db.conversations[v] : y.space = Home}}]
  <2>1. "out" \in DOMAIN job /\ "conversations" \in DOMAIN job.out /\ UNCHANGED pack
    BY <1>4 DEF JobInv, ExportConversations, Reads, portable
  <2>2. job' = [job EXCEPT !.at = "export_messages", !.out.conversations = table]
    BY <1>4 DEF ExportConversations
  <2>3. ASSUME NEW v \in Chats
        PROVE  Single(table[v])
    <3>1. Single(db.conversations[v])
      BY DEF LedgerInv, Sound, PrimaryKeys
    <3> HIDE DEF Packed
    <3> QED BY <3>1 DEF Single
  <2> HIDE DEF table
  <2>4. /\ "at" \in DOMAIN job' /\ "out" \in DOMAIN job' /\ "conversations" \in DOMAIN job'.out
        /\ job'.at = "export_messages" /\ job'.out.conversations = table
    BY <2>1, <2>2 DEF JobInv
  <2> QED BY <2>1, <2>3, <2>4 DEF JobInv
<1>5. CASE ExportMessages
  BY <1>5 DEF ExportMessages, Reads, portable, JobInv
<1>6. CASE ExportContexts
  BY <1>6 DEF ExportContexts, Reads, portable, JobInv
<1>7. CASE Create
  BY <1>7 DEF Create, NoJob, JobInv
<1> QED BY <1>1, <1>2, <1>3, <1>4, <1>5, <1>6, <1>7 DEF Export

LEMMA ImportKeepsJob ==
  ASSUME JobInv, Import
  PROVE  JobInv'
<1> USE DEF Over, ExportPlaces, ImportPlaces
<1>1. ASSUME NEW mode, NEW target, BeginImport(mode, target)
      PROVE  JobInv'
  BY <1>1 DEF BeginImport, BeginJob, portable, JobInv
<1>2. CASE Preflight
  BY <1>2 DEF Preflight, To, Reads, portable, JobInv
<1>3. CASE ImportCharacters
  BY <1>3 DEF ImportCharacters, Phase, Reads, portable, JobInv
<1>4. CASE SaveCard
  BY <1>4 DEF SaveCard, To, Writes, JobInv
<1>5. CASE SaveProfile
  BY <1>5 DEF SaveProfile, To, Writes, JobInv
<1>6. CASE Done("card", "conversations")
  BY <1>6 DEF Done, To, Reads, portable, JobInv
<1>7. CASE ImportConversations
  BY <1>7 DEF ImportConversations, Phase, Present, Reads, portable, JobInv
<1>8. CASE Rearchive
  BY <1>8 DEF Rearchive, To, Writes, JobInv
<1>9. CASE SaveNew
  BY <1>9 DEF SaveNew, To, Writes, JobInv
<1>10. CASE Done("conversation", "messages")
  BY <1>10 DEF Done, To, Reads, portable, JobInv
<1>11. CASE ImportMessages
  BY <1>11 DEF ImportMessages, Phase, Present, Reads, portable, JobInv
<1>12. CASE Done("message", "files")
  BY <1>12 DEF Done, To, Reads, portable, JobInv
<1>13. CASE ImportFiles
  BY <1>13, JobOver DEF ImportFiles, To, Writes, JobInv
<1>14. ASSUME NEW c \in Cards, FenceCard(c)
       PROVE  JobInv'
  BY <1>14 DEF FenceCard, Take, Reads, portable, JobInv
<1>15. ASSUME NEW v \in Chats, Retitle(v)
       PROVE  JobInv'
  <2>1. /\ "left" \in DOMAIN job /\ "item" \in DOMAIN job /\ "seen" \in DOMAIN job /\ "at" \in DOMAIN job
        /\ job.at = "conversation" /\ v \in Present(pack.conversations) /\ UNCHANGED pack
    BY <1>15 DEF Retitle, JobInv, Writes
  <2>2. CASE To("failed")
    BY <2>1, <2>2, JobOver DEF To
  <2>3. CASE job' = [job EXCEPT !.at = "archive", !.item = {v}, !.left = @ \ {v}]
    <3>1. /\ DOMAIN job' = DOMAIN job /\ job'.at = "archive" /\ job'.item = {v} /\ job'.left = job.left \ {v}
          /\ pack.conversations[v] # {}
      BY <2>1, <2>3 DEF Present
    <3>2. \E w \in Chats : pack'.conversations[w] # {} /\ job'.item = {w}
      BY <2>1, <3>1
    <3>3. job'.left \subseteq job.left
      BY <3>1
    <3> QED BY <2>1, <3>1, <3>2, <3>3 DEF JobInv
  <2> QED BY <1>15, <2>2, <2>3 DEF Retitle
<1>16. ASSUME NEW v \in Chats, FenceNew(v)
       PROVE  JobInv'
  BY <1>16 DEF FenceNew, Take, Present, Reads, portable, JobInv
<1>17. ASSUME NEW m \in Messages, SaveMessage(m)
       PROVE  JobInv'
  BY <1>17 DEF SaveMessage, To, Present, Writes, JobInv
<1> QED BY <1>1, <1>2, <1>3, <1>4, <1>5, <1>6, <1>7, <1>8, <1>9, <1>10, <1>11, <1>12, <1>13, <1>14, <1>15, <1>16, <1>17 DEF Import
----------------------------------------------------------------------------
LEMMA PortableInitially ==
  ASSUME PortableInit
  PROVE  RecordsInv
<1>1. PICK S \in {{}} \cup {{c} : c \in Cards} : db = InUse(S)
  BY DEF PortableInit, RecordsInit
<1>2. /\ Tables(db) /\ \A v \in Chats : db.tombstones[v] = {}
      /\ db.conversations =
           [v \in Chats |-> {[space |-> Home, character |-> {c}, title |-> First, archived |-> FALSE] : c \in S}]
      /\ db.messages = [m \in Messages |-> {[text |-> First, context |-> TRUE] : c \in IF m \in Old THEN S ELSE {}}]
  BY <1>1 DEF InUse, Empty, Tables, Objects
<1>3. Single(S)
  BY DEF Single
<1>4. PrimaryKeys(db)
  <2>1. ASSUME NEW v \in Chats
        PROVE  Single(db.conversations[v])
    <3> DEFINE Opened(c) == [space |-> Home, character |-> {c}, title |-> First, archived |-> FALSE]
    <3> SUFFICES ASSUME NEW x \in db.conversations[v], NEW y \in db.conversations[v]
                 PROVE  x = y
      BY DEF Single
    <3>1. db.conversations[v] = {Opened(c) : c \in S}
      BY <1>2
    <3> HIDE DEF Opened
    <3>2. PICK c \in S : x = Opened(c)
      BY <3>1
    <3>3. PICK e \in S : y = Opened(e)
      BY <3>1
    <3> QED BY <1>3, <3>2, <3>3 DEF Single
  <2>2. \A v \in Chats : Single(db.tombstones[v]) /\ \A t \in db.tombstones[v] : Single(t.payload)
    BY <1>2 DEF Single
  <2> QED BY <2>1, <2>2 DEF PrimaryKeys
<1>5. ForeignKeys(db)
  <2> SUFFICES ASSUME NEW m \in Messages, db.messages[m] # {}
               PROVE  db.conversations[Of[m]] # {}
    BY DEF ForeignKeys
  <2>1. PICK c \in S : TRUE
    BY <1>2
  <2>2. Of[m] \in Chats
    BY RecordsAssumption
  <2>3. [space |-> Home, character |-> {c}, title |-> First, archived |-> FALSE] \in db.conversations[Of[m]]
    BY <1>2, <2>2
  <2> QED BY <2>3
<1>6. fate = [m \in Messages |-> IF db.messages[m] = {} THEN "unused" ELSE "kept"]
  BY DEF PortableInit, RecordsInit
<1>7. NothingUnrecoverable
  BY <1>6 DEF NothingUnrecoverable, Recoverable
<1>8. LedgerInv
  BY <1>2, <1>4, <1>5, <1>6, <1>7 DEF LedgerInv, Sound
<1>9. CallInv
  BY DEF PortableInit, RecordsInit, CallInv, About
<1>10. JobInv
  <2>1. PICK text : pack = Foreign(text)
    BY DEF PortableInit
  <2>2. \A v \in Chats : Single(pack.conversations[v])
    BY <2>1 DEF Foreign, Single
  <2>3. job = NoJob
    BY DEF PortableInit
  <2> QED BY <2>2, <2>3 DEF JobInv, NoJob, Over, ExportPlaces, ImportPlaces
<1> QED BY <1>8, <1>9, <1>10 DEF RecordsInv

LEMMA PortableStep ==
  ASSUME RecordsInv, [PortableNext]_portableVars
  PROVE  RecordsInv'
<1> USE DEF RecordsInv
<1>1. CASE Manage
  <2>1. LedgerInv' /\ CallInv'
    BY <1>1, OperateKeepsLedger, OperateKeepsCalls DEF Manage
  <2>2. JobInv'
    BY <1>1, JobUntouched, JobDisturbed DEF Manage, portable
  <2> QED BY <2>1, <2>2
<1>2. CASE Export
  <2>1. UNCHANGED <<db, fate>> /\ UNCHANGED call
    BY <1>2 DEF Export, BeginExport, BeginJob, ExportCharacters, ExportProfiles, ExportConversations, ExportMessages,
                ExportContexts, Create, Reads
  <2>2. LedgerInv'
    BY <2>1, Untouched
  <2>3. CallInv'
    BY <2>1 DEF CallInv
  <2>4. JobInv'
    BY <1>2, ExportKeepsJob
  <2> QED BY <2>2, <2>3, <2>4
<1>3. CASE Import
  BY <1>3, ImportKeepsLedger, ImportKeepsCalls, ImportKeepsJob
<1>4. CASE Break
  <2>1. LedgerInv'
    BY <1>4, Untouched DEF Break
  <2>2. CallInv'
    BY <1>4 DEF Break, CallInv
  <2>3. JobInv'
    BY <1>4, JobOver DEF Break, To, portable, Over, JobInv
  <2> QED BY <2>1, <2>2, <2>3
<1>5. CASE Crash
  <2>1. LedgerInv'
    BY <1>5, Untouched DEF Crash
  <2>2. CallInv'
    BY <1>5 DEF Crash, CallInv, About
  <2>3. JobInv'
    BY <1>5, JobOver DEF Crash, NoJob, portable, Over
  <2> QED BY <2>1, <2>2, <2>3
<1>6. CASE UNCHANGED portableVars
  <2>1. UNCHANGED <<db, fate>> /\ UNCHANGED call /\ UNCHANGED <<pack, job>>
    BY <1>6 DEF portableVars
  <2>2. LedgerInv' /\ JobInv'
    BY <2>1, Untouched, JobUntouched
  <2>3. CallInv'
    BY <2>1 DEF CallInv
  <2> QED BY <2>2, <2>3
<1> QED BY <1>1, <1>2, <1>3, <1>4, <1>5, <1>6 DEF PortableNext

(* The tables, the calls and the job in every state: the handlers of       *)
(* api/runtime_api/local_data.rs and an import or export of portable.rs,   *)
(* interleaved by statement, failing and exiting anywhere.                 *)
THEOREM RecordsCorrect == PortableSpec => []RecordsInv
<1>1. PortableInit => RecordsInv
  BY PortableInitially
<1>2. RecordsInv /\ [PortableNext]_portableVars => RecordsInv'
  BY PortableStep
<1> QED BY <1>1, <1>2, PTL DEF PortableSpec

(* Whoever deletes, restores, purges, forgets, saves and imports in which  *)
(* order: a message nobody purged is there, or a restore brings it back    *)
(* (stage_delete, restore_recently_deleted), but for the races that fate   *)
(* marks.                                                                  *)
THEOREM NoMessageUnrecoverable == PortableSpec => []NothingUnrecoverable
<1>1. RecordsInv => NothingUnrecoverable
  BY DEF RecordsInv, LedgerInv
<1> QED BY <1>1, RecordsCorrect, PTL
----------------------------------------------------------------------------
(* A document is one file, and the clocks and histories of each pair of    *)
(* document and context are of one kind.                                   *)
IsDoc(d) == {"place", "weight", "refs"} \subseteq DOMAIN d /\ d.weight \in Int
IsClock(x) == /\ {"hit", "decay", "archived"} \subseteq DOMAIN x
              /\ x.hit \in Int /\ x.decay \in Int /\ x.archived \in Int

(* A context has a clock for a document exactly if it ever used it, and    *)
(* the clock never counts more turns than there were: since the hit or the *)
(* last decay, and since the document was found in the archive.            *)
ClockInv(id, k) ==
  /\ \A x \in clocks[id][k] : IsClock(x)
  /\ cooled[id][k] \subseteq Nat /\ shelved[id][k] \subseteq Nat
  /\ clocks[id][k] = {} <=> cooled[id][k] = {}
  /\ clocks[id][k] = {} <=> shelved[id][k] = {}
  /\ \A n \in cooled[id][k] : \E x \in clocks[id][k] :
       n >= DecayAfter \/ turns[k] - x.hit <= n \/ turns[k] - x.decay <= n
  /\ \A n \in shelved[id][k] : \E x \in clocks[id][k] :
       n >= ForgetAfter \/ x.archived = None \/ turns[k] - x.archived <= n

(* A document that the last turn left in use has no clock in the archive.  *)
InArchive(set) == \E d \in set : d.place = "archive"

DocInv(id) ==
  /\ \A d \in docs[id] : docs[id] = {d} /\ IsDoc(d)
  /\ \A k \in Contexts : ClockInv(id, k)
  /\ ~InArchive(known[id]) => \A k \in Contexts : \A x \in clocks[id][k] : x.archived = None

DocumentsInv ==
  /\ turns \in [Contexts -> Nat] /\ DOMAIN docs = Ids
  /\ \A id \in Ids : DocInv(id)

LEMMA TurnCounts ==
  ASSUME DocumentsInv, NEW c \in Contexts, NEW query, Turn(c, query)
  PROVE  /\ turns \in [Contexts -> Nat] /\ turns' \in [Contexts -> Nat]
         /\ \A k \in Contexts : turns'[k] = IF k = c THEN turns[k] + 1 ELSE turns[k]
         /\ DOMAIN docs' = Ids
<1>1. turns' = [turns EXCEPT ![c] = @ + 1]
  BY Zenon DEF Turn
<1>2. DOMAIN docs' = Ids
  BY DEF Turn
<1>3. turns \in [Contexts -> Nat]
  BY DEF DocumentsInv
<1> QED BY <1>1, <1>2, <1>3

(* What the beginning of a turn makes of a clock: a new one, or it goes on. *)
Fresh(y, now, id, k) ==
  y.hit = now[k] /\ y.decay = now[k] /\ y.archived = IF Archived(id) THEN now[k] ELSE None
Goes(y, x, c, now, id, k) ==
  /\ y.hit = x.hit /\ y.decay = x.decay
  /\ y.archived = IF k # c THEN x.archived
                  ELSE IF ~Archived(id) THEN None ELSE IF x.archived = None THEN now[k] ELSE x.archived

ClocksFacts(c, query, now, id, k, set) ==
  /\ \A y \in set : /\ IsClock(y)
                    /\ \/ Fresh(y, now, id, k)
                       \/ known[id] = docs[id] /\ \E x \in clocks[id][k] : Goes(y, x, c, now, id, k)
  /\ \A x \in clocks[id][k] : \E y \in set : Fresh(y, now, id, k) \/ Goes(y, x, c, now, id, k)
  /\ k = c /\ Hit(c, query, id) => \E y \in set : Fresh(y, now, id, k)
  /\ clocks[id][k] = {} =>
       (set # {} <=> k = c /\ (Hit(c, query, id) \/ c \in Bound[id])) /\ \A y \in set : Fresh(y, now, id, k)

LEMMA ClocksAre ==
  ASSUME DocumentsInv, NEW c \in Contexts, NEW query, NEW now \in [Contexts -> Nat],
         NEW id \in Ids, NEW k \in Contexts
  PROVE  ClocksFacts(c, query, now, id, k, Clocks(c, query, now, id)[k])
<1> DEFINE clock == At(now, id, k)
           set == Clocks(c, query, now, id)[k]
           reset == IF known[id] = docs[id] THEN clocks[id][k] ELSE {clock : x \in clocks[id][k]}
           mark(x) == [x EXCEPT !.archived = IF ~Archived(id) THEN None ELSE IF @ = None THEN now[c] ELSE @]
           anew == Hit(c, query, id) \/ (reset = {} /\ c \in Bound[id])
<1>1. set = IF k # c THEN reset ELSE IF anew THEN {clock} ELSE {mark(x) : x \in reset}
  BY DEF Clocks
<1>2. IsClock(clock) /\ Fresh(clock, now, id, k)
  BY DEF At, IsClock, Fresh, None
<1>3. ASSUME NEW x \in clocks[id][k]
      PROVE  /\ IsClock(x) /\ IsClock(mark(x)) /\ (k # c => Goes(x, x, c, now, id, k))
             /\ k = c => Goes(mark(x), x, c, now, id, k)
  <2>1. IsClock(x)
    BY DEF DocumentsInv, DocInv, ClockInv
  <2>2. /\ DOMAIN mark(x) = DOMAIN x /\ mark(x).hit = x.hit /\ mark(x).decay = x.decay
        /\ mark(x).archived = IF ~Archived(id) THEN None ELSE IF x.archived = None THEN now[c] ELSE x.archived
    BY <2>1 DEF IsClock
  <2> HIDE DEF mark
  <2> QED BY <2>1, <2>2 DEF IsClock, Goes, None
<1>4. k = c => IsClock(mark(clock)) /\ Fresh(mark(clock), now, id, k)
  BY DEF At, IsClock, Fresh, None
<1>5. reset = {} <=> clocks[id][k] = {}
  OBVIOUS
<1> HIDE DEF set, mark, clock
<1>6. ASSUME NEW y \in set
      PROVE  IsClock(y) /\ (Fresh(y, now, id, k) \/
               (known[id] = docs[id] /\ \E x \in clocks[id][k] : Goes(y, x, c, now, id, k)))
  BY <1>1, <1>2, <1>3, <1>4
<1>7. ASSUME NEW x \in clocks[id][k]
      PROVE  \E y \in set : Fresh(y, now, id, k) \/ Goes(y, x, c, now, id, k)
  <2>1. CASE k = c /\ anew
    BY <2>1, <1>1, <1>2
  <2>2. CASE ~(k = c /\ anew) /\ known[id] = docs[id]
    BY <2>2, <1>1, <1>3
  <2>3. CASE ~(k = c /\ anew) /\ known[id] # docs[id]
    <3>1. clock \in reset
      BY <2>3
    <3>2. (k # c => clock \in set) /\ (k = c => mark(clock) \in set)
      BY <3>1, <2>3, <1>1
    <3> QED BY <3>2, <1>2, <1>4
  <2> QED BY <2>1, <2>2, <2>3
<1>8. k = c /\ Hit(c, query, id) => \E y \in set : Fresh(y, now, id, k)
  BY <1>1, <1>2
<1>9. clocks[id][k] = {} =>
        (set # {} <=> k = c /\ (Hit(c, query, id) \/ c \in Bound[id])) /\ \A y \in set : Fresh(y, now, id, k)
  BY <1>1, <1>2, <1>5
<1>10. ClocksFacts(c, query, now, id, k, set)
  BY <1>6, <1>7, <1>8, <1>9 DEF ClocksFacts
<1> QED BY <1>10 DEF set

(* What a turn leaves of a clock: decays and moves to the archive.         *)
Settled(z, y, decays, archives, now, k) ==
  /\ z.hit = y.hit /\ z.decay = (IF decays THEN now[k] ELSE y.decay)
  /\ z.archived = (IF archives THEN now[k] ELSE y.archived)

(* The three things a turn can make of a document it looks at: nothing, for *)
(* a context that never used it; a tombstone; or itself, older.            *)
AgedFacts(c, now, id, d, set, A) ==
  LET archives == ~Archived(id) /\ InArchive(A.doc) IN
  \/ set[c] = {} /\ A.doc = docs[id] /\ A.clocks = set /\ ~A.decays /\ ~A.forgets
  \/ /\ A.doc = {} /\ A.clocks = Unknown /\ A.forgets /\ Archived(id) /\ id \notin References
     /\ \A k \in Contexts : \A x \in set[k] : x.archived # None /\ now[k] - x.archived >= ForgetAfter
  \/ /\ set[c] # {} /\ ~A.forgets /\ A.decays \in BOOLEAN /\ (A.decays <=> Decays(c, now, set, id)) /\ (archives => A.decays)
     /\ \E e : /\ A.doc = {e} /\ IsDoc(e) /\ e.refs = d.refs /\ (e.weight < d.weight => A.decays)
               /\ Archived(id) => e.place = "archive"
     /\ \A k \in Contexts :
          /\ \A y \in set[k] : \E z \in A.clocks[k] : IsClock(z) /\ Settled(z, y, A.decays, archives, now, k)
          /\ \A z \in A.clocks[k] : IsClock(z) /\ \E y \in set[k] : Settled(z, y, A.decays, archives, now, k)

LEMMA AgedIs ==
  ASSUME DocumentsInv, NEW c \in Contexts, NEW query, NEW now \in [Contexts -> Nat],
         NEW id \in Ids, Aging(c, id), NEW d, docs[id] = {d}
  PROVE  AgedFacts(c, now, id, d, Clocks(c, query, now, id), Aged(c, query, now, id))
<1>a. PICK set, A : set = Clocks(c, query, now, id) /\ A = Aged(c, query, now, id)
  OBVIOUS
<1>b. PICK decays \in BOOLEAN : decays <=> Decays(c, now, set, id)
  OBVIOUS
<1>c. IsDoc(d) /\ (Archived(id) <=> d.place = "archive") /\ Doc(id) = d
  <2>1. d \in docs[id] /\ IsDoc(d)
    BY DEF DocumentsInv, DocInv
  <2> QED BY <2>1 DEF Archived, Doc
<1>d. PICK weight \in Int : weight = IF decays /\ d.weight > 0 THEN d.weight - 1 ELSE d.weight
  BY <1>c DEF IsDoc
<1>e. PICK archives \in BOOLEAN : archives <=> ~Archived(id) /\ decays /\ weight < Archive
  OBVIOUS
<1> DEFINE e == [d EXCEPT !.weight = weight, !.place = IF archives THEN "archive" ELSE @]
           turned(x, k) == [x EXCEPT !.decay = IF decays THEN now[k] ELSE @,
                                     !.archived = IF archives THEN now[k] ELSE @]
           after == [k \in Contexts |-> {turned(x, k) : x \in set[k]}]
<1>2. /\ A.doc = IF set[c] = {} THEN docs[id] ELSE IF Forgets(now, set, id, weight) THEN {} ELSE {e}
      /\ A.clocks = IF set[c] = {} THEN set ELSE IF Forgets(now, set, id, weight) THEN Unknown ELSE after
      /\ A.decays \in BOOLEAN /\ (A.decays <=> set[c] # {} /\ decays)
      /\ A.forgets \in BOOLEAN /\ (A.forgets <=> set[c] # {} /\ Forgets(now, set, id, weight))
  <2>1. Decays(c, now, set, id) = decays
    <3>1. Decays(c, now, set, id) \in BOOLEAN
      BY DEF Decays
    <3> QED BY <1>b, <3>1
  <2>2. Forgets(now, set, id, weight) \in BOOLEAN
    BY DEF Forgets
  <2>3. archives = (~Archived(id) /\ decays /\ weight < Archive)
    BY <1>e
  <2>4. A = IF set[c] = {} THEN [doc |-> docs[id], clocks |-> set, decays |-> FALSE, forgets |-> FALSE]
            ELSE IF Forgets(now, set, id, weight)
              THEN [doc |-> {}, clocks |-> Unknown, decays |-> decays, forgets |-> TRUE]
            ELSE [doc |-> {e}, clocks |-> after, decays |-> decays, forgets |-> FALSE]
    BY ZenonT(60), <1>a, <1>c, <1>d, <2>1, <2>3 DEF Aged
  <2> HIDE DEF e, after
  <2>5. CASE set[c] = {}
    BY <2>4, <2>5
  <2>6. CASE set[c] # {} /\ Forgets(now, set, id, weight)
    BY <2>4, <2>6
  <2>7. CASE set[c] # {} /\ ~Forgets(now, set, id, weight)
    BY <2>4, <2>7
  <2> QED BY <2>5, <2>6, <2>7
<1>4. /\ DOMAIN e = DOMAIN d /\ e.weight = weight /\ e.refs = d.refs
      /\ e.place = IF archives THEN "archive" ELSE d.place
  BY <1>c DEF IsDoc
<1>5. IsDoc(e) /\ (e.weight < d.weight => decays)
  <2> HIDE DEF e
  <2> QED BY <1>c, <1>d, <1>4 DEF IsDoc
<1>6. /\ Archived(id) => e.place = "archive"
      /\ (~Archived(id) /\ e.place = "archive") <=> archives
  <2> HIDE DEF e
  <2> QED BY <1>c, <1>e, <1>4
<1>7. ASSUME NEW k \in Contexts, NEW y \in set[k]
      PROVE  IsClock(turned(y, k)) /\ Settled(turned(y, k), y, decays, archives, now, k)
  <2>1. IsClock(y) /\ now[k] \in Int
    <3>1. ClocksFacts(c, query, now, id, k, Clocks(c, query, now, id)[k])
      BY ClocksAre
    <3> QED BY <1>a, <3>1 DEF ClocksFacts
  <2>2. /\ DOMAIN turned(y, k) = DOMAIN y /\ turned(y, k).hit = y.hit
        /\ turned(y, k).decay = (IF decays THEN now[k] ELSE y.decay)
        /\ turned(y, k).archived = (IF archives THEN now[k] ELSE y.archived)
    BY <2>1 DEF IsClock
  <2> HIDE DEF turned
  <2> QED BY <2>1, <2>2 DEF IsClock, Settled
<1>8. CASE set[c] = {}
  BY <1>a, <1>2, <1>8 DEF AgedFacts
<1>9. CASE set[c] # {} /\ Forgets(now, set, id, weight)
  <2> HIDE DEF e, after
  <2> QED BY <1>a, <1>2, <1>9 DEF AgedFacts, Forgets, EveryContext
<1>10. CASE set[c] # {} /\ ~Forgets(now, set, id, weight)
  <2>1. A.doc = {e} /\ A.clocks = after /\ (A.decays <=> decays) /\ ~A.forgets /\ A.decays \in BOOLEAN
    <3> HIDE DEF e, after
    <3> QED BY <1>2, <1>10
  <2>2. (~Archived(id) /\ InArchive(A.doc)) <=> archives
    <3> HIDE DEF e
    <3> QED BY <2>1, <1>6 DEF InArchive
  <2>3. ASSUME NEW k \in Contexts
        PROVE  /\ \A y \in set[k] : \E z \in A.clocks[k] :
                    IsClock(z) /\ Settled(z, y, A.decays, ~Archived(id) /\ InArchive(A.doc), now, k)
               /\ \A z \in A.clocks[k] : IsClock(z) /\ \E y \in set[k] :
                    Settled(z, y, A.decays, ~Archived(id) /\ InArchive(A.doc), now, k)
    <3>1. A.clocks[k] = {turned(x, k) : x \in set[k]}
      BY <2>1
    <3>2. ASSUME NEW z, NEW y
          PROVE  Settled(z, y, decays, archives, now, k)
                   => Settled(z, y, A.decays, ~Archived(id) /\ InArchive(A.doc), now, k)
      <4> HIDE DEF after, e
      <4> QED BY <2>1, <2>2 DEF Settled
    <3> HIDE DEF turned
    <3> QED BY <3>1, <3>2, <1>7
  <2>4. \E f : /\ A.doc = {f} /\ IsDoc(f) /\ f.refs = d.refs /\ (f.weight < d.weight => A.decays)
               /\ Archived(id) => f.place = "archive"
    <3> HIDE DEF e
    <3> QED BY <2>1, <1>4, <1>5, <1>6
  <2>5. (~Archived(id) /\ InArchive(A.doc) => A.decays) /\ (A.decays <=> Decays(c, now, set, id))
    <3> HIDE DEF e, after
    <3> QED BY <2>1, <2>2, <1>b, <1>e
  <2> HIDE DEF e, after
  <2> QED BY <1>a, <2>1, <2>3, <2>4, <2>5, <1>10 DEF AgedFacts
<1> QED BY <1>8, <1>9, <1>10

(* What a turn that looks at a document makes of its histories.            *)
CoolsTo(c, query, id, k, decays) ==
  cooled'[id][k] =
    IF k = c /\ (Hit(c, query, id) \/ (c \in Bound[id] /\ cooled[id][k] = {})) THEN {0}
    ELSE {IF decays THEN 0 ELSE IF k = c /\ n < DecayAfter THEN n + 1 ELSE n : n \in cooled[id][k]}
ShelvesTo(c, id, k) ==
  shelved'[id][k] =
    IF ~Archived(id) THEN {0 : n \in cooled'[id][k]}
    ELSE IF k = c /\ cooled'[id][c] # {} /\ shelved[id][k] = {} THEN {0}
    ELSE {IF k = c /\ n < ForgetAfter THEN n + 1 ELSE n : n \in shelved[id][k]}

(* A turn that looks at a document, and one that does not.                 *)
(* What it makes of its clocks, from those the turn began with.            *)
SettlesTo(id, k, set, decays, archives) ==
  /\ \A y \in set : \E z \in clocks'[id][k] : IsClock(z) /\ Settled(z, y, decays, archives, turns', k)
  /\ \A z \in clocks'[id][k] : IsClock(z) /\ \E y \in set : Settled(z, y, decays, archives, turns', k)

LEMMA TurnLooks ==
  ASSUME DocumentsInv, NEW c \in Contexts, NEW query, Turn(c, query), NEW id \in Ids, Aging(c, id),
         NEW A, A = Aged(c, query, turns', id)
  PROVE  /\ docs'[id] = A.doc /\ clocks'[id] = A.clocks /\ known'[id] = A.doc
         /\ A.forgets => id \in tombs'
         /\ A.doc = {} => cooled'[id] = Unknown /\ shelved'[id] = Unknown
         /\ A.doc # {} => \A k \in Contexts :
              /\ CoolsTo(c, query, id, k, A.decays)
              /\ ShelvesTo(c, id, k)
<1> DEFINE looked == {i \in Ids : Aging(c, i)}
           aged == [i \in looked |-> Aged(c, query, turns', i)]
           hit == id \in looked /\ Hit(c, query, id)
           passed == Passed(cooled[id], c, hit \/ (id \in looked /\ c \in Bound[id]), id \in looked /\ aged[id].decays, DecayAfter)
<1>1. id \in looked /\ aged[id] = A
  OBVIOUS
<1>2. /\ docs' = [i \in Ids |-> IF i \in looked THEN aged[i].doc ELSE docs[i]]
      /\ clocks' = [i \in Ids |-> IF i \in looked THEN aged[i].clocks ELSE IF Filed(i) THEN clocks[i] ELSE Unknown]
      /\ known' = [i \in Ids |-> IF i \in looked THEN aged[i].doc ELSE IF Filed(i) THEN known[i] ELSE {}]
      /\ tombs' = tombs \cup {i \in looked : aged[i].forgets}
  BY DEF Turn
<1>3. /\ cooled'[id] = IF docs'[id] = {} THEN Unknown ELSE IF hit THEN [passed EXCEPT ![c] = {0}] ELSE passed
      /\ shelved'[id] = IF docs'[id] = {} THEN Unknown
           ELSE IF id \in looked /\ ~Archived(id) THEN [k \in Contexts |-> {0 : n \in cooled'[id][k]}]
           ELSE Passed(shelved[id], c, cooled'[id][c] # {}, FALSE, ForgetAfter)
  BY DEF Turn
<1>4. docs'[id] = A.doc /\ clocks'[id] = A.clocks /\ known'[id] = A.doc /\ (A.forgets => id \in tombs')
  <2> HIDE DEF aged, looked
  <2> QED BY <1>1, <1>2
<1>5. ASSUME NEW k \in Contexts, A.doc # {}
      PROVE  /\ CoolsTo(c, query, id, k, A.decays)
             /\ ShelvesTo(c, id, k)
  <2>1. passed[k] = IF k = c /\ (Hit(c, query, id) \/ c \in Bound[id]) /\ cooled[id][k] = {} THEN {0}
                    ELSE {IF A.decays THEN 0 ELSE IF k = c /\ n < DecayAfter THEN n + 1 ELSE n : n \in cooled[id][k]}
    <3> HIDE DEF aged, looked
    <3> QED BY <1>1 DEF Passed
  <2>2. DOMAIN passed = Contexts
    BY DEF Passed
  <2>3. cooled'[id] = IF Hit(c, query, id) THEN [passed EXCEPT ![c] = {0}] ELSE passed
    <3> HIDE DEF aged, looked, passed
    <3> QED BY <1>1, <1>3, <1>4, <1>5
  <2>4. CoolsTo(c, query, id, k, A.decays)
    <3> HIDE DEF passed
    <3> QED BY <2>1, <2>2, <2>3 DEF CoolsTo
  <2>5. shelved'[id] = IF ~Archived(id) THEN [j \in Contexts |-> {0 : n \in cooled'[id][j]}]
                       ELSE Passed(shelved[id], c, cooled'[id][c] # {}, FALSE, ForgetAfter)
    <3> HIDE DEF aged, looked
    <3> QED BY <1>1, <1>3, <1>4, <1>5
  <2>6. ShelvesTo(c, id, k)
    <3> HIDE DEF aged, looked
    <3> QED BY <2>5 DEF Passed, ShelvesTo
  <2> QED BY <2>4, <2>6
<1>6. A.doc = {} => cooled'[id] = Unknown /\ shelved'[id] = Unknown
  BY <1>3, <1>4
<1> HIDE DEF looked, aged, hit, passed
<1> QED BY <1>4, <1>5, <1>6

LEMMA TurnPasses ==
  ASSUME DocumentsInv, NEW c \in Contexts, NEW query, Turn(c, query), NEW id \in Ids, ~Aging(c, id)
  PROVE  /\ docs'[id] = docs[id]
         /\ docs[id] = {} => /\ clocks'[id] = Unknown /\ known'[id] = {}
                             /\ cooled'[id] = Unknown /\ shelved'[id] = Unknown
         /\ docs[id] # {} => /\ clocks'[id] = clocks[id] /\ known'[id] = known[id]
              /\ \A k \in Contexts :
                   /\ cooled'[id][k] = {IF k = c /\ n < DecayAfter THEN n + 1 ELSE n : n \in cooled[id][k]}
                   /\ shelved'[id][k] = IF k = c /\ cooled'[id][c] # {} /\ shelved[id][k] = {} THEN {0}
                                        ELSE {IF k = c /\ n < ForgetAfter THEN n + 1 ELSE n : n \in shelved[id][k]}
<1> DEFINE looked == {i \in Ids : Aging(c, i)}
           aged == [i \in looked |-> Aged(c, query, turns', i)]
           hit == id \in looked /\ Hit(c, query, id)
           passed == Passed(cooled[id], c, hit \/ (id \in looked /\ c \in Bound[id]), id \in looked /\ aged[id].decays, DecayAfter)
<1>1. id \notin looked
  OBVIOUS
<1>2. /\ docs' = [i \in Ids |-> IF i \in looked THEN aged[i].doc ELSE docs[i]]
      /\ clocks' = [i \in Ids |-> IF i \in looked THEN aged[i].clocks ELSE IF Filed(i) THEN clocks[i] ELSE Unknown]
      /\ known' = [i \in Ids |-> IF i \in looked THEN aged[i].doc ELSE IF Filed(i) THEN known[i] ELSE {}]
  BY DEF Turn
<1>3. /\ cooled'[id] = IF docs'[id] = {} THEN Unknown ELSE IF hit THEN [passed EXCEPT ![c] = {0}] ELSE passed
      /\ shelved'[id] = IF docs'[id] = {} THEN Unknown
           ELSE IF id \in looked /\ ~Archived(id) THEN [k \in Contexts |-> {0 : n \in cooled'[id][k]}]
           ELSE Passed(shelved[id], c, cooled'[id][c] # {}, FALSE, ForgetAfter)
  BY DEF Turn
<1>4. /\ docs'[id] = docs[id] /\ clocks'[id] = IF docs[id] # {} THEN clocks[id] ELSE Unknown
      /\ known'[id] = IF docs[id] # {} THEN known[id] ELSE {}
  <2> HIDE DEF aged, looked
  <2> QED BY <1>1, <1>2 DEF Filed
<1>5. ASSUME NEW k \in Contexts, docs[id] # {}
      PROVE  /\ cooled'[id][k] = {IF k = c /\ n < DecayAfter THEN n + 1 ELSE n : n \in cooled[id][k]}
             /\ shelved'[id][k] = IF k = c /\ cooled'[id][c] # {} /\ shelved[id][k] = {} THEN {0}
                                  ELSE {IF k = c /\ n < ForgetAfter THEN n + 1 ELSE n : n \in shelved[id][k]}
  <2>1. passed[k] = {IF k = c /\ n < DecayAfter THEN n + 1 ELSE n : n \in cooled[id][k]}
    <3> HIDE DEF aged, looked
    <3> QED BY <1>1 DEF Passed
  <2>2. cooled'[id] = passed
    <3> HIDE DEF aged, looked, passed
    <3> QED BY <1>1, <1>3, <1>4, <1>5
  <2>3. shelved'[id] = Passed(shelved[id], c, cooled'[id][c] # {}, FALSE, ForgetAfter)
    <3> HIDE DEF aged, looked
    <3> QED BY <1>1, <1>3, <1>4, <1>5
  <2>4. shelved'[id][k] = IF k = c /\ cooled'[id][c] # {} /\ shelved[id][k] = {} THEN {0}
                          ELSE {IF k = c /\ n < ForgetAfter THEN n + 1 ELSE n : n \in shelved[id][k]}
    <3> HIDE DEF aged, looked, passed
    <3> QED BY <2>3 DEF Passed
  <2> HIDE DEF passed
  <2> QED BY <2>1, <2>2, <2>4
<1>6. docs[id] = {} => cooled'[id] = Unknown /\ shelved'[id] = Unknown
  BY <1>3, <1>4
<1> HIDE DEF looked, aged, hit, passed
<1> QED BY <1>4, <1>5, <1>6

(* After a turn, the clocks and histories of one document are what they    *)
(* must be.                                                                *)
LEMMA TurnSettles ==
  ASSUME DocumentsInv, NEW c \in Contexts, NEW query, Turn(c, query), NEW id \in Ids, NEW k \in Contexts,
         NEW decays \in BOOLEAN, NEW archives \in BOOLEAN, NEW set,
         set = Clocks(c, query, turns', id)[k], Archived(id) => ~archives,
         SettlesTo(id, k, set, decays, archives), CoolsTo(c, query, id, k, decays), ShelvesTo(c, id, k)
  PROVE  /\ ClockInv(id, k)'
         /\ ~Archived(id) /\ ~archives => \A x \in clocks'[id][k] : x.archived = None
<1> DEFINE now == turns'
<1>1. /\ now \in [Contexts -> Nat] /\ turns[k] \in Nat
      /\ now[k] = IF k = c THEN turns[k] + 1 ELSE turns[k]
  BY TurnCounts
<1>2. DocInv(id) /\ ClockInv(id, k) /\ DecayAfter \in Nat /\ ForgetAfter \in Nat
  BY DocumentsAssumption DEF DocumentsInv, DocInv
<1> HIDE DEF now
<1>3. ClocksFacts(c, query, now, id, k, set)
  <2>1. set = Clocks(c, query, now, id)[k]
    BY DEF now
  <2>2. ClocksFacts(c, query, now, id, k, Clocks(c, query, now, id)[k])
    BY <1>1, ClocksAre
  <2> QED BY <2>1, <2>2
<1>4. /\ \A y \in set : \E z \in clocks'[id][k] : IsClock(z) /\ Settled(z, y, decays, archives, now, k)
      /\ \A z \in clocks'[id][k] : IsClock(z) /\ \E y \in set : Settled(z, y, decays, archives, now, k)
  BY DEF now, SettlesTo
<1>h. /\ cooled'[id][k] =
           IF k = c /\ (Hit(c, query, id) \/ (c \in Bound[id] /\ cooled[id][k] = {})) THEN {0}
           ELSE {IF decays THEN 0 ELSE IF k = c /\ n < DecayAfter THEN n + 1 ELSE n : n \in cooled[id][k]}
      /\ shelved'[id][k] =
           IF ~Archived(id) THEN {0 : n \in cooled'[id][k]}
           ELSE IF k = c /\ cooled'[id][c] # {} /\ shelved[id][k] = {} THEN {0}
           ELSE {IF k = c /\ n < ForgetAfter THEN n + 1 ELSE n : n \in shelved[id][k]}
  BY DEF CoolsTo, ShelvesTo
<1>5. cooled'[id][k] \subseteq Nat /\ shelved'[id][k] \subseteq Nat
  BY <1>h, <1>2 DEF ClockInv
<1>6. clocks'[id][k] = {} <=> cooled'[id][k] = {}
  <2>1. clocks'[id][k] = {} <=> set = {}
    BY <1>h, <1>4
  <2>2. CASE clocks[id][k] = {}
    BY <1>h, <2>1, <2>2, <1>2, <1>3 DEF ClockInv, ClocksFacts
  <2>3. CASE clocks[id][k] # {}
    <3>1. set # {} /\ cooled[id][k] # {}
      BY <1>h, <2>3, <1>2, <1>3 DEF ClockInv, ClocksFacts
    <3>2. cooled'[id][k] # {}
      BY <1>h, <3>1
    <3> QED BY <1>h, <3>1, <3>2, <2>1
  <2> QED BY <1>h, <2>2, <2>3
<1>7. clocks'[id][k] = {} <=> shelved'[id][k] = {}
  <2>1. CASE ~Archived(id)
    <3>1. shelved'[id][k] = {} <=> cooled'[id][k] = {}
      BY <1>h, <2>1
    <3> QED BY <1>h, <3>1, <1>6
  <2>2. CASE Archived(id) /\ shelved[id][k] # {}
    <3>1. clocks[id][k] # {}
      BY <2>2, <1>2 DEF ClockInv
    <3>2. set # {}
      BY <3>1, <1>3 DEF ClocksFacts
    <3>3. shelved'[id][k] # {}
      BY <1>h, <2>2
    <3> QED BY <3>2, <3>3, <1>4
  <2>3. CASE Archived(id) /\ shelved[id][k] = {}
    <3>1. shelved'[id][k] = {} <=> ~(k = c /\ cooled'[id][c] # {})
      BY <1>h, <2>3
    <3>2. k # c => cooled'[id][k] = {}
      BY <1>h, <2>3, <1>2 DEF ClockInv
    <3> QED BY <1>h, <3>1, <3>2, <1>6
  <2> QED BY <1>h, <2>1, <2>2, <2>3
<1>8. ASSUME NEW n \in cooled'[id][k]
      PROVE  \E z \in clocks'[id][k] : n >= DecayAfter \/ now[k] - z.hit <= n \/ now[k] - z.decay <= n
  <2>1. CASE k = c /\ (Hit(c, query, id) \/ (c \in Bound[id] /\ cooled[id][k] = {}))
    <3>1. n = 0
      BY <1>h, <2>1
    <3>2. PICK y \in set : Fresh(y, now, id, k)
      BY <1>h, <2>1, <1>2, <1>3 DEF ClockInv, ClocksFacts
    <3>3. PICK z \in clocks'[id][k] : IsClock(z) /\ Settled(z, y, decays, archives, now, k)
      BY <1>h, <3>2, <1>4
    <3>4. z.hit = now[k] /\ now[k] \in Nat
      BY <1>h, <3>2, <3>3, <1>1 DEF Settled, Fresh
    <3> QED BY <1>h, <3>1, <3>4
  <2>2. CASE ~(k = c /\ (Hit(c, query, id) \/ (c \in Bound[id] /\ cooled[id][k] = {})))
    <3>1. PICK m \in cooled[id][k] : n = IF decays THEN 0 ELSE IF k = c /\ m < DecayAfter THEN m + 1 ELSE m
      BY <1>h, <2>2
    <3>2. PICK x \in clocks[id][k] :
            IsClock(x) /\ (m >= DecayAfter \/ turns[k] - x.hit <= m \/ turns[k] - x.decay <= m)
      BY <1>h, <1>2 DEF ClockInv
    <3>3. PICK y \in set : Fresh(y, now, id, k) \/ Goes(y, x, c, now, id, k)
      BY <1>h, <1>3 DEF ClocksFacts
    <3>4. PICK z \in clocks'[id][k] : IsClock(z) /\ Settled(z, y, decays, archives, now, k)
      BY <1>h, <1>4
    <3>5. m \in Nat /\ now[k] \in Nat
      BY <1>h, <1>1, <1>2 DEF ClockInv
    <3>6. CASE decays
      BY <1>h, <3>1, <3>4, <3>5, <3>6 DEF Settled
    <3>7. CASE ~decays /\ Fresh(y, now, id, k)
      <4>1. z.hit = now[k] /\ n >= 0
        BY <1>h, <3>1, <3>4, <3>5, <3>7 DEF Settled, Fresh
      <4> QED BY <4>1, <3>1, <3>5, <3>7
    <3>8. CASE ~decays /\ Goes(y, x, c, now, id, k)
      <4>1. z.hit = x.hit /\ z.decay = x.decay
        BY <1>h, <3>4, <3>8 DEF Settled, Goes
      <4> QED BY <4>1, <3>1, <3>2, <3>5, <3>8, <1>1, <1>2 DEF IsClock
    <3> QED BY <1>h, <3>3, <3>6, <3>7, <3>8
  <2> QED BY <1>h, <2>1, <2>2
<1>9. ASSUME ~Archived(id), NEW z \in clocks'[id][k]
      PROVE  z.archived = IF archives THEN now[k] ELSE None
  <2>1. PICK y \in set : Settled(z, y, decays, archives, now, k)
    BY <1>h, <1>4
  <2>2. CASE Fresh(y, now, id, k)
    BY <1>h, <2>1, <2>2, <1>9 DEF Settled, Fresh
  <2>3. CASE known[id] = docs[id] /\ \E x \in clocks[id][k] : Goes(y, x, c, now, id, k)
    <3>1. ~InArchive(known[id])
      BY <1>h, <2>3, <1>9 DEF InArchive, Archived
    <3>2. \A x \in clocks[id][k] : x.archived = None
      BY <1>h, <3>1, <1>2 DEF DocInv
    <3> QED BY <1>h, <3>2, <2>1, <2>3, <1>9 DEF Settled, Goes
  <2> QED BY <1>h, <2>2, <2>3, <1>3 DEF ClocksFacts
<1>10. ASSUME NEW n \in shelved'[id][k]
       PROVE  \E z \in clocks'[id][k] : n >= ForgetAfter \/ z.archived = None \/ now[k] - z.archived <= n
  <2>1. CASE ~Archived(id)
    <3>1. PICK z \in clocks'[id][k] : TRUE
      BY <1>h, <1>7
    <3>2. n = 0 /\ now[k] \in Nat
      BY <1>h, <2>1, <1>1
    <3> QED BY <1>h, <3>1, <3>2, <2>1, <1>9
  <2>2. CASE Archived(id) /\ k = c /\ cooled'[id][c] # {} /\ shelved[id][k] = {}
    <3>1. PICK z \in clocks'[id][k] : TRUE
      BY <1>h, <1>7
    <3>2. PICK y \in set : Settled(z, y, decays, archives, now, k)
      BY <1>h, <1>4
    <3>3. Fresh(y, now, id, k)
      BY <1>h, <2>2, <1>2, <1>3 DEF ClockInv, ClocksFacts
    <3>4. n = 0 /\ z.archived = now[k] /\ now[k] \in Nat
      BY <1>h, <2>2, <3>2, <3>3, <1>1 DEF Settled, Fresh
    <3> QED BY <1>h, <3>4
  <2>3. CASE Archived(id) /\ ~(k = c /\ cooled'[id][c] # {} /\ shelved[id][k] = {})
    <3>1. PICK m \in shelved[id][k] : n = IF k = c /\ m < ForgetAfter THEN m + 1 ELSE m
      BY <1>h, <2>3
    <3>2. PICK x \in clocks[id][k] :
            IsClock(x) /\ (m >= ForgetAfter \/ x.archived = None \/ turns[k] - x.archived <= m)
      BY <1>h, <1>2 DEF ClockInv
    <3>3. PICK y \in set : Fresh(y, now, id, k) \/ Goes(y, x, c, now, id, k)
      BY <1>h, <1>3 DEF ClocksFacts
    <3>4. PICK z \in clocks'[id][k] : IsClock(z) /\ Settled(z, y, decays, archives, now, k)
      BY <1>h, <1>4
    <3>5. m \in Nat /\ now[k] \in Nat /\ z.archived = y.archived
      BY <1>h, <2>3, <3>4, <1>1, <1>2 DEF ClockInv, Settled
    <3>6. CASE Fresh(y, now, id, k)
      <4>1. z.archived = now[k] /\ n >= 0
        BY <1>h, <2>3, <3>1, <3>5, <3>6 DEF Fresh
      <4> QED BY <4>1, <3>1, <3>5
    <3>7. CASE Goes(y, x, c, now, id, k)
      <4>1. z.archived = IF k = c /\ x.archived = None THEN now[k] ELSE x.archived
        BY <1>h, <2>3, <3>5, <3>7 DEF Goes
      <4> QED BY <4>1, <3>1, <3>2, <3>5, <1>1, <1>2 DEF IsClock
    <3> QED BY <1>h, <3>3, <3>6, <3>7
  <2> QED BY <1>h, <2>1, <2>2, <2>3
<1>11. \A x \in clocks'[id][k] : IsClock(x)
  BY <1>h, <1>4
<1>12. ClockInv(id, k)'
  <2>1. now = turns'
    BY DEF now
  <2> QED BY <1>h, <2>1, <1>5, <1>6, <1>7, <1>8, <1>10, <1>11 DEF ClockInv, IsClock
<1> QED BY <1>h, <1>9, <1>12

LEMMA TurnLeaves ==
  ASSUME DocumentsInv, NEW c \in Contexts, NEW query, Turn(c, query), NEW id \in Ids, ~Aging(c, id)
  PROVE  DocInv(id)'
<1>1. DocInv(id) /\ docs'[id] = docs[id]
  BY TurnPasses DEF DocumentsInv
<1>2. CASE docs[id] = {}
  <2>1. clocks'[id] = Unknown /\ known'[id] = {} /\ cooled'[id] = Unknown /\ shelved'[id] = Unknown
    BY <1>2, TurnPasses
  <2>2. \A k \in Contexts : clocks'[id][k] = {} /\ cooled'[id][k] = {} /\ shelved'[id][k] = {}
    BY <2>1 DEF Unknown
  <2> QED BY <2>2, <1>1, <1>2 DEF DocInv, ClockInv
<1>3. CASE docs[id] # {}
  <2>1. /\ clocks'[id] = clocks[id] /\ known'[id] = known[id]
        /\ \A k \in Contexts :
             /\ cooled'[id][k] = {IF k = c /\ n < DecayAfter THEN n + 1 ELSE n : n \in cooled[id][k]}
             /\ shelved'[id][k] = IF k = c /\ cooled'[id][c] # {} /\ shelved[id][k] = {} THEN {0}
                                  ELSE {IF k = c /\ n < ForgetAfter THEN n + 1 ELSE n : n \in shelved[id][k]}
    BY <1>3, TurnPasses
  <2>2. ASSUME NEW k \in Contexts
        PROVE  ClockInv(id, k)'
    <3>1. /\ ClockInv(id, k) /\ turns[k] \in Nat /\ turns' \in [Contexts -> Nat]
          /\ turns'[k] = IF k = c THEN turns[k] + 1 ELSE turns[k]
          /\ DecayAfter \in Nat /\ ForgetAfter \in Nat
      BY <1>1, TurnCounts, DocumentsAssumption DEF DocInv
    <3>2. cooled'[id][k] = {IF k = c /\ n < DecayAfter THEN n + 1 ELSE n : n \in cooled[id][k]}
      BY <2>1
    <3>3. cooled'[id][k] = {} <=> cooled[id][k] = {}
      BY <3>2
    <3>4. shelved'[id][k] = {IF k = c /\ n < ForgetAfter THEN n + 1 ELSE n : n \in shelved[id][k]}
      BY <2>1, <3>1, <3>3 DEF ClockInv
    <3>5. shelved'[id][k] = {} <=> shelved[id][k] = {}
      BY <3>4
    <3>6. ASSUME NEW n \in cooled'[id][k]
          PROVE  \E x \in clocks[id][k] : n >= DecayAfter \/ turns'[k] - x.hit <= n \/ turns'[k] - x.decay <= n
      <4>1. PICK m \in cooled[id][k] : n = IF k = c /\ m < DecayAfter THEN m + 1 ELSE m
        BY <3>2
      <4>2. PICK x \in clocks[id][k] : m >= DecayAfter \/ turns[k] - x.hit <= m \/ turns[k] - x.decay <= m
        BY <3>1 DEF ClockInv
      <4>3. m \in Nat /\ IsClock(x)
        BY <3>1 DEF ClockInv
      <4> QED BY <4>1, <4>2, <4>3, <3>1 DEF IsClock
    <3>7. ASSUME NEW n \in shelved'[id][k]
          PROVE  \E x \in clocks[id][k] : n >= ForgetAfter \/ x.archived = None \/ turns'[k] - x.archived <= n
      <4>1. PICK m \in shelved[id][k] : n = IF k = c /\ m < ForgetAfter THEN m + 1 ELSE m
        BY <3>4
      <4>2. PICK x \in clocks[id][k] : m >= ForgetAfter \/ x.archived = None \/ turns[k] - x.archived <= m
        BY <3>1 DEF ClockInv
      <4>3. m \in Nat /\ IsClock(x)
        BY <3>1 DEF ClockInv
      <4> QED BY <4>1, <4>2, <4>3, <3>1 DEF IsClock
    <3>8. cooled'[id][k] \subseteq Nat /\ shelved'[id][k] \subseteq Nat
      BY <3>1, <3>2, <3>4 DEF ClockInv
    <3> QED BY <2>1, <3>1, <3>3, <3>5, <3>6, <3>7, <3>8 DEF ClockInv
  <2> QED BY <1>1, <2>1, <2>2 DEF DocInv
<1> QED BY <1>2, <1>3

LEMMA TurnAges ==
  ASSUME DocumentsInv, NEW c \in Contexts, NEW query, Turn(c, query), NEW id \in Ids, Aging(c, id)
  PROVE  DocInv(id)'
<1>1. PICK d \in docs[id] : docs[id] = {d} /\ IsDoc(d)
  BY DEF DocumentsInv, DocInv, Aging, Filed
<1>2. turns' \in [Contexts -> Nat]
  BY TurnCounts
<1>3. PICK A, set : A = Aged(c, query, turns', id) /\ set = Clocks(c, query, turns', id)
  OBVIOUS
<1>4. AgedFacts(c, turns', id, d, set, A)
  BY <1>1, <1>2, <1>3, AgedIs
<1>5. /\ docs'[id] = A.doc /\ clocks'[id] = A.clocks /\ known'[id] = A.doc
      /\ A.doc = {} => cooled'[id] = Unknown /\ shelved'[id] = Unknown
      /\ A.doc # {} => \A k \in Contexts :
           /\ CoolsTo(c, query, id, k, A.decays)
           /\ ShelvesTo(c, id, k)
  BY <1>3, TurnLooks
<1>6. CASE A.doc = {}
  <2>1. A.clocks = Unknown
    BY <1>4, <1>6, <1>1 DEF AgedFacts
  <2>2. \A k \in Contexts : clocks'[id][k] = {} /\ cooled'[id][k] = {} /\ shelved'[id][k] = {}
    BY <2>1, <1>5, <1>6 DEF Unknown
  <2> QED BY <2>2, <1>5, <1>6 DEF DocInv, ClockInv
<1>7. CASE A.doc # {}
  <2>1. PICK decays \in BOOLEAN, archives \in BOOLEAN :
          (decays <=> set[c] # {} /\ A.decays) /\ (archives <=> ~Archived(id) /\ InArchive(A.doc))
    OBVIOUS
  <2>2. PICK e : A.doc = {e} /\ IsDoc(e) /\ (Archived(id) => e.place = "archive")
    BY <1>1, <1>4, <1>7 DEF AgedFacts, Archived
  <2>3. ASSUME NEW k \in Contexts
        PROVE  SettlesTo(id, k, set[k], decays, archives)
    <3>1. CASE set[c] = {} /\ A.doc = docs[id] /\ A.clocks = set
      <4>1. ~decays /\ ~archives /\ clocks'[id] = set
        BY <3>1, <2>1, <1>5 DEF InArchive, Archived
      <4>2. \A y \in set[k] : IsClock(y)
        <5>1. ClocksFacts(c, query, turns', id, k, set[k])
          BY <1>2, <1>3, ClocksAre
        <5> QED BY <5>1 DEF ClocksFacts
      <4> QED BY <4>1, <4>2 DEF Settled, SettlesTo
    <3>2. CASE ~(set[c] = {} /\ A.doc = docs[id] /\ A.clocks = set)
      <4>1. /\ set[c] # {}
            /\ \A y \in set[k] : \E z \in A.clocks[k] :
                 IsClock(z) /\ Settled(z, y, A.decays, ~Archived(id) /\ InArchive(A.doc), turns', k)
            /\ \A z \in A.clocks[k] : IsClock(z) /\ \E y \in set[k] :
                 Settled(z, y, A.decays, ~Archived(id) /\ InArchive(A.doc), turns', k)
        BY <3>2, <1>4, <1>7 DEF AgedFacts
      <4>2. ASSUME NEW z, NEW y, Settled(z, y, A.decays, ~Archived(id) /\ InArchive(A.doc), turns', k)
            PROVE  Settled(z, y, decays, archives, turns', k)
        BY <4>1, <4>2, <2>1 DEF Settled
      <4> QED BY <4>1, <4>2, <1>5 DEF SettlesTo
    <3> QED BY <3>1, <3>2
  <2>4. Archived(id) => ~archives
    BY <2>1
  <2>5. ASSUME NEW k \in Contexts
        PROVE  CoolsTo(c, query, id, k, decays)
    <3>1. A.decays <=> decays
      BY <2>1, <1>4, <1>7 DEF AgedFacts
    <3> QED BY <3>1, <1>5, <1>7 DEF CoolsTo
  <2>6. ASSUME NEW k \in Contexts
        PROVE  /\ ClockInv(id, k)'
               /\ ~Archived(id) /\ ~archives => \A x \in clocks'[id][k] : x.archived = None
    <3>1. ShelvesTo(c, id, k)
      BY <1>5, <1>7
    <3>2. set[k] = Clocks(c, query, turns', id)[k]
      BY <1>3
    <3> QED BY <2>3, <3>1, <3>2, <2>4, <2>5, TurnSettles
  <2>7. ~InArchive(known'[id]) => ~Archived(id) /\ ~archives
    BY <2>1, <2>2, <1>5 DEF InArchive
  <2>8. \A f \in docs'[id] : docs'[id] = {f} /\ IsDoc(f)
    BY <2>2, <1>5
  <2> QED BY <2>6, <2>7, <2>8 DEF DocInv, InArchive, IsDoc
<1> QED BY <1>6, <1>7

LEMMA TurnKeeps ==
  ASSUME DocumentsInv, NEW c \in Contexts, NEW query, Turn(c, query)
  PROVE  DocumentsInv'
<1>1. turns' \in [Contexts -> Nat] /\ DOMAIN docs' = Ids
  BY TurnCounts
<1>2. ASSUME NEW id \in Ids PROVE DocInv(id)'
  BY TurnAges, TurnLeaves
<1> QED BY <1>1, <1>2 DEF DocumentsInv

(* Every other step rewrites one document and leaves the ledger alone.     *)
LEMMA WriteKeeps ==
  ASSUME DocumentsInv, NEW id \in Ids, NEW set, docs' = [docs EXCEPT ![id] = set],
         \A d \in set : set = {d} /\ IsDoc(d), UNCHANGED <<ledger, history>>
  PROVE  DocumentsInv'
<1>1. DOMAIN docs' = Ids /\ docs'[id] = set /\ \A i \in Ids \ {id} : docs'[i] = docs[i]
  BY DEF DocumentsInv
<1>2. ASSUME NEW i \in Ids PROVE DocInv(i)'
  <2>1. DocInv(i) /\ UNCHANGED <<turns, clocks, known, cooled, shelved>>
    BY DEF DocumentsInv, ledger, history
  <2>2. \A k \in Contexts : ClockInv(i, k)'
    BY <2>1 DEF DocInv, ClockInv, IsClock
  <2>3. \A d \in docs'[i] : docs'[i] = {d} /\ IsDoc(d)
    BY <1>1, <2>1 DEF DocInv
  <2> QED BY <2>1, <2>2, <2>3 DEF DocInv, InArchive, IsDoc
<1> QED BY <1>1, <1>2 DEF DocumentsInv, ledger

LEMMA RewriteKeeps ==
  ASSUME DocumentsInv, NEW id \in Ids, NEW e, docs' = [docs EXCEPT ![id] = {e}], IsDoc(e), UNCHANGED <<ledger, history>>
  PROVE  DocumentsInv'
<1>1. \A d \in {e} : {e} = {d} /\ IsDoc(d)
  OBVIOUS
<1> QED BY <1>1, WriteKeeps

LEMMA StutterKeeps ==
  ASSUME DocumentsInv, UNCHANGED <<docs, ledger, history>>
  PROVE  DocumentsInv'
<1>1. UNCHANGED <<docs, turns, clocks, known, cooled, shelved>>
  BY DEF ledger, history
<1>2. ASSUME NEW i \in Ids PROVE DocInv(i)'
  BY <1>1 DEF DocumentsInv, DocInv, ClockInv, InArchive, IsClock, IsDoc
<1> QED BY <1>1, <1>2 DEF DocumentsInv

LEMMA DocumentsStep ==
  ASSUME DocumentsInv, [DocumentsNext]_documentVars
  PROVE  DocumentsInv'
<1>d. ASSUME NEW id \in Ids, Filed(id)
      PROVE  docs[id] = {Doc(id)} /\ IsDoc(Doc(id))
  BY <1>d DEF DocumentsInv, DocInv, Filed, Doc
<1>c. Full \in Nat /\ Archive \in Nat
  BY DocumentsAssumption
<1>1. ASSUME NEW c \in Contexts, NEW query \in SUBSET Ids, Turn(c, query) PROVE DocumentsInv'
  BY <1>1, TurnKeeps
<1>2. ASSUME NEW id \in Ids, NEW refs \in SUBSET Ids, CreateDocument(id, refs) PROVE DocumentsInv'
  <2>1. IsDoc([place |-> "active", weight |-> Full, refs |-> refs])
    BY <1>c DEF IsDoc
  <2> QED BY <1>2, <2>1, RewriteKeeps DEF CreateDocument
<1>3. ASSUME NEW id \in Ids, NEW refs \in SUBSET Ids, Edit(id, refs) PROVE DocumentsInv'
  <2>1. IsDoc([Doc(id) EXCEPT !.refs = refs])
    BY <1>3, <1>d DEF Edit, IsDoc
  <2> QED BY <1>3, <2>1, RewriteKeeps DEF Edit
<1>4. ASSUME NEW c \in Contexts, NEW refs \in SUBSET Ids, Scene(c, refs) PROVE DocumentsInv'
  BY <1>4, StutterKeeps DEF Scene
<1>5. ASSUME NEW id \in Ids, ArchiveByHand(id) PROVE DocumentsInv'
  <2>1. IsDoc([Doc(id) EXCEPT !.place = "archive", !.weight = Archive - 1])
    BY <1>5, <1>c, <1>d DEF ArchiveByHand, IsDoc
  <2> QED BY <1>5, <2>1, RewriteKeeps DEF ArchiveByHand
<1>6. ASSUME NEW id \in Ids, RestoreDocument(id) PROVE DocumentsInv'
  <2>1. Filed(id)
    BY <1>6 DEF RestoreDocument, Archived, Filed
  <2>2. IsDoc([Doc(id) EXCEPT !.place = "active"])
    BY <1>d, <2>1 DEF IsDoc
  <2> QED BY <1>6, <2>2, RewriteKeeps DEF RestoreDocument
<1>7. ASSUME NEW id \in Ids, DeleteDocument(id) PROVE DocumentsInv'
  <2>1. docs' = [docs EXCEPT ![id] = {}] /\ UNCHANGED <<ledger, history>>
    BY <1>7 DEF DeleteDocument
  <2> QED BY <2>1, WriteKeeps
<1>8. CASE UNCHANGED documentVars
  BY <1>8, StutterKeeps DEF documentVars
<1> QED BY <1>1, <1>2, <1>3, <1>4, <1>5, <1>6, <1>7, <1>8 DEF DocumentsNext

(* The clocks of the activity ledger never count more than what happened:  *)
(* no clock of a document runs ahead of the turns its user really spent    *)
(* since it used the document, since the last decay, or with the document  *)
(* in the archive (lifecycle.rs, plan and apply of a turn).                *)
THEOREM DocumentsCorrect == DocumentsSpec => []DocumentsInv
<1>1. DocumentsInit => DocumentsInv
  <2> SUFFICES ASSUME DocumentsInit PROVE DocumentsInv
    OBVIOUS
  <2>1. \A id \in Ids, k \in Contexts : clocks[id][k] = {} /\ cooled[id][k] = {} /\ shelved[id][k] = {}
    BY DEF DocumentsInit, Unknown
  <2>2. \A id \in Ids : docs[id] = {} /\ known[id] = {}
    BY DEF DocumentsInit
  <2>3. ASSUME NEW id \in Ids PROVE DocInv(id)
    BY <2>1, <2>2 DEF DocInv, ClockInv
  <2> QED BY <2>3 DEF DocumentsInit, DocumentsInv
<1>2. DocumentsInv /\ [DocumentsNext]_documentVars => DocumentsInv'
  BY DocumentsStep
<1> QED BY <1>1, <1>2, PTL DEF DocumentsSpec

(* Only a turn of c lets c's activity go on.                               *)
LEMMA TurnOnly ==
  ASSUME DocumentsInv, [DocumentsNext]_documentVars, NEW c \in Contexts, TurnOf(c)
  PROVE  \E query \in SUBSET Ids : Turn(c, query)
<1>1. turns[c] \in Nat /\ turns \in [Contexts -> Nat] /\ turns'[c] # turns[c]
  BY DEF DocumentsInv, TurnOf
<1>2. turns' # turns
  BY <1>1
<1>3. PICK b \in Contexts, query \in SUBSET Ids : Turn(b, query)
  BY <1>2 DEF DocumentsNext, documentVars, ledger, CreateDocument, Edit, Scene, ArchiveByHand, RestoreDocument, DeleteDocument
<1>4. b = c
  BY <1>1, <1>3 DEF Turn
<1> QED BY <1>3, <1>4

Named(set) == UNION {d.refs : d \in UNION {set[id] : id \in Ids}}

LEMMA NamedIs ==
  ASSUME NEW set, NEW x
  PROVE  x \in Named(set) <=> \E i \in Ids : \E d \in set[i] : x \in d.refs
<1>1. ASSUME NEW i \in Ids, NEW d \in set[i], x \in d.refs PROVE x \in Named(set)
  <2>1. d \in UNION {set[id] : id \in Ids}
    OBVIOUS
  <2> QED BY <2>1, <1>1 DEF Named
<1>2. ASSUME x \in Named(set) PROVE \E i \in Ids : \E d \in set[i] : x \in d.refs
  <2>1. PICK d \in UNION {set[id] : id \in Ids} : x \in d.refs
    BY <1>2 DEF Named
  <2> QED BY <2>1
<1> QED BY <1>1, <1>2

LEMMA ReferencesAre ==
  /\ References = Named(docs) \cup UNION {scenes[c] : c \in Contexts}
  /\ References' = Named(docs') \cup UNION {scenes'[c] : c \in Contexts}
  BY DEF References, Named

(* A turn changes no reference.                                            *)
LEMMA TurnRefers ==
  ASSUME DocumentsInv, NEW c \in Contexts, NEW query, Turn(c, query), NEW id, id \notin References
  PROVE  id \notin References'
<1>1. ASSUME NEW i \in Ids, NEW e \in docs'[i]
      PROVE  \E d \in docs[i] : e.refs = d.refs
  <2>1. CASE ~Aging(c, i)
    BY <2>1, TurnPasses
  <2>2. CASE Aging(c, i)
    <3>1. PICK d \in docs[i] : docs[i] = {d}
      BY <2>2 DEF DocumentsInv, DocInv, Aging, Filed
    <3>2. turns' \in [Contexts -> Nat]
      BY TurnCounts
    <3>3. PICK set, A : set = Clocks(c, query, turns', i) /\ A = Aged(c, query, turns', i)
      OBVIOUS
    <3>4. AgedFacts(c, turns', i, d, set, A) /\ docs'[i] = A.doc
      BY <2>2, <3>1, <3>2, <3>3, AgedIs, TurnLooks
    <3> QED BY <3>1, <3>4 DEF AgedFacts
  <2> QED BY <2>1, <2>2
<1>2. UNCHANGED scenes
  BY DEF Turn
<1>3. id \notin Named(docs')
  <2>1. id \notin Named(docs)
    BY ReferencesAre
  <2> QED BY <1>1, <2>1, NamedIs
<1>4. \A x \in References' : x \in Named(docs') \/ x \in References
  BY <1>2, ReferencesAre
<1> QED BY <1>3, <1>4

(* run_maintenance: a turn weakens a document only when every conversation *)
(* that ever used it went on for DecayAfter turns of its own.              *)
THEOREM SharedRetentionHolds == DocumentsSpec => SharedRetention
<1> DEFINE Shared ==
      \A id \in Ids, c \in Contexts : \A d \in docs[id], e \in docs'[id] :
        TurnOf(c) /\ e.weight < d.weight =>
          \A k \in Contexts : \A n \in cooled[id][k] : (IF k = c THEN n + 1 ELSE n) >= DecayAfter
<1>1. ASSUME DocumentsInv, [DocumentsNext]_documentVars PROVE Shared
  <2> SUFFICES ASSUME NEW id \in Ids, NEW c \in Contexts, NEW d \in docs[id], NEW e \in docs'[id],
                      TurnOf(c), e.weight < d.weight, NEW k \in Contexts, NEW n \in cooled[id][k]
               PROVE  (IF k = c THEN n + 1 ELSE n) >= DecayAfter
    OBVIOUS
  <2>1. PICK query \in SUBSET Ids : Turn(c, query)
    BY <1>1, TurnOnly
  <2>2. docs[id] = {d} /\ IsDoc(d) /\ ClockInv(id, k) /\ turns \in [Contexts -> Nat] /\ DecayAfter \in Nat \ {0}
    BY <1>1, DocumentsAssumption DEF DocumentsInv, DocInv
  <2>3. turns' \in [Contexts -> Nat] /\ turns'[k] = IF k = c THEN turns[k] + 1 ELSE turns[k]
    BY <1>1, <2>1, TurnCounts
  <2>4. Aging(c, id)
    <3>1. SUFFICES ASSUME ~Aging(c, id) PROVE FALSE
      OBVIOUS
    <3>2. docs'[id] = docs[id]
      BY <1>1, <2>1, <3>1, TurnPasses
    <3> QED BY <3>2, <2>2 DEF IsDoc
  <2>5. PICK set, A : set = Clocks(c, query, turns', id) /\ A = Aged(c, query, turns', id)
    OBVIOUS
  <2>6. AgedFacts(c, turns', id, d, set, A) /\ docs'[id] = A.doc
    BY <1>1, <2>1, <2>2, <2>3, <2>4, <2>5, AgedIs, TurnLooks
  <2>7. Decays(c, turns', set, id)
    BY <2>2, <2>6 DEF AgedFacts, IsDoc
  <2>8. PICK x \in clocks[id][k] : n >= DecayAfter \/ turns[k] - x.hit <= n \/ turns[k] - x.decay <= n
    BY <2>2 DEF ClockInv
  <2>9. ClocksFacts(c, query, turns', id, k, set[k])
    BY <1>1, <2>3, <2>5, ClocksAre
  <2>10. PICK y \in set[k] : Fresh(y, turns', id, k) \/ Goes(y, x, c, turns', id, k)
    BY <2>9 DEF ClocksFacts
  <2>11. turns'[k] - y.hit >= DecayAfter /\ turns'[k] - y.decay >= DecayAfter
    BY <2>7, <2>10 DEF Decays, EveryContext
  <2>12. n \in Nat /\ IsClock(x)
    BY <2>2 DEF ClockInv
  <2>13. ~Fresh(y, turns', id, k)
    BY <2>2, <2>3, <2>11 DEF Fresh
  <2>14. y.hit = x.hit /\ y.decay = x.decay
    BY <2>10, <2>13 DEF Goes
  <2> QED BY <2>2, <2>3, <2>8, <2>11, <2>12, <2>14 DEF IsClock
<1>2. DocumentsSpec => [][Shared]_documentVars
  <2> HIDE DEF Shared
  <2> QED BY <1>1, DocumentsCorrect, PTL DEF DocumentsSpec
<1> QED BY <1>2 DEF SharedRetention

(* A turn forgets only what spent ForgetAfter turns of each of its users   *)
(* in the archive, and what nothing refers to.                             *)
THEOREM ForgottenUnreferencedHolds == DocumentsSpec => ForgottenUnreferenced
<1> DEFINE Forgotten ==
      \A id \in Ids, c \in Contexts : TurnOf(c) /\ Filed(id) /\ docs'[id] = {} =>
        /\ id \in tombs' /\ id \notin References'
        /\ \A k \in Contexts : \A n \in shelved[id][k] : (IF k = c THEN n + 1 ELSE n) >= ForgetAfter
<1>1. ASSUME DocumentsInv, [DocumentsNext]_documentVars PROVE Forgotten
  <2> SUFFICES ASSUME NEW id \in Ids, NEW c \in Contexts, TurnOf(c), Filed(id), docs'[id] = {}
               PROVE  /\ id \in tombs' /\ id \notin References'
                      /\ \A k \in Contexts : \A n \in shelved[id][k] : (IF k = c THEN n + 1 ELSE n) >= ForgetAfter
    OBVIOUS
  <2>1. PICK query \in SUBSET Ids : Turn(c, query)
    BY <1>1, TurnOnly
  <2>2. PICK d : docs[id] = {d}
    BY <1>1 DEF DocumentsInv, DocInv, Filed
  <2>3. turns \in [Contexts -> Nat] /\ turns' \in [Contexts -> Nat] /\ ForgetAfter \in Nat \ {0}
    BY <1>1, <2>1, TurnCounts, DocumentsAssumption
  <2>4. Aging(c, id)
    BY <1>1, <2>1, TurnPasses DEF Filed
  <2>5. PICK set, A : set = Clocks(c, query, turns', id) /\ A = Aged(c, query, turns', id)
    OBVIOUS
  <2>6. AgedFacts(c, turns', id, d, set, A) /\ A.doc = {} /\ (A.forgets => id \in tombs')
    BY <1>1, <2>1, <2>2, <2>3, <2>4, <2>5, AgedIs, TurnLooks
  <2>7. /\ A.forgets /\ Archived(id) /\ id \notin References
        /\ \A k \in Contexts : \A x \in set[k] : x.archived # None /\ turns'[k] - x.archived >= ForgetAfter
    BY <2>2, <2>6 DEF AgedFacts
  <2>8. ASSUME NEW k \in Contexts, NEW n \in shelved[id][k]
        PROVE  (IF k = c THEN n + 1 ELSE n) >= ForgetAfter
    <3>1. ClockInv(id, k) /\ turns'[k] = IF k = c THEN turns[k] + 1 ELSE turns[k]
      BY <1>1, <2>1, TurnCounts DEF DocumentsInv, DocInv
    <3>2. PICK x \in clocks[id][k] :
            IsClock(x) /\ (n >= ForgetAfter \/ x.archived = None \/ turns[k] - x.archived <= n)
      BY <3>1 DEF ClockInv
    <3>3. ClocksFacts(c, query, turns', id, k, set[k])
      BY <1>1, <2>3, <2>5, ClocksAre
    <3>4. PICK y \in set[k] : Fresh(y, turns', id, k) \/ Goes(y, x, c, turns', id, k)
      BY <3>3 DEF ClocksFacts
    <3>5. y.archived # None /\ turns'[k] - y.archived >= ForgetAfter
      BY <2>7
    <3>6. y.archived # turns'[k]
      BY <2>3, <3>5
    <3>7. y.archived = x.archived /\ x.archived # None
      BY <2>7, <3>4, <3>5, <3>6 DEF Fresh, Goes
    <3>8. n \in Nat /\ turns[k] \in Nat
      BY <3>1, <2>3 DEF ClockInv
    <3> QED BY <2>3, <3>1, <3>2, <3>5, <3>7, <3>8 DEF IsClock
  <2>9. id \notin References'
    BY <1>1, <2>1, <2>7, TurnRefers
  <2> QED BY <2>6, <2>7, <2>8, <2>9
<1>2. DocumentsSpec => [][Forgotten]_documentVars
  <2> HIDE DEF Forgotten
  <2> QED BY <1>1, DocumentsCorrect, PTL DEF DocumentsSpec
<1> QED BY <1>2 DEF ForgottenUnreferenced

----------------------------------------------------------------------------
(* What a row and a message are, in the tables, in the payload of a        *)
(* tombstone, in a handler and in a container.                             *)
RowType == [space : Spaces, character : SUBSET Cards, title : Texts, archived : BOOLEAN]
MessageType == [text : Texts, context : BOOLEAN]
IsMessage(S) == S \subseteq MessageType /\ Single(S)

IsPayload(o, saved) ==
  /\ o \in Chats => saved.row \in RowType /\ \A m \in MessagesOf(o) : IsMessage(saved.messages[m])
  /\ o \in Messages => saved.row \in MessageType

RowsTyped(d) ==
  /\ DOMAIN d.characters = Cards /\ \A v \in Chats : d.conversations[v] \subseteq RowType
  /\ \A m \in Messages : IsMessage(d.messages[m])

PayloadsTyped(d) == \A o \in Objects : \A t \in d.tombstones[o] : \A saved \in t.payload : IsPayload(o, saved)

StepTyped(step) ==
  /\ step.op \in {"fence_conversation", "create_conversation"} => step.with \in Cards
  /\ step.op = "rename" => step.with \in Texts
  /\ step.op = "restore" => IsPayload(step.on, step.with)

PackTyped(k) ==
  /\ \A v \in Chats : \A x \in k.conversations[v] : x.title \in Texts /\ x.archived \in BOOLEAN
  /\ \A m \in Messages : IsMessage(k.messages[m])

StoreTyped == Tables(db) /\ RowsTyped(db) /\ PayloadsTyped(db)
CallsTyped == DOMAIN call = Clients /\ \A p \in Clients : StepTyped(call[p])

LEMMA ErasedTyped ==
  ASSUME NEW d, Sound(d), RowsTyped(d), PayloadsTyped(d), NEW o \in Objects
  PROVE  RowsTyped(Erased(d, o)) /\ PayloadsTyped(Erased(d, o))
<1> USE RecordsAssumption
<1> PICK e : e = Erased(d, o)
  OBVIOUS
<1> PICK payload : payload = IF Snapshot(d, o) = {} THEN UNION {t.payload : t \in d.tombstones[o]} ELSE Snapshot(d, o)
  OBVIOUS
<1>1. /\ Tables(e)
      /\ \A v \in Chats : IF v = o THEN e.conversations[v] = {}
                          ELSE \/ e.conversations[v] = d.conversations[v]
                               \/ e.conversations[v] = {[x EXCEPT !.character = @ \ {o}] : x \in d.conversations[v]}
      /\ \A m \in Messages : e.messages[m] = IF o \in Chats
                                             THEN IF Of[m] = o THEN {} ELSE d.messages[m]
                                             ELSE IF m = o THEN {} ELSE d.messages[m]
      /\ e.tombstones = [d.tombstones EXCEPT ![o] = {[payload |-> payload, hidden |-> FALSE]}]
  BY ErasedTables
<1>2. DOMAIN e.characters = Cards
  <2>1. Tables(d) /\ DOMAIN d.characters = Cards
    BY DEF Sound, RowsTyped
  <2> DEFINE w == Without(d, o)
  <2>2. "tombstones" \in DOMAIN w /\ "characters" \in DOMAIN w /\ DOMAIN w.characters = Cards
    <3>1. CASE o \in Cards
      <4> DEFINE table == [v \in Chats |-> {[x EXCEPT !.character = @ \ {o}] : x \in d.conversations[v]}]
      <4>1. w = [d EXCEPT !.characters[o] = {}, !.conversations = table]
        BY <3>1 DEF Without
      <4> HIDE DEF w, table
      <4> QED BY <2>1, <4>1 DEF Tables
    <3>2. CASE o \in Chats
      <4> DEFINE kept == [m \in Messages |-> IF Of[m] = o THEN {} ELSE d.messages[m]]
      <4>1. w = [d EXCEPT !.conversations[o] = {}, !.messages = kept]
        BY <3>2 DEF Without
      <4> HIDE DEF w, kept
      <4> QED BY <2>1, <4>1 DEF Tables
    <3>3. CASE o \notin Cards \cup Chats
      <4>1. w = [d EXCEPT !.messages[o] = {}]
        BY <3>3 DEF Without
      <4> HIDE DEF w
      <4> QED BY <2>1, <4>1 DEF Tables
    <3> QED BY <3>1, <3>2, <3>3
  <2>3. PICK T : e = [w EXCEPT !.tombstones[o] = T]
    BY DEF Erased
  <2> HIDE DEF w
  <2> QED BY <2>2, <2>3
<1>3. ASSUME NEW v \in Chats PROVE e.conversations[v] \subseteq RowType
  <2>1. d.conversations[v] \subseteq RowType
    BY DEF RowsTyped
  <2>2. \A x \in RowType : [x EXCEPT !.character = @ \ {o}] \in RowType
    BY DEF RowType
  <2> QED BY <1>1, <2>1, <2>2
<1>4. \A m \in Messages : IsMessage(e.messages[m])
  <2>1. IsMessage({})
    BY DEF IsMessage, Single
  <2> QED BY <1>1, <2>1 DEF RowsTyped
<1>5. ASSUME NEW saved \in payload PROVE IsPayload(o, saved)
  <2>1. CASE Snapshot(d, o) = {}
    BY <2>1 DEF PayloadsTyped
  <2>2. CASE saved \in Snapshot(d, o) /\ o \in Chats
    <3> DEFINE kept == [m \in MessagesOf(o) |-> d.messages[m]]
    <3>1. Snapshot(d, o) = {[row |-> x, messages |-> kept] : x \in d.conversations[o]} /\ o \notin Messages
      BY <2>2 DEF Snapshot
    <3>2. \A m \in MessagesOf(o) : IsMessage(kept[m])
      BY DEF MessagesOf, RowsTyped
    <3> HIDE DEF kept
    <3>3. PICK x \in d.conversations[o] : saved = [row |-> x, messages |-> kept]
      BY <2>2, <3>1
    <3> QED BY <2>2, <3>1, <3>2, <3>3 DEF IsPayload, RowsTyped
  <2>3. CASE saved \in Snapshot(d, o) /\ o \in Messages
    <3>1. PICK x \in d.messages[o] : saved = [row |-> x]
      BY <2>3 DEF Snapshot
    <3> QED BY <2>3, <3>1 DEF IsPayload, RowsTyped, IsMessage
  <2>4. CASE o \in Cards
    BY <2>4 DEF IsPayload
  <2> QED BY <2>1, <2>2, <2>3, <2>4 DEF Objects
<1>6. ASSUME NEW k \in Objects, NEW t \in e.tombstones[k], NEW saved \in t.payload PROVE IsPayload(k, saved)
  <2>1. DOMAIN d.tombstones = Objects
    BY DEF Sound, Tables
  <2>2. CASE k = o
    <3>1. e.tombstones[k] = {[payload |-> payload, hidden |-> FALSE]}
      BY <1>1, <2>1, <2>2
    <3>2. t = [payload |-> payload, hidden |-> FALSE]
      BY <1>6, <3>1
    <3> QED BY <1>5, <1>6, <2>2, <3>2
  <2>3. CASE k # o
    BY <1>1, <1>6, <2>1, <2>3 DEF PayloadsTyped
  <2> QED BY <2>2, <2>3
<1>7. RowsTyped(e)
  BY <1>2, <1>3, <1>4 DEF RowsTyped
<1>8. PayloadsTyped(e)
  BY <1>6 DEF PayloadsTyped
<1> QED BY <1>7, <1>8

LEMMA PutBackTyped ==
  ASSUME NEW saved, IsMessage(saved), NEW there
  PROVE  IsMessage(PutBack(saved, there))
<1>0. Single(PutBack(saved, there))
  BY DEF PutBack, IsMessage, Single
<1> SUFFICES ASSUME NEW x \in saved PROVE [x EXCEPT !.context = @ \/ \E y \in there : y.context] \in MessageType
  BY <1>0 DEF PutBack, IsMessage
<1> x \in MessageType
  BY DEF IsMessage
<1>1. PICK b \in BOOLEAN : b <=> \E y \in there : y.context
  OBVIOUS
<1>2. [x EXCEPT !.context = @ \/ b] \in MessageType
  BY DEF MessageType
<1>3. PICK c \in BOOLEAN : c = (x.context \/ \E y \in there : y.context)
  OBVIOUS
<1>4. [x EXCEPT !.context = c] \in MessageType
  BY DEF MessageType
<1> QED BY <1>3, <1>4

LEMMA RestoredTyped ==
  ASSUME NEW d, Sound(d), RowsTyped(d), PayloadsTyped(d), NEW o \in Objects, NEW saved, IsPayload(o, saved)
  PROVE  RowsTyped(Restored(d, o, saved)) /\ PayloadsTyped(Restored(d, o, saved))
<1> USE RecordsAssumption
<1> PICK e : e = Restored(d, o, saved)
  OBVIOUS
<1>1. BroughtBack(d, o, saved, e)
  BY RestoredTables
<1>2. DOMAIN e.characters = Cards /\ (o \notin Cards => \A v \in Chats : v # o => e.conversations[v] = d.conversations[v])
  <2>1. Tables(d) /\ DOMAIN d.characters = Cards
    BY DEF Sound, RowsTyped
  <2> DEFINE back == [d EXCEPT !.tombstones[o] = {}]
  <2>2. "characters" \in DOMAIN back /\ DOMAIN back.characters = Cards /\ back.conversations = d.conversations /\ Tables(back)
    BY <2>1 DEF Tables
  <2>3. \/ o \in Cards /\ \E table : e = [back EXCEPT !.characters[o] = {saved.row}, !.conversations = table]
        \/ \E table, kept : e = [back EXCEPT !.conversations[o] = table, !.messages = kept]
        \/ \E kept : e = [back EXCEPT !.messages[o] = kept]
    BY Zenon DEF Restored
  <2> HIDE DEF back
  <2>4. CASE o \in Cards /\ \E table : e = [back EXCEPT !.characters[o] = {saved.row}, !.conversations = table]
    <3>1. PICK table : e = [back EXCEPT !.characters[o] = {saved.row}, !.conversations = table]
      BY <2>4
    <3> QED BY <2>2, <2>4, <3>1 DEF Tables
  <2>5. CASE \E table, kept : e = [back EXCEPT !.conversations[o] = table, !.messages = kept]
    <3>1. PICK table, kept : e = [back EXCEPT !.conversations[o] = table, !.messages = kept]
      BY <2>5
    <3> QED BY <2>2, <3>1 DEF Tables
  <2>6. CASE \E kept : e = [back EXCEPT !.messages[o] = kept]
    <3>1. PICK kept : e = [back EXCEPT !.messages[o] = kept]
      BY <2>6
    <3> QED BY <2>2, <3>1 DEF Tables
  <2> QED BY <2>3, <2>4, <2>5, <2>6
<1>3. ASSUME NEW v \in Chats PROVE e.conversations[v] \subseteq RowType
  <2>1. d.conversations[v] \subseteq RowType
    BY DEF RowsTyped
  <2>2. CASE v = o
    BY <1>1, <2>2 DEF BroughtBack, IsPayload
  <2>3. CASE e.conversations[v] = d.conversations[v]
    BY <2>1, <2>3
  <2>4. CASE v # o /\ e.conversations[v] = Relinked(d.conversations[v], v, o, saved) /\ o \in Cards
    <3>1. \A x \in RowType : [x EXCEPT !.character = {o}] \in RowType
      BY <2>4 DEF RowType
    <3>2. \A x \in d.conversations[v] : (IF v \in saved.links /\ x.character = {} THEN [x EXCEPT !.character = {o}] ELSE x) \in RowType
      BY <2>1, <3>1
    <3> QED BY <2>4, <3>2 DEF Relinked
  <2> QED BY <1>1, <1>2, <2>2, <2>3, <2>4 DEF BroughtBack
<1>4. ASSUME NEW m \in Messages PROVE IsMessage(e.messages[m])
  <2>1. IsMessage(d.messages[m])
    BY DEF RowsTyped
  <2>2. CASE o = m
    <3>1. PICK S : S = {saved.row}
      OBVIOUS
    <3>2. IsMessage(S)
      BY <2>2, <3>1 DEF IsMessage, Single, IsPayload
    <3>3. e.messages[m] = PutBack(S, d.messages[m])
      BY <1>1, <2>2, <3>1 DEF BroughtBack
    <3> QED BY <3>2, <3>3, PutBackTyped
  <2>3. CASE o # m /\ o = Of[m]
    <3>1. IsMessage(saved.messages[m])
      BY <2>3 DEF IsPayload, MessagesOf
    <3> QED BY <1>1, <2>1, <2>3, <3>1, PutBackTyped DEF BroughtBack
  <2> QED BY <1>1, <2>1, <2>2, <2>3 DEF BroughtBack
<1>5. PayloadsTyped(e)
  BY <1>1 DEF BroughtBack, PayloadsTyped, Sound, Tables
<1>6. RowsTyped(e)
  BY <1>2, <1>3, <1>4 DEF RowsTyped
<1> QED BY <1>5, <1>6

LEMMA CardsStayTyped ==
  ASSUME StoreTyped, NEW c, NEW X, db' = [db EXCEPT !.characters[c] = X]
  PROVE  StoreTyped'
<1>1. /\ Tables(db') /\ DOMAIN db'.characters = DOMAIN db.characters
      /\ db'.conversations = db.conversations /\ db'.messages = db.messages /\ db'.tombstones = db.tombstones
  BY DEF StoreTyped, Tables
<1> QED BY <1>1 DEF StoreTyped, Tables, RowsTyped, PayloadsTyped

LEMMA RowsStayTyped ==
  ASSUME StoreTyped, NEW v \in Chats, NEW X, X \subseteq RowType, db' = [db EXCEPT !.conversations[v] = X]
  PROVE  StoreTyped'
<1>1. /\ Tables(db') /\ db'.characters = db.characters /\ db'.messages = db.messages /\ db'.tombstones = db.tombstones
      /\ \A w \in Chats : db'.conversations[w] = IF w = v THEN X ELSE db.conversations[w]
  BY DEF StoreTyped, Tables
<1> QED BY <1>1 DEF StoreTyped, Tables, RowsTyped, PayloadsTyped

LEMMA MessagesStayTyped ==
  ASSUME StoreTyped, NEW m \in Messages, NEW X, IsMessage(X), db' = [db EXCEPT !.messages[m] = X]
  PROVE  StoreTyped'
<1>1. /\ Tables(db') /\ db'.characters = db.characters /\ db'.conversations = db.conversations /\ db'.tombstones = db.tombstones
      /\ \A k \in Messages : db'.messages[k] = IF k = m THEN X ELSE db.messages[k]
  BY DEF StoreTyped, Tables
<1> QED BY <1>1 DEF StoreTyped, Tables, RowsTyped, PayloadsTyped

LEMMA TombstonesStayTyped ==
  ASSUME StoreTyped, NEW o \in Objects, NEW X, \A t \in X : t.payload = {}, db' = [db EXCEPT !.tombstones[o] = X]
  PROVE  StoreTyped'
<1>1. /\ Tables(db') /\ db'.characters = db.characters /\ db'.conversations = db.conversations /\ db'.messages = db.messages
      /\ \A k \in Objects : db'.tombstones[k] = IF k = o THEN X ELSE db.tombstones[k]
  BY DEF StoreTyped, Tables
<1> QED BY <1>1 DEF StoreTyped, Tables, RowsTyped, PayloadsTyped

LEMMA StoreUnchanged ==
  ASSUME StoreTyped, UNCHANGED db
  PROVE  StoreTyped'
BY DEF StoreTyped, RowsTyped, PayloadsTyped, Tables

LEMMA NewMessageTyped == IsMessage({[text |-> First, context |-> TRUE]})
BY RecordsAssumption DEF MessageType, IsMessage, Single

(* The handlers keep the types. *)
LEMMA OperateKeepsStore ==
  ASSUME StoreTyped, Sound(db), CallInv, CallsTyped, Operate
  PROVE  StoreTyped'
<1>1. ASSUME NEW p \in Clients, Handle(p), db' # db PROVE StoreTyped'
  <2>1. StepTyped(call[p]) /\ About(call[p])
    BY DEF CallsTyped, CallInv
  <2>2. CASE SaveCharacter(p)
    <3>1. \E c, X : db' = [db EXCEPT !.characters[c] = X]
      BY <2>2 DEF SaveCharacter
    <3> QED BY <3>1, CardsStayTyped
  <2>3. CASE CreateConversation(p)
    <3> PICK v : v = call[p].on
      OBVIOUS
    <3>1. v \in Chats /\ call[p].with \in Cards
      BY <2>1, <2>3 DEF CreateConversation, About, Idle, RowSteps, StepTyped
    <3>2. PICK X : X = {[space |-> Home, character |-> {call[p].with}, title |-> First, archived |-> FALSE]}
      OBVIOUS
    <3>3. db' = [db EXCEPT !.conversations[v] = X]
      BY <1>1, <2>3, <3>2 DEF CreateConversation
    <3>4. X \subseteq RowType
      BY <3>1, <3>2, RecordsAssumption DEF RowType
    <3> QED BY <3>1, <3>3, <3>4, RowsStayTyped
  <2>4. CASE Say(p)
    <3> PICK m : m = call[p].on
      OBVIOUS
    <3>1. m \in Messages
      BY <2>1, <2>4 DEF Say, About, Idle
    <3>2. PICK X : X = {[text |-> First, context |-> TRUE]}
      OBVIOUS
    <3>3. db' = [db EXCEPT !.messages[m] = X]
      BY <1>1, <2>4, <3>2 DEF Say
    <3>4. IsMessage(X)
      BY <3>2, NewMessageTyped
    <3> QED BY <3>1, <3>3, <3>4, MessagesStayTyped
  <2>5. CASE Rename(p)
    <3> PICK v : v = call[p].on
      OBVIOUS
    <3>1. v \in Chats /\ call[p].with \in Texts
      BY <2>1, <2>5 DEF Rename, About, Idle, RowSteps, StepTyped
    <3>2. PICK X : X = {[x EXCEPT !.title = call[p].with] : x \in db.conversations[v]}
      OBVIOUS
    <3>3. db' = [db EXCEPT !.conversations[v] = X]
      BY <2>5, <3>2 DEF Rename
    <3>4. X \subseteq RowType
      <4>1. \A x \in RowType : [x EXCEPT !.title = call[p].with] \in RowType
        BY <3>1 DEF RowType
      <4> QED BY <3>1, <3>2, <4>1 DEF StoreTyped, RowsTyped
    <3> QED BY <3>1, <3>3, <3>4, RowsStayTyped
  <2>6. CASE DeleteObject(p)
    <3>1. call[p].on \in Objects /\ db' = Erased(db, call[p].on)
      BY <2>1, <2>6 DEF DeleteObject, About, Idle
    <3>2. Sound(Erased(db, call[p].on))
      BY <3>1, ErasedSound
    <3>3. Tables(db') /\ RowsTyped(db') /\ PayloadsTyped(db')
      BY <3>1, <3>2, ErasedTyped DEF StoreTyped, Sound
    <3> QED BY <3>3 DEF StoreTyped
  <2>7. CASE Restore(p)
    <3>1. call[p].on \in Objects /\ IsPayload(call[p].on, call[p].with)
      BY <2>1, <2>7 DEF Restore, About, Idle, StepTyped
    <3>2. Restorable(db, call[p].on, call[p].with) /\ db' = Restored(db, call[p].on, call[p].with)
      BY <1>1, <2>7 DEF Restore
    <3>3. Sound(db')
      BY <3>1, <3>2, RestoredSound
    <3>4. Tables(db') /\ RowsTyped(db') /\ PayloadsTyped(db')
      BY <3>1, <3>2, <3>3, RestoredTyped DEF StoreTyped, Sound
    <3> QED BY <3>4 DEF StoreTyped
  <2> QED BY <1>1, <2>2, <2>3, <2>4, <2>5, <2>6, <2>7
       DEF Handle, AskSaveCharacter, FenceCharacter, FenceConversation, AskCreate, AskSay, AskRename, AskDelete, AskRestore
<1>2. ASSUME NEW m \in Messages, NEW text \in Texts, EditMessage(m, text) PROVE StoreTyped'
  <2>1. PICK X : X = {[x EXCEPT !.text = text] : x \in db.messages[m]}
    OBVIOUS
  <2>2. db' = [db EXCEPT !.messages[m] = X]
    BY <1>2, <2>1 DEF EditMessage
  <2>3. IsMessage(X)
    <3>1. \A x \in MessageType : [x EXCEPT !.text = text] \in MessageType
      BY DEF MessageType
    <3>2. IsMessage(db.messages[m])
      BY DEF StoreTyped, RowsTyped
    <3> QED BY <2>1, <3>1, <3>2 DEF IsMessage, Single
  <2> QED BY <2>2, <2>3, MessagesStayTyped
<1>3. ASSUME NEW v \in Chats, NEW archived \in BOOLEAN, SetArchived(v, archived) PROVE StoreTyped'
  <2>1. PICK X : X = {[x EXCEPT !.archived = archived] : x \in db.conversations[v]}
    OBVIOUS
  <2>2. db' = [db EXCEPT !.conversations[v] = X]
    BY <1>3, <2>1 DEF SetArchived
  <2>3. X \subseteq RowType
    <3>1. \A x \in RowType : [x EXCEPT !.archived = archived] \in RowType
      BY DEF RowType
    <3> QED BY <2>1, <3>1 DEF StoreTyped, RowsTyped
  <2> QED BY <2>2, <2>3, RowsStayTyped
<1>4. ASSUME NEW o \in Objects, Purge(o) \/ Forget(o) PROVE StoreTyped'
  <2>1. CASE Purge(o)
    <3>1. PICK X : X = {[payload |-> {}, hidden |-> TRUE]}
      OBVIOUS
    <3>2. db' = [db EXCEPT !.tombstones[o] = X] /\ \A t \in X : t.payload = {}
      BY <2>1, <3>1 DEF Purge
    <3> QED BY <3>2, TombstonesStayTyped
  <2>2. CASE Forget(o)
    <3>1. PICK X : X = {}
      OBVIOUS
    <3>2. db' = [db EXCEPT !.tombstones[o] = X] /\ \A t \in X : t.payload = {}
      BY <2>2, <3>1 DEF Forget
    <3> QED BY <3>2, TombstonesStayTyped
  <2> QED BY <1>4, <2>1, <2>2
<1> QED BY <1>1, <1>2, <1>3, <1>4, StoreUnchanged DEF Operate

LEMMA OneStepTyped ==
  ASSUME CallsTyped, NEW p \in Clients, NEW step, StepTyped(step), call' = [call EXCEPT ![p] = step]
  PROVE  CallsTyped'
BY DEF CallsTyped

LEMMA OperateKeepsSteps ==
  ASSUME CallsTyped, CallInv, PayloadsTyped(db), Operate
  PROVE  CallsTyped'
<1> USE DEF StepTyped
<1>1. ASSUME NEW p \in Clients, Return(p) PROVE CallsTyped'
  <2>1. StepTyped(Idle)
    BY DEF Idle
  <2> QED BY <1>1, <2>1, OneStepTyped DEF Return
<1>2. ASSUME NEW p \in Clients, Handle(p) PROVE CallsTyped'
  <2>1. CASE SaveCharacter(p) \/ CreateConversation(p) \/ Say(p) \/ Rename(p) \/ DeleteObject(p) \/ Restore(p)
    BY <1>1, <2>1 DEF SaveCharacter, CreateConversation, Say, Rename, DeleteObject, Restore
  <2>2. ASSUME NEW c \in Cards, NEW text \in Texts, AskSaveCharacter(p, c, text) PROVE CallsTyped'
    <3>1. PICK step : step = [op |-> "fence_character", on |-> c, with |-> [space |-> Home, text |-> text]]
      OBVIOUS
    <3>2. StepTyped(step)
      BY <3>1
    <3>3. call' = [call EXCEPT ![p] = step]
      BY <2>2, <3>1 DEF AskSaveCharacter, Start
    <3> QED BY <3>2, <3>3, OneStepTyped
  <2>3. ASSUME NEW v \in Chats, NEW c \in Cards, AskCreate(p, v, c) PROVE CallsTyped'
    <3>1. PICK step : step = [op |-> "fence_conversation", on |-> v, with |-> c]
      OBVIOUS
    <3>2. StepTyped(step)
      BY <3>1
    <3>3. call' = [call EXCEPT ![p] = step]
      BY <2>3, <3>1 DEF AskCreate, Start
    <3> QED BY <3>2, <3>3, OneStepTyped
  <2>4. ASSUME NEW m \in Messages, AskSay(p, m) PROVE CallsTyped'
    <3>1. PICK step : step = [op |-> "say", on |-> m]
      OBVIOUS
    <3>2. StepTyped(step)
      BY <3>1
    <3>3. call' = [call EXCEPT ![p] = step]
      BY <2>4, <3>1 DEF AskSay, Start
    <3> QED BY <3>2, <3>3, OneStepTyped
  <2>5. ASSUME NEW v \in Chats, NEW text \in Texts, AskRename(p, v, text) PROVE CallsTyped'
    <3>1. PICK step : step = [op |-> "rename", on |-> v, with |-> text]
      OBVIOUS
    <3>2. StepTyped(step)
      BY <3>1
    <3>3. call' = [call EXCEPT ![p] = step]
      BY <2>5, <3>1 DEF AskRename, Start
    <3> QED BY <3>2, <3>3, OneStepTyped
  <2>6. ASSUME NEW o \in Objects, AskDelete(p, o) PROVE CallsTyped'
    <3>1. PICK step : step = [op |-> "delete", on |-> o]
      OBVIOUS
    <3>2. StepTyped(step)
      BY <3>1
    <3>3. call' = [call EXCEPT ![p] = step]
      BY <2>6, <3>1 DEF AskDelete, Start
    <3> QED BY <3>2, <3>3, OneStepTyped
  <2>7. ASSUME NEW o \in Objects, AskRestore(p, o) PROVE CallsTyped'
    <3>0. PICK t \in db.tombstones[o] : \E saved \in t.payload : Start(p, [op |-> "restore", on |-> o, with |-> saved])
      BY <2>7 DEF AskRestore
    <3>1. PICK saved \in t.payload : Start(p, [op |-> "restore", on |-> o, with |-> saved])
      BY <3>0
    <3>2. PICK step : step = [op |-> "restore", on |-> o, with |-> saved]
      OBVIOUS
    <3>3. StepTyped(step)
      BY <3>2 DEF PayloadsTyped
    <3>4. call' = [call EXCEPT ![p] = step]
      BY <3>1, <3>2 DEF Start
    <3> QED BY <3>3, <3>4, OneStepTyped
  <2>8. ASSUME FenceCharacter(p) \/ FenceConversation(p), ~Return(p) PROVE CallsTyped'
    <3> PICK place \in {"save_character", "create_conversation"} :
          /\ Continue(p, [call[p] EXCEPT !.op = place])
          /\ place = "create_conversation" => call[p].op = "fence_conversation"
          /\ call[p].op \in {"fence_character", "fence_conversation"}
      BY <2>8 DEF FenceCharacter, FenceConversation
    <3>1. StepTyped(call[p]) /\ About(call[p])
      BY DEF CallsTyped, CallInv
    <3>2. {"op", "on"} \subseteq DOMAIN call[p]
      BY <3>1 DEF About, Idle
    <3>3. PICK step : step = [call[p] EXCEPT !.op = place]
      OBVIOUS
    <3>4. step.op = place /\ step.with = call[p].with
      BY <3>2, <3>3
    <3>5. StepTyped(step)
      BY <3>1, <3>4
    <3>6. call' = [call EXCEPT ![p] = step]
      BY <3>3 DEF Continue
    <3> QED BY <3>5, <3>6, OneStepTyped
  <2> QED BY <1>1, <1>2, <2>1, <2>2, <2>3, <2>4, <2>5, <2>6, <2>7, <2>8 DEF Handle
<1>3. CASE UNCHANGED call
  BY <1>3 DEF CallsTyped
<1> QED BY <1>2, <1>3 DEF Operate, EditMessage, SetArchived, Purge, Forget

----------------------------------------------------------------------------
(* What a container and a job are made of. *)
PackShaped(k) ==
  /\ PackTyped(k) /\ DOMAIN k.characters = Cards /\ DOMAIN k.conversations = Chats /\ DOMAIN k.messages = Messages
  /\ \E characters, conversations, messages, profs, file :
       k = [characters |-> characters, conversations |-> conversations, messages |-> messages, profiles |-> profs, files |-> file]

CardPlaces == {"card", "save_card", "profile"}

JobTyped ==
  /\ PackShaped(pack) /\ DOMAIN profiles = Cards /\ DOMAIN files = Spaces
  /\ job.at # "none" => {"kind", "quiet"} \subseteq DOMAIN job
  /\ job.at \in ExportPlaces => job.kind = "export" /\ PackShaped(job.out)
  /\ job.at \in ImportPlaces \cup {"ended"} => job.kind = "import"
  /\ job.at # "none" /\ job.kind = "import" =>
       {"mode", "target", "before", "left", "item", "seen"} \subseteq DOMAIN job /\ job.target \in Spaces
  /\ job.at \in CardPlaces => job.left \subseteq Present(pack.characters)
  /\ job.at \in {"save_card", "profile"} => \E c \in Cards : pack.characters[c] # {} /\ job.item = {c}

LEMMA PackedMessages ==
  ASSUME NEW S, IsMessage(S), NEW b \in BOOLEAN
  PROVE  IsMessage({[x EXCEPT !.context = b] : x \in S})
<1>1. \A x \in MessageType : [x EXCEPT !.context = b] \in MessageType
  BY DEF MessageType
<1> QED BY <1>1 DEF IsMessage, Single

(* A step of an import. *)
LEMMA ImportMoves ==
  ASSUME JobTyped, JobInv, job.at \in ImportPlaces, UNCHANGED pack, DOMAIN profiles' = Cards, DOMAIN files' = Spaces,
         DOMAIN job' = DOMAIN job, job'.kind = job.kind, job'.target = job.target,
         job'.at \in ImportPlaces \cup {"ended", "refused", "failed"},
         job'.at \in CardPlaces => job'.left \subseteq Present(pack.characters),
         job'.at \in {"save_card", "profile"} => \E c \in Cards : pack.characters[c] # {} /\ job'.item = {c}
  PROVE  JobTyped'
BY DEF JobTyped, ImportPlaces, ExportPlaces, PackShaped, PackTyped, Present

LEMMA ExportKeepsTypes ==
  ASSUME JobTyped, JobInv, StoreTyped, Export
  PROVE  JobTyped'
<1> USE DEF ExportPlaces, ImportPlaces, CardPlaces
<1>1. CASE BeginExport
  <2>1. PICK out : out = Nothing
    OBVIOUS
  <2>2. PackShaped(out)
    <3>1. IsMessage({})
      BY DEF IsMessage, Single
    <3> QED BY <2>1, <3>1 DEF Nothing, PackShaped, PackTyped
  <2>3. job' = [at |-> "export_characters", kind |-> "export", quiet |-> TRUE, out |-> out] /\ UNCHANGED <<pack, profiles, files>>
    BY <1>1, <2>1 DEF BeginExport, BeginJob, portable
  <2> QED BY <2>2, <2>3 DEF JobTyped, PackShaped, PackTyped
<1>2. ASSUME NEW k, PackShaped(k), job.at \in ExportPlaces, NEW place \in ExportPlaces,
             DOMAIN job' = DOMAIN job, job'.at = place, job'.kind = job.kind, job'.out = k, UNCHANGED <<pack, profiles, files>>
      PROVE  JobTyped'
  BY <1>2 DEF JobTyped, PackShaped, PackTyped
<1>3. ASSUME job.at \in ExportPlaces
      PROVE  {"at", "kind", "quiet", "out"} \subseteq DOMAIN job /\ PackShaped(job.out)
  BY <1>3 DEF JobTyped, JobInv
<1>4. CASE ExportCharacters
  <2>1. PICK X : X = [c \in Cards |-> {[text |-> x.text] : x \in {y \in db.characters[c] : y.space = Home}}]
    OBVIOUS
  <2>2. job.at = "export_characters" /\ job' = [job EXCEPT !.at = "export_profiles", !.out.characters = X] /\ UNCHANGED <<pack, profiles, files>>
    BY <1>4, <2>1 DEF ExportCharacters, Reads, portable
  <2>3. PICK k : k = [job.out EXCEPT !.characters = X]
    OBVIOUS
  <2>4. PackShaped(k)
    BY <1>3, <2>1, <2>2, <2>3 DEF PackShaped, PackTyped
  <2> QED BY <1>2, <1>3, <2>2, <2>3, <2>4
<1>5. CASE ExportProfiles
  <2>1. PICK X : X = [c \in Cards |-> IF job.out.characters[c] # {} THEN profiles[c] ELSE {}]
    OBVIOUS
  <2>2. job.at = "export_profiles" /\ job' = [job EXCEPT !.at = "export_conversations", !.out.profiles = X] /\ UNCHANGED <<pack, profiles, files>>
    BY <1>5, <2>1 DEF ExportProfiles, Reads, portable
  <2>3. PICK k : k = [job.out EXCEPT !.profiles = X]
    OBVIOUS
  <2>4. PackShaped(k)
    BY <1>3, <2>2, <2>3 DEF PackShaped, PackTyped
  <2> QED BY <1>2, <1>3, <2>2, <2>3, <2>4
<1>6. CASE ExportConversations
  <2> DEFINE packed(x) == [character |-> x.character, title |-> x.title, archived |-> x.archived]
  <2>1. PICK X : X = [v \in Chats |-> {packed(x) : x \in {y \in db.conversations[v] : y.space = Home}}]
    OBVIOUS
  <2>2. job.at = "export_conversations" /\ job' = [job EXCEPT !.at = "export_messages", !.out.conversations = X] /\ UNCHANGED <<pack, profiles, files>>
    BY <1>6, <2>1 DEF ExportConversations, Reads, portable
  <2>3. \A v \in Chats : \A x \in X[v] : x.title \in Texts /\ x.archived \in BOOLEAN
    BY <2>1 DEF StoreTyped, RowsTyped, RowType
  <2>4. DOMAIN X = Chats
    BY <2>1
  <2> HIDE DEF packed
  <2>5. PICK k : k = [job.out EXCEPT !.conversations = X]
    OBVIOUS
  <2>6. PackShaped(k)
    BY <1>3, <2>2, <2>3, <2>4, <2>5 DEF PackShaped, PackTyped
  <2> QED BY <1>2, <1>3, <2>2, <2>5, <2>6
<1>7. CASE ExportMessages
  <2>1. PICK X : X = [m \in Messages |-> IF job.out.conversations[Of[m]] # {} THEN {[x EXCEPT !.context = FALSE] : x \in db.messages[m]} ELSE {}]
    OBVIOUS
  <2>2. job.at = "export_messages" /\ job' = [job EXCEPT !.at = "export_contexts", !.out.messages = X] /\ UNCHANGED <<pack, profiles, files>>
    BY <1>7, <2>1 DEF ExportMessages, Reads, portable
  <2>3. ASSUME NEW m \in Messages PROVE IsMessage(X[m])
    <3>1. X[m] = IF job.out.conversations[Of[m]] # {} THEN {[x EXCEPT !.context = FALSE] : x \in db.messages[m]} ELSE {}
      BY <2>1
    <3>2. IsMessage(db.messages[m]) /\ IsMessage({})
      BY DEF StoreTyped, RowsTyped, IsMessage, Single
    <3>3. IsMessage({[x EXCEPT !.context = FALSE] : x \in db.messages[m]})
      BY <3>2, PackedMessages
    <3> QED BY <3>1, <3>2, <3>3
  <2>4. DOMAIN X = Messages
    BY <2>1
  <2>5. PICK k : k = [job.out EXCEPT !.messages = X]
    OBVIOUS
  <2>6. PackShaped(k)
    BY <1>3, <2>2, <2>3, <2>4, <2>5 DEF PackShaped, PackTyped
  <2> QED BY <1>2, <1>3, <2>2, <2>5, <2>6
<1>8. CASE ExportContexts
  <2>1. PICK X : X = [m \in Messages |-> {[x EXCEPT !.context = \E y \in db.messages[m] : y.context] : x \in job.out.messages[m]}]
    OBVIOUS
  <2>2. job.at = "export_contexts" /\ job' = [job EXCEPT !.at = "create", !.out.messages = X, !.out.files = files[Home]] /\ UNCHANGED <<pack, profiles, files>>
    BY <1>8, <2>1 DEF ExportContexts, Reads, portable
  <2>3. ASSUME NEW m \in Messages PROVE IsMessage(X[m])
    <3>1. PICK b \in BOOLEAN : b = \E y \in db.messages[m] : y.context
      OBVIOUS
    <3>2. X[m] = {[x EXCEPT !.context = b] : x \in job.out.messages[m]}
      BY <2>1, <3>1
    <3>3. IsMessage(job.out.messages[m])
      BY <1>3, <2>2 DEF PackShaped, PackTyped
    <3> QED BY <3>2, <3>3, PackedMessages
  <2>4. DOMAIN X = Messages
    BY <2>1
  <2>5. PICK k : k = [job.out EXCEPT !.messages = X, !.files = files[Home]]
    OBVIOUS
  <2>6. PackShaped(k)
    BY <1>3, <2>2, <2>3, <2>4, <2>5 DEF PackShaped, PackTyped
  <2>7. job'.out = k
    BY <1>3, <2>2, <2>5
  <2> QED BY <1>2, <1>3, <2>2, <2>6, <2>7
<1>9. CASE Create
  <2>1. PackShaped(job.out) /\ pack' = job.out /\ job' = NoJob /\ UNCHANGED <<profiles, files>>
    BY <1>3, <1>9 DEF Create
  <2>2. PackShaped(pack)'
    BY <2>1 DEF PackShaped, PackTyped
  <2> QED BY <2>1, <2>2 DEF JobTyped, NoJob
<1> QED BY <1>1, <1>4, <1>5, <1>6, <1>7, <1>8, <1>9 DEF Export

LEMMA ImportKeepsTypes ==
  ASSUME JobTyped, JobInv, Import
  PROVE  JobTyped'
<1> USE DEF ImportPlaces, CardPlaces
<1>1. ASSUME NEW mode, NEW target \in Spaces, BeginImport(mode, target) PROVE JobTyped'
  <2>1. PICK was : was = [db |-> db, profiles |-> profiles, files |-> files]
    OBVIOUS
  <2>2. /\ job' = [at |-> "preflight", kind |-> "import", mode |-> mode, target |-> target,
                   seen |-> {}, left |-> {}, item |-> {}, quiet |-> TRUE, before |-> was]
        /\ UNCHANGED <<pack, profiles, files>>
    BY <1>1, <2>1 DEF BeginImport, BeginJob, portable
  <2> QED BY <2>2 DEF JobTyped, ExportPlaces, PackShaped, PackTyped
<1>2. ASSUME job.at \in ImportPlaces
      PROVE  {"at", "kind", "quiet", "mode", "target", "before", "left", "item", "seen"} \subseteq DOMAIN job
             /\ (job.at \in CardPlaces => job.left \subseteq Present(pack.characters))
             /\ DOMAIN profiles = Cards /\ DOMAIN files = Spaces
  BY <1>2 DEF JobTyped, JobInv
<1>4. ASSUME NEW place \in (ImportPlaces \ CardPlaces) \cup {"ended", "refused", "failed"}, job.at \in ImportPlaces, job' = [job EXCEPT !.at = place],
             UNCHANGED pack, DOMAIN profiles' = Cards, DOMAIN files' = Spaces
      PROVE  JobTyped'
  <2>1. DOMAIN job' = DOMAIN job /\ job'.kind = job.kind /\ job'.target = job.target /\ job'.at = place
    BY <1>2, <1>4
  <2> QED BY <1>4, <2>1, ImportMoves
<1>5. CASE Preflight
  BY <1>2, <1>4, <1>5 DEF Preflight, To, Reads, portable
<1>6. CASE ImportCharacters
  <2>0. PICK here, left : here = Present(db.characters) /\ left = IF Keep THEN Present(pack.characters) \ here ELSE Present(pack.characters)
    OBVIOUS
  <2>1. job' = [job EXCEPT !.at = "card", !.seen = here, !.left = left] /\ left \subseteq Present(pack.characters)
    BY <1>6, <2>0 DEF ImportCharacters, Phase
  <2>2. job.at = "characters" /\ UNCHANGED <<pack, profiles, files>>
    BY <1>6 DEF ImportCharacters, Phase, Reads, portable
  <2> QED BY <1>2, <2>1, <2>2, ImportMoves
<1>7. ASSUME NEW c \in Cards, FenceCard(c) PROVE JobTyped'
  <2>1. PICK place \in {"profile", "save_card"} : job.at = "card" /\ c \in job.left /\ job' = [job EXCEPT !.at = place, !.item = {c}, !.left = @ \ {c}]
    BY <1>7 DEF FenceCard, Take
  <2>2. UNCHANGED <<pack, profiles, files>>
    BY <1>7 DEF FenceCard, Take, Reads, portable
  <2>3. /\ DOMAIN job' = DOMAIN job /\ job'.kind = job.kind /\ job'.target = job.target /\ job'.at = place
        /\ job'.item = {c} /\ job'.left \subseteq job.left
    BY <1>2, <2>1
  <2>4. pack.characters[c] # {}
    BY <1>2, <2>1 DEF Present
  <2> QED BY <1>2, <2>1, <2>2, <2>3, <2>4, ImportMoves
<1>8. CASE SaveCard \/ SaveProfile
  <2>1. PICK place \in {"profile", "card"} : job' = [job EXCEPT !.at = place] /\ job.at \in {"save_card", "profile"}
    BY <1>8 DEF SaveCard, SaveProfile, To
  <2>2. UNCHANGED <<pack, files>> /\ DOMAIN profiles' = Cards
    BY <1>2, <1>8, <2>1 DEF SaveCard, SaveProfile, Writes
  <2>3. DOMAIN job' = DOMAIN job /\ job'.kind = job.kind /\ job'.target = job.target /\ job'.at = place
        /\ job'.item = job.item /\ job'.left = job.left
    BY <1>2, <2>1
  <2>4. \E c \in Cards : pack.characters[c] # {} /\ job.item = {c}
    BY <2>1 DEF JobTyped
  <2> QED BY <1>2, <2>1, <2>2, <2>3, <2>4, ImportMoves
<1>9. CASE Done("card", "conversations") \/ Done("conversation", "messages") \/ Done("message", "files")
  BY <1>2, <1>4, <1>9 DEF Done, To, Reads, portable
<1>10. CASE ImportConversations \/ ImportMessages
  <2>1. PICK place \in {"conversation", "message"} : \E here, left :
          job' = [job EXCEPT !.at = place, !.seen = here, !.left = left] /\ job.at \in {"conversations", "messages"}
    BY <1>10 DEF ImportConversations, ImportMessages, Phase
  <2>2. UNCHANGED <<pack, profiles, files>>
    BY <1>10 DEF ImportConversations, ImportMessages, Phase, Reads, portable
  <2>3. DOMAIN job' = DOMAIN job /\ job'.kind = job.kind /\ job'.target = job.target /\ job'.at = place
    BY <1>2, <2>1
  <2> QED BY <1>2, <2>1, <2>2, <2>3, ImportMoves
<1>11. CASE Rearchive \/ SaveNew
  <2>1. (To("conversation") \/ To("failed")) /\ UNCHANGED <<pack, profiles, files>>
        /\ job.at \in {"archive", "save_conversation"}
    BY <1>11 DEF Rearchive, SaveNew, Writes
  <2> QED BY <1>2, <1>4, <2>1 DEF To
<1>12. ASSUME NEW v \in Chats, Retitle(v) PROVE JobTyped'
  <2>1. CASE job' = [job EXCEPT !.at = "archive", !.item = {v}, !.left = @ \ {v}]
    <3>1. job.at = "conversation" /\ UNCHANGED <<pack, profiles, files>>
      BY <1>12 DEF Retitle, Writes
    <3>2. DOMAIN job' = DOMAIN job /\ job'.kind = job.kind /\ job'.target = job.target /\ job'.at = "archive"
      BY <1>2, <2>1, <3>1
    <3> QED BY <1>2, <3>1, <3>2, ImportMoves
  <2>2. CASE To("failed")
    BY <1>2, <1>4, <1>12, <2>2 DEF Retitle, To, Writes
  <2> QED BY <1>12, <2>1, <2>2 DEF Retitle
<1>13. ASSUME NEW v \in Chats, FenceNew(v) PROVE JobTyped'
  <2>1. PICK place \in {"conversation", "save_conversation"} : job.at = "conversation" /\ job' = [job EXCEPT !.at = place, !.item = {v}, !.left = @ \ {v}]
    BY <1>13 DEF FenceNew, Take
  <2>2. UNCHANGED <<pack, profiles, files>>
    BY <1>13 DEF FenceNew, Take, Reads, portable
  <2>3. DOMAIN job' = DOMAIN job /\ job'.kind = job.kind /\ job'.target = job.target /\ job'.at = place
    BY <1>2, <2>1
  <2> QED BY <1>2, <2>1, <2>2, <2>3, ImportMoves
<1>14. ASSUME NEW m \in Messages, SaveMessage(m) PROVE JobTyped'
  <2>1. CASE To("failed")
    BY <1>2, <1>4, <1>14, <2>1 DEF SaveMessage, To, Writes
  <2>2. CASE job' = [job EXCEPT !.left = @ \ {m}]
    <3>1. job.at = "message" /\ UNCHANGED <<pack, profiles, files>>
      BY <1>14 DEF SaveMessage, Writes
    <3>2. DOMAIN job' = DOMAIN job /\ job'.kind = job.kind /\ job'.target = job.target /\ job'.at = "message"
      BY <1>2, <2>2, <3>1
    <3> QED BY <1>2, <3>1, <3>2, ImportMoves
  <2> QED BY <1>14, <2>1, <2>2 DEF SaveMessage
<1>15. CASE ImportFiles
  BY <1>2, <1>4, <1>15 DEF ImportFiles, To, Writes
<1> QED BY <1>1, <1>5, <1>6, <1>7, <1>8, <1>9, <1>10, <1>11, <1>12, <1>13, <1>14, <1>15 DEF Import

LEMMA ImportKeepsStore ==
  ASSUME StoreTyped, JobTyped, JobInv, Import
  PROVE  StoreTyped'
<1> USE DEF ImportPlaces
<1>1. PackTyped(pack)
  BY DEF JobTyped, PackShaped
<1>2. CASE UNCHANGED db
  BY <1>2, StoreUnchanged
<1>3. CASE SaveCard
  <2>1. \E c, X : db' = [db EXCEPT !.characters[c] = X]
    BY <1>3 DEF SaveCard
  <2> QED BY <2>1, CardsStayTyped
<1>4. ASSUME NEW v \in Chats, Retitle(v), db' # db PROVE StoreTyped'
  <2> DEFINE titled(x, y) == [x EXCEPT !.title = y.title]
             X == {titled(x, y) : x \in db.conversations[v], y \in pack.conversations[v]}
  <2>2. db' = [db EXCEPT !.conversations[v] = X]
    BY <1>4 DEF Retitle
  <2>3. \A x \in RowType, title \in Texts : [x EXCEPT !.title = title] \in RowType
    BY DEF RowType
  <2>4. X \subseteq RowType
    <3>1. \A x \in db.conversations[v], y \in pack.conversations[v] : titled(x, y) \in RowType
      BY <1>1, <2>3 DEF StoreTyped, RowsTyped, PackTyped
    <3> HIDE DEF titled
    <3> QED BY <3>1
  <2> HIDE DEF X
  <2> QED BY <2>2, <2>4, RowsStayTyped
<1>5. CASE Rearchive
  <2>1. PICK v \in Chats : job.item = {v}
    BY <1>5 DEF Rearchive, JobInv
  <2> DEFINE marked(x, y) == IF x.space = job.target THEN [x EXCEPT !.archived = y.archived] ELSE x
             X == {marked(x, y) : x \in db.conversations[v], y \in pack.conversations[v]}
  <2>3. db' = [db EXCEPT !.conversations[v] = X]
    <3>1. Item = v
      BY <2>1, ItemOf
    <3> QED BY <1>5, <3>1 DEF Rearchive
  <2>4. \A x \in RowType, b \in BOOLEAN : [x EXCEPT !.archived = b] \in RowType
    BY DEF RowType
  <2>5. ASSUME NEW x \in db.conversations[v], NEW y \in pack.conversations[v]
        PROVE  marked(x, y) \in RowType
    BY <1>1, <2>4 DEF StoreTyped, RowsTyped, PackTyped
  <2>6. X \subseteq RowType
    <3> HIDE DEF marked
    <3> QED BY <2>5
  <2> HIDE DEF X
  <2> QED BY <2>3, <2>6, RowsStayTyped
<1>6. ASSUME SaveNew, db' # db PROVE StoreTyped'
  <2>1. PICK v \in Chats : job.item = {v}
    BY <1>6 DEF SaveNew, JobInv
  <2> PICK S : S = db.conversations[v]
    OBVIOUS
  <2>2. PICK X : X = {[space |-> job.target, character |-> x.character \cap job.seen, title |-> x.title,
                       archived |-> IF S = {} THEN x.archived ELSE Only(S).archived] : x \in pack.conversations[v]}
    OBVIOUS
  <2>3. db' = [db EXCEPT !.conversations[v] = X]
    BY <1>6, <2>1, <2>2, ItemOf DEF SaveNew
  <2>4. Present(db.characters) \subseteq Cards /\ S \subseteq RowType
    BY DEF Present, StoreTyped, RowsTyped
  <2>5. job.target \in Spaces
    BY <1>6 DEF JobTyped, SaveNew
  <2>6. S # {} => Only(S) \in S /\ Only(S).archived \in BOOLEAN
    BY <2>4 DEF Only, RowType
  <2>7. ASSUME NEW x \in pack.conversations[v]
        PROVE  [space |-> job.target, character |-> x.character \cap job.seen, title |-> x.title,
                archived |-> IF S = {} THEN x.archived ELSE Only(S).archived] \in RowType
    <3>1. x.title \in Texts /\ x.archived \in BOOLEAN
      BY <1>1 DEF PackTyped
    <3>2. PICK b \in BOOLEAN : b = IF S = {} THEN x.archived ELSE Only(S).archived
      BY <2>6, <3>1
    <3>3. PICK C \in SUBSET Cards : C = x.character \cap job.seen
      BY <1>6, <2>1, <2>4, ItemOf DEF SaveNew
    <3>4. [space |-> job.target, character |-> C, title |-> x.title, archived |-> b] \in RowType
      BY <2>5, <3>1 DEF RowType
    <3> QED BY <3>2, <3>3, <3>4
  <2>8. X \subseteq RowType
    BY <2>2, <2>7
  <2> QED BY <2>3, <2>8, RowsStayTyped
<1>7. ASSUME NEW m \in Messages, SaveMessage(m), db' # db PROVE StoreTyped'
  <2>1. db' = [db EXCEPT !.messages[m] = pack.messages[m]]
    BY <1>7 DEF SaveMessage
  <2> QED BY <1>1, <2>1, MessagesStayTyped DEF PackTyped
<1> QED BY <1>2, <1>3, <1>4, <1>5, <1>6, <1>7
     DEF Import, BeginImport, BeginJob, Preflight, Reads, ImportCharacters, ImportConversations, ImportMessages, Phase,
         Done, FenceCard, FenceNew, Take, SaveProfile, ImportFiles

ContentInv == RecordsInv /\ StoreTyped /\ CallsTyped /\ JobTyped

LEMMA ContentInitially ==
  ASSUME PortableInit
  PROVE  ContentInv
<1> USE RecordsAssumption
<1>1. PICK S \in {{}} \cup {{c} : c \in Cards} : db = InUse(S)
  BY DEF PortableInit, RecordsInit
<1>2. /\ Tables(db) /\ DOMAIN db.characters = Cards /\ \A o \in Objects : db.tombstones[o] = {}
      /\ db.conversations =
           [v \in Chats |-> {[space |-> Home, character |-> {c}, title |-> First, archived |-> FALSE] : c \in S}]
      /\ db.messages = [m \in Messages |-> {[text |-> First, context |-> TRUE] : c \in IF m \in Old THEN S ELSE {}}]
  BY <1>1 DEF InUse, Empty, Tables, Objects
<1>3. \A v \in Chats : db.conversations[v] \subseteq RowType
  <2>1. \A c \in S : [space |-> Home, character |-> {c}, title |-> First, archived |-> FALSE] \in RowType
    BY DEF RowType
  <2> QED BY <1>2, <2>1
<1>4. \A m \in Messages : IsMessage(db.messages[m])
  <2>1. [text |-> First, context |-> TRUE] \in MessageType
    BY DEF MessageType
  <2>2. \A m \in Messages : db.messages[m] \subseteq {[text |-> First, context |-> TRUE]}
    BY <1>2
  <2> QED BY <2>1, <2>2 DEF IsMessage, Single
<1>5. StoreTyped
  BY <1>2, <1>3, <1>4 DEF StoreTyped, RowsTyped, PayloadsTyped
<1>6. CallsTyped
  BY DEF PortableInit, RecordsInit, CallsTyped, StepTyped, Idle
<1>7. PackShaped(pack)
  <2>1. PICK text \in Texts : pack = Foreign(text)
    BY DEF PortableInit
  <2>2. \A v \in Chats : \A x \in pack.conversations[v] : x.title \in Texts /\ x.archived \in BOOLEAN
    <3>1. PICK C : C = {CHOOSE c \in Cards : TRUE}
      OBVIOUS
    <3>2. PICK row : row = [character |-> C, title |-> text, archived |-> TRUE]
      OBVIOUS
    <3>3. \A v \in Chats : pack.conversations[v] = {row}
      BY <2>1, <3>1, <3>2 DEF Foreign
    <3>4. row.title \in Texts /\ row.archived \in BOOLEAN
      BY <3>2
    <3> QED BY <3>3, <3>4
  <2>3. \A m \in Messages : IsMessage(pack.messages[m])
    <3>1. [text |-> text, context |-> FALSE] \in MessageType
      BY DEF MessageType
    <3>2. \A m \in Messages : pack.messages[m] \subseteq {[text |-> text, context |-> FALSE]}
      BY <2>1 DEF Foreign
    <3> QED BY <3>1, <3>2 DEF IsMessage, Single
  <2>4. DOMAIN pack.characters = Cards /\ DOMAIN pack.conversations = Chats /\ DOMAIN pack.messages = Messages
    BY <2>1 DEF Foreign
  <2>5. \E characters, conversations, messages, profs, file :
          pack = [characters |-> characters, conversations |-> conversations, messages |-> messages, profiles |-> profs, files |-> file]
    BY <2>1, Zenon DEF Foreign
  <2> QED BY <2>2, <2>3, <2>4, <2>5 DEF PackShaped, PackTyped
<1>8. JobTyped
  BY <1>7 DEF PortableInit, JobTyped, NoJob, ImportPlaces, ExportPlaces, CardPlaces
<1> QED BY <1>5, <1>6, <1>8, PortableInitially DEF ContentInv

LEMMA ContentStep ==
  ASSUME ContentInv, [PortableNext]_portableVars
  PROVE  ContentInv'
<1> USE DEF ContentInv
<1>1. RecordsInv' /\ Sound(db) /\ CallInv /\ JobInv
  BY PortableStep DEF RecordsInv, LedgerInv
<1>2. CASE Manage
  <2>1. StoreTyped' /\ CallsTyped'
    BY <1>1, <1>2, OperateKeepsStore, OperateKeepsSteps DEF Manage, StoreTyped
  <2>2. JobTyped'
    <3>1. UNCHANGED <<pack, profiles, files>>
      BY <1>2 DEF Manage, portable
    <3>2. CASE UNCHANGED job
      BY <3>1, <3>2 DEF JobTyped, PackShaped, PackTyped, Present
    <3>3. CASE job.at # "none" /\ job' = [job EXCEPT !.quiet = FALSE]
      <4>1. {"at", "kind", "quiet"} \subseteq DOMAIN job
        BY <1>1, <3>3 DEF JobTyped, JobInv
      <4>2. /\ DOMAIN job' = DOMAIN job /\ job'.at = job.at /\ job'.kind = job.kind
            /\ ("target" \in DOMAIN job => job'.target = job.target) /\ ("left" \in DOMAIN job => job'.left = job.left)
            /\ ("item" \in DOMAIN job => job'.item = job.item) /\ ("out" \in DOMAIN job => job'.out = job.out)
        BY <3>3, <4>1
      <4>3. job.at \in ExportPlaces => "out" \in DOMAIN job
        BY <1>1 DEF JobInv
      <4>4. job.at \in CardPlaces => job.kind = "import"
        BY DEF JobTyped, CardPlaces, ImportPlaces
      <4>5. PackShaped(pack)'
        BY <3>1 DEF JobTyped, PackShaped, PackTyped
      <4>6. job'.at \in ExportPlaces => PackShaped(job.out)' /\ PackShaped(job'.out)
        BY <4>2, <4>3 DEF JobTyped, PackShaped, PackTyped
      <4>7. job'.at \in CardPlaces => job'.left \subseteq Present(pack'.characters)
        BY <3>1, <4>2, <4>4 DEF JobTyped, CardPlaces, Present
      <4>8. job'.at \in {"save_card", "profile"} => \E c \in Cards : pack'.characters[c] # {} /\ job'.item = {c}
        BY <3>1, <4>2, <4>4 DEF JobTyped, CardPlaces
      <4>9. job'.kind = "import" => job'.target = job.target
        BY <3>3, <4>2 DEF JobTyped
      <4> QED BY <3>1, <3>3, <4>1, <4>2, <4>5, <4>6, <4>7, <4>8, <4>9 DEF JobTyped
    <3> QED BY <1>2, <3>2, <3>3 DEF Manage
  <2> QED BY <1>1, <2>1, <2>2
<1>3. CASE Export
  <2>1. UNCHANGED db /\ UNCHANGED call
    BY <1>3 DEF Export, BeginExport, BeginJob, ExportCharacters, ExportProfiles, ExportConversations, ExportMessages,
                ExportContexts, Create, Reads
  <2>2. CallsTyped'
    BY <2>1 DEF CallsTyped
  <2> QED BY <1>1, <1>3, <2>1, <2>2, StoreUnchanged, ExportKeepsTypes
<1>4. CASE Import
  <2>1. UNCHANGED call
    BY <1>4, ImportLeavesCalls
  <2>2. CallsTyped'
    BY <2>1 DEF CallsTyped
  <2> QED BY <1>1, <1>4, <2>2, ImportKeepsStore, ImportKeepsTypes
<1>5. CASE Break
  <2>1. job' = [job EXCEPT !.at = "broken"] /\ UNCHANGED <<db, call>> /\ UNCHANGED <<pack, profiles, files>> /\ job.at \notin Over
    BY <1>5 DEF Break, To, portable
  <2>2. CallsTyped'
    BY <2>1 DEF CallsTyped
  <2>3. {"at", "kind", "quiet"} \subseteq DOMAIN job
    BY <1>1, <2>1 DEF JobTyped, JobInv, Over
  <2>4. /\ DOMAIN job' = DOMAIN job /\ job'.at = "broken" /\ job'.kind = job.kind
        /\ ("target" \in DOMAIN job => job'.target = job.target)
    BY <2>1, <2>3
  <2>5. JobTyped'
    BY <2>1, <2>3, <2>4 DEF JobTyped, PackShaped, PackTyped, CardPlaces, ImportPlaces, ExportPlaces, Over
  <2> QED BY <1>1, <2>1, <2>2, <2>5, StoreUnchanged
<1>6. CASE Crash
  <2>1. job' = NoJob /\ call' = [p \in Clients |-> Idle] /\ UNCHANGED db /\ UNCHANGED <<pack, profiles, files>>
    BY <1>6 DEF Crash, portable
  <2>2. CallsTyped'
    BY <2>1 DEF CallsTyped, StepTyped, Idle
  <2>3. JobTyped'
    BY <2>1 DEF JobTyped, NoJob, PackShaped, PackTyped, CardPlaces, ImportPlaces, ExportPlaces
  <2> QED BY <1>1, <2>1, <2>2, <2>3, StoreUnchanged
<1>7. CASE UNCHANGED portableVars
  <2>1. UNCHANGED db /\ UNCHANGED call /\ UNCHANGED <<pack, job, profiles, files>>
    BY <1>7 DEF portableVars
  <2>2. CallsTyped'
    BY <2>1 DEF CallsTyped
  <2>3. JobTyped'
    BY <2>1 DEF JobTyped, PackShaped, PackTyped, Present
  <2> QED BY <1>1, <2>1, <2>2, <2>3, StoreUnchanged
<1> QED BY <1>2, <1>3, <1>4, <1>5, <1>6, <1>7 DEF PortableNext

----------------------------------------------------------------------------
(* What an export that nobody disturbs has read is the Space as it is.     *)
InHome(S) == {x \in S : x.space = Home}

OutCards == [c \in Cards |-> {[text |-> x.text] : x \in InHome(db.characters[c])}]
OutProfiles == [c \in Cards |-> IF InHome(db.characters[c]) = {} THEN {} ELSE profiles[c]]
OutChats ==
  [v \in Chats |->
    {[character |-> x.character, title |-> x.title, archived |-> x.archived] : x \in InHome(db.conversations[v])}]
OutTexts ==
  [m \in Messages |->
    IF InHome(db.conversations[Of[m]]) = {} THEN {} ELSE {[x EXCEPT !.context = FALSE] : x \in db.messages[m]}]
OutMessages == [m \in Messages |-> IF InHome(db.conversations[Of[m]]) = {} THEN {} ELSE db.messages[m]]

ExportInv ==
  job.at \in ExportPlaces /\ job.quiet =>
    /\ job.at # "export_characters" => job.out.characters = OutCards
    /\ job.at \in {"export_conversations", "export_messages", "export_contexts", "create"} => job.out.profiles = OutProfiles
    /\ job.at \in {"export_messages", "export_contexts", "create"} => job.out.conversations = OutChats
    /\ job.at = "export_contexts" => job.out.messages = OutTexts
    /\ job.at = "create" => job.out.messages = OutMessages /\ job.out.files = files[Home]

(* To take the context of the one message there is away and to set it again. *)
LEMMA ContextComesBack ==
  ASSUME NEW S, IsMessage(S), NEW T, T = {[x EXCEPT !.context = FALSE] : x \in S}
  PROVE  {[x EXCEPT !.context = \E y \in S : y.context] : x \in T} = S
<1>1. CASE S = {}
  BY <1>1
<1>2. CASE S # {}
  <2>1. PICK s \in MessageType : S = {s}
    BY <1>2 DEF IsMessage, Single
  <2>2. T = {[s EXCEPT !.context = FALSE]}
    BY <2>1
  <2>3. PICK b \in BOOLEAN : b = \E y \in S : y.context
    OBVIOUS
  <2>4. b = s.context
    BY <2>1, <2>3 DEF MessageType
  <2>5. [[s EXCEPT !.context = FALSE] EXCEPT !.context = b] = s
    BY <2>4 DEF MessageType
  <2>6. {[x EXCEPT !.context = b] : x \in T} = {s}
    BY <2>2, <2>5
  <2> QED BY <2>1, <2>3, <2>6
<1> QED BY <1>1, <1>2

LEMMA ExportStep ==
  ASSUME ContentInv, ExportInv, Export
  PROVE  ExportInv'
<1> USE DEF ExportPlaces
<1>1. CASE BeginExport
  <2>1. job'.at = "export_characters"
    BY <1>1 DEF BeginExport, BeginJob
  <2> QED BY <2>1 DEF ExportInv
<1>2. CASE Create
  <2>1. job'.at = "none"
    BY <1>2 DEF Create, NoJob
  <2> QED BY <2>1 DEF ExportInv
<1>3. CASE Reads /\ job.at \in ExportPlaces
  <2>1. UNCHANGED <<db, profiles, files>>
    BY <1>3 DEF Reads, portable
  <2>2. OutCards' = OutCards /\ OutProfiles' = OutProfiles
    BY <2>1 DEF OutCards, OutProfiles
  <2>3. OutChats' = OutChats /\ OutMessages' = OutMessages
    BY <2>1 DEF OutChats, OutMessages
  <2>4. OutTexts' = OutTexts
    BY <2>1 DEF OutTexts
  <2>5. {"at", "kind", "quiet", "out"} \subseteq DOMAIN job /\ {"characters", "conversations", "messages", "profiles", "files"} \subseteq DOMAIN job.out
    <3>1. PackShaped(job.out) /\ {"at", "kind", "quiet", "out"} \subseteq DOMAIN job
      BY <1>3 DEF ContentInv, RecordsInv, JobTyped, JobInv
    <3>2. PICK characters, conversations, messages, profs, file :
            job.out = [characters |-> characters, conversations |-> conversations, messages |-> messages, profiles |-> profs, files |-> file]
      BY <3>1 DEF PackShaped
    <3> QED BY <3>1, <3>2
  <2>6. CASE ExportCharacters
    <3>1. PICK X : X = OutCards
      OBVIOUS
    <3>2. job.at = "export_characters" /\ job' = [job EXCEPT !.at = "export_profiles", !.out.characters = X]
      BY <2>6, <3>1 DEF ExportCharacters, OutCards, InHome
    <3>3. job'.at = "export_profiles" /\ job'.out.characters = X
      BY <2>5, <3>2
    <3> QED BY <2>2, <3>1, <3>3 DEF ExportInv
  <2>7. CASE ExportProfiles
    <3>1. PICK X : X = [c \in Cards |-> IF job.out.characters[c] # {} THEN profiles[c] ELSE {}]
      OBVIOUS
    <3>2. job.at = "export_profiles" /\ job' = [job EXCEPT !.at = "export_conversations", !.out.profiles = X]
      BY <2>7, <3>1 DEF ExportProfiles
    <3>3. /\ job'.at = "export_conversations" /\ job'.out.characters = job.out.characters
          /\ job'.out.profiles = X /\ job'.quiet = job.quiet
      BY <2>5, <3>2
    <3>4. job.out.characters = OutCards => X = OutProfiles
      <4>1. \A c \in Cards : OutCards[c] # {} <=> InHome(db.characters[c]) # {}
        BY DEF OutCards
      <4> QED BY <3>1, <4>1 DEF OutProfiles
    <3> QED BY <2>2, <3>2, <3>3, <3>4 DEF ExportInv
  <2>8. CASE ExportConversations
    <3>1. PICK X : X = OutChats
      OBVIOUS
    <3>2. job.at = "export_conversations" /\ job' = [job EXCEPT !.at = "export_messages", !.out.conversations = X]
      BY <2>8, <3>1 DEF ExportConversations, OutChats, InHome
    <3>3. /\ job'.at = "export_messages" /\ job'.out.characters = job.out.characters
          /\ job'.out.profiles = job.out.profiles /\ job'.out.conversations = X /\ job'.quiet = job.quiet
      BY <2>5, <3>2
    <3> QED BY <2>2, <2>3, <3>1, <3>2, <3>3 DEF ExportInv
  <2>9. CASE ExportMessages
    <3>1. PICK X : X = [m \in Messages |-> IF job.out.conversations[Of[m]] # {}
                                           THEN {[x EXCEPT !.context = FALSE] : x \in db.messages[m]} ELSE {}]
      OBVIOUS
    <3>2. job.at = "export_messages" /\ job' = [job EXCEPT !.at = "export_contexts", !.out.messages = X]
      BY <2>9, <3>1 DEF ExportMessages
    <3>3. /\ job'.at = "export_contexts" /\ job'.out.characters = job.out.characters /\ job'.out.profiles = job.out.profiles
          /\ job'.out.conversations = job.out.conversations /\ job'.out.messages = X /\ job'.quiet = job.quiet
      BY <2>5, <3>2
    <3>4. job.out.conversations = OutChats => X = OutTexts
      <4>1. \A m \in Messages : OutChats[Of[m]] # {} <=> InHome(db.conversations[Of[m]]) # {}
        <5> DEFINE packed(x) == [character |-> x.character, title |-> x.title, archived |-> x.archived]
        <5>1. \A v \in Chats : OutChats[v] = {packed(x) : x \in InHome(db.conversations[v])}
          BY DEF OutChats
        <5> HIDE DEF packed
        <5>2. \A v \in Chats : OutChats[v] # {} <=> InHome(db.conversations[v]) # {}
          BY <5>1
        <5> QED BY <5>2, RecordsAssumption
      <4> QED BY <3>1, <4>1 DEF OutTexts
    <3> QED BY <2>2, <2>3, <2>4, <3>2, <3>3, <3>4 DEF ExportInv
  <2>10. CASE ExportContexts
    <3>1. PICK X : X = [m \in Messages |-> {[x EXCEPT !.context = \E y \in db.messages[m] : y.context] : x \in job.out.messages[m]}]
      OBVIOUS
    <3>2. job.at = "export_contexts" /\ job' = [job EXCEPT !.at = "create", !.out.messages = X, !.out.files = files[Home]]
      BY <2>10, <3>1 DEF ExportContexts
    <3>3. /\ job'.at = "create" /\ job'.out.characters = job.out.characters /\ job'.out.profiles = job.out.profiles
          /\ job'.out.conversations = job.out.conversations /\ job'.out.messages = X /\ job'.out.files = files[Home]
          /\ job'.quiet = job.quiet
      BY <2>5, <3>2
    <3>4. ASSUME job.out.messages = OutTexts, NEW m \in Messages
          PROVE  X[m] = OutMessages[m]
      <4>1. IsMessage(db.messages[m])
        BY DEF ContentInv, StoreTyped, RowsTyped
      <4>2. X[m] = {[x EXCEPT !.context = \E y \in db.messages[m] : y.context] : x \in OutTexts[m]}
        BY <3>1, <3>4
      <4>3. CASE InHome(db.conversations[Of[m]]) = {}
        BY <4>2, <4>3 DEF OutTexts, OutMessages
      <4>4. CASE InHome(db.conversations[Of[m]]) # {}
        <5>1. PICK T : T = OutTexts[m]
          OBVIOUS
        <5>2. T = {[x EXCEPT !.context = FALSE] : x \in db.messages[m]} /\ OutMessages[m] = db.messages[m]
          BY <4>4, <5>1 DEF OutTexts, OutMessages
        <5> QED BY <4>1, <4>2, <5>1, <5>2, ContextComesBack
      <4> QED BY <4>3, <4>4
    <3>5. job.out.messages = OutTexts => X = OutMessages
      <4>1. DOMAIN X = Messages /\ DOMAIN OutMessages = Messages /\ X = [m \in Messages |-> X[m]] /\ OutMessages = [m \in Messages |-> OutMessages[m]]
        BY <3>1 DEF OutMessages
      <4> QED BY <3>4, <4>1
    <3> QED BY <2>1, <2>2, <2>3, <3>2, <3>3, <3>5 DEF ExportInv
  <2> QED BY <1>3, <2>6, <2>7, <2>8, <2>9, <2>10, <1>1, <1>2 DEF Export
<1> QED BY <1>1, <1>2, <1>3 DEF Export, ExportCharacters, ExportProfiles, ExportConversations, ExportMessages, ExportContexts

LEMMA ExportedExactly ==
  ASSUME ContentInv, ExportInv
  PROVE  ExportExact
<1> SUFFICES ASSUME job.at = "create", job.quiet PROVE ExportExact
  BY DEF ExportExact
<1>1. /\ job.out.characters = OutCards /\ job.out.profiles = OutProfiles /\ job.out.conversations = OutChats
      /\ job.out.messages = OutMessages /\ job.out.files = files[Home]
  BY DEF ExportInv, ExportPlaces
<1>2. PackShaped(job.out)
  BY DEF ContentInv, JobTyped, ExportPlaces
<1>3. PICK characters, conversations, messages, profs, file :
        job.out = [characters |-> characters, conversations |-> conversations, messages |-> messages, profiles |-> profs, files |-> file]
  BY <1>2 DEF PackShaped
<1>4. job.out = [characters |-> OutCards, conversations |-> OutChats, messages |-> OutMessages, profiles |-> OutProfiles, files |-> files[Home]]
  BY <1>1, <1>3
<1> QED BY <1>4 DEF ExportExact, OutCards, OutProfiles, OutChats, OutMessages, InHome

----------------------------------------------------------------------------
(* What an import that nobody disturbs has done so far, and still has to   *)
(* do: what it has not come to is as it was, and what it may not replace   *)
(* it never comes to.                                                      *)
WasCard(c) == job.before.db.characters[c]
WasChat(v) == job.before.db.conversations[v]
WasMessage(m) == job.before.db.messages[m]

CardFresh(c) == db.characters[c] = WasCard(c) /\ profiles[c] = job.before.profiles[c]
CardSaved(c) ==
  Tombstoned(db, c) \/ db.characters[c] = Merged(WasCard(c), {[space |-> job.target, text |-> x.text] : x \in pack.characters[c]})
ProfileSaved(c) == pack.characters[c] = {} \/ (Keep /\ WasCard(c) # {}) \/ profiles[c] = pack.profiles[c]

CardsBefore == {"preflight", "characters"}
CardsOver == {"conversations", "conversation", "archive", "save_conversation", "messages", "message", "files", "ended"}

CardsInv ==
  /\ job.at \in CardsBefore => \A c \in Cards : CardFresh(c)
  /\ job.at \in CardPlaces => \A c \in Cards :
       /\ c \in job.left => CardFresh(c) /\ (Keep => WasCard(c) = {})
       /\ job.at = "save_card" /\ c \in job.item => CardFresh(c) /\ (Keep => WasCard(c) = {}) /\ c \notin job.left
       /\ job.at = "profile" /\ c \in job.item => CardSaved(c) /\ (Keep => WasCard(c) = {}) /\ c \notin job.left
       /\ c \notin job.left /\ (job.at = "card" \/ c \notin job.item) => CardSaved(c) /\ ProfileSaved(c)
  /\ job.at \in CardsOver => \A c \in Cards : CardSaved(c) /\ ProfileSaved(c)

ChatFresh(v) == db.conversations[v] = WasChat(v)
ChatRow(v, x) ==
  [space |-> job.target, title |-> x.title, archived |-> x.archived,
   character |-> IF WasChat(v) # {} THEN UNION {y.character : y \in WasChat(v)} ELSE x.character \cap Present(db.characters)]
ChatSaved(v) == Tombstoned(db, v) \/ db.conversations[v] = Merged(WasChat(v), {ChatRow(v, x) : x \in pack.conversations[v]})
ChatRetitled(v) ==
  \E x \in RowType, y \in pack.conversations[v] :
    WasChat(v) = {x} /\ x.space = job.target /\ db.conversations[v] = {[x EXCEPT !.title = y.title]}

ChatsBefore == CardsBefore \cup CardPlaces \cup {"conversations"}
ChatPlaces == {"conversation", "archive", "save_conversation"}
ChatsOver == {"messages", "message", "files", "ended"}

ChatsInv ==
  /\ job.at \in ChatsBefore => \A v \in Chats : ChatFresh(v)
  /\ job.at \in ChatPlaces => job.seen \cap Cards = Present(db.characters)
  /\ job.at \in ChatPlaces => \A v \in Chats :
       /\ v \in job.seen <=> WasChat(v) # {}
       /\ v \in job.left => ChatFresh(v) /\ (Keep => WasChat(v) = {})
       /\ job.at = "save_conversation" /\ v \in job.item => ChatFresh(v) /\ WasChat(v) = {} /\ v \notin job.left
       /\ job.at = "archive" /\ v \in job.item => ChatRetitled(v) /\ ~Keep /\ v \notin job.left
       /\ v \notin job.left /\ (job.at = "conversation" \/ v \notin job.item) => ChatSaved(v)
  /\ job.at \in ChatsOver => \A v \in Chats : ChatSaved(v)

MessageSaved(m) == db.messages[m] = Merged(WasMessage(m), pack.messages[m])

MessagesInv ==
  /\ job.at \in ChatsBefore \cup ChatPlaces \cup {"messages"} => \A m \in Messages : db.messages[m] = WasMessage(m)
  /\ job.at = "message" => \A m \in Messages :
       IF m \in job.left THEN db.messages[m] = WasMessage(m) /\ (Keep => WasMessage(m) = {}) ELSE MessageSaved(m)
  /\ job.at \in {"files", "ended"} => \A m \in Messages : MessageSaved(m)

FilesInv ==
  /\ job.at # "ended" => files = job.before.files
  /\ job.at = "ended" => files[job.target] = Merged(job.before.files[job.target], pack.files)

ImportInv == job.at \in ImportPlaces \cup {"ended"} /\ job.quiet => CardsInv /\ ChatsInv /\ MessagesInv /\ FilesInv

BeforeInv ==
  job.at # "none" /\ job.kind = "import" =>
    /\ DOMAIN job.before.db.characters = Cards /\ DOMAIN job.before.db.conversations = Chats
    /\ DOMAIN job.before.db.messages = Messages /\ DOMAIN job.before.files = Spaces

(* What a job remembers while it goes on.                                  *)
GoesOn ==
  /\ pack' = pack /\ job'.kind = job.kind /\ job'.quiet = job.quiet
  /\ job'.mode = job.mode /\ job'.target = job.target /\ job'.before = job.before

LEMMA ImportGoesOn ==
  ASSUME ContentInv, Import, \A mode \in {"keep_existing", "replace"}, target \in Spaces : ~BeginImport(mode, target)
  PROVE  GoesOn /\ job.at \in ImportPlaces /\ job.kind = "import"
<1> DEFINE Fields == {"at", "kind", "quiet", "mode", "target", "before", "left", "item", "seen"}
<1>1. ASSUME job.at \in ImportPlaces
      PROVE  Fields \subseteq DOMAIN job /\ job.kind = "import"
  BY <1>1 DEF ContentInv, RecordsInv, JobTyped, JobInv, ImportPlaces
<1>2. ASSUME NEW place, To(place), UNCHANGED pack, job.at \in ImportPlaces PROVE GoesOn
  BY <1>1, <1>2 DEF GoesOn, To
<1>3. ASSUME NEW place, NEW first, NEW here, NEW packed, Phase(place, first, here, packed), place \in ImportPlaces PROVE GoesOn /\ job.at \in ImportPlaces
  <2>1. PICK left : job' = [job EXCEPT !.at = first, !.seen = here, !.left = left] /\ job.at = place /\ UNCHANGED pack
    BY <1>3 DEF Phase, Reads, portable
  <2> QED BY <1>1, <1>3, <2>1 DEF GoesOn
<1>4. ASSUME NEW place, NEW next, NEW o, Take(place, next, o), place \in ImportPlaces PROVE GoesOn /\ job.at \in ImportPlaces
  <2>1. job' = [job EXCEPT !.at = next, !.item = {o}, !.left = @ \ {o}] /\ job.at = place /\ UNCHANGED pack
    BY <1>4 DEF Take, Reads, portable
  <2> QED BY <1>1, <1>4, <2>1 DEF GoesOn
<1>5. CASE Preflight \/ Done("card", "conversations") \/ Done("conversation", "messages") \/ Done("message", "files")
  BY <1>1, <1>2, <1>5 DEF Preflight, Done, Reads, portable, ImportPlaces
<1>6. CASE ImportCharacters \/ ImportConversations \/ ImportMessages
  BY <1>1, <1>3, <1>6 DEF ImportCharacters, ImportConversations, ImportMessages, ImportPlaces
<1>7. CASE SaveCard \/ SaveProfile \/ Rearchive \/ SaveNew \/ ImportFiles
  BY <1>1, <1>2, <1>7 DEF SaveCard, SaveProfile, Rearchive, SaveNew, ImportFiles, Writes, ImportPlaces
<1>8. ASSUME NEW c \in Cards, FenceCard(c) PROVE GoesOn /\ job.at \in ImportPlaces /\ job.kind = "import"
  BY <1>1, <1>4, <1>8 DEF FenceCard, ImportPlaces
<1>9. ASSUME NEW v \in Chats, FenceNew(v) PROVE GoesOn /\ job.at \in ImportPlaces /\ job.kind = "import"
  BY <1>1, <1>4, <1>9 DEF FenceNew, ImportPlaces
<1>10. ASSUME NEW v \in Chats, Retitle(v) PROVE GoesOn /\ job.at \in ImportPlaces /\ job.kind = "import"
  <2>1. job.at \in ImportPlaces /\ UNCHANGED pack
    BY <1>10 DEF Retitle, Writes, ImportPlaces
  <2>2. CASE job' = [job EXCEPT !.at = "archive", !.item = {v}, !.left = @ \ {v}]
    BY <1>1, <2>1, <2>2 DEF GoesOn
  <2> QED BY <1>1, <1>2, <1>10, <2>1, <2>2 DEF Retitle
<1>11. ASSUME NEW m \in Messages, SaveMessage(m) PROVE GoesOn /\ job.at \in ImportPlaces /\ job.kind = "import"
  <2>1. job.at \in ImportPlaces /\ UNCHANGED pack
    BY <1>11 DEF SaveMessage, Writes, ImportPlaces
  <2>2. CASE job' = [job EXCEPT !.left = @ \ {m}]
    BY <1>1, <2>1, <2>2 DEF GoesOn
  <2> QED BY <1>1, <1>2, <1>11, <2>1, <2>2 DEF SaveMessage
<1> QED BY <1>1, <1>5, <1>6, <1>7, <1>8, <1>9, <1>10, <1>11 DEF Import

(* The parts of the invariant that a step leaves alone. *)
LEMMA CardsStay ==
  ASSUME CardsInv, GoesOn, UNCHANGED profiles, db'.characters = db.characters, db'.tombstones = db.tombstones,
         \/ job.at \in CardsBefore /\ job'.at \in CardsBefore
         \/ job.at \in CardsOver /\ job'.at \in CardsOver
  PROVE  CardsInv'
<1>1. ASSUME NEW c \in Cards
      PROVE  /\ CardFresh(c) => CardFresh(c)'
             /\ CardSaved(c) => CardSaved(c)'
             /\ ProfileSaved(c) => ProfileSaved(c)'
  BY DEF GoesOn, CardFresh, CardSaved, ProfileSaved, WasCard, Merged, Keep, Tombstoned
<1>2. CASE job.at \in CardsBefore /\ job'.at \in CardsBefore
  BY <1>1, <1>2 DEF CardsInv, CardsBefore, CardPlaces, CardsOver
<1>3. CASE job.at \in CardsOver /\ job'.at \in CardsOver
  BY <1>1, <1>3 DEF CardsInv, CardsBefore, CardPlaces, CardsOver
<1> QED BY <1>2, <1>3

(* What an import has made of a conversation is the same for a step that    *)
(* leaves the conversation, the tombstones and the characters alone.        *)
LEMMA ChatSavedStays ==
  ASSUME GoesOn, NEW v \in Chats, db'.characters = db.characters, db'.tombstones = db.tombstones,
         db'.conversations[v] = db.conversations[v], ChatSaved(v)
  PROVE  ChatSaved(v)'
<1>1. ASSUME NEW z PROVE ChatRow(v, z)' = ChatRow(v, z)
  BY DEF ChatRow, WasChat, Present, GoesOn
<1>2. {ChatRow(v, z) : z \in pack.conversations[v]}' = {ChatRow(v, z) : z \in pack.conversations[v]}
  BY <1>1 DEF GoesOn
<1>3. WasChat(v)' = WasChat(v) /\ Tombstoned(db, v)' = Tombstoned(db, v) /\ Keep' = Keep
  BY DEF GoesOn, WasChat, Tombstoned, Keep
<1> QED BY <1>2, <1>3 DEF ChatSaved, Merged

LEMMA ChatsStay ==
  ASSUME ChatsInv, GoesOn, db'.conversations = db.conversations, db'.tombstones = db.tombstones,
         \/ job.at \in ChatsBefore /\ job'.at \in ChatsBefore
         \/ job.at \in ChatsOver /\ job'.at \in ChatsOver /\ db'.characters = db.characters
  PROVE  ChatsInv'
<1>1. ASSUME NEW v \in Chats
      PROVE  /\ ChatFresh(v) => ChatFresh(v)'
             /\ db'.characters = db.characters /\ ChatSaved(v) => ChatSaved(v)'
  <2>1. ChatFresh(v) => ChatFresh(v)'
    BY DEF GoesOn, ChatFresh, WasChat
  <2>2. ASSUME db'.characters = db.characters, ChatSaved(v) PROVE ChatSaved(v)'
    BY <2>2, ChatSavedStays
  <2> QED BY <2>1, <2>2
<1>2. CASE job.at \in ChatsBefore /\ job'.at \in ChatsBefore
  BY <1>1, <1>2 DEF ChatsInv, ChatsBefore, CardsBefore, CardPlaces, ChatPlaces, ChatsOver
<1>3. CASE job.at \in ChatsOver /\ job'.at \in ChatsOver /\ db'.characters = db.characters
  BY <1>1, <1>3 DEF ChatsInv, ChatsBefore, CardsBefore, CardPlaces, ChatPlaces, ChatsOver
<1> QED BY <1>2, <1>3

LEMMA MessagesStay ==
  ASSUME MessagesInv, GoesOn, db'.messages = db.messages,
         LET Early == ChatsBefore \cup ChatPlaces \cup {"messages"} IN
         \/ job.at \in Early /\ job'.at \in Early
         \/ job.at = "files" /\ job'.at = "ended"
  PROVE  MessagesInv'
BY DEF MessagesInv, GoesOn, WasMessage, MessageSaved, Merged, Keep, ChatsBefore, CardsBefore, CardPlaces, ChatPlaces

LEMMA FilesStay ==
  ASSUME FilesInv, GoesOn, UNCHANGED files, job.at # "ended", job'.at # "ended"
  PROVE  FilesInv'
BY DEF FilesInv, GoesOn

LEMMA ExistingStays ==
  ASSUME KeepsExisting, GoesOn, job.at # "none", UNCHANGED db, UNCHANGED profiles, UNCHANGED files
  PROVE  KeepsExisting'
BY DEF KeepsExisting, GoesOn, Keep, Present

LEMMA BeforeStays ==
  ASSUME BeforeInv, GoesOn, job.at # "none"
  PROVE  BeforeInv'
BY DEF BeforeInv, GoesOn

(* An import begins with what there is. *)
LEMMA BeginStep ==
  ASSUME ContentInv, NEW mode, NEW target \in Spaces, BeginImport(mode, target)
  PROVE  ImportInv' /\ BeforeInv' /\ KeepsExisting'
<1>1. PICK was : was = [db |-> db, profiles |-> profiles, files |-> files]
  OBVIOUS
<1>2. /\ job' = [at |-> "preflight", kind |-> "import", mode |-> mode, target |-> target,
                 seen |-> {}, left |-> {}, item |-> {}, quiet |-> TRUE, before |-> was]
      /\ UNCHANGED <<db, profiles, files>>
  BY <1>1 DEF BeginImport, BeginJob, portable
<1>3. job'.at = "preflight" /\ job'.before = was /\ was.db = db /\ was.profiles = profiles /\ was.files = files
  BY <1>1, <1>2
<1>4. BeforeInv'
  BY <1>2, <1>3 DEF BeforeInv, ContentInv, StoreTyped, Tables, RowsTyped, JobTyped
<1>5. CardsInv'
  BY <1>2, <1>3 DEF CardsInv, CardsBefore, CardPlaces, CardsOver, CardFresh, WasCard
<1>6. ChatsInv'
  BY <1>2, <1>3 DEF ChatsInv, ChatPlaces, ChatsOver, ChatFresh, WasChat
<1>7. MessagesInv' /\ FilesInv'
  BY <1>2, <1>3 DEF MessagesInv, FilesInv, WasMessage
<1>8. KeepsExisting'
  BY <1>2, <1>3 DEF KeepsExisting, Present
<1> QED BY <1>4, <1>5, <1>6, <1>7, <1>8 DEF ImportInv

(* An undisturbed import between two of its statements. *)
Undisturbed ==
  /\ ContentInv /\ job.at \in ImportPlaces /\ job.kind = "import" /\ job.quiet
  /\ CardsInv /\ ChatsInv /\ MessagesInv /\ FilesInv /\ BeforeInv /\ KeepsExisting /\ GoesOn

Exactly == CardsInv /\ ChatsInv /\ MessagesInv /\ FilesInv

LEMMA PreflightStep ==
  ASSUME Undisturbed, Preflight
  PROVE  KeepsExisting' /\ (job'.at # "refused" => Exactly')
<1> USE DEF Undisturbed
<1>1. "at" \in DOMAIN job
  BY DEF ContentInv, RecordsInv, JobInv
<1>2. job.at = "preflight" /\ job'.at \in {"characters", "refused"} /\ UNCHANGED <<db, profiles, files>>
  BY <1>1 DEF Preflight, To, Reads, portable
<1>3. KeepsExisting'
  BY <1>2, ExistingStays
<1>4. ASSUME job'.at = "characters" PROVE Exactly'
  <2>1. CardsInv'
    BY <1>2, <1>4, CardsStay DEF CardsBefore
  <2>2. ChatsInv'
    BY <1>2, <1>4, ChatsStay DEF ChatsBefore, CardsBefore
  <2>3. MessagesInv' /\ FilesInv'
    BY <1>2, <1>4, MessagesStay, FilesStay DEF ChatsBefore, CardsBefore
  <2> QED BY <2>1, <2>2, <2>3 DEF Exactly
<1> QED BY <1>2, <1>3, <1>4

(* What an import has before it, and what it leaves out.                   *)
LEMMA CharactersStep ==
  ASSUME Undisturbed, ImportCharacters
  PROVE  KeepsExisting' /\ Exactly'
<1> USE DEF Undisturbed
<1>1. {"at", "seen", "left"} \subseteq DOMAIN job
  BY DEF ContentInv, RecordsInv, JobInv
<1>2. PICK left : left = IF Keep THEN Present(pack.characters) \ Present(db.characters) ELSE Present(pack.characters)
  OBVIOUS
<1>3. job.at = "characters" /\ job' = [job EXCEPT !.at = "card", !.seen = Present(db.characters), !.left = left]
      /\ UNCHANGED <<db, profiles, files>>
  BY <1>2 DEF ImportCharacters, Phase, Reads, portable
<1>4. job'.at = "card" /\ job'.left = left
  BY <1>1, <1>3
<1>5. DOMAIN pack.characters = Cards /\ DOMAIN db.characters = Cards
  BY DEF ContentInv, JobTyped, PackShaped, StoreTyped, RowsTyped
<1>6. ASSUME NEW c \in Cards
      PROVE  /\ CardFresh(c)'
             /\ c \in left => (Keep => WasCard(c) = {})'
             /\ c \notin left => CardSaved(c)' /\ ProfileSaved(c)'
  <2>1. CardFresh(c)
    BY <1>3 DEF CardsInv, CardsBefore
  <2>2. CardFresh(c)' /\ WasCard(c)' = WasCard(c) /\ Keep' = Keep /\ db'.characters[c] = WasCard(c)
    BY <1>3, <2>1 DEF CardFresh, WasCard, GoesOn, Keep
  <2>3. c \in left => (Keep => WasCard(c) = {})
    BY <1>2, <1>5, <2>1 DEF CardFresh, Present
  <2>4. ASSUME c \notin left PROVE pack.characters[c] = {} \/ (Keep /\ WasCard(c) # {})
    BY <1>2, <1>5, <2>1, <2>4 DEF CardFresh, Present
  <2>5. c \notin left => ProfileSaved(c)'
    BY <2>2, <2>4 DEF ProfileSaved, GoesOn
  <2>6. c \notin left => CardSaved(c)'
    <3>1. PICK S : S = {[space |-> job.target, text |-> x.text] : x \in pack.characters[c]}
      OBVIOUS
    <3>2. pack.characters[c] = {} => S = {}
      BY <3>1
    <3>3. c \notin left => WasCard(c) = Merged(WasCard(c), S)
      BY <2>4, <3>2 DEF Merged
    <3> QED BY <2>2, <3>1, <3>3 DEF CardSaved, Merged, GoesOn
  <2> QED BY <2>2, <2>3, <2>5, <2>6
<1>7. CardsInv'
  BY <1>4, <1>6 DEF CardsInv, CardsBefore, CardsOver
<1>8. ChatsInv'
  BY <1>3, <1>4, ChatsStay DEF ChatsBefore, CardsBefore, CardPlaces
<1>9. MessagesInv' /\ FilesInv'
  BY <1>3, <1>4, MessagesStay, FilesStay DEF ChatsBefore, CardsBefore, CardPlaces
<1>10. KeepsExisting'
  BY <1>3, ExistingStays
<1> QED BY <1>7, <1>8, <1>9, <1>10 DEF Exactly

LEMMA FenceCardStep ==
  ASSUME Undisturbed, NEW c \in Cards, FenceCard(c)
  PROVE  KeepsExisting' /\ Exactly'
<1> USE DEF Undisturbed
<1>1. {"at", "item", "left"} \subseteq DOMAIN job
  BY DEF ContentInv, RecordsInv, JobInv
<1>2. PICK place \in {"profile", "save_card"} :
        /\ job.at = "card" /\ c \in job.left /\ job' = [job EXCEPT !.at = place, !.item = {c}, !.left = @ \ {c}]
        /\ UNCHANGED <<db, profiles, files>> /\ (place = "profile" => Tombstoned(db, c))
  BY DEF FenceCard, Take, Reads, portable
<1>3. job'.at = place /\ job'.item = {c} /\ job'.left = job.left \ {c}
  BY <1>1, <1>2
<1>4. ASSUME NEW d \in Cards
      PROVE  /\ CardFresh(d)' <=> CardFresh(d)
             /\ CardSaved(d)' <=> CardSaved(d)
             /\ ProfileSaved(d)' <=> ProfileSaved(d)
             /\ WasCard(d)' = WasCard(d)
  BY <1>2 DEF GoesOn, CardFresh, CardSaved, ProfileSaved, WasCard, Merged, Keep, Tombstoned
<1>5. Keep' = Keep
  BY DEF GoesOn, Keep
<1>6. place = "profile" => CardSaved(c)
  BY <1>2 DEF CardSaved
<1>7. CardsInv'
  <2>1. \A d \in Cards : /\ d \in job.left => CardFresh(d) /\ (Keep => WasCard(d) = {})
                         /\ d \notin job.left => CardSaved(d) /\ ProfileSaved(d)
    BY <1>2 DEF CardsInv, CardPlaces
  <2>2. place \in CardPlaces /\ place \notin CardsBefore /\ place \notin CardsOver /\ place # "card"
    BY DEF CardPlaces, CardsBefore, CardsOver
  <2> QED BY <1>2, <1>3, <1>4, <1>5, <1>6, <2>1, <2>2 DEF CardsInv
<1>8. ChatsInv'
  BY <1>2, <1>3, ChatsStay DEF ChatsBefore, CardsBefore, CardPlaces
<1>9. MessagesInv' /\ FilesInv'
  BY <1>2, <1>3, MessagesStay, FilesStay DEF ChatsBefore, CardsBefore, CardPlaces
<1>10. KeepsExisting'
  BY <1>2, ExistingStays
<1> QED BY <1>7, <1>8, <1>9, <1>10 DEF Exactly

(* A statement about a record writes only what it may.                     *)
LEMMA SaveCardStep ==
  ASSUME Undisturbed, SaveCard
  PROVE  KeepsExisting' /\ Exactly'
<1> USE DEF Undisturbed
<1>1. {"at", "item", "left"} \subseteq DOMAIN job
  BY DEF ContentInv, RecordsInv, JobInv, SaveCard, ImportPlaces
<1>2. PICK c \in Cards : job.item = {c}
  BY DEF ContentInv, JobTyped, SaveCard
<1>3. PICK S : S = {[space |-> job.target, text |-> x.text] : x \in pack.characters[c]}
  OBVIOUS
<1>4. /\ job.at = "save_card" /\ job' = [job EXCEPT !.at = "profile"]
      /\ db' = [db EXCEPT !.characters[c] = S] /\ UNCHANGED <<profiles, files>>
  BY <1>2, <1>3, ItemOf DEF SaveCard, To
<1>5. job'.at = "profile" /\ job'.item = {c} /\ job'.left = job.left
  BY <1>1, <1>2, <1>4
<1>6. /\ db'.conversations = db.conversations /\ db'.messages = db.messages /\ db'.tombstones = db.tombstones
      /\ DOMAIN db.characters = Cards /\ DOMAIN db'.characters = Cards
      /\ \A d \in Cards : db'.characters[d] = IF d = c THEN S ELSE db.characters[d]
  BY <1>4 DEF ContentInv, StoreTyped, Tables, RowsTyped
<1>7. ASSUME NEW d \in Cards
      PROVE  /\ d # c /\ CardFresh(d) => CardFresh(d)'
             /\ d # c /\ CardSaved(d) => CardSaved(d)'
             /\ ProfileSaved(d)' <=> ProfileSaved(d)
             /\ WasCard(d)' = WasCard(d)
  BY <1>4, <1>6 DEF GoesOn, CardFresh, CardSaved, ProfileSaved, WasCard, Merged, Keep, Tombstoned
<1>8. Keep' = Keep
  BY DEF GoesOn, Keep
<1>9. CardFresh(c) /\ (Keep => WasCard(c) = {}) /\ c \notin job.left /\ pack.characters[c] # {}
  <2>1. CardFresh(c) /\ (Keep => WasCard(c) = {}) /\ c \notin job.left
    BY <1>2, <1>4 DEF CardsInv, CardPlaces
  <2>2. pack.characters[c] # {}
    BY <1>2, <1>4 DEF ContentInv, JobTyped
  <2> QED BY <2>1, <2>2
<1>10. CardSaved(c)'
  <2>1. S # {}
    <3> DEFINE saved(x) == [space |-> job.target, text |-> x.text]
    <3>1. S = {saved(x) : x \in pack.characters[c]}
      BY <1>3
    <3> HIDE DEF saved
    <3> QED BY <1>9, <3>1
  <2>2. db'.characters[c] = S /\ Merged(WasCard(c), S) = S
    BY <1>6, <1>9, <2>1 DEF Merged
  <2>3. WasCard(c)' = WasCard(c) /\ S = {[space |-> job.target, text |-> x.text] : x \in pack.characters[c]}'
    BY <1>3, <1>7 DEF GoesOn
  <2> QED BY <1>8, <2>2, <2>3 DEF CardSaved, Merged
<1>11. CardsInv'
  <2>1. \A d \in Cards : /\ d \in job.left => CardFresh(d) /\ (Keep => WasCard(d) = {})
                         /\ d \notin job.left /\ d # c => CardSaved(d) /\ ProfileSaved(d)
    BY <1>2, <1>4 DEF CardsInv, CardPlaces
  <2>2. job'.at \in CardPlaces /\ job'.at \notin CardsBefore /\ job'.at \notin CardsOver /\ job'.at \notin {"card", "save_card"}
    BY <1>5 DEF CardPlaces, CardsBefore, CardsOver
  <2> QED BY <1>5, <1>7, <1>8, <1>9, <1>10, <2>1, <2>2 DEF CardsInv
<1>12. ChatsInv'
  BY <1>4, <1>5, <1>6, ChatsStay DEF ChatsBefore, CardsBefore, CardPlaces
<1>13. MessagesInv' /\ FilesInv'
  BY <1>4, <1>5, <1>6, MessagesStay, FilesStay DEF ChatsBefore, CardsBefore, CardPlaces
<1>14. KeepsExisting'
  BY <1>4, <1>6, <1>9 DEF KeepsExisting, BeforeInv, GoesOn, Keep, Present, WasCard
<1> QED BY <1>11, <1>12, <1>13, <1>14 DEF Exactly

LEMMA SaveProfileStep ==
  ASSUME Undisturbed, SaveProfile
  PROVE  KeepsExisting' /\ Exactly'
<1> USE DEF Undisturbed
<1>1. {"at", "item", "left"} \subseteq DOMAIN job
  BY DEF ContentInv, RecordsInv, JobInv, SaveProfile, ImportPlaces
<1>2. PICK c \in Cards : job.item = {c}
  BY DEF ContentInv, JobTyped, SaveProfile
<1>4. /\ job.at = "profile" /\ job' = [job EXCEPT !.at = "card"]
      /\ profiles' = [profiles EXCEPT ![c] = pack.profiles[c]] /\ UNCHANGED db /\ UNCHANGED files
  BY <1>2, ItemOf DEF SaveProfile, To
<1>5. job'.at = "card" /\ job'.item = {c} /\ job'.left = job.left
  BY <1>1, <1>2, <1>4
<1>6. \A d \in Cards : profiles'[d] = IF d = c THEN pack.profiles[c] ELSE profiles[d]
  BY <1>4 DEF ContentInv, JobTyped
<1>7. ASSUME NEW d \in Cards
      PROVE  /\ d # c /\ CardFresh(d) => CardFresh(d)'
             /\ CardSaved(d) => CardSaved(d)'
             /\ ProfileSaved(c)'
             /\ d # c /\ ProfileSaved(d) => ProfileSaved(d)'
             /\ WasCard(d)' = WasCard(d)
  BY <1>4, <1>6 DEF GoesOn, CardFresh, CardSaved, ProfileSaved, WasCard, Merged, Keep, Tombstoned
<1>8. Keep' = Keep
  BY DEF GoesOn, Keep
<1>9. CardSaved(c) /\ (Keep => WasCard(c) = {}) /\ c \notin job.left
  BY <1>2, <1>4 DEF CardsInv, CardPlaces
<1>11. CardsInv'
  <2>1. \A d \in Cards : /\ d \in job.left => CardFresh(d) /\ (Keep => WasCard(d) = {})
                         /\ d \notin job.left /\ d # c => CardSaved(d) /\ ProfileSaved(d)
    BY <1>2, <1>4 DEF CardsInv, CardPlaces
  <2>2. job'.at \in CardPlaces /\ job'.at \notin CardsBefore /\ job'.at \notin CardsOver /\ job'.at \notin {"profile", "save_card"}
    BY <1>5 DEF CardPlaces, CardsBefore, CardsOver
  <2> QED BY <1>5, <1>7, <1>8, <1>9, <2>1, <2>2 DEF CardsInv
<1>12. ChatsInv'
  BY <1>4, <1>5, ChatsStay DEF ChatsBefore, CardsBefore, CardPlaces
<1>13. MessagesInv' /\ FilesInv'
  BY <1>4, <1>5, MessagesStay, FilesStay DEF ChatsBefore, CardsBefore, CardPlaces
<1>14. KeepsExisting'
  BY <1>4, <1>6, <1>9 DEF KeepsExisting, BeforeInv, GoesOn, Keep, Present, WasCard
<1> QED BY <1>11, <1>12, <1>13, <1>14 DEF Exactly

LEMMA CardsDone ==
  ASSUME Undisturbed, Done("card", "conversations")
  PROVE  KeepsExisting' /\ Exactly'
<1> USE DEF Undisturbed
<1>1. "at" \in DOMAIN job
  BY DEF ContentInv, RecordsInv, JobInv
<1>2. job.at = "card" /\ job.left = {} /\ job'.at = "conversations" /\ UNCHANGED <<db, profiles, files>>
  BY <1>1 DEF Done, To, Reads, portable
<1>3. CardsInv'
  <2>1. ASSUME NEW c \in Cards PROVE CardSaved(c)' /\ ProfileSaved(c)'
    <3>1. CardSaved(c) /\ ProfileSaved(c)
      BY <1>2 DEF CardsInv, CardPlaces
    <3> QED BY <1>2, <3>1 DEF GoesOn, CardSaved, ProfileSaved, WasCard, Merged, Keep, Tombstoned
  <2> QED BY <1>2, <2>1 DEF CardsInv, CardPlaces, CardsBefore
<1>4. ChatsInv'
  BY <1>2, ChatsStay DEF ChatsBefore, CardsBefore, CardPlaces
<1>5. MessagesInv' /\ FilesInv'
  BY <1>2, MessagesStay, FilesStay DEF ChatsBefore, CardsBefore, CardPlaces
<1>6. KeepsExisting'
  BY <1>2, ExistingStays
<1> QED BY <1>3, <1>4, <1>5, <1>6 DEF Exactly

LEMMA ConversationsStep ==
  ASSUME Undisturbed, ImportConversations
  PROVE  KeepsExisting' /\ Exactly'
<1> USE DEF Undisturbed
<1>1. {"at", "seen", "left"} \subseteq DOMAIN job
  BY DEF ContentInv, RecordsInv, JobInv
<1> DEFINE seen == Present(db.conversations) \cup Present(db.characters)
<1>2. PICK left : left = IF Keep THEN Present(pack.conversations) \ seen ELSE Present(pack.conversations)
  OBVIOUS
<1>3. job.at = "conversations" /\ job' = [job EXCEPT !.at = "conversation", !.seen = seen, !.left = left]
      /\ UNCHANGED <<db, profiles, files>>
  BY <1>2 DEF ImportConversations, Phase, Reads, portable
<1>4. job'.at = "conversation" /\ job'.left = left /\ job'.seen = seen
  BY <1>1, <1>3
<1>5. /\ DOMAIN pack.conversations = Chats /\ DOMAIN db.conversations = Chats
      /\ Present(db.conversations) \subseteq Chats /\ Present(db.characters) \subseteq Cards
  BY DEF ContentInv, JobTyped, PackShaped, StoreTyped, Tables, RowsTyped, Present
<1>11. seen \cap Cards = Present(db.characters) /\ seen \cap Chats = Present(db.conversations)
  BY <1>5, RecordsAssumption
<1> HIDE DEF seen
<1>6. ASSUME NEW v \in Chats
      PROVE  /\ v \in seen <=> WasChat(v)' # {}
             /\ ChatFresh(v)'
             /\ v \in left => (Keep => WasChat(v) = {})'
             /\ v \notin left => ChatSaved(v)'
  <2>1. ChatFresh(v)
    BY <1>3 DEF ChatsInv, ChatsBefore
  <2>2. ChatFresh(v)' /\ WasChat(v)' = WasChat(v) /\ Keep' = Keep /\ db'.conversations[v] = WasChat(v)
    BY <1>3, <2>1 DEF ChatFresh, WasChat, GoesOn, Keep
  <2>3. v \in seen <=> WasChat(v) # {}
    BY <1>5, <1>11, <2>1 DEF ChatFresh, Present
  <2>4. v \in left => (Keep => WasChat(v) = {})
    BY <1>2, <2>3
  <2>5. ASSUME v \notin left PROVE pack.conversations[v] = {} \/ (Keep /\ WasChat(v) # {})
    BY <1>2, <1>5, <2>3, <2>5 DEF Present
  <2>6. v \notin left => ChatSaved(v)'
    <3>1. PICK S : S = {ChatRow(v, x)' : x \in pack.conversations[v]}
      OBVIOUS
    <3>2. pack.conversations[v] = {} => S = {}
      BY <3>1
    <3>3. v \notin left => WasChat(v) = Merged(WasChat(v), S)
      BY <2>5, <3>2 DEF Merged
    <3>4. pack'.conversations[v] = pack.conversations[v]
      BY DEF GoesOn
    <3>5. S = {ChatRow(v, x) : x \in pack.conversations[v]}'
      BY <3>1, <3>4
    <3> QED BY <2>2, <3>3, <3>5 DEF ChatSaved, Merged
  <2> QED BY <2>2, <2>3, <2>4, <2>6
<1>7. ChatsInv'
  <2>1. job'.seen \cap Cards = Present(db'.characters)
    BY <1>3, <1>4, <1>11
  <2> QED BY <1>4, <1>6, <2>1 DEF ChatsInv, ChatsBefore, CardsBefore, CardPlaces, ChatsOver, Present
<1>8. CardsInv'
  BY <1>3, <1>4, CardsStay DEF CardsOver
<1>9. MessagesInv' /\ FilesInv'
  BY <1>3, <1>4, MessagesStay, FilesStay DEF ChatsBefore, ChatPlaces
<1>10. KeepsExisting'
  BY <1>3, ExistingStays
<1> QED BY <1>7, <1>8, <1>9, <1>10 DEF Exactly

(* A conversation that is here is changed in two statements.               *)
LEMMA RetitleStep ==
  ASSUME Undisturbed, NEW v \in Chats, Retitle(v)
  PROVE  KeepsExisting' /\ (job'.at # "failed" => Exactly')
<1> USE DEF Undisturbed
<1>1. {"at", "item", "left", "seen"} \subseteq DOMAIN job
  BY DEF ContentInv, RecordsInv, JobInv, Retitle, ImportPlaces
<1>2. job.at = "conversation" /\ v \in job.left /\ v \in job.seen /\ UNCHANGED <<profiles, files>>
  BY DEF Retitle
<1>3. ChatFresh(v) /\ (Keep => WasChat(v) = {}) /\ WasChat(v) # {}
  BY <1>2 DEF ChatsInv, ChatPlaces
<1>4. ~Keep
  BY <1>3
<1>5. KeepsExisting'
  <2>1. ~Keep'
    BY <1>4 DEF GoesOn, Keep
  <2> QED BY <2>1 DEF KeepsExisting
<1>6. CASE To("failed")
  <2>1. job'.at = "failed"
    BY <1>1, <1>6 DEF To
  <2> QED BY <1>5, <2>1
<1>7. CASE ~To("failed")
  <2> DEFINE titled(x, y) == [x EXCEPT !.title = y.title]
             X == {titled(x, y) : x \in db.conversations[v], y \in pack.conversations[v]}
  <2>1. /\ job' = [job EXCEPT !.at = "archive", !.item = {v}, !.left = @ \ {v}]
        /\ db' = [db EXCEPT !.conversations[v] = X] /\ \E x \in db.conversations[v] : x.space = job.target
    BY <1>7 DEF Retitle
  <2>2. job'.at = "archive" /\ job'.item = {v} /\ job'.left = job.left \ {v} /\ job'.seen = job.seen
    BY <1>1, <2>1
  <2>3. PICK x \in db.conversations[v] : x.space = job.target
    BY <2>1
  <2>4. db.conversations[v] \subseteq RowType /\ Single(db.conversations[v]) /\ DOMAIN db.conversations = Chats
    BY DEF ContentInv, StoreTyped, RowsTyped, RecordsInv, LedgerInv, Sound, PrimaryKeys, Tables
  <2>5. pack.conversations[v] # {} /\ Single(pack.conversations[v])
    BY <1>2 DEF ContentInv, RecordsInv, JobInv, Present
  <2>6. PICK y \in pack.conversations[v] : TRUE
    BY <2>5
  <2>7. WasChat(v) = {x} /\ x \in RowType
    BY <1>3, <2>3, <2>4 DEF ChatFresh, Single
  <2>8. X = {titled(x, y)}
    <3>1. \A a \in db.conversations[v], b \in pack.conversations[v] : a = x /\ b = y
      BY <2>3, <2>4, <2>5, <2>6 DEF Single
    <3> HIDE DEF titled
    <3> QED BY <2>3, <2>6, <3>1
  <2> HIDE DEF X
  <2>9. /\ db'.characters = db.characters /\ db'.messages = db.messages /\ db'.tombstones = db.tombstones
        /\ \A w \in Chats : db'.conversations[w] = IF w = v THEN {titled(x, y)} ELSE db.conversations[w]
    BY <2>1, <2>4, <2>8 DEF ContentInv, StoreTyped, Tables
  <2>10. ChatRetitled(v)'
    <3>1. WasChat(v)' = {x} /\ x.space = job'.target /\ y \in pack'.conversations[v] /\ db'.conversations[v] = {[x EXCEPT !.title = y.title]}
      BY <2>3, <2>6, <2>7, <2>9 DEF GoesOn, WasChat
    <3> QED BY <2>7, <3>1 DEF ChatRetitled
  <2>11. ASSUME NEW w \in Chats, w # v
         PROVE  /\ ChatFresh(w) => ChatFresh(w)'
                /\ ChatSaved(w) => ChatSaved(w)'
    BY <2>9, <2>11, ChatSavedStays DEF GoesOn, ChatFresh, WasChat
  <2>12. \A w \in Chats : WasChat(w)' = WasChat(w)
    BY DEF GoesOn, WasChat
  <2>13. Keep' = Keep
    BY DEF GoesOn, Keep
  <2>14. ChatsInv'
    <3>1. \A w \in Chats : /\ w \in job.seen <=> WasChat(w) # {}
                           /\ w \in job.left => ChatFresh(w) /\ (Keep => WasChat(w) = {})
                           /\ w \notin job.left => ChatSaved(w)
      BY <1>2 DEF ChatsInv, ChatPlaces
    <3>2. job'.at \in ChatPlaces /\ job'.at \notin ChatsBefore /\ job'.at \notin ChatsOver /\ job'.at \notin {"conversation", "save_conversation"}
      BY <2>2 DEF ChatPlaces, ChatsBefore, ChatsOver, CardsBefore, CardPlaces
    <3>3. job'.seen \cap Cards = Present(db'.characters)
      BY <1>2, <2>2, <2>9 DEF ChatsInv, ChatPlaces
    <3> QED BY <1>4, <2>2, <2>10, <2>11, <2>12, <2>13, <3>1, <3>2, <3>3 DEF ChatsInv, Present
  <2>15. CardsInv'
    BY <1>2, <2>2, <2>9, CardsStay DEF CardsOver
  <2>16. MessagesInv' /\ FilesInv'
    BY <1>2, <2>2, <2>9, MessagesStay, FilesStay DEF ChatPlaces
  <2> QED BY <1>5, <2>14, <2>15, <2>16 DEF Exactly
<1> QED BY <1>6, <1>7

LEMMA SameRow ==
  ASSUME NEW x \in RowType, NEW y \in RowType,
         x.space = y.space, x.character = y.character, x.title = y.title, x.archived = y.archived
  PROVE  x = y
BY DEF RowType

LEMMA RearchiveStep ==
  ASSUME Undisturbed, Rearchive
  PROVE  KeepsExisting' /\ Exactly'
<1> USE DEF Undisturbed
<1>1. {"at", "item", "left", "seen"} \subseteq DOMAIN job
  BY DEF ContentInv, RecordsInv, JobInv, Rearchive, ImportPlaces
<1>2. PICK v \in Chats : job.item = {v}
  BY DEF ContentInv, RecordsInv, JobInv, Rearchive
<1>3. job.at = "archive" /\ job' = [job EXCEPT !.at = "conversation"] /\ UNCHANGED <<profiles, files>>
  BY DEF Rearchive, To
<1>4. job'.at = "conversation" /\ job'.item = {v} /\ job'.left = job.left /\ job'.seen = job.seen
  BY <1>1, <1>2, <1>3
<1>5. ChatRetitled(v) /\ ~Keep /\ v \notin job.left
  BY <1>2, <1>3 DEF ChatsInv, ChatPlaces
<1>6. Keep' = Keep
  BY DEF GoesOn, Keep
<1>7. KeepsExisting'
  BY <1>5, <1>6 DEF KeepsExisting
<1>8. PICK x \in RowType, y \in pack.conversations[v] :
        WasChat(v) = {x} /\ x.space = job.target /\ db.conversations[v] = {[x EXCEPT !.title = y.title]}
  BY <1>5 DEF ChatRetitled
<1>9. Single(pack.conversations[v]) /\ DOMAIN db.conversations = Chats
  BY DEF ContentInv, RecordsInv, JobInv, StoreTyped, Tables
<1> PICK r : r = [x EXCEPT !.title = y.title]
  OBVIOUS
<1> DEFINE marked(a, b) == IF a.space = job.target THEN [a EXCEPT !.archived = b.archived] ELSE a
           X == {marked(a, b) : a \in db.conversations[v], b \in pack.conversations[v]}
<1>10. db' = [db EXCEPT !.conversations[v] = X]
  <2>1. Item = v
    BY <1>2, ItemOf
  <2> QED BY <2>1 DEF Rearchive
<1>11. X = {marked(r, y)}
  <2>1. \A a \in db.conversations[v], b \in pack.conversations[v] : a = r /\ b = y
    BY <1>8, <1>9 DEF Single
  <2>2. r \in db.conversations[v]
    BY <1>8
  <2> HIDE DEF marked
  <2> QED BY <2>1, <2>2
<1> HIDE DEF X
<1>12. marked(r, y) = ChatRow(v, y)
  <2>1. r.space = job.target /\ marked(r, y) = [r EXCEPT !.archived = y.archived]
    BY <1>8 DEF RowType
  <2>2. UNION {z.character : z \in WasChat(v)} = x.character
    BY <1>8
  <2>3. ChatRow(v, y) = [space |-> job.target, title |-> y.title, archived |-> y.archived, character |-> x.character]
    BY <1>8, <2>2 DEF ChatRow
  <2>4. y.title \in Texts /\ y.archived \in BOOLEAN /\ job.target \in Spaces
    BY <1>3 DEF ContentInv, JobTyped, PackShaped, PackTyped
  <2>5. r \in RowType /\ r.space = job.target /\ r.title = y.title /\ r.character = x.character
    BY <1>8, <2>4 DEF RowType
  <2>6. ASSUME NEW a, a = [r EXCEPT !.archived = y.archived]
        PROVE  a \in RowType /\ a.space = job.target /\ a.title = y.title /\ a.character = x.character /\ a.archived = y.archived
    BY <2>4, <2>5, <2>6 DEF RowType
  <2>7. ASSUME NEW a, a = [space |-> job.target, title |-> y.title, archived |-> y.archived, character |-> x.character]
        PROVE  a \in RowType /\ a.space = job.target /\ a.title = y.title /\ a.character = x.character /\ a.archived = y.archived
    BY <2>4, <2>7 DEF RowType
  <2> HIDE DEF marked
  <2> QED BY <2>1, <2>3, <2>6, <2>7, SameRow
<1>13. /\ db'.characters = db.characters /\ db'.messages = db.messages /\ db'.tombstones = db.tombstones
       /\ \A w \in Chats : db'.conversations[w] = IF w = v THEN {ChatRow(v, y)} ELSE db.conversations[w]
  BY <1>9, <1>10, <1>11, <1>12 DEF ContentInv, StoreTyped, Tables
<1>14. ChatSaved(v)'
  <2>1. {ChatRow(v, z) : z \in pack.conversations[v]} = {ChatRow(v, y)}
    BY <1>8, <1>9 DEF Single
  <2>2. ASSUME NEW z PROVE ChatRow(v, z)' = ChatRow(v, z)
    BY <1>13 DEF ChatRow, WasChat, Present, GoesOn
  <2>3. {ChatRow(v, z) : z \in pack.conversations[v]}' = {ChatRow(v, y)}
    BY <2>1, <2>2 DEF GoesOn
  <2>4. Merged(WasChat(v), {ChatRow(v, z) : z \in pack.conversations[v]})' = {ChatRow(v, y)}
    BY <1>5, <1>6, <2>3 DEF Merged
  <2> QED BY <1>13, <2>4 DEF ChatSaved
<1>15. ASSUME NEW w \in Chats, w # v
       PROVE  /\ ChatFresh(w) => ChatFresh(w)'
              /\ ChatSaved(w) => ChatSaved(w)'
  BY <1>13, <1>15, ChatSavedStays DEF GoesOn, ChatFresh, WasChat
<1>16. \A w \in Chats : WasChat(w)' = WasChat(w)
  BY DEF GoesOn, WasChat
<1>17. ChatsInv'
  <2>1. \A w \in Chats : /\ w \in job.seen <=> WasChat(w) # {}
                         /\ w \in job.left => ChatFresh(w) /\ (Keep => WasChat(w) = {})
                         /\ w \notin job.left /\ w # v => ChatSaved(w)
    BY <1>2, <1>3 DEF ChatsInv, ChatPlaces
  <2>2. job'.at \in ChatPlaces /\ job'.at \notin ChatsBefore /\ job'.at \notin ChatsOver /\ job'.at \notin {"archive", "save_conversation"}
    BY <1>4 DEF ChatPlaces, ChatsBefore, ChatsOver, CardsBefore, CardPlaces
  <2>3. job'.seen \cap Cards = Present(db'.characters)
    BY <1>3, <1>4, <1>13 DEF ChatsInv, ChatPlaces
  <2> QED BY <1>4, <1>5, <1>6, <1>14, <1>15, <1>16, <2>1, <2>2, <2>3 DEF ChatsInv, Present
<1>18. CardsInv'
  BY <1>3, <1>4, <1>13, CardsStay DEF CardsOver
<1>19. MessagesInv' /\ FilesInv'
  BY <1>3, <1>4, <1>13, MessagesStay, FilesStay DEF ChatPlaces
<1> QED BY <1>7, <1>17, <1>18, <1>19 DEF Exactly

LEMMA FenceNewStep ==
  ASSUME Undisturbed, NEW v \in Chats, FenceNew(v)
  PROVE  KeepsExisting' /\ Exactly'
<1> USE DEF Undisturbed
<1>1. {"at", "item", "left", "seen"} \subseteq DOMAIN job
  BY DEF ContentInv, RecordsInv, JobInv, FenceNew, ImportPlaces
<1>2. PICK place \in {"conversation", "save_conversation"} :
        /\ job.at = "conversation" /\ v \notin job.seen /\ v \in job.left
        /\ job' = [job EXCEPT !.at = place, !.item = {v}, !.left = @ \ {v}]
        /\ UNCHANGED <<db, profiles, files>> /\ (place = "conversation" => Tombstoned(db, v))
  BY DEF FenceNew, Take, Reads, portable
<1>3. job'.at = place /\ job'.item = {v} /\ job'.left = job.left \ {v} /\ job'.seen = job.seen
  BY <1>1, <1>2
<1>4. ASSUME NEW w \in Chats
      PROVE  /\ ChatFresh(w) => ChatFresh(w)'
             /\ ChatSaved(w) => ChatSaved(w)'
             /\ WasChat(w)' = WasChat(w)
  BY <1>2, ChatSavedStays DEF GoesOn, ChatFresh, WasChat
<1>5. Keep' = Keep
  BY DEF GoesOn, Keep
<1>6. place = "conversation" => ChatSaved(v)
  BY <1>2 DEF ChatSaved
<1>7. ChatsInv'
  <2>1. \A w \in Chats : /\ w \in job.seen <=> WasChat(w) # {}
                         /\ w \in job.left => ChatFresh(w) /\ (Keep => WasChat(w) = {})
                         /\ w \notin job.left => ChatSaved(w)
    BY <1>2 DEF ChatsInv, ChatPlaces
  <2>2. place \in ChatPlaces /\ place \notin ChatsBefore /\ place \notin ChatsOver /\ place # "archive"
    BY DEF ChatPlaces, ChatsBefore, ChatsOver, CardsBefore, CardPlaces
  <2>3. job'.seen \cap Cards = Present(db'.characters)
    BY <1>2, <1>3 DEF ChatsInv, ChatPlaces
  <2> QED BY <1>2, <1>3, <1>4, <1>5, <1>6, <2>1, <2>2, <2>3 DEF ChatsInv, Present
<1>8. CardsInv'
  BY <1>2, <1>3, CardsStay DEF CardsOver
<1>9. MessagesInv' /\ FilesInv'
  BY <1>2, <1>3, MessagesStay, FilesStay DEF ChatPlaces
<1>10. KeepsExisting'
  BY <1>2, ExistingStays
<1> QED BY <1>7, <1>8, <1>9, <1>10 DEF Exactly

LEMMA SaveNewStep ==
  ASSUME Undisturbed, SaveNew
  PROVE  KeepsExisting' /\ (job'.at # "failed" => Exactly')
<1> USE DEF Undisturbed
<1>1. {"at", "item", "left", "seen"} \subseteq DOMAIN job
  BY DEF ContentInv, RecordsInv, JobInv, SaveNew, ImportPlaces
<1>2. PICK v \in Chats : job.item = {v} /\ pack.conversations[v] # {}
  BY DEF ContentInv, RecordsInv, JobInv, SaveNew
<1>21. job.at = "save_conversation" /\ Item = v
  BY <1>2, ItemOf DEF SaveNew
<1>22. CASE To("failed") /\ UNCHANGED db
  <2>1. job'.at = "failed" /\ UNCHANGED <<profiles, files>> /\ job.at # "none"
    BY <1>1, <1>21, <1>22 DEF SaveNew, To
  <2> QED BY <1>22, <2>1, ExistingStays
<1> SUFFICES ASSUME ~(To("failed") /\ UNCHANGED db)
             PROVE  KeepsExisting' /\ Exactly'
  BY <1>22
<1>23. \A x \in pack.conversations[v] : x.character \cap job.seen = x.character \cap Present(db.characters)
  <2>1. Present(db.characters) \subseteq job.seen
    BY <1>21 DEF ChatsInv, ChatPlaces
  <2>2. \A x \in pack.conversations[v] : x.character \cap job.seen \subseteq Present(db.characters)
    BY <1>21 DEF SaveNew
  <2> QED BY <2>1, <2>2
<1>3. job.at = "save_conversation" /\ job' = [job EXCEPT !.at = "conversation"] /\ UNCHANGED <<profiles, files>>
  BY <1>21, <1>23 DEF SaveNew, To
<1>4. job'.at = "conversation" /\ job'.item = {v} /\ job'.left = job.left /\ job'.seen = job.seen
  BY <1>1, <1>2, <1>3
<1>5. ChatFresh(v) /\ WasChat(v) = {} /\ v \notin job.left /\ db.conversations[v] = {}
  BY <1>2, <1>3 DEF ChatsInv, ChatPlaces, ChatFresh
<1>6. Keep' = Keep
  BY DEF GoesOn, Keep
<1>7. DOMAIN db.conversations = Chats
  BY DEF ContentInv, StoreTyped, Tables
<1>8. PICK X : X = {ChatRow(v, x) : x \in pack.conversations[v]}
  OBVIOUS
<1>9. db' = [db EXCEPT !.conversations[v] = X]
  <2>1. PICK Y : Y = {[space |-> job.target, character |-> x.character \cap Present(db.characters), title |-> x.title,
                       archived |-> x.archived] : x \in pack.conversations[v]}
    OBVIOUS
  <2>2. PICK Z : Z = {[space |-> job.target, character |-> x.character \cap job.seen, title |-> x.title,
                       archived |-> x.archived] : x \in pack.conversations[v]}
    OBVIOUS
  <2>3. db' = [db EXCEPT !.conversations[v] = Y]
    <3>1. db' = [db EXCEPT !.conversations[v] =
                  {[space |-> job.target, character |-> x.character \cap job.seen, title |-> x.title,
                    archived |-> IF @ = {} THEN x.archived ELSE Only(@).archived] : x \in pack.conversations[v]}]
      BY <1>21, <1>23 DEF SaveNew
    <3>2. db' = [db EXCEPT !.conversations[v] = Z]
      BY <1>5, <2>2, <3>1
    <3>3. Z = Y
      BY <1>23, <2>1, <2>2
    <3> QED BY <3>2, <3>3
  <2>4. Y = X
    <3>1. ASSUME NEW x
          PROVE  ChatRow(v, x) = [space |-> job.target, character |-> x.character \cap Present(db.characters), title |-> x.title,
                                  archived |-> x.archived]
      <4>1. PICK C : C = x.character \cap Present(db.characters)
        OBVIOUS
      <4>2. ChatRow(v, x) = [space |-> job.target, title |-> x.title, archived |-> x.archived, character |-> C]
        BY <1>5, <4>1 DEF ChatRow
      <4> QED BY <4>1, <4>2
    <3> DEFINE new(x) == [space |-> job.target, character |-> x.character \cap Present(db.characters), title |-> x.title,
                          archived |-> x.archived]
    <3>2. Y = {new(x) : x \in pack.conversations[v]}
      BY <2>1
    <3>3. \A x : ChatRow(v, x) = new(x)
      BY <3>1
    <3> HIDE DEF new
    <3> QED BY <1>8, <3>2, <3>3
  <2> QED BY <2>3, <2>4
<1>10. X # {}
  BY <1>2, <1>8
<1>11. /\ db'.characters = db.characters /\ db'.messages = db.messages /\ db'.tombstones = db.tombstones
       /\ \A w \in Chats : db'.conversations[w] = IF w = v THEN X ELSE db.conversations[w]
  BY <1>7, <1>9 DEF ContentInv, StoreTyped, Tables
<1>12. ASSUME NEW w, NEW z PROVE ChatRow(w, z)' = ChatRow(w, z)
  BY <1>11 DEF ChatRow, WasChat, Present, GoesOn
<1>13. ASSUME NEW w PROVE {ChatRow(w, z) : z \in pack.conversations[w]}' = {ChatRow(w, z) : z \in pack.conversations[w]}
  BY <1>12 DEF GoesOn
<1>14. \A w \in Chats : WasChat(w)' = WasChat(w)
  BY DEF GoesOn, WasChat
<1>15. ChatSaved(v)'
  <2>1. Merged(WasChat(v), {ChatRow(v, z) : z \in pack.conversations[v]})' = X
    BY <1>5, <1>6, <1>8, <1>10, <1>13, <1>14 DEF Merged
  <2> QED BY <1>11, <2>1 DEF ChatSaved
<1>16. ASSUME NEW w \in Chats, w # v
       PROVE  /\ ChatFresh(w) => ChatFresh(w)'
              /\ ChatSaved(w) => ChatSaved(w)'
  BY <1>11, <1>14, <1>16, ChatSavedStays DEF ChatFresh
<1>17. ChatsInv'
  <2>1. \A w \in Chats : /\ w \in job.seen <=> WasChat(w) # {}
                         /\ w \in job.left => ChatFresh(w) /\ (Keep => WasChat(w) = {})
                         /\ w \notin job.left /\ w # v => ChatSaved(w)
    BY <1>2, <1>3 DEF ChatsInv, ChatPlaces
  <2>2. job'.at \in ChatPlaces /\ job'.at \notin ChatsBefore /\ job'.at \notin ChatsOver /\ job'.at \notin {"archive", "save_conversation"}
    BY <1>4 DEF ChatPlaces, ChatsBefore, ChatsOver, CardsBefore, CardPlaces
  <2>3. job'.seen \cap Cards = Present(db'.characters)
    BY <1>3, <1>4, <1>11 DEF ChatsInv, ChatPlaces
  <2> QED BY <1>4, <1>5, <1>6, <1>14, <1>15, <1>16, <2>1, <2>2, <2>3 DEF ChatsInv, Present
<1>18. CardsInv'
  BY <1>3, <1>4, <1>11, CardsStay DEF CardsOver
<1>19. MessagesInv' /\ FilesInv'
  BY <1>3, <1>4, <1>11, MessagesStay, FilesStay DEF ChatPlaces
<1>20. KeepsExisting'
  BY <1>3, <1>5, <1>11 DEF KeepsExisting, BeforeInv, GoesOn, Keep, Present, WasChat
<1> QED BY <1>17, <1>18, <1>19, <1>20 DEF Exactly

LEMMA ConversationsDone ==
  ASSUME Undisturbed, Done("conversation", "messages")
  PROVE  KeepsExisting' /\ Exactly'
<1> USE DEF Undisturbed
<1>1. "at" \in DOMAIN job
  BY DEF ContentInv, RecordsInv, JobInv
<1>2. job.at = "conversation" /\ job.left = {} /\ job'.at = "messages" /\ UNCHANGED <<db, profiles, files>>
  BY <1>1 DEF Done, To, Reads, portable
<1>3. ChatsInv'
  <2>1. ASSUME NEW v \in Chats PROVE ChatSaved(v)'
    <3>1. ChatSaved(v)
      BY <1>2 DEF ChatsInv, ChatPlaces
    <3> QED BY <1>2, <3>1, ChatSavedStays
  <2> QED BY <1>2, <2>1 DEF ChatsInv, ChatsBefore, CardsBefore, CardPlaces, ChatPlaces
<1>4. CardsInv'
  BY <1>2, CardsStay DEF CardsOver
<1>5. MessagesInv' /\ FilesInv'
  BY <1>2, MessagesStay, FilesStay DEF ChatPlaces
<1>6. KeepsExisting'
  BY <1>2, ExistingStays
<1> QED BY <1>3, <1>4, <1>5, <1>6 DEF Exactly

LEMMA MessagesStep ==
  ASSUME Undisturbed, ImportMessages
  PROVE  KeepsExisting' /\ Exactly'
<1> USE DEF Undisturbed
<1>1. {"at", "seen", "left"} \subseteq DOMAIN job
  BY DEF ContentInv, RecordsInv, JobInv
<1>2. PICK left : left = IF Keep THEN Present(pack.messages) \ Present(db.messages) ELSE Present(pack.messages)
  OBVIOUS
<1>3. job.at = "messages" /\ job' = [job EXCEPT !.at = "message", !.seen = Present(db.messages), !.left = left]
      /\ UNCHANGED <<db, profiles, files>>
  BY <1>2 DEF ImportMessages, Phase, Reads, portable
<1>4. job'.at = "message" /\ job'.left = left
  BY <1>1, <1>3
<1>5. DOMAIN pack.messages = Messages /\ DOMAIN db.messages = Messages
  BY DEF ContentInv, JobTyped, PackShaped, StoreTyped, Tables
<1>6. ASSUME NEW m \in Messages
      PROVE  IF m \in left THEN db.messages[m] = WasMessage(m) /\ (Keep => WasMessage(m) = {}) ELSE MessageSaved(m)
  <2>1. db.messages[m] = WasMessage(m)
    BY <1>3 DEF MessagesInv
  <2> QED BY <1>2, <1>5, <2>1 DEF MessageSaved, Merged, Present
<1>7. MessagesInv'
  BY <1>3, <1>4, <1>6 DEF MessagesInv, ChatsBefore, CardsBefore, CardPlaces, ChatPlaces, WasMessage, MessageSaved, Merged, Keep, GoesOn
<1>8. CardsInv'
  BY <1>3, <1>4, CardsStay DEF CardsOver
<1>9. ChatsInv'
  BY <1>3, <1>4, ChatsStay DEF ChatsOver
<1>10. FilesInv'
  BY <1>3, <1>4, FilesStay
<1>11. KeepsExisting'
  BY <1>3, ExistingStays
<1> QED BY <1>7, <1>8, <1>9, <1>10, <1>11 DEF Exactly

LEMMA SaveMessageStep ==
  ASSUME Undisturbed, NEW m \in Messages, SaveMessage(m)
  PROVE  KeepsExisting' /\ (job'.at # "failed" => Exactly')
<1> USE DEF Undisturbed
<1>1. {"at", "left"} \subseteq DOMAIN job
  BY DEF ContentInv, RecordsInv, JobInv, SaveMessage, ImportPlaces
<1>2. job.at = "message" /\ m \in job.left /\ UNCHANGED <<profiles, files>>
  BY DEF SaveMessage
<1>3. CASE To("failed") /\ UNCHANGED db
  <2>1. job'.at = "failed"
    BY <1>1, <1>3 DEF To
  <2> QED BY <1>2, <1>3, <2>1, ExistingStays
<1>4. CASE ~(To("failed") /\ UNCHANGED db)
  <2>1. db' = [db EXCEPT !.messages[m] = pack.messages[m]] /\ job' = [job EXCEPT !.left = @ \ {m}]
    BY <1>4 DEF SaveMessage
  <2>2. job'.at = "message" /\ job'.left = job.left \ {m}
    BY <1>1, <1>2, <2>1
  <2>3. /\ db'.characters = db.characters /\ db'.conversations = db.conversations /\ db'.tombstones = db.tombstones
        /\ \A k \in Messages : db'.messages[k] = IF k = m THEN pack.messages[m] ELSE db.messages[k]
    BY <2>1 DEF ContentInv, StoreTyped, Tables
  <2>4. pack.messages[m] # {} /\ (Keep => WasMessage(m) = {})
    BY <1>2 DEF ContentInv, RecordsInv, JobInv, Present, MessagesInv
  <2>5. MessageSaved(m)'
    BY <2>3, <2>4 DEF MessageSaved, Merged, WasMessage, Keep, GoesOn
  <2>6. ASSUME NEW k \in Messages, k # m
        PROVE  IF k \in job.left THEN db'.messages[k] = WasMessage(k)' /\ (Keep' => WasMessage(k)' = {}) ELSE MessageSaved(k)'
    <3>1. IF k \in job.left THEN db.messages[k] = WasMessage(k) /\ (Keep => WasMessage(k) = {}) ELSE MessageSaved(k)
      BY <1>2 DEF MessagesInv
    <3>2. db'.messages[k] = db.messages[k] /\ WasMessage(k)' = WasMessage(k) /\ Keep' = Keep
      BY <2>3, <2>6 DEF WasMessage, GoesOn, Keep
    <3> QED BY <3>1, <3>2 DEF MessageSaved, Merged, GoesOn
  <2>7. MessagesInv'
    <3>1. job'.at \notin ChatsBefore \cup ChatPlaces \cup {"messages", "files", "ended"}
      BY <2>2 DEF ChatsBefore, CardsBefore, CardPlaces, ChatPlaces
    <3> QED BY <2>2, <2>5, <2>6, <3>1 DEF MessagesInv
  <2>8. CardsInv'
    BY <1>2, <2>2, <2>3, CardsStay DEF CardsOver
  <2>9. ChatsInv'
    BY <1>2, <2>2, <2>3, ChatsStay DEF ChatsOver
  <2>10. FilesInv'
    BY <1>2, <2>2, FilesStay
  <2>11. KeepsExisting'
    BY <1>2, <2>3, <2>4 DEF KeepsExisting, BeforeInv, GoesOn, Keep, Present, WasMessage
  <2> QED BY <2>7, <2>8, <2>9, <2>10, <2>11 DEF Exactly
<1> QED BY <1>3, <1>4

LEMMA MessagesDone ==
  ASSUME Undisturbed, Done("message", "files")
  PROVE  KeepsExisting' /\ Exactly'
<1> USE DEF Undisturbed
<1>1. "at" \in DOMAIN job
  BY DEF ContentInv, RecordsInv, JobInv
<1>2. job.at = "message" /\ job.left = {} /\ job'.at = "files" /\ UNCHANGED <<db, profiles, files>>
  BY <1>1 DEF Done, To, Reads, portable
<1>3. MessagesInv'
  <2>1. \A m \in Messages : MessageSaved(m)
    BY <1>2 DEF MessagesInv
  <2> QED BY <1>2, <2>1 DEF MessagesInv, MessageSaved, WasMessage, Merged, Keep, GoesOn, ChatsBefore, CardsBefore, CardPlaces, ChatPlaces
<1>4. CardsInv'
  BY <1>2, CardsStay DEF CardsOver
<1>5. ChatsInv'
  BY <1>2, ChatsStay DEF ChatsOver
<1>6. FilesInv'
  BY <1>2, FilesStay
<1>7. KeepsExisting'
  BY <1>2, ExistingStays
<1> QED BY <1>3, <1>4, <1>5, <1>6, <1>7 DEF Exactly

LEMMA FilesStep ==
  ASSUME Undisturbed, ImportFiles
  PROVE  KeepsExisting' /\ Exactly'
<1> USE DEF Undisturbed
<1>1. "at" \in DOMAIN job
  BY DEF ContentInv, RecordsInv, JobInv
<1>2. /\ job.at = "files" /\ job'.at = "ended" /\ UNCHANGED <<db, profiles>>
      /\ files' = [files EXCEPT ![job.target] = IF pack.files = {} \/ (Keep /\ @ # {}) THEN @ ELSE pack.files]
  BY <1>1 DEF ImportFiles, To
<1>3. files = job.before.files
  BY <1>2 DEF FilesInv
<1>4. job.target \in DOMAIN files
  <2>1. job.at # "none"
    BY <1>2
  <2> QED BY <2>1 DEF ContentInv, JobTyped
<1>5. FilesInv'
  BY <1>2, <1>3, <1>4 DEF FilesInv, Merged, Keep, GoesOn
<1>6. MessagesInv'
  BY <1>2, MessagesStay
<1>7. CardsInv'
  BY <1>2, CardsStay DEF CardsOver
<1>8. ChatsInv'
  BY <1>2, ChatsStay DEF ChatsOver
<1>9. KeepsExisting'
  BY <1>2, <1>3, <1>4 DEF KeepsExisting, GoesOn, Keep, Present
<1> QED BY <1>5, <1>6, <1>7, <1>8, <1>9 DEF Exactly

LEMMA ImportStep ==
  ASSUME ContentInv, ImportInv, BeforeInv, KeepsExisting, Import
  PROVE  ImportInv' /\ BeforeInv' /\ KeepsExisting' /\ job'.at # "none" /\ job'.kind = "import"
<1>1. ASSUME NEW mode, NEW target \in Spaces, BeginImport(mode, target)
      PROVE  ImportInv' /\ BeforeInv' /\ KeepsExisting' /\ job'.at # "none" /\ job'.kind = "import"
  BY <1>1, BeginStep DEF BeginImport, BeginJob
<1>2. CASE \A mode \in {"keep_existing", "replace"}, target \in Spaces : ~BeginImport(mode, target)
  <2>1. GoesOn /\ job.at \in ImportPlaces /\ job.kind = "import"
    BY <1>2, ImportGoesOn
  <2>2. job.at # "none" /\ job'.kind = "import"
    BY <2>1 DEF ImportPlaces, GoesOn
  <2>3. BeforeInv'
    BY <2>1, <2>2, BeforeStays
  <2>4. job'.at # "none"
    <3>1. ImportPlaces \cap {"none"} = {} /\ "at" \in DOMAIN job
      BY DEF ImportPlaces, ContentInv, RecordsInv, JobInv
    <3>2. ASSUME NEW place, To(place), place # "none" PROVE job'.at # "none"
      BY <3>1, <3>2 DEF To
    <3>3. ASSUME NEW from, NEW first, NEW here, NEW packed, Phase(from, first, here, packed), first # "none"
          PROVE  job'.at # "none"
      BY <3>1, <3>3 DEF Phase
    <3>4. ASSUME NEW from, NEW next, NEW o, Take(from, next, o), next # "none" PROVE job'.at # "none"
      BY <3>1, <3>4 DEF Take
    <3>5. CASE Preflight \/ SaveCard \/ SaveProfile \/ Rearchive \/ SaveNew \/ ImportFiles
               \/ Done("card", "conversations") \/ Done("conversation", "messages") \/ Done("message", "files")
      BY <3>2, <3>5 DEF Preflight, SaveCard, SaveProfile, Rearchive, SaveNew, ImportFiles, Done
    <3>6. CASE ImportCharacters \/ ImportConversations \/ ImportMessages
      BY <3>3, <3>6 DEF ImportCharacters, ImportConversations, ImportMessages
    <3>7. CASE (\E c \in Cards : FenceCard(c)) \/ \E v \in Chats : FenceNew(v)
      BY <3>4, <3>7 DEF FenceCard, FenceNew
    <3>8. ASSUME NEW v \in Chats, Retitle(v) PROVE job'.at # "none"
      <4>1. To("failed") \/ job' = [job EXCEPT !.at = "archive", !.item = {v}, !.left = @ \ {v}]
        BY <3>8 DEF Retitle
      <4>2. ASSUME job' = [job EXCEPT !.at = "archive", !.item = {v}, !.left = @ \ {v}] PROVE job'.at # "none"
        BY <3>1, <4>2
      <4> QED BY <3>2, <4>1, <4>2
    <3>9. ASSUME NEW m \in Messages, SaveMessage(m) PROVE job'.at # "none"
      BY <3>1, <3>2, <3>9 DEF SaveMessage
    <3> QED BY <1>2, <3>5, <3>6, <3>7, <3>8, <3>9 DEF Import
  <2>5. CASE ~job.quiet
    <3>1. ~job'.quiet
      BY <2>1, <2>5 DEF GoesOn
    <3> QED BY <2>2, <2>3, <2>4, <3>1 DEF ImportInv, KeepsExisting
  <2>6. CASE job.quiet
    <3>1. Undisturbed
      BY <2>1, <2>6 DEF Undisturbed, ImportInv
    <3>2. KeepsExisting' /\ (job'.at \notin {"refused", "failed"} => Exactly')
      <4>1. ASSUME NEW c \in Cards, FenceCard(c) PROVE KeepsExisting' /\ Exactly'
        BY <3>1, <4>1, FenceCardStep
      <4>2. ASSUME NEW v \in Chats, FenceNew(v) PROVE KeepsExisting' /\ Exactly'
        BY <3>1, <4>2, FenceNewStep
      <4>3. ASSUME NEW v \in Chats, Retitle(v) PROVE KeepsExisting' /\ (job'.at # "failed" => Exactly')
        BY <3>1, <4>3, RetitleStep
      <4>4. ASSUME NEW m \in Messages, SaveMessage(m) PROVE KeepsExisting' /\ (job'.at # "failed" => Exactly')
        BY <3>1, <4>4, SaveMessageStep
      <4>5. CASE Preflight \/ ImportCharacters \/ SaveCard \/ SaveProfile \/ Done("card", "conversations")
        BY <3>1, <4>5, PreflightStep, CharactersStep, SaveCardStep, SaveProfileStep, CardsDone
      <4>6. CASE ImportConversations \/ Rearchive \/ SaveNew \/ Done("conversation", "messages")
        BY <3>1, <4>6, ConversationsStep, RearchiveStep, SaveNewStep, ConversationsDone
      <4>7. CASE ImportMessages \/ Done("message", "files") \/ ImportFiles
        BY <3>1, <4>7, MessagesStep, MessagesDone, FilesStep
      <4> QED BY <1>2, <4>1, <4>2, <4>3, <4>4, <4>5, <4>6, <4>7 DEF Import
    <3>3. ImportInv'
      BY <3>2 DEF ImportInv, Exactly, ImportPlaces
    <3> QED BY <2>2, <2>3, <2>4, <3>2, <3>3
  <2> QED BY <2>5, <2>6
<1> QED BY <1>1, <1>2

ExactInv == ContentInv /\ ExportInv /\ ImportInv /\ BeforeInv /\ KeepsExisting

(* Whoever else writes ends what the job may promise. *)
LEMMA ExactUnchanged ==
  ASSUME ExactInv, UNCHANGED <<db, profiles, files, pack, job>>
  PROVE  ExportInv' /\ ImportInv' /\ BeforeInv' /\ KeepsExisting'
<1>1. ExportInv'
  BY DEF ExactInv, ExportInv, OutCards, OutProfiles, OutChats, OutTexts, OutMessages, InHome
<1>2. BeforeInv' /\ KeepsExisting'
  BY DEF ExactInv, BeforeInv, KeepsExisting, Keep, Present
<1>3. ImportInv'
  <2>1. CardsInv => CardsInv'
    <3>1. ASSUME NEW c \in Cards
          PROVE  /\ CardFresh(c)' <=> CardFresh(c)
                 /\ CardSaved(c)' <=> CardSaved(c)
                 /\ ProfileSaved(c)' <=> ProfileSaved(c)
                 /\ WasCard(c)' = WasCard(c)
      BY DEF CardFresh, CardSaved, ProfileSaved, WasCard, Merged, Keep, Tombstoned
    <3> QED BY <3>1 DEF CardsInv, Keep
  <2>2. ChatsInv => ChatsInv'
    <3>1. ASSUME NEW v \in Chats
          PROVE  /\ ChatFresh(v)' <=> ChatFresh(v)
                 /\ ChatSaved(v)' <=> ChatSaved(v)
                 /\ ChatRetitled(v)' <=> ChatRetitled(v)
                 /\ WasChat(v)' = WasChat(v)
      <4>1. ChatSaved(v)' <=> ChatSaved(v)
        BY DEF ChatSaved, ChatRow, WasChat, Merged, Keep, Tombstoned, Present
      <4>2. ChatRetitled(v)' <=> ChatRetitled(v)
        BY DEF ChatRetitled, WasChat
      <4> QED BY <4>1, <4>2 DEF ChatFresh, WasChat
    <3> QED BY <3>1 DEF ChatsInv, Keep
  <2>3. (MessagesInv => MessagesInv') /\ (FilesInv => FilesInv')
    BY DEF MessagesInv, MessageSaved, WasMessage, FilesInv, Merged, Keep
  <2> QED BY <2>1, <2>2, <2>3 DEF ExactInv, ImportInv
<1> QED BY <1>1, <1>2, <1>3

LEMMA ExactStep ==
  ASSUME ExactInv, [PortableNext]_portableVars
  PROVE  ExactInv'
<1>1. ContentInv'
  BY ContentStep DEF ExactInv
<1>2. CASE Manage
  <2>1. UNCHANGED <<profiles, files, pack>>
    BY <1>2 DEF Manage, portable
  <2>2. CASE UNCHANGED db /\ UNCHANGED job
    BY <1>1, <2>1, <2>2, ExactUnchanged DEF ExactInv
  <2>3. CASE job.at # "none" /\ job' = [job EXCEPT !.quiet = FALSE]
    <3>1. {"at", "kind", "quiet"} \subseteq DOMAIN job
      BY <2>3 DEF ExactInv, ContentInv, RecordsInv, JobInv, JobTyped
    <3>2. job'.at = job.at /\ job'.kind = job.kind /\ ~job'.quiet /\ ("before" \in DOMAIN job => job'.before = job.before)
      BY <2>3, <3>1
    <3>3. BeforeInv'
      BY <3>2 DEF ExactInv, ContentInv, JobTyped, BeforeInv
    <3> QED BY <1>1, <3>2, <3>3 DEF ExactInv, ExportInv, ImportInv, KeepsExisting
  <2>4. CASE job.at = "none" /\ UNCHANGED job
    BY <1>1, <2>4 DEF ExactInv, ExportInv, ImportInv, BeforeInv, KeepsExisting, ExportPlaces, ImportPlaces
  <2> QED BY <1>2, <2>2, <2>3, <2>4 DEF Manage
<1>3. CASE Export
  <2>1. ExportInv'
    BY <1>3, ExportStep DEF ExactInv
  <2>2. job'.at \in ExportPlaces \cup {"none"}
    <3>1. "at" \in DOMAIN job
      BY DEF ExactInv, ContentInv, RecordsInv, JobInv
    <3>2. CASE BeginExport \/ Create
      BY <3>2 DEF BeginExport, BeginJob, Create, NoJob, ExportPlaces
    <3>3. CASE ExportCharacters
      BY <3>1, <3>3 DEF ExportCharacters, ExportPlaces
    <3>4. CASE ExportProfiles
      BY <3>1, <3>4 DEF ExportProfiles, ExportPlaces
    <3>5. CASE ExportConversations
      <4>1. \E X : job' = [job EXCEPT !.at = "export_messages", !.out.conversations = X]
        BY <3>5 DEF ExportConversations
      <4> QED BY <3>1, <4>1 DEF ExportPlaces
    <3>6. CASE ExportMessages
      <4>1. \E X : job' = [job EXCEPT !.at = "export_contexts", !.out.messages = X]
        BY <3>6 DEF ExportMessages
      <4> QED BY <3>1, <4>1 DEF ExportPlaces
    <3>7. CASE ExportContexts
      <4>1. \E X : job' = [job EXCEPT !.at = "create", !.out.messages = X, !.out.files = files[Home]]
        BY <3>7 DEF ExportContexts
      <4> QED BY <3>1, <4>1 DEF ExportPlaces
    <3> QED BY <1>3, <3>2, <3>3, <3>4, <3>5, <3>6, <3>7 DEF Export
  <2>3. job'.at # "none" => job'.kind = "export"
    BY <1>1, <2>2 DEF ContentInv, JobTyped
  <2>4. ImportInv' /\ BeforeInv' /\ KeepsExisting'
    BY <2>2, <2>3 DEF ImportInv, BeforeInv, KeepsExisting, ImportPlaces, ExportPlaces
  <2> QED BY <1>1, <2>1, <2>4 DEF ExactInv
<1>4. CASE Import
  <2>1. ImportInv' /\ BeforeInv' /\ KeepsExisting' /\ job'.kind = "import"
    BY <1>4, ImportStep DEF ExactInv
  <2>2. ExportInv'
    BY <1>1, <2>1 DEF ExportInv, ContentInv, JobTyped
  <2> QED BY <1>1, <2>1, <2>2 DEF ExactInv
<1>5. CASE Break
  <2>1. job' = [job EXCEPT !.at = "broken"] /\ UNCHANGED db /\ UNCHANGED <<pack, profiles, files>> /\ job.at \notin Over
    BY <1>5 DEF Break, To, portable
  <2>2. {"at", "kind", "quiet"} \subseteq DOMAIN job /\ job.at # "none"
    BY <2>1 DEF ExactInv, ContentInv, RecordsInv, JobTyped, JobInv, Over
  <2>3. job'.at = "broken" /\ job'.kind = job.kind
    BY <2>1, <2>2
  <2>4. ExportInv' /\ ImportInv'
    BY <2>3 DEF ExportInv, ImportInv, ExportPlaces, ImportPlaces
  <2>5. CASE job.kind = "import"
    <3>1. {"mode", "target", "before"} \subseteq DOMAIN job
      BY <2>2, <2>5 DEF ExactInv, ContentInv, JobTyped
    <3>2. GoesOn
      BY <2>1, <2>2, <3>1 DEF GoesOn
    <3> QED BY <1>1, <2>1, <2>2, <2>4, <3>2, ExistingStays, BeforeStays DEF ExactInv
  <2>6. CASE job.kind # "import"
    BY <1>1, <2>3, <2>4, <2>6 DEF ExactInv, BeforeInv, KeepsExisting
  <2> QED BY <2>5, <2>6
<1>6. CASE Crash
  <2>1. job'.at = "none"
    BY <1>6 DEF Crash, NoJob
  <2> QED BY <1>1, <2>1 DEF ExactInv, ExportInv, ImportInv, BeforeInv, KeepsExisting, ExportPlaces, ImportPlaces
<1>7. CASE UNCHANGED portableVars
  <2>1. UNCHANGED <<db, profiles, files, pack, job>>
    BY <1>7 DEF portableVars
  <2> QED BY <1>1, <2>1, ExactUnchanged DEF ExactInv
<1> QED BY <1>2, <1>3, <1>4, <1>5, <1>6, <1>7 DEF PortableNext

LEMMA ExactInitially ==
  ASSUME PortableInit
  PROVE  ExactInv
<1>1. job.at = "none"
  BY DEF PortableInit, NoJob
<1> QED BY <1>1, ContentInitially DEF ExactInv, ExportInv, ImportInv, BeforeInv, KeepsExisting, ExportPlaces, ImportPlaces

LEMMA ImportedExactly ==
  ASSUME ExactInv
  PROVE  ImportExact
<1> SUFFICES ASSUME job.at = "ended", job.quiet PROVE ImportExact
  BY DEF ImportExact
<1>1. CardsInv /\ ChatsInv /\ MessagesInv /\ FilesInv
  BY DEF ExactInv, ImportInv
<1>2. \A c \in Cards : CardSaved(c) /\ ProfileSaved(c)
  BY <1>1 DEF CardsInv, CardsOver
<1>3. \A v \in Chats : ChatSaved(v)
  BY <1>1 DEF ChatsInv, ChatsOver
<1>4. \A m \in Messages : MessageSaved(m)
  BY <1>1 DEF MessagesInv
<1>5. files[job.target] = Merged(job.before.files[job.target], pack.files)
  BY <1>1 DEF FilesInv
<1> QED BY <1>2, <1>3, <1>4, <1>5 DEF ImportExact, CardSaved, ProfileSaved, ChatSaved, ChatRow, MessageSaved, WasCard, WasChat, WasMessage

(* What an undisturbed export writes is what is in the Space, what an      *)
(* undisturbed import leaves is the merge of the Space and the container,  *)
(* and what it may not replace stays, however far it gets.                 *)
THEOREM PortableHolds == PortableSpec => []PortableExact
<1>1. PortableInit => ExactInv
  BY ExactInitially
<1>2. ExactInv /\ [PortableNext]_portableVars => ExactInv'
  BY ExactStep
<1>3. ExactInv => PortableExact
  BY ExportedExactly, ImportedExactly DEF ExactInv, PortableExact
<1> QED BY <1>1, <1>2, <1>3, PTL DEF PortableSpec

=============================================================================
