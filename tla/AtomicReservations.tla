------------------------- MODULE AtomicReservations -------------------------
(***************************************************************************)
(* What SpaceReservations promises its callers: a request gets all of its  *)
(* Spaces at once, when nobody owns any of them, and gives all of them     *)
(* back at once.  It may also go away without ever owning them.            *)
(***************************************************************************)
CONSTANTS Requests, Spaces

VARIABLES wanted,  \* the Spaces a request has asked for
          owning   \* requests that own the Spaces they asked for

vars == <<wanted, owning>>

Owned == UNION {wanted[r] : r \in owning}

Init == /\ wanted = [r \in Requests |-> {}]
        /\ owning = {}

Ask(r, s) ==
  /\ r \notin owning /\ wanted[r] = {}
  /\ wanted' = [wanted EXCEPT ![r] = s]
  /\ UNCHANGED owning

Grant(r) ==
  /\ r \notin owning /\ wanted[r] \cap Owned = {}
  /\ owning' = owning \cup {r}
  /\ UNCHANGED wanted

Release(r) ==
  /\ r \in owning /\ owning' = owning \ {r}
  /\ UNCHANGED wanted

Next == \E r \in Requests :
          \/ \E s \in SUBSET Spaces : Ask(r, s)
          \/ Grant(r) \/ Release(r)

Spec == Init /\ [][Next]_vars
=============================================================================
