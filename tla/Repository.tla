----------------------------- MODULE Repository -----------------------------
(***************************************************************************)
(* What the use cases are promised by every store (domain/repositories.py, *)
(* the UnitOfWork of application/ports.py): a unit of work takes effect at *)
(* one instant, as a whole or not at all, on top of everything that took   *)
(* effect before it, and an idempotency key is held by one row for good.   *)
(***************************************************************************)
CONSTANTS Rows, Units, Keys

VARIABLES
  contents,   \* [Rows -> SUBSET Units]: the units of work whose changes a row holds
  holders,    \* [Keys -> SUBSET Rows]
  finished    \* the units of work that have been told they were committed

vars == <<contents, holders, finished>>

Init ==
  /\ contents = [r \in Rows |-> {}]
  /\ holders = [k \in Keys |-> {}]
  /\ finished = {}

\* A row a unit of work writes keeps what was in it: no update is ever lost.
\* A key is taken only when nobody holds it.
TakeEffect(u, written) ==
  /\ \A r \in Rows : u \notin contents[r]
  /\ contents' = [r \in Rows |-> IF r \in written THEN contents[r] \cup {u} ELSE contents[r]]
  /\ \A k \in Keys : \/ holders'[k] = holders[k]
                     \/ holders[k] = {} /\ \E r \in written : holders'[k] = {r}
  /\ holders' = [k \in Keys |-> holders'[k]]

\* The unit of work is told, unless the answer is lost on the way.
Apply(u) ==
  /\ u \notin finished
  /\ \E written \in SUBSET Rows : TakeEffect(u, written)
  /\ finished' \in {finished, finished \cup {u}}

Next == \E u \in Units : Apply(u)

Spec == Init /\ [][Next]_vars
=============================================================================
