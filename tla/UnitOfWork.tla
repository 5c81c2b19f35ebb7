----------------------------- MODULE UnitOfWork -----------------------------
(***************************************************************************)
(* What the units of work of the three stores have in common: rows with    *)
(* versions, what a unit of work has read (VersionTracker), what it is     *)
(* about to write, and how it ends.                                        *)
(*                                                                         *)
(* Subscriptions and invoices are stored alike, so both are rows.  The     *)
(* data of a row is the set of the units of work whose changes it holds:   *)
(* reading copies the set, saving writes the copy with the saver added, so *)
(* an update is lost just when a committed unit is missing from a row it   *)
(* saved.                                                                  *)
(***************************************************************************)
EXTENDS Integers

CONSTANTS
  Rows,       \* identifiers of subscriptions and invoices
  Seeded,     \* the rows there are at first
  Keys,       \* idempotency keys
  Units,      \* units of work
  Stores,     \* the persistence kinds the settings may choose
  Threads,    \* whether units of work on the in-memory store may overlap
  MaxSaves    \* bound: how often one unit of work saves one row

NoKey == "none"

ASSUME UnitOfWorkAssumption ==
  /\ Seeded \subseteq Rows
  /\ NoKey \notin Keys
  /\ Stores \subseteq {"memory", "sqlite", "dynamodb"}
  /\ Threads \in BOOLEAN
  /\ MaxSaves \in Nat

VARIABLES
  store,      \* settings.persistence, chosen when the program starts
  table,      \* [Rows -> Stored], what is committed
  index,      \* [Rows -> Stored], the copy DynamoDB's queries read
  uow         \* [Units -> Session]

vars == <<store, table, index, uow>>

\* Version 0 stands for no row.
Absent == [changes |-> {}, version |-> 0, key |-> NoKey]
Stored == {row \in [changes : SUBSET Units, version : Nat, key : Keys \cup {NoKey}] :
             row.version = 0 => row = Absent}
Present(row) == row.version > 0

Session == [pc : {"open", "committed", "left", "refused", "unanswered"},
            seen : [Rows -> Nat],             \* VersionTracker: the versions read
            held : [Rows -> SUBSET Units],    \* the objects in the use case's hands
            staged : [Rows -> Stored],        \* written, not committed
            saves : [Rows -> 0 .. MaxSaves],
            added : SUBSET Rows]

Opened == [pc |-> "open",
           seen |-> [r \in Rows |-> 0], held |-> [r \in Rows |-> {}],
           staged |-> [r \in Rows |-> Absent],
           saves |-> [r \in Rows |-> 0], added |-> {}]

Init ==
  /\ store \in Stores
  /\ table = [r \in Rows |-> IF r \in Seeded THEN [Absent EXCEPT !.version = 1] ELSE Absent]
  /\ index = table
  /\ uow = [u \in Units |-> Opened]

----------------------------------------------------------------------------
(* Reading *)

Writes(u) == {r \in Rows : Present(uow[u].staged[r])}

\* What u sees of a row: its own write, if there is one.
View(u, r) == IF r \in Writes(u) THEN uow[u].staged[r] ELSE table[r]

\* VersionTracker.remember.  The object is a copy, whose fields the use case changes.
Remembering(s, r, row) == [s EXCEPT !.seen[r] = row.version, !.held[r] = row.changes]

\* VersionTracker.expected: what was not read in this unit of work cannot be saved.
Known(u, r) == uow[u].seen[r] # 0

----------------------------------------------------------------------------
(* Writing *)

\* The row as the object in hand makes it.
Saved(u, r, version) ==
  [View(u, r) EXCEPT !.changes = uow[u].held[r] \cup {u}, !.version = version]

\* VersionTracker.bump goes with every save.
Saving(u, r, row) ==
  [uow[u] EXCEPT !.staged[r] = row, !.seen[r] = @ + 1, !.saves[r] = @ + 1]

\* Mutant of Adding: a new row has no version yet.
AddingUnversioned(u, r, k) ==
  [uow[u] EXCEPT !.staged[r] = [changes |-> {u}, version |-> 0, key |-> k],
                 !.held[r] = {u}, !.added = @ \cup {r}]

Adding(u, r, k) ==
  [uow[u] EXCEPT !.staged[r] = [changes |-> {u}, version |-> 1, key |-> k],
                 !.seen[r] = 1, !.held[r] = {u}, !.added = @ \cup {r}]

\* No use case adds two rows with a key in one unit of work.
MayUse(u, k) == k # NoKey => \A q \in uow[u].added : uow[u].staged[q].key = NoKey

\* Identifiers are fresh (uuid4).
MayAdd(u, r, k) ==
  /\ ~Present(table[r]) /\ \A v \in Units : r \notin Writes(v) \cup uow[v].added
  /\ MayUse(u, k)

\* The key is taken by a committed row or by one this unit of work has added.
KeyTaken(u, k) == k # NoKey /\ \E r \in Rows : View(u, r).key = k

----------------------------------------------------------------------------
(* How a unit of work goes on and ends *)

(***************************************************************************)
(* The calls of units of work on different threads alternate.  For the     *)
(* in-memory store this can be confined to before the first write and      *)
(* after the commit.                                                       *)
(***************************************************************************)
InTurn(u) ==
  store = "memory" /\ ~Threads => \A v \in Units \ {u} : Writes(v) = {}

Running(u, kind) == store = kind /\ uow[u].pc = "open" /\ InTurn(u)

Goto(u, s) == uow' = [uow EXCEPT ![u] = s]

\* What was written and what was read are forgotten.
Drop(u, pc) == Goto(u, [Opened EXCEPT !.pc = pc])

\* An exception of the store, which no use case catches: __exit__ rolls back.
Refuse(u) == Drop(u, "refused")

\* What a commit makes of the table.
Merged(u) == [r \in Rows |-> View(u, r)]

\* What was saved and added stays on record.
Ended(u, pc) == [Opened EXCEPT !.pc = pc, !.saves = uow[u].saves, !.added = uow[u].added]

\* The block is left without a commit: an early return, or an exception of the domain.
Leave(u) ==
  /\ Running(u, store)
  /\ Drop(u, "left")
  /\ UNCHANGED <<store, table, index>>

\* UnitOfWork.rollback, after which the unit of work goes on.
Rollback(u) ==
  /\ Running(u, store)
  /\ Drop(u, "open")
  /\ UNCHANGED <<store, table, index>>
=============================================================================
