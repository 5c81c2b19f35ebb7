---------------------------- MODULE MemoryStore ----------------------------
(***************************************************************************)
(* The in-memory store (persistence/memory): dictionaries shared by the    *)
(* threads of the server, and a Staging for each unit of work.  Versions   *)
(* and keys are compared when a row is staged; the commit only copies.     *)
(* One call of a repository is one step.                                   *)
(***************************************************************************)
EXTENDS UnitOfWork

\* get and find_by_idempotency_key
MemoryGet(u, r) ==
  /\ Running(u, "memory")
  /\ Present(View(u, r))
  /\ Goto(u, Remembering(uow[u], r, View(u, r)))
  /\ UNCHANGED <<store, table, index>>

\* The rows a list selects, from the merged dictionaries (_take).
MemoryList(u, listed) ==
  /\ Running(u, "memory")
  /\ \A r \in listed : Present(View(u, r))
  /\ Goto(u, [uow[u] EXCEPT
       !.seen = [r \in Rows |-> IF r \in listed THEN View(u, r).version ELSE @[r]],
       !.held = [r \in Rows |-> IF r \in listed THEN View(u, r).changes ELSE @[r]]])
  /\ UNCHANGED <<store, table, index>>

MemoryAdd(u, r, k) ==
  /\ Running(u, "memory")
  /\ MayAdd(u, r, k) /\ ~KeyTaken(u, k)
  /\ Goto(u, Adding(u, r, k))
  /\ UNCHANGED <<store, table, index>>

\* DuplicateEntity
MemoryAddRaises(u, k) ==
  /\ Running(u, "memory")
  /\ MayUse(u, k) /\ KeyTaken(u, k)
  /\ Refuse(u)
  /\ UNCHANGED <<store, table, index>>

\* Mutant of MemoryMaySave: the version staged is compared, not the committed one.
MemoryComparesStaging(u, r) ==
  /\ Known(u, r)
  /\ uow[u].staged[r].version \in {0, uow[u].seen[r]}

\* The version is compared with the committed one, even when the unit of work
\* has saved the row before.
MemoryMaySave(u, r) ==
  /\ Known(u, r)
  /\ table[r].version \in {0, uow[u].seen[r]}

MemorySave(u, r) ==
  /\ Running(u, "memory")
  /\ uow[u].saves[r] < MaxSaves
  /\ MemoryMaySave(u, r)
  /\ Goto(u, Saving(u, r, Saved(u, r, uow[u].seen[r] + 1)))
  /\ UNCHANGED <<store, table, index>>

\* ConcurrencyConflict
MemorySaveRaises(u, r) ==
  /\ Running(u, "memory")
  /\ Present(View(u, r)) /\ uow[u].saves[r] < MaxSaves
  /\ ~MemoryMaySave(u, r)
  /\ Refuse(u)
  /\ UNCHANGED <<store, table, index>>

\* dict.update with what is staged; nothing is compared again.
MemoryCommit(u) ==
  /\ Running(u, "memory")
  /\ table' = Merged(u)
  /\ Goto(u, Ended(u, "committed"))
  /\ UNCHANGED <<store, index>>

MemoryNext(u) ==
  \/ \E r \in Rows : MemoryGet(u, r) \/ MemorySave(u, r) \/ MemorySaveRaises(u, r)
  \/ \E listed \in SUBSET Rows : MemoryList(u, listed)
  \/ \E r \in Rows, k \in Keys \cup {NoKey} : MemoryAdd(u, r, k)
  \/ \E k \in Keys : MemoryAddRaises(u, k)
  \/ MemoryCommit(u)
=============================================================================
