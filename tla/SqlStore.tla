------------------------------ MODULE SqlStore ------------------------------
(***************************************************************************)
(* The SQL store (persistence/sql) on a SQLite file, one connection per    *)
(* unit of work.  SQLite and its driver, as the code relies on them: a     *)
(* SELECT outside a transaction reads what is committed; the first write   *)
(* begins the transaction and takes the write lock, which it keeps until   *)
(* the end; who waits for the lock too long fails.                         *)
(***************************************************************************)
EXTENDS UnitOfWork

\* get and find_by_idempotency_key
SqlGet(u, r) ==
  /\ Running(u, "sqlite")
  /\ Present(View(u, r))
  /\ Goto(u, Remembering(uow[u], r, View(u, r)))
  /\ UNCHANGED <<store, table, index>>

\* The rows of one SELECT, the versions of which are all remembered.
SqlList(u, listed) ==
  /\ Running(u, "sqlite")
  /\ \A r \in listed : Present(View(u, r))
  /\ Goto(u, [uow[u] EXCEPT
       !.seen = [r \in Rows |-> IF r \in listed THEN View(u, r).version ELSE @[r]],
       !.held = [r \in Rows |-> IF r \in listed THEN View(u, r).changes ELSE @[r]]])
  /\ UNCHANGED <<store, table, index>>

\* The lock is free or held by u.
LockFree(u) == \A v \in Units \ {u} : Writes(v) = {}

\* "database is locked": an exception nobody translates or catches.
SqlLocked(u) ==
  /\ Running(u, "sqlite")
  /\ ~LockFree(u)
  /\ Refuse(u)
  /\ UNCHANGED <<store, table, index>>

\* INSERT, under the primary key and the UNIQUE idempotency_key
SqlAdd(u, r, k) ==
  /\ Running(u, "sqlite") /\ LockFree(u)
  /\ MayAdd(u, r, k) /\ ~KeyTaken(u, k)
  /\ Goto(u, Adding(u, r, k))
  /\ UNCHANGED <<store, table, index>>

\* IntegrityError, translated to DuplicateEntity
SqlAddRaises(u, k) ==
  /\ Running(u, "sqlite") /\ LockFree(u)
  /\ MayUse(u, k) /\ KeyTaken(u, k)
  /\ Refuse(u)
  /\ UNCHANGED <<store, table, index>>

\* Mutant of SqlMatches: the UPDATE looks for the identifier only.
SqlMatchesId(u, r) == Known(u, r) /\ Present(View(u, r))

\* UPDATE ... WHERE id = ... AND version = ... finds its row.
SqlMatches(u, r) == Known(u, r) /\ View(u, r).version = uow[u].seen[r]

SqlSave(u, r) ==
  /\ Running(u, "sqlite") /\ LockFree(u)
  /\ uow[u].saves[r] < MaxSaves
  /\ SqlMatches(u, r)
  /\ Goto(u, Saving(u, r, Saved(u, r, uow[u].seen[r] + 1)))
  /\ UNCHANGED <<store, table, index>>

\* rowcount = 0: ConcurrencyConflict
SqlSaveRaises(u, r) ==
  /\ Running(u, "sqlite") /\ LockFree(u)
  /\ Present(View(u, r)) /\ uow[u].saves[r] < MaxSaves
  /\ ~SqlMatches(u, r)
  /\ Refuse(u)
  /\ UNCHANGED <<store, table, index>>

SqlCommit(u) ==
  /\ Running(u, "sqlite")
  /\ table' = Merged(u)
  /\ Goto(u, Ended(u, "committed"))
  /\ UNCHANGED <<store, index>>

SqlNext(u) ==
  \/ \E r \in Rows : SqlGet(u, r) \/ SqlSave(u, r) \/ SqlSaveRaises(u, r)
  \/ \E listed \in SUBSET Rows : SqlList(u, listed)
  \/ \E r \in Rows, k \in Keys \cup {NoKey} : SqlAdd(u, r, k)
  \/ \E k \in Keys : SqlAddRaises(u, k)
  \/ SqlLocked(u)
  \/ SqlCommit(u)
=============================================================================
