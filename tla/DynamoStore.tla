---------------------------- MODULE DynamoStore ----------------------------
(***************************************************************************)
(* The DynamoDB store (persistence/dynamo).  Writes are collected by the   *)
(* session and sent as one TransactWriteItems, each with the condition     *)
(* under which it may be written: that the item does not exist, or has the *)
(* version that was read.  So the version written is always one more than  *)
(* the version required, 0 standing for no item.  An idempotency key is an *)
(* item of its own, written with the invoice that takes it.                *)
(***************************************************************************)
EXTENDS UnitOfWork

\* GetItem, a consistent read, unless the session's overlay has the item
DynamoGet(u, r) ==
  /\ Running(u, "dynamodb")
  /\ Present(View(u, r))
  /\ Goto(u, Remembering(uow[u], r, View(u, r)))
  /\ UNCHANGED <<store, table, index>>

\* A query of an index: neither what was committed lately nor what the session
\* holds need be there, and the version remembered is that of the copy.  No use
\* case queries for a row it has just written (DynamoSession.query: "it breaks
\* here"): the write could be undone by the next save.
DynamoList(u, r) ==
  /\ Running(u, "dynamodb")
  /\ r \notin Writes(u) /\ Present(index[r])
  /\ Goto(u, Remembering(uow[u], r, index[r]))
  /\ UNCHANGED <<store, table, index>>

\* DynamoDB brings an index up to date in its own time.
IndexCatchesUp(r) ==
  /\ store = "dynamodb"
  /\ index[r] # table[r]
  /\ index' = [index EXCEPT ![r] = table[r]]
  /\ UNCHANGED <<store, table, uow>>

DynamoAdd(u, r, k) ==
  /\ Running(u, "dynamodb")
  /\ MayAdd(u, r, k)
  /\ Goto(u, Adding(u, r, k))
  /\ UNCHANGED <<store, table, index>>

\* Mutant of DynamoVersion: a second write of an item takes the version of its own.
DynamoNextVersion(u, r) == uow[u].seen[r] + 1

\* DynamoSession.stage: the second write of an item keeps the version, and with
\* it the condition, of the first.
DynamoVersion(u, r) ==
  IF r \in Writes(u) THEN uow[u].staged[r].version ELSE uow[u].seen[r] + 1

DynamoSave(u, r) ==
  /\ Running(u, "dynamodb")
  /\ uow[u].saves[r] < MaxSaves
  /\ Known(u, r)
  /\ Goto(u, Saving(u, r, Saved(u, r, DynamoVersion(u, r))))
  /\ UNCHANGED <<store, table, index>>

\* ConcurrencyConflict: what was not read cannot be saved.
DynamoSaveRaises(u, r) ==
  /\ Running(u, "dynamodb")
  /\ Present(View(u, r)) /\ ~Known(u, r)
  /\ Refuse(u)
  /\ UNCHANGED <<store, table, index>>

\* Mutant of DynamoAccepts: no item is written for the idempotency key.
DynamoAcceptsAnyKey(u) ==
  \A r \in Writes(u) : table[r].version = uow[u].staged[r].version - 1

\* The conditions of TransactWriteItems, looked at together with writing.
DynamoAccepts(u) ==
  /\ \A r \in Writes(u) : table[r].version = uow[u].staged[r].version - 1
  /\ \A r \in Writes(u) \cap uow[u].added, q \in Rows :
       table[q].key = uow[u].staged[r].key => table[q].key = NoKey

DynamoCommit(u) ==
  /\ Running(u, "dynamodb")
  /\ DynamoAccepts(u)
  /\ table' = Merged(u)
  /\ Goto(u, Ended(u, "committed"))
  /\ UNCHANGED <<store, index>>

\* ConditionalCheckFailed, translated to ConcurrencyConflict or DuplicateEntity
DynamoCommitRaises(u) ==
  /\ Running(u, "dynamodb")
  /\ ~DynamoAccepts(u)
  /\ Refuse(u)
  /\ UNCHANGED <<store, table, index>>

\* TransactionConflict: another transaction is under way on one of the items, of
\* which a key is one.  It is no failed condition, goes up as it is, and nothing
\* is written.
DynamoCommitCanceled(u) ==
  /\ Running(u, "dynamodb")
  /\ \E v \in Units \ {u} :
       \/ Writes(u) \cap Writes(v) # {}
       \/ \E q \in Writes(u) \cap uow[u].added, r \in Writes(v) \cap uow[v].added :
            uow[u].staged[q].key = uow[v].staged[r].key /\ uow[u].staged[q].key # NoKey
  /\ Refuse(u)
  /\ UNCHANGED <<store, table, index>>

\* The items are written and the answer is lost: another ClientError, or none
\* of botocore's at all, goes up as it is.
DynamoCommitUnanswered(u) ==
  /\ Running(u, "dynamodb")
  /\ Writes(u) # {} /\ DynamoAccepts(u)
  /\ table' = Merged(u)
  /\ Goto(u, Ended(u, "unanswered"))
  /\ UNCHANGED <<store, index>>

DynamoNext(u) ==
  \/ \E r \in Rows : DynamoGet(u, r) \/ DynamoList(u, r)
                     \/ DynamoSave(u, r) \/ DynamoSaveRaises(u, r)
  \/ \E r \in Rows, k \in Keys \cup {NoKey} : DynamoAdd(u, r, k)
  \/ DynamoCommit(u) \/ DynamoCommitRaises(u)
  \/ DynamoCommitCanceled(u) \/ DynamoCommitUnanswered(u)
=============================================================================
