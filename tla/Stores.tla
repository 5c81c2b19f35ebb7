------------------------------- MODULE Stores -------------------------------
(***************************************************************************)
(* The store the settings choose (container.py), and units of work on it:  *)
(* what holds of every store, and the promise all of them are to keep.     *)
(***************************************************************************)
EXTENDS MemoryStore, SqlStore, DynamoStore

Next ==
  \/ \E u \in Units : MemoryNext(u) \/ SqlNext(u) \/ DynamoNext(u) \/ Leave(u) \/ Rollback(u)
  \/ \E r \in Rows : IndexCatchesUp(r)

Spec == Init /\ [][Next]_vars

----------------------------------------------------------------------------
(* Invariants *)

\* The state is well typed.
TypeOK ==
  /\ store \in Stores
  /\ table \in [Rows -> Stored]
  /\ index \in [Rows -> Stored]
  /\ uow \in [Units -> Session]

Wrote(u) == uow[u].added \cup {r \in Rows : uow[u].saves[r] > 0}

\* persistence-portability.md: updates are not lost.  Every row that a committed
\* unit of work saved holds its change for good, whoever saved the row since.
UpdatesAreKept ==
  \A u \in Units : uow[u].pc = "committed" =>
    \A r \in Wrote(u) : u \in table[r].changes

\* The last stand against a double charge: no two rows have the same key.
KeysAreUnique ==
  \A q, r \in Rows : q # r /\ table[q].key = table[r].key => table[q].key = NoKey

----------------------------------------------------------------------------
(* Action properties *)

\* Somebody else has committed a change of the row that the copy in u's hands
\* lacks: one made since u read the row or, if u listed it on DynamoDB, since the
\* index copied it.
Overtaken(u, r) ==
  \E v \in Units \ {u} :
    v \in table[r].changes \ uow[u].held[r] /\ uow[v].pc \in {"committed", "unanswered"}

\* Another row has the key that u gives to a new one.
KeyGone(u) ==
  \E r \in Writes(u) \cap uow[u].added, q \in Rows :
    table[q].key = uow[u].staged[r].key /\ table[q].key # NoKey

\* Another unit of work, not over yet, has written something.
Busy(u) == \E v \in Units \ {u} : uow[v].pc = "open" /\ Wrote(v) # {}

\* Every refusal of the stores has a cause.  A row is refused for another's
\* change that the copy in hand lacks, or if it was not read at all; a key
\* because a committed row has it; and who meets a lock or a transaction under
\* way meets a unit of work that is still at work, for nobody leaves one behind.
\* What u itself wrote before is no cause, but for a second save of a row in
\* memory, which no use case makes.  An old copy from a lagging index is a
\* cause: DynamoDB lets it be saved and refuses it at the commit.
NobodyIsRefusedForNothing ==
  [][\A u \in Units :
       /\ \A r \in Rows : MemorySaveRaises(u, r) \/ SqlSaveRaises(u, r) \/ DynamoSaveRaises(u, r) =>
            \/ Overtaken(u, r) \/ ~Known(u, r)
            \/ store = "memory" /\ uow[u].saves[r] > 0
       /\ \A k \in Keys : MemoryAddRaises(u, k) \/ SqlAddRaises(u, k) =>
            \E r \in Rows : table[r].key = k
       /\ DynamoCommitRaises(u) =>
            KeyGone(u) \/ \E r \in Writes(u) : Overtaken(u, r)
       /\ SqlLocked(u) \/ DynamoCommitCanceled(u) => Busy(u)]_vars

----------------------------------------------------------------------------
(* Refinement *)

Promise == INSTANCE Repository WITH
  contents <- [r \in Rows |-> table[r].changes],
  holders  <- [k \in Keys |-> {r \in Rows : table[r].key = k}],
  finished <- {u \in Units : uow[u].pc = "committed"}

\* Units of work take effect one after the other, each as a whole.
ImplementsRepository == Promise!Spec
=============================================================================
