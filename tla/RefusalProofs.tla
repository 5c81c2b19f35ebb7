---------------------------- MODULE RefusalProofs ----------------------------
(***************************************************************************)
(* Proof that a unit of work is refused only for what another one did, or  *)
(* is doing (the lock, the transaction under way), or for want of a read:  *)
(* the converse of StoresProofs, where a version that matches means that   *)
(* nothing was missed.  Here one that does not match means that something  *)
(* was.                                                                    *)
(***************************************************************************)
EXTENDS StoresRefinement

LEMMA VersionTypes ==
  ASSUME TypeOK, NEW u \in Units, NEW r \in Rows
  PROVE  /\ table[r].version \in Nat /\ index[r].version \in Nat
         /\ uow[u].seen[r] \in Nat /\ uow[u].staged[r].version \in Nat
<1>1. table[r] \in Stored /\ index[r] \in Stored /\ uow[u].staged[r] \in Stored
  BY SessionFields DEF TypeOK
<1> QED
  BY <1>1, SessionFields, StoredFields

\* Only who added a row that is not stored yet can write it.
LEMMA OnlyItsMakerSaves ==
  ASSUME TypeOK, UpdatesInv, RefusalsInv, NEW u \in Units, NEW v \in Units \ {u}, NEW r \in Rows,
         r \in Writes(u) \cap uow[u].added, Known(v, r)
  PROVE  FALSE
<1>1. r \notin Writes(v) /\ ~Present(table[r])
  BY DEF RefusalsInv, AddedIsNew
<1>2. uow[v].seen[r] <= table[r].version
  BY <1>1 DEF UpdatesInv, ReadsAreDated
<1> QED
  BY <1>1, <1>2, VersionTypes DEF Known, Present

----------------------------------------------------------------------------
(* Each kind of step *)

LEMMA ReadsKeepRefusals ==
  ASSUME TypeOK, UpdatesInv, RefusalsInv, NEW u \in Units, Reads(u)
  PROVE  RefusalsInv'
<1>1. /\ \A v \in Units \ {u} : uow'[v] = uow[v]
      /\ uow'[u].staged = uow[u].staged
      /\ uow'[u].saves = uow[u].saves /\ uow'[u].added = uow[u].added
      /\ store' = store /\ table' = table /\ index' = index
  BY DEF Reads, Alone
<1>2. \A v \in Units : /\ Writes(v)' = Writes(v) /\ Wrote(v)' = Wrote(v)
                       /\ uow'[v].staged = uow[v].staged /\ uow'[v].added = uow[v].added
  BY <1>1 DEF Writes, Present, Wrote
<1>3. ASSUME NEW v \in Units, NEW r \in Rows
      PROVE  AddedIsNew(v, r)'
  BY <1>1, <1>2 DEF RefusalsInv, AddedIsNew, Present
<1>4. ASSUME NEW v \in Units \ {u}, NEW r \in Rows
      PROVE  OldIsBehind(v, r)' /\ SeenIsWritten(v, r)'
  BY <1>1, <1>2 DEF RefusalsInv, OldIsBehind, SeenIsWritten, Known, Current, Behind
<1>5. ASSUME NEW r \in Rows
      PROVE  OldIsBehind(u, r)' /\ SeenIsWritten(u, r)'
  <2>1. OldIsBehind(u, r) /\ SeenIsWritten(u, r) /\ OldIndexIsBehind(r)
    BY DEF RefusalsInv
  <2>2. CASE uow'[u].seen[r] = uow[u].seen[r] /\ uow'[u].held[r] = uow[u].held[r]
    BY <2>1, <2>2, <1>1, <1>2 DEF OldIsBehind, SeenIsWritten, Known, Current, Behind
  <2>3. CASE uow'[u].seen[r] = View(u, r).version /\ uow'[u].held[r] = View(u, r).changes
    BY <2>1, <2>3, <1>1, <1>2
    DEF OldIsBehind, SeenIsWritten, Known, Current, Behind, View
  <2>4. CASE /\ r \notin Writes(u)
             /\ uow'[u].seen[r] = index[r].version /\ uow'[u].held[r] = index[r].changes
    BY <2>1, <2>4, <1>1, <1>2 DEF OldIsBehind, SeenIsWritten, OldIndexIsBehind, Behind
  <2> QED
    BY <2>2, <2>3, <2>4 DEF Reads
<1>6. (\A r \in Rows : OldIndexIsBehind(r)') /\ \A v \in Units : WritesAreRecorded(v)'
  BY <1>1, <1>2 DEF RefusalsInv, OldIndexIsBehind, WritesAreRecorded
<1> QED
  BY <1>3, <1>4, <1>5, <1>6 DEF RefusalsInv

LEMMA DropsKeepRefusals ==
  ASSUME TypeOK, RefusalsInv, NEW u \in Units, Drops(u)
  PROVE  RefusalsInv'
<1>1. /\ \A v \in Units \ {u} : uow'[v] = uow[v] /\ Writes(v)' = Writes(v) /\ Wrote(v)' = Wrote(v)
      /\ \A r \in Rows : uow'[u].staged[r] = Absent /\ uow'[u].seen[r] = 0
      /\ store' = store /\ table' = table /\ index' = index
  BY DEF Drops, Alone, Writes, Present, Wrote
<1>2. Writes(u)' = {}
  BY <1>1 DEF Writes, Present, Absent
<1>3. ASSUME NEW v \in Units, NEW r \in Rows
      PROVE  OldIsBehind(v, r)' /\ AddedIsNew(v, r)' /\ SeenIsWritten(v, r)'
  <2>1. CASE v = u
    BY <2>1, <1>1, <1>2 DEF OldIsBehind, AddedIsNew, SeenIsWritten, Known
  <2>2. CASE v # u
    <3>1. AddedIsNew(v, r)'
      BY <2>2, <1>1, <1>2 DEF RefusalsInv, AddedIsNew, Present
    <3> QED
      BY <2>2, <3>1, <1>1
      DEF RefusalsInv, OldIsBehind, SeenIsWritten, Known, Current, Behind
  <2> QED
    BY <2>1, <2>2
<1>4. (\A r \in Rows : OldIndexIsBehind(r)') /\ \A v \in Units : WritesAreRecorded(v)'
  BY <1>1, <1>2 DEF RefusalsInv, OldIndexIsBehind, WritesAreRecorded
<1> QED
  BY <1>3, <1>4 DEF RefusalsInv

\* It is enough to look at the row written, and at who else might write it.
LEMMA WritingKeepsRefusals ==
  ASSUME TypeOK, UpdatesInv, RefusalsInv, NEW u \in Units, NEW r \in Rows, Writing(u, r),
         OldIsBehind(u, r)', AddedIsNew(u, r)', SeenIsWritten(u, r)', r \in Wrote(u)',
         \A v \in Units \ {u} : r \notin Writes(v) \cap uow[v].added,
         uow'[u].added \in {uow[u].added, uow[u].added \cup {r}}
  PROVE  RefusalsInv'
<1>1. /\ store' = store /\ table' = table /\ index' = index
      /\ \A v \in Units \ {u} : /\ uow'[v] = uow[v]
                                /\ Writes(v)' = Writes(v) /\ Wrote(v)' = Wrote(v)
      /\ Writes(u)' = Writes(u) \cup {r}
  BY WritingFacts
<1>2. \A q \in Rows \ {r} : /\ uow'[u].staged[q] = uow[u].staged[q]
                            /\ uow'[u].seen[q] = uow[u].seen[q]
                            /\ uow'[u].held[q] = uow[u].held[q]
                            /\ uow'[u].saves[q] = uow[u].saves[q]
                            /\ q \in uow'[u].added <=> q \in uow[u].added
  BY DEF Writing
<1>3. ASSUME NEW v \in Units, NEW q \in Rows
      PROVE  OldIsBehind(v, q)' /\ AddedIsNew(v, q)' /\ SeenIsWritten(v, q)'
  <2>1. OldIsBehind(v, q) /\ AddedIsNew(v, q) /\ SeenIsWritten(v, q)
    BY DEF RefusalsInv
  <2>2. CASE v # u
    <3>1. AddedIsNew(v, q)'
      BY <2>1, <2>2, <1>1 DEF AddedIsNew, Present
    <3> QED
      BY <2>1, <2>2, <3>1, <1>1 DEF OldIsBehind, SeenIsWritten, Known, Current, Behind
  <2>3. CASE v = u /\ q # r
    <3>1. AddedIsNew(v, q)'
      BY <2>1, <2>3, <1>1, <1>2 DEF AddedIsNew, Present
    <3> QED
      BY <2>1, <2>3, <3>1, <1>1, <1>2
      DEF OldIsBehind, SeenIsWritten, Known, Current, Behind
  <2> QED
    BY <2>2, <2>3
<1>4. \A q \in Rows : OldIndexIsBehind(q)'
  BY <1>1 DEF RefusalsInv, OldIndexIsBehind
<1>5. ASSUME NEW v \in Units
      PROVE  WritesAreRecorded(v)'
  <2>1. CASE v # u
    BY <2>1, <1>1 DEF RefusalsInv, WritesAreRecorded
  <2>2. CASE v = u
    <3>1. Wrote(u) \subseteq Wrote(u)' \cup {r}
      BY <1>2, SessionFields DEF Wrote
    <3> QED
      BY <2>2, <3>1, <1>1 DEF RefusalsInv, WritesAreRecorded
  <2> QED
    BY <2>1, <2>2
<1> QED
  BY <1>3, <1>4, <1>5 DEF RefusalsInv

LEMMA AddsKeepRefusals ==
  ASSUME TypeOK, UpdatesInv, RefusalsInv,
         NEW u \in Units, NEW r \in Rows, NEW k \in Keys \cup {NoKey}, Adds(u, r, k)
  PROVE  RefusalsInv'
<1>1. /\ Writing(u, r) /\ ~Present(table[r])
      /\ \A v \in Units : r \notin Writes(v) \cup uow[v].added
      /\ uow'[u].staged[r] = [changes |-> {u}, version |-> 1, key |-> k]
      /\ uow'[u].seen[r] = 1 /\ uow'[u].added = uow[u].added \cup {r}
  BY DEF Adds, MayAdd
<1>2. /\ table' = table /\ \A v \in Units \ {u} : Writes(v)' = Writes(v)
      /\ Writes(u)' = Writes(u) \cup {r}
  BY <1>1, WritingFacts
<1>3. OldIsBehind(u, r)' /\ SeenIsWritten(u, r)' /\ r \in Wrote(u)'
  BY <1>1, <1>2 DEF OldIsBehind, SeenIsWritten, Wrote
<1>4. AddedIsNew(u, r)'
  BY <1>1, <1>2 DEF AddedIsNew, Present
<1> QED
  BY <1>1, <1>3, <1>4, WritingKeepsRefusals

LEMMA SavesKeepRefusals ==
  ASSUME TypeOK, UpdatesInv, EffectsInv, RefusalsInv, NEW u \in Units, NEW r \in Rows, Saves(u, r)
  PROVE  RefusalsInv'
<1>1. /\ Writing(u, r) /\ Known(u, r)
      /\ SavedVersion(u, r, uow'[u].staged[r].version)
      /\ uow'[u].staged[r].changes = uow[u].held[r] \cup {u}
      /\ uow'[u].seen[r] = uow[u].seen[r] + 1 /\ uow'[u].held[r] = uow[u].held[r]
      /\ uow'[u].saves[r] > 0 /\ uow'[u].added = uow[u].added
  BY DEF Saves
<1>2. /\ store' = store /\ table' = table /\ uow[u].pc = "open"
      /\ \A v \in Units \ {u} : uow'[v] = uow[v] /\ Writes(v)' = Writes(v)
      /\ Writes(u)' = Writes(u) \cup {r}
  BY <1>1, WritingFacts
<1>3. OldIsBehind(u, r) /\ AddedIsNew(u, r)
  BY DEF RefusalsInv
<1>4. SeenIsWritten(u, r)' /\ r \in Wrote(u)'
  BY <1>1, <1>2 DEF SeenIsWritten, SavedVersion, Wrote
<1>5. ASSUME NEW v \in Units \ {u}
      PROVE  r \notin Writes(v) \cap uow[v].added
  BY <1>1, OnlyItsMakerSaves
<1>6. r \in uow[u].added => r \in Writes(u)
  BY <1>2 DEF UpdatesInv, WritesAreHeld, Wrote
<1>7. AddedIsNew(u, r)'
  BY <1>1, <1>2, <1>3, <1>6 DEF AddedIsNew, Present
<1>8. OldIsBehind(u, r)'
  <2> SUFFICES ASSUME r \notin uow[u].added, store = "dynamodb",
                      uow'[u].staged[r].version # table[r].version + 1
               PROVE  /\ ~(table[r].changes \subseteq uow[u].held[r])
                      /\ ~(table[r].changes \subseteq uow[u].held[r] \cup {u})
    BY <1>1, <1>2 DEF OldIsBehind, Current, Behind
  <2>1. uow'[u].staged[r].version = DynamoVersion(u, r)
    BY <1>1 DEF SavedVersion
  <2>2. u \notin table[r].changes
    BY <1>2 DEF EffectsInv, NoEffectYet
  <2>3. Behind(u, r)
    <3>1. CASE r \in Writes(u)
      BY <3>1, <2>1, <1>3 DEF OldIsBehind, Current, DynamoVersion
    <3>2. CASE r \notin Writes(u)
      BY <3>2, <2>1, <1>1, <1>3, VersionTypes DEF OldIsBehind, DynamoVersion
    <3> QED
      BY <3>1, <3>2
  <2> QED
    BY <2>2, <2>3 DEF Behind
<1> QED
  BY <1>1, <1>4, <1>5, <1>7, <1>8, WritingKeepsRefusals

\* A commit overtakes everybody who holds the rows it writes.
LEMMA CommitsKeepRefusals ==
  ASSUME TypeOK, UpdatesInv, EffectsInv, RefusalsInv, NEW u \in Units, Commits(u)
  PROVE  RefusalsInv'
<1>1. /\ \A v \in Units \ {u} : uow'[v] = uow[v] /\ Writes(v)' = Writes(v) /\ Wrote(v)' = Wrote(v)
      /\ store' = store /\ index' = index
      /\ uow[u].pc = "open"
      /\ \A r \in Rows : uow'[u].staged[r] = Absent /\ uow'[u].seen[r] = 0
  BY DEF Commits, Writes, Present, Wrote
<1>2. Writes(u)' = {}
  BY <1>1 DEF Writes, Present, Absent
<1>3. ASSUME NEW r \in Rows
      PROVE  /\ r \notin Writes(u) => table'[r] = table[r]
             /\ r \in Writes(u) => u \in table'[r].changes
             /\ u \notin index[r].changes
             /\ \A v \in Units \ {u} : u \notin uow[v].held[r] /\ u \notin uow[v].staged[r].changes
  <2>1. u \notin table[r].changes
    BY <1>1 DEF EffectsInv, NoEffectYet
  <2> QED
    BY <2>1, CommitFacts DEF EffectsInv, NoEffectYet, HoldsWhatIsStored
<1>4. ASSUME NEW v \in Units, NEW r \in Rows
      PROVE  OldIsBehind(v, r)' /\ AddedIsNew(v, r)' /\ SeenIsWritten(v, r)'
  <2>1. CASE v = u
    BY <2>1, <1>1, <1>2 DEF OldIsBehind, AddedIsNew, SeenIsWritten, Known
  <2>2. CASE v # u
    <3>1. OldIsBehind(v, r) /\ AddedIsNew(v, r) /\ SeenIsWritten(v, r)
      BY DEF RefusalsInv
    <3>2. AddedIsNew(v, r)'
      BY <2>2, <3>1, <1>1, <1>2, <1>3 DEF AddedIsNew, Present
    <3>3. OldIsBehind(v, r)'
      BY <2>2, <3>1, <1>1, <1>3 DEF OldIsBehind, Known, Current, Behind
    <3> QED
      BY <2>2, <3>1, <3>2, <3>3, <1>1 DEF SeenIsWritten
  <2> QED
    BY <2>1, <2>2
<1>5. \A r \in Rows : OldIndexIsBehind(r)'
  BY <1>1, <1>3 DEF RefusalsInv, OldIndexIsBehind
<1>6. \A v \in Units : WritesAreRecorded(v)'
  BY <1>1, <1>2 DEF RefusalsInv, WritesAreRecorded
<1> QED
  BY <1>4, <1>5, <1>6 DEF RefusalsInv

LEMMA IndexKeepsRefusals ==
  ASSUME TypeOK, RefusalsInv, NEW r \in Rows, IndexCatchesUp(r)
  PROVE  RefusalsInv'
<1>1. store' = store /\ table' = table /\ uow' = uow /\ index' = [index EXCEPT ![r] = table[r]]
  BY DEF IndexCatchesUp
<1>2. \A v \in Units : Writes(v)' = Writes(v) /\ Wrote(v)' = Wrote(v)
  BY <1>1 DEF Writes, Wrote
<1>3. \A v \in Units, q \in Rows :
        OldIsBehind(v, q)' /\ AddedIsNew(v, q)' /\ SeenIsWritten(v, q)'
  BY <1>1, <1>2
  DEF RefusalsInv, OldIsBehind, AddedIsNew, SeenIsWritten, Known, Current, Behind
<1>4. \A q \in Rows : index'[q] = IF q = r THEN table[r] ELSE index[q]
  BY <1>1 DEF TypeOK
<1>5. \A q \in Rows : OldIndexIsBehind(q)'
  BY <1>1, <1>4 DEF RefusalsInv, OldIndexIsBehind
<1> QED
  BY <1>2, <1>3, <1>5 DEF RefusalsInv, WritesAreRecorded

LEMMA RefusalsInit == Init => RefusalsInv
<1> SUFFICES ASSUME Init PROVE RefusalsInv
  OBVIOUS
<1>1. index = table /\ \A u \in Units : uow[u] = Opened
  BY DEF Init
<1>2. \A u \in Units : Writes(u) = {}
  BY <1>1 DEF Writes, Present, Opened, Absent
<1>3. \A u \in Units, r \in Rows : ~Known(u, r)
  <2>1. \A r \in Rows : Opened.seen[r] = 0
    BY DEF Opened
  <2> QED
    BY <1>1, <2>1 DEF Known
<1>4. \A r \in Rows : OldIndexIsBehind(r)
  BY <1>1, Zenon DEF OldIndexIsBehind
<1> QED
  BY <1>2, <1>3, <1>4
  DEF RefusalsInv, OldIsBehind, AddedIsNew, SeenIsWritten, WritesAreRecorded

LEMMA RefusalsStep ==
  ASSUME NoThreads, TypeOK, UpdatesInv, EffectsInv, RefusalsInv, [Next]_vars
  PROVE  RefusalsInv'
<1>1. ASSUME NEW u \in Units, Kind(u)
      PROVE  RefusalsInv'
  BY <1>1, ReadsKeepRefusals, DropsKeepRefusals, CommitsKeepRefusals, SavesKeepRefusals,
     AddsKeepRefusals DEF Kind
<1>2. ASSUME NEW r \in Rows, IndexCatchesUp(r)
      PROVE  RefusalsInv'
  BY <1>2, IndexKeepsRefusals
<1>3. CASE UNCHANGED vars
  BY <1>3 DEF vars, RefusalsInv, OldIsBehind, OldIndexIsBehind, AddedIsNew, SeenIsWritten,
     WritesAreRecorded, Known, Current, Behind, Writes, Wrote
<1> QED
  BY <1>1, <1>2, <1>3, StepKinds

----------------------------------------------------------------------------
(* Each kind of refusal *)

\* The change that is missing is another's, and committed.
LEMMA BehindIsOvertaken ==
  ASSUME EffectsInv, NEW u \in Units, NEW r \in Rows, uow[u].pc = "open", Behind(u, r),
         table[r].changes \subseteq Units
  PROVE  Overtaken(u, r)
<1>1. PICK v \in table[r].changes : v \notin uow[u].held[r]
  BY DEF Behind
<1>2. v \in Units /\ v # u /\ uow[v].pc \in {"committed", "unanswered"}
  BY <1>1 DEF EffectsInv, NoEffectYet
<1> QED
  BY <1>1, <1>2 DEF Overtaken

LEMMA ChangesAreUnits ==
  ASSUME TypeOK, NEW r \in Rows
  PROVE  table[r].changes \subseteq Units
<1>1. table[r] \in Stored
  BY DEF TypeOK
<1> QED
  BY <1>1 DEF Stored

\* ConcurrencyConflict of a save
LEMMA SavesAreRefusedForAReason ==
  ASSUME TypeOK, EffectsInv, RefusalsInv, NEW u \in Units, NEW r \in Rows,
         MemorySaveRaises(u, r) \/ SqlSaveRaises(u, r) \/ DynamoSaveRaises(u, r)
  PROVE  \/ Overtaken(u, r) \/ ~Known(u, r)
         \/ store = "memory" /\ uow[u].saves[r] > 0
<1>1. OldIsBehind(u, r) /\ AddedIsNew(u, r) /\ SeenIsWritten(u, r) /\ WritesAreRecorded(u)
  BY DEF RefusalsInv
<1>2. Behind(u, r) => Overtaken(u, r)
  <2>1. uow[u].pc = "open"
    BY DEF MemorySaveRaises, SqlSaveRaises, DynamoSaveRaises, Running
  <2> QED
    BY <2>1, BehindIsOvertaken, ChangesAreUnits
<1>3. CASE MemorySaveRaises(u, r)
  <2>1. store = "memory" /\ (~Known(u, r) \/ table[r].version \notin {0, uow[u].seen[r]})
    BY <1>3 DEF MemorySaveRaises, Running, MemoryMaySave
  <2>2. CASE r \in Writes(u)
    <3>1. CASE r \in uow[u].added
      BY <2>1, <2>2, <3>1, <1>1, VersionTypes DEF AddedIsNew, Present
    <3>2. CASE r \notin uow[u].added
      BY <2>1, <2>2, <3>2, <1>1 DEF WritesAreRecorded, Wrote
    <3> QED
      BY <3>1, <3>2
  <2>3. CASE r \notin Writes(u)
    BY <2>1, <2>3, <1>1, <1>2 DEF OldIsBehind
  <2> QED
    BY <2>2, <2>3
<1>4. CASE SqlSaveRaises(u, r)
  BY <1>1, <1>4, <1>2 DEF SqlSaveRaises, Running, SqlMatches, View, SeenIsWritten, OldIsBehind
<1>5. CASE DynamoSaveRaises(u, r)
  BY <1>5 DEF DynamoSaveRaises
<1> QED
  BY <1>3, <1>4, <1>5

\* DuplicateEntity of an add: the unit of work itself has no such key.
LEMMA AddsAreRefusedForAReason ==
  ASSUME TypeOK, KeysInv, NEW u \in Units, NEW k \in Keys,
         MemoryAddRaises(u, k) \/ SqlAddRaises(u, k)
  PROVE  \E r \in Rows : table[r].key = k
<1>1. MayUse(u, k) /\ KeyTaken(u, k)
  BY DEF MemoryAddRaises, SqlAddRaises
<1>2. PICK r \in Rows : View(u, r).key = k /\ k # NoKey
  BY <1>1 DEF KeyTaken
<1>3. KeyIsKept(u, r)
  BY DEF KeysInv
<1>4. r \notin Writes(u) \cap uow[u].added
  BY <1>1, <1>2 DEF MayUse, View
<1> QED
  BY <1>2, <1>3, <1>4 DEF View, KeyIsKept

\* A condition of TransactWriteItems that fails
LEMMA CommitsAreRefusedForAReason ==
  ASSUME TypeOK, KeysInv, EffectsInv, RefusalsInv, NEW u \in Units, DynamoCommitRaises(u)
  PROVE  KeyGone(u) \/ \E r \in Writes(u) : Overtaken(u, r)
<1>1. store = "dynamodb" /\ uow[u].pc = "open" /\ ~DynamoAccepts(u)
  BY DEF DynamoCommitRaises, Running
<1>2. CASE KeyGone(u)
  BY <1>2
<1>3. CASE ~KeyGone(u)
  <2>1. PICK r \in Writes(u) : table[r].version # uow[u].staged[r].version - 1
    BY <1>1, <1>3 DEF DynamoAccepts, KeyGone
  <2>2. r \in Rows
    BY DEF Writes
  <2>3. OldIsBehind(u, r) /\ AddedIsNew(u, r) /\ KeyIsKept(u, r)
    BY <2>2 DEF RefusalsInv, KeysInv
  <2>4. table[r].version \in Nat /\ uow[u].staged[r].version \in Nat
    BY <2>2, VersionTypes
  <2>5. r \notin uow[u].added
    BY <2>1, <2>3, <2>4, <1>1 DEF AddedIsNew, KeyIsKept, Present
  <2>6. ~Current(u, r)
    BY <2>1, <2>4, <1>1 DEF Current
  <2>7. Behind(u, r)
    BY <2>3, <2>5, <2>6 DEF OldIsBehind
  <2> QED
    BY <2>2, <2>7, <1>1, BehindIsOvertaken, ChangesAreUnits
<1> QED
  BY <1>2, <1>3

\* A lock, or an item another transaction is writing
LEMMA WhoWritesIsAtWork ==
  ASSUME UpdatesInv, RefusalsInv, NEW u \in Units, SqlLocked(u) \/ DynamoCommitCanceled(u)
  PROVE  Busy(u)
<1>1. PICK v \in Units \ {u} : Writes(v) # {}
  BY DEF SqlLocked, LockFree, DynamoCommitCanceled
<1>2. Wrote(v) # {}
  BY <1>1 DEF RefusalsInv, WritesAreRecorded
<1>3. uow[v].pc = "open"
  BY <1>1 DEF UpdatesInv, WritesBuildOn, Writes
<1> QED
  BY <1>2, <1>3 DEF Busy

\* On each of the stores, the in-memory one used by one thread at a time, every
\* refusal has its cause: another's committed change that the copy in hand lacks
\* (on DynamoDB an old copy may come from the index), no read at all, a key that
\* a committed row has, or another unit of work writing just now.
THEOREM RefusalsHaveAReason ==
  ASSUME NoThreads
  PROVE  Spec => NobodyIsRefusedForNothing
<1> DEFINE Inv == /\ TypeOK /\ UpdatesInv /\ UpdatesAreKept /\ EffectsInv
                  /\ KeysInv /\ KeysAreUnique /\ RefusalsInv
           Reasons ==
             \A u \in Units :
               /\ \A r \in Rows : MemorySaveRaises(u, r) \/ SqlSaveRaises(u, r) \/ DynamoSaveRaises(u, r) =>
                    \/ Overtaken(u, r) \/ ~Known(u, r)
                    \/ store = "memory" /\ uow[u].saves[r] > 0
               /\ \A k \in Keys : MemoryAddRaises(u, k) \/ SqlAddRaises(u, k) =>
                    \E r \in Rows : table[r].key = k
               /\ DynamoCommitRaises(u) =>
                    KeyGone(u) \/ \E r \in Writes(u) : Overtaken(u, r)
               /\ SqlLocked(u) \/ DynamoCommitCanceled(u) => Busy(u)
<1>1. Init => Inv
  BY StoresInit, UpdatesInit, EffectsInit, KeysInit, RefusalsInit
<1>2. Inv /\ [Next]_vars => Inv'
  BY StepKinds, UpdatesStep, EffectsStep, KeysStep, RefusalsStep
<1>3. Inv => Reasons
  BY SavesAreRefusedForAReason, AddsAreRefusedForAReason, CommitsAreRefusedForAReason,
     WhoWritesIsAtWork
<1>4. Inv => [Reasons]_vars
  BY <1>3
<1> HIDE DEF Inv
<1>5. Spec => []Inv
  BY <1>1, <1>2, PTL DEF Spec
<1> HIDE DEF Reasons
<1>6. []Inv => [][Reasons]_vars
  BY <1>4, PTL
<1> QED
  BY <1>5, <1>6 DEF NobodyIsRefusedForNothing, Reasons
=============================================================================
