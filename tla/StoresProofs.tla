---------------------------- MODULE StoresProofs ----------------------------
(***************************************************************************)
(* Proofs about Stores: whatever the store, no update is lost and no two   *)
(* rows have one key, for any number of units of work, rows and keys.      *)
(***************************************************************************)
EXTENDS StoresInductive, TLAPS

----------------------------------------------------------------------------
(* Types of what the actions write *)

LEMMA AbsentIsStored == Absent \in Stored
  BY DEF Absent, Stored

LEMMA ViewIsStored ==
  ASSUME TypeOK, NEW u \in Units, NEW r \in Rows
  PROVE  View(u, r) \in Stored
  BY DEF TypeOK, Session, View

LEMMA StoredFields ==
  ASSUME NEW row \in Stored
  PROVE  /\ row.changes \in SUBSET Units /\ row.version \in Nat /\ row.key \in Keys \cup {NoKey}
         /\ row.version = 0 => row = Absent
  BY DEF Stored

LEMMA StoredRecord ==
  ASSUME NEW changes \in SUBSET Units, NEW version \in Nat, version # 0, NEW k \in Keys \cup {NoKey}
  PROVE  [changes |-> changes, version |-> version, key |-> k] \in Stored
  BY DEF Stored

LEMMA SavedIsStored ==
  ASSUME TypeOK, NEW u \in Units, NEW r \in Rows, NEW version \in Nat, version # 0
  PROVE  /\ Saved(u, r, version) \in Stored
         /\ Saved(u, r, version).changes = uow[u].held[r] \cup {u}
         /\ Saved(u, r, version).version = version
         /\ Saved(u, r, version).key = View(u, r).key
<1>1. PICK row \in Stored : row = View(u, r)
  BY ViewIsStored
<1>2. uow[u].held[r] \cup {u} \in SUBSET Units
  BY DEF TypeOK, Session
<1> DEFINE c == uow[u].held[r] \cup {u}
<1>3. Saved(u, r, version) = [row EXCEPT !.changes = c, !.version = version]
  BY <1>1 DEF Saved
<1> HIDE DEF c
<1>4. row \in [changes : SUBSET Units, version : Nat, key : Keys \cup {NoKey}]
  BY DEF Stored
<1>5. c \in SUBSET Units
  BY <1>2 DEF c
<1> DEFINE x == [row EXCEPT !.changes = c, !.version = version]
<1>6. /\ x \in [changes : SUBSET Units, version : Nat, key : Keys \cup {NoKey}]
      /\ x.changes = c /\ x.version = version /\ x.key = row.key
  BY <1>4, <1>5
<1> HIDE DEF x
<1>7. x \in Stored
  BY <1>6 DEF Stored
<1> QED
  BY <1>1, <1>3, <1>6, <1>7 DEF c, x

LEMMA SessionFields ==
  ASSUME TypeOK, NEW u \in Units
  PROVE  /\ uow[u] \in Session
         /\ uow[u].seen \in [Rows -> Nat] /\ uow[u].held \in [Rows -> SUBSET Units]
         /\ uow[u].staged \in [Rows -> Stored] /\ uow[u].saves \in [Rows -> 0 .. MaxSaves]
         /\ uow[u].added \in SUBSET Rows
         /\ uow[u].pc \in {"open", "committed", "left", "refused", "unanswered"}
  BY DEF TypeOK, Session

LEMMA OpenedIsSession ==
  ASSUME NEW pc \in {"open", "committed", "left", "refused", "unanswered"}
  PROVE  [Opened EXCEPT !.pc = pc] \in Session
<1>1. [r \in Rows |-> Absent] \in [Rows -> Stored]
  BY AbsentIsStored
<1>2. [r \in Rows |-> 0] \in [Rows -> 0 .. MaxSaves]
  BY UnitOfWorkAssumption
<1> QED
  BY <1>1, <1>2 DEF Opened, Session

\* What a step of u leaves of the types.
LEMMA GotoType ==
  ASSUME TypeOK, NEW u \in Units, NEW s \in Session, Goto(u, s)
  PROVE  uow' \in [Units -> Session] /\ uow'[u] = s /\ \A v \in Units \ {u} : uow'[v] = uow[v]
  BY DEF TypeOK, Goto

----------------------------------------------------------------------------
(* The kinds of step *)

\* What others have and what is stored stays as it is.
Alone(u) ==
  /\ UNCHANGED <<store, table, index>>
  /\ uow[u].pc = "open"
  /\ \A v \in Units \ {u} : uow'[v] = uow[v]

\* u reads rows, through its own writes or, for some it has not written, from
\* an index.
Reads(u) ==
  /\ Alone(u)
  /\ uow'[u].pc = uow[u].pc /\ uow'[u].staged = uow[u].staged
  /\ uow'[u].saves = uow[u].saves /\ uow'[u].added = uow[u].added
  /\ \A r \in Rows :
       \/ uow'[u].seen[r] = uow[u].seen[r] /\ uow'[u].held[r] = uow[u].held[r]
       \/ uow'[u].seen[r] = View(u, r).version /\ uow'[u].held[r] = View(u, r).changes
       \/ /\ r \notin Writes(u)
          /\ uow'[u].seen[r] = index[r].version /\ uow'[u].held[r] = index[r].changes

\* No other unit of work has written; DynamoDB lets all of them write.
Writer(u) == store # "dynamodb" => \A v \in Units \ {u} : Writes(v) = {}

\* u writes the row r, and nothing else of it changes.
Writing(u, r) ==
  /\ Alone(u) /\ Writer(u)
  /\ uow'[u].pc = uow[u].pc
  /\ Present(uow'[u].staged[r])
  /\ \A q \in Rows \ {r} : /\ uow'[u].staged[q] = uow[u].staged[q]
                           /\ uow'[u].seen[q] = uow[u].seen[q]
                           /\ uow'[u].held[q] = uow[u].held[q]
                           /\ uow'[u].saves[q] = uow[u].saves[q]

Adds(u, r, k) ==
  /\ Writing(u, r)
  /\ MayAdd(u, r, k) /\ (store # "dynamodb" => ~KeyTaken(u, k))
  /\ uow'[u].staged[r] = [changes |-> {u}, version |-> 1, key |-> k]
  /\ uow'[u].seen[r] = 1 /\ uow'[u].held[r] = {u}
  /\ uow'[u].added = uow[u].added \cup {r}

\* The version written, and the one compared, differ from store to store.
SavedVersion(u, r, version) ==
  \/ store = "dynamodb" /\ version = DynamoVersion(u, r)
  \/ /\ store # "dynamodb" /\ version = uow[u].seen[r] + 1
     /\ MemoryMaySave(u, r) \/ SqlMatches(u, r)

Saves(u, r) ==
  /\ Writing(u, r)
  /\ Known(u, r)
  /\ SavedVersion(u, r, uow'[u].staged[r].version)
  /\ uow'[u].staged[r].changes = uow[u].held[r] \cup {u}
  /\ uow'[u].staged[r].key = View(u, r).key
  /\ uow'[u].seen[r] = uow[u].seen[r] + 1 /\ uow'[u].held[r] = uow[u].held[r]
  /\ uow'[u].saves[r] > 0
  /\ uow'[u].added = uow[u].added

\* u forgets what it wrote and read.
Drops(u) ==
  /\ Alone(u)
  /\ uow'[u].pc # "committed" /\ uow'[u].added = {}
  /\ \A r \in Rows : /\ uow'[u].staged[r] = Absent /\ uow'[u].seen[r] = 0
                     /\ uow'[u].saves[r] = 0 /\ uow'[u].held[r] = {}

Commits(u) ==
  /\ UNCHANGED <<store, index>>
  /\ uow[u].pc = "open"
  /\ store = "dynamodb" => DynamoAccepts(u)
  /\ table' = Merged(u)
  /\ \A v \in Units \ {u} : uow'[v] = uow[v]
  /\ uow'[u].pc \in {"committed", "unanswered"}
  /\ uow'[u].added = uow[u].added /\ uow'[u].saves = uow[u].saves
  /\ \A r \in Rows : /\ uow'[u].staged[r] = Absent /\ uow'[u].seen[r] = 0
                     /\ uow'[u].held[r] = {}

Kind(u) ==
  \/ Reads(u) \/ Drops(u) \/ Commits(u)
  \/ \E r \in Rows : Saves(u, r) \/ \E k \in Keys \cup {NoKey} : Adds(u, r, k)

\* Threads on the in-memory store lose updates: ThreadsOnMemory.cfg.
NoThreads == "memory" \in Stores => ~Threads

Typed(u) == TypeOK' /\ (NoThreads => Kind(u))

LEMMA DropStep ==
  ASSUME TypeOK, NEW u \in Units, uow[u].pc = "open",
         NEW pc \in {"open", "left", "refused", "unanswered"},
         Drop(u, pc), UNCHANGED <<store, table, index>>
  PROVE  Typed(u)
<1> DEFINE s == [Opened EXCEPT !.pc = pc]
<1>1. s \in Session /\ Goto(u, s)
  BY OpenedIsSession DEF Drop
<1>2. /\ s.pc = pc /\ s.added = {}
      /\ \A r \in Rows : /\ s.staged[r] = Absent /\ s.seen[r] = 0 /\ s.saves[r] = 0
                         /\ s.held[r] = {}
  BY DEF Opened
<1> HIDE DEF s
<1>3. uow' \in [Units -> Session] /\ uow'[u] = s /\ \A v \in Units \ {u} : uow'[v] = uow[v]
  BY <1>1, GotoType
<1>4. TypeOK'
  BY <1>3 DEF TypeOK
<1>5. Drops(u)
  BY <1>2, <1>3 DEF Drops, Alone
<1> QED
  BY <1>4, <1>5 DEF Typed, Kind

LEMMA CommitStep ==
  ASSUME TypeOK, NEW u \in Units, uow[u].pc = "open",
         NEW pc \in {"committed", "unanswered"},
         Goto(u, Ended(u, pc)), table' = Merged(u), UNCHANGED <<store, index>>,
         store = "dynamodb" => DynamoAccepts(u)
  PROVE  Typed(u)
<1> DEFINE s == Ended(u, pc)
<1>1. [Opened EXCEPT !.pc = pc] \in Session
  BY OpenedIsSession
<1>2. s \in Session
  <2>1. uow[u].saves \in [Rows -> 0 .. MaxSaves] /\ uow[u].added \in SUBSET Rows
    BY SessionFields
  <2>2. [r \in Rows |-> Absent] \in [Rows -> Stored]
    BY AbsentIsStored
  <2> QED
    BY <2>1, <2>2 DEF Ended, Opened, Session
<1>3. /\ s.pc = pc /\ s.added = uow[u].added /\ s.saves = uow[u].saves
      /\ \A r \in Rows : s.staged[r] = Absent /\ s.seen[r] = 0 /\ s.held[r] = {}
  BY DEF Opened, Ended
<1> HIDE DEF s
<1>4. uow' \in [Units -> Session] /\ uow'[u] = s /\ \A v \in Units \ {u} : uow'[v] = uow[v]
  BY <1>2, GotoType DEF s
<1>5. Merged(u) \in [Rows -> Stored]
  BY ViewIsStored DEF Merged
<1>6. TypeOK'
  BY <1>4, <1>5 DEF TypeOK
<1>7. Commits(u)
  BY <1>3, <1>4 DEF Commits
<1> QED
  BY <1>6, <1>7 DEF Typed, Kind

\* VersionTracker.remember for one row
LEMMA RememberStep ==
  ASSUME TypeOK, NEW u \in Units, uow[u].pc = "open", NEW r \in Rows, NEW row \in Stored,
         row = View(u, r) \/ (r \notin Writes(u) /\ row = index[r]),
         Goto(u, Remembering(uow[u], r, row)), UNCHANGED <<store, table, index>>
  PROVE  Typed(u)
<1> DEFINE s == Remembering(uow[u], r, row)
<1>1. row.version \in Nat /\ row.changes \in SUBSET Units
  BY StoredFields
<1>2. PICK o \in Session : o = uow[u]
  BY SessionFields
<1>3. s = [o EXCEPT !.seen[r] = row.version, !.held[r] = row.changes]
  BY <1>2 DEF Remembering
<1> HIDE DEF s
<1>4. /\ s \in Session
      /\ s.pc = o.pc /\ s.staged = o.staged /\ s.saves = o.saves /\ s.added = o.added
      /\ s.seen[r] = row.version /\ s.held[r] = row.changes
      /\ \A q \in Rows \ {r} : s.seen[q] = o.seen[q] /\ s.held[q] = o.held[q]
  BY <1>1, <1>3 DEF Session
<1>5. uow' \in [Units -> Session] /\ uow'[u] = s /\ \A v \in Units \ {u} : uow'[v] = uow[v]
  BY <1>4, GotoType DEF s
<1>6. TypeOK'
  BY <1>5 DEF TypeOK
<1>7. Reads(u)
  BY <1>2, <1>4, <1>5 DEF Reads, Alone
<1> QED
  BY <1>6, <1>7 DEF Typed, Kind

\* ... and for the rows of a list
LEMMA ListStep ==
  ASSUME TypeOK, NEW u \in Units, uow[u].pc = "open", NEW listed \in SUBSET Rows,
         Goto(u, [uow[u] EXCEPT
           !.seen = [r \in Rows |-> IF r \in listed THEN View(u, r).version ELSE @[r]],
           !.held = [r \in Rows |-> IF r \in listed THEN View(u, r).changes ELSE @[r]]]),
         UNCHANGED <<store, table, index>>
  PROVE  Typed(u)
<1>1. PICK o \in Session : o = uow[u]
  BY SessionFields
<1> DEFINE f == [r \in Rows |-> IF r \in listed THEN View(u, r).version ELSE o.seen[r]]
           g == [r \in Rows |-> IF r \in listed THEN View(u, r).changes ELSE o.held[r]]
           s == [o EXCEPT !.seen = f, !.held = g]
<1>2. Goto(u, s)
  BY <1>1
<1>3. \A r \in Rows : View(u, r).version \in Nat /\ View(u, r).changes \in SUBSET Units
  BY ViewIsStored, StoredFields
<1>4. o.seen \in [Rows -> Nat] /\ o.held \in [Rows -> SUBSET Units]
  BY DEF Session
<1>5. f \in [Rows -> Nat] /\ g \in [Rows -> SUBSET Units]
  BY <1>3, <1>4
<1>6. \A r \in Rows : \/ f[r] = o.seen[r] /\ g[r] = o.held[r]
                      \/ f[r] = View(u, r).version /\ g[r] = View(u, r).changes
  OBVIOUS
<1> HIDE DEF f, g
<1>7. /\ s \in Session /\ s.seen = f /\ s.held = g
      /\ s.pc = o.pc /\ s.staged = o.staged /\ s.saves = o.saves /\ s.added = o.added
  BY <1>5 DEF Session
<1> HIDE DEF s
<1>8. uow' \in [Units -> Session] /\ uow'[u] = s /\ \A v \in Units \ {u} : uow'[v] = uow[v]
  BY <1>2, <1>7, GotoType
<1>9. TypeOK'
  BY <1>8 DEF TypeOK
<1>10. Reads(u)
  BY <1>1, <1>6, <1>7, <1>8 DEF Reads, Alone
<1> QED
  BY <1>9, <1>10 DEF Typed, Kind

LEMMA AddStep ==
  ASSUME TypeOK, NEW u \in Units, uow[u].pc = "open", NEW r \in Rows, NEW k \in Keys \cup {NoKey},
         NoThreads => Writer(u),
         MayAdd(u, r, k), store # "dynamodb" => ~KeyTaken(u, k),
         Goto(u, Adding(u, r, k)), UNCHANGED <<store, table, index>>
  PROVE  Typed(u)
<1> DEFINE row == [changes |-> {u}, version |-> 1, key |-> k]
           s   == Adding(u, r, k)
<1>1. row \in Stored /\ row.version > 0
  BY StoredRecord
<1>2. PICK o \in Session : o = uow[u]
  BY SessionFields
<1>3. s = [o EXCEPT !.staged[r] = row, !.seen[r] = 1, !.held[r] = {u},
                    !.added = o.added \cup {r}]
  BY <1>2 DEF Adding
<1> HIDE DEF row, s
<1>4. /\ s \in Session
      /\ s.pc = o.pc /\ s.saves = o.saves /\ s.added = o.added \cup {r}
      /\ s.staged[r] = row /\ s.seen[r] = 1 /\ s.held[r] = {u}
      /\ \A q \in Rows \ {r} : s.seen[q] = o.seen[q] /\ s.held[q] = o.held[q]
                               /\ s.staged[q] = o.staged[q]
  BY <1>1, <1>3 DEF Session
<1>5. uow' \in [Units -> Session] /\ uow'[u] = s /\ \A v \in Units \ {u} : uow'[v] = uow[v]
  BY <1>4, GotoType DEF s
<1>6. TypeOK'
  BY <1>5 DEF TypeOK
<1>7. ASSUME NoThreads
      PROVE  Adds(u, r, k)
  <2>1. Writing(u, r)
    BY <1>1, <1>2, <1>4, <1>5, <1>7 DEF Writing, Alone, Present
  <2> QED
    BY <1>2, <1>4, <1>5, <2>1 DEF Adds, row
<1> QED
  BY <1>6, <1>7 DEF Typed, Kind

LEMMA SaveStep ==
  ASSUME TypeOK, NEW u \in Units, uow[u].pc = "open", NEW r \in Rows,
         NEW version \in Nat, version # 0,
         NoThreads => Writer(u),
         Known(u, r), uow[u].saves[r] < MaxSaves, SavedVersion(u, r, version),
         Goto(u, Saving(u, r, Saved(u, r, version))), UNCHANGED <<store, table, index>>
  PROVE  Typed(u)
<1>1. PICK row \in Stored : /\ row = Saved(u, r, version) /\ row.version = version
                            /\ row.changes = uow[u].held[r] \cup {u}
                            /\ row.key = View(u, r).key
  BY SavedIsStored
<1> DEFINE s == Saving(u, r, row)
<1>2. PICK o \in Session : o = uow[u]
  BY SessionFields
<1>3. s = [o EXCEPT !.staged[r] = row, !.seen[r] = o.seen[r] + 1, !.saves[r] = o.saves[r] + 1]
  BY <1>2 DEF Saving, Session
<1> HIDE DEF s
<1>4. o.seen[r] + 1 \in Nat /\ o.saves[r] + 1 \in 0 .. MaxSaves /\ o.saves[r] + 1 > 0
  BY <1>2, UnitOfWorkAssumption DEF Session
<1>5. /\ s \in Session
      /\ s.pc = o.pc /\ s.held = o.held /\ s.added = o.added /\ s.staged[r] = row
      /\ s.seen[r] = o.seen[r] + 1 /\ s.saves[r] > 0
      /\ \A q \in Rows \ {r} : s.seen[q] = o.seen[q] /\ s.saves[q] = o.saves[q]
                               /\ s.staged[q] = o.staged[q]
  BY <1>3, <1>4 DEF Session
<1>6. uow' \in [Units -> Session] /\ uow'[u] = s /\ \A v \in Units \ {u} : uow'[v] = uow[v]
  BY <1>1, <1>5, GotoType DEF s
<1>7. TypeOK'
  BY <1>6 DEF TypeOK
<1>8. ASSUME NoThreads
      PROVE  Saves(u, r)
  <2>1. Present(uow'[u].staged[r])
    BY <1>1, <1>5, <1>6 DEF Present
  <2>2. Writing(u, r)
    BY <1>2, <1>5, <1>6, <1>8, <2>1 DEF Writing, Alone
  <2> QED
    BY <1>1, <1>2, <1>5, <1>6, <2>2 DEF Saves
<1> QED
  BY <1>7, <1>8 DEF Typed, Kind

----------------------------------------------------------------------------
(* The stores make steps of these kinds *)

\* On a store whose units of work do not overlap, who may write writes alone.
LEMMA TurnFacts ==
  ASSUME TypeOK, NEW u \in Units, Running(u, "memory"), NoThreads
  PROVE  Writer(u)
  BY DEF TypeOK, Running, InTurn, NoThreads, Writer

LEMMA SaveVersionFacts ==
  ASSUME TypeOK, NEW u \in Units, NEW r \in Rows
  PROVE  /\ uow[u].seen[r] + 1 \in Nat /\ uow[u].seen[r] + 1 # 0
         /\ DynamoVersion(u, r) \in Nat /\ DynamoVersion(u, r) # 0
<1>1. uow[u].seen[r] \in Nat
  BY SessionFields
<1>2. uow[u].staged[r].version \in Nat
  BY SessionFields, StoredFields
<1>3. r \in Writes(u) => uow[u].staged[r].version > 0
  BY DEF Writes, Present
<1> QED
  BY <1>1, <1>2, <1>3 DEF DynamoVersion

LEMMA MemoryKinds ==
  ASSUME TypeOK, NEW u \in Units, MemoryNext(u)
  PROVE  Typed(u)
<1>1. ASSUME NEW r \in Rows, MemoryGet(u, r)
      PROVE  Typed(u)
  BY <1>1, ViewIsStored, RememberStep DEF MemoryGet, Running
<1>2. ASSUME NEW r \in Rows, MemorySave(u, r)
      PROVE  Typed(u)
  <2>1. /\ uow[u].pc = "open" /\ (NoThreads => Writer(u))
        /\ SavedVersion(u, r, uow[u].seen[r] + 1)
    BY <1>2, TurnFacts DEF MemorySave, Running, SavedVersion
  <2> QED
    BY <1>2, <2>1, SaveVersionFacts, SaveStep DEF MemorySave, MemoryMaySave
<1>3. ASSUME NEW r \in Rows, MemorySaveRaises(u, r)
      PROVE  Typed(u)
  <2>1. /\ uow[u].pc = "open" /\ Goto(u, [Opened EXCEPT !.pc = "refused"])
        /\ UNCHANGED <<store, table, index>>
    BY <1>3 DEF MemorySaveRaises, Running, Refuse, Drop
  <2> QED
    BY <2>1, DropStep DEF Drop
<1>4. ASSUME NEW listed \in SUBSET Rows, MemoryList(u, listed)
      PROVE  Typed(u)
  BY <1>4, ListStep DEF MemoryList, Running
<1>5. ASSUME NEW r \in Rows, NEW k \in Keys \cup {NoKey}, MemoryAdd(u, r, k)
      PROVE  Typed(u)
  BY <1>5, TurnFacts, AddStep DEF MemoryAdd, Running
<1>6. ASSUME NEW k \in Keys, MemoryAddRaises(u, k)
      PROVE  Typed(u)
  BY <1>6, DropStep DEF MemoryAddRaises, Running, Refuse
<1>7. CASE MemoryCommit(u)
  BY <1>7, CommitStep DEF MemoryCommit, Running
<1> QED
  BY <1>1, <1>2, <1>3, <1>4, <1>5, <1>6, <1>7 DEF MemoryNext

LEMMA SqlKinds ==
  ASSUME TypeOK, NEW u \in Units, SqlNext(u)
  PROVE  Typed(u)
<1>1. ASSUME NEW r \in Rows, SqlGet(u, r)
      PROVE  Typed(u)
  BY <1>1, ViewIsStored, RememberStep DEF SqlGet, Running
<1>2. ASSUME NEW r \in Rows, SqlSave(u, r)
      PROVE  Typed(u)
  <2>1. /\ uow[u].pc = "open" /\ Writer(u)
        /\ SavedVersion(u, r, uow[u].seen[r] + 1)
    BY <1>2 DEF SqlSave, Running, SavedVersion, LockFree, Writer
  <2> QED
    BY <1>2, <2>1, SaveVersionFacts, SaveStep DEF SqlSave, SqlMatches
<1>3. ASSUME NEW r \in Rows, SqlSaveRaises(u, r)
      PROVE  Typed(u)
  BY <1>3, DropStep DEF SqlSaveRaises, Running, Refuse
<1>4. ASSUME NEW listed \in SUBSET Rows, SqlList(u, listed)
      PROVE  Typed(u)
  BY <1>4, ListStep DEF SqlList, Running
<1>5. ASSUME NEW r \in Rows, NEW k \in Keys \cup {NoKey}, SqlAdd(u, r, k)
      PROVE  Typed(u)
  BY <1>5, AddStep DEF SqlAdd, Running, LockFree, Writer
<1>6. ASSUME NEW k \in Keys, SqlAddRaises(u, k)
      PROVE  Typed(u)
  BY <1>6, DropStep DEF SqlAddRaises, Running, Refuse
<1>7. CASE SqlLocked(u)
  BY <1>7, DropStep DEF SqlLocked, Running, Refuse
<1>8. CASE SqlCommit(u)
  BY <1>8, CommitStep DEF SqlCommit, Running
<1> QED
  BY <1>1, <1>2, <1>3, <1>4, <1>5, <1>6, <1>7, <1>8 DEF SqlNext

LEMMA DynamoKinds ==
  ASSUME TypeOK, NEW u \in Units, DynamoNext(u)
  PROVE  Typed(u)
<1>1. ASSUME NEW r \in Rows, DynamoGet(u, r)
      PROVE  Typed(u)
  BY <1>1, ViewIsStored, RememberStep DEF DynamoGet, Running
<1>2. ASSUME NEW r \in Rows, DynamoList(u, r)
      PROVE  Typed(u)
  <2>1. index[r] \in Stored
    BY DEF TypeOK
  <2> QED
    BY <1>2, <2>1, RememberStep DEF DynamoList, Running
<1>3. ASSUME NEW r \in Rows, DynamoSave(u, r)
      PROVE  Typed(u)
  <2>1. /\ uow[u].pc = "open" /\ Writer(u)
        /\ SavedVersion(u, r, DynamoVersion(u, r))
    BY <1>3 DEF DynamoSave, Running, SavedVersion, Writer
  <2> QED
    BY <1>3, <2>1, SaveVersionFacts, SaveStep DEF DynamoSave
<1>4. ASSUME NEW r \in Rows, DynamoSaveRaises(u, r)
      PROVE  Typed(u)
  BY <1>4, DropStep DEF DynamoSaveRaises, Running, Refuse
<1>5. ASSUME NEW r \in Rows, NEW k \in Keys \cup {NoKey}, DynamoAdd(u, r, k)
      PROVE  Typed(u)
  BY <1>5, AddStep DEF DynamoAdd, Running, Writer
<1>6. CASE DynamoCommit(u)
  BY <1>6, CommitStep DEF DynamoCommit, Running
<1>7. CASE DynamoCommitRaises(u)
  BY <1>7, DropStep DEF DynamoCommitRaises, Running, Refuse
<1>8. CASE DynamoCommitCanceled(u)
  BY <1>8, DropStep DEF DynamoCommitCanceled, Running, Refuse
<1>9. CASE DynamoCommitUnanswered(u)
  BY <1>9, CommitStep DEF DynamoCommitUnanswered, Running
<1> QED
  BY <1>1, <1>2, <1>3, <1>4, <1>5, <1>6, <1>7, <1>8, <1>9 DEF DynamoNext

LEMMA StepKinds ==
  ASSUME TypeOK, [Next]_vars
  PROVE  /\ TypeOK'
         /\ NoThreads => \/ \E u \in Units : Kind(u)
                         \/ \E r \in Rows : IndexCatchesUp(r)
                         \/ UNCHANGED vars
<1>1. ASSUME NEW u \in Units, MemoryNext(u) \/ SqlNext(u) \/ DynamoNext(u) \/ Leave(u) \/ Rollback(u)
      PROVE  Typed(u)
  <2>1. CASE Leave(u)
    BY <2>1, DropStep DEF Leave, Running
  <2>2. CASE Rollback(u)
    BY <2>2, DropStep DEF Rollback, Running
  <2> QED
    BY <1>1, <2>1, <2>2, MemoryKinds, SqlKinds, DynamoKinds
<1>2. ASSUME NEW r \in Rows, IndexCatchesUp(r)
      PROVE  TypeOK'
  BY <1>2 DEF IndexCatchesUp, TypeOK
<1>3. CASE UNCHANGED vars
  BY <1>3 DEF vars, TypeOK
<1> QED
  BY <1>1, <1>2, <1>3 DEF Next, Typed

LEMMA StoresInit == Init => TypeOK
<1> SUFFICES ASSUME Init PROVE TypeOK
  OBVIOUS
<1>1. table \in [Rows -> Stored]
  <2>1. [Absent EXCEPT !.version = 1] = [changes |-> {}, version |-> 1, key |-> NoKey]
    BY DEF Absent
  <2>2. [Absent EXCEPT !.version = 1] \in Stored
    BY <2>1, StoredRecord
  <2> QED
    BY <2>2, AbsentIsStored DEF Init
<1>2. Opened \in Session
  <2>1. [r \in Rows |-> Absent] \in [Rows -> Stored]
    BY AbsentIsStored
  <2>2. [r \in Rows |-> 0] \in [Rows -> 0 .. MaxSaves]
    BY UnitOfWorkAssumption
  <2> QED
    BY <2>1, <2>2 DEF Opened, Session
<1> QED
  BY <1>1, <1>2 DEF Init, TypeOK

\* Whatever the store and however many threads, the state is well typed.
THEOREM StoresTypeCorrect == Spec => []TypeOK
  BY StoresInit, StepKinds, PTL DEF Spec

----------------------------------------------------------------------------
(* No update is lost *)

\* Who took no step wrote nothing.
LEMMA WritesOfOthers ==
  ASSUME NEW v \in Units, uow'[v] = uow[v]
  PROVE  Writes(v)' = Writes(v)
  BY DEF Writes, Present

LEMMA ReadsKeepUpdates ==
  ASSUME TypeOK, UpdatesInv, UpdatesAreKept, NEW u \in Units, Reads(u)
  PROVE  UpdatesInv' /\ UpdatesAreKept'
<1>1. /\ \A v \in Units \ {u} : uow'[v] = uow[v]
      /\ uow[u].pc = "open" /\ uow'[u].pc = uow[u].pc
      /\ uow'[u].staged = uow[u].staged
      /\ uow'[u].saves = uow[u].saves /\ uow'[u].added = uow[u].added
      /\ store' = store /\ table' = table /\ index' = index
  BY DEF Reads, Alone
<1>2. \A v \in Units : /\ Writes(v)' = Writes(v) /\ Wrote(v)' = Wrote(v)
                       /\ uow'[v].pc = uow[v].pc /\ uow'[v].staged = uow[v].staged
  BY <1>1 DEF Writes, Present, Wrote
<1>3. ASSUME NEW v \in Units, NEW r \in Rows
      PROVE  WritesBuildOn(v, r)' /\ ReadsAreDated(v, r)'
  <2>1. CASE v # u
    BY <2>1, <1>1, <1>2 DEF UpdatesInv, WritesBuildOn, ReadsAreDated, Current, Known
  <2>2. CASE v = u
    <3>1. CASE uow'[u].seen[r] = uow[u].seen[r] /\ uow'[u].held[r] = uow[u].held[r]
      BY <2>2, <3>1, <1>1, <1>2 DEF UpdatesInv, WritesBuildOn, ReadsAreDated, Current, Known
    <3>2. CASE uow'[u].seen[r] = View(u, r).version /\ uow'[u].held[r] = View(u, r).changes
      <4>1. table[r].version \in Nat
        BY StoredFields DEF TypeOK
      <4> QED
        BY <2>2, <3>2, <4>1, <1>1, <1>2
        DEF UpdatesInv, WritesBuildOn, ReadsAreDated, Current, Known, View
    <3>3. CASE /\ r \notin Writes(u)
               /\ uow'[u].seen[r] = index[r].version /\ uow'[u].held[r] = index[r].changes
      <4>1. IndexIsDated(r)
        BY DEF UpdatesInv
      <4> QED
        BY <2>2, <3>3, <4>1, <1>1, <1>2
        DEF UpdatesInv, WritesBuildOn, ReadsAreDated, IndexIsDated, Known
    <3> QED
      BY <3>1, <3>2, <3>3 DEF Reads
  <2> QED
    BY <2>1, <2>2
<1>4. \A r \in Rows : IndexIsDated(r)'
  BY <1>1 DEF UpdatesInv, IndexIsDated
<1>5. \A v \in Units : WritesAreHeld(v)'
  BY <1>2 DEF UpdatesInv, WritesAreHeld
<1>6. OneWriter'
  BY <1>1, <1>2 DEF UpdatesInv, OneWriter
<1>7. UpdatesAreKept'
  BY <1>1, <1>2 DEF UpdatesAreKept
<1> QED
  BY <1>3, <1>4, <1>5, <1>6, <1>7 DEF UpdatesInv

LEMMA DropsKeepUpdates ==
  ASSUME TypeOK, UpdatesInv, UpdatesAreKept, NEW u \in Units, Drops(u)
  PROVE  UpdatesInv' /\ UpdatesAreKept'
<1>1. /\ \A v \in Units \ {u} : uow'[v] = uow[v]
      /\ uow'[u].pc # "committed" /\ uow'[u].added = {}
      /\ \A r \in Rows : uow'[u].staged[r] = Absent /\ uow'[u].seen[r] = 0 /\ uow'[u].saves[r] = 0
      /\ store' = store /\ table' = table /\ index' = index
  BY DEF Drops, Alone
<1>2. Writes(u)' = {} /\ Wrote(u)' = {}
  BY <1>1 DEF Writes, Present, Absent, Wrote
<1>3. \A v \in Units \ {u} : Writes(v)' = Writes(v) /\ Wrote(v)' = Wrote(v)
  BY <1>1 DEF Writes, Present, Wrote
<1>4. ASSUME NEW v \in Units, NEW r \in Rows
      PROVE  WritesBuildOn(v, r)' /\ ReadsAreDated(v, r)'
  <2>1. CASE v # u
    BY <2>1, <1>1, <1>3 DEF UpdatesInv, WritesBuildOn, ReadsAreDated, Current, Known
  <2>2. CASE v = u
    BY <2>2, <1>1, <1>2 DEF WritesBuildOn, ReadsAreDated, Known
  <2> QED
    BY <2>1, <2>2
<1>5. \A r \in Rows : IndexIsDated(r)'
  BY <1>1 DEF UpdatesInv, IndexIsDated
<1>6. \A v \in Units : WritesAreHeld(v)'
  BY <1>1, <1>2, <1>3 DEF UpdatesInv, WritesAreHeld
<1>7. OneWriter'
  BY <1>1, <1>2, <1>3 DEF UpdatesInv, OneWriter
<1>8. UpdatesAreKept'
  BY <1>1, <1>3 DEF UpdatesAreKept
<1> QED
  BY <1>4, <1>5, <1>6, <1>7, <1>8 DEF UpdatesInv

\* What writing one row leaves alone.
LEMMA WritingFacts ==
  ASSUME TypeOK, UpdatesInv, NEW u \in Units, NEW r \in Rows, Writing(u, r)
  PROVE  /\ store' = store /\ table' = table /\ index' = index
         /\ uow[u].pc = "open" /\ uow'[u].pc = "open"
         /\ \A v \in Units \ {u} : /\ uow'[v] = uow[v]
                                   /\ Writes(v)' = Writes(v) /\ Wrote(v)' = Wrote(v)
         /\ Writes(u)' = Writes(u) \cup {r}
         /\ OneWriter'
<1>1. /\ store' = store /\ table' = table /\ index' = index
      /\ uow[u].pc = "open" /\ uow'[u].pc = "open"
      /\ \A v \in Units \ {u} : uow'[v] = uow[v]
  BY DEF Writing, Alone
<1>2. \A v \in Units \ {u} : Writes(v)' = Writes(v) /\ Wrote(v)' = Wrote(v)
  BY <1>1 DEF Writes, Present, Wrote
<1>3. Writes(u)' = Writes(u) \cup {r}
  BY DEF Writing, Writes
<1>4. OneWriter'
  BY <1>1, <1>2 DEF OneWriter, Writing, Writer
<1> QED
  BY <1>1, <1>2, <1>3, <1>4

\* It is enough to look at the row written.
LEMMA WritingKeepsUpdates ==
  ASSUME TypeOK, UpdatesInv, UpdatesAreKept, NEW u \in Units, NEW r \in Rows, Writing(u, r),
         WritesBuildOn(u, r)', uow'[u].added \subseteq uow[u].added \cup {r}
  PROVE  UpdatesInv' /\ UpdatesAreKept'
<1>1. /\ store' = store /\ table' = table /\ index' = index
      /\ uow[u].pc = "open" /\ uow'[u].pc = "open"
      /\ \A v \in Units \ {u} : /\ uow'[v] = uow[v]
                                /\ Writes(v)' = Writes(v) /\ Wrote(v)' = Wrote(v)
      /\ Writes(u)' = Writes(u) \cup {r}
      /\ OneWriter'
  BY WritingFacts
<1>2. \A q \in Rows \ {r} : /\ uow'[u].staged[q] = uow[u].staged[q]
                            /\ uow'[u].seen[q] = uow[u].seen[q]
                            /\ uow'[u].held[q] = uow[u].held[q]
                            /\ uow'[u].saves[q] = uow[u].saves[q]
  BY DEF Writing
<1>3. ASSUME NEW v \in Units, NEW q \in Rows
      PROVE  WritesBuildOn(v, q)' /\ ReadsAreDated(v, q)'
  <2>1. CASE v # u
    BY <2>1, <1>1 DEF UpdatesInv, WritesBuildOn, ReadsAreDated, Current, Known
  <2>2. CASE v = u /\ q # r
    BY <2>2, <1>1, <1>2 DEF UpdatesInv, WritesBuildOn, ReadsAreDated, Current, Known
  <2>3. CASE v = u /\ q = r
    BY <2>3, <1>1 DEF ReadsAreDated
  <2> QED
    BY <2>1, <2>2, <2>3
<1>4. \A q \in Rows : IndexIsDated(q)'
  BY <1>1 DEF UpdatesInv, IndexIsDated
<1>5. ASSUME NEW v \in Units
      PROVE  WritesAreHeld(v)'
  <2>1. CASE v # u
    BY <2>1, <1>1 DEF UpdatesInv, WritesAreHeld
  <2>2. CASE v = u
    <3>1. Wrote(u)' \subseteq Wrote(u) \cup {r}
      BY <1>2 DEF Wrote
    <3> QED
      BY <2>2, <3>1, <1>1 DEF UpdatesInv, WritesAreHeld
  <2> QED
    BY <2>1, <2>2
<1>6. UpdatesAreKept'
  BY <1>1 DEF UpdatesAreKept
<1> QED
  BY <1>1, <1>3, <1>4, <1>5, <1>6 DEF UpdatesInv

LEMMA AddsKeepUpdates ==
  ASSUME TypeOK, UpdatesInv, UpdatesAreKept,
         NEW u \in Units, NEW r \in Rows, NEW k \in Keys \cup {NoKey}, Adds(u, r, k)
  PROVE  UpdatesInv' /\ UpdatesAreKept'
<1>1. /\ Writing(u, r) /\ ~Present(table[r])
      /\ uow'[u].staged[r] = [changes |-> {u}, version |-> 1, key |-> k]
      /\ uow'[u].added = uow[u].added \cup {r}
  BY DEF Adds, MayAdd
<1>2. table' = table /\ store' = store /\ uow'[u].pc = "open"
  BY <1>1, WritingFacts
<1>3. table[r].version = 0 /\ table[r].changes = {}
  <2>1. table[r] \in Stored /\ table[r].version \in Nat
    BY StoredFields DEF TypeOK
  <2> QED
    BY <1>1, <2>1, StoredFields DEF Present, Absent
<1>4. WritesBuildOn(u, r)'
  BY <1>1, <1>2, <1>3 DEF WritesBuildOn, Current
<1> QED
  BY <1>1, <1>4, WritingKeepsUpdates

LEMMA SavesKeepUpdates ==
  ASSUME TypeOK, UpdatesInv, UpdatesAreKept, NEW u \in Units, NEW r \in Rows, Saves(u, r)
  PROVE  UpdatesInv' /\ UpdatesAreKept'
<1> DEFINE version == uow'[u].staged[r].version
<1>1. /\ Writing(u, r) /\ Known(u, r) /\ SavedVersion(u, r, version)
      /\ uow'[u].staged[r].changes = uow[u].held[r] \cup {u}
      /\ uow'[u].held[r] = uow[u].held[r]
      /\ uow'[u].added = uow[u].added
  BY DEF Saves
<1>2. table' = table /\ store' = store /\ uow'[u].pc = "open"
  BY <1>1, WritingFacts
<1>3. /\ table[r].version \in Nat /\ uow[u].seen[r] \in Nat /\ uow[u].staged[r].version \in Nat
      /\ table[r].version = 0 => table[r].changes = {}
  <2>1. table[r] \in Stored /\ uow[u].staged[r] \in Stored
    BY SessionFields DEF TypeOK
  <2> QED
    BY <2>1, StoredFields, SessionFields DEF Absent
<1>4. WritesBuildOn(u, r) /\ ReadsAreDated(u, r)
  BY DEF UpdatesInv
<1> HIDE DEF version
<1>5. CASE store = "dynamodb"
  <2>1. version = DynamoVersion(u, r)
    BY <1>1, <1>5 DEF SavedVersion
  <2>2. WritesBuildOn(u, r)'
    BY <1>1, <1>2, <1>3, <1>4, <1>5, <2>1 DEF WritesBuildOn, ReadsAreDated, Current, DynamoVersion, version
  <2> QED
    BY <1>1, <2>2, WritingKeepsUpdates
<1>6. CASE store # "dynamodb"
  <2>1. version = uow[u].seen[r] + 1 /\ (MemoryMaySave(u, r) \/ SqlMatches(u, r))
    BY <1>1, <1>6 DEF SavedVersion
  <2>2. version > table[r].version /\ table[r].changes \subseteq uow[u].held[r]
    <3>1. CASE r \in Writes(u)
      <4>1. /\ uow[u].staged[r].version > table[r].version
            /\ table[r].changes \subseteq uow[u].held[r]
        BY <3>1, <1>4, <1>6 DEF WritesBuildOn, Current
      <4> QED
        BY <3>1, <4>1, <2>1, <1>3 DEF MemoryMaySave, SqlMatches, View
    <3>2. CASE r \notin Writes(u)
      <4>1. table[r].version \in {0, uow[u].seen[r]}
        BY <3>2, <2>1 DEF MemoryMaySave, SqlMatches, View
      <4> QED
        BY <3>2, <4>1, <2>1, <1>1, <1>3, <1>4 DEF ReadsAreDated
    <3> QED
      BY <3>1, <3>2
  <2>3. WritesBuildOn(u, r)'
    BY <2>2, <1>1, <1>2, <1>6 DEF WritesBuildOn, Current, version
  <2> QED
    BY <1>1, <2>3, WritingKeepsUpdates
<1> QED
  BY <1>5, <1>6

\* What a commit makes of a row it writes, and of one it does not.
LEMMA CommitFacts ==
  ASSUME TypeOK, UpdatesInv, NEW u \in Units, Commits(u), NEW r \in Rows
  PROVE  /\ table[r].version \in Nat
         /\ r \notin Writes(u) => table'[r] = table[r]
         /\ r \in Writes(u) =>
              /\ table'[r] = uow[u].staged[r]
              /\ table'[r].version \in Nat
              /\ table'[r].version > table[r].version
              /\ table[r].changes \subseteq table'[r].changes
              /\ u \in table'[r].changes
              /\ store = "dynamodb" => table'[r].version = table[r].version + 1
<1>1. table'[r] = View(u, r) /\ (store = "dynamodb" => DynamoAccepts(u))
  BY DEF Commits, Merged
<1>2. table[r].version \in Nat /\ uow[u].staged[r].version \in Nat
  <2>1. table[r] \in Stored /\ uow[u].staged[r] \in Stored
    BY SessionFields DEF TypeOK
  <2> QED
    BY <2>1, StoredFields
<1>3. WritesBuildOn(u, r)
  BY DEF UpdatesInv
<1>4. ASSUME r \in Writes(u)
      PROVE  Current(u, r)
  <2>1. CASE store = "dynamodb"
    <3>1. table[r].version = uow[u].staged[r].version - 1
      BY <1>1, <1>4, <2>1 DEF DynamoAccepts
    <3> QED
      BY <3>1, <1>2 DEF Current
  <2> QED
    BY <2>1 DEF Current
<1> QED
  BY <1>1, <1>2, <1>3, <1>4 DEF View, WritesBuildOn, Current

LEMMA CommitsKeepUpdates ==
  ASSUME TypeOK, UpdatesInv, UpdatesAreKept, NEW u \in Units, Commits(u)
  PROVE  UpdatesInv' /\ UpdatesAreKept'
<1>1. /\ \A v \in Units \ {u} : uow'[v] = uow[v]
      /\ store' = store /\ index' = index /\ table' = Merged(u)
      /\ uow[u].pc = "open" /\ uow'[u].pc # "open"
      /\ uow'[u].added = uow[u].added /\ uow'[u].saves = uow[u].saves
      /\ \A r \in Rows : uow'[u].staged[r] = Absent /\ uow'[u].seen[r] = 0
      /\ store = "dynamodb" => DynamoAccepts(u)
  BY DEF Commits
<1>2. Writes(u)' = {} /\ Wrote(u)' = Wrote(u)
  BY <1>1 DEF Writes, Present, Absent, Wrote
<1>3. \A v \in Units \ {u} : Writes(v)' = Writes(v) /\ Wrote(v)' = Wrote(v)
  BY <1>1 DEF Writes, Present, Wrote
<1>4. \A r \in Rows : /\ r \notin Writes(u) => table'[r] = table[r]
                      /\ r \in Writes(u) => table'[r] = uow[u].staged[r]
  BY <1>1 DEF Merged, View
<1>5. ASSUME NEW r \in Rows
      PROVE  /\ table[r].version \in Nat /\ index[r].version \in Nat
             /\ \A v \in Units : uow[v].seen[r] \in Nat /\ uow[v].staged[r].version \in Nat
  <2>1. table[r] \in Stored /\ index[r] \in Stored /\ \A v \in Units : uow[v].staged[r] \in Stored
    BY SessionFields DEF TypeOK
  <2> QED
    BY <2>1, StoredFields, SessionFields
<1>6. ASSUME NEW r \in Writes(u)
      PROVE  /\ r \in Rows
             /\ uow[u].staged[r].version > table[r].version
             /\ table[r].changes \subseteq uow[u].staged[r].changes
             /\ u \in uow[u].staged[r].changes
             /\ store = "dynamodb" => uow[u].staged[r].version = table[r].version + 1
  <2>1. r \in Rows
    BY DEF Writes
  <2> QED
    BY <2>1, CommitFacts
<1>7. ASSUME NEW v \in Units, NEW r \in Rows
      PROVE  WritesBuildOn(v, r)' /\ ReadsAreDated(v, r)'
  <2>1. CASE v = u
    BY <2>1, <1>1, <1>2 DEF WritesBuildOn, ReadsAreDated, Known
  <2>2. CASE v # u /\ r \notin Writes(u)
    BY <2>2, <1>1, <1>3, <1>4 DEF UpdatesInv, WritesBuildOn, ReadsAreDated, Current, Known
  <2>3. CASE v # u /\ r \in Writes(u)
    <3>1. table'[r].version > table[r].version
      BY <2>3, <1>4, <1>6
    <3>2. WritesBuildOn(v, r)'
      <4>1. CASE store = "dynamodb"
        <5>1. r \in Writes(v) => /\ uow[v].pc = "open" /\ v \in uow[v].staged[r].changes
                                 /\ uow[v].staged[r].version <= table[r].version + 1
          BY <4>1 DEF UpdatesInv, WritesBuildOn
        <5>2. table'[r].version = table[r].version + 1
          BY <4>1, <2>3, <1>4, <1>6
        <5>3. r \in Writes(v) => /\ uow[v].staged[r].version <= table'[r].version + 1
                                 /\ uow[v].staged[r].version # table'[r].version + 1
          BY <5>1, <5>2, <1>5
        <5> QED
          BY <5>1, <5>3, <4>1, <2>3, <1>1, <1>3 DEF WritesBuildOn, Current
      <4>2. CASE store # "dynamodb"
        <5>1. Writes(v) = {}
          BY <4>2, <2>3 DEF UpdatesInv, OneWriter
        <5> QED
          BY <5>1, <2>3, <1>3 DEF WritesBuildOn
      <4> QED
        BY <4>1, <4>2
    <3>3. ReadsAreDated(v, r)'
      <4>1. table'[r].version \in Nat
        BY <2>3, <1>4, <1>5
      <4> QED
        BY <3>1, <4>1, <2>3, <1>1, <1>3, <1>5 DEF UpdatesInv, ReadsAreDated, Known
    <3> QED
      BY <3>2, <3>3
  <2> QED
    BY <2>1, <2>2, <2>3
<1>8. ASSUME NEW r \in Rows
      PROVE  IndexIsDated(r)'
  <2>1. CASE r \notin Writes(u)
    BY <2>1, <1>1, <1>4 DEF UpdatesInv, IndexIsDated
  <2>2. CASE r \in Writes(u)
    BY <2>2, <1>1, <1>4, <1>5, <1>6 DEF UpdatesInv, IndexIsDated
  <2> QED
    BY <2>1, <2>2
<1>9. \A v \in Units : WritesAreHeld(v)'
  BY <1>1, <1>3 DEF UpdatesInv, WritesAreHeld
<1>10. OneWriter'
  BY <1>1, <1>2, <1>3 DEF UpdatesInv, OneWriter
<1>11. UpdatesAreKept'
  <2> SUFFICES ASSUME NEW v \in Units, uow'[v].pc = "committed", NEW r \in Wrote(v)'
               PROVE  v \in table'[r].changes
    BY DEF UpdatesAreKept
  <2>1. r \in Wrote(v)
    BY <1>2, <1>3
  <2>2. r \in Rows
    BY <2>1, SessionFields DEF Wrote
  <2>3. CASE v = u
    BY <2>1, <2>2, <2>3, <1>1, <1>4, <1>6 DEF UpdatesInv, WritesAreHeld
  <2>4. CASE v # u
    <3>1. v \in table[r].changes
      BY <2>1, <2>4, <1>1 DEF UpdatesAreKept
    <3> QED
      BY <3>1, <2>2, <1>4, <1>6
  <2> QED
    BY <2>3, <2>4
<1> QED
  BY <1>7, <1>8, <1>9, <1>10, <1>11 DEF UpdatesInv

LEMMA IndexKeepsUpdates ==
  ASSUME TypeOK, UpdatesInv, UpdatesAreKept, NEW r \in Rows, IndexCatchesUp(r)
  PROVE  UpdatesInv' /\ UpdatesAreKept'
<1>1. store' = store /\ table' = table /\ uow' = uow /\ index' = [index EXCEPT ![r] = table[r]]
  BY DEF IndexCatchesUp
<1>2. \A v \in Units : Writes(v)' = Writes(v) /\ Wrote(v)' = Wrote(v)
  BY <1>1 DEF Writes, Wrote
<1>3. \A v \in Units, q \in Rows : WritesBuildOn(v, q)' /\ ReadsAreDated(v, q)'
  BY <1>1, <1>2 DEF UpdatesInv, WritesBuildOn, ReadsAreDated, Current, Known
<1>4. ASSUME NEW q \in Rows
      PROVE  IndexIsDated(q)'
  <2>1. table[q].version \in Nat
    BY StoredFields DEF TypeOK
  <2>2. index'[q] = IF q = r THEN table[r] ELSE index[q]
    BY <1>1 DEF TypeOK
  <2> QED
    BY <2>1, <2>2, <1>1 DEF UpdatesInv, IndexIsDated
<1>5. (\A v \in Units : WritesAreHeld(v)') /\ OneWriter' /\ UpdatesAreKept'
  BY <1>1, <1>2 DEF UpdatesInv, WritesAreHeld, OneWriter, UpdatesAreKept
<1> QED
  BY <1>3, <1>4, <1>5 DEF UpdatesInv

LEMMA UpdatesInit == Init => UpdatesInv /\ UpdatesAreKept
<1> SUFFICES ASSUME Init PROVE UpdatesInv /\ UpdatesAreKept
  OBVIOUS
<1>1. /\ \A u \in Units : uow[u] = Opened
      /\ index = table /\ TypeOK
  BY StoresInit DEF Init
<1>2. \A u \in Units : Writes(u) = {} /\ Wrote(u) = {}
  BY <1>1 DEF Writes, Present, Wrote, Opened, Absent
<1>3. \A u \in Units, r \in Rows : WritesBuildOn(u, r) /\ ReadsAreDated(u, r)
  <2>1. \A r \in Rows : Opened.seen[r] = 0
    BY DEF Opened
  <2> QED
    BY <1>1, <1>2, <2>1 DEF WritesBuildOn, ReadsAreDated, Known
<1>4. ASSUME NEW r \in Rows
      PROVE  IndexIsDated(r)
  <2>1. table[r].version \in Nat
    BY <1>1, StoredFields DEF TypeOK
  <2>2. index[r].version = table[r].version /\ index[r].changes = table[r].changes
    BY <1>1, Zenon
  <2>3. index[r].version <= table[r].version
    BY <2>1, <2>2
  <2> QED
    BY <2>2, <2>3 DEF IndexIsDated
<1>5. UpdatesAreKept
  BY <1>2 DEF UpdatesAreKept
<1> QED
  BY <1>2, <1>3, <1>4, <1>5 DEF UpdatesInv, WritesAreHeld, OneWriter

LEMMA UpdatesStep ==
  ASSUME NoThreads, TypeOK, UpdatesInv, UpdatesAreKept, [Next]_vars
  PROVE  UpdatesInv' /\ UpdatesAreKept'
<1>1. ASSUME NEW u \in Units, Kind(u)
      PROVE  UpdatesInv' /\ UpdatesAreKept'
  BY <1>1, ReadsKeepUpdates, DropsKeepUpdates, CommitsKeepUpdates, SavesKeepUpdates,
     AddsKeepUpdates DEF Kind
<1>2. ASSUME NEW r \in Rows, IndexCatchesUp(r)
      PROVE  UpdatesInv' /\ UpdatesAreKept'
  BY <1>2, IndexKeepsUpdates
<1>3. CASE UNCHANGED vars
  BY <1>3 DEF vars, UpdatesInv, UpdatesAreKept, WritesBuildOn, ReadsAreDated, IndexIsDated,
     WritesAreHeld, OneWriter, Current, Known, Writes, Wrote
<1> QED
  BY <1>1, <1>2, <1>3, StepKinds

\* What every unit of work that was committed has written is there for good,
\* in each of the stores, if the in-memory one is used by one thread at a time.
THEOREM NoUpdateIsLost ==
  ASSUME NoThreads
  PROVE  Spec => []UpdatesAreKept
<1>1. TypeOK /\ UpdatesInv /\ UpdatesAreKept /\ [Next]_vars => UpdatesInv' /\ UpdatesAreKept'
  BY UpdatesStep
<1> QED
  BY <1>1, UpdatesInit, StoresTypeCorrect, PTL DEF Spec

----------------------------------------------------------------------------
(* No two rows have one key *)

LEMMA ReadsKeepKeys ==
  ASSUME TypeOK, KeysInv, KeysAreUnique, NEW u \in Units, Reads(u)
  PROVE  KeysInv' /\ KeysAreUnique'
<1>1. /\ \A v \in Units : /\ Writes(v)' = Writes(v)
                          /\ uow'[v].staged = uow[v].staged /\ uow'[v].added = uow[v].added
      /\ store' = store /\ table' = table
  BY DEF Reads, Alone, Writes, Present
<1> QED
  BY <1>1 DEF KeysInv, KeyIsKept, KeyIsFree, KeysAreUnique, Present

LEMMA DropsKeepKeys ==
  ASSUME TypeOK, KeysInv, KeysAreUnique, NEW u \in Units, Drops(u)
  PROVE  KeysInv' /\ KeysAreUnique'
<1>1. /\ \A v \in Units \ {u} : uow'[v] = uow[v] /\ Writes(v)' = Writes(v)
      /\ store' = store /\ table' = table
  BY DEF Drops, Alone, Writes, Present
<1>2. Writes(u)' = {}
  BY DEF Drops, Writes, Present, Absent
<1>3. ASSUME NEW v \in Units, NEW r \in Rows
      PROVE  KeyIsKept(v, r)' /\ KeyIsFree(v, r)'
  <2>1. CASE v = u
    BY <2>1, <1>2 DEF KeyIsKept, KeyIsFree
  <2>2. CASE v # u
    BY <2>2, <1>1 DEF KeysInv, KeyIsKept, KeyIsFree, Present
  <2> QED
    BY <2>1, <2>2
<1>4. KeysAreUnique'
  BY <1>1 DEF KeysAreUnique
<1> QED
  BY <1>3, <1>4 DEF KeysInv

LEMMA AddsKeepKeys ==
  ASSUME TypeOK, UpdatesInv, KeysInv, KeysAreUnique,
         NEW u \in Units, NEW r \in Rows, NEW k \in Keys \cup {NoKey}, Adds(u, r, k)
  PROVE  KeysInv' /\ KeysAreUnique'
<1>1. /\ Writing(u, r) /\ MayAdd(u, r, k) /\ (store # "dynamodb" => ~KeyTaken(u, k))
      /\ uow'[u].staged[r].version = 1 /\ uow'[u].staged[r].key = k
      /\ uow'[u].added = uow[u].added \cup {r}
  BY DEF Adds
<1>2. /\ store' = store /\ table' = table
      /\ \A v \in Units \ {u} : uow'[v] = uow[v] /\ Writes(v)' = Writes(v)
      /\ Writes(u)' = Writes(u) \cup {r}
  BY <1>1, WritingFacts
<1>3. \A q \in Rows \ {r} : uow'[u].staged[q] = uow[u].staged[q]
  BY <1>1 DEF Writing
<1>4. ~Present(table[r]) /\ r \notin uow[u].added /\ MayUse(u, k)
  BY <1>1 DEF MayAdd
<1>5. ASSUME NEW v \in Units, NEW q \in Rows
      PROVE  KeyIsKept(v, q)'
  <2>1. CASE v # u
    BY <2>1, <1>2 DEF KeysInv, KeyIsKept, Present
  <2>2. CASE v = u /\ q # r
    BY <2>2, <1>1, <1>2, <1>3 DEF KeysInv, KeyIsKept, Present
  <2>3. CASE v = u /\ q = r
    BY <2>3, <1>1, <1>2, <1>4 DEF KeyIsKept, Present
  <2> QED
    BY <2>1, <2>2, <2>3
<1>6. ASSUME NEW q \in Rows \ {r}
      PROVE  /\ q \in Writes(u) \cap uow[u].added /\ uow[u].staged[q].key = k => k = NoKey
             /\ store # "dynamodb" /\ table[q].key = k => k = NoKey
  <2>1. q \in Writes(u) \cap uow[u].added /\ uow[u].staged[q].key = k => k = NoKey
    BY <1>4 DEF MayUse
  <2>2. ASSUME store # "dynamodb", table[q].key = k
        PROVE  k = NoKey
    <3>1. CASE q \notin Writes(u)
      BY <3>1, <1>1, <2>2 DEF KeyTaken, View
    <3>2. CASE q \in Writes(u) /\ q \notin uow[u].added
      BY <3>2, <1>1, <2>2 DEF KeyTaken, View, KeysInv, KeyIsKept
    <3>3. CASE q \in Writes(u) /\ q \in uow[u].added
      <4>1. ~Present(table[q])
        BY <3>3, <2>2 DEF KeysInv, KeyIsKept
      <4>2. table[q] \in Stored /\ table[q].version \in Nat
        BY StoredFields DEF TypeOK
      <4> QED
        BY <4>1, <4>2, <2>2, StoredFields DEF Present, Absent
    <3> QED
      BY <3>1, <3>2, <3>3
  <2> QED
    BY <2>1, <2>2
<1>7. ASSUME NEW v \in Units, NEW q \in Rows
      PROVE  KeyIsFree(v, q)'
  <2>1. CASE v # u
    BY <2>1, <1>2 DEF KeysInv, KeyIsFree
  <2>2. CASE v = u /\ q # r
    <3>1. KeyIsFree(u, q)
      BY DEF KeysInv
    <3>2. uow'[u].staged[q] = uow[u].staged[q]
      BY <2>2, <1>3
    <3>3. q \in Writes(u)' \cap uow'[u].added => q \in Writes(u) \cap uow[u].added
      BY <2>2, <1>1, <1>2
    <3> QED
      BY <2>2, <3>1, <3>2, <3>3, <1>1, <1>2, <1>3, <1>6 DEF KeyIsFree
  <2>3. CASE v = u /\ q = r
    BY <2>3, <1>1, <1>2, <1>3, <1>6 DEF KeyIsFree
  <2> QED
    BY <2>1, <2>2, <2>3
<1>8. KeysAreUnique'
  BY <1>2 DEF KeysAreUnique
<1> QED
  BY <1>5, <1>7, <1>8 DEF KeysInv

LEMMA SavesKeepKeys ==
  ASSUME TypeOK, UpdatesInv, KeysInv, KeysAreUnique, NEW u \in Units, NEW r \in Rows, Saves(u, r)
  PROVE  KeysInv' /\ KeysAreUnique'
<1>1. /\ Writing(u, r) /\ Known(u, r) /\ uow'[u].added = uow[u].added
      /\ uow'[u].staged[r].key = View(u, r).key
      /\ SavedVersion(u, r, uow'[u].staged[r].version)
  BY DEF Saves
<1>2. /\ store' = store /\ table' = table
      /\ \A v \in Units \ {u} : uow'[v] = uow[v] /\ Writes(v)' = Writes(v)
      /\ Writes(u)' = Writes(u) \cup {r}
      /\ uow[u].pc = "open"
  BY <1>1, WritingFacts
<1>3. \A q \in Rows \ {r} : uow'[u].staged[q] = uow[u].staged[q]
  BY <1>1 DEF Writing
<1>4. r \in uow[u].added => r \in Writes(u)
  BY <1>2 DEF UpdatesInv, WritesAreHeld, Wrote
<1>5. KeyIsKept(u, r)'
  <2>1. CASE r \in Writes(u)
    <3>1. KeyIsKept(u, r)
      BY DEF KeysInv
    <3>2. store = "dynamodb" => uow'[u].staged[r].version = uow[u].staged[r].version
      BY <2>1, <1>1 DEF SavedVersion, DynamoVersion
    <3> QED
      BY <2>1, <3>1, <3>2, <1>1, <1>2 DEF KeyIsKept, View, Present
  <2>2. CASE r \notin Writes(u)
    <3>1. uow[u].seen[r] <= table[r].version /\ uow[u].seen[r] # 0
      BY <2>2, <1>1 DEF UpdatesInv, ReadsAreDated, Known
    <3>2. uow[u].seen[r] \in Nat /\ table[r].version \in Nat
      BY SessionFields, StoredFields DEF TypeOK
    <3>3. Present(table[r])
      BY <3>1, <3>2 DEF Present
    <3> QED
      BY <2>2, <3>3, <1>1, <1>2, <1>4 DEF KeyIsKept, View, Present
  <2> QED
    BY <2>1, <2>2
<1>6. ASSUME NEW v \in Units, NEW q \in Rows
      PROVE  KeyIsKept(v, q)'
  <2>1. CASE v # u
    BY <2>1, <1>2 DEF KeysInv, KeyIsKept, Present
  <2>2. CASE v = u /\ q # r
    BY <2>2, <1>1, <1>2, <1>3 DEF KeysInv, KeyIsKept, Present
  <2> QED
    BY <2>1, <2>2, <1>5
<1>7. \A q \in Rows : q \in Writes(u)' \cap uow'[u].added =>
                        q \in Writes(u) \cap uow[u].added /\ uow'[u].staged[q].key = uow[u].staged[q].key
  BY <1>1, <1>2, <1>3, <1>4 DEF View
<1>8. ASSUME NEW v \in Units, NEW q \in Rows
      PROVE  KeyIsFree(v, q)'
  <2>1. CASE v # u
    BY <2>1, <1>2 DEF KeysInv, KeyIsFree
  <2>2. CASE v = u
    BY <2>2, <1>2, <1>7 DEF KeysInv, KeyIsFree
  <2> QED
    BY <2>1, <2>2
<1>9. KeysAreUnique'
  BY <1>2 DEF KeysAreUnique
<1> QED
  BY <1>6, <1>8, <1>9 DEF KeysInv

LEMMA CommitsKeepKeys ==
  ASSUME TypeOK, UpdatesInv, KeysInv, KeysAreUnique, NEW u \in Units, Commits(u)
  PROVE  KeysInv' /\ KeysAreUnique'
<1>1. /\ \A v \in Units \ {u} : uow'[v] = uow[v] /\ Writes(v)' = Writes(v)
      /\ store' = store
      /\ store = "dynamodb" => DynamoAccepts(u)
  BY DEF Commits, Writes, Present
<1>2. Writes(u)' = {}
  BY DEF Commits, Writes, Present, Absent
<1>3. \A r \in Rows : /\ r \notin Writes(u) => table'[r] = table[r]
                      /\ r \in Writes(u) => table'[r] = uow[u].staged[r]
  BY DEF Commits, Merged, View
<1>4. \A r \in Rows : /\ r \in Writes(u) => Present(table'[r])
                      /\ Present(table[r]) => Present(table'[r])
  BY <1>3 DEF Writes
<1>5. \A r \in Rows : r \notin Writes(u) \cap uow[u].added => table'[r].key = table[r].key
  BY <1>3 DEF KeysInv, KeyIsKept
\* A row that is there already is not added again.
<1>6. \A r \in Writes(u) \cap uow[u].added : ~Present(table[r])
  <2> SUFFICES ASSUME NEW r \in Writes(u) \cap uow[u].added
               PROVE  ~Present(table[r])
    OBVIOUS
  <2>1. r \in Rows /\ KeyIsKept(u, r)
    BY DEF KeysInv, Writes
  <2>2. table[r].version \in Nat
    BY <2>1, StoredFields DEF TypeOK
  <2> QED
    BY <2>1, <2>2, <1>1 DEF KeyIsKept, DynamoAccepts, Present
<1>7. ASSUME NEW r \in Writes(u) \cap uow[u].added, NEW q \in Rows \ {r},
             table'[q].key = table'[r].key
      PROVE  table'[r].key = NoKey
  <2>1. r \in Rows /\ table'[r].key = uow[u].staged[r].key /\ KeyIsFree(u, r)
    BY <1>3 DEF Writes, KeysInv
  <2>2. CASE q \in Writes(u) \cap uow[u].added
    BY <2>1, <2>2, <1>3, <1>7 DEF KeyIsFree
  <2>3. CASE q \notin Writes(u) \cap uow[u].added
    <3>1. table[q].key = uow[u].staged[r].key
      BY <2>1, <2>3, <1>5, <1>7
    <3>2. CASE store = "dynamodb"
      BY <2>1, <3>1, <3>2, <1>1 DEF DynamoAccepts
    <3>3. CASE store # "dynamodb"
      BY <2>1, <3>1, <3>3 DEF KeyIsFree
    <3> QED
      BY <3>2, <3>3
  <2> QED
    BY <2>2, <2>3
<1>8. KeysAreUnique'
  <2> SUFFICES ASSUME NEW q \in Rows, NEW r \in Rows, q # r, table'[q].key = table'[r].key
               PROVE  table'[q].key = NoKey
    BY DEF KeysAreUnique
  <2>1. CASE r \in Writes(u) \cap uow[u].added
    BY <2>1, <1>7
  <2>2. CASE q \in Writes(u) \cap uow[u].added
    BY <2>2, <1>7
  <2>3. CASE q \notin Writes(u) \cap uow[u].added /\ r \notin Writes(u) \cap uow[u].added
    BY <2>3, <1>5 DEF KeysAreUnique
  <2> QED
    BY <2>1, <2>2, <2>3
<1>9. ASSUME NEW v \in Units, NEW r \in Rows
      PROVE  KeyIsKept(v, r)' /\ KeyIsFree(v, r)'
  <2>1. CASE v = u
    BY <2>1, <1>2 DEF KeyIsKept, KeyIsFree
  <2>2. CASE v # u /\ store # "dynamodb"
    <3>1. CASE Writes(v) = {}
      BY <2>2, <3>1, <1>1 DEF KeyIsKept, KeyIsFree
    <3>2. CASE Writes(u) = {}
      <4>1. \A q \in Rows : table'[q] = table[q]
        BY <3>2, <1>3
      <4> QED
        BY <2>2, <4>1, <1>1 DEF KeysInv, KeyIsKept, KeyIsFree, Present
    <3> QED
      BY <2>2, <3>1, <3>2 DEF UpdatesInv, OneWriter
  <2>3. CASE v # u /\ store = "dynamodb"
    <3>1. KeyIsKept(v, r)'
      <4>1. Present(table[r]) => Present(table'[r]) /\ table'[r].key = table[r].key
        BY <1>4, <1>5, <1>6
      <4> QED
        BY <2>3, <4>1, <1>1 DEF KeysInv, KeyIsKept
    <3>2. KeyIsFree(v, r)'
      BY <2>3, <1>1 DEF KeysInv, KeyIsFree
    <3> QED
      BY <3>1, <3>2
  <2> QED
    BY <2>1, <2>2, <2>3
<1> QED
  BY <1>8, <1>9 DEF KeysInv

LEMMA KeysInit == Init => KeysInv /\ KeysAreUnique
<1> SUFFICES ASSUME Init PROVE KeysInv /\ KeysAreUnique
  OBVIOUS
<1>1. \A u \in Units : uow[u] = Opened
  BY DEF Init
<1>2. \A u \in Units : Writes(u) = {}
  BY <1>1 DEF Writes, Present, Opened, Absent
<1>3. \A r \in Rows : table[r].key = NoKey
  BY DEF Init, Absent
<1> QED
  BY <1>2, <1>3 DEF KeysInv, KeyIsKept, KeyIsFree, KeysAreUnique

LEMMA KeysStep ==
  ASSUME NoThreads, TypeOK, UpdatesInv, KeysInv, KeysAreUnique, [Next]_vars
  PROVE  KeysInv' /\ KeysAreUnique'
<1>1. ASSUME NEW u \in Units, Kind(u)
      PROVE  KeysInv' /\ KeysAreUnique'
  BY <1>1, ReadsKeepKeys, DropsKeepKeys, CommitsKeepKeys, SavesKeepKeys, AddsKeepKeys DEF Kind
<1>2. ASSUME NEW r \in Rows, IndexCatchesUp(r)
      PROVE  KeysInv' /\ KeysAreUnique'
  <2>1. store' = store /\ table' = table /\ uow' = uow
    BY <1>2 DEF IndexCatchesUp
  <2> QED
    BY <2>1 DEF KeysInv, KeyIsKept, KeyIsFree, KeysAreUnique, Writes
<1>3. CASE UNCHANGED vars
  BY <1>3 DEF vars, KeysInv, KeyIsKept, KeyIsFree, KeysAreUnique, Writes
<1> QED
  BY <1>1, <1>2, <1>3, StepKinds

\* An idempotency key is held by at most one row, in each of the stores, if the
\* in-memory one is used by one thread at a time: the last stand against a
\* double charge.
THEOREM OneRowPerKey ==
  ASSUME NoThreads
  PROVE  Spec => []KeysAreUnique
<1>1. /\ TypeOK /\ UpdatesInv /\ UpdatesAreKept /\ KeysInv /\ KeysAreUnique /\ [Next]_vars
      => UpdatesInv' /\ UpdatesAreKept' /\ KeysInv' /\ KeysAreUnique'
  BY UpdatesStep, KeysStep
<1> QED
  BY <1>1, UpdatesInit, KeysInit, StoresTypeCorrect, PTL DEF Spec
=============================================================================
