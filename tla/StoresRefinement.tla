-------------------------- MODULE StoresRefinement --------------------------
(***************************************************************************)
(* Proof that the stores keep the promise of Repository: a unit of work    *)
(* takes effect at its commit, as a whole, on top of what took effect      *)
(* before it.                                                              *)
(***************************************************************************)
EXTENDS StoresProofs

----------------------------------------------------------------------------
(* Effects come of commits only *)

LEMMA OthersKeepEffects ==
  ASSUME TypeOK, EffectsInv, NEW u \in Units,
         Alone(u),
         \A r \in Rows : HoldsWhatIsStored(u, r)'
  PROVE  EffectsInv'
<1>1. /\ table' = table /\ index' = index /\ uow[u].pc = "open"
      /\ \A v \in Units \ {u} : uow'[v] = uow[v]
  BY DEF Alone
<1>2. ASSUME NEW v \in Units, NEW r \in Rows
      PROVE  HoldsWhatIsStored(v, r)'
  BY <1>1 DEF EffectsInv, HoldsWhatIsStored
<1>3. ASSUME NEW r \in Rows
      PROVE  NoEffectYet(r)'
  <2>1. NoEffectYet(r) /\ u \notin table[r].changes
    BY <1>1 DEF EffectsInv, NoEffectYet
  <2>2. ASSUME NEW v \in Units, uow'[v].pc \notin {"committed", "unanswered"}
        PROVE  v \notin table'[r].changes
    BY <2>1, <2>2, <1>1 DEF NoEffectYet
  <2> QED
    BY <2>1, <2>2, <1>1 DEF NoEffectYet
<1> QED
  BY <1>2, <1>3 DEF EffectsInv

LEMMA WritingKeepsEffects ==
  ASSUME TypeOK, EffectsInv, NEW u \in Units, NEW r \in Rows, Writing(u, r),
         HoldsWhatIsStored(u, r)'
  PROVE  EffectsInv'
<1>1. Alone(u) /\ uow[u].pc = "open" /\ table' = table
  BY DEF Writing, Alone
<1>2. ASSUME NEW q \in Rows \ {r}
      PROVE  HoldsWhatIsStored(u, q)'
  BY <1>1 DEF Writing, EffectsInv, HoldsWhatIsStored
<1> QED
  BY <1>1, <1>2, OthersKeepEffects

LEMMA EffectsStep ==
  ASSUME NoThreads, TypeOK, UpdatesInv, EffectsInv, [Next]_vars
  PROVE  EffectsInv'
<1>1. ASSUME NEW u \in Units, Reads(u)
      PROVE  EffectsInv'
  <2>1. Alone(u) /\ uow[u].pc = "open" /\ table' = table /\ uow'[u].staged = uow[u].staged
    BY <1>1 DEF Reads, Alone
  <2>2. ASSUME NEW r \in Rows
        PROVE  HoldsWhatIsStored(u, r)'
    <3>1. View(u, r).changes \subseteq table[r].changes \cup {u}
      BY DEF EffectsInv, HoldsWhatIsStored, View
    <3>2. index[r].changes \subseteq table[r].changes
      BY DEF EffectsInv, NoEffectYet
    <3> QED
      BY <3>1, <3>2, <2>1, <1>1 DEF Reads, EffectsInv, HoldsWhatIsStored
  <2> QED
    BY <2>1, <2>2, OthersKeepEffects
<1>2. ASSUME NEW u \in Units, Drops(u)
      PROVE  EffectsInv'
  <2>1. Alone(u) /\ uow[u].pc = "open" /\ table' = table
    BY <1>2 DEF Drops, Alone
  <2>2. \A r \in Rows : HoldsWhatIsStored(u, r)'
    BY <1>2, <2>1 DEF Drops, HoldsWhatIsStored, Absent
  <2> QED
    BY <2>1, <2>2, OthersKeepEffects
<1>3. ASSUME NEW u \in Units, NEW r \in Rows, Saves(u, r)
      PROVE  EffectsInv'
  <2>1. Writing(u, r) /\ table' = table
    BY <1>3 DEF Saves, Writing, Alone
  <2>2. HoldsWhatIsStored(u, r)'
    BY <1>3, <2>1 DEF Saves, EffectsInv, HoldsWhatIsStored
  <2> QED
    BY <2>1, <2>2, WritingKeepsEffects
<1>4. ASSUME NEW u \in Units, NEW r \in Rows, NEW k \in Keys \cup {NoKey}, Adds(u, r, k)
      PROVE  EffectsInv'
  <2>1. Writing(u, r) /\ HoldsWhatIsStored(u, r)'
    BY <1>4 DEF Adds, HoldsWhatIsStored
  <2> QED
    BY <2>1, WritingKeepsEffects
<1>5. ASSUME NEW u \in Units, Commits(u)
      PROVE  EffectsInv'
  <2>1. /\ \A v \in Units \ {u} : uow'[v] = uow[v]
        /\ index' = index /\ uow'[u].pc \in {"committed", "unanswered"}
        /\ \A r \in Rows : uow'[u].staged[r] = Absent /\ uow'[u].held[r] = {}
    BY <1>5 DEF Commits
  <2>2. ASSUME NEW r \in Rows
        PROVE  /\ table[r].changes \subseteq table'[r].changes
               /\ table'[r].changes \subseteq table[r].changes \cup {u}
    BY <1>5, CommitFacts DEF EffectsInv, HoldsWhatIsStored
  <2>3. ASSUME NEW v \in Units, NEW r \in Rows
        PROVE  HoldsWhatIsStored(v, r)'
    <3>1. CASE v = u
      BY <3>1, <2>1 DEF HoldsWhatIsStored, Absent
    <3>2. CASE v # u
      BY <3>2, <2>1, <2>2 DEF EffectsInv, HoldsWhatIsStored
    <3> QED
      BY <3>1, <3>2
  <2>4. ASSUME NEW r \in Rows
        PROVE  NoEffectYet(r)'
    BY <2>1, <2>2 DEF EffectsInv, NoEffectYet
  <2> QED
    BY <2>3, <2>4 DEF EffectsInv
<1>6. ASSUME NEW r \in Rows, IndexCatchesUp(r)
      PROVE  EffectsInv'
  <2>1. table' = table /\ uow' = uow /\ index' = [index EXCEPT ![r] = table[r]]
    BY <1>6 DEF IndexCatchesUp
  <2>2. \A q \in Rows : index'[q] = IF q = r THEN table[r] ELSE index[q]
    BY <2>1 DEF TypeOK
  <2> QED
    BY <2>1, <2>2 DEF EffectsInv, HoldsWhatIsStored, NoEffectYet
<1>7. CASE UNCHANGED vars
  BY <1>7 DEF vars, EffectsInv, HoldsWhatIsStored, NoEffectYet
<1> QED
  BY <1>1, <1>2, <1>3, <1>4, <1>5, <1>6, <1>7, StepKinds DEF Kind

LEMMA EffectsInit == Init => EffectsInv
<1> SUFFICES ASSUME Init PROVE EffectsInv
  OBVIOUS
<1>1. \A r \in Rows : Opened.held[r] = {} /\ Opened.staged[r].changes = {}
  BY DEF Opened, Absent
<1>2. \A r \in Rows : table[r].changes = {} /\ index[r].changes = {}
  BY DEF Init, Absent
<1>3. \A u \in Units : uow[u] = Opened
  BY DEF Init
<1> QED
  BY <1>1, <1>2, <1>3 DEF EffectsInv, HoldsWhatIsStored, NoEffectYet

----------------------------------------------------------------------------
(* The refinement *)

Contents == [r \in Rows |-> table[r].changes]
Holders  == [k \in Keys |-> {r \in Rows : table[r].key = k}]
Finished == {u \in Units : uow[u].pc = "committed"}

LEMMA SilentSteps ==
  ASSUME NEW u \in Units, Alone(u), uow'[u].pc # "committed"
  PROVE  UNCHANGED <<Contents, Holders, Finished>>
<1>1. table' = table /\ uow[u].pc # "committed" /\ \A v \in Units \ {u} : uow'[v] = uow[v]
  BY DEF Alone
<1>2. Finished' = Finished
  BY <1>1 DEF Finished
<1> QED
  BY <1>1, <1>2 DEF Contents, Holders

\* A commit puts its mark on the rows it writes, and on nothing else.
LEMMA CommitsContents ==
  ASSUME TypeOK, UpdatesInv, EffectsInv, NEW u \in Units, Commits(u)
  PROVE  /\ \A r \in Rows : u \notin Contents[r]
         /\ Contents' = [r \in Rows |-> IF r \in Writes(u) THEN Contents[r] \cup {u} ELSE Contents[r]]
<1>1. \A r \in Rows : Contents[r] = table[r].changes /\ Contents'[r] = table'[r].changes
  BY DEF Contents
<1>2. \A r \in Rows : u \notin table[r].changes
  BY DEF Commits, EffectsInv, NoEffectYet
<1>3. ASSUME NEW r \in Rows
      PROVE  table'[r].changes = IF r \in Writes(u) THEN table[r].changes \cup {u} ELSE table[r].changes
  <2>1. r \in Writes(u) => table'[r].changes \subseteq table[r].changes \cup {u}
    BY CommitFacts DEF EffectsInv, HoldsWhatIsStored
  <2> QED
    BY <2>1, CommitFacts
<1> QED
  BY <1>1, <1>2, <1>3 DEF Contents

\* ... and takes a key only when nobody holds it.
LEMMA CommitsHolders ==
  ASSUME TypeOK, UpdatesInv, KeysInv, KeysAreUnique, KeysAreUnique',
         NEW u \in Units, Commits(u), NEW k \in Keys
  PROVE  \/ Holders'[k] = Holders[k]
         \/ Holders[k] = {} /\ \E r \in Writes(u) : Holders'[k] = {r}
<1>1. /\ Holders[k] = {r \in Rows : table[r].key = k}
      /\ Holders'[k] = {r \in Rows : table'[r].key = k}
  BY DEF Holders
<1>2. k # NoKey
  BY UnitOfWorkAssumption
<1>3. ASSUME NEW r \in Rows, table[r].key = k
      PROVE  table'[r].key = k
  <2>1. Present(table[r])
    <3>1. table[r] \in Stored /\ table[r].version \in Nat
      BY StoredFields DEF TypeOK
    <3> QED
      BY <3>1, <1>2, <1>3, StoredFields DEF Present, Absent
  <2>2. CASE r \notin Writes(u)
    BY <2>2, <1>3, CommitFacts
  <2>3. CASE r \in Writes(u) /\ r \notin uow[u].added
    BY <2>3, <1>3, CommitFacts DEF KeysInv, KeyIsKept
  <2>4. CASE r \in Writes(u) /\ r \in uow[u].added
    <3>1. store = "dynamodb" /\ uow[u].staged[r].version = 1
      BY <2>1, <2>4 DEF KeysInv, KeyIsKept
    <3>2. table'[r].version = table[r].version + 1 /\ table'[r].version = 1
      BY <2>4, <3>1, CommitFacts
    <3>3. table[r].version \in Nat
      BY CommitFacts
    <3> QED
      BY <3>2, <3>3, <2>1 DEF Present
  <2> QED
    BY <2>2, <2>3, <2>4
<1>4. CASE \E r \in Rows : table'[r].key = k /\ table[r].key # k
  <2>1. PICK r \in Rows : table'[r].key = k /\ table[r].key # k
    BY <1>4
  <2>2. r \in Writes(u)
    BY <2>1, CommitFacts
  <2>3. \A q \in Rows : table'[q].key = k => q = r
    BY <2>1, <1>2 DEF KeysAreUnique
  <2>4. Holders'[k] = {r} /\ Holders[k] = {}
    BY <1>1, <1>3, <2>1, <2>3
  <2> QED
    BY <2>2, <2>4
<1>5. CASE \A r \in Rows : table'[r].key = k => table[r].key = k
  BY <1>1, <1>3, <1>5
<1> QED
  BY <1>4, <1>5

LEMMA CommitsApply ==
  ASSUME TypeOK, UpdatesInv, EffectsInv, KeysInv, KeysAreUnique, KeysAreUnique',
         NEW u \in Units, Commits(u)
  PROVE  Promise!Apply(u)
<1>1. PICK written \in SUBSET Rows : written = Writes(u)
  BY DEF Writes
<1>2. Promise!TakeEffect(u, written)
  <2>1. Holders' = [k \in Keys |-> Holders'[k]]
    BY DEF Holders
  <2> QED
    BY <1>1, <2>1, CommitsContents, CommitsHolders DEF Promise!TakeEffect, Contents, Holders
<1>3. u \notin Finished
  BY DEF Commits, Finished
<1>4. Finished' \in {Finished, Finished \cup {u}}
  <2>1. \A v \in Units \ {u} : uow'[v] = uow[v]
    BY DEF Commits
  <2>2. CASE uow'[u].pc = "committed"
    BY <2>1, <2>2 DEF Finished
  <2>3. CASE uow'[u].pc # "committed"
    BY <2>1, <2>3, <1>3 DEF Finished
  <2> QED
    BY <2>2, <2>3
<1>5. \E w \in SUBSET Rows : Promise!TakeEffect(u, w)
  BY <1>2, Zenon
<1> QED
  BY <1>3, <1>4, <1>5, Zenon DEF Promise!Apply, Finished

LEMMA StepsKeepThePromise ==
  ASSUME NoThreads, TypeOK, UpdatesInv, EffectsInv, KeysInv, KeysAreUnique, KeysAreUnique',
         [Next]_vars
  PROVE  [Promise!Next]_(Promise!vars)
<1> DEFINE Silent == UNCHANGED <<Contents, Holders, Finished>>
<1>1. ASSUME NEW u \in Units, Kind(u)
      PROVE  Silent \/ Promise!Apply(u)
  <2>1. CASE Commits(u)
    BY <2>1, CommitsApply
  <2>2. CASE Reads(u)
    BY <2>2, SilentSteps DEF Reads, Alone
  <2>3. CASE Drops(u)
    BY <2>3, SilentSteps DEF Drops
  <2>4. ASSUME NEW r \in Rows, Writing(u, r)
        PROVE  Silent
    BY <2>4, SilentSteps DEF Writing, Alone
  <2> QED
    BY <1>1, <2>1, <2>2, <2>3, <2>4 DEF Kind, Saves, Adds
<1>2. ASSUME NEW r \in Rows, IndexCatchesUp(r)
      PROVE  Silent
  BY <1>2 DEF IndexCatchesUp, Contents, Holders, Finished
<1>3. ASSUME UNCHANGED vars
      PROVE  Silent
  BY <1>3 DEF vars, Contents, Holders, Finished
<1> HIDE DEF Silent
<1>4. Silent \/ \E u \in Units : Promise!Apply(u)
  BY <1>1, <1>2, <1>3, StepKinds
<1> QED
  BY <1>4 DEF Silent, Promise!Next, Promise!vars, Contents, Holders, Finished

LEMMA PromiseInit == Init => Promise!Init
<1> SUFFICES ASSUME Init PROVE Promise!Init
  OBVIOUS
<1>1. \A r \in Rows : table[r].changes = {} /\ table[r].key = NoKey
  BY DEF Init, Absent
<1>2. Contents = [r \in Rows |-> {}]
  BY <1>1 DEF Contents
<1>3. Holders = [k \in Keys |-> {}]
  <2>1. \A k \in Keys : {r \in Rows : table[r].key = k} = {}
    BY <1>1, UnitOfWorkAssumption
  <2> QED
    BY <2>1 DEF Holders
<1>4. Finished = {}
  <2>1. \A u \in Units : uow[u] = Opened
    BY DEF Init
  <2>2. Opened.pc = "open"
    BY DEF Opened
  <2> QED
    BY <2>1, <2>2 DEF Finished
<1> QED
  BY <1>2, <1>3, <1>4 DEF Promise!Init, Contents, Holders, Finished

\* Each of the stores, the in-memory one used by one thread at a time, does
\* what the use cases are promised: units of work take effect one after the
\* other, each as a whole, and nobody's effect is undone.
THEOREM StoresKeepThePromise ==
  ASSUME NoThreads
  PROVE  Spec => ImplementsRepository
<1> DEFINE Inv == TypeOK /\ UpdatesInv /\ UpdatesAreKept /\ EffectsInv /\ KeysInv /\ KeysAreUnique
<1>1. Init => Inv
  BY StoresInit, UpdatesInit, EffectsInit, KeysInit
<1>2. Inv /\ [Next]_vars => Inv'
  BY StepKinds, UpdatesStep, EffectsStep, KeysStep
<1>3. Inv /\ Inv' /\ [Next]_vars => [Promise!Next]_(Promise!vars)
  BY StepsKeepThePromise
<1> HIDE DEF Inv
<1> QED
  BY <1>1, <1>2, <1>3, PromiseInit, PTL DEF Spec, ImplementsRepository, Promise!Spec
=============================================================================
