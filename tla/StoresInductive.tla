-------------------------- MODULE StoresInductive --------------------------
(***************************************************************************)
(* The inductive invariant of Stores: why a version that matches means     *)
(* that nothing was missed.  It holds when units of work on the in-memory  *)
(* store do not overlap.                                                   *)
(***************************************************************************)
EXTENDS Stores

\* What u has written of r would be taken: DynamoDB looks at the commit, the
\* others have looked already.
Current(u, r) == store = "dynamodb" => uow[u].staged[r].version = table[r].version + 1

\* A write that would be taken holds all that is stored.
WritesBuildOn(u, r) ==
  r \in Writes(u) =>
    /\ uow[u].pc = "open" /\ u \in uow[u].staged[r].changes
    /\ IF store = "dynamodb"
       THEN uow[u].staged[r].version <= table[r].version + 1
       ELSE uow[u].staged[r].version > table[r].version
    /\ Current(u, r) => /\ table[r].changes \subseteq uow[u].staged[r].changes
                        /\ table[r].changes \subseteq uow[u].held[r]

\* A version read is that of the table only if nothing was missed.
ReadsAreDated(u, r) ==
  r \notin Writes(u) /\ Known(u, r) =>
    /\ uow[u].seen[r] <= table[r].version
    /\ uow[u].seen[r] = table[r].version => table[r].changes \subseteq uow[u].held[r]

\* The copy the queries read is behind the table, and says so by its version.
IndexIsDated(r) ==
  /\ index[r].version <= table[r].version
  /\ index[r].version = table[r].version => index[r].changes = table[r].changes

\* What the record says was saved or added is among the writes till the end.
WritesAreHeld(u) == uow[u].pc = "open" => Wrote(u) \subseteq Writes(u)

\* Where only the commit looks at versions, everybody may write; else one may.
OneWriter ==
  store # "dynamodb" =>
    \A u, v \in Units : u # v => Writes(u) = {} \/ Writes(v) = {}

UpdatesInv ==
  /\ \A u \in Units, r \in Rows : WritesBuildOn(u, r) /\ ReadsAreDated(u, r)
  /\ \A r \in Rows : IndexIsDated(r)
  /\ \A u \in Units : WritesAreHeld(u)
  /\ OneWriter

----------------------------------------------------------------------------

\* A row that was there keeps its key; one that was not is new.
KeyIsKept(u, r) ==
  r \in Writes(u) =>
    IF r \in uow[u].added
    THEN IF store = "dynamodb" THEN uow[u].staged[r].version = 1 ELSE ~Present(table[r])
    ELSE Present(table[r]) /\ uow[u].staged[r].key = table[r].key

\* The key of a new row: nobody else's in the unit of work, nor, where it was
\* looked for as the row was added, in the table.
KeyIsFree(u, r) ==
  r \in Writes(u) \cap uow[u].added => \A q \in Rows \ {r} :
    /\ q \in Writes(u) \cap uow[u].added /\ uow[u].staged[q].key = uow[u].staged[r].key
         => uow[u].staged[r].key = NoKey
    /\ store # "dynamodb" /\ table[q].key = uow[u].staged[r].key
         => uow[u].staged[r].key = NoKey

KeysInv == \A u \in Units, r \in Rows : KeyIsKept(u, r) /\ KeyIsFree(u, r)

----------------------------------------------------------------------------

\* What u holds of others was in force when it was read, and still is.
HoldsWhatIsStored(u, r) ==
  /\ uow[u].held[r] \subseteq table[r].changes \cup {u}
  /\ uow[u].staged[r].changes \subseteq table[r].changes \cup {u}

\* A unit of work that has not committed has had no effect, nor will the index
\* tell of one.
NoEffectYet(r) ==
  /\ \A u \in Units : uow[u].pc \notin {"committed", "unanswered"} => u \notin table[r].changes
  /\ index[r].changes \subseteq table[r].changes

EffectsInv ==
  /\ \A u \in Units, r \in Rows : HoldsWhatIsStored(u, r)
  /\ \A r \in Rows : NoEffectYet(r)

----------------------------------------------------------------------------

\* The object in u's hands lacks a change that is stored.
Behind(u, r) == ~(table[r].changes \subseteq uow[u].held[r])

\* Who holds or has written an old version is behind: every version that is
\* committed brings a change nobody had before.
OldIsBehind(u, r) ==
  /\ r \notin Writes(u) /\ Known(u, r) /\ uow[u].seen[r] # table[r].version => Behind(u, r)
  /\ r \in Writes(u) \ uow[u].added /\ ~Current(u, r) =>
       Behind(u, r) /\ ~(table[r].changes \subseteq uow[u].staged[r].changes)

\* ... and so has the index.
OldIndexIsBehind(r) ==
  index[r].version # table[r].version => ~(table[r].changes \subseteq index[r].changes)

\* A new row is its unit of work's own affair until the commit.
AddedIsNew(u, r) ==
  r \in Writes(u) \cap uow[u].added =>
    ~Present(table[r]) /\ \A v \in Units \ {u} : r \notin Writes(v)

\* On the SQL store the version in hand follows what was written.
SeenIsWritten(u, r) ==
  store = "sqlite" /\ r \in Writes(u) => uow[u].seen[r] = uow[u].staged[r].version

\* Nothing is written that the record does not say was saved or added.
WritesAreRecorded(u) == Writes(u) \subseteq Wrote(u)

RefusalsInv ==
  /\ \A u \in Units, r \in Rows :
       OldIsBehind(u, r) /\ AddedIsNew(u, r) /\ SeenIsWritten(u, r)
  /\ \A r \in Rows : OldIndexIsBehind(r)
  /\ \A u \in Units : WritesAreRecorded(u)

StoresInv ==
  /\ UpdatesInv /\ UpdatesAreKept
  /\ KeysInv /\ KeysAreUnique
  /\ EffectsInv /\ RefusalsInv
=============================================================================
