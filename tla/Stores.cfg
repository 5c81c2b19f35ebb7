\* Two units of work on one row there is and two new ones with the same key.
\* Every unit of work ends, and then nothing is left to do.
SPECIFICATION Spec
CONSTANTS
  Rows = {sub, inv1, inv2}
  Seeded = {sub}
  Keys = {k1}
  Units = {u1, u2}
  Stores = {"memory", "sqlite", "dynamodb"}
  Threads = FALSE
  MaxSaves = 2
SYMMETRY Symmetry
CHECK_DEADLOCK FALSE
INVARIANTS
  TypeOK
  UpdatesAreKept
  KeysAreUnique
PROPERTIES
  NobodyIsRefusedForNothing
  ImplementsRepository
