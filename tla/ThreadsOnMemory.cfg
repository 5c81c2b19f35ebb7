\* The in-memory store as the server uses it, on several threads.
SPECIFICATION Spec
CONSTANTS
  Rows = {sub, inv1, inv2}
  Seeded = {sub}
  Keys = {k1}
  Units = {u1, u2}
  Stores = {"memory"}
  Threads = TRUE
  MaxSaves = 1
SYMMETRY Symmetry
CHECK_DEADLOCK FALSE
INVARIANT UpdatesAreKept
