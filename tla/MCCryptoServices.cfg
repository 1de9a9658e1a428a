SPECIFICATION Spec
CONSTANTS
  Tokens = {t1, t2}
  Library <- OneLibrary
  Byte = 4
  Requests = {r1, r2}
  MaxRequests = 3
  MaxInserts = 2
SYMMETRY Symmetry
INVARIANTS
  NamesHold
  KeysAreKept
  LoginsAreReal
CHECK_DEADLOCK FALSE
