SPECIFICATION Spec
CONSTANTS
  Requests = {r1, r2}
  Cards = {c1, c2}
  NoCard = NoCard
  Slots = {s1}
  MaxAttempts = 2
  MaxCalls = 2
  MaxFaults = 2
  MaxCardOps = 1
SYMMETRY Symmetry
INVARIANTS
  TypeOK
  SignedWithThePin
  SuccessIsReal
CHECK_DEADLOCK FALSE
