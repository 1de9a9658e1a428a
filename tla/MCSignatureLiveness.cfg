SPECIFICATION Spec
CONSTANTS
  Requests = {r1, r2}
  Cards = {c1}
  NoCard = NoCard
  Slots = {s1}
  MaxAttempts = 2
  MaxCalls = 2
  MaxFaults = 2
  MaxCardOps = 0
PROPERTIES
  ImplementsPromise
  AttemptsSettle
  CertsAnswered
CHECK_DEADLOCK FALSE
