SPECIFICATION Spec
CONSTANTS
  Identities = {i1, i2}
  MaxFaults = 3
  MaxCardOps = 3
INVARIANTS
  TypeOK
  OneLoop
  NeverStranded
  SessionFollowsCards
  HubKnowsCards
  TraySettled
PROPERTIES
  RecoveryKeepsSessionTime
  Converges
  ImplementsLoop
CHECK_DEADLOCK FALSE
