SPECIFICATION Spec
CONSTANTS
  c1 = c1
  c2 = c2
  a1 = a1
  a2 = a2
  l1 = l1
  l2 = l2
  l3 = l3
  Readers = {r1, r2}
  Cards = {c1, c2}
  NoCard = NoCard
  Libs = {l1, l2, l3}
  NoLib = NoLib
  AtrOf <- TwoModels
  LibsOf <- SharedLibrary
  Served <- SharedService
  Installed = {l1, l3}
  OpenSC = l3
  Short = 1
  Long = 5
  MinStay = 0
  MaxCardOps = 4
  MaxFaults = 1
INVARIANTS
  SessionsBacked
  OtherLibrariesReady
  NothingUnannounced
CHECK_DEADLOCK FALSE
