SPECIFICATION Spec
CONSTANTS
  c1 = c1
  c2 = c2
  a1 = a1
  a2 = a2
  l1 = l1
  l2 = l2
  l3 = l3
  Readers = {r1, r2}
  Cards = {c1, c2}
  NoCard = NoCard
  Libs = {l1, l2, l3}
  NoLib = NoLib
  AtrOf <- TwoModels
  LibsOf <- OwnLibraries
  Served <- OwnService
  Installed = {l1, l2, l3}
  OpenSC = NoLib
  Short = 1
  Long = 5
  MinStay = 7
  MaxCardOps = 4
  MaxFaults = 1
PROPERTIES
  RemovalIsSelective
CHECK_DEADLOCK FALSE
