SPECIFICATION CallsSpec
CONSTANTS
  c1 = c1
  c2 = c2
  Call = {c1, c2}
  NoCall = NoCall
  Replica = {r1, r2}
  NoOne = NoOne
  Says <- FirstAndLater
  MaxQueue = 1
  MaxFaults = 2
  Faults = {"crash", "handover", "death"}
  Midway = FALSE
CHECK_DEADLOCK FALSE
INVARIANTS
  TakenOverInStep
  SweepsAreRight
PROPERTIES
  EveryCallEnds
