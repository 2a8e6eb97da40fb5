SPECIFICATION WholeSpec
CONSTANTS
  Replica = {r1, r2, r3, r4}
  Node = {n1}
  NoOne = NoOne
  Ttl = 3
  Interval = 1
  Lag = 1
  Faults = {"crash"}
  Steady = {r2}
  HbTtl = 7
  HbInterval = 1
  Grace = 8
  Mortal = {n1}
SYMMETRY UnsteadySymmetry
INVARIANTS
  OneOwner
  OwnedInTime
  NeverDeclaredDead
