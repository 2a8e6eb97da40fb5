SPECIFICATION LiveSpec
CONSTANTS
  Replica = {r1, r2, r3}
  Node = {n1}
  NoOne = NoOne
  Ttl = 6
  Interval = 2
  Lag = 0
  Faults = {"crash"}
  Steady = {r2}
  HbTtl = 10
  HbInterval = 3
  Grace = 20
  Mortal = {}
SYMMETRY UnsteadySymmetry
INVARIANT
  NeverDeclaredDead
