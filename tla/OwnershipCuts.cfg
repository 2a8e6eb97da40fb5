SPECIFICATION Spec
CONSTANTS
  Replica = {r1, r2}
  Node = {n1}
  NoOne = NoOne
  Ttl = 3
  Interval = 1
  Lag = 1
  Faults = {"crash", "restart", "cut", "flap", "stop"}
  Steady = {}
SYMMETRY ReplicaSymmetry
INVARIANTS
  FreshOwnersExclude
