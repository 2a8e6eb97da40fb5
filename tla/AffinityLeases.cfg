SPECIFICATION MCSpec
CONSTANTS
  r1 = r1
  r2 = r2
  q1 = q1
  q2 = q2
  Replica = {r1, r2}
  Node = {n1, n2}
  Lease = {l1}
  NoNode = NoNode
  NoLease = NoLease
  Request = {q1, q2}
  Home <- TwoHomes
  Faults = {"drain", "death", "crash", "redis"}
  MaxFaults = 3
  MaxBoth = 1
CHECK_DEADLOCK FALSE
INVARIANTS
  AnswersHolder
  DrainedHoldsNone
PROPERTIES
  LeasesStay
  DeadLeasesLeave
