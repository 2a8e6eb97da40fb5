SPECIFICATION EventsSpec
CONSTANTS
  c1 = c1
  c2 = c2
  Call = {c1, c2}
  NoCall = NoCall
  Replica = {r1}
  NoOne = NoOne
  Relay = {a, b}
  MaxEvent = 1
  BatchSize = 1
  MaxAttempts = 2
  MaxLapses = 1
  Poison = {}
  Worker = {w1, w2}
  Nothing = Nothing
  MaxSlot = 2
  MaxDeliver = 3
  OffContract = {}
  Faults = {"lost", "db", "crash", "window"}
  MaxFaults = 2
  ConsumerFaults = {"transaction", "commit", "answer", "slow", "crash"}
SYMMETRY Alike
CHECK_DEADLOCK FALSE
INVARIANTS
  RegistryIsRight
  SentAreAccountedFor
PROPERTIES
  SteadyInOrder
  PipelineKeepsPromise
