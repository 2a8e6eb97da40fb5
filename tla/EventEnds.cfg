SPECIFICATION EndsSpec
CONSTANTS
  Relay = {a, b}
  MaxEvent = 2
  BatchSize = 2
  MaxAttempts = 3
  MaxLapses = 1
  Poison <- OldestRefused
  Worker = {w1, w2}
  Event = {e1, e2}
  Nothing = Nothing
  MaxSlot = 3
  MaxDeliver = 3
  OffContract = {e2}
  MaxFaults = 2
  Faults <- WorkerFaults
CHECK_DEADLOCK FALSE
INVARIANTS
  HandledRight
PROPERTIES
  KeepsPromise
  HandledDespiteFaults
  EveryRowSettles
