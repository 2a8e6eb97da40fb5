SPECIFICATION RealtimeSpec
CONSTANTS
  k1 = k1
  k2 = k2
  u1 = u1
  u2 = u2
  Conn = {k1, k2}
  User = {u1, u2}
  Nobody = Nobody
  MaxAttempt = 2
  MaxChange = 2
  MaxLosses = 1
  MaxPerUser = 1
  MaxSubscriptions = 1
  Prompt = TRUE
  Blips = FALSE
  l1 = l1
  l2 = l2
  l3 = l3
  x1 = x1
  x2 = x2
  Leg = {l1, l2, l3}
  NoLeg = NoLeg
  Extension = {x1, x2}
  NoExtension = NoExtension
  OnExtension <- Where
  Placed = {l1}
  Mine = {x1}
  Unnamed = FALSE
  p1 = p1
  p2 = p2
  c1 = c1
  Asker = {p1, p2, c1}
  Copy <- Copies
  Code = {c1}
  MaxId = 3
  MaxPresses = 4
  MaxFault = 1
  File = {"f1", "f2", "f3"}
  Message = {"f3"}
  MaxLength = 2
  MaxUpset = 3
  Stalls = FALSE
  Slow = {"f2"}
  Letter = {"m1"}
  MaxBox = 2
  MaxTrouble = 2
  Transcriber = {g1, g2}
  MaxLetter = 2
  MaxAttempts = 2
  MaxLapses = 2
  Overlapping = FALSE
  Request = {"q1"}
  Other = {"o1", "o2", "o3", "o4", "o5", "o6"}
  MayFail = {"stay", "note", "hold", "dial", "join", "kill", "back", "unstay"}
  MaxAsks = 3
  MaxFails = 1
  ParkAsker = {"p1", "p2"}
  Live = {"c1", "c2", "c3"}
  MaxSlot = 1
  Dialled = {"c3"}
  Timely = TRUE
CHECK_DEADLOCK FALSE
INVARIANTS
  HubConsistent
  ViewsAgree
  ControlAgrees
  NoAudioLost
  PlacesAgree
  OneGetsIt
  NeverTwoInOne
PROPERTIES
  RevokedStreamsEnd
  RecordingsArrive
  LampFollowsMailbox
  TextsArrive
  NobodyWaitsForGood
  TransfersKeepThem
