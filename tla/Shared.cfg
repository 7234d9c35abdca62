SPECIFICATION MCSpec
CONSTANTS
  s1 = s1
  s2 = s2
  None = None
  Sessions = {s1, s2}
  VersionOf <- TwoVersions
  Batches <- Mixed
  Declaring = {"a", "u"}
  Invalid = {"e"}
  Unshared = {"u"}
  Keys <- HashKeys
  KeyOf <- HashKey
  SigOf <- HashSig
  NumDatums <- DatumCount
  NumSlots = 2
  MinVictims = 1
  Percent = 10
  MaxRequests = 3
  MaxClock = 1
  Resources = {r1}
  Modes = {"S", "X"}
  MaxKey = 2
  MaxTry = 2
  Timeouts = {"nowait", "finite"}
  MaxHold = 2
  MaxRefs = 2
INVARIANTS RunsOwnParse CacheSound LocksExact
PROPERTIES CollisionKeepsEntry CallsReturn
