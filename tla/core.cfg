SPECIFICATION Spec
CONSTANTS
  None = None
  User = {u1, u2, u3}
  Charger = {c1, c2}
  Station = {s1, s2}
  StationOf <- OwnStation
  Booking = {b1, b2}
  MaxEntry = 2
  Reporter = {}
  MaxExceptions = 0
SYMMETRY SymmetricStations
INVARIANTS OneHolderPerCharger NoOrphanHold WorkflowConsistent SweepNeverBlocked OneEngagementPerUser
PROPERTIES FirstComeFirstServed NoQueueJumping
