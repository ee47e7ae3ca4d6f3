SPECIFICATION Spec
CONSTANTS
  None = None
  User = {u1, u2}
  Charger = {c1}
  Station = {s1}
  StationOf <- OneStation
  Booking = {b1, b2}
  MaxEntry = 1
  Reporter = {u1, u2}
  MaxExceptions = 2
SYMMETRY Symmetric
INVARIANTS IInv InServiceMeansClear CalledKeepsCharger OccupiedMeansOpen FrozenHasNoBusiness
PROPERTIES ImplementsCustody
