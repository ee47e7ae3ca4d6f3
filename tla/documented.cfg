SPECIFICATION Spec
CONSTANTS
  None = None
  User = {u1, u2}
  Charger = {c1}
  Station = {s1}
  StationOf <- OneStation
  Booking = {b1}
  MaxEntry = 1
  Reporter = {u1}
  MaxExceptions = 2
SYMMETRY SymmetricBookings
PROPERTIES ChargerTransitionsLegal
