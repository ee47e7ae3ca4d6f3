SPECIFICATION FairSpec
CONSTANTS
  None = None
  User = {u1, u2}
  Charger = {c1}
  Station = {s1}
  StationOf <- OneStation
  Booking = {b1}
  MaxEntry = 2
  Reporter = {}
  MaxExceptions = 0
PROPERTIES CallsEnd ReservationsEnd WaitersAreCalled
