SPECIFICATION FairSpec
CONSTANTS
  User = {a, b}
  Top = 4
  MaxLogins = 3
  MaxFaults = 1
  None = None
PROPERTIES GiftsArrive
CHECK_DEADLOCK FALSE
