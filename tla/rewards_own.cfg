SPECIFICATION Spec
CONSTANTS
  User = {a, b}
  Top = 4
  MaxLogins = 3
  MaxFaults = 1
  None = None
INVARIANTS GiftsEarned
CHECK_DEADLOCK FALSE
