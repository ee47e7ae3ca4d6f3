SPECIFICATION Spec
CONSTANTS
  Admin = {a1, a2}
  None = None
  MaxCommands = 2
  MaxAttempts = 3
  MaxTime = 1
  MaxSlips = 1
  MaxWrites = 1
SYMMETRY Symmetric
INVARIANTS ToldRight OnceAsShown
CHECK_DEADLOCK FALSE
