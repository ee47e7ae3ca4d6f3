SPECIFICATION Spec
CONSTANTS
  Trip = {t1, t2}
  User = {u1, u2}
  Station = {s1}
  NoUser = NoUser
  NoStation = NoStation
  Gratis = {}
  Configs <- TwoConfigs
  OfferLife = {2}
  Eta = {1}
  Charge = {2}
  Delay = {1}
  DayLength = 2
  MaxCapacity = 2
  MaxTime = 3
SYMMETRY Symmetric
INVARIANTS IInv NeverOverbooked NothingLate NobodyWaitsInVain
PROPERTIES FirstInFirstOut EffectsInTime BudgetKept
