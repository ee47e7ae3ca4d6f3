SPECIFICATION Spec
CONSTANTS
  u1 = u1
  c1 = c1
  c2 = c2
  o1 = o1
  n1 = n1
  n2 = n2
  None = None
  User <- Users
  Client <- Clients
  Account <- Accounts1
  Number <- Numbers
  Level = {2}
  Order = {o1}
  Debtor <- Debtors
  RechargeCents = {1000, 5000}
  OrderCents = {0, 4864}
  MaxBalance = 9000
  MaxDay = 1
  MaxTry = 2
INVARIANTS NoForgottenCredit
PROPERTIES ImplementsLedger
SYMMETRY Symmetric
CHECK_DEADLOCK FALSE
