SPECIFICATION FairSpec
CONSTANTS
  MaxRequests = 4
  Page = {p1, p2}
  LoginPage = login
  MaxPending = 2
  MaxSessions = 2
INVARIANTS NoSessionLost NeverResurrected AnsweredOnce
PROPERTIES NewestOnly LiveSessionKept SessionsEnd
CHECK_DEADLOCK FALSE
