SPECIFICATION FairSpec
CONSTANTS
  MaxChanges = 2
  MaxFaults = 1
  MaxLogins = 2
INVARIANTS AnnouncedOnce
PROPERTIES ViewCatchesUp CallsAnnounced
CHECK_DEADLOCK FALSE
