SPECIFICATION FairSpec
CONSTANTS
  Maximum = 2000
  Word = 2048000
  Tariff <- Tariffs
  Target <- Targets
  MaxStart = 2
  MaxTime = 14
  MaxSlips = 1
INVARIANTS TargetKept MeterNeverBlocked
PROPERTIES TargetsEnd
CHECK_DEADLOCK FALSE
