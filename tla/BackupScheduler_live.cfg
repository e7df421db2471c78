SPECIFICATION FairSpec
CONSTANTS
  s1 = s1
  s2 = s2
  t1 = t1
  t2 = t2
  Ids <- OneId
  Periods <- TwoPeriods
  Retentions <- KeepTwo
  Floor = 2
  Threads <- OneThread
  MaxTime = 2
  MaxCrashes = 1
  Updates = TRUE
  Faults <- AllFaults
  None = None
  NoThread = NoThread
CHECK_DEADLOCK FALSE
INVARIANTS
  TypeOK
PROPERTIES
  RetentionIsAWindow
  DueIsServed
