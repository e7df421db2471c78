SPECIFICATION Spec
CONSTANTS
  s1 = s1
  s2 = s2
  t1 = t1
  t2 = t2
  Ids <- TwoIds
  Periods <- OnePeriod
  Retentions <- KeepOneOrTwo
  Floor = 1
  Threads <- TwoThreads
  MaxTime = 2
  MaxCrashes = 0
  Updates = FALSE
  Faults <- RaceFaults
  None = None
  NoThread = NoThread
SYMMETRY Alike
CHECK_DEADLOCK FALSE
INVARIANTS
  NothingLeftOver
PROPERTIES
  RetentionIsAWindow
  MembershipByHandlers
  OncePerDueTime
