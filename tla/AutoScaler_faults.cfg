SPECIFICATION Spec
CONSTANTS
  p1 = p1
  p2 = p2
  cpu = cpu
  mem = mem
  Ids <- OneId
  Resources <- Both
  Settings <- TwoKinds
  Unreadable <- CpuOnly
  Smallest <- Floors
  Top <- Fours
  StartSize <- Twos
  Cooldown = 0
  MaxTime = 0
  Triggers = TRUE
  Crashes = TRUE
  Faults = TRUE
  None = None
  NoId = NoId
  Never = Never
CHECK_DEADLOCK FALSE
INVARIANTS
  TypeOK
  WithinBand
