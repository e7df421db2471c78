SPECIFICATION Spec
CONSTANTS
  p1 = p1
  p2 = p2
  cpu = cpu
  mem = mem
  Ids <- TwoIds
  Resources <- CpuOnly
  Settings <- TwoKinds
  Unreadable <- CpuOnly
  Smallest <- Ones
  Top <- Fours
  StartSize <- Twos
  Cooldown = 2
  MaxTime = 3
  Triggers = FALSE
  Crashes = FALSE
  Faults = FALSE
  None = None
  NoId = NoId
  Never = Never
CHECK_DEADLOCK FALSE
INVARIANTS
  StampSaved
PROPERTIES
  CooldownKept
