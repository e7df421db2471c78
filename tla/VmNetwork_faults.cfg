SPECIFICATION Spec
CONSTANTS
  v1 = v1
  v2 = v2
  natPool = natPool
  bridgePool = bridgePool
  t1 = t1
  t2 = t2
  Vms <- TwoVms
  PoolNames <- TwoPools
  Bridged <- OneBridge
  PublicIps <- SmallPublic
  InternalIps <- McInternal
  PoolRange <- SmallRange
  Resembles <- Exact
  Formula <- McFormula
  Threads <- TwoThreads
  MaxStarts = 1
  MaxResyncs = 1
  Resynced <- NatOnly
  Reliable = FALSE
  Crashes = TRUE
  Free = Free
  NoMac = NoMac
  NoIp = NoIp
  NoVm = NoVm
  NoThread = NoThread
  NoDoc = NoDoc
  Torn = Torn
SYMMETRY Alike
CHECK_DEADLOCK FALSE
INVARIANTS
  TypeOK
  EntriesInPlace
  OneRecordPerSync
