SPECIFICATION Spec
CONSTANTS
  v1 = v1
  v2 = v2
  natPool = natPool
  bridgePool = bridgePool
  t1 = t1
  t2 = t2
  Vms <- TwoVms
  PoolNames <- TwoPools
  Bridged <- OneBridge
  PublicIps <- McPublic
  InternalIps <- McInternal
  PoolRange <- McRange
  Resembles <- Prefixed
  Formula <- McFormula
  Threads <- TwoThreads
  MaxStarts = 1
  MaxResyncs = 1
  Resynced <- NatOnly
  Reliable = TRUE
  Crashes = FALSE
  Free = Free
  NoMac = NoMac
  NoIp = NoIp
  NoVm = NoVm
  NoThread = NoThread
  NoDoc = NoDoc
  Torn = Torn
CHECK_DEADLOCK FALSE
INVARIANTS
  PublicExclusive
  OwnerRecorded
  PreReservationsTransient
  DeletedHoldsNothing
PROPERTIES
  AddressesAreBooked
