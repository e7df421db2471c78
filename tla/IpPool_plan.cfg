SPECIFICATION Spec
CONSTANTS
  a = a
  b = b
  m1 = m1
  m2 = m2
  IPs <- McAddresses
  PoolNames <- Pair
  Macs <- McMacs
  VmIds <- McVmIds
  AddressPlan <- SeparatePlan
  ReservedLists <- McReserved
  Gateways <- McGateways
  Disciplined = TRUE
  Free = Free
  NoPool = NoPool
  NoMac = NoMac
INVARIANTS
  TypeOK
  Labelled
  ReportedFreeIsAvailable
PROPERTIES
  AllocateTakesFree
