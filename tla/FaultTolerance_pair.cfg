SPECIFICATION Spec
CONSTANTS
  v1 = v1
  v2 = v2
  Vms <- TwoVms
  MaxWrites = 1
  Faults <- AllFaults
  Locking = TRUE
  Careful = TRUE
  NoPair = NoPair
  NoDisk = NoDisk
  Fragment = Fragment
  NoVm = NoVm
SYMMETRY Swap
INVARIANTS
  TypeOK
  CopyAsNewAsReported
  NeverBoth
PROPERTIES
  PromotedKept
  PairsAreStandbys
