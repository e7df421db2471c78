SPECIFICATION Spec
CONSTANTS
  v1 = v1
  v2 = v2
  v3 = v3
  v4 = v4
  n1 = n1
  n2 = n2
  t1 = t1
  j1 = j1
  j2 = j2
  Vms <- FourVms
  Names <- TwoNames
  Templates <- OneTemplate
  Jobs <- TwoJobs
  Faults <- AllFaults
  FreshNames = TRUE
  Checked = TRUE
  LinkVms = TRUE
  NoVm = NoVm
  NoFile = NoFile
SYMMETRY Swaps
INVARIANTS
  TypeOK
  ChainsWhole
PROPERTIES
  ContentKept
