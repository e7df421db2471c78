SPECIFICATION Spec
CONSTANTS
  v1 = v1
  v2 = v2
  v3 = v3
  v4 = v4
  t1 = t1
  t2 = t2
  u1 = u1
  l1 = l1
  Vm <- FourVms
  User <- OneUser
  Tenant <- TwoTenants
  Listers <- OneLister
  MaxQuota = 1
  None = None
  NoList = NoList
SYMMETRY Swaps
INVARIANTS
  TypeOK
  NoDangling
  OverByListers
CHECK_DEADLOCK FALSE
