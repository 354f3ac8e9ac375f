SPECIFICATION Spec
CONSTANTS
  Resources = {r1, r2}
  Owners = {o1, o2}
  TTLs = {1, 2}
  MaxTime = 4
  MaxToken = 4
  NoLease = NoLease
INVARIANTS IInv OneLiveLease ValidateIsExact
PROPERTIES OnlyOwnLeaseReleased
CHECK_DEADLOCK FALSE
