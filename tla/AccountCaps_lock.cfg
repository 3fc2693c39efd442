SPECIFICATION FairSpec
CONSTANTS
  Workers = {w1}
  Objects = {o1, o2}
  NoObject = NoObject
  Kinds = {"project"}
  Cap = 1
  Free = Free
  Orphaned = Orphaned
  MaxLeftover = 1
PROPERTY QuotaLockIsFreed
