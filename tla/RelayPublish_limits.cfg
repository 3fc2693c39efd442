SPECIFICATION FairSpec
CONSTANTS
  Publishers = {p1, p2}
  Cleaners = {c1}
  Readers = {}
  Revisions = {r1, r2, r3}
  NoRevision = NoRevision
  Unbuilt = Unbuilt
  Free = Free
  Orphaned = Orphaned
  MaxRevisions = 2
  MaxLeftover = 0
  SlowHolders = FALSE
INVARIANTS QuotaHolds
PROPERTIES LockIsFreed
