SPECIFICATION Spec
CONSTANTS
  Publishers = {p1, p2}
  Cleaners = {c1}
  Readers = {d1}
  Revisions = {r1, r2, r3}
  NoRevision = NoRevision
  Unbuilt = Unbuilt
  Free = Free
  Orphaned = Orphaned
  MaxRevisions = 0
  MaxLeftover = 1
  SlowHolders = FALSE
SYMMETRY Symmetry
INVARIANTS LinearHistory LatestComplete PublishInv AcceptedNeverLost
PROPERTIES FetchesMoveForward RefinesRevisionLog
