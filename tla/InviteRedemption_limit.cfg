SPECIFICATION Spec
CONSTANTS
  one = one
  two = two
  Workers = {w1, w2}
  Devices = {d1, d2, d3}
  Invites = {one, two}
  NoInvite = NoInvite
  NoDevice = NoDevice
  MaxUses <- Uses
  Free = Free
  Orphaned = Orphaned
  MaxLeftover = 1
SYMMETRY Symmetry
INVARIANTS UsesWithinLimit InviteInv
PROPERTY RetryIsFree
