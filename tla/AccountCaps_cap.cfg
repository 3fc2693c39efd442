SPECIFICATION Spec
CONSTANTS
  Workers = {w1, w2, w3}
  Objects = {o1, o2, o3}
  NoObject = NoObject
  Kinds = {"project", "environment", "device"}
  Cap = 2
  Free = Free
  Orphaned = Orphaned
  MaxLeftover = 2
SYMMETRY Symmetry
INVARIANTS CapInv
PROPERTY RepublishGoesThrough
