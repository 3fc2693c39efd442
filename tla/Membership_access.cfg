SPECIFICATION Spec
CONSTANTS
  owner = owner
  first = first
  second = second
  e1 = e1
  Devices = {owner, first, second}
  Creator = owner
  Joiners = {first, second}
  Managers = {owner, first}
  Rank <- FileOrder
  Relay = relay
  Environments = {e1}
  Selections <- One
  Roles = {"admin"}
  Invites = {i1, i2}
  None = None
  MaxTime = 1
  MaxCommands = 4
  MaxFailures = 1
INVARIANTS AccessInv CreatorStaysOwner EveryCheckoutLoads LoadIsTheFold
PROPERTIES RevocationIsFinal RotatedBeforeCleared
SYMMETRY InviteSymmetry
CHECK_DEADLOCK FALSE
