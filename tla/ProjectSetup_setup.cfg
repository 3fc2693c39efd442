SPECIFICATION Spec
CONSTANTS
  owner = owner
  clone = clone
  c1 = c1
  c2 = c2
  Machines = {owner, clone}
  Founders = {owner}
  NativeStore = {clone}
  Commands = {c1, c2}
  MachineOf <- OnePerMachine
  Projects = {p1, p2}
  Environments = {e1, e2}
  Labels = {l1, l2}
  None = None
  Torn = Torn
  MayForce = TRUE
  MixedBundles = FALSE
  MaxBusy = 1
  MaxFaults = 1
SYMMETRY Symmetry
INVARIANTS
  SetupInv
  CreatorKeepsItsKeys
  LocatorIsBacked
  LocatorIsOfOneProject
  LabelsAreUnique
  OpensUnlessInterrupted
PROPERTIES BootstrapKeepsTheLocator
