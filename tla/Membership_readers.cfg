SPECIFICATION Spec
CONSTANTS
  owner = owner
  first = first
  second = second
  e1 = e1
  Devices = {owner, first, second}
  Creator = owner
  Joiners = {first, second}
  Managers = {owner, first}
  Rank <- FileOrder
  Relay = relay
  Environments = {e1}
  Selections <- One
  Roles = {"admin", "member"}
  Invites = {i1}
  None = None
  MaxTime = 1
  MaxCommands = 5
  MaxFailures = 1
PROPERTIES EveryDeviceCanRead
CHECK_DEADLOCK FALSE
