SPECIFICATION Spec
CONSTANTS
  owner = owner
  first = first
  second = second
  e1 = e1
  Devices = {owner, first, second}
  Creator = owner
  Joiners = {first, second}
  Managers = {owner}
  Rank <- FileOrder
  Relay = relay
  Environments = {e1}
  Selections <- One
  Roles = {"member"}
  Invites = {i1, i2}
  None = None
  MaxTime = 0
  MaxCommands = 5
  MaxFailures = 0
PROPERTIES RevokedStayExcluded
CHECK_DEADLOCK FALSE
