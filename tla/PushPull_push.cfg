SPECIFICATION Spec
CONSTANTS
  d1 = d1
  d2 = d2
  c1 = c1
  c2 = c2
  Devices = {d1, d2}
  Creator = creator
  Commands = {c1, c2}
  DeviceOf <- OnePerDevice
  Revisions = {r1, r2}
  NoRevision = NoRevision
  Unbuilt = Unbuilt
  Values = {v1, v2}
  Layouts = {l1, l2}
  Absent = Absent
  Torn = Torn
  MaxEdits = 1
  MaxCrashes = 1
SYMMETRY WithSwap
INVARIANTS NoLostUpdate PushPullInv
PROPERTIES LaterPushAfterPull PullKeepsWork
