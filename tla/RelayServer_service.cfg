SPECIFICATION FairSpec
CONSTANTS
  Servers = {s1, s2}
  Connections = {c1, c2}
  proxy = proxy
  Peers = {proxy}
  PeerOf <- OnePeer
  Requests = {push, stranger, forged, record, torn}
  Malformed = {torn}
  Signed = {push, stranger, forged}
  Verified = {push, stranger}
  Publishing = {push, stranger}
  Permitted = {push}
  MaxPerWindow = 1
  MaxCrashes = 1
  None = None
INVARIANTS AtMostOnce AnswersAreTrue ServerInv
PROPERTIES EveryPeerAnswered
CHECK_DEADLOCK FALSE
