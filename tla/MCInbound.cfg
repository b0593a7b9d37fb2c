SPECIFICATION FairSpec
CONSTANTS
  a = a  b = b
  k1 = k1  k3 = k3
  None = None
  Peer = {a, b}
  Packet = {k1, k3}
  PeerOf <- MCPeerOf
  MaxSent = 2
  MaxFaults = 2
  MaxRestarts = 1
  ReadBackFails = FALSE
INVARIANTS
  AnsweredIsKept
  UsedKeyIsStored
  DeletedStaysDeleted
  HistoryHasContact
PROPERTIES
  KeysAdvance
  EventuallyAnswered
