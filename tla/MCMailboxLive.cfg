SPECIFICATION FairSpec
CONSTANTS
  p = p  q = q  x = x
  None = None
  Packet = {p, q, x}
  Long = {p}
  Invalid = {x}
  SlotCount = 1
  Start <- MCStart
  MaxInbox = 1
  MaxSeen = 1
  MaxFaults = 1
  MaxExpired = 0
  MaxRestarts = 1
PROPERTIES
  EventuallyHandled
  EventuallyConfirmed
