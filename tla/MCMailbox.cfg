SPECIFICATION Spec
CONSTANTS
  p = p  q = q  x = x
  None = None
  Packet = {p, x}
  Long = {p}
  Invalid = {x}
  SlotCount = 2
  Start <- MCStart
  MaxInbox = 1
  MaxSeen = 1
  MaxFaults = 1
  MaxExpired = 1
  MaxRestarts = 1
INVARIANTS
  ConfirmedIsKept
  AcknowledgedIsHandled
PROPERTIES
  OverwritesHandled
