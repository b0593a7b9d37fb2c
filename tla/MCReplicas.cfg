SPECIFICATION Spec
CONSTANTS
  x = x  p = p  q = q
  x1 = x1  x2 = x2  p1 = p1  q1 = q1
  m1 = m1
  None = None
  Device = {x1, x2, p1, q1}
  Account = {x, p, q}
  AccountOf <- MCAccountOf
  Author = x
  Shares = {p1}
  Msg = {m1}
  Writer <- MCWriter
  Slots = 1
  MaxFaults = 1
INVARIANTS
  TypeOK
  TicksAreTrue
  ReceiptsAreKept
  QuietMeansAgreed
PROPERTIES
  TicksNeverFallBack
CHECK_DEADLOCK FALSE
