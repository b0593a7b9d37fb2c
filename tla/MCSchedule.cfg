SPECIFICATION Spec
CONSTANTS
  a1 = a1  a2 = a2  b1 = b1  c1 = c1  d1 = d1
  m1 = m1  m2 = m2  m3 = m3  m4 = m4  here = here  there = there
  Entry = {a1,a2,b1,c1}
  MsgOf <- MCMsgOf
  DestOf <- MCDestOf
  MaxInFlight = 3
  MaxPerMessage = 1
  MaxPerDest = 2
  FreshBurst = 1
  Cancels = TRUE
  MaxRecoveries = 1
INVARIANT BurstIsBounded
PROPERTY LimitsAreTight
