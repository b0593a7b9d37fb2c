SPECIFICATION FairSpec
CONSTANTS
  a1 = a1  a2 = a2  b1 = b1  c1 = c1  d1 = d1
  m1 = m1  m2 = m2  m3 = m3  m4 = m4  here = here  there = there
  Entry = {a1,b1,d1}
  MsgOf <- MCMsgOf
  DestOf <- MCDestOf
  MaxInFlight = 1
  MaxPerMessage = 1
  MaxPerDest = 1
  FreshBurst = 2
  Cancels = FALSE
  MaxRecoveries = 2
PROPERTY WaitsForItsOwn
