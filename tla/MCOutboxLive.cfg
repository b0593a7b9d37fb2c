SPECIFICATION FairSpec
CONSTANTS
  m1 = m1  m2 = m2  m3 = m3
  c1 = c1  c2 = c2  d1 = d1  d2 = d2
  a1 = a1  a2 = a2  b1 = b1  z1 = z1
  None = None
  Msg = {m1, m2}
  Conv = {c1, c2}
  Dest = {d1, d2}
  Entry = {a1, a2, b1}
  Legacy = {}
  ConvOf <- MCConvOf
  MsgOf <- MCMsgOf
  DestOf <- MCDestOf
  MaxInFlight = 2
  MaxPerMessage = 1
  MaxPerDest = 1
  MaxOutbox = 3
  MaxFaults = 1
  MaxRestarts = 1
  ReadBackFails = FALSE
PROPERTY EventuallySent
