SPECIFICATION Spec
CONSTANTS
  o = o  a = a  b = b
  o1 = o1  a1 = a1  a2 = a2  b1 = b1
  m1 = m1
  None = None
  Device = {o1, a1, a2, b1}
  Account = {o, a, b}
  AccountOf <- MCAccountOf
  Primary <- MCPrimary
  Creator = o1
  Founders = {a}
  Msg = {m1}
  Author <- MCAuthor
  Request <- Delegation
  JoinId = {"j"}
  MaxCuts = 1
  MaxEvents = 3
INVARIANTS
  EveryoneIsTold
  AppliedOnce
  QuietMeansAgreed
PROPERTY LeftStaysLeft
CHECK_DEADLOCK FALSE
