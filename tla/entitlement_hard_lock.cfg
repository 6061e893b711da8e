SPECIFICATION Spec
CONSTANTS
  k1 = k1 k2 = k2 u1 = u1 u2 = u2 o1 = o1 a1 = a1 a2 = a2
  Keys = {k1, k2}
  Users = {u1, u2}
  UserOf <- Owner
  Orgs = {o1}
  OrgOf <- OneOrg
  Accounts = {a1, a2}
  AccountOf <- OwnAccount
  Operators = {op1, op2}
  Labels = {"retail", "pro"}
  SessionLimit <- SmallSessionLimit
  SeatLimit <- SmallSeatLimit
  MaxMonth = 2
  MaxCommits = 1
  MayCrash = FALSE
  NoKey = NoKey
  NoRow = NoRow
PROPERTY HardLock
CHECK_DEADLOCK FALSE
