SPECIFICATION FairSpec
CONSTANTS
  k1 = k1 k2 = k2 k3 = k3 u1 = u1 u2 = u2 u3 = u3 o1 = o1 o2 = o2 op1 = op1 d1 = d1 d2 = d2 d3 = d3
  Keys = {k1, k2}
  Users = {u1, u2}
  UserOf <- TwoUsers
  Orgs = {o1, o2}
  OrgOf <- TwoOrgs
  Operators = {op1}
  PartIndexes = {1}
  Dirs = {d1, d2}
  UploadDir <- OwnDir
  MergeDir <- OwnDir
  Outputs = {d1}
  OutputOf <- OneOutput
  Requests = {r1, r2}
  MaxConcurrent = 1
  MaxAttempts = 2
  MaxSessions = 1
  MaxSeats = 1
  MaxParts = 1
  MayCrash = TRUE
  LogFaults = TRUE
  NoSession = NoSession
  NoRequest = NoRequest
  Nobody = Nobody
INVARIANT ProcessingIsExplained
PROPERTY MergeLeftAlone ImplementsGate CommitSettles
CHECK_DEADLOCK FALSE
