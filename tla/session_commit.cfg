SPECIFICATION Spec
CONSTANTS
  k1 = k1 k2 = k2 k3 = k3 u1 = u1 u2 = u2 u3 = u3 o1 = o1 o2 = o2 op1 = op1 d1 = d1 d2 = d2 d3 = d3
  Keys = {k1, k2}
  Users = {u1}
  UserOf <- TwoSessionsOfOneUser
  Orgs = {o1}
  OrgOf <- OneOrg
  Operators = {op1}
  PartIndexes = {1}
  Dirs = {d1, d2}
  UploadDir <- OwnDir
  MergeDir <- OwnDir
  Outputs = {d1, d2}
  OutputOf <- OwnDir
  Requests = {r1, r2, r3}
  MaxConcurrent = 1
  MaxAttempts = 2
  MaxSessions = 2
  MaxSeats = 1
  MaxParts = 1
  MayCrash = TRUE
  LogFaults = FALSE
  NoSession = NoSession
  NoRequest = NoRequest
  Nobody = Nobody
SYMMETRY Interchangeable
INVARIANT TypeOK OneCommitPerUser ReadyIsBacked SessionsCharged ProcessingHasAWorker MemoryMatchesDisk OnePublisher
CHECK_DEADLOCK FALSE
