SPECIFICATION Spec
CONSTANTS
  k1 = k1 k2 = k2 k3 = k3 u1 = u1 u2 = u2 u3 = u3 o1 = o1 o2 = o2 op1 = op1 d1 = d1 d2 = d2 d3 = d3
  Keys = {k1, k2, k3}
  Users = {u1, u2, u3}
  UserOf <- ThreeUsers
  Orgs = {o1, o2}
  OrgOf <- ColonOrgs
  Operators = {op1}
  PartIndexes = {1}
  Dirs = {d1, d2, d3}
  UploadDir <- RawDirs
  MergeDir <- SafeDirs
  Outputs = {d1, d3}
  OutputOf <- SafeDirs
  Requests = {r1, r2}
  MaxConcurrent = 1
  MaxAttempts = 2
  MaxSessions = 2
  MaxSeats = 1
  MaxParts = 1
  MayCrash = FALSE
  LogFaults = FALSE
  NoSession = NoSession
  NoRequest = NoRequest
  Nobody = Nobody
INVARIANT OneCommitPerOrg
CHECK_DEADLOCK FALSE
