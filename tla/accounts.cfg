SPECIFICATION StoresSpec
CONSTANTS
  Emails = {ann, bob}
  Subjects = {x, y}
  Tokens = {t1}
  States = {s1, s2, s3}
  MayCrash = TRUE
  Nobody = Nobody
  Login = Login
  LedgerUsers = {u1}
  Fields = {"historical_mistakes", "behavioral_patterns"}
  OldFields = {"historical_mistakes"}
  RollingWindow = 2
  Settings = {"default", "chosen"}
  Default = "default"
  MaxEntries = 4
  MaxDeaths = 2
  Absent = Absent
  LedgerOrgs = {o1}
  Seats = {p1, p2, p3}
  MaxSeatsOfOrg = 2
  Allocated = 1
  MaxTaken = 2
  MaxRows = 1
  NoFile = NoFile
SYMMETRY Interchangeable
INVARIANT StoresTypeOK LinksAgree LinkedAccountsExist OneLinkPerState NothingForgotten OrgAddsUp
PROPERTY OwnersKept
CHECK_DEADLOCK FALSE
