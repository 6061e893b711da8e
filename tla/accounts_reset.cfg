SPECIFICATION Spec
CONSTANTS
  Emails = {ann, bob}
  Subjects = {x, y}
  Tokens = {t1}
  States = {s1, s2, s3}
  MayCrash = TRUE
  Nobody = Nobody
  Login = Login
INVARIANT ResetTokenSpent
CHECK_DEADLOCK FALSE
