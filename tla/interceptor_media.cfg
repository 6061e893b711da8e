SPECIFICATION Spec
CONSTANTS
  s1 = s1 s2 = s2
  Submissions = {s1, s2}
  Size <- LongAndShort
  MaxConcurrent = 2
  LogFaults = TRUE
INVARIANT MediaWithinCeiling
CHECK_DEADLOCK FALSE
