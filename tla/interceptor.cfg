SPECIFICATION FairSpec
CONSTANTS
  s1 = s1 s2 = s2
  Submissions = {s1, s2}
  Size <- LongAndShort
  MaxConcurrent = 2
  LogFaults = TRUE
INVARIANT TypeOK SlotPerPacket OverflowOneAtATime
PROPERTY ImplementsGate SubmissionsAnswered
CHECK_DEADLOCK FALSE
