SPECIFICATION Spec
CONSTANTS
  Requests = {r1, r2, r3, r4}
  Keys = {k1}
  Outcomes = {"2xx", "raised"}
  Limit = 2
  Window = 4
  Second = 2
  MaxTime = 6
  Never = Never
INVARIANT TypeOK CountersSurvive BootsCounted WindowLimit RetryAfterSuffices
SYMMETRY Interchangeable
CHECK_DEADLOCK FALSE
