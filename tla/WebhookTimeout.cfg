CONSTANTS
  Events = {"e1", "e2", "e3"}
  ClientIds = {1, 2, 3, 4}
  Urls = {"u"}
  Secrets = {"s"}
  Initial <- McInitial
  Slots = {r1, r2}
  MaxOccasions = 3
  MaxNotices = 1
  Faults = {"timeout"}
  Generated = Generated
  None = None
SPECIFICATION Spec
SYMMETRY McSymmetry
CHECK_DEADLOCK FALSE
INVARIANT FailureIsRetried
