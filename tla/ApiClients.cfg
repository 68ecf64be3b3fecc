CONSTANTS
  Events = {"e1", "e2", "e3"}
  ClientIds = {1, 2, 3, 4}
  Urls = {"u"}
  Secrets = {"s"}
  Initial <- McInitial
  Slots = {r1, r2}
  MaxOccasions = 3
  MaxNotices = 1
  Faults = {"enqueue", "timeout", "crash"}
  Generated = Generated
  None = None
SPECIFICATION Spec
INVARIANT ClientTypeOK
INVARIANT OneKey
INVARIANT NoticesArrive
PROPERTY EventsAreSeparate
SYMMETRY McSymmetry
CHECK_DEADLOCK FALSE
