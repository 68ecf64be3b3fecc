CONSTANTS
  Events = {"e1", "e2"}
  ClientIds = {1, 2, 3, 4}
  Urls = {"u"}
  Secrets = {"s"}
  Initial <- McShared
  Slots = {r1, r2}
  MaxOccasions = 3
  MaxNotices = 0
  Faults = {}
  Generated = Generated
  None = None
SPECIFICATION Spec
SYMMETRY McSymmetry
CHECK_DEADLOCK FALSE
PROPERTY KeysAreRevoked
