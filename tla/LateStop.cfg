SPECIFICATION Spec
CONSTANTS
  None = None
  r1 = r1
  r2 = r2
  r3 = r3
  c1 = c1
  c2 = c2
  b1 = b1
  b2 = b2
  Runs = {r1, r2}
  Recordings = {c1}
  Bounds = {b1}
  Fits <- FitsOne
  RawKeys = {1}
  UploadKey = 1
  Bumpers = {"none"}
  Entries = {"upload", "abort"}
  Faults = {"late"}
  Overlap = FALSE
  LightWorkers = 1
  HeavyWorkers = 1
CHECK_DEADLOCK FALSE
PROPERTY AbortCleansUp
