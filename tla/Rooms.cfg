CONSTANTS
  Ids = {1, 2, 3}
  Titles = {"t"}
  ExtIds = {"x"}
  Slots = {18, 20, 22}
  Names = {"a", "A", "b"}
  Lower <- McLower
  Creates <- McCreates
  Updates <- McUpdates
  Batches <- McBatches
  Editors = {"e"}
  Deleters = {"d"}
  Keep = Keep
  None = None
  Recordings = {"long", "short"}
  Lasts = 2
  Length <- McLength
  TakenAt <- McTakenAt
  Starts <- McStarts
  DayOf <- McDayOf
  Scheduled <- McScheduled
  Uploaded <- McUploaded
  JobSlots = {1, 2, 3}
  MaxEdits = 2
  MaxAttach = 1
  Faults = {"work", "enqueue", "storage", "crash"}
SPECIFICATION Spec
INVARIANT RoomTypeOK
INVARIANT RoomsRegistered
INVARIANT DetectingIsCarried
INVARIANT CutFitsFootage
PROPERTY FailedAttachKeepsFootage
PROPERTY OthersKeepTheirDetection
PROPERTY DetectingEnds
CHECK_DEADLOCK FALSE
