CONSTANTS
  Users = {"root", "ann", "bob"}
  Events = {"e", "f"}
  TalkIds = {1, 2, 3}
  EventOf <- McEventOf
  SpeakerOf <- McSpeakerOf
  CreatorOf <- McCreatorOf
  None = None
  Initial <- McInitial
  Clients <- McClients
  Slots = {r1, r2}
  MaxRequests = 4
  MaxPw = 2
  Faults = {}
SYMMETRY McSymmetry
SPECIFICATION Spec
CHECK_DEADLOCK FALSE
INVARIANT AdminRemains
