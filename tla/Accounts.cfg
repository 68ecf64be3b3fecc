CONSTANTS
  Users = {"root", "ann", "bob"}
  Events = {"e", "f"}
  TalkIds = {1, 2, 3}
  EventOf <- McEventOf
  SpeakerOf <- McSpeakerOf
  CreatorOf <- McCreatorOf
  None = None
  Initial <- McInitial
  Clients <- McClients
  Slots = {r1, r2}
  MaxRequests = 4
  MaxPw = 2
  Faults = {"enqueue", "give_back"}
SYMMETRY McSymmetry
SPECIFICATION Spec
INVARIANT AccountTypeOK
INVARIANT VerifyOnce
INVARIANT ResetOnce
INVARIANT SessionsFollowPassword
INVARIANT CoolDown
INVARIANT AccessFollowsAccount
INVARIANT EventOpensTalks
INVARIANT StudioAgrees
PROPERTY AdminStays
CHECK_DEADLOCK FALSE
