SPECIFICATION Spec
CONSTANTS
  u1 = u1
  u2 = u2
  m1 = m1
  m2 = m2
  m3 = m3
  Utterances <- MCUtterances
  Long <- MCLong
  Requests <- MCRequests
  First = m1
  None = None
  Cap = 1
  Frames = 2
  MaxStale = 4
  MaxFails = 1
  MaxUnrecorded = 1
  MaxChatFails = 1
INVARIANTS
  WebInv
  RecordingsFollowTurns
  DialogueAlternates
  ChatIsKept
CHECK_DEADLOCK FALSE
PROPERTIES
  AcceptedBargeIsAnswered
  SessionEnds
  ImplementsTurnLog
