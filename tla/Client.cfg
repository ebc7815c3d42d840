SPECIFICATION Spec
CONSTANTS
  lobby = lobby
  guest = guest
  Scripts <- SomeScripts
  PublicRooms = {lobby}
  ForeignRooms = {guest}
  MaxPending = 2
  MaxInvites = 2
  MaxAuthAttempts = 2
  OutboundQueue = 2
  MaxNoise = 1
CHECK_DEADLOCK FALSE
INVARIANTS AnswersOwn NoViolation InviteFindsRoom
PROPERTY CallsResolve
