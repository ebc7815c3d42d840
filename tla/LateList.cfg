SPECIFICATION Spec
CONSTANTS
  lobby = lobby
  guest = guest
  Scripts <- LateScripts
  PublicRooms = {lobby}
  ForeignRooms = {guest}
  MaxPending = 3
  MaxInvites = 1
  MaxAuthAttempts = 2
  OutboundQueue = 3
  MaxNoise = 1
CHECK_DEADLOCK FALSE
INVARIANT InviteReturnsItsRoom
