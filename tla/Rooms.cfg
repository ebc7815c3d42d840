SPECIFICATION FairSpec
CONSTANTS
  c1 = c1
  c2 = c2
  alice = alice
  bob = bob
  carol = carol
  Conns = {c1, c2}
  Users = {alice, bob, carol}
  UserOf <- Owners
  ClassOf <- Ranks
  PrivilegesOf <- Powers
  Names = {"lobby", "den", "priv-1", "priv-2"}
  PrivateNames = {"priv-1", "priv-2"}
  Lobby = "lobby"
  Flags <- PanelOnly
  MaxRooms = 2
  MaxJoined = 2
  JoinAttempts = 2
  MaxSpawned = 4
  MaxOps = 3
CHECK_DEADLOCK FALSE
INVARIANT Findable
INVARIANT RoomsExact
INVARIANT InvitedOnly
PROPERTY ImplementsGatherings
PROPERTY EmptyRoomsGo
