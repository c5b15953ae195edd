SPECIFICATION SystemSpec
CONSTANTS
  lobby = lobby
  den = den
  NoRoom = NoRoom
  MaxConnections = 3
  Me = 2
  MaxRequests = 20
  MaxDepartures = 0
  MaxClients = 3
  RequestTypes <- MCTypes
  PeerTypes <- MCPeerTypes
  RoomNames <- MCNames
  ValidNames <- MCNames
  InitialRooms <- MCLobby
  HistoryLimit = 4
  HistoryMax = 4
  EventCounts <- MCCounts
  WindowNames <- MCNames
  TranscriptLimit = 6
  HistoryCount = 4
  LeftOver <- MCNames
  MaxUserActs = 1
  MaxPeerActs = 2
INVARIANTS
  SelectionMatchesList
  SelectedIsJoined
  WindowShowsRooms
  SelectedIsMember
  TranscriptIsHistory
CONSTRAINT MCOneJoined
CHECK_DEADLOCK FALSE
