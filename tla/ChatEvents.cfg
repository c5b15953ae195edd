SPECIFICATION Spec
CONSTANTS
  lobby = lobby
  bad = bad
  MaxConnections = 2
  MaxRequests = 5
  MaxDepartures = 0
  MaxClients = 2
  RequestTypes <- MCChatTypes
  RoomNames <- MCOneName
  ValidNames <- MCOneName
  InitialRooms <- MCOneName
  HistoryLimit = 2
  HistoryMax = 1
  EventCounts <- MCOneCount
INVARIANTS
  EchoesFollowHistory
  HistoryOnlyForRooms
  NothingOutlivesItsRoom
  JoinedOnce
CONSTRAINT
  MCParts
CHECK_DEADLOCK FALSE
