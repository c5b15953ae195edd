SPECIFICATION FairSpec
CONSTANTS
  lobby = lobby
  bad = bad
  MaxConnections = 2
  MaxRequests = 2
  MaxDepartures = 1
  MaxClients = 1
  RequestTypes <- MCLinkTypes
  RoomNames <- MCSomeNames
  ValidNames <- MCOneName
  InitialRooms <- MCOneName
  HistoryLimit = 2
  HistoryMax = 1
  EventCounts <- MCOneCount
INVARIANTS
  TypeOK
  HandshakeFirst
PROPERTIES
  ListIsAnswered
CHECK_DEADLOCK FALSE
