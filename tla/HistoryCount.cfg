SPECIFICATION Spec
CONSTANTS
  lobby = lobby
  bad = bad
  MaxConnections = 1
  MaxRequests = 3
  MaxDepartures = 0
  MaxClients = 1
  RequestTypes <- MCChatTypes
  RoomNames <- MCOneName
  ValidNames <- MCOneName
  InitialRooms <- MCOneName
  HistoryLimit = 2
  HistoryMax = 1
  EventCounts <- MCZeroCount
INVARIANTS
  HistoryReplyWithinMax
CHECK_DEADLOCK FALSE
