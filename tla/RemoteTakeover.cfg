INIT TicketInit
NEXT RemoteNext
CONSTANTS
  ChatSessions = {s1}
  Refs = {f1}
  NoRef = NoRef
  Ttl = 1
  WindowMs = 2
  UploadCap = 2
  MaxTickets = 2
  RemoteSessions = {r1, r2}
  RemoteSockets = {k1, k2}
  NoAgent = NoAgent
  MaxClock = 4
  MaxIssued = 4
CHECK_DEADLOCK FALSE
INVARIANT EverySessionIsLive
