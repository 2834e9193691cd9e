CONSTANTS
  Clients = {c1}
  SseTickets = {k1}
  HistoryStores = {"redis"}
  SseCap = 1
  ReplayMax = 2
  PendingMax = 2
  MaxPublished = 3
  MaxInRedis = 3
  MaxConnects = 3
  MaxEvents = 6
  MaxMillis = 1
INIT SseInit
NEXT SseNext
INVARIANT ResumeLeavesNoGap
CHECK_DEADLOCK FALSE
