\* Only writes to servers may fail; one client per thread, one request each.
CONSTANTS
  w1 = w1
  w2 = w2
  c1 = c1
  c2 = c2
  c3 = c3
  Workers = {w1, w2}
  Clients = {c1, c2}
  Owner <- OneEach
  Urls = {u1, u2}
  MaxRecords = 2
  RespLen = 1
  MaxRequests = 1
  Pipelining = FALSE
  Failures = {"write"}
SPECIFICATION FairSpec
PROPERTY FailureReachesClients
CHECK_DEADLOCK FALSE
