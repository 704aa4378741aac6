\* One client on each thread, each with two requests, and two URLs: records are
\* looked up behind others, shared, complete and still growing.
CONSTANTS
  w1 = w1
  w2 = w2
  c1 = c1
  c2 = c2
  c3 = c3
  Workers = {w1, w2}
  Clients = {c1, c2}
  Owner <- OneEach
  Urls = {u1, u2}
  MaxRecords = 2
  RespLen = 1
  MaxRequests = 2
  Pipelining = FALSE
  Failures = {}
SPECIFICATION FairSpec
INVARIANT OnlyFailedDiscarded
PROPERTY Delivered
\* A proxy without requests is idle.
CHECK_DEADLOCK FALSE
