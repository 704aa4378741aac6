\* Only connections to servers may fail.
CONSTANTS
  w1 = w1
  w2 = w2
  c1 = c1
  c2 = c2
  c3 = c3
  Workers = {w1, w2}
  Clients = {c1, c2, c3}
  Owner <- TwoAndOne
  Urls = {u1, u2}
  MaxRecords = 3
  RespLen = 1
  MaxRequests = 1
  Pipelining = FALSE
  Failures = {"connect"}
SPECIFICATION Spec
SYMMETRY UrlSymmetry
INVARIANT NoUseAfterFree
CHECK_DEADLOCK FALSE
