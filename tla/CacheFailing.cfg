\* Two threads with one client each, two URLs and responses of two chunks.  A
\* client may ask again before it has read its response; connections, writes
\* to servers and allocations may fail.
CONSTANTS
  w1 = w1
  w2 = w2
  c1 = c1
  c2 = c2
  c3 = c3
  Workers = {w1, w2}
  Clients = {c1, c2}
  Owner <- OneEach
  Urls = {u1, u2}
  MaxRecords = 3
  RespLen = 2
  MaxRequests = 2
  Pipelining = TRUE
  Failures = {"connect", "write", "alloc"}
SPECIFICATION Spec
SYMMETRY UrlSymmetry
INVARIANTS
  TypeOK
  OneRecordPerUrl
  
\* A proxy without requests is idle.
CHECK_DEADLOCK FALSE
