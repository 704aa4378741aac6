\* Two URLs, responses of two chunks: clients join before, during and after
\* the filling of a record, records are freed, evicted and used again.  One host
\* at a time, and a budget that holds one response and not two.
CONSTANTS
  URLS = {a, b}
  CHUNKS = 2
  CLIENTS = {0, 1}
  RECORDS = {0, 1}
  SERVERS = {0, 1}
  HOSTS = {0}
  LENGTHS = {2, 4}
  MAX_CACHE = 3
  WORD = 64
  DRIFT = 1
  READERS = {0, 1, 2}
  NODES = {0, 1}
  SUBSCRIBERS = 3
SPECIFICATION Spec
INVARIANTS
  TablesSound
  
  BudgetKept
  
\* A proxy that was stopped takes no further step.
CHECK_DEADLOCK FALSE
