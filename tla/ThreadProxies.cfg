\* Two clients.  Matsko's proxy has a record more than URLs, so that a URL whose
\* server fails is fetched again; responses of two chunks, or one if cached.
CONSTANTS
  CLIENTS = {1, 2}
  URLS = {"a"}
  RECORDS = {2, 3}
  CHUNKS = 2
  FAULTS = {"connect", "server", "reset", "thread"}
  CACHED_URLS = {"a", "b"}
  SERVED = 1
  SERVED_URL = "a"
  FORMER = 3
SPECIFICATION Spec
INVARIANTS
  RecordsSound
  
  DestroyedAlone

  
\* A proxy that was stopped takes no further step.
CHECK_DEADLOCK FALSE
