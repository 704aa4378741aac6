\* Three clients for two threads: tasks wait while all threads are busy.  Threads
\* may fail to start and clients may time out.
CONSTANTS
  Workers = {w1, w2}
  Clients = {c1, c2, c3}
  PipeSize = 8
  InitMayFail = TRUE
  IdleTimeouts = TRUE
SPECIFICATION FairSpec
INVARIANTS
  TypeOK
  
  
  ByteForTask
  
PROPERTIES
  QueuedIsServed
  StopTerminates
\* The pool ends after a signal or a failed start.
CHECK_DEADLOCK FALSE
