CONSTANTS
  Workers = {w1}
  Clients = {c1}
  PipeSize = 4
  InitMayFail = FALSE
  IdleTimeouts = FALSE
SPECIFICATION Spec
INVARIANT NeverKilled
