\* Two producers wait for a place, or two consumers for a message, when the
\* queue is dropped with one token for each kind.  Two places and two message
\* texts make the order of delivery visible.
CONSTANTS
  Producers = {p1, p2}
  Consumers = {c1, c2}
  Msgs = {m1, m2}
  Capacity = 2
  CreateMayFail = FALSE
SPECIFICATION FairSpec
PROPERTIES
  ImplementsChannel
  
