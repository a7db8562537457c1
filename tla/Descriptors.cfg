\* Three timers share two descriptors, and three clients meet a listener that
\* has four, fewer than it would need.
SPECIFICATION DescriptorsSpec
CONSTANTS
  t1 = t1
  t2 = t2
  t3 = t3
  Timers <- MCTimers
  Once <- MCOnce
  MaxFd = 2
  WithOthers = TRUE
  Clients = {"c1", "c2", "c3"}
  ListenerFds = 4
  ListenerFaults = {"bind", "listen", "memfd", "start"}
INVARIANTS
  MapNamesOpen
  CallFollowsOwnTick
PROPERTIES
  EndsOnlyAsNamed
  TicksAreServed
  LoopIsSound
  LoopServes
CHECK_DEADLOCK FALSE
