\* A client under every fault of its surroundings, a control block with every
\* fault of its own, a client object, and a server object that two clients
\* connect to.
SPECIFICATION LivesSpec
CONSTANTS
  Faults =
    {"refuse", "mute", "close", "nomap", "leave", "crash", "spurious"}
  LifeFaults = {"init", "spurious", "kill"}
  Conns = {"k1", "k2"}
INVARIANTS
  NoThreadLeft
  ConnectedHasSession
  ObjectsAreThere
  UsesAreKnown
  NoThreadOutlives
PROPERTIES
  DeadSessionIsStopped
  SessionlessRetries
  LifetimeIsJoined
  StopsEnd
  DestructorsEnd
CHECK_DEADLOCK FALSE
