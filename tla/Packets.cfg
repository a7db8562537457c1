\* Three buffers over three blocks; two callers who go once round six
\* sequence numbers; three packets with one run copied over them; four
\* packets in each of two rings of four cells.
SPECIFICATION PacketsSpec
CONSTANTS
  Bufs = {b1, b2, b3}
  Blocks = {k1, k2, k3}
  Data = {x, y}
  Junk = Junk
  Null = Null
  Threads = {"caller", "timer"}
  Cmds = {1, 2}
  Half = 3
  MaxCalls = 6
  Values = 5
  Bodies <- MCBodies
  Ids = {0, 1}
  MaxBody = 2
  Runs <- MCRuns
  MaxPackets = 3
  MaxDamage = 1
  Capacity = 4
  Sender <- MCSender
  Size <- MCSize
  Slack = 1
INVARIANTS
  PacketsAreFound
  DirectionsStayApart
PROPERTIES
  BytesAreOwned
  RequestsAreToldApart
CHECK_DEADLOCK FALSE
