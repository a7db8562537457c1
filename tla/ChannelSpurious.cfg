SPECIFICATION Spec
CONSTANTS
  p1 = p1
  p2 = p2
  p3 = p3
  p4 = p4
  None = None
  Packets <- MCPackets3
  Size <- MCSize3
  Capacity = 3
  Foreign = {p2}
  Env = {"stopW","stopR","killW","killR","spurious"}
  Server = "r"
CHECK_DEADLOCK FALSE
INVARIANTS MutualExclusion SleepingWriterLacksRoom
