SPECIFICATION Spec
CONSTANTS
  p1 = p1
  p2 = p2
  p3 = p3
  p4 = p4
  None = None
  Packets <- MCPackets4
  Size <- MCSize4
  Capacity = 3
  Foreign = {}
  Env = {"expire"}
  Server = "w"
CHECK_DEADLOCK FALSE
INVARIANTS NextPacketIntact
PROPERTIES AcceptedIsConsumed ImplementsFifo
