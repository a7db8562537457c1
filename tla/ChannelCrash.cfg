SPECIFICATION Spec
CONSTANTS
  p1 = p1
  p2 = p2
  p3 = p3
  p4 = p4
  None = None
  Packets <- MCPackets3
  Size <- MCSize3
  Capacity = 3
  Foreign = {}
  Env = {"expire","stopW","stopR","killW","killR"}
  Server = "w"
CHECK_DEADLOCK FALSE
INVARIANTS CommitAssertion SleepingReaderHasNothing
PROPERTIES LockIsAnswered StopHangsOnlyIdle
