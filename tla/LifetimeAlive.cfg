\* Neither side stops and nobody dies.
SPECIFICATION Spec
CONSTANT Faults = {"spurious"}
PROPERTY OnlyUnlockWhenStop
CHECK_DEADLOCK FALSE
