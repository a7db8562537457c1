SPECIFICATION Spec
CONSTANT Faults = {"mute", "crash"}
PROPERTY OnConnectedDoesTheJob
