SPECIFICATION PathSpec
CONSTANT Devices = 2
INVARIANTS PathTypeOK PlayedInPlace
PROPERTIES CommandsComplete
