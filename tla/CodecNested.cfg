SPECIFICATION Spec
CONSTANTS
    Base = 2
    Types <- NestedTypes
    MaxMsgs = 1
    MaxLen = 2
    MaxStr = 1
    MinCap = 1
INVARIANT RoundTrip
CHECK_DEADLOCK FALSE
