SPECIFICATION Spec
CONSTANTS
    Base = 2
    Types <- UnlistedTypes
    MaxMsgs = 1
    MaxLen = 2
    MaxStr = 1
    MinCap = 1
INVARIANT RegisteredSupported
CHECK_DEADLOCK FALSE
