SPECIFICATION OutFairSpec
CONSTANTS
    Caller = {c1, c2, c3, c4}
    WdCap = 2
INVARIANTS OutTypeOK NoStrandedFrame
PROPERTIES StreamSafety StreamDelivery
CHECK_DEADLOCK FALSE
