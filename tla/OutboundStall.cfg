SPECIFICATION OutSpec
CONSTANTS
    Caller = {c1, c2}
    WdCap = 2
INVARIANT NotifyDelivers
CHECK_DEADLOCK FALSE
