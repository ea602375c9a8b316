SPECIFICATION Spec
CONSTANTS
    Conn = {c1, c2}
    Request = {r1, r2}
    MaxList = 2
    None = None
INVARIANTS PushSafe SendOrder BroadcastExact
PROPERTIES DirectorySafety KickCompletes
CHECK_DEADLOCK FALSE
