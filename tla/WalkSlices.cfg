SPECIFICATION WalkSpec
CONSTANTS
    Node = {n1, n2, n3}
    Nil = nil
    Kind = {"ptr", "slice"}
    MaxLinks = 1
    MaxCalls = 1
    Threshold = 2
    MaxDepth = 12
INVARIANT NoOverflow
CHECK_DEADLOCK FALSE
