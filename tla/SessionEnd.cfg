SPECIFICATION SessSpec
CONSTANTS
    MaxFrames = 2
    HeaderID = {0}
    HeaderSize = {0, 1}
    SizeWord = 16
    HeaderLen = 0
    MinID = 0
    MaxID = 3
    MinSize = 1
    MaxSize = 5
    EchoIDs = {0}
    MaxConcurrent = 0
    SeqLimit = 8
    SeqWord = 16
    Kicker = {9}
    Caller <- Callers
    WdCap = 1
INVARIANT SessSafe
PROPERTIES SlowClientServed SessionEnds
CHECK_DEADLOCK FALSE
