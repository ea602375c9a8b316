SPECIFICATION InSpec
CONSTANTS
    MaxFrames = 4
    HeaderID = {0, 2, 3}
    HeaderSize = {0, 2, 3, 4, 5}
    SizeWord = 16
    HeaderLen = 3
    MinID = 2
    MaxID = 3
    MinSize = 3
    MaxSize = 4
    EchoIDs = {2}
    MaxConcurrent = 1
    SeqLimit = 2
    SeqWord = 4
INVARIANTS InTypeOK AdmissionExact NumbersSafe
PROPERTY IntakeSafety
CHECK_DEADLOCK FALSE
