SPECIFICATION InSpec
CONSTANTS
    MaxFrames = 2
    HeaderID = {0, 2}
    HeaderSize = {0, 4}
    SizeWord = 16
    HeaderLen = 3
    MinID = 2
    MaxID = 3
    MinSize = 3
    MaxSize = 5
    EchoIDs = {}
    MaxConcurrent = 1
    SeqLimit = 8
    SeqWord = 16
PROPERTY KickStopsForwarding
CHECK_DEADLOCK FALSE
