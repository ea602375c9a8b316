SPECIFICATION DataSpec
CONSTANTS
    Base = 2
    Types <- FlatTypes
    MaxMsgs = 2
    MaxLen = 4
    MaxStr = 1
    MinCap = 1
    Node = {n1, n2, n3}
    Nil = nil
    Kind = {"ptr"}
    MaxLinks = 2
    MaxCalls = 2
    Threshold = 2
    MaxDepth = 8
    Sampler = {s1, s2, s3}
    NBuckets = 2
    None = None
    Latencies = {0, 5, 6, 11}
    Buckets <- FirstBuckets
    MaxCount = 101
    Counter = {tcp, http}
    Gauge = {mem}
    Reading = {1, 2}
    Period = 2
    MaxHits = 4
    MaxRounds = 2
    Sec = 4
    TTL = 40
    Interval = 20
    MaxDelay = 8
    MaxFails = 0
INVARIANTS RoundTrip CodecSafe WalkSafe DiscTypeOK NeverLapses LatSafe OutIsPercentile ReportSafe
PROPERTY DriftHeals
CHECK_DEADLOCK FALSE
