SPECIFICATION FairSpec
CONSTANTS
    Calls = {c1, c2}
    MaxRequests = 2
    TimeWindow = 3
    MaxDelay = 2
    MaxRetries = 2
PROPERTIES
    RedisKeepsLimit
    MemoryKeepsLimit
    WindowsReopen
