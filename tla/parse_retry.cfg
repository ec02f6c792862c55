SPECIFICATION FairSpec
CONSTANTS
    Docs = {d1}
    Workers = {w1}
    Requests = {r1}
    None = None
    MaxRetries <- MCMaxRetries
    RetryLimit = 2
    TaskMaxRetries = 1
    ChunkCounts = {1}
    BatchSize = 1
    FaultKinds = {"parse_io"}
    MaxFaults = 1
    MaxRestarts = 0
CHECK_DEADLOCK FALSE
PROPERTY Settles
