SPECIFICATION FairSpec
CONSTANTS
    Docs = {d1}
    Workers = {w1, w2}
    Requests = {r1, r2}
    None = None
    MaxRetries <- MCWithinCelery
    RetryLimit = 1
    TaskMaxRetries = 1
    ChunkCounts = {1}
    BatchSize = 1
    FaultKinds = {"parse_io", "chunk_io", "provider", "shell_db", "broker", "timeout"}
    MaxFaults = 1
    MaxRestarts = 2
CHECK_DEADLOCK FALSE
INVARIANT OneExecution
PROPERTIES StatusFollowsStateMachine SettlesUnlessStranded
