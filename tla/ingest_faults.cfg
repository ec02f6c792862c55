SPECIFICATION Spec
CONSTANTS
    Docs = {d1}
    Workers = {w1, w2}
    Requests = {r1, r2}
    None = None
    MaxRetries <- MCMaxRetries
    RetryLimit = 2
    TaskMaxRetries = 1
    ChunkCounts = {0, 2}
    BatchSize = 1
    FaultKinds = {"parse_io", "chunk_io", "provider", "db", "shell_db", "broker", "retry_publish", "timeout", "crash"}
    MaxFaults = 2
    MaxRestarts = 1
SYMMETRY MCSymmetry
CHECK_DEADLOCK FALSE
INVARIANTS TypeOK StageInputPresent WorkNeverLost ReadyIsComplete NeverReembeds JobsAreAPrefix
PROPERTY StatusFollowsStateMachine
