SPECIFICATION Spec
CONSTANTS
    Chunks = {1, 2, 3, 4, 5, 6}
    Docs = {"own", "own2", "other", "off"}
    Sources = {"s1", "s2", "s3", "s4"}
    Users = {"u", "v"}
    DocOf <- MCDocOf
    SourceOf <- MCSourceOf
    UploadedBy <- MCUploadedBy
    OwnerOf <- MCOwnerOf
    Disabled = {"s4"}
    Law = {5}
    User = "u"
    Size <- MCSize
    TopK = 3
    TopN = 3
    RrfK = 2
    CharBudget = 4
    MaxChanges = 2
CHECK_DEADLOCK FALSE
INVARIANTS OnlyAllowed DominanceKept CitedAsNumbered
