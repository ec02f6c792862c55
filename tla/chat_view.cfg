SPECIFICATION FairSpec
CONSTANTS
    MaxTurns = 2
    History = 3
    PageSize = 2
    MaxFocus = 1
CHECK_DEADLOCK FALSE
INVARIANTS TypeOK AlignedUnlessOverlapped QuestionOnce ShowsOnlyStored
PROPERTY StreamingEnds
