SPECIFICATION FairSpec
CONSTANTS
    Turns = {t1, t2}
    Convs = {c1}
    Keys = {k1}
    None = None
    MaxDeltas = 1
    FaultKinds = {"db", "commit", "broker", "stop"}
    MaxFaults = 1
CHECK_DEADLOCK FALSE
INVARIANTS TypeOK OneAnswerOneLog StoredIsWhatWasSent DoneMeansStored QuestionAskedOnce NothingLostSilently
PROPERTIES UserTitleKept ImplementsProtocol
