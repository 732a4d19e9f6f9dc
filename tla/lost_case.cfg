SPECIFICATION FairSpec
CONSTANTS
    None = None
    failed1 = failed1
    listnotes = listnotes
    captured = captured
    unsigned = unsigned
    Events = {failed1}
    ValidEvents = {failed1}
    FailureEvents = {failed1}
    Malformed = {}
    Handlers = {h1, h2}
    CaseIds = {k1}
    BatchSizes = {}
    Pushes = {0, 1}
    MaxCrashes = 0
    MaxDbErrors = 0
PROPERTIES
    CommittedCaseIsProcessed
CHECK_DEADLOCK FALSE
