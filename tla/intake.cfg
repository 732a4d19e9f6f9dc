SPECIFICATION FairSpec
CONSTANTS
    None = None
    failed1 = failed1
    listnotes = listnotes
    captured = captured
    unsigned = unsigned
    Events = {failed1, listnotes, captured, unsigned}
    ValidEvents = {failed1, listnotes, captured}
    FailureEvents = {failed1, listnotes}
    Malformed = {listnotes}
    Handlers = {h1, h2}
    CaseIds = {k1, k2, k3}
    BatchSizes = {2}
    Pushes = {0, 2}
    MaxCrashes = 1
    MaxDbErrors = 1
INVARIANTS
    TypeOK
    OneCasePerEvent
    QueuedCaseIsCommitted
PROPERTIES
    LedgerSpec
    EventBecomesCase
