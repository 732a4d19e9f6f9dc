SPECIFICATION FairSpec
CONSTANTS
    c1 = c1
    c2 = c2
    h1 = h1
    w1 = w1
    Clients = {c1, c2}
    HandlerEvents = {h1}
    WorkerEvents = {w1}
    Relay = Relay
    None = None
    MaxFailures = 1
    MaxRestarts = 1
INVARIANTS
    TypeOK
    RelayKeepsOrder
    TwiceOnlyInDoubt
PROPERTIES
    FailedClientsHurtNobody
CHECK_DEADLOCK FALSE
