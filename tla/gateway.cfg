SPECIFICATION GatewayFairSpec
CONSTANTS
    worker = worker
    api = api
    None = None
    Clients = {worker, api}
    Workers = {worker}
    Apis = {api}
    Probers = {}
    Cooldown = 1
    ProbeCount = 3
    ProbeRequiredSuccesses = 2
    MaxTime = 2
    MaxProbes = 0
    Window = 1
    MinSamples = 0
    ThresholdPct = 30
    OutageSize = 2
    Seedings <- SomeTraffic
    Downtimes = {TRUE, FALSE}
    MaxRecordings = 2
    MaxFailures = 1
INVARIANTS
    GatewayTypeOK
    CountsAreRecent
    OutageIsAnswered
PROPERTIES
    FailingGatewayIsNoticed
