SPECIFICATION Spec
CONSTANTS
    MaxRetry = 3
    MinAmount = 10000
    HighValueThreshold = 5000000
    Cooldown = 24
    QuietStart = 21
    QuietEnd = 9
    StartHour = 12
    BaselineRetries = 3
    LLMActions = {"smart_retry", "payment_link"}
    LLMChannels = {"none"}
    Cases = {c1}
    Workers = {w1}
    ApprovalIds = {a1, a2}
    None = None
    Profiles <- GateProfiles
    ApprovalTTL = 2
    Instants = {0, 2, 26}
    Gateways = {"closed", "open"}
    Pushes = {1}
    MaxApproves = 1
    MaxCrashes = 0
INVARIANTS
    CooldownOnlyAfterRetry
CHECK_DEADLOCK FALSE
