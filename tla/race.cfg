SPECIFICATION FairSpec
CONSTANTS
    MaxRetry = 1
    MinAmount = 10000
    HighValueThreshold = 5000000
    Cooldown = 24
    QuietStart = 21
    QuietEnd = 9
    StartHour = 12
    BaselineRetries = 3
    LLMActions = {"smart_retry", "payment_link", "escalate_human"}
    LLMChannels = {"none"}
    Cases = {c1}
    Workers = {w1, w2}
    ApprovalIds = {a1, a2}
    None = None
    Profiles <- RaceProfiles
    ApprovalTTL = 2
    Instants = {0, 26}
    Gateways = {"closed"}
    Pushes = {1, 2}
    MaxApproves = 1
    MaxCrashes = 0
INVARIANTS
    TypeOK
    HighValueNeedsApproval
    StatusMatchesLedger
    ChannelRetryCap
PROPERTIES
    QueuedCaseIsSettled
    ApprovedCaseRunsAgain
    GateSpec
CHECK_DEADLOCK FALSE
