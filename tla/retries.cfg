SPECIFICATION Spec
CONSTANTS
    MaxRetry = 2
    MinAmount = 10000
    HighValueThreshold = 5000000
    Cooldown = 24
    QuietStart = 21
    QuietEnd = 9
    StartHour = 12
    BaselineRetries = 3
    LLMActions = {"smart_retry", "payment_link", "nudge_email", "defer", "escalate_human", "stop"}
    LLMChannels = {"none"}
    Cases = {c1}
    Workers = {w1}
    ApprovalIds = {a1}
    None = None
    Profiles <- LowValueProfiles
    ApprovalTTL = 2
    Instants = {0, 10, 24, 48}
    Gateways = {"closed", "open"}
    Pushes = {0, 1, 2, 3}
    MaxApproves = 0
    MaxCrashes = 1
INVARIANTS
    RetryCap
    CooldownKept
CHECK_DEADLOCK FALSE
