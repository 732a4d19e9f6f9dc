SPECIFICATION Spec
CONSTANTS
    MaxRetry = 3
    MinAmount = 10000
    HighValueThreshold = 5000000
    Cooldown = 24
    QuietStart = 21
    QuietEnd = 9
    StartHour = 0
    BaselineRetries = 3
    LLMActions = {"smart_retry", "payment_link", "nudge_email", "nudge_sms", "nudge_whatsapp", "defer", "escalate_human", "stop"}
    LLMChannels = {"none"}
    NumEvents = 5
    Amounts <- DrawnAmounts
    Scores <- BoundaryScores
    None = None
INVARIANTS
    TypeOK
    CreditedActionIsAllowed
    AgentKeepsBaseline
    CategoriesAgree
    MethodFitsCategory
CHECK_DEADLOCK FALSE
