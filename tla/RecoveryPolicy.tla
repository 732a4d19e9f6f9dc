--------------------------- MODULE RecoveryPolicy ---------------------------
(***************************************************************************)
(* The deterministic decisions of a recovery run, as operators: what the   *)
(* experiment arms may propose (agents/, experiments/) and what the        *)
(* guardrails let through (guardrails/policy_engine.py).                   *)
(*                                                                         *)
(* A profile p holds the columns of a recovery case that no run changes:   *)
(* amount (paise), optedOut, category, arm, and the contact data phone,    *)
(* email and whatsapp.  Times are hours since the start of the run.        *)
(***************************************************************************)
EXTENDS Integers

CONSTANTS
    MaxRetry,            \* MAX_RETRY_ATTEMPTS
    MinAmount,           \* the INR 100 floor of check_all, in paise
    HighValueThreshold,  \* HIGH_VALUE_THRESHOLD_PAISE
    Cooldown,            \* COOLDOWN_HOURS
    QuietStart, QuietEnd, StartHour,  \* quiet hours; hour of day at time 0
    BaselineRetries,     \* len(RETRY_SCHEDULE)
    LLMActions,          \* the action types the model may answer with
    LLMChannels          \* the channels the model may put in its answer

Nudges == {"nudge_email", "nudge_sms", "nudge_whatsapp"}
CustomerContactActions == Nudges \cup {"payment_link"}
ContactOrRetryActions == CustomerContactActions \cup {"smart_retry"}
ActionType == ContactOrRetryActions \cup {"escalate_human", "defer", "stop"}
Channel == {"none", "sms", "email", "whatsapp", "in_app"}
GatewayState == {"closed", "open", "half_open"}
Never == -1  \* last_retry_at is NULL

ASSUME PolicyAssumption ==
    /\ MaxRetry \in Nat /\ MinAmount \in Nat /\ HighValueThreshold \in Nat
    /\ Cooldown \in Nat /\ BaselineRetries \in Nat
    /\ {QuietStart, QuietEnd, StartHour} \subseteq 0..23
    /\ LLMActions \subseteq ActionType /\ LLMChannels \subseteq Channel

Decision == [action: ActionType, channel: Channel]
Propose(action, channel) == [action |-> action, channel |-> channel]

-----------------------------------------------------------------------------
(* Control arm: a fixed retry schedule that ignores the case.              *)
BaselineDecide(retry) ==
    IF retry >= BaselineRetries THEN Propose("stop", "none")
                                ELSE Propose("smart_retry", "email")

(* Treatment arm: the first deterministic override that applies, if any.   *)
Overrides(p, retry, gateway) ==
    IF gateway = "open" THEN {"defer"}
    ELSE IF p.optedOut \/ retry >= MaxRetry THEN {"stop"}
    ELSE IF p.category = "business" THEN {"escalate_human"}
    ELSE {}

Strategize(p, retry, gateway) ==
    IF Overrides(p, retry, gateway) # {}
    THEN {Propose(a, "none") : a \in Overrides(p, retry, gateway)}
    ELSE {Propose(a, ch) : a \in LLMActions, ch \in LLMChannels}

EligibleChannels(p) ==
    {ch \in {"sms", "email", "whatsapp"} :
        /\ ~p.optedOut
        /\ ch = "email" => p.email
        /\ ch # "email" => p.phone
        /\ ch = "whatsapp" => p.whatsapp}

NudgeOn ==
    [email |-> "nudge_email", sms |-> "nudge_sms", whatsapp |-> "nudge_whatsapp"]

(* A nudge is moved to any channel the bandit samples among the eligible   *)
(* ones, and becomes a stop when there is none.                            *)
SelectChannel(p, d) ==
    IF d.action \notin Nudges THEN {d}
    ELSE IF EligibleChannels(p) = {} THEN {Propose("stop", "none")}
    ELSE {Propose(NudgeOn[ch], ch) : ch \in EligibleChannels(p)}

Decisions(p, retry, gateway) ==
    IF p.arm = "control" THEN {BaselineDecide(retry)}
    ELSE UNION {SelectChannel(p, d) : d \in Strategize(p, retry, gateway)}

-----------------------------------------------------------------------------
HourOfDay(t) == (StartHour + t) % 24

InQuietHours(hour) ==
    IF QuietStart > QuietEnd THEN hour >= QuietStart \/ hour < QuietEnd
                             ELSE QuietStart <= hour /\ hour < QuietEnd

\* Mutant: the retry limit is off by one.
CheckAllOneMore(p, retry, last, action, t) ==
    /\ action # "stop" => ~p.optedOut /\ retry <= MaxRetry
    /\ action \in ContactOrRetryActions /\ last # Never => t - last >= Cooldown

CheckAll(p, retry, last, action, t) ==
    /\ action # "stop" => ~p.optedOut /\ retry < MaxRetry
    /\ action \notin {"stop", "escalate_human"} => p.amount >= MinAmount
    /\ action \in ContactOrRetryActions /\ last # Never => t - last >= Cooldown
    /\ action \in CustomerContactActions => ~InQuietHours(HourOfDay(t))

\* Mutant: an approval never expires.
HasAnyApproval(expiries, t) == expiries # {}

(* expiries: the expiry of the APPROVED approval the run read, or {}.      *)
HasValidApproval(expiries, t) == \E e \in expiries : e > t

NeedsApproval(p, action, expiries, t) ==
    /\ p.amount > HighValueThreshold
    /\ action # "stop"
    /\ ~HasValidApproval(expiries, t)
=============================================================================
