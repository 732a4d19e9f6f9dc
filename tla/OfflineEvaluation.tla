-------------------------- MODULE OfflineEvaluation --------------------------
(***************************************************************************)
(* The synthetic failures the system is trained, demonstrated and measured *)
(* on (data/generator.py) and their offline evaluation, one event at a     *)
(* time (evals/batch_runner.py), next to what the live system would do     *)
(* with the same event (RecoveryPolicy) and to the two classifications of  *)
(* a failure: the normalizer's, which a live case carries, and the one the *)
(* features are trained with.                                              *)
(*                                                                         *)
(* An event keeps the fields these decisions look at.  Its recovery chance *)
(* is zero or not; a score is the percentage the triage model answers.     *)
(***************************************************************************)
EXTENDS RecoveryPolicy

CONSTANTS
    NumEvents,   \* num_events
    Amounts,     \* amounts it may draw, in paise
    Scores,      \* scores the triage model may answer
    None

ASSUME EvaluationAssumption ==
    /\ NumEvents \in Nat /\ Scores \subseteq 0..100
    /\ Amounts \subseteq Nat
    /\ \A a \in Amounts : 10000 <= a /\ a <= 50000000

VARIABLES
    left,     \* bucket -> the events of it yet to be generated
    event,    \* the event being evaluated
    row       \* its row of the report, once evaluated

vars == <<left, event, row>>

-----------------------------------------------------------------------------
(* generator.py: error source and reason of every scenario.                *)
Scenarios ==
    [systemic |->
       {<<"bank", "payment_failed">>, <<"bank", "gateway_error">>,
        <<"bank", "server_error">>, <<"network", "timeout">>,
        <<"gateway", "gateway_error">>},
     customer |->
       {<<"bank", "insufficient_funds">>, <<"bank", "incorrect_pin">>,
        <<"bank", "card_expired">>, <<"customer", "authentication_failed">>},
     subscription |->
       {<<"customer", "mandate_revoked">>, <<"bank", "insufficient_funds">>,
        <<"gateway", "gateway_error">>},
     invoice_checkout |->
       {<<"customer", "authentication_failed">>,
        <<"business", "business_rule_violation">>,
        <<"gateway", "gateway_error">>}]

Bucket == DOMAIN Scenarios
Source == {"bank", "network", "gateway", "customer", "business"}
Reason == UNION {{s[2] : s \in Scenarios[b]} : b \in Bucket}
Event == [source: Source, reason: Reason, amount: Amounts, optedOut: BOOLEAN,
          hindi: BOOLEAN, recoverable: BOOLEAN]

(* generate_batch: the last bucket takes what the others leave.            *)
Shares ==
    LET share(pct) == (NumEvents * pct) \div 100 IN
    [systemic |-> share(40), customer |-> share(25), subscription |-> share(20),
     invoice_checkout |-> NumEvents - share(40) - share(25) - share(20)]

(* _ground_truth: every other scenario has a positive chance.              *)
NeverRecovers(source, optedOut) == optedOut \/ source = "business"

\* Mutant: the method table's entry of server_error is a link.
MethodServerByLink(reason) ==
    CASE reason \in {"payment_failed", "gateway_error", "timeout"} -> "smart_retry"
      [] reason \in {"insufficient_funds", "authentication_failed", "incorrect_pin"} -> "nudge"
      [] reason \in {"card_expired", "mandate_revoked", "server_error"} -> "payment_link"
      [] OTHER -> "none"
ExpectedMethod(reason) ==
    CASE reason \in {"payment_failed", "gateway_error", "server_error", "timeout"} -> "smart_retry"
      [] reason \in {"insufficient_funds", "authentication_failed", "incorrect_pin"} -> "nudge"
      [] reason \in {"card_expired", "mandate_revoked"} -> "payment_link"
      [] OTHER -> "none"

-----------------------------------------------------------------------------
(* normalizer.py, the category a live case is stored with.                 *)
ClassifyFailure(source, reason) ==
    CASE \/ source \in {"gateway", "network"}
         \/ source = "bank" /\ reason \in {"payment_failed", "gateway_error", "server_error"}
           -> "systemic"
      [] \/ source = "customer"
         \/ source = "bank" /\ reason \in {"insufficient_funds", "incorrect_pin", "card_expired"}
           -> "customer"
      [] source = "business" -> "business"
      [] OTHER -> "unknown"

\* Mutant: an expired card is missing among the bank's customer reasons.
InferWithoutExpiry(source, reason) ==
    CASE source = "business" -> "business"
      [] \/ source \in {"gateway", "network"}
         \/ source = "bank" /\ reason \in {"payment_failed", "gateway_error",
                                           "server_error", "timeout"} -> "systemic"
      [] \/ source = "customer"
         \/ source = "bank" /\ reason \in {"insufficient_funds", "incorrect_pin", "wrong_pin",
                                           "authentication_failed"} -> "customer"
      [] OTHER -> "unknown"
(* feature_engineering.py, the category of an event that carries none.     *)
InferFailureCategory(source, reason) ==
    CASE source = "business" -> "business"
      [] \/ source \in {"gateway", "network"}
         \/ source = "bank" /\ reason \in {"payment_failed", "gateway_error",
                                           "server_error", "timeout"} -> "systemic"
      [] \/ source = "customer"
         \/ source = "bank" /\ reason \in {"insufficient_funds", "incorrect_pin", "wrong_pin",
                                           "card_expired", "authentication_failed"} -> "customer"
      [] OTHER -> "unknown"

-----------------------------------------------------------------------------
(* batch_runner.py: the gateway state an event is scored and decided with. *)
SimulatedGateway(e) ==
    IF e.reason = "gateway_error" THEN "open"
    ELSE IF e.reason \in {"server_error", "timeout"} \/ e.source \in {"gateway", "network"}
         THEN "half_open"
    ELSE "closed"

RetriedReasons == {"gateway_error", "server_error", "timeout", "payment_failed"}

\* Mutant: the reason is looked at before the gateway.
DecideReasonFirst(e, score) ==
    IF e.optedOut \/ score <= 15 THEN "stop"
    ELSE IF e.source = "business" THEN "escalate_human"
    ELSE IF e.reason \in RetriedReasons THEN "smart_retry"
    ELSE IF SimulatedGateway(e) = "open" THEN "defer"
    ELSE IF e.reason \in {"card_expired", "mandate_revoked"} THEN "payment_link"
    ELSE IF e.hindi THEN "nudge_whatsapp" ELSE "nudge_email"
(* _agent_decide, the stand-in for the treatment arm.                      *)
AgentDecide(e, score) ==
    IF e.optedOut \/ score <= 15 THEN "stop"
    ELSE IF e.source = "business" THEN "escalate_human"
    ELSE IF SimulatedGateway(e) = "open" THEN "defer"
    ELSE IF e.reason \in RetriedReasons THEN "smart_retry"
    ELSE IF e.reason \in {"card_expired", "mandate_revoked"} THEN "payment_link"
    ELSE IF e.hindi THEN "nudge_whatsapp" ELSE "nudge_email"

BaselineRecovers(e) == e.recoverable /\ e.reason \in RetriedReasons

(* The actions that count as the method the ground truth expects.          *)
Matching(method) ==
    CASE method = "smart_retry" -> {"smart_retry", "defer"}
      [] method = "payment_link" -> {"payment_link"}
      [] method = "nudge" -> Nudges
      [] OTHER -> {}

\* Mutant: a retry must match exactly.
AgentRecoversExactly(e, action, score) ==
    /\ e.recoverable /\ action # "defer"
    /\ action \in Matching(ExpectedMethod(e.reason)) /\ score >= 35
AgentRecovers(e, action, score) ==
    /\ e.recoverable /\ action \in Matching(ExpectedMethod(e.reason))
    /\ score >= 35

FalsePositiveCost ==
    [a \in ActionType |->
       CASE a = "nudge_sms" -> 25 [] a = "nudge_whatsapp" -> 50
         [] a = "payment_link" -> 100 [] a = "smart_retry" -> 35
         [] a = "defer" -> 10 [] a = "escalate_human" -> 500
         [] OTHER -> 0]

Row(e, arm, score) ==
    LET action == IF arm = "control" THEN BaselineDecide(0).action ELSE AgentDecide(e, score)
        recovered == IF arm = "control" THEN BaselineRecovers(e)
                                        ELSE AgentRecovers(e, action, score)
    IN [arm |-> arm, action |-> action, score |-> score,
        recovered |-> recovered, revenue |-> IF recovered THEN e.amount ELSE 0,
        cost |-> IF score >= 50 /\ ~e.recoverable THEN FalsePositiveCost[action] ELSE 0]

-----------------------------------------------------------------------------
Init == left = Shares /\ event = None /\ row = None

\* Mutant: the loop runs once too often.
GenerateOneMore(b) ==
    /\ left[b] >= 0 /\ (event = None \/ row # None)
    /\ \E s \in Scenarios[b], a \in Amounts, optedOut, hindi, recoverable \in BOOLEAN :
         /\ recoverable => ~NeverRecovers(s[1], optedOut)
         /\ event' = [source |-> s[1], reason |-> s[2], amount |-> a, optedOut |-> optedOut,
                      hindi |-> hindi, recoverable |-> recoverable]
    /\ left' = [left EXCEPT ![b] = @ - 1]
    /\ row' = None
(* The next event of a bucket.                                             *)
Generate(b) ==
    /\ left[b] > 0 /\ (event = None \/ row # None)
    /\ \E s \in Scenarios[b], a \in Amounts, optedOut, hindi, recoverable \in BOOLEAN :
         /\ recoverable => ~NeverRecovers(s[1], optedOut)
         /\ event' = [source |-> s[1], reason |-> s[2], amount |-> a, optedOut |-> optedOut,
                      hindi |-> hindi, recoverable |-> recoverable]
    /\ left' = [left EXCEPT ![b] = @ - 1]
    /\ row' = None

(* _evaluate_event; the arm is the MD5 bucket of the event's fresh id.     *)
EvaluateEvent ==
    /\ event # None /\ row = None
    /\ \E arm \in {"control", "treatment"}, score \in Scores : row' = Row(event, arm, score)
    /\ UNCHANGED <<left, event>>

Next == EvaluateEvent \/ \E b \in Bucket : Generate(b)

Spec == Init /\ [][Next]_vars

-----------------------------------------------------------------------------
(* Buckets, events and rows have their types.                              *)
TypeOK ==
    /\ left \in [Bucket -> 0..NumEvents]
    /\ event \in Event \cup {None}
    /\ row # None =>
         /\ row.action \in ActionType /\ row.arm \in {"control", "treatment"}
         /\ row.revenue \in {0, event.amount} /\ row.cost \in 0..500

(* The case the live system would have made of the event.                  *)
Profile(arm) ==
    [amount |-> event.amount, optedOut |-> event.optedOut, arm |-> arm,
     category |-> ClassifyFailure(event.source, event.reason),
     phone |-> TRUE, email |-> TRUE, whatsapp |-> TRUE]

(* The evaluation credits a recovery only to an action that the live       *)
(* system could take on the same failure: its overrides may propose it     *)
(* with the gateway in that state for some answer of the model, and        *)
(* check_all lets it through at some hour of the day (BatchEvaluator       *)
(* against strategy_node, channel_node and policy_engine).  It does not    *)
(* say that the live system would choose the same action.                  *)
CreditedActionIsAllowed ==
    row # None /\ row.recovered =>
        /\ \E d \in Decisions(Profile(row.arm), 0, SimulatedGateway(event)) :
              d.action = row.action
        /\ \E t \in 0..23 : CheckAll(Profile(row.arm), 0, Never, row.action, t)

(* The lift the report shows hides no loss: an event the baseline would    *)
(* recover is recovered by the agent as well, unless it was scored below   *)
(* the 0.35 that _simulate_agent_recovery asks for.                        *)
AgentKeepsBaseline ==
    row # None /\ row.score >= 35 /\ BaselineRecovers(event) =>
        AgentRecovers(event, AgentDecide(event, row.score), row.score)

(* The features of a generated event have the category a live case of the  *)
(* same failure is stored with (_infer_failure_category against            *)
(* _classify_failure): the model is served what it was trained on.         *)
CategoriesAgree ==
    event # None =>
        InferFailureCategory(event.source, event.reason)
            = ClassifyFailure(event.source, event.reason)

(* "SYSTEMIC -> defer/retry later, CUSTOMER -> nudge customer, BUSINESS -> *)
(* escalate to merchant": the ground truth expects a recoverable failure   *)
(* to be recovered the way its category is meant to be handled.  A payment *)
(* link counts as a way to reach a customer here, which is wider than the  *)
(* quoted words of classify_node.                                          *)
MethodFitsCategory ==
    event # None /\ event.recoverable =>
        CASE ClassifyFailure(event.source, event.reason) = "systemic" ->
               ExpectedMethod(event.reason) = "smart_retry"
          [] ClassifyFailure(event.source, event.reason) = "customer" ->
               ExpectedMethod(event.reason) \in {"nudge", "payment_link"}
          [] OTHER -> FALSE
=============================================================================
