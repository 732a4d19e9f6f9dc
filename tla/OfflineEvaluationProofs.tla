----------------------- MODULE OfflineEvaluationProofs -----------------------
(* Theorems of OfflineEvaluation, for any batch, amounts and scores.       *)
EXTENDS OfflineEvaluation, TLAPS

(* Every generated event can be what its ground truth says, and a row is   *)
(* the evaluation of the event it stands next to.                          *)
EventInv ==
    event # None =>
        event \in Event /\ (event.recoverable => ~NeverRecovers(event.source, event.optedOut))
RowInv ==
    row # None =>
        /\ event # None
        /\ \E arm \in {"control", "treatment"}, score \in Scores : row = Row(event, arm, score)
EvaluationInv == left \in [Bucket -> 0..NumEvents] /\ EventInv /\ RowInv

-----------------------------------------------------------------------------
LEMMA BucketNames == Bucket = {"systemic", "customer", "subscription", "invoice_checkout"}
BY DEF Bucket, Scenarios

(* The four shares are natural numbers and make up the batch, however      *)
(* num_events rounds.                                                      *)
LEMMA SharesFillBatch ==
    /\ Shares \in [Bucket -> 0..NumEvents]
    /\ Shares.systemic + Shares.customer + Shares.subscription + Shares.invoice_checkout
         = NumEvents
<1> DEFINE share(pct) == (NumEvents * pct) \div 100
<1>1. /\ share(40) \in Nat /\ share(25) \in Nat /\ share(20) \in Nat
      /\ share(40) + share(25) + share(20) <= NumEvents
  BY EvaluationAssumption
<1>2. Shares = [systemic |-> share(40), customer |-> share(25), subscription |-> share(20),
                invoice_checkout |-> NumEvents - share(40) - share(25) - share(20)]
  BY DEF Shares
<1> HIDE DEF share
<1> QED BY <1>1, <1>2, BucketNames, EvaluationAssumption

LEMMA ScenarioTypes ==
    ASSUME NEW b \in Bucket, NEW s \in Scenarios[b] PROVE s[1] \in Source /\ s[2] \in Reason
<1>1. s[2] \in Reason
  BY DEF Reason
<1>2. s[1] \in Source
  BY BucketNames DEF Scenarios, Source
<1> QED BY <1>1, <1>2

LEMMA EvaluationInvariant == Spec => []EvaluationInv
<1>1. Init => EvaluationInv
  BY SharesFillBatch DEF Init, EvaluationInv, EventInv, RowInv
<1>2. ASSUME EvaluationInv, [Next]_vars PROVE EvaluationInv'
  <2>1. ASSUME NEW b \in Bucket, Generate(b) PROVE EvaluationInv'
    <3>1. left' \in [Bucket -> 0..NumEvents]
      BY <1>2, <2>1, EvaluationAssumption DEF Generate, EvaluationInv
    <3>2. PICK s \in Scenarios[b], a \in Amounts, optedOut, hindi, recoverable \in BOOLEAN :
            /\ recoverable => ~NeverRecovers(s[1], optedOut)
            /\ event' = [source |-> s[1], reason |-> s[2], amount |-> a,
                         optedOut |-> optedOut, hindi |-> hindi, recoverable |-> recoverable]
      BY <2>1 DEF Generate
    <3>3. EventInv'
      BY <3>2, ScenarioTypes DEF EventInv, Event
    <3>4. RowInv'
      BY <2>1 DEF Generate, RowInv
    <3> QED BY <3>1, <3>3, <3>4 DEF EvaluationInv
  <2>2. CASE EvaluateEvent
    BY <1>2, <2>2 DEF EvaluateEvent, EvaluationInv, EventInv, RowInv
  <2>3. CASE UNCHANGED vars
    BY <1>2, <2>3 DEF vars, EvaluationInv, EventInv, RowInv
  <2> QED BY <1>2, <2>1, <2>2, <2>3 DEF Next
<1> QED BY <1>1, <1>2, PTL DEF Spec

-----------------------------------------------------------------------------
LEMMA ActionsDecided ==
    ASSUME NEW e, NEW score
    PROVE  AgentDecide(e, score) \in ActionType /\ BaselineDecide(0).action \in ActionType
BY DEF AgentDecide, BaselineDecide, Propose, ActionType, ContactOrRetryActions,
   CustomerContactActions, Nudges

LEMMA CostsBounded == ASSUME NEW a \in ActionType PROVE FalsePositiveCost[a] \in 0..500
BY DEF FalsePositiveCost

(* Rows have their types, for any scores and amounts.                      *)
THEOREM EvaluationTypeCorrect == Spec => []TypeOK
<1>1. EvaluationInv => TypeOK
  <2> SUFFICES ASSUME EvaluationInv, row # None
               PROVE  /\ row.action \in ActionType /\ row.arm \in {"control", "treatment"}
                      /\ row.revenue \in {0, event.amount} /\ row.cost \in 0..500
    BY DEF EvaluationInv, EventInv, TypeOK
  <2>1. PICK arm \in {"control", "treatment"}, score \in Scores : row = Row(event, arm, score)
    BY DEF EvaluationInv, RowInv
  <2>2. row.action \in ActionType
    BY <2>1, ActionsDecided DEF Row
  <2>3. row.cost \in {0, FalsePositiveCost[row.action]}
    BY <2>1 DEF Row
  <2>4. row.arm \in {"control", "treatment"} /\ row.revenue \in {0, event.amount}
    BY <2>1 DEF Row
  <2> QED BY <2>2, <2>3, <2>4, CostsBounded
<1> QED BY <1>1, EvaluationInvariant, PTL

(* A recovery of the baseline is one of the agent, whatever the score from *)
(* 35 up: its retry or deferral matches the expected method                *)
(* (_agent_decide, _simulate_agent_recovery).                              *)
THEOREM LiftHidesNoLoss == Spec => []AgentKeepsBaseline
<1>1. EvaluationInv => AgentKeepsBaseline
  <2> SUFFICES ASSUME EvaluationInv, row # None, row.score >= 35, BaselineRecovers(event)
               PROVE  AgentRecovers(event, AgentDecide(event, row.score), row.score)
    BY DEF AgentKeepsBaseline
  <2>1. row.score \in Nat
    BY EvaluationAssumption DEF EvaluationInv, RowInv, Row
  <2>2. event.recoverable /\ event.reason \in RetriedReasons
    BY DEF BaselineRecovers
  <2>3. ~event.optedOut /\ event.source # "business"
    BY <2>2 DEF EvaluationInv, EventInv, RowInv, NeverRecovers
  <2>4. AgentDecide(event, row.score) \in {"defer", "smart_retry"}
    BY <2>1, <2>2, <2>3 DEF AgentDecide
  <2>5. ExpectedMethod(event.reason) = "smart_retry"
    BY <2>2 DEF ExpectedMethod, RetriedReasons
  <2> QED BY <2>2, <2>4, <2>5 DEF AgentRecovers, Matching
<1> QED BY <1>1, EvaluationInvariant, PTL

-----------------------------------------------------------------------------
(* Every event comes from a scenario of the generator, and every row was   *)
(* computed from the event it stands next to.                              *)
ScenarioInv ==
    event # None => \E b \in Bucket : <<event.source, event.reason>> \in Scenarios[b]

LEMMA ScenarioPairs ==
    ASSUME NEW b \in Bucket, NEW s \in Scenarios[b] PROVE s = <<s[1], s[2]>>
BY BucketNames DEF Scenarios

LEMMA ScenarioInvariant == Spec => []ScenarioInv
<1>1. Init => ScenarioInv
  BY DEF Init, ScenarioInv
<1>2. ASSUME ScenarioInv, [Next]_vars PROVE ScenarioInv'
  <2>1. ASSUME NEW b \in Bucket, Generate(b) PROVE ScenarioInv'
    <3>1. PICK s \in Scenarios[b] : event'.source = s[1] /\ event'.reason = s[2]
      BY <2>1 DEF Generate
    <3>2. <<event'.source, event'.reason>> \in Scenarios[b]
      BY <3>1, ScenarioPairs
    <3> QED BY <3>2 DEF ScenarioInv
  <2> QED BY <1>2, <2>1 DEF Next, EvaluateEvent, vars, ScenarioInv
<1> QED BY <1>1, <1>2, PTL DEF Spec

(* Features and live cases agree on the category of every failure that is  *)
(* generated, for any batch (_infer_failure_category, _classify_failure).  *)
THEOREM TrainedOnWhatIsServed == Spec => []CategoriesAgree
<1>1. ScenarioInv => CategoriesAgree
  <2> SUFFICES ASSUME NEW b \in Bucket, NEW source, NEW reason,
                      <<source, reason>> \in Scenarios[b]
               PROVE  InferFailureCategory(source, reason) = ClassifyFailure(source, reason)
    BY DEF ScenarioInv, CategoriesAgree
  <2>1. CASE b = "systemic"
    BY <2>1 DEF Scenarios, InferFailureCategory, ClassifyFailure
  <2>2. CASE b = "customer"
    BY <2>2 DEF Scenarios, InferFailureCategory, ClassifyFailure
  <2>3. CASE b = "subscription"
    BY <2>3 DEF Scenarios, InferFailureCategory, ClassifyFailure
  <2>4. CASE b = "invoice_checkout"
    BY <2>4 DEF Scenarios, InferFailureCategory, ClassifyFailure
  <2> QED BY <2>1, <2>2, <2>3, <2>4, BucketNames
<1> QED BY <1>1, ScenarioInvariant, PTL

(* A recoverable failure is expected to be recovered the way its category  *)
(* is handled (_expected_method, classify_node), for any batch.            *)
THEOREM GroundTruthFitsCategories == Spec => []MethodFitsCategory
<1>1. EvaluationInv /\ ScenarioInv => MethodFitsCategory
  <2> SUFFICES ASSUME NEW b \in Bucket, NEW source, NEW reason, source # "business",
                      <<source, reason>> \in Scenarios[b]
               PROVE  CASE ClassifyFailure(source, reason) = "systemic" ->
                             ExpectedMethod(reason) = "smart_retry"
                        [] ClassifyFailure(source, reason) = "customer" ->
                             ExpectedMethod(reason) \in {"nudge", "payment_link"}
                        [] OTHER -> FALSE
    BY DEF EvaluationInv, EventInv, ScenarioInv, NeverRecovers, MethodFitsCategory
  <2>1. CASE b = "systemic"
    BY <2>1 DEF Scenarios, ExpectedMethod, ClassifyFailure
  <2>2. CASE b = "customer"
    BY <2>2 DEF Scenarios, ExpectedMethod, ClassifyFailure
  <2>3. CASE b = "subscription"
    BY <2>3 DEF Scenarios, ExpectedMethod, ClassifyFailure
  <2>4. CASE b = "invoice_checkout"
    BY <2>4 DEF Scenarios, ExpectedMethod, ClassifyFailure
  <2> QED BY <2>1, <2>2, <2>3, <2>4, BucketNames
<1> QED BY <1>1, EvaluationInvariant, ScenarioInvariant, PTL

-----------------------------------------------------------------------------
(* Whatever the quiet hours, the hour they end at is not one of them, and  *)
(* it comes within a day.                                                  *)
LEMMA SomeHourIsNotQuiet == \E t \in 0..23 : ~InQuietHours(HourOfDay(t))
<1>1. ~InQuietHours(QuietEnd)
  BY PolicyAssumption DEF InQuietHours
<1>2. PICK t \in 0..23 : (StartHour + t) % 24 = QuietEnd
  <2>1. CASE StartHour <= QuietEnd
    <3>1. QuietEnd - StartHour \in 0..23 /\ (StartHour + (QuietEnd - StartHour)) % 24 = QuietEnd
      BY <2>1, PolicyAssumption
    <3> QED BY <3>1
  <2>2. CASE StartHour > QuietEnd
    <3>1. /\ 24 + QuietEnd - StartHour \in 0..23
          /\ (StartHour + (24 + QuietEnd - StartHour)) % 24 = QuietEnd
      BY <2>2, PolicyAssumption
    <3> QED BY <3>1
  <2> QED BY <2>1, <2>2, PolicyAssumption
<1> QED BY <1>1, <1>2 DEF HourOfDay

LEMMA DrawnAmounts == ASSUME NEW a \in Amounts PROVE a \in Nat /\ a >= 10000
<1>1. a \in Nat
  BY EvaluationAssumption, SMT
<1>2. a >= 10000
  BY <1>1, EvaluationAssumption, SMT
<1> QED BY <1>1, <1>2

(* What check_all asks of the first action on a case.                      *)
LEMMA FirstActionIsAllowed ==
    ASSUME NEW p, NEW action, ~p.optedOut, p.amount \in Nat, p.amount >= MinAmount, MaxRetry > 0
    PROVE  \E t \in 0..23 : CheckAll(p, 0, Never, action, t)
BY SomeHourIsNotQuiet DEF CheckAll

(* The actions the treatment arm is credited for, and the gateway states   *)
(* they are decided in.                                                    *)
LEMMA CreditedActions ==
    ASSUME NEW e, NEW score \in Nat, ~e.optedOut, e.source # "business",
           AgentRecovers(e, AgentDecide(e, score), score)
    PROVE  /\ SimulatedGateway(e) = "open" => AgentDecide(e, score) = "defer"
           /\ SimulatedGateway(e) # "open" =>
                AgentDecide(e, score) \in {"smart_retry", "payment_link",
                                          "nudge_whatsapp", "nudge_email"}
BY DEF AgentRecovers, AgentDecide

(* The evaluation credits only actions that the live system could take, if *)
(* the limits leave room for a first action (MAX_RETRY_ATTEMPTS, the INR   *)
(* 100 floor at most the smallest amount drawn, a retry schedule) and the  *)
(* model may propose each of the actions the stand-in decides.             *)
THEOREM CreditIsAttainable ==
    ASSUME MaxRetry > 0, BaselineRetries > 0, MinAmount <= 10000, LLMChannels # {},
           {"smart_retry", "payment_link", "nudge_whatsapp", "nudge_email"} \subseteq LLMActions
    PROVE  Spec => []CreditedActionIsAllowed
<1>1. EvaluationInv => CreditedActionIsAllowed
  <2> SUFFICES ASSUME EvaluationInv, row # None, row.recovered
               PROVE  /\ \E d \in Decisions(Profile(row.arm), 0, SimulatedGateway(event)) :
                           d.action = row.action
                      /\ \E t \in 0..23 : CheckAll(Profile(row.arm), 0, Never, row.action, t)
    BY DEF CreditedActionIsAllowed
  <2> DEFINE p == Profile(row.arm)
             g == SimulatedGateway(event)
  <2>1. PICK arm \in {"control", "treatment"}, score \in Scores : row = Row(event, arm, score)
    BY DEF EvaluationInv, RowInv
  <2>2. event \in Event /\ event.recoverable
    <3>1. event \in Event
      BY DEF EvaluationInv, EventInv, RowInv
    <3>2. CASE ~event.recoverable
      <4>1. /\ BaselineRecovers(event) = FALSE
            /\ AgentRecovers(event, AgentDecide(event, score), score) = FALSE
        BY <3>2 DEF BaselineRecovers, AgentRecovers
      <4>2. row.recovered = FALSE
        BY <2>1, <4>1 DEF Row
      <4> QED BY <4>2
    <3>3. event.recoverable
      BY <3>1, <3>2 DEF Event
    <3> QED BY <3>1, <3>3
  <2>3. ~event.optedOut /\ event.source # "business"
    BY <2>2 DEF EvaluationInv, EventInv, RowInv, NeverRecovers
  <2>4. /\ p.optedOut = event.optedOut /\ p.amount = event.amount /\ p.arm = row.arm
        /\ p.category = ClassifyFailure(event.source, event.reason)
        /\ p.phone /\ p.email /\ p.whatsapp
    BY DEF Profile
  <2>5. event.amount \in Nat /\ event.amount >= MinAmount
    <3>1. event.amount \in Amounts
      BY <2>2 DEF Event
    <3> QED BY <3>1, DrawnAmounts, PolicyAssumption, SMT
  <2>6. \E t \in 0..23 : CheckAll(p, 0, Never, row.action, t)
    BY <2>3, <2>4, <2>5, FirstActionIsAllowed
  <2>7. CASE arm = "control"
    <3>1. row.arm = "control" /\ row.action = BaselineDecide(0).action
      BY <2>1, <2>7 DEF Row
    <3>2. Decisions(p, 0, g) = {BaselineDecide(0)}
      BY <2>4, <3>1 DEF Decisions
    <3> QED BY <2>6, <3>1, <3>2
  <2>8. CASE arm = "treatment"
    <3>1. /\ row.arm = "treatment" /\ row.action = AgentDecide(event, score)
          /\ AgentRecovers(event, AgentDecide(event, score), score)
      BY <2>1, <2>8 DEF Row
    <3>2. score \in Nat
      BY EvaluationAssumption
    <3>3. Decisions(p, 0, g) = UNION {SelectChannel(p, d) : d \in Strategize(p, 0, g)}
      BY <2>4, <3>1 DEF Decisions
    <3>4. CASE g = "open"
      <4>1. row.action = "defer"
        BY <2>3, <3>1, <3>2, <3>4, CreditedActions
      <4>2. Strategize(p, 0, g) = {Propose("defer", "none")}
        BY <3>4 DEF Strategize, Overrides
      <4>3. SelectChannel(p, Propose("defer", "none")) = {Propose("defer", "none")}
        BY DEF SelectChannel, Propose, Nudges
      <4>4. Propose("defer", "none") \in Decisions(p, 0, g)
        BY <3>3, <4>2, <4>3
      <4> QED BY <2>6, <4>1, <4>4 DEF Propose
    <3>5. CASE g # "open"
      <4>1. row.action \in {"smart_retry", "payment_link", "nudge_whatsapp", "nudge_email"}
        BY <2>3, <3>1, <3>2, <3>5, CreditedActions
      <4>2. p.category # "business"
        BY <2>3, <2>4 DEF ClassifyFailure
      <4>3. Overrides(p, 0, g) = {}
        BY <2>3, <2>4, <3>5, <4>2, PolicyAssumption DEF Overrides
      <4>4. PICK ch \in LLMChannels : TRUE
        OBVIOUS
      <4>5. Propose(row.action, ch) \in Strategize(p, 0, g)
        BY <4>1, <4>3, <4>4 DEF Strategize
      <4>6. CASE row.action \in {"smart_retry", "payment_link"}
        <5>1. SelectChannel(p, Propose(row.action, ch)) = {Propose(row.action, ch)}
          BY <4>6 DEF SelectChannel, Propose, Nudges
        <5>2. Propose(row.action, ch) \in Decisions(p, 0, g)
          BY <3>3, <4>5, <5>1
        <5> QED BY <2>6, <5>2 DEF Propose
      <4>7. CASE row.action \in {"nudge_whatsapp", "nudge_email"}
        <5>1. {"email", "whatsapp"} \subseteq EligibleChannels(p)
          BY <2>3, <2>4 DEF EligibleChannels
        <5>2. PICK to \in {"email", "whatsapp"} : NudgeOn[to] = row.action
          BY <4>7 DEF NudgeOn
        <5>3. Propose(row.action, to) \in SelectChannel(p, Propose(row.action, ch))
          BY <4>7, <5>1, <5>2 DEF SelectChannel, Propose, Nudges
        <5>4. Propose(row.action, to) \in Decisions(p, 0, g)
          BY <3>3, <4>5, <5>3
        <5> QED BY <2>6, <5>4 DEF Propose
      <4> QED BY <4>1, <4>6, <4>7
    <3> QED BY <3>4, <3>5
  <2> QED BY <2>7, <2>8
<1> QED BY <1>1, EvaluationInvariant, PTL
=============================================================================
