----------------------- MODULE RecoveryPipelineProofs -----------------------
(* Theorems of RecoveryPipeline, for any workers, cases and constants.     *)
EXTENDS RecoveryPipeline, FiniteSetTheorems, TLAPS

(* Whatever the arm and the model answer, a proposal is a known action on  *)
(* a known channel (strategy_node, channel_node, baseline).                *)
LEMMA DecisionType ==
    ASSUME NEW p \in ProfileType, NEW r \in Nat, NEW g \in GatewayState,
           NEW d \in Decisions(p, r, g)
    PROVE  d \in Decision
<1> USE PolicyAssumption DEF Decision, Propose, ActionType, Channel,
        ContactOrRetryActions, CustomerContactActions, Nudges
<1>1. BaselineDecide(r) \in Decision
  BY DEF BaselineDecide
<1>2. \A s \in Strategize(p, r, g) : s \in Decision
  <2>1. Overrides(p, r, g) \subseteq ActionType
    BY DEF Overrides
  <2>2. QED BY <2>1 DEF Strategize
<1>3. \A s \in Decision : SelectChannel(p, s) \subseteq Decision
  <2>1. EligibleChannels(p) \subseteq {"sms", "email", "whatsapp"}
    BY DEF EligibleChannels
  <2>2. \A ch \in {"sms", "email", "whatsapp"} : NudgeOn[ch] \in Nudges
    BY DEF NudgeOn
  <2>3. QED BY <2>1, <2>2 DEF SelectChannel
<1>4. CASE p.arm = "control"
  BY <1>1, <1>4 DEF Decisions
<1>5. CASE p.arm # "control"
  <2>1. PICK s \in Strategize(p, r, g) : d \in SelectChannel(p, s)
    BY <1>5 DEF Decisions
  <2>2. QED BY <1>2, <1>3, <2>1
<1>6. QED BY <1>4, <1>5

LEMMA OutcomeType ==
    ASSUME TypeOK, NEW w \in Workers, pc[w] = "execute"
    PROVE  Outcome(w) \in Execution
BY DEF TypeOK, Outcome, Execution, Job

(* What any step keeps of the worker it moves: a known label, a typed job. *)
LEMMA WorkerStepType ==
    ASSUME TypeOK, NEW w \in Workers, WorkerStep(w)
    PROVE  TypeOK'
<1> USE DEF TypeOK, db, api, Goto, PC, TxnPC
<1> job[w] \in Job OBVIOUS
<1>1. CASE Pop(w)
  <2> queue[Len(queue)] \in Cases /\ SubSeq(queue, 1, Len(queue) - 1) \in Seq(Cases)
    BY <1>1 DEF Pop
  <2> [job[w] EXCEPT !.case = queue[Len(queue)]] \in Job
    BY DEF Job
  <2> QED BY <1>1 DEF Pop
<1>2. CASE Load(w)
  <2> DEFINE row == cases[job[w].case]
  <2> row.retry \in Nat /\ row.last \in Nat \cup {Never}
    BY <1>2 DEF Load
  <2> [job[w] EXCEPT !.retry = row.retry, !.last = row.last] \in Job
    BY DEF Job
  <2> job' = [job EXCEPT ![w] = [job[w] EXCEPT !.retry = row.retry, !.last = row.last]]
    BY <1>2 DEF Load
  <2> QED BY <1>2 DEF Load, Job
<1>3. CASE Lock(w)
  <2>1. CASE job' = job
    BY <1>3, <2>1 DEF Lock
  <2>2. ASSUME NEW a \in ApprovalIds, job' = [job EXCEPT ![w].appr = a]
        PROVE  TypeOK'
    <3>1. [job[w] EXCEPT !.appr = a] \in Job
      BY DEF Job
    <3>2. job' = [job EXCEPT ![w] = [job[w] EXCEPT !.appr = a]]
      BY <2>2
    <3> QED BY <1>3, <3>1, <3>2 DEF Lock, Job
  <2>3. job' = job \/ \E a \in ApprovalIds : job' = [job EXCEPT ![w].appr = a]
    BY <1>3 DEF Lock, ActiveApproval, Approved
  <2> QED BY <2>1, <2>2, <2>3
<1>4. CASE Decide(w)
  <2>0. PICK g \in Gateways : \E d \in Decisions(P(w), job[w].retry, g) :
          job' = [job EXCEPT ![w].gateway = g,
                             ![w].action = d.action, ![w].channel = d.channel]
    BY <1>4 DEF Decide
  <2>1. PICK d \in Decisions(P(w), job[w].retry, g) :
          job' = [job EXCEPT ![w].gateway = g,
                             ![w].action = d.action, ![w].channel = d.channel]
    BY <2>0
  <2>2. P(w) \in ProfileType /\ job[w].retry \in Nat /\ g \in GatewayState
    BY <1>4, PipelineAssumption DEF Decide, P, Job
  <2>3. d.action \in ActionType /\ d.channel \in Channel
    BY <2>2, DecisionType DEF Decision
  <2>4. job' = [job EXCEPT ![w] = [job[w] EXCEPT !.gateway = g, !.action = d.action,
                                                 !.channel = d.channel]]
    BY <2>1
  <2>5. [job[w] EXCEPT !.gateway = g, !.action = d.action, !.channel = d.channel] \in Job
    BY <2>2, <2>3 DEF Job
  <2> QED BY <1>4, <2>4, <2>5 DEF Decide, Job
<1>5. CASE GraphFails(w) \/ PolicyAllows(w) \/ ApprovalRequired(w) \/ PersistFails(w)
  BY <1>5 DEF GraphFails, PolicyAllows, ApprovalRequired, PersistFails
<1>6. CASE PolicyBlocks(w)
  <2> [job[w] EXCEPT !.action = "stop", !.channel = "none"] \in Job
    BY DEF Job, ActionType, Channel
  <2> job' = [job EXCEPT ![w] = [job[w] EXCEPT !.action = "stop", !.channel = "none"]]
    BY <1>6 DEF PolicyBlocks
  <2> QED BY <1>6 DEF PolicyBlocks, Job
<1>7. CASE RequestApproval(w)
  <2>1. PICK a \in ApprovalIds :
          job' = [job EXCEPT ![w].request = a, ![w].expires = now + ApprovalTTL]
    BY <1>7 DEF RequestApproval
  <2>2. [job[w] EXCEPT !.request = a, !.expires = now + ApprovalTTL] \in Job
    <3>1. now + ApprovalTTL \in Nat
      BY PipelineAssumption
    <3> QED BY <3>1 DEF Job
  <2>3. job' = [job EXCEPT ![w] = [job[w] EXCEPT !.request = a, !.expires = now + ApprovalTTL]]
    BY <2>1
  <2> QED BY <1>7, <2>2, <2>3 DEF RequestApproval, Job
<1>9. CASE ExecuteAction(w)
  <2>1. Outcome(w) \in Execution
    BY OutcomeType, <1>9 DEF ExecuteAction
  <2>2. [job[w] EXCEPT !.done = {Outcome(w)}] \in Job
    BY <2>1 DEF Job
  <2> QED BY <1>9, <2>1, <2>2 DEF ExecuteAction
<1>10. CASE PaymentLinkFails(w)
  <2>1. Outcome(w) \in Execution
    BY OutcomeType, <1>10 DEF PaymentLinkFails
  <2>2. performed' \in Seq(Execution)
    <3>1. Append(performed, Outcome(w)) \in Seq(Execution)
      BY <2>1
    <3>2. performed' = performed \/ performed' = Append(performed, Outcome(w))
      BY <1>10 DEF PaymentLinkFails
    <3> QED BY <3>1, <3>2
  <2> QED BY <1>10, <2>2 DEF PaymentLinkFails
<1>11. NoJob \in Job
  BY DEF NoJob, Job, GatewayState, ActionType, Channel
<1>12. CASE Persist(w)
  <2>1. UpdatedRow(w, cases[job[w].case])
          \in [status: Status, retry: Nat, last: Nat \cup {Never}]
    <3>1. CaseStatus(w) \in Status
      BY DEF CaseStatus, Status
    <3>2. cases[job[w].case] \in [status: Status, retry: Nat, last: Nat \cup {Never}]
      BY <1>12 DEF Persist
    <3>3. job[w].retry + 1 \in Nat
      BY DEF Job
    <3> QED BY <3>1, <3>2, <3>3 DEF UpdatedRow
  <2>2. PendingApproval(w) \in Approval
    BY <1>12 DEF Persist, PendingApproval, Approval, Job
  <2>3. job[w].done \subseteq Execution
    BY DEF Job
  <2>4. approvals' \in [ApprovalIds -> Approval \cup {NoRow}]
    BY <1>12, <2>2 DEF Persist
  <2> QED BY <1>11, <1>12, <2>1, <2>3, <2>4 DEF Persist, Finish
<1>13. CASE RecordFailure(w)
  BY <1>11, <1>13 DEF RecordFailure, Finish, Status
<1>14. QED BY <1>1, <1>2, <1>3, <1>4, <1>5, <1>6, <1>7, <1>9, <1>10, <1>12, <1>13
         DEF WorkerStep

(* The types of the rows, the queue and the workers' locals hold in every  *)
(* state.                                                                  *)
THEOREM TypeCorrect == Spec => []TypeOK
<1>1. Init => TypeOK
  BY PipelineAssumption DEF Init, TypeOK, Status, PC, NoJob, Job, GatewayState,
     ActionType, Channel, Never
<1>2. TypeOK /\ [Next]_vars => TypeOK'
  <2> SUFFICES ASSUME TypeOK, [Next]_vars PROVE TypeOK'
    OBVIOUS
  <2>1. ASSUME NEW w \in Workers, WorkerStep(w) PROVE TypeOK'
    BY <2>1, WorkerStepType
  <2>2. ASSUME NEW w \in Workers, Crash(w) PROVE TypeOK'
    <3> NoJob \in Job
      BY DEF NoJob, Job, GatewayState, ActionType, Channel
    <3> QED BY <2>2 DEF Crash, Finish, TypeOK, db, api, PC
  <2>3. ASSUME NEW a \in ApprovalIds, Approve(a) PROVE TypeOK'
    <3> approvals[a] \in Approval
      BY <2>3 DEF Approve, TypeOK
    <3> [approvals[a] EXCEPT !.status = "APPROVED", !.approvedAt = now] \in Approval
      BY DEF Approval, TypeOK
    <3> approvals[a].case \in Cases
      BY DEF Approval
    <3> QED BY <2>3 DEF Approve, TypeOK
  <2>4. ASSUME NEW a \in ApprovalIds, Reject(a) PROVE TypeOK'
    <3> approvals[a] \in Approval
      BY <2>4 DEF Reject, TypeOK
    <3> [approvals[a] EXCEPT !.status = "REJECTED", !.approvedAt = now] \in Approval
      BY DEF Approval, TypeOK
    <3> QED BY <2>4 DEF Reject, TypeOK, api
  <2>5. ASSUME NEW t \in Cases \X (ApprovalIds \cup {None}), Enqueue(t) PROVE TypeOK'
    <3>1. PICK n \in Pushes : queue' = [i \in 1..n |-> t[1]] \o queue
      BY <2>5 DEF Enqueue
    <3>2. [i \in 1..n |-> t[1]] \in Seq(Cases)
      BY <3>1, PipelineAssumption
    <3>3. queue' \in Seq(Cases)
      BY <3>1, <3>2 DEF TypeOK
    <3> QED BY <2>5, <3>3 DEF Enqueue, TypeOK, db
  <2>6. CASE Tick
    BY <2>6, PipelineAssumption DEF Tick, TypeOK, db, api
  <2>7. CASE UNCHANGED vars
    BY <2>7 DEF vars, db, api, TypeOK
  <2>8. QED BY <2>1, <2>2, <2>3, <2>4, <2>5, <2>6, <2>7 DEF Next, HandlerStep
<1>3. QED BY <1>1, <1>2, PTL DEF Spec

-----------------------------------------------------------------------------
(* The argument for HighValueNeedsApproval.  An approval row exists and is *)
(* granted before it can be APPROVED, its case and expiry never change,    *)
(* and the approval a run carries is a granted one of the run's case.      *)
GrantInv ==
    /\ \A a \in granted : approvals[a] # NoRow
    /\ \A a \in ApprovalIds : approvals[a].status = "APPROVED" => a \in granted
    /\ \A w \in Workers : pc[w] \in {"idle", "load", "lock"} => job[w].appr = None
    /\ \A w \in Workers : job[w].appr # None =>
         /\ job[w].appr \in granted
         /\ approvals[job[w].appr].case = job[w].case
    /\ \A w \in Workers : pc[w] = "execute" => job[w].action # "stop"

IInv == TypeOK /\ GrantInv /\ HighValueNeedsApproval

(* Rows are only added, and what makes an approval valid does not change.  *)
LEMMA ApprovalsKept ==
    ASSUME TypeOK, TypeOK', GrantInv, [Next]_vars
    PROVE  /\ granted \subseteq granted'
           /\ \A a \in granted : /\ approvals'[a] # NoRow
                                 /\ approvals'[a].case = approvals[a].case
                                 /\ approvals'[a].expires = approvals[a].expires
<1> DEFINE Kept == /\ granted \subseteq granted'
                   /\ \A a \in granted : /\ approvals'[a] # NoRow
                                         /\ approvals'[a].case = approvals[a].case
                                         /\ approvals'[a].expires = approvals[a].expires
<1>1. \A a \in granted : approvals[a] \in Approval /\ approvals[a] # NoRow
  BY DEF GrantInv, TypeOK
<1>2. CASE UNCHANGED <<approvals, granted>>
  BY <1>1, <1>2
<1>3. ASSUME NEW w \in Workers, Persist(w) PROVE Kept
  <2>1. granted' = granted
    BY <1>3 DEF Persist, api
  <2>2. \A a \in granted : approvals'[a] = approvals[a]
    BY <1>1, <1>3 DEF Persist, TypeOK
  <2> QED BY <1>1, <2>1, <2>2
<1>4. ASSUME NEW b \in ApprovalIds, Approve(b) \/ Reject(b) PROVE Kept
  <2>1. granted \subseteq granted'
    BY <1>4 DEF Approve, Reject, api
  <2>2. approvals[b] \in Approval
    BY <1>4 DEF Approve, Reject, TypeOK
  <2>3. \E s \in {"APPROVED", "REJECTED"} :
          approvals' = [approvals EXCEPT ![b] =
                          [approvals[b] EXCEPT !.status = s, !.approvedAt = now]]
    BY <1>4 DEF Approve, Reject
  <2>4. \A a \in granted : a # b => approvals'[a] = approvals[a]
    BY <2>3 DEF TypeOK
  <2>5. /\ approvals'[b].case = approvals[b].case
        /\ approvals'[b].expires = approvals[b].expires
        /\ approvals'[b].status # "absent"
    BY <2>2, <2>3 DEF Approval, TypeOK
  <2>6. approvals'[b] # NoRow
    BY <2>5 DEF NoRow
  <2> QED BY <1>1, <2>1, <2>4, <2>5, <2>6
<1>5. ASSUME NEW w \in Workers, WorkerStep(w), ~Persist(w)
      PROVE  UNCHANGED <<approvals, granted>>
  BY <1>5 DEF WorkerStep, db, api, Pop, Load, Lock, Decide, GraphFails, PolicyBlocks,
     PolicyAllows, RequestApproval, ExecuteAction, ApprovalRequired,
     PaymentLinkFails, PersistFails, RecordFailure
<1>6. ASSUME NEW w \in Workers, Crash(w) PROVE UNCHANGED <<approvals, granted>>
  BY <1>6 DEF Crash, db, api
<1>7. CASE HandlerStep \/ Tick \/ UNCHANGED vars
  <2> UNCHANGED <<approvals, granted>>
    BY <1>7 DEF HandlerStep, Enqueue, Tick, vars, db, api
  <2> QED BY <1>2
<1>8. QED BY <1>2, <1>3, <1>4, <1>5, <1>6, <1>7 DEF Next

(* An action is performed only by a run whose approval, if the case needs  *)
(* one, is valid at that moment.                                           *)
LEMMA PerformedIsApproved ==
    ASSUME IInv, NEW w \in Workers, pc[w] = "execute",
           ~NeedsApproval(P(w), job[w].action, ReadExpiry(w), now)
    PROVE  profile[Outcome(w).case].amount > HighValueThreshold =>
             \E a \in granted : /\ approvals[a].case = Outcome(w).case
                                /\ Outcome(w).at < approvals[a].expires
<1> SUFFICES ASSUME P(w).amount > HighValueThreshold
             PROVE  \E a \in granted : /\ approvals[a].case = job[w].case
                                       /\ now < approvals[a].expires
  BY DEF Outcome, P
<1>1. PICK e \in ReadExpiry(w) : e > now
  BY DEF NeedsApproval, HasValidApproval, IInv, GrantInv
<1>2. job[w].appr # None /\ e = approvals[job[w].appr].expires
  BY <1>1 DEF ReadExpiry
<1>3. job[w].appr \in granted /\ approvals[job[w].appr].case = job[w].case
  BY <1>2 DEF IInv, GrantInv
<1>4. job[w].appr \in ApprovalIds
  BY <1>3 DEF IInv, TypeOK
<1>5. approvals[job[w].appr] \in Approval
  BY <1>3, <1>4 DEF IInv, GrantInv, TypeOK
<1>6. e \in Nat /\ now \in Nat
  BY <1>2, <1>5 DEF Approval, IInv, TypeOK
<1> QED BY <1>1, <1>2, <1>3, <1>6

LEMMA GrantInvStep ==
    ASSUME TypeOK, TypeOK', GrantInv, [Next]_vars
    PROVE  GrantInv'
<1> DEFINE Running(v) ==
      /\ pc'[v] \in {"idle", "load", "lock"} => job'[v].appr = None
      /\ job'[v].appr # None => /\ job'[v].appr \in granted'
                                /\ approvals'[job'[v].appr].case = job'[v].case
      /\ pc'[v] = "execute" => job'[v].action # "stop"
<1>1. \A a \in granted' : approvals'[a] # NoRow
  <2>1. \A a \in granted : approvals'[a] # NoRow
    BY ApprovalsKept
  <2>2. ASSUME NEW b \in ApprovalIds, Approve(b)
        PROVE  granted' = granted \cup {b} /\ approvals'[b] # NoRow
    BY <2>2 DEF Approve, Approval, NoRow, TypeOK
  <2>3. ASSUME \A b \in ApprovalIds : ~Approve(b) PROVE granted' = granted
    BY <2>3 DEF Next, HandlerStep, WorkerStep, vars, db, api, Pop, Load, Lock, Decide,
       GraphFails, PolicyBlocks, PolicyAllows, RequestApproval, ExecuteAction,
       ApprovalRequired, PaymentLinkFails, Persist, PersistFails, RecordFailure,
       Crash, Reject, Enqueue, Tick
  <2> QED BY <2>1, <2>2, <2>3
<1>2. \A a \in ApprovalIds : approvals'[a].status = "APPROVED" => a \in granted'
  <2> SUFFICES ASSUME NEW a \in ApprovalIds, approvals'[a].status = "APPROVED",
                      a \notin granted'
               PROVE  FALSE
    OBVIOUS
  <2>1. a \notin granted /\ approvals[a].status # "APPROVED"
    BY ApprovalsKept DEF GrantInv
  <2>2. approvals'[a] # approvals[a]
    BY <2>1
  <2>3. ASSUME NEW w \in Workers, Persist(w) PROVE FALSE
    BY <2>2, <2>3 DEF Persist, PendingApproval
  <2>4. ASSUME NEW b \in ApprovalIds, Approve(b) PROVE FALSE
    BY <2>2, <2>4 DEF Approve, TypeOK
  <2>5. ASSUME NEW b \in ApprovalIds, Reject(b) PROVE FALSE
    <3>1. approvals[b] \in Approval
      BY <2>5 DEF Reject, TypeOK
    <3> QED BY <2>2, <2>5, <3>1 DEF Reject, TypeOK, Approval
  <2>6. \/ \E w \in Workers : Persist(w)
        \/ \E b \in ApprovalIds : Approve(b) \/ Reject(b)
    BY <2>2 DEF Next, HandlerStep, WorkerStep, vars, db, api, Pop, Load, Lock, Decide,
       GraphFails, PolicyBlocks, PolicyAllows, RequestApproval, ExecuteAction,
       ApprovalRequired, PaymentLinkFails, PersistFails, RecordFailure,
       Crash, Enqueue, Tick
  <2> QED BY <2>3, <2>4, <2>5, <2>6
<1>3. ASSUME NEW v \in Workers, pc'[v] = pc[v], job'[v] = job[v] PROVE Running(v)
  BY <1>3, ApprovalsKept DEF GrantInv
<1>4. ASSUME NEW w \in Workers, WorkerStep(w) \/ Crash(w), NEW v \in Workers
      PROVE  Running(v)
  <2>1. v # w => pc'[v] = pc[v] /\ job'[v] = job[v]
    BY <1>4 DEF TypeOK, WorkerStep, Goto, Finish, Pop, Load, Lock, Decide, GraphFails,
       PolicyBlocks, PolicyAllows, RequestApproval, ExecuteAction, ApprovalRequired,
       PaymentLinkFails, Persist, PersistFails, RecordFailure, Crash
  <2>2. CASE Persist(w) \/ RecordFailure(w) \/ Crash(w)
    BY <2>1, <2>2, <1>3 DEF Persist, RecordFailure, Crash, Finish, NoJob, TypeOK
  <2>3. CASE Lock(w)
    <3>1. job'[w].appr # None => job'[w].appr \in ActiveApproval(job[w].case)
      BY <2>3 DEF Lock, TypeOK, Job, GrantInv
    <3>2. job'[w].case = job[w].case /\ pc'[w] = "graph"
      BY <2>3 DEF Lock, Goto, TypeOK, Job
    <3>3. UNCHANGED <<approvals, granted>>
      BY <2>3 DEF Lock, db, api
    <3> QED BY <2>1, <1>3, <3>1, <3>2, <3>3 DEF ActiveApproval, Approved, GrantInv
  <2>4. CASE Pop(w) \/ Load(w)
    <3>1. job'[w].appr = None /\ pc'[w] \in {"load", "lock"}
      BY <2>4 DEF Pop, Load, Goto, TypeOK, Job, GrantInv
    <3> QED BY <2>1, <1>3, <3>1
  <2>5. CASE PolicyAllows(w)
    <3>1. job'[w] = job[w] /\ pc'[w] \in {"request", "persist", "execute"}
      BY <2>5 DEF PolicyAllows, Goto, TypeOK
    <3>2. pc'[w] = "execute" => job[w].action # "stop"
      BY <2>5 DEF PolicyAllows, Goto, TypeOK
    <3> QED BY <2>1, <1>3, <3>1, <3>2, ApprovalsKept DEF GrantInv
  <2>6. CASE \/ Decide(w) \/ GraphFails(w) \/ PolicyBlocks(w) \/ RequestApproval(w)
             \/ ExecuteAction(w) \/ ApprovalRequired(w) \/ PaymentLinkFails(w)
             \/ PersistFails(w)
    <3>1. pc'[w] \in {"policy", "failed", "persist"}
      BY <2>6 DEF Goto, TypeOK, Decide, GraphFails, PolicyBlocks, RequestApproval,
         ExecuteAction, ApprovalRequired, PaymentLinkFails, PersistFails
    <3>2. job'[w].appr = job[w].appr /\ job'[w].case = job[w].case
      <4>1. CASE Decide(w)
        BY <4>1 DEF Decide, TypeOK, Job
      <4>2. CASE PolicyBlocks(w)
        BY <4>2 DEF PolicyBlocks, TypeOK, Job
      <4>3. CASE RequestApproval(w)
        BY <4>3 DEF RequestApproval, TypeOK, Job
      <4>4. CASE ExecuteAction(w)
        BY <4>4 DEF ExecuteAction, TypeOK, Job
      <4>5. CASE GraphFails(w) \/ ApprovalRequired(w) \/ PaymentLinkFails(w) \/ PersistFails(w)
        BY <4>5 DEF GraphFails, ApprovalRequired, PaymentLinkFails, PersistFails
      <4> QED BY <2>6, <4>1, <4>2, <4>3, <4>4, <4>5
    <3> QED BY <2>1, <1>3, <3>1, <3>2, ApprovalsKept DEF GrantInv
  <2> QED BY <1>4, <2>2, <2>3, <2>4, <2>5, <2>6 DEF WorkerStep
<1>5. ASSUME NEW v \in Workers,
             ~(\E w \in Workers : WorkerStep(w) \/ Crash(w))
      PROVE  Running(v)
  <2> pc' = pc /\ job' = job
    BY <1>5 DEF Next, HandlerStep, Enqueue, Approve, Reject, Tick, vars
  <2> QED BY <1>3
<1>6. QED BY <1>1, <1>2, <1>4, <1>5 DEF GrantInv

LEMMA IInvInit == Init => IInv
<1>1. Init => TypeOK
  BY PipelineAssumption DEF Init, TypeOK, Status, PC, NoJob, Job, GatewayState,
     ActionType, Channel, Never
<1>2. Init => GrantInv
  BY DEF Init, GrantInv, NoRow, NoJob
<1>3. Init => HighValueNeedsApproval
  BY DEF Init, HighValueNeedsApproval
<1> QED BY <1>1, <1>2, <1>3 DEF IInv

LEMMA IInvStep ==
    ASSUME IInv, TypeOK', [Next]_vars
    PROVE  IInv'
<1> SUFFICES HighValueNeedsApproval'
  BY GrantInvStep DEF IInv
<1> DEFINE Gated(x) == profile[x.case].amount > HighValueThreshold =>
             \E a \in granted : /\ approvals[a].case = x.case
                                /\ x.at < approvals[a].expires
<1>1. profile' = profile
  BY DEF Next, HandlerStep, WorkerStep, vars, db, api, Pop, Load, Lock, Decide,
     GraphFails, PolicyBlocks, PolicyAllows, RequestApproval, ExecuteAction,
     ApprovalRequired, PaymentLinkFails, Persist, PersistFails, RecordFailure,
     Crash, Approve, Reject, Enqueue, Tick
<1>3. CASE performed' = performed
  BY <1>1, <1>3, ApprovalsKept DEF IInv, HighValueNeedsApproval
<1>4. ASSUME NEW w \in Workers, performed' = Append(performed, Outcome(w)),
             pc[w] = "execute",
             ~NeedsApproval(P(w), job[w].action, ReadExpiry(w), now)
      PROVE  HighValueNeedsApproval'
  <2>1. Gated(Outcome(w))
    BY <1>4, PerformedIsApproved
  <2>2. ASSUME NEW i \in DOMAIN performed'
        PROVE  \/ i \in DOMAIN performed /\ performed'[i] = performed[i]
               \/ performed'[i] = Outcome(w)
    <3>1. Outcome(w) \in Execution /\ performed \in Seq(Execution)
      BY <1>4, OutcomeType DEF IInv, TypeOK
    <3> QED BY <1>4, <2>2, <3>1
  <2>3. ASSUME NEW i \in DOMAIN performed PROVE Gated(performed[i])
    BY <2>3 DEF IInv, HighValueNeedsApproval
  <2>4. ASSUME NEW i \in DOMAIN performed' PROVE Gated(performed'[i])
    BY <2>1, <2>2, <2>3, <2>4
  <2> QED BY <1>1, <2>4, ApprovalsKept DEF IInv, HighValueNeedsApproval
<1>5. \/ performed' = performed
      \/ \E w \in Workers : /\ performed' = Append(performed, Outcome(w))
                            /\ pc[w] = "execute"
                            /\ ~NeedsApproval(P(w), job[w].action, ReadExpiry(w), now)
  BY DEF Next, HandlerStep, WorkerStep, vars, db, api, Pop, Load, Lock, Decide,
     GraphFails, PolicyBlocks, PolicyAllows, RequestApproval, ExecuteAction,
     ApprovalRequired, PaymentLinkFails, Persist, PersistFails, RecordFailure,
     Crash, Approve, Reject, Enqueue, Tick
<1> QED BY <1>3, <1>4, <1>5

(* No interleaving of duplicate jobs, rejections, expiries and crashes     *)
(* gets an action on a high-value case executed without a human's valid    *)
(* approval of that case, for any number of workers, cases and approvals.  *)
THEOREM HighValueIsGated == Spec => []HighValueNeedsApproval
<1>1. IInv /\ TypeOK' /\ [Next]_vars => IInv'
  BY IInvStep
<1>2. IInv => HighValueNeedsApproval
  BY DEF IInv
<1>3. QED BY <1>1, <1>2, IInvInit, TypeCorrect, PTL DEF Spec

-----------------------------------------------------------------------------
(* The refinement needs one more invariant: every expiry is an instant     *)
(* plus the approval's time to live.                                       *)
Expiry == {t + ApprovalTTL : t \in Instants}
ExpiryInv ==
    /\ now \in Instants
    /\ \A w \in Workers : job[w].request # None => job[w].expires \in Expiry
    /\ \A a \in ApprovalIds : approvals[a] # NoRow => approvals[a].expires \in Expiry

LEMMA ExpiryInvStep ==
    ASSUME TypeOK, TypeOK', ExpiryInv, [Next]_vars
    PROVE  ExpiryInv'
<1>1. ASSUME NEW w \in Workers, WorkerStep(w) \/ Crash(w) PROVE ExpiryInv'
  <2>1. CASE Persist(w)
    <3>1. \A a \in ApprovalIds : approvals'[a] = approvals[a] \/ approvals'[a].expires \in Expiry
      <4>1. \A a \in ApprovalIds : \/ approvals'[a] = approvals[a]
                                   \/ a = job[w].request /\ approvals'[a] = PendingApproval(w)
        BY <2>1 DEF Persist
      <4>2. PendingApproval(w).expires = job[w].expires
        BY DEF PendingApproval
      <4> QED BY <4>1, <4>2, PipelineAssumption DEF ExpiryInv
    <3>2. now' = now /\ \A v \in Workers : job'[v] = job[v] \/ job'[v] = NoJob
      BY <2>1 DEF Persist, Finish, TypeOK
    <3> QED BY <3>1, <3>2 DEF ExpiryInv, NoJob
  <2>2. CASE RecordFailure(w) \/ Crash(w)
    <3>1. now' = now /\ approvals' = approvals
      BY <2>2 DEF RecordFailure, Crash, db
    <3>2. \A v \in Workers : job'[v] = job[v] \/ job'[v] = NoJob
      BY <2>2 DEF RecordFailure, Crash, Finish, TypeOK
    <3> QED BY <3>1, <3>2 DEF ExpiryInv, NoJob
  <2>3. CASE RequestApproval(w)
    <3>1. now' = now /\ approvals' = approvals
      BY <2>3 DEF RequestApproval, db
    <3>2. \A v \in Workers : job'[v] = job[v] \/ job'[v].expires = now + ApprovalTTL
      BY <2>3 DEF RequestApproval, TypeOK, Job
    <3> QED BY <3>1, <3>2 DEF ExpiryInv, Expiry
  <2>4. CASE \/ Pop(w) \/ Load(w) \/ Lock(w) \/ Decide(w) \/ GraphFails(w)
             \/ PolicyBlocks(w) \/ PolicyAllows(w) \/ ExecuteAction(w)
             \/ ApprovalRequired(w) \/ PaymentLinkFails(w) \/ PersistFails(w)
    <3>1. now' = now /\ approvals' = approvals
      BY <2>4 DEF Pop, Load, Lock, Decide, GraphFails, PolicyBlocks, PolicyAllows,
         ExecuteAction, ApprovalRequired, PaymentLinkFails, PersistFails, db
    <3>2. \A v \in Workers : /\ job'[v].request = job[v].request
                             /\ job'[v].expires = job[v].expires
      <4>1. CASE Pop(w)
        <5>1. job' = [job EXCEPT ![w] = [job[w] EXCEPT !.case = queue[Len(queue)]]]
          BY <4>1 DEF Pop
        <5> QED BY <5>1 DEF TypeOK, Job
      <4>2. CASE Lock(w)
        <5>1. job' = job \/ \E a \in ApprovalIds : job' = [job EXCEPT ![w].appr = a]
          BY <4>2 DEF Lock, ActiveApproval, Approved
        <5>2. CASE job' = job
          BY <5>2
        <5>3. ASSUME NEW a \in ApprovalIds, job' = [job EXCEPT ![w].appr = a]
              PROVE  \A v \in Workers : /\ job'[v].request = job[v].request
                                        /\ job'[v].expires = job[v].expires
          BY <5>3 DEF TypeOK, Job
        <5> QED BY <5>1, <5>2, <5>3
      <4>7. CASE Load(w)
        <5>1. PICK r, l : job' = [job EXCEPT ![w] = [job[w] EXCEPT !.retry = r, !.last = l]]
          BY <4>7 DEF Load
        <5>2. job[w] \in Job /\ job'[w] = [job[w] EXCEPT !.retry = r, !.last = l]
          BY <5>1 DEF TypeOK
        <5>3. job'[w].request = job[w].request /\ job'[w].expires = job[w].expires
          BY <5>2 DEF Job
        <5>4. \A v \in Workers : v # w => job'[v] = job[v]
          BY <5>1 DEF TypeOK
        <5> QED BY <5>3, <5>4
      <4>3. CASE Decide(w)
        BY <4>3 DEF Decide, TypeOK, Job
      <4>4. CASE PolicyBlocks(w)
        BY <4>4 DEF PolicyBlocks, TypeOK, Job
      <4>5. CASE ExecuteAction(w)
        BY <4>5 DEF ExecuteAction, TypeOK, Job
      <4>6. CASE \/ GraphFails(w) \/ PolicyAllows(w) \/ ApprovalRequired(w)
                 \/ PaymentLinkFails(w) \/ PersistFails(w)
        BY <4>6 DEF GraphFails, PolicyAllows, ApprovalRequired, PaymentLinkFails, PersistFails
      <4> QED BY <2>4, <4>1, <4>2, <4>3, <4>4, <4>5, <4>6, <4>7
    <3> QED BY <3>1, <3>2 DEF ExpiryInv
  <2> QED BY <1>1, <2>1, <2>2, <2>3, <2>4 DEF WorkerStep
<1>2. ASSUME NEW b \in ApprovalIds, Approve(b) \/ Reject(b) PROVE ExpiryInv'
  <2>1. approvals[b] # NoRow /\ approvals[b] \in Approval
    BY <1>2 DEF Approve, Reject, TypeOK
  <2>2. \A a \in ApprovalIds : \/ approvals'[a] = approvals[a]
                               \/ approvals'[a].expires = approvals[b].expires
    BY <1>2, <2>1 DEF Approve, Reject, TypeOK, Approval
  <2>3. now' = now /\ job' = job
    BY <1>2 DEF Approve, Reject
  <2> QED BY <2>1, <2>2, <2>3 DEF ExpiryInv
<1>3. CASE HandlerStep \/ Tick \/ UNCHANGED vars
  BY <1>3 DEF HandlerStep, Enqueue, Tick, vars, db, ExpiryInv
<1>4. QED BY <1>1, <1>2, <1>3 DEF Next

(* Every behaviour of the pipeline is, seen through the grants made and    *)
(* the actions executed, a behaviour of the abstract approval gate.        *)
THEOREM PipelineImplementsGate == Spec => GateSpec
<1> DEFINE High == {c \in Cases : profile[c].amount > HighValueThreshold}
           Grants == {[case |-> approvals[a].case, expires |-> approvals[a].expires]
                         : a \in granted}
           Acted == [i \in DOMAIN performed |-> ActedOn(performed[i])]
<1>1. Init => IInv /\ ExpiryInv
  <2>1. Init => ExpiryInv
    BY PipelineAssumption DEF Init, ExpiryInv, NoRow, NoJob
  <2> QED BY <2>1, IInvInit
<1>2. Init => Gate!Init
  BY DEF Init, Gate!Init
<1>3. IInv /\ ExpiryInv /\ TypeOK' /\ [Next]_vars => ExpiryInv'
  BY ExpiryInvStep DEF IInv
<1>4. IInv /\ ExpiryInv /\ TypeOK' /\ [Next]_vars => [Gate!Next]_Gate!vars
  <2> SUFFICES ASSUME IInv, ExpiryInv, TypeOK', [Next]_vars
               PROVE  [Gate!Next]_Gate!vars
    OBVIOUS
  <2>1. High' = High
    BY DEF Next, HandlerStep, WorkerStep, vars, db, api, Pop, Load, Lock, Decide,
       GraphFails, PolicyBlocks, PolicyAllows, RequestApproval, ExecuteAction,
       ApprovalRequired, PaymentLinkFails, Persist, PersistFails, RecordFailure,
       Crash, Approve, Reject, Enqueue, Tick
  <2>2. granted' = granted => Grants' = Grants
    BY ApprovalsKept DEF IInv
  <2>3. performed' = performed => Acted' = Acted
    OBVIOUS
  <2>4. ASSUME NEW w \in Workers, performed' = Append(performed, Outcome(w)),
               pc[w] = "execute", now' = now, granted' = granted,
               ~NeedsApproval(P(w), job[w].action, ReadExpiry(w), now)
        PROVE  Gate!Next
    <3>1. Outcome(w) \in Execution /\ performed \in Seq(Execution)
      BY <2>4, OutcomeType DEF IInv, TypeOK
    <3>2. Acted' = Append(Acted, [case |-> job[w].case, at |-> now])
      BY <2>4, <3>1 DEF ActedOn, Outcome
    <3>3. job[w].case \in Cases
      BY <2>4 DEF IInv, TypeOK
    <3>4. job[w].case \in High =>
            \E g \in Grants : g.case = job[w].case /\ g.expires > now
      <4> SUFFICES ASSUME profile[job[w].case].amount > HighValueThreshold
                   PROVE  \E g \in Grants : g.case = job[w].case /\ g.expires > now
        OBVIOUS
      <4>1. PICK a \in granted : /\ approvals[a].case = job[w].case
                                 /\ now < approvals[a].expires
        BY <2>4, PerformedIsApproved DEF Outcome
      <4>2. approvals[a] \in Approval /\ now \in Nat
        BY DEF IInv, GrantInv, TypeOK
      <4> DEFINE g == [case |-> approvals[a].case, expires |-> approvals[a].expires]
      <4>3. g \in Grants /\ g.case = job[w].case /\ g.expires = approvals[a].expires
        BY <4>1
      <4>4. approvals[a].expires \in Nat
        BY <4>2 DEF Approval
      <4>5. approvals[a].expires > now
        BY <4>1, <4>2, <4>4
      <4> QED BY <4>3, <4>5
    <3>5. Gate!Act(job[w].case)
      BY <2>1, <2>2, <2>4, <3>2, <3>4 DEF Gate!Act
    <3> QED BY <3>3, <3>5 DEF Gate!Next
  <2>5. ASSUME NEW b \in ApprovalIds, Approve(b) PROVE Gate!Next
    <3>1. approvals[b] \in Approval /\ approvals[b].expires \in Expiry
      BY <2>5 DEF Approve, IInv, TypeOK, ExpiryInv
    <3>2. now' = now /\ performed' = performed /\ granted' = granted \cup {b}
      BY <2>5 DEF Approve
    <3>3. \A a \in granted' : /\ approvals'[a].case = approvals[a].case
                              /\ approvals'[a].expires = approvals[a].expires
      <4>1. /\ approvals'[b].case = approvals[b].case
            /\ approvals'[b].expires = approvals[b].expires
        BY <2>5, <3>1 DEF Approve, IInv, TypeOK, Approval
      <4> QED BY <3>2, <4>1, ApprovalsKept DEF IInv
    <3>4. Grants' = Grants \cup {[case |-> approvals[b].case,
                                  expires |-> approvals[b].expires]}
      BY <3>2, <3>3
    <3>5. approvals[b].case \in Cases /\ approvals[b].expires >= now
      BY <2>5, <3>1 DEF Approve, Approval
    <3>6. PICK c \in Cases : c = approvals[b].case
      BY <3>5
    <3>7. PICK e \in {t + ApprovalTTL : t \in Instants} : e = approvals[b].expires
      BY <3>1 DEF Expiry
    <3>8. Gate!Grant(c, e)
      BY <2>1, <2>3, <3>2, <3>4, <3>5, <3>6, <3>7 DEF Gate!Grant
    <3> QED BY <3>8 DEF Gate!Next
  <2>6. CASE Tick
    <3>1. now' > now /\ granted' = granted /\ performed' = performed
      BY <2>6, PipelineAssumption DEF Tick, api, IInv, TypeOK
    <3> QED BY <2>1, <2>2, <2>3, <3>1 DEF Gate!Next, Gate!Advance
  <2>7. ASSUME now' = now, granted' = granted, performed' = performed
        PROVE  UNCHANGED Gate!vars
    BY <2>1, <2>2, <2>3, <2>7 DEF Gate!vars
  <2>8. \/ \E w \in Workers : /\ performed' = Append(performed, Outcome(w))
                              /\ pc[w] = "execute"
                              /\ now' = now /\ granted' = granted
                              /\ ~NeedsApproval(P(w), job[w].action, ReadExpiry(w), now)
        \/ \E b \in ApprovalIds : Approve(b)
        \/ Tick
        \/ now' = now /\ granted' = granted /\ performed' = performed
    BY DEF Next, HandlerStep, WorkerStep, vars, db, api, Pop, Load, Lock, Decide,
       GraphFails, PolicyBlocks, PolicyAllows, RequestApproval, ExecuteAction,
       ApprovalRequired, PaymentLinkFails, Persist, PersistFails, RecordFailure,
       Crash, Reject, Enqueue
  <2> QED BY <2>4, <2>5, <2>6, <2>7, <2>8
<1>5. IInv /\ TypeOK' /\ [Next]_vars => IInv'
  BY IInvStep
<1>6. QED BY <1>1, <1>2, <1>3, <1>4, <1>5, TypeCorrect, PTL DEF Spec, GateSpec, Gate!Spec

-----------------------------------------------------------------------------
(* The argument for StatusMatchesLedger: what a run is about to record is  *)
(* of its own case and decision, it records something unless it stops, and *)
(* the approval it requests is not there yet and nobody else's.            *)
RecordInv(w) ==
    /\ \A x \in job[w].done : x.case = job[w].case /\ x.action = job[w].action
    /\ pc[w] \notin {"persist", "failed"} => job[w].done = {}
    /\ pc[w] = "persist" /\ job[w].request = None /\ job[w].action # "stop" =>
         job[w].done # {}
RequestInv ==
    \A v, w \in Workers : job[w].request # None =>
        /\ approvals[job[w].request] = NoRow
        /\ v # w => job[v].request # job[w].request
LedgerInv == /\ \A w \in Workers : RecordInv(w)
             /\ RequestInv /\ StatusMatchesLedger

LEMMA NoJobRecords == NoJob.done = {} /\ NoJob.request = None
BY DEF NoJob

(* A worker's step keeps what it is about to record its own.               *)
LEMMA RecordInvStep ==
    ASSUME TypeOK, NEW w \in Workers, RecordInv(w), WorkerStep(w) \/ Crash(w)
    PROVE  RecordInv(w)'
<1> job[w] \in Job
  BY DEF TypeOK
<1> USE DEF RecordInv, Goto, TypeOK
<1>1. CASE Pop(w)
  <2>1. job'[w] = [job[w] EXCEPT !.case = queue[Len(queue)]] /\ pc'[w] = "load"
    BY <1>1 DEF Pop
  <2>2. job'[w].done = {}
    BY <1>1, <2>1 DEF Pop, Job
  <2> QED BY <2>1, <2>2
<1>2. CASE Load(w)
  <2>1. PICK r, l : job'[w] = [job[w] EXCEPT !.retry = r, !.last = l]
    BY <1>2 DEF Load
  <2>2. job'[w].done = {} /\ pc'[w] = "lock"
    BY <1>2, <2>1 DEF Load, Job
  <2> QED BY <2>2
<1>3. CASE Lock(w)
  <2>1. pc'[w] = "graph" /\ job[w].done = {}
    BY <1>3 DEF Lock
  <2>2. job' = job \/ \E a \in ActiveApproval(job[w].case) : job' = [job EXCEPT ![w].appr = a]
    BY <1>3 DEF Lock
  <2>3. job'[w].done = {}
    BY <2>1, <2>2 DEF Job
  <2> QED BY <2>1, <2>3
<1>4. CASE Decide(w)
  <2>1. pc'[w] = "policy" /\ job'[w].done = {}
    BY <1>4 DEF Decide, Job
  <2> QED BY <2>1
<1>5. CASE PolicyBlocks(w)
  <2>1. pc'[w] = "persist" /\ job'[w].done = {} /\ job'[w].action = "stop"
    BY <1>5 DEF PolicyBlocks, Job
  <2> QED BY <2>1
<1>6. CASE PolicyAllows(w)
  <2>1. job' = job /\ job[w].done = {}
    BY <1>6 DEF PolicyAllows
  <2>2. pc'[w] = "persist" => job[w].action = "stop"
    BY <1>6 DEF PolicyAllows
  <2> QED BY <2>1, <2>2
<1>7. CASE RequestApproval(w)
  <2>1. PICK a \in ApprovalIds :
          job' = [job EXCEPT ![w].request = a, ![w].expires = now + ApprovalTTL]
    BY <1>7 DEF RequestApproval
  <2>2. job'[w].done = {} /\ job'[w].request = a /\ a # None
    BY <1>7, <2>1, PipelineAssumption DEF RequestApproval, Job
  <2>3. pc'[w] = "persist"
    BY <1>7 DEF RequestApproval
  <2> QED BY <2>2, <2>3
<1>8. CASE ExecuteAction(w)
  <2>1. /\ job'[w].done = {Outcome(w)} /\ pc'[w] = "persist"
        /\ job'[w].case = job[w].case /\ job'[w].action = job[w].action
    BY <1>8 DEF ExecuteAction, Job
  <2> QED BY <2>1 DEF Outcome
<1>9. CASE GraphFails(w) \/ ApprovalRequired(w) \/ PaymentLinkFails(w) \/ PersistFails(w)
  <2>1. pc'[w] = "failed" /\ job' = job
    BY <1>9 DEF GraphFails, ApprovalRequired, PaymentLinkFails, PersistFails
  <2> QED BY <2>1
<1>10. CASE Persist(w) \/ RecordFailure(w) \/ Crash(w)
  <2>1. pc'[w] = "idle" /\ job'[w] = NoJob
    BY <1>10 DEF Persist, RecordFailure, Crash, Finish
  <2> QED BY <2>1, NoJobRecords
<1> QED BY <1>1, <1>2, <1>3, <1>4, <1>5, <1>6, <1>7, <1>8, <1>9, <1>10 DEF WorkerStep

LEMMA OthersKept ==
    ASSUME TypeOK, NEW w \in Workers, WorkerStep(w) \/ Crash(w), NEW v \in Workers, v # w
    PROVE  job'[v] = job[v] /\ pc'[v] = pc[v]
BY DEF WorkerStep, Crash, Pop, Load, Lock, Decide, GraphFails, PolicyBlocks,
   PolicyAllows, RequestApproval, ExecuteAction, ApprovalRequired, PaymentLinkFails, Persist,
   PersistFails, RecordFailure, Goto, Finish, TypeOK

(* A request stays a worker's until it is persisted or dropped.            *)
LEMMA RequestsKept ==
    ASSUME TypeOK, NEW w \in Workers, WorkerStep(w) \/ Crash(w), ~RequestApproval(w)
    PROVE  job'[w].request \in {job[w].request, None}
<1> job[w] \in Job
  BY DEF TypeOK
<1> USE DEF TypeOK
<1>1. CASE Pop(w)
  BY <1>1 DEF Pop, Job
<1>2. CASE Load(w)
  <2>1. PICK r, l : job'[w] = [job[w] EXCEPT !.retry = r, !.last = l]
    BY <1>2 DEF Load
  <2> QED BY <2>1 DEF Job
<1>3. CASE Lock(w)
  <2>1. job' = job \/ \E a \in ActiveApproval(job[w].case) : job' = [job EXCEPT ![w].appr = a]
    BY <1>3 DEF Lock
  <2> QED BY <2>1 DEF Job
<1>4. CASE Decide(w)
  BY <1>4 DEF Decide, Job
<1>5. CASE PolicyBlocks(w) \/ ExecuteAction(w)
  BY <1>5 DEF PolicyBlocks, ExecuteAction, Job
<1>6. CASE \/ GraphFails(w) \/ PolicyAllows(w) \/ ApprovalRequired(w)
           \/ PaymentLinkFails(w) \/ PersistFails(w)
  BY <1>6 DEF GraphFails, PolicyAllows, ApprovalRequired, PaymentLinkFails, PersistFails
<1>7. CASE Persist(w) \/ RecordFailure(w) \/ Crash(w)
  <2>1. job'[w] = NoJob
    BY <1>7 DEF Persist, RecordFailure, Crash, Finish
  <2> QED BY <2>1, NoJobRecords
<1> QED BY <1>1, <1>2, <1>3, <1>4, <1>5, <1>6, <1>7 DEF WorkerStep

Requests(c) == {a \in ApprovalIds : approvals[a] # NoRow /\ approvals[a].case = c}

(* An answered approval is still the same case's.                          *)
LEMMA AnsweredIsKept ==
    ASSUME TypeOK, NEW b \in ApprovalIds, Approve(b) \/ Reject(b)
    PROVE  /\ \A a \in ApprovalIds : approvals[a] = NoRow => approvals'[a] = NoRow
           /\ \A c : Requests(c)' = Requests(c)
<1>1. approvals[b] \in Approval /\ approvals[b] # NoRow
  BY DEF Approve, Reject, TypeOK
<1>2. \E s \in {"APPROVED", "REJECTED"} :
        approvals' = [approvals EXCEPT ![b] =
                        [approvals[b] EXCEPT !.status = s, !.approvedAt = now]]
  BY DEF Approve, Reject
<1>3. \A a \in ApprovalIds : a # b => approvals'[a] = approvals[a]
  BY <1>2 DEF TypeOK
<1>4. approvals'[b].case = approvals[b].case /\ approvals'[b].status # "absent"
  BY <1>1, <1>2 DEF Approval, TypeOK
<1>5. approvals'[b] # NoRow
  BY <1>4 DEF NoRow
<1>6. ASSUME NEW a \in ApprovalIds, NEW c PROVE a \in Requests(c)' <=> a \in Requests(c)
  BY <1>1, <1>3, <1>4, <1>5 DEF Requests
<1>7. ASSUME NEW c PROVE Requests(c)' = Requests(c)
  BY <1>6 DEF Requests
<1> QED BY <1>1, <1>3, <1>7

LEMMA RequestInvStep ==
    ASSUME TypeOK, RequestInv, [Next]_vars PROVE RequestInv'
<1>1. ASSUME NEW w \in Workers, RequestApproval(w) PROVE RequestInv'
  <2>1. PICK a \in ApprovalIds :
          /\ approvals[a] = NoRow /\ \A v \in Workers : job[v].request # a
          /\ job' = [job EXCEPT ![w].request = a, ![w].expires = now + ApprovalTTL]
    BY <1>1 DEF RequestApproval
  <2>2. job'[w].request = a /\ approvals' = approvals
    BY <1>1, <2>1 DEF RequestApproval, db, TypeOK, Job
  <2>3. \A v \in Workers : v # w => job'[v] = job[v]
    BY <2>1 DEF TypeOK
  <2>4. ASSUME NEW u \in Workers, NEW v \in Workers, job'[v].request # None
        PROVE  /\ approvals'[job'[v].request] = NoRow
               /\ u # v => job'[u].request # job'[v].request
    <3>1. CASE v = w
      BY <2>1, <2>2, <2>3, <3>1
    <3>2. CASE v # w /\ u = w
      <4>1. job'[v] = job[v] /\ job'[u].request = a /\ job[v].request # a
        BY <2>1, <2>2, <2>3, <3>2
      <4>2. approvals[job[v].request] = NoRow
        BY <2>4, <4>1 DEF RequestInv
      <4> QED BY <2>2, <4>1, <4>2
    <3>3. CASE v # w /\ u # w
      BY <2>2, <2>3, <2>4, <3>3 DEF RequestInv
    <3> QED BY <3>1, <3>2, <3>3
  <2> QED BY <2>4 DEF RequestInv
<1>2. ASSUME NEW w \in Workers, Persist(w) PROVE RequestInv'
  <2>1. job'[w].request = None /\ \A v \in Workers : v # w => job'[v] = job[v]
    BY <1>2, NoJobRecords DEF Persist, Finish, TypeOK
  <2>2. \A a \in ApprovalIds : a # job[w].request => approvals'[a] = approvals[a]
    BY <1>2 DEF Persist
  <2>3. \A v \in Workers : job[v].request \in ApprovalIds \cup {None}
    BY DEF TypeOK, Job
  <2> QED BY <2>1, <2>2, <2>3 DEF RequestInv
<1>3. ASSUME NEW w \in Workers, WorkerStep(w) \/ Crash(w), ~RequestApproval(w), ~Persist(w)
      PROVE  RequestInv'
  <2>1. approvals' = approvals
    BY <1>3 DEF WorkerStep, Crash, db, Pop, Load, Lock, Decide, GraphFails, PolicyBlocks,
       PolicyAllows, ExecuteAction, ApprovalRequired, PaymentLinkFails, PersistFails,
       RecordFailure
  <2>2. \A v \in Workers : job'[v].request \in {job[v].request, None}
    BY <1>3, OthersKept, RequestsKept
  <2> QED BY <2>1, <2>2 DEF RequestInv
<1>4. ASSUME NEW b \in ApprovalIds, Approve(b) \/ Reject(b) PROVE RequestInv'
  <2>1. job' = job
    BY <1>4 DEF Approve, Reject
  <2>2. \A v \in Workers : job[v].request \in ApprovalIds \cup {None}
    BY DEF TypeOK, Job
  <2> QED BY <1>4, <2>1, <2>2, AnsweredIsKept DEF RequestInv
<1>5. CASE HandlerStep \/ Tick \/ UNCHANGED vars
  BY <1>5 DEF HandlerStep, Enqueue, Tick, vars, db, RequestInv
<1> QED BY <1>1, <1>2, <1>3, <1>4, <1>5 DEF Next

Recorded(c) == {x \in actions : x.case = c}

(* StatusMatchesLedger for one case.                                       *)
StatusFits(c) ==
    /\ cases[c].status = "executing" => Recorded(c) # {}
    /\ cases[c].status = "escalated" =>
         (Requests(c) # {} \/ \E x \in Recorded(c) : x.action = "escalate_human")
    /\ cases[c].status = "detected" =>
         Recorded(c) = {} /\ Requests(c) = {} /\ cases[c].retry = 0

LEMMA StatusOfEveryCase == StatusMatchesLedger <=> \A c \in Cases : StatusFits(c)
BY DEF StatusMatchesLedger, StatusFits, Recorded, Requests

(* Persist commits the status together with what it claims.                *)
LEMMA PersistFits ==
    ASSUME TypeOK, LedgerInv, NEW w \in Workers, Persist(w), NEW c \in Cases
    PROVE  StatusFits(c)'
<1> DEFINE d == job[w].case
           r == job[w].request
<1>1. d \in Cases /\ r \in ApprovalIds \cup {None}
  BY DEF Persist, TypeOK, Job
<1>2. StatusFits(c) /\ RecordInv(w)
  BY StatusOfEveryCase DEF LedgerInv
<1>3. /\ actions' = actions \cup job[w].done
      /\ cases' = [cases EXCEPT ![d] = UpdatedRow(w, cases[d])]
  BY DEF Persist
<1>4. \A a \in ApprovalIds : a # r => approvals'[a] = approvals[a]
  BY DEF Persist
<1>5. r # None => approvals[r] = NoRow /\ approvals'[r] = PendingApproval(w)
  BY <1>1 DEF Persist, LedgerInv, RequestInv
<1>6. PendingApproval(w).case = d /\ PendingApproval(w) # NoRow
  BY DEF PendingApproval, NoRow
<1>7. CASE c # d
  <2>1. cases'[c] = cases[c]
    BY <1>3, <1>7 DEF TypeOK
  <2>2. Recorded(c)' = Recorded(c)
    <3>1. \A x \in job[w].done : x.case # c
      BY <1>2, <1>7 DEF RecordInv
    <3> QED BY <1>3, <3>1 DEF Recorded
  <2>3. \A a \in ApprovalIds : a \in Requests(c)' <=> a \in Requests(c)
    <3> SUFFICES ASSUME NEW a \in ApprovalIds
                 PROVE  a \in Requests(c)' <=> a \in Requests(c)
      OBVIOUS
    <3>1. CASE a # r
      BY <1>4, <3>1 DEF Requests
    <3>2. CASE a = r
      <4>1. approvals[a] = NoRow /\ approvals'[a].case = d
        BY <1>1, <1>5, <1>6, <3>2, PipelineAssumption
      <4> QED BY <1>7, <4>1 DEF Requests
    <3> QED BY <3>1, <3>2
  <2>4. Requests(c)' = Requests(c)
    BY <2>3 DEF Requests
  <2> QED BY <1>2, <2>1, <2>2, <2>4 DEF StatusFits
<1>8. CASE c = d
  <2>1. cases'[c].status = CaseStatus(w)
    BY <1>1, <1>3, <1>8 DEF TypeOK, UpdatedRow
  <2>2. cases'[c].status # "detected"
    BY <2>1 DEF CaseStatus
  <2>3. r # None => r \in Requests(c)'
    BY <1>1, <1>5, <1>6, <1>8 DEF Requests
  <2>4. r = None /\ job[w].action # "stop" =>
          \E x \in Recorded(c)' : x.action = job[w].action
    <3> SUFFICES ASSUME r = None, job[w].action # "stop"
                 PROVE  \E x \in Recorded(c)' : x.action = job[w].action
      OBVIOUS
    <3>1. PICK x : x \in job[w].done
      BY <1>2 DEF RecordInv, Persist
    <3>2. x.case = c /\ x.action = job[w].action
      BY <1>2, <1>8, <3>1 DEF RecordInv
    <3> QED BY <1>3, <3>1, <3>2 DEF Recorded
  <2>5. cases'[c].status = "executing" =>
          r = None /\ job[w].action # "stop"
    BY <2>1 DEF CaseStatus
  <2>6. cases'[c].status = "escalated" => r # None \/ job[w].action = "escalate_human"
    BY <2>1 DEF CaseStatus
  <2> QED BY <2>2, <2>3, <2>4, <2>5, <2>6 DEF StatusFits
<1> QED BY <1>7, <1>8

LEMMA StatusStep ==
    ASSUME TypeOK, LedgerInv, [Next]_vars PROVE StatusMatchesLedger'
<1>0. \A c \in Cases : StatusFits(c)
  BY StatusOfEveryCase DEF LedgerInv
<1>1. ASSUME NEW w \in Workers, Persist(w) PROVE \A c \in Cases : StatusFits(c)'
  BY <1>1, PersistFits
<1>2. ASSUME NEW w \in Workers, RecordFailure(w) PROVE \A c \in Cases : StatusFits(c)'
  <2>1. /\ actions' = actions /\ approvals' = approvals
        /\ \A c \in Cases : cases'[c] = cases[c] \/ cases'[c].status = "failed"
    BY <1>2 DEF RecordFailure, TypeOK
  <2> QED BY <1>0, <2>1 DEF StatusFits, Recorded, Requests
<1>3. ASSUME UNCHANGED <<cases, actions, approvals>> PROVE \A c \in Cases : StatusFits(c)'
  BY <1>0, <1>3 DEF StatusFits, Recorded, Requests
<1>4. ASSUME NEW b \in ApprovalIds, Approve(b) \/ Reject(b)
      PROVE  \A c \in Cases : StatusFits(c)'
  <2>1. cases' = cases /\ actions' = actions /\ \A c : Requests(c)' = Requests(c)
    BY <1>4, AnsweredIsKept DEF Approve, Reject
  <2> QED BY <1>0, <2>1 DEF StatusFits, Recorded
<1>5. \/ \E w \in Workers : Persist(w) \/ RecordFailure(w)
      \/ \E b \in ApprovalIds : Approve(b) \/ Reject(b)
      \/ UNCHANGED <<cases, actions, approvals>>
  BY DEF Next, HandlerStep, WorkerStep, vars, db, Pop, Load, Lock, Decide, GraphFails,
     PolicyBlocks, PolicyAllows, RequestApproval, ExecuteAction, ApprovalRequired,
     PaymentLinkFails, PersistFails, Crash, Enqueue, Tick
<1>6. \A c \in Cases : StatusFits(c)'
  BY <1>1, <1>2, <1>3, <1>4, <1>5
<1> QED BY <1>6 DEF StatusMatchesLedger, StatusFits, Recorded, Requests

(* A case's status is backed by the tables in every state, for any number  *)
(* of workers that share, lose or fail runs of it (worker._persist_result, *)
(* worker._case_status).                                                   *)
THEOREM StatusIsBacked == Spec => []StatusMatchesLedger
<1>1. Init => LedgerInv
  BY NoJobRecords DEF Init, LedgerInv, RecordInv, RequestInv, StatusMatchesLedger
<1>2. TypeOK /\ LedgerInv /\ [Next]_vars => LedgerInv'
  <2> SUFFICES ASSUME TypeOK, LedgerInv, [Next]_vars PROVE LedgerInv'
    OBVIOUS
  <2>1. ASSUME NEW v \in Workers PROVE RecordInv(v)'
    <3>1. RecordInv(v)
      BY DEF LedgerInv
    <3>2. CASE WorkerStep(v) \/ Crash(v)
      BY <3>1, <3>2, RecordInvStep
    <3>3. CASE job'[v] = job[v] /\ pc'[v] = pc[v]
      BY <3>1, <3>3 DEF RecordInv
    <3>4. ASSUME NEW w \in Workers, w # v, WorkerStep(w) \/ Crash(w)
          PROVE  job'[v] = job[v] /\ pc'[v] = pc[v]
      BY <3>4, OthersKept
    <3>5. ASSUME ~(\E w \in Workers : WorkerStep(w) \/ Crash(w))
          PROVE  job' = job /\ pc' = pc
      BY <3>5 DEF Next, HandlerStep, Enqueue, Approve, Reject, Tick, vars
    <3> QED BY <3>2, <3>3, <3>4, <3>5
  <2> QED BY <2>1, RequestInvStep, StatusStep DEF LedgerInv
<1>3. LedgerInv => StatusMatchesLedger
  BY DEF LedgerInv
<1> QED BY <1>1, <1>2, <1>3, TypeCorrect, PTL DEF Spec

-----------------------------------------------------------------------------
(* The argument for RetryCap and CooldownKept, with one worker.  A run     *)
(* works on the row as it still is; what it was allowed to do, and what it *)
(* has done by the time it persists, fits the row and everything recorded. *)
OneWorker == \A v, w \in Workers : v = w

Retries(c) == {x \in actions : x.case = c /\ x.action = "smart_retry"}

RowInv(c) ==
    /\ cases[c].retry <= MaxRetry
    /\ \A y \in actions : y.case = c => y.at <= now /\ y.retry <= cases[c].retry
    /\ \A x \in Retries(c) : /\ x.retry < cases[c].retry
                             /\ cases[c].last # Never /\ x.at <= cases[c].last
    /\ \A x, y \in Retries(c) : x.retry = y.retry => x = y

(* The cooldown check of a run that has read last, made at time t.         *)
Cooled(action, last, t) ==
    action \in ContactOrRetryActions /\ last # Never => t - last >= Cooldown

RunInv(w) ==
    /\ pc[w] \in TxnPC \cup {"lock"} => /\ job[w].retry = cases[job[w].case].retry
                                        /\ job[w].last = cases[job[w].case].last
    /\ pc[w] \in {"request", "execute", "persist"} /\ job[w].action # "stop" =>
         /\ job[w].retry < MaxRetry
         /\ Cooled(job[w].action, job[w].last, now)
    /\ pc[w] \notin {"persist", "failed"} => job[w].done = {}

DoneInv(w) ==
    pc[w] = "persist" =>
        \A x \in job[w].done :
            /\ job[w].done = {x}
            /\ x.case = job[w].case /\ x.action = job[w].action /\ x.retry = job[w].retry
            /\ x.at <= now /\ Cooled(x.action, job[w].last, x.at)
            /\ \A y \in actions : y.case = x.case => y.at <= x.at

SerialInv == /\ \A c \in Cases : RowInv(c)
             /\ \A w \in Workers : RunInv(w) /\ DoneInv(w)
             /\ CooldownKept

(* A run stays true to the row it has read, whatever it does next.         *)
LEMMA RunStep ==
    ASSUME TypeOK, \A c \in Cases : RowInv(c), NEW w \in Workers, RunInv(w), DoneInv(w),
           WorkerStep(w) \/ Crash(w)
    PROVE  RunInv(w)' /\ DoneInv(w)'
<1> job[w] \in Job /\ now \in Nat
  BY DEF TypeOK
<1> USE DEF RunInv, DoneInv, Goto, TypeOK, TxnPC
<1>1. CASE Pop(w)
  <2>1. job'[w] = [job[w] EXCEPT !.case = queue[Len(queue)]] /\ pc'[w] = "load"
    BY <1>1 DEF Pop
  <2>2. job'[w].done = {}
    BY <1>1, <2>1 DEF Pop, Job
  <2> QED BY <2>1, <2>2
<1>2. CASE Load(w)
  <2> DEFINE row == cases[job[w].case]
  <2>1. job'[w] = [job[w] EXCEPT !.retry = row.retry, !.last = row.last]
    BY <1>2 DEF Load
  <2>2. pc'[w] = "lock" /\ cases' = cases /\ job[w].done = {}
    BY <1>2 DEF Load, db
  <2>3. job'[w].case = job[w].case /\ job'[w].retry = row.retry /\ job'[w].last = row.last
        /\ job'[w].done = {}
    BY <2>1, <2>2 DEF Job
  <2> HIDE DEF row
  <2> QED BY <2>2, <2>3 DEF row
<1>3. CASE Lock(w)
  <2>1. pc'[w] = "graph" /\ job[w].done = {} /\ cases' = cases
    BY <1>3 DEF Lock, db
  <2>2. job'[w] = job[w] \/ \E a \in ApprovalIds : job'[w] = [job[w] EXCEPT !.appr = a]
    BY <1>3 DEF Lock, ActiveApproval, Approved
  <2>3. /\ job'[w].done = job[w].done /\ job'[w].case = job[w].case
        /\ job'[w].retry = job[w].retry /\ job'[w].last = job[w].last
    <3>1. ASSUME NEW a \in ApprovalIds, NEW j, j = [job[w] EXCEPT !.appr = a]
          PROVE  /\ j.done = job[w].done /\ j.case = job[w].case
                 /\ j.retry = job[w].retry /\ j.last = job[w].last
      BY <3>1 DEF Job
    <3> QED BY <2>2, <3>1
  <2> QED BY <1>3, <2>1, <2>3 DEF Lock
<1>4. CASE Decide(w)
  <2>1. /\ pc'[w] = "policy" /\ job'[w].done = {} /\ job'[w].case = job[w].case
        /\ job'[w].retry = job[w].retry /\ job'[w].last = job[w].last /\ cases' = cases
    BY <1>4 DEF Decide, Job, db
  <2> QED BY <1>4, <2>1 DEF Decide
<1>5. CASE PolicyBlocks(w)
  <2>1. /\ pc'[w] = "persist" /\ job'[w].done = {} /\ job'[w].case = job[w].case
        /\ job'[w].retry = job[w].retry /\ job'[w].last = job[w].last /\ cases' = cases
        /\ job'[w].action = "stop"
    BY <1>5 DEF PolicyBlocks, Job, db
  <2> QED BY <1>5, <2>1 DEF PolicyBlocks
<1>6. CASE PolicyAllows(w)
  <2>1. /\ job' = job /\ job[w].done = {} /\ cases' = cases /\ now' = now
        /\ pc'[w] \in {"request", "persist", "execute"}
    BY <1>6 DEF PolicyAllows, db
  <2>2. job[w].action # "stop" => job[w].retry < MaxRetry /\ Cooled(job[w].action, job[w].last, now)
    BY <1>6 DEF PolicyAllows, CheckAll, Cooled
  <2> QED BY <1>6, <2>1, <2>2 DEF PolicyAllows
<1>7. CASE RequestApproval(w)
  <2>1. PICK a \in ApprovalIds :
          job' = [job EXCEPT ![w].request = a, ![w].expires = now + ApprovalTTL]
    BY <1>7 DEF RequestApproval
  <2>2. /\ job'[w].done = {} /\ job'[w].case = job[w].case
        /\ job'[w].retry = job[w].retry /\ job'[w].last = job[w].last
        /\ job'[w].action = job[w].action
    BY <1>7, <2>1 DEF RequestApproval, Job
  <2>3. pc[w] = "request" /\ pc'[w] = "persist" /\ cases' = cases /\ now' = now
    BY <1>7 DEF RequestApproval, db
  <2> QED BY <2>2, <2>3
<1>8. CASE ExecuteAction(w)
  <2>1. /\ pc[w] = "execute" /\ pc'[w] = "persist" /\ cases' = cases /\ now' = now
        /\ actions' = actions
    BY <1>8 DEF ExecuteAction, db
  <2>2. /\ job'[w].done = {Outcome(w)} /\ job'[w].case = job[w].case
        /\ job'[w].retry = job[w].retry /\ job'[w].last = job[w].last
        /\ job'[w].action = job[w].action
    BY <1>8 DEF ExecuteAction, Job
  <2>3. PICK x \in Execution : x = Outcome(w)
    BY <1>8, OutcomeType DEF ExecuteAction
  <2>4. /\ x.case = job[w].case /\ x.action = job[w].action
        /\ x.retry = job[w].retry /\ x.at = now
    BY <2>3 DEF Outcome
  <2>5. \A y \in actions : y.case = x.case => y.at <= x.at
    BY <2>1, <2>4 DEF RowInv
  <2>6. Cooled(x.action, job[w].last, x.at)
    BY <2>1, <2>4 DEF Cooled, ContactOrRetryActions, CustomerContactActions, Nudges
  <2>7. RunInv(w)'
    BY <2>1, <2>2
  <2>8. DoneInv(w)'
    BY <2>1, <2>2, <2>3, <2>4, <2>5, <2>6
  <2> QED BY <2>7, <2>8
<1>9. CASE GraphFails(w) \/ ApprovalRequired(w) \/ PaymentLinkFails(w) \/ PersistFails(w)
  <2>1. pc'[w] = "failed" /\ job' = job
    BY <1>9 DEF GraphFails, ApprovalRequired, PaymentLinkFails, PersistFails
  <2> QED BY <2>1
<1>10. CASE Persist(w) \/ RecordFailure(w) \/ Crash(w)
  <2>1. pc'[w] = "idle" /\ job'[w] = NoJob
    BY <1>10 DEF Persist, RecordFailure, Crash, Finish
  <2> QED BY <2>1, NoJobRecords
<1> QED BY <1>1, <1>2, <1>3, <1>4, <1>5, <1>6, <1>7, <1>8, <1>9, <1>10 DEF WorkerStep

(* What Persist commits: the row of the run's case, and at most one action *)
(* of it that is newer than the recorded ones.                             *)
LEMMA PersistKeepsRows ==
    ASSUME TypeOK, SerialInv, NEW w \in Workers, Persist(w), NEW c \in Cases
    PROVE  RowInv(c)'
<1> DEFINE d == job[w].case
           row == cases[d]
<1>1. /\ d \in Cases /\ job[w] \in Job /\ now \in Nat /\ pc[w] = "persist"
      /\ row \in [status: Status, retry: Nat, last: Nat \cup {Never}]
      /\ MaxRetry \in Nat
  BY PolicyAssumption DEF Persist, TypeOK
<1>2. /\ actions' = actions \cup job[w].done /\ now' = now
      /\ cases' = [cases EXCEPT ![d] = UpdatedRow(w, row)]
  BY DEF Persist
<1>3. RowInv(c) /\ RunInv(w) /\ DoneInv(w)
  BY DEF SerialInv
<1>4. CASE c # d
  <2>1. cases'[c] = cases[c]
    BY <1>2, <1>4 DEF TypeOK
  <2>2. \A x \in actions' : x.case = c => x \in actions
    BY <1>1, <1>2, <1>3, <1>4 DEF DoneInv
  <2>3. Retries(c)' = Retries(c)
    BY <1>2, <2>2 DEF Retries
  <2> QED BY <1>2, <1>3, <2>1, <2>2, <2>3 DEF RowInv
<1>5. CASE c = d
  <2> DEFINE again == job[w].action = "smart_retry"
  <2>1. cases'[c] = UpdatedRow(w, row)
    BY <1>1, <1>2, <1>5 DEF TypeOK
  <2>2. /\ cases'[c].retry = IF again THEN row.retry + 1 ELSE row.retry
        /\ cases'[c].last = IF again THEN now ELSE row.last
    BY <1>1, <1>3, <2>1 DEF RunInv, UpdatedRow, TxnPC
  <2>3. again => row.retry < MaxRetry
    BY <1>1, <1>3 DEF RunInv, TxnPC
  <2>4. \A x \in job[w].done : /\ x.case = c /\ x.retry = row.retry /\ x.at <= now
                               /\ x.action = "smart_retry" <=> again
    BY <1>1, <1>3, <1>5 DEF RunInv, DoneInv, TxnPC
  <2>5. \A x, y \in job[w].done : x = y
    BY <1>1, <1>3 DEF DoneInv
  <2>6. \A x \in actions \cup job[w].done : x \in Execution /\ x.retry \in Nat /\ x.at \in Nat
    BY <1>1 DEF TypeOK, Job, Execution
  <2>7. row.retry \in Nat /\ row.last \in Nat \cup {Never}
    BY <1>1
  <2> HIDE DEF again, row
  <2>8. cases'[c].retry <= MaxRetry
    BY <1>1, <1>3, <1>5, <2>2, <2>3, <2>7 DEF RowInv, row
  <2>9. ASSUME NEW y \in actions', y.case = c
        PROVE  y.at <= now /\ y.retry <= cases'[c].retry
    <3>1. y \in actions \/ y \in job[w].done
      BY <1>2
    <3>2. y.at <= now /\ y.retry <= row.retry
      BY <1>3, <1>5, <2>4, <2>6, <2>7, <2>9, <3>1 DEF RowInv, row
    <3> QED BY <2>2, <2>6, <2>7, <3>1, <3>2
  <2>10. ASSUME NEW x \in Retries(c)'
         PROVE  /\ x.retry < cases'[c].retry
                /\ cases'[c].last # Never /\ x.at <= cases'[c].last
    <3>1. \/ x \in Retries(c)
          \/ x \in job[w].done /\ again
      BY <1>2, <2>4, <2>10 DEF Retries
    <3>2. CASE x \in Retries(c)
      <4>1. /\ x \in actions /\ x.case = c /\ x.at <= now
            /\ x.retry < row.retry /\ row.last # Never /\ x.at <= row.last
        BY <1>3, <1>5, <3>2 DEF RowInv, Retries, row
      <4> QED BY <1>1, <2>2, <2>6, <2>7, <4>1 DEF Never
    <3>3. CASE x \in job[w].done /\ again
      BY <1>1, <2>2, <2>4, <2>6, <2>7, <3>3 DEF Never
    <3> QED BY <3>1, <3>2, <3>3
  <2>11. ASSUME NEW x \in Retries(c)', NEW y \in Retries(c)', x.retry = y.retry
         PROVE  x = y
    <3>1. \A z \in Retries(c) : z \in actions /\ z.retry < row.retry
      BY <1>3, <1>5 DEF RowInv, Retries, row
    <3>2. \A z \in {x, y} : z \in Retries(c) \/ (z \in job[w].done /\ z.retry = row.retry)
      BY <1>2, <2>4, <2>11 DEF Retries
    <3>3. CASE x \in Retries(c) /\ y \in Retries(c)
      BY <1>3, <2>11, <3>3 DEF RowInv
    <3>4. CASE x \in job[w].done /\ y \in job[w].done
      BY <2>5, <3>4
    <3> QED BY <2>6, <2>7, <2>11, <3>1, <3>2, <3>3, <3>4
  <2> QED BY <1>2, <2>8, <2>9, <2>10, <2>11 DEF RowInv
<1> QED BY <1>4, <1>5

LEMMA PersistKeepsCooldown ==
    ASSUME TypeOK, SerialInv, NEW w \in Workers, Persist(w)
    PROVE  CooldownKept'
<1> DEFINE d == job[w].case
           done == job[w].done
<1>1. d \in Cases /\ job[w] \in Job /\ pc[w] = "persist"
  BY DEF Persist, TypeOK
<1>2. actions' = actions \cup done
  BY DEF Persist
<1>3. RowInv(d) /\ RunInv(w) /\ DoneInv(w)
  BY <1>1 DEF SerialInv
<1>4. /\ job[w].last = cases[d].last /\ job[w].retry = cases[d].retry
      /\ cases[d].last \in Nat \cup {Never}
  BY <1>1, <1>3 DEF RunInv, TxnPC, TypeOK
<1>5. \A x \in actions' : x.at \in Nat /\ x.retry \in Nat
  BY <1>1, <1>2 DEF TypeOK, Job, Execution
<1> SUFFICES ASSUME NEW x \in actions', NEW y \in actions', x.case = y.case,
                    x.action = "smart_retry", y.action \in ContactOrRetryActions,
                    x.at < y.at \/ x.retry < y.retry
             PROVE  y.at - x.at >= Cooldown
  BY DEF CooldownKept
<1>6. CASE x \in actions /\ y \in actions
  BY <1>6 DEF SerialInv, CooldownKept
<1>7. CASE x \in done
  <2>1. /\ done = {x} /\ x.case = d /\ x.retry = cases[d].retry
        /\ \A z \in actions : z.case = d => z.at <= x.at
    BY <1>1, <1>3, <1>4, <1>7 DEF DoneInv
  <2>2. y \in done => FALSE
    BY <1>5, <2>1
  <2>3. y \in actions /\ y.at <= x.at /\ y.retry <= x.retry
    BY <1>2, <1>3, <2>1, <2>2 DEF RowInv
  <2> QED BY <1>5, <2>3
<1>8. CASE x \in actions /\ y \in done
  <2>1. y.case = d /\ Cooled(y.action, job[w].last, y.at)
    BY <1>1, <1>3, <1>8 DEF DoneInv
  <2>2. x \in Retries(d)
    BY <1>8, <2>1 DEF Retries
  <2>3. cases[d].last # Never /\ x.at <= cases[d].last
    BY <1>3, <2>2 DEF RowInv
  <2>4. y.at - cases[d].last >= Cooldown
    BY <1>4, <2>1, <2>3 DEF Cooled
  <2> QED BY <1>4, <1>5, <2>3, <2>4, PolicyAssumption
<1> QED BY <1>2, <1>6, <1>7, <1>8

LEMMA SerialStep ==
    ASSUME OneWorker, TypeOK, TypeOK', SerialInv, [Next]_vars
    PROVE  SerialInv'
<1>1. ASSUME NEW w \in Workers, WorkerStep(w) \/ Crash(w)
      PROVE  \A v \in Workers : RunInv(v)' /\ DoneInv(v)'
  <2>1. \A v \in Workers : v = w
    BY DEF OneWorker
  <2>2. RunInv(w)' /\ DoneInv(w)'
    BY <1>1, RunStep DEF SerialInv
  <2> QED BY <2>1, <2>2
<1>2. ASSUME UNCHANGED <<cases, actions>>, now' >= now
      PROVE  (\A c \in Cases : RowInv(c)') /\ CooldownKept'
  <2>1. \A c \in Cases : Retries(c)' = Retries(c)
    BY <1>2 DEF Retries
  <2>2. \A y \in actions : y.at <= now => y.at <= now'
    BY <1>2 DEF TypeOK, Execution
  <2> QED BY <1>2, <2>1, <2>2 DEF SerialInv, RowInv, CooldownKept
<1>3. ASSUME NEW w \in Workers, RecordFailure(w)
      PROVE  (\A c \in Cases : RowInv(c)') /\ CooldownKept'
  <2>1. actions' = actions /\ now' = now
    BY <1>3 DEF RecordFailure
  <2>2. \A c \in Cases : cases'[c].retry = cases[c].retry /\ cases'[c].last = cases[c].last
    BY <1>3 DEF RecordFailure, TypeOK
  <2>3. \A c \in Cases : Retries(c)' = Retries(c)
    BY <2>1 DEF Retries
  <2> QED BY <2>1, <2>2, <2>3 DEF SerialInv, RowInv, CooldownKept
<1>4. ASSUME NEW w \in Workers, WorkerStep(w) \/ Crash(w)
      PROVE  (\A c \in Cases : RowInv(c)') /\ CooldownKept'
  <2>1. CASE Persist(w)
    BY <2>1, PersistKeepsRows, PersistKeepsCooldown
  <2>2. CASE ~Persist(w) /\ ~RecordFailure(w)
    <3>1. UNCHANGED <<cases, actions, now>>
      BY <1>4, <2>2 DEF WorkerStep, Crash, db, Pop, Load, Lock, Decide, GraphFails,
         PolicyBlocks, PolicyAllows, RequestApproval, ExecuteAction, ApprovalRequired,
         PaymentLinkFails, PersistFails
    <3> QED BY <1>2, <3>1 DEF TypeOK
  <2> QED BY <1>3, <2>1, <2>2
<1>5. ASSUME UNCHANGED <<pc, job, cases, actions>>, now' >= now
      PROVE  SerialInv'
  <2>1. ASSUME NEW w \in Workers PROVE RunInv(w)' /\ DoneInv(w)'
    <3>1. RunInv(w) /\ DoneInv(w) /\ now \in Nat /\ now' \in Nat /\ job[w] \in Job
      BY DEF SerialInv, TypeOK
    <3>2. Cooled(job[w].action, job[w].last, now) => Cooled(job[w].action, job[w].last, now')
      BY <1>5, <3>1, PolicyAssumption DEF Cooled, Job, Never
    <3>3. \A x \in job[w].done : x.at <= now => x.at <= now'
      BY <1>5, <3>1 DEF Job, Execution
    <3>4. RunInv(w)'
      BY <1>5, <3>1, <3>2 DEF RunInv
    <3>5. DoneInv(w)'
      BY <1>5, <3>1, <3>3 DEF DoneInv
    <3> QED BY <3>4, <3>5
  <2> QED BY <1>2, <1>5, <2>1 DEF SerialInv
<1>6. CASE ~(\E w \in Workers : WorkerStep(w) \/ Crash(w))
  <2>1. UNCHANGED <<pc, job, cases, actions>>
    BY <1>6 DEF Next, HandlerStep, Enqueue, Approve, Reject, Tick, vars, db
  <2>2. now' = now \/ Tick
    BY <1>6 DEF Next, HandlerStep, Enqueue, Approve, Reject, vars
  <2>3. now' >= now
    BY <2>2, PipelineAssumption DEF Tick, TypeOK
  <2> QED BY <1>5, <2>1, <2>3
<1> QED BY <1>1, <1>4, <1>6 DEF SerialInv

LEMMA SerialInvCaps == ASSUME TypeOK, SerialInv PROVE RetryCap
<1> SUFFICES ASSUME NEW c \in Cases
             PROVE  Cardinality(Retries(c)) <= cases[c].retry /\ cases[c].retry <= MaxRetry
  BY DEF RetryCap, Retries
<1> DEFINE n == cases[c].retry
           number == [x \in Retries(c) |-> x.retry]
<1>1. RowInv(c) /\ n \in Nat
  BY DEF SerialInv, TypeOK
<1>2. number \in Injection(Retries(c), 0..(n - 1))
  <2>1. \A x \in Retries(c) : x.retry \in 0..(n - 1)
    BY <1>1 DEF RowInv, Retries, TypeOK, Execution
  <2>2. IsInjective(number)
    BY <1>1 DEF RowInv, IsInjective
  <2> QED BY <2>1, <2>2 DEF Injection
<1>3. IsFiniteSet(0..(n - 1)) /\ Cardinality(0..(n - 1)) = n
  <2> HIDE DEF n
  <2>1. 0 \in Int /\ n - 1 \in Int
    BY <1>1
  <2>2. /\ IsFiniteSet(0..(n - 1))
        /\ Cardinality(0..(n - 1)) = IF 0 > n - 1 THEN 0 ELSE (n - 1) - 0 + 1
    BY <2>1, FS_Interval
  <2> QED BY <1>1, <2>2
<1>4. Cardinality(Retries(c)) <= n
  BY <1>2, <1>3, FS_Injection
<1> QED BY <1>1, <1>4 DEF RowInv

LEMMA SerialInvariant == ASSUME OneWorker PROVE Spec => []SerialInv
<1>1. Init => SerialInv
  BY NoJobRecords, PolicyAssumption
     DEF Init, SerialInv, RowInv, Retries, RunInv, DoneInv, CooldownKept, TxnPC
<1>2. TypeOK /\ TypeOK' /\ SerialInv /\ [Next]_vars => SerialInv'
  BY SerialStep
<1> QED BY <1>1, <1>2, TypeCorrect, PTL DEF Spec

(* With one worker, a case is retried at most MAX_RETRY_ATTEMPTS times and *)
(* its counter covers every recorded retry, however often the case is      *)
(* queued, crashes or fails (policy_engine.check_all on the retry_count    *)
(* that worker._persist_result writes).                                    *)
THEOREM RetriesAreCapped == ASSUME OneWorker PROVE Spec => []RetryCap
<1>1. TypeOK /\ SerialInv => RetryCap
  BY SerialInvCaps
<1> QED BY <1>1, SerialInvariant, TypeCorrect, PTL

(* With one worker, a recorded retry is followed by a whole cooldown in    *)
(* which the case's customer is neither contacted nor retried (check_all   *)
(* on the last_retry_at that worker._persist_result writes).               *)
THEOREM CooldownIsKept == ASSUME OneWorker PROVE Spec => []CooldownKept
<1>1. SerialInv => CooldownKept
  BY DEF SerialInv
<1> QED BY <1>1, SerialInvariant, PTL

-----------------------------------------------------------------------------
(* The argument for ChannelRetryCap, with any number of workers.  A     *)
(* snapshot may be stale and the count it leads to too low, but a retry    *)
(* that the policy let through has a number below the cap, and the table   *)
(* takes a number once per channel.                                        *)
NumberedInv ==
    /\ \A c \in Cases : cases[c].retry <= MaxRetry
    /\ \A x \in actions : x.action = "smart_retry" => x.retry < MaxRetry
    /\ \A x, y \in actions : Key(x) = Key(y) => x = y
AttemptInv(w) ==
    /\ pc[w] \in {"request", "execute", "persist"} /\ job[w].action = "smart_retry" =>
         job[w].retry < MaxRetry
    /\ \A x \in job[w].done : /\ job[w].done = {x}
                              /\ x.action = "smart_retry" => x.retry < MaxRetry

LEMMA AttemptStep ==
    ASSUME TypeOK, NEW w \in Workers, AttemptInv(w), WorkerStep(w) \/ Crash(w)
    PROVE  AttemptInv(w)'
<1> job[w] \in Job
  BY DEF TypeOK
<1> USE DEF AttemptInv, Goto, TypeOK
<1>1. CASE Pop(w)
  BY <1>1 DEF Pop, Job
<1>2. CASE Load(w)
  <2>1. PICK r, l : job'[w] = [job[w] EXCEPT !.retry = r, !.last = l]
    BY <1>2 DEF Load
  <2>2. job'[w].done = job[w].done /\ pc'[w] = "lock"
    BY <1>2, <2>1 DEF Load, Job
  <2> QED BY <2>2
<1>3. CASE Lock(w)
  <2>1. pc'[w] = "graph"
    BY <1>3 DEF Lock
  <2>2. job' = job \/ \E a \in ActiveApproval(job[w].case) : job' = [job EXCEPT ![w].appr = a]
    BY <1>3 DEF Lock
  <2>3. job'[w].done = job[w].done
    BY <2>2 DEF Job
  <2> QED BY <2>1, <2>3
<1>4. CASE Decide(w)
  <2>1. pc'[w] = "policy" /\ job'[w].done = job[w].done
    BY <1>4 DEF Decide, Job
  <2> QED BY <2>1
<1>5. CASE PolicyBlocks(w)
  <2>1. job'[w].done = job[w].done /\ job'[w].action = "stop"
    BY <1>5 DEF PolicyBlocks, Job
  <2> QED BY <2>1
<1>6. CASE PolicyAllows(w)
  <2>1. job' = job
    BY <1>6 DEF PolicyAllows
  <2>2. job[w].action = "smart_retry" => job[w].retry < MaxRetry
    BY <1>6 DEF PolicyAllows, CheckAll
  <2> QED BY <2>1, <2>2
<1>7. CASE RequestApproval(w)
  <2>1. PICK a \in ApprovalIds :
          job' = [job EXCEPT ![w].request = a, ![w].expires = now + ApprovalTTL]
    BY <1>7 DEF RequestApproval
  <2>2. /\ job'[w].done = job[w].done /\ job'[w].retry = job[w].retry
        /\ job'[w].action = job[w].action
    BY <2>1 DEF Job
  <2>3. pc[w] = "request"
    BY <1>7 DEF RequestApproval
  <2> QED BY <2>2, <2>3
<1>8. CASE ExecuteAction(w)
  <2>1. /\ job'[w].done = {Outcome(w)} /\ job'[w].retry = job[w].retry
        /\ job'[w].action = job[w].action /\ pc[w] = "execute"
    BY <1>8 DEF ExecuteAction, Job
  <2>2. Outcome(w).action = job[w].action /\ Outcome(w).retry = job[w].retry
    BY DEF Outcome
  <2> QED BY <2>1, <2>2
<1>9. CASE GraphFails(w) \/ ApprovalRequired(w) \/ PaymentLinkFails(w) \/ PersistFails(w)
  <2>1. pc'[w] = "failed" /\ job' = job
    BY <1>9 DEF GraphFails, ApprovalRequired, PaymentLinkFails, PersistFails
  <2> QED BY <2>1
<1>10. CASE Persist(w) \/ RecordFailure(w) \/ Crash(w)
  <2>1. pc'[w] = "idle" /\ job'[w] = NoJob
    BY <1>10 DEF Persist, RecordFailure, Crash, Finish
  <2> QED BY <2>1, NoJobRecords
<1> QED BY <1>1, <1>2, <1>3, <1>4, <1>5, <1>6, <1>7, <1>8, <1>9, <1>10 DEF WorkerStep

LEMMA NumberedStep ==
    ASSUME TypeOK, NumberedInv, \A w \in Workers : AttemptInv(w), [Next]_vars
    PROVE  NumberedInv'
<1>1. ASSUME NEW w \in Workers, Persist(w) PROVE NumberedInv'
  <2> DEFINE d == job[w].case
             row == cases[d]
  <2>1. /\ d \in Cases /\ row.retry \in Nat /\ job[w].retry \in Nat /\ MaxRetry \in Nat
        /\ pc[w] = "persist"
    BY <1>1, PolicyAssumption DEF Persist, TypeOK, Job
  <2>2. /\ actions' = actions \cup job[w].done
        /\ cases' = [cases EXCEPT ![d] = UpdatedRow(w, row)]
        /\ ~KeyTaken(w)
    BY <1>1 DEF Persist
  <2>3. AttemptInv(w)
    OBVIOUS
  <2>4. ASSUME NEW c \in Cases PROVE cases'[c].retry <= MaxRetry
    <3>1. CASE c # d
      BY <2>2, <3>1 DEF TypeOK, NumberedInv
    <3>2. CASE c = d
      <4>1. cases'[c].retry = IF job[w].action = "smart_retry" THEN job[w].retry + 1 ELSE row.retry
        BY <2>1, <2>2, <3>2 DEF TypeOK, UpdatedRow
      <4>2. job[w].action = "smart_retry" => job[w].retry < MaxRetry
        BY <2>1, <2>3 DEF AttemptInv
      <4>3. row.retry <= MaxRetry
        BY <2>1 DEF NumberedInv
      <4> HIDE DEF row
      <4> QED BY <2>1, <4>1, <4>2, <4>3
    <3> QED BY <3>1, <3>2
  <2>5. \A x \in actions' : x.action = "smart_retry" => x.retry < MaxRetry
    BY <2>2, <2>3 DEF AttemptInv, NumberedInv
  <2>6. ASSUME NEW x \in actions', NEW y \in actions', Key(x) = Key(y) PROVE x = y
    <3>1. CASE x \in actions /\ y \in actions
      BY <2>6, <3>1 DEF NumberedInv
    <3>2. CASE x \in job[w].done /\ y \in job[w].done
      BY <2>3, <3>2 DEF AttemptInv
    <3>3. ~(x \in job[w].done /\ y \in actions) /\ ~(y \in job[w].done /\ x \in actions)
      BY <2>2, <2>6 DEF KeyTaken
    <3> QED BY <2>2, <3>1, <3>2, <3>3
  <2> QED BY <2>4, <2>5, <2>6 DEF NumberedInv, Key
<1>2. ASSUME NEW w \in Workers, RecordFailure(w) PROVE NumberedInv'
  <2>1. actions' = actions /\ \A c \in Cases : cases'[c].retry = cases[c].retry
    BY <1>2 DEF RecordFailure, TypeOK
  <2> QED BY <2>1 DEF NumberedInv, Key
<1>3. CASE UNCHANGED <<cases, actions>>
  BY <1>3 DEF NumberedInv, Key
<1>4. \/ \E w \in Workers : Persist(w) \/ RecordFailure(w)
      \/ UNCHANGED <<cases, actions>>
  BY DEF Next, HandlerStep, WorkerStep, vars, db, Pop, Load, Lock, Decide, GraphFails,
     PolicyBlocks, PolicyAllows, RequestApproval, ExecuteAction, ApprovalRequired,
     PaymentLinkFails, PersistFails, Crash, Enqueue, Approve, Reject, Tick
<1> QED BY <1>1, <1>2, <1>3, <1>4

(* Numbers below the cap, each taken once, are at most as many as the cap. *)
LEMMA NumbersRunOut == ASSUME TypeOK, NumberedInv PROVE ChannelRetryCap
<1> SUFFICES ASSUME NEW c \in Cases, NEW ch \in Channel
             PROVE  Cardinality({x \in actions : /\ x.case = c /\ x.channel = ch
                                                /\ x.action = "smart_retry"}) <= MaxRetry
  BY DEF NumberedInv, ChannelRetryCap
<1> DEFINE S == {x \in actions : x.case = c /\ x.channel = ch /\ x.action = "smart_retry"}
           T == 0 .. (MaxRetry - 1)
           f == [x \in S |-> x.retry]
<1>1. MaxRetry \in Nat
  BY PolicyAssumption
<1>2. \A x \in S : x.retry \in Nat /\ x.retry < MaxRetry
  BY DEF TypeOK, Execution, NumberedInv
<1>3. f \in [S -> T]
  BY <1>1, <1>2
<1>4. \A x, y \in S : f[x] = f[y] => x = y
  BY DEF NumberedInv, Key
<1>5. IsFiniteSet(T) /\ Cardinality(T) = MaxRetry
  BY <1>1, FS_Interval
<1>6. f \in Injection(S, T)
  BY <1>3, <1>4 DEF Injection, IsInjective
<1> HIDE DEF S, T, f
<1>7. IsFiniteSet(S) /\ Cardinality(S) <= Cardinality(T)
  BY <1>5, <1>6, FS_Injection
<1> QED BY <1>5, <1>7 DEF S

(* With any number of workers, copies and crashes, a case has at most      *)
(* MAX_RETRY_ATTEMPTS recorded retries on a channel, and its count stays   *)
(* within the cap (policy_engine.check_all, worker._persist_result).       *)
THEOREM NumbersBoundRetries == Spec => []ChannelRetryCap
<1> DEFINE I == NumberedInv /\ \A w \in Workers : AttemptInv(w)
<1>1. Init => I
  <2>1. MaxRetry >= 0
    BY PolicyAssumption
  <2> QED BY <2>1, NoJobRecords DEF Init, NumberedInv, AttemptInv
<1>2. TypeOK /\ I /\ [Next]_vars => I'
  <2> SUFFICES ASSUME TypeOK, I, [Next]_vars PROVE I'
    OBVIOUS
  <2>1. ASSUME NEW v \in Workers PROVE AttemptInv(v)'
    <3>1. CASE WorkerStep(v) \/ Crash(v)
      BY <3>1, AttemptStep
    <3>2. CASE job'[v] = job[v] /\ pc'[v] = pc[v]
      BY <3>2 DEF AttemptInv
    <3>3. ASSUME NEW w \in Workers, w # v, WorkerStep(w) \/ Crash(w)
          PROVE  job'[v] = job[v] /\ pc'[v] = pc[v]
      BY <3>3, OthersKept
    <3>4. ASSUME ~(\E w \in Workers : WorkerStep(w) \/ Crash(w))
          PROVE  job' = job /\ pc' = pc
      BY <3>4 DEF Next, HandlerStep, Enqueue, Approve, Reject, Tick, vars
    <3> QED BY <3>1, <3>2, <3>3, <3>4
  <2> QED BY <2>1, NumberedStep
<1>3. TypeOK /\ I => ChannelRetryCap
  BY NumbersRunOut
<1> QED BY <1>1, <1>2, <1>3, TypeCorrect, PTL DEF Spec
=============================================================================
