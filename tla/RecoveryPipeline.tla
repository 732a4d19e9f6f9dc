-------------------------- MODULE RecoveryPipeline --------------------------
(***************************************************************************)
(* The recovery worker (backend/worker.py and the graph it runs), the      *)
(* approval API (backend/api/main.py) and the Redis list between them.     *)
(*                                                                         *)
(* A worker pops a case id (the pop removes it), reads the case row, takes *)
(* the row's lock with its uncommitted "triaging" update, reads the active *)
(* approval, runs the graph on what it read, and commits every result in   *)
(* one transaction; an exception rolls back and marks the case failed.     *)
(* The database is PostgreSQL at READ COMMITTED, the deployed one: rows    *)
(* are locked by their first UPDATE and foreign keys are enforced.         *)
(*                                                                         *)
(* A request handler that still has to enqueue a case holds a ticket:      *)
(* <<case, None>> the handler that created the case, <<case, a>> the       *)
(* approve call on approval a.                                             *)
(***************************************************************************)
EXTENDS RecoveryPolicy, Sequences, FiniteSets

CONSTANTS
    Cases, Workers, ApprovalIds, None,
    Profiles,      \* the immutable columns a case may have
    ApprovalTTL,   \* hours an approval request stays valid
    Instants,      \* the times the clock may show
    Gateways,      \* the circuit states the health read may return
    Pushes,        \* how many copies of an id one enqueue may push
    MaxApproves,   \* bound on approve calls
    MaxCrashes     \* bound on worker crashes

VARIABLES
    now,         \* the clock all processes read
    profile,     \* case -> immutable columns of its row
    cases,       \* case -> committed status, retry_count, last_retry_at
    approvals,   \* approval id -> committed row of recovery_approvals
    actions,     \* committed rows of recovery_actions
    queue,       \* the Redis list recovery_queue, its head at index 1
    tickets,     \* request handlers between their commit and their LPUSH
    pc, job,     \* per worker: its position in process_case, its locals
    crashes, approves,   \* how often the bounded events have happened
    \* history: what the execution adapter accepted, in order, and the
    \* approvals a human ever granted
    performed, granted

db == <<profile, cases, approvals, actions>>
api == <<tickets, approves, granted>>
vars == <<now, db, queue, api, pc, job, crashes, performed>>

Status == {"detected", "executing", "stopped", "escalated", "failed"}
ProfileType == [amount: Nat, optedOut: BOOLEAN, category: {"business", "other"},
                arm: {"control", "treatment"},
                phone: BOOLEAN, email: BOOLEAN, whatsapp: BOOLEAN]

ASSUME PipelineAssumption ==
    /\ None \notin Cases \cup ApprovalIds
    /\ Profiles \subseteq ProfileType
    /\ Instants \subseteq Nat /\ 0 \in Instants
    /\ Pushes \subseteq 0..3 /\ Gateways \subseteq GatewayState
    /\ ApprovalTTL \in Nat /\ MaxApproves \in Nat /\ MaxCrashes \in Nat

NoRow == [status |-> "absent"]
Approval == [case: Cases, action: ActionType, expires: Nat, approvedAt: Nat,
             status: {"PENDING", "APPROVED", "REJECTED"}]

(* An action the adapter accepted; its timestamp and the gateway state the *)
(* run had seen are kept with it.  Key is the idempotency key.             *)
Execution == [case: Cases, action: ActionType, channel: Channel, retry: Nat,
              at: Nat, gateway: GatewayState]
Key(x) == <<x.case, x.action, x.channel, x.retry>>

Job == [case: Cases \cup {None}, retry: Nat, last: Nat \cup {Never},
        appr: ApprovalIds \cup {None}, gateway: GatewayState,
        action: ActionType, channel: Channel,
        request: ApprovalIds \cup {None}, expires: Nat,
        done: SUBSET Execution]
NoJob == [case |-> None, retry |-> 0, last |-> Never, appr |-> None,
          gateway |-> "closed", action |-> "stop", channel |-> "none",
          request |-> None, expires |-> 0, done |-> {}]

TxnPC == {"graph", "policy", "request", "execute", "persist"}
PC == TxnPC \cup {"idle", "load", "lock", "failed"}

-----------------------------------------------------------------------------
(* The locals of worker w's run.                                           *)
P(w) == profile[job[w].case]

ReadExpiry(w) == {approvals[a].expires : a \in {job[w].appr} \ {None}}

InTxn(w, c) == pc[w] \in TxnPC /\ job[w].case = c
\* Mutant: a failed run keeps the row's lock.
RowFreeAfterFailure(c) ==
    \A v \in Workers : job[v].case = c => pc[v] \notin TxnPC \cup {"failed"}
RowFree(c) == \A v \in Workers : ~InTxn(v, c)

Approved(c) == {a \in ApprovalIds : /\ approvals[a].status = "APPROVED"
                                    /\ approvals[a].case = c}
(* _active_approval: the most recently approved one, expired or not.       *)
ActiveApproval(c) ==
    {a \in Approved(c) :
        \A b \in Approved(c) : approvals[b].approvedAt <= approvals[a].approvedAt}

Finish(w) == /\ pc' = [pc EXCEPT ![w] = "idle"]
             /\ job' = [job EXCEPT ![w] = NoJob]
Goto(w, label) == pc' = [pc EXCEPT ![w] = label]

Init ==
    /\ now = 0
    /\ profile \in [Cases -> Profiles]
    /\ cases = [c \in Cases |-> [status |-> "detected", retry |-> 0, last |-> Never]]
    /\ approvals = [a \in ApprovalIds |-> NoRow]
    /\ actions = {}
    /\ queue = <<>>
    /\ tickets = Cases \X {None}
    /\ pc = [w \in Workers |-> "idle"]
    /\ job = [w \in Workers |-> NoJob]
    /\ crashes = 0 /\ approves = 0
    /\ performed = <<>> /\ granted = {}

-----------------------------------------------------------------------------
(* worker_loop: BRPOP takes the id at the tail; LPUSH adds at the head.    *)
Pop(w) ==
    /\ pc[w] = "idle" /\ queue # <<>>
    /\ job' = [job EXCEPT ![w].case = queue[Len(queue)]]
    /\ queue' = SubSeq(queue, 1, Len(queue) - 1)
    /\ Goto(w, "load")
    /\ UNCHANGED <<now, db, api, crashes, performed>>

(* The unlocked SELECT of the row; retry_count and last_retry_at are kept. *)
Load(w) ==
    /\ pc[w] = "load"
    /\ LET row == cases[job[w].case] IN
         job' = [job EXCEPT ![w].retry = row.retry, ![w].last = row.last]
    /\ Goto(w, "lock")
    /\ UNCHANGED <<now, db, queue, api, crashes, performed>>

(* The autoflushed "triaging" update waits for the row lock; then the      *)
(* active approval is read.                                                *)
Lock(w) ==
    /\ pc[w] = "lock" /\ RowFree(job[w].case)
    /\ \/ /\ ActiveApproval(job[w].case) = {}
          /\ UNCHANGED job
       \/ \E a \in ActiveApproval(job[w].case) : job' = [job EXCEPT ![w].appr = a]
    /\ Goto(w, "graph")
    /\ UNCHANGED <<now, db, queue, api, crashes, performed>>

(* enrich_health, the arm's decision and select_channel: the gateway may   *)
(* be in any state, the model may answer any of its actions.               *)
Decide(w) ==
    /\ pc[w] = "graph"
    /\ \E g \in Gateways : \E d \in Decisions(P(w), job[w].retry, g) :
         job' = [job EXCEPT ![w].gateway = g,
                            ![w].action = d.action, ![w].channel = d.channel]
    /\ Goto(w, "policy")
    /\ UNCHANGED <<now, db, queue, api, crashes, performed>>

(* Triage, diagnosis or strategy raises.                                   *)
GraphFails(w) ==
    /\ pc[w] = "graph"
    /\ Goto(w, "failed")
    /\ UNCHANGED <<now, db, queue, api, crashes, performed, job>>

PolicyBlocks(w) ==
    /\ pc[w] = "policy"
    /\ ~CheckAll(P(w), job[w].retry, job[w].last, job[w].action, now)
    /\ job' = [job EXCEPT ![w].action = "stop", ![w].channel = "none"]
    /\ Goto(w, "persist")
    /\ UNCHANGED <<now, db, queue, api, crashes, performed>>

PolicyAllows(w) ==
    /\ pc[w] = "policy"
    /\ CheckAll(P(w), job[w].retry, job[w].last, job[w].action, now)
    /\ Goto(w, IF NeedsApproval(P(w), job[w].action, ReadExpiry(w), now) THEN "request"
               ELSE IF job[w].action = "stop" THEN "persist" ELSE "execute")
    /\ UNCHANGED <<now, db, queue, api, crashes, performed, job>>

(* request_approval_node: a fresh id, told to n8n before it is persisted.  *)
RequestApproval(w) ==
    /\ pc[w] = "request"
    /\ \E a \in ApprovalIds :
         /\ approvals[a] = NoRow
         /\ \A v \in Workers : job[v].request # a
         /\ job' = [job EXCEPT ![w].request = a, ![w].expires = now + ApprovalTTL]
    /\ Goto(w, "persist")
    /\ UNCHANGED <<now, db, queue, api, crashes, performed>>

Outcome(w) == [case |-> job[w].case, action |-> job[w].action,
               channel |-> job[w].channel, retry |-> job[w].retry,
               at |-> now, gateway |-> job[w].gateway]

ExecuteAction(w) ==
    /\ pc[w] = "execute"
    /\ ~NeedsApproval(P(w), job[w].action, ReadExpiry(w), now)
    /\ performed' = Append(performed, Outcome(w))
    /\ job' = [job EXCEPT ![w].done = {Outcome(w)}]
    /\ Goto(w, "persist")
    /\ UNCHANGED <<now, db, queue, api, crashes>>

(* assert_approved raises: the approval expired after the policy check.    *)
ApprovalRequired(w) ==
    /\ pc[w] = "execute"
    /\ NeedsApproval(P(w), job[w].action, ReadExpiry(w), now)
    /\ Goto(w, "failed")
    /\ UNCHANGED <<now, db, queue, api, crashes, performed, job>>

(* The Razorpay call raises, after Razorpay made the link or without it.   *)
PaymentLinkFails(w) ==
    /\ pc[w] = "execute" /\ job[w].action = "payment_link"
    /\ ~NeedsApproval(P(w), job[w].action, ReadExpiry(w), now)
    /\ performed' \in {performed, Append(performed, Outcome(w))}
    /\ Goto(w, "failed")
    /\ UNCHANGED <<now, db, queue, api, crashes, job>>

-----------------------------------------------------------------------------
\* Mutants: a pending approval is forgotten; the decision is stored as status.
CaseStatusOfStrategy(w) ==
    IF job[w].action = "escalate_human" THEN "escalated"
    ELSE IF job[w].action = "stop" THEN "stopped" ELSE "executing"
CaseStatusIsDecision(w) == job[w].action
CaseStatus(w) ==
    IF job[w].request # None \/ job[w].action = "escalate_human" THEN "escalated"
    ELSE IF job[w].action = "stop" THEN "stopped" ELSE "executing"

\* Mutant: the idempotency key has the time in it.
KeyAndTimeTaken(w) == \E x \in job[w].done, y \in actions : Key(x) = Key(y) /\ x.at = y.at
(* A row with this idempotency key exists: the action is not inserted but  *)
(* its audit entry names it.                                               *)
KeyTaken(w) == \E x \in job[w].done, y \in actions : Key(x) = Key(y)

\* Mutant: last_retry_at is not written.
UpdatedRowCountOnly(w, row) ==
    [status |-> CaseStatus(w), last |-> row.last,
     retry  |-> IF job[w].action = "smart_retry" THEN job[w].retry + 1 ELSE row.retry]
UpdatedRow(w, row) ==
    [status |-> CaseStatus(w),
     retry  |-> IF job[w].action = "smart_retry" THEN job[w].retry + 1 ELSE row.retry,
     last   |-> IF job[w].action = "smart_retry" THEN now ELSE row.last]

PendingApproval(w) ==
    [case |-> job[w].case, action |-> job[w].action, expires |-> job[w].expires,
     approvedAt |-> 0, status |-> "PENDING"]

(* _persist_result and the commit: one transaction.                        *)
Persist(w) ==
    LET c == job[w].case IN
    /\ pc[w] = "persist" /\ ~KeyTaken(w)
    /\ cases' = [cases EXCEPT ![c] = UpdatedRow(w, cases[c])]
    /\ actions' = actions \cup job[w].done
    /\ approvals' = [a \in ApprovalIds |->
                       IF a = job[w].request /\ approvals[a] = NoRow
                       THEN PendingApproval(w) ELSE approvals[a]]
    /\ Finish(w)
    /\ UNCHANGED <<now, profile, queue, api, crashes, performed>>

(* audit_logs.action_id references a row that was not inserted.            *)
PersistFails(w) ==
    /\ pc[w] = "persist" /\ KeyTaken(w)
    /\ Goto(w, "failed")
    /\ UNCHANGED <<now, db, queue, api, crashes, performed, job>>

(* After the rollback the failure is written in a transaction of its own.  *)
RecordFailure(w) ==
    /\ pc[w] = "failed" /\ RowFree(job[w].case)
    /\ cases' = [cases EXCEPT ![job[w].case].status = "failed"]
    /\ Finish(w)
    /\ UNCHANGED <<now, profile, approvals, actions, queue, api, crashes, performed>>

(* The process dies and is restarted: its job and transaction are gone.    *)
Crash(w) ==
    /\ pc[w] # "idle" /\ crashes < MaxCrashes
    /\ crashes' = crashes + 1
    /\ Finish(w)
    /\ UNCHANGED <<now, db, queue, api, performed>>

-----------------------------------------------------------------------------
(* approve: any row that has not expired, whatever its status.             *)
Approve(a) ==
    /\ approvals[a] # NoRow /\ approvals[a].expires >= now
    /\ approves < MaxApproves
    /\ approvals' = [approvals EXCEPT ![a].status = "APPROVED", ![a].approvedAt = now]
    /\ tickets' = tickets \cup {<<approvals[a].case, a>>}
    /\ granted' = granted \cup {a}
    /\ approves' = approves + 1
    /\ UNCHANGED <<now, profile, cases, actions, queue, pc, job, crashes, performed>>

Reject(a) ==
    /\ approvals[a] # NoRow
    /\ approvals' = [approvals EXCEPT ![a].status = "REJECTED", ![a].approvedAt = now]
    /\ UNCHANGED <<now, profile, cases, actions, queue, api, pc, job, crashes, performed>>

\* Mutant: a case that has been handled before is not pushed again.
EnqueueNewOnly(t) ==
    /\ t \in tickets /\ tickets' = tickets \ {t}
    /\ queue' = IF cases[t[1]].status = "detected" THEN <<t[1]>> \o queue ELSE queue
    /\ UNCHANGED <<now, db, pc, job, crashes, performed, approves, granted>>

(* enqueue_recovery_case: up to three LPUSHes.  An attempt that timed out  *)
(* may have pushed, and is repeated; none pushes when there is no Redis    *)
(* client, every attempt fails, or the API process dies first.             *)
Enqueue(t) ==
    /\ t \in tickets /\ tickets' = tickets \ {t}
    /\ \E n \in Pushes : queue' = [i \in 1..n |-> t[1]] \o queue
    /\ UNCHANGED <<now, db, pc, job, crashes, performed, approves, granted>>

Tick ==
    /\ \E t \in Instants : t > now /\ now' = t
    /\ UNCHANGED <<db, queue, api, pc, job, crashes, performed>>

-----------------------------------------------------------------------------
WorkerStep(w) ==
    \/ Pop(w) \/ Load(w) \/ Lock(w) \/ Decide(w) \/ GraphFails(w)
    \/ PolicyBlocks(w) \/ PolicyAllows(w) \/ RequestApproval(w)
    \/ ExecuteAction(w) \/ ApprovalRequired(w) \/ PaymentLinkFails(w)
    \/ Persist(w) \/ PersistFails(w) \/ RecordFailure(w)

HandlerStep == \E t \in Cases \X (ApprovalIds \cup {None}) : Enqueue(t)

Next ==
    \/ \E w \in Workers : WorkerStep(w) \/ Crash(w)
    \/ \E a \in ApprovalIds : Approve(a) \/ Reject(a)
    \/ HandlerStep
    \/ Tick

Spec == Init /\ [][Next]_vars

(* A started process runs on; humans and crashes owe nothing.              *)
FairSpec == /\ Spec
            /\ \A w \in Workers : WF_vars(WorkerStep(w))
            /\ WF_vars(HandlerStep)

-----------------------------------------------------------------------------
(* The state has the shape the schema and the worker's locals give it.     *)
TypeOK ==
    /\ now \in Nat
    /\ profile \in [Cases -> ProfileType]
    /\ cases \in [Cases -> [status: Status, retry: Nat, last: Nat \cup {Never}]]
    /\ approvals \in [ApprovalIds -> Approval \cup {NoRow}]
    /\ actions \subseteq Execution
    /\ queue \in Seq(Cases)
    /\ tickets \subseteq Cases \X (ApprovalIds \cup {None})
    /\ pc \in [Workers -> PC]
    /\ job \in [Workers -> Job]
    /\ \A w \in Workers : pc[w] # "idle" => job[w].case \in Cases
    /\ crashes \in Nat /\ approves \in Nat
    /\ performed \in Seq(Execution)
    /\ granted \subseteq ApprovalIds

(* No action on a case above the threshold is handed to the execution      *)
(* adapter unless a human had granted an approval of that very case that   *)
(* was still valid at that moment, whatever is popped twice, rejected,     *)
(* expired or crashed meanwhile (policy_engine.needs_approval,             *)
(* assert_approved and worker._active_approval together).                  *)
HighValueNeedsApproval ==
    \A i \in DOMAIN performed :
        LET x == performed[i] IN
        profile[x.case].amount > HighValueThreshold =>
            \E a \in granted : /\ approvals[a].case = x.case
                               /\ x.at < approvals[a].expires

(* The pipeline implements the abstract approval gate: each step is a      *)
(* grant, an action the gate allows, a tick, or invisible to it.           *)
ActedOn(x) == [case |-> x.case, at |-> x.at]
Gate == INSTANCE ApprovalGate WITH
    Expiries <- {t + ApprovalTTL : t \in Instants},
    clock <- now,
    high <- {c \in Cases : profile[c].amount > HighValueThreshold},
    grants <- {[case |-> approvals[a].case, expires |-> approvals[a].expires] : a \in granted},
    acted <- [i \in DOMAIN performed |-> ActedOn(performed[i])]
GateSpec == Gate!Spec

(* A case's status never claims more than the tables show: executing means *)
(* that an action of the case is recorded, escalated that a request or an  *)
(* escalation is, detected that no run has left anything behind.           *)
StatusMatchesLedger ==
    \A c \in Cases :
        LET recorded == {x \in actions : x.case = c}
            requests == {a \in ApprovalIds : approvals[a] # NoRow /\ approvals[a].case = c}
        IN /\ cases[c].status = "executing" => recorded # {}
           /\ cases[c].status = "escalated" =>
                requests # {} \/ \E x \in recorded : x.action = "escalate_human"
           /\ cases[c].status = "detected" =>
                recorded = {} /\ requests = {} /\ cases[c].retry = 0

(* With one worker, the recorded retries of a case never outnumber its     *)
(* retry_count, and that never passes MAX_RETRY_ATTEMPTS, however often    *)
(* the case is queued again.                                               *)
RetryCap ==
    \A c \in Cases :
        /\ Cardinality({x \in actions : x.case = c /\ x.action = "smart_retry"})
             <= cases[c].retry
        /\ cases[c].retry <= MaxRetry

(* However many workers race on stale snapshots, the retry_count they      *)
(* write stays within MAX_RETRY_ATTEMPTS, and so do the recorded retries   *)
(* of a case on one channel: the idempotency keys run out.                 *)
ChannelRetryCap ==
    \A c \in Cases :
        /\ cases[c].retry <= MaxRetry
        /\ \A ch \in Channel :
             Cardinality({x \in actions : /\ x.case = c /\ x.channel = ch
                                         /\ x.action = "smart_retry"}) <= MaxRetry

(* With one worker, after a recorded retry of a case no customer is        *)
(* contacted and no retry is recorded for it until the cooldown is over.   *)
CooldownKept ==
    \A x, y \in actions :
        /\ x.case = y.case
        /\ x.action = "smart_retry" /\ y.action \in ContactOrRetryActions
        /\ x.at < y.at \/ x.retry < y.retry
        => y.at - x.at >= Cooldown

(* A queued case is eventually decided or failed, for every order in which *)
(* workers, copies of its id and row locks interleave.                     *)
QueuedCaseIsSettled ==
    \A c \in Cases :
        (\E i \in DOMAIN queue : queue[i] = c) ~> cases[c].status # "detected"

(* "After approval, the case is queued again": an approve call leads to a  *)
(* new run of the case that starts from the persisted records.             *)
ApprovedCaseRunsAgain ==
    \A c \in Cases, a \in ApprovalIds :
        <<c, a>> \in tickets ~> \E w \in Workers : pc[w] = "load" /\ job[w].case = c
-----------------------------------------------------------------------------
(* Statements of the documentation that the code does not keep.            *)

(* "cooldown 24h between retries": a case is in cooldown only if a retry   *)
(* of it is recorded.                                                      *)
CooldownOnlyAfterRetry ==
    \A c \in Cases : cases[c].last # Never =>
        \E x \in actions : x.case = c /\ x.action = "smart_retry"

(* "All with idempotency keys": Razorpay makes at most one payment link    *)
(* for an idempotency key.                                                 *)
OneLinkPerKey ==
    \A i, j \in DOMAIN performed :
        performed[i].action = "payment_link" /\ Key(performed[i]) = Key(performed[j])
        => i = j
=============================================================================
