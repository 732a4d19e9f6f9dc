---------------------------- MODULE WebhookIntake ----------------------------
(***************************************************************************)
(* Where recovery cases come from: the Razorpay webhook handler            *)
(* (backend/webhooks/razorpay_handler.py) and the batch simulation         *)
(* (backend/api/main.py), down to the worker that takes the ids off Redis. *)
(*                                                                         *)
(* The API is one process that interleaves its handlers at every await;    *)
(* when it dies, all of them are gone.  Razorpay is external: it delivers  *)
(* an event again, perhaps concurrently, until it has seen a 2xx answer.   *)
(***************************************************************************)
EXTENDS Naturals, Sequences, FiniteSets

CONSTANTS
    Events, None,
    ValidEvents,     \* those whose signature and JSON are accepted
    FailureEvents,   \* those of type payment.failed
    Malformed,       \* those with a payload the handler raises on, such as
                     \* a failure whose notes are a list or email is null
    Handlers,        \* bound on concurrent requests
    CaseIds,         \* bound on the fresh case ids (uuid4)
    BatchSizes,      \* how many cases one simulated batch may create
    Pushes,          \* how many copies of an id one enqueue may push
    MaxCrashes,      \* bound on crashes of the API process
    MaxDbErrors      \* bound on failing database calls

ASSUME IntakeAssumption ==
    /\ None \notin Events
    /\ FailureEvents \subseteq ValidEvents /\ ValidEvents \subseteq Events
    /\ Malformed \subseteq ValidEvents
    /\ BatchSizes \subseteq Nat /\ Pushes \subseteq 0..3
    /\ MaxCrashes \in Nat /\ MaxDbErrors \in Nat

VARIABLES
    events,     \* committed rows of webhook_events, by razorpay_event_id
    cases,      \* committed rows of recovery_cases: id and source event
    queue,      \* the Redis list recovery_queue, its head at index 1
    pc,         \* per handler: where it awaits
    request,    \* per handler: the event it was given, None for a batch
    todo,       \* per handler: the ids it has yet to enqueue
    acked,      \* the events Razorpay has seen a 2xx answer for
    handled,    \* the cases a worker has found
    crashes, dbErrors

handlers == <<pc, request, todo>>
bounds == <<crashes, dbErrors>>
vars == <<events, cases, queue, handlers, acked, handled, bounds>>

Case == [id: CaseIds, event: Events \cup {None}]
Committed == {x.id : x \in cases}
FreshIds == CaseIds \ Committed

Goto(h, label) == pc' = [pc EXCEPT ![h] = label]
(* The handler has answered; only a 2xx may tell Razorpay to stop.         *)
Done(h) == /\ Goto(h, "idle")
           /\ request' = [request EXCEPT ![h] = None]
           /\ todo' = [todo EXCEPT ![h] = {}]

Init ==
    /\ events = {} /\ cases = {} /\ queue = <<>>
    /\ pc = [h \in Handlers |-> "idle"]
    /\ request = [h \in Handlers |-> None]
    /\ todo = [h \in Handlers |-> {}]
    /\ acked = {} /\ handled = {}
    /\ crashes = 0 /\ dbErrors = 0

-----------------------------------------------------------------------------
Deliver(h, e) ==
    /\ pc[h] = "idle" /\ e \notin acked
    /\ request' = [request EXCEPT ![h] = e]
    /\ Goto(h, "verify")
    /\ UNCHANGED <<events, cases, queue, todo, acked, handled, bounds>>

(* Signature and JSON: a 400 that stores nothing.                          *)
Refuse(h) ==
    /\ pc[h] = "verify" /\ request[h] \notin ValidEvents
    /\ Done(h)
    /\ UNCHANGED <<events, cases, queue, acked, handled, bounds>>

(* The SELECT on razorpay_event_id, before the row is inserted.            *)
Duplicate(h) ==
    /\ pc[h] = "verify" /\ request[h] \in ValidEvents \cap events
    /\ Goto(h, "answer")
    /\ UNCHANGED <<events, cases, queue, request, todo, acked, handled, bounds>>

\* Mutant: the signature is not looked at.
NewEventUnverified(h) ==
    /\ pc[h] = "verify" /\ request[h] \notin events
    /\ Goto(h, "persist")
    /\ UNCHANGED <<events, cases, queue, request, todo, acked, handled, bounds>>
NewEvent(h) ==
    /\ pc[h] = "verify" /\ request[h] \in ValidEvents \ events
    /\ Goto(h, "persist")
    /\ UNCHANGED <<events, cases, queue, request, todo, acked, handled, bounds>>

(* The payload makes the handler raise, for a failure in                   *)
(* normalize_razorpay_event: the session is rolled back, answer 500, and   *)
(* the same on every delivery.                                             *)
HandlerRaises(h) ==
    /\ pc[h] = "persist" /\ request[h] \in Malformed
    /\ Done(h)
    /\ UNCHANGED <<events, cases, queue, acked, handled, bounds>>

\* Mutant: razorpay_event_id is not UNIQUE.
PersistUnconstrained(h) ==
    /\ pc[h] = "persist" /\ request[h] \in FailureEvents \ Malformed
    /\ events' = events \cup {request[h]}
    /\ \E c \in FreshIds :
         /\ cases' = cases \cup {[id |-> c, event |-> request[h]]}
         /\ todo' = [todo EXCEPT ![h] = {c}]
    /\ Goto(h, "push")
    /\ UNCHANGED <<queue, request, acked, handled, bounds>>
\* Mutant: the case is left to the commit after the answer.
PersistEventOnly(h) ==
    /\ pc[h] = "persist" /\ request[h] \in FailureEvents \ (Malformed \cup events)
    /\ events' = events \cup {request[h]}
    /\ \E c \in FreshIds : todo' = [todo EXCEPT ![h] = {c}]
    /\ Goto(h, "push")
    /\ UNCHANGED <<cases, queue, request, acked, handled, bounds>>
\* Mutant: the type is compared with another string, every event is only
\* recorded.
PersistRecordsOnly(h) ==
    /\ pc[h] = "persist" /\ request[h] \in FailureEvents \ (Malformed \cup events)
    /\ events' = events \cup {request[h]}
    /\ Goto(h, "answer")
    /\ UNCHANGED <<cases, queue, request, todo, acked, handled, bounds>>
(* One transaction for the event and, with a fresh id, its case.           *)
Persist(h) ==
    /\ pc[h] = "persist" /\ request[h] \in FailureEvents \ (Malformed \cup events)
    /\ events' = events \cup {request[h]}
    /\ \E c \in FreshIds :
         /\ cases' = cases \cup {[id |-> c, event |-> request[h]]}
         /\ todo' = [todo EXCEPT ![h] = {c}]
    /\ Goto(h, "push")
    /\ UNCHANGED <<queue, request, acked, handled, bounds>>

(* Any other event is only recorded, by the commit in get_db.              *)
PersistOther(h) ==
    /\ pc[h] = "persist" /\ request[h] \notin FailureEvents \cup Malformed \cup events
    /\ events' = events \cup {request[h]}
    /\ Goto(h, "answer")
    /\ UNCHANGED <<cases, queue, request, todo, acked, handled, bounds>>

(* A concurrent delivery has committed the id: UNIQUE fails, answer 500.   *)
UniqueViolation(h) ==
    /\ pc[h] = "persist" /\ request[h] \in events
    /\ Done(h)
    /\ UNCHANGED <<events, cases, queue, acked, handled, bounds>>

\* Mutant: the rollback leaves the event row behind.
DbErrorKeepsEvent(h) ==
    /\ pc[h] = "persist" /\ dbErrors < MaxDbErrors
    /\ dbErrors' = dbErrors + 1
    /\ events' = events \cup {request[h]}
    /\ Done(h)
    /\ UNCHANGED <<cases, queue, acked, handled, crashes>>
(* The database call raises: rollback, 500.  The commit in get_db may come *)
(* after the answer was sent (by FastAPI's version), a failure event's     *)
(* commit does not, and a handler that raised has nothing to commit.       *)
DbError(h) ==
    /\ pc[h] = "persist" /\ dbErrors < MaxDbErrors
    /\ dbErrors' = dbErrors + 1
    /\ acked' \in {acked, acked \cup ({request[h]} \ (FailureEvents \cup Malformed))}
    /\ Done(h)
    /\ UNCHANGED <<events, cases, queue, handled, crashes>>

(* simulate_batch: every case of the batch is committed, then each queued. *)
SimulateBatch(h) ==
    /\ pc[h] = "idle"
    /\ \E ids \in SUBSET FreshIds :
         /\ Cardinality(ids) \in BatchSizes
         /\ cases' = cases \cup {[id |-> c, event |-> None] : c \in ids}
         /\ todo' = [todo EXCEPT ![h] = ids]
    /\ Goto(h, "push")
    /\ UNCHANGED <<events, queue, request, acked, handled, bounds>>

(* enqueue_recovery_case: no copy when Redis is away, several when an      *)
(* attempt that timed out had pushed; the caller goes on all the same.     *)
Push(c) == \E n \in Pushes : queue' = [i \in 1..n |-> c] \o queue

Enqueue(h) ==
    /\ pc[h] = "push"
    /\ \E c \in todo[h] :
         /\ Push(c)
         /\ todo' = [todo EXCEPT ![h] = @ \ {c}]
    /\ Goto(h, IF Cardinality(todo[h]) = 1 THEN "answer" ELSE "push")
    /\ UNCHANGED <<events, cases, request, acked, handled, bounds>>

(* The event that follows each push of a batch cannot be sent (a client    *)
(* connects while it is broadcast, see EventFanout): 500, and the rest of  *)
(* the batch is never queued.                                              *)
EmitFails(h) ==
    /\ pc[h] = "push" /\ request[h] = None
    /\ \E c \in todo[h] : Push(c)
    /\ Done(h)
    /\ UNCHANGED <<events, cases, acked, handled, bounds>>

(* 200; Razorpay misses an answer that takes longer than it waits.         *)
Answer(h) ==
    /\ pc[h] = "answer"
    /\ acked' \in {acked, acked \cup ({request[h]} \cap Events)}
    /\ Done(h)
    /\ UNCHANGED <<events, cases, queue, handled, bounds>>

Crash ==
    /\ crashes < MaxCrashes /\ crashes' = crashes + 1
    /\ pc' = [h \in Handlers |-> "idle"]
    /\ request' = [h \in Handlers |-> None]
    /\ todo' = [h \in Handlers |-> {}]
    /\ UNCHANGED <<events, cases, queue, acked, handled, dbErrors>>

(* The worker pops an id for good and skips it if the row is not there.    *)
Take ==
    /\ queue # <<>>
    /\ handled' = handled \cup ({queue[Len(queue)]} \cap Committed)
    /\ queue' = SubSeq(queue, 1, Len(queue) - 1)
    /\ UNCHANGED <<events, cases, handlers, acked, bounds>>

-----------------------------------------------------------------------------
HandlerStep(h) ==
    \/ Refuse(h) \/ Duplicate(h) \/ NewEvent(h) \/ HandlerRaises(h)
    \/ Persist(h) \/ PersistOther(h) \/ UniqueViolation(h) \/ DbError(h)
    \/ Enqueue(h) \/ EmitFails(h) \/ Answer(h)

Next ==
    \/ \E h \in Handlers : \/ HandlerStep(h) \/ SimulateBatch(h)
                           \/ \E e \in Events : Deliver(h, e)
    \/ Crash \/ Take

Spec == Init /\ [][Next]_vars

(* A started handler and the worker run on.  An API process takes any      *)
(* number of requests, so the bound on handlers must not starve an event   *)
(* that Razorpay keeps delivering.                                         *)
FairSpec == /\ Spec
            /\ \A h \in Handlers : WF_vars(HandlerStep(h))
            /\ \A e \in Events : SF_vars(\E h \in Handlers : Deliver(h, e))
            /\ WF_vars(Take)

-----------------------------------------------------------------------------
(* The tables, the queue and the handlers' locals have their types.        *)
TypeOK ==
    /\ events \subseteq Events /\ cases \subseteq Case
    /\ queue \in Seq(CaseIds)
    /\ pc \in [Handlers -> {"idle", "verify", "persist", "push", "answer"}]
    /\ request \in [Handlers -> Events \cup {None}]
    /\ todo \in [Handlers -> SUBSET CaseIds]
    /\ \A h \in Handlers : pc[h] = "persist" => request[h] \in ValidEvents
    /\ acked \subseteq Events /\ handled \subseteq CaseIds
    /\ crashes \in Nat /\ dbErrors \in Nat

(* "Razorpay event IDs provide idempotency": concurrent, repeated and      *)
(* interrupted deliveries of an event make at most one case, and the       *)
(* event's own row is committed with it (handle_razorpay_webhook).         *)
OneCasePerEvent ==
    \A x \in cases : x.event # None =>
        /\ x.event \in events
        /\ \A y \in cases : x.event = y.event => x = y

(* "Cases are committed before queueing, preventing worker read races":    *)
(* an id a worker can pop, or a handler is about to push, has its row.     *)
QueuedCaseIsCommitted ==
    \A c \in CaseIds :
        (\E i \in DOMAIN queue : queue[i] = c) \/ (\E h \in Handlers : c \in todo[h])
        => c \in Committed

(* The intake implements the abstract ledger of cases: whatever runs       *)
(* concurrently, fails, crashes or is repeated, a failure event has at     *)
(* most one case, Razorpay is never told to stop before that case is       *)
(* committed, and a worker finds committed cases only.                     *)
Ledger == INSTANCE CaseLedger WITH
    Failures <- FailureEvents, NoEvent <- None,
    opened <- cases, settled <- acked \cap FailureEvents, taken <- handled
LedgerSpec == Ledger!Spec

(* A payment.failed event becomes a case, through concurrent deliveries, a *)
(* failing database, a crash of the API and answers that come too late.    *)
(* One that normalize_razorpay_event raises on never does: it is answered  *)
(* 500 for as long as Razorpay delivers it.                                *)
EventBecomesCase ==
    \A e \in FailureEvents \ Malformed : <>(\E x \in cases : x.event = e)

(* "Redis enqueue failed (will process later)": every committed case is    *)
(* taken by a worker some day.                                             *)
CommittedCaseIsProcessed ==
    \A c \in CaseIds : c \in Committed ~> c \in handled
=============================================================================
