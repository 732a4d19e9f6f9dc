---------------------------- MODULE GatewayHealth ----------------------------
(***************************************************************************)
(* The health of one bank and rail as the processes see it: the sliding    *)
(* window of outcomes in Redis (gateway_health/aggregator.py), the circuit *)
(* it drives (CircuitBreaker), the downtimes Razorpay reports              *)
(* (downtime_monitor.py), and their callers: the worker's enrich_health,   *)
(* which falls back to a healthy default, and the API's gateway_health and *)
(* simulate_outage.  demo/serve.py records ordinary outcomes.              *)
(*                                                                         *)
(* Every step of a call is one Redis command of it, or some that only drop *)
(* old scores, so that the commands of other calls and the passing of time *)
(* come in between.                                                        *)
(***************************************************************************)
EXTENDS CircuitBreaker, Sequences, FiniteSets

CONSTANTS
    Workers, Apis,      \* the clients that are workers, or API handlers
    None,
    Window,             \* length of the window read, 15 minutes
    MinSamples,         \* min_samples
    ThresholdPct,       \* failure_threshold, in percent
    OutageSize,         \* the outcomes simulate_outage records
    Seedings,           \* the sequences of outcomes seed-health may record
    Downtimes,          \* whether Razorpay may report a matching downtime
    MaxRecordings,      \* bound on recording calls
    MaxFailures         \* bound on failing Redis commands

OUTCOMES == <<"success", "technical_decline", "business_decline", "timeout">>
Outcome == {"success", "technical_decline", "business_decline", "timeout"}
Technical == {"technical_decline", "timeout"}

ASSUME GatewayAssumption ==
    /\ Workers \cup Apis \subseteq Clients
    /\ Window \in Nat \ {0} /\ MinSamples \in Nat /\ ThresholdPct \in 0..100
    /\ OutageSize \in Nat /\ MaxRecordings \in Nat /\ MaxFailures \in Nat
    /\ Seedings \subseteq Seq(Outcome) /\ Downtimes \subseteq BOOLEAN

VARIABLES
    window,      \* outcome -> its sorted set: members with their score, at
    ttl,         \* outcome -> when its key expires, None if never or no key
    stage,       \* client -> the next command of its call
    todo,        \* client -> the outcomes it has yet to record
    call,        \* client -> its call: kind, start of its recording, cutoff
    counts,      \* client -> the cardinalities it has read, in order
    recordings, failures,
    logged       \* history: outcome -> all members it was recorded with

locals == <<stage, todo, call, counts>>
sets == <<window, ttl, logged>>
stats == <<sets, recordings, failures>>
gatewayVars == <<vars, locals, stats>>

Member == [at: Nat, id: Nat]
Kind == {"enrich", "gateway_health", "outage", "seed"}
NoCall == [kind |-> None, began |-> 0, cutoff |-> 0]

GatewayInit ==
    /\ Init
    /\ window = [o \in Outcome |-> {}] /\ ttl = [o \in Outcome |-> None]
    /\ stage = [k \in Clients |-> "idle"]
    /\ todo = [k \in Clients |-> <<>>]
    /\ call = [k \in Clients |-> NoCall]
    /\ counts = [k \in Clients |-> <<>>]
    /\ recordings = 0 /\ failures = 0
    /\ logged = [o \in Outcome |-> {}]

Goto(k, s) == stage' = [stage EXCEPT ![k] = s]
Reply(k) == /\ Goto(k, "idle")
            /\ todo' = [todo EXCEPT ![k] = <<>>]
            /\ call' = [call EXCEPT ![k] = NoCall]
            /\ counts' = [counts EXCEPT ![k] = <<>>]

(* The members that zremrangebyscore(0, lo) leaves.                        *)
Newer(members, lo) == {m \in members : m.at > lo}
Cutoff == now - Window

-----------------------------------------------------------------------------
(* A call of get_unified_health by a worker's run or the dashboard.        *)
AskHealth(k, kind) ==
    /\ stage[k] = "idle"
    /\ k \in IF kind = "enrich" THEN Workers ELSE Apis
    /\ Goto(k, "clean") /\ call' = [call EXCEPT ![k].kind = kind]
    /\ UNCHANGED <<vars, todo, counts, stats>>

(* A call that records outcomes one after the other.                       *)
StartRecording(k, kind, outcomes) ==
    /\ stage[k] = "idle" /\ k \in Apis
    /\ recordings < MaxRecordings /\ recordings' = recordings + 1
    /\ todo' = [todo EXCEPT ![k] = outcomes]
    /\ call' = [call EXCEPT ![k].kind = kind, ![k].began = now]
    /\ Goto(k, "zadd")
    /\ UNCHANGED <<vars, counts, sets, failures>>

SimulateOutage(k) ==
    StartRecording(k, "outage", [i \in 1..OutageSize |-> "technical_decline"])
SeedHealth(k) == \E outcomes \in Seedings : StartRecording(k, "seed", outcomes)

(* The member of an outcome recorded now, with its score in its name and a *)
(* uuid that makes it unique.                                              *)
NewMember(o) == [at |-> now, id |-> Cardinality(logged[o])]

(* record_outcome: ZADD with the removal of old scores, then EXPIRE.       *)
RecordOutcome(k) ==
    LET o == Head(todo[k]) IN
    /\ stage[k] = "zadd" /\ todo[k] # <<>>
    /\ window' = [window EXCEPT ![o] = Newer(@, Cutoff) \cup {NewMember(o)}]
    /\ logged' = [logged EXCEPT ![o] = @ \cup {NewMember(o)}]
    /\ Goto(k, "expire")
    /\ UNCHANGED <<vars, todo, call, counts, ttl, recordings, failures>>

\* Mutant: the key lives a minute less than the window.
SetExpiryTooShort(k) ==
    LET o == Head(todo[k]) IN
    /\ stage[k] = "expire"
    /\ ttl' = IF window[o] = {} THEN ttl ELSE [ttl EXCEPT ![o] = now + Window - 1]
    /\ todo' = [todo EXCEPT ![k] = Tail(@)]
    /\ Goto(k, "zadd")
    /\ UNCHANGED <<vars, call, counts, window, logged, recordings, failures>>
(* EXPIRE does nothing if the key has gone since the ZADD.                 *)
SetExpiry(k) ==
    LET o == Head(todo[k]) IN
    /\ stage[k] = "expire"
    /\ ttl' = IF window[o] = {} THEN ttl ELSE [ttl EXCEPT ![o] = now + Window + 1]
    /\ todo' = [todo EXCEPT ![k] = Tail(@)]
    /\ Goto(k, "zadd")
    /\ UNCHANGED <<vars, call, counts, window, logged, recordings, failures>>

(* All recorded: seeding is done, simulate_outage asks for the health.     *)
Recorded(k) ==
    /\ stage[k] = "zadd" /\ todo[k] = <<>>
    /\ IF call[k].kind = "outage" THEN Goto(k, "clean") /\ UNCHANGED <<todo, call, counts>>
                                  ELSE Reply(k)
    /\ UNCHANGED <<vars, stats>>

(* Redis drops a key whose time is over.                                   *)
KeyExpires(o) ==
    /\ ttl[o] # None /\ ttl[o] <= now
    /\ window' = [window EXCEPT ![o] = {}] /\ ttl' = [ttl EXCEPT ![o] = None]
    /\ UNCHANGED <<vars, locals, logged, recordings, failures>>

-----------------------------------------------------------------------------
\* Mutant: get_stats counts without cleaning first.
CleanNothing(k) ==
    /\ stage[k] = "clean"
    /\ call' = [call EXCEPT ![k].cutoff = Cutoff]
    /\ Goto(k, "count")
    /\ UNCHANGED <<vars, todo, counts, stats>>
(* get_stats: one cutoff for the four sets, then a ZCARD for each.  A key  *)
(* whose last member is dropped is gone, and its expiry with it.           *)
CleanupWindow(k) ==
    /\ stage[k] = "clean"
    /\ window' = [o \in Outcome |-> Newer(window[o], Cutoff)]
    /\ ttl' = [o \in Outcome |-> IF Newer(window[o], Cutoff) = {} THEN None ELSE ttl[o]]
    /\ call' = [call EXCEPT ![k].cutoff = Cutoff]
    /\ Goto(k, "count")
    /\ UNCHANGED <<vars, todo, counts, logged, recordings, failures>>

\* Mutant: the last outcome's set is not counted.
CountOneLess(k) ==
    LET o == OUTCOMES[Len(counts[k]) + 1] IN
    /\ stage[k] = "count"
    /\ counts' = [counts EXCEPT ![k] = Append(@, Cardinality(window[o]))]
    /\ Goto(k, IF o = "business_decline" THEN "evaluate" ELSE "count")
    /\ UNCHANGED <<vars, todo, call, stats>>
CountOutcome(k) ==
    LET o == OUTCOMES[Len(counts[k]) + 1] IN
    /\ stage[k] = "count"
    /\ counts' = [counts EXCEPT ![k] = Append(@, Cardinality(window[o]))]
    /\ Goto(k, IF o = "timeout" THEN "evaluate" ELSE "count")
    /\ UNCHANGED <<vars, todo, call, stats>>

ReadCircuit(k) ==
    /\ stage[k] = "evaluate" /\ Get(k, "evaluate")
    /\ Goto(k, "decide")
    /\ UNCHANGED <<todo, call, counts, stats>>

Total(c) == c[1] + c[2] + c[3] + c[4]

\* Mutant: timeouts are not counted as technical failures.
TripsOnDeclinesOnly(k) ==
    LET total == Total(counts[k])
    IN total > MinSamples /\ 100 * counts[k][2] > ThresholdPct * total
(* More than min_samples attempts, too many of them failed technically.    *)
Trips(k) ==
    LET total == Total(counts[k])
        technical == counts[k][2] + counts[k][4]
    IN total > MinSamples /\ 100 * technical > ThresholdPct * total

(* The states the caller may be given: a downtime overrides the circuit's, *)
(* but is never stored.                                                    *)
Snapshot(k) == {IF down THEN "open" ELSE Evaluated(seen[k], Trips(k), now).state :
                  down \in Downtimes}

(* evaluate's decision on the document read, and its SET if it has one.    *)
Conclude(k) ==
    /\ stage[k] = "decide"
    /\ IF seen[k].state = "closed" \/ Evaluated(seen[k], Trips(k), now) # seen[k]
       THEN SaveVerdict(k, Trips(k))
       ELSE Return(k)
    /\ Reply(k)

(* The answer: get_health reads back what evaluate has stored.             *)
Decide(k) == Conclude(k) /\ UNCHANGED stats

(* The SET is stored, but its reply or the GET after it fails: the caller  *)
(* falls back or answers 500 as in RedisFails.                             *)
VerdictUnread(k) ==
    /\ Conclude(k)
    /\ failures < MaxFailures /\ failures' = failures + 1
    /\ UNCHANGED <<sets, recordings>>

(* A Redis command raises: a worker goes on with a healthy default, an API *)
(* call answers 500, and what was recorded so far stays.                   *)
RedisFails(k) ==
    /\ stage[k] # "idle" /\ failures < MaxFailures /\ failures' = failures + 1
    /\ IF pc[k] = "idle" THEN UNCHANGED vars ELSE Return(k)
    /\ Reply(k)
    /\ UNCHANGED <<sets, recordings>>

Elapse == Tick /\ UNCHANGED <<locals, stats>>

-----------------------------------------------------------------------------
CallStep(k) ==
    \/ RecordOutcome(k) \/ SetExpiry(k) \/ Recorded(k)
    \/ CleanupWindow(k) \/ CountOutcome(k) \/ ReadCircuit(k) \/ Decide(k)

Start(k) == AskHealth(k, "enrich") \/ AskHealth(k, "gateway_health")

GatewayNext ==
    \/ \E k \in Clients : Start(k) \/ SimulateOutage(k) \/ SeedHealth(k)
                          \/ CallStep(k) \/ VerdictUnread(k) \/ RedisFails(k)
    \/ \E o \in Outcome : KeyExpires(o)
    \/ Elapse

GatewaySpec == GatewayInit /\ [][GatewayNext]_gatewayVars

(* Cases keep coming and the dashboard keeps asking.                       *)
GatewayFairSpec ==
    /\ GatewaySpec
    /\ \A k \in Clients : WF_gatewayVars(Start(k) \/ CallStep(k))

-----------------------------------------------------------------------------
(* The window's sets and the calls' locals have their types, a set with no *)
(* members has no key, and a call decides on one count for each outcome.   *)
GatewayTypeOK ==
    /\ TypeOK
    /\ window \in [Outcome -> SUBSET Member]
    /\ logged \in [Outcome -> SUBSET Member]
    /\ \A o \in Outcome : window[o] \subseteq logged[o] /\ (window[o] = {} => ttl[o] = None)
    /\ ttl \in [Outcome -> Nat \cup {None}]
    /\ stage \in [Clients -> {"idle", "zadd", "expire", "clean", "count", "evaluate", "decide"}]
    /\ todo \in [Clients -> Seq(Outcome)]
    /\ call \in [Clients -> [kind: Kind \cup {None}, began: Nat, cutoff: Int]]
    /\ counts \in [Clients -> Seq(Nat)]
    /\ \A k \in Clients :
         /\ stage[k] = "expire" => todo[k] # <<>>
         /\ stage[k] = "count" => Len(counts[k]) < 4
         /\ stage[k] \in {"evaluate", "decide"} => Len(counts[k]) = 4
         /\ stage[k] \notin {"count", "evaluate", "decide"} => counts[k] = <<>>
    /\ recordings \in Nat /\ failures \in Nat

(* No count a call has read exceeds the number of outcomes ever logged     *)
(* that were not older than the window when it started counting, whatever  *)
(* other calls record and clean between its commands                       *)
(* (GatewayHealthAggregator.get_stats).                                    *)
CountsAreRecent ==
    \A k \in Clients : \A i \in DOMAIN counts[k] :
        counts[k][i] <= Cardinality(Newer(logged[OUTCOMES[i]], call[k].cutoff))

(* An outage that lost one outcome outweighs the ordinary outcomes that    *)
(* the call has counted next to it.                                        *)
OutageWeighs(k) ==
    LET left == OutageSize - 1 IN
    100 * left > ThresholdPct * (left + counts[k][1] + counts[k][3])

(* simulate_outage, if it takes less than the window and its outcomes      *)
(* less one outweigh the successes and business declines it has counted    *)
(* (OutageWeighs), never answers that the circuit is closed, whatever else *)
(* is recorded, counted and cleaned meanwhile: at most one of its outcomes *)
(* is lost, to a key that expires between the call's first ZADD and the    *)
(* EXPIRE that follows it.                                                 *)
OutageIsAnswered ==
    \A k \in Clients :
        /\ stage[k] = "decide" /\ call[k].kind = "outage"
        /\ now - call[k].began < Window /\ OutageWeighs(k)
        => "closed" \notin Snapshot(k)

(* The outcomes in the window call for an open circuit.                    *)
Failing ==
    LET size(o) == Cardinality(Newer(window[o], Cutoff))
        total == size("success") + size("technical_decline")
                 + size("business_decline") + size("timeout")
        technical == size("technical_decline") + size("timeout")
    IN total > MinSamples /\ 100 * technical > ThresholdPct * total

(* Failing outcomes open the circuit as long as they are in the window:    *)
(* a stale write of the other process, a Redis failure or counts that mix  *)
(* two moments may delay it but not prevent it.                            *)
FailingGatewayIsNoticed == Failing ~> circuit.state # "closed" \/ ~Failing
=============================================================================
