--------------------------- MODULE CircuitBreaker ---------------------------
(***************************************************************************)
(* backend/gateway_health/circuit_breaker.py for one bank and rail, and    *)
(* the processes that share its Redis key: the worker (enrich_with_health) *)
(* and the API (gateway-health, simulate_outage).                          *)
(*                                                                         *)
(* Each operation GETs the JSON document, decides, and SETs it whole, with *)
(* no transaction around the two.  record_probe_result is an operation of  *)
(* the class; no process in backend/ calls it, so Probers = {} is the      *)
(* deployed system and a non-empty set one that uses the class in full.    *)
(***************************************************************************)
EXTENDS Integers

CONSTANTS
    Clients, Probers,
    Cooldown,            \* cooldown_seconds
    ProbeCount, ProbeRequiredSuccesses,
    MaxTime, MaxProbes   \* bounds on the clock and on recorded probes

ASSUME BreakerAssumption ==
    /\ Probers \subseteq Clients
    /\ Cooldown \in Nat /\ MaxTime \in Nat /\ MaxProbes \in Nat
    /\ ProbeCount \in Nat /\ ProbeRequiredSuccesses \in Nat

VARIABLES
    now,
    circuit,     \* the document under cb:bank:rail; no key reads as closed
    pc,          \* per client: the call it is in
    seen         \* per client: the document it read

vars == <<now, circuit, pc, seen>>

Document == [state: {"closed", "open", "half_open"}, opened: Nat, cooldown: Nat,
             ok: Nat, failed: Nat]

(* _new_state; opened_at is only there when the circuit is open.           *)
NewState(state, opened, cooldown) ==
    [state |-> state, opened |-> opened, cooldown |-> cooldown, ok |-> 0, failed |-> 0]
Closed == NewState("closed", 0, Cooldown)

RequiredFailures ==
    LET n == ProbeCount - ProbeRequiredSuccesses + 1 IN IF n > 1 THEN n ELSE 1

\* Mutant: reopening does not double the cooldown.
EvaluatedSameCooldown(c, trips, t) ==
    IF c.state = "closed" /\ trips THEN NewState("open", t, Cooldown)
    ELSE IF c.state = "open" /\ t - c.opened >= c.cooldown
         THEN NewState("half_open", 0, c.cooldown)
    ELSE IF c.state = "half_open" /\ c.ok >= ProbeRequiredSuccesses THEN Closed
    ELSE IF c.state = "half_open" /\ c.failed >= RequiredFailures
         THEN NewState("open", t, c.cooldown)
    ELSE c

(* evaluate, from the document read; trips: more than min_samples attempts *)
(* in the window, of which more than failure_threshold failed technically. *)
Evaluated(c, trips, t) ==
    IF c.state = "closed" /\ trips THEN NewState("open", t, Cooldown)
    ELSE IF c.state = "open" /\ t - c.opened >= c.cooldown
         THEN NewState("half_open", 0, c.cooldown)
    ELSE IF c.state = "half_open" /\ c.ok >= ProbeRequiredSuccesses THEN Closed
    ELSE IF c.state = "half_open" /\ c.failed >= RequiredFailures
         THEN NewState("open", t, 2 * c.cooldown)
    ELSE c

Probed(c, success) ==
    IF success THEN [c EXCEPT !.ok = @ + 1] ELSE [c EXCEPT !.failed = @ + 1]

Init ==
    /\ now = 0 /\ circuit = Closed
    /\ pc = [k \in Clients |-> "idle"]
    /\ seen = [k \in Clients |-> Closed]

-----------------------------------------------------------------------------
(* An operation returns, and what it read is gone.                         *)
Leave(k) == /\ pc' = [pc EXCEPT ![k] = "idle"]
            /\ seen' = [seen EXCEPT ![k] = Closed]

(* The GET an operation starts with.                                       *)
Get(k, operation) ==
    /\ pc[k] = "idle"
    /\ operation = "probe" => k \in Probers
    /\ pc' = [pc EXCEPT ![k] = operation]
    /\ seen' = [seen EXCEPT ![k] = circuit]
    /\ UNCHANGED <<now, circuit>>

(* The operation returns without a SET: nothing to change, or Redis failed *)
(* and the caller falls back to a healthy default.                         *)
Return(k) ==
    /\ pc[k] # "idle" /\ Leave(k)
    /\ UNCHANGED <<now, circuit>>

(* evaluate's SET: a closed document is written back even if unchanged.    *)
SaveVerdict(k, trips) ==
    /\ pc[k] = "evaluate"
    /\ LET next == Evaluated(seen[k], trips, now) IN
         /\ seen[k].state = "closed" \/ next # seen[k]
         /\ circuit' = next
    /\ Leave(k)
    /\ UNCHANGED now

Save(k) == \E trips \in BOOLEAN : SaveVerdict(k, trips)

SaveProbe(k) ==
    /\ pc[k] = "probe" /\ seen[k].state = "half_open"
    /\ seen[k].ok + seen[k].failed < MaxProbes
    /\ \E success \in BOOLEAN : circuit' = Probed(seen[k], success)
    /\ Leave(k)
    /\ UNCHANGED now

Tick == /\ now < MaxTime /\ now' = now + 1
        /\ UNCHANGED <<circuit, pc, seen>>

-----------------------------------------------------------------------------
Next ==
    \/ \E k \in Clients : \/ Get(k, "evaluate") \/ Get(k, "probe")
                          \/ Return(k) \/ Save(k) \/ SaveProbe(k)
    \/ Tick

Spec == Init /\ [][Next]_vars

-----------------------------------------------------------------------------
(* The document and the clients' locals have their types.                  *)
TypeOK ==
    /\ now \in Nat /\ circuit \in Document
    /\ pc \in [Clients -> {"idle", "evaluate", "probe"}]
    /\ seen \in [Clients -> Document]

Abstract == INSTANCE Circuit WITH
    Base <- Cooldown,
    NeededSuccesses <- ProbeRequiredSuccesses, NeededFailures <- RequiredFailures,
    clock <- now,
    state <- circuit.state, opened <- circuit.opened, cooldown <- circuit.cooldown,
    ok <- circuit.ok, failed <- circuit.failed

(* The clients in a call whose document another client has overwritten.    *)
Behind == {k \in Clients : pc[k] # "idle" /\ seen[k] # circuit}

(* However many processes share the key, every SET is a step of the        *)
(* intended circuit, or ends a call that another client's SET overtook     *)
(* between its GET and its own; only then is a trip lost, a circuit closed *)
(* without probes or a doubled cooldown undone.  And no call is overtaken  *)
(* by anything but a SET (evaluate, record_probe_result).                  *)
OnlyOvertakenWritesDiverge ==
    [][/\ \/ Abstract!Next \/ UNCHANGED Abstract!vars
          \/ \E k \in Behind : pc'[k] = "idle"
       /\ circuit' = circuit => Behind' \subseteq Behind]_vars
=============================================================================
