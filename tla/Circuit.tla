------------------------------- MODULE Circuit -------------------------------
(***************************************************************************)
(* The circuit breaker of one bank and rail as it is meant to work: every  *)
(* change of state is one step.  An open circuit is left only for the      *)
(* half-open state and only after its cooldown; a half-open one is left    *)
(* only on the results of probes made since it was entered; a circuit that *)
(* opens again stays open twice as long.                                   *)
(***************************************************************************)
EXTENDS Integers

CONSTANTS Base, NeededSuccesses, NeededFailures

VARIABLES clock, state, opened, cooldown, ok, failed

counts == <<ok, failed>>
vars == <<clock, state, opened, cooldown, counts>>

Init == /\ clock = 0 /\ state = "closed" /\ opened = 0 /\ cooldown = Base
        /\ ok = 0 /\ failed = 0

Enter(s) == state' = s /\ ok' = 0 /\ failed' = 0 /\ UNCHANGED clock

Trip == /\ state = "closed" /\ Enter("open")
        /\ opened' = clock /\ cooldown' = Base

CoolDown == /\ state = "open" /\ clock - opened >= cooldown
            /\ Enter("half_open")
            /\ opened' = 0 /\ UNCHANGED cooldown

ProbeSucceeds == /\ state = "half_open" /\ ok' = ok + 1
                 /\ UNCHANGED <<clock, state, opened, cooldown, failed>>
ProbeFails == /\ state = "half_open" /\ failed' = failed + 1
              /\ UNCHANGED <<clock, state, opened, cooldown, ok>>

Close == /\ state = "half_open" /\ ok >= NeededSuccesses
         /\ Enter("closed")
         /\ opened' = 0 /\ cooldown' = Base

Reopen == /\ state = "half_open" /\ failed >= NeededFailures
          /\ Enter("open")
          /\ opened' = clock /\ cooldown' = 2 * cooldown

Advance == clock' > clock /\ UNCHANGED <<state, opened, cooldown, counts>>

Next == Trip \/ CoolDown \/ ProbeSucceeds \/ ProbeFails \/ Close \/ Reopen \/ Advance

Spec == Init /\ [][Next]_vars
=============================================================================
