------------------------- MODULE GatewayHealthProofs -------------------------
(* Theorems of GatewayHealth, for any clients, window and traffic.         *)
EXTENDS GatewayHealth, CircuitBreakerProofs, FiniteSetTheorems

(* The window only ever drives the circuit through the operations of       *)
(* CircuitBreaker: whatever is counted, recorded, dropped or failing in    *)
(* between, the processes' calls are evaluations of one shared document    *)
(* (downtime_monitor.get_unified_health, circuit_breaker.evaluate).        *)
THEOREM GatewayDrivesBreaker == GatewaySpec => Spec
<1>1. GatewayInit => Init
  BY DEF GatewayInit
<1>2. ASSUME [GatewayNext]_gatewayVars PROVE [Next]_vars
  <2>1. ASSUME NEW k \in Clients, ReadCircuit(k) PROVE Next
    BY <2>1 DEF ReadCircuit, Next
  <2>2. ASSUME NEW k \in Clients, Decide(k) \/ VerdictUnread(k) PROVE Next
    <3>1. Trips(k) \in BOOLEAN
      BY DEF Trips
    <3>2. Save(k) \/ Return(k)
      BY <2>2, <3>1 DEF Decide, VerdictUnread, Conclude, Save
    <3> QED BY <3>2 DEF Next
  <2>3. ASSUME NEW k \in Clients, RedisFails(k) PROVE [Next]_vars
    BY <2>3 DEF RedisFails, Next
  <2>4. CASE Elapse
    BY <2>4 DEF Elapse, Next
  <2>5. ASSUME NEW k \in Clients, Start(k) \/ SimulateOutage(k) \/ SeedHealth(k)
        PROVE  UNCHANGED vars
    BY <2>5 DEF Start, AskHealth, SimulateOutage, SeedHealth, StartRecording
  <2>6. ASSUME NEW k \in Clients, \/ RecordOutcome(k) \/ SetExpiry(k) \/ Recorded(k)
                                  \/ CleanupWindow(k) \/ CountOutcome(k)
        PROVE  UNCHANGED vars
    BY <2>6 DEF RecordOutcome, SetExpiry, Recorded, CleanupWindow, CountOutcome
  <2>7. ASSUME NEW o \in Outcome, KeyExpires(o) PROVE UNCHANGED vars
    BY <2>7 DEF KeyExpires
  <2>8. CASE UNCHANGED gatewayVars
    BY <2>8 DEF gatewayVars
  <2> QED BY <1>2, <2>1, <2>2, <2>3, <2>4, <2>5, <2>6, <2>7, <2>8 DEF GatewayNext, CallStep
<1> QED BY <1>1, <1>2, PTL DEF GatewaySpec, Spec

(* So the circuit's document keeps its type under the window as well.      *)
THEOREM GatewayCircuitType == GatewaySpec => []TypeOK
BY GatewayDrivesBreaker, CircuitTypeCorrect, PTL

-----------------------------------------------------------------------------
(* The members of an outcome are finitely many and numbered, so that a new *)
(* one is always another one.                                              *)
Numbered ==
    \A o \in Outcome : /\ IsFiniteSet(logged[o])
                       /\ \A m \in logged[o] : m.id < Cardinality(logged[o])

(* While a call counts, no window holds what its cutoff has excluded.      *)
CountsInWindow ==
    \A k \in Clients : stage[k] = "count" =>
        /\ call[k].cutoff + Window <= now
        /\ \A o \in Outcome : \A m \in window[o] : m.at > call[k].cutoff

(* No process records the result of a probe.                               *)
NoProbes == circuit.ok = 0 /\ \A k \in Clients : seen[k].ok = 0

(* What simulate_outage has recorded is in the window, except one outcome  *)
(* if the key it was added to has expired before the call's first EXPIRE;  *)
(* after that the key outlives the call.                                   *)
Since(members, lo) == {m \in members : m.at >= lo}
Kept(t) == Cardinality(Since(window["technical_decline"], t))
Armed(t) == \/ ttl["technical_decline"] = None
            \/ ttl["technical_decline"] > t + Window
OutageKept(k) ==
    /\ IF stage[k] = "expire" THEN Kept(call[k].began) >= OutageSize - Len(todo[k])
                              ELSE Kept(call[k].began) >= OutageSize - 1 - Len(todo[k])
    /\ Len(todo[k]) < OutageSize => Armed(call[k].began)
    /\ Len(counts[k]) >= 2 => counts[k][2] >= OutageSize - 1
OutageInv ==
    \A k \in Clients : stage[k] # "idle" /\ call[k].kind = "outage" =>
        /\ call[k].began <= now
        /\ todo[k] \in Seq({"technical_decline"})
        /\ stage[k] \notin {"zadd", "expire"} => todo[k] = <<>>
        /\ now - call[k].began < Window => OutageKept(k)

-----------------------------------------------------------------------------
LEMMA WindowsAreFinite ==
    ASSUME GatewayTypeOK, Numbered, NEW o \in Outcome, NEW S \in SUBSET window[o]
    PROVE  IsFiniteSet(S) /\ Cardinality(S) \in Nat
<1>1. window[o] \subseteq logged[o] /\ IsFiniteSet(logged[o])
  BY DEF GatewayTypeOK, Numbered
<1>2. S \in SUBSET logged[o]
  BY <1>1
<1> QED BY <1>1, <1>2, FS_Subset, FS_CardinalityType

(* A recorded outcome is a new member, and its set has one more.           *)
LEMMA NewMemberIsNew ==
    ASSUME GatewayTypeOK, Numbered, NEW o \in Outcome
    PROVE  /\ NewMember(o) \in Member /\ NewMember(o) \notin logged[o]
           /\ NewMember(o).at = now /\ NewMember(o).id = Cardinality(logged[o])
           /\ IsFiniteSet(logged[o] \cup {NewMember(o)})
           /\ Cardinality(logged[o]) \in Nat
           /\ Cardinality(logged[o] \cup {NewMember(o)}) = Cardinality(logged[o]) + 1
<1>1. IsFiniteSet(logged[o]) /\ \A m \in logged[o] : m.id < Cardinality(logged[o])
  BY DEF Numbered
<1>2. Cardinality(logged[o]) \in Nat /\ now \in Nat
  BY <1>1, FS_CardinalityType DEF GatewayTypeOK, TypeOK
<1>3. /\ NewMember(o) \in Member
      /\ NewMember(o).at = now /\ NewMember(o).id = Cardinality(logged[o])
  BY <1>2 DEF NewMember, Member
<1>4. NewMember(o) \notin logged[o]
  BY <1>1, <1>2, <1>3
<1> QED BY <1>1, <1>2, <1>3, <1>4, FS_AddElement

LEMMA LoggedNumbered ==
    ASSUME GatewayTypeOK, Numbered, NEW k \in Clients, RecordOutcome(k)
    PROVE  /\ Head(todo[k]) \in Outcome
           /\ logged' = [logged EXCEPT ![Head(todo[k])] = @ \cup {NewMember(Head(todo[k]))}]
           /\ window' = [window EXCEPT ![Head(todo[k])] =
                            Newer(@, Cutoff) \cup {NewMember(Head(todo[k]))}]
           /\ ttl' = ttl /\ now' = now
           /\ logged' \in [Outcome -> SUBSET Member] /\ Numbered'
<1> DEFINE o == Head(todo[k])
<1>1. todo[k] \in Seq(Outcome) /\ todo[k] # <<>>
  BY DEF RecordOutcome, GatewayTypeOK
<1>2. o \in Outcome
  BY <1>1
<1>3. /\ logged' = [logged EXCEPT ![o] = @ \cup {NewMember(o)}]
      /\ window' = [window EXCEPT ![o] = Newer(@, Cutoff) \cup {NewMember(o)}]
      /\ ttl' = ttl /\ now' = now
  BY DEF RecordOutcome, vars
<1>4. logged \in [Outcome -> SUBSET Member]
  BY DEF GatewayTypeOK
<1> HIDE DEF o
<1>5. /\ logged'[o] = logged[o] \cup {NewMember(o)}
      /\ \A q \in Outcome : q # o => logged'[q] = logged[q]
      /\ logged' \in [Outcome -> SUBSET Member]
  BY <1>2, <1>3, <1>4, NewMemberIsNew
<1>6. Numbered'
  <2> SUFFICES ASSUME NEW q \in Outcome
               PROVE  /\ IsFiniteSet(logged'[q])
                      /\ \A m \in logged'[q] : m.id < Cardinality(logged'[q])
    BY DEF Numbered
  <2>1. CASE q # o
    BY <1>5, <2>1 DEF Numbered
  <2>2. CASE q = o
    <3>1. /\ IsFiniteSet(logged'[o]) /\ Cardinality(logged[o]) \in Nat
          /\ Cardinality(logged'[o]) = Cardinality(logged[o]) + 1
          /\ NewMember(o).id = Cardinality(logged[o])
      BY <1>2, <1>5, NewMemberIsNew
    <3>2. \A m \in logged[o] : m.id \in Nat /\ m.id < Cardinality(logged[o])
      BY <1>2, <1>4 DEF Numbered, Member
    <3>3. ASSUME NEW m \in logged'[o] PROVE m.id < Cardinality(logged'[o])
      <4>1. CASE m \in logged[o]
        BY <3>1, <3>2, <4>1
      <4>2. CASE m = NewMember(o)
        BY <3>1, <4>2
      <4> QED BY <1>5, <4>1, <4>2
    <3> QED BY <2>2, <3>1, <3>3
  <2> QED BY <2>1, <2>2
<1> QED BY <1>2, <1>3, <1>5, <1>6 DEF o

(* The four actions that touch the sets keep their types.                  *)
SetsOK ==
    /\ window \in [Outcome -> SUBSET Member]
    /\ logged \in [Outcome -> SUBSET Member]
    /\ \A o \in Outcome : window[o] \subseteq logged[o] /\ (window[o] = {} => ttl[o] = None)
    /\ ttl \in [Outcome -> Nat \cup {None}]

LEMMA SetsKept ==
    ASSUME GatewayTypeOK, Numbered, [GatewayNext]_gatewayVars PROVE SetsOK' /\ Numbered'
<1> USE DEF SetsOK
<1>0. SetsOK /\ now \in Nat
  BY DEF GatewayTypeOK, TypeOK
<1>1. ASSUME UNCHANGED sets PROVE SetsOK' /\ Numbered'
  BY <1>0, <1>1 DEF sets, Numbered
<1>2. ASSUME NEW k \in Clients, RecordOutcome(k) PROVE SetsOK' /\ Numbered'
  <2> DEFINE o == Head(todo[k])
  <2>1. /\ o \in Outcome
        /\ logged' = [logged EXCEPT ![o] = @ \cup {NewMember(o)}]
        /\ window' = [window EXCEPT ![o] = Newer(@, Cutoff) \cup {NewMember(o)}]
        /\ ttl' = ttl
        /\ logged' \in [Outcome -> SUBSET Member] /\ Numbered'
    BY <1>2, LoggedNumbered
  <2>2. NewMember(o) \in Member
    BY <2>1, NewMemberIsNew
  <2> HIDE DEF o
  <2>3. Newer(window[o], Cutoff) \subseteq window[o]
    BY DEF Newer
  <2>4. window' \in [Outcome -> SUBSET Member]
    BY <1>0, <2>1, <2>2, <2>3
  <2>5. ASSUME NEW q \in Outcome
        PROVE  window'[q] \subseteq logged'[q] /\ (window'[q] = {} => ttl'[q] = None)
    BY <1>0, <2>1, <2>3
  <2> QED BY <1>0, <2>1, <2>4, <2>5
<1>3. ASSUME NEW k \in Clients, SetExpiry(k) PROVE SetsOK' /\ Numbered'
  <2>1. UNCHANGED <<window, logged>> /\ Head(todo[k]) \in Outcome
    BY <1>3 DEF SetExpiry, GatewayTypeOK
  <2>2. ttl' \in {ttl, [ttl EXCEPT ![Head(todo[k])] = now + Window + 1]}
    BY <1>3 DEF SetExpiry
  <2>3. now + Window + 1 \in Nat
    BY <1>0, GatewayAssumption
  <2>4. \A o \in Outcome : window'[o] = {} => ttl'[o] = None
    BY <1>0, <1>3, <2>1 DEF SetExpiry
  <2> QED BY <1>0, <2>1, <2>2, <2>3, <2>4 DEF Numbered
<1>4. ASSUME NEW k \in Clients, CleanupWindow(k) PROVE SetsOK' /\ Numbered'
  <2>1. /\ window' = [o \in Outcome |-> Newer(window[o], Cutoff)] /\ logged' = logged
        /\ ttl' = [o \in Outcome |-> IF Newer(window[o], Cutoff) = {} THEN None ELSE ttl[o]]
    BY <1>4 DEF CleanupWindow
  <2>2. \A o \in Outcome : Newer(window[o], Cutoff) \subseteq window[o]
    BY DEF Newer
  <2>3. Numbered'
    BY <2>1 DEF Numbered
  <2> QED BY <1>0, <2>1, <2>2, <2>3
<1>5. ASSUME NEW o \in Outcome, KeyExpires(o) PROVE SetsOK' /\ Numbered'
  BY <1>0, <1>5 DEF KeyExpires, Numbered
<1>6. ASSUME NEW k \in Clients, \/ Start(k) \/ SimulateOutage(k) \/ SeedHealth(k)
                                \/ Recorded(k) \/ CountOutcome(k) \/ ReadCircuit(k)
                                \/ Decide(k) \/ VerdictUnread(k) \/ RedisFails(k)
      PROVE  UNCHANGED sets
  BY <1>6 DEF Start, AskHealth, SimulateOutage, SeedHealth, StartRecording, Recorded,
     CountOutcome, ReadCircuit, Decide, VerdictUnread, Conclude, RedisFails, stats
<1>7. Elapse \/ UNCHANGED gatewayVars => UNCHANGED sets
  BY DEF Elapse, gatewayVars, stats
<1> QED BY <1>1, <1>2, <1>3, <1>4, <1>5, <1>6, <1>7 DEF GatewayNext, CallStep

(* A call's locals keep their types, and it counts every outcome once.     *)
CallsOK ==
    /\ stage \in [Clients -> {"idle", "zadd", "expire", "clean", "count", "evaluate", "decide"}]
    /\ todo \in [Clients -> Seq(Outcome)]
    /\ call \in [Clients -> [kind: Kind \cup {None}, began: Nat, cutoff: Int]]
    /\ counts \in [Clients -> Seq(Nat)]
    /\ \A k \in Clients :
         /\ stage[k] = "expire" => todo[k] # <<>>
         /\ stage[k] = "count" => Len(counts[k]) < 4
         /\ stage[k] \in {"evaluate", "decide"} => Len(counts[k]) = 4
         /\ stage[k] \notin {"count", "evaluate", "decide"} => counts[k] = <<>>
    /\ recordings \in Nat /\ failures \in Nat

LEMMA OutcomeInOrder ==
    ASSUME NEW n \in 0..3
    PROVE  /\ OUTCOMES[n + 1] \in Outcome
           /\ OUTCOMES[n + 1] = "timeout" <=> n = 3
           /\ OUTCOMES[n + 1] = "technical_decline" <=> n = 1
<1>1. CASE n = 0 BY <1>1 DEF OUTCOMES, Outcome
<1>2. CASE n = 1 BY <1>2 DEF OUTCOMES, Outcome
<1>3. CASE n = 2 BY <1>3 DEF OUTCOMES, Outcome
<1>4. CASE n = 3 BY <1>4 DEF OUTCOMES, Outcome
<1> QED BY <1>1, <1>2, <1>3, <1>4

LEMMA CallsKept ==
    ASSUME GatewayTypeOK, Numbered, [GatewayNext]_gatewayVars PROVE CallsOK'
<1> USE DEF CallsOK, Goto
<1>0. CallsOK /\ now \in Nat
  BY DEF GatewayTypeOK, TypeOK
<1>1. ASSUME NEW k \in Clients, Reply(k), recordings' \in Nat, failures' \in Nat PROVE CallsOK'
  BY <1>0, <1>1 DEF Reply, NoCall
<1>2. ASSUME NEW k \in Clients, NEW kind \in Kind, AskHealth(k, kind) PROVE CallsOK'
  BY <1>0, <1>2 DEF AskHealth, stats
<1>3. ASSUME NEW k \in Clients, NEW kind \in Kind, NEW outcomes \in Seq(Outcome),
             StartRecording(k, kind, outcomes)
      PROVE  CallsOK'
  <2>1. call' = [call EXCEPT ![k].kind = kind, ![k].began = now]
    BY <1>3 DEF StartRecording
  <2>2. call' \in [Clients -> [kind: Kind \cup {None}, began: Nat, cutoff: Int]]
    BY <1>0, <2>1
  <2>3. /\ todo' = [todo EXCEPT ![k] = outcomes] /\ stage' = [stage EXCEPT ![k] = "zadd"]
        /\ stage[k] = "idle" /\ recordings' = recordings + 1
        /\ UNCHANGED <<counts, failures>>
    BY <1>3 DEF StartRecording
  <2> QED BY <1>0, <2>2, <2>3
<1>4. ASSUME NEW k \in Clients, Start(k) \/ SimulateOutage(k) \/ SeedHealth(k) PROVE CallsOK'
  <2>1. [i \in 1..OutageSize |-> "technical_decline"] \in Seq(Outcome)
    BY GatewayAssumption DEF Outcome
  <2>2. {"enrich", "gateway_health", "outage", "seed"} \subseteq Kind
    BY DEF Kind
  <2>3. CASE SeedHealth(k)
    <3>1. PICK outcomes \in Seedings : StartRecording(k, "seed", outcomes)
      BY <2>3 DEF SeedHealth
    <3> QED BY <1>3, <2>2, <3>1, GatewayAssumption
  <2>4. CASE SimulateOutage(k)
    BY <1>3, <2>1, <2>2, <2>4 DEF SimulateOutage
  <2>5. CASE Start(k)
    BY <1>2, <2>2, <2>5 DEF Start
  <2> QED BY <1>4, <2>3, <2>4, <2>5
<1>5. ASSUME NEW k \in Clients, RecordOutcome(k) PROVE CallsOK'
  BY <1>0, <1>5 DEF RecordOutcome
<1>6. ASSUME NEW k \in Clients, SetExpiry(k) PROVE CallsOK'
  <2>1. todo[k] \in Seq(Outcome) /\ todo[k] # <<>>
    BY <1>0, <1>6 DEF SetExpiry
  <2>2. Tail(todo[k]) \in Seq(Outcome)
    BY <2>1
  <2> QED BY <1>0, <1>6, <2>2 DEF SetExpiry
<1>7. ASSUME NEW k \in Clients, Recorded(k) PROVE CallsOK'
  BY <1>0, <1>1, <1>7 DEF Recorded, stats
<1>8. ASSUME NEW k \in Clients, CleanupWindow(k) PROVE CallsOK'
  <2>1. Cutoff \in Int
    BY <1>0, GatewayAssumption DEF Cutoff
  <2>2. call' = [call EXCEPT ![k].cutoff = Cutoff]
    BY <1>8 DEF CleanupWindow
  <2>3. call' \in [Clients -> [kind: Kind \cup {None}, began: Nat, cutoff: Int]]
    BY <1>0, <2>1, <2>2
  <2>4. counts[k] = <<>> /\ Len(counts[k]) < 4
    <3>1. counts[k] = <<>>
      BY <1>0, <1>8 DEF CleanupWindow
    <3> QED BY <3>1
  <2> QED BY <1>0, <1>8, <2>3, <2>4 DEF CleanupWindow
<1>9. ASSUME NEW k \in Clients, CountOutcome(k) PROVE CallsOK'
  <2> DEFINE n == Len(counts[k])
             o == OUTCOMES[n + 1]
             c == Append(counts[k], Cardinality(window[o]))
  <2>1. /\ counts' = [counts EXCEPT ![k] = c]
        /\ stage' = [stage EXCEPT ![k] = IF o = "timeout" THEN "evaluate" ELSE "count"]
        /\ UNCHANGED <<todo, call, recordings, failures>> /\ stage[k] = "count"
    BY <1>9 DEF CountOutcome, stats
  <2>2. counts[k] \in Seq(Nat) /\ n < 4
    BY <1>0, <2>1
  <2>3. n \in Nat
    BY <2>2
  <2>4. n \in 0..3
    <3> HIDE DEF n
    <3> QED BY <2>2, <2>3
  <2>5. o \in Outcome /\ (o = "timeout" <=> n = 3)
    <3> HIDE DEF n
    <3> QED BY <2>4, OutcomeInOrder
  <2>6. Cardinality(window[o]) \in Nat
    BY <2>5, WindowsAreFinite
  <2>7. c \in Seq(Nat) /\ Len(c) = n + 1
    BY <2>2, <2>6
  <2>8. c # <<>>
    BY <2>3, <2>7
  <2> HIDE DEF n, o, c
  <2>9. /\ counts' \in [Clients -> Seq(Nat)] /\ counts'[k] = c
        /\ \A j \in Clients : j # k => counts'[j] = counts[j]
        /\ stage'[k] = (IF n = 3 THEN "evaluate" ELSE "count")
        /\ stage' \in [Clients -> {"idle", "zadd", "expire", "clean", "count", "evaluate",
                                 "decide"}]
        /\ \A j \in Clients : j # k => stage'[j] = stage[j]
    BY <1>0, <2>1, <2>5, <2>7
  <2>10. ASSUME NEW j \in Clients
         PROVE  /\ stage'[j] = "expire" => todo'[j] # <<>>
                /\ stage'[j] = "count" => Len(counts'[j]) < 4
                /\ stage'[j] \in {"evaluate", "decide"} => Len(counts'[j]) = 4
                /\ stage'[j] \notin {"count", "evaluate", "decide"} => counts'[j] = <<>>
    <3>1. CASE j = k
      <4>1. Len(counts'[j]) = n + 1 /\ stage'[j] = (IF n = 3 THEN "evaluate" ELSE "count")
        BY <2>7, <2>9, <3>1
      <4> QED BY <2>4, <4>1
    <3>2. CASE j # k
      BY <1>0, <2>1, <2>9, <3>2
    <3> QED BY <3>1, <3>2
  <2> QED BY <1>0, <2>1, <2>9, <2>10
<1>10. ASSUME NEW k \in Clients, ReadCircuit(k) PROVE CallsOK'
  BY <1>0, <1>10 DEF ReadCircuit, stats
<1>11. ASSUME NEW k \in Clients, Decide(k) \/ VerdictUnread(k) \/ RedisFails(k) PROVE CallsOK'
  <2>1. Reply(k)
    BY <1>11 DEF Decide, VerdictUnread, Conclude, RedisFails
  <2>2. recordings' \in Nat /\ failures' \in Nat
    BY <1>0, <1>11 DEF Decide, VerdictUnread, Conclude, RedisFails, stats
  <2> QED BY <1>1, <2>1, <2>2
<1>12. ASSUME NEW o \in Outcome, KeyExpires(o) PROVE CallsOK'
  BY <1>0, <1>12 DEF KeyExpires, locals
<1>13. CASE Elapse \/ UNCHANGED gatewayVars
  BY <1>0, <1>13 DEF Elapse, gatewayVars, locals, stats
<1> QED BY <1>4, <1>5, <1>6, <1>7, <1>8, <1>9, <1>10, <1>11, <1>12, <1>13
         DEF GatewayNext, CallStep

LEMMA NumberingInvariant == GatewaySpec => [](GatewayTypeOK /\ Numbered)
<1>1. ASSUME GatewayInit, TypeOK PROVE GatewayTypeOK /\ Numbered
  BY <1>1, FS_EmptySet DEF GatewayInit, GatewayTypeOK, Numbered, NoCall
<1>2. ASSUME GatewayTypeOK, Numbered, TypeOK', [GatewayNext]_gatewayVars
      PROVE  GatewayTypeOK' /\ Numbered'
  BY <1>2, SetsKept, CallsKept DEF GatewayTypeOK, SetsOK, CallsOK
<1> QED BY <1>1, <1>2, GatewayCircuitType, PTL DEF GatewaySpec

(* The sets and the calls' locals have their types, for any clients and    *)
(* traffic: in particular a set without members has no key left that could *)
(* expire (GatewayHealthAggregator).                                       *)
THEOREM GatewayTypeCorrect == GatewaySpec => []GatewayTypeOK
BY NumberingInvariant, PTL

-----------------------------------------------------------------------------
(* What a step does to the clock, the sets and the counts of a call.       *)
LEMMA ClockAdvances ==
    ASSUME GatewayTypeOK, [GatewayNext]_gatewayVars PROVE now \in Nat /\ now' \in Nat /\ now <= now'
<1>1. now \in Nat
  BY DEF GatewayTypeOK, TypeOK
<1>2. now' = now \/ Tick
  BY DEF GatewayNext, CallStep, Start, AskHealth, SimulateOutage, SeedHealth, StartRecording,
     RecordOutcome, SetExpiry, Recorded, CleanupWindow, CountOutcome, ReadCircuit, Get, Decide,
     VerdictUnread, Conclude, SaveVerdict, Return, RedisFails, KeyExpires, Elapse, gatewayVars, vars
<1> QED BY <1>1, <1>2 DEF Tick

LEMMA SetsOnlyGrowByNow ==
    ASSUME GatewayTypeOK, Numbered, [GatewayNext]_gatewayVars, NEW o \in Outcome
    PROVE  /\ logged[o] \subseteq logged'[o]
           /\ \A m \in window'[o] : m \in window[o] \/ m.at = now
<1> DEFINE Grows == /\ logged[o] \subseteq logged'[o]
                    /\ \A m \in window'[o] : m \in window[o] \/ m.at = now
<1>0. window \in [Outcome -> SUBSET Member] /\ logged \in [Outcome -> SUBSET Member]
  BY DEF GatewayTypeOK
<1>1. UNCHANGED <<window, logged>> => Grows
  OBVIOUS
<1>2. ASSUME NEW k \in Clients, RecordOutcome(k) PROVE Grows
  <2> DEFINE q == Head(todo[k])
  <2>1. /\ q \in Outcome
        /\ logged' = [logged EXCEPT ![q] = @ \cup {NewMember(q)}]
        /\ window' = [window EXCEPT ![q] = Newer(@, Cutoff) \cup {NewMember(q)}]
    BY <1>2, LoggedNumbered
  <2>2. NewMember(q).at = now /\ Newer(window[q], Cutoff) \subseteq window[q]
    BY <2>1, NewMemberIsNew DEF Newer
  <2> HIDE DEF q
  <2> QED BY <1>0, <2>1, <2>2
<1>3. ASSUME NEW k \in Clients, CleanupWindow(k) PROVE Grows
  BY <1>3 DEF CleanupWindow, Newer
<1>4. ASSUME NEW q \in Outcome, KeyExpires(q) PROVE Grows
  BY <1>0, <1>4 DEF KeyExpires
<1>5. ASSUME NEW k \in Clients, \/ Start(k) \/ SimulateOutage(k) \/ SeedHealth(k)
                                \/ Recorded(k) \/ CountOutcome(k) \/ ReadCircuit(k)
                                \/ Decide(k) \/ VerdictUnread(k) \/ RedisFails(k) \/ SetExpiry(k)
      PROVE  UNCHANGED <<window, logged>>
  BY <1>5 DEF Start, AskHealth, SimulateOutage, SeedHealth, StartRecording, Recorded,
     CountOutcome, ReadCircuit, Decide, VerdictUnread, Conclude, RedisFails, SetExpiry,
     stats, sets
<1>6. Elapse \/ UNCHANGED gatewayVars => UNCHANGED <<window, logged>>
  BY DEF Elapse, gatewayVars, stats, sets
<1> QED BY <1>1, <1>2, <1>3, <1>4, <1>5, <1>6 DEF GatewayNext, CallStep

(* A step of another client leaves a call alone.                           *)
LEMMA OthersLeaveCallAlone ==
    ASSUME GatewayTypeOK, [GatewayNext]_gatewayVars, NEW k \in Clients
    PROVE  \/ Start(k) \/ SimulateOutage(k) \/ SeedHealth(k) \/ CallStep(k)
           \/ VerdictUnread(k) \/ RedisFails(k)
           \/ /\ stage'[k] = stage[k] /\ todo'[k] = todo[k]
              /\ call'[k] = call[k] /\ counts'[k] = counts[k]
<1> DEFINE Alone == /\ stage'[k] = stage[k] /\ todo'[k] = todo[k]
                    /\ call'[k] = call[k] /\ counts'[k] = counts[k]
<1>0. CallsOK
  BY DEF GatewayTypeOK, CallsOK
<1>1. UNCHANGED locals => Alone
  BY DEF locals
<1>2. ASSUME NEW j \in Clients, j # k,
             Start(j) \/ SimulateOutage(j) \/ SeedHealth(j) \/ Recorded(j) \/ ReadCircuit(j)
      PROVE  Alone
  BY <1>0, <1>2 DEF Start, AskHealth, SimulateOutage, SeedHealth, StartRecording, Recorded,
     ReadCircuit, CallsOK, Goto, Reply
<1>3. ASSUME NEW j \in Clients, j # k, RecordOutcome(j) \/ SetExpiry(j) \/ CleanupWindow(j)
      PROVE  Alone
  BY <1>0, <1>3 DEF RecordOutcome, SetExpiry, CleanupWindow, CallsOK, Goto
<1>4. ASSUME NEW j \in Clients, j # k, CountOutcome(j) PROVE Alone
  BY <1>0, <1>4 DEF CountOutcome, CallsOK, Goto
<1>5. ASSUME NEW j \in Clients, j # k, Decide(j) \/ VerdictUnread(j) \/ RedisFails(j) PROVE Alone
  <2>1. Reply(j)
    BY <1>5 DEF Decide, VerdictUnread, Conclude, RedisFails
  <2> QED BY <1>0, <1>5, <2>1 DEF Reply, CallsOK, Goto
<1>6. ASSUME NEW o \in Outcome, KeyExpires(o) PROVE UNCHANGED locals
  BY <1>6 DEF KeyExpires
<1>7. Elapse \/ UNCHANGED gatewayVars => UNCHANGED locals
  BY DEF Elapse, gatewayVars
<1> QED BY <1>1, <1>2, <1>3, <1>4, <1>5, <1>6, <1>7 DEF GatewayNext, CallStep

(* A call counts under the cutoff it cleaned with.                         *)
LEMMA CountingSteps ==
    ASSUME GatewayTypeOK, [GatewayNext]_gatewayVars, NEW k \in Clients
    PROVE  /\ stage'[k] = "count" => \/ CleanupWindow(k)
                                     \/ stage[k] = "count" /\ call'[k] = call[k]
           /\ \/ CountOutcome(k) \/ counts'[k] = <<>>
              \/ counts'[k] = counts[k] /\ call'[k] = call[k]
<1>0. CallsOK
  BY DEF GatewayTypeOK, CallsOK
<1>1. CASE Start(k) \/ SimulateOutage(k) \/ SeedHealth(k)
  <2>1. stage[k] = "idle" /\ stage'[k] # "count" /\ counts' = counts
    BY <1>0, <1>1 DEF Start, AskHealth, SimulateOutage, SeedHealth, StartRecording, Goto, CallsOK
  <2> QED BY <1>0, <2>1 DEF CallsOK
<1>2. CASE Decide(k) \/ VerdictUnread(k) \/ RedisFails(k)
  <2>1. Reply(k)
    BY <1>2 DEF Decide, VerdictUnread, Conclude, RedisFails
  <2> QED BY <1>0, <2>1 DEF Reply, Goto, CallsOK
<1>3. CASE Recorded(k)
  BY <1>0, <1>3 DEF Recorded, Reply, Goto, CallsOK
<1>4. CASE RecordOutcome(k) \/ SetExpiry(k) \/ ReadCircuit(k)
  BY <1>0, <1>4 DEF RecordOutcome, SetExpiry, ReadCircuit, Goto, CallsOK
<1>5. CASE CleanupWindow(k)
  BY <1>0, <1>5 DEF CleanupWindow, CallsOK
<1>6. CASE CountOutcome(k)
  BY <1>6 DEF CountOutcome
<1> QED BY <1>1, <1>2, <1>3, <1>4, <1>5, <1>6, OthersLeaveCallAlone DEF CallStep

LEMMA CountsInWindowKept ==
    ASSUME GatewayTypeOK, Numbered, CountsInWindow, [GatewayNext]_gatewayVars
    PROVE  CountsInWindow'
<1> SUFFICES ASSUME NEW k \in Clients, stage'[k] = "count"
             PROVE  /\ call'[k].cutoff + Window <= now'
                    /\ \A o \in Outcome : \A m \in window'[o] : m.at > call'[k].cutoff
  BY DEF CountsInWindow
<1>0. now \in Nat /\ now' \in Nat /\ now <= now' /\ Window \in Nat \ {0}
  BY ClockAdvances, GatewayAssumption
<1>1. /\ call[k].cutoff \in Int
      /\ call \in [Clients -> [kind: Kind \cup {None}, began: Nat, cutoff: Int]]
  BY DEF GatewayTypeOK
<1>2. CASE CleanupWindow(k)
  <2>1. call'[k].cutoff = Cutoff
    BY <1>1, <1>2 DEF CleanupWindow
  <2>2. \A o \in Outcome : \A m \in window'[o] : m.at > Cutoff
    BY <1>2 DEF CleanupWindow, Newer
  <2>3. Cutoff + Window = now
    BY <1>0 DEF Cutoff
  <2> QED BY <1>0, <2>1, <2>2, <2>3
<1>3. CASE stage[k] = "count" /\ call'[k] = call[k]
  <2>1. /\ call[k].cutoff + Window <= now
        /\ \A o \in Outcome : \A m \in window[o] : m.at > call[k].cutoff
    BY <1>3 DEF CountsInWindow
  <2>2. call[k].cutoff < now /\ call[k].cutoff + Window <= now'
    BY <1>0, <1>1, <2>1
  <2> QED BY <1>3, <2>1, <2>2, SetsOnlyGrowByNow
<1> QED BY <1>2, <1>3, CountingSteps

LEMMA CountsStayRecent ==
    ASSUME GatewayTypeOK, Numbered, Numbered', CountsInWindow, CountsAreRecent, GatewayTypeOK',
           [GatewayNext]_gatewayVars
    PROVE  CountsAreRecent'
<1> SUFFICES ASSUME NEW k \in Clients, NEW i \in DOMAIN counts'[k]
             PROVE  counts'[k][i] <= Cardinality(Newer(logged'[OUTCOMES[i]], call'[k].cutoff))
  BY DEF CountsAreRecent
<1> DEFINE o == OUTCOMES[i]
<1>1. /\ counts[k] \in Seq(Nat) /\ counts'[k] \in Seq(Nat)
      /\ Len(counts'[k]) <= 4
  <2>1. counts[k] \in Seq(Nat) /\ counts'[k] \in Seq(Nat)
    BY DEF GatewayTypeOK
  <2> DEFINE n == Len(counts'[k])
  <2>2. n \in Nat /\ (counts'[k] = <<>> => n = 0)
    BY <2>1
  <2>3. n < 4 \/ n = 4 \/ counts'[k] = <<>>
    BY DEF GatewayTypeOK
  <2>4. n <= 4
    <3> HIDE DEF n
    <3> QED BY <2>2, <2>3
  <2> QED BY <2>1, <2>4
<1>2. i \in 1..4
  BY <1>1
<1>3. o \in Outcome
  <2>1. i - 1 \in 0..3 /\ (i - 1) + 1 = i
    BY <1>2
  <2>2. OUTCOMES[(i - 1) + 1] \in Outcome
    BY <2>1, OutcomeInOrder
  <2> QED BY <2>1, <2>2
<1> DEFINE recent == Newer(logged'[o], call'[k].cutoff)
<1>4. IsFiniteSet(recent) /\ Cardinality(recent) \in Nat
  <2>1. recent \subseteq logged'[o] /\ IsFiniteSet(logged'[o])
    BY <1>3 DEF Newer, Numbered
  <2> QED BY <2>1, FS_Subset, FS_CardinalityType
<1>5. ASSUME NEW S \in SUBSET recent
      PROVE  Cardinality(S) \in Nat /\ Cardinality(S) <= Cardinality(recent)
  BY <1>4, FS_Subset, FS_CardinalityType
<1>6. CASE counts'[k] = counts[k] /\ call'[k] = call[k]
  <2>1. Newer(logged[o], call[k].cutoff) \subseteq recent
    BY <1>3, <1>6, SetsOnlyGrowByNow DEF Newer
  <2>2. counts[k][i] <= Cardinality(Newer(logged[o], call[k].cutoff)) /\ counts[k][i] \in Nat
    BY <1>1, <1>6 DEF CountsAreRecent
  <2> HIDE DEF o, recent
  <2>3. counts[k][i] <= Cardinality(recent)
    BY <1>4, <1>5, <2>1, <2>2 DEF o
  <2> QED BY <1>6, <2>3 DEF o, recent
<1>7. CASE CountOutcome(k)
  <2> DEFINE n == Len(counts[k])
             q == OUTCOMES[n + 1]
  <2>1. /\ counts' = [counts EXCEPT ![k] = Append(@, Cardinality(window[q]))]
        /\ call' = call /\ logged' = logged /\ stage[k] = "count"
    BY <1>7 DEF CountOutcome, stats, sets
  <2>2. counts'[k] = Append(counts[k], Cardinality(window[q]))
    BY <2>1 DEF GatewayTypeOK
  <2>3. n \in Nat /\ (i \in 1..n \/ i = n + 1)
    BY <1>1, <2>2
  <2>4. CASE i \in 1..n
    <3>1. counts'[k][i] = counts[k][i] /\ i \in DOMAIN counts[k]
      BY <1>1, <2>2, <2>4
    <3>2. counts[k][i] <= Cardinality(Newer(logged[o], call[k].cutoff))
      BY <3>1 DEF CountsAreRecent
    <3>3. recent = Newer(logged[o], call[k].cutoff)
      BY <2>1
    <3> HIDE DEF recent
    <3>4. counts'[k][i] <= Cardinality(recent)
      BY <3>1, <3>2, <3>3
    <3> QED BY <3>4 DEF recent
  <2>5. CASE i = n + 1
    <3>1. counts'[k][i] = Cardinality(window[o])
      BY <1>1, <2>2, <2>5
    <3>2. window[o] \subseteq recent
      <4>1. \A m \in window[o] : m.at > call[k].cutoff
        BY <1>3, <2>1 DEF CountsInWindow
      <4>2. window[o] \subseteq logged[o]
        BY <1>3 DEF GatewayTypeOK
      <4> QED BY <2>1, <4>1, <4>2 DEF Newer
    <3> HIDE DEF o, recent
    <3>3. Cardinality(window[o]) <= Cardinality(recent)
      BY <1>5, <3>2
    <3> QED BY <3>1, <3>3 DEF o, recent
  <2> QED BY <2>3, <2>4, <2>5
<1>8. counts'[k] # <<>>
  BY <1>2, <1>1
<1> QED BY <1>6, <1>7, <1>8, CountingSteps

LEMMA CountingInvariant == GatewaySpec => [](CountsInWindow /\ CountsAreRecent)
<1>1. GatewayInit => CountsInWindow /\ CountsAreRecent
  BY DEF GatewayInit, CountsInWindow, CountsAreRecent
<1>2. ASSUME GatewayTypeOK, Numbered, GatewayTypeOK', Numbered',
             CountsInWindow, CountsAreRecent, [GatewayNext]_gatewayVars
      PROVE  CountsInWindow' /\ CountsAreRecent'
  BY <1>2, CountsInWindowKept, CountsStayRecent
<1> QED BY <1>1, <1>2, NumberingInvariant, PTL DEF GatewaySpec

(* No count holds an outcome older than the window, whatever other calls   *)
(* record, clean and let expire between the commands of one that counts,   *)
(* for any number of them (GatewayHealthAggregator.get_stats).             *)
THEOREM CountsHoldTheWindow == GatewaySpec => []CountsAreRecent
BY CountingInvariant, PTL

-----------------------------------------------------------------------------
LEMMA ProbesInvariant == GatewaySpec => []NoProbes
<1> USE DEF NoProbes
<1>0. Closed.ok = 0
  BY DEF Closed, NewState
<1>1. GatewayInit => NoProbes
  BY <1>0 DEF GatewayInit, Init
<1>2. ASSUME NoProbes, TypeOK, [GatewayNext]_gatewayVars PROVE NoProbes'
  <2>0. seen \in [Clients -> Document] /\ circuit \in Document
    BY <1>2 DEF TypeOK
  <2>1. UNCHANGED <<circuit, seen>> => NoProbes'
    BY <1>2
  <2>2. ASSUME NEW k \in Clients, Return(k) PROVE NoProbes'
    BY <1>0, <1>2, <2>0, <2>2 DEF Return, Leave
  <2>3. ASSUME NEW k \in Clients, NEW trips, SaveVerdict(k, trips) PROVE NoProbes'
    <3>1. Evaluated(seen[k], trips, now).ok = 0
      BY <1>0, <1>2 DEF Evaluated, NewState
    <3> QED BY <1>0, <1>2, <2>0, <2>3, <3>1 DEF SaveVerdict, Leave
  <2>4. ASSUME NEW k \in Clients, ReadCircuit(k) PROVE NoProbes'
    BY <1>2, <2>0, <2>4 DEF ReadCircuit, Get
  <2>5. ASSUME NEW k \in Clients, Decide(k) \/ VerdictUnread(k) PROVE NoProbes'
    BY <2>2, <2>3, <2>5 DEF Decide, VerdictUnread, Conclude
  <2>6. ASSUME NEW k \in Clients, RedisFails(k) PROVE NoProbes'
    BY <2>1, <2>2, <2>6 DEF RedisFails, vars
  <2>7. ASSUME NEW k \in Clients, \/ Start(k) \/ SimulateOutage(k) \/ SeedHealth(k)
                                  \/ RecordOutcome(k) \/ SetExpiry(k) \/ Recorded(k)
                                  \/ CleanupWindow(k) \/ CountOutcome(k)
        PROVE  UNCHANGED <<circuit, seen>>
    BY <2>7 DEF Start, AskHealth, SimulateOutage, SeedHealth, StartRecording,
       RecordOutcome, SetExpiry, Recorded, CleanupWindow, CountOutcome, vars
  <2>8. ASSUME NEW o \in Outcome, KeyExpires(o) PROVE UNCHANGED <<circuit, seen>>
    BY <2>8 DEF KeyExpires, vars
  <2>9. Elapse \/ UNCHANGED gatewayVars => UNCHANGED <<circuit, seen>>
    BY DEF Elapse, Tick, gatewayVars, vars
  <2> QED BY <1>2, <2>1, <2>4, <2>5, <2>6, <2>7, <2>8, <2>9 DEF GatewayNext, CallStep
<1> QED BY <1>1, <1>2, GatewayCircuitType, PTL DEF GatewaySpec

-----------------------------------------------------------------------------
(* What each step does to the members of a call that began less than a     *)
(* window ago: none but an expiring key takes any away.                    *)
LEMMA RecentMembersStay ==
    ASSUME GatewayTypeOK, Numbered, Numbered', GatewayTypeOK', [GatewayNext]_gatewayVars,
           NEW t \in Nat, t <= now, now - t < Window, ~KeyExpires("technical_decline")
    PROVE  /\ Kept(t) \in Nat /\ Kept(t)' \in Nat /\ Kept(t) <= Kept(t)'
           /\ \A k \in Clients :
                RecordOutcome(k) /\ Head(todo[k]) = "technical_decline" => Kept(t)' = Kept(t) + 1
<1> DEFINE o == "technical_decline"
           S == Since(window[o], t)
           T == Since(window'[o], t)
<1>0. o \in Outcome /\ now \in Nat /\ Window \in Nat /\ window \in [Outcome -> SUBSET Member]
  BY GatewayAssumption, ClockAdvances DEF Outcome, GatewayTypeOK
<1>1. IsFiniteSet(S) /\ Cardinality(S) \in Nat
  BY <1>0, WindowsAreFinite DEF Since
<1>2. IsFiniteSet(T) /\ Cardinality(T) \in Nat
  <2>1. window'[o] \subseteq logged'[o] /\ IsFiniteSet(logged'[o]) /\ T \subseteq window'[o]
    BY <1>0 DEF GatewayTypeOK, Numbered, Since
  <2> QED BY <2>1, FS_Subset, FS_CardinalityType
<1>3. Kept(t) = Cardinality(S) /\ Kept(t)' = Cardinality(T)
  BY DEF Kept
<1>4. \A m \in S : m \in Newer(window[o], Cutoff)
  <2> SUFFICES ASSUME NEW m \in S PROVE m.at > Cutoff
    BY DEF Since, Newer
  <2>1. m.at \in Nat /\ m.at >= t
    BY <1>0 DEF Since, Member
  <2> QED BY <1>0, <2>1 DEF Cutoff
<1> HIDE DEF o
<1>5. S \subseteq T => Cardinality(S) <= Cardinality(T)
  BY <1>2, FS_Subset
<1>6. ASSUME NEW k \in Clients, RecordOutcome(k), Head(todo[k]) = o
      PROVE  S \subseteq T /\ Cardinality(T) = Cardinality(S) + 1
  <2>1. window'[o] = Newer(window[o], Cutoff) \cup {NewMember(o)}
    BY <1>0, <1>6, LoggedNumbered
  <2>2. NewMember(o).at = now /\ NewMember(o) \notin window[o]
    BY <1>0, NewMemberIsNew DEF GatewayTypeOK
  <2>3. T = S \cup {NewMember(o)} /\ NewMember(o) \notin S
    BY <1>0, <1>4, <2>1, <2>2 DEF Since, Newer
  <2> QED BY <1>1, <2>3, FS_AddElement
<1>7. ASSUME NEW k \in Clients, RecordOutcome(k), Head(todo[k]) # o PROVE S = T
  BY <1>0, <1>7, LoggedNumbered
<1>8. ASSUME NEW k \in Clients, CleanupWindow(k) PROVE S = T
  BY <1>0, <1>4, <1>8 DEF CleanupWindow, Since, Newer
<1>9. ASSUME NEW q \in Outcome, KeyExpires(q) PROVE S = T
  BY <1>0, <1>9 DEF KeyExpires, o
<1>10. ASSUME NEW k \in Clients, \/ Start(k) \/ SimulateOutage(k) \/ SeedHealth(k)
                                 \/ Recorded(k) \/ CountOutcome(k) \/ ReadCircuit(k)
                                 \/ Decide(k) \/ VerdictUnread(k) \/ RedisFails(k) \/ SetExpiry(k)
       PROVE  UNCHANGED window
  BY <1>10 DEF Start, AskHealth, SimulateOutage, SeedHealth, StartRecording, Recorded,
     CountOutcome, ReadCircuit, Decide, VerdictUnread, Conclude, RedisFails, SetExpiry,
     stats, sets
<1>11. Elapse \/ UNCHANGED gatewayVars => UNCHANGED window
  BY DEF Elapse, gatewayVars, stats, sets
<1>12. S \subseteq T
  BY <1>6, <1>7, <1>8, <1>9, <1>10, <1>11 DEF GatewayNext, CallStep
<1> HIDE DEF S, T
<1> QED BY <1>1, <1>2, <1>3, <1>5, <1>6, <1>12 DEF o

(* A key that outlives a call keeps doing so, and takes nothing away.      *)
LEMMA ArmedStays ==
    ASSUME GatewayTypeOK, [GatewayNext]_gatewayVars,
           NEW t \in Nat, t <= now, now - t < Window, Armed(t)
    PROVE  Armed(t)' /\ ~KeyExpires("technical_decline")
<1> DEFINE o == "technical_decline"
<1>0. /\ o \in Outcome /\ now \in Nat /\ Window \in Nat
      /\ ttl \in [Outcome -> Nat \cup {None}]
  BY GatewayAssumption, ClockAdvances DEF Outcome, GatewayTypeOK
<1> HIDE DEF o
<1>1. ttl[o] = None \/ ttl[o] > t + Window
  BY DEF Armed, o
<1>2. ~KeyExpires(o)
  BY <1>0, <1>1 DEF KeyExpires
<1>3. ttl'[o] \in {ttl[o], None, now + Window + 1}
  <2>1. ASSUME NEW k \in Clients, SetExpiry(k) PROVE ttl'[o] \in {ttl[o], now + Window + 1}
    BY <1>0, <2>1 DEF SetExpiry
  <2>2. ASSUME NEW k \in Clients, CleanupWindow(k) PROVE ttl'[o] \in {ttl[o], None}
    BY <1>0, <2>2 DEF CleanupWindow
  <2>3. ASSUME NEW q \in Outcome, KeyExpires(q) PROVE ttl'[o] \in {ttl[o], None}
    BY <1>0, <2>3 DEF KeyExpires
  <2>4. ASSUME NEW k \in Clients, \/ Start(k) \/ SimulateOutage(k) \/ SeedHealth(k)
                                  \/ Recorded(k) \/ CountOutcome(k) \/ ReadCircuit(k)
                                  \/ Decide(k) \/ VerdictUnread(k) \/ RedisFails(k)
                                  \/ RecordOutcome(k)
        PROVE  UNCHANGED ttl
    BY <2>4 DEF Start, AskHealth, SimulateOutage, SeedHealth, StartRecording, Recorded,
       CountOutcome, ReadCircuit, Decide, VerdictUnread, Conclude, RedisFails, RecordOutcome,
       stats, sets
  <2>5. Elapse \/ UNCHANGED gatewayVars => UNCHANGED ttl
    BY DEF Elapse, gatewayVars, stats, sets
  <2> QED BY <2>1, <2>2, <2>3, <2>4, <2>5 DEF GatewayNext, CallStep
<1>4. ttl'[o] = None \/ ttl'[o] > t + Window
  BY <1>0, <1>1, <1>3
<1> QED BY <1>2, <1>4 DEF Armed, o

LEMMA OutageKeptKept ==
    ASSUME GatewayTypeOK, Numbered, GatewayTypeOK', Numbered', [GatewayNext]_gatewayVars,
           NEW k \in Clients, stage[k] # "idle", call[k].kind = "outage",
           call[k].began <= now, now - call[k].began < Window, OutageKept(k),
           todo[k] \in Seq({"technical_decline"}),
           stage[k] \notin {"zadd", "expire"} => todo[k] = <<>>,
           stage'[k] # "idle", call'[k].began = call[k].began
    PROVE  OutageKept(k)'
<1>a. PICK t \in Nat : t = call[k].began
  BY DEF GatewayTypeOK
<1>b. PICK left \in Nat : left = Len(todo[k])
  BY DEF GatewayTypeOK
<1> DEFINE D == "technical_decline"
<1>0. /\ now \in Nat /\ OutageSize \in Nat /\ Window \in Nat
      /\ D \in Outcome
  BY GatewayAssumption, ClockAdvances DEF GatewayTypeOK, Outcome
<1>1. CallsOK /\ CallsOK'
  BY DEF GatewayTypeOK, CallsOK
<1>2. /\ IF stage[k] = "expire" THEN Kept(t) >= OutageSize - left
                                ELSE Kept(t) >= OutageSize - 1 - left
      /\ left < OutageSize => Armed(t)
      /\ Len(counts[k]) >= 2 => counts[k][2] >= OutageSize - 1
  BY <1>a, <1>b DEF OutageKept
<1>3. Kept(t) \in Nat /\ Kept(t)' \in Nat
  <2>1. /\ window[D] \subseteq logged[D] /\ IsFiniteSet(logged[D])
        /\ window'[D] \subseteq logged'[D] /\ IsFiniteSet(logged'[D])
    BY <1>0 DEF GatewayTypeOK, Numbered
  <2>2. Since(window[D], t) \subseteq logged[D] /\ Since(window'[D], t) \subseteq logged'[D]
    BY <2>1 DEF Since
  <2> QED BY <2>1, <2>2, FS_Subset, FS_CardinalityType DEF Kept
<1>4. ~KeyExpires(D) => Kept(t) <= Kept(t)'
  BY <1>a, RecentMembersStay
<1>5. left < OutageSize => ~KeyExpires(D) /\ Armed(t)'
  BY <1>a, <1>2, ArmedStays
<1>6. ASSUME todo'[k] = todo[k], stage'[k] = "expire" <=> stage[k] = "expire",
             Len(counts'[k]) >= 2 => counts'[k][2] >= OutageSize - 1
      PROVE  OutageKept(k)'
  <2>1. IF stage'[k] = "expire" THEN Kept(t)' >= OutageSize - left
                                ELSE Kept(t)' >= OutageSize - 1 - left
    <3> HIDE DEF D
    <3> QED BY <1>0, <1>2, <1>3, <1>4, <1>5, <1>6
  <2>2. Kept(call[k].began)' = Kept(t)' /\ (Armed(t)' => Armed(call[k].began)')
    BY <1>a DEF Kept, Armed
  <2> QED BY <1>b, <1>5, <1>6, <2>1, <2>2 DEF OutageKept
<1>7. CASE RecordOutcome(k)
  <2>1. /\ stage'[k] = "expire" /\ todo'[k] = todo[k] /\ counts'[k] = counts[k]
        /\ stage[k] = "zadd" /\ todo[k] # <<>>
    BY <1>1, <1>7 DEF RecordOutcome, Goto, CallsOK
  <2>2. Head(todo[k]) = D /\ ~KeyExpires(D)
    BY <1>1, <1>7, <2>1 DEF KeyExpires, locals
  <2>3. Kept(t)' = Kept(t) + 1
    BY <1>7, <1>a, <2>2, RecentMembersStay
  <2>4. Kept(t)' >= OutageSize - left
    BY <1>0, <1>2, <1>3, <2>1, <2>3
  <2>5. Kept(call[k].began)' = Kept(t)' /\ (Armed(t)' => Armed(call[k].began)')
    BY <1>a DEF Kept, Armed
  <2> QED BY <1>b, <1>2, <1>5, <2>1, <2>4, <2>5 DEF OutageKept
<1>8. CASE SetExpiry(k)
  <2>1. /\ stage'[k] = "zadd" /\ todo'[k] = Tail(todo[k]) /\ counts'[k] = counts[k]
        /\ stage[k] = "expire" /\ todo[k] # <<>> /\ stage' # stage
    BY <1>1, <1>8 DEF SetExpiry, Goto, CallsOK
  <2>2. Head(todo[k]) = D /\ ~KeyExpires(D)
    BY <1>1, <1>8, <2>1 DEF KeyExpires, locals
  <2>3. Len(todo'[k]) = left - 1
    BY <1>b, <2>1
  <2>4. Kept(t)' >= OutageSize - 1 - (left - 1)
    BY <1>0, <1>2, <1>3, <1>4, <2>1, <2>2
  <2>5. Armed(t)'
    <3>1. CASE window[D] = {}
      BY <1>0, <1>8, <2>2, <3>1 DEF SetExpiry, Armed, GatewayTypeOK
    <3>2. CASE window[D] # {}
      <4>1. ttl'[D] = now + Window + 1
        BY <1>0, <1>8, <2>2, <3>2 DEF SetExpiry, GatewayTypeOK
      <4> QED BY <1>0, <1>a, <4>1 DEF Armed
    <3> QED BY <3>1, <3>2
  <2>6. Kept(call[k].began)' = Kept(t)' /\ (Armed(t)' => Armed(call[k].began)')
    BY <1>a DEF Kept, Armed
  <2> QED BY <1>2, <2>1, <2>3, <2>4, <2>5, <2>6 DEF OutageKept
<1>9. CASE CountOutcome(k)
  <2> DEFINE c == counts[k]
             n == Len(counts[k])
             q == OUTCOMES[n + 1]
  <2>1. /\ stage[k] = "count" /\ stage'[k] \in {"count", "evaluate"} /\ todo'[k] = todo[k]
        /\ counts'[k] = Append(c, Cardinality(window[q]))
    BY <1>1, <1>9 DEF CountOutcome, Goto, CallsOK
  <2>2. c \in Seq(Nat) /\ n \in Nat
    BY <1>1 DEF CallsOK
  <2>3. left = 0
    BY <1>b, <2>1
  <2>4. CASE n = 1
    <3>1. q = D
      BY <2>4 DEF OUTCOMES
    <3>2. IsFiniteSet(window[D]) /\ Cardinality(window[D]) \in Nat
      BY <1>0, WindowsAreFinite
    <3>3. Kept(t) <= Cardinality(window[D])
      BY <3>2, FS_Subset DEF Kept, Since
    <3>4. Cardinality(window[D]) >= OutageSize - 1
      BY <1>0, <1>2, <1>3, <2>1, <2>3, <3>2, <3>3
    <3>5. counts'[k][2] = Cardinality(window[D])
      BY <2>1, <2>2, <2>4, <3>1
    <3> QED BY <1>6, <2>1, <3>4, <3>5
  <2>5. CASE n # 1
    <3>1. Len(counts'[k]) = n + 1 /\ (n >= 2 => counts'[k][2] = c[2])
      BY <2>1, <2>2
    <3>2. n + 1 >= 2 => n >= 2
      <4> HIDE DEF n
      <4> QED BY <2>2, <2>5
    <3>3. Len(counts'[k]) >= 2 => counts'[k][2] >= OutageSize - 1
      BY <1>2, <3>1, <3>2
    <3> QED BY <1>6, <2>1, <3>3
  <2> QED BY <2>4, <2>5
<1>10. CASE Recorded(k) \/ CleanupWindow(k) \/ ReadCircuit(k)
  <2>1. /\ todo'[k] = todo[k] /\ counts'[k] = counts[k]
        /\ stage'[k] # "expire" /\ stage[k] # "expire"
    BY <1>1, <1>10 DEF Recorded, CleanupWindow, ReadCircuit, Goto, CallsOK
  <2> QED BY <1>2, <1>6, <2>1
<1>11. ~(Start(k) \/ SimulateOutage(k) \/ SeedHealth(k))
  BY DEF Start, AskHealth, SimulateOutage, SeedHealth, StartRecording
<1>12. ~(Decide(k) \/ VerdictUnread(k) \/ RedisFails(k))
  BY <1>1 DEF Decide, VerdictUnread, Conclude, RedisFails, Reply, Goto, CallsOK
<1>13. CASE stage'[k] = stage[k] /\ todo'[k] = todo[k] /\ counts'[k] = counts[k]
  BY <1>2, <1>6, <1>13
<1> QED BY <1>7, <1>8, <1>9, <1>10, <1>11, <1>12, <1>13, OthersLeaveCallAlone DEF CallStep

LEMMA OutageInvKept ==
    ASSUME GatewayTypeOK, Numbered, GatewayTypeOK', Numbered', OutageInv,
           [GatewayNext]_gatewayVars
    PROVE  OutageInv'
<1> SUFFICES ASSUME NEW k \in Clients, stage'[k] # "idle", call'[k].kind = "outage"
             PROVE  /\ call'[k].began <= now'
                    /\ todo'[k] \in Seq({"technical_decline"})
                    /\ stage'[k] \notin {"zadd", "expire"} => todo'[k] = <<>>
                    /\ now' - call'[k].began < Window => OutageKept(k)'
  BY DEF OutageInv
<1>0. /\ CallsOK /\ now \in Nat /\ now' \in Nat /\ now <= now'
      /\ OutageSize \in Nat /\ Window \in Nat \ {0}
  BY ClockAdvances, GatewayAssumption DEF GatewayTypeOK, CallsOK
<1>1. CASE SimulateOutage(k)
  <2> DEFINE all == [i \in 1..OutageSize |-> "technical_decline"]
  <2>1. /\ call'[k].began = now /\ todo'[k] = all /\ stage'[k] = "zadd"
        /\ counts'[k] = <<>> /\ now' = now
    BY <1>0, <1>1 DEF SimulateOutage, StartRecording, Goto, CallsOK, vars
  <2>2. all \in Seq({"technical_decline"}) /\ Len(all) = OutageSize
    BY <1>0
  <2>3. Len(counts'[k]) = 0
    BY <2>1
  <2>4. Kept(call[k].began)' \in Nat
    <3>1. "technical_decline" \in Outcome
      BY DEF Outcome
    <3>2. /\ window'["technical_decline"] \subseteq logged'["technical_decline"]
          /\ IsFiniteSet(logged'["technical_decline"])
      BY <3>1 DEF GatewayTypeOK, Numbered
    <3>3. \A t : Since(window'["technical_decline"], t) \subseteq logged'["technical_decline"]
      BY <3>2 DEF Since
    <3> QED BY <3>2, <3>3, FS_Subset, FS_CardinalityType DEF Kept
  <2>5. OutageKept(k)'
    <3> HIDE DEF all
    <3> QED BY <1>0, <2>1, <2>2, <2>3, <2>4 DEF OutageKept
  <2> QED BY <1>0, <2>1, <2>2, <2>5
<1>2. ~(Start(k) \/ SeedHealth(k) \/ Decide(k) \/ VerdictUnread(k) \/ RedisFails(k))
  BY <1>0 DEF Start, AskHealth, SeedHealth, StartRecording, Decide, VerdictUnread, Conclude,
     RedisFails, Reply, Goto, CallsOK
<1>3. CASE ~SimulateOutage(k)
  <2>1. /\ stage[k] # "idle" /\ call'[k].kind = call[k].kind /\ call'[k].began = call[k].began
        /\ \/ /\ todo'[k] = todo[k]
              /\ stage'[k] \in {"zadd", "expire"} <=> stage[k] \in {"zadd", "expire"}
           \/ todo'[k] = todo[k] /\ Recorded(k)
           \/ SetExpiry(k)
    <3>1. CASE RecordOutcome(k) \/ SetExpiry(k) \/ ReadCircuit(k) \/ CountOutcome(k)
      BY <1>0, <3>1 DEF RecordOutcome, SetExpiry, ReadCircuit, CountOutcome, Goto, CallsOK
    <3>2. CASE Recorded(k)
      BY <1>0, <3>2 DEF Recorded, Reply, Goto, CallsOK
    <3>3. CASE CleanupWindow(k)
      BY <1>0, <3>3 DEF CleanupWindow, Goto, CallsOK
    <3> QED BY <1>2, <1>3, <3>1, <3>2, <3>3, OthersLeaveCallAlone DEF CallStep
  <2>2. /\ call[k].kind = "outage" /\ call[k].began <= now /\ call[k].began \in Nat
        /\ todo[k] \in Seq({"technical_decline"})
        /\ stage[k] \notin {"zadd", "expire"} => todo[k] = <<>>
        /\ now - call[k].began < Window => OutageKept(k)
    BY <1>0, <2>1 DEF OutageInv, CallsOK
  <2>3. ASSUME now' - call'[k].began < Window PROVE OutageKept(k)'
    <3>1. now - call[k].began < Window
      BY <1>0, <2>1, <2>2, <2>3
    <3> QED BY <2>1, <2>2, <3>1, OutageKeptKept
  <2>4. /\ todo'[k] \in Seq({"technical_decline"})
        /\ stage'[k] \notin {"zadd", "expire"} => todo'[k] = <<>>
    <3>1. CASE SetExpiry(k)
      BY <1>0, <2>2, <3>1 DEF SetExpiry, Goto, CallsOK
    <3>2. CASE Recorded(k) /\ todo'[k] = todo[k]
      BY <2>2, <3>2 DEF Recorded
    <3> QED BY <2>1, <2>2, <3>1, <3>2
  <2> QED BY <1>0, <2>1, <2>2, <2>3, <2>4
<1> QED BY <1>1, <1>3

LEMMA OutageInvariant == GatewaySpec => []OutageInv
<1>1. GatewayInit => OutageInv
  BY DEF GatewayInit, OutageInv
<1> QED BY <1>1, OutageInvKept, NumberingInvariant, PTL DEF GatewaySpec

(* More than the threshold stays more than the threshold when more of the  *)
(* outcomes counted failed technically.                                    *)
LEMMA MoreFailuresTrip ==
    ASSUME NEW left \in Nat, NEW technical \in Nat, NEW others \in Nat, left <= technical,
           100 * left > ThresholdPct * (left + others)
    PROVE  100 * technical > ThresholdPct * (technical + others)
<1>1. ThresholdPct \in 0..100
  BY GatewayAssumption
<1>2. PICK more \in Nat : technical = left + more
  <2>1. technical - left \in Nat /\ technical = left + (technical - left)
    OBVIOUS
  <2> QED BY <2>1
<1>3. ThresholdPct * more <= 100 * more
  BY <1>1
<1>4. ThresholdPct * (technical + others) = ThresholdPct * (left + others) + ThresholdPct * more
  BY <1>1, <1>2
<1> QED BY <1>1, <1>2, <1>3, <1>4

(* simulate_outage, for any traffic of other calls: with more outcomes     *)
(* than min_samples even if one is lost (60 against 50), no answer that    *)
(* comes within the window calls the circuit closed.  Nothing in the       *)
(* system records probe results, so it is not closed by them either.       *)
THEOREM OutageTripsTheCircuit ==
    ASSUME OutageSize - 1 > MinSamples, ProbeRequiredSuccesses > 0
    PROVE  GatewaySpec => []OutageIsAnswered
<1>1. ASSUME GatewayTypeOK, NoProbes, OutageInv PROVE OutageIsAnswered
  <2> SUFFICES ASSUME NEW k \in Clients, stage[k] = "decide", call[k].kind = "outage",
                      now - call[k].began < Window, OutageWeighs(k)
               PROVE  "closed" \notin Snapshot(k)
    BY DEF OutageIsAnswered
  <2> DEFINE c == counts[k]
             left == OutageSize - 1
  <2>0. /\ OutageSize \in Nat /\ MinSamples \in Nat /\ ThresholdPct \in Nat
        /\ ProbeRequiredSuccesses \in Nat
    BY GatewayAssumption, BreakerAssumption
  <2>1. c \in Seq(Nat) /\ Len(c) = 4
    BY <1>1 DEF GatewayTypeOK
  <2>2. c[1] \in Nat /\ c[2] \in Nat /\ c[3] \in Nat /\ c[4] \in Nat
    BY <2>1
  <2>3. c[2] >= left
    BY <1>1, <2>1 DEF OutageInv, OutageKept
  <2>4. left \in Nat /\ left > MinSamples
    BY <2>0
  <2>5. 100 * left > ThresholdPct * (left + (c[1] + c[3]))
    <3>1. 100 * left > ThresholdPct * (left + c[1] + c[3])
      BY DEF OutageWeighs
    <3>2. left + c[1] + c[3] = left + (c[1] + c[3])
      BY <2>2, <2>4
    <3> QED BY <3>1, <3>2
  <2> HIDE DEF c, left
  <2>6. 100 * (c[2] + c[4]) > ThresholdPct * ((c[2] + c[4]) + (c[1] + c[3]))
    <3> DEFINE technical == c[2] + c[4]
               others == c[1] + c[3]
    <3>1. technical \in Nat /\ others \in Nat /\ left <= technical
      BY <2>2, <2>3, <2>4
    <3>2. 100 * left > ThresholdPct * (left + others)
      BY <2>5
    <3> HIDE DEF technical, others
    <3>3. 100 * technical > ThresholdPct * (technical + others)
      BY <2>4, <3>1, <3>2, MoreFailuresTrip
    <3> QED BY <3>3 DEF technical, others
  <2>7. Total(c) = (c[2] + c[4]) + (c[1] + c[3]) /\ Total(c) > MinSamples
    BY <2>0, <2>2, <2>3, <2>4 DEF Total
  <2>8. Trips(k)
    <3>1. Total(counts[k]) > MinSamples
      BY <2>7 DEF c
    <3>2. 100 * (counts[k][2] + counts[k][4]) > ThresholdPct * Total(counts[k])
      <4>1. 100 * (c[2] + c[4]) > ThresholdPct * Total(c)
        BY <2>6, <2>7
      <4> QED BY <4>1 DEF c
    <3> QED BY <3>1, <3>2 DEF Trips
  <2>9. seen[k].ok = 0 /\ seen[k].state \in {"closed", "open", "half_open"}
    BY <1>1 DEF NoProbes, GatewayTypeOK, TypeOK, Document
  <2>10. Evaluated(seen[k], Trips(k), now).state # "closed"
    BY <2>0, <2>8, <2>9 DEF Evaluated, NewState
  <2> QED BY <2>10 DEF Snapshot
<1> QED BY <1>1, NumberingInvariant, ProbesInvariant, OutageInvariant, PTL
=============================================================================
