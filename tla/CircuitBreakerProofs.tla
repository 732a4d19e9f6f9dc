------------------------ MODULE CircuitBreakerProofs ------------------------
(* Theorems of CircuitBreaker, for any cooldown, probe counts and bounds.  *)
EXTENDS CircuitBreaker, TLAPS

(* Whatever is evaluated or probed, the result is a document.              *)
LEMMA DocumentType ==
    ASSUME NEW c \in Document, NEW trips \in BOOLEAN, NEW t \in Nat, NEW s \in BOOLEAN
    PROVE  Evaluated(c, trips, t) \in Document /\ Probed(c, s) \in Document
<1>1. Evaluated(c, trips, t) \in Document
  BY BreakerAssumption DEF Evaluated, Document, NewState, Closed
<1>2. Probed(c, s) \in Document
  BY DEF Probed, Document
<1> QED BY <1>1, <1>2

(* The document keeps its type for any number of processes sharing it.     *)
THEOREM CircuitTypeCorrect == Spec => []TypeOK
<1>1. Init => TypeOK
  BY BreakerAssumption DEF Init, TypeOK, Closed, NewState, Document
<1>2. ASSUME TypeOK, [Next]_vars PROVE TypeOK'
  <2> USE <1>2 DEF TypeOK, Leave
  <2>0. Closed \in Document
    BY BreakerAssumption DEF Closed, NewState, Document
  <2>1. ASSUME NEW k \in Clients, NEW op \in {"evaluate", "probe"}, Get(k, op)
        PROVE  TypeOK'
    BY <2>1 DEF Get
  <2>2. ASSUME NEW k \in Clients, Return(k) PROVE TypeOK'
    BY <2>0, <2>2 DEF Return
  <2>3. ASSUME NEW k \in Clients, Save(k) PROVE TypeOK'
    BY <2>0, <2>3, DocumentType DEF Save, SaveVerdict
  <2>4. ASSUME NEW k \in Clients, SaveProbe(k) PROVE TypeOK'
    BY <2>0, <2>4, DocumentType DEF SaveProbe
  <2>5. CASE Tick
    BY <2>5 DEF Tick
  <2>6. CASE UNCHANGED vars
    BY <2>6 DEF vars
  <2>7. QED BY <1>2, <2>1, <2>2, <2>3, <2>4, <2>5, <2>6 DEF Next
<1>3. QED BY <1>1, <1>2, PTL DEF Spec

-----------------------------------------------------------------------------
(* An evaluation of what is stored is a step of the abstract circuit.      *)
LEMMA EvaluationIsAtomic ==
    ASSUME TypeOK, NEW k \in Clients, Save(k), seen[k] = circuit
    PROVE  [Abstract!Next]_(Abstract!vars)
<1>1. PICK trips \in BOOLEAN : circuit' = Evaluated(circuit, trips, now)
  BY DEF Save, SaveVerdict
<1>2. now' = now
  BY DEF Save, SaveVerdict
<1>3. circuit \in Document
  BY DEF TypeOK
<1> DEFINE c == circuit
<1>4. CASE c.state = "closed" /\ trips
  <2>1. circuit' = NewState("open", now, Cooldown)
    BY <1>1, <1>4 DEF Evaluated
  <2>2. Abstract!Trip
    BY <1>2, <1>4, <2>1 DEF NewState, Abstract!Trip, Abstract!Enter
  <2> QED BY <2>2 DEF Abstract!Next
<1>5. CASE c.state = "open" /\ now - c.opened >= c.cooldown
  <2>1. circuit' = NewState("half_open", 0, c.cooldown)
    BY <1>1, <1>5 DEF Evaluated
  <2>2. Abstract!CoolDown
    BY <1>2, <1>5, <2>1 DEF NewState, Abstract!CoolDown, Abstract!Enter
  <2> QED BY <2>2 DEF Abstract!Next
<1>6. CASE c.state = "half_open" /\ c.ok >= ProbeRequiredSuccesses
  <2>1. circuit' = Closed
    BY <1>1, <1>6 DEF Evaluated
  <2>2. Abstract!Close
    BY <1>2, <1>6, <2>1 DEF Closed, NewState, Abstract!Close, Abstract!Enter
  <2> QED BY <2>2 DEF Abstract!Next
<1>7. CASE /\ c.state = "half_open" /\ ~(c.ok >= ProbeRequiredSuccesses)
           /\ c.failed >= RequiredFailures
  <2>1. circuit' = NewState("open", now, 2 * c.cooldown)
    BY <1>1, <1>7 DEF Evaluated
  <2>2. Abstract!Reopen
    BY <1>2, <1>7, <2>1 DEF NewState, Abstract!Reopen, Abstract!Enter
  <2> QED BY <2>2 DEF Abstract!Next
<1>8. CASE Evaluated(c, trips, now) = c
  BY <1>1, <1>2, <1>8 DEF Abstract!vars, Abstract!counts
<1>9. QED BY <1>1, <1>4, <1>5, <1>6, <1>7, <1>8 DEF Evaluated

LEMMA ProbeIsAtomic ==
    ASSUME TypeOK, NEW k \in Clients, SaveProbe(k), seen[k] = circuit
    PROVE  Abstract!Next
<1>1. PICK s \in BOOLEAN : circuit' = Probed(circuit, s)
  BY DEF SaveProbe
<1>2. circuit \in Document /\ circuit.state = "half_open" /\ now' = now
  BY DEF SaveProbe, TypeOK
<1>3. CASE s
  <2>1. circuit' = [circuit EXCEPT !.ok = @ + 1]
    BY <1>1, <1>3 DEF Probed
  <2>2. Abstract!ProbeSucceeds
    BY <1>2, <2>1 DEF Document, Abstract!ProbeSucceeds
  <2> QED BY <2>2 DEF Abstract!Next
<1>4. CASE ~s
  <2>1. circuit' = [circuit EXCEPT !.failed = @ + 1]
    BY <1>1, <1>4 DEF Probed
  <2>2. Abstract!ProbeFails
    BY <1>2, <2>1 DEF Document, Abstract!ProbeFails
  <2> QED BY <2>2 DEF Abstract!Next
<1> QED BY <1>3, <1>4

(* With any number of processes sharing the key, GET, decide and SET act   *)
(* as one step of the intended circuit unless another SET came in between. *)
THEOREM OvertakenOnly == Spec => OnlyOvertakenWritesDiverge
<1> DEFINE Step == /\ \/ Abstract!Next \/ UNCHANGED Abstract!vars
                      \/ \E k \in Behind : pc'[k] = "idle"
                   /\ circuit' = circuit => Behind' \subseteq Behind
<1>1. ASSUME TypeOK, [Next]_vars PROVE [Step]_vars
  <2> USE <1>1
  <2>1. ASSUME NEW k \in Clients, Save(k) \/ SaveProbe(k)
        PROVE  /\ \/ Abstract!Next \/ UNCHANGED Abstract!vars
                  \/ \E l \in Behind : pc'[l] = "idle"
    <3>1. pc[k] # "idle" /\ pc'[k] = "idle"
      BY <2>1 DEF Save, SaveVerdict, SaveProbe, Leave, TypeOK
    <3>2. CASE seen[k] = circuit
      BY <2>1, <3>2, EvaluationIsAtomic, ProbeIsAtomic
    <3>3. CASE seen[k] # circuit
      BY <3>1, <3>3 DEF Behind
    <3> QED BY <3>2, <3>3
  <2>2. ASSUME NEW k \in Clients, Get(k, "evaluate") \/ Get(k, "probe") \/ Return(k)
        PROVE  UNCHANGED Abstract!vars
    BY <2>2 DEF Get, Return, Abstract!vars, Abstract!counts
  <2>3. ASSUME Tick PROVE Abstract!Next
    <3>1. Abstract!Advance
      BY <2>3 DEF Tick, TypeOK, Abstract!Advance, Abstract!counts
    <3> QED BY <3>1 DEF Abstract!Next
  <2>4. ASSUME circuit' = circuit, NEW k \in Behind' PROVE k \in Behind
    <3>1. k \in Clients /\ pc'[k] # "idle" /\ seen'[k] # circuit
      BY <2>4 DEF Behind
    <3>2. CASE pc' = pc /\ seen' = seen
      BY <2>4, <3>1, <3>2 DEF Behind
    <3>3. ASSUME NEW l \in Clients, Leave(l) PROVE k \in Behind
      BY <2>4, <3>1, <3>3 DEF Leave, Behind, TypeOK
    <3>4. ASSUME NEW l \in Clients, NEW op \in {"evaluate", "probe"}, Get(l, op)
          PROVE  k \in Behind
      BY <2>4, <3>1, <3>4 DEF Get, Behind, TypeOK
    <3>5. \/ pc' = pc /\ seen' = seen
          \/ \E l \in Clients : Leave(l) \/ \E op \in {"evaluate", "probe"} : Get(l, op)
      BY DEF Next, Return, Save, SaveVerdict, SaveProbe, Tick, vars
    <3> QED BY <3>2, <3>3, <3>4, <3>5
  <2> QED BY <2>1, <2>2, <2>3, <2>4 DEF Next
<1> QED BY <1>1, CircuitTypeCorrect, PTL DEF Spec, OnlyOvertakenWritesDiverge

(* So while no call is overtaken, any number of processes implement the    *)
(* intended circuit, whatever fails between GET and SET.                   *)
THEOREM CircuitWhileNotOvertaken == Spec /\ [](Behind = {}) => Abstract!Spec
<1>1. Init => Abstract!Init
  BY DEF Init, Abstract!Init, Closed, NewState
<1>2. Behind = {} /\ [/\ \/ Abstract!Next \/ UNCHANGED Abstract!vars
                         \/ \E k \in Behind : pc'[k] = "idle"
                      /\ circuit' = circuit => Behind' \subseteq Behind]_vars
      => [Abstract!Next]_(Abstract!vars)
  BY DEF vars, Abstract!vars, Abstract!counts
<1> QED BY <1>1, <1>2, OvertakenOnly, PTL DEF Spec, OnlyOvertakenWritesDiverge, Abstract!Spec
=============================================================================
