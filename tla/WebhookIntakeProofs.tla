------------------------- MODULE WebhookIntakeProofs -------------------------
(* Theorems of WebhookIntake, for any events, handlers and bounds.         *)
EXTENDS WebhookIntake, TLAPS

(* The inductive invariant.  One transaction writes an event and its case, *)
(* so a case's event is recorded and UNIQUE keeps out a second one; and an *)
(* id reaches a handler's list only with its row.                          *)
IntakeInv == TypeOK /\ OneCasePerEvent /\ QueuedCaseIsCommitted

(* What a push leaves in the list: the id, and what was there before.      *)
LEMMA PushedIds ==
    ASSUME NEW S, NEW s \in Seq(S), NEW c \in S, NEW n \in Nat
    PROVE  LET q == [i \in 1..n |-> c] \o s IN
           /\ q \in Seq(S)
           /\ \A i \in DOMAIN q : q[i] = c \/ \E j \in DOMAIN s : q[i] = s[j]
<1> DEFINE p == [i \in 1..n |-> c]
           q == p \o s
<1>1. p \in Seq(S) /\ Len(p) = n
  OBVIOUS
<1>2. q \in Seq(S) /\ Len(q) = n + Len(s)
  BY <1>1
<1>3. ASSUME NEW i \in DOMAIN q
      PROVE  q[i] = c \/ \E j \in DOMAIN s : q[i] = s[j]
  <2>1. i \in 1..(n + Len(s))
    BY <1>2, <1>3
  <2>2. CASE i <= n
    BY <1>1, <2>1, <2>2
  <2>3. CASE ~(i <= n)
    <3>1. q[i] = s[i - n] /\ i - n \in DOMAIN s
      BY <1>1, <2>1, <2>3
    <3> QED BY <3>1
  <2> QED BY <2>2, <2>3
<1> QED BY <1>2, <1>3

LEMMA PushedTypes ==
    ASSUME TypeOK, NEW h \in Handlers, NEW c \in todo[h], Push(c)
    PROVE  /\ queue' \in Seq(CaseIds)
           /\ \A i \in DOMAIN queue' : queue'[i] = c \/ \E j \in DOMAIN queue : queue'[i] = queue[j]
<1>1. PICK n \in Pushes : queue' = [i \in 1..n |-> c] \o queue
  BY DEF Push
<1>2. c \in CaseIds /\ queue \in Seq(CaseIds) /\ n \in Nat
  BY IntakeAssumption DEF TypeOK
<1> QED BY <1>1, <1>2, PushedIds

LEMMA PoppedIds ==
    ASSUME NEW S, NEW s \in Seq(S), s # <<>>
    PROVE  LET q == SubSeq(s, 1, Len(s) - 1) IN
           /\ q \in Seq(S)
           /\ \A i \in DOMAIN q : i \in DOMAIN s /\ q[i] = s[i]
           /\ s[Len(s)] \in S
<1>1. Len(s) \in Nat /\ Len(s) >= 1
  OBVIOUS
<1> QED BY <1>1

LEMMA IntakeTypeStep == ASSUME TypeOK, [Next]_vars PROVE TypeOK'
<1> USE IntakeAssumption DEF TypeOK, Goto, Done, FreshIds, Committed, bounds
<1>1. ASSUME NEW h \in Handlers, NEW e \in Events, Deliver(h, e) PROVE TypeOK'
  BY <1>1 DEF Deliver
<1>2. ASSUME NEW h \in Handlers, Refuse(h) \/ Duplicate(h) \/ NewEvent(h) \/ HandlerRaises(h)
      PROVE  TypeOK'
  BY <1>2 DEF Refuse, Duplicate, NewEvent, HandlerRaises
<1>3. ASSUME NEW h \in Handlers, Persist(h) PROVE TypeOK'
  <2>1. request[h] \in Events
    BY <1>3 DEF Persist
  <2>2. PICK c \in FreshIds :
          /\ cases' = cases \cup {[id |-> c, event |-> request[h]]}
          /\ todo' = [todo EXCEPT ![h] = {c}]
    BY <1>3 DEF Persist
  <2>3. cases' \subseteq Case /\ todo' \in [Handlers -> SUBSET CaseIds]
    BY <2>1, <2>2 DEF Case
  <2> QED BY <1>3, <2>1, <2>3 DEF Persist
<1>4. ASSUME NEW h \in Handlers, PersistOther(h) \/ UniqueViolation(h) \/ DbError(h)
      PROVE  TypeOK'
  <2>1. CASE PersistOther(h)
    <3>1. request[h] \in Events
      BY <2>1 DEF PersistOther
    <3> QED BY <2>1, <3>1 DEF PersistOther
  <2>2. CASE UniqueViolation(h)
    BY <2>2 DEF UniqueViolation
  <2>3. CASE DbError(h)
    BY <2>3 DEF DbError
  <2> QED BY <1>4, <2>1, <2>2, <2>3
<1>5. ASSUME NEW h \in Handlers, SimulateBatch(h) PROVE TypeOK'
  <2>1. PICK ids \in SUBSET FreshIds :
          /\ cases' = cases \cup {[id |-> c, event |-> None] : c \in ids}
          /\ todo' = [todo EXCEPT ![h] = ids]
    BY <1>5 DEF SimulateBatch
  <2>2. cases' \subseteq Case
    BY <2>1 DEF Case
  <2> QED BY <1>5, <2>1, <2>2 DEF SimulateBatch
<1>6. ASSUME NEW h \in Handlers, Enqueue(h) \/ EmitFails(h) PROVE TypeOK'
  <2>1. PICK c \in todo[h] : Push(c)
    BY <1>6 DEF Enqueue, EmitFails
  <2>2. queue' \in Seq(CaseIds)
    BY <2>1, PushedTypes
  <2>3. CASE Enqueue(h)
    BY <2>2, <2>3 DEF Enqueue
  <2>4. CASE EmitFails(h)
    BY <2>2, <2>4 DEF EmitFails
  <2> QED BY <1>6, <2>3, <2>4
<1>7. ASSUME NEW h \in Handlers, Answer(h) PROVE TypeOK'
  BY <1>7 DEF Answer
<1>8. CASE Crash
  BY <1>8 DEF Crash
<1>9. CASE Take
  <2>1. queue' \in Seq(CaseIds) /\ queue[Len(queue)] \in CaseIds
    BY <1>9, PoppedIds DEF Take
  <2> QED BY <1>9, <2>1 DEF Take, handlers
<1>10. CASE UNCHANGED vars
  BY <1>10 DEF vars, handlers
<1>11. QED
  BY <1>1, <1>2, <1>3, <1>4, <1>5, <1>6, <1>7, <1>8, <1>9, <1>10 DEF Next, HandlerStep

(* Only a transaction that inserts an event's row inserts a case for it.   *)
LEMMA OneCaseStep ==
    ASSUME TypeOK, OneCasePerEvent, [Next]_vars PROVE OneCasePerEvent'
<1> USE DEF OneCasePerEvent
<1>1. ASSUME NEW h \in Handlers, Persist(h) PROVE OneCasePerEvent'
  <2>1. PICK c \in FreshIds : cases' = cases \cup {[id |-> c, event |-> request[h]]}
    BY <1>1 DEF Persist
  <2>2. request[h] \notin events /\ events' = events \cup {request[h]}
    BY <1>1 DEF Persist
  <2>3. request[h] # None
    BY <1>1, IntakeAssumption DEF Persist
  <2> QED BY <2>1, <2>2, <2>3
<1>2. ASSUME NEW h \in Handlers, SimulateBatch(h) PROVE OneCasePerEvent'
  <2>1. PICK ids \in SUBSET FreshIds :
          cases' = cases \cup {[id |-> c, event |-> None] : c \in ids}
    BY <1>2 DEF SimulateBatch
  <2>2. events' = events
    BY <1>2 DEF SimulateBatch
  <2> QED BY <2>1, <2>2
<1>3. CASE cases' = cases /\ events \subseteq events'
  BY <1>3
<1>4. ASSUME NEW h \in Handlers, HandlerStep(h), ~Persist(h)
      PROVE  cases' = cases /\ events \subseteq events'
  BY <1>4 DEF HandlerStep, Refuse, Duplicate, NewEvent, HandlerRaises, PersistOther,
              UniqueViolation, DbError, Enqueue, EmitFails, Answer
<1>5. CASE Crash \/ Take \/ UNCHANGED vars \/ \E h \in Handlers, e \in Events : Deliver(h, e)
  BY <1>3, <1>5 DEF Crash, Take, vars, Deliver
<1>6. QED BY <1>1, <1>2, <1>3, <1>4, <1>5 DEF Next

(* Rows are never removed, and ids come from rows written with them.       *)
LEMMA QueuedStep ==
    ASSUME TypeOK, QueuedCaseIsCommitted, [Next]_vars PROVE QueuedCaseIsCommitted'
<1> USE DEF QueuedCaseIsCommitted
<1>1. Committed \subseteq Committed'
  <2>1. cases \subseteq cases'
    BY DEF Next, HandlerStep, Deliver, Refuse, Duplicate, NewEvent, HandlerRaises, Persist,
           PersistOther, UniqueViolation, DbError, SimulateBatch, Enqueue, EmitFails, Answer,
           Crash, Take, vars
  <2> QED BY <2>1 DEF Committed
<1>2. ASSUME NEW h \in Handlers, NEW ids \in SUBSET CaseIds,
             todo' = [todo EXCEPT ![h] = ids], queue' = queue,
             ids \subseteq Committed'
      PROVE  QueuedCaseIsCommitted'
  BY <1>1, <1>2 DEF TypeOK
<1>3. ASSUME NEW h \in Handlers, Persist(h) PROVE QueuedCaseIsCommitted'
  <2>1. PICK c \in FreshIds :
          /\ cases' = cases \cup {[id |-> c, event |-> request[h]]}
          /\ todo' = [todo EXCEPT ![h] = {c}]
    BY <1>3 DEF Persist
  <2>2. {c} \subseteq Committed' /\ {c} \in SUBSET CaseIds
    BY <2>1 DEF Committed, FreshIds
  <2>3. queue' = queue
    BY <1>3 DEF Persist
  <2> QED BY <1>2, <2>1, <2>2, <2>3
<1>4. ASSUME NEW h \in Handlers, SimulateBatch(h) PROVE QueuedCaseIsCommitted'
  <2>1. PICK ids \in SUBSET FreshIds :
          /\ cases' = cases \cup {[id |-> c, event |-> None] : c \in ids}
          /\ todo' = [todo EXCEPT ![h] = ids]
    BY <1>4 DEF SimulateBatch
  <2>2. ids \in SUBSET CaseIds
    BY <2>1 DEF FreshIds
  <2>3. ASSUME NEW c \in ids PROVE c \in Committed'
    <3>1. [id |-> c, event |-> None] \in cases' /\ [id |-> c, event |-> None].id = c
      BY <2>1
    <3> QED BY <3>1 DEF Committed
  <2>4. queue' = queue
    BY <1>4 DEF SimulateBatch
  <2> QED BY <1>2, <2>1, <2>2, <2>3, <2>4
<1>5. ASSUME NEW h \in Handlers, Enqueue(h) \/ EmitFails(h) PROVE QueuedCaseIsCommitted'
  <2>1. PICK c \in todo[h] : Push(c)
    BY <1>5 DEF Enqueue, EmitFails
  <2>2. c \in Committed
    BY DEF TypeOK
  <2>3. \A i \in DOMAIN queue' : queue'[i] = c \/ \E j \in DOMAIN queue : queue'[i] = queue[j]
    BY <2>1, PushedTypes
  <2>4. \A g \in Handlers : todo'[g] \subseteq todo[g]
    BY <1>5 DEF Enqueue, EmitFails, Done, TypeOK
  <2> QED BY <1>1, <2>2, <2>3, <2>4
<1>6. CASE Take
  <2>1. \A i \in DOMAIN queue' : i \in DOMAIN queue /\ queue'[i] = queue[i]
    BY <1>6, PoppedIds DEF Take, TypeOK
  <2>2. todo' = todo
    BY <1>6 DEF Take, handlers
  <2> QED BY <1>1, <2>1, <2>2
<1>7. CASE queue' = queue /\ \A h \in Handlers : todo'[h] \subseteq todo[h]
  BY <1>1, <1>7
<1>8. ASSUME NEW h \in Handlers, HandlerStep(h), ~Persist(h), ~Enqueue(h), ~EmitFails(h)
      PROVE  queue' = queue /\ \A g \in Handlers : todo'[g] \subseteq todo[g]
  BY <1>8 DEF HandlerStep, Refuse, Duplicate, NewEvent, HandlerRaises, PersistOther,
              UniqueViolation, DbError, Answer, Done, TypeOK
<1>9. CASE Crash \/ UNCHANGED vars \/ \E h \in Handlers, e \in Events : Deliver(h, e)
  BY <1>7, <1>9 DEF Crash, vars, handlers, Deliver
<1>10. QED BY <1>3, <1>4, <1>5, <1>6, <1>7, <1>8, <1>9 DEF Next

LEMMA IntakeInvariant == Spec => []IntakeInv
<1>1. Init => IntakeInv
  <2>1. Init => TypeOK
    BY DEF Init, TypeOK
  <2>2. Init => OneCasePerEvent /\ QueuedCaseIsCommitted
    BY DEF Init, OneCasePerEvent, QueuedCaseIsCommitted
  <2> QED BY <2>1, <2>2 DEF IntakeInv
<1>2. IntakeInv /\ [Next]_vars => IntakeInv'
  BY IntakeTypeStep, OneCaseStep, QueuedStep DEF IntakeInv
<1>3. QED BY <1>1, <1>2, PTL DEF Spec

(* No number of concurrent or repeated deliveries, failing transactions or *)
(* crashes makes a second case for an event.                               *)
THEOREM IdempotentIntake == Spec => []OneCasePerEvent
<1>1. IntakeInv => OneCasePerEvent
  BY DEF IntakeInv
<1>2. QED BY <1>1, IntakeInvariant, PTL

(* A worker never looks for a row that is not committed yet.               *)
THEOREM NoReadRace == Spec => []QueuedCaseIsCommitted
<1>1. IntakeInv => QueuedCaseIsCommitted
  BY DEF IntakeInv
<1>2. QED BY <1>1, IntakeInvariant, PTL

(* The tables, the queue and the handlers' locals keep their types.        *)
THEOREM IntakeTypeCorrect == Spec => []TypeOK
<1>1. IntakeInv => TypeOK
  BY DEF IntakeInv
<1>2. QED BY <1>1, IntakeInvariant, PTL

-----------------------------------------------------------------------------
(* What the ledger needs besides: a recorded failure event has its case, a *)
(* handler that is past its transaction was given a recorded event, and an *)
(* idle handler has none.                                                  *)
RecordedHasCase == \A e \in FailureEvents \cap events : Ledger!HasCase(e)
RequestInv ==
    \A h \in Handlers :
        /\ pc[h] = "idle" => request[h] = None
        /\ pc[h] \in {"push", "answer"} => request[h] \notin FailureEvents \ events
LedgerInv == RecordedHasCase /\ RequestInv

(* No row is ever removed.                                                 *)
LEMMA RowsStay == ASSUME [Next]_vars PROVE cases \subseteq cases' /\ events \subseteq events'
<1> QED
  BY DEF Next, HandlerStep, Deliver, Refuse, Duplicate, NewEvent, HandlerRaises, Persist,
         PersistOther, UniqueViolation, DbError, SimulateBatch, Enqueue, EmitFails, Answer,
         Crash, Take, vars

LEMMA PersistOpens ==
    ASSUME TypeOK, OneCasePerEvent, NEW h \in Handlers, Persist(h)
    PROVE  Ledger!Open(request[h]) /\ \E x \in cases' : x.event = request[h]
<1>1. PICK c \in FreshIds : cases' = cases \cup {[id |-> c, event |-> request[h]]}
  BY DEF Persist
<1>2. request[h] \notin events /\ request[h] # None
  BY IntakeAssumption DEF Persist
<1>3. ~Ledger!HasCase(request[h])
  BY <1>2 DEF OneCasePerEvent, Ledger!HasCase
<1>4. \E x \in cases' : x.event = request[h]
  <2>1. [id |-> c, event |-> request[h]] \in cases'
    BY <1>1
  <2> QED BY <2>1
<1>5. c \in CaseIds \ Ledger!Ids
  BY DEF FreshIds, Committed, Ledger!Ids
<1>6. acked' = acked /\ handled' = handled
  BY DEF Persist
<1> QED BY <1>1, <1>3, <1>4, <1>5, <1>6 DEF Ledger!Open

LEMMA RecordedStep ==
    ASSUME TypeOK, OneCasePerEvent, RecordedHasCase, [Next]_vars PROVE RecordedHasCase'
<1>1. ASSUME NEW e \in FailureEvents, Ledger!HasCase(e) PROVE Ledger!HasCase(e)'
  BY <1>1, RowsStay DEF Ledger!HasCase
<1>2. ASSUME NEW h \in Handlers, Persist(h) PROVE RecordedHasCase'
  <2>1. events' = events \cup {request[h]}
    BY <1>2 DEF Persist
  <2>2. \E x \in cases' : x.event = request[h]
    BY <1>2, PersistOpens
  <2>3. ASSUME NEW e \in FailureEvents \cap events' PROVE Ledger!HasCase(e)'
    <3>1. CASE e \in events
      BY <1>1, <2>3, <3>1 DEF RecordedHasCase
    <3>2. CASE e = request[h]
      BY <2>2, <3>2 DEF Ledger!HasCase
    <3> QED BY <2>1, <2>3, <3>1, <3>2
  <2> QED BY <2>3 DEF RecordedHasCase
<1>3. CASE FailureEvents \cap events' \subseteq events
  BY <1>1, <1>3 DEF RecordedHasCase
<1>4. ASSUME NEW h \in Handlers, HandlerStep(h), ~Persist(h)
      PROVE  FailureEvents \cap events' \subseteq events
  BY <1>4 DEF HandlerStep, Refuse, Duplicate, NewEvent, HandlerRaises, PersistOther,
              UniqueViolation, DbError, Enqueue, EmitFails, Answer
<1>5. CASE Crash \/ Take \/ UNCHANGED vars
           \/ \E h \in Handlers : SimulateBatch(h) \/ \E e \in Events : Deliver(h, e)
  BY <1>3, <1>5 DEF Crash, Take, vars, SimulateBatch, Deliver
<1>6. QED BY <1>2, <1>3, <1>4, <1>5 DEF Next

LEMMA RequestStep == ASSUME TypeOK, RequestInv, [Next]_vars PROVE RequestInv'
<1> USE IntakeAssumption DEF TypeOK, RequestInv, Goto, Done
<1>1. events \subseteq events'
  BY RowsStay
<1>2. ASSUME NEW h \in Handlers, NEW e \in Events, Deliver(h, e) PROVE RequestInv'
  BY <1>1, <1>2 DEF Deliver
<1>3. ASSUME NEW h \in Handlers, HandlerStep(h), Done(h) PROVE RequestInv'
  BY <1>1, <1>3
<1>4. ASSUME NEW h \in Handlers, Duplicate(h) \/ NewEvent(h) \/ Persist(h) \/ PersistOther(h)
      PROVE  RequestInv'
  BY <1>1, <1>4 DEF Duplicate, NewEvent, Persist, PersistOther
<1>5. ASSUME NEW h \in Handlers, Enqueue(h) PROVE RequestInv'
  BY <1>1, <1>5 DEF Enqueue
<1>6. ASSUME NEW h \in Handlers, SimulateBatch(h) PROVE RequestInv'
  BY <1>1, <1>6 DEF SimulateBatch
<1>7. CASE Crash
  BY <1>7 DEF Crash
<1>8. CASE Take \/ UNCHANGED vars
  BY <1>8 DEF Take, vars, handlers
<1>9. ASSUME NEW h \in Handlers, \/ Refuse(h) \/ HandlerRaises(h) \/ UniqueViolation(h)
                                 \/ DbError(h) \/ EmitFails(h) \/ Answer(h)
      PROVE  Done(h)
  BY <1>9 DEF Refuse, HandlerRaises, UniqueViolation, DbError, EmitFails, Answer
<1>10. QED
  BY <1>2, <1>3, <1>4, <1>5, <1>6, <1>7, <1>8, <1>9 DEF Next, HandlerStep

(* The whole intake, with any number of handlers, deliveries, failing      *)
(* transactions and crashes, implements the ledger of cases: a transaction *)
(* opens a case, an answer settles an event that has one, a worker takes   *)
(* an open case, and every other step is invisible.                        *)
THEOREM IntakeImplementsLedger == Spec => LedgerSpec
<1>1. Init => Ledger!Init /\ LedgerInv
  BY DEF Init, Ledger!Init, LedgerInv, RecordedHasCase, RequestInv
<1>2. IntakeInv /\ LedgerInv /\ [Next]_vars => LedgerInv'
  BY RecordedStep, RequestStep DEF IntakeInv, LedgerInv
<1>3. IntakeInv /\ LedgerInv /\ [Next]_vars => [Ledger!Next]_(Ledger!vars)
  <2> SUFFICES ASSUME IntakeInv, LedgerInv, [Next]_vars
               PROVE  Ledger!Next \/ UNCHANGED Ledger!vars
    OBVIOUS
  <2> USE DEF IntakeInv, LedgerInv
  <2>1. ASSUME NEW h \in Handlers, Persist(h) PROVE Ledger!Next
    <3>1. request[h] \in FailureEvents
      BY <2>1 DEF Persist
    <3> QED BY <2>1, <3>1, PersistOpens DEF Ledger!Next
  <2>2. ASSUME NEW h \in Handlers, SimulateBatch(h) PROVE Ledger!Next
    <3>1. PICK ids \in SUBSET FreshIds :
            cases' = cases \cup {[id |-> c, event |-> None] : c \in ids}
      BY <2>2 DEF SimulateBatch
    <3>2. ids \in SUBSET (CaseIds \ Ledger!Ids)
      BY DEF FreshIds, Committed, Ledger!Ids
    <3>3. acked' = acked /\ handled' = handled
      BY <2>2 DEF SimulateBatch
    <3>4. Ledger!Simulate
      BY <3>1, <3>2, <3>3 DEF Ledger!Simulate
    <3> QED BY <3>4 DEF Ledger!Next
  <2>3. ASSUME NEW h \in Handlers, Answer(h) PROVE Ledger!Next \/ UNCHANGED Ledger!vars
    <3>1. cases' = cases /\ handled' = handled
      BY <2>3 DEF Answer
    <3>2. acked' = acked \/ acked' = acked \cup ({request[h]} \cap Events)
      BY <2>3 DEF Answer
    <3>3. CASE request[h] \in FailureEvents /\ acked' # acked
      <4>1. Ledger!HasCase(request[h])
        BY <2>3, <3>3 DEF Answer, RequestInv, RecordedHasCase
      <4>2. acked' \cap FailureEvents = (acked \cap FailureEvents) \cup {request[h]}
        BY <3>2, <3>3, IntakeAssumption
      <4>3. Ledger!Settle(request[h])
        BY <3>1, <4>1, <4>2 DEF Ledger!Settle
      <4> QED BY <3>3, <4>3 DEF Ledger!Next
    <3>4. CASE ~(request[h] \in FailureEvents /\ acked' # acked)
      BY <3>1, <3>2, <3>4 DEF Ledger!vars
    <3> QED BY <3>3, <3>4
  <2>4. CASE Take
    <3>1. cases' = cases /\ acked' = acked /\ queue[Len(queue)] \in CaseIds
      BY <2>4, PoppedIds DEF Take, TypeOK
    <3>2. CASE queue[Len(queue)] \in Committed
      <4>1. Ledger!Take(queue[Len(queue)])
        BY <2>4, <3>1, <3>2 DEF Take, Committed, Ledger!Take, Ledger!Ids
      <4> QED BY <3>1, <4>1 DEF Ledger!Next
    <3>3. CASE queue[Len(queue)] \notin Committed
      BY <2>4, <3>1, <3>3 DEF Take, Ledger!vars
    <3> QED BY <3>2, <3>3
  <2>5. ASSUME NEW h \in Handlers, HandlerStep(h), ~Persist(h), ~Answer(h)
        PROVE  UNCHANGED Ledger!vars
    BY <2>5 DEF HandlerStep, Refuse, Duplicate, NewEvent, HandlerRaises, PersistOther,
                UniqueViolation, DbError, Enqueue, EmitFails, Ledger!vars
  <2>6. CASE Crash \/ UNCHANGED vars \/ \E h \in Handlers, e \in Events : Deliver(h, e)
    BY <2>6 DEF Crash, vars, Deliver, Ledger!vars
  <2>7. QED BY <2>1, <2>2, <2>3, <2>4, <2>5, <2>6 DEF Next
<1>4. QED
  BY <1>1, <1>2, <1>3, IntakeInvariant, PTL DEF Spec, LedgerSpec, Ledger!Spec
=============================================================================
