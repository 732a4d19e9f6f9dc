---------------------- MODULE ExperimentAssignmentProofs ----------------------
(* Theorems of ExperimentAssignment, for any processes, cases and settings. *)
EXTENDS ExperimentAssignment, FiniteSetTheorems, TLAPS

(* One run at a time is between its first update of a row and its commit.  *)
RowsLocked ==
    \A v, w \in Workers :
        pc[v] \in TxnPC /\ pc[w] \in TxnPC /\ running[v] = running[w] => v = w

(* What a run has found is still so when it commits.                       *)
FoundIsTrue ==
    \A w \in Workers :
        /\ w \in found => pc[w] \in {"insert", "failed"}
        /\ pc[w] = "insert" => (w \in found <=> assigned[running[w]] # <<>>)

(* A case has an arm exactly if it has an assignment, and every arm was    *)
(* drawn with a value that EXPERIMENT_VARIANT_PCT has had.                 *)
Drawn(c) == {ArmOf(c, p) : p \in deployed}
ArmsRecorded ==
    \A c \in Cases : /\ arm[c] # None <=> assigned[c] # <<>>
                     /\ arm[c] \in Drawn(c) \cup {None}
                     /\ \A i \in 1..Len(assigned[c]) : assigned[c][i] \in Drawn(c)
ArmsDrawn ==
    /\ setting \in deployed
    /\ \A p \in Processes : pc[p] # "down" => loaded[p] \in deployed
    /\ \A w \in Workers : pc[w] \in {"graph", "insert"} => drawn[w] \in Drawn(running[w])

(* The experiment is there before the first case.                          *)
ExperimentFirst ==
    /\ \A a \in Apis : pc[a] = "up" => experiment # None
    /\ \A c \in Cases : status[c] # None => experiment # None
    /\ \A w \in Workers : running[w] \in Cases => status[running[w]] # None

ExperimentInv ==
    /\ TypeOK /\ RowsLocked /\ FoundIsTrue /\ OneAssignmentPerCase
    /\ ArmsRecorded /\ ArmsDrawn /\ ExperimentFirst

-----------------------------------------------------------------------------
LEMMA ArmOfType == \A c, p : ArmOf(c, p) \in Arm /\ ArmOf(c, p) # None
BY ExperimentAssumption DEF ArmOf, Arm

LEMMA ExperimentTypes == ASSUME TypeOK, ArmsDrawn, [Next]_vars PROVE TypeOK'
<1> USE ExperimentAssumption DEF TypeOK, Processes, Goto, Finish, Forget, environment,
        tables, job, TxnPC, Status
<1>1. CASE Redeploy
  BY <1>1 DEF Redeploy
<1>2. ASSUME NEW p \in Processes, Start(p) PROVE TypeOK'
  BY <1>2 DEF Start
<1>3. ASSUME NEW p \in Processes, Stop(p) PROVE TypeOK'
  <2>1. pc' \in [Processes -> {"down", "check", "create", "seed", "add", "up", "idle", "failed"}
                             \cup TxnPC]
    BY <1>3 DEF Stop
  <2>2. /\ running' \in [Workers -> Cases \cup {None}]
        /\ drawn' \in [Workers -> Arm \cup {None}] /\ found' \subseteq Workers
    BY <1>3 DEF Stop
  <2>3. \A w \in Workers : pc'[w] \notin {"down", "idle"} => running'[w] \in Cases
    BY <1>3 DEF Stop
  <2> QED BY <1>3, <2>1, <2>2, <2>3 DEF Stop
<1>4. ASSUME NEW a \in Apis, ApiStep(a) PROVE TypeOK'
  <2>1. CASE SelectExperiment(a)
    BY <1>4, <2>1 DEF SelectExperiment
  <2>2. CASE AddExperiment(a)
    BY <1>4, <2>2 DEF AddExperiment
  <2>3. CASE ExperimentTaken(a)
    BY <1>4, <2>3 DEF ExperimentTaken
  <2>4. CASE CheckTables(a) \/ TablesTaken(a)
    BY <1>4, <2>4 DEF CheckTables, TablesTaken
  <2>5. CASE CreateTables(a)
    BY <1>4, <2>5 DEF CreateTables
  <2> QED BY <1>4, <2>1, <2>2, <2>3, <2>4, <2>5 DEF ApiStep
<1>5. ASSUME NEW a \in Apis, NEW c \in Cases, CreateCase(a, c) PROVE TypeOK'
  BY <1>5 DEF CreateCase
<1>6. ASSUME NEW w \in Workers, NEW c \in Cases, Take(w, c) PROVE TypeOK'
  BY <1>6 DEF Take
<1>7. ASSUME NEW w \in Workers, RunFails(w) \/ SelectAssignment(w) PROVE TypeOK'
  BY <1>7 DEF RunFails, SelectAssignment
<1>8. ASSUME NEW w \in Workers, AssignExperiment(w) PROVE TypeOK'
  BY <1>8, ArmOfType DEF AssignExperiment
<1>9. ASSUME NEW w \in Workers, Commit(w) PROVE TypeOK'
  <2>1. running[w] \in Cases /\ drawn[w] \in Arm
    BY <1>9, ArmOfType DEF Commit, ArmsDrawn, Drawn
  <2>2. Append(assigned[running[w]], drawn[w]) \in Seq(Arm)
    BY <2>1
  <2> QED BY <1>9, <2>1, <2>2 DEF Commit
<1>10. ASSUME NEW w \in Workers, RecordFailure(w) PROVE TypeOK'
  BY <1>10 DEF RecordFailure
<1>11. CASE UNCHANGED vars
  BY <1>11 DEF vars
<1> QED BY <1>1, <1>2, <1>3, <1>4, <1>5, <1>6, <1>7, <1>8, <1>9, <1>10, <1>11 DEF Next, WorkerStep

(* Only Take enters a transaction, and it waits for the row.               *)
LEMMA LocksKept == ASSUME TypeOK, RowsLocked, [Next]_vars PROVE RowsLocked'
<1> USE ExperimentAssumption DEF TypeOK, RowsLocked, Processes, Goto, Finish, Forget, environment,
        tables, job, TxnPC, Status
<1>1. ASSUME NEW w \in Workers, NEW c \in Cases, Take(w, c) PROVE RowsLocked'
  BY <1>1 DEF Take, RowFree
<1>2. ASSUME NEW p \in Processes, Start(p) \/ Stop(p) PROVE RowsLocked'
  BY <1>2 DEF Start, Stop
<1>3. ASSUME NEW a \in Apis, ApiStep(a) PROVE RowsLocked'
  BY <1>3 DEF ApiStep, CheckTables, CreateTables, TablesTaken,
       SelectExperiment, AddExperiment, ExperimentTaken
<1>4. ASSUME NEW w \in Workers, AssignExperiment(w) \/ RunFails(w) \/ SelectAssignment(w)
      PROVE  RowsLocked'
  BY <1>4 DEF AssignExperiment, RunFails, SelectAssignment
<1>5. ASSUME NEW w \in Workers, Commit(w) \/ RecordFailure(w) PROVE RowsLocked'
  <2>1. \A v \in Workers : pc'[v] \in TxnPC => pc'[v] = pc[v] /\ running'[v] = running[v]
    BY <1>5 DEF Commit, RecordFailure
  <2> QED BY <2>1
<1>6. CASE Redeploy \/ UNCHANGED vars \/ \E a \in Apis, c \in Cases : CreateCase(a, c)
  BY <1>6 DEF Redeploy, vars, CreateCase
<1> QED BY <1>1, <1>2, <1>3, <1>4, <1>5, <1>6 DEF Next, WorkerStep

(* A case's assignments change only when the run that holds its row        *)
(* commits, and that run goes idle.                                        *)
LEMMA FoundKept ==
    ASSUME TypeOK, RowsLocked, FoundIsTrue, [Next]_vars PROVE FoundIsTrue'
<1> USE ExperimentAssumption DEF TypeOK, FoundIsTrue, Processes, Goto, Finish, Forget,
        environment, tables, job, TxnPC, Status
<1>1. ASSUME NEW w \in Workers, Commit(w) PROVE FoundIsTrue'
  <2>1. ASSUME NEW v \in Workers, pc'[v] = "insert" PROVE v # w /\ running[v] # running[w]
    BY <1>1, <2>1 DEF Commit, RowsLocked
  <2>2. ASSUME NEW v \in Workers, pc'[v] = "insert"
        PROVE  assigned'[running'[v]] = assigned[running[v]]
    BY <1>1, <2>1, <2>2 DEF Commit
  <2>3. ASSUME NEW v \in Workers, v \in found' PROVE pc'[v] \in {"insert", "failed"}
    BY <1>1, <2>3 DEF Commit
  <2> QED BY <1>1, <2>1, <2>2, <2>3 DEF Commit
<1>2. ASSUME NEW w \in Workers, SelectAssignment(w) PROVE FoundIsTrue'
  <2>1. running[w] \in Cases
    BY <1>2 DEF SelectAssignment
  <2>2. w \in found' <=> assigned'[running'[w]] # <<>>
    BY <1>2, <2>1 DEF SelectAssignment
  <2>3. ASSUME NEW v \in Workers, pc'[v] = "insert", v # w
        PROVE  v \in found' <=> assigned'[running'[v]] # <<>>
    BY <1>2, <2>3 DEF SelectAssignment
  <2>4. ASSUME NEW v \in Workers, v \in found' PROVE pc'[v] \in {"insert", "failed"}
    BY <1>2, <2>4 DEF SelectAssignment
  <2> QED BY <2>2, <2>3, <2>4
<1>3. ASSUME NEW p \in Processes, Start(p) \/ Stop(p) PROVE FoundIsTrue'
  BY <1>3 DEF Start, Stop
<1>4. ASSUME NEW a \in Apis, ApiStep(a) PROVE FoundIsTrue'
  BY <1>4 DEF ApiStep, CheckTables, CreateTables, TablesTaken,
       SelectExperiment, AddExperiment, ExperimentTaken
<1>5. ASSUME NEW w \in Workers, AssignExperiment(w) \/ RunFails(w) \/ RecordFailure(w)
      PROVE  FoundIsTrue'
  <2>1. CASE AssignExperiment(w)
    BY <2>1 DEF AssignExperiment
  <2>2. CASE RunFails(w)
    BY <2>2 DEF RunFails
  <2>3. CASE RecordFailure(w)
    BY <2>3 DEF RecordFailure
  <2> QED BY <1>5, <2>1, <2>2, <2>3
<1>6. ASSUME NEW w \in Workers, NEW c \in Cases, Take(w, c) PROVE FoundIsTrue'
  BY <1>6 DEF Take
<1>7. CASE Redeploy \/ UNCHANGED vars \/ \E a \in Apis, c \in Cases : CreateCase(a, c)
  BY <1>7 DEF Redeploy, vars, CreateCase
<1> QED BY <1>1, <1>2, <1>3, <1>4, <1>5, <1>6, <1>7 DEF Next, WorkerStep

(* A run inserts an assignment only when there is none.                    *)
LEMMA OneAssignmentKept ==
    ASSUME TypeOK, FoundIsTrue, OneAssignmentPerCase, [Next]_vars
    PROVE  OneAssignmentPerCase'
<1> USE DEF OneAssignmentPerCase, environment, tables
<1>1. ASSUME NEW w \in Workers, Commit(w) PROVE OneAssignmentPerCase'
  <2>1. running[w] \in Cases /\ assigned \in [Cases -> Seq(Arm)]
    BY <1>1 DEF Commit, TypeOK, TxnPC
  <2>2. CASE w \in found
    BY <1>1, <2>2 DEF Commit
  <2>3. CASE w \notin found
    <3>1. assigned[running[w]] = <<>>
      BY <1>1, <2>3 DEF Commit, FoundIsTrue
    <3>2. Len(Append(assigned[running[w]], drawn[w])) = 1
      BY <3>1
    <3> QED BY <1>1, <2>1, <2>3, <3>2 DEF Commit
  <2> QED BY <2>2, <2>3
<1>2. ASSUME assigned' = assigned PROVE OneAssignmentPerCase'
  BY <1>2
<1> QED BY <1>1, <1>2 DEF Next, WorkerStep, Redeploy, Start, Stop, ApiStep, CheckTables,
        CreateTables, TablesTaken, SelectExperiment, AddExperiment, ExperimentTaken,
        CreateCase, Take, AssignExperiment, RunFails, SelectAssignment, RecordFailure, vars

LEMMA ArmsDrawnFrame ==
    ASSUME ArmsDrawn,
           setting' = setting, deployed' = deployed, loaded' = loaded,
           \A p \in Processes : pc'[p] # "down" => pc[p] # "down",
           \A v \in Workers : pc'[v] \in {"graph", "insert"} =>
               /\ pc[v] \in {"graph", "insert"}
               /\ drawn'[v] = drawn[v] /\ running'[v] = running[v]
    PROVE  ArmsDrawn'
<1>1. setting' \in deployed' /\ \A p \in Processes : pc'[p] # "down" => loaded'[p] \in deployed'
  BY DEF ArmsDrawn
<1>2. ASSUME NEW v \in Workers, pc'[v] \in {"graph", "insert"}
      PROVE  (drawn[v] \in Drawn(running[v]))'
  <2>1. drawn[v] \in Drawn(running[v])
    BY <1>2 DEF ArmsDrawn
  <2>2. Drawn(running[v])' = Drawn(running[v])
    BY <1>2 DEF Drawn
  <2> QED BY <1>2, <2>1, <2>2
<1> QED BY <1>1, <1>2 DEF ArmsDrawn

(* Start loads the current setting, and settings are never forgotten.      *)
LEMMA ArmsDrawnKept == ASSUME TypeOK, ArmsDrawn, [Next]_vars PROVE ArmsDrawn'
<1> USE ExperimentAssumption DEF TypeOK, ArmsDrawn, Drawn, Processes, Goto, Finish, Forget,
        environment, tables, job, TxnPC, Status
<1>1. CASE Redeploy
  <2>1. /\ setting' \in deployed' /\ deployed \subseteq deployed'
        /\ UNCHANGED <<loaded, pc, drawn, running>>
    BY <1>1 DEF Redeploy
  <2>2. ASSUME NEW v \in Workers, pc'[v] \in {"graph", "insert"}
        PROVE  (drawn[v] \in Drawn(running[v]))'
    BY <2>1, <2>2
  <2> QED BY <2>1, <2>2
<1>2. ASSUME NEW p \in Processes, Start(p) PROVE ArmsDrawn'
  <2>1. /\ UNCHANGED <<setting, deployed, drawn, running>>
        /\ \A q \in Processes : pc'[q] # "down" => loaded'[q] \in deployed'
    BY <1>2 DEF Start
  <2>2. \A v \in Workers : pc'[v] \in {"graph", "insert"} => pc[v] = pc'[v]
    BY <1>2 DEF Start
  <2>3. ASSUME NEW v \in Workers, pc'[v] \in {"graph", "insert"}
        PROVE  (drawn[v] \in Drawn(running[v]))'
    BY <2>1, <2>2, <2>3
  <2> QED BY <2>1, <2>3
<1>3. ASSUME NEW p \in Processes, Stop(p) PROVE ArmsDrawn'
  <2>1. \A v \in Workers : pc'[v] \in {"graph", "insert"} =>
            /\ pc[v] \in {"graph", "insert"}
            /\ drawn'[v] = drawn[v] /\ running'[v] = running[v]
    BY <1>3 DEF Stop
  <2>2. /\ setting' = setting /\ deployed' = deployed /\ loaded' = loaded
        /\ \A q \in Processes : pc'[q] # "down" => pc[q] # "down"
    BY <1>3 DEF Stop
  <2> QED BY <2>1, <2>2, ArmsDrawnFrame
<1>4. ASSUME NEW a \in Apis, ApiStep(a) PROVE ArmsDrawn'
  <2>1. \A v \in Workers :
            pc'[v] = pc[v] /\ drawn'[v] = drawn[v] /\ running'[v] = running[v]
    BY <1>4 DEF ApiStep, CheckTables, CreateTables, TablesTaken,
       SelectExperiment, AddExperiment, ExperimentTaken
  <2>2. /\ setting' = setting /\ deployed' = deployed /\ loaded' = loaded
        /\ \A p \in Processes : pc'[p] # "down" => pc[p] # "down"
    BY <1>4 DEF ApiStep, CheckTables, CreateTables, TablesTaken,
       SelectExperiment, AddExperiment, ExperimentTaken
  <2> QED BY <2>1, <2>2, ArmsDrawnFrame
<1>5. ASSUME NEW w \in Workers, AssignExperiment(w) PROVE ArmsDrawn'
  <2>1. drawn'[w] \in Drawn(running[w])
    BY <1>5 DEF AssignExperiment
  <2> QED BY <1>5, <2>1 DEF AssignExperiment
<1>6. ASSUME NEW w \in Workers, NEW c \in Cases, Take(w, c) PROVE ArmsDrawn'
  BY <1>6 DEF Take
<1>7. ASSUME NEW w \in Workers, RunFails(w) \/ SelectAssignment(w) PROVE ArmsDrawn'
  <2>1. \A v \in Workers : /\ pc'[v] \in {"graph", "insert"} => pc[v] \in {"graph", "insert"}
                           /\ drawn'[v] = drawn[v] /\ running'[v] = running[v]
    BY <1>7 DEF RunFails, SelectAssignment
  <2>2. /\ setting' = setting /\ deployed' = deployed /\ loaded' = loaded
        /\ \A p \in Processes : pc'[p] # "down" => pc[p] # "down"
    BY <1>7 DEF RunFails, SelectAssignment
  <2> QED BY <2>1, <2>2, ArmsDrawnFrame
<1>8. ASSUME NEW w \in Workers, Commit(w) \/ RecordFailure(w) PROVE ArmsDrawn'
  <2>1. \A v \in Workers : pc'[v] \in {"graph", "insert"} =>
            /\ pc[v] \in {"graph", "insert"}
            /\ drawn'[v] = drawn[v] /\ running'[v] = running[v]
    BY <1>8 DEF Commit, RecordFailure
  <2>2. /\ setting' = setting /\ deployed' = deployed /\ loaded' = loaded
        /\ \A p \in Processes : pc'[p] # "down" => pc[p] # "down"
    BY <1>8 DEF Commit, RecordFailure
  <2> QED BY <2>1, <2>2, ArmsDrawnFrame
<1>9. CASE UNCHANGED vars \/ \E a \in Apis, c \in Cases : CreateCase(a, c)
  BY <1>9 DEF vars, CreateCase
<1> QED BY <1>1, <1>2, <1>3, <1>4, <1>5, <1>6, <1>7, <1>8, <1>9 DEF Next, WorkerStep

(* A commit writes the arm and, where there is none, the assignment.       *)
LEMMA ArmsRecordedKept ==
    ASSUME TypeOK, FoundIsTrue, ArmsDrawn, ArmsRecorded, [Next]_vars
    PROVE  ArmsRecorded'
<1> USE DEF ArmsRecorded, Drawn, environment, tables
<1>1. ASSUME NEW w \in Workers, Commit(w) PROVE ArmsRecorded'
  <2> DEFINE c == running[w]
  <2>1. /\ c \in Cases /\ assigned \in [Cases -> Seq(Arm)] /\ arm \in [Cases -> Arm \cup {None}]
        /\ drawn[w] \in Drawn(c) /\ drawn[w] \in Arm /\ drawn[w] # None
    BY <1>1, ArmOfType DEF Commit, TypeOK, TxnPC, ArmsDrawn
  <2>2. arm' = [arm EXCEPT ![c] = drawn[w]] /\ deployed' = deployed
    BY <1>1 DEF Commit
  <2>3. CASE w \in found
    <3>1. assigned' = assigned /\ assigned[c] # <<>>
      BY <1>1, <2>3 DEF Commit, FoundIsTrue
    <3> QED BY <2>1, <2>2, <3>1
  <2>4. CASE w \notin found
    <3>1. assigned' = [assigned EXCEPT ![c] = Append(@, drawn[w])] /\ assigned[c] = <<>>
      BY <1>1, <2>4 DEF Commit, FoundIsTrue
    <3>2. assigned'[c] = <<drawn[w]>>
      BY <2>1, <3>1
    <3>3. ASSUME NEW d \in Cases, d # c PROVE assigned'[d] = assigned[d] /\ arm'[d] = arm[d]
      BY <2>1, <2>2, <3>1, <3>3
    <3>4. /\ assigned'[c] # <<>> /\ arm'[c] = drawn[w] /\ Len(assigned'[c]) = 1
          /\ assigned'[c][1] = drawn[w]
      BY <2>1, <2>2, <3>2
    <3>5. \A i \in 1..Len(assigned'[c]) : assigned'[c][i] \in Drawn(c)
      BY <2>1, <3>4
    <3> QED BY <2>1, <2>2, <3>3, <3>4, <3>5
  <2> QED BY <2>3, <2>4
<1>2. ASSUME assigned' = assigned, arm' = arm, deployed \subseteq deployed'
      PROVE  ArmsRecorded'
  BY <1>2
<1> QED BY <1>1, <1>2 DEF Next, WorkerStep, Redeploy, Start, Stop, ApiStep, CheckTables,
        CreateTables, TablesTaken, SelectExperiment, AddExperiment, ExperimentTaken,
        CreateCase, Take, AssignExperiment, RunFails, SelectAssignment, RecordFailure, vars

(* Only a started API inserts cases, and it starts with the experiment.    *)
LEMMA ExperimentKept ==
    ASSUME TypeOK, ExperimentFirst, [Next]_vars PROVE ExperimentFirst'
<1> USE ExperimentAssumption DEF TypeOK, ExperimentFirst, Processes, Goto, Finish, Forget,
        environment, tables, job, TxnPC, Status
<1>1. ASSUME NEW p \in Processes, Start(p) \/ Stop(p) PROVE ExperimentFirst'
  <2>1. experiment' = experiment /\ status' = status
    BY <1>1 DEF Start, Stop
  <2>2. \A v \in Workers : running'[v] \in Cases => running'[v] = running[v]
    BY <1>1 DEF Start, Stop
  <2>3. \A a \in Apis : pc'[a] = "up" => pc[a] = "up"
    BY <1>1 DEF Start, Stop
  <2> QED BY <2>1, <2>2, <2>3
<1>2. ASSUME NEW a \in Apis, ApiStep(a) PROVE ExperimentFirst'
  <2>1. experiment # None => experiment' # None
    BY <1>2 DEF ApiStep, CheckTables, CreateTables, TablesTaken,
       SelectExperiment, AddExperiment, ExperimentTaken
  <2>2. ASSUME NEW b \in Apis, pc'[b] = "up" PROVE experiment' # None
    BY <1>2, <2>2 DEF ApiStep, CheckTables, CreateTables, TablesTaken,
       SelectExperiment, AddExperiment, ExperimentTaken
  <2> QED BY <1>2, <2>1, <2>2 DEF ApiStep, CheckTables, CreateTables, TablesTaken,
       SelectExperiment, AddExperiment, ExperimentTaken
<1>3. ASSUME NEW a \in Apis, NEW c \in Cases, CreateCase(a, c) PROVE ExperimentFirst'
  BY <1>3 DEF CreateCase
<1>4. ASSUME NEW w \in Workers, NEW c \in Cases, Take(w, c) PROVE ExperimentFirst'
  BY <1>4 DEF Take
<1>5. ASSUME NEW w \in Workers, AssignExperiment(w) \/ RunFails(w) \/ SelectAssignment(w)
      PROVE  ExperimentFirst'
  BY <1>5 DEF AssignExperiment, RunFails, SelectAssignment
<1>6. ASSUME NEW w \in Workers, Commit(w) \/ RecordFailure(w) PROVE ExperimentFirst'
  <2>1. experiment' = experiment /\ \A c \in Cases : status[c] # None => status'[c] # None
    BY <1>6 DEF Commit, RecordFailure
  <2>2. \A c \in Cases : status'[c] # None => experiment' # None
    BY <1>6, <2>1 DEF Commit, RecordFailure
  <2>3. \A v \in Workers : running'[v] \in Cases => running'[v] = running[v]
    BY <1>6 DEF Commit, RecordFailure
  <2>4. \A a \in Apis : pc'[a] = "up" => pc[a] = "up"
    BY <1>6 DEF Commit, RecordFailure
  <2> QED BY <2>1, <2>2, <2>3, <2>4
<1>7. CASE Redeploy \/ UNCHANGED vars
  BY <1>7 DEF Redeploy, vars
<1> QED BY <1>1, <1>2, <1>3, <1>4, <1>5, <1>6, <1>7 DEF Next, WorkerStep

-----------------------------------------------------------------------------
LEMMA ExperimentInvariant == Spec => []ExperimentInv
<1>1. Init => ExperimentInv
  <2> SUFFICES ASSUME Init PROVE ExperimentInv
    OBVIOUS
  <2>1. TypeOK
    <3>1. schema \in BOOLEAN
      BY Zenon DEF Init
    <3>2. assigned \in [Cases -> Seq(Arm)]
      BY DEF Init
    <3>3. \A w \in Workers : pc[w] \notin {"down", "idle"} => running[w] \in Cases
      BY DEF Init, Processes
    <3>4. pc \in [Processes -> {"down", "check", "create", "seed", "add", "up", "idle", "failed"}
                             \cup TxnPC]
      BY DEF Init
    <3> QED BY <3>1, <3>2, <3>3, <3>4, ExperimentAssumption DEF Init, TypeOK
  <2>2. RowsLocked /\ FoundIsTrue
    BY DEF Init, RowsLocked, FoundIsTrue, Processes, TxnPC
  <2>3. OneAssignmentPerCase /\ ArmsRecorded
    BY DEF Init, OneAssignmentPerCase, ArmsRecorded
  <2>4. ArmsDrawn /\ ExperimentFirst
    BY ExperimentAssumption DEF Init, ArmsDrawn, ExperimentFirst, Processes
  <2> QED BY <2>1, <2>2, <2>3, <2>4 DEF ExperimentInv
<1>2. ExperimentInv /\ [Next]_vars => ExperimentInv'
  BY ExperimentTypes, LocksKept, FoundKept, OneAssignmentKept, ArmsRecordedKept,
     ArmsDrawnKept, ExperimentKept DEF ExperimentInv
<1> QED BY <1>1, <1>2, PTL DEF Spec

(* Settings, rows, assignments and the locals of every process keep their  *)
(* types, and a worker in a run has the case it runs: no crash, stop or    *)
(* rollback leaves one without (worker._persist_result).                   *)
THEOREM ExperimentTypeCorrect == Spec => []TypeOK
<1>1. ExperimentInv => TypeOK
  BY DEF ExperimentInv
<1> QED BY <1>1, ExperimentInvariant, PTL

(* No case ever has two assignments: the row's lock serialises the runs    *)
(* that look for one before they insert theirs (worker._persist_result).   *)
THEOREM AssignedOnce == Spec => []OneAssignmentPerCase
<1>1. ExperimentInv => OneAssignmentPerCase
  BY DEF ExperimentInv
<1> QED BY <1>1, ExperimentInvariant, PTL

(* An unmoved case keeps its arm through redeployments, retries and copies *)
(* of its id (assign_experiment_arm, worker._persist_result).              *)
THEOREM ArmIsStable == Spec => []UnmovedCaseKeepsArm
<1>1. ExperimentInv => UnmovedCaseKeepsArm
  <2> SUFFICES ASSUME ExperimentInv, NEW c \in Cases, NEW p \in deployed,
                      \A q \in deployed : ArmOf(c, q) = ArmOf(c, p)
               PROVE  /\ arm[c] \in {None, ArmOf(c, p)}
                      /\ \A i \in DOMAIN assigned[c] : assigned[c][i] = ArmOf(c, p)
    BY DEF UnmovedCaseKeepsArm
  <2>1. Drawn(c) = {ArmOf(c, p)}
    BY DEF Drawn
  <2>2. assigned[c] \in Seq(Arm)
    BY DEF ExperimentInv, TypeOK
  <2>3. DOMAIN assigned[c] = 1..Len(assigned[c])
    BY <2>2
  <2> QED BY <2>1, <2>3 DEF ExperimentInv, ArmsRecorded
<1> QED BY <1>1, ExperimentInvariant, PTL

LEMMA DisjointUnion ==
    ASSUME NEW A, NEW B, IsFiniteSet(A), IsFiniteSet(B), A \cap B = {}
    PROVE  Cardinality(A \cup B) = Cardinality(A) + Cardinality(B)
<1>1. Cardinality(A \cup B) = Cardinality(A) + Cardinality(B) - Cardinality(A \cap B)
  BY FS_Union
<1>2. Cardinality(A \cap B) = 0
  BY FS_EmptySet
<1>3. Cardinality(A) \in Nat /\ Cardinality(B) \in Nat
  BY FS_CardinalityType
<1> QED BY <1>1, <1>2, <1>3

(* The results' totals count every case with a recorded assignment once    *)
(* (experiment_results), for any number of workers, copies and failures.   *)
THEOREM ResultsAreComplete == Spec => []ResultsCoverAssignments
<1>1. ExperimentInv => ResultsCoverAssignments
  <2> SUFFICES ASSUME ExperimentInv PROVE ResultsCoverAssignments
    OBVIOUS
  <2> DEFINE C == {c \in Cases : arm[c] = "control"}
             T == {c \in Cases : arm[c] = "treatment"}
             D == {c \in Cases : assigned[c] # <<>>}
  <2>1. C \cap T = {}
    OBVIOUS
  <2>2. C \cup T = D
    BY ExperimentAssumption DEF ExperimentInv, TypeOK, ArmsRecorded, Arm
  <2>3. IsFiniteSet(C) /\ IsFiniteSet(T)
    BY ExperimentAssumption, FS_Subset
  <2>4. Cardinality(C \cup T) = Cardinality(C) + Cardinality(T)
    BY <2>1, <2>3, DisjointUnion
  <2> QED BY <2>2, <2>4 DEF ResultsCoverAssignments, ArmTotal
<1> QED BY <1>1, ExperimentInvariant, PTL

(* A run that comes to insert an assignment finds the experiment it        *)
(* refers to (lifespan, worker._persist_result).                           *)
THEOREM ExperimentPrecedesRuns == Spec => []ExperimentIsThere
<1>1. ExperimentInv => ExperimentIsThere
  BY DEF ExperimentInv, ExperimentFirst, ExperimentIsThere, TypeOK, TxnPC
<1> QED BY <1>1, ExperimentInvariant, PTL
=============================================================================
