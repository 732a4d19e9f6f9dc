------------------------- MODULE ExperimentAssignment -------------------------
(***************************************************************************)
(* The experiment a recovery case belongs to: the API's startup that       *)
(* creates the tables and the default experiment (api/main.py), the run    *)
(* of the worker that draws the arm and records it                         *)
(* (agents/experiment_node.py, experiments/assignment.py, worker.py), and  *)
(* what the results count.                                                 *)
(*                                                                         *)
(* Every process reads EXPERIMENT_VARIANT_PCT once, when it starts; a      *)
(* redeployment changes the variable and replaces the processes one by     *)
(* one.  A case's id may be queued any number of times (WebhookIntake,     *)
(* RecoveryPipeline), so a worker may take any case that has a row.        *)
(***************************************************************************)
EXTENDS Integers, Sequences, FiniteSets

CONSTANTS
    Apis, Workers, Cases, None,
    Bucket,         \* case -> its MD5 bucket
    Settings,       \* the values EXPERIMENT_VARIANT_PCT may be given
    FirstSetting,   \* the one it starts with
    MaxDeploys,     \* bound on changes of it
    MaxStops        \* bound on processes that stop

Processes == Apis \cup Workers
Arm == {"control", "treatment"}
(* A case as it was inserted, or with the status a run has left, which may *)
(* be failed.                                                              *)
Status == {"detected", "ended"}

ASSUME ExperimentAssumption ==
    /\ Apis \cap Workers = {} /\ IsFiniteSet(Cases)
    /\ None \notin Arm \cup Status \cup Cases \cup Int
    /\ Bucket \in [Cases -> 0..99]
    /\ Settings \subseteq Int /\ FirstSetting \in Settings
    /\ MaxDeploys \in Nat /\ MaxStops \in Nat

VARIABLES
    setting,      \* EXPERIMENT_VARIANT_PCT in the environment
    deployed,     \* history: every value it has had
    loaded,       \* process -> the value in its cached settings
    schema,       \* whether the database has the tables
    experiment,   \* variant_split_pct of the row recovery_agent_v1, or None
    status, arm,  \* case -> those columns of its row; status None: no row
    assigned,     \* case -> the arms of its experiment_assignments rows
    pc,           \* process -> where it is
    running,      \* worker -> the case of its run
    drawn,        \* worker -> the arm its run has drawn
    found,        \* the workers whose run has found an assignment
    deploys, stops

environment == <<setting, deployed, deploys>>
tables == <<schema, experiment, status, arm, assigned>>
job == <<running, drawn, found>>
vars == <<environment, loaded, tables, pc, job, stops>>

Init ==
    /\ setting = FirstSetting /\ deployed = {FirstSetting}
    /\ loaded = [p \in Processes |-> FirstSetting]
    /\ schema = FALSE /\ experiment = None
    /\ status = [c \in Cases |-> None] /\ arm = [c \in Cases |-> None]
    /\ assigned = [c \in Cases |-> <<>>]
    /\ pc = [p \in Processes |-> "down"]
    /\ running = [w \in Workers |-> None]
    /\ drawn = [w \in Workers |-> None] /\ found = {}
    /\ deploys = 0 /\ stops = 0

Goto(p, label) == pc' = [pc EXCEPT ![p] = label]
(* What a process knew of its run is gone.                                 *)
Forget(p) == /\ running' = [w \in Workers |-> IF w = p THEN None ELSE running[w]]
             /\ drawn' = [w \in Workers |-> IF w = p THEN None ELSE drawn[w]]
             /\ found' = found \ {p}
Finish(w) == Goto(w, "idle") /\ Forget(w)

-----------------------------------------------------------------------------
Redeploy ==
    /\ deploys < MaxDeploys /\ deploys' = deploys + 1
    /\ setting' \in Settings \ {setting}
    /\ deployed' = deployed \cup {setting'}
    /\ UNCHANGED <<loaded, tables, pc, job, stops>>

Start(p) ==
    /\ pc[p] = "down"
    /\ loaded' = [loaded EXCEPT ![p] = setting]
    /\ Goto(p, IF p \in Apis THEN "check" ELSE "idle")
    /\ UNCHANGED <<environment, tables, job, stops>>

(* A process dies or is replaced; its transaction is rolled back.          *)
Stop(p) ==
    /\ pc[p] # "down" /\ stops < MaxStops /\ stops' = stops + 1
    /\ Goto(p, "down") /\ Forget(p)
    /\ UNCHANGED <<environment, loaded, tables>>

-----------------------------------------------------------------------------
(* create_all asks which tables are there, then creates the missing ones   *)
(* in one transaction.                                                     *)
CheckTables(a) ==
    /\ pc[a] = "check"
    /\ Goto(a, IF schema THEN "seed" ELSE "create")
    /\ UNCHANGED <<environment, loaded, tables, job, stops>>

CreateTables(a) ==
    /\ pc[a] = "create" /\ ~schema
    /\ schema' = TRUE
    /\ Goto(a, "seed")
    /\ UNCHANGED <<environment, loaded, experiment, status, arm, assigned, job, stops>>

(* Another process was faster: CREATE TABLE fails and the startup with it. *)
TablesTaken(a) ==
    /\ pc[a] = "create" /\ schema
    /\ Goto(a, "down")
    /\ UNCHANGED <<environment, loaded, tables, job, stops>>

\* Mutant: the default experiment is always inserted.
SelectNothing(a) ==
    /\ pc[a] = "seed"
    /\ Goto(a, "add")
    /\ UNCHANGED <<environment, loaded, tables, job, stops>>
(* _create_default_experiment looks for the row before it adds it.         *)
SelectExperiment(a) ==
    /\ pc[a] = "seed"
    /\ Goto(a, IF experiment = None THEN "add" ELSE "up")
    /\ UNCHANGED <<environment, loaded, tables, job, stops>>

\* Mutant: the startup does not commit.
AddUncommitted(a) ==
    /\ pc[a] = "add" /\ experiment = None
    /\ Goto(a, "up")
    /\ UNCHANGED <<environment, loaded, tables, job, stops>>
AddExperiment(a) ==
    /\ pc[a] = "add" /\ experiment = None
    /\ experiment' = loaded[a]
    /\ Goto(a, "up")
    /\ UNCHANGED <<environment, loaded, schema, status, arm, assigned, job, stops>>

(* Likewise if the row is there by then: UNIQUE fails.                     *)
ExperimentTaken(a) ==
    /\ pc[a] = "add" /\ experiment # None
    /\ Goto(a, "down")
    /\ UNCHANGED <<environment, loaded, tables, job, stops>>

(* The webhook handler or a simulated batch; only a started API serves.    *)
CreateCase(a, c) ==
    /\ pc[a] = "up" /\ status[c] = None
    /\ status' = [status EXCEPT ![c] = "detected"]
    /\ UNCHANGED <<environment, loaded, schema, experiment, arm, assigned, pc, job, stops>>

-----------------------------------------------------------------------------
TxnPC == {"assign", "graph", "insert"}
\* Mutant: the run's first UPDATE is not flushed before the graph.
RowNeverLocked(c) == TRUE
RowFree(c) == \A w \in Workers : running[w] = c => pc[w] \notin TxnPC

(* The id is popped, the row is found, and the run's first UPDATE waits    *)
(* for the row's lock.                                                     *)
Take(w, c) ==
    /\ pc[w] = "idle" /\ status[c] # None /\ RowFree(c)
    /\ running' = [running EXCEPT ![w] = c]
    /\ Goto(w, "assign")
    /\ UNCHANGED <<environment, loaded, tables, drawn, found, stops>>

ArmOf(c, pct) == IF Bucket[c] < pct THEN "treatment" ELSE "control"

\* Mutant: the bucket comes from Python's hash(), salted in every process.
AssignSalted(w) ==
    /\ pc[w] = "assign" /\ loaded[w] \in 0..100
    /\ \E a \in Arm : drawn' = [drawn EXCEPT ![w] = a]
    /\ Goto(w, "graph")
    /\ UNCHANGED <<environment, loaded, tables, running, found, stops>>
AssignExperiment(w) ==
    /\ pc[w] = "assign" /\ loaded[w] \in 0..100
    /\ drawn' = [drawn EXCEPT ![w] = ArmOf(running[w], loaded[w])]
    /\ Goto(w, "graph")
    /\ UNCHANGED <<environment, loaded, tables, running, found, stops>>

\* Mutant: the run's case is gone when its failure is handled.
RunForgotten(w) ==
    /\ \/ pc[w] = "assign" /\ loaded[w] \notin 0..100
       \/ pc[w] \in {"graph", "insert"}
    /\ Goto(w, "failed")
    /\ Forget(w)
    /\ UNCHANGED <<environment, loaded, tables, stops>>
(* variant_pct is out of range, a later node raises, or the database does, *)
(* as it must when experiment_id references a row that is not there.       *)
RunFails(w) ==
    /\ \/ pc[w] = "assign" /\ loaded[w] \notin 0..100
       \/ pc[w] \in {"graph", "insert"}
    /\ Goto(w, "failed")
    /\ UNCHANGED <<environment, loaded, tables, job, stops>>

(* _persist_result: look for an assignment, whatever its arm.              *)
SelectAssignment(w) ==
    /\ pc[w] = "graph"
    /\ found' = IF assigned[running[w]] = <<>> THEN found ELSE found \cup {w}
    /\ Goto(w, "insert")
    /\ UNCHANGED <<environment, loaded, tables, running, drawn, stops>>

(* The run commits its arm, and an assignment if it had found none.        *)
Commit(w) ==
    LET c == running[w] IN
    /\ pc[w] = "insert" /\ (w \in found \/ experiment # None)
    /\ status' = [status EXCEPT ![c] = "ended"]
    /\ arm' = [arm EXCEPT ![c] = drawn[w]]
    /\ assigned' = IF w \in found THEN assigned
                   ELSE [assigned EXCEPT ![c] = Append(@, drawn[w])]
    /\ Finish(w)
    /\ UNCHANGED <<environment, loaded, schema, experiment, stops>>

\* Mutant: the failing run is not rolled back first.
RecordUnrolled(w) ==
    /\ pc[w] = "failed" /\ RowFree(running[w])
    /\ status' = [status EXCEPT ![running[w]] = "ended"]
    /\ arm' = [arm EXCEPT ![running[w]] = drawn[w]]
    /\ Finish(w)
    /\ UNCHANGED <<environment, loaded, schema, experiment, assigned, stops>>
RecordFailure(w) ==
    /\ pc[w] = "failed" /\ RowFree(running[w])
    /\ status' = [status EXCEPT ![running[w]] = "ended"]
    /\ Finish(w)
    /\ UNCHANGED <<environment, loaded, schema, experiment, arm, assigned, stops>>

-----------------------------------------------------------------------------
ApiStep(a) == \/ CheckTables(a) \/ CreateTables(a) \/ TablesTaken(a)
              \/ SelectExperiment(a) \/ AddExperiment(a) \/ ExperimentTaken(a)

WorkerStep(w) ==
    \/ \E c \in Cases : Take(w, c)
    \/ AssignExperiment(w) \/ RunFails(w)
    \/ SelectAssignment(w) \/ Commit(w) \/ RecordFailure(w)

Next ==
    \/ Redeploy
    \/ \E p \in Processes : Start(p) \/ Stop(p)
    \/ \E a \in Apis : ApiStep(a) \/ \E c \in Cases : CreateCase(a, c)
    \/ \E w \in Workers : WorkerStep(w)

Spec == Init /\ [][Next]_vars

(* render.yaml's service is started again when it ends, and a startup runs *)
(* on.                                                                     *)
FairSpec == /\ Spec
            /\ \A a \in Apis : WF_vars(Start(a)) /\ WF_vars(ApiStep(a))

-----------------------------------------------------------------------------
(* Tables, settings and locals have their types.                           *)
TypeOK ==
    /\ setting \in Settings /\ deployed \subseteq Settings
    /\ loaded \in [Processes -> Settings]
    /\ schema \in BOOLEAN /\ experiment \in Settings \cup {None}
    /\ status \in [Cases -> Status \cup {None}]
    /\ arm \in [Cases -> Arm \cup {None}]
    /\ assigned \in [Cases -> Seq(Arm)]
    /\ pc \in [Processes -> {"down", "check", "create", "seed", "add", "up", "idle", "failed"}
                           \cup TxnPC]
    /\ running \in [Workers -> Cases \cup {None}]
    /\ drawn \in [Workers -> Arm \cup {None}] /\ found \subseteq Workers
    /\ \A w \in Workers : pc[w] \notin {"down", "idle"} => running[w] \in Cases
    /\ deploys \in Nat /\ stops \in Nat

(* experiment_assignments has no unique constraint on the case: only the   *)
(* row lock a run holds from its first update to its commit keeps two      *)
(* copies of an id from inserting two assignments (_persist_result).       *)
OneAssignmentPerCase == \A c \in Cases : Len(assigned[c]) <= 1

(* A case that no change of EXPERIMENT_VARIANT_PCT moved across the split  *)
(* has one arm, in its own row and in its assignment, whatever mix of old  *)
(* and new processes ran it (assign_experiment_arm).                       *)
UnmovedCaseKeepsArm ==
    \A c \in Cases, p \in deployed :
        (\A q \in deployed : ArmOf(c, q) = ArmOf(c, p)) =>
            /\ arm[c] \in {None, ArmOf(c, p)}
            /\ \A i \in DOMAIN assigned[c] : assigned[c][i] = ArmOf(c, p)

(* The results count a case, in either arm, exactly if an assignment of it *)
(* is recorded, however its runs failed, crashed or overlapped             *)
(* (experiment_results).                                                   *)
ArmTotal(a) == Cardinality({c \in Cases : arm[c] = a})
ResultsCoverAssignments ==
    ArmTotal("control") + ArmTotal("treatment")
        = Cardinality({c \in Cases : assigned[c] # <<>>})

(* No run fails for want of the experiment: a case exists only after       *)
(* some API process has committed it (lifespan).                           *)
ExperimentIsThere ==
    \A w \in Workers : pc[w] = "insert" => experiment # None

(* Every API process is up in the end, also when several start at once     *)
(* against an empty database.                                              *)
ApiComesUp == \A a \in Apis : <>[](pc[a] = "up")
=============================================================================
