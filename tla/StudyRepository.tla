--------------------------- MODULE StudyRepository ---------------------------
(***************************************************************************)
(* The SQLite study store (sqlite_repository.py) and the processes that    *)
(* use it: the commands `run`, `compare` and `optimize`, which persist a   *)
(* study with three calls, save_experiment, save_plan and                  *)
(* save_execution_result, and the callers of the query and delete API.     *)
(*                                                                         *)
(* Every call reads on one connection and then writes in one transaction,  *)
(* so a call is two or three actions of its caller, and the actions of     *)
(* different callers interleave.  A transaction is one action: SQLite lets *)
(* one writer in at a time and rolls back what an exception or a crash     *)
(* leaves behind.                                                          *)
(*                                                                         *)
(* A table is a sequence, because rows are only ever appended; the UUID of *)
(* a row is its position, and 0 is "no row".  Allocation and withdrawal    *)
(* policies are stored by the same code, and one of the two kinds is       *)
(* modelled.                                                               *)
(***************************************************************************)
EXTENDS Naturals, Sequences, FiniteSets

CONSTANTS
    Clients,     \* processes that open the database
    Studies,     \* the built studies a command may be started with
    Codec,       \* policy |-> the (type, canonical parameters) it is stored as
    NoStudy,     \* the study of an operation that has none
    MaxRetries,  \* _retry_on_lock: attempts at a transaction
    MaxRuns,     \* bound: operations started, by all clients
    MaxCrashes   \* bound: processes killed between two actions

(***************************************************************************)
(* A study as build_study_plan makes it: the natural identity (name and    *)
(* revision), the scalar columns of the experiment (the horizon apart from *)
(* the others), its policies in index order, its cohort start dates, and   *)
(* the units of its plan, materialised from the experiment's own cohorts.  *)
(***************************************************************************)
Unit == [cohort : UNION {s.cohorts : s \in Studies},
         policy : DOMAIN Codec,
         horizon : Nat]

ASSUME StudiesAssumption ==
    /\ NoStudy \notin Studies
    /\ \A s \in Studies :
        /\ s.policies \in Seq(DOMAIN Codec) /\ s.policies # <<>>
        /\ s.horizon \in Nat
        /\ s.units \in Seq(Unit) /\ s.units # <<>>
        /\ \A u \in DOMAIN s.units : s.units[u].cohort \in s.cohorts

ASSUME BoundsAssumption ==
    /\ MaxRetries \in Nat \ {0}
    /\ MaxRuns \in Nat
    /\ MaxCrashes \in Nat

VARIABLES
    experiments,          \* experiments: the columns that are never updated
    experiment_policies,  \* experiment id |-> its (index |-> stored policy)
    cohorts,              \* experiment id |-> its cohort start dates
    deletedExperiments,   \* experiments whose deleted_at is set
    plans,                \* research_plans with their planned_units
    completed,            \* plans whose status is "completed", not "planned"
    deletedPlans,         \* plans whose deleted_at is set
    results,              \* execution_results with their simulation_results
    pc,                   \* what each client does next
    study,                \* the study its operation was started with
    experiment_id,        \* the ids its operation has found or made
    plan_id,
    result_id,
    outcome,              \* how its last operation ended
    attempts,             \* attempts its transaction has lost to a lock
    runs,                 \* operations started so far
    crashes               \* processes killed so far

experimentTables == <<experiments, experiment_policies, cohorts, deletedExperiments>>
planTables == <<plans, completed, deletedPlans>>
tables == <<experimentTables, planTables, results>>
locals == <<study, experiment_id, plan_id, result_id>>
bounds == <<runs, crashes>>
vars == <<tables, locals, pc, outcome, attempts, bounds>>

(***************************************************************************)
(* Stored form of an experiment.                                           *)
(***************************************************************************)

\* INSERT OR IGNORE of the policies in index order: UNIQUE(experiment_id,
\* policy_id, policy_kind) keeps the first association of every stored policy.
PolicyRows(policies) ==
    LET stored(i) == Codec[policies[i + 1]]
        kept == {i \in 0 .. Len(policies) - 1 :
                     \A j \in 0 .. i - 1 : stored(j) # stored(i)}
    IN  [i \in kept |-> stored(i)]

\* SELECT ... ORDER BY policy_index.
InIndexOrder(rows) ==
    [k \in 1 .. Cardinality(DOMAIN rows) |->
        rows[CHOOSE i \in DOMAIN rows :
                Cardinality({j \in DOMAIN rows : j < i}) = k - 1]]

\* _experiment_snapshot_from_rows: what a stored experiment deterministically is.
StoredSnapshot(e) ==
    [identity |-> experiments[e].identity,
     config   |-> experiments[e].config,
     horizon  |-> experiments[e].horizon,
     policies |-> InIndexOrder(experiment_policies[e]),
     cohorts  |-> cohorts[e]]

\* _experiment_snapshot_from_object: the same of a study about to be saved.
IncomingSnapshot(s) ==
    [identity |-> s.identity,
     config   |-> s.config,
     horizon  |-> s.horizon,
     policies |-> [k \in DOMAIN s.policies |-> Codec[s.policies[k]]],
     cohorts  |-> s.cohorts]

\* Mutant: the scalar columns are not compared.
EquivalentPolicies(s, e) == IncomingSnapshot(s).policies = StoredSnapshot(e).policies

\* Mutant: the identity alone is evidence of equivalence.
EquivalentIdentity(s, e) == s.identity = experiments[e].identity

SemanticallyEquivalent(s, e) == IncomingSnapshot(s) = StoredSnapshot(e)

\* Mutant: deleted rows do not take part in the uniqueness of identities.
ActiveRowsOf(identity) ==
    {e \in DOMAIN experiments \ deletedExperiments :
        experiments[e].identity = identity}

\* The row of an identity, UNIQUE(name, revision); 0 if there is none.
RowsOf(identity) == {e \in DOMAIN experiments : experiments[e].identity = identity}
RowOf(identity) == IF RowsOf(identity) = {} THEN 0
                   ELSE CHOOSE e \in RowsOf(identity) : TRUE

\* load_experiment and the WHERE deleted_at IS NULL of the query API.
Active(e) == e \in DOMAIN experiments \ deletedExperiments

\* execution_results row of a plan; find_result_by_plan.
ResultsOf(p) == {r \in DOMAIN results : results[r].plan = p}
find_result_by_plan(p) == IF ResultsOf(p) = {} THEN 0
                          ELSE CHOOSE r \in ResultsOf(p) : TRUE

\* find_plan_by_experiment: the newest completed plan that is not deleted.
\* Newest is by created_at, which a process takes just before its INSERT asks
\* for the write lock (BEGIN DEFERRED): two that wait for each other may commit
\* in the other order.  `list` orders by the same column, so that it is their
\* common order that matters, and the model takes it to be that of the rows.
PlansOf(e) ==  \* Mutant: without the status.
    {p \in DOMAIN plans \ deletedPlans : plans[p].experiment = e}
CompletedPlans(e) ==
    {p \in completed \ deletedPlans : plans[p].experiment = e}
OldestPlan(e) ==  \* Mutant: ORDER BY created_at without DESC.
    LET oldest == {p \in CompletedPlans(e) : \A q \in CompletedPlans(e) : p <= q}
    IN  IF oldest = {} THEN 0 ELSE CHOOSE p \in oldest : TRUE
find_plan_by_experiment(e) ==
    LET newest == {p \in CompletedPlans(e) : \A q \in CompletedPlans(e) : q <= p}
    IN  IF newest = {} THEN 0 ELSE CHOOSE p \in newest : TRUE

\* `list`: the newest plan of an experiment, completed or not, that is not
\* deleted, whose status and unit count are shown.
ListedPlan(e) ==
    LET newest == {p \in PlansOf(e) : \A q \in PlansOf(e) : q <= p}
    IN  IF newest = {} THEN 0 ELSE CHOOSE p \in newest : TRUE

-----------------------------------------------------------------------------
(***************************************************************************)
(* Clients.                                                                *)
(***************************************************************************)

Goto(c, label) == pc' = [pc EXCEPT ![c] = label] /\ UNCHANGED outcome

Finish(c, how) ==
    /\ pc' = [pc EXCEPT ![c] = "idle"]
    /\ outcome' = [outcome EXCEPT ![c] = how]

\* A transaction that commits ends the retry loop it ran in.
Committed(c) == attempts' = [attempts EXCEPT ![c] = 0]

\* A client starts an operation, one of at most MaxRuns.
Begin(c, label, s, e, p) ==
    /\ pc[c] = "idle"
    /\ runs < MaxRuns
    /\ runs' = runs + 1
    /\ pc' = [pc EXCEPT ![c] = label]
    /\ outcome' = [outcome EXCEPT ![c] = "running"]
    /\ study' = [study EXCEPT ![c] = s]
    /\ experiment_id' = [experiment_id EXCEPT ![c] = e]
    /\ plan_id' = [plan_id EXCEPT ![c] = p]
    /\ result_id' = [result_id EXCEPT ![c] = 0]
    /\ UNCHANGED <<tables, attempts, crashes>>

\* `run` and `compare` come here with their results, `optimize` with a plan
\* it has still to execute (see ExecuteOptimalPlan).
StartPersisting(c) == \E s \in Studies : Begin(c, "save_experiment", s, 0, 0)

\* save_execution_result called on its own by the holder of a plan id.
StartSavingResult(c) ==
    \E p \in DOMAIN plans : Begin(c, "save_result", NoStudy, 0, p)

StartDeleting(c) == \E s \in Studies : Begin(c, "delete", s, 0, 0)

StartExporting(c) ==
    \E e \in DOMAIN experiments : Begin(c, "export_experiment", NoStudy, e, 0)

-----------------------------------------------------------------------------
(***************************************************************************)
(* save_experiment                                                         *)
(***************************************************************************)

\* The identity check, before any transaction.
SaveExperimentCheck(c) ==
    LET row == RowOf(study[c].identity) IN
    /\ pc[c] = "save_experiment"
    /\ \/ /\ row = 0
          /\ Goto(c, "insert_experiment")
          /\ UNCHANGED experiment_id
       \/ /\ Active(row)
          /\ Finish(c, "duplicate")
          /\ UNCHANGED experiment_id
       \/ /\ row \in deletedExperiments
          /\ Goto(c, "compare_snapshots")
          /\ experiment_id' = [experiment_id EXCEPT ![c] = row]
    /\ UNCHANGED <<tables, study, plan_id, result_id, attempts, bounds>>

\* _restore_if_semantically_equivalent, up to its transaction.
CompareSnapshots(c) ==
    /\ pc[c] = "compare_snapshots"
    /\ IF SemanticallyEquivalent(study[c], experiment_id[c])
       THEN Goto(c, "restore")
       ELSE Finish(c, "duplicate")
    /\ UNCHANGED <<tables, locals, attempts, bounds>>

\* The UPDATE clears deleted_at of the experiment, of whatever state it is in
\* by now, and of no plan.
RestoreExperiment(c) ==
    /\ pc[c] = "restore"
    /\ deletedExperiments' = deletedExperiments \ {experiment_id[c]}
    /\ Goto(c, "save_plan")
    /\ UNCHANGED <<experiments, experiment_policies, cohorts, planTables, results,
                   locals, attempts, bounds>>

\* The inserting transaction of save_experiment; UNIQUE(name, revision)
\* rejects the identity another process inserted since the check.
InsertExperiment(c) ==
    LET s == study[c] IN
    /\ pc[c] = "insert_experiment"
    /\ \/ /\ RowsOf(s.identity) # {}
          /\ Finish(c, "integrity_error")
          /\ UNCHANGED <<experiments, experiment_policies, cohorts, experiment_id>>
       \/ /\ RowsOf(s.identity) = {}
          /\ experiments' = Append(experiments,
                [identity |-> s.identity, config |-> s.config, horizon |-> s.horizon])
          /\ experiment_policies' = Append(experiment_policies, PolicyRows(s.policies))
          /\ cohorts' = Append(cohorts, s.cohorts)
          /\ experiment_id' = [experiment_id EXCEPT ![c] = Len(experiments) + 1]
          /\ Goto(c, "save_plan")
    /\ Committed(c)
    /\ UNCHANGED <<deletedExperiments, planTables, results, study, plan_id, result_id,
                   bounds>>

(***************************************************************************)
(* save_plan                                                               *)
(***************************************************************************)

\* "Verify experiment exists": load_experiment, on its own connection.
SavePlanCheck(c) ==
    /\ pc[c] = "save_plan"
    /\ IF Active(experiment_id[c])
       THEN Goto(c, "insert_plan")
       ELSE Finish(c, "not_found")
    /\ UNCHANGED <<tables, locals, attempts, bounds>>

\* Mutant: INSERT OR REPLACE.
ReplaceUnitPolicies(rows, units) ==
    [i \in DOMAIN rows \cup {0} |->
        IF i = 0 THEN Codec[units[1].policy] ELSE rows[i]]

\* _save_unit associates the policies of the units at index 0: the primary
\* key (experiment_id, policy_kind, policy_index) ignores them when the
\* experiment has a policy there.
AssociateUnitPolicies(rows, units) ==
    IF 0 \in DOMAIN rows THEN rows
    ELSE [i \in DOMAIN rows \cup {0} |->
             IF i = 0 THEN Codec[units[1].policy] ELSE rows[i]]

\* planned_units: unit_index is the position; the horizon has no column.
UnitRows(units) ==
    [u \in DOMAIN units |-> [cohort |-> units[u].cohort,
                             policy |-> Codec[units[u].policy]]]

\* The inserting transaction; _get_or_create_cohort_id adds the cohorts the
\* experiment does not have.
InsertPlan(c) ==
    LET s == study[c]
        e == experiment_id[c]
    IN
    /\ pc[c] = "insert_plan"
    /\ experiment_policies' =
            [experiment_policies EXCEPT ![e] = AssociateUnitPolicies(@, s.units)]
    /\ cohorts' =
            [cohorts EXCEPT ![e] = @ \cup {s.units[u].cohort : u \in DOMAIN s.units}]
    /\ plans' = Append(plans, [experiment |-> e, units |-> UnitRows(s.units)])
    /\ plan_id' = [plan_id EXCEPT ![c] = Len(plans) + 1]
    /\ Goto(c, IF s.command = "optimize" THEN "execute" ELSE "save_result")
    /\ Committed(c)
    /\ UNCHANGED <<experiments, deletedExperiments, completed, deletedPlans, results,
                   study, experiment_id, result_id, bounds>>

\* `optimize` executes the optimal plan between save_plan and
\* save_execution_result; a failure leaves the plan without a result.
ExecuteOptimalPlan(c) ==
    /\ pc[c] = "execute"
    /\ \/ Goto(c, "save_result")
       \/ Finish(c, "execution_failed")
    /\ UNCHANGED <<tables, locals, attempts, bounds>>

(***************************************************************************)
(* save_execution_result                                                   *)
(***************************************************************************)

\* The status check, before the transaction.
SaveResultCheck(c) ==
    /\ pc[c] = "save_result"
    /\ IF plan_id[c] \in completed
       THEN Finish(c, "already_completed")
       ELSE Goto(c, "insert_result")
    /\ UNCHANGED <<tables, locals, attempts, bounds>>

\* Mutant: plan_id is not unique in execution_results.
NoResultExists(p) == FALSE

\* UNIQUE(plan_id) of execution_results.
ResultExists(p) == ResultsOf(p) # {}

\* A result has a simulation for every unit of the plan it was executed from:
\* the plan a command has in hand, or the one the holder of an id has loaded
\* (ResearchExecutionResult refuses others).
TotalUnits(c) == IF study[c] = NoStudy THEN Len(plans[plan_id[c]].units)
                 ELSE Len(study[c].units)

\* One transaction: status, execution_results row and all simulation rows.
InsertResult(c) ==
    LET p == plan_id[c] IN
    /\ pc[c] = "insert_result"
    /\ \/ /\ ResultExists(p)
          /\ Finish(c, "integrity_error")
          /\ UNCHANGED <<completed, results, result_id>>
       \/ /\ ~ResultExists(p)
          /\ completed' = completed \cup {p}
          /\ results' = Append(results, [plan |-> p, total_units |-> TotalUnits(c)])
          /\ result_id' = [result_id EXCEPT ![c] = Len(results) + 1]
          /\ Finish(c, "persisted")
    /\ Committed(c)
    /\ UNCHANGED <<experimentTables, plans, deletedPlans, study, experiment_id, plan_id,
                   bounds>>

(***************************************************************************)
(* logical_delete_experiment and get_export_data                           *)
(***************************************************************************)

\* One transaction marks the experiment and every plan it has.
LogicalDelete(c) ==
    LET row == RowOf(study[c].identity) IN
    /\ pc[c] = "delete"
    /\ \/ /\ row = 0
          /\ Finish(c, "not_found")
          /\ UNCHANGED <<deletedExperiments, deletedPlans>>
       \/ /\ row # 0
          /\ deletedExperiments' = deletedExperiments \cup {row}
          /\ deletedPlans' = deletedPlans \cup
                {p \in DOMAIN plans : plans[p].experiment = row}
          /\ Finish(c, "deleted")
    /\ UNCHANGED <<experiments, experiment_policies, cohorts, plans, completed, results,
                   locals, attempts, bounds>>

\* get_export_data reads the experiment, the plan (on a second connection)
\* and the result with a query each, in no transaction.
ExportExperiment(c) ==
    /\ pc[c] = "export_experiment"
    /\ IF Active(experiment_id[c])
       THEN Goto(c, "export_plan")
       ELSE Finish(c, "nothing")
    /\ UNCHANGED <<tables, locals, attempts, bounds>>

ExportPlan(c) ==
    LET p == find_plan_by_experiment(experiment_id[c]) IN
    /\ pc[c] = "export_plan"
    /\ plan_id' = [plan_id EXCEPT ![c] = p]
    /\ IF p = 0 THEN Finish(c, "nothing") ELSE Goto(c, "export_result")
    /\ UNCHANGED <<tables, study, experiment_id, result_id, attempts, bounds>>

\* Mutant: the result is looked up by experiment, not by the plan read before.
NewestResult(c) == find_result_by_plan(find_plan_by_experiment(experiment_id[c]))

ExportedResult(c) == find_result_by_plan(plan_id[c])

ExportResult(c) ==
    LET r == ExportedResult(c) IN
    /\ pc[c] = "export_result"
    /\ result_id' = [result_id EXCEPT ![c] = r]
    /\ Finish(c, IF r = 0 THEN "nothing" ELSE "exported")
    /\ UNCHANGED <<tables, study, experiment_id, plan_id, attempts, bounds>>

-----------------------------------------------------------------------------
(***************************************************************************)
(* Locks and crashes.                                                      *)
(***************************************************************************)

Retrying == {"insert_experiment", "insert_plan", "insert_result"}
Writing == Retrying \cup {"restore", "delete"}

\* Mutant: one attempt too many.
RetriesLeftOffByOne(c) == pc[c] \in Retrying /\ attempts[c] < MaxRetries

RetriesLeft(c) == pc[c] \in Retrying /\ attempts[c] + 1 < MaxRetries

\* Mutant: `while True` instead of the bounded loop.
DatabaseLockedForever(c) ==
    /\ pc[c] \in Writing
    /\ attempts' = [attempts EXCEPT ![c] = (@ + 1) % MaxRetries]
    /\ UNCHANGED <<tables, locals, pc, outcome, bounds>>

\* "database is locked": _retry_on_lock tries the insertions MaxRetries times
\* in all; the two UPDATE-only transactions are tried once.
DatabaseLocked(c) ==
    /\ pc[c] \in Writing
    /\ IF RetriesLeft(c)
       THEN /\ attempts' = [attempts EXCEPT ![c] = @ + 1]
            /\ UNCHANGED <<pc, outcome>>
       ELSE /\ attempts' = [attempts EXCEPT ![c] = 0]
            /\ Finish(c, "locked")
    /\ UNCHANGED <<tables, locals, bounds>>

\* The process dies between two actions; its locals are gone, its committed
\* transactions stay.
Crash(c) ==
    /\ pc[c] # "idle"
    /\ crashes < MaxCrashes
    /\ crashes' = crashes + 1
    /\ Finish(c, "crashed")
    /\ study' = [study EXCEPT ![c] = NoStudy]
    /\ experiment_id' = [experiment_id EXCEPT ![c] = 0]
    /\ plan_id' = [plan_id EXCEPT ![c] = 0]
    /\ result_id' = [result_id EXCEPT ![c] = 0]
    /\ attempts' = [attempts EXCEPT ![c] = 0]
    /\ UNCHANGED <<tables, runs>>

-----------------------------------------------------------------------------

Init ==
    /\ experiments = <<>> /\ experiment_policies = <<>> /\ cohorts = <<>>
    /\ plans = <<>> /\ results = <<>>
    /\ deletedExperiments = {} /\ deletedPlans = {} /\ completed = {}
    /\ pc = [c \in Clients |-> "idle"]
    /\ outcome = [c \in Clients |-> "none"]
    /\ study = [c \in Clients |-> NoStudy]
    /\ experiment_id = [c \in Clients |-> 0]
    /\ plan_id = [c \in Clients |-> 0]
    /\ result_id = [c \in Clients |-> 0]
    /\ attempts = [c \in Clients |-> 0]
    /\ runs = 0 /\ crashes = 0

Start(c) ==
    \/ StartPersisting(c)
    \/ StartSavingResult(c)
    \/ StartDeleting(c)
    \/ StartExporting(c)

Step(c) ==
    \/ SaveExperimentCheck(c)
    \/ CompareSnapshots(c)
    \/ RestoreExperiment(c)
    \/ InsertExperiment(c)
    \/ SavePlanCheck(c)
    \/ InsertPlan(c)
    \/ ExecuteOptimalPlan(c)
    \/ SaveResultCheck(c)
    \/ InsertResult(c)
    \/ LogicalDelete(c)
    \/ ExportExperiment(c)
    \/ ExportPlan(c)
    \/ ExportResult(c)
    \/ DatabaseLocked(c)

Next == \E c \in Clients : Start(c) \/ Step(c) \/ Crash(c)

\* A process that has begun an operation keeps running it; it need not start
\* another one, and it never has to crash.
Fairness == \A c \in Clients : WF_vars(Step(c))

Spec == Init /\ [][Next]_vars
FairSpec == Spec /\ Fairness
-----------------------------------------------------------------------------
(***************************************************************************)
(* Type invariant.                                                         *)
(***************************************************************************)

Identities == {s.identity : s \in Studies}
Configs == {s.config : s \in Studies}
Cohorts == UNION {s.cohorts : s \in Studies}
StoredPolicies == {Codec[p] : p \in DOMAIN Codec}
PolicyIndices == UNION {0 .. Len(s.policies) - 1 : s \in Studies}
PolicyTables == UNION {[I -> StoredPolicies] : I \in SUBSET PolicyIndices}

ExperimentRows == [identity : Identities, config : Configs, horizon : Nat]
UnitTable == Seq([cohort : Cohorts, policy : StoredPolicies])
PlanRows == [experiment : Nat, units : UnitTable]
ResultRows == [plan : Nat, total_units : Nat]

Labels == {"idle", "save_experiment", "compare_snapshots", "restore",
           "insert_experiment", "save_plan", "insert_plan", "execute",
           "save_result", "insert_result", "delete", "export_experiment",
           "export_plan", "export_result"}
Outcomes == {"none", "running", "crashed", "persisted", "duplicate",
             "not_found", "integrity_error", "already_completed", "locked",
             "execution_failed", "deleted", "nothing", "exported"}

\* Every table and every local has its type, and the columns of a table that
\* are updated belong to rows that exist.
TypeOK ==
    /\ experiments \in Seq(ExperimentRows)
    /\ experiment_policies \in Seq(PolicyTables)
    /\ cohorts \in Seq(SUBSET Cohorts)
    /\ Len(experiment_policies) = Len(experiments) /\ Len(cohorts) = Len(experiments)
    /\ deletedExperiments \subseteq DOMAIN experiments
    /\ plans \in Seq(PlanRows)
    /\ completed \subseteq DOMAIN plans
    /\ deletedPlans \subseteq DOMAIN plans
    /\ results \in Seq(ResultRows)
    /\ pc \in [Clients -> Labels]
    /\ outcome \in [Clients -> Outcomes]
    /\ study \in [Clients -> Studies \cup {NoStudy}]
    /\ experiment_id \in [Clients -> Nat]
    /\ plan_id \in [Clients -> Nat]
    /\ result_id \in [Clients -> Nat]
    /\ attempts \in [Clients -> 0 .. MaxRetries - 1]
    /\ runs \in 0 .. MaxRuns
    /\ crashes \in 0 .. MaxCrashes

(***************************************************************************)
(* Safety.                                                                 *)
(***************************************************************************)

\* A natural identity names at most one stored experiment, whatever checks
\* and insertions of several processes interleave (UNIQUE(name, revision)).
UniqueIdentity ==
    \A d, e \in DOMAIN experiments :
        experiments[d].identity = experiments[e].identity => d = e

\* A plan is completed exactly when it has a result, and it never has two,
\* although the status is checked before the transaction that inserts.
CompletedIffOneResult ==
    \A p \in DOMAIN plans :
        /\ p \in completed <=> ResultsOf(p) # {}
        /\ \A q, r \in ResultsOf(p) : q = r

\* What a command reports as persisted is in the tables: its result, of its
\* plan, with the units it executed, of an experiment that is its study.
PersistedIsStored ==
    \A c \in Clients :
        outcome[c] = "persisted" /\ study[c] # NoStudy =>
            LET s == study[c]  e == experiment_id[c]
                p == plan_id[c]  r == result_id[c]
            IN
            /\ results[r] = [plan |-> p, total_units |-> Len(s.units)]
            /\ plans[p] = [experiment |-> e, units |-> UnitRows(s.units)]
            /\ experiments[e] =
                  [identity |-> s.identity, config |-> s.config, horizon |-> s.horizon]

\* A finished export is one consistent row of the join, although it was read
\* with three queries on two connections: a completed plan of the experiment
\* asked for, and the result of that plan with one entry per planned unit.
ExportIsConsistent ==
    \A c \in Clients :
        outcome[c] = "exported" =>
            LET p == plan_id[c] IN
            /\ results[result_id[c]] = [plan |-> p, total_units |-> Len(plans[p].units)]
            /\ plans[p].experiment = experiment_id[c]

\* The branch of get_export_data for a completed plan without a result is
\* never taken: the plan it found has one by the time it asks for it.
ExportFindsTheResult ==
    \A c \in Clients : pc[c] = "export_result" => ResultsOf(plan_id[c]) # {}

\* A study that `list` shows as completed can be exported, and what is
\* exported is the plan it shows, with as many simulations as it has units:
\* the one asks for the newest plan, the other for the newest completed one.
CompletedIsExportable ==
    \A e \in DOMAIN experiments :
        Active(e) /\ ListedPlan(e) \in completed =>
            LET p == find_plan_by_experiment(e)  r == find_result_by_plan(p) IN
            /\ p = ListedPlan(e)
            /\ r # 0 /\ results[r].total_units = Len(plans[p].units)

\* The deterministic content of a stored experiment never changes: saving a
\* plan whose units have other policies than the experiment leaves it alone,
\* so that a later restore compares with what was saved.
SnapshotNeverChanges ==
    [][\A e \in DOMAIN experiments :
          /\ e \in DOMAIN experiments'
          /\ StoredSnapshot(e)' = StoredSnapshot(e)]_vars

\* A deleted experiment becomes visible again only by the save of a study
\* with the same deterministic content, under the id it always had.
RestoreOnlyByEquivalentStudy ==
    [][\A e \in deletedExperiments :
          e \notin deletedExperiments' =>
              \E c \in Clients :
                  /\ pc[c] = "restore" /\ experiment_id[c] = e
                  /\ IncomingSnapshot(study[c]) = StoredSnapshot(e)]_vars

(***************************************************************************)
(* Refinement: the store implements the ledger.                            *)
(***************************************************************************)

\* The entry of an identity is its row, with the plans that reference it.
LedgerEntry(i) ==
    LET e == RowOf(i) IN
    IF e = 0 THEN [state |-> "absent"]
    ELSE [state |-> IF e \in deletedExperiments THEN "deleted" ELSE "active",
          content |-> StoredSnapshot(e),
          executions |-> [p \in {q \in DOMAIN plans : plans[q].experiment = e} |->
                             IF p \in completed THEN "completed" ELSE "planned"]]

StoredContents ==
    {[IncomingSnapshot(s) EXCEPT !.policies = InIndexOrder(PolicyRows(s.policies))] :
        s \in Studies}

Ledger == INSTANCE StudyLedger WITH
    Contents <- StoredContents,
    ledger <- [i \in Identities |-> LedgerEntry(i)],
    planned <- Len(plans)

\* Checks and transactions of several processes, locks, retries and crashes
\* look like a ledger whose operations happen one at a time.
ImplementsLedger == Ledger!Spec

(***************************************************************************)
(* Liveness.                                                               *)
(***************************************************************************)

\* Every operation ends, even when every transaction finds the database
\* locked: the retries are bounded.
OperationsEnd == \A c \in Clients : pc[c] # "idle" ~> pc[c] = "idle"

(***************************************************************************)
(* What the documentation says and the code does not do.                   *)
(***************************************************************************)

\* logical_delete_experiment: the rows "are retained so that a semantically
\* equivalent re-save can restore them".
RestoreBringsPlansBack ==
    \A p \in DOMAIN plans : Active(plans[p].experiment) => p \notin deletedPlans

\* run --resume: "Resume an interrupted study".  Once no operation is under
\* way, a study that a new run refused as a duplicate has its results.
InterruptedStudyIsResumed ==
    \A c \in Clients :
        /\ outcome[c] = "duplicate"
        /\ \A d \in Clients : pc[d] = "idle"
        /\ Active(RowOf(study[c].identity))
        => find_plan_by_experiment(RowOf(study[c].identity)) # 0
=============================================================================
