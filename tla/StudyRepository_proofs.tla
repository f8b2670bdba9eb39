----------------------- MODULE StudyRepository_proofs -----------------------
(***************************************************************************)
(* Theorems about StudyRepository for any number of processes, studies,    *)
(* retries, operations and crashes.                                        *)
(***************************************************************************)
EXTENDS StudyRepository, TLAPS

-----------------------------------------------------------------------------
(***************************************************************************)
(* The rows a study is stored as.                                          *)
(***************************************************************************)

\* The policies of a study fit the policy table, and index 0 is taken.
LEMMA PolicyRowsType ==
    ASSUME NEW s \in Studies
    PROVE  /\ PolicyRows(s.policies) \in PolicyTables
           /\ 0 \in DOMAIN PolicyRows(s.policies)
<1> DEFINE stored(i) == Codec[s.policies[i + 1]]
           kept == {i \in 0 .. Len(s.policies) - 1 :
                       \A j \in 0 .. i - 1 : stored(j) # stored(i)}
<1>1. s.policies \in Seq(DOMAIN Codec) /\ s.policies # <<>>
  BY StudiesAssumption
<1>2. Len(s.policies) \in Nat \ {0}
  BY <1>1
<1>3. \A i \in 0 .. Len(s.policies) - 1 : stored(i) \in StoredPolicies
  BY <1>1, <1>2 DEF StoredPolicies
<1>4. kept \in SUBSET PolicyIndices
  BY DEF PolicyIndices
<1>5. PolicyRows(s.policies) = [i \in kept |-> stored(i)]
  BY DEF PolicyRows
<1>6. PolicyRows(s.policies) \in [kept -> StoredPolicies]
  BY <1>3, <1>5
<1>7. 0 \in kept
  BY <1>2
<1> QED
  BY <1>4, <1>5, <1>6, <1>7 DEF PolicyTables

\* Associating the policies of units changes nothing once index 0 is taken.
LEMMA AssociationIgnored ==
    ASSUME NEW rows, NEW units, 0 \in DOMAIN rows
    PROVE  AssociateUnitPolicies(rows, units) = rows
BY DEF AssociateUnitPolicies

\* The units of a study fit the unit table.
LEMMA UnitRowsType ==
    ASSUME NEW s \in Studies
    PROVE  UnitRows(s.units) \in Seq([cohort : Cohorts, policy : StoredPolicies])
<1>1. s.units \in Seq(Unit)
  BY StudiesAssumption
<1>2. \A u \in DOMAIN s.units : s.units[u] \in Unit
  BY <1>1
<1>3. \A u \in DOMAIN s.units :
        [cohort |-> s.units[u].cohort, policy |-> Codec[s.units[u].policy]]
            \in [cohort : Cohorts, policy : StoredPolicies]
  BY <1>2 DEF Unit, Cohorts, StoredPolicies
<1>4. DOMAIN s.units = 1 .. Len(s.units) /\ Len(s.units) \in Nat
  BY <1>1
<1> QED
  BY <1>3, <1>4 DEF UnitRows

-----------------------------------------------------------------------------
(***************************************************************************)
(* The inductive invariant.  The invariants the runs check say nothing of  *)
(* what a client knows between two of its transactions, and without that   *)
(* no insertion can be shown to keep them.                                 *)
(***************************************************************************)

\* Foreign keys, and a simulation row for every unit of the plan.
References ==
    /\ \A p \in DOMAIN plans : plans[p].experiment \in DOMAIN experiments
    /\ \A r \in DOMAIN results :
          /\ results[r].plan \in DOMAIN plans
          /\ results[r].total_units = Len(plans[results[r].plan].units)

\* Every experiment has a policy at index 0, where units associate theirs.
FirstPolicyStored ==
    \A e \in DOMAIN experiments : 0 \in DOMAIN experiment_policies[e]

TablesInv == UniqueIdentity /\ CompletedIffOneResult /\ References /\ FirstPolicyStored

\* The experiment a client holds is stored with the columns of its study.
HoldsStoredStudy(c) ==
    /\ experiment_id[c] \in DOMAIN experiments
    /\ experiments[experiment_id[c]] =
          [identity |-> study[c].identity, config |-> study[c].config,
           horizon |-> study[c].horizon]

\* The plan a client holds is stored, with the units of its study if it has one.
HoldsPlan(c) ==
    /\ plan_id[c] \in DOMAIN plans
    /\ study[c] # NoStudy =>
          /\ HoldsStoredStudy(c)
          /\ plans[plan_id[c]] =
                [experiment |-> experiment_id[c], units |-> UnitRows(study[c].units)]

HoldsResult(c) ==
    /\ result_id[c] \in DOMAIN results
    /\ results[result_id[c]].plan = plan_id[c]

Saving == {"save_experiment", "compare_snapshots", "restore", "insert_experiment",
           "save_plan", "insert_plan", "delete"}

\* What a client knows at each point of its operation.
ClientInv(c) ==
    /\ pc[c] # "idle" => outcome[c] = "running"
    /\ pc[c] \in Saving => study[c] \in Studies
    /\ pc[c] = "compare_snapshots" => experiment_id[c] \in DOMAIN experiments
    /\ pc[c] \in {"restore", "save_plan", "insert_plan"} =>
          HoldsStoredStudy(c) /\ cohorts[experiment_id[c]] = study[c].cohorts
    /\ pc[c] = "restore" => SemanticallyEquivalent(study[c], experiment_id[c])
    /\ pc[c] \in {"execute", "save_result", "insert_result"} => HoldsPlan(c)
    /\ outcome[c] = "persisted" => HoldsPlan(c) /\ HoldsResult(c)
    /\ pc[c] = "export_result" =>
          plan_id[c] \in completed /\ plans[plan_id[c]].experiment = experiment_id[c]
    /\ outcome[c] = "exported" =>
          HoldsResult(c) /\ plans[plan_id[c]].experiment = experiment_id[c]

ClientsInv == \A c \in Clients : ClientInv(c)

IInv == TypeOK /\ TablesInv /\ ClientsInv

-----------------------------------------------------------------------------
(***************************************************************************)
(* Type correctness.                                                       *)
(***************************************************************************)

LEMMA RowOfIsRow ==
    ASSUME NEW identity, RowOf(identity) # 0
    PROVE  RowOf(identity) \in RowsOf(identity)
BY DEF RowOf

\* The result that is saved has as many simulations as the stored plan units.
LEMMA SimulatedAsPlanned ==
    ASSUME TypeOK, NEW c \in Clients, HoldsPlan(c)
    PROVE  TotalUnits(c) = Len(plans[plan_id[c]].units)
<1>1. CASE study[c] = NoStudy
  BY <1>1 DEF TotalUnits
<1>2. CASE study[c] # NoStudy
  <2>1. study[c] \in Studies
    BY <1>2 DEF TypeOK
  <2>2. plans[plan_id[c]].units = UnitRows(study[c].units)
    BY <1>2 DEF HoldsPlan
  <2>3. study[c].units \in Seq(Unit)
    BY <2>1, StudiesAssumption
  <2>4. Len(UnitRows(study[c].units)) = Len(study[c].units)
    BY <2>3 DEF UnitRows
  <2> QED
    BY <1>2, <2>2, <2>4 DEF TotalUnits
<1> QED
  BY <1>1, <1>2

LEMMA FoundPlanIsCompleted ==
    ASSUME NEW e, find_plan_by_experiment(e) # 0
    PROVE  find_plan_by_experiment(e) \in CompletedPlans(e)
BY DEF find_plan_by_experiment

LEMMA FoundResultIsResult ==
    ASSUME NEW p, find_result_by_plan(p) # 0
    PROVE  find_result_by_plan(p) \in ResultsOf(p)
BY DEF find_result_by_plan

\* Row ids are positive naturals, and one table has the rows of three.
LEMMA RowIds ==
    ASSUME TypeOK
    PROVE  /\ DOMAIN experiments = 1 .. Len(experiments)
           /\ DOMAIN experiment_policies = DOMAIN experiments
           /\ DOMAIN cohorts = DOMAIN experiments
           /\ DOMAIN plans = 1 .. Len(plans)
           /\ DOMAIN results = 1 .. Len(results)
           /\ Len(experiments) \in Nat /\ Len(plans) \in Nat /\ Len(results) \in Nat
           /\ DOMAIN experiments \cup DOMAIN plans \cup DOMAIN results \subseteq Nat \ {0}
           /\ deletedExperiments \subseteq DOMAIN experiments
           /\ completed \subseteq DOMAIN plans
BY DEF TypeOK

\* The retry counter restarts within its range.
LEMMA AttemptsReset ==
    ASSUME TypeOK, NEW c \in Clients
    PROVE  [attempts EXCEPT ![c] = 0] \in [Clients -> 0 .. MaxRetries - 1]
BY BoundsAssumption DEF TypeOK

LEMMA BeginType ==
    ASSUME TypeOK, NEW c \in Clients, NEW label \in Labels,
           NEW s \in Studies \cup {NoStudy}, NEW e \in Nat, NEW p \in Nat,
           Begin(c, label, s, e, p)
    PROVE  TypeOK'
BY BoundsAssumption, SMTT(40) DEF TypeOK, Begin, Outcomes, tables, experimentTables, planTables

\* Next preserves the type invariant, given what the clients know.
LEMMA TypeStep == IInv /\ [Next]_vars => TypeOK'
<1> SUFFICES ASSUME IInv, [Next]_vars PROVE TypeOK'
  OBVIOUS
<1> TypeOK
  BY DEF IInv
<1>0. \A c \in Clients : ClientInv(c)
  BY DEF IInv, ClientsInv
<1> USE DEF Goto, Finish, Committed, tables, experimentTables, planTables,
            locals, bounds, Labels, Outcomes
<1>1. CASE UNCHANGED vars
  BY <1>1 DEF vars, TypeOK
<1>2. ASSUME NEW c \in Clients, Start(c) PROVE TypeOK'
  <2>1. CASE StartPersisting(c)
    BY <2>1, BeginType DEF StartPersisting
  <2>2. CASE StartSavingResult(c)
    <3>1. PICK p \in DOMAIN plans : Begin(c, "save_result", NoStudy, 0, p)
      BY <2>2 DEF StartSavingResult
    <3> QED
      BY <3>1, BeginType, RowIds
  <2>3. CASE StartDeleting(c)
    BY <2>3, BeginType DEF StartDeleting
  <2>4. CASE StartExporting(c)
    <3>1. PICK e \in DOMAIN experiments : Begin(c, "export_experiment", NoStudy, e, 0)
      BY <2>4 DEF StartExporting
    <3> QED
      BY <3>1, BeginType, RowIds
  <2> QED
    BY <1>2, <2>1, <2>2, <2>3, <2>4 DEF Start
<1>3. ASSUME NEW c \in Clients, SaveExperimentCheck(c) PROVE TypeOK'
  <2>1. deletedExperiments \subseteq Nat
    BY RowIds DEF TypeOK
  <2> QED
    BY <1>3, <2>1 DEF SaveExperimentCheck, TypeOK
<1>4. ASSUME NEW c \in Clients, CompareSnapshots(c) PROVE TypeOK'
  BY <1>4 DEF CompareSnapshots, TypeOK
<1>5. ASSUME NEW c \in Clients, RestoreExperiment(c) PROVE TypeOK'
  BY <1>5 DEF RestoreExperiment, TypeOK
<1>6. ASSUME NEW c \in Clients, InsertExperiment(c) PROVE TypeOK'
  <2> DEFINE s == study[c]
             row == [identity |-> s.identity, config |-> s.config, horizon |-> s.horizon]
  <2>1. s \in Studies
    BY <1>0, <1>6 DEF InsertExperiment, ClientInv, Saving
  <2>2. PolicyRows(s.policies) \in PolicyTables
    BY <2>1, PolicyRowsType
  <2>3. s.cohorts \in SUBSET Cohorts
    BY <2>1 DEF Cohorts
  <2>4. row \in ExperimentRows
    BY <2>1, StudiesAssumption DEF ExperimentRows, Identities, Configs
  <2> HIDE DEF row
  <2>5. CASE RowsOf(s.identity) # {}
    BY <1>6, <2>5, AttemptsReset DEF InsertExperiment, TypeOK
  <2>6. CASE RowsOf(s.identity) = {}
    <3>1. /\ experiments' = Append(experiments, row)
          /\ experiment_policies' = Append(experiment_policies, PolicyRows(s.policies))
          /\ cohorts' = Append(cohorts, s.cohorts)
      BY <1>6, <2>6 DEF InsertExperiment, row
    <3>2. /\ experiments' \in Seq(ExperimentRows)
          /\ experiment_policies' \in Seq(PolicyTables)
          /\ cohorts' \in Seq(SUBSET Cohorts)
          /\ Len(experiments') = Len(experiments) + 1
          /\ Len(experiment_policies') = Len(experiments')
          /\ Len(cohorts') = Len(experiments')
      BY <2>2, <2>3, <2>4, <3>1 DEF TypeOK
    <3>3. DOMAIN experiments \subseteq DOMAIN experiments'
      BY <3>1, <3>2, RowIds
    <3>4. experiment_id' \in [Clients -> Nat]
      BY <1>6, <2>6, RowIds, SMTT(30) DEF InsertExperiment, TypeOK
    <3>5. attempts' \in [Clients -> 0 .. MaxRetries - 1]
      BY <1>6, AttemptsReset DEF InsertExperiment
    <3>6. deletedExperiments' \subseteq DOMAIN experiments'
      BY <1>6, <3>3, RowIds DEF InsertExperiment
    <3> QED
      BY <1>6, <2>6, <3>2, <3>4, <3>5, <3>6 DEF InsertExperiment, TypeOK
  <2> QED
    BY <2>5, <2>6
<1>7. ASSUME NEW c \in Clients, SavePlanCheck(c) PROVE TypeOK'
  BY <1>7 DEF SavePlanCheck, TypeOK
<1>8. ASSUME NEW c \in Clients, InsertPlan(c) PROVE TypeOK'
  <2> DEFINE s == study[c]
             e == experiment_id[c]
             row == [experiment |-> e, units |-> UnitRows(s.units)]
             added == {s.units[u].cohort : u \in DOMAIN s.units}
  <2>1. s \in Studies /\ e \in DOMAIN experiments
    BY <1>0, <1>8 DEF InsertPlan, ClientInv, Saving, HoldsStoredStudy
  <2>2. row \in PlanRows
    BY <2>1, UnitRowsType DEF TypeOK, PlanRows, UnitTable
  <2>3. AssociateUnitPolicies(experiment_policies[e], s.units) = experiment_policies[e]
    BY <2>1, AssociationIgnored DEF IInv, TablesInv, FirstPolicyStored
  <2>4. added \subseteq Cohorts
    BY <2>1, StudiesAssumption DEF Cohorts
  <2>5. /\ plans' = Append(plans, row)
        /\ experiment_policies' = [experiment_policies EXCEPT ![e] = @]
        /\ cohorts' = [cohorts EXCEPT ![e] = @ \cup added]
    BY <1>8, <2>3 DEF InsertPlan
  <2> HIDE DEF row, added
  <2>6. experiment_policies' = experiment_policies
    BY <2>5 DEF TypeOK
  <2>7. cohorts' \in Seq(SUBSET Cohorts) /\ Len(cohorts') = Len(cohorts)
    BY <2>1, <2>4, <2>5 DEF TypeOK
  <2>8. plans' \in Seq(PlanRows) /\ DOMAIN plans \subseteq DOMAIN plans'
    BY <2>2, <2>5 DEF TypeOK
  <2>9. plan_id' \in [Clients -> Nat]
    BY <1>8, RowIds DEF InsertPlan, TypeOK
  <2>10. attempts' \in [Clients -> 0 .. MaxRetries - 1]
    BY <1>8, AttemptsReset DEF InsertPlan
  <2> QED
    BY <1>8, <2>6, <2>7, <2>8, <2>9, <2>10 DEF InsertPlan, TypeOK
<1>9. ASSUME NEW c \in Clients, ExecuteOptimalPlan(c) PROVE TypeOK'
  BY <1>9 DEF ExecuteOptimalPlan, TypeOK
<1>10. ASSUME NEW c \in Clients, SaveResultCheck(c) PROVE TypeOK'
  BY <1>10 DEF SaveResultCheck, TypeOK
<1>11. ASSUME NEW c \in Clients, InsertResult(c) PROVE TypeOK'
  <2> DEFINE p == plan_id[c]
             row == [plan |-> p, total_units |-> Len(plans[p].units)]
  <2>1. p \in DOMAIN plans
    BY <1>0, <1>11 DEF InsertResult, ClientInv, HoldsPlan
  <2>2. plans[p] \in PlanRows
    BY <2>1 DEF TypeOK
  <2>3. row \in ResultRows
    BY <2>1, <2>2 DEF PlanRows, UnitTable, ResultRows, TypeOK
  <2>6. TotalUnits(c) = Len(plans[p].units)
    BY <1>0, <1>11, SimulatedAsPlanned DEF InsertResult, ClientInv
  <2> HIDE DEF row
  <2>4. CASE ResultExists(p)
    BY <1>11, <2>4, AttemptsReset DEF InsertResult, TypeOK
  <2>5. CASE ~ResultExists(p)
    <3>1. results' = Append(results, row) /\ completed' = completed \cup {p}
      BY <1>11, <2>5, <2>6 DEF InsertResult, row
    <3>2. results' \in Seq(ResultRows)
      BY <2>3, <3>1 DEF TypeOK
    <3>3. completed' \subseteq DOMAIN plans
      BY <2>1, <3>1 DEF TypeOK
    <3>4. result_id' \in [Clients -> Nat]
      BY <1>11, <2>5, RowIds, SMTT(40) DEF InsertResult, TypeOK
    <3>5. attempts' \in [Clients -> 0 .. MaxRetries - 1]
      BY <1>11, AttemptsReset DEF InsertResult
    <3> QED
      BY <1>11, <2>5, <3>2, <3>3, <3>4, <3>5 DEF InsertResult, TypeOK
  <2> QED
    BY <2>4, <2>5
<1>12. ASSUME NEW c \in Clients, LogicalDelete(c) PROVE TypeOK'
  <2>1. RowOf(study[c].identity) # 0 => RowOf(study[c].identity) \in DOMAIN experiments
    BY RowOfIsRow DEF RowsOf
  <2> QED
    BY <1>12, <2>1 DEF LogicalDelete, TypeOK
<1>13. ASSUME NEW c \in Clients, ExportExperiment(c) PROVE TypeOK'
  BY <1>13 DEF ExportExperiment, TypeOK
<1>14. ASSUME NEW c \in Clients, ExportPlan(c) PROVE TypeOK'
  <2>1. find_plan_by_experiment(experiment_id[c]) \in Nat
    BY FoundPlanIsCompleted, RowIds DEF CompletedPlans
  <2> QED
    BY <1>14, <2>1 DEF ExportPlan, TypeOK
<1>15. ASSUME NEW c \in Clients, ExportResult(c) PROVE TypeOK'
  <2>1. ExportedResult(c) \in Nat
    BY FoundResultIsResult, RowIds DEF ExportedResult, ResultsOf
  <2> QED
    BY <1>15, <2>1 DEF ExportResult, TypeOK
<1>16. ASSUME NEW c \in Clients, DatabaseLocked(c) PROVE TypeOK'
  <2>1. attempts' \in [Clients -> 0 .. MaxRetries - 1]
    <3>1. CASE RetriesLeft(c)
      <4>1. attempts' = [attempts EXCEPT ![c] = attempts[c] + 1]
        BY <1>16, <3>1 DEF DatabaseLocked
      <4>2. attempts[c] + 1 \in 0 .. MaxRetries - 1
        BY <3>1, BoundsAssumption DEF RetriesLeft, TypeOK
      <4> QED
        BY <4>1, <4>2 DEF TypeOK
    <3>2. CASE ~RetriesLeft(c)
      BY <1>16, <3>2, AttemptsReset DEF DatabaseLocked
    <3> QED
      BY <3>1, <3>2
  <2>2. pc' \in [Clients -> Labels] /\ outcome' \in [Clients -> Outcomes]
    BY <1>16 DEF DatabaseLocked, TypeOK
  <2> QED
    BY <1>16, <2>1, <2>2 DEF DatabaseLocked, TypeOK
<1>17. ASSUME NEW c \in Clients, Crash(c) PROVE TypeOK'
  BY <1>17, BoundsAssumption DEF Crash, TypeOK
<1> QED
  BY <1>1, <1>2, <1>3, <1>4, <1>5, <1>6, <1>7, <1>8, <1>9, <1>10, <1>11, <1>12,
     <1>13, <1>14, <1>15, <1>16, <1>17 DEF Next, Step

-----------------------------------------------------------------------------
(***************************************************************************)
(* The rows that are stored.                                               *)
(***************************************************************************)

\* Only the three inserting transactions write more than a deleted_at.
storedRows == <<experiments, experiment_policies, cohorts, plans, completed, results>>

LEMMA OnlyInsertionsStore ==
    ASSUME [Next]_vars
    PROVE  \/ \E c \in Clients : InsertExperiment(c) \/ InsertPlan(c) \/ InsertResult(c)
           \/ UNCHANGED storedRows
<1> USE DEF tables, experimentTables, planTables, storedRows
<1>1. CASE UNCHANGED vars
  BY <1>1 DEF vars
<1>2. ASSUME NEW c \in Clients, Start(c) PROVE UNCHANGED storedRows
  BY <1>2 DEF Start, StartPersisting, StartSavingResult, StartDeleting, StartExporting,
              Begin
<1>3. ASSUME NEW c \in Clients, Crash(c) PROVE UNCHANGED storedRows
  BY <1>3 DEF Crash
<1>4. ASSUME NEW c \in Clients,
             \/ SaveExperimentCheck(c) \/ CompareSnapshots(c) \/ RestoreExperiment(c)
             \/ SavePlanCheck(c) \/ ExecuteOptimalPlan(c) \/ SaveResultCheck(c)
      PROVE  UNCHANGED storedRows
  BY <1>4 DEF SaveExperimentCheck, CompareSnapshots, RestoreExperiment, SavePlanCheck,
              ExecuteOptimalPlan, SaveResultCheck
<1>5. ASSUME NEW c \in Clients,
             \/ LogicalDelete(c) \/ ExportExperiment(c) \/ ExportPlan(c)
             \/ ExportResult(c) \/ DatabaseLocked(c)
      PROVE  UNCHANGED storedRows
  BY <1>5 DEF LogicalDelete, ExportExperiment, ExportPlan, ExportResult, DatabaseLocked
<1> QED
  BY <1>1, <1>2, <1>3, <1>4, <1>5 DEF Next, Step

\* What the inserting transaction of save_plan does to the tables: the
\* policies and the cohorts of its experiment are there already.
LEMMA PlanInserted ==
    ASSUME IInv, NEW c \in Clients, InsertPlan(c)
    PROVE  /\ study[c] \in Studies /\ experiment_id[c] \in DOMAIN experiments
           /\ UNCHANGED <<experiments, experiment_policies, cohorts, completed, results>>
           /\ plans' = Append(plans, [experiment |-> experiment_id[c],
                                      units |-> UnitRows(study[c].units)])
<1> DEFINE s == study[c]
           e == experiment_id[c]
           added == {s.units[u].cohort : u \in DOMAIN s.units}
<1>1. s \in Studies /\ e \in DOMAIN experiments /\ cohorts[e] = s.cohorts
  BY DEF InsertPlan, IInv, ClientsInv, ClientInv, Saving, HoldsStoredStudy
<1>2. AssociateUnitPolicies(experiment_policies[e], s.units) = experiment_policies[e]
  BY <1>1, AssociationIgnored DEF IInv, TablesInv, FirstPolicyStored
<1>3. cohorts[e] \cup added = cohorts[e]
  BY <1>1, StudiesAssumption
<1>4. /\ experiment_policies' =
            [experiment_policies EXCEPT ![e] =
                AssociateUnitPolicies(experiment_policies[e], s.units)]
      /\ cohorts' = [cohorts EXCEPT ![e] = cohorts[e] \cup added]
  BY DEF InsertPlan
<1>5. experiment_policies' = experiment_policies /\ cohorts' = cohorts
  BY <1>2, <1>3, <1>4 DEF IInv, TypeOK
<1> QED
  BY <1>1, <1>5 DEF InsertPlan

\* No step takes a row away or changes what is in it, and no plan that is
\* completed becomes planned again.
RowsKept ==
    /\ \A e \in DOMAIN experiments :
          /\ e \in DOMAIN experiments'
          /\ experiments'[e] = experiments[e]
          /\ experiment_policies'[e] = experiment_policies[e]
          /\ cohorts'[e] = cohorts[e]
    /\ \A p \in DOMAIN plans : p \in DOMAIN plans' /\ plans'[p] = plans[p]
    /\ \A r \in DOMAIN results : r \in DOMAIN results' /\ results'[r] = results[r]
    /\ completed \subseteq completed'

LEMMA AppendKeeps ==
    ASSUME NEW S, NEW rows \in Seq(S), NEW row
    PROVE  /\ \A i \in DOMAIN rows :
                 i \in DOMAIN Append(rows, row) /\ Append(rows, row)[i] = rows[i]
           /\ DOMAIN Append(rows, row) = DOMAIN rows \cup {Len(rows) + 1}
           /\ Append(rows, row)[Len(rows) + 1] = row
           /\ Len(rows) + 1 \notin DOMAIN rows
           /\ Len(Append(rows, row)) = Len(rows) + 1
OBVIOUS

LEMMA RowsStep == IInv /\ [Next]_vars => RowsKept
<1> SUFFICES ASSUME IInv, [Next]_vars PROVE RowsKept
  OBVIOUS
<1> TypeOK
  BY DEF IInv
<1>1. CASE UNCHANGED storedRows
  BY <1>1 DEF storedRows, RowsKept
<1>2. ASSUME NEW c \in Clients, InsertExperiment(c) PROVE RowsKept
  <2> DEFINE s == study[c]
  <2>1. CASE RowsOf(s.identity) # {}
    BY <1>2, <2>1 DEF InsertExperiment, RowsKept, planTables
  <2>2. CASE RowsOf(s.identity) = {}
    <3>1. /\ \E row : experiments' = Append(experiments, row)
          /\ experiment_policies' = Append(experiment_policies, PolicyRows(s.policies))
          /\ cohorts' = Append(cohorts, s.cohorts)
          /\ UNCHANGED <<plans, completed, results>>
      BY <1>2, <2>2 DEF InsertExperiment, planTables
    <3>2. \A e \in DOMAIN experiments :
             e \in DOMAIN experiments' /\ experiments'[e] = experiments[e]
      BY <3>1, AppendKeeps DEF TypeOK
    <3>3. \A e \in DOMAIN experiments :
             /\ experiment_policies'[e] = experiment_policies[e]
             /\ cohorts'[e] = cohorts[e]
      BY <3>1, AppendKeeps, RowIds DEF TypeOK
    <3> QED
      BY <3>1, <3>2, <3>3 DEF RowsKept
  <2> QED
    BY <2>1, <2>2
<1>3. ASSUME NEW c \in Clients, InsertPlan(c) PROVE RowsKept
  <2>1. /\ UNCHANGED <<experiments, experiment_policies, cohorts, completed, results>>
        /\ \E row : plans' = Append(plans, row)
    BY <1>3, PlanInserted
  <2>2. \A p \in DOMAIN plans : p \in DOMAIN plans' /\ plans'[p] = plans[p]
    BY <2>1, AppendKeeps DEF TypeOK
  <2> QED
    BY <2>1, <2>2 DEF RowsKept
<1>4. ASSUME NEW c \in Clients, InsertResult(c) PROVE RowsKept
  <2>1. \/ UNCHANGED storedRows
        \/ /\ \E row : results' = Append(results, row)
           /\ completed \subseteq completed'
           /\ UNCHANGED <<experiments, experiment_policies, cohorts, plans>>
    BY <1>4 DEF InsertResult, storedRows, experimentTables
  <2>2. \A r \in DOMAIN results : r \in DOMAIN results' /\ results'[r] = results[r]
    <3>1. CASE UNCHANGED storedRows
      BY <3>1 DEF storedRows
    <3>2. CASE \E row : results' = Append(results, row)
      BY <3>2, AppendKeeps DEF TypeOK
    <3> QED
      BY <2>1, <3>1, <3>2
  <2> QED
    BY <2>1, <2>2 DEF RowsKept, storedRows
<1> QED
  BY <1>1, <1>2, <1>3, <1>4, OnlyInsertionsStore

\* The tables stay consistent.
LEMMA TablesStep == IInv /\ [Next]_vars => TablesInv'
<1> SUFFICES ASSUME IInv, [Next]_vars PROVE TablesInv'
  OBVIOUS
<1> TypeOK /\ TablesInv
  BY DEF IInv
<1> USE DEF TablesInv
<1>1. CASE UNCHANGED storedRows
  BY <1>1 DEF storedRows, UniqueIdentity, CompletedIffOneResult, References,
              FirstPolicyStored, ResultsOf
<1>2. ASSUME NEW c \in Clients, InsertExperiment(c) PROVE TablesInv'
  <2> DEFINE s == study[c]
             row == [identity |-> s.identity, config |-> s.config, horizon |-> s.horizon]
             n == Len(experiments) + 1
  <2>1. CASE RowsOf(s.identity) # {}
    <3>1. UNCHANGED storedRows
      BY <1>2, <2>1 DEF InsertExperiment, storedRows, planTables
    <3> QED
      BY <1>1, <3>1
  <2>2. CASE RowsOf(s.identity) = {}
    <3>1. /\ experiments' = Append(experiments, row)
          /\ experiment_policies' = Append(experiment_policies, PolicyRows(s.policies))
          /\ UNCHANGED <<plans, completed, results>>
      BY <1>2, <2>2 DEF InsertExperiment, planTables
    <3>2. row.identity = s.identity
      OBVIOUS
    <3> HIDE DEF row
    <3>3. DOMAIN experiments' = DOMAIN experiments \cup {n} /\ experiments'[n] = row
          /\ \A e \in DOMAIN experiments : experiments'[e] = experiments[e]
      BY <3>1, AppendKeeps DEF TypeOK
    <3>4. UniqueIdentity'
      BY <2>2, <3>2, <3>3 DEF UniqueIdentity, RowsOf
    <3>5. CompletedIffOneResult' /\ References'
      BY <3>1, <3>3 DEF CompletedIffOneResult, References, ResultsOf
    <3>6. 0 \in DOMAIN PolicyRows(s.policies)
      BY <1>2, PolicyRowsType DEF IInv, ClientsInv, ClientInv, InsertExperiment, Saving
    <3>7. /\ experiment_policies'[n] = PolicyRows(s.policies)
          /\ \A e \in DOMAIN experiments : experiment_policies'[e] = experiment_policies[e]
      BY <3>1, AppendKeeps, RowIds DEF TypeOK
    <3>8. FirstPolicyStored'
      BY <3>3, <3>6, <3>7 DEF FirstPolicyStored
    <3> QED
      BY <3>4, <3>5, <3>8
  <2> QED
    BY <2>1, <2>2
<1>3. ASSUME NEW c \in Clients, InsertPlan(c) PROVE TablesInv'
  <2> DEFINE row == [experiment |-> experiment_id[c], units |-> UnitRows(study[c].units)]
             n == Len(plans) + 1
  <2>1. /\ experiment_id[c] \in DOMAIN experiments
        /\ UNCHANGED <<experiments, experiment_policies, completed, results>>
        /\ plans' = Append(plans, row)
    BY <1>3, PlanInserted
  <2>2. row.experiment = experiment_id[c]
    OBVIOUS
  <2> HIDE DEF row
  <2>3. /\ DOMAIN plans' = DOMAIN plans \cup {n} /\ n \notin DOMAIN plans
        /\ plans'[n] = row /\ \A p \in DOMAIN plans : plans'[p] = plans[p]
    BY <2>1, AppendKeeps DEF TypeOK
  <2>4. UniqueIdentity' /\ FirstPolicyStored'
    BY <2>1 DEF UniqueIdentity, FirstPolicyStored
  <2>5. References'
    BY <2>1, <2>2, <2>3 DEF References
  <2>6. ResultsOf(n) = {} /\ n \notin completed
    BY <2>3, RowIds DEF ResultsOf, References
  <2>7. CompletedIffOneResult'
    BY <2>1, <2>3, <2>6 DEF CompletedIffOneResult, ResultsOf
  <2> QED
    BY <2>4, <2>5, <2>7
<1>4. ASSUME NEW c \in Clients, InsertResult(c) PROVE TablesInv'
  <2> DEFINE p == plan_id[c]
             row == [plan |-> p, total_units |-> Len(plans[p].units)]
             n == Len(results) + 1
  <2>1. CASE ResultExists(p)
    <3>1. UNCHANGED storedRows
      BY <1>4, <2>1 DEF InsertResult, storedRows, experimentTables
    <3> QED
      BY <1>1, <3>1
  <2>2. CASE ~ResultExists(p)
    <3>1. /\ results' = Append(results, row)
          /\ completed' = completed \cup {p}
          /\ UNCHANGED <<experiments, experiment_policies, plans>>
      <4>1. TotalUnits(c) = Len(plans[p].units)
        BY <1>4, SimulatedAsPlanned DEF IInv, ClientsInv, ClientInv, InsertResult
      <4> QED
        BY <1>4, <2>2, <4>1 DEF InsertResult, experimentTables
    <3>2. row.plan = p /\ row.total_units = Len(plans[p].units)
      OBVIOUS
    <3> HIDE DEF row
    <3>3. /\ DOMAIN results' = DOMAIN results \cup {n} /\ n \notin DOMAIN results
          /\ results'[n] = row /\ \A r \in DOMAIN results : results'[r] = results[r]
      BY <3>1, AppendKeeps DEF TypeOK
    <3>4. p \in DOMAIN plans
      BY <1>4 DEF IInv, ClientsInv, ClientInv, InsertResult, HoldsPlan
    <3>5. UniqueIdentity' /\ FirstPolicyStored'
      BY <3>1 DEF UniqueIdentity, FirstPolicyStored
    <3>6. References'
      BY <3>1, <3>2, <3>3, <3>4 DEF References
    <3>7. \A r \in DOMAIN results : results[r].plan # p
      BY <2>2 DEF ResultExists, ResultsOf
    <3>8. ASSUME NEW q \in DOMAIN plans
          PROVE  /\ q \in completed' <=> ResultsOf(q)' # {}
                 /\ \A d, e \in ResultsOf(q)' : d = e
      <4>1. CASE q = p
        <5>1. \A r : r \in ResultsOf(q)' <=> r = n
          BY <3>2, <3>3, <3>7, <4>1 DEF ResultsOf
        <5> QED
          BY <3>1, <4>1, <5>1
      <4>2. CASE q # p
        <5>1. \A r : r \in ResultsOf(q)' <=> r \in ResultsOf(q)
          BY <3>2, <3>3, <4>2 DEF ResultsOf
        <5> QED
          BY <3>1, <4>2, <5>1 DEF CompletedIffOneResult
      <4> QED
        BY <4>1, <4>2
    <3>9. CompletedIffOneResult'
      BY <3>1, <3>8 DEF CompletedIffOneResult
    <3> QED
      BY <3>5, <3>6, <3>9
  <2> QED
    BY <2>1, <2>2
<1> QED
  BY <1>1, <1>2, <1>3, <1>4, OnlyInsertionsStore

-----------------------------------------------------------------------------
(***************************************************************************)
(* What the clients know.                                                  *)
(***************************************************************************)

\* What a client knows of the tables stays true when other clients write.
Untouched(d) ==
    /\ pc'[d] = pc[d] /\ outcome'[d] = outcome[d] /\ study'[d] = study[d]
    /\ experiment_id'[d] = experiment_id[d]
    /\ plan_id'[d] = plan_id[d] /\ result_id'[d] = result_id[d]

LEMMA SnapshotKept ==
    ASSUME RowsKept, NEW e \in DOMAIN experiments
    PROVE  StoredSnapshot(e)' = StoredSnapshot(e)
BY DEF RowsKept, StoredSnapshot

LEMMA BystanderKnows ==
    ASSUME IInv, RowsKept, NEW d \in Clients, Untouched(d)
    PROVE  ClientInv(d)'
<1>1. ClientInv(d) /\ completed \subseteq DOMAIN plans
  BY RowIds DEF IInv, ClientsInv
<1>2. HoldsStoredStudy(d) => HoldsStoredStudy(d)'
  BY DEF Untouched, RowsKept, HoldsStoredStudy
<1>3. HoldsPlan(d) => HoldsPlan(d)'
  BY <1>2 DEF Untouched, RowsKept, HoldsPlan
<1>4. HoldsResult(d) => HoldsResult(d)'
  BY DEF Untouched, RowsKept, HoldsResult
<1>5. pc[d] = "restore" => SemanticallyEquivalent(study[d], experiment_id[d])'
  BY <1>1, SnapshotKept
     DEF Untouched, ClientInv, HoldsStoredStudy, SemanticallyEquivalent, IncomingSnapshot
<1>6. HoldsStoredStudy(d) /\ cohorts[experiment_id[d]] = study[d].cohorts =>
          cohorts'[experiment_id'[d]] = study'[d].cohorts
  BY DEF HoldsStoredStudy, Untouched, RowsKept
<1>7. plan_id[d] \in completed =>
          /\ plan_id'[d] \in completed'
          /\ plans'[plan_id'[d]] = plans[plan_id[d]]
  BY <1>1 DEF Untouched, RowsKept
<1>8. HoldsResult(d) => plan_id[d] \in DOMAIN plans
  BY DEF HoldsResult, IInv, TablesInv, References
<1>9. outcome[d] = "exported" => plans'[plan_id'[d]] = plans[plan_id[d]]
  BY <1>1, <1>8 DEF ClientInv, Untouched, RowsKept
<1>10. pc[d] = "compare_snapshots" => experiment_id'[d] \in DOMAIN experiments'
  BY <1>1 DEF ClientInv, Untouched, RowsKept
<1> QED
  BY <1>1, <1>2, <1>3, <1>4, <1>5, <1>6, <1>7, <1>9, <1>10 DEF Untouched, ClientInv

LEMMA OthersUntouched ==
    ASSUME TypeOK, NEW c \in Clients, Start(c) \/ Step(c) \/ Crash(c),
           NEW d \in Clients, d # c
    PROVE  Untouched(d)
<1> USE DEF TypeOK, Untouched, Goto, Finish, locals
<1>1. CASE Start(c)
  BY <1>1 DEF Start, StartPersisting, StartSavingResult, StartDeleting, StartExporting,
              Begin
<1>2. CASE Crash(c)
  BY <1>2 DEF Crash
<1>3. CASE \/ SaveExperimentCheck(c) \/ CompareSnapshots(c) \/ RestoreExperiment(c)
           \/ InsertExperiment(c) \/ SavePlanCheck(c) \/ InsertPlan(c)
  BY <1>3 DEF SaveExperimentCheck, CompareSnapshots, RestoreExperiment,
              InsertExperiment, SavePlanCheck, InsertPlan
<1>4. CASE \/ ExecuteOptimalPlan(c) \/ SaveResultCheck(c) \/ InsertResult(c)
           \/ LogicalDelete(c) \/ DatabaseLocked(c)
  BY <1>4 DEF ExecuteOptimalPlan, SaveResultCheck, InsertResult, LogicalDelete,
              DatabaseLocked
<1>5. CASE ExportExperiment(c) \/ ExportPlan(c) \/ ExportResult(c)
  BY <1>5 DEF ExportExperiment, ExportPlan, ExportResult
<1> QED
  BY <1>1, <1>2, <1>3, <1>4, <1>5 DEF Step

\* The client that takes the step knows what its next action relies on.
LEMMA ActorKnows ==
    ASSUME IInv, RowsKept, TypeOK', TablesInv', NEW c \in Clients,
           Start(c) \/ Step(c) \/ Crash(c)
    PROVE  ClientInv(c)'
<1> TypeOK /\ ClientInv(c)
  BY DEF IInv, ClientsInv
<1> USE DEF Goto, Finish, locals, tables, experimentTables, planTables, Saving
<1>1. CASE Start(c)
  <2>1. \/ \E s \in Studies, e, p \in Nat, label \in {"save_experiment", "delete"} :
              Begin(c, label, s, e, p)
        \/ \E e \in Nat : Begin(c, "export_experiment", NoStudy, e, 0)
        \/ \E p \in DOMAIN plans : Begin(c, "save_result", NoStudy, 0, p)
    BY <1>1, RowIds DEF Start, StartPersisting, StartSavingResult, StartDeleting,
                        StartExporting
  <2>2. CASE \E s \in Studies, e, p \in Nat, label \in {"save_experiment", "delete"} :
                Begin(c, label, s, e, p)
    BY <2>2 DEF Begin, TypeOK, ClientInv
  <2>3. CASE \E e \in Nat : Begin(c, "export_experiment", NoStudy, e, 0)
    BY <2>3 DEF Begin, TypeOK, ClientInv
  <2>4. CASE \E p \in DOMAIN plans : Begin(c, "save_result", NoStudy, 0, p)
    BY <2>4 DEF Begin, TypeOK, ClientInv, HoldsPlan
  <2> QED
    BY <2>1, <2>2, <2>3, <2>4
<1>2. CASE SaveExperimentCheck(c)
  <2>1. deletedExperiments \subseteq DOMAIN experiments
    BY RowIds
  <2> QED
    BY <1>2, <2>1 DEF SaveExperimentCheck, TypeOK, ClientInv
<1>3. CASE CompareSnapshots(c)
  <2> DEFINE s == study[c]
             e == experiment_id[c]
  <2>1. CASE SemanticallyEquivalent(s, e)
    <3>1. s \in Studies /\ e \in DOMAIN experiments
      BY <1>3 DEF CompareSnapshots, ClientInv
    <3>2. experiments[e] \in ExperimentRows
      BY <3>1 DEF TypeOK
    <3>3. /\ experiments[e] = [identity |-> s.identity, config |-> s.config,
                               horizon |-> s.horizon]
          /\ cohorts[e] = s.cohorts
      BY <2>1, <3>2
         DEF SemanticallyEquivalent, IncomingSnapshot, StoredSnapshot, ExperimentRows
    <3>4. /\ UNCHANGED <<tables, locals>>
          /\ pc' = [pc EXCEPT ![c] = "restore"]
          /\ outcome' = outcome
      BY <1>3, <2>1 DEF CompareSnapshots
    <3>5. SemanticallyEquivalent(study[c], experiment_id[c])'
      BY <2>1, <3>4 DEF SemanticallyEquivalent, IncomingSnapshot, StoredSnapshot
    <3> QED
      BY <1>3, <3>1, <3>3, <3>4, <3>5
         DEF CompareSnapshots, TypeOK, ClientInv, HoldsStoredStudy
  <2>2. CASE ~SemanticallyEquivalent(s, e)
    BY <1>3, <2>2 DEF CompareSnapshots, TypeOK, ClientInv
  <2> QED
    BY <2>1, <2>2
<1>4. CASE RestoreExperiment(c)
  BY <1>4 DEF RestoreExperiment, TypeOK, ClientInv, HoldsStoredStudy
<1>5. CASE InsertExperiment(c)
  <2> DEFINE s == study[c]
             row == [identity |-> s.identity, config |-> s.config, horizon |-> s.horizon]
             n == Len(experiments) + 1
  <2>1. CASE RowsOf(s.identity) # {}
    BY <1>5, <2>1 DEF InsertExperiment, TypeOK, ClientInv
  <2>2. CASE RowsOf(s.identity) = {}
    <3>1. /\ experiments' = Append(experiments, row)
          /\ cohorts' = Append(cohorts, s.cohorts)
          /\ experiment_id' = [experiment_id EXCEPT ![c] = n]
          /\ pc' = [pc EXCEPT ![c] = "save_plan"]
          /\ UNCHANGED <<outcome, study>>
      BY <1>5, <2>2 DEF InsertExperiment
    <3>2. n \in DOMAIN experiments' /\ experiments'[n] = row
      BY <3>1, AppendKeeps DEF TypeOK
    <3>3. cohorts'[n] = s.cohorts
      BY <3>1, AppendKeeps DEF TypeOK
    <3>4. experiment_id'[c] = n /\ pc'[c] = "save_plan"
      BY <3>1 DEF TypeOK
    <3>5. HoldsStoredStudy(c)'
      BY <3>1, <3>2, <3>4 DEF HoldsStoredStudy
    <3>6. s \in Studies /\ outcome[c] = "running"
      BY <1>5 DEF InsertExperiment, ClientInv
    <3> QED
      BY <3>1, <3>3, <3>4, <3>5, <3>6 DEF ClientInv
  <2> QED
    BY <2>1, <2>2
<1>6. CASE SavePlanCheck(c)
  BY <1>6 DEF SavePlanCheck, TypeOK, ClientInv, HoldsStoredStudy
<1>7. CASE InsertPlan(c)
  <2> DEFINE s == study[c]
             e == experiment_id[c]
             row == [experiment |-> e, units |-> UnitRows(s.units)]
             n == Len(plans) + 1
  <2>1. /\ HoldsStoredStudy(c) /\ outcome[c] = "running"
        /\ plan_id' = [plan_id EXCEPT ![c] = n]
        /\ UNCHANGED <<outcome, study, experiment_id>>
        /\ pc' = [pc EXCEPT ![c] = IF s.command = "optimize" THEN "execute"
                                   ELSE "save_result"]
    BY <1>7 DEF InsertPlan, ClientInv
  <2>2. plans' = Append(plans, row) /\ UNCHANGED experiments
    BY <1>7, PlanInserted
  <2>3. plan_id'[c] = n /\ pc'[c] \in {"execute", "save_result"}
    BY <2>1 DEF TypeOK
  <2>4. n \in DOMAIN plans' /\ plans'[n] = row
    BY <2>2, AppendKeeps, SMTT(30) DEF TypeOK
  <2>5. HoldsPlan(c)'
    BY <2>1, <2>2, <2>3, <2>4 DEF HoldsPlan, HoldsStoredStudy
  <2> QED
    BY <2>1, <2>3, <2>5 DEF ClientInv
<1>8. CASE ExecuteOptimalPlan(c)
  BY <1>8 DEF ExecuteOptimalPlan, TypeOK, ClientInv, HoldsPlan, HoldsStoredStudy
<1>9. CASE SaveResultCheck(c)
  BY <1>9 DEF SaveResultCheck, TypeOK, ClientInv, HoldsPlan, HoldsStoredStudy
<1>10. CASE InsertResult(c)
  <2> DEFINE p == plan_id[c]
             row == [plan |-> p, total_units |-> Len(plans[p].units)]
             n == Len(results) + 1
  <2>1. CASE ResultExists(p)
    BY <1>10, <2>1 DEF InsertResult, TypeOK, ClientInv
  <2>2. CASE ~ResultExists(p)
    <3>1. /\ results' = Append(results, row)
          /\ result_id' = [result_id EXCEPT ![c] = n]
          /\ pc' = [pc EXCEPT ![c] = "idle"]
          /\ outcome' = [outcome EXCEPT ![c] = "persisted"]
          /\ UNCHANGED <<experiments, plans, study, experiment_id, plan_id>>
      <4>1. TotalUnits(c) = Len(plans[p].units)
        BY <1>10, SimulatedAsPlanned DEF ClientInv, InsertResult
      <4> QED
        BY <1>10, <2>2, <4>1 DEF InsertResult
    <3>2. row.plan = p
      OBVIOUS
    <3>3. n \in DOMAIN results' /\ results'[n] = row
      BY <3>1, AppendKeeps DEF TypeOK
    <3>4. HoldsResult(c)'
      BY <3>1, <3>2, <3>3 DEF HoldsResult, TypeOK
    <3>5. HoldsPlan(c)'
      BY <1>10, <3>1 DEF InsertResult, ClientInv, HoldsPlan, HoldsStoredStudy
    <3> QED
      BY <3>1, <3>4, <3>5 DEF ClientInv, TypeOK
  <2> QED
    BY <2>1, <2>2
<1>11. CASE LogicalDelete(c)
  BY <1>11 DEF LogicalDelete, TypeOK, ClientInv
<1>12. CASE ExportExperiment(c)
  BY <1>12 DEF ExportExperiment, TypeOK, ClientInv
<1>13. CASE ExportPlan(c)
  <2>1. find_plan_by_experiment(experiment_id[c]) # 0 =>
            find_plan_by_experiment(experiment_id[c]) \in CompletedPlans(experiment_id[c])
    BY FoundPlanIsCompleted
  <2> QED
    BY <1>13, <2>1 DEF ExportPlan, CompletedPlans, TypeOK, ClientInv
<1>14. CASE ExportResult(c)
  <2>1. ExportedResult(c) # 0 => ExportedResult(c) \in ResultsOf(plan_id[c])
    BY FoundResultIsResult DEF ExportedResult
  <2> QED
    BY <1>14, <2>1 DEF ExportResult, ResultsOf, TypeOK, ClientInv, HoldsResult
<1>15. CASE DatabaseLocked(c)
  <2>1. CASE RetriesLeft(c)
    <3>1. UNCHANGED <<tables, locals, pc, outcome>>
      BY <1>15, <2>1 DEF DatabaseLocked
    <3>2. Untouched(c)
      BY <3>1 DEF Untouched
    <3> QED
      BY <3>2, BystanderKnows
  <2>2. CASE ~RetriesLeft(c)
    BY <1>15, <2>2 DEF DatabaseLocked, TypeOK, ClientInv
  <2> QED
    BY <2>1, <2>2
<1>16. CASE Crash(c)
  BY <1>16 DEF Crash, TypeOK, ClientInv
<1> QED
  BY <1>1, <1>2, <1>3, <1>4, <1>5, <1>6, <1>7, <1>8, <1>9, <1>10, <1>11, <1>12,
     <1>13, <1>14, <1>15, <1>16 DEF Step

LEMMA InitIInv == Init => IInv
<1> SUFFICES ASSUME Init PROVE IInv
  OBVIOUS
<1>1. TypeOK
  BY BoundsAssumption DEF Init, TypeOK, Labels, Outcomes
<1>2. TablesInv
  BY DEF Init, TablesInv, UniqueIdentity, CompletedIffOneResult, References,
         FirstPolicyStored
<1>3. ClientsInv
  BY DEF Init, ClientsInv, ClientInv, Saving
<1> QED
  BY <1>1, <1>2, <1>3 DEF IInv

LEMMA NextIInv == IInv /\ [Next]_vars => IInv'
<1> SUFFICES ASSUME IInv, [Next]_vars PROVE IInv'
  OBVIOUS
<1>1. TypeOK' /\ TablesInv' /\ RowsKept
  BY TypeStep, TablesStep, RowsStep
<1>2. CASE UNCHANGED vars
  <2>1. ASSUME NEW d \in Clients PROVE ClientInv(d)'
    <3>1. Untouched(d)
      BY <1>2 DEF vars, locals, Untouched
    <3> QED
      BY <1>1, <3>1, BystanderKnows
  <2> QED
    BY <1>1, <2>1 DEF IInv, ClientsInv
<1>3. ASSUME NEW c \in Clients, Start(c) \/ Step(c) \/ Crash(c) PROVE IInv'
  <2>1. ClientInv(c)'
    BY <1>1, <1>3, ActorKnows
  <2>2. ASSUME NEW d \in Clients, d # c PROVE ClientInv(d)'
    BY <1>1, <1>3, <2>2, OthersUntouched, BystanderKnows DEF IInv
  <2> QED
    BY <1>1, <2>1, <2>2 DEF IInv, ClientsInv
<1> QED
  BY <1>2, <1>3 DEF Next

LEMMA Invariance == Spec => []IInv
BY InitIInv, NextIInv, PTL DEF Spec

-----------------------------------------------------------------------------
(***************************************************************************)
(* Theorems.                                                               *)
(***************************************************************************)

\* Every table and every local of every process keeps its type.
THEOREM TypeCorrect == Spec => []TypeOK
<1>1. IInv => TypeOK
  BY DEF IInv
<1> QED
  BY <1>1, Invariance, PTL

\* However many processes check an identity before any of them inserts it,
\* one row has it: save_experiment never stores an identity twice.
THEOREM IdentityIsUnique == Spec => []UniqueIdentity
<1>1. IInv => UniqueIdentity
  BY DEF IInv, TablesInv
<1> QED
  BY <1>1, Invariance, PTL

\* The status of a plan and its row in execution_results agree, and the row
\* is the only one: save_execution_result stores a result at most once.
THEOREM OneResultPerPlan == Spec => []CompletedIffOneResult
<1>1. IInv => CompletedIffOneResult
  BY DEF IInv, TablesInv
<1> QED
  BY <1>1, Invariance, PTL

\* A command that reports its study as persisted has stored it: experiment,
\* plan and result belong together and are those of the study.
THEOREM PersistedStudyIsStored == Spec => []PersistedIsStored
<1>1. ASSUME IInv PROVE PersistedIsStored
  <2> SUFFICES ASSUME NEW c \in Clients, outcome[c] = "persisted", study[c] # NoStudy
               PROVE  /\ results[result_id[c]] = [plan |-> plan_id[c],
                                                  total_units |-> Len(study[c].units)]
                      /\ HoldsPlan(c)
    BY DEF PersistedIsStored, HoldsPlan, HoldsStoredStudy
  <2>1. /\ HoldsPlan(c) /\ HoldsResult(c)
        /\ References /\ TypeOK
    BY <1>1 DEF IInv, TablesInv, ClientsInv, ClientInv
  <2>2. plans[plan_id[c]].units = UnitRows(study[c].units)
    BY <2>1 DEF HoldsPlan
  <2>3. study[c] \in Studies
    BY <2>1 DEF TypeOK
  <2>4. Len(UnitRows(study[c].units)) = Len(study[c].units)
    BY <2>3, StudiesAssumption DEF UnitRows
  <2>5. results[result_id[c]] \in ResultRows
    BY <2>1 DEF HoldsResult, TypeOK
  <2>6. /\ results[result_id[c]].plan = plan_id[c]
        /\ results[result_id[c]].total_units = Len(study[c].units)
    BY <2>1, <2>2, <2>4 DEF HoldsResult, References
  <2> QED
    BY <2>1, <2>5, <2>6 DEF ResultRows
<1> QED
  BY <1>1, Invariance, PTL

\* get_export_data returns one row of the join, although it reads the three
\* tables one after the other.
THEOREM ExportConsistent == Spec => []ExportIsConsistent
<1>1. ASSUME IInv PROVE ExportIsConsistent
  <2> SUFFICES ASSUME NEW c \in Clients, outcome[c] = "exported"
               PROVE  /\ results[result_id[c]] =
                            [plan |-> plan_id[c],
                             total_units |-> Len(plans[plan_id[c]].units)]
                      /\ plans[plan_id[c]].experiment = experiment_id[c]
    BY DEF ExportIsConsistent
  <2>1. /\ HoldsResult(c) /\ References /\ TypeOK
        /\ plans[plan_id[c]].experiment = experiment_id[c]
    BY <1>1 DEF IInv, TablesInv, ClientsInv, ClientInv
  <2>2. results[result_id[c]] \in ResultRows
    BY <2>1 DEF HoldsResult, TypeOK
  <2> QED
    BY <2>1, <2>2 DEF HoldsResult, References, ResultRows
<1> QED
  BY <1>1, Invariance, PTL

\* The completed plan an export has found has its result, so the branch for a
\* plan without one is dead.
THEOREM ExportFindsResult == Spec => []ExportFindsTheResult
<1>1. ASSUME IInv PROVE ExportFindsTheResult
  BY <1>1, RowIds DEF IInv, TablesInv, CompletedIffOneResult, ClientsInv, ClientInv,
                      ExportFindsTheResult
<1> QED
  BY <1>1, Invariance, PTL

\* A study that is listed as completed is exportable: the newest plan, when it
\* is completed, is the newest completed plan, and it has its result.
THEOREM CompletedExportable == Spec => []CompletedIsExportable
<1>1. ASSUME IInv PROVE CompletedIsExportable
  <2> SUFFICES ASSUME NEW e \in DOMAIN experiments, ListedPlan(e) \in completed
               PROVE  LET p == find_plan_by_experiment(e)  r == find_result_by_plan(p) IN
                      /\ p = ListedPlan(e)
                      /\ r # 0 /\ results[r].total_units = Len(plans[p].units)
    BY DEF CompletedIsExportable
  <2> DEFINE p == ListedPlan(e)
             newest == {q \in PlansOf(e) : \A o \in PlansOf(e) : o <= q}
  <2>1. TypeOK /\ CompletedIffOneResult /\ References
    BY <1>1 DEF IInv, TablesInv
  <2>2. p # 0
    BY <2>1, RowIds, <1>1
  <2>3. p \in newest
    BY <2>2 DEF ListedPlan
  <2>4. /\ p \in PlansOf(e) /\ \A q \in PlansOf(e) : q <= p
        /\ p \in Nat
    BY <2>1, <2>3 DEF PlansOf, TypeOK
  <2>5. CompletedPlans(e) \subseteq PlansOf(e) /\ CompletedPlans(e) \subseteq Nat
    BY <2>1 DEF CompletedPlans, PlansOf, TypeOK
  <2>6. p \in CompletedPlans(e)
    BY <2>4 DEF CompletedPlans, PlansOf
  <2>7. {q \in CompletedPlans(e) : \A o \in CompletedPlans(e) : o <= q} = {p}
    BY <2>4, <2>5, <2>6
  <2>8. find_plan_by_experiment(e) = p
    BY <2>7 DEF find_plan_by_experiment
  <2>9. ResultsOf(p) # {} /\ p \in DOMAIN plans
    BY <2>1, <2>6 DEF CompletedIffOneResult, CompletedPlans, TypeOK
  <2>10. find_result_by_plan(p) \in ResultsOf(p)
    BY <2>9 DEF find_result_by_plan
  <2>11. /\ find_result_by_plan(p) \in DOMAIN results
         /\ results[find_result_by_plan(p)].plan = p
    BY <2>10 DEF ResultsOf
  <2>12. find_result_by_plan(p) # 0
    BY <2>1, <2>11 DEF TypeOK
  <2> QED
    BY <2>1, <2>8, <2>11, <2>12 DEF References
<1> QED
  BY <1>1, Invariance, PTL

\* What an experiment deterministically is stays as it was saved, whatever
\* units are associated with it afterwards.
THEOREM SnapshotImmutable == Spec => SnapshotNeverChanges
<1>1. ASSUME IInv, [Next]_vars
      PROVE  \A e \in DOMAIN experiments :
                /\ e \in DOMAIN experiments'
                /\ StoredSnapshot(e)' = StoredSnapshot(e)
  BY <1>1, RowsStep, SnapshotKept DEF RowsKept
<1> QED
  BY <1>1, Invariance, PTL DEF Spec, SnapshotNeverChanges

\* Nothing but the save of an equivalent study makes a deleted experiment
\* visible again.
THEOREM RestoreNeedsEquivalence == Spec => RestoreOnlyByEquivalentStudy
<1>1. ASSUME IInv, [Next]_vars, NEW e \in deletedExperiments, e \notin deletedExperiments'
      PROVE  \E c \in Clients : /\ pc[c] = "restore" /\ experiment_id[c] = e
                                /\ IncomingSnapshot(study[c]) = StoredSnapshot(e)
  <2>1. PICK c \in Clients : RestoreExperiment(c)
    BY <1>1, ZenonT(60) DEF Next, Start, Step, Crash, vars, tables, experimentTables, Begin,
                StartPersisting, StartSavingResult, StartDeleting, StartExporting,
                SaveExperimentCheck, CompareSnapshots, InsertExperiment, SavePlanCheck,
                InsertPlan, ExecuteOptimalPlan, SaveResultCheck, InsertResult,
                LogicalDelete, ExportExperiment, ExportPlan, ExportResult, DatabaseLocked
  <2>2. pc[c] = "restore" /\ experiment_id[c] = e
    BY <1>1, <2>1 DEF RestoreExperiment
  <2> QED
    BY <1>1, <2>2 DEF IInv, ClientsInv, ClientInv, SemanticallyEquivalent
<1>2. ASSUME IInv, [Next]_vars
      PROVE  \A e \in deletedExperiments :
                e \notin deletedExperiments' =>
                    \E c \in Clients :
                        /\ pc[c] = "restore" /\ experiment_id[c] = e
                        /\ IncomingSnapshot(study[c]) = StoredSnapshot(e)
  BY <1>1, <1>2
<1> QED
  BY <1>2, Invariance, PTL DEF Spec, RestoreOnlyByEquivalentStudy

-----------------------------------------------------------------------------
(***************************************************************************)
(* Refinement.  The ledger sees the rows of the experiments, their         *)
(* deletion marks, and the plans with their status.  Each transaction that *)
(* writes one of them is one ledger operation on the identity of its       *)
(* experiment, and everything else a process does is invisible.            *)
(***************************************************************************)

TheLedger == [i \in Identities |-> LedgerEntry(i)]

Executions(e) ==
    [p \in {q \in DOMAIN plans : plans[q].experiment = e} |->
        IF p \in completed THEN "completed" ELSE "planned"]

\* The entry of a row.
LedgerRow(e) ==
    [state |-> IF e \in deletedExperiments THEN "deleted" ELSE "active",
     content |-> StoredSnapshot(e),
     executions |-> Executions(e)]

\* A row is the only one of its identity, before a step and after it.
LEMMA EntryOfRow ==
    ASSUME TypeOK, UniqueIdentity, NEW e \in DOMAIN experiments
    PROVE  /\ experiments[e].identity \in Identities
           /\ RowOf(experiments[e].identity) = e
           /\ LedgerEntry(experiments[e].identity) = LedgerRow(e)
<1>1. experiments[e].identity \in Identities
  <2>1. experiments[e] \in ExperimentRows
    BY DEF TypeOK
  <2> QED
    BY <2>1 DEF ExperimentRows
<1>2. RowsOf(experiments[e].identity) = {e}
  BY DEF RowsOf, UniqueIdentity
<1>3. RowOf(experiments[e].identity) = e /\ e # 0
  BY <1>2, RowIds DEF RowOf
<1> QED
  BY <1>1, <1>3 DEF LedgerEntry, LedgerRow, Executions

LEMMA EntryOfRowAfter ==
    ASSUME TypeOK', UniqueIdentity', NEW e \in DOMAIN experiments',
           NEW i, experiments'[e].identity = i
    PROVE  LedgerEntry(i)' = LedgerRow(e)'
<1>1. \A d : d \in RowsOf(i)' <=> d = e
  BY DEF RowsOf, UniqueIdentity
<1>2. RowsOf(i)' = {e}
  BY <1>1
<1>3. e # 0
  BY DEF TypeOK
<1>4. RowOf(i)' = e
  BY <1>2 DEF RowOf
<1> QED
  BY <1>3, <1>4 DEF LedgerEntry, LedgerRow, Executions

LEMMA EntryWithoutRow ==
    ASSUME NEW i
    PROVE  /\ RowsOf(i) = {} => LedgerEntry(i) = [state |-> "absent"]
           /\ RowsOf(i)' = {} => LedgerEntry(i)' = [state |-> "absent"]
BY DEF LedgerEntry, RowOf

\* A step that adds no experiment and touches one row changes one entry.
LEMMA OneEntryChanges ==
    ASSUME IInv, IInv', UNCHANGED experiments, NEW e \in DOMAIN experiments,
           \A d \in DOMAIN experiments \ {e} : LedgerRow(d)' = LedgerRow(d)
    PROVE  LET i == experiments[e].identity IN
           /\ i \in Identities
           /\ TheLedger[i] = LedgerRow(e)
           /\ TheLedger' = [TheLedger EXCEPT ![i] = LedgerRow(e)']
<1> DEFINE i == experiments[e].identity
           L == TheLedger
           M == [L EXCEPT ![i] = LedgerRow(e)']
<1> TypeOK /\ UniqueIdentity /\ TypeOK' /\ UniqueIdentity'
  BY DEF IInv, TablesInv
<1>1. i \in Identities /\ TheLedger[i] = LedgerRow(e)
  BY EntryOfRow DEF TheLedger
<1>2. Identities' = Identities
  BY DEF Identities
<1>3. ASSUME NEW j \in Identities PROVE LedgerEntry(j)' = M[j]
  <2>1. M[j] = IF j = i THEN LedgerRow(e)' ELSE LedgerEntry(j)
    BY <1>1 DEF TheLedger
  <2>2. CASE RowsOf(j) = {}
    <3>1. RowsOf(j)' = {} /\ j # i
      BY <2>2 DEF RowsOf
    <3> QED
      BY <2>1, <2>2, <3>1, EntryWithoutRow
  <2>3. CASE RowsOf(j) # {}
    <3>1. PICK d \in DOMAIN experiments : experiments[d].identity = j
      BY <2>3 DEF RowsOf
    <3>2. LedgerEntry(j) = LedgerRow(d)
      BY <3>1, EntryOfRow
    <3>3. LedgerEntry(j)' = LedgerRow(d)'
      BY <3>1, EntryOfRowAfter
    <3>4. d = e <=> j = i
      BY <3>1 DEF UniqueIdentity
    <3> QED
      BY <2>1, <3>2, <3>3, <3>4
  <2> QED
    BY <2>2, <2>3
<1>4. TheLedger' = [j \in Identities |-> LedgerEntry(j)']
  BY <1>2 DEF TheLedger
<1>5. M = [j \in Identities |-> M[j]]
  BY DEF TheLedger
<1> QED
  BY <1>1, <1>3, <1>4, <1>5

\* An action of a single row, in terms of the ledger.
LEMMA RowDeleted ==
    ASSUME IInv, IInv', NEW e \in DOMAIN experiments, UNCHANGED storedRows,
           deletedExperiments' = deletedExperiments \cup {e}
    PROVE  Ledger!Delete(experiments[e].identity)
<1> DEFINE i == experiments[e].identity
<1>1. \A d \in DOMAIN experiments \ {e} : LedgerRow(d)' = LedgerRow(d)
  BY DEF LedgerRow, Executions, StoredSnapshot, storedRows
<1>2. /\ i \in Identities /\ TheLedger[i] = LedgerRow(e)
      /\ TheLedger' = [TheLedger EXCEPT ![i] = LedgerRow(e)']
  BY <1>1, OneEntryChanges DEF storedRows
<1>3. /\ LedgerRow(e)' = [LedgerRow(e) EXCEPT !.state = "deleted"]
      /\ LedgerRow(e).state # "absent"
  <2>1. StoredSnapshot(e)' = StoredSnapshot(e) /\ Executions(e)' = Executions(e)
    BY DEF Executions, StoredSnapshot, storedRows
  <2>2. e \in deletedExperiments'
    OBVIOUS
  <2> QED
    BY <2>1, <2>2 DEF LedgerRow
<1>4. TheLedger' = [TheLedger EXCEPT ![i].state = "deleted"]
  BY <1>2, <1>3
<1>5. Len(plans)' = Len(plans)
  BY DEF storedRows
<1> QED
  BY <1>2, <1>3, <1>4, <1>5 DEF Ledger!Delete, Ledger!Present, TheLedger

LEMMA RowRevived ==
    ASSUME IInv, IInv', NEW e \in DOMAIN experiments, UNCHANGED storedRows,
           deletedExperiments' = deletedExperiments \ {e}
    PROVE  Ledger!Revive(experiments[e].identity)
<1> DEFINE i == experiments[e].identity
<1>1. \A d \in DOMAIN experiments \ {e} : LedgerRow(d)' = LedgerRow(d)
  BY DEF LedgerRow, Executions, StoredSnapshot, storedRows
<1>2. /\ i \in Identities /\ TheLedger[i] = LedgerRow(e)
      /\ TheLedger' = [TheLedger EXCEPT ![i] = LedgerRow(e)']
  BY <1>1, OneEntryChanges DEF storedRows
<1>3. /\ LedgerRow(e)' = [LedgerRow(e) EXCEPT !.state = "active"]
      /\ LedgerRow(e).state # "absent"
  <2>1. StoredSnapshot(e)' = StoredSnapshot(e) /\ Executions(e)' = Executions(e)
    BY DEF Executions, StoredSnapshot, storedRows
  <2>2. e \notin deletedExperiments'
    OBVIOUS
  <2> QED
    BY <2>1, <2>2 DEF LedgerRow
<1>4. TheLedger' = [TheLedger EXCEPT ![i].state = "active"]
  BY <1>2, <1>3
<1>5. Len(plans)' = Len(plans)
  BY DEF storedRows
<1> QED
  BY <1>2, <1>3, <1>4, <1>5 DEF Ledger!Revive, Ledger!Present, TheLedger

\* The transaction of save_plan is the planning of an execution.
LEMMA PlanPlanned ==
    ASSUME IInv, IInv', NEW c \in Clients, InsertPlan(c), NEW e, e = experiment_id[c]
    PROVE  \E i \in Identities : Ledger!Plan(i)
<1> DEFINE i == experiments[e].identity
           n == Len(plans) + 1
           row == [experiment |-> e, units |-> UnitRows(study[c].units)]
<1>1. /\ e \in DOMAIN experiments
      /\ UNCHANGED <<experiments, experiment_policies, cohorts, completed, deletedExperiments>>
      /\ plans' = Append(plans, row)
  BY PlanInserted DEF InsertPlan
<1>2. row.experiment = e
  OBVIOUS
<1> HIDE DEF row
<1>3. /\ DOMAIN plans' = DOMAIN plans \cup {n} /\ n \notin DOMAIN plans
      /\ plans'[n] = row /\ \A p \in DOMAIN plans : plans'[p] = plans[p]
      /\ Len(plans)' = n
  <2>1. plans \in Seq(PlanRows)
    BY DEF IInv, TypeOK
  <2> QED
    BY <1>1, <2>1, AppendKeeps
<1>4. n \notin completed
  BY <1>3 DEF IInv, TypeOK
<1>5. ASSUME NEW d \in DOMAIN experiments \ {e} PROVE LedgerRow(d)' = LedgerRow(d)
  <2>1. {q \in DOMAIN plans' : plans'[q].experiment = d}
            = {q \in DOMAIN plans : plans[q].experiment = d}
    BY <1>2, <1>3
  <2>2. Executions(d)' = Executions(d)
    BY <1>1, <2>1 DEF Executions
  <2> QED
    BY <1>1, <2>2 DEF LedgerRow, StoredSnapshot
<1>6. /\ i \in Identities /\ TheLedger[i] = LedgerRow(e)
      /\ TheLedger' = [TheLedger EXCEPT ![i] = LedgerRow(e)']
  BY <1>1, <1>5, OneEntryChanges
<1>7. LedgerRow(e)' =
        [LedgerRow(e) EXCEPT !.executions =
            [p \in DOMAIN @ \cup {n} |-> IF p = n THEN "planned" ELSE @[p]]]
  <2>1. {q \in DOMAIN plans' : plans'[q].experiment = e}
            = {q \in DOMAIN plans : plans[q].experiment = e} \cup {n}
    BY <1>2, <1>3
  <2>2. Executions(e)' =
            [p \in DOMAIN Executions(e) \cup {n} |->
                IF p = n THEN "planned" ELSE Executions(e)[p]]
    BY <1>1, <1>3, <1>4, <2>1 DEF Executions
  <2> QED
    BY <1>1, <2>2 DEF LedgerRow, StoredSnapshot
<1>8. TheLedger' =
        [TheLedger EXCEPT ![i].executions =
            [p \in DOMAIN @ \cup {n} |-> IF p = n THEN "planned" ELSE @[p]]]
  BY <1>6, <1>7
<1>9. TheLedger[i].state # "absent"
  BY <1>6 DEF LedgerRow
<1> QED
  BY <1>3, <1>6, <1>8, <1>9 DEF Ledger!Plan, Ledger!Present, TheLedger

\* The transaction of save_execution_result completes a planned execution.
LEMMA ResultCompletes ==
    ASSUME IInv, IInv', NEW c \in Clients, InsertResult(c), ~ResultExists(plan_id[c]),
           NEW p, p = plan_id[c]
    PROVE  \E i \in Identities : Ledger!Complete(i)
<1> TypeOK /\ TablesInv
  BY DEF IInv
<1>1. /\ UNCHANGED <<experiments, experiment_policies, cohorts, deletedExperiments, plans>>
      /\ completed' = completed \cup {p}
  BY DEF InsertResult, experimentTables
<1>2. p \in DOMAIN plans
  BY DEF IInv, ClientsInv, ClientInv, InsertResult, HoldsPlan
<1>3. p \notin completed
  BY <1>2 DEF ResultExists, TablesInv, CompletedIffOneResult
<1>4. PICK e \in DOMAIN experiments : plans[p].experiment = e
  BY <1>2 DEF TablesInv, References
<1> DEFINE i == experiments[e].identity
<1>5. ASSUME NEW d \in DOMAIN experiments
      PROVE  /\ StoredSnapshot(d)' = StoredSnapshot(d)
             /\ DOMAIN Executions(d)' = DOMAIN Executions(d)
             /\ d # e => Executions(d)' = Executions(d)
             /\ d = e => p \in DOMAIN Executions(d)
             /\ \A q \in DOMAIN Executions(d) \ {p} :
                    Executions(d)'[q] = Executions(d)[q]
             /\ d = e => /\ Executions(d)[p] = "planned"
                         /\ Executions(d)' = [Executions(d) EXCEPT ![p] = "completed"]
  <2>1. StoredSnapshot(d)' = StoredSnapshot(d)
    BY <1>1 DEF StoredSnapshot
  <2> DEFINE own == {q \in DOMAIN plans : plans[q].experiment = d}
  <2>2. Executions(d) = [q \in own |-> IF q \in completed THEN "completed" ELSE "planned"]
    BY DEF Executions
  <2>3. Executions(d)' = [q \in own |-> IF q \in completed' THEN "completed" ELSE "planned"]
    BY <1>1 DEF Executions
  <2>4. p \in own <=> d = e
    BY <1>2, <1>4
  <2> HIDE DEF own
  <2>5. \A q \in own \ {p} : q \in completed' <=> q \in completed
    BY <1>1
  <2> QED
    BY <1>1, <1>3, <2>1, <2>2, <2>3, <2>4, <2>5
<1>6. \A d \in DOMAIN experiments \ {e} : LedgerRow(d)' = LedgerRow(d)
  BY <1>1, <1>5 DEF LedgerRow
<1>7. /\ i \in Identities /\ TheLedger[i] = LedgerRow(e)
      /\ TheLedger' = [TheLedger EXCEPT ![i] = LedgerRow(e)']
  BY <1>1, <1>6, OneEntryChanges
<1>8. LedgerRow(e)' = [LedgerRow(e) EXCEPT !.executions[p] = "completed"]
  BY <1>1, <1>5 DEF LedgerRow
<1>9. TheLedger' = [TheLedger EXCEPT ![i].executions[p] = "completed"]
  BY <1>7, <1>8
<1>10. /\ TheLedger[i].state # "absent"
       /\ p \in DOMAIN TheLedger[i].executions
       /\ TheLedger[i].executions[p] = "planned"
  BY <1>5, <1>7 DEF LedgerRow
<1>11. Len(plans)' = Len(plans)
  BY <1>1
<1> QED
  BY <1>7, <1>9, <1>10, <1>11 DEF Ledger!Complete, Ledger!Present, TheLedger

\* The transaction of save_experiment registers its study: nothing has the
\* identity yet, and no plan can reference the row it makes.
LEMMA ExperimentRegisters ==
    ASSUME IInv, IInv', NEW c \in Clients, InsertExperiment(c),
           NEW s, s = study[c], RowsOf(s.identity) = {}
    PROVE  \E i \in Identities : Ledger!Register(i)
<1> TypeOK /\ TablesInv /\ TypeOK' /\ UniqueIdentity /\ UniqueIdentity'
  BY DEF IInv, TablesInv
<1> DEFINE n == Len(experiments) + 1
           i == s.identity
           row == [identity |-> s.identity, config |-> s.config, horizon |-> s.horizon]
           content == [IncomingSnapshot(s) EXCEPT
                          !.policies = InIndexOrder(PolicyRows(s.policies))]
<1>1. s \in Studies
  BY DEF IInv, ClientsInv, ClientInv, Saving, InsertExperiment
<1>2. /\ experiments' = Append(experiments, row)
      /\ experiment_policies' = Append(experiment_policies, PolicyRows(s.policies))
      /\ cohorts' = Append(cohorts, s.cohorts)
      /\ UNCHANGED <<deletedExperiments, plans, completed>>
  BY DEF InsertExperiment, planTables
<1>3. i \in Identities /\ content \in StoredContents
  BY <1>1 DEF Identities, StoredContents
<1>4. /\ row.identity = s.identity /\ row.config = s.config /\ row.horizon = s.horizon
  OBVIOUS
<1> HIDE DEF row
<1>5. /\ DOMAIN experiments' = DOMAIN experiments \cup {n} /\ n \notin DOMAIN experiments
      /\ experiments'[n] = row
      /\ \A e \in DOMAIN experiments : experiments'[e] = experiments[e]
  BY <1>2, AppendKeeps, SMTT(30) DEF TypeOK
<1>6. /\ experiment_policies'[n] = PolicyRows(s.policies) /\ cohorts'[n] = s.cohorts
      /\ \A e \in DOMAIN experiments : /\ experiment_policies'[e] = experiment_policies[e]
                                       /\ cohorts'[e] = cohorts[e]
  <2>1. /\ experiment_policies \in Seq(PolicyTables) /\ cohorts \in Seq(SUBSET Cohorts)
        /\ Len(experiment_policies) = Len(experiments) /\ Len(cohorts) = Len(experiments)
        /\ DOMAIN experiment_policies = DOMAIN experiments
        /\ DOMAIN cohorts = DOMAIN experiments
    BY RowIds DEF TypeOK
  <2>2. /\ experiment_policies'[n] = PolicyRows(s.policies)
        /\ \A e \in DOMAIN experiments : experiment_policies'[e] = experiment_policies[e]
    BY <1>2, <2>1, AppendKeeps
  <2>3. /\ cohorts'[n] = s.cohorts
        /\ \A e \in DOMAIN experiments : cohorts'[e] = cohorts[e]
    BY <1>2, <2>1, AppendKeeps
  <2> QED
    BY <2>2, <2>3
<1>7. PICK m : m = n
  OBVIOUS
<1>8. ASSUME NEW e \in DOMAIN experiments PROVE LedgerRow(e)' = LedgerRow(e)
  BY <1>2, <1>5, <1>6 DEF LedgerRow, StoredSnapshot, Executions
<1>9. StoredSnapshot(m)' = content
  <2>1. content = [identity |-> s.identity, config |-> s.config, horizon |-> s.horizon,
                   policies |-> InIndexOrder(PolicyRows(s.policies)),
                   cohorts |-> s.cohorts]
    <3>1. PICK policies : policies = [k \in DOMAIN s.policies |-> Codec[s.policies[k]]]
      OBVIOUS
    <3>2. PICK stored : stored = InIndexOrder(PolicyRows(s.policies))
      OBVIOUS
    <3>3. IncomingSnapshot(s) =
              [identity |-> s.identity, config |-> s.config, horizon |-> s.horizon,
               policies |-> policies, cohorts |-> s.cohorts]
      BY <3>1 DEF IncomingSnapshot
    <3> QED
      BY <3>2, <3>3
  <2>2. StoredSnapshot(m)' =
            [identity |-> experiments'[m].identity, config |-> experiments'[m].config,
             horizon |-> experiments'[m].horizon,
             policies |-> InIndexOrder(experiment_policies'[m]),
             cohorts |-> cohorts'[m]]
    BY DEF StoredSnapshot
  <2> QED
    BY <1>4, <1>5, <1>6, <1>7, <2>1, <2>2
<1>10. /\ Executions(m)' = [p \in {} |-> "planned"]
       /\ m \notin deletedExperiments'
  <2>1. {q \in DOMAIN plans' : plans'[q].experiment = m} = {}
    BY <1>2, <1>5, <1>7 DEF TablesInv, References
  <2>2. m \notin deletedExperiments'
    BY <1>2, <1>5, <1>7 DEF TypeOK
  <2> QED
    BY <2>1, <2>2 DEF Executions
<1>11. LedgerRow(m)' = [state |-> "active", content |-> content,
                        executions |-> [p \in {} |-> "planned"]]
  BY <1>9, <1>10 DEF LedgerRow
<1> HIDE DEF content
<1>12. ASSUME NEW j \in Identities
       PROVE  LedgerEntry(j)' = IF j = i THEN LedgerRow(m)' ELSE LedgerEntry(j)
  <2>1. CASE j = i
    BY <1>4, <1>5, <1>7, <2>1, EntryOfRowAfter
  <2>2. CASE j # i /\ RowsOf(j) = {}
    <3>1. RowsOf(j)' = {}
      BY <1>4, <1>5, <2>2 DEF RowsOf
    <3> QED
      BY <2>2, <3>1, EntryWithoutRow
  <2>3. CASE j # i /\ RowsOf(j) # {}
    <3>1. PICK d \in DOMAIN experiments : experiments[d].identity = j
      BY <2>3 DEF RowsOf
    <3>2. LedgerEntry(j) = LedgerRow(d)
      BY <3>1, EntryOfRow
    <3>3. d \in DOMAIN experiments' /\ experiments'[d].identity = j
      BY <1>5, <3>1
    <3>4. LedgerEntry(j)' = LedgerRow(d)'
      BY <3>3, EntryOfRowAfter
    <3> QED
      BY <1>8, <2>3, <3>2, <3>4
  <2> QED
    BY <2>1, <2>2, <2>3
<1>13. TheLedger' = [TheLedger EXCEPT ![i] = [state |-> "active", content |-> content,
                                              executions |-> [p \in {} |-> "planned"]]]
  <2> DEFINE L == TheLedger
             M == [L EXCEPT ![i] = LedgerRow(m)']
  <2>1. TheLedger' = [j \in Identities |-> LedgerEntry(j)']
    BY DEF TheLedger, Identities
  <2>2. M = [j \in Identities |-> IF j = i THEN LedgerRow(m)' ELSE LedgerEntry(j)]
    BY DEF TheLedger
  <2>3. TheLedger' = M
    BY <1>12, <2>1, <2>2
  <2> QED
    BY <1>11, <2>3
<1>14. TheLedger[i].state = "absent"
  BY <1>3, EntryWithoutRow DEF TheLedger
<1>15. Len(plans)' = Len(plans)
  BY <1>2
<1> QED
  BY <1>3, <1>13, <1>14, <1>15 DEF Ledger!Register, Ledger!Present, TheLedger

\* Every step is a ledger operation or leaves the ledger alone.
LEMMA StepOfLedger ==
    ASSUME IInv, IInv', [Next]_vars
    PROVE  [Ledger!Next]_<<TheLedger, Len(plans)>>
<1> TypeOK
  BY DEF IInv
<1>1. ASSUME UNCHANGED storedRows, deletedExperiments' = deletedExperiments
      PROVE  UNCHANGED <<TheLedger, Len(plans)>>
  <2>1. ASSUME NEW j \in Identities PROVE LedgerEntry(j)' = LedgerEntry(j)
    <3>1. RowOf(j)' = RowOf(j)
      BY <1>1 DEF RowOf, RowsOf, storedRows
    <3> QED
      BY <1>1, <3>1 DEF LedgerEntry, StoredSnapshot, storedRows
  <2> QED
    BY <1>1, <2>1 DEF TheLedger, Identities, storedRows
<1>2. ASSUME NEW c \in Clients, InsertExperiment(c)
      PROVE  [Ledger!Next]_<<TheLedger, Len(plans)>>
  <2>1. CASE RowsOf(study[c].identity) # {}
    BY <1>1, <1>2, <2>1 DEF InsertExperiment, planTables, storedRows
  <2>2. CASE RowsOf(study[c].identity) = {}
    BY <1>2, <2>2, ExperimentRegisters DEF Ledger!Next
  <2> QED
    BY <2>1, <2>2
<1>3. ASSUME NEW c \in Clients, InsertPlan(c)
      PROVE  [Ledger!Next]_<<TheLedger, Len(plans)>>
  BY <1>3, PlanPlanned DEF Ledger!Next
<1>4. ASSUME NEW c \in Clients, InsertResult(c)
      PROVE  [Ledger!Next]_<<TheLedger, Len(plans)>>
  <2>1. CASE ResultExists(plan_id[c])
    BY <1>1, <1>4, <2>1 DEF InsertResult, experimentTables, storedRows
  <2>2. CASE ~ResultExists(plan_id[c])
    BY <1>4, <2>2, ResultCompletes DEF Ledger!Next
  <2> QED
    BY <2>1, <2>2
<1>5. ASSUME NEW c \in Clients, RestoreExperiment(c)
      PROVE  [Ledger!Next]_<<TheLedger, Len(plans)>>
  <2>1. PICK e \in DOMAIN experiments : e = experiment_id[c]
    BY <1>5 DEF IInv, ClientsInv, ClientInv, HoldsStoredStudy, RestoreExperiment
  <2>2. UNCHANGED storedRows /\ deletedExperiments' = deletedExperiments \ {e}
    BY <1>5, <2>1 DEF RestoreExperiment, planTables, storedRows
  <2>3. Ledger!Revive(experiments[e].identity)
    BY <2>2, RowRevived
  <2>4. experiments[e].identity \in Identities
    BY EntryOfRow DEF IInv, TablesInv
  <2> QED
    BY <2>3, <2>4 DEF Ledger!Next
<1>6. ASSUME NEW c \in Clients, LogicalDelete(c)
      PROVE  [Ledger!Next]_<<TheLedger, Len(plans)>>
  <2>1. UNCHANGED storedRows
    BY <1>6 DEF LogicalDelete, storedRows
  <2>2. CASE RowOf(study[c].identity) = 0
    BY <1>1, <1>6, <2>1, <2>2 DEF LogicalDelete
  <2>3. CASE RowOf(study[c].identity) # 0
    <3>1. PICK e \in DOMAIN experiments : e = RowOf(study[c].identity)
      BY <2>3, RowOfIsRow DEF RowsOf
    <3>2. deletedExperiments' = deletedExperiments \cup {e}
      BY <1>6, <2>3, <3>1 DEF LogicalDelete
    <3>3. Ledger!Delete(experiments[e].identity)
      BY <2>1, <3>2, RowDeleted
    <3>4. experiments[e].identity \in Identities
      BY EntryOfRow DEF IInv, TablesInv
    <3> QED
      BY <3>3, <3>4 DEF Ledger!Next
  <2> QED
    BY <2>2, <2>3
<1>7. CASE /\ UNCHANGED storedRows /\ deletedExperiments' # deletedExperiments
  <2>1. PICK c \in Clients : RestoreExperiment(c) \/ LogicalDelete(c)
    BY <1>7, ZenonT(60) DEF Next, Start, Step, Crash, vars, tables, experimentTables, Begin,
                StartPersisting, StartSavingResult, StartDeleting, StartExporting,
                SaveExperimentCheck, CompareSnapshots, InsertExperiment, SavePlanCheck,
                InsertPlan, ExecuteOptimalPlan, SaveResultCheck, InsertResult,
                ExportExperiment, ExportPlan, ExportResult, DatabaseLocked
  <2> QED
    BY <1>5, <1>6, <2>1
<1> QED
  BY <1>1, <1>2, <1>3, <1>4, <1>7, OnlyInsertionsStore

\* The store implements the ledger: whatever checks, transactions, locks,
\* retries and crashes of however many processes interleave, what is stored
\* changes like a ledger whose operations happen one at a time.
THEOREM StoreImplementsLedger == Spec => ImplementsLedger
<1>1. Init => Ledger!Init
  BY EntryWithoutRow DEF Init, Ledger!Init, Ledger!Absent, RowsOf
<1>2. ASSUME IInv, IInv', [Next]_vars
      PROVE  [Ledger!Next]_<<[i \in Identities |-> LedgerEntry(i)], Len(plans)>>
  BY <1>2, StepOfLedger DEF TheLedger
<1> QED
  BY <1>1, <1>2, Invariance, PTL DEF Spec, ImplementsLedger, Ledger!Spec
=============================================================================
