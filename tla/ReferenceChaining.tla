-------------------------- MODULE ReferenceChaining --------------------------
(***************************************************************************)
(* Horizon chaining: ChainedReferenceSimulationExecutor and its slice      *)
(* dispatch (reference_chaining.py), and ChainedFastPathSimulationExecutor *)
(* (fast_path.py), which chains in the same way what it can evaluate.      *)
(*                                                                         *)
(* Units that differ in their horizon alone form a family.  The longest of *)
(* a family is simulated, and the results of the others are read off its   *)
(* path, when their datasets consist of the same snapshots.                *)
(*                                                                         *)
(* What a simulation computes is abstract here: the state after m months   *)
(* is a function of the policies and of the first m snapshots, and stands  *)
(* for the portfolio and for what it is worth.  SimulationRunner has the   *)
(* arithmetic, and ParallelExecution the dispatch of the batches.          *)
(***************************************************************************)
EXTENDS Naturals, Sequences, FiniteSets, FiniteSetsExt

CONSTANTS
    Starts, Scalars, Snapshots,  \* start dates; rates and weights; snapshots
    Plans,      \* research plans: non-empty sequences of units
    Configs,    \* executor and execution arguments
    Depleting,  \* states in which the withdrawal exceeds the portfolio
    Raising,    \* states in which the engine raises
    None

PolicyClasses == {"FixedReal", "Constant"}

\* A planned unit, and the context the research executor makes of it.
Unit == [start : Starts, scalars : Scalars, policy : PolicyClasses,
         horizon : Nat \ {0}, dataset : Seq(Snapshots)]

Config == [executor : {"reference", "fast"}, max_workers : Nat \ {0},
           slice_cohorts : Nat \ {0}, summary : BOOLEAN]

\* Dataset.slice gives a unit all the months of its horizon, and a study file
\* declares one withdrawal policy.
ASSUME PlansAssumption ==
    \A p \in Plans :
        /\ p \in Seq(Unit) /\ p # <<>>
        /\ \A i \in DOMAIN p : Len(p[i].dataset) >= p[i].horizon
        /\ \A i, j \in DOMAIN p : p[i].policy = p[j].policy

\* materialize_research_plan goes through the cohorts one after the other.
ASSUME CohortsAssumption ==
    \A p \in Plans : \A i, j \in DOMAIN p : p[i].start = p[j].start =>
        \A k \in i .. j : p[k].start = p[i].start

ASSUME ConfigsAssumption == Configs \subseteq Config

ASSUME NoneAssumption == None \notin Nat

VARIABLES
    plan, config,
    slice,        \* the slice being executed
    results,      \* position |-> result, of the batches of the slices so far
    simulated,    \* positions whose units were simulated, not derived
    raised,       \* batches that ended with an exception
    all_results,  \* the results of the finished slices
    outcome

vars == <<plan, config, slice, results, simulated, raised, all_results, outcome>>

-----------------------------------------------------------------------------
(***************************************************************************)
(* The simulation of a unit.                                               *)
(***************************************************************************)

\* What a simulation knows after m months.
State(unit, m) == [policy |-> unit.policy, scalars |-> unit.scalars,
                   prices |-> SubSeq(unit.dataset, 1, m)]

\* is_fast_path_eligible; the other conditions hold for every planned unit.
ClosedForm(unit) == config.executor = "fast" /\ unit.policy = "FixedReal"

\* The months, from 0, that a simulation does not get beyond.
FatalMonths(unit) ==
    {m \in 0 .. unit.horizon - 1 :
        \/ State(unit, m + 1) \in Depleting
        \/ State(unit, m + 1) \in Raising /\ ~ClosedForm(unit)}

FirstOf(months) == CHOOSE m \in months : \A k \in months : m <= k

Raises(unit) ==
    LET fatal == FatalMonths(unit)
    IN  fatal # {} /\ State(unit, FirstOf(fatal) + 1) \notin Depleting

\* The result of simulating a unit on its own.  A failing month is not part
\* of the timeline; what it leaves is the final wealth.
Simulate(unit) ==
    LET fatal == FatalMonths(unit)
        months == IF fatal = {} THEN unit.horizon ELSE FirstOf(fatal)
    IN  [timeline |-> [m \in 1 .. months |-> State(unit, m)],
         success |-> fatal = {},
         failure_month |-> IF fatal = {} THEN None ELSE months,
         months_simulated |-> months,
         final_wealth |-> State(unit, IF fatal = {} THEN months ELSE months + 1)]

(***************************************************************************)
(* Chaining.                                                               *)
(***************************************************************************)

\* _reference_chaining_group_key: neither the policy class nor the dataset.
GroupKey(unit) == <<unit.start, unit.scalars>>

\* Mutant: prefixes are told by their length.
IsShorter(unit, longest) == Len(unit.dataset) <= Len(longest.dataset)

\* _dataset_is_identity_prefix
IsIdentityPrefix(unit, longest) ==
    /\ Len(unit.dataset) <= Len(longest.dataset)
    /\ \A m \in DOMAIN unit.dataset : unit.dataset[m] = longest.dataset[m]

\* Mutant: a family fails one month early.
ReachedBefore(horizon, failure_month) == horizon < failure_month

\* A path that fails in month failure_month, from 0, has lasted as many months.
Reached(horizon, failure_month) == horizon <= failure_month

\* _build_derived_result and _outcome_for_horizon.
Derived(longest, unit) ==
    LET path == Simulate(longest) IN
    IF unit.horizon = longest.horizon THEN path
    ELSE IF path.failure_month = None \/ Reached(unit.horizon, path.failure_month)
    THEN [timeline |-> SubSeq(path.timeline, 1, unit.horizon),
          success |-> TRUE,
          failure_month |-> None,
          months_simulated |-> unit.horizon,
          final_wealth |-> path.timeline[unit.horizon]]
    ELSE [timeline |-> SubSeq(path.timeline, 1, path.failure_month),
          success |-> FALSE,
          failure_month |-> path.failure_month,
          months_simulated |-> path.failure_month,
          final_wealth |-> path.final_wealth]

\* max(contexts, key=horizon_months): the first of the longest ones.
Longest(family) ==
    CHOOSE i \in family :
        \A j \in family : \/ plan[j].horizon < plan[i].horizon
                          \/ plan[j].horizon = plan[i].horizon /\ i <= j

\* What is simulated of a family: the longest, and what is on another path.
SimulatedOf(family) ==
    {i \in family : \/ i = Longest(family)
                    \/ ~IsIdentityPrefix(plan[i], plan[Longest(family)])}

\* The units among some positions of the plan that chain with a unit.
Chained(unit) == config.executor = "reference" \/ ClosedForm(unit)
FamilyOf(i, positions) ==
    {j \in positions : Chained(plan[j]) /\ GroupKey(plan[j]) = GroupKey(plan[i])}

\* _to_summary_result, and the results of the closed form: no timeline.
Delivered(unit, result) ==
    IF config.summary \/ ClosedForm(unit) THEN [result EXCEPT !.timeline = <<>>] ELSE result

(***************************************************************************)
(* Slices and batches.                                                     *)
(***************************************************************************)

Cohort(i) ==
    Cardinality({j \in 1 .. i : j = 1 \/ plan[j].start # plan[j - 1].start})

\* Mutant: slices of so many units.
SliceOfUnit(i) == (i - 1) \div config.slice_cohorts + 1

\* _slice_plan_units; the fast path's plan is not sliced.
SliceOf(i) ==
    IF config.executor = "fast" THEN 1
    ELSE (Cohort(i) - 1) \div config.slice_cohorts + 1

Slice == {i \in DOMAIN plan : SliceOf(i) = slice}

\* create_work_batches of parallel_execute; one worker gets the whole slice.
BatchSize ==
    (Cardinality(Slice) + config.max_workers - 1) \div config.max_workers
BatchOf(i) == (i - Len(all_results) - 1) \div BatchSize + 1
Batches == {{i \in Slice : BatchOf(i) = k} : k \in {BatchOf(i) : i \in Slice}}

-----------------------------------------------------------------------------
(***************************************************************************)
(* The actions.  The batches of a slice are executed side by side.         *)
(***************************************************************************)

Init ==
    /\ plan \in Plans /\ config \in Configs
    /\ slice = 1 /\ results = [i \in {} |-> None]
    /\ simulated = {} /\ raised = {}
    /\ all_results = <<>> /\ outcome = "running"

Pending(batch) == {i \in batch \ DOMAIN results : Chained(plan[i])}

\* The next family of a batch, in the order of their first units: an exception
\* of any of its simulations is one of the batch.
EvaluateFamily(batch) ==
    LET family == FamilyOf(FirstOf(Pending(batch)), batch)
        longest == plan[Longest(family)]
        evaluated == SimulatedOf(family)
    IN
    /\ batch \notin raised /\ Pending(batch) # {}
    /\ IF \E i \in evaluated : Raises(plan[i])
       THEN /\ raised' = raised \cup {batch}
            /\ UNCHANGED <<results, simulated>>
       ELSE /\ results' =
                   [i \in DOMAIN results \cup family |->
                       IF i \notin family THEN results[i]
                       ELSE Delivered(plan[i], IF i \in evaluated THEN Simulate(plan[i])
                                               ELSE Derived(longest, plan[i]))]
            /\ simulated' = simulated \cup evaluated
            /\ UNCHANGED raised
    /\ UNCHANGED <<plan, config, slice, all_results, outcome>>

\* The fast path has the reference engine simulate, one after the other, what
\* it cannot evaluate.
EvaluateIneligible(batch) ==
    LET i == FirstOf(batch \ DOMAIN results) IN
    /\ batch \notin raised /\ Pending(batch) = {} /\ batch \ DOMAIN results # {}
    /\ IF Raises(plan[i])
       THEN /\ raised' = raised \cup {batch}
            /\ UNCHANGED <<results, simulated>>
       ELSE /\ results' = [j \in DOMAIN results \cup {i} |->
                              IF j = i THEN Delivered(plan[i], Simulate(plan[i]))
                              ELSE results[j]]
            /\ simulated' = simulated \cup {i}
            /\ UNCHANGED raised
    /\ UNCHANGED <<plan, config, slice, all_results, outcome>>

SliceIsDone ==
    outcome = "running" /\ \A b \in Batches : b \in raised \/ b \subseteq DOMAIN results

\* The results of a slice, in plan order, follow those of the slices before.
MergeSlice ==
    /\ SliceIsDone /\ raised = {}
    /\ all_results' = [i \in 1 .. Len(all_results) + Cardinality(Slice) |-> results[i]]
    /\ IF Len(all_results') = Len(plan)
       THEN outcome' = "returned" /\ UNCHANGED slice
       ELSE slice' = slice + 1 /\ UNCHANGED outcome
    /\ UNCHANGED <<plan, config, results, simulated, raised>>

\* The exception of a batch ends the study.
RaiseSlice ==
    /\ SliceIsDone /\ raised # {}
    /\ outcome' = "raised"
    /\ UNCHANGED <<plan, config, slice, results, simulated, raised, all_results>>

Next ==
    \/ \E b \in Batches : EvaluateFamily(b) \/ EvaluateIneligible(b)
    \/ MergeSlice
    \/ RaiseSlice

Spec == Init /\ [][Next]_vars
-----------------------------------------------------------------------------
(***************************************************************************)
(* Type invariant and safety.                                              *)
(***************************************************************************)

States == [policy : PolicyClasses, scalars : Scalars, prices : Seq(Snapshots)]
Results(unit) ==
    [timeline : Seq(States), success : BOOLEAN,
     failure_month : (0 .. unit.horizon - 1) \cup {None},
     months_simulated : 0 .. unit.horizon, final_wealth : States]

\* Every variable has its type; in particular every result, derived or not, is
\* one of a simulation of as many months as the unit has.
TypeOK ==
    /\ plan \in Seq(Unit) /\ config \in Config
    /\ slice \in 1 .. Len(plan)
    /\ DOMAIN results \subseteq DOMAIN plan
    /\ \A i \in DOMAIN results : results[i] \in Results(plan[i])
    /\ simulated \subseteq DOMAIN results
    /\ raised \subseteq SUBSET DOMAIN plan
    /\ Len(all_results) <= Len(plan)
    /\ \A i \in DOMAIN all_results : all_results[i] \in Results(plan[i])
    /\ outcome \in {"running", "returned", "raised"}

\* Nothing of chaining shows: whatever the order of the units, the horizons,
\* the slices and the batches, every unit has the result its own simulation
\* has, and the study raises only if one of its units does.
ChainingIsInvisible ==
    /\ outcome = "returned" =>
           /\ Len(all_results) = Len(plan)
           /\ \A i \in DOMAIN plan :
                  /\ ~Raises(plan[i])
                  /\ all_results[i] = Delivered(plan[i], Simulate(plan[i]))
    /\ outcome = "raised" => \E i \in DOMAIN plan : Raises(plan[i])

\* expected_reference_chaining_report, expected_chaining_report: the families
\* of the whole plan.
ExpectedSimulated ==
    UNION {IF Chained(plan[i]) THEN SimulatedOf(FamilyOf(i, DOMAIN plan)) ELSE {i} :
               i \in DOMAIN plan}
MonthWork(positions) == MapThenSumSet(LAMBDA i : plan[i].horizon, positions)

\* Slicing a plan never splits a family: with one worker the months simulated
\* are those the report of the plan states.
SlicesKeepFamilies ==
    outcome = "returned" /\ config.max_workers = 1 =>
        MonthWork(simulated) = MonthWork(ExpectedSimulated)

\* reference_chaining.py: slices are cut "so every horizon family stays grouped
\* and the exact month-work reduction is preserved", for any number of workers.
MonthWorkAsReported ==
    outcome = "returned" => MonthWork(simulated) = MonthWork(ExpectedSimulated)
=============================================================================
