# simulador_jubilacion: a verification project in TLA+

The program simulates retirements: a study is a grid of withdrawal rates,
allocations and horizons over historical start months (cohorts); every point of
the grid is one planned unit, simulated month by month by an engine; the results
are kept in a SQLite file and listed, compared and exported. This directory
models the parts of it that are hard to get right and hard to test, checks them
with TLC on small instances, and proves what it can with TLAPS. Paths below are
relative to `src/` inside the repository's root unless they start with `docs/`
or `tests/`.

Contents: 1 Inventory - 2 Plan - 3 Modules and the code - 4 Runs, bounds and
fairness - 5 Proofs - 6 Divergences met while modelling - 7 What is not modelled.

## 1. Inventory

| component | state it keeps | operations | hard behaviour | what makes it correct |
|---|---|---|---|---|
| study store (`infrastructure/persistence/sqlite_repository.py`, `schema.py`) | ten tables, soft-delete marks, the status of a plan | save_experiment, save_plan, save_execution_result, logical_delete_experiment, get_export_data, load_plan, load_execution_result, list queries | each operation checks on one connection and writes in a later transaction; several processes share the file; `database is locked` is retried; a process can die between transactions | one row per identity; a plan is completed by exactly one result; a stored study never changes; only an equivalent study revives a deleted one; what was reported persisted is there |
| study commands (`cli/commands/run,validate,compare,optimize,export,list`) | the study, the cached datasets, the plan and the ids of the rows written, until the process ends | run and compare: execute, then three transactions; optimize: search, store the plan, execute, store the result; validate: build only | a failure or a kill between two of them; files edited while they run; flags that exclude each other | only complete results of the reference engine are stored; a command that ends with an error code stores nothing; what is stored stays; every command ends |
| dataset cache (`infrastructure/persistence/dataset_cache.py`) | one registry of datasets per process | load_dir | the directory changes underneath, a load fails | all plans of a process use the same datasets |
| parallel execution (`infrastructure/execution/parallel_executor.py`) | batches, futures, pool, three module globals in every worker | parallel_execute, sequential_execute | batches finish in any order; timeouts, failing units, killed workers; threads share the globals | the results of the sequential execution, in plan order, or an exception; the call ends and nothing of it outlives it |
| research executor (`research/orchestration/executor.py`) | none | translate every unit, delegate once, one result per unit | one failing unit among many | results line up with units |
| reference chaining (`infrastructure/execution/reference_chaining.py`) | the longest result of each family, per batch; the results of the slices so far | simulate the longest horizon of a path, read the shorter ones off it; cut a plan into slices and merge them | families split between batches; prefix recognised by object identity; a horizon next to the failing month | a derived result equals a simulated one; the months simulated are those reported |
| engine (`engine/application`: runner, pipeline, nine steps; three portfolio services) | SimulationState | one month: allocate, decide, withdraw, rebalance, value, record, advance | early ends after any step; rounding at every product and quotient; depletion boundary | the statistics tell what happened; no month makes or loses money |
| fast path (`cli/fast_path.py`) | none | the same outcome by a recurrence; a validation sample against the engine | has to round where the engine rounds; a sample by horizons under a budget | bit-exact agreement with the engine; the sample covers the horizons and is as large as it says |
| plan, cohorts, parameters (`research/domain`) | none | grid, cohort and plan generation | order of the units; duplicates; off-by-ones at the end of a dataset; slices shared by a cache | every point once, in a fixed order, each with its own months |
| optimizers (`research/optimization`) | the interval that is left and the best rate so far | binary search and ranking over an evaluator that rebuilds and executes the plan of each candidate | an interval that does not shrink; an answer without its counterexample; ties | a rate that meets the target, close to one that does not; the search ends |
| shell (`cli/main.py`, builders, config, progress) | the configuration file | YAML to objects, tables to text; defaults | input validation | a refused input changes nothing |

How they interact: `run` builds a plan, has `parallel_execute` execute it (in
processes by default), each worker runs a ResearchExecutor over its batch, which
calls an executor of the engine (reference, chained reference or fast path) with
one context per unit; the summary results come back to the command, which stores
them through the repository. Between processes there is only the SQLite file and
the pool's queues; within a process with threads there are the globals of the
worker module. PROJECT.json lists every hazard with its line.

## 2. Plan

The order is that of the damage a defect would do unseen: the store first (several
processes and crashes, data that outlives them), then the execution of a plan
(concurrency), then the arithmetic both executors share.

1. **done** `StudyLedger`, `StudyRepository`, `MCStudyRepository`,
   `StudyRepository_proofs`: the store with all its clients.
2. **done** `StudyExecution`, `ParallelExecution`, `MCParallelExecution`: one call
   of parallel_execute and its workers.
3. **done** `EngineModel`, `FastPath`, `SimulationRunner`, `MCSimulationRunner`: the
   engine and the fast path's decimal recurrence as its specification.
4. **done** `ReferenceChaining`, `MCReferenceChaining`, `ReferenceChaining_proofs`:
   the families of a batch over an abstract engine, for both chained executors; a
   derived result equals a simulated one, for every family, order and split of the
   plan.
5. **done** `StudyPlanning`, `FastPathValidation`, `StrategyComparison`: cohorts,
   parameters and the plan; the validation sample; cells and rankings - as
   operators, checked against reference definitions in the states of 6.
6. **done** `SafeRate`, `SwrSearch`, `StudyCommands`, `MCStudyCommands`,
   `StudyCommands_proofs`: the commands as processes, composed of 5 and of the search.
7. **done** what `list` shows of a study and what can be exported of it (ListedPlan,
   CompletedIsExportable) in `StudyRepository` and its proofs.
8. **done** `ParallelExecution_proofs`: every invariant of the call, and that it
   implements `StudyExecution`.
9. **done** `SimulationRunner_proofs`: types, timeline, outcome, and that the
   pipeline implements the fast path's recurrence.
10. **done** `StudyPlanning_proofs`, `FastPathValidation_proofs`: the plan is the grid
   of its study, and a validation that passes is sound, both carried to the commands;
   of `SimulationRunner` the accounts of a month, of `ReferenceChaining` that slices
   keep families, of `StudyRepository` that it implements the ledger.
11. open: lemmas about the ranking of `StrategyComparison`; the commands that change
   the configuration file.

`StudyRepository` is composed with its abstract specification `StudyLedger`,
`ParallelExecution` with `StudyExecution`, `SimulationRunner` with `FastPath`,
`SwrSearch` (and through it `StudyCommands`) with `SafeRate`; each
pair by INSTANCE with a refinement mapping, the abstract specification a PROPERTY of
a run.

## 3. Modules and the code

**StudyLedger** is the promise of the store: an identity is absent, active or
deleted; its content is fixed at registration; executions are planned under fresh
ids and completed once. All operations are atomic.

**StudyRepository** is `SQLiteRepository` and its clients. The tables are sequences
(row ids in order of insertion) with the columns that identity, equivalence and the
joins depend on; a client is a process running one operation after another, `pc` the
next statement or transaction of it. An action is one transaction, or one read on
its own connection, because that is what other processes can come between:
save_experiment is `SaveExperimentCheck`, then `InsertExperiment`, or
`CompareSnapshots` and `RestoreExperiment`; save_plan is `SavePlanCheck` and
`InsertPlan`; save_execution_result is `SaveResultCheck` and `InsertResult`;
get_export_data is three reads. SQLite's UNIQUE constraints and INSERT OR IGNORE are
part of the transactions that meet them. `DatabaseLocked` is a lost attempt of
`_retry_on_lock` (insertions only: restore and delete are not retried). `Crash`
loses the locals of a process and keeps the tables. `Codec` is the policy codec:
two policy classes with the same rate have the same stored form. `ListedPlan` is the
row `list` shows for an experiment. "Newest" is by `created_at` in the code and by row
in the model: a process takes `created_at` just before its INSERT asks for the lock, so
that two that wait for each other may be dated the other way round; `list` and export
order by it alike.

**StudyExecution** is the promise of executing a plan: the results of all units in
plan order, or an exception; progress counts only simulated units.

**ParallelExecution** is one call of `parallel_execute`: the choice of batches, the
submissions, waiting for the futures in order with a timeout each, leaving the
`with` block, and the workers taking batches and executing them unit by unit. With
processes each worker has its own copy of the plan; with threads they share
`_WORKER_UNITS`, which another call in the same process may overwrite
(`OtherCallStarts`). The pool itself (`concurrent.futures`) is outside the repository
and modelled from how it is used: a FIFO queue, one more worker for a submission,
`shutdown(wait=True)` at the end of the block, `BrokenProcessPool` after a death. One
worker means `sequential_execute`, in the same module.

**EngineModel** has the values: amounts are natural numbers of 1/Scale, sums exact,
products and quotients rounded half to even - as `decimal.Decimal` does at 28
digits, here at the third decimal, so that rounding happens all the time. Contexts,
portfolios of the two asset classes the builders create, the policies.

**FastPath** is `FastPathSimulationExecutor` with decimal precision: the recurrence,
one month in a step; contexts it is not eligible for are delegated to the engine, and a
month that withdraws nothing from nothing has no ratio and raises.

**SimulationRunner** is `SimulationRunner.run` with its nine steps, an action each, in
the order of `sequence_order`; every step's exit (`COMPLETED`, `FAILED`, an exception)
is followed. The services called by a step are part of its action.

**ReferenceChaining** is `execute_reference_chained` with its slices, batches and
`ChainedReferenceSimulationExecutor`; with `config.executor = "fast"` it is
`ChainedFastPathSimulationExecutor` under parallel_execute, which chains what the
closed form can evaluate (`EvaluateFamily`) and has the reference engine simulate the
rest (`EvaluateIneligible`). The simulation itself is a term: the state after m months
is what it depends on, the policies and the first m snapshots, so two results are
equal only if they are for every arithmetic; `Depleting` and `Raising` say for
which states the month fails. `Derived` is `_build_derived_result`; the closed form's
`_outcome_for_horizon` is the same case distinction. The dispatch is one slice after
the other, the batches of a slice side by side, a family in one step: workers share
nothing but the plan (ParallelExecution has the pool). One worker executes the
slice as one batch.

**StudyPlanning** is what turns a study file and a registry of datasets into a plan:
`DefaultDatasetResolver`, `Dataset.slice`, the three strategies of `CohortGenerator`,
`ParameterAxis` and `cartesian_product`, `materialize_research_plan` with its cache of
slices, and the checks of `ResearchPlan`. `Buildable` is the conjunction of everything
the builders refuse. `AsFloat` is the way of a rate through
`float` and back through its text, which can make two declared values one. `IsStudy`
is the type of a StudyConfiguration.

**FastPathValidation** is `select_validation_units`, `_compare_fast_path_result` and
`run_fast_path_validation`. The seeded generator is any choice of as many units;
`Places` are the units of each horizon its share lets it draw, `Drawn` is how many of
them the budget pays for, horizon by horizon, and `Added` what is done with what is
left of it.

**SafeRate** is the promise of a search: a rate that meets the target and, within the
precision above it, one that does not or the end of the domain. **SwrSearch** is
`SWROptimizer.optimize`: the binary search over Decimals, whose midpoint may have to
be rounded. `Bracketed` is its loop invariant.

**StrategyComparison** is the cells `run` prints, the selection and evaluations of
`compare`, and `StrategyComparator` (averages as totals and counts, ranking).

**StudyCommands** is a user who gives one command after another and edits the study
file and the data directory at any moment, also while a command runs. A command is a
process: `ReadArguments`, `ReadStudy` and `Build` are what all commands begin with,
`Validate`, `Run`, `Compare` and `Optimize` what each does with its plan,
`ValidateFastPath` the pre-flight check, `Evaluate`, `Return` and `BuildOptimal` the
optimizer, `Execute` the execution (as a function of each unit, the timeline stripped by
`--summary-only`; the pool is `ParallelExecution`'s), `SaveExperiment`, `SavePlan` and
`SaveResult` the three transactions. `cache` is the `DatasetCache` of the process. Every exit goes through
`Exit` with its code; `ExecutionFails`, `PersistenceFails` and `Interrupt` can happen
wherever the code has an exception to handle. optimize takes its search from
`SwrSearch` by INSTANCE, with its variables mapped to the locals of the process.

The MC modules hold the studies, plans, configurations and contexts of the
instances, nothing else.

## 4. Runs, bounds and fairness

| run | what it asks | bounds and why they are enough | states |
|---|---|---|---|
| RepositoryRerun | unique identities, one result per completed plan, persisted means stored, consistent exports, what is listed as completed can be exported, restores only by equivalents | three symmetric processes, three studies (two of one identity), four operations, two attempts, one crash: two writers and a reader or deleter in between is the longest chain a check and its transaction can be caught by | 1,252,925 |
| RepositoryLedger | refinement of StudyLedger; the stored snapshot never changes; operations end | two processes, run and optimize of one identity, policy classes with one stored form, a repeated policy | 192,762 |
| RepositoryRestoredPlans | *violation*: a restored study gets its plans back | one study saved, deleted, saved | - |
| RepositoryInterrupted | *violation*: an interrupted run is resumed | one study, one crash, a second run | - |
| ParallelCalls | sequential results unless units are shared, nothing outlives the call, refinement of StudyExecution, the call ends | processes and threads, with another call that starts at any moment; plans of three to five units with up to two failing ones; 1 to 3 workers and the default, chunks of 0 to 2, timeouts of 0 and 2 ticks, one killed process: plans that do and do not divide evenly, more workers than batches, failures before and after collected batches | 224,192 |
| ParallelSharedUnits | *violation*: sequential results, with threads and another call | two workers, two plans | - |
| EngineSimulation | timeline, statistics, accounting, refinement of FastPath | two wealths, two allocations, four annual rates, horizons 0 to 4, all price paths of up to three months over four price vectors, both withdrawal policies, portfolios without units; horizons are months instead of hundreds and rates as much higher, so that depletion happens in every month and datasets are shorter than, equal to and longer than the horizon | 43,252 |
| EngineExactDepletion | *violation*: the engine returns wherever the fast path does | horizon 2 | - |
| ReferenceChained | chained results are those of single simulations; slices keep families whole | grids of two and three parameter configurations over two cohorts: families of up to three horizons in any order, a unit of another family between theirs or none, paths that last, deplete in the first or second month or raise in the second; one unit with foreign snapshots or more than it needs; both executors and policies, one to three workers, slices of one and two cohorts, with and without timelines. Three horizons are the fewest with one below, at and above the failing month; three workers split both cohorts of a slice | 39,692 |
| ReferenceSplitFamilies | *violation*: the months simulated are those reported, with any number of workers | two configurations, horizons 1 and 2 | - |
| CommandsSession | the plan is the grid, the cohort strategies agree, sound validation, complete and retained results, error exits store nothing, a stored optimum meets its target, refinement of SafeRate, every command ends | two commands and one edit: the second command meets what the first one stored or left half stored, and the edit falls before, between or into them. Years of two months and datasets of five and three, so that horizons of one and two years fit and three do not; eight study files (two rates and horizons, defaulted versions, an ambiguous dataset, rates that are one float, a horizon too long, no file) and four data directories (two with different months, two that fail); every combination of flags that leads to another exit; a sample of at most three units of at most eight, so that the budget is too small, divides unevenly and leaves a rest; a rate domain of 0 to 8 with tolerances 1 and 3 | 83,516 |
| CommandsCompare | *violation*: strategies are compared by the results of their own configuration | one comparison | - |

Every property has a mutant in PROJECT.json: the form the named definition would
have with a plausible bug; the property fails for it.

Deadlock is not checked: commands finish, a call ends, a run returns.

Fairness. `StudyRepository!FairSpec`: weak fairness of each process's next step. A
process that has begun an operation is scheduled by the operating system; nothing
forces it to begin another one, to crash, or to find a lock, and the retries are
bounded, so the operation ends even if every attempt meets a lock.
`ParallelExecution!FairSpec`: weak fairness of the caller, of each worker and of time
passing while the caller waits: processes and threads that can run, do; simulating
a unit takes a finite time (no unit in the model hangs; section 6 says what a hung
one does to the timeout). No fairness is assumed for worker deaths or for other
calls.
`StudyCommands!ProcessGoesOn`: a process that was started goes on, by steps of its
program, until it ends; nobody has to give a command. The search of optimize is a loop
over Decimals, so that its end is a property and not an assumption; it holds for
tolerances of at least one step of the Decimal context (section 6 has the others).

## 5. Proofs

`StudyRepository_proofs` proves, for every set of processes, studies and codecs and
every bound, that the store's specification implies TypeOK, UniqueIdentity,
CompletedIffOneResult, PersistedIsStored, ExportIsConsistent, ExportFindsTheResult,
CompletedIsExportable, SnapshotNeverChanges,
RestoreOnlyByEquivalentStudy and ImplementsLedger. The assumptions are those of the
constants: studies are well-formed (at least one policy and one unit, as
ExperimentDefinition and ResearchPlan enforce), the codec is a function on policies,
the bounds are naturals.

None of the invariants but the first is inductive. `IInv` adds to them:

- *tables*: every plan references an existing experiment, every result an existing
  plan; the first policy of every experiment is stored at index 0 - which is why the
  association of the units' policies is ignored by INSERT OR IGNORE and a stored
  snapshot never changes (lemma AssociationIgnored);
- *clients*: what a process knows at each `pc`: the row it has found or inserted
  is that of its study, its plan is of that experiment with those units, a restore
  has compared equal, an export holds a completed plan.

The argument has two halves. `RowsKept`: no step removes or changes a row, rows are
only appended and completed plans stay completed; from it follows that what a
process knows stays true whatever others do (BystanderKnows). `ActorKnows`: each
action establishes what the next `pc` of its process needs. TLC has checked
`IInv` as an invariant on the instances of RepositoryRerun and RepositoryLedger.

The refinement (StoreImplementsLedger) follows from it. An identity has at most one
row, so that the ledger's entry of an identity is what the tables say of that row
(EntryOfRow), and a transaction that writes about one row changes one entry
(OneEntryChanges). The five transactions that write are then an operation of the ledger
each: ExperimentRegisters, PlanPlanned, ResultCompletes, RowDeleted, RowRevived. That
a client only does so to a row in the state the ledger asks for is what `IInv` says of its
`pc`: a process between its check and its transaction knows only what no other
process can undo. Every other step, the crashes among them, is a stutter.

`ReferenceChaining_proofs` proves, for every plan, configuration and arithmetic,
TypeOK, ChainingIsInvisible and SlicesKeepFamilies. The assumptions are on the
constants: a dataset has the months of its unit's horizon, a plan has one class of
withdrawal policy and its cohorts one after the other, None is not a number. The order
of the cohorts is that of `materialize_research_plan`, on which `_slice_plan_units` says
it relies; only SlicesKeepFamilies needs it. That a unit's snapshots are a prefix of
the longest path's is not assumed, it is what the code tests. The argument:

- *one family*: two units that chain go through the same states (StatesAgree), so
  the shorter one fails in the first fatal month of the longer one or not at all
  (FatalMonthsAgree), and the three cases of `_build_derived_result` - same horizon,
  not beyond the failure, beyond it - each give the simulated result
  (`DerivedIsDirect`). If the longest path does not raise, none of the derived would
  have (NoneRaises).
- *the study*: `IInv` says that all results so far are direct, that an exception comes
  from a unit, and that the merged results are exactly those of the units of the
  slices before the current one. The last part makes "append the results of a slice"
  correct: slices are in the order of the plan (SlicesInOrder), so the units of the
  first slices are positions 1 to n with n their number (InitialSegment), whatever
  order the batches finished in;
- *the work*: a slice is a number of cohorts, so that units with one start are in one
  slice (CohortInOneSlice), and so is a family (FamilyInOneSlice). One worker has one
  batch, and every evaluation adds a whole family to the results and its longest path
  to what was simulated (`WorkInv`): when all are there, what was simulated is what the
  report of the plan counts. With several workers this is what ReferenceSplitFamilies
  refutes.

The least-number principle is used as a fact about sets of naturals (FirstOfIsLeast,
from the well-foundedness of <), because the induction theorems of the library take
operators. TLC has checked this `IInv` on the instance of ReferenceChained.

`ParallelExecution_proofs` proves, for every plan, configuration and number of
workers, batches, units and deaths, TypeOK, DeterministicUnlessShared,
NothingOutlivesTheCall and ImplementsStudyExecution, the
refinement. The assumptions say that plans and configurations have their types.
`IInv` has four parts:

- `CallerInv`: where the caller is in its loops, and that the ranges of the batches
  cut the plan into consecutive pieces without a gap (`BatchesCut`);
- `QueueInv`: a batch that was not taken is pending, one in a worker's hands was taken and
  is in nobody else's (so the pool hands them out), and a call that is done has an idle
  pool;
- `WorkInv`: the results a worker has and the units it has left make up the range of its
  batch, a future that finished has a result for each unit of its range, and what has
  been collected ends where the batch waited for begins: no unit is lost;
- `ContentInv`: as long as no other call has written the shared globals
  (`~disturbed`), all of these are results of the units of the plan. It is the only
  part that needs the condition; the lengths are right even when the units are not.

The caller concatenates the futures in the order of the batches, the batches cut the
plan, and each has the results of its range: the concatenation is the sequential
result. TLC has checked `IInv` as an invariant of ParallelCalls.

`StudyCommands_proofs` proves, for all study files, data directories, invocations,
domains and bounds, and for every engine (Raises, ReferenceResult and FastResult are
uninterpreted), TypeOK, StoredResultsAreComplete, FailuresStoreNothing,
CohortsCanBeSliced, PlanIsTheGrid, ValidationIsSound, StoredOptimumMeetsTarget,
StudiesAreRetained and FindsASafeRate. The assumptions: arguments have their types
(argparse and its validators), a study is a StudyConfiguration (`IsStudy`) and, if its
values are accepted, has a longest horizon, datasets have their months in strict order
(`Dataset.__post_init__`), the budget of the validation is a natural number. `IInv` is
`ProcessInv /\ LocalsInv /\ SearchInv /\ ResultsInv /\ PlanInv /\ SampleInv /\
StoreInv`:

- `ProcessInv` and `LocalsInv` say which locals a process has at each `pc` and which
  command can be there;
- `SearchInv`: during a search the interval is bracketed (`SwrSearch!Bracketed`), and
  `meets` is evaluated over the datasets in `cache`. It is what the cache is needed for:
  candidates evaluated before and after an edit of the data directory are comparable
  only because the process does not read it again;
- `ResultsInv`: results about to be stored are those of the reference engine for
  the units of the plan with their timelines, because the flags that would select the
  fast path or summaries are refused together with persistence;
- `PlanInv`: a command that goes on from its plan has a study that can be built from
  the datasets in `cache`, whatever the files are by now, and what it built is the plan of
  that study or, after a search, of the study with the optimal rate;
- `SampleInv`: the sample is one of the plan in hand, and its validation did not end
  the command;
- `StoreInv`: the same of the store; a row that is being written is that of the plan
  in hand; and as long as a command can still fail with an error, or is meant to
  persist nothing, the store is what it was when the command started.

TLC has checked the parts of this `IInv` on the instance of CommandsSession. The two
theorems that say what a plan and a sample are rest on a module each:

- `StudyPlanning_proofs`: `cartesian_product` and the plan number the cells of a table row
  after row, and the k-th cell has its row and column by division (Digits, RowAndColumn,
  CellHasPosition, CellIsUnique; three dimensions by dividing twice). So the
  configurations are the grid of the declared values, none twice (ConfigsAreTheGrid), and
  the units that of starts and configurations (UnitsAreTheGrid). The starts are the first
  months of the dataset in their order (StartsInOrder), because their dates are counted
  by positions (CountOfDates). A slice shared through the cache is the unit's own, since
  the first unit with its key has its start and its number of months
  (`CacheKey`; with the start alone, this step fails).
- `FastPathValidation_proofs`: the horizons are served in ascending order, and the number
  of units drawn of the horizons below n is `DrawnFrom` of them, for every n
  (DrawingSize, by the least n for which it would fail). What is added goes to horizons
  that come first (FirstOnes), so that with it no more than the budget is taken, and each
  of them has a unit after those drawn (MemberAfter). That the added unit was not drawn is
  not so (section 6): the theorem has it from ResearchPlan, which refuses the sample. If
  the budget allows one unit of each horizon, the shares fit into it and none is cut
  (BudgetType, DrawnOfHorizon).

SearchHalves is what liveness rests on and safety can say: a turn of the search leaves
half of the interval, rounded up, and less than there was when the tolerance is a step.

`SimulationRunner_proofs` proves, for every scale of the decimals and every context
(datasets, horizons, portfolios, allocations, rates, both policies), TypeOK,
TimelineFollowsDataset, OutcomeMatchesHistory, MonthlyAccounting and
ImplementsFastPath. The assumptions
are that the scale is positive and that contexts have their type: positive prices, a
dataset with a month at least. The rounding itself is not assumed to be anything: the
lemmas are that a rounded quotient is a natural number, never exceeds a whole number
that the quotient does not exceed (so that weights stay at or below one), and that
whole numbers are not rounded. `IInv` is `TypeInv /\ ClockInv /\ PaymentInv /\
RecurrenceInv`:

- `TypeInv`: types, and which decisions a step finds made;
- `ClockInv`: the timeline has as many months as have passed, and how a run can end;
- `PaymentInv`: the portfolio before a withdrawal is what the last recorded month
  ended with; a month that is recorded could pay;
- `RecurrenceInv`: each recorded portfolio is what the recurrence makes of the one
  before it, and between the steps of a month the part of it that is done: after the
  sale, after the rebalancing. A month that is recorded started with something,
  because one that starts with nothing ends without units and its market evolution
  raises - where the recurrence divides nothing by nothing and raises as well.

TLC has checked this `IInv` on the contexts of EngineSimulation.

MonthlyAccounting is about numbers. A rounding is half a unit away (HalfEvenClose), a
product or quotient of an amount that is off by an error is off by the error times the
factor and half a unit more; AfterSaleClose carries this through the sale of each class,
MonthEndClose through the purchase and the last valuation, and WithinTolerance
compares the sum with the tolerance the property grants. All bounds are of twice the
amount in units of Scale squared, so that they are linear in the products that
occur, which is all the arithmetic the prover decides.

Only model-checked: liveness (OperationsEnd, CallEnds, CommandsEnd), which is beyond
this prover, as is ENABLED. Every other property of a passing run is a theorem.
What the recursive or folded operators of `StrategyComparison` and of SetToSortSeq
compute for every input is induction over data and not proved.

## 6. Divergences met while modelling

With a run (PROJECT.json, `findings`): restored studies stay without their plans; an
interrupted run cannot be repeated or resumed; two calls with threads exchange
units; a withdrawal of exactly the whole portfolio raises in the engine; the batches
of a slice split families, so that with several workers more months are simulated
than the report printed at the end of `run` says (results are not affected);
`compare` gives every strategy the results of all selected configurations, so that all
tie and the ranking is the order of their labels.

Without a run of their own, for the maintainers:

- Two processes that save a new identity at once: the second gets
  `sqlite3.IntegrityError`, not DuplicateStudyError (`sqlite_repository.py:487`).
- A delete between the check and the transaction of save_plan leaves a plan that is
  not marked deleted (`:625` says deleted studies are hidden from all query APIs).
- load_plan gives every unit the horizon of the experiment (`sqlite_repository.py:1537`):
  planned_units has no column for its own, so that the units of shorter horizons come
  back longer. Its docstring (`:775`) says "complete plan", and the persistence
  specification (INFRASTRUCTURE_SQLITE_PERSISTENCE_SPECIFICATION.md:408) "persisted and
  retrieved identically".
- load_execution_result by plan id, which its docstring offers (`:874`), always fails: ids
  are classified by a `-` (`:882`), which every UUID has. The branch for plan ids would
  fail as well: it selects seven columns, prefixes the id and unpacks eight values into
  seven names.
- `run --summary-only`, as `docs/development/CLI_USAGE.md:110` and `:132-133` give it, is
  refused unless `--no-persist` is given too (`run_command.py:323`), and so is what the
  message for `--fast-path` advises ("Re-run with --no-persist or --summary-only", `:332`).
- The policies of a loaded plan are placeholders that raise when they are asked to
  decide, so that a loaded plan cannot be executed again.
- Equivalence of studies compares the experiment definition, which has the first rate
  and weight of a grid only: a grid that differs further on restores the deleted study.
- `list --status failed` selects a status that nothing stores.
- `config get` does not find keys that `config set` has stored with more than one dot
  (`config_command.py:130-152`); `config set` reads, changes and truncates the file without a lock.
- `optimize --tolerance 0`, and any tolerance below a step of the Decimal context, never
  ends: the midpoint of neighbours is one of them.
- find_experiment_by_name orders revisions as text: 1.10 before 1.9.
- _retry_on_lock retries every OperationalError, without the documented backoff.
- logical_delete_experiment "does nothing" for an unknown study, says its comment;
  it raises StudyNotFoundError.
- An optimize whose optimal plan fails to execute, or is refused by the store, exits with
  SUCCESS; the experiment and plan it has stored by then stay, without results.
  FailuresStoreNothing is about the exits with an error code.
- `run` and `optimize` of one study file share an identity: the second is refused.
- One failing unit ends the whole study; the per-batch isolation of
  `docs/specifications/infrastructure` (PARALLEL_EXECUTION_SPECIFICATION.md:211, 276) is in
  `_worker_execute_batch_safe`, which nothing calls.
- The timeout of a batch starts when the caller reaches its future, counts time in
  the queue, and is followed by waiting for the stuck worker all the same when the
  block ends (specification line 278); it is ignored with one worker.
- A dataset shorter than the horizon is a success after fewer months (model and
  property OutcomeMatchesHistory say so).
- ConstantWithdrawalPolicy documents `portfolio_value * rate / 12`, and sums units.
- The leftover validation budget (`cli/fast_path.py:720`) takes the unit after as many
  of a horizon's units as were drawn, which may be one of those: ResearchPlan
  refuses the sample with a ValueError that `run` does not expect, and the command ends
  with exit code ERROR. It takes a budget that does not divide evenly: three
  horizons with 3, 5, 6 or 32 to 54 units each, for instance. Whether it happens
  depends on the fixed seed, so a plan either always or never fails.

## 7. Abstractions, and what is not modelled

- Decimals are fixed-point numbers with three decimals; prices are positive, as the
  datasets' are (a zero price reaches the services only through the API, and is
  refused there); two asset classes. Dates are month indices. A context whose start
  date is not in its dataset is left out.
- `allocation_target`, `peak_wealth` and the drift and return placeholders are written
  and never read.
- In the store, a study's scalar columns are one value; simulation rows are counted,
  not stored; allocation and withdrawal policies are kept by the same code and are
  one kind. Loading a plan or a result reads rows that never change (SnapshotNeverChanges,
  PersistedIsStored) and is left out. The creation and migration of the schema and find_experiment_by_name, which
  no command calls, are left out.
- Errors in the translation of a unit are those of a failing unit.
- The float recurrence of the fast path: a statement about binary floating point has
  no small instance.
- In ReferenceChaining every dataset has at least the months of its unit's horizon, as
  Dataset.slice guarantees (shorter ones reach the chained executors only through the
  API, and the number of months simulated then differs from a direct simulation),
  and all units of a plan have one class of withdrawal policy, as the builders
  make them (the group key ignores the class). The memo of the prefix test and the
  results kept by horizon are caches of pure functions and left out; so are
  max_drawdown, a placeholder, and progress. ParallelExecution has the errors of the
  pool.
- In StudyCommands the store has no other writer (StudyRepository has them) and a
  persistence error is possible at every transaction; a study's name is fixed, there is
  one equity axis of the values in the file, and a simulation is a function of its unit.
- The commands that show and change the configuration file (`config set, get,
  validate, list`): a dictionary written to a file in one process, whose only
  effect on the others is `ConfigFails`. YAML text, argparse, tables and progress bars:
  pure input and output.
- Domain interfaces that the current engine does not use: no behaviour.
