---------------------------- MODULE StudyCommands ----------------------------
(***************************************************************************)
(* The commands run, validate, compare and optimize (src/cli/commands), as *)
(* they are given one after the other by a user who edits the study file   *)
(* and the data directory in between, and while they run.                  *)
(*                                                                         *)
(* A command is a process of its own: it reads its arguments and its study *)
(* file, builds a plan from the datasets its process has cached, executes  *)
(* it, and persists it in three transactions, each of which may fail.      *)
(* What other processes do to the store at the same time is the subject of *)
(* StudyRepository, and how a plan is executed of ParallelExecution and    *)
(* ReferenceChaining; here a result is a function of its unit.             *)
(***************************************************************************)
EXTENDS FastPathValidation, StrategyComparison

CONSTANTS
    StudyFiles,   \* contents of the study file: studies, and what is no study
    DataDirs,     \* contents of the data directory
    Invocations,  \* the commands with their arguments
    DomainMax,    \* _DOMAIN_MAX, in the steps of a rate
    MaxCommands,  \* bound: commands given
    MaxEdits      \* bound: edits of files

ASSUME CommandsAssumption ==
    /\ DomainMax \in Nat /\ MaxCommands \in Nat /\ MaxEdits \in Nat
    /\ \A invocation \in Invocations :
        /\ invocation.command \in {"run", "validate", "compare", "optimize"}
        /\ invocation.command # "run" => invocation.flags = {}
        /\ invocation.tolerance \in Nat

\* Of the horizons, whole numbers of years, one is the longest.
ASSUME StudyFilesAssumption ==
    \A study_config \in StudyFiles :
        study_config.kind = "study" =>
            /\ IsStudy(study_config)
            /\ DeclaresValues(study_config) => LongestHorizon(study_config) \in Nat

ASSUME DataDirsAssumption ==
    \A dir \in DataDirs : dir.kind = "datasets" =>
        \A name \in DOMAIN dir.registry : IsDataset(dir.registry[name])

VARIABLES
    study_file,   \* the study file on disk
    data_dir,     \* the data directory on disk
    store,        \* identity |-> [experiment, units, results]; <<>> is none yet
    before,       \* the store when the command started
    pc,           \* what the command does next
    command,      \* its arguments
    exit,         \* its exit code
    study,        \* its StudyConfiguration
    cache,        \* the DatasetCache of its process
    built,        \* the BuiltStudy
    sample,       \* the units of its validation
    results,      \* what the execution returned
    low, high, best,  \* of SWROptimizer.optimize
    turn,         \* flips with each candidate, so that every turn is a step
    meets,        \* the rates that meet the target in the cached datasets
    given, edits  \* commands and edits so far

files == <<study_file, data_dir>>
search == <<low, high, best, turn, meets>>
locals == <<study, cache, built, sample, results, search>>
bounds == <<given, edits>>
vars == <<files, store, before, pc, command, exit, locals, bounds>>

None == [kind |-> "none"]
NoSample == [drawn |-> {}, added |-> {}]

Configs == ParameterConfigs(study)

-----------------------------------------------------------------------------
(***************************************************************************)
(* The optimizer and its evaluator.                                        *)
(***************************************************************************)

Candidate(rate) == [study EXCEPT !.rates = <<rate>>]

BuildWith(registry, s) == BuildStudyPlan(s, registry, command.capital)

\* success_rate >= target, both as shares of a hundred.
MeetsTarget(outcomes, target) ==
    100 * Cardinality({k \in DOMAIN outcomes : outcomes[k].success})
        >= target * Len(outcomes)

Simulated(units) == [k \in DOMAIN units |-> ReferenceResult(units[k])]

ExecutionRaises(units) == \E k \in DOMAIN units : Raises(units[k])

\* _SWREvaluator.evaluate
Evaluated(registry, rate) ==
    MeetsTarget(Simulated(BuildWith(registry, Candidate(rate)).units), command.target)

Searching == pc = "search"
Answered == /\ pc \in {"optimal", "save_experiment", "save_plan", "execute", "save_result"}
            /\ command.command = "optimize"

Search == INSTANCE SwrSearch WITH
    phase <- IF Searching THEN "searching" ELSE IF Answered THEN "answered" ELSE "idle",
    domain_min <- 0,
    domain_max <- IF Searching \/ Answered THEN DomainMax ELSE 0,
    precision <- IF Searching \/ Answered THEN command.tolerance ELSE 0

-----------------------------------------------------------------------------
(***************************************************************************)
(* A process starts, and ends.                                             *)
(***************************************************************************)

NoLocals ==
    /\ study = None /\ cache = None /\ built = None /\ sample = NoSample
    /\ results = <<>>
    /\ low = 0 /\ high = 0 /\ best = {} /\ turn = 0 /\ meets = {}

Start ==
    /\ pc = "idle" /\ given < MaxCommands
    /\ given' = given + 1
    /\ command' \in Invocations
    /\ exit' = "running" /\ pc' = "arguments"
    /\ before' = store
    /\ UNCHANGED <<files, store, locals, edits>>

\* The exit code of the process, whose memory is gone.
Exit(code) ==
    /\ exit' = code /\ pc' = "idle"
    /\ study' = None /\ cache' = None /\ built' = None /\ sample' = NoSample
    /\ results' = <<>>
    /\ low' = 0 /\ high' = 0 /\ best' = {} /\ turn' = 0 /\ meets' = {}
    /\ UNCHANGED <<files, before, command, bounds>>

Goto(label) ==
    /\ pc' = label
    /\ UNCHANGED <<files, before, command, exit, bounds>>

\* KeyboardInterrupt, between two of the actions.
Interrupt == pc # "idle" /\ Exit("INTERRUPTED") /\ UNCHANGED store

\* The user saves another version of a file.
Edit ==
    /\ edits < MaxEdits
    /\ edits' = edits + 1
    /\ \/ study_file' \in StudyFiles \ {study_file} /\ UNCHANGED data_dir
       \/ data_dir' \in DataDirs \ {data_dir} /\ UNCHANGED study_file
    /\ UNCHANGED <<store, before, pc, command, exit, locals, given>>

-----------------------------------------------------------------------------
(***************************************************************************)
(* From the arguments to the plan.                                         *)
(***************************************************************************)

Has(flag) == flag \in command.flags

\* Mutant: --no-persist is not looked at.
PersistsAlways == command.command = "run"

Persists == command.command = "run" /\ ~Has("--no-persist")

\* An option that is not given takes its default from the configuration file,
\* where it may have a value, or a section, of the wrong type.
ConfigFails ==
    command.command = "run" /\ command.defaults \cap command.misconfigured # {}

\* Numbers are numbers, the target is a share, a filter has a name and a value.
ArgumentsAreValid == command.arguments = "valid"

ReadArguments ==
    /\ pc = "arguments"
    /\ \/ ~ArgumentsAreValid /\ Exit("VALIDATION_ERROR")
       \/ ConfigFails /\ ArgumentsAreValid /\ Exit("ERROR")
       \/ ~ConfigFails /\ ArgumentsAreValid /\ Goto("study") /\ UNCHANGED locals
    /\ UNCHANGED store

\* The arrays of a study that is optimized have one value each.
IsSingle(s) == Len(s.rates) = 1 /\ Len(s.equity) = 1 /\ Len(s.horizons) = 1

\* load_yaml and StudyConfiguration.from_yaml
Accepted(s) ==
    /\ s.kind = "study" /\ DeclaresValues(s)
    /\ command.command = "optimize" => IsSingle(s)

ReadStudy ==
    /\ pc = "study"
    /\ IF Accepted(study_file)
       THEN /\ study' = study_file
            /\ Goto("build")
            /\ UNCHANGED <<cache, built, sample, results, search>>
       ELSE Exit("VALIDATION_ERROR")
    /\ UNCHANGED store

\* Mutant: every resolution reads the data directory again, if it can.
ReadAgain == IF data_dir.kind = "datasets" \/ cache = None THEN data_dir ELSE cache

\* DatasetCache.load_dir: a directory that was loaded is not read again.
Loaded == IF cache # None THEN cache ELSE data_dir

\* build_study_plan for the study as declared.  A file that is no JSON, and a
\* missing directory, are errors of the repository; a dataset without one of
\* its fields is a KeyError, which no command expects.
Build ==
    /\ pc = "build"
    /\ IF Loaded.kind = "incomplete" THEN Exit("ERROR")
       ELSE IF \/ Loaded.kind # "datasets"
               \/ ~Buildable(study, Loaded.registry, command.capital)
       THEN Exit("VALIDATION_ERROR")
       ELSE /\ cache' = Loaded
            /\ built' = BuildWith(Loaded.registry, study)
            /\ Goto(command.command)
            /\ UNCHANGED <<study, sample, results, search>>
    /\ UNCHANGED store

-----------------------------------------------------------------------------
(***************************************************************************)
(* validate, and what is particular to run, compare and optimize.          *)
(***************************************************************************)

Validate == pc = "validate" /\ Exit("SUCCESS") /\ UNCHANGED store

\* Mutant: a summary may be persisted.
SummariesMayPersist ==
    /\ ~(Persists /\ Has("--fast-path"))
    /\ Has("--validate") => Has("--fast-path")
    /\ ~(Has("--fast-path") /\ Has("--reference-chained"))

\* The combinations of flags that run accepts.
FlagsAreCompatible ==
    /\ ~(Persists /\ Has("--summary-only"))
    /\ ~(Persists /\ Has("--fast-path"))
    /\ Has("--validate") => Has("--fast-path")
    /\ ~(Has("--fast-path") /\ Has("--reference-chained"))

Run ==
    /\ pc = "run"
    /\ \/ Has("--dry-run") /\ Exit("SUCCESS")
       \/ ~Has("--dry-run") /\ ~FlagsAreCompatible /\ Exit("VALIDATION_ERROR")
       \/ /\ ~Has("--dry-run") /\ FlagsAreCompatible
          /\ Goto(IF Has("--validate") THEN "validate_fast_path" ELSE "execute")
          /\ UNCHANGED locals
    /\ UNCHANGED store

\* The exception of the sample's plan, or of its simulation, is not caught.
ValidateFastPath ==
    /\ pc = "validate_fast_path"
    /\ \E s \in Samples(built.units) :
        CASE ValidationOutcome(built.units, s) = "exception" -> Exit("ERROR")
          [] ValidationOutcome(built.units, s) = "FastPathValidationError" ->
                Exit("VALIDATION_ERROR")
          [] ValidationOutcome(built.units, s) \in {"ok", "skipped"} ->
                /\ sample' = s
                /\ Goto("execute")
                /\ UNCHANGED <<study, cache, built, results, search>>
    /\ UNCHANGED store

\* Two configurations at least are left by the filters.
Compare ==
    /\ pc = "compare"
    /\ IF ~NamesFields(Configs, command.constraints) THEN Exit("ERROR")
       ELSE IF Cardinality(Selected(Configs, command.constraints)) < 2
       THEN Exit("VALIDATION_ERROR")
       ELSE Goto("execute") /\ UNCHANGED locals
    /\ UNCHANGED store

\* The plan that showed the study to be buildable is not used any further.
Optimize ==
    /\ pc = "optimize"
    /\ low' = 0 /\ high' = DomainMax /\ best' = {}
    /\ meets' = {rate \in 0 .. DomainMax : Evaluated(cache.registry, rate)}
    /\ built' = None
    /\ Goto("search")
    /\ UNCHANGED <<store, study, cache, sample, results, turn>>

\* One turn of the binary search.
Evaluate ==
    LET rate == Search!Mid(low, high)
        units == BuildWith(Loaded.registry, Candidate(rate)).units
    IN
    /\ pc = "search" /\ Search!Wider
    /\ ~ExecutionRaises(units)
    /\ Search!Bisect(MeetsTarget(Simulated(units), command.target))
    /\ cache' = Loaded /\ turn' = 1 - turn
    /\ Goto("search")
    /\ UNCHANGED <<store, study, built, sample, results, meets>>

\* The optimizer returns; without a candidate there is nothing to persist.
Return ==
    /\ pc = "search" /\ ~Search!Wider
    /\ turn' = 0
    /\ Goto("optimal")
    /\ UNCHANGED <<store, study, cache, built, sample, results, low, high, best, meets>>

\* The plan of the optimal rate is built anew.
BuildOptimal ==
    /\ pc = "optimal"
    /\ IF best = {} THEN Exit("SUCCESS")
       ELSE /\ built' = BuildWith(Loaded.registry, Candidate(CHOOSE rate \in best : TRUE))
            /\ cache' = Loaded
            /\ Goto("save_experiment")
            /\ UNCHANGED <<study, sample, results, search>>
    /\ UNCHANGED store

-----------------------------------------------------------------------------
(***************************************************************************)
(* Execution and persistence.                                              *)
(***************************************************************************)

\* _to_summary_result: the statistics without the months.
ToSummary(result) == [result EXCEPT !.timeline = <<>>]

\* What one executor is asked for: the closed form has no timelines, and
\* --summary-only strips those of the reference engine.
Delivered(unit, fast) ==
    LET result == IF fast THEN FastResult(unit) ELSE ReferenceResult(unit)
    IN  IF Has("--summary-only") THEN ToSummary(result) ELSE result

\* Mutant: the units that are not eligible are dropped.
EligibleOnly(units) ==
    LET eligible == SelectSeq(units, LAMBDA unit : unit.policy = "FixedReal")
    IN  [k \in DOMAIN eligible |-> Delivered(eligible[k], Has("--fast-path"))]

\* The fast path is used for the units that are eligible.
Executed(units) ==
    [k \in DOMAIN units |->
        Delivered(units[k], Has("--fast-path") /\ k \in Eligible(units))]

Execute ==
    /\ pc = "execute" /\ ~ExecutionRaises(built.units)
    /\ results' = Executed(built.units)
    /\ Goto(CASE command.command = "optimize" -> "save_result"
              [] Persists \/ command.command = "compare" -> "save_experiment"
              [] OTHER -> "report")
    /\ UNCHANGED <<store, study, cache, built, sample, search>>

\* A simulation raises, or a worker is lost (ParallelExecution).  run and
\* compare end with an error, and so does the search; optimize has saved the
\* plan of the optimal rate before it executes it, and warns.
ExecutionFails ==
    /\ \/ pc = "search" /\ Search!Wider /\ Exit("ERROR")
       \/ pc = "execute" /\ Exit(IF command.command = "optimize" THEN "SUCCESS" ELSE "ERROR")
    /\ UNCHANGED store

Identity == <<study.name, IF study.version = "" THEN "1.0" ELSE study.version>>

\* After a note or a warning, run and compare go on to their report; optimize
\* has printed its own.
AfterPersisting ==
    IF command.command = "optimize" THEN Exit("SUCCESS")
    ELSE Goto("report") /\ UNCHANGED locals

PersistenceFails ==
    /\ pc \in {"save_experiment", "save_plan", "save_result"}
    /\ AfterPersisting
    /\ UNCHANGED store

\* Mutant: a study that exists is written over.
NeverStored == FALSE

IsStored == Identity \in DOMAIN store

\* DuplicateStudyError: the existing study is retained.
SaveExperiment ==
    /\ pc = "save_experiment"
    /\ \/ IsStored /\ AfterPersisting /\ UNCHANGED store
       \/ /\ ~IsStored
          /\ store' = [identity \in DOMAIN store \cup {Identity} |->
                           IF identity # Identity THEN store[identity]
                           ELSE [experiment |-> built.experiment,
                                 units |-> <<>>, results |-> <<>>]]
          /\ Goto("save_plan") /\ UNCHANGED locals

SavePlan ==
    /\ pc = "save_plan"
    /\ store' = [store EXCEPT ![Identity].units = built.units]
    /\ Goto(IF command.command = "optimize" THEN "execute" ELSE "save_result")
    /\ UNCHANGED locals

SaveResult ==
    /\ pc = "save_result"
    /\ store' = [store EXCEPT ![Identity].results = results]
    /\ AfterPersisting

PrintReport == pc = "report" /\ Exit("SUCCESS") /\ UNCHANGED store

-----------------------------------------------------------------------------

Init ==
    /\ study_file \in StudyFiles /\ data_dir \in DataDirs
    /\ store = <<>> /\ before = <<>>
    /\ pc = "idle" /\ command = None /\ exit = "none"
    /\ NoLocals
    /\ given = 0 /\ edits = 0

Proceed ==
    \/ ReadArguments \/ ReadStudy \/ Build
    \/ Validate \/ Run \/ ValidateFastPath \/ Compare
    \/ Optimize \/ Evaluate \/ Return \/ BuildOptimal
    \/ Execute \/ SaveExperiment \/ SavePlan \/ SaveResult \/ PrintReport

Fail == ExecutionFails \/ PersistenceFails

Next == Start \/ Proceed \/ Fail \/ Interrupt \/ Edit

\* A process that was started goes on until it ends.  At each pc a step of
\* Proceed is enabled, but where a simulation raises, where one of Fail is; a
\* process that does not end takes steps of Proceed, since failures end it.
ProcessGoesOn == []<>(pc = "idle") \/ []<><<Proceed>>_vars

Spec == Init /\ [][Next]_vars /\ ProcessGoesOn
-----------------------------------------------------------------------------
(***************************************************************************)
(* Type invariant.                                                         *)
(***************************************************************************)

Labels == {"idle", "arguments", "study", "build", "validate", "run", "compare",
           "optimize", "validate_fast_path", "execute", "search", "optimal",
           "save_experiment", "save_plan", "save_result", "report"}
ExitCodes == {"none", "running", "SUCCESS", "ERROR", "VALIDATION_ERROR", "INTERRUPTED"}

\* Every variable has its type; an idle process remembers nothing, one that
\* executes has a plan, and what is persisted has as many results as units.
TypeOK ==
    /\ study_file \in StudyFiles /\ data_dir \in DataDirs
    /\ pc \in Labels /\ exit \in ExitCodes
    /\ command \in Invocations \cup {None}
    /\ study \in StudyFiles \cup {None}
    /\ cache \in DataDirs \cup {None}
    /\ best \subseteq low .. high /\ high <= DomainMax /\ turn \in {0, 1}
    /\ given \in 0 .. MaxCommands /\ edits \in 0 .. MaxEdits
    /\ pc = "idle" => NoLocals
    /\ pc \in {"execute", "save_plan"} => built # None
    /\ pc \in {"save_result", "report"} => DOMAIN results = DOMAIN built.units

(***************************************************************************)
(* The plan.                                                               *)
(***************************************************************************)

LoadedDataset == Resolved(cache.registry, study.dataset)

\* The rates a plan is built for: those of the file, or the optimal one.
SweptRates == IF Answered THEN best ELSE Range(study.rates)

\* The plan of a command is the whole grid: a unit for every start with
\* enough months for the longest horizon, every weight, rate and horizon, no
\* unit twice; and the snapshots of a unit, which it may share with others
\* (dataset_cache), are the months of its own horizon from its own start.
PlanIsTheGrid ==
    built # None =>
        LET units == built.units
            months == LoadedDataset.snapshots
            starts == {months[i].date :
                          i \in 1 .. Total(LoadedDataset) + 1 - Months(LongestHorizon(study))}
            configs == [equity : {AsFloat(v) : v \in Range(study.equity)},
                        rate : {AsFloat(v) : v \in SweptRates},
                        years : Range(study.horizons)]
        IN
        /\ {<<units[k].start, units[k].config>> : k \in DOMAIN units} = starts \X configs
        /\ Len(units) = Cardinality(starts \X configs)
        /\ \A k \in DOMAIN units :
            /\ Len(units[k].snapshots) = Months(units[k].config.years)
            /\ \A i \in DOMAIN units[k].snapshots :
                units[k].snapshots[i] =
                    months[PositionOf(LoadedDataset, units[k].start) + i - 1]

\* The three strategies of CohortGenerator agree on the last start there is:
\* a start is generated, or accepted when it is asked for, exactly when the
\* slice of the whole horizon can be taken from it.
CohortsCanBeSliced ==
    pc = "build" /\ Loaded.kind = "datasets" /\ Resolves(Loaded.registry, study.dataset) =>
        LET dataset == Resolved(Loaded.registry, study.dataset)
            months == Months(LongestHorizon(study))
            sliceable == {date \in DatesOf(dataset) : Sliceable(dataset, date, months)}
        IN
        CanHaveCohorts(dataset, months) =>
            /\ RollingStarts(dataset, months) = sliceable
            /\ \A start, end \in DatesOf(dataset) :
                  RangeStarts(dataset, months, start, end) = sliceable \cap start .. end
            /\ \A dates \in (SUBSET DatesOf(dataset)) \ {{}} :
                  AcceptsStartDates(dataset, months, dates) <=> dates \subseteq sliceable

(***************************************************************************)
(* The validation of the fast path.                                        *)
(***************************************************************************)

\* What "Validation: OK (n fast-path units)" reports.
SampledUnits == Cardinality(sample.drawn) + Cardinality(sample.added)

\* A validation that did not stop the command compared as many units as it
\* reports, at most MaxUnits, all of them units the fast path takes, one at
\* least of every horizon if the budget allows it, and found none different.
ValidationIsSound ==
    sample # NoSample =>
        LET units == built.units
            compared == Sampled(sample)
        IN
        /\ Cardinality(compared) = SampledUnits /\ SampledUnits <= MaxUnits
        /\ compared \subseteq Eligible(units)
        /\ Cardinality(HorizonsOf(units)) <= MaxUnits =>
              {units[k].horizon : k \in compared} = HorizonsOf(units)
        /\ \A k \in compared :
              ReferenceResult(units[k]).success = FastResult(units[k]).success

(***************************************************************************)
(* The store.                                                              *)
(***************************************************************************)

\* Results that were persisted are those of the reference engine with their
\* timelines, one for each unit of the persisted plan in its order: neither a
\* summary, nor a result of the fast path, nor a selection of `compare` gets
\* into the store, although all take the same way to it.
StoredResultsAreComplete ==
    \A identity \in DOMAIN store :
        store[identity].results # <<>> =>
            store[identity].results = Simulated(store[identity].units)

\* A command that ends with an error code, and one that is not meant to
\* persist anything, leaves the store as it was.  What run and compare only
\* warn of, and an optimize whose optimal plan fails to execute, are no such
\* errors: the code is SUCCESS, and rows written before stay.
FailuresStoreNothing ==
    \/ exit \in {"ERROR", "VALIDATION_ERROR"}
    \/ command # None /\ (command.command = "validate"
                          \/ command.flags \cap {"--no-persist", "--dry-run"} # {})
    => store = before

\* "Existing study retained": whatever a later command executes under the
\* same identity, the rows that are there stay as they are.
StudiesAreRetained ==
    [][\A identity \in DOMAIN store :
          /\ identity \in DOMAIN store'
          /\ store'[identity].experiment = store[identity].experiment
          /\ store[identity].units # <<>> =>
                store'[identity].units = store[identity].units
          /\ store[identity].results # <<>> =>
                store'[identity].results = store[identity].results]_vars

(***************************************************************************)
(* The search.                                                             *)
(***************************************************************************)

\* optimize implements the search for a safe rate, although it loads, builds
\* and executes anew for each candidate, and files are edited meanwhile.
FindsASafeRate == Search!Promise!Spec

\* The results optimize persists, of a plan that was built and executed once
\* more after the search, meet the target the search was for.
StoredOptimumMeetsTarget ==
    pc = "save_result" /\ command.command = "optimize" =>
        MeetsTarget(results, command.target)

(***************************************************************************)
(* Liveness.                                                               *)
(***************************************************************************)

\* Every command ends, the search for a rate with a tolerance of at least
\* the smallest step included.
CommandsEnd == pc # "idle" ~> pc = "idle"

(***************************************************************************)
(* What the documentation says and the code does not do.                   *)
(***************************************************************************)

\* compare: "the single plan is executed once and the results are partitioned
\* by configuration".  A strategy is ranked by the results that `run` prints
\* for the cell of that configuration.
ComparesByConfiguration ==
    pc = "report" /\ command.command = "compare" =>
        LET selected == Selected(Configs, command.constraints)
            report == Report(Strategies(built.units, results, selected), "global")
            cells == Cells(built.units, results)
        IN
        \A label \in selected :
            LET line == report["global"].aggregated[label] IN
            /\ line.count = cells[label].units_run
            /\ line.success_rate = cells[label].units_run - cells[label].units_failed
=============================================================================
