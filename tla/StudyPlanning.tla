----------------------------- MODULE StudyPlanning -----------------------------
(***************************************************************************)
(* From a study file to a research plan: the dataset resolver, the cohort  *)
(* generator, the parameter sweep and the plan builder (builders.py,       *)
(* cohort/generator.py, parameter/, plan.py, codecs.py).                   *)
(*                                                                         *)
(* A dataset is a version and its snapshots in the order of their dates; a *)
(* date is a number, and what a snapshot says of the market is opaque.     *)
(* A study file that the parser accepts is the arrays of values it         *)
(* declares; years are months by a constant.                               *)
(***************************************************************************)
EXTENDS Naturals, Sequences, FiniteSets, FiniteSetsExt, SequencesExt

CONSTANTS MonthsPerYear,  \* 12
          AsFloat(_)      \* a decimal through float, and back through its text

ASSUME MonthsAssumption == MonthsPerYear \in Nat \ {0}

-----------------------------------------------------------------------------
(***************************************************************************)
(* Datasets.                                                               *)
(***************************************************************************)

\* DefaultDatasetResolver.resolve: by the name of the file, then by version.
Matching(registry, identifier) ==
    IF identifier \in DOMAIN registry THEN {identifier}
    ELSE {name \in DOMAIN registry : registry[name].version = identifier}

\* No dataset and an ambiguous version are errors.
Resolves(registry, identifier) == Cardinality(Matching(registry, identifier)) = 1

Resolved(registry, identifier) ==
    registry[CHOOSE name \in Matching(registry, identifier) : TRUE]

Total(dataset) == Len(dataset.snapshots)

DatesOf(dataset) == {dataset.snapshots[i].date : i \in 1 .. Total(dataset)}

\* Dataset: months in the order of their dates, no date twice.
IsDataset(dataset) ==
    /\ Total(dataset) \in Nat \ {0}
    /\ \A i \in 1 .. Total(dataset) : dataset.snapshots[i].date \in Nat
    /\ \A i, j \in 1 .. Total(dataset) :
          i < j => dataset.snapshots[i].date < dataset.snapshots[j].date

PositionOf(dataset, date) ==
    CHOOSE i \in 1 .. Total(dataset) : dataset.snapshots[i].date = date

\* Dataset.slice
Sliceable(dataset, start, months) ==
    /\ months > 0 /\ start \in DatesOf(dataset)
    /\ PositionOf(dataset, start) + months <= Total(dataset) + 1

Slice(dataset, start, months) ==
    LET first == PositionOf(dataset, start)
    IN  SubSeq(dataset.snapshots, first, first + months - 1)

-----------------------------------------------------------------------------
(***************************************************************************)
(* Cohorts.                                                                *)
(***************************************************************************)

\* _validate_common
CanHaveCohorts(dataset, months) == months > 0 /\ Total(dataset) >= months

\* Mutant: one month too few is enough.
FeasibleOffByOne(i, total, months) == total - i + 2 >= months

\* _is_feasible, with positions that start at 1.
Feasible(i, total, months) == total - i + 1 >= months

\* generate_rolling_monthly
RollingStarts(dataset, months) ==
    {dataset.snapshots[i].date :
        i \in {j \in 1 .. Total(dataset) : Feasible(j, Total(dataset), months)}}

\* generate_range; no cohort at all is an error.
RangeStarts(dataset, months, start, end) ==
    {date \in RollingStarts(dataset, months) : start <= date /\ date <= end}

\* from_start_dates, which checks every date it is asked for on its own.
AcceptsStartDates(dataset, months, dates) ==
    /\ dates # {}
    /\ \A date \in dates :
        /\ date \in DatesOf(dataset)
        /\ Feasible(PositionOf(dataset, date), Total(dataset), months)

Chronological(dates) ==
    [k \in 1 .. Cardinality(dates) |->
        CHOOSE date \in dates : Cardinality({d \in dates : d < date}) = k - 1]

-----------------------------------------------------------------------------
(***************************************************************************)
(* The parameter space.                                                    *)
(***************************************************************************)

Months(years) == years * MonthsPerYear

\* _longest_horizon_years
LongestHorizon(study) == CHOOSE y \in Range(study.horizons) :
                            \A z \in Range(study.horizons) : z <= y

\* ParameterAxis: the values of an axis are distinct, rates and weights as
\* floats.
Axis(values) == [i \in DOMAIN values |-> AsFloat(values[i])]

AxesAreValid(study) ==
    /\ IsInjective(Axis(study.equity))
    /\ IsInjective(Axis(study.rates))
    /\ IsInjective(study.horizons)

\* cartesian_product: the rightmost axis, the horizons, varies fastest.
ParameterConfigs(study) ==
    LET rates == Len(study.rates)
        horizons == Len(study.horizons)
    IN  [k \in 1 .. Len(study.equity) * rates * horizons |->
            [equity |-> AsFloat(study.equity[1 + (k - 1) \div (rates * horizons)]),
             rate |-> AsFloat(study.rates[1 + (((k - 1) \div horizons) % rates)]),
             years |-> study.horizons[1 + ((k - 1) % horizons)]]]

-----------------------------------------------------------------------------
(***************************************************************************)
(* The plan.                                                               *)
(***************************************************************************)

\* Mutant: a slice is remembered by its start alone.
StartOnly(start, config) == <<start>>

\* The key of dataset_cache in materialize_research_plan.
CacheKey(start, config) == <<start, Months(config.years)>>

\* Units in the order of the cohorts and, within one, of the configurations.
\* A slice is taken once for a key and shared by the units that follow.
Units(study, dataset, starts) ==
    LET configs == ParameterConfigs(study)
        pairs == [k \in 1 .. Len(starts) * Len(configs) |->
                    [start |-> starts[1 + (k - 1) \div Len(configs)],
                     config |-> configs[1 + ((k - 1) % Len(configs))]]]
        Key(k) == CacheKey(pairs[k].start, pairs[k].config)
        SliceOf(p) == Slice(dataset, p.start, Months(p.config.years))
    IN  [k \in DOMAIN pairs |->
            [start |-> pairs[k].start,
             config |-> pairs[k].config,
             policy |-> study.policy,
             horizon |-> Months(pairs[k].config.years),
             snapshots |-> SliceOf(pairs[Min({j \in 1 .. k : Key(j) = Key(k)})])]]

\* ResearchPlan: no two units with one start date and one configuration.
UnitsAreUnique(units) ==
    IsInjective([k \in DOMAIN units |-> <<units[k].start, units[k].config>>])

\* StudyConfiguration: its fields are arrays, of which the horizons are whole.
IsStudy(study) ==
    /\ {"dataset", "equity", "rates", "horizons"} \subseteq DOMAIN study
    /\ study.equity \in Seq(Range(study.equity))
    /\ study.rates \in Seq(Range(study.rates))
    /\ study.horizons \in Seq(Int)

\* StudyConfiguration.from_yaml, of what is said in arrays.
DeclaresValues(study) ==
    /\ study.equity # <<>> /\ study.rates # <<>> /\ study.horizons # <<>>
    /\ \A i \in DOMAIN study.horizons : study.horizons[i] > 0

PlanCohorts(study, dataset) ==
    Chronological(RollingStarts(dataset, Months(LongestHorizon(study))))

\* build_study_plan succeeds: every ValueError and TypeError of the builders.
Buildable(study, registry, capital) ==
    /\ Resolves(registry, study.dataset)
    /\ CanHaveCohorts(Resolved(registry, study.dataset), Months(LongestHorizon(study)))
    /\ AxesAreValid(study)
    /\ capital > 0
    /\ LET dataset == Resolved(registry, study.dataset)
           starts == PlanCohorts(study, dataset)
       IN  /\ \A start \in Range(starts), years \in Range(study.horizons) :
                    Sliceable(dataset, start, Months(years))
           /\ UnitsAreUnique(Units(study, dataset, starts))

\* The experiment definition, with the first declared policies, and the plan.
BuildStudyPlan(study, registry, capital) ==
    LET dataset == Resolved(registry, study.dataset)
        starts == PlanCohorts(study, dataset)
    IN  [experiment |-> [dataset |-> study.dataset,
                         horizon |-> Months(LongestHorizon(study)),
                         capital |-> capital,
                         cohorts |-> starts,
                         allocation |-> study.equity[1],
                         withdrawal |-> <<study.policy, study.rates[1]>>],
         dataset |-> dataset,
         units |-> Units(study, dataset, starts)]
=============================================================================
