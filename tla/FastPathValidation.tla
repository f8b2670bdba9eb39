-------------------------- MODULE FastPathValidation --------------------------
(***************************************************************************)
(* The pre-flight check of --fast-path --validate (fast_path.py): a sample *)
(* of the units is simulated by the fast path and by the reference engine, *)
(* and the results are compared.                                           *)
(*                                                                         *)
(* The random generator, whose seed is fixed, is any choice of as many     *)
(* units.  A sample is what was drawn and what was added for the budget    *)
(* that was left; its order only decides which divergence is reported.     *)
(***************************************************************************)
EXTENDS StudyPlanning

CONSTANTS MaxUnits,            \* FAST_PATH_VALIDATION_MAX_UNITS, 8
          WealthTolerance,     \* FAST_PATH_VALIDATION_WEALTH_TOLERANCE
          Raises(_),           \* units whose simulation raises, in either engine
          ReferenceResult(_),  \* unit |-> what the reference engine returns:
                               \* success, months simulated, final wealth and
                               \* timeline
          FastResult(_)        \* unit |-> what the fast path returns, whose
                               \* timeline is empty

ASSUME ValidationAssumption == MaxUnits \in Nat

\* is_fast_path_eligible; the rest of its conditions hold for planned units.
Eligible(units) == {k \in DOMAIN units : units[k].policy = "FixedReal"}

SampleSize(units) == Min({MaxUnits, Cardinality(Eligible(units))})

HorizonsOf(units) == {units[k].horizon : k \in Eligible(units)}

Pool(units, horizon) == {k \in Eligible(units) : units[k].horizon = horizon}

\* At least one unit of each horizon while the budget lasts.
PerHorizon(units) ==
    Max({1, SampleSize(units) \div Cardinality(HorizonsOf(units))})

\* The units of a horizon that may be drawn, counted from one.
Places(units, horizons) ==
    {place \in horizons \X (1 .. PerHorizon(units)) :
        place[2] <= Cardinality(Pool(units, place[1]))}

\* How many units are drawn when these horizons have been served.
DrawnFrom(units, served) ==
    Min({SampleSize(units), Cardinality(Places(units, served))})

\* How many units of each horizon are drawn; the horizons are served in
\* ascending order.
Drawn(units) ==
    [h \in HorizonsOf(units) |->
        DrawnFrom(units, {g \in HorizonsOf(units) : g <= h})
            - DrawnFrom(units, {g \in HorizonsOf(units) : g < h})]

\* rng.sample of every pool.
Drawings(units) ==
    LET drawn == Drawn(units)
        pool == [h \in DOMAIN drawn |-> Pool(units, h)]
    IN  {S \in SUBSET Eligible(units) :
            \A h \in DOMAIN drawn : Cardinality(S \cap pool[h]) = drawn[h]}

\* The unit after the first n of a pool, in plan order: pool[taken[horizon]].
UnitAfter(pool, n) == CHOOSE k \in pool : Cardinality({j \in pool : j < k}) = n

\* One more unit for each of the first horizons with a larger pool, while
\* there is budget left.
Added(units) ==
    LET drawn == Drawn(units)
        larger == {h \in DOMAIN drawn : drawn[h] < Cardinality(Pool(units, h))}
        left == SampleSize(units) - DrawnFrom(units, HorizonsOf(units))
        served == {h \in larger : Cardinality({g \in larger : g < h}) < left}
    IN  {UnitAfter(Pool(units, h), drawn[h]) : h \in served}

\* select_validation_units
Samples(units) ==
    IF Eligible(units) = {} THEN {[drawn |-> {}, added |-> {}]}
    ELSE LET added == Added(units)
         IN  {[drawn |-> S, added |-> added] : S \in Drawings(units)}

\* Mutant: the plan of the sample takes a unit twice.
IsAnyPlan(sample) == TRUE

\* The ResearchPlan of the sample refuses units that were drawn and added.
IsPlan(sample) == sample.drawn \cap sample.added = {}

Sampled(sample) == sample.drawn \cup sample.added

\* _compare_fast_path_result: the outcome, its month and, of successes, the
\* final wealth.
Agrees(reference, fast) ==
    /\ reference.success = fast.success
    /\ reference.months = fast.months
    /\ reference.success =>
        /\ reference.final_wealth <= fast.final_wealth + WealthTolerance
        /\ fast.final_wealth <= reference.final_wealth + WealthTolerance

\* run_fast_path_validation: how it ends.
ValidationOutcome(units, sample) ==
    IF Sampled(sample) = {} THEN "skipped"
    ELSE IF ~IsPlan(sample) \/ \E k \in Sampled(sample) : Raises(units[k])
    THEN "exception"
    ELSE IF \A k \in Sampled(sample) :
                Agrees(ReferenceResult(units[k]), FastResult(units[k]))
    THEN "ok"
    ELSE "FastPathValidationError"
=============================================================================
