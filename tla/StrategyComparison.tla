-------------------------- MODULE StrategyComparison --------------------------
(***************************************************************************)
(* What the commands say of the results of a plan: the cells that `run`    *)
(* prints for a grid (run_command.py), and the comparison of strategies    *)
(* that `compare` prints (compare_command.py, strategy_comparator.py).     *)
(*                                                                         *)
(* A result is its success and its final wealth; the third metric, the     *)
(* drawdown, takes no part in the ranking.  A strategy is a configuration, *)
(* and an average is kept as the total and the number of evaluations.      *)
(***************************************************************************)
EXTENDS Naturals, Sequences, FiniteSetsExt, SequencesExt

-----------------------------------------------------------------------------
(***************************************************************************)
(* run: one block per configuration.                                       *)
(***************************************************************************)

\* _print_grid_per_cell_results
Cells(units, results) ==
    [config \in {units[k].config : k \in DOMAIN units} |->
        LET cell == {k \in DOMAIN units : units[k].config = config}
        IN  [units_run |-> Cardinality(cell),
             units_failed |-> Cardinality({k \in cell : ~results[k].success})]]

-----------------------------------------------------------------------------
(***************************************************************************)
(* compare: the strategies and their evaluations.                          *)
(***************************************************************************)

Satisfies(config, constraint) ==
    constraint.name \in DOMAIN config /\ config[constraint.name] = constraint.value

\* _config_matches looks at the constraints in their order, up to the first
\* that is not satisfied; a name it looks at that is no field is a KeyError.
NamesFields(configs, constraints) ==
    \A k \in DOMAIN configs, i \in DOMAIN constraints :
        (\A j \in 1 .. i - 1 : Satisfies(configs[k], constraints[j])) =>
            constraints[i].name \in DOMAIN configs[k]

Selected(configs, constraints) ==
    {config \in Range(configs) :
        \A i \in DOMAIN constraints : Satisfies(config, constraints[i])}

Evaluation(unit, result) ==
    [metrics |-> [success_rate |-> IF result.success THEN 1 ELSE 0,
                  final_wealth |-> result.final_wealth],
     cohort |-> unit.start,
     parameter_config |-> unit.config]

\* _extract_evaluation_results: the units of every selected configuration,
\* whichever of them the label is.
Evaluations(label, units, results, selected) ==
    LET all == [k \in DOMAIN units |-> Evaluation(units[k], results[k])]
    IN  SelectSeq(all, LAMBDA evaluation : evaluation.parameter_config \in selected)

Strategies(units, results, selected) ==
    [label \in selected |-> Evaluations(label, units, results, selected)]

-----------------------------------------------------------------------------
(***************************************************************************)
(* StrategyComparator.compare                                              *)
(***************************************************************************)

GroupKey(evaluation, group_by) ==
    IF group_by = "global" THEN "global" ELSE evaluation[group_by]

GroupKeys(strategies, group_by) ==
    {GroupKey(evaluation, group_by) :
        evaluation \in UNION {Range(strategies[label]) : label \in DOMAIN strategies}}

\* The totals and the count of a label in a group.
Aggregated(evaluations, gkey, group_by) ==
    LET group == SelectSeq(evaluations,
                    LAMBDA evaluation : GroupKey(evaluation, group_by) = gkey)
        Sum(metric) == FoldLeft(LAMBDA total, evaluation :
                                    total + evaluation.metrics[metric], 0, group)
    IN  [success_rate |-> Sum("success_rate"),
         final_wealth |-> Sum("final_wealth"),
         count |-> Len(group)]

\* The average of a metric is higher.
Higher(a, b, metric) == a[metric] * b.count > b[metric] * a.count

\* The order of the texts of two labels, for values written with one digit.
TextBefore(l, m) ==
    \/ l.equity < m.equity
    \/ l.equity = m.equity /\ l.years < m.years
    \/ l.equity = m.equity /\ l.years = m.years /\ l.rate < m.rate

\* sort_key: the success rate, then the final wealth, both descending, then
\* the label.
Ranking(aggregated) ==
    LET Before(l, m) ==
            LET a == aggregated[l]  b == aggregated[m] IN
            \/ Higher(a, b, "success_rate")
            \/ /\ ~Higher(b, a, "success_rate")
               /\ \/ Higher(a, b, "final_wealth")
                  \/ ~Higher(b, a, "final_wealth") /\ TextBefore(l, m)
    IN  SetToSortSeq(DOMAIN aggregated, Before)

Report(strategies, group_by) ==
    [gkey \in GroupKeys(strategies, group_by) |->
        LET aggregated == [label \in {l \in DOMAIN strategies :
                                Aggregated(strategies[l], gkey, group_by).count > 0} |->
                            Aggregated(strategies[label], gkey, group_by)]
        IN  [aggregated |-> aggregated, ranking |-> Ranking(aggregated)]]
=============================================================================
