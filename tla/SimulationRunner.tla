--------------------------- MODULE SimulationRunner ---------------------------
(***************************************************************************)
(* The reference engine: SimulationRunner.run and the nine steps of the    *)
(* monthly pipeline, with the services they call.  The runner repeats the  *)
(* pipeline until a step leaves a status other than RUNNING, and checks    *)
(* for it, and for a failure, after every step.                            *)
(*                                                                         *)
(* An action is one step.  allocation_target, peak_wealth and the drift    *)
(* and return placeholders are written and never read, and left out.       *)
(***************************************************************************)
EXTENDS EngineModel

CONSTANT None   \* Python's None

ASSUME NoneAssumption == None \notin Nat /\ None \notin Portfolios

VARIABLES
    context,              \* the SimulationContext
    step,                 \* the step the runner executes next
    status,               \* ExecutionStatus
    depleted,             \* failure_state is "depleted"
    raised,               \* an exception is on its way out of run
    period_index,
    market_snapshot,      \* index into the dataset, counted from 1; 0 for None
    portfolio,
    allocation,           \* weights, or None
    current_wealth,
    decision_context,     \* the portfolio of the DecisionContext
    withdrawal_decision,  \* nominal_amount
    allocation_decision,  \* weights of the allocation_target
    monthly_results,
    statistics            \* of the SimulationResult, or None

decisions == <<decision_context, withdrawal_decision, allocation_decision>>
clock == <<period_index, market_snapshot>>
money == <<portfolio, allocation, current_wealth>>
vars == <<context, step, status, depleted, raised, clock, money, decisions,
          monthly_results, statistics>>

Snapshot == context.dataset[market_snapshot]

-----------------------------------------------------------------------------
(***************************************************************************)
(* The services.                                                           *)
(***************************************************************************)

\* Mutant: a withdrawal of all there is counts as a depletion.
ExceedsOrEquals(amount, value) == amount >= value

Exceeds(amount, value) == amount > value

\* Mutant: without the clamp at zero.
UnitsLeftUnclamped(ratio) ==
    [a \in Assets |->
        portfolio[a] - Over(Times(Times(portfolio[a], Snapshot[a]), ratio), Snapshot[a])]

\* PortfolioWithdrawalService: the same ratio of every holding is sold.
UnitsLeft(ratio) ==
    [a \in Assets |->
        LET holding == Times(portfolio[a], Snapshot[a])
        IN  IF holding = Zero THEN portfolio[a]
            ELSE Minus(portfolio[a], Over(Times(holding, ratio), Snapshot[a]))]

\* Mutant: the last asset gets its amount on top of what is allocated.
WholeValue(value, allocated) == value

\* PortfolioRebalanceService: the residual goes to the last canonical asset.
Residual(value, allocated) == Minus(value, allocated)

TargetUnits(value, weights) ==
    LET bonds == Times(value, weights["bond"])
    IN  [a \in Assets |-> Over(IF a = "bond" THEN bonds ELSE Residual(value, bonds),
                               Snapshot[a])]

\* _build_allocation of both services: weights by value, and by units when
\* nothing is worth anything.
AllocationOf(units) ==
    LET value == Value(units, Snapshot)
        bonds == IF value # Zero THEN Over(Times(units["bond"], Snapshot["bond"]), value)
                 ELSE Over(units["bond"], units["bond"] + units["equity"])
    IN  [a \in Assets |-> IF a = "bond" THEN bonds ELSE One - bonds]

HasUnits(units) == \E a \in Assets : units[a] # Zero

-----------------------------------------------------------------------------
(***************************************************************************)
(* SimulationRunner.run.                                                   *)
(***************************************************************************)

Init ==
    /\ context \in Contexts
    /\ step = "Initialize" /\ status = "RUNNING"
    /\ depleted = FALSE /\ raised = FALSE
    /\ period_index = 0 /\ market_snapshot = 0
    /\ portfolio = context.initial_portfolio
    /\ allocation = None
    /\ current_wealth = context.initial_wealth
    /\ decision_context = None /\ withdrawal_decision = None
    /\ allocation_decision = None
    /\ monthly_results = <<>> /\ statistics = None

\* The runner's loop after a step.
Continue(next) ==
    /\ step' = IF depleted' \/ status' # "RUNNING" THEN "BuildResult" ELSE next
    /\ UNCHANGED <<raised, context, statistics>>

\* The exception ends the run.
Raise ==
    /\ step' = "Raised" /\ raised' = TRUE
    /\ UNCHANGED <<context, status, depleted, clock, money, decisions,
                   monthly_results, statistics>>

\* _initialize_state: no months to simulate, or the first snapshot.
Initialize ==
    /\ step = "Initialize"
    /\ \/ /\ context.horizon_months = 0
          /\ status' = "COMPLETED" /\ UNCHANGED <<market_snapshot, depleted>>
          /\ Continue("BuildResult")
          /\ UNCHANGED <<period_index, money, decisions, monthly_results>>
       \/ /\ context.horizon_months > 0
          /\ market_snapshot' = 1 /\ UNCHANGED <<status, depleted>>
          /\ Continue("InitializeAllocation")
          /\ UNCHANGED <<period_index, money, decisions, monthly_results>>

\* Once, before the first month; deriving it from no units at all raises.
InitializeAllocation ==
    /\ step = "InitializeAllocation"
    /\ \/ /\ allocation = None /\ ~HasUnits(portfolio)
          /\ Raise
       \/ /\ allocation = None => HasUnits(portfolio)
          /\ allocation' = IF allocation = None THEN AllocationOf(portfolio) ELSE allocation
          /\ UNCHANGED <<status, depleted, clock, portfolio, current_wealth, decisions,
                         monthly_results>>
          /\ Continue("BuildDecisionContext")

BuildDecisionContext ==
    /\ step = "BuildDecisionContext"
    /\ decision_context' = portfolio
    /\ UNCHANGED <<status, depleted, clock, money, withdrawal_decision,
                   allocation_decision, monthly_results>>
    /\ Continue("WithdrawalDecision")

WithdrawalDecision ==
    /\ step = "WithdrawalDecision"
    /\ withdrawal_decision' =
            IF context.withdrawal_policy = "FixedReal" THEN FixedRealWithdrawal(context)
            ELSE ConstantWithdrawal(context, decision_context)
    /\ UNCHANGED <<status, depleted, clock, money, decision_context,
                   allocation_decision, monthly_results>>
    /\ Continue("WithdrawalExecution")

\* execute_withdrawal: nothing to withdraw, more than there is, or a part of it.
WithdrawalExecution ==
    LET amount == withdrawal_decision
        value == Value(portfolio, Snapshot)
    IN
    /\ step = "WithdrawalExecution"
    /\ \/ /\ amount = Zero
          /\ current_wealth' = value /\ UNCHANGED <<portfolio, status, depleted>>
       \/ /\ amount # Zero /\ Exceeds(amount, value)
          /\ portfolio' = IF value = Zero THEN portfolio ELSE UnitsLeft(Over(value, value))
          /\ current_wealth' = Value(portfolio', Snapshot)
          /\ depleted' = TRUE /\ status' = "FAILED"
       \/ /\ amount # Zero /\ ~Exceeds(amount, value)
          /\ portfolio' = UnitsLeft(Over(amount, value))
          /\ current_wealth' = Value(portfolio', Snapshot)
          /\ UNCHANGED <<status, depleted>>
    /\ UNCHANGED <<clock, allocation, decisions, monthly_results>>
    /\ Continue("AllocationDecision")

AllocationDecision ==
    /\ step = "AllocationDecision"
    /\ allocation_decision' = TargetWeights(context)
    /\ UNCHANGED <<status, depleted, clock, money, decision_context,
                   withdrawal_decision, monthly_results>>
    /\ Continue("PortfolioRebalance")

PortfolioRebalance ==
    LET value == Value(portfolio, Snapshot)
        target == TargetUnits(value, allocation_decision)
    IN
    /\ step = "PortfolioRebalance"
    /\ portfolio' = target
    /\ allocation' = IF value = Zero \/ Value(target, Snapshot) = Zero
                     THEN allocation_decision ELSE AllocationOf(target)
    /\ current_wealth' = value
    /\ UNCHANGED <<status, depleted, clock, decisions, monthly_results>>
    /\ Continue("MarketEvolution")

\* The units do not change; valuing a portfolio without any raises.
MarketEvolution ==
    /\ step = "MarketEvolution"
    /\ \/ /\ ~HasUnits(portfolio)
          /\ Raise
       \/ /\ HasUnits(portfolio)
          /\ allocation' = AllocationOf(portfolio)
          /\ current_wealth' = Value(portfolio, Snapshot)
          /\ UNCHANGED <<status, depleted, clock, portfolio, decisions, monthly_results>>
          /\ Continue("MonthlyResultBuilder")

MonthlyResultBuilder ==
    /\ step = "MonthlyResultBuilder"
    /\ monthly_results' = Append(monthly_results,
            [period_index |-> period_index, market_snapshot |-> market_snapshot,
             portfolio |-> portfolio, allocation |-> allocation,
             withdrawal |-> withdrawal_decision])
    /\ UNCHANGED <<status, depleted, clock, money, decisions>>
    /\ Continue("SimulationStateUpdate")

\* Mutant: the index of the next month is looked up as a position.
SameSnapshot == period_index + 1

\* _select_next_market_snapshot, dataset[period_index + 1].
NextSnapshot == period_index + 2

\* The horizon reached, the dataset exhausted, or the next month.
SimulationStateUpdate ==
    /\ step = "SimulationStateUpdate"
    /\ \/ /\ \/ period_index + 1 >= context.horizon_months
             \/ NextSnapshot > Len(context.dataset)
          /\ status' = "COMPLETED"
          /\ UNCHANGED clock
       \/ /\ period_index + 1 < context.horizon_months
          /\ NextSnapshot <= Len(context.dataset)
          /\ market_snapshot' = NextSnapshot
          /\ period_index' = period_index + 1
          /\ UNCHANGED status
    /\ UNCHANGED <<depleted, money, decisions, monthly_results>>
    /\ Continue("InitializeAllocation")

\* DefaultSimulationStatisticsBuilder.build.
BuildResult ==
    /\ step = "BuildResult"
    /\ statistics' = [final_wealth |-> current_wealth,
                      success |-> status = "COMPLETED" /\ ~depleted,
                      failure_month |-> IF depleted THEN period_index ELSE None,
                      months_simulated |-> Len(monthly_results)]
    /\ step' = "Returned"
    /\ UNCHANGED <<context, status, depleted, raised, clock, money, decisions,
                   monthly_results>>

Next ==
    \/ Initialize
    \/ InitializeAllocation
    \/ BuildDecisionContext
    \/ WithdrawalDecision
    \/ WithdrawalExecution
    \/ AllocationDecision
    \/ PortfolioRebalance
    \/ MarketEvolution
    \/ MonthlyResultBuilder
    \/ SimulationStateUpdate
    \/ BuildResult

Spec == Init /\ [][Next]_vars
-----------------------------------------------------------------------------
(***************************************************************************)
(* Type invariant.                                                         *)
(***************************************************************************)

Steps == {"Initialize", "InitializeAllocation", "BuildDecisionContext",
          "WithdrawalDecision", "WithdrawalExecution", "AllocationDecision",
          "PortfolioRebalance", "MarketEvolution", "MonthlyResultBuilder",
          "SimulationStateUpdate", "BuildResult", "Returned", "Raised"}
Weights == {w \in [Assets -> 0 .. One] : w["bond"] + w["equity"] = One}
MonthlyResult == [period_index : Nat, market_snapshot : Nat, portfolio : Portfolios,
                  allocation : Weights, withdrawal : Amounts]
Statistics == [final_wealth : Amounts, success : BOOLEAN,
               failure_month : Nat \cup {None}, months_simulated : Nat]

\* Every variable has its type: in particular no holding is negative and
\* the weights of every allocation add up to one, which Portfolio and
\* Allocation raise an error for.
TypeOK ==
    /\ context \in Context
    /\ step \in Steps
    /\ status \in {"RUNNING", "COMPLETED", "FAILED"}
    /\ depleted \in BOOLEAN /\ raised \in BOOLEAN
    /\ period_index \in Nat
    /\ market_snapshot \in 0 .. Len(context.dataset)
    /\ portfolio \in Portfolios
    /\ allocation \in Weights \cup {None}
    /\ current_wealth \in Amounts
    /\ decision_context \in Portfolios \cup {None}
    /\ withdrawal_decision \in Amounts \cup {None}
    /\ allocation_decision \in Weights \cup {None}
    /\ monthly_results \in Seq(MonthlyResult)
    /\ statistics \in Statistics \cup {None}

(***************************************************************************)
(* Safety.                                                                 *)
(***************************************************************************)

Months == Len(monthly_results)
LastMonth == IF context.horizon_months < Len(context.dataset)
             THEN context.horizon_months ELSE Len(context.dataset)

\* The i-th month starts with what the month before it has left, at the
\* prices of its own snapshot.
MonthStart(i) == IF i = 1 THEN context.initial_portfolio
                 ELSE monthly_results[i - 1].portfolio
StartValue(i) == Value(MonthStart(i), context.dataset[i])

\* Months follow each other without a gap or a repetition, each at its own
\* snapshot of the dataset, and the clock is never ahead of the timeline.
TimelineFollowsDataset ==
    /\ \A i \in 1 .. Months :
        /\ monthly_results[i].period_index = i - 1
        /\ monthly_results[i].market_snapshot = i
    /\ Months \in {period_index, period_index + 1}
    /\ Months <= LastMonth

\* The statistics tell what happened: every recorded month could pay its
\* withdrawal; a success has simulated every month of the horizon and of the
\* dataset; a failure is the first month that could not pay, and that is not
\* part of the timeline.
OutcomeMatchesHistory ==
    statistics # None =>
        /\ statistics.months_simulated = Months
        /\ \A i \in 1 .. Months : monthly_results[i].withdrawal <= StartValue(i)
        /\ IF statistics.success
           THEN /\ Months = LastMonth
                /\ statistics.failure_month = None
                /\ statistics.final_wealth =
                       IF Months = 0 THEN context.initial_wealth
                       ELSE Value(monthly_results[Months].portfolio,
                                  context.dataset[Months])
           ELSE /\ Months < LastMonth
                /\ statistics.failure_month = Months
                /\ withdrawal_decision > StartValue(Months + 1)

\* The roundings of a month, in units of the last place: those of the sums
\* and of the units sold and bought, and that of the ratio of the withdrawal.
Tolerance(value, prices) ==
    6 + (value + 2 * (prices["bond"] + prices["equity"])) \div Scale

Close(x, y, tolerance) == x - y <= tolerance /\ y - x <= tolerance

\* Selling, rebalancing and valuing a month neither make nor lose money: at
\* its end each asset is worth its target share of what the month started
\* with, less the withdrawal, V' = (V - C) * weight, up to rounding.
MonthlyAccounting ==
    \A i \in 1 .. Months :
        LET month == monthly_results[i]
            prices == context.dataset[i]
            rest == StartValue(i) - month.withdrawal
        IN  \A a \in Assets :
                Close(Times(month.portfolio[a], prices[a]),
                      Times(rest, TargetWeights(context)[a]),
                      Tolerance(StartValue(i), prices))

(***************************************************************************)
(* The fast path is the specification of the pipeline: its recurrence does *)
(* in a step what the pipeline does in a month.                            *)
(***************************************************************************)

Evaluated == IF status = "COMPLETED" THEN Months ELSE period_index
LastUnits == IF Evaluated = 0 THEN context.initial_portfolio
             ELSE monthly_results[Evaluated].portfolio

Recurrence == INSTANCE FastPath WITH
    m <- Evaluated,
    units <- LastUnits,
    post <- IF depleted THEN current_wealth
            ELSE IF Evaluated = 0 THEN Zero
            ELSE Value(LastUnits, context.dataset[Evaluated]),
    outcome <- IF depleted THEN "failure"
               ELSE IF status = "COMPLETED" THEN "success" ELSE "running"

\* For every context the fast path evaluates itself, the pipeline fails in the
\* same month or not at all, with the same wealth to the last digit.
ImplementsFastPath == Recurrence!Spec

(***************************************************************************)
(* What the documentation says and the code does not do.                   *)
(***************************************************************************)

\* fast_path.py: "success, failure month and final wealth match to the last
\* digit", "including exact-equality depletion boundaries": the reference
\* engine returns a result wherever the fast path does.
ReturnsWhereTheFastPathDoes ==
    raised => ~Recurrence!is_fast_path_eligible(context)
=============================================================================
