------------------------------ MODULE FastPath ------------------------------
(***************************************************************************)
(* FastPathSimulationExecutor (fast_path.py) with precision "decimal": the *)
(* outcome of a simulation by one recurrence, a month in a step, instead   *)
(* of the nine steps of the pipeline.  A context the recurrence does not   *)
(* cover is delegated to the reference engine, whatever that returns.      *)
(***************************************************************************)
EXTENDS EngineModel

VARIABLES
    context,   \* the simulation context
    m,         \* months evaluated
    units,     \* units of each class after them
    post,      \* post_withdrawal_values: what they were worth at the end
    outcome    \* "running", "success", "failure" or "error"

vars == <<context, m, units, post, outcome>>

\* The contexts whose holdings are an equity and a bond class.
is_fast_path_eligible(c) ==
    /\ c.withdrawal_policy = "FixedReal"
    /\ c.horizon_months >= 1
    /\ Len(c.dataset) >= c.horizon_months

C == FixedRealWithdrawal(context)
Now == context.dataset[m + 1]

Depleted(c, value) == c > value

\* What is left after selling the ratio of every class.
Sold(ratio) ==
    [a \in Assets |->
        Minus(units[a], Over(Times(Times(units[a], Now[a]), ratio), Now[a]))]

\* Mutant: each class gets its own weight, and the rounding is lost.
RebalancedByWeights(remaining) ==
    [a \in Assets |-> Over(Times(remaining, TargetWeights(context)[a]), Now[a])]

\* The target weight of the bond class, and all the rest to the equity class.
Rebalanced(remaining) ==
    LET bonds == Times(remaining, TargetWeights(context)["bond"])
    IN  [a \in Assets |-> IF a = "bond" THEN Over(bonds, Now[a])
                          ELSE Over(Minus(remaining, bonds), Now[a])]

Init ==
    /\ context \in Contexts
    /\ m = 0 /\ units = context.initial_portfolio /\ post = Zero
    /\ outcome = "running"

\* The ratio of nothing to nothing raises, and no outcome is returned.
Month ==
    LET value == Value(units, Now) IN
    /\ is_fast_path_eligible(context)
    /\ outcome = "running" /\ m < context.horizon_months
    /\ ~Depleted(C, value) /\ value # Zero
    /\ units' = Rebalanced(Value(Sold(Over(C, value)), Now))
    /\ post' = Value(units', Now)
    /\ m' = m + 1
    /\ outcome' = IF m' = context.horizon_months THEN "success" ELSE "running"
    /\ UNCHANGED context

\* failure_residual: what selling everything leaves.
Deplete ==
    LET value == Value(units, Now) IN
    /\ is_fast_path_eligible(context)
    /\ outcome = "running" /\ m < context.horizon_months
    /\ Depleted(C, value)
    /\ post' = Value(Sold(One), Now)
    /\ outcome' = "failure"
    /\ UNCHANGED <<context, m, units>>

Delegate ==
    /\ ~is_fast_path_eligible(context)
    /\ m' \in Nat /\ units' \in Portfolios /\ post' \in Amounts
    /\ outcome' \in {"running", "success", "failure", "error"}
    /\ UNCHANGED context

Next == Month \/ Deplete \/ Delegate

Spec == Init /\ [][Next]_vars
=============================================================================
