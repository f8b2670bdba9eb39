----------------------------- MODULE EngineModel -----------------------------
(***************************************************************************)
(* The values the engine computes with: decimal amounts, portfolios, the   *)
(* prices of a market snapshot, and the simulation context of a unit.      *)
(*                                                                         *)
(* A decimal is a natural number of 1/Scale.  Sums and differences are     *)
(* exact and products and quotients are rounded half to even, as those of  *)
(* decimal.Decimal are at the 28th digit; here it happens at the first few *)
(* decimals, so that small amounts meet it.                                *)
(***************************************************************************)
EXTENDS Integers, Sequences

CONSTANTS
    Scale,     \* units of the last place in one
    Contexts   \* simulation contexts

\* The two classes the studies hold, in canonical order: bond, then equity.
Assets == {"bond", "equity"}
Amounts == Nat
Portfolios == [Assets -> Amounts]      \* units of each holding
Prices == [Assets -> Amounts \ {0}]    \* index_levels of a snapshot, positive

Zero == 0
One == Scale

(***************************************************************************)
(* equity_allocation and the annual withdrawal_rate are the parameters of  *)
(* the constant allocation policy and of the withdrawal policy.            *)
(***************************************************************************)
Context == [horizon_months : Nat, initial_wealth : Amounts \ {0},
            initial_portfolio : Portfolios, dataset : Seq(Prices) \ {<<>>},
            equity_allocation : 0 .. Scale, withdrawal_rate : Amounts,
            withdrawal_policy : {"FixedReal", "Constant"}]

ASSUME EngineAssumption ==
    /\ Scale \in Nat \ {0}
    /\ Contexts \subseteq Context

-----------------------------------------------------------------------------
HalfEven(n, d) ==
    LET q == n \div d
        r == n % d
    IN  IF 2 * r > d \/ (2 * r = d /\ q % 2 = 1) THEN q + 1 ELSE q

Times(x, y) == HalfEven(x * y, Scale)
Over(x, y) == HalfEven(x * Scale, y)
Minus(x, y) == IF y > x THEN Zero ELSE x - y   \* clamped, where the code clamps

\* _calculate_portfolio_value, the same method of all three services.
Value(portfolio, prices) ==
    Times(portfolio["bond"], prices["bond"]) + Times(portfolio["equity"], prices["equity"])

\* ConstantAllocationPolicy.decide.
TargetWeights(context) ==
    [a \in Assets |-> IF a = "equity" THEN context.equity_allocation
                      ELSE One - context.equity_allocation]

\* FixedRealWithdrawalPolicy.decide: a twelfth of the rate, of what the
\* initial portfolio is worth at the first snapshot.
FixedRealWithdrawal(context) ==
    Over(Times(Value(context.initial_portfolio, context.dataset[1]),
               context.withdrawal_rate), 12 * One)

\* ConstantWithdrawalPolicy.decide: the same of the number of units held.
ConstantWithdrawal(context, portfolio) ==
    Over(Times(portfolio["bond"] + portfolio["equity"], context.withdrawal_rate), 12 * One)
=============================================================================
