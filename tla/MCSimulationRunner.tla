-------------------------- MODULE MCSimulationRunner --------------------------
(***************************************************************************)
(* Small instances of SimulationRunner for TLC.  Horizons are of a few     *)
(* months instead of hundreds, and the annual rates are as much higher,    *)
(* so that portfolios run out within them.                                 *)
(***************************************************************************)
EXTENDS SimulationRunner, FiniteSets

CONSTANTS Wealths, EquityAllocations, Rates, Horizons, MaxMonths

\* A quiet month, a loss of both classes, and two months in which one gains.
MonthPrices == {[bond |-> 1000, equity |-> 1000], [bond |-> 900, equity |-> 370],
                [bond |-> 1013, equity |-> 1700], [bond |-> 2150, equity |-> 640]}

Datasets == {d \in UNION {[1 .. n -> MonthPrices] : n \in 1 .. MaxMonths} :
                d[1] = [bond |-> 1000, equity |-> 1000]}

\* build_initial_portfolio: half of the wealth as units of either class.  The
\* engine itself is also given portfolios without units, which it refuses.
Funded(policy) == [policy |-> policy, units |-> {"bond", "equity"}]
Unfunded == [policy |-> "Constant", units |-> {}]

StudyContexts(kinds) ==
    {[horizon_months |-> h, initial_wealth |-> w,
      initial_portfolio |-> [a \in Assets |-> IF a \in k.units THEN w \div 2 ELSE 0],
      dataset |-> d, equity_allocation |-> e, withdrawal_rate |-> r,
      withdrawal_policy |-> k.policy] :
        h \in Horizons, w \in Wealths, d \in Datasets, e \in EquityAllocations,
        r \in Rates, k \in kinds}

AllContexts == StudyContexts({Funded("FixedReal"), Funded("Constant"), Unfunded})
FixedRealContexts == StudyContexts({Funded("FixedReal")})
=============================================================================
