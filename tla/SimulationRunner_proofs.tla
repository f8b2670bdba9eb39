------------------------ MODULE SimulationRunner_proofs ------------------------
(***************************************************************************)
(* Theorems about SimulationRunner for any scale of the decimals and any   *)
(* contexts: every dataset, horizon, allocation and withdrawal policy.     *)
(***************************************************************************)
EXTENDS SimulationRunner, TLAPS

-----------------------------------------------------------------------------
(***************************************************************************)
(* Rounding.                                                               *)
(***************************************************************************)

LEMMA Quotient ==
    ASSUME NEW n \in Nat, NEW d \in Nat \ {0}
    PROVE  \E q, r \in Nat : /\ q = n \div d /\ r = n % d
                             /\ r < d /\ n = d * q + r
<1> DEFINE q == n \div d
           r == n % d
<1>1. q \in Nat /\ r \in Nat /\ r < d
  BY SMT
<1>2. r = n - d * q
  BY Z3
<1>3. q = n \div d /\ r = n % d
  OBVIOUS
<1> HIDE DEF q, r
<1>4. d * q \in Nat
  BY <1>1
<1>5. n = d * q + r
  BY <1>1, <1>2, <1>4
<1> QED
  BY <1>1, <1>3, <1>5, Zenon

\* A rounded quotient is a natural number.
LEMMA HalfEvenNat ==
    ASSUME NEW n \in Nat, NEW d \in Nat \ {0}
    PROVE  HalfEven(n, d) \in Nat
<1>1. PICK q, r \in Nat : q = n \div d /\ r = n % d
  BY Quotient, Zenon
<1>2. HalfEven(n, d) \in {q, q + 1}
  BY <1>1, Zenon DEF HalfEven
<1> QED
  BY <1>2

LEMMA ProductStrict ==
    ASSUME NEW d \in Nat, NEW q \in Nat, NEW k \in Nat, k < q
    PROVE  d * k + d <= d * q
BY Z3

\* Rounding does not lead over a whole number.
LEMMA HalfEvenAtMost ==
    ASSUME NEW n \in Nat, NEW d \in Nat \ {0}, NEW k \in Nat, n <= d * k
    PROVE  HalfEven(n, d) <= k
<1>1. PICK q, r \in Nat : /\ q = n \div d /\ r = n % d
                          /\ r < d /\ n = d * q + r
  BY Quotient, Zenon
<1>2. HalfEven(n, d) = IF 2 * r > d \/ (2 * r = d /\ q % 2 = 1) THEN q + 1 ELSE q
  BY <1>1, Zenon DEF HalfEven
<1>3. d * q \in Nat /\ d * k \in Nat
  BY <1>1
<1>4. q <= k
  BY <1>1, <1>3, ProductStrict
<1>5. q = k => r = 0
  BY <1>1, <1>3
<1>6. HalfEven(n, d) \in {q, q + 1} /\ (r = 0 => HalfEven(n, d) = q)
  BY <1>2
<1> QED
  BY <1>4, <1>5, <1>6

\* A whole number is not rounded.
LEMMA HalfEvenExact ==
    ASSUME NEW d \in Nat \ {0}, NEW k \in Nat
    PROVE  HalfEven(d * k, d) = k
<1>0. d * k \in Nat
  OBVIOUS
<1>1. PICK q, r \in Nat : /\ q = (d * k) \div d /\ r = (d * k) % d
                          /\ r < d /\ d * k = d * q + r
  BY <1>0, Quotient, Zenon
<1>2. HalfEven(d * k, d) = IF 2 * r > d \/ (2 * r = d /\ q % 2 = 1) THEN q + 1 ELSE q
  BY <1>1, Zenon DEF HalfEven
<1>3. d * q \in Nat
  OBVIOUS
<1>4. ~(k < q) /\ ~(q < k)
  BY <1>0, <1>1, <1>3, ProductStrict
<1>5. k = q
  BY <1>4
<1>6. r = 0
  BY <1>0, <1>1, <1>3, <1>5
<1> QED
  BY <1>2, <1>5, <1>6

LEMMA TimesNat ==
    ASSUME NEW x \in Nat, NEW y \in Nat
    PROVE  Times(x, y) \in Nat
<1>1. x * y \in Nat
  OBVIOUS
<1> QED
  BY <1>1, HalfEvenNat, EngineAssumption DEF Times

LEMMA OverNat ==
    ASSUME NEW x \in Nat, NEW y \in Nat \ {0}
    PROVE  Over(x, y) \in Nat
<1>1. Scale \in Nat /\ x * Scale \in Nat
  BY EngineAssumption
<1> QED
  BY <1>1, HalfEvenNat DEF Over

LEMMA MinusNat ==
    ASSUME NEW x \in Nat, NEW y \in Nat
    PROVE  Minus(x, y) \in Nat
BY DEF Minus, Zero

\* A share of something in what it is part of is at most one.
LEMMA ShareAtMostOne ==
    ASSUME NEW x \in Nat, NEW y \in Nat \ {0}, x <= y
    PROVE  Over(x, y) \in 0 .. One
<1>1. Scale \in Nat /\ x * Scale \in Nat
  BY EngineAssumption
<1>2. x * Scale <= y * Scale
  BY <1>1, Z3
<1>3. Over(x, y) <= Scale
  BY <1>1, <1>2, HalfEvenAtMost DEF Over
<1> QED
  BY <1>1, <1>3, OverNat DEF One

LEMMA ShareOfAllIsOne ==
    ASSUME NEW y \in Nat \ {0}
    PROVE  Over(y, y) = One
BY EngineAssumption, HalfEvenExact DEF Over, One

LEMMA NothingOfSomething ==
    ASSUME NEW y \in Nat \ {0}
    PROVE  Over(0, y) = 0
<1>1. 0 * Scale = 0 /\ y * 0 = 0
  BY EngineAssumption
<1> QED
  BY <1>1, HalfEvenExact DEF Over

LEMMA TimesNothing ==
    ASSUME NEW x \in Nat
    PROVE  Times(x, 0) = 0 /\ Times(0, x) = 0
<1>1. Scale \in Nat \ {0} /\ x * 0 = 0 /\ 0 * x = 0 /\ Scale * 0 = 0
  BY EngineAssumption
<1> QED
  BY <1>1, HalfEvenExact DEF Times

-----------------------------------------------------------------------------
(***************************************************************************)
(* Portfolios and their values.                                            *)
(***************************************************************************)

LEMMA HoldingNat ==
    ASSUME NEW units \in Portfolios, NEW prices \in Prices, NEW a \in Assets
    PROVE  Times(units[a], prices[a]) \in Nat
<1>1. units[a] \in Nat /\ prices[a] \in Nat
  BY DEF Portfolios, Prices, Amounts
<1> QED
  BY <1>1, TimesNat

LEMMA ValueNat ==
    ASSUME NEW units \in Portfolios, NEW prices \in Prices
    PROVE  /\ Value(units, prices) \in Nat
           /\ \A a \in Assets : Times(units[a], prices[a]) <= Value(units, prices)
<1>1. /\ Times(units["bond"], prices["bond"]) \in Nat
      /\ Times(units["equity"], prices["equity"]) \in Nat
  BY HoldingNat DEF Assets
<1> QED
  BY <1>1 DEF Value, Assets

LEMMA ContextFields ==
    ASSUME context \in Context
    PROVE  /\ context.horizon_months \in Nat
           /\ context.initial_wealth \in Nat
           /\ context.initial_portfolio \in Portfolios
           /\ context.dataset \in Seq(Prices) /\ context.dataset # <<>>
           /\ Len(context.dataset) \in Nat /\ Len(context.dataset) > 0
           /\ \A i \in 1 .. Len(context.dataset) : context.dataset[i] \in Prices
           /\ context.equity_allocation \in 0 .. One
           /\ context.withdrawal_rate \in Nat
           /\ context.withdrawal_policy \in {"FixedReal", "Constant"}
<1>1. context.dataset \in Seq(Prices) /\ context.dataset # <<>>
  BY DEF Context
<1>2. Len(context.dataset) \in Nat /\ Len(context.dataset) > 0
  BY <1>1
<1>3. \A i \in 1 .. Len(context.dataset) : context.dataset[i] \in Prices
  BY <1>1
<1> QED
  BY <1>1, <1>2, <1>3 DEF Context, Amounts, One

LEMMA FixedRealNat ==
    ASSUME context \in Context
    PROVE  FixedRealWithdrawal(context) \in Nat
<1>1. context.dataset[1] \in Prices
  BY ContextFields
<1>2. Value(context.initial_portfolio, context.dataset[1]) \in Nat
  BY <1>1, ContextFields, ValueNat
<1>3. 12 * One \in Nat \ {0}
  BY EngineAssumption DEF One
<1> QED
  BY <1>2, <1>3, ContextFields, TimesNat, OverNat DEF FixedRealWithdrawal

LEMMA ConstantNat ==
    ASSUME context \in Context, NEW units \in Portfolios
    PROVE  ConstantWithdrawal(context, units) \in Nat
<1>1. units["bond"] + units["equity"] \in Nat
  BY DEF Portfolios, Assets, Amounts
<1>2. 12 * One \in Nat \ {0}
  BY EngineAssumption DEF One
<1> QED
  BY <1>1, <1>2, ContextFields, TimesNat, OverNat DEF ConstantWithdrawal

LEMMA TargetsAreWeights ==
    ASSUME context \in Context
    PROVE  TargetWeights(context) \in Weights
<1>1. One \in Nat /\ context.equity_allocation \in 0 .. One
  BY ContextFields, EngineAssumption DEF One
<1> QED
  BY <1>1 DEF TargetWeights, Weights, Assets

LEMMA UnitsLeftArePortfolio ==
    ASSUME portfolio \in Portfolios, Snapshot \in Prices, NEW ratio \in Nat
    PROVE  UnitsLeft(ratio) \in Portfolios
<1> SUFFICES ASSUME NEW a \in Assets
             PROVE  (LET holding == Times(portfolio[a], Snapshot[a])
                     IN  IF holding = Zero THEN portfolio[a]
                         ELSE Minus(portfolio[a], Over(Times(holding, ratio), Snapshot[a])))
                    \in Nat
  BY DEF UnitsLeft, Portfolios, Amounts
<1>1. portfolio[a] \in Nat /\ Snapshot[a] \in Nat \ {0}
  BY DEF Portfolios, Prices, Amounts
<1>2. Times(Times(portfolio[a], Snapshot[a]), ratio) \in Nat
  BY <1>1, TimesNat
<1>3. Over(Times(Times(portfolio[a], Snapshot[a]), ratio), Snapshot[a]) \in Nat
  BY <1>1, <1>2, OverNat
<1> QED
  BY <1>1, <1>3, MinusNat

LEMMA TargetUnitsArePortfolio ==
    ASSUME Snapshot \in Prices, NEW value \in Nat, NEW weights \in Weights
    PROVE  TargetUnits(value, weights) \in Portfolios
<1>1. weights["bond"] \in Nat
  BY EngineAssumption DEF Weights, Assets, One
<1>2. Times(value, weights["bond"]) \in Nat
  BY <1>1, TimesNat
<1>3. Residual(value, Times(value, weights["bond"])) \in Nat
  BY <1>2, MinusNat DEF Residual
<1>4. \A a \in Assets : Snapshot[a] \in Nat \ {0}
  BY DEF Prices, Amounts
<1> SUFFICES ASSUME NEW a \in Assets
             PROVE  Over(IF a = "bond" THEN Times(value, weights["bond"])
                         ELSE Residual(value, Times(value, weights["bond"])), Snapshot[a])
                    \in Nat
  BY DEF TargetUnits, Portfolios, Amounts
<1> QED
  BY <1>2, <1>3, <1>4, OverNat

\* Weights by value add up to one, and so do weights by units.
LEMMA AllocationsAreWeights ==
    ASSUME Snapshot \in Prices, NEW units \in Portfolios, HasUnits(units)
    PROVE  AllocationOf(units) \in Weights
<1> DEFINE value == Value(units, Snapshot)
           held == Times(units["bond"], Snapshot["bond"])
           bonds == IF value # Zero THEN Over(held, value)
                    ELSE Over(units["bond"], units["bond"] + units["equity"])
<1>1. units["bond"] \in Nat /\ units["equity"] \in Nat
  BY DEF Portfolios, Assets, Amounts
<1>2. value \in Nat /\ held \in Nat /\ held <= value
  BY ValueNat, HoldingNat DEF Assets
<1>3. units["bond"] # 0 \/ units["equity"] # 0
  BY DEF HasUnits, Assets, Zero
<1>4. bonds \in 0 .. One
  <2>1. CASE value # Zero
    <3> HIDE DEF value, held
    <3>1. Over(held, value) \in 0 .. One
      BY <1>2, <2>1, ShareAtMostOne DEF Zero
    <3> QED
      BY <2>1, <3>1
  <2>2. CASE value = Zero
    <3>1. /\ units["bond"] + units["equity"] \in Nat \ {0}
          /\ units["bond"] <= units["bond"] + units["equity"]
      BY <1>1, <1>3
    <3>2. Over(units["bond"], units["bond"] + units["equity"]) \in 0 .. One
      BY <1>1, <3>1, ShareAtMostOne
    <3> HIDE DEF value
    <3> QED
      BY <2>2, <3>2
  <2> QED
    BY <2>1, <2>2
<1>5. AllocationOf(units) = [a \in Assets |-> IF a = "bond" THEN bonds ELSE One - bonds]
  BY DEF AllocationOf
<1> HIDE DEF bonds
<1>6. One \in Nat
  BY EngineAssumption DEF One
<1>7. One - bonds \in 0 .. One /\ bonds + (One - bonds) = One
  BY <1>4, <1>6
<1> QED
  BY <1>4, <1>5, <1>7 DEF Weights, Assets

-----------------------------------------------------------------------------
(***************************************************************************)
(* Types: which locals a step finds set.                                   *)
(***************************************************************************)

Opening == {"InitializeAllocation", "BuildDecisionContext", "WithdrawalDecision",
            "WithdrawalExecution"}
Paid == {"AllocationDecision", "PortfolioRebalance", "MarketEvolution",
         "MonthlyResultBuilder"}
InMonth == step \in Opening \cup Paid \cup {"SimulationStateUpdate"}

DecisionsInv ==
    /\ step = "Initialize" =>
          /\ status = "RUNNING" /\ ~depleted /\ period_index = 0
          /\ monthly_results = <<>>
          /\ portfolio = context.initial_portfolio
          /\ current_wealth = context.initial_wealth
    /\ InMonth => market_snapshot = period_index + 1
    /\ step = "WithdrawalDecision" => decision_context \in Portfolios
    /\ step \in Paid \cup {"WithdrawalExecution", "SimulationStateUpdate"} =>
          withdrawal_decision \in Nat
    /\ step = "PortfolioRebalance" => allocation_decision = TargetWeights(context)
    /\ step = "MonthlyResultBuilder" => allocation \in Weights

TypeInv == TypeOK /\ DecisionsInv

LEMMA SnapshotHasPrices ==
    ASSUME TypeInv, InMonth
    PROVE  /\ market_snapshot = period_index + 1
           /\ market_snapshot \in 1 .. Len(context.dataset)
           /\ Snapshot \in Prices
<1>1. /\ market_snapshot = period_index + 1 /\ period_index \in Nat
      /\ market_snapshot \in 0 .. Len(context.dataset) /\ context \in Context
  BY DEF TypeInv, TypeOK, DecisionsInv
<1>2. Len(context.dataset) \in Nat
  BY <1>1, ContextFields
<1>3. market_snapshot \in 1 .. Len(context.dataset)
  BY <1>1, <1>2
<1> QED
  BY <1>1, <1>3, ContextFields DEF Snapshot

LEMMA TypeInit == Init => TypeInv
<1> SUFFICES ASSUME Init PROVE TypeInv
  OBVIOUS
<1>1. context \in Context
  BY EngineAssumption DEF Init
<1>2. <<>> \in Seq(MonthlyResult)
  OBVIOUS
<1>3. /\ context.initial_portfolio \in Portfolios /\ context.initial_wealth \in Nat
      /\ 0 \in 0 .. Len(context.dataset)
  BY <1>1, ContextFields
<1>4. TypeOK
  BY <1>1, <1>2, <1>3 DEF Init, TypeOK, Steps, Amounts
<1>5. DecisionsInv
  BY DEF Init, DecisionsInv, InMonth, Opening, Paid
<1> QED
  BY <1>4, <1>5 DEF TypeInv

LEMMA TypeStep == TypeInv /\ [Next]_vars => TypeInv'
<1> SUFFICES ASSUME TypeInv, [Next]_vars PROVE TypeInv'
  OBVIOUS
<1> USE DEF TypeInv
<1>0. context \in Context
  BY DEF TypeOK
<1>1. CASE Initialize
  <2>1. CASE context.horizon_months = 0
    <3>1. step' = "BuildResult" /\ status' = "COMPLETED"
      BY <1>0, <1>1, <2>1, ContextFields DEF Initialize, Continue
    <3>2. UNCHANGED <<context, depleted, raised, clock, money, decisions,
                      monthly_results, statistics>>
      BY <1>0, <1>1, <2>1, ContextFields DEF Initialize, Continue, clock
    <3> QED
      BY <3>1, <3>2 DEF TypeOK, DecisionsInv, Steps, InMonth, Opening, Paid, clock,
            money, decisions
  <2>2. CASE context.horizon_months > 0
    <3>1. /\ step' = "InitializeAllocation" /\ market_snapshot' = 1
          /\ UNCHANGED <<context, status, depleted, raised, period_index, money, decisions,
                         monthly_results, statistics>>
      BY <1>0, <1>1, <2>2, ContextFields DEF Initialize, Continue, DecisionsInv
    <3>2. 1 \in 0 .. Len(context.dataset) /\ period_index = 0
      BY <1>0, <1>1, ContextFields DEF DecisionsInv, Initialize
    <3> QED
      BY <3>1, <3>2 DEF TypeOK, DecisionsInv, Steps, InMonth, Opening, Paid, money,
            decisions
  <2> QED
    BY <1>0, <1>1, <2>1, <2>2, ContextFields DEF Initialize
<1>2. CASE InitializeAllocation
  <2>1. Snapshot \in Prices
    BY <1>2, SnapshotHasPrices DEF InitializeAllocation, InMonth, Opening
  <2>2. CASE Raise
    BY <2>2 DEF Raise, TypeOK, DecisionsInv, Steps, InMonth, Opening, Paid, clock, money,
          decisions
  <2>3. CASE /\ allocation = None => HasUnits(portfolio)
             /\ allocation' = IF allocation = None THEN AllocationOf(portfolio) ELSE allocation
             /\ UNCHANGED <<status, depleted, clock, portfolio, current_wealth, decisions,
                            monthly_results>>
             /\ Continue("BuildDecisionContext")
    <3>1. allocation' \in Weights \cup {None}
      BY <2>1, <2>3, AllocationsAreWeights DEF TypeOK
    <3>2. step' \in {"BuildDecisionContext", "BuildResult"}
      BY <2>3 DEF Continue
    <3> QED
      BY <1>2, <2>3, <3>1, <3>2 DEF InitializeAllocation, Continue, TypeOK, DecisionsInv,
            Steps, InMonth, Opening, Paid, clock, decisions
  <2> QED
    BY <1>2, <2>2, <2>3 DEF InitializeAllocation
<1>3. CASE BuildDecisionContext
  <2>1. step' \in {"WithdrawalDecision", "BuildResult"}
    BY <1>3 DEF BuildDecisionContext, Continue
  <2> QED
    BY <1>3, <2>1 DEF BuildDecisionContext, Continue, TypeOK, DecisionsInv, Steps, InMonth,
          Opening, Paid, clock, money
<1>4. CASE WithdrawalDecision
  <2>1. withdrawal_decision' \in Nat
    BY <1>0, <1>4, FixedRealNat, ConstantNat DEF WithdrawalDecision, DecisionsInv
  <2>2. step' \in {"WithdrawalExecution", "BuildResult"}
    BY <1>4 DEF WithdrawalDecision, Continue
  <2> QED
    BY <1>4, <2>1, <2>2 DEF WithdrawalDecision, Continue, TypeOK, DecisionsInv, Steps,
          InMonth, Opening, Paid, clock, money, Amounts
<1>5. CASE WithdrawalExecution
  <2> DEFINE amount == withdrawal_decision
             value == Value(portfolio, Snapshot)
  <2>1. Snapshot \in Prices /\ market_snapshot = period_index + 1
    BY <1>5, SnapshotHasPrices DEF WithdrawalExecution, InMonth, Opening
  <2>2. portfolio \in Portfolios /\ amount \in Nat /\ value \in Nat
    BY <1>5, <2>1, ValueNat DEF TypeOK, DecisionsInv, WithdrawalExecution
  <2>3. /\ portfolio' \in Portfolios
        /\ current_wealth' = Value(portfolio', Snapshot)
        /\ status' \in {status, "FAILED"} /\ depleted' \in {depleted, TRUE}
    <3>1. CASE amount = Zero
      BY <1>5, <2>2, <3>1 DEF WithdrawalExecution
    <3>2. CASE amount # Zero /\ Exceeds(amount, value)
      <4>1. value # Zero => UnitsLeft(Over(value, value)) \in Portfolios
        BY <2>1, <2>2, OverNat, UnitsLeftArePortfolio DEF Zero
      <4> QED
        BY <1>5, <2>2, <3>2, <4>1 DEF WithdrawalExecution
    <3>3. CASE amount # Zero /\ ~Exceeds(amount, value)
      <4>1. value \in Nat \ {0}
        BY <2>2, <3>3 DEF Exceeds, Zero
      <4>2. UnitsLeft(Over(amount, value)) \in Portfolios
        BY <2>1, <2>2, <4>1, OverNat, UnitsLeftArePortfolio
      <4> QED
        BY <1>5, <3>3, <4>2 DEF WithdrawalExecution
    <3> QED
      BY <3>1, <3>2, <3>3
  <2>4. current_wealth' \in Nat
    BY <2>1, <2>3, ValueNat
  <2>5. step' \in {"AllocationDecision", "BuildResult"}
    BY <1>5 DEF WithdrawalExecution, Continue
  <2>6. UNCHANGED <<context, raised, clock, allocation, decisions, monthly_results, statistics>>
    BY <1>5 DEF WithdrawalExecution, Continue
  <2> QED
    BY <2>1, <2>2, <2>3, <2>4, <2>5, <2>6 DEF TypeOK, DecisionsInv, Steps, InMonth, Opening,
          Paid, clock, decisions, Amounts
<1>6. CASE AllocationDecision
  <2>1. allocation_decision' = TargetWeights(context) /\ TargetWeights(context) \in Weights
    BY <1>0, <1>6, TargetsAreWeights DEF AllocationDecision
  <2>2. step' \in {"PortfolioRebalance", "BuildResult"}
    BY <1>6 DEF AllocationDecision, Continue
  <2>3. UNCHANGED TargetWeights(context)
    BY <1>6 DEF AllocationDecision, Continue
  <2> QED
    BY <1>6, <2>1, <2>2, <2>3 DEF AllocationDecision, Continue, TypeOK, DecisionsInv, Steps,
          InMonth, Opening, Paid, clock, money
<1>7. CASE PortfolioRebalance
  <2> DEFINE value == Value(portfolio, Snapshot)
             target == TargetUnits(value, allocation_decision)
  <2>1. Snapshot \in Prices
    BY <1>7, SnapshotHasPrices DEF PortfolioRebalance, InMonth, Paid
  <2>2. value \in Nat /\ allocation_decision \in Weights
    BY <1>0, <1>7, <2>1, ValueNat, TargetsAreWeights DEF TypeOK, DecisionsInv,
          PortfolioRebalance
  <2>3. target \in Portfolios
    BY <2>1, <2>2, TargetUnitsArePortfolio
  <2>4. Value(target, Snapshot) # Zero => AllocationOf(target) \in Weights
    <3> SUFFICES ASSUME Value(target, Snapshot) # Zero PROVE HasUnits(target)
      BY <2>1, <2>3, AllocationsAreWeights
    <3> HIDE DEF target
    <3>1. ASSUME ~HasUnits(target) PROVE FALSE
      <4>1. target["bond"] = 0 /\ target["equity"] = 0
        BY <3>1 DEF HasUnits, Assets, Zero
      <4>2. Snapshot["bond"] \in Nat /\ Snapshot["equity"] \in Nat
        BY <2>1 DEF Prices, Assets, Amounts
      <4> QED
        BY <4>1, <4>2, TimesNothing DEF Value, Zero
    <3> QED
      BY <3>1
  <2>5. /\ portfolio' = target /\ current_wealth' = value
        /\ allocation' \in Weights
    BY <1>7, <2>2, <2>4 DEF PortfolioRebalance
  <2>6. step' \in {"MarketEvolution", "BuildResult"}
    BY <1>7 DEF PortfolioRebalance, Continue
  <2>7. UNCHANGED <<context, status, depleted, raised, clock, decisions, monthly_results,
                    statistics>>
    BY <1>7 DEF PortfolioRebalance, Continue
  <2>8. market_snapshot = period_index + 1 /\ withdrawal_decision \in Nat
    BY <1>7 DEF DecisionsInv, PortfolioRebalance, InMonth, Paid
  <2> HIDE DEF value, target
  <2> QED
    BY <2>2, <2>3, <2>5, <2>6, <2>7, <2>8 DEF TypeOK, DecisionsInv, Steps, InMonth, Opening,
          Paid, clock, decisions, Amounts
<1>8. CASE MarketEvolution
  <2>1. Snapshot \in Prices /\ portfolio \in Portfolios
    BY <1>8, SnapshotHasPrices DEF MarketEvolution, InMonth, Paid, TypeOK
  <2>2. CASE Raise
    BY <2>2 DEF Raise, TypeOK, DecisionsInv, Steps, InMonth, Opening, Paid, clock, money,
          decisions
  <2>3. CASE /\ HasUnits(portfolio)
             /\ allocation' = AllocationOf(portfolio)
             /\ current_wealth' = Value(portfolio, Snapshot)
             /\ UNCHANGED <<status, depleted, clock, portfolio, decisions, monthly_results>>
             /\ Continue("MonthlyResultBuilder")
    <3>1. allocation' \in Weights /\ current_wealth' \in Nat
      BY <2>1, <2>3, AllocationsAreWeights, ValueNat
    <3>2. step' \in {"MonthlyResultBuilder", "BuildResult"}
      BY <2>3 DEF Continue
    <3> QED
      BY <1>8, <2>3, <3>1, <3>2 DEF MarketEvolution, Continue, TypeOK, DecisionsInv, Steps,
            InMonth, Opening, Paid, clock, decisions, Amounts
  <2> QED
    BY <1>8, <2>2, <2>3 DEF MarketEvolution
<1>9. CASE MonthlyResultBuilder
  <2>1. [period_index |-> period_index, market_snapshot |-> market_snapshot,
         portfolio |-> portfolio, allocation |-> allocation,
         withdrawal |-> withdrawal_decision] \in MonthlyResult
    <3>1. market_snapshot \in Nat
      BY <1>0, <1>9, SnapshotHasPrices DEF MonthlyResultBuilder, InMonth, Paid, TypeOK,
            DecisionsInv
    <3> QED
      BY <1>9, <3>1 DEF MonthlyResultBuilder, MonthlyResult, TypeOK, DecisionsInv, Paid, Amounts
  <2>2. monthly_results' \in Seq(MonthlyResult)
    BY <1>9, <2>1 DEF MonthlyResultBuilder, TypeOK
  <2>3. step' \in {"SimulationStateUpdate", "BuildResult"}
    BY <1>9 DEF MonthlyResultBuilder, Continue
  <2>4. UNCHANGED <<context, status, depleted, raised, clock, money, decisions, statistics>>
    BY <1>9 DEF MonthlyResultBuilder, Continue
  <2>5. market_snapshot = period_index + 1 /\ withdrawal_decision \in Nat
    BY <1>9 DEF DecisionsInv, MonthlyResultBuilder, InMonth, Paid
  <2> QED
    BY <2>2, <2>3, <2>4, <2>5 DEF TypeOK, DecisionsInv, Steps, InMonth, Opening, Paid, clock,
          money, decisions
<1>10. CASE SimulationStateUpdate
  <2>1. /\ step' \in {"InitializeAllocation", "BuildResult"}
        /\ status' \in {status, "COMPLETED"}
        /\ UNCHANGED <<context, depleted, raised, money, decisions, monthly_results, statistics>>
    BY <1>10 DEF SimulationStateUpdate, Continue
  <2>2. period_index' \in Nat /\ market_snapshot' \in 0 .. Len(context.dataset)
    BY <1>0, <1>10, ContextFields DEF SimulationStateUpdate, NextSnapshot, clock, TypeOK
  <2>3. step' = "InitializeAllocation" => market_snapshot' = period_index' + 1
    BY <1>10 DEF SimulationStateUpdate, NextSnapshot, Continue, TypeOK
  <2>4. TypeOK'
    BY <2>1, <2>2 DEF TypeOK, Steps, money, decisions
  <2>5. DecisionsInv'
    BY <2>1, <2>3 DEF DecisionsInv, InMonth, Opening, Paid
  <2> QED
    BY <2>4, <2>5
<1>11. CASE BuildResult
  <2>1. statistics' \in Statistics
    <3>1. Len(monthly_results) \in Nat
      BY DEF TypeOK
    <3>2. (status = "COMPLETED" /\ ~depleted) \in BOOLEAN
      BY DEF TypeOK
    <3>3. (IF depleted THEN period_index ELSE None) \in Nat \cup {None}
      BY DEF TypeOK
    <3>4. current_wealth \in Amounts
      BY DEF TypeOK
    <3> QED
      BY <1>11, <3>1, <3>2, <3>3, <3>4 DEF BuildResult, Statistics
  <2> QED
    BY <1>11, <2>1 DEF BuildResult, TypeOK, DecisionsInv, Steps, InMonth, Opening, Paid,
          clock, money, decisions
<1>12. CASE UNCHANGED vars
  BY <1>12 DEF vars, TypeOK, DecisionsInv, InMonth, Opening, Paid, clock, money, decisions
<1> QED
  BY <1>1, <1>2, <1>3, <1>4, <1>5, <1>6, <1>7, <1>8, <1>9, <1>10, <1>11, <1>12 DEF Next

-----------------------------------------------------------------------------
(***************************************************************************)
(* The clock and the timeline.                                             *)
(***************************************************************************)

Ended == step \in {"BuildResult", "Returned"}

ClockInv ==
    /\ \A i \in 1 .. Months :
        /\ monthly_results[i].period_index = i - 1
        /\ monthly_results[i].market_snapshot = i
    /\ InMonth => status = "RUNNING" /\ ~depleted
    /\ InMonth \/ step = "Raised" => period_index < LastMonth
    /\ step \in Opening \cup Paid \cup {"Raised"} => Months = period_index
    /\ step = "SimulationStateUpdate" => Months = period_index + 1
    /\ Ended =>
          \/ /\ status = "COMPLETED" /\ ~depleted
             /\ Months = LastMonth /\ Months \in {period_index, period_index + 1}
          \/ /\ status = "FAILED" /\ depleted
             /\ Months = period_index /\ period_index < LastMonth
    /\ statistics # None => step = "Returned"

LEMMA LastMonthBounds ==
    ASSUME context \in Context
    PROVE  /\ LastMonth \in Nat /\ LastMonth <= Len(context.dataset)
           /\ LastMonth <= context.horizon_months
           /\ \A n \in Nat : n < LastMonth <=>
                  n < context.horizon_months /\ n < Len(context.dataset)
           /\ LastMonth = 0 <=> context.horizon_months = 0
<1> DEFINE h == context.horizon_months
           l == Len(context.dataset)
<1>1. h \in Nat /\ l \in Nat /\ l > 0
  BY ContextFields
<1> HIDE DEF h, l
<1>2. LastMonth = IF h < l THEN h ELSE l
  BY DEF LastMonth, h, l
<1>3. /\ LastMonth \in Nat /\ LastMonth <= l /\ LastMonth <= h
      /\ \A n \in Nat : n < LastMonth <=> n < h /\ n < l
      /\ LastMonth = 0 <=> h = 0
  BY <1>1, <1>2
<1> QED
  BY <1>3 DEF h, l

LEMMA MonthsNat ==
    ASSUME TypeOK
    PROVE  Months \in Nat /\ period_index \in Nat /\ context \in Context
BY DEF TypeOK, Months

LEMMA ClockInit == Init => ClockInv
BY DEF Init, ClockInv, Months, InMonth, Opening, Paid, Ended

\* Where a step of a month leads that does not end it.
LEMMA OnlyContinues ==
    ASSUME NEW next, Continue(next), UNCHANGED <<status, depleted>>,
           status = "RUNNING", ~depleted
    PROVE  step' = next /\ UNCHANGED <<raised, context, statistics>>
BY DEF Continue

LEMMA ClockStep == TypeInv /\ ClockInv /\ [Next]_vars => ClockInv'
<1> SUFFICES ASSUME TypeInv, ClockInv, [Next]_vars PROVE ClockInv'
  OBVIOUS
<1>0. Months \in Nat /\ period_index \in Nat /\ context \in Context
  BY MonthsNat DEF TypeInv
<1> USE DEF InMonth, Opening, Paid, Ended
<1>1. CASE Initialize
  <2>1. /\ status = "RUNNING" /\ ~depleted /\ period_index = 0 /\ monthly_results = <<>>
        /\ Months = 0
    BY <1>1 DEF Initialize, TypeInv, DecisionsInv, Months
  <2>2. UNCHANGED <<context, depleted, period_index, monthly_results, statistics>>
    BY <1>1 DEF Initialize, Continue
  <2>3. statistics = None
    BY <1>1 DEF Initialize, ClockInv
  <2>4. \/ context.horizon_months = 0 /\ step' = "BuildResult" /\ status' = "COMPLETED"
        \/ context.horizon_months > 0 /\ step' = "InitializeAllocation" /\ status' = "RUNNING"
    BY <1>1, <2>1 DEF Initialize, Continue
  <2>5. /\ LastMonth = 0 <=> context.horizon_months = 0
        /\ LastMonth \in Nat /\ context.horizon_months \in Nat
    BY <1>0, LastMonthBounds, ContextFields
  <2>6. Months' = 0 /\ LastMonth' = LastMonth
    BY <2>1, <2>2 DEF Months, LastMonth
  <2> QED
    BY <2>1, <2>2, <2>3, <2>4, <2>5, <2>6 DEF ClockInv
<1>2. ASSUME InMonth, InMonth', step \in (Opening \cup Paid) \ {"MonthlyResultBuilder"},
             step' \in Opening \cup Paid,
             UNCHANGED <<context, status, depleted, period_index, monthly_results, statistics>>
      PROVE  ClockInv'
  BY <1>2 DEF ClockInv, Months, LastMonth
<1>3. ASSUME step \in Opening \cup Paid, step' = "Raised",
             UNCHANGED <<context, status, depleted, period_index, monthly_results, statistics>>
      PROVE  ClockInv'
  BY <1>3 DEF ClockInv, Months, LastMonth
<1>4. CASE InitializeAllocation
  <2>1. CASE Raise
    BY <1>3, <1>4, <2>1 DEF Raise, InitializeAllocation, clock
  <2>2. CASE ~Raise
    BY <1>2, <1>4, <2>2, OnlyContinues DEF InitializeAllocation, ClockInv, clock
  <2> QED
    BY <2>1, <2>2
<1>5. CASE BuildDecisionContext
  BY <1>2, <1>5, OnlyContinues DEF BuildDecisionContext, ClockInv, clock
<1>6. CASE WithdrawalDecision
  BY <1>2, <1>6, OnlyContinues DEF WithdrawalDecision, ClockInv, clock
<1>7. CASE WithdrawalExecution
  <2>1. /\ status = "RUNNING" /\ ~depleted /\ Months = period_index
        /\ period_index < LastMonth /\ statistics = None
    BY <1>7 DEF WithdrawalExecution, ClockInv
  <2>2. UNCHANGED <<context, period_index, monthly_results, statistics>>
    BY <1>7 DEF WithdrawalExecution, Continue, clock
  <2>3. CASE UNCHANGED <<status, depleted>>
    BY <1>2, <1>7, <2>1, <2>2, <2>3, OnlyContinues DEF WithdrawalExecution
  <2>4. CASE depleted' = TRUE /\ status' = "FAILED"
    <3>1. step' = "BuildResult"
      BY <1>7, <2>4 DEF WithdrawalExecution, Continue
    <3> QED
      BY <2>1, <2>2, <2>4, <3>1 DEF ClockInv, Months, LastMonth
  <2>5. UNCHANGED <<status, depleted>> \/ (depleted' = TRUE /\ status' = "FAILED")
    BY <1>7 DEF WithdrawalExecution
  <2> QED
    BY <2>3, <2>4, <2>5
<1>8. CASE AllocationDecision
  BY <1>2, <1>8, OnlyContinues DEF AllocationDecision, ClockInv, clock
<1>9. CASE PortfolioRebalance
  BY <1>2, <1>9, OnlyContinues DEF PortfolioRebalance, ClockInv, clock
<1>10. CASE MarketEvolution
  <2>1. CASE Raise
    BY <1>3, <1>10, <2>1 DEF Raise, MarketEvolution, clock
  <2>2. CASE ~Raise
    BY <1>2, <1>10, <2>2, OnlyContinues DEF MarketEvolution, ClockInv, clock
  <2> QED
    BY <2>1, <2>2
<1>11. CASE MonthlyResultBuilder
  <2>1. /\ status = "RUNNING" /\ ~depleted /\ Months = period_index
        /\ period_index < LastMonth /\ statistics = None
    BY <1>11 DEF MonthlyResultBuilder, ClockInv
  <2>2. /\ step' = "SimulationStateUpdate"
        /\ UNCHANGED <<context, status, depleted, period_index, statistics>>
    BY <1>11, <2>1, OnlyContinues DEF MonthlyResultBuilder, clock
  <2> DEFINE result == [period_index |-> period_index, market_snapshot |-> market_snapshot,
                        portfolio |-> portfolio, allocation |-> allocation,
                        withdrawal |-> withdrawal_decision]
  <2>3. monthly_results' = Append(monthly_results, result)
    BY <1>11 DEF MonthlyResultBuilder
  <2>4. result.period_index = period_index /\ result.market_snapshot = period_index + 1
    BY <1>11 DEF TypeInv, DecisionsInv, MonthlyResultBuilder
  <2> HIDE DEF result
  <2>5. /\ Months' = Months + 1 /\ monthly_results'[Months + 1] = result
        /\ \A i \in 1 .. Months : monthly_results'[i] = monthly_results[i]
    BY <2>3 DEF TypeInv, TypeOK, Months
  <2>6. LastMonth' = LastMonth
    BY <2>2 DEF LastMonth
  <2>7. \A i \in 1 .. Months' :
            /\ monthly_results'[i].period_index = i - 1
            /\ monthly_results'[i].market_snapshot = i
    BY <1>0, <2>1, <2>4, <2>5 DEF ClockInv
  <2> QED
    BY <1>0, <2>1, <2>2, <2>5, <2>6, <2>7 DEF ClockInv
<1>12. CASE SimulationStateUpdate
  <2>1. /\ status = "RUNNING" /\ ~depleted /\ Months = period_index + 1
        /\ period_index < LastMonth /\ statistics = None
    BY <1>12 DEF SimulationStateUpdate, ClockInv
  <2>2. UNCHANGED <<context, depleted, monthly_results, statistics>>
    BY <1>12 DEF SimulationStateUpdate, Continue
  <2>3. Months' = Months /\ LastMonth' = LastMonth
    BY <2>2 DEF Months, LastMonth
  <2> DEFINE h == context.horizon_months
             l == Len(context.dataset)
  <2>4. h \in Nat /\ l \in Nat
    BY <1>0, ContextFields
  <2>5. \A n \in Nat : n < LastMonth <=> n < h /\ n < l
    BY <1>0, LastMonthBounds
  <2>6. LastMonth \in Nat
    BY <1>0, LastMonthBounds
  <2>7. CASE (period_index + 1 >= h \/ NextSnapshot > l)
             /\ status' = "COMPLETED" /\ UNCHANGED clock
    <3>1. step' = "BuildResult"
      BY <1>12, <2>7 DEF SimulationStateUpdate, Continue
    <3>2. period_index + 1 = LastMonth
      <4> HIDE DEF h, l
      <4>1. ~(period_index + 1 < h /\ period_index + 1 < l)
        BY <1>0, <2>4, <2>7 DEF NextSnapshot
      <4>2. ~(period_index + 1 < LastMonth)
        BY <1>0, <2>5, <4>1
      <4> QED
        BY <1>0, <2>1, <2>6, <4>2
    <3> QED
      BY <1>0, <2>1, <2>2, <2>3, <2>7, <3>1, <3>2 DEF ClockInv, clock
  <2>8. CASE /\ period_index + 1 < h /\ NextSnapshot <= l
             /\ period_index' = period_index + 1 /\ UNCHANGED status
    <3>1. step' = "InitializeAllocation"
      BY <1>12, <2>1, <2>8, OnlyContinues DEF SimulationStateUpdate
    <3>2. period_index + 1 < LastMonth
      <4> HIDE DEF h, l
      <4> QED
        BY <1>0, <2>4, <2>5, <2>8 DEF NextSnapshot
    <3> QED
      BY <2>1, <2>2, <2>3, <2>8, <3>1, <3>2 DEF ClockInv
  <2> QED
    BY <1>12, <2>7, <2>8 DEF SimulationStateUpdate
<1>13. CASE BuildResult
  <2>1. /\ step' = "Returned" /\ step = "BuildResult"
        /\ UNCHANGED <<context, status, depleted, period_index, monthly_results>>
    BY <1>13 DEF BuildResult, clock
  <2> QED
    BY <2>1 DEF ClockInv, Months, LastMonth
<1>14. CASE UNCHANGED vars
  BY <1>14 DEF vars, clock, ClockInv, Months, LastMonth
<1> QED
  BY <1>1, <1>4, <1>5, <1>6, <1>7, <1>8, <1>9, <1>10, <1>11, <1>12, <1>13, <1>14 DEF Next

-----------------------------------------------------------------------------
(***************************************************************************)
(* What was paid and what is left.                                         *)
(***************************************************************************)

PaymentInv ==
    /\ \A i \in 1 .. Months : monthly_results[i].withdrawal <= StartValue(i)
    /\ step \in Opening => portfolio = MonthStart(Months + 1)
    /\ step \in Paid => withdrawal_decision <= StartValue(Months + 1)
    /\ step \in {"MonthlyResultBuilder", "SimulationStateUpdate"} =>
          current_wealth = Value(portfolio, Snapshot)
    /\ step = "SimulationStateUpdate" => portfolio = monthly_results[Months].portfolio
    /\ Ended /\ depleted => withdrawal_decision > StartValue(Months + 1)
    /\ Ended /\ ~depleted =>
          current_wealth = IF Months = 0 THEN context.initial_wealth
                           ELSE Value(monthly_results[Months].portfolio,
                                      context.dataset[Months])
    /\ statistics # None =>
          statistics = [final_wealth |-> current_wealth,
                        success |-> status = "COMPLETED" /\ ~depleted,
                        failure_month |-> IF depleted THEN period_index ELSE None,
                        months_simulated |-> Months]

LEMMA PaymentInit == Init => PaymentInv
BY DEF Init, PaymentInv, Months, MonthStart, Opening, Paid, Ended

\* As long as nothing is recorded, the months start with what they did.
LEMMA HistoryStays ==
    ASSUME UNCHANGED <<context, monthly_results>>
    PROVE  /\ Months' = Months /\ LastMonth' = LastMonth
           /\ \A i : MonthStart(i)' = MonthStart(i) /\ StartValue(i)' = StartValue(i)
BY DEF Months, LastMonth, StartValue, MonthStart

\* A recorded month leaves those before it, and its own start, as they were.
LEMMA HistoryGrows ==
    ASSUME TypeOK, NEW result, monthly_results' = Append(monthly_results, result),
           UNCHANGED context
    PROVE  /\ Months' = Months + 1
           /\ monthly_results'[Months + 1] = result
           /\ \A i \in 1 .. Months : monthly_results'[i] = monthly_results[i]
           /\ \A i \in 1 .. Months + 1 :
                /\ MonthStart(i)' = MonthStart(i)
                /\ StartValue(i)' = StartValue(i)
<1>1. Months \in Nat
  BY MonthsNat
<1>2. /\ Months' = Months + 1 /\ monthly_results'[Months + 1] = result
      /\ \A i \in 1 .. Months : monthly_results'[i] = monthly_results[i]
  BY DEF TypeOK, Months
<1>3. \A i \in 1 .. Months + 1 : MonthStart(i)' = MonthStart(i)
  <2> SUFFICES ASSUME NEW i \in 1 .. Months + 1 PROVE MonthStart(i)' = MonthStart(i)
    OBVIOUS
  <2>1. CASE i = 1
    BY <2>1 DEF MonthStart
  <2>2. CASE i # 1
    <3>1. i - 1 \in 1 .. Months
      BY <1>1, <2>2
    <3> QED
      BY <1>2, <2>2, <3>1 DEF MonthStart
  <2> QED
    BY <2>1, <2>2
<1> QED
  BY <1>2, <1>3 DEF StartValue

LEMMA PaymentStep == TypeInv /\ ClockInv /\ PaymentInv /\ [Next]_vars => PaymentInv'
<1> SUFFICES ASSUME TypeInv, ClockInv, PaymentInv, [Next]_vars PROVE PaymentInv'
  OBVIOUS
<1>0. Months \in Nat /\ period_index \in Nat /\ context \in Context /\ TypeOK
  BY MonthsNat DEF TypeInv
<1> USE DEF InMonth, Opening, Paid, Ended
<1>1. CASE Initialize
  <2>1. /\ monthly_results = <<>> /\ portfolio = context.initial_portfolio
        /\ current_wealth = context.initial_wealth /\ ~depleted /\ status = "RUNNING"
    BY <1>1 DEF Initialize, TypeInv, DecisionsInv
  <2>2. UNCHANGED <<context, depleted, portfolio, current_wealth, monthly_results, statistics>>
    BY <1>1 DEF Initialize, Continue, money
  <2>3. step' \in {"BuildResult", "InitializeAllocation"} /\ statistics = None
    BY <1>1 DEF Initialize, Continue, ClockInv
  <2>4. Months' = 0 /\ MonthStart(1)' = context.initial_portfolio
    BY <2>1, <2>2 DEF Months, MonthStart
  <2> QED
    BY <2>1, <2>2, <2>3, <2>4 DEF PaymentInv
<1>2. ASSUME step \in Opening, step' \in Opening,
             UNCHANGED <<context, portfolio, monthly_results, statistics>>
      PROVE  PaymentInv'
  BY <1>2, HistoryStays DEF PaymentInv, ClockInv
<1>3. ASSUME step \in Opening \cup Paid, step' = "Raised",
             UNCHANGED <<context, monthly_results, statistics>>
      PROVE  PaymentInv'
  BY <1>3, HistoryStays DEF PaymentInv, ClockInv
<1>4. CASE InitializeAllocation
  <2>1. CASE Raise
    BY <1>3, <1>4, <2>1 DEF Raise, InitializeAllocation
  <2>2. CASE ~Raise
    BY <1>2, <1>4, <2>2, OnlyContinues DEF InitializeAllocation, ClockInv
  <2> QED
    BY <2>1, <2>2
<1>5. CASE BuildDecisionContext
  BY <1>2, <1>5, OnlyContinues DEF BuildDecisionContext, ClockInv, money
<1>6. CASE WithdrawalDecision
  BY <1>2, <1>6, OnlyContinues DEF WithdrawalDecision, ClockInv, money
<1>7. CASE WithdrawalExecution
  <2> DEFINE value == Value(portfolio, Snapshot)
  <2>1. /\ status = "RUNNING" /\ ~depleted /\ Months = period_index
        /\ statistics = None /\ portfolio = MonthStart(Months + 1)
    BY <1>7 DEF WithdrawalExecution, ClockInv, PaymentInv
  <2>2. /\ market_snapshot = period_index + 1 /\ Snapshot \in Prices
        /\ portfolio \in Portfolios /\ withdrawal_decision \in Nat
    BY <1>0, <1>7, SnapshotHasPrices DEF WithdrawalExecution, TypeOK, TypeInv, DecisionsInv
  <2>3. StartValue(Months + 1) = value /\ value \in Nat
    BY <2>1, <2>2, ValueNat DEF StartValue, Snapshot
  <2>4. UNCHANGED <<context, withdrawal_decision, monthly_results, statistics>>
    BY <1>7 DEF WithdrawalExecution, Continue, decisions
  <2>5. /\ Months' = Months /\ StartValue(Months + 1)' = StartValue(Months + 1)
        /\ \A i : StartValue(i)' = StartValue(i)
    BY <2>4, HistoryStays
  <2> HIDE DEF value
  <2>6. CASE withdrawal_decision <= value /\ UNCHANGED <<status, depleted>>
    <3>1. step' = "AllocationDecision"
      BY <1>7, <2>1, <2>6, OnlyContinues DEF WithdrawalExecution
    <3> QED
      BY <2>1, <2>3, <2>4, <2>5, <2>6, <3>1 DEF PaymentInv
  <2>7. CASE withdrawal_decision > value /\ depleted' = TRUE
    <3>1. step' = "BuildResult"
      BY <1>7, <2>7 DEF WithdrawalExecution, Continue
    <3> QED
      BY <2>1, <2>3, <2>4, <2>5, <2>7, <3>1 DEF PaymentInv
  <2>8. \/ withdrawal_decision <= value /\ UNCHANGED <<status, depleted>>
        \/ withdrawal_decision > value /\ depleted' = TRUE
    BY <1>7, <2>2, <2>3 DEF WithdrawalExecution, Exceeds, Zero, value
  <2> QED
    BY <2>6, <2>7, <2>8
<1>8. ASSUME step \in Paid, step' \in Paid \ {"MonthlyResultBuilder"},
             UNCHANGED <<context, withdrawal_decision, monthly_results, statistics>>
      PROVE  PaymentInv'
  BY <1>8, HistoryStays DEF PaymentInv, ClockInv
<1>9. CASE AllocationDecision
  BY <1>8, <1>9, OnlyContinues DEF AllocationDecision, ClockInv
<1>10. CASE PortfolioRebalance
  BY <1>8, <1>10, OnlyContinues DEF PortfolioRebalance, ClockInv, decisions
<1>11. CASE MarketEvolution
  <2>1. CASE Raise
    BY <1>3, <1>11, <2>1 DEF Raise, MarketEvolution
  <2>2. CASE ~Raise
    <3>1. /\ step' = "MonthlyResultBuilder"
          /\ UNCHANGED <<context, statistics, clock, portfolio, withdrawal_decision,
                         monthly_results>>
          /\ current_wealth' = Value(portfolio, Snapshot)
      BY <1>11, <2>2, OnlyContinues DEF MarketEvolution, ClockInv, decisions
    <3>2. Snapshot' = Snapshot
      BY <3>1 DEF Snapshot, clock
    <3>3. current_wealth' = Value(portfolio, Snapshot)'
      BY <3>1, <3>2
    <3>4. statistics = None /\ step \in Paid
      BY <1>11 DEF MarketEvolution, ClockInv
    <3> QED
      BY <3>1, <3>3, <3>4, HistoryStays DEF PaymentInv
  <2> QED
    BY <2>1, <2>2
<1>12. CASE MonthlyResultBuilder
  <2> DEFINE result == [period_index |-> period_index, market_snapshot |-> market_snapshot,
                        portfolio |-> portfolio, allocation |-> allocation,
                        withdrawal |-> withdrawal_decision]
  <2>1. /\ step' = "SimulationStateUpdate" /\ statistics = None
        /\ UNCHANGED <<context, clock, portfolio, current_wealth, statistics>>
    BY <1>12, OnlyContinues DEF MonthlyResultBuilder, ClockInv, money
  <2>2. monthly_results' = Append(monthly_results, result)
    BY <1>12 DEF MonthlyResultBuilder
  <2>3. result.portfolio = portfolio /\ result.withdrawal = withdrawal_decision
    OBVIOUS
  <2> HIDE DEF result
  <2>4. /\ Months' = Months + 1 /\ monthly_results'[Months + 1] = result
        /\ \A i \in 1 .. Months : monthly_results'[i] = monthly_results[i]
        /\ \A i \in 1 .. Months + 1 : StartValue(i)' = StartValue(i)
    BY <1>0, <2>1, <2>2, HistoryGrows
  <2>5. \A i \in 1 .. Months' : monthly_results'[i].withdrawal <= StartValue(i)'
    <3>1. /\ \A i \in 1 .. Months : monthly_results[i].withdrawal <= StartValue(i)
          /\ withdrawal_decision <= StartValue(Months + 1)
      BY <1>12 DEF PaymentInv, MonthlyResultBuilder
    <3> SUFFICES ASSUME NEW i \in 1 .. Months + 1
                 PROVE  monthly_results'[i].withdrawal <= StartValue(i)'
      BY <2>4
    <3>2. CASE i \in 1 .. Months
      BY <2>4, <3>1, <3>2
    <3>3. CASE i = Months + 1
      BY <2>3, <2>4, <3>1, <3>3
    <3> QED
      BY <1>0, <3>2, <3>3
  <2>6. (current_wealth = Value(portfolio, Snapshot))'
    BY <1>12, <2>1 DEF PaymentInv, MonthlyResultBuilder, Snapshot, clock
  <2> QED
    BY <2>1, <2>3, <2>4, <2>5, <2>6 DEF PaymentInv
<1>13. CASE SimulationStateUpdate
  <2>1. /\ statistics = None /\ ~depleted /\ Months = period_index + 1
        /\ portfolio = monthly_results[Months].portfolio
        /\ current_wealth = Value(portfolio, Snapshot)
    BY <1>13 DEF SimulationStateUpdate, ClockInv, PaymentInv
  <2>2. UNCHANGED <<context, depleted, portfolio, current_wealth, monthly_results, statistics>>
    BY <1>13 DEF SimulationStateUpdate, Continue, money
  <2>3. Snapshot = context.dataset[Months]
    BY <1>13, <2>1 DEF Snapshot, SimulationStateUpdate, TypeInv, DecisionsInv
  <2>4. step' \in {"InitializeAllocation", "BuildResult"}
    BY <1>13 DEF SimulationStateUpdate, Continue
  <2>5. Months + 1 # 1 /\ (Months + 1) - 1 = Months /\ Months # 0
    BY <1>0, <2>1
  <2>6. MonthStart(Months + 1) = portfolio
    BY <2>1, <2>5 DEF MonthStart
  <2>7. /\ Months' = Months /\ \A i : StartValue(i)' = StartValue(i)
        /\ MonthStart(Months + 1)' = MonthStart(Months + 1)
    BY <2>2, HistoryStays
  <2> QED
    BY <1>13, <2>1, <2>2, <2>3, <2>4, <2>5, <2>6, <2>7 DEF PaymentInv, SimulationStateUpdate
<1>14. CASE BuildResult
  <2>1. /\ step = "BuildResult" /\ step' = "Returned"
        /\ UNCHANGED <<context, status, depleted, period_index, current_wealth,
                       withdrawal_decision, monthly_results>>
        /\ statistics' = [final_wealth |-> current_wealth,
                          success |-> status = "COMPLETED" /\ ~depleted,
                          failure_month |-> IF depleted THEN period_index ELSE None,
                          months_simulated |-> Months]
    BY <1>14 DEF BuildResult, clock, money, decisions, Months
  <2> QED
    BY <2>1, HistoryStays DEF PaymentInv
<1>15. CASE UNCHANGED vars
  <2>1. UNCHANGED <<context, step, status, depleted, period_index, portfolio, current_wealth,
                    withdrawal_decision, monthly_results, statistics, Snapshot>>
    BY <1>15 DEF vars, clock, money, decisions, Snapshot
  <2> QED
    BY <2>1, HistoryStays DEF PaymentInv
<1> QED
  BY <1>1, <1>4, <1>5, <1>6, <1>7, <1>9, <1>10, <1>11, <1>12, <1>13, <1>14, <1>15 DEF Next

-----------------------------------------------------------------------------
(***************************************************************************)
(* The recurrence: what a month makes of a portfolio.                      *)
(***************************************************************************)

SoldOf(units, prices, ratio) ==
    [a \in Assets |->
        Minus(units[a], Over(Times(Times(units[a], prices[a]), ratio), prices[a]))]

AfterSale(i, amount) ==
    IF StartValue(i) = Zero THEN MonthStart(i)
    ELSE SoldOf(MonthStart(i), context.dataset[i], Over(amount, StartValue(i)))

MonthEnd(i, amount) ==
    LET prices == context.dataset[i]
        remaining == Value(AfterSale(i, amount), prices)
        bonds == Times(remaining, TargetWeights(context)["bond"])
    IN  [a \in Assets |-> Over(IF a = "bond" THEN bonds ELSE Minus(remaining, bonds),
                               prices[a])]

FixedReal == context.withdrawal_policy = "FixedReal"

RecurrenceInv ==
    /\ \A i \in 1 .. Months :
        /\ StartValue(i) # Zero
        /\ monthly_results[i].portfolio = MonthEnd(i, monthly_results[i].withdrawal)
        /\ FixedReal => monthly_results[i].withdrawal = FixedRealWithdrawal(context)
    /\ step \in {"AllocationDecision", "PortfolioRebalance"} =>
          portfolio = AfterSale(Months + 1, withdrawal_decision)
    /\ step \in {"MarketEvolution", "MonthlyResultBuilder"} =>
          portfolio = MonthEnd(Months + 1, withdrawal_decision)
    /\ step = "MonthlyResultBuilder" => StartValue(Months + 1) # Zero
    /\ FixedReal /\ step \in Paid \cup {"WithdrawalExecution"} =>
          withdrawal_decision = FixedRealWithdrawal(context)

LEMMA RecurrenceInit == Init => RecurrenceInv
BY DEF Init, RecurrenceInv, Months, Paid

LEMMA SaleOfHolding ==
    ASSUME NEW units \in Portfolios, NEW prices \in Prices, NEW a \in Assets,
           NEW ratio \in Nat
    PROVE  /\ units[a] \in Nat /\ prices[a] \in Nat \ {0}
           /\ Minus(units[a], 0) = units[a]
           /\ Times(units[a], prices[a]) = 0 \/ ratio = 0 =>
                Minus(units[a], Over(Times(Times(units[a], prices[a]), ratio), prices[a]))
                    = units[a]
<1>1. units[a] \in Nat /\ prices[a] \in Nat \ {0}
  BY DEF Portfolios, Prices, Amounts
<1>2. Minus(units[a], 0) = units[a]
  BY <1>1 DEF Minus
<1>3. Times(units[a], prices[a]) = 0 \/ ratio = 0 =>
        Times(Times(units[a], prices[a]), ratio) = 0
  BY HoldingNat, TimesNothing
<1>4. Over(0, prices[a]) = 0
  BY <1>1, NothingOfSomething
<1> QED
  BY <1>1, <1>2, <1>3, <1>4

\* The service sells what the recurrence does.
LEMMA UnitsLeftAreSold ==
    ASSUME portfolio \in Portfolios, Snapshot \in Prices, NEW ratio \in Nat
    PROVE  UnitsLeft(ratio) = SoldOf(portfolio, Snapshot, ratio)
<1> SUFFICES ASSUME NEW a \in Assets
             PROVE  (LET holding == Times(portfolio[a], Snapshot[a])
                     IN  IF holding = Zero THEN portfolio[a]
                         ELSE Minus(portfolio[a], Over(Times(holding, ratio), Snapshot[a])))
                    = Minus(portfolio[a],
                            Over(Times(Times(portfolio[a], Snapshot[a]), ratio), Snapshot[a]))
  BY DEF UnitsLeft, SoldOf
<1> QED
  BY SaleOfHolding DEF Zero

LEMMA SellingNothing ==
    ASSUME NEW units \in Portfolios, NEW prices \in Prices
    PROVE  SoldOf(units, prices, 0) = units
<1>1. \A a \in Assets : SoldOf(units, prices, 0)[a] = units[a]
  BY SaleOfHolding DEF SoldOf
<1>2. SoldOf(units, prices, 0) = [a \in Assets |-> units[a]]
  BY <1>1 DEF SoldOf
<1>3. units = [a \in Assets |-> units[a]]
  BY DEF Portfolios
<1> QED
  BY <1>2, <1>3

LEMMA SellingWorthless ==
    ASSUME NEW units \in Portfolios, NEW prices \in Prices, NEW ratio \in Nat,
           Value(units, prices) = 0
    PROVE  SoldOf(units, prices, ratio) = units
<1>1. \A a \in Assets : Times(units[a], prices[a]) = 0
  BY ValueNat, HoldingNat
<1>2. SoldOf(units, prices, ratio) = [a \in Assets |-> units[a]]
  BY <1>1, SaleOfHolding DEF SoldOf
<1>3. units = [a \in Assets |-> units[a]]
  BY DEF Portfolios
<1> QED
  BY <1>2, <1>3

\* A month that starts with nothing ends without units.
LEMMA NothingStays ==
    ASSUME TypeOK, NEW i \in 1 .. Len(context.dataset), NEW amount,
           StartValue(i) = Zero
    PROVE  ~HasUnits(MonthEnd(i, amount))
<1> DEFINE prices == context.dataset[i]
<1>1. context \in Context /\ prices \in Prices
  BY ContextFields DEF TypeOK
<1>2. Value(AfterSale(i, amount), prices) = 0
  BY DEF AfterSale, StartValue, Zero
<1>3. TargetWeights(context)["bond"] \in Nat
  BY <1>1, TargetsAreWeights, EngineAssumption DEF Weights, Assets, One
<1>4. Times(0, TargetWeights(context)["bond"]) = 0 /\ Minus(0, 0) = 0
  BY <1>3, TimesNothing DEF Minus
<1>5. \A a \in Assets : prices[a] \in Nat \ {0}
  BY <1>1 DEF Prices, Amounts
<1>6. \A a \in Assets : MonthEnd(i, amount)[a] = Over(0, prices[a])
  BY <1>2, <1>4 DEF MonthEnd
<1> QED
  BY <1>5, <1>6, NothingOfSomething DEF HasUnits, Zero

LEMMA MonthsStay ==
    ASSUME UNCHANGED <<context, monthly_results>>
    PROVE  /\ Months' = Months /\ FixedReal' = FixedReal
           /\ FixedRealWithdrawal(context)' = FixedRealWithdrawal(context)
           /\ \A i : StartValue(i)' = StartValue(i)
           /\ \A i, amount : /\ AfterSale(i, amount)' = AfterSale(i, amount)
                             /\ MonthEnd(i, amount)' = MonthEnd(i, amount)
BY HistoryStays DEF AfterSale, MonthEnd, FixedReal, Months

LEMMA RecurrenceStep ==
    TypeInv /\ ClockInv /\ PaymentInv /\ RecurrenceInv /\ [Next]_vars => RecurrenceInv'
<1> SUFFICES ASSUME TypeInv, ClockInv, PaymentInv, RecurrenceInv, [Next]_vars
             PROVE  RecurrenceInv'
  OBVIOUS
<1>0. Months \in Nat /\ period_index \in Nat /\ context \in Context /\ TypeOK
  BY MonthsNat DEF TypeInv
<1> USE DEF InMonth, Opening, Paid
<1>1. ASSUME UNCHANGED <<context, monthly_results>>,
             step' \notin Paid \cup {"WithdrawalExecution"}
      PROVE  RecurrenceInv'
  BY <1>1, MonthsStay DEF RecurrenceInv
<1>2. CASE Initialize
  BY <1>1, <1>2 DEF Initialize, Continue
<1>3. CASE InitializeAllocation
  BY <1>1, <1>3 DEF InitializeAllocation, Continue, Raise
<1>4. CASE BuildDecisionContext
  BY <1>1, <1>4 DEF BuildDecisionContext, Continue
<1>5. CASE WithdrawalDecision
  <2>1. /\ UNCHANGED <<context, monthly_results>>
        /\ step' \in {"WithdrawalExecution", "BuildResult"}
        /\ FixedReal => withdrawal_decision' = FixedRealWithdrawal(context)
    BY <1>5 DEF WithdrawalDecision, Continue, FixedReal
  <2> QED
    BY <2>1, MonthsStay DEF RecurrenceInv
<1>6. CASE WithdrawalExecution
  <2> DEFINE amount == withdrawal_decision
             value == Value(portfolio, Snapshot)
  <2>1. /\ status = "RUNNING" /\ ~depleted /\ portfolio = MonthStart(Months + 1)
        /\ Months = period_index
    BY <1>6 DEF WithdrawalExecution, ClockInv, PaymentInv
  <2>2. /\ market_snapshot = period_index + 1 /\ Snapshot \in Prices
        /\ portfolio \in Portfolios /\ amount \in Nat
    BY <1>0, <1>6, SnapshotHasPrices DEF WithdrawalExecution, TypeOK, TypeInv, DecisionsInv
  <2>3. /\ Snapshot = context.dataset[Months + 1]
        /\ StartValue(Months + 1) = value /\ value \in Nat
    BY <2>1, <2>2, ValueNat DEF StartValue, Snapshot
  <2>4. UNCHANGED <<context, monthly_results, withdrawal_decision>>
    BY <1>6 DEF WithdrawalExecution, Continue, decisions
  <2>5. CASE depleted'
    <3>1. step' = "BuildResult"
      BY <1>6, <2>5 DEF WithdrawalExecution, Continue
    <3> QED
      BY <1>1, <2>4, <3>1
  <2>6. CASE ~depleted'
    <3>1. step' \in {"AllocationDecision", "BuildResult"}
      BY <1>6 DEF WithdrawalExecution, Continue
    <3>2. portfolio' = AfterSale(Months + 1, amount)
      <4>1. CASE amount = Zero
        <5>1. portfolio' = portfolio
          BY <1>6, <4>1 DEF WithdrawalExecution
        <5>2. CASE value = Zero
          BY <2>1, <2>3, <5>1, <5>2 DEF AfterSale
        <5>3. CASE value # Zero
          <6>1. Over(amount, value) = 0
            BY <2>3, <4>1, <5>3, NothingOfSomething DEF Zero
          <6>2. AfterSale(Months + 1, amount) = SoldOf(portfolio, Snapshot, 0)
            BY <2>1, <2>3, <5>3, <6>1 DEF AfterSale
          <6> QED
            BY <2>2, <5>1, <6>2, SellingNothing
        <5> QED
          BY <5>2, <5>3
      <4>2. CASE amount # Zero
        <5>1. ~Exceeds(amount, value) /\ portfolio' = UnitsLeft(Over(amount, value))
          BY <1>6, <2>6, <4>2 DEF WithdrawalExecution
        <5>2. value \in Nat \ {0}
          BY <2>2, <2>3, <4>2, <5>1 DEF Exceeds, Zero
        <5>3. Over(amount, value) \in Nat
          BY <2>2, <5>2, OverNat
        <5>4. portfolio' = SoldOf(portfolio, Snapshot, Over(amount, value))
          BY <2>2, <5>1, <5>3, UnitsLeftAreSold
        <5> QED
          BY <2>1, <2>3, <5>2, <5>4 DEF AfterSale, Zero
      <4> QED
        BY <4>1, <4>2
    <3>3. FixedReal => withdrawal_decision = FixedRealWithdrawal(context)
      BY <1>6 DEF RecurrenceInv, WithdrawalExecution
    <3> QED
      BY <2>4, <3>1, <3>2, <3>3, MonthsStay DEF RecurrenceInv
  <2> QED
    BY <2>5, <2>6
<1>7. CASE AllocationDecision
  <2>1. /\ UNCHANGED <<context, monthly_results, withdrawal_decision, portfolio>>
        /\ step' \in {"PortfolioRebalance", "BuildResult"}
    BY <1>7 DEF AllocationDecision, Continue, money
  <2>2. step = "AllocationDecision"
    BY <1>7 DEF AllocationDecision
  <2> QED
    BY <2>1, <2>2, MonthsStay DEF RecurrenceInv
<1>8. CASE PortfolioRebalance
  <2>1. /\ UNCHANGED <<context, monthly_results, withdrawal_decision>>
        /\ step' \in {"MarketEvolution", "BuildResult"}
        /\ portfolio' = TargetUnits(Value(portfolio, Snapshot), allocation_decision)
    BY <1>8 DEF PortfolioRebalance, Continue, decisions
  <2>2. /\ step = "PortfolioRebalance" /\ allocation_decision = TargetWeights(context)
        /\ portfolio = AfterSale(Months + 1, withdrawal_decision)
        /\ Months = period_index
    BY <1>8 DEF PortfolioRebalance, TypeInv, DecisionsInv, RecurrenceInv, ClockInv
  <2>3. Snapshot = context.dataset[Months + 1]
    BY <2>2, SnapshotHasPrices DEF Snapshot
  <2>4. portfolio' = MonthEnd(Months + 1, withdrawal_decision)
    BY <2>1, <2>2, <2>3 DEF TargetUnits, Residual, MonthEnd
  <2> QED
    BY <2>1, <2>2, <2>4, MonthsStay DEF RecurrenceInv
<1>9. CASE MarketEvolution
  <2>1. CASE Raise
    BY <1>1, <2>1 DEF Raise
  <2>2. CASE ~Raise
    <3>1. /\ UNCHANGED <<context, monthly_results, withdrawal_decision, portfolio>>
          /\ step' \in {"MonthlyResultBuilder", "BuildResult"} /\ HasUnits(portfolio)
      BY <1>9, <2>2 DEF MarketEvolution, Continue, decisions
    <3>2. /\ step = "MarketEvolution" /\ Months = period_index
          /\ portfolio = MonthEnd(Months + 1, withdrawal_decision)
      BY <1>9 DEF MarketEvolution, RecurrenceInv, ClockInv
    <3>3. Months + 1 \in 1 .. Len(context.dataset)
      BY <3>2, SnapshotHasPrices
    <3>4. StartValue(Months + 1) # Zero
      BY <1>0, <3>1, <3>2, <3>3, NothingStays
    <3> QED
      BY <3>1, <3>2, <3>4, MonthsStay DEF RecurrenceInv
  <2> QED
    BY <2>1, <2>2
<1>10. CASE MonthlyResultBuilder
  <2> DEFINE result == [period_index |-> period_index, market_snapshot |-> market_snapshot,
                        portfolio |-> portfolio, allocation |-> allocation,
                        withdrawal |-> withdrawal_decision]
  <2>1. UNCHANGED context /\ step' \in {"SimulationStateUpdate", "BuildResult"}
    BY <1>10 DEF MonthlyResultBuilder, Continue
  <2>2. monthly_results' = Append(monthly_results, result)
    BY <1>10 DEF MonthlyResultBuilder
  <2>3. result.portfolio = portfolio /\ result.withdrawal = withdrawal_decision
    OBVIOUS
  <2> HIDE DEF result
  <2>4. /\ Months' = Months + 1 /\ monthly_results'[Months + 1] = result
        /\ \A i \in 1 .. Months : monthly_results'[i] = monthly_results[i]
        /\ \A i \in 1 .. Months + 1 : /\ StartValue(i)' = StartValue(i)
                                     /\ MonthStart(i)' = MonthStart(i)
    BY <1>0, <2>1, <2>2, HistoryGrows
  <2>5. \A i \in 1 .. Months + 1 : \A amount : MonthEnd(i, amount)' = MonthEnd(i, amount)
    BY <2>1, <2>4 DEF MonthEnd, AfterSale
  <2>6. FixedReal' = FixedReal
        /\ FixedRealWithdrawal(context)' = FixedRealWithdrawal(context)
    BY <2>1 DEF FixedReal
  <2>7. /\ StartValue(Months + 1) # Zero
        /\ portfolio = MonthEnd(Months + 1, withdrawal_decision)
        /\ FixedReal => withdrawal_decision = FixedRealWithdrawal(context)
    BY <1>10 DEF RecurrenceInv, MonthlyResultBuilder
  <2>8. ASSUME NEW i \in 1 .. Months'
        PROVE  (/\ StartValue(i) # Zero
                /\ monthly_results[i].portfolio = MonthEnd(i, monthly_results[i].withdrawal)
                /\ FixedReal => monthly_results[i].withdrawal = FixedRealWithdrawal(context))'
    <3>1. i \in 1 .. Months + 1
      BY <2>4, <2>8
    <3>2. CASE i \in 1 .. Months
      <4>1. /\ StartValue(i) # Zero
            /\ monthly_results[i].portfolio = MonthEnd(i, monthly_results[i].withdrawal)
            /\ FixedReal => monthly_results[i].withdrawal = FixedRealWithdrawal(context)
        BY <3>2 DEF RecurrenceInv
      <4> QED
        BY <2>4, <2>5, <2>6, <3>1, <3>2, <4>1
    <3>3. CASE i = Months + 1
      BY <2>3, <2>4, <2>5, <2>6, <2>7, <3>1, <3>3
    <3> QED
      BY <1>0, <3>1, <3>2, <3>3
  <2> QED
    BY <2>1, <2>8 DEF RecurrenceInv
<1>11. CASE SimulationStateUpdate
  BY <1>1, <1>11 DEF SimulationStateUpdate, Continue
<1>12. CASE BuildResult
  BY <1>1, <1>12 DEF BuildResult
<1>13. CASE UNCHANGED vars
  <2>1. UNCHANGED <<context, step, portfolio, withdrawal_decision, monthly_results>>
    BY <1>13 DEF vars, money, decisions
  <2> QED
    BY <2>1, MonthsStay DEF RecurrenceInv
<1> QED
  BY <1>2, <1>3, <1>4, <1>5, <1>6, <1>7, <1>8, <1>9, <1>10, <1>11, <1>12, <1>13 DEF Next

-----------------------------------------------------------------------------
(***************************************************************************)
(* The theorems.                                                           *)
(***************************************************************************)

IInv == TypeInv /\ ClockInv /\ PaymentInv /\ RecurrenceInv

LEMMA IInvInvariant == Spec => []IInv
<1>1. Init => IInv
  BY TypeInit, ClockInit, PaymentInit, RecurrenceInit DEF IInv
<1>2. IInv /\ [Next]_vars => IInv'
  BY TypeStep, ClockStep, PaymentStep, RecurrenceStep DEF IInv
<1> QED
  BY <1>1, <1>2, PTL DEF Spec

\* Every value the engine computes has its type for any decimals: no holding
\* is ever negative, every allocation adds up to one, and no quotient of the
\* pipeline divides by zero.
THEOREM TypeCorrect == Spec => []TypeOK
<1>1. IInv => TypeOK
  BY DEF IInv, TypeInv
<1> QED
  BY <1>1, IInvInvariant, PTL

LEMMA MonthsWithinLast ==
    ASSUME IInv
    PROVE  Months \in {period_index, period_index + 1} /\ Months <= LastMonth
<1>1. /\ Months \in Nat /\ period_index \in Nat /\ context \in Context
      /\ step \in Steps
  BY MonthsNat DEF IInv, TypeInv, TypeOK
<1>2. LastMonth \in Nat
  BY <1>1, LastMonthBounds
<1>3. step = "Initialize" => Months = 0 /\ period_index = 0
  BY DEF IInv, TypeInv, DecisionsInv, Months
<1> QED
  BY <1>1, <1>2, <1>3 DEF IInv, ClockInv, InMonth, Opening, Paid, Ended, Steps

\* The timeline has every month once, in order, at its own snapshot, and the
\* clock is never ahead of it.
THEOREM TimelineCorrect == Spec => []TimelineFollowsDataset
<1>1. IInv => TimelineFollowsDataset
  BY MonthsWithinLast DEF IInv, ClockInv, TimelineFollowsDataset
<1> QED
  BY <1>1, IInvInvariant, PTL

\* The statistics of a run tell what happened in it.
THEOREM OutcomeCorrect == Spec => []OutcomeMatchesHistory
<1>1. IInv => OutcomeMatchesHistory
  <2> SUFFICES ASSUME IInv, statistics # None PROVE OutcomeMatchesHistory
    BY DEF OutcomeMatchesHistory
  <2>1. /\ statistics.final_wealth = current_wealth
        /\ statistics.success = (status = "COMPLETED" /\ ~depleted)
        /\ statistics.failure_month = IF depleted THEN period_index ELSE None
        /\ statistics.months_simulated = Months
    BY DEF IInv, PaymentInv
  <2>2. Ended
    BY DEF IInv, ClockInv, Ended
  <2>3. \A i \in 1 .. Months : monthly_results[i].withdrawal <= StartValue(i)
    BY DEF IInv, PaymentInv
  <2>4. CASE depleted
    <3>1. Months = period_index /\ period_index < LastMonth
      BY <2>2, <2>4 DEF IInv, ClockInv
    <3>2. withdrawal_decision > StartValue(Months + 1)
      BY <2>2, <2>4 DEF IInv, PaymentInv
    <3> QED
      BY <2>1, <2>3, <2>4, <3>1, <3>2 DEF OutcomeMatchesHistory
  <2>5. CASE ~depleted
    <3>1. status = "COMPLETED" /\ Months = LastMonth
      BY <2>2, <2>5 DEF IInv, ClockInv
    <3>2. current_wealth = IF Months = 0 THEN context.initial_wealth
                           ELSE Value(monthly_results[Months].portfolio,
                                      context.dataset[Months])
      BY <2>2, <2>5 DEF IInv, PaymentInv
    <3> QED
      BY <2>1, <2>3, <2>5, <3>1, <3>2 DEF OutcomeMatchesHistory
  <2> QED
    BY <2>4, <2>5
<1> QED
  BY <1>1, IInvInvariant, PTL

-----------------------------------------------------------------------------
(***************************************************************************)
(* The accounts of a month.  Every bound is of twice the amount in units   *)
(* of Scale squared, so that it is linear in the products that occur.      *)
(***************************************************************************)

\* Half to even is at most half a divisor away.
LEMMA HalfEvenClose ==
    ASSUME NEW n \in Nat, NEW d \in Nat \ {0}
    PROVE  Close(2 * (d * HalfEven(n, d)), 2 * n, d)
<1>1. PICK q, r \in Nat : /\ q = n \div d /\ r = n % d
                          /\ r < d /\ n = d * q + r
  BY Quotient, Zenon
<1>2. HalfEven(n, d) = IF 2 * r > d \/ (2 * r = d /\ q % 2 = 1) THEN q + 1 ELSE q
  BY <1>1, Zenon DEF HalfEven
<1>3. d * q \in Nat /\ d * (q + 1) = d * q + d
  BY <1>1
<1>4. PICK e : e = d * q
  OBVIOUS
<1>5. CASE 2 * r > d \/ (2 * r = d /\ q % 2 = 1)
  <2>1. HalfEven(n, d) = q + 1
    BY <1>2, <1>5
  <2>2. 2 * r >= d
    BY <1>1, <1>5
  <2>3. d * HalfEven(n, d) = e + d
    BY <1>3, <1>4, <2>1
  <2> QED
    BY <1>1, <1>3, <1>4, <2>2, <2>3 DEF Close
<1>6. CASE ~(2 * r > d \/ (2 * r = d /\ q % 2 = 1))
  <2>1. d * HalfEven(n, d) = e
    BY <1>2, <1>4, <1>6
  <2>2. 2 * r <= d
    BY <1>1, <1>6
  <2> QED
    BY <1>1, <1>3, <1>4, <2>1, <2>2 DEF Close
<1> QED
  BY <1>5, <1>6

LEMMA TimesClose ==
    ASSUME NEW x \in Nat, NEW y \in Nat
    PROVE  Close(2 * (Scale * Times(x, y)), 2 * (x * y), Scale)
<1>1. x * y \in Nat
  OBVIOUS
<1> QED
  BY <1>1, HalfEvenClose, EngineAssumption DEF Times

LEMMA OverClose ==
    ASSUME NEW x \in Nat, NEW y \in Nat \ {0}
    PROVE  Close(2 * (y * Over(x, y)), 2 * (x * Scale), y)
<1>1. x * Scale \in Nat
  BY EngineAssumption
<1> QED
  BY <1>1, HalfEvenClose DEF Over

LEMMA ProductMonotone ==
    ASSUME NEW a \in Nat, NEW b \in Nat, NEW k \in Nat, a <= b
    PROVE  a * k <= b * k
BY Z3

LEMMA Distributes ==
    ASSUME NEW a \in Int, NEW b \in Int, NEW k \in Int
    PROVE  /\ (a + b) * k = a * k + b * k /\ k * (a + b) = k * a + k * b
           /\ (a - b) * k = a * k - b * k /\ k * (a - b) = k * a - k * b
           /\ a * k = k * a /\ a * k \in Int
BY Z3

\* A part of something is at most all of it.
LEMMA PartAtMostAll ==
    ASSUME NEW x \in Nat, NEW w \in 0 .. Scale
    PROVE  Times(x, w) \in Nat /\ Times(x, w) <= x
<1>1. Scale \in Nat \ {0} /\ w \in Nat /\ w <= Scale
  BY EngineAssumption
<1>2. x * w \in Nat /\ x * w <= Scale * x
  BY <1>1, Z3
<1> QED
  BY <1>1, <1>2, HalfEvenAtMost, TimesNat DEF Times

\* What is left of a holding after a sale is worth the holding less the sale.
LEMMA SaleClose ==
    ASSUME NEW units \in Nat, NEW price \in Nat \ {0}, NEW ratio \in 0 .. Scale
    PROVE  LET held == Times(units, price)
               sold == Times(held, ratio)
               left == Times(Minus(units, Over(sold, price)), price)
           IN  Close(2 * (Scale * left), 2 * (Scale * held) - 2 * (Scale * sold),
                     2 * Scale + price)
<1> DEFINE held == Times(units, price)
           sold == Times(held, ratio)
           bought == Over(sold, price)
           rest == Minus(units, bought)
           left == Times(rest, price)
<1>0. Scale \in Nat
  BY EngineAssumption
<1>1. held \in Nat
  BY TimesNat
<1>2. sold \in Nat /\ sold <= held
  BY <1>1, PartAtMostAll
<1>3. bought \in Nat
  BY <1>2, OverNat
<1>4. rest \in Nat
  BY <1>3, MinusNat
<1>5. left \in Nat
  BY <1>4, TimesNat
<1>6. Close(2 * (Scale * held), 2 * (units * price), Scale)
  BY TimesClose
<1>7. Close(2 * (price * bought), 2 * (sold * Scale), price)
  BY <1>2, OverClose
<1>8. Close(2 * (Scale * left), 2 * (rest * price), Scale)
  BY <1>4, TimesClose
<1>9. rest = IF bought > units THEN 0 ELSE units - bought
  BY DEF Minus, Zero
<1> HIDE DEF held, sold, bought, rest, left
<1>10. Scale * sold <= Scale * held /\ sold * Scale = Scale * sold
  BY <1>0, <1>1, <1>2, ProductMonotone, Distributes
<1>11. \/ rest * price = units * price - price * bought
       \/ rest * price = 0 /\ units * price <= price * bought
  <2>1. CASE bought > units
    <3>1. rest * price = 0
      BY <1>9, <2>1
    <3>2. units * price <= bought * price
      BY <1>3, <2>1, ProductMonotone
    <3> QED
      BY <1>3, <3>1, <3>2, Distributes
  <2>2. CASE ~(bought > units)
    <3>1. rest = units - bought
      BY <1>9, <2>2
    <3> QED
      BY <1>3, <3>1, Distributes
  <2> QED
    BY <2>1, <2>2
<1>12. PICK A, B, C, X, Y, Z \in Int :
          /\ A = Scale * held /\ B = Scale * sold /\ C = Scale * left
          /\ X = units * price /\ Y = price * bought /\ Z = rest * price
  BY <1>0, <1>1, <1>2, <1>3, <1>4, <1>5, Distributes
<1>13. C >= 0
  BY <1>0, <1>5, <1>12
<1>14. /\ 2 * A - 2 * X <= Scale /\ 2 * X - 2 * A <= Scale
       /\ 2 * Y - 2 * B <= price /\ 2 * B - 2 * Y <= price
       /\ 2 * C - 2 * Z <= Scale /\ 2 * Z - 2 * C <= Scale
       /\ B <= A
       /\ Z = X - Y \/ (Z = 0 /\ X <= Y)
  BY <1>6, <1>7, <1>8, <1>10, <1>11, <1>12 DEF Close
<1>15. /\ 2 * C - (2 * A - 2 * B) <= 2 * Scale + price
       /\ (2 * A - 2 * B) - 2 * C <= 2 * Scale + price
  BY <1>0, <1>12, <1>13, <1>14
<1>16. Close(2 * (Scale * left), 2 * (Scale * held) - 2 * (Scale * sold), 2 * Scale + price)
  BY <1>12, <1>15 DEF Close
<1> QED
  BY <1>16 DEF held, sold, left, rest, bought

\* The sales of a withdrawal add up to it.
LEMMA SoldClose ==
    ASSUME NEW x \in Nat, NEW y \in Nat, x + y # 0, NEW amount \in 0 .. x + y
    PROVE  LET ratio == Over(amount, x + y) IN
           /\ ratio \in 0 .. Scale
           /\ Close(2 * (Scale * Times(x, ratio)) + 2 * (Scale * Times(y, ratio)),
                    2 * (Scale * amount), 2 * Scale + (x + y))
<1> DEFINE v == x + y
           ratio == Over(amount, v)
           soldX == Times(x, ratio)
           soldY == Times(y, ratio)
<1>0. Scale \in Nat /\ v \in Nat \ {0} /\ amount \in Nat /\ amount <= v
  BY EngineAssumption
<1>1. ratio \in 0 .. Scale /\ ratio \in Nat
  BY <1>0, ShareAtMostOne, OverNat DEF One
<1>2. soldX \in Nat /\ soldY \in Nat
  BY <1>1, TimesNat
<1>3. Close(2 * (v * ratio), 2 * (amount * Scale), v)
  BY <1>0, OverClose
<1>4. /\ Close(2 * (Scale * soldX), 2 * (x * ratio), Scale)
      /\ Close(2 * (Scale * soldY), 2 * (y * ratio), Scale)
  BY <1>1, TimesClose
<1> HIDE DEF ratio, soldX, soldY
<1>5. v * ratio = x * ratio + y * ratio /\ amount * Scale = Scale * amount
  BY <1>0, <1>1, Distributes
<1>6. PICK A, B, C, X, Y \in Int :
          /\ A = Scale * soldX /\ B = Scale * soldY /\ C = Scale * amount
          /\ X = x * ratio /\ Y = y * ratio
  BY <1>0, <1>1, <1>2, Distributes
<1>7. /\ 2 * (X + Y) - 2 * C <= v /\ 2 * C - 2 * (X + Y) <= v
      /\ 2 * A - 2 * X <= Scale /\ 2 * X - 2 * A <= Scale
      /\ 2 * B - 2 * Y <= Scale /\ 2 * Y - 2 * B <= Scale
  BY <1>3, <1>4, <1>5, <1>6 DEF Close
<1>8. /\ 2 * A + 2 * B - 2 * C <= 2 * Scale + v
      /\ 2 * C - (2 * A + 2 * B) <= 2 * Scale + v
  BY <1>0, <1>6, <1>7
<1>9. Close(2 * (Scale * soldX) + 2 * (Scale * soldY), 2 * (Scale * amount), 2 * Scale + v)
  BY <1>6, <1>8 DEF Close
<1> QED
  BY <1>1, <1>9 DEF ratio, soldX, soldY

\* The same share of two amounts that are close is close.
LEMMA ShareClose ==
    ASSUME NEW x \in Nat, NEW y \in Nat, NEW w \in 0 .. Scale, NEW t \in Nat, NEW e \in Nat,
           Close(2 * (Scale * t), 2 * (x * w), Scale),
           Close(2 * (Scale * x), 2 * (Scale * y), e)
    PROVE  Close(2 * (Scale * t), 2 * (Scale * Times(y, w)), 2 * Scale + e)
<1> DEFINE share == Times(y, w)
<1>0. Scale \in Nat /\ w \in Nat /\ w <= Scale
  BY EngineAssumption
<1>1. share \in Nat /\ Close(2 * (Scale * share), 2 * (y * w), Scale)
  BY <1>0, TimesNat, TimesClose
<1> HIDE DEF share
<1>2. PICK X, Y, XW, YW, T, C \in Int :
          /\ X = Scale * x /\ Y = Scale * y /\ XW = x * w /\ YW = y * w
          /\ T = Scale * t /\ C = Scale * share
  BY <1>0, <1>1, Distributes
<1>3. /\ x <= y => YW - XW <= Y - X /\ XW <= YW
      /\ y <= x => XW - YW <= X - Y /\ YW <= XW
  <2>1. ASSUME NEW a \in Nat, NEW b \in Nat, a <= b
        PROVE  b * w - a * w <= Scale * b - Scale * a /\ a * w <= b * w
    <3>1. b - a \in Nat
      BY <2>1
    <3>2. w * (b - a) <= Scale * (b - a)
      BY <1>0, <3>1, ProductMonotone
    <3>3. /\ w * (b - a) = w * b - w * a /\ Scale * (b - a) = Scale * b - Scale * a
          /\ w * b = b * w /\ w * a = a * w
      BY <1>0, <2>1, Distributes
    <3>4. a * w <= b * w
      BY <1>0, <2>1, ProductMonotone
    <3> QED
      BY <3>2, <3>3, <3>4
  <2> QED
    BY <1>2, <2>1
<1>4. /\ 2 * T - 2 * XW <= Scale /\ 2 * XW - 2 * T <= Scale
      /\ 2 * C - 2 * YW <= Scale /\ 2 * YW - 2 * C <= Scale
      /\ 2 * X - 2 * Y <= e /\ 2 * Y - 2 * X <= e
  BY <1>1, <1>2 DEF Close
<1>5. 2 * XW - 2 * YW <= e /\ 2 * YW - 2 * XW <= e
  BY <1>2, <1>3, <1>4
<1>6. 2 * T - 2 * C <= 2 * Scale + e /\ 2 * C - 2 * T <= 2 * Scale + e
  BY <1>0, <1>2, <1>4, <1>5
<1>7. Close(2 * (Scale * t), 2 * (Scale * share), 2 * Scale + e)
  BY <1>2, <1>6 DEF Close
<1> QED
  BY <1>7 DEF share

\* The units bought for an amount are worth the amount.
LEMMA BoughtClose ==
    ASSUME NEW t \in Nat, NEW price \in Nat \ {0}
    PROVE  Close(2 * (Scale * Times(Over(t, price), price)), 2 * (Scale * t), Scale + price)
<1> DEFINE bought == Over(t, price)
           worth == Times(bought, price)
<1>0. Scale \in Nat
  BY EngineAssumption
<1>1. bought \in Nat /\ Close(2 * (price * bought), 2 * (t * Scale), price)
  BY OverNat, OverClose
<1>2. worth \in Nat /\ Close(2 * (Scale * worth), 2 * (bought * price), Scale)
  BY <1>1, TimesNat, TimesClose
<1> HIDE DEF bought, worth
<1>3. PICK A, B, C \in Int : A = Scale * worth /\ B = bought * price /\ C = Scale * t
  BY <1>0, <1>1, <1>2, Distributes
<1>4. price * bought = B /\ t * Scale = C
  BY <1>0, <1>1, <1>3, Distributes
<1>5. /\ 2 * B - 2 * C <= price /\ 2 * C - 2 * B <= price
      /\ 2 * A - 2 * B <= Scale /\ 2 * B - 2 * A <= Scale
  BY <1>1, <1>2, <1>3, <1>4 DEF Close
<1>6. 2 * A - 2 * C <= Scale + price /\ 2 * C - 2 * A <= Scale + price
  BY <1>0, <1>3, <1>5
<1>7. Close(2 * (Scale * worth), 2 * (Scale * t), Scale + price)
  BY <1>3, <1>6 DEF Close
<1> QED
  BY <1>7 DEF worth, bought

\* The sum of the bounds of a month is within the tolerance.
LEMMA WithinTolerance ==
    ASSUME NEW x \in Nat, NEW y \in Nat, NEW v \in Nat, NEW prices \in Prices, NEW e \in Nat,
           e <= 9 * Scale + v + 2 * (prices["bond"] + prices["equity"]),
           Close(2 * (Scale * x), 2 * (Scale * y), e)
    PROVE  Close(x, y, Tolerance(v, prices))
<1> DEFINE sum == v + 2 * (prices["bond"] + prices["equity"])
<1>0. Scale \in Nat \ {0} /\ sum \in Nat
  <2>1. prices["bond"] \in Nat /\ prices["equity"] \in Nat
    BY DEF Prices, Assets, Amounts
  <2> QED
    BY <2>1, EngineAssumption
<1> HIDE DEF sum
<1>1. PICK q, r \in Nat : q = sum \div Scale /\ r < Scale /\ sum = Scale * q + r
  BY <1>0, Quotient, ZenonT(60)
<1> DEFINE tolerance == 6 + q
<1>2. Tolerance(v, prices) = tolerance /\ e <= 9 * Scale + sum
  <2>1. PICK p \in Nat : p = prices["bond"] + prices["equity"]
    BY DEF Prices, Assets, Amounts
  <2>2. sum = v + 2 * p /\ e <= 9 * Scale + v + 2 * p
    BY <2>1 DEF sum
  <2>3. e <= 9 * Scale + sum
    BY <1>0, <2>1, <2>2
  <2>4. Tolerance(v, prices) = 6 + sum \div Scale
    BY DEF Tolerance, sum
  <2> QED
    BY <1>1, <2>3, <2>4
<1>3. ASSUME NEW a \in Nat, NEW b \in Nat, 2 * (Scale * a) - 2 * (Scale * b) <= e
      PROVE  a - b <= tolerance
  <2> SUFFICES ASSUME b + 7 + q <= a PROVE FALSE
    BY <1>1, <1>3
  <2>1. (b + (7 + q)) * Scale <= a * Scale
    BY <1>0, <1>1, ProductMonotone
  <2>2. /\ (b + (7 + q)) * Scale = b * Scale + (7 + q) * Scale
        /\ (7 + q) * Scale = 7 * Scale + q * Scale
        /\ a * Scale = Scale * a /\ b * Scale = Scale * b /\ q * Scale = Scale * q
    BY <1>0, <1>1, Distributes
  <2>3. PICK A, B, Q \in Int : A = Scale * a /\ B = Scale * b /\ Q = Scale * q
    BY <1>0, <1>1, Distributes
  <2>4. B + 7 * Scale + Q <= A
    BY <1>0, <2>1, <2>2, <2>3
  <2>5. Q >= 0
    BY <1>0, <1>1, <2>3
  <2>6. 2 * A - 2 * B <= 9 * Scale + Q + r
    BY <1>0, <1>1, <1>2, <1>3, <2>3
  <2> QED
    BY <1>0, <1>1, <2>3, <2>4, <2>5, <2>6
<1>4. x - y <= tolerance /\ y - x <= tolerance
  BY <1>3 DEF Close
<1> QED
  BY <1>2, <1>4 DEF Close

LEMMA CloseTransitive ==
    ASSUME NEW x \in Int, NEW y \in Int, NEW z \in Int, NEW e \in Nat, NEW f \in Nat,
           Close(x, y, e), Close(y, z, f)
    PROVE  Close(x, z, e + f)
BY DEF Close

\* The two holdings after a sale, together.
LEMMA SalesTogether ==
    ASSUME NEW s \in Nat, NEW h \in Nat, NEW k \in Nat, NEW a \in Nat, NEW b \in Nat,
           NEW c \in Nat, NEW d \in Nat, NEW p \in Nat, NEW q \in Nat, NEW amount \in Nat,
           Close(2 * (s * c), 2 * (s * h) - 2 * (s * a), 2 * s + p),
           Close(2 * (s * d), 2 * (s * k) - 2 * (s * b), 2 * s + q),
           Close(2 * (s * a) + 2 * (s * b), 2 * (s * amount), 2 * s + (h + k))
    PROVE  Close(2 * (s * (c + d)), 2 * (s * ((h + k) - amount)),
                 6 * s + (h + k) + (p + q))
<1>1. PICK C, D, H, K, A, B, W \in Int :
          /\ C = s * c /\ D = s * d /\ H = s * h /\ K = s * k
          /\ A = s * a /\ B = s * b /\ W = s * amount
  BY Distributes
<1>2. s * (c + d) = C + D
  BY <1>1, Distributes
<1>3. s * ((h + k) - amount) = H + K - W
  <2>1. s * (h + k) = H + K
    BY <1>1, Distributes
  <2>2. s * ((h + k) - amount) = s * (h + k) - s * amount
    BY Distributes
  <2> QED
    BY <1>1, <2>1, <2>2
<1>4. /\ 2 * C - (2 * H - 2 * A) <= 2 * s + p /\ (2 * H - 2 * A) - 2 * C <= 2 * s + p
      /\ 2 * D - (2 * K - 2 * B) <= 2 * s + q /\ (2 * K - 2 * B) - 2 * D <= 2 * s + q
      /\ (2 * A + 2 * B) - 2 * W <= 2 * s + (h + k)
      /\ 2 * W - (2 * A + 2 * B) <= 2 * s + (h + k)
  BY <1>1 DEF Close
<1>5. /\ 2 * (C + D) - 2 * (H + K - W) <= 6 * s + (h + k) + (p + q)
      /\ 2 * (H + K - W) - 2 * (C + D) <= 6 * s + (h + k) + (p + q)
  BY <1>1, <1>4
<1> QED
  BY <1>2, <1>3, <1>5 DEF Close

\* What a share leaves is as close to the rest as the share to its own.
LEMMA ResidualClose ==
    ASSUME NEW s \in Nat, NEW r \in Nat, NEW b \in Nat, b <= r, NEW w \in Nat, w <= s,
           Close(2 * (s * b), 2 * (r * w), s)
    PROVE  Close(2 * (s * (r - b)), 2 * (r * (s - w)), s)
<1>1. PICK R, B, X \in Int : R = s * r /\ B = s * b /\ X = r * w
  BY Distributes
<1>2. s * (r - b) = R - B
  BY <1>1, Distributes
<1>3. r * (s - w) = R - X
  BY <1>1, Distributes
<1>4. 2 * B - 2 * X <= s /\ 2 * X - 2 * B <= s
  BY <1>1 DEF Close
<1>5. 2 * (R - B) - 2 * (R - X) <= s /\ 2 * (R - X) - 2 * (R - B) <= s
  BY <1>1, <1>4
<1> QED
  BY <1>2, <1>3, <1>5 DEF Close

\* What is left of a month's start after the withdrawal is worth as much less.
LEMMA AfterSaleClose ==
    ASSUME TypeOK, NEW i \in 1 .. Len(context.dataset), MonthStart(i) \in Portfolios,
           StartValue(i) # 0, NEW amount \in 0 .. StartValue(i)
    PROVE  LET prices == context.dataset[i] IN
           /\ AfterSale(i, amount) \in Portfolios
           /\ Close(2 * (Scale * Value(AfterSale(i, amount), prices)),
                    2 * (Scale * (StartValue(i) - amount)),
                    6 * Scale + StartValue(i) + (prices["bond"] + prices["equity"]))
<1> DEFINE prices == context.dataset[i]
           units == MonthStart(i)
           v == StartValue(i)
           ratio == Over(amount, v)
           held(a) == Times(units[a], prices[a])
           sold(a) == Times(held(a), ratio)
           rest(a) == Minus(units[a], Over(sold(a), prices[a]))
           left(a) == Times(rest(a), prices[a])
<1>0. /\ Scale \in Nat /\ context \in Context /\ prices \in Prices
      /\ \A a \in Assets : units[a] \in Nat /\ prices[a] \in Nat \ {0}
  BY EngineAssumption, ContextFields DEF TypeOK, Portfolios, Prices, Amounts
<1>1. \A a \in Assets : held(a) \in Nat
  BY <1>0, TimesNat
<1>2. v = held("bond") + held("equity") /\ "bond" \in Assets /\ "equity" \in Assets
  BY DEF StartValue, Value, Assets
<1>3. /\ ratio \in 0 .. Scale
      /\ Close(2 * (Scale * sold("bond")) + 2 * (Scale * sold("equity")),
               2 * (Scale * amount), 2 * Scale + v)
  <2> HIDE DEF v, held
  <2> QED
    BY <1>1, <1>2, SoldClose DEF v
<1>4. ratio \in Nat
  BY <1>0, <1>3
<1>5. \A a \in Assets : sold(a) \in Nat
  BY <1>1, <1>4, TimesNat
<1>6. \A a \in Assets : rest(a) \in Nat
  BY <1>0, <1>5, OverNat, MinusNat
<1>7. \A a \in Assets : left(a) \in Nat
  BY <1>0, <1>6, TimesNat
<1>8. ASSUME NEW a \in Assets
      PROVE  Close(2 * (Scale * left(a)), 2 * (Scale * held(a)) - 2 * (Scale * sold(a)),
                   2 * Scale + prices[a])
  <2> HIDE DEF ratio
  <2> QED
    BY <1>0, <1>3, SaleClose
<1>9. AfterSale(i, amount) = [a \in Assets |-> rest(a)]
  BY DEF AfterSale, SoldOf, Zero
<1>10. AfterSale(i, amount) \in Portfolios
  BY <1>6, <1>9 DEF Portfolios, Amounts
<1>11. Value(AfterSale(i, amount), prices) = left("bond") + left("equity")
  BY <1>2, <1>9 DEF Value
<1>12. amount \in Nat
  BY <1>1, <1>2
<1>13. PICK h, k, x, y, c, d, p, q \in Nat :
           /\ h = held("bond") /\ k = held("equity")
           /\ x = sold("bond") /\ y = sold("equity")
           /\ c = left("bond") /\ d = left("equity")
           /\ p = prices["bond"] /\ q = prices["equity"]
  BY <1>0, <1>1, <1>2, <1>5, <1>7
<1>14. /\ Close(2 * (Scale * c), 2 * (Scale * h) - 2 * (Scale * x), 2 * Scale + p)
       /\ Close(2 * (Scale * d), 2 * (Scale * k) - 2 * (Scale * y), 2 * Scale + q)
       /\ Close(2 * (Scale * x) + 2 * (Scale * y), 2 * (Scale * amount), 2 * Scale + (h + k))
  <2> HIDE DEF v, ratio, held, sold, rest, left
  <2> QED
    BY <1>2, <1>3, <1>8, <1>13
<1>15. Close(2 * (Scale * (c + d)), 2 * (Scale * ((h + k) - amount)),
             6 * Scale + (h + k) + (p + q))
  BY <1>0, <1>12, <1>14, SalesTogether
<1>16. v = h + k /\ Value(AfterSale(i, amount), prices) = c + d
  BY <1>2, <1>11, <1>13
<1> QED
  BY <1>10, <1>13, <1>15, <1>16

\* A month ends with every asset worth its share of what it could keep.
LEMMA MonthEndClose ==
    ASSUME TypeOK, NEW i \in 1 .. Len(context.dataset), MonthStart(i) \in Portfolios,
           StartValue(i) # 0, NEW amount \in 0 .. StartValue(i), NEW a \in Assets
    PROVE  Close(Times(MonthEnd(i, amount)[a], context.dataset[i][a]),
                 Times(StartValue(i) - amount, TargetWeights(context)[a]),
                 Tolerance(StartValue(i), context.dataset[i]))
<1> DEFINE prices == context.dataset[i]
           v == StartValue(i)
           remaining == Value(AfterSale(i, amount), prices)
           rest == v - amount
           w(b) == TargetWeights(context)[b]
           bonds == Times(remaining, w("bond"))
           target == IF a = "bond" THEN bonds ELSE Minus(remaining, bonds)
           e == 6 * Scale + v + (prices["bond"] + prices["equity"])
<1>0. /\ Scale \in Nat \ {0} /\ context \in Context /\ prices \in Prices
      /\ \A b \in Assets : prices[b] \in Nat \ {0}
      /\ "bond" \in Assets /\ "equity" \in Assets
  BY EngineAssumption, ContextFields DEF TypeOK, Prices, Amounts, Assets
<1>1. v \in Nat /\ amount \in Nat /\ rest \in Nat
  BY <1>0, ValueNat DEF StartValue
<1>2. /\ remaining \in Nat
      /\ Close(2 * (Scale * remaining), 2 * (Scale * rest), e)
  BY <1>0, AfterSaleClose, ValueNat
<1>3. w("bond") \in 0 .. Scale /\ w("equity") = Scale - w("bond")
  <2>1. TargetWeights(context) \in Weights /\ Scale \in Nat
    BY <1>0, TargetsAreWeights
  <2>2. w("bond") \in 0 .. Scale /\ w("equity") \in 0 .. Scale
        /\ w("bond") + w("equity") = Scale
    BY <1>0, <2>1 DEF Weights, One
  <2> QED
    BY <2>1, <2>2
<1>4. w("bond") \in Nat /\ w("equity") \in 0 .. Scale
  BY <1>0, <1>3
<1>5. /\ bonds \in Nat /\ bonds <= remaining
      /\ Close(2 * (Scale * bonds), 2 * (remaining * w("bond")), Scale)
  BY <1>2, <1>3, <1>4, PartAtMostAll, TimesClose
<1>6. MonthEnd(i, amount)[a] = Over(target, prices[a])
  BY DEF MonthEnd
<1>7. a = "bond" \/ a = "equity"
  BY DEF Assets
<1>8. e \in Nat
  BY <1>0, <1>1, SMTT(30)
<1> HIDE DEF remaining, v, w, bonds, e, prices
<1>9. target \in Nat /\ Close(2 * (Scale * target), 2 * (remaining * w(a)), Scale)
  <2>1. CASE a = "bond"
    BY <1>5, <2>1
  <2>2. CASE a = "equity"
    <3>1. target = remaining - bonds /\ target \in Nat
      BY <1>2, <1>5, <2>2 DEF Minus
    <3>2. Close(2 * (Scale * (remaining - bonds)), 2 * (remaining * (Scale - w("bond"))), Scale)
      <4>1. PICK s, u \in Nat : s = Scale /\ u = w("bond") /\ u <= s
        BY <1>0, <1>3, <1>4
      <4>2. PICK r, b \in Nat : r = remaining /\ b = bonds /\ b <= r
        BY <1>2, <1>5
      <4>3. Close(2 * (s * b), 2 * (r * u), s)
        BY <1>5, <4>1, <4>2
      <4>4. Close(2 * (s * (r - b)), 2 * (r * (s - u)), s)
        BY <4>1, <4>2, <4>3, ResidualClose
      <4> QED
        BY <4>1, <4>2, <4>4
    <3> QED
      BY <1>3, <2>2, <3>1, <3>2
  <2> QED
    BY <1>7, <2>1, <2>2
<1> HIDE DEF target
<1>10. w(a) \in 0 .. Scale /\ w(a) \in Nat
  BY <1>0, <1>3, <1>4, <1>7
<1>11. Close(2 * (Scale * target), 2 * (Scale * Times(rest, w(a))), 2 * Scale + e)
  BY <1>1, <1>2, <1>8, <1>9, <1>10, ShareClose
<1> DEFINE worth == Times(Over(target, prices[a]), prices[a])
           share == Times(rest, w(a))
<1>12. Close(2 * (Scale * worth), 2 * (Scale * target), Scale + prices[a])
  BY <1>0, <1>9, BoughtClose
<1>13. worth \in Nat /\ share \in Nat
  BY <1>0, <1>1, <1>9, <1>10, OverNat, TimesNat
<1> DEFINE total == (2 * Scale + e) + (Scale + prices[a])
<1> HIDE DEF worth, share, rest
<1>14. total \in Nat /\ 2 * Scale + e \in Nat /\ Scale + prices[a] \in Nat
  BY <1>0, <1>8 DEF total
<1>15. Close(2 * (Scale * worth), 2 * (Scale * share), total)
  <2>1. /\ 2 * (Scale * worth) \in Int /\ 2 * (Scale * target) \in Int
        /\ 2 * (Scale * share) \in Int
    BY <1>0, <1>9, <1>13
  <2>2. Close(2 * (Scale * worth), 2 * (Scale * share), (Scale + prices[a]) + (2 * Scale + e))
    BY <1>11, <1>12, <1>14, <2>1, CloseTransitive DEF share
  <2>3. total = (Scale + prices[a]) + (2 * Scale + e)
    BY <1>0, <1>8 DEF total
  <2> QED
    BY <2>2, <2>3
<1>16. total <= 9 * Scale + v + 2 * (prices["bond"] + prices["equity"])
  <2>1. PICK p, q \in Nat : p = prices["bond"] /\ q = prices["equity"]
    BY <1>0
  <2>2. PICK z \in Nat : z = prices[a] /\ z <= p + q
    BY <1>7, <2>1
  <2>3. e = 6 * Scale + v + (p + q)
    BY <2>1 DEF e
  <2>4. total = (2 * Scale + (6 * Scale + v + (p + q))) + (Scale + z)
    BY <2>2, <2>3 DEF total
  <2>5. PICK s, n \in Nat : s = Scale /\ n = v
    BY <1>0, <1>1
  <2>6. (2 * s + (6 * s + n + (p + q))) + (s + z) <= 9 * s + n + 2 * (p + q)
    BY <2>2
  <2> QED
    BY <2>1, <2>4, <2>5, <2>6
<1>17. Close(worth, share, Tolerance(v, prices))
  BY <1>0, <1>1, <1>13, <1>14, <1>15, <1>16, WithinTolerance
<1> QED
  BY <1>6, <1>17 DEF worth, share, rest, v, w, prices

\* No month makes or loses money, for any decimals, portfolio and prices: what
\* the sales, the rebalancing and the valuation round is within the tolerance.
THEOREM AccountsAgree == Spec => []MonthlyAccounting
<1>1. IInv => MonthlyAccounting
  <2> SUFFICES ASSUME IInv, NEW i \in 1 .. Months, NEW a \in Assets
               PROVE  Close(Times(monthly_results[i].portfolio[a], context.dataset[i][a]),
                            Times(StartValue(i) - monthly_results[i].withdrawal,
                                  TargetWeights(context)[a]),
                            Tolerance(StartValue(i), context.dataset[i]))
    BY DEF MonthlyAccounting
  <2> DEFINE amount == monthly_results[i].withdrawal
  <2>1. /\ TypeOK /\ Months \in Nat /\ context \in Context
        /\ Months <= LastMonth /\ LastMonth <= Len(context.dataset)
        /\ LastMonth \in Nat /\ Len(context.dataset) \in Nat
    <3>1. TypeOK /\ Months \in Nat /\ context \in Context
      BY MonthsNat DEF IInv, TypeInv
    <3>2. LastMonth \in Nat /\ LastMonth <= Len(context.dataset)
      BY <3>1, LastMonthBounds
    <3> QED
      BY <3>1, <3>2, ContextFields, MonthsWithinLast
  <2>2. i \in 1 .. Len(context.dataset)
    BY <2>1
  <2>3. amount \in Nat /\ amount <= StartValue(i) /\ StartValue(i) # Zero
        /\ monthly_results[i].portfolio = MonthEnd(i, amount)
    <3>1. monthly_results[i] \in MonthlyResult
      BY <2>1 DEF TypeOK, Months
    <3> QED
      BY <3>1 DEF IInv, PaymentInv, RecurrenceInv, MonthlyResult, Amounts
  <2>4. MonthStart(i) \in Portfolios
    <3>1. CASE i = 1
      BY <2>1, <3>1, ContextFields DEF MonthStart
    <3>2. CASE i # 1
      <4>1. i - 1 \in 1 .. Months
        BY <2>1, <3>2
      <4>2. monthly_results[i - 1] \in MonthlyResult
        BY <2>1, <4>1 DEF TypeOK, Months
      <4> QED
        BY <3>2, <4>2 DEF MonthStart, MonthlyResult
    <3> QED
      BY <3>1, <3>2
  <2>5. StartValue(i) \in Nat
    BY <2>1, <2>2, <2>4, ContextFields, ValueNat DEF StartValue
  <2>6. amount \in 0 .. StartValue(i)
    BY <2>3, <2>5
  <2> HIDE DEF amount
  <2>7. Close(Times(MonthEnd(i, amount)[a], context.dataset[i][a]),
              Times(StartValue(i) - amount, TargetWeights(context)[a]),
              Tolerance(StartValue(i), context.dataset[i]))
    BY <2>1, <2>2, <2>3, <2>4, <2>6, MonthEndClose DEF Zero
  <2> QED
    BY <2>3, <2>7 DEF amount
<1> QED
  BY <1>1, IInvInvariant, PTL

-----------------------------------------------------------------------------
(***************************************************************************)
(* The refinement.                                                         *)
(***************************************************************************)

Eligible == Recurrence!is_fast_path_eligible(context)

Post == IF depleted THEN current_wealth
        ELSE IF Evaluated = 0 THEN Zero
        ELSE Value(LastUnits, context.dataset[Evaluated])

Outcome == IF depleted THEN "failure"
           ELSE IF status = "COMPLETED" THEN "success" ELSE "running"

RecurrenceVars == <<context, Evaluated, LastUnits, Post, Outcome>>

LEMMA EligibleMeans ==
    ASSUME context \in Context, Eligible
    PROVE  /\ FixedReal /\ context.horizon_months >= 1
           /\ LastMonth = context.horizon_months
           /\ context.horizon_months <= Len(context.dataset)
<1>1. /\ context.horizon_months \in Nat /\ Len(context.dataset) \in Nat
      /\ FixedReal /\ context.horizon_months >= 1
      /\ Len(context.dataset) >= context.horizon_months
  BY ContextFields DEF Eligible, Recurrence!is_fast_path_eligible, FixedReal
<1> QED
  BY <1>1 DEF LastMonth

\* What the recurrence has evaluated are the recorded months.
LEMMA EvaluatedMonths ==
    IInv => /\ Evaluated \in 0 .. Len(context.dataset)
            /\ Evaluated <= Months /\ LastUnits = MonthStart(Evaluated + 1)
            /\ LastUnits \in Portfolios /\ Post \in Nat
            /\ Outcome \in {"running", "success", "failure"}
<1> SUFFICES ASSUME IInv
             PROVE  /\ Evaluated \in 0 .. Len(context.dataset)
                    /\ Evaluated <= Months /\ LastUnits = MonthStart(Evaluated + 1)
                    /\ LastUnits \in Portfolios /\ Post \in Nat
                    /\ Outcome \in {"running", "success", "failure"}
  OBVIOUS
<1>1. /\ Months \in Nat /\ period_index \in Nat /\ context \in Context /\ TypeOK
      /\ Months <= LastMonth /\ Months \in {period_index, period_index + 1}
  <2>1. IInv => TimelineFollowsDataset
    <3>1. step = "Initialize" => Months = 0 /\ period_index = 0
      BY DEF IInv, TypeInv, DecisionsInv, Months
    <3>2. /\ Months \in Nat /\ period_index \in Nat /\ LastMonth \in Nat /\ step \in Steps
      BY MonthsNat, LastMonthBounds DEF IInv, TypeInv, TypeOK
    <3> QED
      BY <3>1, <3>2 DEF IInv, ClockInv, InMonth, Opening, Paid, Ended, Steps,
            TimelineFollowsDataset
  <2> QED
    BY <2>1, MonthsNat DEF IInv, TypeInv, TimelineFollowsDataset
<1>2. Evaluated \in Nat /\ Evaluated <= Months
  BY <1>1 DEF Evaluated
<1>3. LastMonth \in Nat /\ LastMonth <= Len(context.dataset) /\ Len(context.dataset) \in Nat
  BY <1>1, LastMonthBounds, ContextFields
<1>4. Evaluated \in 0 .. Len(context.dataset)
  BY <1>1, <1>2, <1>3
<1>5. LastUnits = MonthStart(Evaluated + 1)
  <2>1. (Evaluated + 1) - 1 = Evaluated /\ (Evaluated + 1 = 1 <=> Evaluated = 0)
    BY <1>2
  <2> QED
    BY <2>1 DEF LastUnits, MonthStart
<1>6. LastUnits \in Portfolios
  <2>1. CASE Evaluated = 0
    BY <1>1, <2>1, ContextFields DEF LastUnits
  <2>2. CASE Evaluated # 0
    <3>1. Evaluated \in 1 .. Months
      BY <1>1, <1>2, <2>2
    <3>2. monthly_results[Evaluated] \in MonthlyResult
      BY <1>1, <3>1 DEF TypeOK, Months
    <3> QED
      BY <2>2, <3>2 DEF LastUnits, MonthlyResult
  <2> QED
    BY <2>1, <2>2
<1>7. Post \in Nat
  <2>1. Evaluated # 0 => context.dataset[Evaluated] \in Prices
    BY <1>1, <1>2, <1>3, <1>4, ContextFields
  <2>2. Evaluated # 0 => Value(LastUnits, context.dataset[Evaluated]) \in Nat
    BY <1>6, <2>1, ValueNat
  <2> QED
    BY <1>1, <2>2 DEF Post, TypeOK, Amounts, Zero
<1> QED
  BY <1>2, <1>4, <1>5, <1>6, <1>7 DEF Outcome

LEMMA RecurrenceStarts == Init => Recurrence!Init
<1> SUFFICES ASSUME Init PROVE Recurrence!Init
  OBVIOUS
<1>1. Evaluated = 0 /\ LastUnits = context.initial_portfolio /\ context \in Contexts
  BY DEF Init, Evaluated, LastUnits
<1>2. Post = Zero /\ Outcome = "running"
  BY <1>1 DEF Init, Post, Outcome
<1> QED
  BY <1>1, <1>2 DEF Recurrence!Init, Recurrence!Zero, Zero, Post, Outcome

\* A step within a month, or after the run, is none of the recurrence.
LEMMA Stutters ==
    ASSUME IInv, UNCHANGED <<context, status, depleted, period_index>>,
           depleted => UNCHANGED current_wealth,
           \/ UNCHANGED monthly_results
           \/ /\ status # "COMPLETED" /\ Months = period_index
              /\ \E result : monthly_results' = Append(monthly_results, result)
    PROVE  UNCHANGED RecurrenceVars
<1>1. Months \in Nat /\ period_index \in Nat /\ TypeOK
  BY MonthsNat DEF IInv, TypeInv
<1>2. Evaluated' = Evaluated
  BY DEF Evaluated, Months
<1>3. LastUnits' = LastUnits
  <2>1. CASE UNCHANGED monthly_results
    BY <1>2, <2>1 DEF LastUnits
  <2>2. CASE /\ status # "COMPLETED" /\ Months = period_index
             /\ \E result : monthly_results' = Append(monthly_results, result)
    <3>1. PICK result : monthly_results' = Append(monthly_results, result)
      BY <2>2
    <3>2. Evaluated = Months
      BY <2>2 DEF Evaluated
    <3>3. \A i \in 1 .. Months : monthly_results'[i] = monthly_results[i]
      BY <1>1, <3>1, HistoryGrows
    <3> QED
      BY <1>1, <1>2, <3>2, <3>3 DEF LastUnits
  <2> QED
    BY <2>1, <2>2
<1>4. Post' = Post
  BY <1>2, <1>3 DEF Post
<1>5. Outcome' = Outcome
  BY DEF Outcome
<1> QED
  BY <1>2, <1>3, <1>4, <1>5 DEF RecurrenceVars

LEMMA SameMonthOfRecurrence ==
    ASSUME IInv, NEW ratio
    PROVE  /\ Recurrence!C = FixedRealWithdrawal(context)
           /\ Recurrence!Now = context.dataset[Evaluated + 1]
           /\ Recurrence!Sold(ratio) = SoldOf(LastUnits, context.dataset[Evaluated + 1], ratio)
           /\ \A u, prices : Recurrence!Value(u, prices) = Value(u, prices)
           /\ \A x, y : Recurrence!Over(x, y) = Over(x, y)
<1>1. \A x, y : /\ Recurrence!HalfEven(x, y) = HalfEven(x, y)
                /\ Recurrence!Minus(x, y) = Minus(x, y)
  BY DEF Recurrence!HalfEven, HalfEven, Recurrence!Minus, Minus, Recurrence!Zero, Zero
<1>2. \A x, y : /\ Recurrence!Times(x, y) = Times(x, y)
                /\ Recurrence!Over(x, y) = Over(x, y)
  BY <1>1 DEF Recurrence!Times, Times, Recurrence!Over, Over
<1>3. \A u, prices : Recurrence!Value(u, prices) = Value(u, prices)
  BY <1>2 DEF Recurrence!Value, Value
<1>4. Recurrence!C = FixedRealWithdrawal(context)
  BY <1>2, <1>3 DEF Recurrence!C, Recurrence!FixedRealWithdrawal, FixedRealWithdrawal,
        Recurrence!One, One
<1>5. Recurrence!Now = context.dataset[Evaluated + 1]
  BY DEF Recurrence!Now
<1>6. Recurrence!Sold(ratio) = SoldOf(LastUnits, context.dataset[Evaluated + 1], ratio)
  BY <1>1, <1>2, <1>5 DEF Recurrence!Sold, SoldOf, Recurrence!Assets, Assets
<1> QED
  BY <1>2, <1>3, <1>4, <1>5, <1>6

LEMMA DelegateStep ==
    ASSUME IInv', UNCHANGED context, ~Eligible
    PROVE  Recurrence!Delegate
<1>1. (/\ Evaluated \in 0 .. Len(context.dataset)
       /\ Evaluated <= Months /\ LastUnits = MonthStart(Evaluated + 1)
       /\ LastUnits \in Portfolios /\ Post \in Nat
       /\ Outcome \in {"running", "success", "failure"})'
  BY EvaluatedMonths, PTL
<1> QED
  BY <1>1 DEF Recurrence!Delegate, Eligible, Post, Outcome, Recurrence!Portfolios, Portfolios,
        Recurrence!Amounts, Amounts, Recurrence!Assets, Assets

\* The withdrawal that is not covered.
LEMMA DepleteStep ==
    ASSUME IInv, IInv', WithdrawalExecution, depleted', Eligible
    PROVE  Recurrence!Deplete
<1> DEFINE amount == withdrawal_decision
           value == Value(portfolio, Snapshot)
<1>1. /\ status = "RUNNING" /\ ~depleted /\ portfolio = MonthStart(Months + 1)
      /\ Months = period_index /\ period_index < LastMonth /\ step = "WithdrawalExecution"
  BY DEF WithdrawalExecution, IInv, ClockInv, PaymentInv, InMonth, Opening
<1>2. /\ context \in Context /\ Months \in Nat /\ portfolio \in Portfolios
      /\ amount \in Nat /\ Snapshot \in Prices /\ Snapshot = context.dataset[Months + 1]
  BY <1>1, MonthsNat, SnapshotHasPrices DEF IInv, TypeInv, TypeOK, DecisionsInv, InMonth,
        Opening, Snapshot
<1>3. /\ Evaluated = Months /\ LastUnits = portfolio /\ Outcome = "running"
  BY <1>1, EvaluatedMonths DEF Evaluated, Outcome
<1>4. FixedReal /\ LastMonth = context.horizon_months
  BY <1>2, EligibleMeans
<1>5. amount = FixedRealWithdrawal(context)
  BY <1>1, <1>4 DEF IInv, RecurrenceInv
<1>6. value \in Nat
  BY <1>2, ValueNat
<1>7. /\ amount # Zero /\ Exceeds(amount, value)
      /\ portfolio' = IF value = Zero THEN portfolio ELSE UnitsLeft(Over(value, value))
      /\ current_wealth' = Value(portfolio', Snapshot)
  BY <1>1 DEF WithdrawalExecution
<1>8. portfolio' = SoldOf(portfolio, Snapshot, One)
  <2>1. One \in Nat
    BY EngineAssumption DEF One
  <2> HIDE DEF value
  <2>2. CASE value = Zero
    BY <1>2, <1>7, <2>1, <2>2, SellingWorthless DEF value, Zero
  <2>3. CASE value # Zero
    <3>1. Over(value, value) = One
      BY <1>6, <2>3, ShareOfAllIsOne DEF Zero
    <3> QED
      BY <1>2, <1>7, <2>1, <2>3, <3>1, UnitsLeftAreSold
  <2> QED
    BY <2>2, <2>3
<1>9. /\ Recurrence!C = amount /\ Recurrence!Now = Snapshot
      /\ Recurrence!Sold(One) = SoldOf(portfolio, Snapshot, One)
      /\ \A u, prices : Recurrence!Value(u, prices) = Value(u, prices)
  BY <1>2, <1>3, <1>5, SameMonthOfRecurrence
<1>10. Recurrence!One = One
  BY DEF Recurrence!One, One
<1>11. /\ UNCHANGED <<context, monthly_results, period_index>> /\ status' = "FAILED"
  BY <1>1, <1>7 DEF WithdrawalExecution, Continue, clock
<1>12. Evaluated' = Evaluated /\ LastUnits' = LastUnits
  <2>1. Evaluated' = Evaluated
    BY <1>1, <1>11 DEF Evaluated
  <2> QED
    BY <1>11, <2>1 DEF LastUnits
<1>13. Post' = current_wealth' /\ Outcome' = "failure"
  BY DEF Post, Outcome
<1>14. Recurrence!Depleted(amount, value)
  BY <1>7 DEF Recurrence!Depleted, Exceeds
<1>15. Post' = Recurrence!Value(Recurrence!Sold(One), Recurrence!Now)
  BY <1>7, <1>8, <1>9, <1>13
<1>16. Evaluated < context.horizon_months
  BY <1>1, <1>3, <1>4
<1>17. Recurrence!Value(LastUnits, Recurrence!Now) = value
  BY <1>3, <1>9
<1> HIDE DEF amount, value
<1> QED
  BY <1>3, <1>9, <1>10, <1>11, <1>12, <1>13, <1>14, <1>15, <1>16, <1>17
     DEF Recurrence!Deplete, Eligible, Post, Outcome

\* The end of a month that was paid for.
LEMMA MonthStep ==
    ASSUME IInv, IInv', SimulationStateUpdate, Eligible
    PROVE  Recurrence!Month
<1>1. /\ status = "RUNNING" /\ ~depleted /\ Months = period_index + 1
      /\ period_index < LastMonth /\ step = "SimulationStateUpdate"
  BY DEF SimulationStateUpdate, IInv, ClockInv, InMonth
<1>2. /\ context \in Context /\ Months \in Nat /\ period_index \in Nat /\ TypeOK
  BY MonthsNat DEF IInv, TypeInv
<1>3. Evaluated = period_index /\ Outcome = "running" /\ LastUnits = MonthStart(Months)
  BY <1>1, EvaluatedMonths DEF Evaluated, Outcome
<1>4. /\ FixedReal /\ LastMonth = context.horizon_months
      /\ LastMonth \in Nat /\ LastMonth <= Len(context.dataset) /\ Len(context.dataset) \in Nat
  BY <1>2, EligibleMeans, LastMonthBounds, ContextFields
<1> DEFINE prices == context.dataset[Months]
           c == FixedRealWithdrawal(context)
           value == Value(LastUnits, prices)
           sold == SoldOf(LastUnits, prices, Over(c, value))
<1>5. prices \in Prices
  BY <1>1, <1>2, <1>4, ContextFields
<1>6. value = StartValue(Months)
  BY <1>3 DEF StartValue
<1>7. /\ value # Zero /\ monthly_results[Months].portfolio = MonthEnd(Months, c)
      /\ c <= value
  <2>1. Months \in 1 .. Months
    BY <1>1, <1>2
  <2> QED
    BY <1>4, <1>6, <2>1 DEF IInv, RecurrenceInv, PaymentInv
<1>8. AfterSale(Months, c) = sold
  BY <1>3, <1>6, <1>7 DEF AfterSale
<1>9. /\ Recurrence!C = c /\ Recurrence!Now = prices
      /\ Recurrence!Sold(Over(c, value)) = sold
      /\ \A u, p : Recurrence!Value(u, p) = Value(u, p)
      /\ \A x, y : Recurrence!Over(x, y) = Over(x, y)
  BY <1>1, <1>3, SameMonthOfRecurrence
<1> HIDE DEF prices, c, value, sold
<1>10. Recurrence!Rebalanced(Value(sold, prices)) = MonthEnd(Months, c)
  <2>1. \A x, y : /\ Recurrence!HalfEven(x, y) = HalfEven(x, y)
                  /\ Recurrence!Minus(x, y) = Minus(x, y)
    BY DEF Recurrence!HalfEven, HalfEven, Recurrence!Minus, Minus, Recurrence!Zero, Zero
  <2>2. \A x, y : Recurrence!Times(x, y) = Times(x, y)
    BY <2>1 DEF Recurrence!Times, Times
  <2>3. Recurrence!TargetWeights(context) = TargetWeights(context)
    BY DEF Recurrence!TargetWeights, TargetWeights, Recurrence!Assets, Assets, Recurrence!One,
          One
  <2> QED
    BY <1>8, <1>9, <2>1, <2>2, <2>3 DEF Recurrence!Rebalanced, MonthEnd, prices,
          Recurrence!Assets, Assets
<1>11. UNCHANGED <<context, depleted, monthly_results>>
  BY DEF SimulationStateUpdate, Continue
<1>12. Evaluated' = Months
  BY <1>1, <1>2, <1>11 DEF SimulationStateUpdate, Evaluated, Months
<1>13. LastUnits' = MonthEnd(Months, c)
  BY <1>1, <1>2, <1>7, <1>11, <1>12 DEF LastUnits
<1>14. Post' = Value(MonthEnd(Months, c), prices)
  BY <1>1, <1>2, <1>11, <1>12, <1>13 DEF Post, prices
<1>15. Outcome' = IF Months = context.horizon_months THEN "success" ELSE "running"
  <2> DEFINE h == context.horizon_months
             l == Len(context.dataset)
  <2>1. h \in Nat /\ l \in Nat /\ h <= l /\ Months <= h
    BY <1>1, <1>2, <1>4, ContextFields
  <2>2. \/ (period_index + 1 >= h \/ period_index + 2 > l) /\ status' = "COMPLETED"
        \/ period_index + 1 < h /\ status' = status
    BY DEF SimulationStateUpdate, NextSnapshot
  <2>3. Outcome' = IF status' = "COMPLETED" THEN "success" ELSE "running"
    BY <1>1, <1>11 DEF Outcome
  <2> HIDE DEF h, l
  <2>4. status' = "COMPLETED" <=> Months = h
    BY <1>1, <1>2, <2>1, <2>2
  <2> QED
    BY <2>3, <2>4 DEF h
<1>16. Evaluated < context.horizon_months /\ Months = Evaluated + 1
  BY <1>1, <1>3, <1>4
<1>17. ~Recurrence!Depleted(c, value)
  <2>1. c \in Nat /\ value \in Nat
    BY <1>2, <1>5, FixedRealNat, ValueNat, EvaluatedMonths DEF c, value
  <2> QED
    BY <1>7, <2>1 DEF Recurrence!Depleted
<1>18. Recurrence!Value(LastUnits, Recurrence!Now) = value
  BY <1>9 DEF value
<1>19. LastUnits' = Recurrence!Rebalanced(Recurrence!Value(
                        Recurrence!Sold(Recurrence!Over(Recurrence!C, value)), Recurrence!Now))
  BY <1>9, <1>10, <1>13
<1>20. Post' = Recurrence!Value(LastUnits', Recurrence!Now)
  BY <1>9, <1>13, <1>14
<1> QED
  BY <1>3, <1>7, <1>9, <1>11, <1>12, <1>15, <1>16, <1>17, <1>18, <1>19, <1>20
     DEF Recurrence!Month, Eligible, Post, Outcome, Recurrence!Zero, Zero

LEMMA RecurrenceMoves == IInv /\ IInv' /\ [Next]_vars => [Recurrence!Next]_RecurrenceVars
<1> SUFFICES ASSUME IInv, IInv', [Next]_vars PROVE [Recurrence!Next]_RecurrenceVars
  OBVIOUS
<1>0. UNCHANGED context
  BY DEF Next, vars, Initialize, InitializeAllocation, BuildDecisionContext,
         WithdrawalDecision, WithdrawalExecution, AllocationDecision, PortfolioRebalance,
         MarketEvolution, MonthlyResultBuilder, SimulationStateUpdate, BuildResult,
         Continue, Raise
<1>1. CASE ~Eligible
  BY <1>0, <1>1, DelegateStep DEF Recurrence!Next
<1>2. CASE Eligible
  <2>0. context \in Context /\ context.horizon_months >= 1
    BY <1>2, MonthsNat, EligibleMeans DEF IInv, TypeInv
  <2>1. CASE Initialize
    <3>1. UNCHANGED <<status, depleted, period_index, monthly_results>> /\ ~depleted
      BY <2>0, <2>1 DEF Initialize, IInv, TypeInv, DecisionsInv
    <3> QED
      BY <1>0, <3>1, Stutters
  <2>2. CASE InitializeAllocation
    <3>1. UNCHANGED <<status, depleted, period_index, current_wealth, monthly_results>>
      BY <2>2 DEF InitializeAllocation, Raise, clock, money
    <3> QED
      BY <1>0, <3>1, Stutters
  <2>3. CASE BuildDecisionContext
    <3>1. UNCHANGED <<status, depleted, period_index, current_wealth, monthly_results>>
      BY <2>3 DEF BuildDecisionContext, clock, money
    <3> QED
      BY <1>0, <3>1, Stutters
  <2>4. CASE WithdrawalDecision
    <3>1. UNCHANGED <<status, depleted, period_index, current_wealth, monthly_results>>
      BY <2>4 DEF WithdrawalDecision, clock, money
    <3> QED
      BY <1>0, <3>1, Stutters
  <2>5. CASE WithdrawalExecution
    <3>1. CASE depleted'
      BY <1>2, <2>5, <3>1, DepleteStep DEF Recurrence!Next
    <3>2. CASE ~depleted'
      <4>1. UNCHANGED <<status, depleted, period_index, monthly_results>> /\ ~depleted
        BY <2>5, <3>2 DEF WithdrawalExecution, clock, IInv, ClockInv, InMonth, Opening
      <4> QED
        BY <1>0, <4>1, Stutters
    <3> QED
      BY <3>1, <3>2
  <2>6. CASE AllocationDecision
    <3>1. UNCHANGED <<status, depleted, period_index, current_wealth, monthly_results>>
      BY <2>6 DEF AllocationDecision, clock, money
    <3> QED
      BY <1>0, <3>1, Stutters
  <2>7. CASE PortfolioRebalance
    <3>1. UNCHANGED <<status, depleted, period_index, monthly_results>> /\ ~depleted
      BY <2>7 DEF PortfolioRebalance, clock, IInv, ClockInv, InMonth, Paid
    <3> QED
      BY <1>0, <3>1, Stutters
  <2>8. CASE MarketEvolution
    <3>1. UNCHANGED <<status, depleted, period_index, monthly_results>> /\ ~depleted
      BY <2>8 DEF MarketEvolution, Raise, clock, IInv, ClockInv, InMonth, Paid
    <3> QED
      BY <1>0, <3>1, Stutters
  <2>9. CASE MonthlyResultBuilder
    <3>1. /\ UNCHANGED <<status, depleted, period_index, current_wealth>>
          /\ \E result : monthly_results' = Append(monthly_results, result)
      BY <2>9 DEF MonthlyResultBuilder, clock, money
    <3>2. status # "COMPLETED" /\ Months = period_index
      BY <2>9 DEF MonthlyResultBuilder, IInv, ClockInv, InMonth, Paid
    <3> QED
      BY <1>0, <3>1, <3>2, Stutters
  <2>10. CASE SimulationStateUpdate
    BY <1>2, <2>10, MonthStep DEF Recurrence!Next
  <2>11. CASE BuildResult
    <3>1. UNCHANGED <<status, depleted, period_index, current_wealth, monthly_results>>
      BY <2>11 DEF BuildResult, clock, money
    <3> QED
      BY <1>0, <3>1, Stutters
  <2>12. CASE UNCHANGED vars
    <3>1. UNCHANGED <<status, depleted, period_index, current_wealth, monthly_results>>
      BY <2>12 DEF vars, clock, money
    <3> QED
      BY <1>0, <3>1, Stutters
  <2> QED
    BY <2>1, <2>2, <2>3, <2>4, <2>5, <2>6, <2>7, <2>8, <2>9, <2>10, <2>11, <2>12 DEF Next
<1> QED
  BY <1>1, <1>2

\* The nine steps of the pipeline do in a month what the recurrence of the
\* fast path does in a step, to the last digit: for every context the fast
\* path evaluates itself, the engine implements it.
THEOREM Implements == Spec => ImplementsFastPath
<1>1. IInv /\ IInv' /\ [Next]_vars => [Recurrence!Next]_Recurrence!vars
  BY RecurrenceMoves DEF RecurrenceVars, Recurrence!vars, Post, Outcome
<1> QED
  BY <1>1, RecurrenceStarts, IInvInvariant, PTL DEF Spec, ImplementsFastPath, Recurrence!Spec
=============================================================================
