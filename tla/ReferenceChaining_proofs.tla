---------------------- MODULE ReferenceChaining_proofs ----------------------
(***************************************************************************)
(* Theorems about ReferenceChaining for any plans, configurations and      *)
(* arithmetic.                                                             *)
(***************************************************************************)
EXTENDS ReferenceChaining, WellFoundedInduction, SequenceTheorems,
        FiniteSetTheorems, TLAPS

\* A set of months that is not empty has a first one.
LEMMA FirstOfIsLeast ==
    ASSUME NEW months \in SUBSET Nat, months # {}
    PROVE  /\ FirstOf(months) \in months
           /\ \A k \in months : FirstOf(months) <= k
<1> DEFINE before == OpToRel(<, Nat)
<1>1. \A a, b \in Nat : a < b => <<a, b>> \in before
  BY DEF OpToRel
<1>2. IsWellFoundedOn(before, Nat)
  BY NatLessThanWellFounded
<1>3. PICK m \in months : \A k \in months : ~(<<k, m>> \in before)
  <2> HIDE DEF before
  <2> QED
    BY <1>2, WFMin
<1> HIDE DEF before
<1>4. \A k \in months : ~(k < m)
  BY <1>1, <1>3, Zenon
<1>5. \A k \in months : m <= k
  BY <1>4
<1> QED
  BY <1>5 DEF FirstOf

\* Positions up to m of two trajectories that agree so far.
LEMMA SamePrefix ==
    ASSUME NEW s \in Seq(Snapshots), NEW t \in Seq(Snapshots), NEW m \in Nat,
           m <= Len(s), m <= Len(t), \A k \in 1 .. m : s[k] = t[k]
    PROVE  SubSeq(s, 1, m) = SubSeq(t, 1, m)
BY SubSeqProperties, SMT

\* Two units that chain: what _build_derived_result is called with.
Chains(unit, longest) ==
    /\ unit.policy = longest.policy
    /\ GroupKey(unit) = GroupKey(longest)
    /\ IsIdentityPrefix(unit, longest)
    /\ unit.horizon <= longest.horizon
    /\ unit.horizon <= Len(unit.dataset)

\* They go through the same states.
LEMMA StatesAgree ==
    ASSUME NEW unit \in Unit, NEW longest \in Unit, Chains(unit, longest),
           NEW m \in 0 .. unit.horizon
    PROVE  State(unit, m) = State(longest, m)
<1>1. /\ unit.dataset \in Seq(Snapshots) /\ longest.dataset \in Seq(Snapshots)
      /\ unit.horizon \in Nat
  BY DEF Unit
<1>2. /\ m \in Nat /\ m <= Len(unit.dataset) /\ m <= Len(longest.dataset)
      /\ \A k \in 1 .. m : unit.dataset[k] = longest.dataset[k]
  BY <1>1 DEF Chains, IsIdentityPrefix
<1>3. SubSeq(unit.dataset, 1, m) = SubSeq(longest.dataset, 1, m)
  BY <1>1, <1>2, SamePrefix
<1>4. unit.policy = longest.policy /\ unit.scalars = longest.scalars
  BY DEF Chains, GroupKey
<1> QED
  BY <1>3, <1>4 DEF State

\* They fail in the same months, as far as the shorter one goes.
LEMMA FatalMonthsAgree ==
    ASSUME NEW unit \in Unit, NEW longest \in Unit, Chains(unit, longest)
    PROVE  FatalMonths(unit) = FatalMonths(longest) \cap (0 .. unit.horizon - 1)
<1>1. /\ unit.horizon \in Nat \ {0} /\ longest.horizon \in Nat \ {0}
      /\ unit.horizon <= longest.horizon
  BY DEF Unit, Chains
<1>2. ClosedForm(unit) <=> ClosedForm(longest)
  BY DEF ClosedForm, Chains
<1>3. \A m \in 0 .. unit.horizon - 1 : State(unit, m + 1) = State(longest, m + 1)
  BY <1>1, StatesAgree
<1>4. 0 .. unit.horizon - 1 \subseteq 0 .. longest.horizon - 1
  BY <1>1
<1> QED
  BY <1>2, <1>3, <1>4, Zenon DEF FatalMonths

\* The timeline of a simulation, cut to a number of months it has.
LEMMA CutTimeline ==
    ASSUME NEW unit \in Unit, NEW n \in Nat, NEW m \in 0 .. n
    PROVE  SubSeq([k \in 1 .. n |-> State(unit, k)], 1, m) = [k \in 1 .. m |-> State(unit, k)]
<1> DEFINE s(k) == State(unit, k)
           t == [k \in 1 .. n |-> s(k)]
<1> HIDE DEF s
<1>1. \A k \in 1 .. m : t[k] = s(k)
  OBVIOUS
<1>2. SubSeq(t, 1, m) = [k \in 1 .. m |-> t[k]]
  BY SMT
<1>3. SubSeq(t, 1, m) = [k \in 1 .. m |-> s(k)]
  BY <1>1, <1>2
<1> QED
  BY <1>3 DEF s

\* A timeline has the state of a month at that month.
LEMMA TimelineAt ==
    ASSUME NEW unit \in Unit, NEW n \in Nat, NEW m \in 1 .. n
    PROVE  [k \in 1 .. n |-> State(unit, k)][m] = State(unit, m)
OBVIOUS

\* The fatal months are months of the unit, and the first of them is one.
LEMMA FatalMonthsType ==
    ASSUME NEW unit \in Unit
    PROVE  /\ FatalMonths(unit) \in SUBSET (0 .. unit.horizon - 1)
           /\ FatalMonths(unit) \in SUBSET Nat
           /\ unit.horizon \in Nat \ {0}
BY DEF FatalMonths, Unit

\* A unit simulated up to the longest horizon is its own derived result.
LEMMA SameHorizon ==
    ASSUME NEW unit \in Unit, NEW longest \in Unit, Chains(unit, longest),
           unit.horizon = longest.horizon
    PROVE  Simulate(unit) = Simulate(longest)
<1> DEFINE fatal == FatalMonths(unit)
           months == IF fatal = {} THEN unit.horizon ELSE FirstOf(fatal)
           final == IF fatal = {} THEN months ELSE months + 1
<1>1. FatalMonths(longest) = fatal
  BY FatalMonthsAgree, FatalMonthsType
<1>2. months \in 0 .. unit.horizon /\ final \in 0 .. unit.horizon
  BY FatalMonthsType, FirstOfIsLeast
<1>3. \A k \in 1 .. months : State(unit, k) = State(longest, k)
  BY <1>2, StatesAgree, FatalMonthsType
<1>4. [k \in 1 .. months |-> State(unit, k)] = [k \in 1 .. months |-> State(longest, k)]
  BY <1>3
<1>5. State(unit, final) = State(longest, final)
  BY <1>2, StatesAgree
<1>6. Simulate(unit) = [timeline |-> [k \in 1 .. months |-> State(unit, k)],
                        success |-> fatal = {},
                        failure_month |-> IF fatal = {} THEN None ELSE months,
                        months_simulated |-> months,
                        final_wealth |-> State(unit, final)]
  BY DEF Simulate
<1>7. Simulate(longest) = [timeline |-> [k \in 1 .. months |-> State(longest, k)],
                           success |-> fatal = {},
                           failure_month |-> IF fatal = {} THEN None ELSE months,
                           months_simulated |-> months,
                           final_wealth |-> State(longest, final)]
  BY <1>1 DEF Simulate
<1> HIDE DEF fatal, months, final
<1> QED
  BY <1>4, <1>5, <1>6, <1>7, Zenon

\* The result read off the path of the longest horizon of a family is the
\* result the engine computes for the unit itself, whatever the arithmetic,
\* for every month in which the path may fail: _build_derived_result and the
\* closed form's _outcome_for_horizon.
THEOREM DerivedIsDirect ==
    ASSUME NEW unit \in Unit, NEW longest \in Unit, Chains(unit, longest)
    PROVE  Derived(longest, unit) = Simulate(unit)
<1> DEFINE h == unit.horizon
           fatal == FatalMonths(longest)
           f == FirstOf(fatal)
           path == Simulate(longest)
<1>1. h \in Nat \ {0} /\ longest.horizon \in Nat \ {0} /\ h <= longest.horizon
  BY DEF Unit, Chains
<1>2. CASE h = longest.horizon
  BY <1>2, SameHorizon DEF Derived
<1>3. CASE h # longest.horizon /\ fatal = {}
  <2>1. path = [timeline |-> [k \in 1 .. longest.horizon |-> State(longest, k)],
                success |-> TRUE, failure_month |-> None,
                months_simulated |-> longest.horizon,
                final_wealth |-> State(longest, longest.horizon)]
    BY <1>3 DEF Simulate
  <2>2. Simulate(unit) = [timeline |-> [k \in 1 .. h |-> State(unit, k)],
                          success |-> TRUE, failure_month |-> None,
                          months_simulated |-> h, final_wealth |-> State(unit, h)]
    <3>1. FatalMonths(unit) = {}
      BY <1>3, FatalMonthsAgree
    <3> QED
      BY <3>1 DEF Simulate
  <2>3. SubSeq(path.timeline, 1, h) = [k \in 1 .. h |-> State(longest, k)]
    BY <1>1, <2>1, CutTimeline
  <2>4. path.timeline[h] = State(longest, h)
    BY <1>1, <2>1, TimelineAt
  <2>5. \A k \in 1 .. h : State(unit, k) = State(longest, k)
    BY <1>1, StatesAgree
  <2>6. [k \in 1 .. h |-> State(unit, k)] = [k \in 1 .. h |-> State(longest, k)]
    BY <2>5
  <2>7. State(unit, h) = State(longest, h)
    BY <1>1, <2>5
  <2>8. Derived(longest, unit) =
           [timeline |-> SubSeq(path.timeline, 1, h), success |-> TRUE,
            failure_month |-> None, months_simulated |-> h,
            final_wealth |-> path.timeline[h]]
    BY <1>3, <2>1 DEF Derived
  <2> QED
    BY <2>2, <2>3, <2>4, <2>6, <2>7, <2>8
<1>4. CASE h # longest.horizon /\ fatal # {}
  <2>1. f \in Nat /\ f \in fatal /\ f < longest.horizon /\ \A k \in fatal : f <= k
    BY <1>1, <1>4, FatalMonthsType, FirstOfIsLeast
  <2>2. path = [timeline |-> [k \in 1 .. f |-> State(longest, k)],
                success |-> FALSE, failure_month |-> f,
                months_simulated |-> f, final_wealth |-> State(longest, f + 1)]
    BY <1>4 DEF Simulate
  <2>3. f # None
    BY <2>1, NoneAssumption
  <2>4. CASE h <= f
    <3>1. FatalMonths(unit) = {}
      BY <1>1, <2>1, <2>4, FatalMonthsAgree, FatalMonthsType
    <3>2. Simulate(unit) = [timeline |-> [k \in 1 .. h |-> State(unit, k)],
                            success |-> TRUE, failure_month |-> None,
                            months_simulated |-> h, final_wealth |-> State(unit, h)]
      BY <3>1 DEF Simulate
    <3>3. SubSeq(path.timeline, 1, h) = [k \in 1 .. h |-> State(longest, k)]
      BY <1>1, <2>1, <2>2, <2>4, CutTimeline
    <3>4. path.timeline[h] = State(longest, h)
      BY <1>1, <2>1, <2>2, <2>4, TimelineAt
    <3>5. \A k \in 1 .. h : State(unit, k) = State(longest, k)
      BY <1>1, StatesAgree
    <3>6. [k \in 1 .. h |-> State(unit, k)] = [k \in 1 .. h |-> State(longest, k)]
      BY <3>5
    <3>7. State(unit, h) = State(longest, h)
      BY <1>1, <3>5
    <3>8. Derived(longest, unit) =
             [timeline |-> SubSeq(path.timeline, 1, h), success |-> TRUE,
              failure_month |-> None, months_simulated |-> h,
              final_wealth |-> path.timeline[h]]
      BY <1>4, <2>2, <2>4 DEF Derived, Reached
    <3> QED
      BY <3>2, <3>3, <3>4, <3>6, <3>7, <3>8
  <2>5. CASE ~(h <= f)
    <3>1. FatalMonths(unit) # {} /\ FirstOf(FatalMonths(unit)) = f
      <4>1. f \in FatalMonths(unit) /\ \A k \in FatalMonths(unit) : f <= k
        BY <1>1, <2>1, <2>5, FatalMonthsAgree
      <4>2. FirstOf(FatalMonths(unit)) = f
        BY <2>1, <4>1, FirstOfIsLeast, FatalMonthsType
      <4> QED
        BY <4>1, <4>2
    <3>2. Simulate(unit) = [timeline |-> [k \in 1 .. f |-> State(unit, k)],
                            success |-> FALSE, failure_month |-> f,
                            months_simulated |-> f, final_wealth |-> State(unit, f + 1)]
      BY <3>1 DEF Simulate
    <3>3. SubSeq(path.timeline, 1, f) = [k \in 1 .. f |-> State(longest, k)]
      BY <2>1, <2>2, CutTimeline
    <3>4. \A k \in 1 .. f + 1 : State(unit, k) = State(longest, k)
      BY <1>1, <2>1, <2>5, StatesAgree
    <3>5. [k \in 1 .. f |-> State(unit, k)] = [k \in 1 .. f |-> State(longest, k)]
      BY <2>1, <3>4
    <3>6. State(unit, f + 1) = State(longest, f + 1)
      BY <2>1, <3>4
    <3>7. Derived(longest, unit) =
             [timeline |-> SubSeq(path.timeline, 1, f), success |-> FALSE,
              failure_month |-> f, months_simulated |-> f,
              final_wealth |-> path.final_wealth]
      BY <1>4, <2>2, <2>3, <2>5 DEF Derived, Reached
    <3>8. path.final_wealth = State(longest, f + 1)
      BY <2>2
    <3> HIDE DEF path, f
    <3> QED
      BY <3>2, <3>3, <3>5, <3>6, <3>7, <3>8, Zenon
  <2> QED
    BY <2>4, <2>5
<1> QED
  BY <1>2, <1>3, <1>4

-----------------------------------------------------------------------------
(***************************************************************************)
(* Families.                                                               *)
(***************************************************************************)

\* Of any positions of a plan one has the longest horizon, and is the first
\* that has: if sets that reach as far as n had none, n being the least, the
\* one without its last position would have.
LEMMA FirstOfTheLongest ==
    ASSUME NEW N \in Nat, NEW h \in [1 .. N -> Nat]
    PROVE  \A T \in SUBSET (1 .. N) :
               T # {} => \E i \in T : \A j \in T : \/ h[j] < h[i]
                                                   \/ h[j] = h[i] /\ i <= j
<1> DEFINE Has(T) == \E i \in T : \A j \in T : \/ h[j] < h[i]
                                               \/ h[j] = h[i] /\ i <= j
           Without(n) == {T \in SUBSET (1 .. N) : T # {} /\ T \subseteq 1 .. n /\ ~Has(T)}
           Bad == {n \in Nat : Without(n) # {}}
<1>1. Bad = {}
  <2> SUFFICES ASSUME Bad # {} PROVE FALSE
    OBVIOUS
  <2> DEFINE n == FirstOf(Bad)
  <2> HIDE DEF Has
  <2>1. n \in Bad /\ n \in Nat /\ \A k \in Bad : n <= k
    BY FirstOfIsLeast
  <2> HIDE DEF n
  <2>2. PICK T : T \in SUBSET (1 .. N) /\ T # {} /\ T \subseteq 1 .. n /\ ~Has(T)
    BY <2>1
  <2>3. \A U \in SUBSET (1 .. N) : U # {} /\ U \subseteq 1 .. n - 1 => Has(U)
    <3> TAKE U \in SUBSET (1 .. N)
    <3> HAVE U # {} /\ U \subseteq 1 .. n - 1
    <3>1. n - 1 \in Nat
      <4>1. PICK k : k \in U
        OBVIOUS
      <4>2. k \in 1 .. n - 1
        BY <4>1
      <4> QED
        BY <2>1, <4>2
    <3>2. n - 1 \notin Bad
      <4>1. ~(n <= n - 1)
        BY <2>1
      <4> HIDE DEF Bad
      <4> QED
        BY <2>1, <4>1
    <3> QED
      BY <3>1, <3>2
  <2>4. n \in T
    <3>1. n \notin T => T \subseteq 1 .. n - 1
      BY <2>1, <2>2
    <3> QED
      BY <2>2, <2>3, <3>1
  <2>5. n \in 1 .. N
    BY <2>2, <2>4
  <2> DEFINE U == T \ {n}
  <2>6. CASE U = {}
    <3>1. T = {n}
      BY <2>4, <2>6
    <3>2. h[n] \in Nat
      BY <2>5
    <3> QED
      BY <2>1, <2>2, <3>1, <3>2 DEF Has
  <2>7. CASE U # {}
    <3>1. U \in SUBSET (1 .. N) /\ U \subseteq 1 .. n - 1
      BY <2>1, <2>2
    <3>2. PICK i \in U : \A j \in U : \/ h[j] < h[i]
                                      \/ h[j] = h[i] /\ i <= j
      BY <2>3, <2>7, <3>1 DEF Has
    <3>3. i \in T /\ i \in Nat /\ h[i] \in Nat /\ h[n] \in Nat /\ \A j \in T : h[j] \in Nat
      BY <2>2, <2>5
    <3>4. i <= n
      BY <2>1, <3>1, <3>3
    <3>5. CASE h[i] < h[n]
      <4>1. \A j \in U : h[j] < h[n]
        BY <3>2, <3>3, <3>5
      <4>2. \A j \in T : \/ h[j] < h[n]
                         \/ h[j] = h[n] /\ n <= j
        BY <2>1, <4>1
      <4> QED
        BY <2>2, <2>4, <4>2 DEF Has
    <3>6. CASE h[n] <= h[i]
      <4>1. h[n] < h[i] \/ (h[n] = h[i] /\ i <= n)
        BY <3>3, <3>4, <3>6
      <4>2. \A j \in T : \/ h[j] < h[i]
                         \/ h[j] = h[i] /\ i <= j
        BY <3>2, <4>1
      <4> QED
        BY <2>2, <3>3, <4>2 DEF Has
    <3> QED
      BY <3>3, <3>5, <3>6
  <2> QED
    BY <2>6, <2>7
<1> HIDE DEF Has
<1>2. \A T \in SUBSET (1 .. N) : T # {} => Has(T)
  <2> TAKE T \in SUBSET (1 .. N)
  <2>1. N \notin Bad
    BY <1>1
  <2> QED
    BY <2>1
<1> QED
  BY <1>2 DEF Has

\* A family has a longest unit.
LEMMA LongestExists ==
    ASSUME plan \in Seq(Unit), NEW family \in SUBSET DOMAIN plan, family # {}
    PROVE  /\ Longest(family) \in family
           /\ \A j \in family : plan[j].horizon <= plan[Longest(family)].horizon
<1> DEFINE N == Len(plan)
           h == [i \in 1 .. N |-> plan[i].horizon]
<1>1. N \in Nat /\ DOMAIN plan = 1 .. N
  OBVIOUS
<1>2. \A i \in 1 .. N : plan[i] \in Unit
  BY <1>1
<1>3. \A i \in 1 .. N : plan[i].horizon \in Nat
  BY <1>2 DEF Unit
<1>4. h \in [1 .. N -> Nat]
  BY <1>3
<1>5. \A i \in family : i \in 1 .. N /\ h[i] = plan[i].horizon
  BY <1>1
<1>6. \E i \in family : \A j \in family : \/ h[j] < h[i]
                                          \/ h[j] = h[i] /\ i <= j
  <2> HIDE DEF N, h
  <2> QED
    BY <1>1, <1>4, FirstOfTheLongest
<1>7. \E i \in family : \A j \in family :
          \/ plan[j].horizon < plan[i].horizon
          \/ plan[j].horizon = plan[i].horizon /\ i <= j
  <2> HIDE DEF h
  <2> QED
    BY <1>5, <1>6
<1>8. /\ Longest(family) \in family
      /\ \A j \in family : \/ plan[j].horizon < plan[Longest(family)].horizon
                           \/ plan[j].horizon = plan[Longest(family)].horizon
  BY <1>7 DEF Longest
<1> QED
  BY <1>1, <1>3, <1>8

\* If the longest path does not raise, none of those it has the states of does.
LEMMA NoneRaises ==
    ASSUME NEW unit \in Unit, NEW longest \in Unit, Chains(unit, longest),
           ~Raises(longest)
    PROVE  ~Raises(unit)
<1> DEFINE fatal == FatalMonths(unit)
<1> SUFFICES ASSUME fatal # {} PROVE State(unit, FirstOf(fatal) + 1) \in Depleting
  BY DEF Raises
<1>1. /\ FirstOf(fatal) \in fatal /\ FirstOf(fatal) \in 0 .. unit.horizon - 1
      /\ \A k \in fatal : FirstOf(fatal) <= k
  BY FatalMonthsType, FirstOfIsLeast
<1>2. fatal = FatalMonths(longest) \cap (0 .. unit.horizon - 1)
  BY FatalMonthsAgree
<1>3. /\ FatalMonths(longest) # {} /\ FirstOf(FatalMonths(longest)) \in FatalMonths(longest)
      /\ \A k \in FatalMonths(longest) : FirstOf(FatalMonths(longest)) <= k
  BY <1>1, <1>2, FatalMonthsType, FirstOfIsLeast
<1>4. FirstOf(FatalMonths(longest)) = FirstOf(fatal)
  <2>1. FirstOf(FatalMonths(longest)) <= FirstOf(fatal)
    BY <1>1, <1>2, <1>3
  <2>2. FirstOf(FatalMonths(longest)) \in fatal
    BY <1>1, <1>2, <1>3, <2>1, FatalMonthsType
  <2> QED
    BY <1>1, <2>1, <2>2, FatalMonthsType
<1>5. State(longest, FirstOf(fatal) + 1) \in Depleting
  BY <1>3, <1>4 DEF Raises
<1>6. State(unit, FirstOf(fatal) + 1) = State(longest, FirstOf(fatal) + 1)
  BY <1>1, StatesAgree, FatalMonthsType
<1> QED
  BY <1>5, <1>6

-----------------------------------------------------------------------------
(***************************************************************************)
(* Slices.                                                                 *)
(***************************************************************************)

\* The positions up to n are n.
LEMMA FirstPositions ==
    ASSUME NEW n \in Nat
    PROVE  IsFiniteSet(1 .. n) /\ Cardinality(1 .. n) = n
BY FS_Interval

\* Integer division keeps the order, and makes nothing larger.
LEMMA Quotients ==
    ASSUME NEW a \in Nat, NEW b \in Nat, a <= b, NEW c \in Nat \ {0}
    PROVE  a \div c \in Nat /\ a \div c <= b \div c /\ a \div c <= a
BY SMTT(30)

\* Positions without a gap from the first one are as many as the last of them.
LEMMA InitialSegment ==
    ASSUME NEW N \in Nat, NEW D \in SUBSET (1 .. N),
           \A i \in D : \A j \in 1 .. N : j <= i => j \in D
    PROVE  D = 1 .. Cardinality(D)
<1> DEFINE Rest == (1 .. N + 1) \ D
           n == FirstOf(Rest)
<1>1. n \in Rest /\ n \in 1 .. N + 1 /\ \A k \in Rest : n <= k
  <2>1. N + 1 \in Rest /\ Rest \in SUBSET Nat
    OBVIOUS
  <2> QED
    BY <2>1, FirstOfIsLeast
<1> HIDE DEF n
<1>2. \A k \in 1 .. n - 1 : k \in D
  BY <1>1
<1>3. \A k \in D : k \in 1 .. n - 1
  <2> TAKE k \in D
  <2>1. ~(n <= k)
    BY <1>1
  <2> QED
    BY <1>1, <2>1
<1>4. D = 1 .. n - 1
  BY <1>2, <1>3
<1>5. Cardinality(1 .. n - 1) = n - 1
  BY <1>1, FS_Interval
<1> QED
  BY <1>4, <1>5

\* There are at most as many cohorts as units, in the order of the plan.
LEMMA CohortsInOrder ==
    ASSUME NEW i \in Nat \ {0}, NEW j \in Nat, i <= j
    PROVE  Cohort(i) \in 1 .. i /\ Cohort(i) <= Cohort(j) /\ Cohort(j) \in Nat
<1> DEFINE F(n) == {k \in 1 .. n : k = 1 \/ plan[k].start # plan[k - 1].start}
<1>1. IsFiniteSet(1 .. i) /\ IsFiniteSet(1 .. j) /\ Cardinality(1 .. i) = i
  BY FS_Interval
<1>2. /\ F(i) \subseteq 1 .. i /\ F(j) \subseteq 1 .. j
      /\ F(i) \subseteq F(j) /\ F(i) # {}
  <2>1. 1 .. i \subseteq 1 .. j /\ 1 \in 1 .. i
    OBVIOUS
  <2> QED
    BY <2>1, Zenon
<1> HIDE DEF F
<1>3. IsFiniteSet(F(i)) /\ IsFiniteSet(F(j)) /\ Cardinality(F(i)) <= i
  BY <1>1, <1>2, FS_Subset
<1>4. Cardinality(F(i)) <= Cardinality(F(j)) /\ Cardinality(F(j)) \in Nat
  BY <1>2, <1>3, FS_Subset, FS_CardinalityType
<1>5. Cardinality(F(i)) \in Nat \ {0}
  BY <1>2, <1>3, FS_EmptySet, FS_CardinalityType
<1> QED
  BY <1>3, <1>4, <1>5 DEF Cohort, F

\* So are slices, and there are no more of them than units.
LEMMA SlicesInOrder ==
    ASSUME config \in Config, NEW i \in Nat \ {0}, NEW j \in Nat, i <= j
    PROVE  SliceOf(i) \in 1 .. i /\ SliceOf(i) <= SliceOf(j) /\ SliceOf(j) \in Nat
<1> DEFINE c == config.slice_cohorts
<1>1. c \in Nat \ {0}
  BY DEF Config
<1>2. /\ Cohort(i) \in 1 .. i /\ Cohort(i) <= Cohort(j) /\ Cohort(j) \in Nat
  BY CohortsInOrder
<1>3. CASE config.executor = "fast"
  BY <1>3 DEF SliceOf
<1>4. CASE config.executor # "fast"
  <2>1. SliceOf(i) = (Cohort(i) - 1) \div c + 1 /\ SliceOf(j) = (Cohort(j) - 1) \div c + 1
    BY <1>4 DEF SliceOf
  <2>2. Cohort(i) - 1 \in Nat /\ Cohort(j) - 1 \in Nat /\ Cohort(i) - 1 <= Cohort(j) - 1
    BY <1>2
  <2> HIDE DEF c
  <2>3. /\ (Cohort(i) - 1) \div c \in Nat /\ (Cohort(j) - 1) \div c \in Nat
        /\ (Cohort(i) - 1) \div c <= (Cohort(j) - 1) \div c
        /\ (Cohort(i) - 1) \div c <= Cohort(i) - 1
    BY <1>1, <2>2, Quotients
  <2> QED
    BY <1>2, <2>1, <2>3
<1> QED
  BY <1>3, <1>4

-----------------------------------------------------------------------------
(***************************************************************************)
(* Types.                                                                  *)
(***************************************************************************)

\* A simulation of a unit with all its months returns a result of that unit.
LEMMA SimulateType ==
    ASSUME NEW unit \in Unit, Len(unit.dataset) >= unit.horizon
    PROVE  /\ Simulate(unit) \in Results(unit)
           /\ Delivered(unit, Simulate(unit)) \in Results(unit)
<1> DEFINE fatal == FatalMonths(unit)
           months == IF fatal = {} THEN unit.horizon ELSE FirstOf(fatal)
           final == IF fatal = {} THEN months ELSE months + 1
<1>1. \A m \in 0 .. unit.horizon : State(unit, m) \in States
  <2> TAKE m \in 0 .. unit.horizon
  <2>1. unit.dataset \in Seq(Snapshots) /\ m \in Nat /\ m <= Len(unit.dataset)
    BY DEF Unit
  <2>2. SubSeq(unit.dataset, 1, m) \in Seq(Snapshots)
    BY <2>1, SubSeqProperties
  <2> QED
    BY <2>2 DEF State, States, Unit
<1>2. /\ months \in 0 .. unit.horizon /\ final \in 0 .. unit.horizon
      /\ fatal # {} => months \in 0 .. unit.horizon - 1
  BY FatalMonthsType, FirstOfIsLeast
<1>3. Simulate(unit) = [timeline |-> [m \in 1 .. months |-> State(unit, m)],
                        success |-> fatal = {},
                        failure_month |-> IF fatal = {} THEN None ELSE months,
                        months_simulated |-> months,
                        final_wealth |-> State(unit, final)]
  BY DEF Simulate
<1> HIDE DEF fatal, months, final
<1>4. [m \in 1 .. months |-> State(unit, m)] \in Seq(States)
  BY <1>1, <1>2, FatalMonthsType
<1>5. State(unit, final) \in States
  BY <1>1, <1>2
<1>6. (IF fatal = {} THEN None ELSE months) \in (0 .. unit.horizon - 1) \cup {None}
  BY <1>2
<1>7. Simulate(unit) \in Results(unit)
  BY <1>2, <1>3, <1>4, <1>5, <1>6 DEF Results
<1>8. << >> \in Seq(States)
  OBVIOUS
<1>9. [Simulate(unit) EXCEPT !.timeline = << >>] \in Results(unit)
  BY <1>7, <1>8 DEF Results
<1> QED
  BY <1>7, <1>9 DEF Delivered

-----------------------------------------------------------------------------
(***************************************************************************)
(* The inductive invariant.                                                *)
(***************************************************************************)

\* The result a unit has to get.
Direct(unit) == Delivered(unit, Simulate(unit))

\* Whatever has been evaluated so far is right.
ResultsAreDirect ==
    /\ \A i \in DOMAIN results : ~Raises(plan[i]) /\ results[i] = Direct(plan[i])
    /\ raised # {} => \E i \in DOMAIN plan : Raises(plan[i])

\* The slices so far, and no others, have been merged without a gap.
SlicesAreMerged ==
    /\ Len(all_results) \in Nat /\ DOMAIN all_results = 1 .. Len(all_results)
    /\ \A i \in DOMAIN all_results :
           i \in DOMAIN results /\ all_results[i] = Direct(plan[i])
    /\ outcome = "running" =>
           1 .. Len(all_results) = {i \in DOMAIN plan : SliceOf(i) < slice}
    /\ outcome = "returned" => Len(all_results) = Len(plan)

IInv ==
    /\ TypeOK
    /\ plan \in Plans /\ config \in Configs
    /\ ResultsAreDirect
    /\ outcome = "raised" => raised # {}
    /\ SlicesAreMerged

\* What the assumptions on the constants say of the arguments of a call.
LEMMA PlanFacts ==
    ASSUME plan \in Plans, config \in Configs
    PROVE  /\ plan \in Seq(Unit) /\ config \in Config
           /\ Len(plan) \in Nat \ {0} /\ DOMAIN plan = 1 .. Len(plan)
           /\ \A i \in DOMAIN plan : /\ plan[i] \in Unit
                                     /\ Len(plan[i].dataset) >= plan[i].horizon
                                     /\ Direct(plan[i]) \in Results(plan[i])
           /\ \A i, j \in DOMAIN plan : plan[i].policy = plan[j].policy
<1>1. /\ plan \in Seq(Unit) /\ plan # << >> /\ config \in Config
      /\ \A i \in DOMAIN plan : Len(plan[i].dataset) >= plan[i].horizon
      /\ \A i, j \in DOMAIN plan : plan[i].policy = plan[j].policy
  BY PlansAssumption, ConfigsAssumption
<1>2. /\ Len(plan) \in Nat \ {0} /\ DOMAIN plan = 1 .. Len(plan)
      /\ \A i \in DOMAIN plan : plan[i] \in Unit
  BY <1>1
<1>3. \A i \in DOMAIN plan : Direct(plan[i]) \in Results(plan[i])
  BY <1>1, <1>2, SimulateType DEF Direct
<1> QED
  BY <1>1, <1>2, <1>3

\* What a unit comes to depends on the arguments alone.
LEMMA ArgumentsKept ==
    ASSUME UNCHANGED <<plan, config>>, NEW unit
    PROVE  Raises(unit)' = Raises(unit) /\ Direct(unit)' = Direct(unit)
BY DEF Raises, Direct, Delivered, Simulate, FatalMonths, State, ClosedForm

\* So does the slice of a unit.
LEMMA SliceKept ==
    ASSUME UNCHANGED <<plan, config>>, NEW i
    PROVE  SliceOf(i)' = SliceOf(i)
BY DEF SliceOf, Cohort

\* A batch consists of units of the slice.
LEMMA BatchesOfTheSlice ==
    /\ \A b \in Batches : b \in SUBSET Slice /\ b \in SUBSET DOMAIN plan
    /\ \A i \in Slice : \E b \in Batches : i \in b
<1>1. Slice \subseteq DOMAIN plan
  BY DEF Slice
<1>2. \A b \in Batches : b \in SUBSET Slice
  BY DEF Batches
<1>3. \A i \in Slice : \E b \in Batches : i \in b
  <2> TAKE i \in Slice
  <2> DEFINE b == {j \in Slice : BatchOf(j) = BatchOf(i)}
  <2>1. b \in Batches /\ i \in b
    BY DEF Batches
  <2> QED
    BY <2>1
<1> QED
  BY <1>1, <1>2, <1>3

\* A step that adds results of their own to some units and no other.
LEMMA ResultsAdded ==
    ASSUME IInv, UNCHANGED <<plan, config, slice, all_results, outcome, raised>>,
           NEW added \in SUBSET DOMAIN plan,
           \A i \in added : ~Raises(plan[i]),
           results' = [i \in DOMAIN results \cup added |->
                          IF i \in added THEN Direct(plan[i]) ELSE results[i]],
           NEW evaluated \in SUBSET added, simulated' = simulated \cup evaluated
    PROVE  IInv'
<1>1. plan \in Plans /\ config \in Configs /\ TypeOK /\ ResultsAreDirect /\ SlicesAreMerged
  BY DEF IInv
<1>2. /\ \A i \in DOMAIN plan : Direct(plan[i]) \in Results(plan[i])
  BY <1>1, PlanFacts
<1>3. DOMAIN results' = DOMAIN results \cup added
  OBVIOUS
<1>4. \A i \in DOMAIN results' :
          i \in DOMAIN plan /\ ~Raises(plan[i]) /\ results'[i] = Direct(plan[i])
  BY <1>1, <1>3 DEF TypeOK, ResultsAreDirect
<1>5. \A i \in DOMAIN results' : results'[i] \in Results(plan[i])
  BY <1>2, <1>4
<1>6. simulated' \subseteq DOMAIN results'
  BY <1>1, <1>3 DEF TypeOK
<1>7. TypeOK'
  <2>1. /\ plan' \in Seq(Unit) /\ config' \in Config /\ slice' \in 1 .. Len(plan')
        /\ raised' \subseteq SUBSET DOMAIN plan'
        /\ Len(all_results') <= Len(plan')
        /\ \A i \in DOMAIN all_results' : all_results'[i] \in Results(plan'[i])
        /\ outcome' \in {"running", "returned", "raised"}
    BY <1>1 DEF TypeOK
  <2> QED
    BY <1>4, <1>5, <1>6, <2>1 DEF TypeOK, Results, States
<1>8. ResultsAreDirect'
  <2>1. \A i \in DOMAIN results' : ~Raises(plan[i])' /\ results'[i] = Direct(plan[i])'
    BY <1>4, ArgumentsKept
  <2>2. raised' # {} => \E i \in DOMAIN plan' : Raises(plan[i])'
    BY <1>1, ArgumentsKept DEF ResultsAreDirect
  <2> QED
    BY <2>1, <2>2 DEF ResultsAreDirect
<1>9. SlicesAreMerged'
  <2>1. \A i \in DOMAIN all_results' :
            i \in DOMAIN results' /\ all_results'[i] = Direct(plan[i])'
    BY <1>1, <1>3, ArgumentsKept DEF SlicesAreMerged
  <2>2. outcome' = "running" =>
            1 .. Len(all_results') = {i \in DOMAIN plan' : SliceOf(i)' < slice'}
    BY <1>1, SliceKept DEF SlicesAreMerged
  <2> QED
    BY <1>1, <2>1, <2>2 DEF SlicesAreMerged
<1> QED
  BY <1>1, <1>7, <1>8, <1>9 DEF IInv

\* A step that only ends a batch with the exception of one of its units.
LEMMA BatchRaised ==
    ASSUME IInv, UNCHANGED <<plan, config, slice, all_results, outcome, results, simulated>>,
           NEW batch \in SUBSET DOMAIN plan, \E i \in batch : Raises(plan[i]),
           raised' = raised \cup {batch}
    PROVE  IInv'
<1>1. plan \in Plans /\ config \in Configs /\ TypeOK /\ ResultsAreDirect /\ SlicesAreMerged
  BY DEF IInv
<1>2. TypeOK'
  BY <1>1 DEF TypeOK, Results, States
<1>3. ResultsAreDirect'
  <2>1. \A i \in DOMAIN results' : ~Raises(plan[i])' /\ results'[i] = Direct(plan[i])'
    BY <1>1, ArgumentsKept DEF ResultsAreDirect
  <2>2. \E i \in DOMAIN plan' : Raises(plan[i])'
    BY ArgumentsKept
  <2> QED
    BY <2>1, <2>2 DEF ResultsAreDirect
<1>4. SlicesAreMerged'
  <2>1. \A i \in DOMAIN all_results' :
            i \in DOMAIN results' /\ all_results'[i] = Direct(plan[i])'
    BY <1>1, ArgumentsKept DEF SlicesAreMerged
  <2>2. outcome' = "running" =>
            1 .. Len(all_results') = {i \in DOMAIN plan' : SliceOf(i)' < slice'}
    BY <1>1, SliceKept DEF SlicesAreMerged
  <2> QED
    BY <1>1, <2>1, <2>2 DEF SlicesAreMerged
<1>5. raised' # {}
  OBVIOUS
<1> QED
  BY <1>1, <1>2, <1>3, <1>4, <1>5 DEF IInv

-----------------------------------------------------------------------------
(***************************************************************************)
(* The steps.                                                              *)
(***************************************************************************)

\* The members of a family that are not simulated have the longest one's path.
LEMMA FamilyIsDirect ==
    ASSUME plan \in Plans, config \in Configs,
           NEW family \in SUBSET DOMAIN plan, family # {},
           \A i, j \in family : GroupKey(plan[i]) = GroupKey(plan[j]),
           \A i \in SimulatedOf(family) : ~Raises(plan[i])
    PROVE  /\ SimulatedOf(family) \in SUBSET family
           /\ \A i \in family : ~Raises(plan[i])
           /\ \A i \in family \ SimulatedOf(family) :
                  Derived(plan[Longest(family)], plan[i]) = Simulate(plan[i])
<1> DEFINE longest == plan[Longest(family)]
<1>1. /\ Longest(family) \in family
      /\ \A j \in family : plan[j].horizon <= longest.horizon
  BY PlanFacts, LongestExists
<1>2. SimulatedOf(family) \in SUBSET family /\ Longest(family) \in SimulatedOf(family)
  BY <1>1 DEF SimulatedOf
<1>3. ~Raises(longest) /\ longest \in Unit
  BY <1>1, <1>2, PlanFacts
<1>4. \A i \in family \ SimulatedOf(family) : plan[i] \in Unit /\ Chains(plan[i], longest)
  <2> TAKE i \in family \ SimulatedOf(family)
  <2>1. IsIdentityPrefix(plan[i], longest)
    BY DEF SimulatedOf
  <2>2. /\ plan[i] \in Unit /\ plan[i].horizon <= Len(plan[i].dataset)
        /\ plan[i].policy = longest.policy
    <3>1. plan[i] \in Unit /\ Len(plan[i].dataset) >= plan[i].horizon
      BY PlanFacts
    <3>2. plan[i].policy = longest.policy
      BY <1>1, PlanFacts
    <3> QED
      BY <3>1, <3>2 DEF Unit
  <2>3. GroupKey(plan[i]) = GroupKey(longest) /\ plan[i].horizon <= longest.horizon
    BY <1>1
  <2> QED
    BY <2>1, <2>2, <2>3 DEF Chains
<1> HIDE DEF longest
<1>5. \A i \in family \ SimulatedOf(family) :
          ~Raises(plan[i]) /\ Derived(longest, plan[i]) = Simulate(plan[i])
  BY <1>3, <1>4, NoneRaises, DerivedIsDirect
<1> QED
  BY <1>2, <1>5 DEF longest

\* A family of a batch: all of its members get their own results, or the batch
\* ends with the exception of one of them.
LEMMA EvaluateFamilyKeeps ==
    ASSUME IInv, NEW batch \in Batches, EvaluateFamily(batch)
    PROVE  IInv'
<1> DEFINE first == FirstOf(Pending(batch))
           family == FamilyOf(first, batch)
           evaluated == SimulatedOf(family)
           longest == plan[Longest(family)]
<1>1. plan \in Plans /\ config \in Configs /\ TypeOK
  BY DEF IInv
<1>2. batch \in SUBSET DOMAIN plan /\ Pending(batch) # {}
  BY BatchesOfTheSlice DEF EvaluateFamily
<1>3. first \in Pending(batch)
  <2>1. Pending(batch) \in SUBSET Nat
    BY <1>1, <1>2, PlanFacts DEF Pending
  <2> QED
    BY <1>2, <2>1, FirstOfIsLeast
<1>4. /\ family \in SUBSET DOMAIN plan /\ family \in SUBSET batch /\ family # {}
      /\ \A i, j \in family : GroupKey(plan[i]) = GroupKey(plan[j])
  <2>1. first \in family
    BY <1>3 DEF FamilyOf, Pending
  <2> QED
    BY <1>2, <2>1 DEF FamilyOf
<1>5. evaluated \in SUBSET family
  <2>1. Longest(family) \in family
    BY <1>1, <1>4, PlanFacts, LongestExists
  <2> QED
    BY <2>1 DEF SimulatedOf
<1>6. CASE \E i \in evaluated : Raises(plan[i])
  <2>1. raised' = raised \cup {batch} /\ UNCHANGED <<results, simulated>>
    BY <1>6, Zenon DEF EvaluateFamily
  <2>2. UNCHANGED <<plan, config, slice, all_results, outcome>>
    BY DEF EvaluateFamily
  <2>3. \E i \in batch : Raises(plan[i])
    BY <1>4, <1>5, <1>6
  <2> QED
    BY <1>2, <2>1, <2>2, <2>3, BatchRaised
<1>7. CASE ~ \E i \in evaluated : Raises(plan[i])
  <2>1. /\ results' = [i \in DOMAIN results \cup family |->
                          IF i \notin family THEN results[i]
                          ELSE Delivered(plan[i], IF i \in evaluated THEN Simulate(plan[i])
                                                  ELSE Derived(longest, plan[i]))]
        /\ simulated' = simulated \cup evaluated /\ UNCHANGED raised
    BY <1>7, Zenon DEF EvaluateFamily
  <2>2. UNCHANGED <<plan, config, slice, all_results, outcome>>
    BY DEF EvaluateFamily
  <2> HIDE DEF first, family, longest
  <2>3. /\ \A i \in family : ~Raises(plan[i])
        /\ \A i \in family \ evaluated : Derived(longest, plan[i]) = Simulate(plan[i])
    BY <1>1, <1>4, <1>7, FamilyIsDirect DEF longest
  <2> HIDE DEF evaluated
  <2>4. \A i \in family :
            Delivered(plan[i], IF i \in evaluated THEN Simulate(plan[i])
                               ELSE Derived(longest, plan[i])) = Direct(plan[i])
    BY <2>3, Zenon DEF Direct
  <2>5. results' = [i \in DOMAIN results \cup family |->
                       IF i \in family THEN Direct(plan[i]) ELSE results[i]]
    BY <2>1, <2>4
  <2> QED
    BY <1>4, <1>5, <2>1, <2>2, <2>3, <2>5, ResultsAdded
<1> QED
  BY <1>6, <1>7

\* A unit the fast path has the reference engine simulate.
LEMMA EvaluateIneligibleKeeps ==
    ASSUME IInv, NEW batch \in Batches, EvaluateIneligible(batch)
    PROVE  IInv'
<1> DEFINE rest == batch \ DOMAIN results
           i == FirstOf(rest)
<1>1. plan \in Plans /\ config \in Configs
  BY DEF IInv
<1>2. batch \in SUBSET DOMAIN plan /\ rest # {}
  BY BatchesOfTheSlice DEF EvaluateIneligible
<1>3. i \in batch /\ i \in DOMAIN plan
  <2>1. rest \in SUBSET Nat
    BY <1>1, <1>2, PlanFacts
  <2> QED
    BY <1>2, <2>1, FirstOfIsLeast
<1>4. UNCHANGED <<plan, config, slice, all_results, outcome>>
  BY DEF EvaluateIneligible
<1>5. CASE Raises(plan[i])
  <2>1. raised' = raised \cup {batch} /\ UNCHANGED <<results, simulated>>
    BY <1>5, Zenon DEF EvaluateIneligible
  <2> HIDE DEF i
  <2> QED
    BY <1>2, <1>3, <1>4, <1>5, <2>1, BatchRaised
<1>6. CASE ~Raises(plan[i])
  <2>1. /\ results' = [j \in DOMAIN results \cup {i} |->
                          IF j = i THEN Delivered(plan[i], Simulate(plan[i])) ELSE results[j]]
        /\ simulated' = simulated \cup {i} /\ UNCHANGED raised
    BY <1>6, Zenon DEF EvaluateIneligible
  <2> HIDE DEF i
  <2>2. results' = [j \in DOMAIN results \cup {i} |->
                       IF j \in {i} THEN Direct(plan[j]) ELSE results[j]]
    BY <2>1 DEF Direct
  <2>3. \A j \in {i} : ~Raises(plan[j])
    BY <1>6
  <2>4. {i} \in SUBSET DOMAIN plan /\ {i} \in SUBSET {i}
    BY <1>3
  <2> QED
    BY <1>4, <2>1, <2>2, <2>3, <2>4, ResultsAdded
<1> QED
  BY <1>5, <1>6

\* A slice is the part of the plan that follows the slices merged so far.
LEMMA SliceFollowsMerged ==
    ASSUME IInv, outcome = "running", NEW n, n = Len(all_results) + Cardinality(Slice)
    PROVE  /\ n \in Nat /\ n <= Len(plan) /\ Cardinality(Slice) \in Nat
           /\ 1 .. n = {i \in DOMAIN plan : SliceOf(i) < slice + 1}
           /\ 1 .. n = 1 .. Len(all_results) \cup Slice
           /\ \A i \in Slice : i > Len(all_results)
           /\ 1 .. Len(all_results) \subseteq DOMAIN results
<1> DEFINE N == Len(plan)
           L == Len(all_results)
           Before == {i \in DOMAIN plan : SliceOf(i) < slice}
           D == {i \in DOMAIN plan : SliceOf(i) < slice + 1}
<1>1. plan \in Plans /\ config \in Configs /\ TypeOK /\ SlicesAreMerged
  BY DEF IInv
<1>2. config \in Config /\ N \in Nat /\ DOMAIN plan = 1 .. N /\ slice \in Nat
  BY <1>1, PlanFacts DEF TypeOK
<1>3. L \in Nat /\ Before = 1 .. L /\ 1 .. L \subseteq DOMAIN results
  BY <1>1 DEF SlicesAreMerged
<1>4. \A i \in 1 .. N : SliceOf(i) \in Nat
  BY <1>2, SlicesInOrder
<1>5. D = Before \cup Slice /\ Before \cap Slice = {}
  <2>1. \A i \in DOMAIN plan : SliceOf(i) < slice + 1 <=> (SliceOf(i) < slice \/ SliceOf(i) = slice)
    BY <1>2, <1>4
  <2>2. \A i \in DOMAIN plan : ~(SliceOf(i) < slice /\ SliceOf(i) = slice)
    BY <1>2, <1>4
  <2> QED
    BY <2>1, <2>2, Zenon DEF Slice
<1>6. D = 1 .. Cardinality(D)
  <2>1. \A i \in D : \A j \in 1 .. N : j <= i => j \in D
    <3> TAKE i \in D
    <3> TAKE j \in 1 .. N
    <3> HAVE j <= i
    <3>1. j \in Nat \ {0} /\ i \in Nat /\ i \in 1 .. N
      BY <1>2
    <3>2. SliceOf(j) <= SliceOf(i) /\ SliceOf(j) \in Nat /\ SliceOf(i) \in Nat
      BY <1>2, <1>4, <3>1, SlicesInOrder
    <3>3. SliceOf(i) < slice + 1
      OBVIOUS
    <3>4. SliceOf(j) < slice + 1
      BY <1>2, <3>2, <3>3
    <3> QED
      BY <1>2, <3>4
  <2>2. D \in SUBSET (1 .. N)
    BY <1>2
  <2> HIDE DEF D
  <2> QED
    BY <1>2, <2>1, <2>2, InitialSegment
<1>7. /\ IsFiniteSet(Before) /\ IsFiniteSet(Slice) /\ Cardinality(Before) = L
      /\ Cardinality(D) = L + Cardinality(Slice) /\ Cardinality(D) \in Nat
      /\ Cardinality(D) <= N
  <2>1. IsFiniteSet(1 .. N) /\ Cardinality(1 .. N) = N
    BY <1>2, FirstPositions
  <2>2. Before \subseteq 1 .. N /\ Slice \subseteq 1 .. N /\ D \subseteq 1 .. N
    BY <1>2 DEF Slice
  <2> HIDE DEF Before, D
  <2>3. IsFiniteSet(Before) /\ IsFiniteSet(Slice) /\ IsFiniteSet(D) /\ Cardinality(D) <= N
    BY <2>1, <2>2, FS_Subset
  <2>4. Cardinality(Before) = L
    BY <1>3, FirstPositions
  <2>5. Cardinality(D) = Cardinality(Before) + Cardinality(Slice) - Cardinality(Before \cap Slice)
    BY <1>5, <2>3, FS_Union
  <2>6. Cardinality(Before \cap Slice) = 0
    BY <1>5, FS_EmptySet
  <2>7. Cardinality(Slice) \in Nat /\ Cardinality(D) \in Nat
    BY <2>3, FS_CardinalityType
  <2> QED
    BY <1>3, <2>3, <2>4, <2>5, <2>6, <2>7
<1>8. \A i \in Slice : i > L
  <2> TAKE i \in Slice
  <2>1. i \in 1 .. N /\ i \notin 1 .. L
    BY <1>2, <1>3, <1>5 DEF Slice
  <2> QED
    BY <1>3, <2>1
<1> HIDE DEF D
<1>9. n = Cardinality(D) /\ n \in Nat /\ n <= N /\ Cardinality(Slice) \in Nat
  <2>1. Cardinality(Slice) \in Nat
    BY <1>7, FS_CardinalityType
  <2> QED
    BY <1>7, <2>1
<1>10. 1 .. n = D /\ D = 1 .. L \cup Slice
  BY <1>3, <1>5, <1>6, <1>9
<1> QED
  BY <1>3, <1>8, <1>9, <1>10 DEF D

\* When it is done, all units so far have their results.
LEMMA MergedAfterSlice ==
    ASSUME IInv, SliceIsDone, raised = {}, NEW n, n = Len(all_results) + Cardinality(Slice)
    PROVE  /\ n \in Nat /\ n <= Len(plan)
           /\ 1 .. n = {i \in DOMAIN plan : SliceOf(i) < slice + 1}
           /\ 1 .. n \subseteq DOMAIN results
<1>1. outcome = "running"
  BY DEF SliceIsDone
<1>2. /\ n \in Nat /\ n <= Len(plan)
      /\ 1 .. n = {i \in DOMAIN plan : SliceOf(i) < slice + 1}
      /\ 1 .. n = 1 .. Len(all_results) \cup Slice
      /\ 1 .. Len(all_results) \subseteq DOMAIN results
  BY <1>1, SliceFollowsMerged
<1>3. Slice \subseteq DOMAIN results
  BY BatchesOfTheSlice, Zenon DEF SliceIsDone
<1> QED
  BY <1>2, <1>3

\* The results of a slice are appended, and the study returns or goes on.
LEMMA MergeSliceKeeps ==
    ASSUME IInv, MergeSlice
    PROVE  IInv'
<1> DEFINE n == Len(all_results) + Cardinality(Slice)
<1>1. /\ plan \in Plans /\ config \in Configs
      /\ TypeOK /\ ResultsAreDirect /\ SlicesAreMerged
  BY DEF IInv
<1>2. /\ SliceIsDone /\ raised = {} /\ outcome = "running"
      /\ all_results' = [i \in 1 .. n |-> results[i]]
      /\ UNCHANGED <<plan, config, results, simulated, raised>>
  BY DEF MergeSlice, SliceIsDone
<1>3. /\ n \in Nat /\ n <= Len(plan)
      /\ 1 .. n = {i \in DOMAIN plan : SliceOf(i) < slice + 1}
      /\ 1 .. n \subseteq DOMAIN results
  BY <1>2, MergedAfterSlice
<1> HIDE DEF n
<1>4. Len(all_results') = n /\ DOMAIN all_results' = 1 .. n
  BY <1>2, <1>3
<1>5. \A i \in 1 .. n : i \in DOMAIN results /\ all_results'[i] = Direct(plan[i])
  BY <1>1, <1>2, <1>3 DEF ResultsAreDirect
<1>6. \/ outcome' = "returned" /\ n = Len(plan) /\ slice' = slice
      \/ outcome' = "running" /\ n # Len(plan) /\ slice' = slice + 1
  <2>1. IF n = Len(plan) THEN outcome' = "returned" /\ slice' = slice
        ELSE slice' = slice + 1 /\ outcome' = outcome
    BY <1>4 DEF MergeSlice
  <2> QED
    BY <1>2, <2>1
<1>7. slice' \in 1 .. Len(plan)
  <2>1. /\ slice \in 1 .. Len(plan) /\ config \in Config
        /\ Len(plan) \in Nat \ {0} /\ DOMAIN plan = 1 .. Len(plan)
    BY <1>1, PlanFacts DEF TypeOK
  <2>2. CASE n # Len(plan)
    <3>1. Len(plan) \in DOMAIN plan /\ Len(plan) \notin 1 .. n
      <4> DEFINE N == Len(plan)
      <4>1. N \in Nat \ {0} /\ DOMAIN plan = 1 .. N /\ n \in Nat /\ n <= N /\ n # N
        BY <1>3, <2>1, <2>2, Zenon
      <4>2. DOMAIN plan = 1 .. N
        BY <4>1
      <4> HIDE DEF N
      <4>3. N \in 1 .. N /\ N \notin 1 .. n
        BY <4>1
      <4> QED
        BY <4>2, <4>3 DEF N
    <3>2. SliceOf(Len(plan)) \in 1 .. Len(plan)
      BY <2>1, SlicesInOrder
    <3>3. ~(SliceOf(Len(plan)) < slice + 1)
      BY <1>3, <3>1
    <3>4. slice + 1 \in 1 .. Len(plan)
      BY <2>1, <3>2, <3>3
    <3> QED
      BY <1>6, <2>1, <3>4
  <2> QED
    BY <1>6, <2>1, <2>2
<1>8. \A i \in 1 .. n : all_results'[i] \in Results(plan[i])
  BY <1>1, <1>3, <1>5, PlanFacts
<1>9. TypeOK'
  <2>1. /\ plan' \in Seq(Unit) /\ config' \in Config
        /\ DOMAIN results' \subseteq DOMAIN plan'
        /\ \A i \in DOMAIN results' : results'[i] \in Results(plan'[i])
        /\ simulated' \subseteq DOMAIN results'
        /\ raised' \subseteq SUBSET DOMAIN plan'
    BY <1>1, <1>2 DEF TypeOK
  <2>2. slice' \in 1 .. Len(plan') /\ Len(all_results') <= Len(plan')
    BY <1>2, <1>3, <1>4, <1>7
  <2>3. \A i \in DOMAIN all_results' : all_results'[i] \in Results(plan'[i])
    BY <1>2, <1>4, <1>8
  <2>4. outcome' \in {"running", "returned", "raised"}
    BY <1>6
  <2> QED
    BY <2>1, <2>2, <2>3, <2>4 DEF TypeOK, Results, States
<1>10. ResultsAreDirect'
  BY <1>1, <1>2, ArgumentsKept DEF ResultsAreDirect
<1>11. SlicesAreMerged'
  <2>1. Len(all_results') \in Nat /\ DOMAIN all_results' = 1 .. Len(all_results')
    BY <1>3, <1>4
  <2>2. \A i \in DOMAIN all_results' :
            i \in DOMAIN results' /\ all_results'[i] = Direct(plan[i])'
    BY <1>2, <1>4, <1>5, ArgumentsKept
  <2>3. outcome' = "running" =>
            1 .. Len(all_results') = {i \in DOMAIN plan' : SliceOf(i)' < slice'}
    BY <1>2, <1>3, <1>4, <1>6, SliceKept
  <2>4. outcome' = "returned" => Len(all_results') = Len(plan')
    BY <1>2, <1>4, <1>6
  <2> QED
    BY <1>2, <2>1, <2>2, <2>3, <2>4 DEF SlicesAreMerged
<1>12. outcome' # "raised"
  BY <1>6
<1> QED
  BY <1>1, <1>2, <1>9, <1>10, <1>11, <1>12 DEF IInv

\* The exception of a batch ends the study.
LEMMA RaiseSliceKeeps ==
    ASSUME IInv, RaiseSlice
    PROVE  IInv'
<1>1. /\ plan \in Plans /\ config \in Configs
      /\ TypeOK /\ ResultsAreDirect /\ SlicesAreMerged
  BY DEF IInv
<1>2. /\ raised # {} /\ outcome' = "raised"
      /\ UNCHANGED <<plan, config, slice, results, simulated, raised, all_results>>
  BY DEF RaiseSlice
<1>3. TypeOK'
  BY <1>1, <1>2 DEF TypeOK, Results, States
<1>4. ResultsAreDirect'
  BY <1>1, <1>2, ArgumentsKept DEF ResultsAreDirect
<1>5. SlicesAreMerged'
  BY <1>1, <1>2, ArgumentsKept DEF SlicesAreMerged
<1> QED
  BY <1>1, <1>2, <1>3, <1>4, <1>5 DEF IInv

\* A call starts with nothing evaluated and nothing merged.
LEMMA InitIInv == Init => IInv
<1> SUFFICES ASSUME Init PROVE IInv
  OBVIOUS
<1>1. /\ plan \in Plans /\ config \in Configs /\ slice = 1
      /\ simulated = {} /\ raised = {} /\ outcome = "running"
      /\ DOMAIN results = {} /\ all_results = << >>
  BY DEF Init
<1>2. /\ plan \in Seq(Unit) /\ config \in Config
      /\ Len(plan) \in Nat \ {0} /\ DOMAIN plan = 1 .. Len(plan)
  BY <1>1, PlanFacts
<1>3. TypeOK
  BY <1>1, <1>2 DEF TypeOK
<1>4. ResultsAreDirect
  BY <1>1 DEF ResultsAreDirect
<1>5. {i \in DOMAIN plan : SliceOf(i) < slice} = {}
  <2>1. \A i \in DOMAIN plan : SliceOf(i) \in 1 .. i
    BY <1>2, SlicesInOrder
  <2> QED
    BY <1>1, <2>1
<1>6. SlicesAreMerged
  BY <1>1, <1>5 DEF SlicesAreMerged
<1> QED
  BY <1>1, <1>3, <1>4, <1>6 DEF IInv

\* Every step keeps the invariant.
LEMMA NextIInv == IInv /\ [Next]_vars => IInv'
<1> SUFFICES ASSUME IInv, [Next]_vars PROVE IInv'
  OBVIOUS
<1>1. CASE \E b \in Batches : EvaluateFamily(b) \/ EvaluateIneligible(b)
  BY <1>1, EvaluateFamilyKeeps, EvaluateIneligibleKeeps
<1>2. CASE MergeSlice
  BY <1>2, MergeSliceKeeps
<1>3. CASE RaiseSlice
  BY <1>3, RaiseSliceKeeps
<1>4. CASE UNCHANGED vars
  <2>1. /\ plan \in Plans /\ config \in Configs
        /\ TypeOK /\ ResultsAreDirect /\ SlicesAreMerged
    BY DEF IInv
  <2>2. UNCHANGED <<plan, config, slice, results, simulated, raised, all_results, outcome>>
    BY <1>4 DEF vars
  <2>3. TypeOK'
    BY <2>1, <2>2 DEF TypeOK, Results, States
  <2>4. ResultsAreDirect'
    BY <2>1, <2>2, ArgumentsKept DEF ResultsAreDirect
  <2>5. SlicesAreMerged'
    BY <2>1, <2>2, ArgumentsKept, SliceKept DEF SlicesAreMerged
  <2> QED
    BY <2>1, <2>2, <2>3, <2>4, <2>5 DEF IInv
<1> QED
  BY <1>1, <1>2, <1>3, <1>4 DEF Next

\* All results of execute_reference_chained and of the chained fast path are
\* right at every moment, and the slices merged so far have no gap.
THEOREM IInvInvariant == Spec => []IInv
BY InitIInv, NextIInv, PTL DEF Spec

\* Every result the slices and their batches collect is one of a simulation of
\* the unit it belongs to: execute_reference_chained for every plan and
\* configuration.
THEOREM TypeCorrect == Spec => []TypeOK
<1>1. IInv => TypeOK
  BY DEF IInv
<1> QED
  BY <1>1, IInvInvariant, PTL

\* Chaining does not show: a study that returns gives every unit the result of
\* its own simulation, and one that raises has a unit that does, for every
\* arithmetic, plan, slicing and number of workers.
THEOREM ChainingInvisible == Spec => []ChainingIsInvisible
<1>1. IInv => ChainingIsInvisible
  <2> SUFFICES ASSUME IInv PROVE ChainingIsInvisible
    OBVIOUS
  <2>1. /\ plan \in Plans /\ config \in Configs /\ ResultsAreDirect /\ SlicesAreMerged
        /\ outcome = "raised" => raised # {}
    BY DEF IInv
  <2>2. DOMAIN plan = 1 .. Len(plan)
    BY <2>1, PlanFacts
  <2>3. outcome = "returned" =>
            /\ Len(all_results) = Len(plan)
            /\ \A i \in DOMAIN plan : ~Raises(plan[i]) /\ all_results[i] = Direct(plan[i])
    BY <2>1, <2>2 DEF ResultsAreDirect, SlicesAreMerged
  <2>4. outcome = "raised" => \E i \in DOMAIN plan : Raises(plan[i])
    BY <2>1 DEF ResultsAreDirect
  <2> QED
    BY <2>3, <2>4 DEF ChainingIsInvisible, Direct
<1> QED
  BY <1>1, IInvInvariant, PTL
-----------------------------------------------------------------------------
(***************************************************************************)
(* The work of a study with one worker.                                    *)
(***************************************************************************)

\* What the report of the whole plan expects to be simulated on account of i.
ExpectedOf(i) == IF Chained(plan[i]) THEN SimulatedOf(FamilyOf(i, DOMAIN plan)) ELSE {i}

\* A worker on its own evaluates whole families, and of each what is expected.
WorkIsExpected ==
    /\ simulated = DOMAIN results \cap ExpectedSimulated
    /\ \A i \in DOMAIN results :
           Chained(plan[i]) => FamilyOf(i, DOMAIN plan) \subseteq DOMAIN results

WorkInv ==
    /\ outcome = "returned" => raised = {}
    /\ config.max_workers = 1 /\ raised = {} => WorkIsExpected

\* Units of one cohort are in one slice.
LEMMA CohortInOneSlice ==
    ASSUME plan \in Plans, NEW i \in DOMAIN plan, NEW j \in DOMAIN plan,
           plan[i].start = plan[j].start
    PROVE  SliceOf(i) = SliceOf(j)
<1> DEFINE F(n) == {k \in 1 .. n : k = 1 \/ plan[k].start # plan[k - 1].start}
<1>1. DOMAIN plan = 1 .. Len(plan) /\ Len(plan) \in Nat
  BY PlansAssumption
<1>2. ASSUME NEW a \in DOMAIN plan, NEW b \in DOMAIN plan, a <= b,
             plan[a].start = plan[b].start
      PROVE  F(a) = F(b)
  <2>1. \A k \in a .. b : plan[k].start = plan[a].start
    BY <1>2, CohortsAssumption
  <2>2. \A k \in 1 .. b : k \in F(b) => k \in 1 .. a
    <3> TAKE k \in 1 .. b
    <3> HAVE k \in F(b)
    <3> SUFFICES ASSUME k \notin 1 .. a PROVE FALSE
      OBVIOUS
    <3>1. k \in a .. b /\ k - 1 \in a .. b /\ k # 1
      BY <1>1
    <3> QED
      BY <2>1, <3>1
  <2>3. 1 .. a \subseteq 1 .. b
    BY <1>1, <1>2
  <2> QED
    BY <2>2, <2>3
<1>3. F(i) = F(j)
  <2>1. i <= j \/ j <= i
    BY <1>1
  <2> HIDE DEF F
  <2> QED
    BY <1>2, <2>1
<1>4. Cohort(i) = Cohort(j)
  BY <1>3 DEF Cohort
<1> QED
  BY <1>4 DEF SliceOf

\* So is a family.
LEMMA FamilyInOneSlice ==
    ASSUME plan \in Plans, NEW i \in Slice
    PROVE  FamilyOf(i, Slice) = FamilyOf(i, DOMAIN plan)
<1>1. i \in DOMAIN plan /\ Slice \subseteq DOMAIN plan
  BY DEF Slice
<1>2. \A j \in DOMAIN plan : GroupKey(plan[j]) = GroupKey(plan[i]) => j \in Slice
  <2> TAKE j \in DOMAIN plan
  <2> HAVE GroupKey(plan[j]) = GroupKey(plan[i])
  <2>1. plan[j].start = plan[i].start
    BY DEF GroupKey
  <2>2. SliceOf(j) = SliceOf(i)
    BY <1>1, <2>1, CohortInOneSlice
  <2> QED
    BY <2>2 DEF Slice
<1> QED
  BY <1>1, <1>2 DEF FamilyOf

\* One worker gets the slice as one batch.
LEMMA OneBatch ==
    ASSUME IInv, outcome = "running", config.max_workers = 1, NEW batch \in Batches
    PROVE  batch = Slice
<1> DEFINE L == Len(all_results)
           n == L + Cardinality(Slice)
<1>1. /\ Cardinality(Slice) \in Nat /\ L \in Nat
      /\ 1 .. n = 1 .. L \cup Slice /\ \A i \in Slice : i > L
  BY SliceFollowsMerged DEF IInv, SlicesAreMerged
<1>2. BatchSize = (Cardinality(Slice) + 1 - 1) \div 1
  BY DEF BatchSize
<1>3. BatchSize = Cardinality(Slice)
  BY <1>1, <1>2
<1>4. ASSUME NEW i \in Slice PROVE BatchOf(i) = 1
  <2>1. i \in L + 1 .. n
    BY <1>1
  <2>2. i - L - 1 \in 0 .. Cardinality(Slice) - 1
    BY <1>1, <2>1
  <2>3. \A c \in Nat : \A a \in 0 .. c - 1 : a \div c = 0
    BY SMT
  <2> HIDE DEF L, n
  <2>4. (i - L - 1) \div Cardinality(Slice) = 0
    BY <1>1, <2>2, <2>3
  <2> QED
    BY <1>3, <2>4 DEF BatchOf, L
<1>5. PICK k \in {BatchOf(i) : i \in Slice} : batch = {i \in Slice : BatchOf(i) = k}
  BY DEF Batches
<1> QED
  BY <1>4, <1>5

\* Of a family, the report expects what is simulated of it.
LEMMA ExpectedOfFamily ==
    ASSUME plan \in Plans, config \in Configs, NEW i \in DOMAIN plan, Chained(plan[i])
    PROVE  /\ SimulatedOf(FamilyOf(i, DOMAIN plan)) \subseteq FamilyOf(i, DOMAIN plan)
           /\ FamilyOf(i, DOMAIN plan) \cap ExpectedSimulated =
                  SimulatedOf(FamilyOf(i, DOMAIN plan))
<1> DEFINE Family(j) == FamilyOf(j, DOMAIN plan)
<1>1. \A j \in DOMAIN plan : Chained(plan[j]) => SimulatedOf(Family(j)) \subseteq Family(j)
  <2> TAKE j \in DOMAIN plan
  <2> HAVE Chained(plan[j])
  <2>1. Family(j) \in SUBSET DOMAIN plan /\ j \in Family(j)
    BY DEF FamilyOf
  <2>2. Longest(Family(j)) \in Family(j)
    BY <2>1, PlanFacts, LongestExists
  <2> QED
    BY <2>2 DEF SimulatedOf
<1>2. \A j \in DOMAIN plan : \A k \in Family(i) :
          k \in ExpectedOf(j) => k \in SimulatedOf(Family(i))
  <2> TAKE j \in DOMAIN plan
  <2> TAKE k \in Family(i)
  <2> HAVE k \in ExpectedOf(j)
  <2>1. Chained(plan[k]) /\ GroupKey(plan[k]) = GroupKey(plan[i])
    BY DEF FamilyOf
  <2>2. CASE Chained(plan[j])
    <3>1. k \in SimulatedOf(Family(j))
      BY <2>2 DEF ExpectedOf
    <3>2. k \in Family(j)
      BY <1>1, <2>2, <3>1
    <3>3. GroupKey(plan[k]) = GroupKey(plan[j])
      BY <3>2 DEF FamilyOf
    <3>4. Family(j) = Family(i)
      BY <2>1, <3>3 DEF FamilyOf
    <3> QED
      BY <3>1, <3>4
  <2>3. CASE ~Chained(plan[j])
    <3>1. k = j
      BY <2>3 DEF ExpectedOf
    <3> QED
      BY <2>1, <2>3, <3>1
  <2> QED
    BY <2>2, <2>3
<1>3. ExpectedSimulated = UNION {ExpectedOf(j) : j \in DOMAIN plan}
  BY Zenon DEF ExpectedSimulated, ExpectedOf
<1>4. SimulatedOf(Family(i)) \subseteq ExpectedSimulated
  <2>1. ExpectedOf(i) = SimulatedOf(Family(i))
    BY DEF ExpectedOf
  <2> QED
    BY <1>3, <2>1
<1>5. Family(i) \cap ExpectedSimulated \subseteq SimulatedOf(Family(i))
  BY <1>2, <1>3
<1> QED
  BY <1>1, <1>4, <1>5

\* The expectation depends on the plan and the executor alone.
LEMMA ExpectedKept ==
    ASSUME UNCHANGED <<plan, config>>
    PROVE  /\ ExpectedSimulated' = ExpectedSimulated
           /\ \A i : Chained(plan[i])' = Chained(plan[i])
           /\ \A i : FamilyOf(i, DOMAIN plan)' = FamilyOf(i, DOMAIN plan)
BY DEF ExpectedSimulated, SimulatedOf, Longest, FamilyOf, Chained, ClosedForm

\* A step that adds what is expected of whole families.
LEMMA ExpectedAdded ==
    ASSUME WorkIsExpected, UNCHANGED <<plan, config>>, NEW added \in SUBSET DOMAIN plan,
           DOMAIN results' = DOMAIN results \cup added,
           simulated' = simulated \cup (added \cap ExpectedSimulated),
           \A i \in added : Chained(plan[i]) => FamilyOf(i, DOMAIN plan) \subseteq added
    PROVE  WorkIsExpected'
<1>1. /\ ExpectedSimulated' = ExpectedSimulated
      /\ \A i : Chained(plan[i])' = Chained(plan[i])
      /\ \A i : FamilyOf(i, DOMAIN plan)' = FamilyOf(i, DOMAIN plan)
  BY ExpectedKept
<1>2. simulated' = DOMAIN results' \cap ExpectedSimulated'
  BY <1>1 DEF WorkIsExpected
<1>3. \A i \in DOMAIN results' :
          Chained(plan[i])' => FamilyOf(i, DOMAIN plan)' \subseteq DOMAIN results'
  BY <1>1 DEF WorkIsExpected
<1> QED
  BY <1>2, <1>3 DEF WorkIsExpected

\* A batch that still has something to evaluate is one of a study under way.
LEMMA StillRunning ==
    ASSUME IInv, WorkInv, NEW batch \in Batches, batch \ DOMAIN results # {}, raised = {}
    PROVE  outcome = "running"
<1>1. outcome # "raised" /\ outcome \in {"running", "returned", "raised"}
  BY DEF IInv, TypeOK
<1>2. ASSUME outcome = "returned" PROVE FALSE
  <2>1. /\ Len(all_results) = Len(plan) /\ DOMAIN all_results = 1 .. Len(all_results)
        /\ \A i \in DOMAIN all_results : i \in DOMAIN results
    BY <1>2 DEF IInv, SlicesAreMerged
  <2>2. DOMAIN plan = 1 .. Len(plan)
    BY PlanFacts DEF IInv
  <2>3. batch \subseteq DOMAIN plan
    BY BatchesOfTheSlice
  <2> QED
    BY <2>1, <2>2, <2>3
<1> QED
  BY <1>1, <1>2

\* The family a worker evaluates is one of the plan.
LEMMA EvaluateFamilyWork ==
    ASSUME IInv, WorkInv, NEW batch \in Batches, EvaluateFamily(batch)
    PROVE  WorkInv'
<1> DEFINE first == FirstOf(Pending(batch))
           family == FamilyOf(first, batch)
           whole == FamilyOf(first, DOMAIN plan)
<1>1. plan \in Plans /\ config \in Configs
  BY DEF IInv
<1>2. batch \in SUBSET DOMAIN plan /\ Pending(batch) # {}
  BY BatchesOfTheSlice DEF EvaluateFamily
<1>3. batch \ DOMAIN results # {}
  BY <1>2 DEF Pending
<1>4. UNCHANGED <<plan, config, outcome>>
  BY DEF EvaluateFamily
<1>5. first \in Pending(batch)
  <2>1. Pending(batch) \in SUBSET Nat
    BY <1>1, <1>2, PlanFacts DEF Pending
  <2> QED
    BY <1>2, <2>1, FirstOfIsLeast
<1>6. CASE \E i \in SimulatedOf(family) : Raises(plan[i])
  <2>1. raised' = raised \cup {batch}
    BY <1>6, Zenon DEF EvaluateFamily
  <2>2. raised = {} => outcome = "running"
    BY <1>3, StillRunning
  <2>3. outcome = "returned" => raised = {}
    BY DEF WorkInv
  <2> QED
    BY <1>4, <2>1, <2>2, <2>3 DEF WorkInv
<1>7. CASE ~ \E i \in SimulatedOf(family) : Raises(plan[i])
  <2>1. /\ DOMAIN results' = DOMAIN results \cup family
        /\ simulated' = simulated \cup SimulatedOf(family) /\ UNCHANGED raised
    <3>1. /\ results' = [i \in DOMAIN results \cup family |->
                            IF i \notin family THEN results[i]
                            ELSE Delivered(plan[i],
                                           IF i \in SimulatedOf(family) THEN Simulate(plan[i])
                                           ELSE Derived(plan[Longest(family)], plan[i]))]
          /\ simulated' = simulated \cup SimulatedOf(family) /\ UNCHANGED raised
      BY <1>7, Zenon DEF EvaluateFamily
    <3> HIDE DEF family
    <3> QED
      BY <3>1, Zenon
  <2>2. ASSUME config.max_workers = 1, raised = {} PROVE WorkIsExpected'
    <3>1. outcome = "running"
      BY <1>3, <2>2, StillRunning
    <3>2. batch = Slice
      BY <2>2, <3>1, OneBatch
    <3>3. first \in Slice /\ first \in DOMAIN plan /\ Chained(plan[first])
      BY <1>2, <1>5, <3>2 DEF Pending
    <3> HIDE DEF first
    <3>4. family = whole
      BY <1>1, <3>2, <3>3, FamilyInOneSlice
    <3>5. SimulatedOf(family) = family \cap ExpectedSimulated
      BY <1>1, <3>3, <3>4, ExpectedOfFamily
    <3>6. \A i \in family : Chained(plan[i]) => FamilyOf(i, DOMAIN plan) \subseteq family
      BY <3>4 DEF FamilyOf
    <3>7. family \in SUBSET DOMAIN plan
      BY <3>4 DEF FamilyOf
    <3>8. WorkIsExpected
      BY <2>2 DEF WorkInv
    <3> HIDE DEF family
    <3> QED
      BY <1>4, <2>1, <3>5, <3>6, <3>7, <3>8, ExpectedAdded
  <2> QED
    BY <1>4, <2>1, <2>2 DEF WorkInv
<1> QED
  BY <1>6, <1>7

\* A unit that does not chain is expected to be simulated.
LEMMA EvaluateIneligibleWork ==
    ASSUME IInv, WorkInv, NEW batch \in Batches, EvaluateIneligible(batch)
    PROVE  WorkInv'
<1> DEFINE rest == batch \ DOMAIN results
           i == FirstOf(rest)
<1>1. plan \in Plans /\ config \in Configs
  BY DEF IInv
<1>2. batch \in SUBSET DOMAIN plan /\ rest # {} /\ Pending(batch) = {}
  BY BatchesOfTheSlice DEF EvaluateIneligible
<1>3. i \in rest
  <2>1. rest \in SUBSET Nat
    BY <1>1, <1>2, PlanFacts
  <2> QED
    BY <1>2, <2>1, FirstOfIsLeast
<1>4. UNCHANGED <<plan, config, outcome>>
  BY DEF EvaluateIneligible
<1>5. i \in DOMAIN plan /\ ~Chained(plan[i])
  BY <1>2, <1>3 DEF Pending
<1>6. CASE Raises(plan[i])
  <2>1. raised' = raised \cup {batch}
    BY <1>6, Zenon DEF EvaluateIneligible
  <2>2. raised = {} => outcome = "running"
    BY <1>2, StillRunning
  <2>3. outcome = "returned" => raised = {}
    BY DEF WorkInv
  <2> QED
    BY <1>4, <2>1, <2>2, <2>3 DEF WorkInv
<1>7. CASE ~Raises(plan[i])
  <2>1. /\ DOMAIN results' = DOMAIN results \cup {i}
        /\ simulated' = simulated \cup {i} /\ UNCHANGED raised
    <3>1. /\ results' = [j \in DOMAIN results \cup {i} |->
                            IF j = i THEN Delivered(plan[i], Simulate(plan[i])) ELSE results[j]]
          /\ simulated' = simulated \cup {i} /\ UNCHANGED raised
      BY <1>7, Zenon DEF EvaluateIneligible
    <3> HIDE DEF i
    <3> QED
      BY <3>1, Zenon
  <2> HIDE DEF i
  <2>2. i \in ExpectedSimulated
    BY <1>5, Zenon DEF ExpectedSimulated
  <2>3. ASSUME WorkIsExpected PROVE WorkIsExpected'
    <3>1. {i} \in SUBSET DOMAIN plan /\ {i} \cap ExpectedSimulated = {i}
      BY <1>5, <2>2
    <3>2. \A j \in {i} : Chained(plan[j]) => FamilyOf(j, DOMAIN plan) \subseteq {i}
      BY <1>5
    <3>3. UNCHANGED <<plan, config>>
      BY <1>4
    <3> QED
      BY <2>1, <2>3, <3>1, <3>2, <3>3, ExpectedAdded
  <2> QED
    BY <1>4, <2>1, <2>3 DEF WorkInv
<1> QED
  BY <1>6, <1>7

\* A step that simulates nothing changes nothing of it.
LEMMA NothingSimulated ==
    ASSUME WorkInv, UNCHANGED <<plan, config, results, simulated, raised>>,
           outcome' = "returned" => raised' = {}
    PROVE  WorkInv'
BY ExpectedKept DEF WorkInv, WorkIsExpected

LEMMA InitWork == Init => WorkInv
<1> SUFFICES ASSUME Init PROVE WorkInv
  OBVIOUS
<1>1. outcome = "running" /\ DOMAIN results = {} /\ simulated = {}
  BY DEF Init
<1> QED
  BY <1>1 DEF WorkInv, WorkIsExpected

LEMMA NextWork == IInv /\ WorkInv /\ [Next]_vars => WorkInv'
<1> SUFFICES ASSUME IInv, WorkInv, [Next]_vars PROVE WorkInv'
  OBVIOUS
<1>1. CASE \E b \in Batches : EvaluateFamily(b) \/ EvaluateIneligible(b)
  BY <1>1, EvaluateFamilyWork, EvaluateIneligibleWork
<1>2. CASE MergeSlice
  <2>1. UNCHANGED <<plan, config, results, simulated, raised>> /\ raised = {}
    BY <1>2 DEF MergeSlice
  <2> QED
    BY <2>1, NothingSimulated
<1>3. CASE RaiseSlice
  <2>1. UNCHANGED <<plan, config, results, simulated, raised>> /\ outcome' = "raised"
    BY <1>3 DEF RaiseSlice
  <2> QED
    BY <2>1, NothingSimulated
<1>4. CASE UNCHANGED vars
  <2>1. UNCHANGED <<plan, config, results, simulated, raised, outcome>>
    BY <1>4 DEF vars
  <2>2. outcome' = "returned" => raised' = {}
    BY <2>1 DEF WorkInv
  <2> QED
    BY <2>1, <2>2, NothingSimulated
<1> QED
  BY <1>1, <1>2, <1>3, <1>4 DEF Next

\* _slice_plan_units cuts a plan so that every family stays together: a study
\* that returns has, with one worker, simulated exactly the units, and so the
\* months, that the chaining report of the plan states.
THEOREM FamiliesKept == Spec => []SlicesKeepFamilies
<1>1. Spec => []WorkInv
  BY InitWork, NextWork, IInvInvariant, PTL DEF Spec
<1>2. IInv /\ WorkInv => SlicesKeepFamilies
  <2> SUFFICES ASSUME IInv, WorkInv, outcome = "returned", config.max_workers = 1
               PROVE  MonthWork(simulated) = MonthWork(ExpectedSimulated)
    BY DEF SlicesKeepFamilies
  <2>1. simulated = DOMAIN results \cap ExpectedSimulated
    BY DEF WorkInv, WorkIsExpected
  <2>2. DOMAIN plan \subseteq DOMAIN results
    <3>1. /\ Len(all_results) = Len(plan) /\ DOMAIN all_results = 1 .. Len(all_results)
          /\ \A i \in DOMAIN all_results : i \in DOMAIN results
      BY DEF IInv, SlicesAreMerged
    <3>2. DOMAIN plan = 1 .. Len(plan)
      BY PlanFacts DEF IInv
    <3> QED
      BY <3>1, <3>2
  <2>3. ExpectedSimulated \subseteq DOMAIN plan
    <3> SUFFICES ASSUME NEW i \in DOMAIN plan
                 PROVE  (IF Chained(plan[i]) THEN SimulatedOf(FamilyOf(i, DOMAIN plan))
                         ELSE {i}) \subseteq DOMAIN plan
      BY Zenon DEF ExpectedSimulated
    <3>1. Chained(plan[i]) =>
              SimulatedOf(FamilyOf(i, DOMAIN plan)) \subseteq FamilyOf(i, DOMAIN plan)
      BY ExpectedOfFamily DEF IInv
    <3>2. FamilyOf(i, DOMAIN plan) \subseteq DOMAIN plan
      BY DEF FamilyOf
    <3> QED
      BY <3>1, <3>2
  <2> QED
    BY <2>1, <2>2, <2>3
<1> QED
  BY <1>1, <1>2, IInvInvariant, PTL
=============================================================================
