----------------------- MODULE FastPathValidation_proofs -----------------------
(***************************************************************************)
(* Theorems about FastPathValidation: what a sample of the units promises, *)
(* for any units, any budget and any choice of the random generator.       *)
(***************************************************************************)
EXTENDS FastPathValidation, StudyPlanning_proofs

-----------------------------------------------------------------------------
(***************************************************************************)
(* Numbers and finite sets of them.                                        *)
(***************************************************************************)

LEMMA MinOfTwo ==
    ASSUME NEW a \in Nat, NEW b \in Nat
    PROVE  /\ Min({a, b}) \in Nat /\ Min({a, b}) <= a /\ Min({a, b}) <= b
           /\ a <= b => Min({a, b}) = a
           /\ b <= a => Min({a, b}) = b
<1>1. {a, b} \in SUBSET Nat /\ {a, b} # {}
  OBVIOUS
<1>2. Min({a, b}) \in {a, b} /\ \A k \in {a, b} : Min({a, b}) <= k
  BY <1>1, LeastOf
<1> QED
  BY <1>2

LEMMA MaxOfTwo ==
    ASSUME NEW a \in Nat, NEW b \in Nat
    PROVE  /\ Max({a, b}) \in Nat
           /\ a <= b => Max({a, b}) = b
           /\ b <= a => Max({a, b}) = a
<1>1. \E x \in {a, b} : \A y \in {a, b} : x >= y
  OBVIOUS
<1>2. Max({a, b}) \in {a, b} /\ \A y \in {a, b} : Max({a, b}) >= y
  BY <1>1 DEF Max
<1> QED
  BY <1>2

\* A finite set of numbers has a bound.
LEMMA BoundOf ==
    ASSUME NEW S \in SUBSET Nat, IsFiniteSet(S)
    PROVE  \E b \in Nat : \A s \in S : s < b
<1> DEFINE IsBounded(T) == \E b \in Nat : \A s \in T : s < b
           Sizes == {c \in Nat : \E T \in SUBSET S : Cardinality(T) = c /\ ~IsBounded(T)}
<1>1. ASSUME NEW T \in SUBSET S, Cardinality(T) \in Sizes
      PROVE  \E c \in Sizes : c < Cardinality(T)
  <2>1. PICK U \in SUBSET S : Cardinality(U) = Cardinality(T) /\ ~IsBounded(U)
    BY <1>1
  <2>2. IsFiniteSet(U) /\ Cardinality(U) \in Nat
    BY FS_Subset, FS_CardinalityType
  <2>3. PICK x \in U : TRUE
    <3>1. U = {} => IsBounded(U)
      <4>1. 0 \in Nat
        OBVIOUS
      <4> QED
        BY <4>1, Zenon
    <3> QED
      BY <2>1, <3>1
  <2>4. Cardinality(U \ {x}) = Cardinality(U) - 1 /\ IsFiniteSet(U \ {x})
    BY <2>2, <2>3, FS_RemoveElement
  <2>5. Cardinality(U \ {x}) \in Nat
    BY <2>4, FS_CardinalityType
  <2>6. ~IsBounded(U \ {x})
    <3> SUFFICES ASSUME NEW b \in Nat, \A s \in U \ {x} : s < b
                 PROVE  FALSE
      OBVIOUS
    <3>1. x \in Nat /\ U \subseteq Nat
      BY <2>3
    <3>2. PICK c \in Nat : c = b + x + 1
      BY <3>1
    <3>3. \A s \in U : s < c
      BY <3>1, <3>2
    <3> QED
      BY <2>1, <3>3
  <2>7. Cardinality(U \ {x}) \in Sizes
    BY <2>5, <2>6
  <2>8. Cardinality(U \ {x}) < Cardinality(T)
    BY <2>1, <2>2, <2>4
  <2> HIDE DEF Sizes
  <2> QED
    BY <2>7, <2>8
<1>2. Sizes = {}
  <2> SUFFICES ASSUME Sizes # {} PROVE FALSE
    OBVIOUS
  <2>1. Sizes \in SUBSET Nat
    OBVIOUS
  <2>2. Min(Sizes) \in Sizes /\ \A c \in Sizes : Min(Sizes) <= c
    BY <2>1, LeastOf
  <2>3. PICK T \in SUBSET S : Cardinality(T) = Min(Sizes)
    BY <2>2
  <2>4. PICK c \in Sizes : c < Cardinality(T)
    <3> HIDE DEF Sizes
    <3> QED
      BY <1>1, <2>2, <2>3
  <2>5. Min(Sizes) \in Nat /\ c \in Nat
    BY <2>2, <2>4
  <2> HIDE DEF Sizes
  <2> QED
    BY <2>2, <2>3, <2>4, <2>5
<1>3. Cardinality(S) \in Nat
  BY FS_CardinalityType
<1> QED
  BY <1>2, <1>3

\* The members of a set below a number.
Below(S, n) == {s \in S : s < n}

LEMMA BelowNext ==
    ASSUME NEW S \in SUBSET Nat, NEW n \in Nat
    PROVE  /\ Below(S, 0) = {}
           /\ Below(S, n + 1) = Below(S, n) \cup {s \in S : s = n}
           /\ Below(S, n + 1) = {s \in S : s <= n}
<1>1. \A s \in S : s \in Nat /\ ~(s < 0) /\ (s < n + 1 <=> s <= n)
  OBVIOUS
<1>2. Below(S, n + 1) = {s \in S : s <= n}
  BY <1>1 DEF Below
<1>3. \A s \in S : s <= n <=> s < n \/ s = n
  BY <1>1
<1>4. {s \in S : s <= n} = Below(S, n) \cup {s \in S : s = n}
  BY <1>3 DEF Below
<1> QED
  BY <1>1, <1>2, <1>4 DEF Below

LEMMA CountBelow ==
    ASSUME NEW S \in SUBSET Nat, IsFiniteSet(S), NEW n \in Nat
    PROVE  /\ IsFiniteSet(Below(S, n)) /\ Cardinality(Below(S, n)) \in Nat
           /\ Cardinality(Below(S, n + 1))
                = Cardinality(Below(S, n)) + (IF n \in S THEN 1 ELSE 0)
<1>1. IsFiniteSet(Below(S, n)) /\ Cardinality(Below(S, n)) \in Nat
  BY FS_Subset, FS_CardinalityType DEF Below
<1>2. CASE n \in S
  <2>1. Below(S, n + 1) = Below(S, n) \cup {n} /\ n \notin Below(S, n)
    BY <1>2, BelowNext DEF Below
  <2> QED
    BY <1>1, <1>2, <2>1, FS_AddElement
<1>3. CASE n \notin S
  <2>1. Below(S, n + 1) = Below(S, n)
    BY <1>3, BelowNext DEF Below
  <2> QED
    BY <1>1, <1>3, <2>1
<1> QED
  BY <1>2, <1>3

\* There is a member after the first n, when there are more than n.
LEMMA MemberAfter ==
    ASSUME NEW S \in SUBSET Nat, IsFiniteSet(S), NEW n \in Nat, n < Cardinality(S)
    PROVE  \E k \in S : Cardinality(Below(S, k)) = n
<1> DEFINE B == {b \in Nat : Cardinality(Below(S, b)) > n}
<1>1. PICK b \in Nat : \A s \in S : s < b
  BY BoundOf
<1>2. Below(S, b) = S
  BY <1>1 DEF Below
<1>3. B \in SUBSET Nat /\ b \in B
  BY <1>2, FS_CardinalityType
<1>4. PICK c \in B : \A d \in B : c <= d
  <2> HIDE DEF B
  <2> QED
    BY <1>3, LeastOf
<1>5. c # 0
  BY BelowNext, FS_EmptySet, SMTT(30)
<1>6. PICK k \in Nat : c = k + 1
  BY <1>5
<1>7. k \notin B
  BY <1>4, <1>6
<1>8. Cardinality(Below(S, k)) \in Nat /\ Cardinality(Below(S, k)) <= n
  BY <1>7, CountBelow
<1>9. Cardinality(Below(S, k + 1)) = Cardinality(Below(S, k)) + (IF k \in S THEN 1 ELSE 0)
  BY CountBelow
<1>10. Cardinality(Below(S, k + 1)) > n
  BY <1>4, <1>6
<1> QED
  BY <1>8, <1>9, <1>10

\* Of the members with less than c members below there are at most c.
LEMMA FirstOnes ==
    ASSUME NEW S \in SUBSET Nat, IsFiniteSet(S), NEW c \in Nat
    PROVE  LET first == {s \in S : Cardinality(Below(S, s)) < c}
           IN  IsFiniteSet(first) /\ Cardinality(first) <= c
<1> DEFINE first == {s \in S : Cardinality(Below(S, s)) < c}
<1>1. IsFiniteSet(first) /\ Cardinality(first) <= Cardinality(S)
  BY FS_Subset
<1>2. Cardinality(first) \in Nat
  BY <1>1, FS_CardinalityType
<1>3. ASSUME c < Cardinality(first) PROVE FALSE
  <2>0. first \in SUBSET Nat
    OBVIOUS
  <2>1. PICK k \in first : Cardinality(Below(first, k)) = c
    <3> HIDE DEF first
    <3> QED
      BY <1>1, <1>3, <2>0, MemberAfter
  <2>2. Below(first, k) \subseteq Below(S, k)
    BY DEF Below
  <2>3. k \in Nat /\ IsFiniteSet(Below(S, k)) /\ Cardinality(Below(S, k)) < c
    BY <2>1, CountBelow
  <2>4. Cardinality(Below(first, k)) <= Cardinality(Below(S, k))
    BY <2>2, <2>3, FS_Subset
  <2>5. Cardinality(Below(S, k)) \in Nat
    BY <2>3, FS_CardinalityType
  <2> QED
    BY <2>1, <2>3, <2>4, <2>5
<1> QED
  BY <1>1, <1>2, <1>3

-----------------------------------------------------------------------------
(***************************************************************************)
(* How many units are drawn.                                               *)
(***************************************************************************)

LEMMA PoolsType ==
    ASSUME NEW units, HaveHorizons(units)
    PROVE  /\ Eligible(units) \in SUBSET Nat /\ IsFiniteSet(Eligible(units))
           /\ \A h \in HorizonsOf(units) :
                /\ Pool(units, h) \in SUBSET Nat /\ IsFiniteSet(Pool(units, h))
                /\ Cardinality(Pool(units, h)) \in Nat \ {0}
<1>1. Eligible(units) \in SUBSET Nat /\ IsFiniteSet(Eligible(units))
  BY FS_Subset DEF HaveHorizons, Eligible
<1>2. ASSUME NEW h \in HorizonsOf(units)
      PROVE  /\ Pool(units, h) \in SUBSET Nat /\ IsFiniteSet(Pool(units, h))
             /\ Cardinality(Pool(units, h)) \in Nat \ {0}
  <2>1. Pool(units, h) \in SUBSET Eligible(units) /\ Pool(units, h) # {}
    BY DEF HorizonsOf, Pool
  <2>2. IsFiniteSet(Pool(units, h))
    BY <1>1, <2>1, FS_Subset
  <2>3. Cardinality(Pool(units, h)) \in Nat /\ Cardinality(Pool(units, h)) # 0
    BY <2>1, <2>2, FS_CardinalityType, FS_EmptySet
  <2> QED
    BY <1>1, <2>1, <2>2, <2>3
<1> QED
  BY <1>1, <1>2

LEMMA BudgetType ==
    ASSUME NEW units, HaveHorizons(units), Eligible(units) # {}
    PROVE  /\ HorizonsOf(units) \in SUBSET Nat /\ IsFiniteSet(HorizonsOf(units))
           /\ Cardinality(HorizonsOf(units)) \in Nat \ {0}
           /\ SampleSize(units) \in Nat /\ SampleSize(units) <= MaxUnits
           /\ PerHorizon(units) \in Nat \ {0}
           /\ Cardinality(HorizonsOf(units)) <= MaxUnits =>
                Cardinality(HorizonsOf(units)) * PerHorizon(units) <= SampleSize(units)
<1> DEFINE E == Eligible(units)
           H == HorizonsOf(units)
           horizon == [k \in E |-> units[k].horizon]
<1>1. IsFiniteSet(E) /\ Cardinality(E) \in Nat
  BY PoolsType, FS_CardinalityType
<1>2. H \in SUBSET Nat /\ H # {}
  BY DEF HaveHorizons, Eligible, HorizonsOf
<1>3. horizon \in Surjection(E, H)
  BY DEF Surjection, HorizonsOf
<1>4. IsFiniteSet(H) /\ Cardinality(H) <= Cardinality(E)
  <2> HIDE DEF E, H, horizon
  <2> QED
    BY <1>1, <1>3, FS_Surjection
<1>5. PICK c \in Nat \ {0} : c = Cardinality(H)
  BY <1>2, <1>4, FS_CardinalityType, FS_EmptySet
<1>6. PICK e \in Nat : e = Cardinality(E)
  BY <1>1
<1>7. PICK size \in Nat : size = SampleSize(units) /\ size = Min({MaxUnits, e})
  BY <1>6, MinOfTwo, ValidationAssumption DEF SampleSize
<1>8. size <= MaxUnits /\ (c <= MaxUnits => c <= size)
  BY <1>4, <1>5, <1>6, <1>7, MinOfTwo, ValidationAssumption
<1>9. PICK q \in Nat, r \in 0 .. c - 1 : q = size \div c /\ size = c * q + r
  BY Digits
<1>10. PerHorizon(units) = Max({1, q})
  BY <1>5, <1>7, <1>9 DEF PerHorizon
<1>11. /\ Max({1, q}) \in Nat
       /\ 1 <= q => Max({1, q}) = q
       /\ q <= 1 => Max({1, q}) = 1
  BY MaxOfTwo
<1>12. PerHorizon(units) \in Nat \ {0}
  BY <1>10, <1>11
<1>13. ASSUME c <= MaxUnits PROVE c * PerHorizon(units) <= size
  <2>1. q # 0
    BY <1>8, <1>9, <1>13
  <2>2. PerHorizon(units) = q
    BY <1>10, <1>11, <2>1
  <2> QED
    BY <1>9, <2>2
<1> QED
  BY <1>2, <1>4, <1>5, <1>7, <1>8, <1>12, <1>13

\* More horizons have more places, and no more are drawn than there are.
LEMMA PlacesGrow ==
    ASSUME NEW units, HaveHorizons(units), Eligible(units) # {},
           NEW T \in SUBSET HorizonsOf(units), NEW U \in SUBSET T
    PROVE  /\ Places(units, U) \subseteq Places(units, T)
           /\ IsFiniteSet(Places(units, T)) /\ Cardinality(Places(units, T)) \in Nat
           /\ Cardinality(Places(units, U)) \in Nat
           /\ Cardinality(Places(units, U)) <= Cardinality(Places(units, T))
           /\ Cardinality(HorizonsOf(units)) <= MaxUnits =>
                Cardinality(Places(units, T)) <= SampleSize(units)
<1> DEFINE H == HorizonsOf(units)
           all == H \X (1 .. PerHorizon(units))
<1>1. PICK c \in Nat, p \in Nat : c = Cardinality(H) /\ p = PerHorizon(units)
  BY BudgetType
<1>2. IsFiniteSet(1 .. p) /\ Cardinality(1 .. p) = p
  BY FS_Interval
<1>3. IsFiniteSet(all) /\ Cardinality(all) = c * p
  BY <1>1, <1>2, BudgetType, FS_Product
<1>4. Places(units, U) \subseteq Places(units, T) /\ Places(units, T) \subseteq all
  BY DEF Places
<1>5. IsFiniteSet(Places(units, T)) /\ Cardinality(Places(units, T)) <= c * p
  BY <1>3, <1>4, FS_Subset
<1>6. /\ IsFiniteSet(Places(units, U))
      /\ Cardinality(Places(units, U)) <= Cardinality(Places(units, T))
  BY <1>4, <1>5, FS_Subset
<1>7. Cardinality(Places(units, T)) \in Nat /\ Cardinality(Places(units, U)) \in Nat
  BY <1>5, <1>6, FS_CardinalityType
<1>8. c * p \in Nat /\ SampleSize(units) \in Nat
  BY BudgetType
<1>9. c <= MaxUnits => c * p <= SampleSize(units)
  BY <1>1, BudgetType
<1> QED
  BY <1>1, <1>4, <1>5, <1>6, <1>7, <1>8, <1>9

LEMMA DrawnGrows ==
    ASSUME NEW units, HaveHorizons(units), Eligible(units) # {},
           NEW T \in SUBSET HorizonsOf(units), NEW U \in SUBSET T
    PROVE  /\ DrawnFrom(units, T) \in Nat /\ DrawnFrom(units, U) \in Nat
           /\ DrawnFrom(units, U) <= DrawnFrom(units, T)
           /\ DrawnFrom(units, T) <= SampleSize(units)
           /\ Cardinality(HorizonsOf(units)) <= MaxUnits =>
                DrawnFrom(units, T) = Cardinality(Places(units, T))
<1>1. PICK t \in Nat, u \in Nat, s \in Nat :
        /\ t = Cardinality(Places(units, T)) /\ u = Cardinality(Places(units, U))
        /\ s = SampleSize(units) /\ u <= t
  BY BudgetType, PlacesGrow
<1>2. DrawnFrom(units, T) = Min({s, t}) /\ DrawnFrom(units, U) = Min({s, u})
  BY <1>1 DEF DrawnFrom
<1>3. Cardinality(HorizonsOf(units)) <= MaxUnits => t <= s
  BY <1>1, PlacesGrow
<1>4. /\ Min({s, t}) \in Nat /\ Min({s, t}) <= s
      /\ t <= s => Min({s, t}) = t
      /\ s <= t => Min({s, t}) = s
  BY MinOfTwo
<1>5. /\ Min({s, u}) \in Nat /\ Min({s, u}) <= s /\ Min({s, u}) <= u
  BY MinOfTwo
<1> QED
  BY <1>1, <1>2, <1>3, <1>4, <1>5

\* What is drawn of a horizon is what is drawn more when it has been served.
LEMMA DrawnOfHorizon ==
    ASSUME NEW units, HaveHorizons(units), NEW h \in HorizonsOf(units)
    PROVE  LET H == HorizonsOf(units)
           IN  /\ DOMAIN Drawn(units) = H
               /\ Drawn(units)[h] \in Nat
               /\ DrawnFrom(units, Below(H, h)) \in Nat
               /\ DrawnFrom(units, Below(H, h + 1))
                    = DrawnFrom(units, Below(H, h)) + Drawn(units)[h]
               /\ Cardinality(H) <= MaxUnits => Drawn(units)[h] # 0
<1> DEFINE H == HorizonsOf(units)
           T == Below(H, h + 1)
           U == Below(H, h)
<1>1. Eligible(units) # {}
  BY DEF HorizonsOf
<1>2. H \in SUBSET Nat /\ h \in Nat
  BY <1>1, BudgetType
<1>3. T = {g \in H : g <= h} /\ U = {g \in H : g < h} /\ T \in SUBSET H /\ U \in SUBSET T
  BY <1>2, BelowNext DEF Below
<1>4. /\ DOMAIN Drawn(units) = H
      /\ Drawn(units)[h] = DrawnFrom(units, T) - DrawnFrom(units, U)
  BY <1>3 DEF Drawn
<1> HIDE DEF T, U, H
<1>5. /\ DrawnFrom(units, T) \in Nat /\ DrawnFrom(units, U) \in Nat
      /\ DrawnFrom(units, U) <= DrawnFrom(units, T)
  BY <1>1, <1>3, DrawnGrows DEF H
<1>6. ASSUME Cardinality(H) <= MaxUnits PROVE Drawn(units)[h] # 0
  <2>1. /\ DrawnFrom(units, T) = Cardinality(Places(units, T))
        /\ DrawnFrom(units, U) = Cardinality(Places(units, U))
    <3>1. U \in SUBSET H /\ U \in SUBSET U
      BY <1>3
    <3> QED
      BY <1>1, <1>3, <1>6, <3>1, DrawnGrows DEF H
  <2>2. /\ Places(units, U) \in SUBSET Places(units, T) /\ IsFiniteSet(Places(units, T))
    BY <1>1, <1>3, PlacesGrow DEF H
  <2>3. PerHorizon(units) \in Nat \ {0}
    BY <1>1, BudgetType
  <2>4. Cardinality(Pool(units, h)) \in Nat \ {0}
    BY PoolsType
  <2>5. <<h, 1>> \in Places(units, T) /\ <<h, 1>> \notin Places(units, U)
    BY <1>2, <1>3, <2>3, <2>4 DEF Places, H
  <2>6. Cardinality(Places(units, T)) # Cardinality(Places(units, U))
    BY <2>2, <2>5, FS_Subset
  <2> QED
    BY <1>4, <1>5, <2>1, <2>6
<1> QED
  BY <1>4, <1>5, <1>6 DEF T, U, H

-----------------------------------------------------------------------------
(***************************************************************************)
(* What is drawn and what is added.                                        *)
(***************************************************************************)

\* As many units are drawn as there is budget for, horizon by horizon.
LEMMA DrawingSize ==
    ASSUME NEW units, HaveHorizons(units), Eligible(units) # {},
           NEW S \in Drawings(units)
    PROVE  Cardinality(S) = DrawnFrom(units, HorizonsOf(units))
<1> DEFINE H == HorizonsOf(units)
           Part(n) == {k \in S : units[k].horizon < n}
           Differs == {n \in Nat : Cardinality(Part(n)) # DrawnFrom(units, Below(H, n))}
<1>1. S \in SUBSET Eligible(units) /\ IsFiniteSet(S)
  BY PoolsType, FS_Subset DEF Drawings
<1>2. \A k \in S : units[k].horizon \in H /\ units[k].horizon \in Nat
  BY <1>1 DEF HorizonsOf, HaveHorizons, Eligible
<1>3. H \in SUBSET Nat /\ IsFiniteSet(H)
  BY BudgetType
<1>4. \A n \in Nat : IsFiniteSet(Part(n)) /\ Cardinality(Part(n)) \in Nat
  BY <1>1, FS_Subset, FS_CardinalityType
<1>5. 0 \notin Differs
  <2>1. Part(0) = {} /\ Below(H, 0) = {}
    BY <1>2, <1>3, BelowNext
  <2>2. Places(units, {}) = {}
    BY DEF Places
  <2>3. SampleSize(units) \in Nat
    BY BudgetType
  <2>4. Min({SampleSize(units), 0}) = 0
    BY <2>3, MinOfTwo
  <2> QED
    BY <2>1, <2>2, <2>4, FS_EmptySet DEF DrawnFrom
<1>6. ASSUME NEW n \in Nat, n \notin Differs PROVE n + 1 \notin Differs
  <2> DEFINE New == {k \in S : units[k].horizon = n}
  <2>0. PICK next \in Nat : next = n + 1
    OBVIOUS
  <2>1. Part(next) = Part(n) \cup New /\ Part(n) \cap New = {}
    BY <1>2, <2>0
  <2>2. IsFiniteSet(New) /\ Cardinality(New) \in Nat
    BY <1>1, FS_Subset, FS_CardinalityType
  <2>3. Cardinality(Part(next)) = Cardinality(Part(n)) + Cardinality(New)
    <3> HIDE DEF Part, New
    <3>1. Cardinality(Part(n) \cup New)
            = Cardinality(Part(n)) + Cardinality(New) - Cardinality({})
      BY <1>4, <2>1, <2>2, FS_Union
    <3>2. Cardinality({}) = 0 /\ Cardinality(Part(n)) \in Nat
      BY <1>4, FS_EmptySet
    <3> QED
      BY <2>1, <2>2, <3>1, <3>2
  <2>4. Cardinality(Part(n)) = DrawnFrom(units, Below(H, n))
    BY <1>6
  <2>5. ASSUME n \in H
        PROVE  Cardinality(Part(next)) = DrawnFrom(units, Below(H, next))
    <3>1. S \cap Pool(units, n) = New
      BY <1>1 DEF Pool
    <3>2. DOMAIN Drawn(units) = H
      BY <2>5, DrawnOfHorizon
    <3>3. Cardinality(New) = Drawn(units)[n]
      BY <2>5, <3>1, <3>2 DEF Drawings
    <3>4. DrawnFrom(units, Below(H, next))
            = DrawnFrom(units, Below(H, n)) + Drawn(units)[n]
      BY <2>0, <2>5, DrawnOfHorizon
    <3> HIDE DEF Part, New, H
    <3> QED
      BY <2>3, <2>4, <3>3, <3>4
  <2>6. ASSUME n \notin H
        PROVE  Cardinality(Part(next)) = DrawnFrom(units, Below(H, next))
    <3>1. New = {}
      BY <1>2, <2>6
    <3>2. Below(H, next) = Below(H, n)
      <4> HIDE DEF H
      <4>1. \A g \in H : g < next <=> g < n
        BY <1>3, <2>0, <2>6
      <4> QED
        BY <4>1 DEF Below
    <3>3. Cardinality(New) = 0
      BY <3>1, FS_EmptySet
    <3>4. Cardinality(Part(n)) \in Nat
      BY <1>4
    <3> HIDE DEF Part, New, H
    <3> QED
      BY <2>3, <2>4, <3>2, <3>3, <3>4
  <2>7. Cardinality(Part(next)) = DrawnFrom(units, Below(H, next))
    BY <2>5, <2>6
  <2> HIDE DEF H
  <2> QED
    BY <2>0, <2>7
<1>7. Differs = {}
  <2> SUFFICES ASSUME Differs # {} PROVE FALSE
    OBVIOUS
  <2>1. PICK n \in Differs : \A m \in Differs : n <= m
    <3>1. Differs \in SUBSET Nat
      OBVIOUS
    <3> HIDE DEF Differs
    <3> QED
      BY <3>1, LeastOf
  <2>2. n \in Nat
    OBVIOUS
  <2> HIDE DEF Differs
  <2>3. n # 0
    BY <1>5
  <2>4. PICK m \in Nat : n = m + 1
    BY <2>2, <2>3
  <2>5. m \in Differs
    BY <1>6, <2>4
  <2> QED
    BY <2>1, <2>4, <2>5
<1>8. PICK b \in Nat : \A h \in H : h < b
  BY <1>3, BoundOf
<1>9. Part(b) = S /\ Below(H, b) = H
  BY <1>2, <1>8 DEF Below
<1> QED
  BY <1>7, <1>8, <1>9

\* What is added are units that may be sampled, no more than are left.
LEMMA AddedFew ==
    ASSUME NEW units, HaveHorizons(units), Eligible(units) # {}
    PROVE  LET drawn == DrawnFrom(units, HorizonsOf(units))
           IN  /\ drawn \in Nat
               /\ Added(units) \subseteq Eligible(units)
               /\ IsFiniteSet(Added(units)) /\ Cardinality(Added(units)) \in Nat
               /\ drawn + Cardinality(Added(units)) <= SampleSize(units)
<1> DEFINE H == HorizonsOf(units)
           drawn == Drawn(units)
           larger == {h \in DOMAIN drawn : drawn[h] < Cardinality(Pool(units, h))}
           left == SampleSize(units) - DrawnFrom(units, H)
           served == {h \in larger : Cardinality({g \in larger : g < h}) < left}
           unit == [h \in served |-> UnitAfter(Pool(units, h), drawn[h])]
<1>1. DOMAIN drawn = H
  BY DEF Drawn
<1>2. SampleSize(units) \in Nat /\ DrawnFrom(units, H) \in Nat /\ left \in Nat
  <2>1. H \in SUBSET H /\ {} \in SUBSET H
    OBVIOUS
  <2> QED
    BY <2>1, BudgetType, DrawnGrows
<1>3. larger \in SUBSET Nat /\ IsFiniteSet(larger)
  BY <1>1, BudgetType, FS_Subset
<1>4. IsFiniteSet(served) /\ Cardinality(served) <= left
  <2>1. served = {h \in larger : Cardinality(Below(larger, h)) < left}
    BY DEF Below
  <2> HIDE DEF served, larger, left
  <2> QED
    BY <1>2, <1>3, <2>1, FirstOnes
<1>5. ASSUME NEW h \in served PROVE unit[h] \in Pool(units, h)
  <2>1. h \in H /\ drawn[h] \in Nat /\ drawn[h] < Cardinality(Pool(units, h))
    BY <1>1, DrawnOfHorizon
  <2>2. Pool(units, h) \in SUBSET Nat /\ IsFiniteSet(Pool(units, h))
    BY <2>1, PoolsType
  <2>3. PICK n \in Nat : n = drawn[h]
    BY <2>1
  <2>4. \E k \in Pool(units, h) : Cardinality(Below(Pool(units, h), k)) = n
    BY <2>1, <2>2, <2>3, MemberAfter
  <2>5. UnitAfter(Pool(units, h), n) \in Pool(units, h)
    BY <2>4 DEF UnitAfter, Below
  <2> QED
    BY <2>3, <2>5
<1>6. Added(units) = {unit[h] : h \in served}
  BY DEF Added
<1> HIDE DEF unit, served
<1>7. Added(units) \subseteq Eligible(units)
  BY <1>5, <1>6 DEF Pool
<1>8. unit \in Surjection(served, Added(units))
  <2>1. DOMAIN unit = served /\ unit = [h \in served |-> unit[h]]
    BY DEF unit
  <2> QED
    BY <1>6, <2>1 DEF Surjection
<1>9. IsFiniteSet(Added(units)) /\ Cardinality(Added(units)) <= Cardinality(served)
  BY <1>4, <1>8, FS_Surjection
<1>10. Cardinality(Added(units)) \in Nat /\ Cardinality(served) \in Nat
  BY <1>4, <1>9, FS_CardinalityType
<1> QED
  BY <1>2, <1>4, <1>7, <1>9, <1>10

\* What ValidationIsSound says of a sample.
IsSound(units, sample) ==
    LET compared == Sampled(sample)
        count == Cardinality(sample.drawn) + Cardinality(sample.added)
    IN  /\ Cardinality(compared) = count /\ count <= MaxUnits
        /\ compared \subseteq Eligible(units)
        /\ Cardinality(HorizonsOf(units)) <= MaxUnits =>
              {units[k].horizon : k \in compared} = HorizonsOf(units)
        /\ \A k \in compared :
              ReferenceResult(units[k]).success = FastResult(units[k]).success

\* A sample whose validation does not stop the command is sound.
LEMMA SampleIsSound ==
    ASSUME NEW units, HaveHorizons(units), NEW sample \in Samples(units),
           Sampled(sample) # {},
           ValidationOutcome(units, sample) \in {"ok", "skipped"}
    PROVE  IsSound(units, sample)
<1> DEFINE S == sample.drawn
           A == sample.added
           H == HorizonsOf(units)
<1>1. Eligible(units) # {}
  BY DEF Samples, Sampled
<1>2. S \in Drawings(units) /\ A = Added(units)
  BY <1>1 DEF Samples
<1>3. S \in SUBSET Eligible(units) /\ IsFiniteSet(S) /\ Cardinality(S) \in Nat
  BY <1>2, PoolsType, FS_Subset, FS_CardinalityType DEF Drawings
<1>4. /\ Cardinality(S) = DrawnFrom(units, H)
      /\ A \subseteq Eligible(units) /\ IsFiniteSet(A) /\ Cardinality(A) \in Nat
      /\ Cardinality(S) + Cardinality(A) <= SampleSize(units)
  BY <1>1, <1>2, DrawingSize, AddedFew
<1>5. S \cap A = {}
  BY DEF ValidationOutcome, IsPlan
<1>6. Cardinality(Sampled(sample)) = Cardinality(S) + Cardinality(A)
  <2>1. Cardinality(S \cup A) = Cardinality(S) + Cardinality(A) - Cardinality(S \cap A)
    BY <1>3, <1>4, FS_Union
  <2> QED
    BY <1>3, <1>4, <1>5, <2>1, FS_EmptySet DEF Sampled
<1>7. Cardinality(S) + Cardinality(A) <= MaxUnits
  BY <1>1, <1>3, <1>4, BudgetType, ValidationAssumption
<1>8. Sampled(sample) \subseteq Eligible(units)
  BY <1>3, <1>4 DEF Sampled
<1>9. ASSUME Cardinality(H) <= MaxUnits, NEW h \in H
      PROVE  \E k \in Sampled(sample) : units[k].horizon = h
  <2>1. Drawn(units)[h] \in Nat /\ Drawn(units)[h] # 0 /\ h \in DOMAIN Drawn(units)
    BY <1>9, DrawnOfHorizon
  <2>2. Cardinality(S \cap Pool(units, h)) # 0
    BY <1>2, <2>1 DEF Drawings
  <2>3. S \cap Pool(units, h) # {}
    BY <2>2, FS_EmptySet
  <2> QED
    BY <2>3 DEF Pool, Sampled
<1>10. \A k \in Sampled(sample) : units[k].horizon \in H
  BY <1>8 DEF HorizonsOf
<1>11. \A k \in Sampled(sample) :
         ReferenceResult(units[k]).success = FastResult(units[k]).success
  BY DEF ValidationOutcome, Agrees
<1>12. Cardinality(H) <= MaxUnits => {units[k].horizon : k \in Sampled(sample)} = H
  <2> HIDE DEF H
  <2> QED
    BY <1>9, <1>10
<1> QED
  BY <1>6, <1>7, <1>8, <1>11, <1>12 DEF IsSound
=============================================================================
