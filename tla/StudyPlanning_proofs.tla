------------------------- MODULE StudyPlanning_proofs -------------------------
(***************************************************************************)
(* Theorems about StudyPlanning: what is generated from a study and a      *)
(* dataset, whatever they hold.                                            *)
(***************************************************************************)
EXTENDS StudyPlanning, FiniteSetTheorems, SequenceTheorems, WellFoundedInduction,
        TLAPS

-----------------------------------------------------------------------------
(***************************************************************************)
(* Digits of a position.                                                   *)
(***************************************************************************)

\* Quotient and remainder.
LEMMA Digits ==
    ASSUME NEW m \in Nat \ {0}, NEW k \in Nat
    PROVE  /\ k \div m \in Nat /\ k % m \in 0 .. m - 1
           /\ k = m * (k \div m) + (k % m)
OBVIOUS

\* There is no other.
LEMMA DigitsAreUnique ==
    ASSUME NEW m \in Nat \ {0}, NEW a \in Nat, NEW b \in 0 .. m - 1
    PROVE  (m * a + b) \div m = a /\ (m * a + b) % m = b
<1> DEFINE k == m * a + b
<1>0. m * a \in Nat /\ k \in Nat
  OBVIOUS
<1>1. PICK q \in Nat, r \in 0 .. m - 1 : q = k \div m /\ r = k % m /\ k = m * q + r
  BY <1>0, Digits
<1>2. m * a + b = m * q + r
  BY <1>1
<1>3. m * (a - q) = r - b
  BY <1>2
<1>4. a - q \in Int
  OBVIOUS
<1>5. a - q >= 1 => m * (a - q) >= m
  BY <1>4
<1>6. a - q <= -1 => m * (a - q) <= -m
  BY <1>4
<1>7. a = q
  BY <1>3, <1>4, <1>5, <1>6
<1> QED
  BY <1>1, <1>2, <1>7

\* The quotient stays below a bound.
LEMMA DigitBelow ==
    ASSUME NEW m \in Nat \ {0}, NEW n \in Nat, NEW k \in Nat, k < n * m
    PROVE  k \div m \in 0 .. n - 1
<1>1. PICK q \in Nat, r \in 0 .. m - 1 : q = k \div m /\ r = k % m /\ k = m * q + r
  BY Digits
<1>2. q >= n => m * q >= m * n
  OBVIOUS
<1>3. n * m = m * n /\ m * n \in Nat /\ m * q \in Nat
  OBVIOUS
<1> QED
  BY <1>1, <1>2, <1>3

\* A number made of digits is below the product of their bounds.
LEMMA ProductBound ==
    ASSUME NEW m \in Nat \ {0}, NEW n \in Nat, NEW a \in 0 .. n - 1, NEW b \in 0 .. m - 1
    PROVE  m * a + b \in Nat /\ m * a + b < n * m
<1>1. a + 1 <= n
  OBVIOUS
<1>2. m * (a + 1) <= m * n
  BY <1>1
<1>3. m * (a + 1) = m * a + m /\ n * m = m * n /\ m * a \in Nat /\ m * n \in Nat
  OBVIOUS
<1> QED
  BY <1>2, <1>3

\* Dividing twice is dividing by the product.
LEMMA DivideTwice ==
    ASSUME NEW m \in Nat \ {0}, NEW n \in Nat \ {0}, NEW k \in Nat
    PROVE  (k \div m) \div n = k \div (n * m)
<1>1. PICK q \in Nat, c \in 0 .. m - 1 : q = k \div m /\ c = k % m /\ k = m * q + c
  BY Digits
<1>2. PICK a \in Nat, b \in 0 .. n - 1 : a = q \div n /\ b = q % n /\ q = n * a + b
  BY Digits
<1>3. m * b + c \in 0 .. n * m - 1
  BY ProductBound
<1>4. n * m \in Nat \ {0}
  OBVIOUS
<1>5. k = (n * m) * a + (m * b + c)
  <2>1. m * q = m * (n * a) + m * b
    BY <1>2
  <2>2. m * (n * a) = (n * m) * a
    OBVIOUS
  <2> QED
    BY <1>1, <2>1, <2>2
<1>6. k \div (n * m) = a
  BY <1>3, <1>4, <1>5, DigitsAreUnique
<1> QED
  BY <1>1, <1>2, <1>6

\* A table of n rows and m columns is read row after row: how many cells it
\* has, where a cell is, and the row and the column of the k-th of them.
CellCount(n, m) == n * m
Position(a, b, m) == m * (a - 1) + b
Row(k, m) == 1 + (k - 1) \div m
Column(k, m) == 1 + ((k - 1) % m)

LEMMA CellCountType == ASSUME NEW n \in Nat, NEW m \in Nat
                   PROVE  CellCount(n, m) \in Nat /\ (n # 0 /\ m # 0 => CellCount(n, m) # 0)
BY DEF CellCount

\* Every cell has a position, and only one.
LEMMA RowAndColumn ==
    ASSUME NEW m \in Nat \ {0}, NEW n \in Nat, NEW k \in 1 .. CellCount(n, m)
    PROVE  Row(k, m) \in 1 .. n /\ Column(k, m) \in 1 .. m
<1>1. k - 1 \in Nat /\ k - 1 < n * m
  BY DEF CellCount
<1>2. (k - 1) \div m \in 0 .. n - 1
  BY <1>1, DigitBelow
<1>3. (k - 1) % m \in 0 .. m - 1
  BY <1>1, Digits
<1> QED
  BY <1>2, <1>3 DEF Row, Column

LEMMA CellHasPosition ==
    ASSUME NEW m \in Nat \ {0}, NEW n \in Nat, NEW a \in 1 .. n, NEW b \in 1 .. m
    PROVE  /\ Position(a, b, m) \in 1 .. CellCount(n, m)
           /\ Row(Position(a, b, m), m) = a /\ Column(Position(a, b, m), m) = b
<1>1. a - 1 \in 0 .. n - 1 /\ b - 1 \in 0 .. m - 1
  OBVIOUS
<1>2. PICK k \in Nat : k = m * (a - 1) + (b - 1) /\ k < n * m
  <2>1. m * (a - 1) + (b - 1) \in Nat /\ m * (a - 1) + (b - 1) < n * m
    BY <1>1, ProductBound, Zenon
  <2> QED
    BY <2>1, Zenon
<1>3. k \div m = a - 1 /\ k % m = b - 1
  <2>1. PICK c \in Nat, d \in 0 .. m - 1 : c = a - 1 /\ d = b - 1
    BY <1>1
  <2>2. (m * c + d) \div m = c /\ (m * c + d) % m = d
    BY DigitsAreUnique, Zenon
  <2>3. k = m * c + d
    BY <1>2, <2>1, Zenon
  <2> QED
    BY <2>1, <2>2, <2>3, Zenon
<1>4. k + 1 \in 1 .. CellCount(n, m) /\ (k + 1) - 1 = k
  BY <1>2 DEF CellCount
<1>5. Row(k + 1, m) = a /\ Column(k + 1, m) = b
  BY <1>3, <1>4 DEF Row, Column
<1>6. Position(a, b, m) = k + 1
  BY <1>2 DEF Position
<1> QED
  BY <1>4, <1>5, <1>6

LEMMA CellIsUnique ==
    ASSUME NEW m \in Nat \ {0}, NEW n \in Nat,
           NEW k \in 1 .. CellCount(n, m), NEW j \in 1 .. CellCount(n, m),
           Row(k, m) = Row(j, m), Column(k, m) = Column(j, m)
    PROVE  k = j
<1>1. k - 1 \in Nat /\ j - 1 \in Nat
  OBVIOUS
<1>2. PICK q \in Nat, c \in 0 .. m - 1 : /\ q = (k - 1) \div m /\ c = (k - 1) % m
                                       /\ k - 1 = m * q + c
  BY <1>1, Digits, Zenon
<1>3. PICK p \in Nat, d \in 0 .. m - 1 : /\ p = (j - 1) \div m /\ d = (j - 1) % m
                                       /\ j - 1 = m * p + d
  BY <1>1, Digits, Zenon
<1>4. q = p /\ c = d
  BY <1>2, <1>3 DEF Row, Column
<1>5. k - 1 = j - 1
  BY <1>2, <1>3, <1>4
<1> QED
  BY <1>5

\* The same in three dimensions.
LEMMA RowOfRow ==
    ASSUME NEW r \in Nat \ {0}, NEW h \in Nat \ {0}, NEW k \in Nat \ {0}
    PROVE  Row(Row(k, h), r) = Row(k, CellCount(r, h))
<1>1. k - 1 \in Nat
  OBVIOUS
<1>2. ((k - 1) \div h) \div r = (k - 1) \div (CellCount(r, h))
  BY <1>1, DivideTwice DEF CellCount
<1>3. (k - 1) \div h \in Nat
  BY <1>1, Digits
<1>4. Row(k, h) - 1 = (k - 1) \div h
  BY <1>3 DEF Row
<1> QED
  BY <1>2, <1>4 DEF Row

LEMMA CellOfThree ==
    ASSUME NEW e \in Nat \ {0}, NEW r \in Nat \ {0}, NEW h \in Nat \ {0},
           NEW k \in 1 .. CellCount(CellCount(e, r), h)
    PROVE  /\ Row(k, h) \in 1 .. CellCount(e, r)
           /\ Row(k, CellCount(r, h)) \in 1 .. e
           /\ Row(k, CellCount(r, h)) = Row(Row(k, h), r)
           /\ Column(Row(k, h), r) \in 1 .. r
           /\ Column(k, h) \in 1 .. h
<1>1. CellCount(e, r) \in Nat /\ k \in Nat \ {0}
  BY CellCountType
<1>2. Row(k, h) \in 1 .. CellCount(e, r) /\ Column(k, h) \in 1 .. h
  BY <1>1, RowAndColumn
<1>3. Row(Row(k, h), r) \in 1 .. e /\ Column(Row(k, h), r) \in 1 .. r
  BY <1>2, RowAndColumn
<1>4. Row(k, CellCount(r, h)) = Row(Row(k, h), r)
  BY <1>1, RowOfRow
<1> QED
  BY <1>2, <1>3, <1>4, Zenon

LEMMA CellOfThreeIsUnique ==
    ASSUME NEW e \in Nat \ {0}, NEW r \in Nat \ {0}, NEW h \in Nat \ {0},
           NEW k \in 1 .. CellCount(CellCount(e, r), h), NEW j \in 1 .. CellCount(CellCount(e, r), h),
           Row(k, CellCount(r, h)) = Row(j, CellCount(r, h)),
           Column(Row(k, h), r) = Column(Row(j, h), r),
           Column(k, h) = Column(j, h)
    PROVE  k = j
<1>1. /\ Row(k, h) \in 1 .. CellCount(e, r) /\ Row(j, h) \in 1 .. CellCount(e, r)
      /\ Row(Row(k, h), r) = Row(Row(j, h), r)
  BY CellOfThree
<1>2. Row(k, h) = Row(j, h)
  BY <1>1, CellIsUnique
<1>3. CellCount(e, r) \in Nat
  BY CellCountType
<1> QED
  BY <1>2, <1>3, CellIsUnique

-----------------------------------------------------------------------------
(***************************************************************************)
(* The parameter space.                                                    *)
(***************************************************************************)

\* The configurations of a study with valid axes.
Grid(study) == [equity : {AsFloat(v) : v \in Range(study.equity)},
                rate : {AsFloat(v) : v \in Range(study.rates)},
                years : Range(study.horizons)]

LEMMA ConfigsAreTheGrid ==
    ASSUME NEW study, IsStudy(study), DeclaresValues(study), AxesAreValid(study)
    PROVE  \E n \in Nat \ {0} :
              /\ ParameterConfigs(study) \in [1 .. n -> Grid(study)]
              /\ \A c \in Grid(study) : \E k \in 1 .. n : ParameterConfigs(study)[k] = c
              /\ IsInjective(ParameterConfigs(study))
<1> DEFINE E == Len(study.equity)
           R == Len(study.rates)
           H == Len(study.horizons)
           n == CellCount(CellCount(E, R), H)
           configs == ParameterConfigs(study)
<1>1. /\ E \in Nat \ {0} /\ R \in Nat \ {0} /\ H \in Nat \ {0}
      /\ DOMAIN study.equity = 1 .. E /\ DOMAIN study.rates = 1 .. R
      /\ DOMAIN study.horizons = 1 .. H
  <2>1. \A values : values \in Seq(Range(values)) /\ values # <<>>
            => Len(values) \in Nat \ {0} /\ DOMAIN values = 1 .. Len(values)
    OBVIOUS
  <2> QED
    BY <2>1 DEF IsStudy, DeclaresValues
<1> DEFINE first(k) == Row(k, CellCount(R, H))
           second(k) == Column(Row(k, H), R)
           third(k) == Column(k, H)
           config(a, b, c) == [equity |-> AsFloat(study.equity[a]),
                               rate |-> AsFloat(study.rates[b]),
                               years |-> study.horizons[c]]
<1>2. configs = [k \in 1 .. n |-> config(first(k), second(k), third(k))]
  <2>1. \A k \in 1 .. n : Row(k, H) - 1 = (k - 1) \div H
    <3> HIDE DEF n, E, R, H
    <3> TAKE k \in 1 .. n
    <3>1. k - 1 \in Nat
      BY <1>1 DEF n
    <3>2. (k - 1) \div H \in Nat
      BY <1>1, <3>1, Digits
    <3> QED
      BY <3>2 DEF Row
  <2>2. \A k \in 1 .. n : Column(Row(k, H), R) = 1 + (((k - 1) \div H) % R)
    BY <2>1 DEF Column
  <2> QED
    BY <2>2 DEF ParameterConfigs, Row, Column, CellCount
<1>3. n \in Nat \ {0}
  <2> HIDE DEF E, R, H
  <2>1. CellCount(E, R) \in Nat \ {0}
    BY <1>1, CellCountType
  <2> QED
    BY <1>1, <2>1, CellCountType
<1> HIDE DEF E, R, H
<1>5. \A k \in 1 .. n : first(k) \in 1 .. E /\ second(k) \in 1 .. R /\ third(k) \in 1 .. H
  BY <1>1, CellOfThree
<1>6. \A a \in 1 .. E, b \in 1 .. R, c \in 1 .. H :
        \E k \in 1 .. n : first(k) = a /\ second(k) = b /\ third(k) = c
  <2> TAKE a \in 1 .. E, b \in 1 .. R, c \in 1 .. H
  <2>0. E \in Nat /\ CellCount(E, R) \in Nat
    BY <1>1, CellCountType
  <2> DEFINE q == Position(a, b, R)
             k == Position(q, c, H)
  <2>1. q \in 1 .. CellCount(E, R) /\ Row(q, R) = a /\ Column(q, R) = b
    BY <1>1, <2>0, CellHasPosition, ZenonT(60)
  <2> HIDE DEF q
  <2>2. k \in 1 .. CellCount(CellCount(E, R), H) /\ Row(k, H) = q /\ Column(k, H) = c
    BY <1>1, <2>0, <2>1, CellHasPosition, ZenonT(60)
  <2> HIDE DEF k
  <2>3. Row(k, CellCount(R, H)) = Row(Row(k, H), R)
    BY <1>1, <2>2, CellOfThree
  <2> QED
    BY <2>1, <2>2, <2>3
<1>7. \A k, j \in 1 .. n :
        first(k) = first(j) /\ second(k) = second(j) /\ third(k) = third(j) => k = j
  BY <1>1, CellOfThreeIsUnique
<1>8. \A a, b \in 1 .. E : AsFloat(study.equity[a]) = AsFloat(study.equity[b]) => a = b
  BY <1>1 DEF AxesAreValid, Axis, IsInjective
<1>9. \A a, b \in 1 .. R : AsFloat(study.rates[a]) = AsFloat(study.rates[b]) => a = b
  BY <1>1 DEF AxesAreValid, Axis, IsInjective
<1>10. \A a, b \in 1 .. H : study.horizons[a] = study.horizons[b] => a = b
  BY <1>1 DEF AxesAreValid, IsInjective
<1> HIDE DEF first, second, third, n, configs
<1>11. \A a \in 1 .. E, b \in 1 .. R, c \in 1 .. H : config(a, b, c) \in Grid(study)
  BY <1>1 DEF Grid, Range
<1>12. configs \in [1 .. n -> Grid(study)]
  <2> HIDE DEF config, E, R, H
  <2> QED
    BY <1>2, <1>5, <1>11
<1>13. ASSUME NEW c \in Grid(study) PROVE \E k \in 1 .. n : configs[k] = c
  <2>1. PICK x \in 1 .. E, y \in 1 .. R, z \in 1 .. H : c = config(x, y, z)
    BY <1>1 DEF Grid, Range
  <2>2. PICK k \in 1 .. n : first(k) = x /\ second(k) = y /\ third(k) = z
    BY <1>6
  <2> QED
    BY <1>2, <2>1, <2>2
<1>14. IsInjective(configs)
  <2> SUFFICES ASSUME NEW k \in 1 .. n, NEW j \in 1 .. n, configs[k] = configs[j]
               PROVE  k = j
    BY <1>2 DEF IsInjective
  <2>1. config(first(k), second(k), third(k)) = config(first(j), second(j), third(j))
    BY <1>2
  <2>2. first(k) = first(j) /\ second(k) = second(j) /\ third(k) = third(j)
    BY <1>5, <1>8, <1>9, <1>10, <2>1
  <2> QED
    BY <1>7, <2>2
<1> QED
  BY <1>3, <1>12, <1>13, <1>14 DEF configs
-----------------------------------------------------------------------------
(***************************************************************************)
(* Cohorts.                                                                *)
(***************************************************************************)

\* A position is that of the one month with a date.
LEMMA PositionIsUnique ==
    ASSUME NEW dataset, IsDataset(dataset), NEW i \in 1 .. Total(dataset)
    PROVE  PositionOf(dataset, dataset.snapshots[i].date) = i
<1> DEFINE position == PositionOf(dataset, dataset.snapshots[i].date)
<1>1. /\ position \in 1 .. Total(dataset)
      /\ dataset.snapshots[position].date = dataset.snapshots[i].date
  BY DEF PositionOf
<1>2. i < position \/ i = position \/ position < i
  BY <1>1 DEF IsDataset
<1>3. dataset.snapshots[i].date \in Nat
  BY DEF IsDataset
<1> HIDE DEF position
<1>4. ~(i < position) /\ ~(position < i)
  BY <1>1, <1>3 DEF IsDataset
<1> QED
  BY <1>2, <1>4 DEF position

\* A month is a feasible start exactly when it can be sliced.
LEMMA FeasibleIsSliceable ==
    ASSUME NEW dataset, IsDataset(dataset), NEW months \in Nat, months > 0,
           NEW i \in 1 .. Total(dataset)
    PROVE  Feasible(i, Total(dataset), months)
               <=> Sliceable(dataset, dataset.snapshots[i].date, months)
<1>1. Total(dataset) \in Nat /\ PositionOf(dataset, dataset.snapshots[i].date) = i
  BY PositionIsUnique DEF IsDataset
<1>2. dataset.snapshots[i].date \in DatesOf(dataset)
  BY DEF DatesOf
<1>3. Total(dataset) - i + 1 >= months <=> i + months <= Total(dataset) + 1
  BY <1>1
<1> QED
  BY <1>1, <1>2, <1>3 DEF Feasible, Sliceable

\* The three strategies agree, for any dataset and any horizon.
LEMMA StrategiesAgree ==
    ASSUME NEW dataset, IsDataset(dataset), NEW months \in Nat, months > 0
    PROVE  LET sliceable == {date \in DatesOf(dataset) : Sliceable(dataset, date, months)}
           IN  /\ RollingStarts(dataset, months) = sliceable
               /\ \A start, end \in DatesOf(dataset) :
                     RangeStarts(dataset, months, start, end) = sliceable \cap start .. end
               /\ \A dates \in (SUBSET DatesOf(dataset)) \ {{}} :
                     AcceptsStartDates(dataset, months, dates) <=> dates \subseteq sliceable
<1> DEFINE sliceable == {date \in DatesOf(dataset) : Sliceable(dataset, date, months)}
<1>1. \A i \in 1 .. Total(dataset) :
        Feasible(i, Total(dataset), months)
            <=> Sliceable(dataset, dataset.snapshots[i].date, months)
  BY FeasibleIsSliceable
<1>2. RollingStarts(dataset, months) = sliceable
  BY <1>1 DEF RollingStarts, DatesOf
<1>3. DatesOf(dataset) \subseteq Nat
  BY DEF DatesOf, IsDataset
<1>4. ASSUME NEW start \in DatesOf(dataset), NEW end \in DatesOf(dataset)
      PROVE  RangeStarts(dataset, months, start, end) = sliceable \cap start .. end
  <2>1. \A date \in sliceable : start <= date /\ date <= end <=> date \in start .. end
    BY <1>3
  <2> QED
    BY <1>2, <2>1 DEF RangeStarts
<1>5. ASSUME NEW date \in DatesOf(dataset)
      PROVE  Feasible(PositionOf(dataset, date), Total(dataset), months)
                 <=> date \in sliceable
  <2>1. PICK i \in 1 .. Total(dataset) : dataset.snapshots[i].date = date
    BY DEF DatesOf
  <2>2. PositionOf(dataset, date) = i
    BY <2>1, PositionIsUnique
  <2> QED
    BY <1>1, <2>1, <2>2
<1>6. ASSUME NEW dates \in (SUBSET DatesOf(dataset)) \ {{}}
      PROVE  AcceptsStartDates(dataset, months, dates) <=> dates \subseteq sliceable
  <2>1. dates # {} /\ \A date \in dates : date \in DatesOf(dataset)
    OBVIOUS
  <2> HIDE DEF sliceable
  <2>2. dates \subseteq sliceable
            <=> \A date \in dates :
                    Feasible(PositionOf(dataset, date), Total(dataset), months)
    BY <1>5, <2>1
  <2> QED
    BY <2>1, <2>2 DEF AcceptsStartDates
<1> QED
  BY <1>2, <1>4, <1>6

\* The first m months of a dataset have m dates.
LEMMA CountOfDates ==
    ASSUME NEW dataset, IsDataset(dataset), NEW m \in 0 .. Total(dataset)
    PROVE  Cardinality({dataset.snapshots[i].date : i \in 1 .. m}) = m
<1> DEFINE date == [i \in 1 .. m |-> dataset.snapshots[i].date]
           dates == {dataset.snapshots[i].date : i \in 1 .. m}
<1>1. Total(dataset) \in Nat /\ m \in Nat
  BY DEF IsDataset
<1>2. date \in Surjection(1 .. m, dates)
  BY DEF Surjection
<1>3. \A i, j \in 1 .. m : date[i] = date[j] => i = j
  <2> TAKE i, j \in 1 .. m
  <2>1. i \in 1 .. Total(dataset) /\ j \in 1 .. Total(dataset)
    BY <1>1
  <2>2. dataset.snapshots[i].date \in Nat /\ dataset.snapshots[j].date \in Nat
    BY <2>1 DEF IsDataset
  <2>3. i < j => dataset.snapshots[i].date < dataset.snapshots[j].date
    BY <2>1 DEF IsDataset
  <2>4. j < i => dataset.snapshots[j].date < dataset.snapshots[i].date
    BY <2>1 DEF IsDataset
  <2> QED
    BY <2>2, <2>3, <2>4
<1> HIDE DEF date
<1>4. date \in Bijection(1 .. m, dates)
  BY <1>2, <1>3 DEF Bijection, Injection, Surjection, IsInjective
<1>5. ExistsBijection(1 .. m, dates)
  BY <1>4 DEF ExistsBijection
<1> QED
  BY <1>1, <1>5, FS_CountingElements

\* The starts of the plan are the first months of the dataset, in their order.
LEMMA StartsInOrder ==
    ASSUME NEW dataset, IsDataset(dataset), NEW months \in Nat, months > 0,
           Total(dataset) >= months, NEW n \in Nat, n = Total(dataset) + 1 - months
    PROVE  /\ RollingStarts(dataset, months) = {dataset.snapshots[i].date : i \in 1 .. n}
           /\ Chronological(RollingStarts(dataset, months))
                = [k \in 1 .. n |-> dataset.snapshots[k].date]
<1> DEFINE starts == {dataset.snapshots[i].date : i \in 1 .. n}
           Before(date) == {d \in starts : d < date}
<1>1. Total(dataset) \in Nat /\ n <= Total(dataset)
  BY DEF IsDataset
<1>2. \A j \in 1 .. Total(dataset) : Feasible(j, Total(dataset), months) <=> j \in 1 .. n
  BY <1>1 DEF Feasible
<1>3. RollingStarts(dataset, months) = starts
  BY <1>1, <1>2 DEF RollingStarts
<1>4. Cardinality(starts) = n
  BY <1>1, CountOfDates
<1>5. ASSUME NEW k \in 1 .. n
      PROVE  Cardinality(Before(dataset.snapshots[k].date)) = k - 1
  <2>1. \A i \in 1 .. n : /\ i \in 1 .. Total(dataset)
                          /\ dataset.snapshots[i].date \in Nat
    BY <1>1 DEF IsDataset
  <2>2. \A i \in 1 .. n : dataset.snapshots[i].date < dataset.snapshots[k].date
                              <=> i \in 1 .. k - 1
    <3> TAKE i \in 1 .. n
    <3>1. i < k => dataset.snapshots[i].date < dataset.snapshots[k].date
      BY <2>1 DEF IsDataset
    <3>2. k < i => dataset.snapshots[k].date < dataset.snapshots[i].date
      BY <2>1 DEF IsDataset
    <3>3. dataset.snapshots[i].date \in Nat /\ dataset.snapshots[k].date \in Nat
      BY <2>1
    <3> QED
      BY <3>1, <3>2, <3>3
  <2>3. Before(dataset.snapshots[k].date)
            = {dataset.snapshots[i].date : i \in 1 .. k - 1}
    BY <2>2
  <2>4. k - 1 \in 0 .. Total(dataset)
    BY <1>1
  <2> QED
    BY <2>3, <2>4, CountOfDates
<1>6. ASSUME NEW k \in 1 .. n
      PROVE  (CHOOSE date \in starts : Cardinality(Before(date)) = k - 1)
                = dataset.snapshots[k].date
  <2> DEFINE chosen == CHOOSE date \in starts : Cardinality(Before(date)) = k - 1
  <2>1. dataset.snapshots[k].date \in starts
    OBVIOUS
  <2> HIDE DEF Before
  <2>2. chosen \in starts /\ Cardinality(Before(chosen)) = k - 1
    BY <1>5, <2>1
  <2>3. PICK j \in 1 .. n : chosen = dataset.snapshots[j].date
    BY <2>2
  <2>4. Cardinality(Before(chosen)) = j - 1
    BY <1>5, <2>3
  <2>5. j = k
    BY <2>2, <2>4
  <2> QED
    BY <2>3, <2>5
<1> HIDE DEF starts
<1>7. Chronological(starts)
        = [k \in 1 .. n |-> CHOOSE date \in starts : Cardinality(Before(date)) = k - 1]
  BY <1>4 DEF Chronological
<1>8. Chronological(starts) = [k \in 1 .. n |-> dataset.snapshots[k].date]
  <2> HIDE DEF Before
  <2> QED
    BY <1>6, <1>7
<1> QED
  BY <1>3, <1>8 DEF starts

-----------------------------------------------------------------------------
(***************************************************************************)
(* The plan.                                                               *)
(***************************************************************************)

\* A function on the first n numbers is a sequence of length n.
LEMMA LengthOf ==
    ASSUME NEW n \in Nat, NEW f, f = [k \in 1 .. n |-> f[k]]
    PROVE  Len(f) = n /\ DOMAIN f = 1 .. n
<1>1. f \in [1 .. n -> {f[k] : k \in 1 .. n}]
  OBVIOUS
<1> QED
  BY <1>1

\* A set of numbers that is not empty has a least one.
LEMMA LeastOf ==
    ASSUME NEW S \in SUBSET Nat, S # {}
    PROVE  Min(S) \in S /\ \A k \in S : Min(S) <= k
<1> DEFINE before == OpToRel(<, Nat)
<1>1. \A a, b \in Nat : a < b => <<a, b>> \in before
  BY DEF OpToRel
<1>2. IsWellFoundedOn(before, Nat)
  BY NatLessThanWellFounded
<1>3. PICK m \in S : \A k \in S : ~(<<k, m>> \in before)
  <2> HIDE DEF before
  <2> QED
    BY <1>2, WFMin
<1> HIDE DEF before
<1>4. \A k \in S : ~(k < m)
  BY <1>1, <1>3, Zenon
<1>5. \A k \in S : m <= k
  BY <1>4
<1> QED
  BY <1>5 DEF Min

\* A slice has the months it was asked for, from its start.
LEMMA SliceFromStart ==
    ASSUME NEW dataset, IsDataset(dataset), NEW months \in Nat, NEW start,
           Sliceable(dataset, start, months)
    PROVE  /\ Len(Slice(dataset, start, months)) = months
           /\ DOMAIN Slice(dataset, start, months) = 1 .. months
           /\ \A i \in 1 .. months :
                Slice(dataset, start, months)[i]
                    = dataset.snapshots[PositionOf(dataset, start) + i - 1]
<1>1. PICK j \in 1 .. Total(dataset) : dataset.snapshots[j].date = start
  BY DEF Sliceable, DatesOf
<1>2. PICK first \in Nat : /\ first = PositionOf(dataset, start)
                           /\ first \in 1 .. Total(dataset)
  BY <1>1, PositionIsUnique
<1>3. PICK last \in Nat : last = first + months - 1
  BY <1>2
<1> DEFINE S == {dataset.snapshots[i] : i \in first .. last}
           slice == SubSeq(dataset.snapshots, first, last)
<1>4. \A i \in first .. last : dataset.snapshots[i] \in S
  OBVIOUS
<1>5. first \in Int /\ last \in Int /\ first <= last /\ last - first + 1 = months
  BY <1>2, <1>3 DEF Sliceable
<1>6. /\ slice \in Seq(S) /\ Len(slice) = last - first + 1
      /\ \A i \in 1 .. last - first + 1 : slice[i] = dataset.snapshots[first + i - 1]
  <2> HIDE DEF S
  <2> QED
    BY <1>4, <1>5, SubSeqProperties
<1>7. Slice(dataset, start, months) = slice
  BY <1>2, <1>3 DEF Slice
<1> HIDE DEF slice, S
<1> QED
  BY <1>2, <1>5, <1>6, <1>7

\* Units that are those of a grid of starts and configurations, each once, with
\* the months of their own horizon from their own start.
AreTheGrid(units, dataset, grid) ==
    /\ {<<units[k].start, units[k].config>> : k \in DOMAIN units} = grid
    /\ Len(units) = Cardinality(grid)
    /\ \A k \in DOMAIN units :
        /\ Len(units[k].snapshots) = Months(units[k].config.years)
        /\ \A i \in DOMAIN units[k].snapshots :
            units[k].snapshots[i]
                = dataset.snapshots[PositionOf(dataset, units[k].start) + i - 1]

\* The units are counted, and their horizons are numbers of months.
HaveHorizons(units) ==
    /\ DOMAIN units \subseteq Nat /\ IsFiniteSet(DOMAIN units)
    /\ \A k \in DOMAIN units : units[k].horizon \in Nat

\* The plan has a unit for every start and every configuration, none twice,
\* and a slice that is shared is the slice of each unit that shares it.
LEMMA UnitsAreTheGrid ==
    ASSUME NEW study, IsStudy(study), DeclaresValues(study), AxesAreValid(study),
           NEW dataset, IsDataset(dataset),
           NEW m \in Nat, NEW starts \in [1 .. m -> Nat], IsInjective(starts),
           \A start \in Range(starts), years \in Range(study.horizons) :
                Sliceable(dataset, start, Months(years))
    PROVE  /\ AreTheGrid(Units(study, dataset, starts), dataset,
                         Range(starts) \X Grid(study))
           /\ HaveHorizons(Units(study, dataset, starts))
<1> DEFINE configs == ParameterConfigs(study)
           units == Units(study, dataset, starts)
<1>1. PICK n \in Nat \ {0} :
        /\ configs \in [1 .. n -> Grid(study)]
        /\ \A c \in Grid(study) : \E k \in 1 .. n : configs[k] = c
        /\ IsInjective(configs)
  BY ConfigsAreTheGrid
<1>2. Len(configs) = n /\ Len(starts) = m
  <2>1. configs = [k \in 1 .. n |-> configs[k]] /\ starts = [k \in 1 .. m |-> starts[k]]
    BY <1>1
  <2> HIDE DEF configs
  <2> QED
    BY <2>1, LengthOf
<1> DEFINE N == CellCount(m, n)
           start(k) == starts[Row(k, n)]
           config(k) == configs[Column(k, n)]
           slice(k) == Slice(dataset, start(k), Months(config(k).years))
<1>3. N \in Nat
  BY <1>1, CellCountType
<1>4. /\ Len(units) = N /\ DOMAIN units = 1 .. N
      /\ \A k \in 1 .. N : /\ units[k].start = start(k)
                           /\ units[k].config = config(k)
                           /\ units[k].horizon = Months(config(k).years)
                           /\ units[k].snapshots = slice(k)
  <2> DEFINE pairs == [k \in 1 .. N |-> [start |-> start(k), config |-> config(k)]]
  <2>1. pairs = [k \in 1 .. Len(starts) * Len(configs) |->
                    [start |-> starts[1 + (k - 1) \div Len(configs)],
                     config |-> configs[1 + ((k - 1) % Len(configs))]]]
    BY <1>2 DEF Row, Column, CellCount
  <2>2. DOMAIN pairs = 1 .. N
    OBVIOUS
  <2>3. \A k \in 1 .. N : pairs[k].start = start(k) /\ pairs[k].config = config(k)
    OBVIOUS
  <2> DEFINE Key(k) == CacheKey(pairs[k].start, pairs[k].config)
             first(k) == Min({j \in 1 .. k : Key(j) = Key(k)})
             SliceOf(p) == Slice(dataset, p.start, Months(p.config.years))
  <2> HIDE DEF configs, pairs, N, start, config
  <2>4. units = [k \in 1 .. N |->
                    [start |-> pairs[k].start, config |-> pairs[k].config,
                     policy |-> study.policy,
                     horizon |-> Months(pairs[k].config.years),
                     snapshots |-> SliceOf(pairs[first(k)])]]
    BY <2>1, <2>2 DEF Units, configs
  <2>5. ASSUME NEW k \in 1 .. N PROVE SliceOf(pairs[first(k)]) = SliceOf(pairs[k])
    <3> DEFINE same == {j \in 1 .. k : Key(j) = Key(k)}
    <3>1. same \subseteq Nat /\ k \in same
      BY <1>3
    <3>2. first(k) \in same
      <4> HIDE DEF same
      <4>1. Min(same) \in same
        BY <3>1, LeastOf
      <4> QED
        BY <4>1 DEF same
    <3>3. Key(first(k)) = Key(k)
      <4> HIDE DEF first, Key
      <4> QED
        BY <3>2
    <3> HIDE DEF first
    <3> QED
      BY <3>3 DEF CacheKey
  <2> HIDE DEF SliceOf, first
  <2>6. Len(units) = N /\ DOMAIN units = 1 .. N
    <3>1. units = [k \in 1 .. N |-> units[k]]
      BY <2>4
    <3> HIDE DEF units
    <3> QED
      BY <1>3, <3>1, LengthOf
  <2>7. ASSUME NEW k \in 1 .. N
        PROVE  /\ units[k].start = start(k) /\ units[k].config = config(k)
               /\ units[k].horizon = Months(config(k).years)
               /\ units[k].snapshots = slice(k)
    <3>1. /\ units[k].start = pairs[k].start /\ units[k].config = pairs[k].config
          /\ units[k].horizon = Months(pairs[k].config.years)
          /\ units[k].snapshots = SliceOf(pairs[first(k)])
      BY <2>4
    <3> HIDE DEF units
    <3> QED
      BY <2>3, <2>5, <3>1 DEF SliceOf
  <2> QED
    BY <2>6, <2>7
<1> HIDE DEF units, configs
<1>5. \A k \in 1 .. N : Row(k, n) \in 1 .. m /\ Column(k, n) \in 1 .. n
  BY <1>1, RowAndColumn
<1> DEFINE cell == [k \in 1 .. N |-> <<start(k), config(k)>>]
           grid == Range(starts) \X Grid(study)
<1>6. cell \in [1 .. N -> grid]
  BY <1>1, <1>5 DEF Range
<1>7. ASSUME NEW c \in grid PROVE \E k \in 1 .. N : cell[k] = c
  <2>1. PICK a \in 1 .. m, g \in Grid(study) : c = <<starts[a], g>>
    BY DEF Range
  <2>2. PICK b \in 1 .. n : configs[b] = g
    BY <1>1
  <2>3. Position(a, b, n) \in 1 .. CellCount(m, n)
    BY CellHasPosition
  <2>4. Row(Position(a, b, n), n) = a /\ Column(Position(a, b, n), n) = b
    BY CellHasPosition
  <2> QED
    BY <2>1, <2>2, <2>3, <2>4
<1>8. \A k, j \in 1 .. N : cell[k] = cell[j] => k = j
  <2> SUFFICES ASSUME NEW k \in 1 .. N, NEW j \in 1 .. N, cell[k] = cell[j]
               PROVE  k = j
    OBVIOUS
  <2>1. start(k) = start(j) /\ config(k) = config(j)
    OBVIOUS
  <2>2. Row(k, n) = Row(j, n) /\ Column(k, n) = Column(j, n)
    BY <1>1, <1>5, <2>1 DEF IsInjective
  <2> QED
    BY <2>2, CellIsUnique
<1>9. Cardinality(grid) = N
  <2> HIDE DEF cell, grid
  <2>1. cell \in Bijection(1 .. N, grid)
    BY <1>6, <1>7, <1>8 DEF Bijection, Injection, Surjection, IsInjective
  <2>2. ExistsBijection(1 .. N, grid)
    BY <2>1 DEF ExistsBijection
  <2> QED
    BY <1>3, <2>2, FS_CountingElements
<1>10. {<<units[k].start, units[k].config>> : k \in DOMAIN units} = grid
  <2>1. \A k \in 1 .. N : <<units[k].start, units[k].config>> = cell[k]
    BY <1>4
  <2> HIDE DEF cell, grid
  <2> QED
    BY <1>4, <1>6, <1>7, <2>1, ZenonT(60)
<1>11. ASSUME NEW k \in DOMAIN units
       PROVE  /\ units[k].horizon \in Nat
              /\ Len(units[k].snapshots) = Months(units[k].config.years)
              /\ \A i \in DOMAIN units[k].snapshots :
                    units[k].snapshots[i]
                        = dataset.snapshots[PositionOf(dataset, units[k].start) + i - 1]
  <2>1. start(k) \in Range(starts) /\ config(k).years \in Range(study.horizons)
    BY <1>1, <1>4, <1>5 DEF Range, Grid
  <2>2. Months(config(k).years) \in Nat
    <3>1. \A years \in Range(study.horizons) : years \in Nat
      BY DEF IsStudy, DeclaresValues, Range
    <3> QED
      BY <2>1, <3>1, MonthsAssumption DEF Months
  <2>3. Sliceable(dataset, start(k), Months(config(k).years))
    BY <2>1
  <2>4. /\ units[k].start = start(k) /\ units[k].config = config(k)
        /\ units[k].horizon = Months(config(k).years)
        /\ units[k].snapshots = slice(k)
    BY <1>4
  <2> HIDE DEF start, config
  <2>5. /\ Len(slice(k)) = Months(config(k).years)
        /\ DOMAIN slice(k) = 1 .. Months(config(k).years)
        /\ \A i \in 1 .. Months(config(k).years) :
            slice(k)[i] = dataset.snapshots[PositionOf(dataset, start(k)) + i - 1]
    BY <2>2, <2>3, SliceFromStart
  <2> QED
    BY <2>2, <2>4, <2>5
<1>12. HaveHorizons(units)
  <2>1. IsFiniteSet(1 .. N) /\ 1 .. N \subseteq Nat
    BY <1>3, FS_Interval, SMTT(40)
  <2> QED
    BY <1>4, <1>11, <2>1 DEF HaveHorizons
<1> QED
  BY <1>4, <1>9, <1>10, <1>11, <1>12 DEF units, AreTheGrid

\* What is said of a plan: the starts are all the months from which the longest
\* horizon fits.
StartsOf(study, dataset) ==
    {dataset.snapshots[i].date :
        i \in 1 .. Total(dataset) + 1 - Months(LongestHorizon(study))}

LEMMA PlanIsTheGridOfItsStudy ==
    ASSUME NEW study, IsStudy(study), DeclaresValues(study), AxesAreValid(study),
           LongestHorizon(study) \in Nat, NEW dataset, IsDataset(dataset),
           CanHaveCohorts(dataset, Months(LongestHorizon(study))),
           \A start \in Range(PlanCohorts(study, dataset)), years \in Range(study.horizons) :
                Sliceable(dataset, start, Months(years))
    PROVE  /\ AreTheGrid(Units(study, dataset, PlanCohorts(study, dataset)), dataset,
                         StartsOf(study, dataset) \X Grid(study))
           /\ HaveHorizons(Units(study, dataset, PlanCohorts(study, dataset)))
<1> DEFINE starts == PlanCohorts(study, dataset)
<1>1. PICK months \in Nat : months = Months(LongestHorizon(study))
  BY MonthsAssumption DEF Months
<1>2. months > 0 /\ Total(dataset) >= months
  BY <1>1 DEF CanHaveCohorts
<1>3. PICK n \in Nat : n = Total(dataset) + 1 - months
  BY <1>2 DEF IsDataset
<1>4. starts = [k \in 1 .. n |-> dataset.snapshots[k].date]
  BY <1>1, <1>2, <1>3, StartsInOrder DEF PlanCohorts
<1>5. n \in 0 .. Total(dataset)
  BY <1>2, <1>3 DEF IsDataset
<1>6. \A k \in 1 .. n : k \in 1 .. Total(dataset)
  BY <1>5 DEF IsDataset
<1>7. starts \in [1 .. n -> Nat]
  BY <1>4, <1>6 DEF IsDataset
<1>8. IsInjective(starts)
  <2> SUFFICES ASSUME NEW j \in 1 .. n, NEW k \in 1 .. n, starts[j] = starts[k]
               PROVE  j = k
    BY <1>7 DEF IsInjective
  <2>1. dataset.snapshots[j].date = dataset.snapshots[k].date
    BY <1>4
  <2> QED
    BY <1>6, <2>1, PositionIsUnique
<1>9. Range(starts) = StartsOf(study, dataset)
  BY <1>1, <1>3, <1>4 DEF Range, StartsOf
<1> HIDE DEF starts
<1> QED
  BY <1>7, <1>8, <1>9, UnitsAreTheGrid DEF starts
===============================================================================
