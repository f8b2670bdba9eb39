----------------------- MODULE ParallelExecution_proofs -----------------------
(***************************************************************************)
(* Theorems about ParallelExecution for any plans, configurations, number  *)
(* of workers and failing units.                                           *)
(***************************************************************************)
EXTENDS ParallelExecution, SequenceTheorems, TLAPS

-----------------------------------------------------------------------------
(***************************************************************************)
(* How a plan is cut.                                                      *)
(***************************************************************************)

\* The integer quotient.
LEMMA Quotient ==
    ASSUME NEW a \in Nat, NEW d \in Nat \ {0}
    PROVE  /\ a \div d \in Nat
           /\ (a \div d) * d <= a
           /\ a < (a \div d) * d + d
BY SMT

LEMMA ProductGrows ==
    ASSUME NEW a \in Nat, NEW b \in Nat, NEW c \in Nat, a < b
    PROVE  a * c + c <= b * c
BY Z3

LEMMA FunctionIsSeq ==
    ASSUME NEW S, NEW m \in Nat, NEW f \in [1 .. m -> S]
    PROVE  f \in Seq(S) /\ Len(f) = m
BY SMT

\* Consecutive ranges, none of them empty, from the first unit to the last.
IsCut(ranges, n) ==
    /\ ranges \in Seq([first : Nat, last : Nat])
    /\ ranges # <<>>
    /\ ranges[1].first = 1
    /\ ranges[Len(ranges)].last = n
    /\ \A k \in 1 .. Len(ranges) :
        /\ 1 <= ranges[k].first /\ ranges[k].first <= ranges[k].last
        /\ ranges[k].last <= n
    /\ \A k \in 1 .. Len(ranges) - 1 : ranges[k + 1].first = ranges[k].last + 1

\* Ranges of any fixed size cut any plan, the shorter last one included.
LEMMA BatchesCut ==
    ASSUME NEW n \in Nat \ {0}, NEW size \in Nat \ {0}
    PROVE  IsCut(Batches(n, size), n)
<1> DEFINE m == (n + size - 1) \div size
           ranges == Batches(n, size)
<1>1. /\ m \in Nat /\ m * size <= n + size - 1 /\ n + size - 1 < m * size + size
  <2>1. n + size - 1 \in Nat
    OBVIOUS
  <2> QED
    BY <2>1, Quotient
<1>2. ranges = [k \in 1 .. m |->
        [first |-> (k - 1) * size + 1, last |-> IF k * size < n THEN k * size ELSE n]]
  BY DEF Batches
<1> HIDE DEF m, ranges
<1>3. m * size \in Nat /\ n <= m * size
  BY <1>1
<1>4. m # 0
  <2>1. 0 * size = 0
    OBVIOUS
  <2> QED
    BY <1>3, <2>1
<1>5. \A k \in 1 .. m : /\ k * size \in Nat /\ (k - 1) * size \in Nat
                        /\ k * size = (k - 1) * size + size
  BY <1>1
<1>6. \A k \in 1 .. m : k < m => k * size < n
  <2> SUFFICES ASSUME NEW k \in 1 .. m, k < m PROVE k * size < n
    OBVIOUS
  <2>1. k * size + size <= m * size
    BY <1>1, ProductGrows
  <2> QED
    BY <1>1, <1>3, <1>5, <2>1
<1>7. \A k \in 1 .. m : (k - 1) * size < n
  <2> SUFFICES ASSUME NEW k \in 1 .. m PROVE (k - 1) * size < n
    OBVIOUS
  <2>1. CASE k = 1
    BY <2>1
  <2>2. CASE k # 1
    <3>1. k - 1 \in 1 .. m /\ k - 1 < m
      BY <1>1, <2>2
    <3> QED
      BY <1>6, <3>1
  <2> QED
    BY <2>1, <2>2
<1>8. ranges \in Seq([first : Nat, last : Nat]) /\ Len(ranges) = m
  <2>1. \A k \in 1 .. m :
          ranges[k] = [first |-> (k - 1) * size + 1,
                       last |-> IF k * size < n THEN k * size ELSE n]
    BY <1>2
  <2>2. ASSUME NEW k \in 1 .. m PROVE ranges[k] \in [first : Nat, last : Nat]
    <3> DEFINE a == (k - 1) * size + 1
               b == IF k * size < n THEN k * size ELSE n
    <3>1. a \in Nat /\ b \in Nat
      BY <1>5
    <3>2. ranges[k] = [first |-> a, last |-> b]
      BY <2>1
    <3> HIDE DEF a, b
    <3> QED
      BY <3>1, <3>2
  <2>3. ranges \in [1 .. m -> [first : Nat, last : Nat]]
    BY <1>2, <2>2
  <2> QED
    BY <1>1, <2>3, FunctionIsSeq
<1>9. \A k \in 1 .. m :
        /\ ranges[k].first = (k - 1) * size + 1
        /\ ranges[k].last = IF k * size < n THEN k * size ELSE n
  BY <1>2
<1>10. ranges[1].first = 1 /\ ranges[m].last = n /\ ranges # <<>>
  <2>1. 1 \in 1 .. m /\ m \in 1 .. m
    BY <1>1, <1>4
  <2>2. (1 - 1) * size = 0
    OBVIOUS
  <2>3. ranges[1].first = 1
    BY <1>9, <2>1, <2>2
  <2>4. ranges[m].last = n
    <3>1. ranges[m].last = IF m * size < n THEN m * size ELSE n
      BY <1>9, <2>1
    <3> QED
      BY <1>3, <3>1
  <2>5. ranges # <<>>
    BY <1>4, <1>8
  <2> QED
    BY <2>3, <2>4, <2>5
<1>11. \A k \in 1 .. m :
        /\ 1 <= ranges[k].first /\ ranges[k].first <= ranges[k].last
        /\ ranges[k].last <= n
  BY <1>5, <1>7, <1>9
<1>12. \A k \in 1 .. m - 1 : ranges[k + 1].first = ranges[k].last + 1
  <2> SUFFICES ASSUME NEW k \in 1 .. m - 1
               PROVE  ranges[k + 1].first = ranges[k].last + 1
    OBVIOUS
  <2>1. k \in 1 .. m /\ k + 1 \in 1 .. m /\ k < m /\ (k + 1) - 1 = k
    BY <1>1
  <2>2. ranges[k].last = k * size
    BY <1>6, <1>9, <2>1
  <2> QED
    BY <1>9, <2>1, <2>2
<1> QED
  BY <1>8, <1>10, <1>11, <1>12 DEF IsCut, ranges

\* There is a worker, and a batch has a unit.
LEMMA Sizes ==
    ASSUME plan \in Plans, config \in Configs
    PROVE  /\ plan \in Seq(Units) /\ Len(plan) \in Nat \ {0}
           /\ EffectiveWorkers \in Nat \ {0}
           /\ BatchSize \in Nat \ {0}
<1>1. plan \in Seq(Units) /\ Len(plan) \in Nat \ {0}
  <2>1. plan \in Seq(Units) /\ plan # <<>>
    BY PlansAssumption
  <2> QED
    BY <2>1, EmptySeq
<1>2. config.max_workers \in Nat /\ config.chunk_size \in Nat
  BY ConfigsAssumption DEF Config
<1>3. EffectiveWorkers \in Nat \ {0}
  BY <1>2, ConfigsAssumption DEF EffectiveWorkers
<1>4. (Len(plan) + EffectiveWorkers - 1) \div EffectiveWorkers \in Nat \ {0}
  <2> DEFINE a == Len(plan) + EffectiveWorkers - 1
             q == a \div EffectiveWorkers
  <2>1. a \in Nat /\ EffectiveWorkers <= a
    BY <1>1, <1>3
  <2> HIDE DEF a
  <2>2. q \in Nat /\ a < q * EffectiveWorkers + EffectiveWorkers
    BY <1>3, <2>1, Quotient
  <2> HIDE DEF q
  <2>3. q # 0
    <3>1. 0 * EffectiveWorkers = 0
      BY <1>3
    <3> QED
      BY <1>3, <2>1, <2>2, <3>1
  <2> QED
    BY <2>2, <2>3 DEF q, a
<1> QED
  BY <1>1, <1>2, <1>3, <1>4 DEF BatchSize

-----------------------------------------------------------------------------
(***************************************************************************)
(* The caller.                                                             *)
(***************************************************************************)

Pooled == phase \in {"submit", "collect", "shutdown"}

\* Where the caller is, and how far it has got.
CallerInv ==
    /\ plan \in Plans /\ config \in Configs
    /\ phase \in {"start", "sequential", "submit", "collect", "shutdown", "done"}
    /\ raised \in Exceptions \cup {"none"}
    /\ outcome \in Exceptions \cup {"running", "returned"}
    /\ phase = "done" <=> outcome # "running"
    /\ batches = <<>> \/ IsCut(batches, Len(plan))
    /\ phase \in {"start", "sequential"} => batches = <<>>
    /\ Pooled => batches # <<>>
    /\ future \in [DOMAIN batches -> Exceptions \cup {"pending", "finished"}]
    /\ submitted \in 0 .. Len(batches) /\ taken \in 0 .. submitted
    /\ awaited \in 1 .. Len(batches) + 1
    /\ phase \in {"start", "sequential", "submit", "collect"} => raised = "none"
    /\ phase = "submit" => awaited = 1 /\ submitted < Len(batches)
    /\ phase = "collect" => submitted = Len(batches) /\ awaited <= Len(batches)
    /\ phase = "shutdown" /\ raised = "none" => awaited = Len(batches) + 1
    /\ waited \in 0 .. config.timeout
    /\ deaths \in 0 .. MaxDeaths /\ disturbed \in BOOLEAN

LEMMA BatchCount ==
    ASSUME CallerInv
    PROVE  /\ Len(batches) \in Nat
           /\ batches # <<>> => Len(batches) \in Nat \ {0}
           /\ batches = <<>> => Len(batches) = 0
           /\ DOMAIN batches = 1 .. Len(batches)
<1>1. CASE batches = <<>>
  BY <1>1
<1>2. CASE IsCut(batches, Len(plan))
  <2>1. batches \in Seq([first : Nat, last : Nat])
    BY <1>2 DEF IsCut
  <2> QED
    BY <2>1, EmptySeq, LenProperties
<1> QED
  BY <1>1, <1>2 DEF CallerInv

LEMMA CallerInit == Init => CallerInv
<1> SUFFICES ASSUME Init PROVE CallerInv
  OBVIOUS
<1>1. config.timeout \in Nat /\ MaxDeaths \in Nat
  BY ConfigsAssumption DEF Init, Config
<1>2. Len(batches) = 0 /\ batches = <<>>
  BY DEF Init
<1>3. \A S : future \in [DOMAIN batches -> S]
  <2> SUFFICES ASSUME NEW S PROVE <<>> \in [DOMAIN <<>> -> S]
    BY DEF Init
  <2>1. <<>> \in Seq(S)
    BY EmptySeq
  <2> QED
    BY <2>1, LenProperties
<1>4. awaited \in 1 .. Len(batches) + 1 /\ waited \in 0 .. config.timeout
      /\ deaths \in 0 .. MaxDeaths /\ submitted \in 0 .. Len(batches) /\ taken \in 0 .. submitted
  BY <1>1, <1>2 DEF Init
<1> QED
  BY <1>2, <1>3, <1>4 DEF Init, CallerInv, Pooled

LEMMA CallerStep == CallerInv /\ [Next]_vars => CallerInv'
<1> SUFFICES ASSUME CallerInv, [Next]_vars PROVE CallerInv'
  OBVIOUS
<1>0. /\ Len(batches) \in Nat /\ (batches # <<>> => Len(batches) \in Nat \ {0})
      /\ MaxDeaths \in Nat /\ config.timeout \in Nat
  BY BatchCount, ConfigsAssumption DEF CallerInv, Config
<1> USE DEF CallerInv, Pooled, Exceptions, UnitErrors, futures, pool
<1>1. CASE Start
  <2>1. CASE EffectiveWorkers = 1
    BY <1>1, <2>1 DEF Start, environment
  <2>2. CASE EffectiveWorkers # 1
    <3>1. batches' = Batches(Len(plan), BatchSize) /\ phase' = "submit"
      BY <1>1, <2>2 DEF Start
    <3>2. IsCut(batches', Len(plan))
      BY <3>1, Sizes, BatchesCut
    <3>3. batches' # <<>> /\ Len(batches') \in Nat \ {0}
      BY <3>2, EmptySeq DEF IsCut
    <3>4. future' \in [DOMAIN batches' -> {"pending"}]
      BY <1>1, <2>2 DEF Start
    <3>5. UNCHANGED <<plan, config, raised, outcome, awaited, waited, submitted, deaths,
                      disturbed, taken>> /\ submitted = 0 /\ awaited = 1 /\ phase = "start"
      BY <1>0, <1>1 DEF Start, environment
    <3> QED
      BY <3>1, <3>2, <3>3, <3>4, <3>5
  <2> QED
    BY <2>1, <2>2
<1>2. CASE SimulateNext
  BY <1>0, <1>2 DEF SimulateNext, environment
<1>3. CASE ReturnSequential
  BY <1>0, <1>3 DEF ReturnSequential, environment
<1>4. CASE Submit
  <2>1. CASE deaths > 0
    BY <1>0, <1>4, <2>1 DEF Submit, environment
  <2>2. CASE ~(deaths > 0)
    BY <1>0, <1>4, <2>2 DEF Submit, environment
  <2> QED
    BY <2>1, <2>2
<1>5. CASE Collect
  <2>1. awaited \in DOMAIN batches
    BY <1>0, <1>5, BatchCount DEF Collect
  <2> QED
    BY <1>0, <1>5, <2>1 DEF Collect, environment
<1>6. CASE CollectException
  <2>1. awaited \in DOMAIN batches
    BY <1>0, <1>6, BatchCount DEF AfterException, CollectException
  <2>2. future[awaited] \in Exceptions
    BY <1>6, <2>1 DEF AfterException, CollectException
  <2> QED
    BY <1>0, <1>6, <2>2 DEF AfterException, CollectException, environment
<1>7. CASE TimeoutExpires
  BY <1>0, <1>7 DEF AfterException, TimeoutExpires, Waiting, environment
<1>8. CASE Leave
  BY <1>0, <1>8 DEF Leave, environment
<1>9. CASE Tick
  BY <1>0, <1>9 DEF Tick, Waiting, environment
<1>10. CASE OtherCallStarts
  BY <1>0, <1>10 DEF OtherCallStarts, caller
<1>11. ASSUME NEW w \in Workers, StartWorker(w) PROVE CallerInv'
  BY <1>0, <1>11 DEF StartWorker, caller, environment
<1>12. ASSUME NEW w \in Workers, TakeBatch(w) PROVE CallerInv'
  <2>1. future' \in [DOMAIN batches -> Exceptions \cup {"pending", "finished"}]
    BY <1>12 DEF TakeBatch
  <2>2. taken' \in 0 .. submitted
    BY <1>0, <1>12 DEF TakeBatch
  <2> QED
    BY <1>0, <1>12, <2>1, <2>2 DEF TakeBatch, caller, environment
<1>13. ASSUME NEW w \in Workers, ExecuteUnit(w) PROVE CallerInv'
  <2>1. future' \in [DOMAIN batches -> Exceptions \cup {"pending", "finished"}]
    BY <1>13 DEF ExecuteUnit
  <2> QED
    BY <1>0, <1>13, <2>1 DEF ExecuteUnit, caller, environment
<1>14. ASSUME NEW w \in Workers, WorkerDies(w) PROVE CallerInv'
  <2>1. future' \in [DOMAIN batches -> Exceptions \cup {"pending", "finished"}]
    BY <1>14 DEF WorkerDies
  <2> QED
    BY <1>0, <1>14, <2>1 DEF WorkerDies, caller
<1>15. CASE UNCHANGED vars
  BY <1>0, <1>15 DEF vars, caller, environment
<1> QED
  BY <1>1, <1>2, <1>3, <1>4, <1>5, <1>6, <1>7, <1>8, <1>9, <1>10, <1>11, <1>12,
     <1>13, <1>14, <1>15 DEF Next, Caller, Worker

-----------------------------------------------------------------------------
(***************************************************************************)
(* The queue of the pool.                                                  *)
(***************************************************************************)

\* The arguments of the call stay, and so does the number of its workers.
LEMMA ArgumentsStay ==
    [Next]_vars => UNCHANGED <<plan, config>> /\ Workers' = Workers
<1>1. [Next]_vars => UNCHANGED <<plan, config>>
  BY DEF Next, Caller, Worker, vars, Start, SimulateNext, ReturnSequential, Submit, Collect,
         AfterException, CollectException, TimeoutExpires, Leave, Tick, OtherCallStarts,
         StartWorker,
         TakeBatch, ExecuteUnit, WorkerDies
<1>2. UNCHANGED config => Workers' = Workers
  BY DEF Workers, EffectiveWorkers
<1> QED
  BY <1>1, <1>2

\* A batch that is executed has been taken, by one worker, and its future is
\* pending, as are those of the batches in the queue.
QueueInv ==
    /\ started \subseteq Workers
    /\ batch \in [Workers -> Nat]
    /\ \A b \in 1 .. Len(batches) : b > taken => future[b] = "pending"
    /\ \A w \in Workers : batch[w] # 0 =>
          w \in started /\ batch[w] <= taken /\ future[batch[w]] = "pending"
    /\ \A v, w \in Workers : batch[v] = batch[w] /\ batch[w] # 0 => v = w
    /\ phase = "done" => PoolIsIdle

LEMMA QueueInit == Init => QueueInv
BY DEF Init, QueueInv

LEMMA QueueStep == CallerInv /\ QueueInv /\ [Next]_vars => QueueInv'
<1> SUFFICES ASSUME CallerInv, QueueInv, [Next]_vars PROVE QueueInv'
  OBVIOUS
<1>0. /\ UNCHANGED config /\ Workers' = Workers
      /\ Len(batches) \in Nat /\ DOMAIN batches = 1 .. Len(batches)
      /\ taken \in 0 .. submitted /\ submitted \in 0 .. Len(batches)
      /\ future \in [1 .. Len(batches) -> Exceptions \cup {"pending", "finished"}]
  BY ArgumentsStay, BatchCount DEF CallerInv
<1>a. ASSUME UNCHANGED <<batches, submitted, taken, future, started, batch>>,
             phase' = "done" => phase = "done" \/ PoolIsIdle
      PROVE  QueueInv'
  BY <1>0, <1>a DEF QueueInv, PoolIsIdle
<1>1. CASE Start
  <2>1. CASE EffectiveWorkers = 1
    BY <1>a, <1>1, <2>1 DEF Start, pool, futures
  <2>2. CASE EffectiveWorkers # 1
    <3>1. /\ batches = <<>> /\ Len(batches) = 0
      BY <1>1, BatchCount DEF Start, CallerInv
    <3>2. \A w \in Workers : batch[w] = 0
      BY <1>0, <3>1 DEF QueueInv
    <3>3. /\ IsCut(batches', Len(plan)) /\ UNCHANGED <<taken, started, batch>>
          /\ future' = [b \in DOMAIN batches' |-> "pending"] /\ phase' = "submit"
      BY <1>1, <2>2, Sizes, BatchesCut DEF Start, CallerInv, pool
    <3>4. DOMAIN batches' = 1 .. Len(batches')
      BY <3>3, LenProperties DEF IsCut
    <3> QED
      BY <1>0, <3>2, <3>3, <3>4 DEF QueueInv
  <2> QED
    BY <2>1, <2>2
<1>2. CASE SimulateNext
  <2>1. submitted = 0 /\ taken = 0
    BY <1>0, <1>2, BatchCount DEF SimulateNext, CallerInv
  <2>2. PoolIsIdle
    BY <2>1, <1>0 DEF PoolIsIdle, QueueInv
  <2> QED
    BY <1>a, <1>2, <2>2 DEF SimulateNext, pool, futures
<1>3. CASE ReturnSequential
  <2>1. submitted = 0 /\ taken = 0
    BY <1>0, <1>3, BatchCount DEF ReturnSequential, CallerInv
  <2>2. PoolIsIdle
    BY <2>1, <1>0 DEF PoolIsIdle, QueueInv
  <2> QED
    BY <1>a, <1>3, <2>2 DEF ReturnSequential, pool, futures
<1>4. CASE Submit
  BY <1>0, <1>4 DEF Submit, pool, futures, QueueInv
<1>5. CASE Collect
  BY <1>a, <1>5 DEF Collect, pool, futures
<1>6. CASE CollectException
  BY <1>a, <1>6 DEF AfterException, CollectException, pool, futures
<1>7. CASE TimeoutExpires
  BY <1>a, <1>7 DEF AfterException, TimeoutExpires, pool, futures
<1>8. CASE Leave
  BY <1>a, <1>8 DEF Leave, Waited, pool, futures
<1>9. CASE Tick
  BY <1>a, <1>9 DEF Tick, pool, futures
<1>10. CASE OtherCallStarts
  BY <1>a, <1>10 DEF OtherCallStarts, pool, futures, caller
<1>11. ASSUME NEW w \in Workers, StartWorker(w) PROVE QueueInv'
  BY <1>0, <1>11 DEF StartWorker, caller, futures, QueueInv, PoolIsIdle
<1>12. ASSUME NEW w \in Workers, TakeBatch(w) PROVE QueueInv'
  <2> DEFINE b == taken + 1
  <2>1. /\ w \in started /\ batch[w] = 0 /\ taken < submitted /\ taken' = b
        /\ UNCHANGED <<batches, submitted, started, phase>>
    BY <1>12 DEF TakeBatch, caller
  <2>2. b \in 1 .. submitted /\ b \in 1 .. Len(batches) /\ future[b] = "pending"
    BY <1>0, <2>1 DEF QueueInv
  <2>3. phase # "done"
    BY <2>2 DEF QueueInv, PoolIsIdle
  <2>4. CASE batch' = [batch EXCEPT ![w] = b] /\ UNCHANGED future
    BY <1>0, <2>1, <2>2, <2>3, <2>4 DEF QueueInv
  <2>5. CASE future' = [future EXCEPT ![b] = "IndexError"] /\ UNCHANGED batch
    BY <1>0, <2>1, <2>2, <2>3, <2>5 DEF QueueInv
  <2> QED
    BY <1>12, <2>4, <2>5 DEF TakeBatch
<1>13. ASSUME NEW w \in Workers, ExecuteUnit(w) PROVE QueueInv'
  <2>1. /\ batch[w] # 0 /\ UNCHANGED <<batches, submitted, taken, started, phase>>
    BY <1>13 DEF ExecuteUnit, caller
  <2>2. CASE UNCHANGED <<future, batch>>
    BY <1>a, <2>1, <2>2
  <2>3. ASSUME NEW state, future' = [future EXCEPT ![batch[w]] = state],
               batch' = [batch EXCEPT ![w] = 0]
        PROVE  QueueInv'
    <3>1. phase # "done"
      BY <2>1 DEF QueueInv, PoolIsIdle
    <3> QED
      BY <1>0, <2>1, <2>3, <3>1 DEF QueueInv
  <2> QED
    BY <1>13, <2>2, <2>3 DEF ExecuteUnit, futures
<1>14. ASSUME NEW w \in Workers, WorkerDies(w) PROVE QueueInv'
  BY <1>0, <1>14 DEF WorkerDies, caller, QueueInv
<1>15. CASE UNCHANGED vars
  BY <1>a, <1>15 DEF vars, caller, pool, futures
<1> QED
  BY <1>1, <1>2, <1>3, <1>4, <1>5, <1>6, <1>7, <1>8, <1>9, <1>10, <1>11, <1>12,
     <1>13, <1>14, <1>15 DEF Next, Caller, Worker

-----------------------------------------------------------------------------
(***************************************************************************)
(* No unit of a batch is lost.                                             *)
(***************************************************************************)

\* A worker's results and the units it has left are together its batch.
WorkersInv ==
    /\ units \in [Workers -> Seq(Units)]
    /\ done \in [Workers -> Seq(Results)]
    /\ \A w \in Workers : batch[w] = 0 => units[w] = <<>> /\ done[w] = <<>>
    /\ \A w \in Workers : batch[w] # 0 =>
          /\ Len(units[w]) > 0
          /\ batches[batch[w]].first + Len(done[w]) + Len(units[w])
                = batches[batch[w]].last + 1

\* A future that has finished holds a result for every unit of its batch.
FuturesInv ==
    /\ output \in [DOMAIN batches -> Seq(Results)]
    /\ \A b \in DOMAIN batches :
          future[b] = "finished" =>
              batches[b].first + Len(output[b]) = batches[b].last + 1

\* What has been collected ends where the batch waited for begins.
CollectedInv ==
    /\ collected \in Seq(Results)
    /\ phase = "start" => collected = <<>> /\ reported = 0
    /\ batches # <<>> =>
          Len(collected) + 1 = IF awaited > Len(batches) THEN Len(plan) + 1
                               ELSE batches[awaited].first
    /\ Len(collected) <= Len(plan)
    /\ reported \in 0 .. Len(collected)
    /\ outcome = "returned" => Len(collected) = Len(plan)

SharedInv == shared \in (Plans \cup OtherPlans) \cup {<<>>}

WorkInv == WorkersInv /\ FuturesInv /\ CollectedInv /\ SharedInv

LEMMA WorkInit == Init => WorkInv
<1> SUFFICES ASSUME Init PROVE WorkInv
  OBVIOUS
<1>1. WorkersInv
  BY EmptySeq DEF Init, WorkersInv
<1>2. FuturesInv
  <2>1. \A S : <<>> \in [DOMAIN <<>> -> S]
    <3> SUFFICES ASSUME NEW S PROVE <<>> \in [DOMAIN <<>> -> S]
      OBVIOUS
    <3>1. <<>> \in Seq(S) /\ Len(<<>>) = 0
      BY EmptySeq
    <3> QED
      BY <3>1, LenProperties
  <2>2. DOMAIN <<>> = {}
    BY EmptySeq, LenProperties
  <2> QED
    BY <2>1, <2>2 DEF Init, FuturesInv
<1>3. CollectedInv
  BY Sizes, EmptySeq DEF Init, CollectedInv
<1>4. SharedInv
  BY DEF Init, SharedInv
<1> QED
  BY <1>1, <1>2, <1>3, <1>4 DEF WorkInv

\* What the cut of the plan says of one batch and the next.
LEMMA Cut ==
    ASSUME CallerInv, NEW b \in DOMAIN batches
    PROVE  /\ b \in 1 .. Len(batches) /\ Len(batches) \in Nat \ {0}
           /\ batches[b].first \in Nat /\ batches[b].last \in Nat
           /\ 1 <= batches[b].first /\ batches[b].first <= batches[b].last
           /\ batches[b].last <= Len(plan)
           /\ b = Len(batches) => batches[b].last = Len(plan)
           /\ b < Len(batches) => batches[b + 1].first = batches[b].last + 1
<1>1. DOMAIN batches = 1 .. Len(batches) /\ Len(batches) \in Nat
  BY BatchCount
<1>2. batches # <<>>
  BY <1>1, BatchCount
<1>3. IsCut(batches, Len(plan))
  BY <1>2 DEF CallerInv
<1>4. batches[b] \in [first : Nat, last : Nat]
  BY <1>1, <1>3, ElementOfSeq DEF IsCut
<1>5. Len(batches) \in Nat \ {0} /\ b \in 1 .. Len(batches)
  BY <1>1, <1>2, BatchCount
<1>6. b < Len(batches) => b \in 1 .. Len(batches) - 1
  BY <1>5
<1> QED
  BY <1>3, <1>4, <1>5, <1>6 DEF IsCut

\* The result of a unit.
LEMMA ResultOf ==
    ASSUME config \in Configs, NEW unit \in Units
    PROVE  Simulate(unit) \in Results
BY DEF Simulate, Results

LEMMA WorkersStep ==
    ASSUME CallerInv, QueueInv, WorkersInv, SharedInv, [Next]_vars
    PROVE  WorkersInv'
<1>0. /\ UNCHANGED config /\ Workers' = Workers
      /\ Len(batches) \in Nat /\ DOMAIN batches = 1 .. Len(batches)
      /\ taken \in 0 .. submitted /\ submitted \in 0 .. Len(batches)
  BY ArgumentsStay, BatchCount DEF CallerInv
<1>a. ASSUME UNCHANGED <<batches, batch, units, done>> PROVE WorkersInv'
  BY <1>0, <1>a DEF WorkersInv
<1>b. ASSUME NEW w \in Workers, batch[w] # 0 PROVE batch[w] \in DOMAIN batches
  BY <1>0, <1>b DEF QueueInv
<1>1. CASE Start
  <2>1. \A w \in Workers : batch[w] = 0
    <3>1. Len(batches) = 0
      BY <1>1, BatchCount DEF Start, CallerInv
    <3> QED
      BY <1>0, <3>1 DEF QueueInv
  <2>2. UNCHANGED <<batch, units, done>>
    BY <1>1 DEF Start, pool
  <2> QED
    BY <1>0, <2>1, <2>2 DEF WorkersInv
<1>2. CASE SimulateNext \/ ReturnSequential \/ Submit \/ Collect \/ CollectException
           \/ TimeoutExpires \/ Leave \/ Tick \/ OtherCallStarts \/ UNCHANGED vars
  BY <1>a, <1>2 DEF SimulateNext, ReturnSequential, Submit, Collect,
     AfterException, CollectException,
     TimeoutExpires, Leave, Tick, OtherCallStarts, pool, vars
<1>3. ASSUME NEW w \in Workers, StartWorker(w) PROVE WorkersInv'
  BY <1>a, <1>3 DEF StartWorker
<1>4. ASSUME NEW w \in Workers, TakeBatch(w) PROVE WorkersInv'
  <2> DEFINE b == taken + 1
  <2>1. /\ w \in started /\ batch[w] = 0 /\ taken < submitted
        /\ UNCHANGED <<batches, done>>
    BY <1>4 DEF TakeBatch
  <2>2. CASE UNCHANGED <<batch, units>>
    BY <1>a, <2>1, <2>2
  <2>3. CASE /\ batches[b].last \in DOMAIN SeededUnits
             /\ batch' = [batch EXCEPT ![w] = b]
             /\ units' = [units EXCEPT ![w] =
                             SubSeq(SeededUnits, batches[b].first, batches[b].last)]
    <3> DEFINE first == batches[b].first
               last == batches[b].last
               cut == SubSeq(SeededUnits, first, last)
    <3>1. b \in DOMAIN batches /\ b # 0
      BY <1>0, <2>1
    <3>2. first \in Nat /\ last \in Nat /\ 1 <= first /\ first <= last
      BY <3>1, Cut
    <3>3. SeededUnits \in Seq(Units)
      BY Sizes, PlansAssumption, EmptySeq DEF SeededUnits, SharedInv, CallerInv
    <3>4. last \in DOMAIN SeededUnits
      BY <2>3
    <3> HIDE DEF first, last
    <3>5. \A i \in first .. last : SeededUnits[i] \in Units
      BY <3>2, <3>3, <3>4, LenProperties, ElementOfSeq
    <3>6. cut \in Seq(Units) /\ Len(cut) = last - first + 1
      BY <3>2, <3>5, SubSeqProperties
    <3>7. units' = [units EXCEPT ![w] = cut] /\ batch' = [batch EXCEPT ![w] = b]
      BY <2>3 DEF first, last
    <3>8. first = batches[b].first /\ last = batches[b].last
      BY DEF first, last
    <3> HIDE DEF cut
    <3>9. done[w] = <<>> /\ Len(done[w]) = 0
      BY <2>1, EmptySeq DEF WorkersInv
    <3>10. units' \in [Workers -> Seq(Units)] /\ units'[w] = cut
      BY <3>6, <3>7 DEF WorkersInv
    <3>11. batch'[w] = b /\ b # 0
      BY <3>1, <3>7 DEF QueueInv
    <3> HIDE DEF b
    <3>12. Len(units'[w]) > 0 /\ first + Len(done[w]) + Len(units'[w]) = last + 1
      BY <3>2, <3>6, <3>9, <3>10
    <3>13. \A v \in Workers : v # w => batch'[v] = batch[v] /\ units'[v] = units[v]
      BY <3>7 DEF QueueInv, WorkersInv
    <3> QED
      BY <1>0, <2>1, <3>8, <3>10, <3>11, <3>12, <3>13 DEF WorkersInv
  <2> QED
    BY <1>4, <2>2, <2>3 DEF TakeBatch
<1>5. ASSUME NEW w \in Workers, ExecuteUnit(w) PROVE WorkersInv'
  <2>1. batch[w] # 0 /\ UNCHANGED batches
    BY <1>5 DEF ExecuteUnit
  <2>2. CASE /\ batch' = [batch EXCEPT ![w] = 0]
             /\ units' = [units EXCEPT ![w] = <<>>]
             /\ done' = [done EXCEPT ![w] = <<>>]
    BY <1>0, <2>1, <2>2, EmptySeq DEF WorkersInv, QueueInv
  <2>3. CASE /\ Len(units[w]) > 1 /\ UNCHANGED batch
             /\ units' = [units EXCEPT ![w] = Tail(@)]
             /\ done' = [done EXCEPT ![w] = ResultsWithNext(w)]
    <3> DEFINE r == Simulate(Head(units[w]))
    <3>1. units[w] \in Seq(Units) /\ done[w] \in Seq(Results) /\ units[w] # <<>>
      BY <2>3, EmptySeq DEF WorkersInv
    <3>2. Len(units[w]) \in Nat /\ Len(done[w]) \in Nat
      BY <3>1, LenProperties
    <3>3. /\ Head(units[w]) \in Units /\ Tail(units[w]) \in Seq(Units)
          /\ Len(Tail(units[w])) = Len(units[w]) - 1
      BY <3>1, HeadTailProperties
    <3>4. r \in Results
      BY <3>3, ResultOf DEF CallerInv
    <3> HIDE DEF r
    <3>5. /\ Append(done[w], r) \in Seq(Results)
          /\ Len(Append(done[w], r)) = Len(done[w]) + 1
      BY <3>1, <3>4, AppendProperties
    <3>6. units' = [units EXCEPT ![w] = Tail(units[w])]
          /\ done' = [done EXCEPT ![w] = Append(done[w], r)]
      BY <2>3 DEF ResultsWithNext, r
    <3>7. /\ units' \in [Workers -> Seq(Units)] /\ units'[w] = Tail(units[w])
          /\ done' \in [Workers -> Seq(Results)] /\ done'[w] = Append(done[w], r)
      BY <3>3, <3>5, <3>6 DEF WorkersInv
    <3>8. \A v \in Workers : v # w => done'[v] = done[v] /\ units'[v] = units[v]
      BY <3>6 DEF WorkersInv
    <3>9. batch[w] \in DOMAIN batches
      BY <1>b, <2>1
    <3>10. batches[batch[w]].first \in Nat /\ batches[batch[w]].last \in Nat
      BY <3>9, Cut
    <3>11. batches[batch[w]].first + Len(done[w]) + Len(units[w])
              = batches[batch[w]].last + 1
      BY <2>1 DEF WorkersInv
    <3>12. Len(units'[w]) > 0 /\ batches[batch[w]].first + Len(done'[w]) + Len(units'[w])
              = batches[batch[w]].last + 1
      <4> DEFINE first == batches[batch[w]].first
                 last == batches[batch[w]].last
                 before == Len(done[w])
                 after == Len(done'[w])
                 left == Len(units[w])
                 rest == Len(units'[w])
      <4>1. rest = left - 1 /\ after = before + 1
        BY <3>3, <3>5, <3>7
      <4>2. left \in Nat /\ before \in Nat /\ first \in Nat /\ last \in Nat
        BY <3>2, <3>10
      <4>3. left > 1 /\ first + before + left = last + 1
        BY <2>3, <3>11
      <4> HIDE DEF first, last, before, after, left, rest
      <4>4. rest > 0 /\ first + after + rest = last + 1
        BY <4>1, <4>2, <4>3
      <4> QED
        BY <4>4 DEF first, last, after, rest
    <3> QED
      BY <1>0, <2>1, <2>3, <3>7, <3>8, <3>12 DEF WorkersInv
  <2> QED
    BY <1>5, <2>2, <2>3 DEF ExecuteUnit, futures
<1>6. ASSUME NEW w \in Workers, WorkerDies(w) PROVE WorkersInv'
  BY <1>0, <1>6, EmptySeq DEF WorkerDies, WorkersInv
<1> QED
  BY <1>1, <1>2, <1>3, <1>4, <1>5, <1>6 DEF Next, Caller, Worker

LEMMA FuturesStep ==
    ASSUME CallerInv, QueueInv, WorkersInv, FuturesInv, [Next]_vars
    PROVE  FuturesInv'
<1>0. /\ UNCHANGED config /\ Workers' = Workers
      /\ Len(batches) \in Nat /\ DOMAIN batches = 1 .. Len(batches)
      /\ taken \in 0 .. submitted /\ submitted \in 0 .. Len(batches)
      /\ future \in [DOMAIN batches -> Exceptions \cup {"pending", "finished"}]
  BY ArgumentsStay, BatchCount DEF CallerInv
<1>a. ASSUME UNCHANGED <<batches, future, output>> PROVE FuturesInv'
  BY <1>a DEF FuturesInv
<1>1. CASE Start
  <2>1. CASE EffectiveWorkers = 1
    BY <1>a, <1>1, <2>1 DEF Start, futures
  <2>2. CASE EffectiveWorkers # 1
    <3>1. /\ future' = [b \in DOMAIN batches' |-> "pending"]
          /\ output' = [b \in DOMAIN batches' |-> <<>>]
      BY <1>1, <2>2 DEF Start
    <3> QED
      BY <3>1, EmptySeq DEF FuturesInv
  <2> QED
    BY <2>1, <2>2
<1>2. CASE SimulateNext \/ ReturnSequential \/ Submit \/ Collect \/ CollectException
           \/ TimeoutExpires \/ Leave \/ Tick \/ OtherCallStarts \/ UNCHANGED vars
  BY <1>a, <1>2 DEF SimulateNext, ReturnSequential, Submit, Collect,
     AfterException, CollectException,
     TimeoutExpires, Leave, Tick, OtherCallStarts, futures, vars
<1>3. ASSUME NEW w \in Workers, StartWorker(w) PROVE FuturesInv'
  BY <1>a, <1>3 DEF StartWorker, futures
<1>4. ASSUME NEW w \in Workers, TakeBatch(w) PROVE FuturesInv'
  <2>1. UNCHANGED <<batches, output>> /\ taken + 1 \in DOMAIN batches
    BY <1>0, <1>4 DEF TakeBatch
  <2>2. UNCHANGED future \/ future' = [future EXCEPT ![taken + 1] = "IndexError"]
    BY <1>4 DEF TakeBatch
  <2> QED
    BY <1>0, <2>1, <2>2 DEF FuturesInv
<1>5. ASSUME NEW w \in Workers, ExecuteUnit(w) PROVE FuturesInv'
  <2> DEFINE b == batch[w]
             r == Simulate(Head(units[w]))
  <2>1. b # 0 /\ UNCHANGED batches
    BY <1>5 DEF ExecuteUnit
  <2>2. b \in DOMAIN batches
    BY <1>0, <2>1 DEF QueueInv
  <2>3. CASE UNCHANGED futures
    BY <1>a, <2>1, <2>3 DEF futures
  <2>4. CASE /\ future' = [future EXCEPT ![b] = "ResearchExecutionError"]
             /\ output' = [output EXCEPT ![b] = <<>>]
    BY <1>0, <2>1, <2>2, <2>4, EmptySeq DEF FuturesInv
  <2>5. CASE /\ Len(units[w]) = 1
             /\ future' = [future EXCEPT ![b] = "finished"]
             /\ output' = [output EXCEPT ![b] = ResultsWithNext(w)]
    <3>1. units[w] \in Seq(Units) /\ done[w] \in Seq(Results) /\ units[w] # <<>>
      <4>1. units[w] \in Seq(Units) /\ done[w] \in Seq(Results)
        BY DEF WorkersInv
      <4>2. Len(units[w]) # 0
        BY <2>5
      <4> QED
        BY <4>1, <4>2, EmptySeq
    <3>2. Head(units[w]) \in Units /\ Len(done[w]) \in Nat
      BY <3>1, HeadTailProperties, LenProperties
    <3>3. r \in Results
      BY <3>2, ResultOf DEF CallerInv
    <3>4. ResultsWithNext(w) = Append(done[w], r)
      BY DEF ResultsWithNext
    <3> HIDE DEF r
    <3>5. /\ ResultsWithNext(w) \in Seq(Results)
          /\ Len(ResultsWithNext(w)) = Len(done[w]) + 1
      BY <3>1, <3>3, <3>4, AppendProperties
    <3>6. batches[b].first + Len(done[w]) + 1 = batches[b].last + 1
      BY <2>1, <2>5 DEF WorkersInv
    <3>7. batches[b].first \in Nat /\ batches[b].last \in Nat
      BY <2>2, Cut
    <3>8. batches[b].first + Len(ResultsWithNext(w)) = batches[b].last + 1
      <4> DEFINE first == batches[b].first
                 last == batches[b].last
                 before == Len(done[w])
                 after == Len(ResultsWithNext(w))
      <4>1. /\ first \in Nat /\ last \in Nat /\ before \in Nat
            /\ after = before + 1 /\ first + before + 1 = last + 1
        BY <3>2, <3>5, <3>6, <3>7
      <4> HIDE DEF first, last, before, after
      <4>2. first + after = last + 1
        BY <4>1
      <4> QED
        BY <4>2 DEF first, last, after
    <3> HIDE DEF b
    <3> QED
      BY <1>0, <2>1, <2>2, <2>5, <3>5, <3>8 DEF FuturesInv
  <2> QED
    BY <1>5, <2>3, <2>4, <2>5 DEF ExecuteUnit, futures
<1>6. ASSUME NEW w \in Workers, WorkerDies(w) PROVE FuturesInv'
  BY <1>0, <1>6 DEF WorkerDies, FuturesInv
<1> QED
  BY <1>1, <1>2, <1>3, <1>4, <1>5, <1>6 DEF Next, Caller, Worker

\* A batch that is collected: how many results there are then.
LEMMA Collected ==
    ASSUME CallerInv, FuturesInv, CollectedInv, Collect
    PROVE  /\ awaited \in DOMAIN batches
           /\ WithBatch \in Seq(Results)
           /\ output[awaited] \in Seq(Results)
           /\ Len(collected) + 1 = batches[awaited].first
           /\ Len(WithBatch) = batches[awaited].last
           /\ Len(WithBatch) = Len(collected) + Len(output[awaited])
           /\ Len(collected) < Len(WithBatch) /\ Len(WithBatch) <= Len(plan)
           /\ Len(collected) \in Nat /\ Len(WithBatch) \in Nat
<1>1. awaited \in DOMAIN batches /\ batches # <<>> /\ awaited \in 1 .. Len(batches)
  <2>1. DOMAIN batches = 1 .. Len(batches) /\ Len(batches) \in Nat
    BY BatchCount
  <2>2. phase = "collect"
    BY DEF Collect
  <2> QED
    BY <2>1, <2>2 DEF CallerInv, Pooled
<1>2. /\ batches[awaited].first \in Nat /\ batches[awaited].last \in Nat
      /\ batches[awaited].first <= batches[awaited].last /\ batches[awaited].last <= Len(plan)
  BY <1>1, Cut
<1>3. output[awaited] \in Seq(Results) /\ collected \in Seq(Results)
  BY <1>1 DEF FuturesInv, CollectedInv
<1>4. Len(output[awaited]) \in Nat /\ Len(collected) \in Nat
  BY <1>3, LenProperties
<1>5. batches[awaited].first + Len(output[awaited]) = batches[awaited].last + 1
  BY <1>1 DEF FuturesInv, Collect
<1>6. Len(collected) + 1 = batches[awaited].first
  <2>1. ~(awaited > Len(batches))
    BY <1>1, BatchCount
  <2> QED
    BY <1>1, <2>1 DEF CollectedInv
<1>7. WithBatch \in Seq(Results) /\ Len(WithBatch) = Len(collected) + Len(output[awaited])
  BY <1>3, ConcatProperties DEF WithBatch
<1>8. Len(plan) \in Nat
  BY Sizes DEF CallerInv
<1>9. /\ Len(WithBatch) = batches[awaited].last
      /\ Len(collected) < Len(WithBatch) /\ Len(WithBatch) <= Len(plan)
      /\ Len(WithBatch) \in Nat
  <2> DEFINE first == batches[awaited].first
             last == batches[awaited].last
             before == Len(collected)
             more == Len(output[awaited])
             after == Len(WithBatch)
             n == Len(plan)
  <2>1. /\ first \in Nat /\ last \in Nat /\ before \in Nat /\ more \in Nat /\ n \in Nat
        /\ first <= last /\ last <= n
        /\ first + more = last + 1 /\ before + 1 = first /\ after = before + more
    BY <1>2, <1>4, <1>5, <1>6, <1>7, <1>8
  <2> HIDE DEF first, last, before, more, after, n
  <2>2. after = last /\ before < after /\ after <= n /\ after \in Nat
    BY <2>1
  <2> QED
    BY <2>2 DEF last, before, after, n
<1> QED
  BY <1>1, <1>3, <1>4, <1>6, <1>7, <1>9

LEMMA CollectedStep ==
    ASSUME CallerInv, FuturesInv, CollectedInv, [Next]_vars
    PROVE  CollectedInv'
<1>0. /\ UNCHANGED <<plan, config>> /\ Len(batches) \in Nat
      /\ DOMAIN batches = 1 .. Len(batches)
      /\ Len(plan) \in Nat \ {0} /\ plan \in Seq(Units)
      /\ collected \in Seq(Results) /\ Len(collected) \in Nat
      /\ reported \in 0 .. Len(collected) /\ Len(collected) <= Len(plan)
  BY ArgumentsStay, BatchCount, Sizes, LenProperties DEF CallerInv, CollectedInv
<1>a. ASSUME UNCHANGED <<batches, awaited, collected, reported>>,
             phase' = "start" => phase = "start",
             outcome' = "returned" => outcome = "returned" \/ Len(collected) = Len(plan)
      PROVE  CollectedInv'
  BY <1>0, <1>a DEF CollectedInv
<1>1. CASE Start
  <2>1. CASE EffectiveWorkers = 1
    BY <1>a, <1>1, <2>1 DEF Start
  <2>2. CASE EffectiveWorkers # 1
    <3>1. /\ IsCut(batches', Len(plan)) /\ UNCHANGED <<awaited, collected, reported, outcome>>
          /\ phase' = "submit"
      BY <1>1, <2>2, Sizes, BatchesCut DEF Start, CallerInv
    <3>2. /\ awaited = 1 /\ collected = <<>> /\ reported = 0 /\ outcome = "running"
      <4>1. batches = <<>> /\ Len(batches) = 0
        BY <1>1, BatchCount DEF Start, CallerInv
      <4> QED
        BY <1>1, <4>1 DEF Start, CallerInv, CollectedInv
    <3>3. Len(batches') \in Nat \ {0} /\ batches'[1].first = 1
      BY <3>1, EmptySeq DEF IsCut
    <3>4. Len(collected) = 0
      BY <3>2, EmptySeq
    <3> QED
      BY <1>0, <3>1, <3>2, <3>3, <3>4 DEF CollectedInv
  <2> QED
    BY <2>1, <2>2
<1>2. CASE SimulateNext
  <2>1. batches' = <<>> /\ outcome = "running"
    BY <1>2 DEF SimulateNext, CallerInv
  <2>2. CASE /\ phase' = "done" /\ outcome' = "ResearchExecutionError"
             /\ UNCHANGED <<collected, reported>>
    BY <1>a, <1>2, <2>2 DEF SimulateNext
  <2>3. CASE /\ collected' = Append(collected, Simulate(plan[Len(collected) + 1]))
             /\ reported' = IF config.progress /\ (config.whole => Len(collected') = Len(plan))
                            THEN Len(collected') ELSE reported
             /\ UNCHANGED <<phase, outcome>>
    <3>1. Len(collected) < Len(plan) /\ phase = "sequential"
      BY <1>2 DEF SimulateNext
    <3>2. plan[Len(collected) + 1] \in Units
      BY <1>0, <3>1, ElementOfSeq
    <3>3. Simulate(plan[Len(collected) + 1]) \in Results
      BY <3>2, ResultOf DEF CallerInv
    <3>4. collected' \in Seq(Results) /\ Len(collected') = Len(collected) + 1
      BY <1>0, <2>3, <3>3, AppendProperties
    <3> QED
      BY <1>0, <2>1, <2>3, <3>1, <3>4 DEF CollectedInv
  <2> QED
    BY <1>2, <2>2, <2>3 DEF SimulateNext
<1>3. CASE Collect
  <2>1. /\ awaited \in 1 .. Len(batches) /\ batches # <<>> /\ Len(batches) \in Nat \ {0}
        /\ Len(WithBatch) = batches[awaited].last
        /\ awaited = Len(batches) => batches[awaited].last = Len(plan)
        /\ awaited < Len(batches) => batches[awaited + 1].first = batches[awaited].last + 1
    BY <1>3, Collected, Cut, BatchCount
  <2>2. /\ WithBatch \in Seq(Results) /\ Len(WithBatch) \in Nat
        /\ Len(WithBatch) <= Len(plan) /\ Len(collected) < Len(WithBatch)
    BY <1>3, Collected
  <2>3. /\ collected' = WithBatch /\ awaited' = awaited + 1 /\ UNCHANGED <<batches, outcome>>
        /\ reported' = IF config.progress THEN Len(WithBatch) ELSE reported
        /\ phase' \in {"shutdown", "collect"} /\ phase = "collect"
    BY <1>3 DEF Collect, CompletedCount
  <2>4. outcome = "running"
    BY <2>3 DEF CallerInv
  <2>5. Len(collected') + 1 = IF awaited' > Len(batches') THEN Len(plan) + 1
                              ELSE batches'[awaited'].first
    <3>1. awaited' = awaited + 1 /\ batches' = batches /\ Len(collected') = batches[awaited].last
      BY <2>1, <2>3
    <3>2. CASE awaited = Len(batches)
      BY <2>1, <3>1, <3>2
    <3>3. CASE awaited < Len(batches)
      <4>1. ~(awaited + 1 > Len(batches))
        BY <2>1, <3>3
      <4> QED
        BY <2>1, <3>1, <3>3, <4>1
    <3> QED
      BY <2>1, <3>2, <3>3
  <2> QED
    BY <1>0, <2>2, <2>3, <2>4, <2>5 DEF CollectedInv
<1>4. CASE Leave
  <2>1. outcome' = "returned" => Len(collected) = Len(plan)
    <3> SUFFICES ASSUME outcome' = "returned" PROVE Len(collected) = Len(plan)
      OBVIOUS
    <3>1. phase = "shutdown" /\ raised = "none"
      BY <1>4 DEF Leave, CallerInv, Exceptions, UnitErrors
    <3>2. awaited > Len(batches) /\ batches # <<>>
      BY <1>0, <3>1 DEF CallerInv, Pooled
    <3> QED
      BY <1>0, <3>2 DEF CollectedInv
  <2> QED
    BY <1>a, <1>4, <2>1 DEF Leave
<1>5. CASE ReturnSequential \/ Submit \/ CollectException \/ TimeoutExpires \/ Tick
           \/ OtherCallStarts \/ UNCHANGED vars
  BY <1>a, <1>5 DEF ReturnSequential, Submit, AfterException, CollectException,
     TimeoutExpires, Tick, OtherCallStarts, caller, vars
<1>6. ASSUME NEW w \in Workers, Worker(w) \/ WorkerDies(w) PROVE CollectedInv'
  BY <1>a, <1>6 DEF Worker, StartWorker, TakeBatch, ExecuteUnit, WorkerDies, caller
<1> QED
  BY <1>1, <1>2, <1>3, <1>4, <1>5, <1>6 DEF Next, Caller

LEMMA SharedStep ==
    ASSUME CallerInv, SharedInv, [Next]_vars
    PROVE  SharedInv'
<1>1. ASSUME UNCHANGED shared PROVE SharedInv'
  BY <1>1 DEF SharedInv
<1>2. ASSUME NEW w \in Workers, StartWorker(w) PROVE SharedInv'
  BY <1>2 DEF StartWorker, SharedInv, CallerInv
<1>3. CASE OtherCallStarts
  BY <1>3 DEF OtherCallStarts, SharedInv
<1> QED
  BY <1>1, <1>2, <1>3 DEF Next, Caller, Worker, Start, SimulateNext, ReturnSequential, Submit,
     Collect, AfterException, CollectException, TimeoutExpires, Leave, Tick, TakeBatch,
     ExecuteUnit,
     WorkerDies, vars

LEMMA WorkStep ==
    CallerInv /\ QueueInv /\ WorkInv /\ [Next]_vars => WorkInv'
BY WorkersStep, FuturesStep, CollectedStep, SharedStep DEF WorkInv

-----------------------------------------------------------------------------
(***************************************************************************)
(* The results are those of the plan, while no other call interferes.      *)
(***************************************************************************)

\* The results of consecutive units of a plan, none of which fails.
IsOf(results, first, p, brief) ==
    \A i \in 1 .. Len(results) :
        /\ results[i] = [unit |-> p[first + i - 1], timeline |-> ~brief]
        /\ p[first + i - 1] \notin Failing

\* Consecutive units of a plan.
AreOf(us, first, p) == \A i \in 1 .. Len(us) : us[i] = p[first + i - 1]

SomeFails(p) == \E i \in DOMAIN p : p[i] \in Failing

\* The threads have been given this plan.
SeedRight == ~config.processes /\ started # {} => shared = plan

WorkersRight ==
    \A w \in Workers : batch[w] # 0 =>
        /\ IsOf(done[w], batches[batch[w]].first, plan, config.summary)
        /\ AreOf(units[w], batches[batch[w]].first + Len(done[w]), plan)

FuturesRight ==
    \A b \in DOMAIN batches :
        /\ future[b] = "finished" =>
              IsOf(output[b], batches[b].first, plan, config.summary)
        /\ future[b] # "IndexError"
        /\ future[b] = "ResearchExecutionError" => SomeFails(plan)

CallerRight ==
    /\ raised # "IndexError"
    /\ raised = "ResearchExecutionError" => SomeFails(plan)
    /\ IsOf(collected, 1, plan, config.summary)

ContentInv == ~disturbed => SeedRight /\ WorkersRight /\ FuturesRight /\ CallerRight

LEMMA NoResults ==
    ASSUME NEW first, NEW p, NEW brief
    PROVE  IsOf(<<>>, first, p, brief)
BY EmptySeq DEF IsOf

LEMMA OneMore ==
    ASSUME NEW results \in Seq(Results), NEW first \in Nat, NEW p, NEW brief,
           IsOf(results, first, p, brief),
           p[first + Len(results)] \notin Failing,
           NEW next \in Results,
           next = [unit |-> p[first + Len(results)], timeline |-> ~brief]
    PROVE  IsOf(Append(results, next), first, p, brief)
<1>1. /\ Len(Append(results, next)) = Len(results) + 1 /\ Len(results) \in Nat
      /\ \A i \in 1 .. Len(results) : Append(results, next)[i] = results[i]
      /\ Append(results, next)[Len(results) + 1] = next
  BY AppendProperties, LenProperties
<1> SUFFICES ASSUME NEW i \in 1 .. Len(results) + 1
             PROVE  /\ Append(results, next)[i]
                          = [unit |-> p[first + i - 1], timeline |-> ~brief]
                    /\ p[first + i - 1] \notin Failing
  BY <1>1 DEF IsOf
<1>2. CASE i \in 1 .. Len(results)
  BY <1>1, <1>2 DEF IsOf
<1>3. CASE i = Len(results) + 1
  <2>1. first + i - 1 = first + Len(results)
    BY <1>1, <1>3
  <2> QED
    BY <1>1, <1>3, <2>1
<1> QED
  BY <1>1, <1>2, <1>3

LEMMA BatchMore ==
    ASSUME NEW a \in Seq(Results), NEW b \in Seq(Results), NEW p, NEW brief,
           IsOf(a, 1, p, brief), IsOf(b, Len(a) + 1, p, brief)
    PROVE  IsOf(a \o b, 1, p, brief)
<1>1. /\ Len(a) \in Nat /\ Len(b) \in Nat /\ Len(a \o b) = Len(a) + Len(b)
      /\ \A i \in 1 .. Len(a) + Len(b) :
            (a \o b)[i] = IF i <= Len(a) THEN a[i] ELSE b[i - Len(a)]
  BY ConcatProperties, LenProperties
<1> SUFFICES ASSUME NEW i \in 1 .. Len(a) + Len(b)
             PROVE  /\ (a \o b)[i] = [unit |-> p[1 + i - 1], timeline |-> ~brief]
                    /\ p[1 + i - 1] \notin Failing
  BY <1>1 DEF IsOf
<1>2. CASE i <= Len(a)
  BY <1>1, <1>2 DEF IsOf
<1>3. CASE ~(i <= Len(a))
  <2> DEFINE j == i - Len(a)
  <2>1. j \in 1 .. Len(b) /\ Len(a) + 1 + j - 1 = 1 + i - 1 /\ (a \o b)[i] = b[j]
    BY <1>1, <1>3
  <2> HIDE DEF j
  <2>2. /\ b[j] = [unit |-> p[Len(a) + 1 + j - 1], timeline |-> ~brief]
        /\ p[Len(a) + 1 + j - 1] \notin Failing
    BY <2>1 DEF IsOf
  <2> QED
    BY <2>1, <2>2
<1> QED
  BY <1>2, <1>3

\* While no other call interferes, a batch is cut from the plan itself.
LEMMA TakesFromPlan ==
    ASSUME CallerInv, QueueInv, SeedRight, NEW w \in Workers, TakeBatch(w)
    PROVE  /\ SeededUnits = plan
           /\ taken + 1 \in DOMAIN batches
           /\ batches[taken + 1].last \in DOMAIN plan
<1>1. SeededUnits = plan
  BY DEF TakeBatch, SeedRight, SeededUnits
<1>2. taken + 1 \in DOMAIN batches
  BY BatchCount DEF TakeBatch, CallerInv
<1>3. batches[taken + 1].last \in 1 .. Len(plan)
  BY <1>2, Cut, Sizes DEF CallerInv
<1> QED
  BY <1>1, <1>2, <1>3, Sizes, LenProperties DEF CallerInv

\* The next unit of a worker, and where in the plan it is.
LEMMA NextUnit ==
    ASSUME CallerInv, QueueInv, WorkInv, WorkersRight, NEW w \in Workers, batch[w] # 0
    PROVE  /\ batch[w] \in DOMAIN batches /\ batches[batch[w]].first \in Nat
           /\ done[w] \in Seq(Results) /\ units[w] \in Seq(Units) /\ units[w] # <<>>
           /\ Head(units[w]) = plan[batches[batch[w]].first + Len(done[w])]
           /\ batches[batch[w]].first + Len(done[w]) \in DOMAIN plan
           /\ Head(units[w]) \notin Failing =>
                IsOf(ResultsWithNext(w), batches[batch[w]].first, plan, config.summary)
<1> DEFINE first == batches[batch[w]].first
           last == batches[batch[w]].last
           before == Len(done[w])
           left == Len(units[w])
           n == Len(plan)
<1>1. batch[w] \in DOMAIN batches
  BY BatchCount DEF QueueInv, CallerInv
<1>2. /\ first \in Nat /\ last \in Nat /\ 1 <= first /\ last <= n /\ n \in Nat
      /\ plan \in Seq(Units) /\ DOMAIN plan = 1 .. n
  BY <1>1, Cut, Sizes, LenProperties DEF CallerInv
<1>3. /\ done[w] \in Seq(Results) /\ units[w] \in Seq(Units)
      /\ left > 0 /\ first + before + left = last + 1
  BY DEF WorkInv, WorkersInv
<1>4. before \in Nat /\ left \in Nat
  BY <1>3, LenProperties
<1>5. units[w] # <<>>
  BY <1>3, EmptySeq
<1>6. Head(units[w]) = units[w][1] /\ Head(units[w]) \in Units
  BY <1>3, <1>5, HeadTailProperties
<1>7. units[w][1] = plan[first + before + 1 - 1]
  BY <1>3, <1>4 DEF WorkersRight, AreOf
<1> HIDE DEF first, last, before, left, n
<1>8. first + before \in 1 .. n /\ first + before + 1 - 1 = first + before
  BY <1>2, <1>3, <1>4
<1>9. Head(units[w]) = plan[first + before]
  BY <1>6, <1>7, <1>8
<1>10. ASSUME Head(units[w]) \notin Failing
       PROVE  IsOf(ResultsWithNext(w), first, plan, config.summary)
  <2> DEFINE next == Simulate(Head(units[w]))
  <2>1. next \in Results
    BY <1>6, ResultOf DEF CallerInv
  <2>2. next = [unit |-> plan[first + before], timeline |-> ~config.summary]
    BY <1>9 DEF Simulate
  <2> HIDE DEF next
  <2>3. IsOf(done[w], first, plan, config.summary)
    BY DEF WorkersRight, first
  <2>4. plan[first + Len(done[w])] \notin Failing
        /\ next = [unit |-> plan[first + Len(done[w])], timeline |-> ~config.summary]
    BY <1>9, <1>10, <2>2 DEF before
  <2>5. IsOf(Append(done[w], next), first, plan, config.summary)
    BY <1>2, <1>3, <2>1, <2>3, <2>4, OneMore
  <2> QED
    BY <2>5 DEF ResultsWithNext, next
<1> QED
  BY <1>1, <1>2, <1>3, <1>5, <1>8, <1>9, <1>10 DEF first, before

LEMMA SeedRightStep ==
    ASSUME CallerInv, SeedRight, [Next]_vars, ~disturbed'
    PROVE  SeedRight'
<1>0. UNCHANGED <<plan, config>>
  BY ArgumentsStay
<1>1. ASSUME UNCHANGED <<shared, started>> PROVE SeedRight'
  BY <1>0, <1>1 DEF SeedRight
<1>2. ASSUME NEW w \in Workers, StartWorker(w) PROVE SeedRight'
  BY <1>0, <1>2 DEF StartWorker, SeedRight
<1>3. ASSUME NEW w \in Workers, WorkerDies(w) PROVE SeedRight'
  BY <1>3 DEF WorkerDies, SeedRight
<1>4. ~OtherCallStarts
  BY DEF OtherCallStarts
<1> QED
  BY <1>1, <1>2, <1>3, <1>4 DEF Next, Caller, Worker, Start, SimulateNext, ReturnSequential,
     Submit, Collect, AfterException, CollectException, TimeoutExpires, Leave, Tick,
     TakeBatch,
     ExecuteUnit, pool, vars

LEMMA WorkersRightStep ==
    ASSUME CallerInv, QueueInv, WorkInv, SeedRight, WorkersRight, [Next]_vars, ~disturbed'
    PROVE  WorkersRight'
<1>0. /\ UNCHANGED <<plan, config>> /\ Workers' = Workers
      /\ batch \in [Workers -> Nat] /\ units \in [Workers -> Seq(Units)]
      /\ done \in [Workers -> Seq(Results)]
  BY ArgumentsStay DEF QueueInv, WorkInv, WorkersInv
<1>a. ASSUME UNCHANGED <<batches, batch, units, done>> PROVE WorkersRight'
  BY <1>0, <1>a DEF WorkersRight
<1>1. CASE Start
  <2>1. Len(batches) = 0
    BY <1>1, BatchCount DEF Start, CallerInv
  <2>2. \A w \in Workers : batch[w] = 0
    BY <1>0, <2>1 DEF QueueInv, CallerInv
  <2>3. UNCHANGED batch
    BY <1>1 DEF Start, pool
  <2> QED
    BY <1>0, <2>2, <2>3 DEF WorkersRight
<1>2. CASE SimulateNext \/ ReturnSequential \/ Submit \/ Collect \/ CollectException
           \/ TimeoutExpires \/ Leave \/ Tick \/ OtherCallStarts \/ UNCHANGED vars
  BY <1>a, <1>2 DEF SimulateNext, ReturnSequential, Submit, Collect,
     AfterException, CollectException,
     TimeoutExpires, Leave, Tick, OtherCallStarts, pool, vars
<1>3. ASSUME NEW w \in Workers, StartWorker(w) PROVE WorkersRight'
  BY <1>a, <1>3 DEF StartWorker
<1>4. ASSUME NEW w \in Workers, TakeBatch(w) PROVE WorkersRight'
  <2> DEFINE b == taken + 1
             first == batches[b].first
             last == batches[b].last
             cut == SubSeq(plan, first, last)
  <2>1. /\ SeededUnits = plan /\ b \in DOMAIN batches /\ last \in DOMAIN plan
    BY <1>4, TakesFromPlan
  <2>2. /\ batch[w] = 0 /\ UNCHANGED <<batches, done>>
        /\ batch' = [batch EXCEPT ![w] = b]
        /\ units' = [units EXCEPT ![w] = cut]
    BY <1>4, <2>1 DEF TakeBatch
  <2>3. /\ first \in Nat /\ last \in Nat /\ 1 <= first /\ first <= last /\ b \in Nat
    BY <2>1, Cut
  <2>4. plan \in Seq(Units)
    BY Sizes DEF CallerInv
  <2>5. done[w] = <<>> /\ Len(done[w]) = 0
    BY <2>2, EmptySeq DEF WorkInv, WorkersInv
  <2>6. first = batches[b].first
    OBVIOUS
  <2> HIDE DEF b, first, last
  <2>7. \A i \in first .. last : plan[i] \in Units
    BY <2>1, <2>3, <2>4, LenProperties, ElementOfSeq
  <2>8. /\ Len(cut) = last - first + 1
        /\ \A i \in 1 .. last - first + 1 : cut[i] = plan[first + i - 1]
    BY <2>3, <2>7, SubSeqProperties
  <2> HIDE DEF cut
  <2>9. AreOf(cut, first, plan)
    BY <2>3, <2>8 DEF AreOf
  <2>10. first + Len(done[w]) = first
    BY <2>3, <2>5
  <2>11. batch'[w] = b /\ units'[w] = cut /\ done'[w] = <<>>
    BY <1>0, <2>2, <2>5
  <2>12. \A v \in Workers : v # w => batch'[v] = batch[v] /\ units'[v] = units[v]
    BY <1>0, <2>2
  <2>13. IsOf(<<>>, first, plan, config.summary)
    BY NoResults
  <2> SUFFICES ASSUME NEW v \in Workers, batch'[v] # 0
               PROVE  /\ IsOf(done'[v], batches[batch'[v]].first, plan, config.summary)
                      /\ AreOf(units'[v], batches[batch'[v]].first + Len(done'[v]), plan)
    BY <1>0, <2>2 DEF WorkersRight
  <2>14. CASE v = w
    BY <2>5, <2>6, <2>9, <2>10, <2>11, <2>13, <2>14
  <2>15. CASE v # w
    BY <2>2, <2>12, <2>15 DEF WorkersRight
  <2> QED
    BY <2>14, <2>15
<1>5. ASSUME NEW w \in Workers, ExecuteUnit(w) PROVE WorkersRight'
  <2>1. batch[w] # 0 /\ UNCHANGED batches
    BY <1>5 DEF ExecuteUnit
  <2>2. CASE /\ batch' = [batch EXCEPT ![w] = 0]
             /\ units' = [units EXCEPT ![w] = <<>>]
             /\ done' = [done EXCEPT ![w] = <<>>]
    <3> SUFFICES ASSUME NEW v \in Workers, batch'[v] # 0
                 PROVE  /\ IsOf(done'[v], batches[batch'[v]].first, plan, config.summary)
                        /\ AreOf(units'[v], batches[batch'[v]].first + Len(done'[v]), plan)
      BY <1>0, <2>1 DEF WorkersRight
    <3>1. v # w
      BY <1>0, <2>2
    <3>2. batch'[v] = batch[v] /\ units'[v] = units[v] /\ done'[v] = done[v]
      BY <1>0, <2>2, <3>1
    <3> QED
      BY <3>2 DEF WorkersRight
  <2>3. CASE /\ Head(units[w]) \notin Failing /\ Len(units[w]) > 1 /\ UNCHANGED batch
             /\ units' = [units EXCEPT ![w] = Tail(@)]
             /\ done' = [done EXCEPT ![w] = ResultsWithNext(w)]
    <3> DEFINE first == batches[batch[w]].first
               next == Simulate(Head(units[w]))
    <3>1. /\ first \in Nat /\ done[w] \in Seq(Results) /\ units[w] \in Seq(Units)
          /\ units[w] # <<>>
          /\ IsOf(ResultsWithNext(w), first, plan, config.summary)
      BY <2>1, <2>3, NextUnit
    <3>2. AreOf(units[w], first + Len(done[w]), plan)
      BY <2>1 DEF WorkersRight
    <3>3. /\ Len(Tail(units[w])) = Len(units[w]) - 1 /\ Head(units[w]) \in Units
          /\ \A i \in 1 .. Len(Tail(units[w])) : Tail(units[w])[i] = units[w][i + 1]
      BY <3>1, HeadTailProperties
    <3>4. next \in Results
      BY <3>3, ResultOf DEF CallerInv
    <3> HIDE DEF next
    <3>5. Len(ResultsWithNext(w)) = Len(done[w]) + 1
      BY <3>1, <3>4, AppendProperties DEF ResultsWithNext, next
    <3>6. Len(units[w]) \in Nat /\ Len(done[w]) \in Nat
      BY <3>1, LenProperties
    <3> HIDE DEF first
    <3>7. AreOf(Tail(units[w]), first + Len(ResultsWithNext(w)), plan)
      <4> SUFFICES ASSUME NEW i \in 1 .. Len(units[w]) - 1
                   PROVE  Tail(units[w])[i] = plan[first + Len(ResultsWithNext(w)) + i - 1]
        BY <3>3 DEF AreOf
      <4>1. i + 1 \in 1 .. Len(units[w])
        BY <3>6
      <4>2. Tail(units[w])[i] = plan[first + Len(done[w]) + (i + 1) - 1]
        BY <3>2, <3>3, <4>1 DEF AreOf
      <4>3. first + Len(done[w]) + (i + 1) - 1 = first + Len(ResultsWithNext(w)) + i - 1
        BY <3>1, <3>5, <3>6
      <4> QED
        BY <4>2, <4>3
    <3>8. units'[w] = Tail(units[w]) /\ done'[w] = ResultsWithNext(w)
      BY <1>0, <2>3
    <3>9. \A v \in Workers : v # w => done'[v] = done[v] /\ units'[v] = units[v]
      BY <1>0, <2>3
    <3> SUFFICES ASSUME NEW v \in Workers, batch[v] # 0
                 PROVE  /\ IsOf(done'[v], batches[batch[v]].first, plan, config.summary)
                        /\ AreOf(units'[v], batches[batch[v]].first + Len(done'[v]), plan)
      BY <1>0, <2>1, <2>3 DEF WorkersRight
    <3>10. CASE v = w
      BY <3>1, <3>7, <3>8, <3>10 DEF first
    <3>11. CASE v # w
      BY <3>9, <3>11 DEF WorkersRight
    <3> QED
      BY <3>10, <3>11
  <2> QED
    BY <1>5, <2>2, <2>3 DEF ExecuteUnit, futures
<1>6. ASSUME NEW w \in Workers, WorkerDies(w) PROVE WorkersRight'
  BY <1>0, <1>6 DEF WorkerDies, WorkersRight
<1> QED
  BY <1>1, <1>2, <1>3, <1>4, <1>5, <1>6 DEF Next, Caller, Worker

LEMMA FuturesRightStep ==
    ASSUME CallerInv, QueueInv, WorkInv, SeedRight, WorkersRight, FuturesRight, [Next]_vars,
           ~disturbed'
    PROVE  FuturesRight'
<1>0. /\ UNCHANGED <<plan, config>>
      /\ future \in [DOMAIN batches -> Exceptions \cup {"pending", "finished"}]
      /\ output \in [DOMAIN batches -> Seq(Results)]
  BY ArgumentsStay DEF CallerInv, WorkInv, FuturesInv
<1>a. ASSUME UNCHANGED <<batches, future, output>> PROVE FuturesRight'
  BY <1>0, <1>a DEF FuturesRight
<1>1. CASE Start
  <2>1. CASE EffectiveWorkers = 1
    BY <1>a, <1>1, <2>1 DEF Start, futures
  <2>2. CASE EffectiveWorkers # 1
    <3>1. future' = [b \in DOMAIN batches' |-> "pending"]
      BY <1>1, <2>2 DEF Start
    <3> QED
      BY <3>1 DEF FuturesRight
  <2> QED
    BY <2>1, <2>2
<1>2. CASE SimulateNext \/ ReturnSequential \/ Submit \/ Collect \/ CollectException
           \/ TimeoutExpires \/ Leave \/ Tick \/ OtherCallStarts \/ UNCHANGED vars
  BY <1>a, <1>2 DEF SimulateNext, ReturnSequential, Submit, Collect,
     AfterException, CollectException,
     TimeoutExpires, Leave, Tick, OtherCallStarts, futures, vars
<1>3. ASSUME NEW w \in Workers, StartWorker(w) PROVE FuturesRight'
  BY <1>a, <1>3 DEF StartWorker, futures
<1>4. ASSUME NEW w \in Workers, TakeBatch(w) PROVE FuturesRight'
  <2>1. batches[taken + 1].last \in DOMAIN SeededUnits
    BY <1>4, TakesFromPlan
  <2> QED
    BY <1>a, <1>4, <2>1 DEF TakeBatch
<1>5. ASSUME NEW w \in Workers, ExecuteUnit(w) PROVE FuturesRight'
  <2> DEFINE b == batch[w]
  <2>1. b # 0 /\ UNCHANGED batches
    BY <1>5 DEF ExecuteUnit
  <2>2. /\ b \in DOMAIN batches
        /\ Head(units[w]) = plan[batches[b].first + Len(done[w])]
        /\ batches[b].first + Len(done[w]) \in DOMAIN plan
        /\ Head(units[w]) \notin Failing =>
              IsOf(ResultsWithNext(w), batches[b].first, plan, config.summary)
    BY <2>1, NextUnit
  <2>3. CASE UNCHANGED futures
    BY <1>a, <2>1, <2>3 DEF futures
  <2>4. CASE /\ Head(units[w]) \in Failing
             /\ future' = [future EXCEPT ![b] = "ResearchExecutionError"]
             /\ output' = [output EXCEPT ![b] = <<>>]
    <3>1. SomeFails(plan)
      BY <2>2, <2>4 DEF SomeFails
    <3>2. future'[b] = "ResearchExecutionError"
      BY <1>0, <2>2, <2>4
    <3>3. \A c \in DOMAIN batches : c # b => future'[c] = future[c] /\ output'[c] = output[c]
      BY <1>0, <2>4
    <3> HIDE DEF b
    <3> QED
      BY <1>0, <2>1, <2>2, <3>1, <3>2, <3>3 DEF FuturesRight
  <2>5. CASE /\ Head(units[w]) \notin Failing
             /\ future' = [future EXCEPT ![b] = "finished"]
             /\ output' = [output EXCEPT ![b] = ResultsWithNext(w)]
    <3>1. IsOf(ResultsWithNext(w), batches[b].first, plan, config.summary)
      BY <2>2, <2>5
    <3>2. future'[b] = "finished" /\ output'[b] = ResultsWithNext(w)
      BY <1>0, <2>2, <2>5
    <3>3. \A c \in DOMAIN batches : c # b => future'[c] = future[c] /\ output'[c] = output[c]
      BY <1>0, <2>5
    <3> HIDE DEF b
    <3> QED
      BY <1>0, <2>1, <2>2, <3>1, <3>2, <3>3 DEF FuturesRight
  <2> QED
    BY <1>5, <2>3, <2>4, <2>5 DEF ExecuteUnit, futures
<1>6. ASSUME NEW w \in Workers, WorkerDies(w) PROVE FuturesRight'
  BY <1>0, <1>6 DEF WorkerDies, FuturesRight
<1> QED
  BY <1>1, <1>2, <1>3, <1>4, <1>5, <1>6 DEF Next, Caller, Worker

LEMMA CallerRightStep ==
    ASSUME CallerInv, QueueInv, WorkInv, FuturesRight, CallerRight, [Next]_vars, ~disturbed'
    PROVE  CallerRight'
<1>0. UNCHANGED <<plan, config>> /\ plan \in Seq(Units)
  BY ArgumentsStay, Sizes DEF CallerInv
<1>a. ASSUME UNCHANGED <<raised, collected>> PROVE CallerRight'
  BY <1>0, <1>a DEF CallerRight
<1>1. CASE SimulateNext
  <2> DEFINE unit == plan[Len(collected) + 1]
             next == Simulate(unit)
  <2>1. CASE UNCHANGED collected
    BY <1>a, <1>1, <2>1 DEF SimulateNext
  <2>2. CASE unit \notin Failing /\ collected' = Append(collected, next)
    <3>1. /\ collected \in Seq(Results) /\ Len(collected) \in Nat
          /\ Len(collected) < Len(plan)
      BY <1>1, LenProperties DEF SimulateNext, WorkInv, CollectedInv
    <3>2. unit \in Units /\ 1 + Len(collected) = Len(collected) + 1
      BY <1>0, <3>1, ElementOfSeq, LenProperties
    <3>3. next \in Results /\ next = [unit |-> unit, timeline |-> ~config.summary]
      BY <3>2, ResultOf DEF CallerInv, Simulate
    <3>4. plan[1 + Len(collected)] = unit
      BY <3>2
    <3> HIDE DEF next, unit
    <3>5. IsOf(Append(collected, next), 1, plan, config.summary)
      BY <2>2, <3>1, <3>3, <3>4, OneMore DEF CallerRight
    <3> QED
      BY <1>0, <1>1, <2>2, <3>5 DEF SimulateNext, CallerRight
  <2> QED
    BY <1>1, <2>1, <2>2 DEF SimulateNext
<1>2. CASE Submit
  BY <1>0, <1>2 DEF Submit, CallerRight
<1>3. CASE Collect
  <2>1. /\ awaited \in DOMAIN batches /\ output[awaited] \in Seq(Results)
        /\ batches[awaited].first = Len(collected) + 1
        /\ collected \in Seq(Results)
    BY <1>3, Collected DEF WorkInv, CollectedInv
  <2>2. IsOf(output[awaited], Len(collected) + 1, plan, config.summary)
    BY <1>3, <2>1 DEF Collect, FuturesRight
  <2>3. IsOf(collected, 1, plan, config.summary)
    BY DEF CallerRight
  <2>4. IsOf(WithBatch, 1, plan, config.summary)
    BY <2>1, <2>2, <2>3, BatchMore DEF WithBatch
  <2> QED
    BY <1>0, <1>3, <2>4 DEF Collect, CallerRight
<1>4. CASE CollectException
  <2>1. awaited \in DOMAIN batches
    BY <1>4, BatchCount DEF AfterException, CollectException, CallerInv
  <2> QED
    BY <1>0, <1>4, <2>1 DEF AfterException, CollectException, FuturesRight, CallerRight
<1>5. CASE TimeoutExpires
  BY <1>0, <1>5 DEF AfterException, TimeoutExpires, CallerRight
<1>6. ASSUME NEW w \in Workers, Worker(w) \/ WorkerDies(w) PROVE CallerRight'
  BY <1>a, <1>6 DEF Worker, StartWorker, TakeBatch, ExecuteUnit, WorkerDies, caller
<1> QED
  BY <1>a, <1>1, <1>2, <1>3, <1>4, <1>5, <1>6 DEF Next, Caller, Start, ReturnSequential, Leave,
     Tick, OtherCallStarts, caller, vars

\* A call that another has disturbed stays so.
LEMMA StaysDisturbed == [Next]_vars /\ ~disturbed' /\ CallerInv => ~disturbed
BY DEF Next, Caller, Worker, vars, environment, Start, SimulateNext, ReturnSequential, Submit,
   Collect, AfterException, CollectException, TimeoutExpires, Leave, Tick, OtherCallStarts,
   StartWorker,
   TakeBatch, ExecuteUnit, WorkerDies

LEMMA ContentStep ==
    CallerInv /\ QueueInv /\ WorkInv /\ ContentInv /\ [Next]_vars => ContentInv'
BY StaysDisturbed, SeedRightStep, WorkersRightStep, FuturesRightStep, CallerRightStep
   DEF ContentInv

LEMMA ContentInit == Init => ContentInv
<1> SUFFICES ASSUME Init PROVE SeedRight /\ WorkersRight /\ FuturesRight /\ CallerRight
  BY DEF ContentInv
<1>1. SeedRight /\ WorkersRight
  BY DEF Init, SeedRight, WorkersRight
<1>2. FuturesRight
  <2>1. DOMAIN <<>> = {}
    BY EmptySeq, LenProperties
  <2> QED
    BY <2>1 DEF Init, FuturesRight
<1>3. CallerRight
  BY NoResults DEF Init, CallerRight
<1> QED
  BY <1>1, <1>2, <1>3

-----------------------------------------------------------------------------
(***************************************************************************)
(* The theorems.                                                           *)
(***************************************************************************)

IInv == CallerInv /\ QueueInv /\ WorkInv /\ ContentInv

LEMMA Inductive == Spec => []IInv
<1>1. Init => IInv
  BY CallerInit, QueueInit, WorkInit, ContentInit DEF IInv
<1>2. IInv /\ [Next]_vars => IInv'
  BY CallerStep, QueueStep, WorkStep, ContentStep DEF IInv
<1> QED
  BY <1>1, <1>2, PTL DEF Spec

\* Every variable has its type, the progress that was reported within the
\* plan included.
THEOREM TypeCorrect == Spec => []TypeOK
<1>1. IInv => TypeOK
  <2> SUFFICES ASSUME IInv PROVE TypeOK
    OBVIOUS
  <2>1. /\ Len(batches) \in Nat /\ DOMAIN batches = 1 .. Len(batches)
        /\ Len(plan) \in Nat
    BY BatchCount, Sizes DEF IInv, CallerInv
  <2>2. /\ plan \in Plans /\ config \in Configs
        /\ phase \in {"start", "sequential", "submit", "collect", "shutdown", "done"}
        /\ raised \in Exceptions \cup {"none"}
        /\ outcome \in Exceptions \cup {"running", "returned"}
        /\ awaited \in 1 .. Len(batches) + 1 /\ waited \in 0 .. config.timeout
        /\ submitted \in 0 .. Len(batches) /\ taken \in 0 .. submitted
        /\ future \in [DOMAIN batches -> Exceptions \cup {"pending", "finished"}]
        /\ deaths \in 0 .. MaxDeaths /\ disturbed \in BOOLEAN
    BY DEF IInv, CallerInv
  <2>3. batches \in Seq([first : Nat, last : Nat])
    BY EmptySeq DEF IInv, CallerInv, IsCut
  <2>4. batch \in [Workers -> 0 .. Len(batches)] /\ started \subseteq Workers
    BY <2>1, <2>2 DEF IInv, QueueInv
  <2>5. /\ units \in [Workers -> Seq(Units)] /\ done \in [Workers -> Seq(Results)]
        /\ output \in [DOMAIN batches -> Seq(Results)]
        /\ collected \in Seq(Results)
        /\ shared \in Plans \cup OtherPlans \cup {<<>>}
    BY DEF IInv, WorkInv, WorkersInv, FuturesInv, CollectedInv, SharedInv
  <2>6. reported \in 0 .. Len(plan)
    <3>1. /\ Len(collected) \in Nat /\ Len(collected) <= Len(plan)
          /\ reported \in 0 .. Len(collected)
      BY <2>5, LenProperties DEF IInv, WorkInv, CollectedInv
    <3> QED
      BY <2>1, <3>1
  <2> QED
    BY <2>2, <2>3, <2>4, <2>5, <2>6 DEF TypeOK
<1> QED
  BY <1>1, Inductive, PTL

\* Nothing of a call is queued or executed when it has ended.
THEOREM NothingOutlives == Spec => []NothingOutlivesTheCall
<1>1. IInv => NothingOutlivesTheCall
  BY DEF IInv, QueueInv, NothingOutlivesTheCall
<1> QED
  BY <1>1, Inductive, PTL

\* What an undisturbed call returns.
LEMMA ReturnsThePlan ==
    ASSUME IInv, ~disturbed, Len(collected) = Len(plan)
    PROVE  /\ collected = [i \in DOMAIN plan |-> Simulate(plan[i])]
           /\ \A i \in DOMAIN plan : plan[i] \notin Failing
<1> DEFINE wanted == [i \in DOMAIN plan |-> Simulate(plan[i])]
<1>1. plan \in Seq(Units) /\ Len(plan) \in Nat /\ DOMAIN plan = 1 .. Len(plan)
  BY Sizes, LenProperties DEF IInv, CallerInv
<1>2. collected \in Seq(Results) /\ IsOf(collected, 1, plan, config.summary)
  BY DEF IInv, WorkInv, CollectedInv, ContentInv, CallerRight
<1>3. \A i \in 1 .. Len(plan) : collected[i] = Simulate(plan[i]) /\ plan[i] \notin Failing
  <2> SUFFICES ASSUME NEW i \in 1 .. Len(plan)
               PROVE  collected[i] = Simulate(plan[i]) /\ plan[i] \notin Failing
    OBVIOUS
  <2>1. 1 + i - 1 = i
    BY <1>1
  <2> QED
    BY <1>2, <2>1 DEF IsOf, Simulate
<1>4. \A i \in 1 .. Len(plan) : Simulate(plan[i]) \in Results
  BY <1>1, ElementOfSeq, ResultOf DEF IInv, CallerInv
<1>5. wanted \in [1 .. Len(plan) -> Results]
  BY <1>1, <1>4
<1>6. wanted \in Seq(Results) /\ Len(wanted) = Len(plan)
  BY <1>1, <1>5, FunctionIsSeq
<1>7. \A i \in 1 .. Len(plan) : collected[i] = wanted[i]
  BY <1>1, <1>3
<1> HIDE DEF wanted
<1>8. collected = wanted
  BY <1>2, <1>6, <1>7, SeqEqual
<1> QED
  BY <1>1, <1>3, <1>8 DEF wanted

\* What a call returns is what a sequential execution returns, whatever the
\* number of workers, the size of the batches and the order they finish in,
\* unless another call has interfered.
THEOREM Deterministic == Spec => []DeterministicUnlessShared
<1>1. IInv => DeterministicUnlessShared
  <2> SUFFICES ASSUME IInv, ~disturbed, outcome = "returned"
               PROVE  collected = [i \in DOMAIN plan |-> Simulate(plan[i])]
    BY DEF DeterministicUnlessShared, DeterministicResults
  <2>1. Len(collected) = Len(plan)
    BY DEF IInv, WorkInv, CollectedInv
  <2> QED
    BY <2>1, ReturnsThePlan
<1> QED
  BY <1>1, Inductive, PTL

-----------------------------------------------------------------------------
(***************************************************************************)
(* The refinement of StudyExecution.                                       *)
(***************************************************************************)

\* A step that leaves what the abstract execution shows as it is.
LEMMA Stutters ==
    ASSUME UNCHANGED <<plan, config, outcome, reported, disturbed>>,
           outcome # "returned"
    PROVE  UNCHANGED Study!vars
BY DEF Study!vars

\* A step that reports progress.
LEMMA ReportsProgress ==
    ASSUME IInv, IInv', UNCHANGED <<plan, config, outcome, disturbed>>, outcome = "running",
           reported' = Len(collected'), Len(collected) < Len(collected')
    PROVE  Study!Next
<1>1. /\ reported' \in 1 .. Len(plan) /\ reported < reported'
  <2>1. /\ Len(collected') \in Nat /\ Len(collected) \in Nat
        /\ Len(collected') <= Len(plan) /\ reported \in 0 .. Len(collected)
        /\ Len(plan) \in Nat
    BY Sizes, LenProperties DEF IInv, WorkInv, CollectedInv, CallerInv
  <2> QED
    BY <2>1
<1>2. UNCHANGED <<config.summary, IF outcome = "returned" THEN collected ELSE <<>>>>
  OBVIOUS
<1>3. CASE disturbed
  <2>1. Study!ReportDisturbed(reported')
    BY <1>1, <1>2, <1>3 DEF Study!ReportDisturbed
  <2> QED
    BY <1>1, <2>1 DEF Study!Next
<1>4. CASE ~disturbed
  <2>1. IsOf(collected', 1, plan, config.summary)
    BY <1>4 DEF IInv, ContentInv, CallerRight
  <2>2. \A i \in 1 .. reported' : plan[i] \notin Failing
    <3> SUFFICES ASSUME NEW i \in 1 .. reported' PROVE plan[i] \notin Failing
      OBVIOUS
    <3>1. 1 + i - 1 = i
      BY <1>1
    <3> QED
      BY <2>1, <3>1 DEF IsOf
  <2>3. reported' <= Len(plan)
    BY <1>1
  <2>4. Study!Report(reported')
    BY <1>1, <1>2, <2>2, <2>3 DEF Study!Report
  <2> QED
    BY <1>1, <2>4 DEF Study!Next
<1> QED
  BY <1>3, <1>4

\* A step that returns the results.
LEMMA ReturnsResults ==
    ASSUME IInv, UNCHANGED <<plan, config, collected, reported, disturbed>>,
           outcome = "running", outcome' = "returned", Len(collected) = Len(plan)
    PROVE  Study!Next
<1> DEFINE delivered == IF outcome = "returned" THEN collected ELSE <<>>
<1>1. delivered' = collected
  OBVIOUS
<1>2. CASE disturbed
  <2>1. delivered' \in Seq([unit : Units, timeline : BOOLEAN])
    BY <1>1 DEF IInv, WorkInv, CollectedInv, Results
  <2> QED
    BY <1>2, <2>1 DEF Study!Next, Study!EndDisturbed
<1>3. CASE ~disturbed
  <2>1. delivered' = [i \in DOMAIN plan |-> Study!Simulate(plan[i], config.summary)]
        /\ \A i \in DOMAIN plan : plan[i] \notin Failing
    BY <1>1, <1>3, ReturnsThePlan DEF Simulate, Study!Simulate
  <2> QED
    BY <2>1 DEF Study!Next, Study!Return
<1> QED
  BY <1>2, <1>3

\* The call does what the abstract execution of a study allows.
THEOREM Implements == Spec => ImplementsStudyExecution
<1>1. Init => Study!Init
  <2> SUFFICES ASSUME Init PROVE Study!Init
    OBVIOUS
  <2>1. config.summary \in BOOLEAN
    BY ConfigsAssumption DEF Init, Config
  <2> QED
    BY <2>1 DEF Init, Study!Init
<1>2. IInv /\ IInv' /\ [Next]_vars => [Study!Next]_(Study!vars)
  <2> SUFFICES ASSUME IInv, IInv', [Next]_vars
               PROVE  Study!Next \/ UNCHANGED Study!vars
    OBVIOUS
  <2>0. UNCHANGED <<plan, config>> /\ (phase # "done" => outcome = "running")
    BY ArgumentsStay DEF IInv, CallerInv
  <2>1. CASE Start \/ Submit \/ CollectException \/ TimeoutExpires \/ Tick
    <3>1. UNCHANGED <<outcome, reported, disturbed>> /\ phase # "done"
      BY <2>1 DEF Start, Submit, AfterException, CollectException, TimeoutExpires, Tick, Waiting,
         environment
    <3> QED
      BY <2>0, <3>1, Stutters
  <2>2. ASSUME NEW w \in Workers, Worker(w) \/ WorkerDies(w)
        PROVE  UNCHANGED Study!vars
    BY <2>0, <2>2 DEF Worker, StartWorker, TakeBatch, ExecuteUnit, WorkerDies, caller,
       environment, Study!vars
  <2>3. CASE SimulateNext
    <3> DEFINE unit == plan[Len(collected) + 1]
    <3>1. /\ outcome = "running" /\ UNCHANGED disturbed
          /\ Len(collected) \in Nat /\ Len(collected) < Len(plan)
          /\ plan \in Seq(Units) /\ collected \in Seq(Results)
      BY <2>0, <2>3, LenProperties, Sizes
         DEF SimulateNext, environment, IInv, WorkInv, CollectedInv, CallerInv
    <3>2. Len(collected) + 1 \in DOMAIN plan
      BY <3>1, LenProperties
    <3>3. CASE unit \in Failing
      <4>1. outcome' = "ResearchExecutionError" /\ UNCHANGED reported
        BY <2>3, <3>3 DEF SimulateNext
      <4>2. \E i \in DOMAIN plan : plan[i] \in Failing
        BY <3>2, <3>3
      <4>3. Study!Fail
        BY <2>0, <3>1, <4>1, <4>2 DEF Study!Fail
      <4> QED
        BY <4>3 DEF Study!Next
    <3>4. CASE unit \notin Failing
      <4>1. /\ collected' = Append(collected, Simulate(unit)) /\ UNCHANGED outcome
            /\ reported' = Len(collected') \/ UNCHANGED reported
        BY <2>3, <3>4 DEF SimulateNext
      <4>2. Simulate(unit) \in Results
        BY <3>1, <3>2, LenProperties, ElementOfSeq, ResultOf DEF IInv, CallerInv
      <4>3. Len(collected') = Len(collected) + 1
        BY <3>1, <4>1, <4>2, AppendProperties
      <4>4. CASE reported' = Len(collected')
        BY <2>0, <3>1, <4>1, <4>3, <4>4, ReportsProgress
      <4>5. CASE UNCHANGED reported
        BY <2>0, <3>1, <4>1, <4>5, Stutters
      <4> QED
        BY <4>1, <4>4, <4>5
    <3> QED
      BY <3>3, <3>4
  <2>4. CASE Collect
    <3>1. /\ outcome = "running" /\ UNCHANGED <<outcome, disturbed>>
          /\ collected' = WithBatch
          /\ reported' = Len(collected') \/ UNCHANGED reported
      BY <2>0, <2>4 DEF Collect, CompletedCount, environment
    <3>2. Len(collected) < Len(collected')
      BY <2>4, <3>1, Collected DEF IInv, WorkInv
    <3>3. CASE reported' = Len(collected')
      BY <2>0, <3>1, <3>2, <3>3, ReportsProgress
    <3>4. CASE UNCHANGED reported
      BY <2>0, <3>1, <3>4, Stutters
    <3> QED
      BY <3>1, <3>3, <3>4
  <2>5. CASE ReturnSequential
    BY <2>0, <2>5, ReturnsResults DEF ReturnSequential, environment
  <2>6. CASE Leave
    <3>1. /\ outcome = "running" /\ UNCHANGED <<collected, reported, disturbed>>
          /\ phase = "shutdown" /\ raised \in Exceptions \cup {"none"}
          /\ outcome' = IF raised = "none" THEN "returned" ELSE raised
      BY <2>0, <2>6 DEF Leave, environment, IInv, CallerInv
    <3>2. CASE raised = "none"
      <4>1. outcome' = "returned"
        BY <3>1, <3>2
      <4>2. Len(collected) = Len(plan)
        BY <2>0, <3>1, <4>1 DEF IInv, WorkInv, CollectedInv
      <4> QED
        BY <2>0, <3>1, <4>1, <4>2, ReturnsResults
    <3>3. CASE raised \in {"TimeoutError", "BrokenProcessPool"}
      <4>1. Study!Interrupt
        BY <2>0, <3>1, <3>3 DEF Study!Interrupt
      <4> QED
        BY <4>1 DEF Study!Next
    <3>4. CASE raised \in UnitErrors
      <4>1. outcome' = raised /\ outcome' \in {"ResearchExecutionError", "IndexError"}
        BY <3>1, <3>4 DEF UnitErrors
      <4>2. CASE disturbed
        <5>1. <<>> \in Seq([unit : Units, timeline : BOOLEAN])
          BY EmptySeq
        <5>2. Study!EndDisturbed
          BY <2>0, <3>1, <4>1, <4>2, <5>1 DEF Study!EndDisturbed
        <5> QED
          BY <5>2 DEF Study!Next
      <4>3. CASE ~disturbed
        <5>1. raised = "ResearchExecutionError" /\ SomeFails(plan)
          BY <3>4, <4>3 DEF IInv, ContentInv, CallerRight, UnitErrors
        <5>2. Study!Fail
          BY <2>0, <3>1, <4>1, <5>1 DEF Study!Fail, SomeFails
        <5> QED
          BY <5>2 DEF Study!Next
      <4> QED
        BY <4>2, <4>3
    <3> QED
      BY <3>1, <3>2, <3>3, <3>4 DEF Exceptions, UnitErrors
  <2>7. CASE OtherCallStarts
    <3>1. /\ outcome = "running" /\ UNCHANGED <<outcome, collected, reported>>
          /\ disturbed' = TRUE
      BY <2>0, <2>7 DEF OtherCallStarts, caller
    <3>2. Study!Disturb
      BY <2>0, <3>1 DEF Study!Disturb
    <3> QED
      BY <3>2 DEF Study!Next
  <2>8. CASE UNCHANGED vars
    BY <2>8 DEF vars, caller, environment, Study!vars
  <2> QED
    BY <2>1, <2>2, <2>3, <2>4, <2>5, <2>6, <2>7, <2>8 DEF Next, Caller
<1> QED
  BY <1>1, <1>2, Inductive, PTL DEF Spec, ImplementsStudyExecution, Study!Spec

=============================================================================
