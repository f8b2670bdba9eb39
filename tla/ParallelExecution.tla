-------------------------- MODULE ParallelExecution --------------------------
(***************************************************************************)
(* parallel_execute (parallel_executor.py): one call, its worker pool, and *)
(* the sequential execution it falls back to.                              *)
(*                                                                         *)
(* The caller cuts the plan into batches of consecutive units, submits all *)
(* of them and then waits for the futures in the order of submission.  The *)
(* workers take batches from the queue of the pool in that order and       *)
(* finish them in any order.  Leaving the `with` block waits for the whole *)
(* pool, also when an exception is on its way to the caller.               *)
(*                                                                         *)
(* The pool is concurrent.futures: a FIFO queue of batches, a worker that  *)
(* is started when a batch is submitted, and a pool of processes that is   *)
(* broken for good when one of them dies.                                  *)
(***************************************************************************)
EXTENDS Naturals, Sequences, FiniteSets

CONSTANTS
    Units,           \* planned simulation units
    Failing,         \* the units whose simulation raises an exception
    Plans,           \* research plans
    OtherPlans,      \* plans other calls in the same process execute
    Configs,         \* arguments and ExecutionConfig (see Config below)
    DefaultWorkers,  \* default_max_workers()
    MaxDeaths        \* bound: worker processes killed

(***************************************************************************)
(* max_workers, chunk_size and timeout_seconds (in ticks) are 0 for None.  *)
(* `whole` is processes_whole_definition of the simulation executor.       *)
(***************************************************************************)
Config == [max_workers : Nat, chunk_size : Nat, timeout : Nat, processes : BOOLEAN,
           progress : BOOLEAN, summary : BOOLEAN, whole : BOOLEAN]

ASSUME PlansAssumption ==
    /\ Failing \subseteq Units
    /\ \A p \in Plans \cup OtherPlans : p \in Seq(Units) /\ p # <<>>

ASSUME ConfigsAssumption ==
    /\ Configs \subseteq Config
    /\ DefaultWorkers \in Nat \ {0}
    /\ MaxDeaths \in Nat

VARIABLES
    plan, config,     \* the arguments
    phase,            \* where the caller is
    raised,           \* the exception on its way out of the `with` block
    outcome,          \* "running", "returned" or the exception raised
    collected,        \* all_simulation_results
    reported,         \* completed_count as last told to the callback
    awaited,          \* the future the caller waits for next
    waited,           \* ticks it has waited for it
    batches,          \* index_batches: first and last index of each
    submitted,        \* batches submitted so far
    taken,            \* batches workers have taken from the queue
    future,           \* batch |-> "pending", "finished" or its exception
    output,           \* batch |-> the results of its future
    started,          \* workers started so far
    batch,            \* worker |-> the batch it executes, 0 for none
    units,            \* worker |-> the units it still has to execute
    done,             \* worker |-> the results of that batch so far
    shared,           \* the _WORKER_UNITS of the threads of this process
    deaths,           \* worker processes killed so far
    disturbed         \* another call has written the shared units

pool == <<started, batch, units, done>>
futures == <<future, output>>
caller == <<phase, raised, outcome, collected, reported, awaited, waited>>
environment == <<deaths, disturbed>>
vars == <<plan, config, caller, batches, submitted, taken, futures, pool, shared,
          environment>>

-----------------------------------------------------------------------------
(***************************************************************************)
(* Work distribution.                                                      *)
(***************************************************************************)

Simulate(unit) == [unit |-> unit, timeline |-> ~config.summary]

EffectiveWorkers == IF config.max_workers = 0 THEN DefaultWorkers ELSE config.max_workers

\* create_work_batches: ceil(len(units) / max_workers); create_chunked_batches
\* when fine-grained progress was asked for.
BatchSize ==
    IF config.progress /\ config.summary /\ config.chunk_size > 0
    THEN config.chunk_size
    ELSE (Len(plan) + EffectiveWorkers - 1) \div EffectiveWorkers

\* Mutant: ranges of a fixed size that forget the shorter last batch.
FullBatches(n, size) ==
    [k \in 1 .. n \div size |-> [first |-> (k - 1) * size + 1, last |-> k * size]]

\* range(0, len(units), size), with the last batch cut at the end.
Batches(n, size) ==
    [k \in 1 .. (n + size - 1) \div size |->
        [first |-> (k - 1) * size + 1, last |-> IF k * size < n THEN k * size ELSE n]]

Workers == 1 .. EffectiveWorkers

\* What a worker's batch is cut from: a process has its own copy of the plan,
\* the threads of one process share one.
SeededUnits == IF config.processes THEN plan ELSE shared

-----------------------------------------------------------------------------
(***************************************************************************)
(* The caller.                                                             *)
(***************************************************************************)

\* One worker: sequential_execute, in the process of the caller.  Otherwise
\* the batches are laid out and the pool is entered.
Start ==
    /\ phase = "start"
    /\ IF EffectiveWorkers = 1
       THEN phase' = "sequential" /\ UNCHANGED <<batches, futures>>
       ELSE /\ phase' = "submit"
            /\ batches' = Batches(Len(plan), BatchSize)
            /\ future' = [b \in DOMAIN batches' |-> "pending"]
            /\ output' = [b \in DOMAIN batches' |-> <<>>]
    /\ UNCHANGED <<plan, config, raised, outcome, collected, reported, awaited, waited,
                   submitted, taken, pool, shared, environment>>

\* The contexts of a sequential execution, one after the other.  The progress
\* wrapper reports each of them, or all at once for a whole definition.
SimulateNext ==
    LET unit == plan[Len(collected) + 1] IN
    /\ phase = "sequential" /\ Len(collected) < Len(plan)
    /\ IF unit \in Failing
       THEN /\ phase' = "done"
            /\ outcome' = "ResearchExecutionError"
            /\ UNCHANGED <<collected, reported>>
       ELSE /\ collected' = Append(collected, Simulate(unit))
            /\ reported' = IF config.progress /\ (config.whole => Len(collected') = Len(plan))
                           THEN Len(collected') ELSE reported
            /\ UNCHANGED <<phase, outcome>>
    /\ UNCHANGED <<plan, config, raised, awaited, waited, batches, submitted, taken,
                   futures, pool, shared, environment>>

ReturnSequential ==
    /\ phase = "sequential" /\ Len(collected) = Len(plan)
    /\ phase' = "done"
    /\ outcome' = "returned"
    /\ UNCHANGED <<plan, config, raised, collected, reported, awaited, waited, batches,
                   submitted, taken, futures, pool, shared, environment>>

\* executor.submit, which a broken pool refuses.
Submit ==
    /\ phase = "submit"
    /\ IF deaths > 0
       THEN /\ raised' = "BrokenProcessPool" /\ phase' = "shutdown"
            /\ UNCHANGED submitted
       ELSE /\ submitted' = submitted + 1
            /\ phase' = IF submitted' = Len(batches) THEN "collect" ELSE "submit"
            /\ UNCHANGED raised
    /\ UNCHANGED <<plan, config, outcome, collected, reported, awaited, waited, batches,
                   taken, futures, pool, shared, environment>>

\* Mutant: the last batch counts as much as the others.
CompletedByBatchSize == reported + BatchSize

WithBatch == collected \o output[awaited]
CompletedCount == Len(WithBatch)

\* The future the caller waits for is done, and there is no exception in it.
Collect ==
    /\ phase = "collect" /\ future[awaited] = "finished"
    /\ collected' = WithBatch
    /\ reported' = IF config.progress THEN CompletedCount ELSE reported
    /\ awaited' = awaited + 1
    /\ waited' = 0
    /\ phase' = IF awaited = Len(batches) THEN "shutdown" ELSE "collect"
    /\ UNCHANGED <<plan, config, raised, outcome, batches, submitted, taken, futures,
                   pool, shared, environment>>

\* Mutant: the batch that raised is waited for again.
WaitAgain == "collect"

\* The loop handles no exception: the first one leaves the `with` block.
AfterException == "shutdown"

CollectException ==
    /\ phase = "collect" /\ future[awaited] \notin {"pending", "finished"}
    /\ raised' = future[awaited]
    /\ phase' = AfterException
    /\ UNCHANGED <<plan, config, outcome, collected, reported, awaited, waited, batches,
                   submitted, taken, futures, pool, shared, environment>>

Waiting == phase = "collect" /\ future[awaited] = "pending"

\* Time passes while the caller waits with a timeout.
Tick ==
    /\ Waiting /\ waited < config.timeout
    /\ waited' = waited + 1
    /\ UNCHANGED <<plan, config, phase, raised, outcome, collected, reported, awaited,
                   batches, submitted, taken, futures, pool, shared, environment>>

\* future.result(timeout) gives up.
TimeoutExpires ==
    /\ Waiting /\ config.timeout > 0 /\ waited = config.timeout
    /\ raised' = "TimeoutError"
    /\ phase' = AfterException
    /\ UNCHANGED <<plan, config, outcome, collected, reported, awaited, waited, batches,
                   submitted, taken, futures, pool, shared, environment>>

\* No batch is queued and no worker executes one.
PoolIsIdle ==
    /\ \A b \in 1 .. submitted : future[b] # "pending"
    /\ \A w \in Workers : batch[w] = 0

\* Mutant: shutdown(wait=False).
NotWaited == TRUE

Waited == PoolIsIdle

\* The end of the `with` block: shutdown(wait=True), which cancels nothing.
\* Then the exception goes on, or the results are put together.
Leave ==
    /\ phase = "shutdown" /\ Waited
    /\ phase' = "done"
    /\ outcome' = IF raised = "none" THEN "returned" ELSE raised
    /\ UNCHANGED <<plan, config, raised, collected, reported, awaited, waited, batches,
                   submitted, taken, futures, pool, shared, environment>>

-----------------------------------------------------------------------------
(***************************************************************************)
(* The workers.                                                            *)
(***************************************************************************)

\* Submitting a batch starts a worker, up to max_workers; it first runs
\* _initialize_worker, which threads do in the memory they share.
StartWorker(w) ==
    /\ w \notin started /\ Cardinality(started) < submitted /\ deaths = 0
    /\ started' = started \cup {w}
    /\ shared' = IF config.processes THEN shared ELSE plan
    /\ UNCHANGED <<plan, config, caller, batches, submitted, taken, futures, batch, units,
                   done, environment>>

\* A worker takes the next batch and cuts its units from the seeded plan.
TakeBatch(w) ==
    LET b == taken + 1 IN
    /\ w \in started /\ batch[w] = 0
    /\ taken < submitted /\ deaths = 0
    /\ taken' = taken + 1
    /\ IF batches[b].last \in DOMAIN SeededUnits
       THEN /\ batch' = [batch EXCEPT ![w] = b]
            /\ units' = [units EXCEPT ![w] =
                            SubSeq(SeededUnits, batches[b].first, batches[b].last)]
            /\ UNCHANGED future
       ELSE /\ future' = [future EXCEPT ![b] = "IndexError"]
            /\ UNCHANGED <<batch, units>>
    /\ UNCHANGED <<plan, config, caller, batches, submitted, output, started, done,
                   shared, environment>>

\* Mutant: the newest result comes first.
ResultsReversed(w) == <<Simulate(Head(units[w]))>> \o done[w]

ResultsWithNext(w) == Append(done[w], Simulate(Head(units[w])))

\* A worker simulates the next unit of its batch.  An exception ends the
\* batch, whose other results are lost with it.
ExecuteUnit(w) ==
    LET unit == Head(units[w])
        results == ResultsWithNext(w)
        Resolve(state, value) ==
            /\ future' = [future EXCEPT ![batch[w]] = state]
            /\ output' = [output EXCEPT ![batch[w]] = value]
            /\ batch' = [batch EXCEPT ![w] = 0]
            /\ units' = [units EXCEPT ![w] = <<>>]
            /\ done' = [done EXCEPT ![w] = <<>>]
    IN
    /\ batch[w] # 0
    /\ \/ /\ unit \in Failing
          /\ Resolve("ResearchExecutionError", <<>>)
       \/ /\ unit \notin Failing /\ Len(units[w]) = 1
          /\ Resolve("finished", results)
       \/ /\ unit \notin Failing /\ Len(units[w]) > 1
          /\ units' = [units EXCEPT ![w] = Tail(@)]
          /\ done' = [done EXCEPT ![w] = results]
          /\ UNCHANGED <<futures, batch>>
    /\ UNCHANGED <<plan, config, caller, batches, submitted, taken, started, shared,
                   environment>>

-----------------------------------------------------------------------------
(***************************************************************************)
(* The environment.                                                        *)
(***************************************************************************)

\* A worker process is killed: the pool is broken, its other processes are
\* terminated, and every future that is not done raises BrokenProcessPool.
WorkerDies(w) ==
    /\ config.processes /\ w \in started /\ phase # "done"
    /\ deaths < MaxDeaths
    /\ deaths' = deaths + 1
    /\ future' = [b \in DOMAIN future |->
                     IF b <= submitted /\ future[b] = "pending" THEN "BrokenProcessPool"
                     ELSE future[b]]
    /\ taken' = submitted
    /\ started' = {}
    /\ batch' = [v \in Workers |-> 0]
    /\ units' = [v \in Workers |-> <<>>]
    /\ done' = [v \in Workers |-> <<>>]
    /\ UNCHANGED <<plan, config, caller, batches, submitted, output, shared, disturbed>>

\* A worker thread of another call of parallel_execute in this process runs
\* _initialize_worker.
OtherCallStarts ==
    /\ phase \in {"submit", "collect", "shutdown"}
    /\ ~config.processes
    /\ \E other \in OtherPlans : shared # other /\ shared' = other
    /\ disturbed' = TRUE
    /\ UNCHANGED <<plan, config, caller, batches, submitted, taken, futures, pool, deaths>>

-----------------------------------------------------------------------------

Init ==
    /\ plan \in Plans /\ config \in Configs
    /\ phase = "start" /\ raised = "none" /\ outcome = "running"
    /\ collected = <<>> /\ reported = 0
    /\ awaited = 1 /\ waited = 0
    /\ batches = <<>> /\ submitted = 0 /\ taken = 0
    /\ future = <<>> /\ output = <<>>
    /\ started = {}
    /\ batch = [w \in Workers |-> 0]
    /\ units = [w \in Workers |-> <<>>]
    /\ done = [w \in Workers |-> <<>>]
    /\ shared = <<>> /\ deaths = 0 /\ disturbed = FALSE

Caller ==
    \/ Start
    \/ SimulateNext
    \/ ReturnSequential
    \/ Submit
    \/ Collect
    \/ CollectException
    \/ TimeoutExpires
    \/ Leave

Worker(w) == StartWorker(w) \/ TakeBatch(w) \/ ExecuteUnit(w)

Next ==
    \/ Caller
    \/ Tick
    \/ OtherCallStarts
    \/ \E w \in Workers : Worker(w) \/ WorkerDies(w)

\* The caller and every worker keep running and time passes; nothing forces
\* a worker to die or another call to start.
Fairness ==
    /\ WF_vars(Caller)
    /\ WF_vars(Tick)
    /\ \A w \in UNION {1 .. c.max_workers : c \in Configs} \cup 1 .. DefaultWorkers :
          WF_vars(w \in Workers /\ Worker(w))

Spec == Init /\ [][Next]_vars
FairSpec == Spec /\ Fairness
-----------------------------------------------------------------------------
(***************************************************************************)
(* Type invariant.                                                         *)
(***************************************************************************)

Results == [unit : Units, timeline : BOOLEAN]
UnitErrors == {"ResearchExecutionError", "IndexError"}
Exceptions == UnitErrors \cup {"TimeoutError", "BrokenProcessPool"}

\* Every variable has its type; the futures are those of the batches.
TypeOK ==
    /\ plan \in Plans /\ config \in Configs
    /\ phase \in {"start", "sequential", "submit", "collect", "shutdown", "done"}
    /\ raised \in Exceptions \cup {"none"}
    /\ outcome \in Exceptions \cup {"running", "returned"}
    /\ collected \in Seq(Results)
    /\ reported \in 0 .. Len(plan)
    /\ awaited \in 1 .. Len(batches) + 1
    /\ waited \in 0 .. config.timeout
    /\ batches \in Seq([first : Nat, last : Nat])
    /\ submitted \in 0 .. Len(batches) /\ taken \in 0 .. submitted
    /\ future \in [DOMAIN batches -> Exceptions \cup {"pending", "finished"}]
    /\ output \in [DOMAIN batches -> Seq(Results)]
    /\ started \subseteq Workers
    /\ batch \in [Workers -> 0 .. Len(batches)]
    /\ units \in [Workers -> Seq(Units)]
    /\ done \in [Workers -> Seq(Results)]
    /\ shared \in Plans \cup OtherPlans \cup {<<>>}
    /\ deaths \in 0 .. MaxDeaths
    /\ disturbed \in BOOLEAN

(***************************************************************************)
(* Safety.                                                                 *)
(***************************************************************************)

\* Whatever order the batches finish in, whichever workers did them and
\* however the plan was cut, what is returned is what a sequential execution
\* returns: the result of every unit, once, in plan order.
DeterministicResults ==
    outcome = "returned" => collected = [i \in DOMAIN plan |-> Simulate(plan[i])]

\* So it is unless another call's threads have run in the same process.
DeterministicUnlessShared == ~disturbed => DeterministicResults

\* When the call has ended, with results or with an exception, nothing of it
\* is queued or executed any more.
NothingOutlivesTheCall == phase = "done" => PoolIsIdle

\* The call implements the abstract execution of a study.
Study == INSTANCE StudyExecution WITH
    summary <- config.summary,
    delivered <- IF outcome = "returned" THEN collected ELSE <<>>

ImplementsStudyExecution == Study!Spec

(***************************************************************************)
(* Liveness.                                                               *)
(***************************************************************************)

\* The call ends, also after exceptions, timeouts and the death of a worker.
CallEnds == <>(phase = "done")
=============================================================================
