------------------------- MODULE MCParallelExecution -------------------------
(***************************************************************************)
(* Small instances of ParallelExecution for TLC.                           *)
(***************************************************************************)
EXTENDS ParallelExecution

CONSTANTS u1, u2, u3, u4, u5,  \* units that are simulated
          bad,                 \* a unit whose simulation raises
          x1, x2               \* units of another call's plan

FivePlan == {<<u1, u2, u3, u4, u5>>}
FailingPlans == {<<u1, u2, u3>>, <<u1, bad, u3, u4>>, <<bad, u2, u3, bad, u5>>}
AllPlans == FivePlan \cup FailingPlans
OtherPlan == {<<x1>>, <<x1, x2, x1, x2>>}

Arguments(workers, chunk, timeout, processes) ==
    [max_workers |-> workers, chunk_size |-> chunk, timeout |-> timeout,
     processes |-> processes, progress |-> TRUE, summary |-> TRUE, whole |-> FALSE]

\* Every way to cut five units: sequentially, by workers and by chunks, with
\* and without progress, timelines and a whole-definition executor.
CutConfigs ==
    {[Arguments(w, k, 0, TRUE) EXCEPT !.progress = p, !.whole = o] :
        w \in {0, 1, 3}, k \in {0, 1, 2}, p \in BOOLEAN, o \in BOOLEAN}
    \cup {[Arguments(2, 2, 0, TRUE) EXCEPT !.summary = FALSE]}

FailureConfigs == {Arguments(w, k, t, TRUE) : w \in {1, 2}, k \in {0, 1}, t \in {0, 2}}
ProcessConfigs == CutConfigs \cup FailureConfigs
ThreadConfigs == {Arguments(2, 0, 0, FALSE), Arguments(3, 1, 0, FALSE)}
AllConfigs == ProcessConfigs \cup ThreadConfigs
=============================================================================
