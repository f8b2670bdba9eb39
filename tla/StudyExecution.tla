---------------------------- MODULE StudyExecution ----------------------------
(***************************************************************************)
(* What executing a research plan promises its caller, however many        *)
(* workers do it: the results of all units in plan order, or an exception, *)
(* and progress that only ever counts units that have been simulated.  A   *)
(* call whose worker threads share their process with those of another     *)
(* call is promised the results of some units, and that it ends at all.    *)
(***************************************************************************)
EXTENDS Naturals, Sequences

CONSTANTS Units,    \* planned simulation units
          Failing,  \* the units whose simulation raises an exception
          Plans     \* research plans: non-empty sequences of units

VARIABLES plan,      \* the plan being executed
          summary,   \* summary_only: the results carry no monthly timeline
          outcome,   \* "running", "returned" or the exception raised
          delivered, \* the results returned
          reported,  \* completed units the progress callback was told
          disturbed  \* another call's threads have run beside this call's

vars == <<plan, summary, outcome, delivered, reported, disturbed>>

\* The simulation of a unit is a function of the unit alone.
Simulate(unit, brief) == [unit |-> unit, timeline |-> ~brief]

Init ==
    /\ plan \in Plans /\ summary \in BOOLEAN
    /\ outcome = "running" /\ delivered = <<>> /\ reported = 0
    /\ disturbed = FALSE

\* The first n units have been simulated.
Report(n) ==
    /\ outcome = "running"
    /\ reported < n /\ n <= Len(plan)
    /\ \A i \in 1 .. n : plan[i] \notin Failing
    /\ reported' = n
    /\ UNCHANGED <<plan, summary, outcome, delivered, disturbed>>

Return ==
    /\ outcome = "running"
    /\ \A i \in DOMAIN plan : plan[i] \notin Failing
    /\ outcome' = "returned"
    /\ delivered' = [i \in DOMAIN plan |-> Simulate(plan[i], summary)]
    /\ UNCHANGED <<plan, summary, reported, disturbed>>

\* A unit's exception ends the study, and nothing of it is returned.
Fail ==
    /\ outcome = "running"
    /\ \E i \in DOMAIN plan : plan[i] \in Failing
    /\ outcome' = "ResearchExecutionError"
    /\ UNCHANGED <<plan, summary, delivered, reported, disturbed>>

\* So does a batch that is waited for too long, or the death of a worker.
Interrupt ==
    /\ outcome = "running"
    /\ outcome' \in {"TimeoutError", "BrokenProcessPool"}
    /\ UNCHANGED <<plan, summary, delivered, reported, disturbed>>

Disturb ==
    /\ outcome = "running"
    /\ disturbed' = TRUE
    /\ UNCHANGED <<plan, summary, outcome, delivered, reported>>

\* The units of a disturbed call may be those of the other call.
EndDisturbed ==
    /\ outcome = "running" /\ disturbed
    /\ outcome' \in {"returned", "ResearchExecutionError", "IndexError"}
    /\ delivered' \in Seq([unit : Units, timeline : BOOLEAN])
    /\ UNCHANGED <<plan, summary, reported, disturbed>>

ReportDisturbed(n) ==
    /\ outcome = "running" /\ disturbed
    /\ reported < n
    /\ reported' = n
    /\ UNCHANGED <<plan, summary, outcome, delivered, disturbed>>

Next ==
    \/ \E n \in 1 .. Len(plan) : Report(n) \/ ReportDisturbed(n)
    \/ Return \/ Fail \/ Interrupt
    \/ Disturb \/ EndDisturbed

Spec == Init /\ [][Next]_vars
=============================================================================
