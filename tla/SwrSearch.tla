------------------------------- MODULE SwrSearch -------------------------------
(***************************************************************************)
(* SWROptimizer.optimize (swr_optimizer.py): a binary search for the       *)
(* highest withdrawal rate that meets a target.                            *)
(*                                                                         *)
(* A Decimal is a number of the smallest steps its context distinguishes,  *)
(* so that half the sum of two of them may have to be rounded, to an even  *)
(* number of steps.  The ends of the domain are never evaluated, and a     *)
(* precision finer than a step, which is 0 here, is never reached.         *)
(***************************************************************************)
EXTENDS Naturals

VARIABLES
    phase,        \* "idle", "searching" or "answered"
    domain_min, domain_max, precision,
    meets,        \* the rates for which the evaluator reports success
    low, high,
    best          \* best_candidate, as a set of at most one element

arguments == <<domain_min, domain_max, precision, meets>>
vars == <<phase, arguments, low, high, best>>

\* (low + high) / Decimal("2"), rounded half to even.
Mid(l, h) ==
    LET half == (l + h) \div 2
    IN  IF (l + h) % 2 = 0 \/ half % 2 = 0 THEN half ELSE half + 1

\* Mutant: the loop goes on when the precision is reached exactly.
WiderOrEqual == high - low >= precision

Wider == high - low > precision

\* Mutant: every candidate is the best one.
BisectForgetful(success) ==
    /\ low' = IF success THEN Mid(low, high) ELSE low
    /\ high' = IF success THEN high ELSE Mid(low, high)
    /\ best' = {Mid(low, high)}

\* One turn of the loop, with the outcome of the evaluation.
Bisect(success) ==
    /\ low' = IF success THEN Mid(low, high) ELSE low
    /\ high' = IF success THEN high ELSE Mid(low, high)
    /\ best' = IF success THEN {Mid(low, high)} ELSE best

Idle ==
    /\ phase = "idle"
    /\ domain_min = 0 /\ domain_max = 0 /\ precision = 0 /\ meets = {}
    /\ low = 0 /\ high = 0 /\ best = {}

Init == Idle

Begin ==
    /\ phase = "idle"
    /\ phase' = "searching"
    /\ domain_min' \in Nat /\ domain_max' \in Nat /\ domain_min' <= domain_max'
    /\ precision' \in Nat
    /\ meets' \in SUBSET Nat
    /\ low' = domain_min' /\ high' = domain_max'
    /\ best' = {}

Evaluate ==
    /\ phase = "searching" /\ Wider
    /\ Bisect(Mid(low, high) \in meets)
    /\ UNCHANGED <<phase, arguments>>

Return ==
    /\ phase = "searching" /\ ~Wider
    /\ phase' = "answered"
    /\ UNCHANGED <<arguments, low, high, best>>

\* The caller is done with the answer, or the evaluator raised.
Leave ==
    /\ phase \in {"searching", "answered"}
    /\ Idle'

Next == Begin \/ Evaluate \/ Return \/ Leave

Spec == Init /\ [][Next]_vars
-----------------------------------------------------------------------------

TypeOK ==
    /\ phase \in {"idle", "searching", "answered"}
    /\ domain_min \in Nat /\ domain_max \in Nat /\ precision \in Nat
    /\ meets \subseteq Nat
    /\ low \in Nat /\ high \in Nat
    /\ best \subseteq Nat

\* What is left of the domain starts at the best candidate so far or where
\* the domain does, and ends at a rate that missed the target or where the
\* domain does.
Bracketed ==
    /\ domain_min <= low /\ low <= high /\ high <= domain_max
    /\ \/ best = {} /\ low = domain_min
       \/ best = {low} /\ low \in meets
    /\ high \notin meets \/ high = domain_max

\* The search implements its promise; a search that is under way has none.
Promise == INSTANCE SafeRate WITH
    answer <- IF phase = "answered" THEN best ELSE {}
=============================================================================
