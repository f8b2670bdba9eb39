------------------------------- MODULE SafeRate -------------------------------
(***************************************************************************)
(* What a search for a safe withdrawal rate promises, in one step: a rate  *)
(* that meets the target, with one that does not, or the end of the        *)
(* domain, no further above it than the precision asked for.  Without such *)
(* a rate the start of the domain takes its place.                         *)
(*                                                                         *)
(* For a target that is the harder to meet the higher the rate, this is    *)
(* the highest safe rate to that precision.                                *)
(***************************************************************************)
EXTENDS Naturals

VARIABLES
    phase,        \* "idle", "searching" or "answered"
    domain_min, domain_max, precision,
    meets,        \* the rates that meet the target
    answer        \* the rate found, as a set of at most one element

vars == <<phase, domain_min, domain_max, precision, meets, answer>>

\* Close above c the target is missed, or the domain ends.
Bounded(c) == \E f \in c .. c + precision : f \notin meets \/ f = domain_max

Found(c) == c \in meets /\ c \in domain_min .. domain_max /\ Bounded(c)

Init ==
    /\ phase = "idle"
    /\ domain_min = 0 /\ domain_max = 0 /\ precision = 0
    /\ meets = {} /\ answer = {}

\* A domain that ends before it starts is refused.
Begin ==
    /\ phase = "idle"
    /\ phase' = "searching"
    /\ domain_min' \in Nat /\ domain_max' \in Nat /\ domain_min' <= domain_max'
    /\ precision' \in Nat
    /\ meets' \in SUBSET Nat
    /\ answer' = {}

Answer ==
    /\ phase = "searching"
    /\ phase' = "answered"
    /\ \/ answer' = {} /\ Bounded(domain_min)
       \/ \E c \in domain_min .. domain_max : Found(c) /\ answer' = {c}
    /\ UNCHANGED <<domain_min, domain_max, precision, meets>>

\* The answer has been used, or a simulation of a candidate raised.
Leave ==
    /\ phase \in {"searching", "answered"}
    /\ phase' = "idle"
    /\ domain_min' = 0 /\ domain_max' = 0 /\ precision' = 0
    /\ meets' = {} /\ answer' = {}

Next == Begin \/ Answer \/ Leave

Spec == Init /\ [][Next]_vars
=============================================================================
