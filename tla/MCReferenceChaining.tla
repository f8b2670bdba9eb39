------------------------- MODULE MCReferenceChaining -------------------------
(***************************************************************************)
(* Small instances of ReferenceChaining for TLC.                           *)
(***************************************************************************)
EXTENDS ReferenceChaining, SequencesExt

CONSTANTS Horizons, Cohorts

\* Scalars are named for what becomes of the portfolio: <<"lasts", 0>>,
\* <<"depletes", m>> in the m-th month, <<"raises", m>>.
MCStarts == 1 .. Cohorts
Fates == {<<"lasts", 0>>, <<"depletes", 1>>, <<"depletes", 2>>, <<"raises", 2>>}
MCScalars == Fates

\* A snapshot is known by its month; the first month of every cohort is the
\* next one of the trajectory.  There is a second trajectory, of its own objects.
MCSnapshots == {"trajectory", "other"} \X (1 .. 2 * Cohorts + 4)

SliceAt(start, months, source) == [m \in 1 .. months |-> <<source, start + m - 1>>]

MCStates ==
    {[policy |-> p, scalars |-> s, prices |-> SliceAt(c, m, source)] :
        p \in PolicyClasses, s \in Fates, c \in MCStarts,
        m \in Horizons, source \in {"trajectory", "other"}}

MCDepleting == {s \in MCStates : s.scalars = <<"depletes", Len(s.prices)>>}
MCRaising == {s \in MCStates : s.scalars = <<"raises", Len(s.prices)>>}

(***************************************************************************)
(* materialize_research_plan: for every cohort the units of the parameter  *)
(* configurations, in their order.                                         *)
(***************************************************************************)
Parameters == Horizons \X Fates
GridPlan(parameters, policy) ==
    LET n == Len(parameters) IN
    [i \in 1 .. Cohorts * n |->
        LET start == (i - 1) \div n + 1
            p == parameters[((i - 1) % n) + 1]
        IN  [start |-> start, scalars |-> p[2], policy |-> policy, horizon |-> p[1],
             dataset |-> SliceAt(start, p[1], "trajectory")]]

\* One unit has a dataset of its own, or a longer one than it needs.
ForeignDataset(p, i) ==
    [p EXCEPT ![i].dataset = SliceAt(p[i].start, p[i].horizon, "other")]
LongDataset(p, i) ==
    [p EXCEPT ![i].dataset = SliceAt(p[i].start, p[i].horizon + 1, "trajectory")]

\* Families of up to three horizons in any order, with a family that lasts
\* between their units or without.
ParameterLists(n) ==
    {l \in [1 .. n -> Parameters] :
        /\ \A i, j \in 1 .. n : i # j => l[i] # l[j]
        /\ l[2][2] \in {l[1][2], <<"lasts", 0>>}
        /\ l[n][2] = IF n = 3 THEN l[1][2] ELSE l[2][2]}
GridPlans(n) == {GridPlan(l, p) : l \in ParameterLists(n), p \in PolicyClasses}
ChainablePlans == GridPlans(2)
MCPlans ==
    GridPlans(3) \cup {ForeignDataset(p, 1) : p \in ChainablePlans}
                 \cup {LongDataset(p, 2) : p \in ChainablePlans}

MCConfigs ==
    {[executor |-> e, max_workers |-> w, slice_cohorts |-> s, summary |-> s = 1] :
        e \in {"reference", "fast"}, w \in 1 .. 3, s \in 1 .. 2}
=============================================================================
