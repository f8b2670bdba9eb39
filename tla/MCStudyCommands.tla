---------------------------- MODULE MCStudyCommands ----------------------------
(***************************************************************************)
(* Small instances of StudyCommands: years of two months, datasets of      *)
(* three and five months, and the arguments that lead through every exit   *)
(* of the commands.                                                        *)
(***************************************************************************)
EXTENDS StudyCommands

\* 12 is another way to write 4.
MCAsFloat(value) == IF value = 12 THEN 4 ELSE value

\* What a month of the market yields is a number.
Yield(unit) == FoldLeft(LAMBDA total, s : total + s.market, 0, unit.snapshots)
Spent(unit) == unit.config.rate * unit.horizon

\* A month without a price, 0, cannot be simulated.
MCRaises(unit) == \E i \in DOMAIN unit.snapshots : unit.snapshots[i].market = 0

Outcome(unit, success) ==
    [success |-> success,
     months |-> IF success THEN unit.horizon ELSE 1,
     final_wealth |-> IF success THEN Yield(unit) - Spent(unit) ELSE 0,
     timeline |-> <<>>]

\* The timeline has the months that were simulated.
MCReferenceResult(unit) ==
    LET outcome == Outcome(unit, Spent(unit) <= Yield(unit))
    IN  [outcome EXCEPT !.timeline = SubSeq(unit.snapshots, 1, outcome.months)]

\* The fast path runs out of money when exactly nothing would be left, and
\* has no timeline.
MCFastResult(unit) == Outcome(unit, Spent(unit) < Yield(unit))

Dataset(version, markets) ==
    [version |-> version,
     snapshots |-> [i \in DOMAIN markets |-> [date |-> i, market |-> markets[i]]]]

Long == Dataset("v1", <<6, 3, 4, 3, 2>>)
Revised == Dataset("v1", <<2, 3, 1, 2, 5>>)
Short == Dataset("v1", <<5, 5, 5>>)
Unpriced == Dataset("v2", <<4, 4, 4, 0, 4>>)

Directory(registry) == [kind |-> "datasets", registry |-> registry]

MCDataDirs ==
    {Directory("long" :> Long @@ "short" :> Short @@ "unpriced" :> Unpriced),
     Directory("long" :> Revised @@ "short" :> Short @@ "unpriced" :> Unpriced),
     [kind |-> "incomplete"], [kind |-> "unreadable"]}

Study(version, dataset, policy, rates, horizons) ==
    [kind |-> "study", name |-> "s", version |-> version, dataset |-> dataset,
     policy |-> policy, equity |-> <<6>>, rates |-> rates, horizons |-> horizons]

\* A version that is left out is 1.0.  The last three cannot be built: "v1"
\* is the version of two datasets, 12 and 4 are one rate, and three years
\* are longer than any dataset.
MCStudyFiles ==
    {Study("", "long", "FixedReal", <<3, 4>>, <<1, 2>>),
     Study("1.0", "long", "Constant", <<2>>, <<2>>),
     Study("2.0", "long", "FixedReal", <<3>>, <<1>>),
     Study("3.0", "v2", "FixedReal", <<3>>, <<1>>),
     Study("1.0", "v1", "FixedReal", <<3>>, <<1>>),
     Study("1.0", "long", "FixedReal", <<4, 12>>, <<1>>),
     Study("1.0", "long", "FixedReal", <<3>>, <<3>>),
     [kind |-> "missing"]}

Invocation(name) ==
    [command |-> name, arguments |-> "valid", defaults |-> {"output_dir"},
     misconfigured |-> {"workers"}, flags |-> {}, constraints |-> <<>>, capital |-> 1,
     target |-> 50, tolerance |-> 1]

Where(name, value) == [name |-> name, value |-> value]

RunWith(flags) == [Invocation("run") EXCEPT !.flags = flags]

MCInvocations ==
    {RunWith(flags) : flags \in
        {{}, {"--dry-run", "--fast-path"}, {"--no-persist", "--reference-chained"},
         {"--fast-path"}, {"--summary-only"}, {"--no-persist", "--validate"},
         {"--no-persist", "--fast-path"},
         {"--no-persist", "--fast-path", "--reference-chained"},
         {"--no-persist", "--fast-path", "--validate"}}}
    \cup {Invocation("validate"), Invocation("compare"),
          [Invocation("compare") EXCEPT !.constraints = <<Where("years", 2)>>],
          [Invocation("compare") EXCEPT !.constraints = <<Where("age", 1)>>],
          [Invocation("compare") EXCEPT !.constraints = <<Where("years", 9), Where("age", 1)>>],
          Invocation("optimize"),
          [Invocation("optimize") EXCEPT !.target = 100, !.tolerance = 3],
          [Invocation("optimize") EXCEPT !.arguments = "invalid"],
          [Invocation("run") EXCEPT !.arguments = "invalid", !.misconfigured = {"output_dir"}],
          [Invocation("run") EXCEPT !.defaults = {"workers", "output_dir"}],
          [Invocation("optimize") EXCEPT !.capital = 0]}

\* The studies a comparison needs, for the run that looks at comparisons.
ComparedStudies == {Study("", "long", "FixedReal", <<3, 4>>, <<1, 2>>)}
Comparisons == {inv \in MCInvocations : inv.command = "compare"}
=============================================================================
