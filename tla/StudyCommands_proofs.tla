------------------------- MODULE StudyCommands_proofs -------------------------
(***************************************************************************)
(* Theorems about StudyCommands for any study files, data directories,     *)
(* invocations, engines and sampling of the validation.                    *)
(***************************************************************************)
EXTENDS StudyCommands, FastPathValidation_proofs

-----------------------------------------------------------------------------
(***************************************************************************)
(* The inductive invariant.                                                *)
(***************************************************************************)

Saves == {"save_experiment", "save_plan", "save_result"}

\* Which command is at which point, and with which flags.
ProcessInv ==
    /\ pc \in Labels /\ exit \in ExitCodes
    /\ command \in Invocations \cup {None}
    /\ pc # "idle" => command \in Invocations /\ exit = "running"
    /\ pc \in {"validate", "run", "compare", "optimize"} => command.command = pc
    /\ pc = "validate_fast_path" => command.command = "run"
    /\ pc \in {"search", "optimal"} => command.command = "optimize"
    /\ pc \in {"execute"} \cup Saves => command.command # "validate"
    /\ pc = "report" => command.command \in {"run", "compare"}
    /\ pc \in {"validate_fast_path", "execute", "report"} \cup Saves
            /\ command.command = "run" =>
          ~Has("--dry-run") /\ FlagsAreCompatible
    /\ pc \in Saves => Persists \/ command.command \in {"compare", "optimize"}

\* A validation ends the command, or lets it go on to the execution.
LEMMA ValidationEnds ==
    ASSUME ValidateFastPath
    PROVE  /\ pc = "validate_fast_path" /\ UNCHANGED store
           /\ \/ Exit("ERROR") \/ Exit("VALIDATION_ERROR")
              \/ /\ sample' \in Samples(built.units)
                 /\ ValidationOutcome(built.units, sample') \in {"ok", "skipped"}
                 /\ Goto("execute") /\ UNCHANGED <<study, cache, built, results, search>>
<1>1. PICK s \in Samples(built.units) :
        CASE ValidationOutcome(built.units, s) = "exception" -> Exit("ERROR")
          [] ValidationOutcome(built.units, s) = "FastPathValidationError" ->
                Exit("VALIDATION_ERROR")
          [] ValidationOutcome(built.units, s) \in {"ok", "skipped"} ->
                /\ sample' = s
                /\ Goto("execute")
                /\ UNCHANGED <<study, cache, built, results, search>>
  BY DEF ValidateFastPath
<1>2. ValidationOutcome(built.units, s) \in
        {"exception", "FastPathValidationError", "ok", "skipped"}
  BY DEF ValidationOutcome
<1> QED
  BY <1>1, <1>2 DEF ValidateFastPath

LEMMA ProcessInit == Init => ProcessInv
BY DEF Init, ProcessInv, Labels, ExitCodes, Saves

LEMMA ProcessStep == ProcessInv /\ [Next]_vars => ProcessInv'
<1> SUFFICES ASSUME ProcessInv, [Next]_vars PROVE ProcessInv'
  OBVIOUS
<1> USE DEF ProcessInv, Labels, ExitCodes, Saves
<1>1. CASE Start
  BY <1>1 DEF Start
<1>2. ASSUME NEW code \in ExitCodes, Exit(code) PROVE ProcessInv'
  BY <1>2 DEF Exit
<1>3. CASE ReadArguments
  BY <1>2, <1>3 DEF ReadArguments, Goto
<1>4. CASE ReadStudy
  BY <1>2, <1>4 DEF ReadStudy, Goto
<1>5. CASE Build
  BY <1>2, <1>5, CommandsAssumption DEF Build, Goto
<1>6. CASE Validate
  BY <1>2, <1>6 DEF Validate
<1>7. CASE Run
  BY <1>2, <1>7 DEF Run, Goto, FlagsAreCompatible, Persists, Has
<1>8. CASE ValidateFastPath
  BY <1>2, <1>8, ValidationEnds DEF Goto, FlagsAreCompatible, Persists, Has
<1>9. CASE Compare
  BY <1>2, <1>9 DEF Compare, Goto
<1>10. CASE Optimize
  BY <1>10 DEF Optimize, Goto
<1>11. CASE Evaluate
  BY <1>11 DEF Evaluate, Goto
<1>12. CASE Return
  BY <1>12 DEF Return, Goto
<1>13. CASE BuildOptimal
  BY <1>2, <1>13 DEF BuildOptimal, Goto
<1>14. CASE Execute
  BY <1>14, CommandsAssumption DEF Execute, Goto, FlagsAreCompatible, Persists, Has
<1>15. CASE SaveExperiment
  BY <1>2, <1>15, CommandsAssumption
     DEF SaveExperiment, AfterPersisting, Goto, FlagsAreCompatible, Persists, Has
<1>16. CASE SavePlan
  BY <1>16 DEF SavePlan, Goto, FlagsAreCompatible, Persists, Has
<1>17. CASE SaveResult
  BY <1>2, <1>17, CommandsAssumption
     DEF SaveResult, AfterPersisting, Goto, FlagsAreCompatible, Persists, Has
<1>18. CASE PrintReport
  BY <1>2, <1>18 DEF PrintReport
<1>19. CASE ExecutionFails
  BY <1>2, <1>19 DEF ExecutionFails
<1>20. CASE PersistenceFails
  BY <1>2, <1>20, CommandsAssumption
     DEF PersistenceFails, AfterPersisting, Goto, FlagsAreCompatible, Persists, Has
<1>21. CASE Interrupt
  BY <1>2, <1>21 DEF Interrupt
<1>22. CASE Edit
  BY <1>22 DEF Edit, FlagsAreCompatible, Persists, Has
<1>23. CASE UNCHANGED vars
  BY <1>23 DEF vars, FlagsAreCompatible, Persists, Has
<1> QED
  BY <1>1, <1>3, <1>4, <1>5, <1>6, <1>7, <1>8, <1>9, <1>10, <1>11, <1>12, <1>13,
     <1>14, <1>15, <1>16, <1>17, <1>18, <1>19, <1>20, <1>21, <1>22, <1>23
     DEF Next, Proceed, Fail

-----------------------------------------------------------------------------

Bound == Searching \/ Answered

\* What a process remembers at which point.
LocalsInv ==
    /\ study_file \in StudyFiles /\ data_dir \in DataDirs
    /\ study \in StudyFiles \cup {None}
    /\ cache \in DataDirs \cup {None}
    /\ turn \in {0, 1}
    /\ given \in 0 .. MaxCommands /\ edits \in 0 .. MaxEdits
    /\ pc = "idle" => NoLocals
    /\ pc = "build" => study \in StudyFiles /\ study.kind = "study" /\ DeclaresValues(study)
    /\ pc \notin {"idle", "arguments", "study", "build"} => cache # None
    /\ pc \in {"run", "compare", "validate_fast_path", "execute", "report"} \cup Saves =>
          built # None
    /\ ~Bound => low = 0 /\ high = 0 /\ best = {} /\ meets = {}

LEMMA PlanIsNotNone == ASSUME NEW r, NEW s PROVE BuildWith(r, s) # None
<1>1. DOMAIN BuildWith(r, s) = {"experiment", "dataset", "units"}
  BY DEF BuildWith, BuildStudyPlan
<1>2. DOMAIN None = {"kind"}
  BY DEF None
<1> QED
  BY <1>1, <1>2

LEMMA LocalsInit == Init => LocalsInv
BY CommandsAssumption DEF Init, LocalsInv, NoLocals, Bound, Searching, Answered, Saves

LEMMA LocalsStep == ProcessInv /\ LocalsInv /\ [Next]_vars => LocalsInv'
<1> SUFFICES ASSUME ProcessInv, LocalsInv, [Next]_vars PROVE LocalsInv'
  OBVIOUS
<1> USE DEF LocalsInv, ProcessInv, Labels, Saves, Bound, Searching, Answered
<1>1. CASE Start
  BY <1>1, CommandsAssumption DEF Start, locals, search, files, NoLocals
<1>2. ASSUME NEW code \in ExitCodes, Exit(code) PROVE LocalsInv'
  BY <1>2 DEF Exit, NoLocals, files, bounds
<1> USE DEF ExitCodes
<1>3. CASE ReadArguments
  BY <1>2, <1>3 DEF ReadArguments, Goto, locals, search, files, bounds
<1>4. CASE ReadStudy
  BY <1>2, <1>4 DEF ReadStudy, Accepted, Goto, search, files, bounds
<1>5. CASE Build
  <2>1. Loaded.kind = "datasets" => Loaded # None /\ Loaded \in DataDirs
    BY DEF Loaded, None
  <2> QED
    BY <1>2, <1>5, <2>1, PlanIsNotNone, CommandsAssumption
       DEF Build, Goto, search, files, bounds
<1>6. CASE Validate
  BY <1>2, <1>6 DEF Validate
<1>7. CASE Run
  BY <1>2, <1>7 DEF Run, Goto, locals, search, files, bounds
<1>8. CASE ValidateFastPath
  BY <1>2, <1>8, ValidationEnds DEF ValidateFastPath, Goto, search, files, bounds
<1>9. CASE Compare
  BY <1>2, <1>9 DEF Compare, Goto, locals, search, files, bounds
<1>10. CASE Optimize
  BY <1>10 DEF Optimize, Goto, files, bounds
<1>11. CASE Evaluate
  <2>1. turn' \in {0, 1}
    BY <1>11 DEF Evaluate
  <2>2. cache' \in DataDirs /\ cache' # None
    BY <1>11 DEF Evaluate, Loaded
  <2> QED
    BY <1>11, <2>1, <2>2 DEF Evaluate, Goto, files, bounds
<1>12. CASE Return
  BY <1>12 DEF Return, Goto, files, bounds
<1>13. CASE BuildOptimal
  BY <1>2, <1>13, PlanIsNotNone DEF BuildOptimal, Loaded, Goto, search, files, bounds
<1>14. CASE Execute
  BY <1>14 DEF Execute, Goto, search, files, bounds
<1>15. CASE SaveExperiment
  BY <1>2, <1>15 DEF SaveExperiment, AfterPersisting, Goto, locals, search, files, bounds
<1>16. CASE SavePlan
  BY <1>16 DEF SavePlan, Goto, locals, search, files, bounds
<1>17. CASE SaveResult
  BY <1>2, <1>17 DEF SaveResult, AfterPersisting, Goto, locals, search, files, bounds
<1>18. CASE PrintReport
  BY <1>2, <1>18 DEF PrintReport
<1>19. CASE ExecutionFails
  BY <1>2, <1>19 DEF ExecutionFails
<1>20. CASE PersistenceFails
  BY <1>2, <1>20 DEF PersistenceFails, AfterPersisting, Goto, locals, search, files, bounds
<1>21. CASE Interrupt
  BY <1>2, <1>21 DEF Interrupt
<1>22. CASE Edit
  BY <1>22, CommandsAssumption DEF Edit, locals, search, NoLocals
<1>23. CASE UNCHANGED vars
  BY <1>23 DEF vars, locals, search, files, bounds, NoLocals
<1> QED
  BY <1>1, <1>3, <1>4, <1>5, <1>6, <1>7, <1>8, <1>9, <1>10, <1>11, <1>12, <1>13,
     <1>14, <1>15, <1>16, <1>17, <1>18, <1>19, <1>20, <1>21, <1>22, <1>23
     DEF Next, Proceed, Fail

-----------------------------------------------------------------------------
(***************************************************************************)
(* The search.                                                             *)
(***************************************************************************)

\* The rates that meet the target in the datasets that were loaded.
Meeting == {rate \in 0 .. DomainMax : Evaluated(cache.registry, rate)}

\* While the search goes on, and until its answer is used: what is left of
\* the domain starts at the best candidate and ends at one that failed.
SearchInv ==
    Bound =>
        /\ meets = Meeting
        /\ low \in 0 .. DomainMax /\ high \in 0 .. DomainMax /\ low <= high
        /\ \/ best = {} /\ low = 0
           \/ best = {low} /\ low \in meets
        /\ high \notin meets \/ high = DomainMax

\* The target is met by the same rates as long as a process keeps its study,
\* its arguments and its datasets.
LEMMA MeetingStays ==
    ASSUME UNCHANGED <<study, command, cache>>
    PROVE  Meeting' = Meeting
BY DEF Meeting, Evaluated, BuildWith, Candidate

\* Datasets that were loaded are not read again.
LEMMA LoadedOnce == ASSUME cache # None PROVE Loaded = cache
BY DEF Loaded

\* The middle of two rates is between them.
LEMMA MidBetween ==
    ASSUME NEW l \in Nat, NEW h \in Nat, l <= h
    PROVE  Search!Mid(l, h) \in Nat /\ l <= Search!Mid(l, h) /\ Search!Mid(l, h) <= h
BY DEF Search!Mid

LEMMA SearchInit == Init => SearchInv
BY DEF Init, SearchInv, Bound, Searching, Answered

LEMMA SearchStep ==
    ProcessInv /\ LocalsInv /\ SearchInv /\ [Next]_vars => SearchInv'
<1> SUFFICES ASSUME ProcessInv, LocalsInv, SearchInv, [Next]_vars, Bound'
             PROVE  SearchInv'
  BY DEF SearchInv
<1> USE DEF Bound, Searching, Answered
<1>1. ASSUME Bound, UNCHANGED <<search, study, command, cache>>
      PROVE  SearchInv'
  BY <1>1, MeetingStays DEF SearchInv, search
<1>2. ~(\E code : Exit(code))
  BY DEF Exit
<1>3. CASE Start
  BY <1>3 DEF Start
<1>4. CASE ReadArguments
  BY <1>2, <1>4 DEF ReadArguments, Goto
<1>5. CASE ReadStudy
  BY <1>2, <1>5 DEF ReadStudy, Goto
<1>6. CASE Build
  BY <1>2, <1>6, CommandsAssumption DEF Build, Goto, ProcessInv
<1>7. CASE Validate
  BY <1>2, <1>7 DEF Validate
<1>8. CASE Run
  BY <1>2, <1>8 DEF Run, Goto, ProcessInv
<1>9. CASE ValidateFastPath
  BY <1>2, <1>9, ValidationEnds DEF Goto, ProcessInv
<1>10. CASE Compare
  BY <1>2, <1>10 DEF Compare, Goto, ProcessInv
<1>11. CASE Optimize
  <2>1. low' = 0 /\ high' = DomainMax /\ best' = {} /\ meets' = Meeting
    BY <1>11 DEF Optimize, Meeting
  <2>2. Meeting' = Meeting
    BY <1>11, MeetingStays DEF Optimize, Goto
  <2> QED
    BY <2>1, <2>2, CommandsAssumption DEF SearchInv
<1>12. CASE Evaluate
  <2> DEFINE rate == Search!Mid(low, high)
  <2>1. cache # None /\ Loaded = cache
    BY <1>12, LoadedOnce DEF Evaluate, LocalsInv
  <2>2. /\ UNCHANGED <<meets, study, command, cache>>
        /\ Search!Bisect(Evaluated(cache.registry, rate))
    BY <1>12, <2>1 DEF Evaluate, Evaluated, Goto
  <2>3. /\ meets = Meeting
        /\ low \in 0 .. DomainMax /\ high \in 0 .. DomainMax /\ low <= high
        /\ \/ best = {} /\ low = 0
           \/ best = {low} /\ low \in meets
        /\ high \notin meets \/ high = DomainMax
    <3>1. Bound
      BY <1>12 DEF Evaluate
    <3> HIDE DEF Bound
    <3> QED
      BY <3>1 DEF SearchInv
  <2>4. rate \in 0 .. DomainMax /\ low <= rate /\ rate <= high
    BY <2>3, MidBetween, CommandsAssumption
  <2>5. Evaluated(cache.registry, rate) <=> rate \in meets
    BY <2>3, <2>4 DEF Meeting
  <2> HIDE DEF rate
  <2>6. CASE rate \in meets
    <3>1. low' = rate /\ high' = high /\ best' = {rate}
      BY <2>2, <2>5, <2>6 DEF Search!Bisect, rate
    <3> QED
      BY <3>1, <2>2, <2>3, <2>4, <2>6, MeetingStays DEF SearchInv
  <2>7. CASE rate \notin meets
    <3>1. low' = low /\ high' = rate /\ best' = best
      BY <2>2, <2>5, <2>7 DEF Search!Bisect, rate
    <3> QED
      BY <3>1, <2>2, <2>3, <2>4, <2>7, MeetingStays DEF SearchInv
  <2> QED
    BY <2>6, <2>7
<1>13. CASE Return
  BY <1>13, MeetingStays DEF Return, Goto, SearchInv
<1>14. CASE BuildOptimal
  BY <1>1, <1>2, <1>14, LoadedOnce DEF BuildOptimal, Goto, LocalsInv, ProcessInv
<1>15. CASE Execute
  BY <1>1, <1>15 DEF Execute, Goto, ProcessInv
<1>16. CASE SaveExperiment
  BY <1>1, <1>2, <1>16 DEF SaveExperiment, AfterPersisting, Goto, locals, ProcessInv
<1>17. CASE SavePlan
  BY <1>1, <1>17 DEF SavePlan, Goto, locals, ProcessInv
<1>18. CASE SaveResult
  BY <1>1, <1>2, <1>18 DEF SaveResult, AfterPersisting, Goto, locals, ProcessInv
<1>19. CASE PrintReport
  BY <1>2, <1>19 DEF PrintReport
<1>20. CASE ExecutionFails
  BY <1>2, <1>20 DEF ExecutionFails
<1>21. CASE PersistenceFails
  BY <1>1, <1>2, <1>21 DEF PersistenceFails, AfterPersisting, Goto, locals, ProcessInv
<1>22. CASE Interrupt
  BY <1>2, <1>22 DEF Interrupt
<1>23. CASE Edit
  BY <1>1, <1>23 DEF Edit, locals
<1>24. CASE UNCHANGED vars
  BY <1>1, <1>24 DEF vars, locals
<1> QED
  BY <1>3, <1>4, <1>5, <1>6, <1>7, <1>8, <1>9, <1>10, <1>11, <1>12, <1>13, <1>14,
     <1>15, <1>16, <1>17, <1>18, <1>19, <1>20, <1>21, <1>22, <1>23, <1>24
     DEF Next, Proceed, Fail

\* The search for a rate implements its promise, although every candidate is
\* loaded, built and executed anew and files are edited meanwhile.
LEMMA PromiseInit == Init => Search!Promise!Init
BY DEF Init, NoLocals, Searching, Answered, Search!Promise!Init

LEMMA PromiseStutters ==
    ASSUME UNCHANGED search, Searching' <=> Searching, Answered' <=> Answered,
           UNCHANGED command
    PROVE  UNCHANGED Search!Promise!vars
BY DEF search, Search!Promise!vars

LEMMA PromiseLeft ==
    ASSUME NEW code, Exit(code), LocalsInv
    PROVE  [Search!Promise!Next]_Search!Promise!vars
<1>1. pc' = "idle" /\ meets' = {} /\ best' = {}
  BY DEF Exit
<1>2. ~Searching' /\ ~Answered'
  BY <1>1 DEF Searching, Answered
<1>3. CASE Searching \/ Answered
  BY <1>1, <1>2, <1>3 DEF Search!Promise!Next, Search!Promise!Leave, Searching, Answered
<1>4. CASE ~(Searching \/ Answered)
  BY <1>1, <1>2, <1>4 DEF Search!Promise!vars, LocalsInv, Bound
<1> QED
  BY <1>3, <1>4

LEMMA PromiseStep ==
    ProcessInv /\ LocalsInv /\ SearchInv /\ [Next]_vars
        => [Search!Promise!Next]_Search!Promise!vars
<1> SUFFICES ASSUME ProcessInv, LocalsInv, SearchInv, [Next]_vars
             PROVE  [Search!Promise!Next]_Search!Promise!vars
  OBVIOUS
<1>1. ASSUME ~Bound, ~Bound', meets' = {}
      PROVE  UNCHANGED Search!Promise!vars
  BY <1>1 DEF Bound, LocalsInv, Search!Promise!vars
<1>2. ASSUME ~Bound, ~Bound', UNCHANGED search
      PROVE  UNCHANGED Search!Promise!vars
  BY <1>2 DEF Bound, LocalsInv, search, Search!Promise!vars
<1>3. CASE Start
  BY <1>2, <1>3 DEF Start, Bound, Searching, Answered, locals
<1>4. CASE ReadArguments
  BY <1>2, <1>4, PromiseLeft DEF ReadArguments, Goto, Bound, Searching, Answered, locals
<1>5. CASE ReadStudy
  BY <1>2, <1>5, PromiseLeft DEF ReadStudy, Goto, Bound, Searching, Answered
<1>6. CASE Build
  <2>1. CASE \E code : Exit(code)
    BY <2>1, PromiseLeft
  <2>2. CASE Goto(command.command) /\ UNCHANGED search
    <3>1. ~Bound /\ ~Bound'
      BY <1>6, <2>2, CommandsAssumption
         DEF Build, Goto, Bound, Searching, Answered, ProcessInv
    <3> QED
      BY <1>2, <2>2, <3>1
  <2> QED
    BY <1>6, <2>1, <2>2 DEF Build
<1>7. CASE Validate
  BY <1>7, PromiseLeft DEF Validate
<1>8. CASE Run
  <2>1. CASE \E code : Exit(code)
    BY <2>1, PromiseLeft
  <2>2. CASE UNCHANGED search /\ ~Bound /\ ~Bound'
    BY <1>2, <2>2
  <2> QED
    BY <1>8, <2>1, <2>2 DEF Run, Goto, Bound, Searching, Answered, locals, ProcessInv
<1>9. CASE ValidateFastPath
  <2>1. CASE \E code : Exit(code)
    BY <2>1, PromiseLeft
  <2>2. CASE Goto("execute") /\ UNCHANGED search
    <3>1. ~Bound /\ ~Bound'
      BY <1>9, <2>2, ValidationEnds DEF Goto, Bound, Searching, Answered, ProcessInv
    <3> QED
      BY <1>2, <2>2, <3>1
  <2> QED
    BY <1>9, <2>1, <2>2, ValidationEnds
<1>10. CASE Compare
  <2>1. CASE \E code : Exit(code)
    BY <2>1, PromiseLeft
  <2>2. CASE UNCHANGED search /\ ~Bound /\ ~Bound'
    BY <1>2, <2>2
  <2> QED
    BY <1>10, <2>1, <2>2
       DEF Compare, Goto, Bound, Searching, Answered, locals, ProcessInv
<1>11. CASE Optimize
  <2>1. command \in Invocations /\ command.tolerance \in Nat
    BY <1>11, CommandsAssumption DEF Optimize, ProcessInv
  <2>2. ~Searching /\ ~Answered /\ Searching'
    BY <1>11 DEF Optimize, Goto, Searching, Answered
  <2>3. meets' \in SUBSET Nat
    BY <1>11, CommandsAssumption DEF Optimize
  <2>4. Search!Promise!Begin
    BY <1>11, <2>1, <2>2, <2>3, CommandsAssumption
       DEF Optimize, Goto, Search!Promise!Begin, Answered
  <2> QED
    BY <2>4 DEF Search!Promise!Next
<1>12. CASE Evaluate
  BY <1>12 DEF Evaluate, Goto, Searching, Answered, Search!Promise!vars
<1>13. CASE Return
  <2>1. /\ Searching /\ ~Answered /\ ~Searching' /\ Answered'
        /\ UNCHANGED <<meets, best, command>>
    BY <1>13 DEF Return, Goto, Searching, Answered, ProcessInv
  <2>2. /\ low \in Nat /\ high \in Nat /\ low <= high /\ high <= DomainMax
        /\ \/ best = {} /\ low = 0
           \/ best = {low} /\ low \in meets
        /\ high \notin meets \/ high = DomainMax
    BY <2>1, CommandsAssumption DEF SearchInv, Bound
  <2>3. command.tolerance \in Nat /\ high <= low + command.tolerance
    <3>1. command.tolerance \in Nat /\ ~(high - low > command.tolerance)
      <4>1. command \in Invocations /\ ~Search!Wider
        BY <1>13 DEF Return, ProcessInv
      <4>2. command.tolerance \in Nat
        BY <4>1, CommandsAssumption
      <4> QED
        BY <2>1, <4>1, <4>2 DEF Search!Wider
    <3> QED
      BY <2>2, <3>1
  <2>4. Search!Promise!Bounded(low)
    BY <2>1, <2>2, <2>3 DEF Search!Promise!Bounded
  <2>5. Search!Promise!Answer
    <3>1. CASE best = {} /\ low = 0
      BY <2>1, <2>4, <3>1 DEF Search!Promise!Answer
    <3>2. CASE best = {low} /\ low \in meets
      <4>1. low \in 0 .. DomainMax /\ Search!Promise!Found(low)
        BY <2>1, <2>2, <2>4, <3>2, CommandsAssumption DEF Search!Promise!Found
      <4> QED
        BY <2>1, <3>2, <4>1 DEF Search!Promise!Answer
    <3> QED
      BY <2>2, <3>1, <3>2
  <2> QED
    BY <2>5 DEF Search!Promise!Next
<1>14. CASE BuildOptimal
  BY <1>14, PromiseLeft, PromiseStutters
     DEF BuildOptimal, Goto, Searching, Answered, ProcessInv
<1>15. CASE Execute
  <2>1. UNCHANGED <<search, command>> /\ (Bound' <=> Bound) /\ ~Searching /\ ~Searching'
    BY <1>15 DEF Execute, Goto, Bound, Searching, Answered
  <2> QED
    BY <2>1, PromiseStutters DEF Bound
<1>16. CASE SaveExperiment
  BY <1>16, PromiseLeft, PromiseStutters
     DEF SaveExperiment, AfterPersisting, Goto, Searching, Answered, ProcessInv, locals
<1>17. CASE SavePlan
  BY <1>17, PromiseStutters DEF SavePlan, Goto, Searching, Answered, ProcessInv, locals
<1>18. CASE SaveResult
  BY <1>18, PromiseLeft, PromiseStutters
     DEF SaveResult, AfterPersisting, Goto, Searching, Answered, ProcessInv, locals
<1>19. CASE PrintReport
  BY <1>19, PromiseLeft DEF PrintReport
<1>20. CASE ExecutionFails
  BY <1>20, PromiseLeft DEF ExecutionFails
<1>21. CASE PersistenceFails
  BY <1>21, PromiseLeft, PromiseStutters
     DEF PersistenceFails, AfterPersisting, Goto, Searching, Answered, ProcessInv, locals
<1>22. CASE Interrupt
  BY <1>22, PromiseLeft DEF Interrupt
<1>23. CASE Edit
  BY <1>23, PromiseStutters DEF Edit, locals, Searching, Answered
<1>24. CASE UNCHANGED vars
  BY <1>24, PromiseStutters DEF vars, locals, Searching, Answered
<1> QED
  BY <1>3, <1>4, <1>5, <1>6, <1>7, <1>8, <1>9, <1>10, <1>11, <1>12, <1>13, <1>14,
     <1>15, <1>16, <1>17, <1>18, <1>19, <1>20, <1>21, <1>22, <1>23, <1>24
     DEF Next, Proceed, Fail

-----------------------------------------------------------------------------
(***************************************************************************)
(* The plan and the results that are about to be persisted.                *)
(***************************************************************************)

HasExecuted ==
    \/ pc \in {"save_result", "report"}
    \/ pc \in Saves /\ command.command # "optimize"

\* The plan of an optimal rate is that of the rate found, in the datasets the
\* search was about, and the results are those of the plan.
ResultsInv ==
    /\ Answered /\ pc # "optimal" =>
          \E rate \in best : built = BuildWith(cache.registry, Candidate(rate))
    /\ HasExecuted => results = Executed(built.units)

LEMMA BuiltStays ==
    ASSUME UNCHANGED <<study, command, cache, built, best>>
    PROVE  (\E rate \in best : built = BuildWith(cache.registry, Candidate(rate)))'
              <=> \E rate \in best : built = BuildWith(cache.registry, Candidate(rate))
BY DEF BuildWith, Candidate

LEMMA ExecutedStays ==
    ASSUME UNCHANGED <<command, built>>
    PROVE  Executed(built.units)' = Executed(built.units)
BY DEF Executed, Delivered, Has

LEMMA ResultsInit == Init => ResultsInv
BY DEF Init, ResultsInv, HasExecuted, Answered, Saves

LEMMA ResultsStep ==
    ProcessInv /\ LocalsInv /\ SearchInv /\ ResultsInv /\ [Next]_vars => ResultsInv'
<1> SUFFICES ASSUME ProcessInv, LocalsInv, SearchInv, ResultsInv, [Next]_vars,
                    Answered' \/ HasExecuted'
             PROVE  ResultsInv'
  BY DEF ResultsInv
<1>1. ASSUME NEW code PROVE ~Exit(code)
  BY DEF Exit, Answered, HasExecuted, Saves
<1>2. ASSUME UNCHANGED <<command, locals>>,
             Answered' /\ pc' # "optimal" => Answered /\ pc # "optimal",
             HasExecuted' => HasExecuted
      PROVE  ResultsInv'
  <2>1. UNCHANGED <<study, command, cache, built, best, results>>
    BY <1>2 DEF locals, search
  <2> QED
    BY <1>2, <2>1, BuiltStays, ExecutedStays DEF ResultsInv
<1> USE DEF Answered, HasExecuted, Saves
<1>3. CASE Start
  BY <1>3 DEF Start
<1>4. CASE ReadArguments
  BY <1>1, <1>4 DEF ReadArguments, Goto
<1>5. CASE ReadStudy
  BY <1>1, <1>5 DEF ReadStudy, Goto
<1>6. CASE Build
  BY <1>1, <1>6, CommandsAssumption DEF Build, Goto, ProcessInv
<1>7. CASE Validate
  BY <1>1, <1>7 DEF Validate
<1>8. CASE Run
  BY <1>1, <1>8 DEF Run, Goto, ProcessInv
<1>9. CASE ValidateFastPath
  BY <1>1, <1>9, ValidationEnds DEF Goto, ProcessInv
<1>10. CASE Compare
  BY <1>1, <1>10 DEF Compare, Goto, ProcessInv
<1>11. CASE Optimize
  BY <1>11 DEF Optimize, Goto, ProcessInv
<1>12. CASE Evaluate
  BY <1>12 DEF Evaluate, Goto, ProcessInv
<1>13. CASE Return
  BY <1>13 DEF Return, Goto, ResultsInv
<1>14. CASE BuildOptimal
  <2>1. /\ best # {} /\ UNCHANGED <<study, command, cache, best>>
        /\ built' = BuildWith(cache.registry, Candidate(CHOOSE rate \in best : TRUE))
        /\ command.command = "optimize" /\ pc' = "save_experiment"
    BY <1>1, <1>14, LoadedOnce DEF BuildOptimal, Goto, search, LocalsInv, ProcessInv
  <2>2. \E rate \in best : built' = BuildWith(cache.registry, Candidate(rate))
    BY <2>1
  <2>3. (\E rate \in best : built = BuildWith(cache.registry, Candidate(rate)))'
    BY <2>1, <2>2 DEF BuildWith, Candidate
  <2> QED
    BY <2>1, <2>3 DEF ResultsInv
<1>15. CASE Execute
  <2>1. /\ UNCHANGED <<study, command, cache, built, best>>
        /\ results' = Executed(built.units)
    BY <1>15 DEF Execute, Goto, search
  <2>2. Answered' => Answered /\ pc # "optimal"
    BY <1>15 DEF Execute, Goto, ProcessInv
  <2> QED
    BY <2>1, <2>2, BuiltStays, ExecutedStays DEF ResultsInv
<1>16. CASE SaveExperiment
  BY <1>1, <1>2, <1>16 DEF SaveExperiment, AfterPersisting, Goto, ProcessInv
<1>17. CASE SavePlan
  BY <1>2, <1>17 DEF SavePlan, Goto, ProcessInv
<1>18. CASE SaveResult
  BY <1>1, <1>2, <1>18 DEF SaveResult, AfterPersisting, Goto, ProcessInv
<1>19. CASE PrintReport
  BY <1>1, <1>19 DEF PrintReport
<1>20. CASE ExecutionFails
  BY <1>1, <1>20 DEF ExecutionFails
<1>21. CASE PersistenceFails
  BY <1>1, <1>2, <1>21 DEF PersistenceFails, AfterPersisting, Goto, ProcessInv
<1>22. CASE Interrupt
  BY <1>1, <1>22 DEF Interrupt
<1>23. CASE Edit
  BY <1>2, <1>23 DEF Edit
<1>24. CASE UNCHANGED vars
  BY <1>2, <1>24 DEF vars
<1> QED
  BY <1>3, <1>4, <1>5, <1>6, <1>7, <1>8, <1>9, <1>10, <1>11, <1>12, <1>13, <1>14,
     <1>15, <1>16, <1>17, <1>18, <1>19, <1>20, <1>21, <1>22, <1>23, <1>24
     DEF Next, Proceed, Fail

-----------------------------------------------------------------------------
(***************************************************************************)
(* The plan that was built.                                                *)
(***************************************************************************)

IsPlanned == pc \notin {"idle", "arguments", "study", "build"}

\* A command that goes on from its plan has a study that can be built from the
\* datasets it keeps; while it searches it keeps no plan, and what it has before
\* is the plan of the study itself.
PlanInv ==
    /\ IsPlanned =>
        /\ study \in StudyFiles /\ study.kind = "study" /\ DeclaresValues(study)
        /\ cache.kind = "datasets"
        /\ Buildable(study, cache.registry, command.capital)
    /\ ~IsPlanned \/ pc \in {"search", "optimal"} => built = None
    /\ built # None /\ ~Answered => built = BuildWith(cache.registry, study)

LEMMA PlanInit == Init => PlanInv
BY DEF Init, NoLocals, PlanInv, IsPlanned, None

LEMMA PlanStep ==
    ProcessInv /\ LocalsInv /\ PlanInv /\ [Next]_vars => PlanInv'
<1> SUFFICES ASSUME ProcessInv, LocalsInv, PlanInv, [Next]_vars PROVE PlanInv'
  OBVIOUS
<1> USE DEF IsPlanned
<1>1. ASSUME NEW code, Exit(code) PROVE PlanInv'
  <2>1. pc' = "idle" /\ built' = None
    BY <1>1 DEF Exit
  <2> QED
    BY <2>1 DEF PlanInv
<1>2. ASSUME UNCHANGED <<study, command, cache, built>>, IsPlanned' => IsPlanned,
             ~IsPlanned' => ~IsPlanned,
             pc' \in {"search", "optimal"} => pc \in {"search", "optimal"},
             Answered => Answered'
      PROVE  PlanInv'
  <2>1. Buildable(study, cache.registry, command.capital)'
            <=> Buildable(study, cache.registry, command.capital)
    BY <1>2
  <2>2. BuildWith(cache.registry, study)' = BuildWith(cache.registry, study)
    BY <1>2 DEF BuildWith
  <2> HIDE DEF IsPlanned
  <2>3. DeclaresValues(study)' <=> DeclaresValues(study)
    BY <1>2
  <2>4. /\ study' = study /\ cache' = cache /\ built' = built
    BY <1>2
  <2> QED
    BY <1>2, <2>1, <2>2, <2>3, <2>4 DEF PlanInv
<1>3. CASE Start
  <2>1. UNCHANGED built /\ built = None /\ pc' = "arguments"
    BY <1>3 DEF Start, locals, LocalsInv, NoLocals
  <2> QED
    BY <2>1 DEF PlanInv
<1>4. CASE ReadArguments
  <2>1. CASE ~ConfigFails /\ ArgumentsAreValid /\ Goto("study") /\ UNCHANGED locals
    <3>1. pc' = "study" /\ built' = None
      BY <1>4, <2>1 DEF ReadArguments, Goto, locals, PlanInv
    <3> QED
      BY <3>1 DEF PlanInv
  <2> QED
    BY <1>1, <1>4, <2>1 DEF ReadArguments
<1>5. CASE ReadStudy
  <2>1. CASE Goto("build") /\ UNCHANGED built
    <3>1. pc' = "build" /\ built' = None
      BY <1>5, <2>1 DEF ReadStudy, Goto, PlanInv
    <3> QED
      BY <3>1 DEF PlanInv
  <2> QED
    BY <1>1, <1>5, <2>1 DEF ReadStudy
<1>6. CASE Build
  <2>1. CASE \E code : Exit(code)
    BY <1>1, <2>1
  <2>2. CASE ~ \E code : Exit(code)
    <3>1. /\ pc = "build" /\ cache' = Loaded /\ Loaded.kind = "datasets"
          /\ Buildable(study, Loaded.registry, command.capital)
          /\ built' = BuildWith(Loaded.registry, study)
          /\ pc' = command.command /\ UNCHANGED <<study, command>>
      BY <1>6, <2>2 DEF Build, Goto
    <3>2. command.command \in {"run", "validate", "compare", "optimize"}
      BY <3>1, CommandsAssumption DEF ProcessInv
    <3>3. study \in StudyFiles /\ study.kind = "study" /\ DeclaresValues(study)
      BY <3>1 DEF LocalsInv
    <3>4. (BuildWith(cache.registry, study))' = BuildWith(Loaded.registry, study)
      BY <3>1 DEF BuildWith
    <3>5. (Buildable(study, cache.registry, command.capital))'
      BY <3>1
    <3> QED
      BY <3>1, <3>2, <3>3, <3>4, <3>5 DEF PlanInv
  <2> QED
    BY <2>1, <2>2
<1>7. CASE Validate
  BY <1>1, <1>7 DEF Validate
<1>8. CASE Run
  BY <1>1, <1>2, <1>8 DEF Run, Goto, locals, Answered
<1>9. CASE ValidateFastPath
  <2>1. CASE \E code : Exit(code)
    BY <1>1, <2>1
  <2>2. CASE Goto("execute") /\ UNCHANGED <<study, cache, built, results, search>>
    BY <1>2, <1>9, <2>2, ValidationEnds DEF Goto, Answered
  <2> QED
    BY <1>9, <2>1, <2>2, ValidationEnds
<1>10. CASE Compare
  BY <1>1, <1>2, <1>10 DEF Compare, Goto, locals, Answered
<1>11. CASE Optimize
  <2>1. pc' = "search" /\ built' = None /\ UNCHANGED <<study, command, cache>>
    BY <1>11 DEF Optimize, Goto
  <2>2. Buildable(study, cache.registry, command.capital)'
            <=> Buildable(study, cache.registry, command.capital)
    BY <2>1
  <2> QED
    BY <1>11, <2>1, <2>2 DEF Optimize, PlanInv
<1>12. CASE Evaluate
  <2>1. cache # None /\ Loaded = cache
    BY <1>12, LoadedOnce DEF Evaluate, LocalsInv
  <2> QED
    BY <1>2, <1>12, <2>1 DEF Evaluate, Goto, Answered
<1>13. CASE Return
  BY <1>2, <1>13 DEF Return, Goto, Answered
<1>14. CASE BuildOptimal
  <2>1. CASE \E code : Exit(code)
    BY <1>1, <2>1
  <2>2. CASE ~ \E code : Exit(code)
    <3>1. /\ pc = "optimal" /\ pc' = "save_experiment"
          /\ UNCHANGED <<study, command, cache>>
      BY <1>14, <2>2, LoadedOnce DEF BuildOptimal, Goto, LocalsInv
    <3>2. Answered'
      BY <3>1 DEF ProcessInv, Answered
    <3>3. Buildable(study, cache.registry, command.capital)'
            <=> Buildable(study, cache.registry, command.capital)
      BY <3>1
    <3> QED
      BY <3>1, <3>2, <3>3 DEF PlanInv
  <2> QED
    BY <2>1, <2>2
<1>15. CASE Execute
  BY <1>2, <1>15 DEF Execute, Goto, Answered, ProcessInv
<1>16. CASE SaveExperiment
  BY <1>1, <1>2, <1>16 DEF SaveExperiment, AfterPersisting, Goto, locals, Answered
<1>17. CASE SavePlan
  BY <1>2, <1>17 DEF SavePlan, Goto, locals, Answered
<1>18. CASE SaveResult
  BY <1>1, <1>2, <1>18 DEF SaveResult, AfterPersisting, Goto, locals, Answered
<1>19. CASE PrintReport
  BY <1>1, <1>19 DEF PrintReport
<1>20. CASE ExecutionFails
  BY <1>1, <1>20 DEF ExecutionFails
<1>21. CASE PersistenceFails
  BY <1>1, <1>2, <1>21 DEF PersistenceFails, AfterPersisting, Goto, locals, Answered
<1>22. CASE Interrupt
  BY <1>1, <1>22 DEF Interrupt
<1>23. CASE Edit
  BY <1>2, <1>23 DEF Edit, locals, Answered
<1>24. CASE UNCHANGED vars
  BY <1>2, <1>24 DEF vars, locals, Answered
<1> QED
  BY <1>3, <1>4, <1>5, <1>6, <1>7, <1>8, <1>9, <1>10, <1>11, <1>12, <1>13, <1>14,
     <1>15, <1>16, <1>17, <1>18, <1>19, <1>20, <1>21, <1>22, <1>23, <1>24
     DEF Next, Proceed, Fail

-----------------------------------------------------------------------------
(***************************************************************************)
(* The sample of the validation.                                           *)
(***************************************************************************)

\* A command that goes on with a sample has drawn it from the plan it goes on
\* with, and the validation has not found a difference.
SampleInv ==
    sample # NoSample =>
        /\ command.command = "run" /\ built # None
        /\ pc \in {"execute", "report"} \cup Saves
        /\ sample \in Samples(built.units)
        /\ ValidationOutcome(built.units, sample) \in {"ok", "skipped"}

LEMMA SampleInit == Init => SampleInv
BY DEF Init, NoLocals, SampleInv

LEMMA SampleStep == ProcessInv /\ LocalsInv /\ SampleInv /\ [Next]_vars => SampleInv'
<1> SUFFICES ASSUME ProcessInv, LocalsInv, SampleInv, [Next]_vars, sample' # NoSample
             PROVE  SampleInv'
  BY DEF SampleInv
<1>1. ASSUME NEW code PROVE ~Exit(code)
  BY DEF Exit, NoSample
<1>2. ASSUME UNCHANGED <<command, built, sample>>,
             pc \in {"execute", "report"} \cup Saves => pc' \in {"execute", "report"} \cup Saves
      PROVE  SampleInv'
  BY <1>2 DEF SampleInv
<1> USE DEF Saves
<1>3. CASE Start
  BY <1>3 DEF Start, locals, LocalsInv, NoLocals, NoSample
<1>4. CASE ReadArguments
  BY <1>1, <1>2, <1>4 DEF ReadArguments, Goto, locals
<1>5. CASE ReadStudy
  BY <1>1, <1>2, <1>5 DEF ReadStudy, Goto, SampleInv
<1>6. CASE Build
  BY <1>1, <1>6 DEF Build, Goto, SampleInv
<1>7. CASE Validate
  BY <1>1, <1>7 DEF Validate
<1>8. CASE Run
  BY <1>1, <1>2, <1>8 DEF Run, Goto, locals
<1>9. CASE ValidateFastPath
  <2>1. /\ sample' \in Samples(built.units)
        /\ ValidationOutcome(built.units, sample') \in {"ok", "skipped"}
        /\ pc = "validate_fast_path" /\ pc' = "execute" /\ UNCHANGED <<command, built>>
    BY <1>1, <1>9, ValidationEnds DEF Goto
  <2>2. command.command = "run" /\ built # None
    BY <2>1 DEF ProcessInv, LocalsInv
  <2> QED
    BY <2>1, <2>2 DEF SampleInv
<1>10. CASE Compare
  BY <1>1, <1>2, <1>10 DEF Compare, Goto, locals
<1>11. CASE Optimize
  BY <1>11 DEF Optimize, Goto, SampleInv
<1>12. CASE Evaluate
  BY <1>2, <1>12 DEF Evaluate, Goto
<1>13. CASE Return
  BY <1>2, <1>13 DEF Return, Goto
<1>14. CASE BuildOptimal
  BY <1>1, <1>14 DEF BuildOptimal, Goto, SampleInv
<1>15. CASE Execute
  BY <1>2, <1>15 DEF Execute, Goto
<1>16. CASE SaveExperiment
  BY <1>1, <1>2, <1>16 DEF SaveExperiment, AfterPersisting, Goto, locals
<1>17. CASE SavePlan
  BY <1>2, <1>17 DEF SavePlan, Goto, locals
<1>18. CASE SaveResult
  BY <1>1, <1>2, <1>18 DEF SaveResult, AfterPersisting, Goto, locals
<1>19. CASE PrintReport
  BY <1>1, <1>19 DEF PrintReport
<1>20. CASE ExecutionFails
  BY <1>1, <1>20 DEF ExecutionFails
<1>21. CASE PersistenceFails
  BY <1>1, <1>2, <1>21 DEF PersistenceFails, AfterPersisting, Goto, locals
<1>22. CASE Interrupt
  BY <1>1, <1>22 DEF Interrupt
<1>23. CASE Edit
  BY <1>2, <1>23 DEF Edit, locals
<1>24. CASE UNCHANGED vars
  BY <1>2, <1>24 DEF vars, locals
<1> QED
  BY <1>3, <1>4, <1>5, <1>6, <1>7, <1>8, <1>9, <1>10, <1>11, <1>12, <1>13, <1>14,
     <1>15, <1>16, <1>17, <1>18, <1>19, <1>20, <1>21, <1>22, <1>23, <1>24
     DEF Next, Proceed, Fail

-----------------------------------------------------------------------------
(***************************************************************************)
(* The store.                                                              *)
(***************************************************************************)

\* Where a command has not written to the store, or never will.
Unwritten ==
    \/ pc \in {"arguments", "study", "build", "validate", "run", "compare",
               "validate_fast_path", "optimize", "search", "optimal", "save_experiment"}
    \/ pc = "execute" /\ command.command # "optimize"

Discards ==
    \/ command.command = "validate"
    \/ command.flags \cap {"--no-persist", "--dry-run"} # {}

Rows(table) ==
    table = [identity \in DOMAIN table |->
                [experiment |-> table[identity].experiment,
                 units |-> table[identity].units,
                 results |-> table[identity].results]]

\* A study is written once, one row after the other.
StoreInv ==
    /\ Rows(store)
    /\ StoredResultsAreComplete
    /\ pc = "save_plan" =>
          IsStored /\ store[Identity].units = <<>> /\ store[Identity].results = <<>>
    /\ pc = "save_result" \/ (pc = "execute" /\ command.command = "optimize") =>
          /\ IsStored
          /\ store[Identity].units = built.units
          /\ store[Identity].results = <<>>
    /\ Unwritten => store = before
    /\ FailuresStoreNothing

\* A command that discards its results does not get to where they are saved.
LEMMA DiscardsDoNotSave == ProcessInv /\ pc \in Saves => ~Discards
<1> SUFFICES ASSUME ProcessInv, pc \in Saves PROVE ~Discards
  OBVIOUS
<1>1. command \in Invocations /\ command.command # "validate"
  BY DEF ProcessInv, Saves
<1>2. CASE command.command = "run"
  BY <1>2 DEF ProcessInv, Saves, Discards, Persists, Has
<1>3. CASE command.command # "run"
  <2>1. command.flags = {}
    BY <1>1, <1>3, CommandsAssumption
  <2> QED
    BY <1>1, <2>1 DEF Discards
<1> QED
  BY <1>2, <1>3

\* What is saved are results of the reference engine.
LEMMA SavedAreReference ==
    ASSUME ProcessInv, ResultsInv, pc = "save_result"
    PROVE  results = Simulated(built.units)
<1>1. ~Has("--fast-path") /\ ~Has("--summary-only")
  BY CommandsAssumption DEF ProcessInv, Saves, Persists, Has, FlagsAreCompatible
<1>2. results = Executed(built.units)
  BY DEF ResultsInv, HasExecuted
<1> QED
  BY <1>1, <1>2 DEF Executed, Delivered, Simulated

LEMMA ExperimentAdded ==
    ASSUME Rows(store), ~IsStored, NEW experiment,
           store' = [identity \in DOMAIN store \cup {Identity} |->
                        IF identity # Identity THEN store[identity]
                        ELSE [experiment |-> experiment,
                              units |-> <<>>, results |-> <<>>]]
    PROVE  /\ DOMAIN store' = DOMAIN store \cup {Identity}
           /\ store'[Identity] = [experiment |-> experiment,
                                  units |-> <<>>, results |-> <<>>]
           /\ \A identity \in DOMAIN store : store'[identity] = store[identity]
           /\ Rows(store')
<1> DEFINE added == Identity
<1>1. added \notin DOMAIN store
  BY DEF IsStored
<1> HIDE DEF added
<1>2. store' = [i \in DOMAIN store \cup {added} |->
                    IF i # added THEN store[i]
                    ELSE [experiment |-> experiment, units |-> <<>>, results |-> <<>>]]
  BY DEF added
<1>3. /\ DOMAIN store' = DOMAIN store \cup {added}
      /\ store'[added] = [experiment |-> experiment, units |-> <<>>, results |-> <<>>]
      /\ \A identity \in DOMAIN store : store'[identity] = store[identity]
  BY <1>1, <1>2
<1>4. \A i \in DOMAIN store' :
        store'[i] = [experiment |-> store'[i].experiment, units |-> store'[i].units,
                     results |-> store'[i].results]
  BY <1>3 DEF Rows
<1>5. Rows(store')
  BY <1>2, <1>4 DEF Rows
<1> QED
  BY <1>3, <1>5 DEF added

\* One row of a table of rows is replaced.
LEMMA RowReplaced ==
    ASSUME NEW table, Rows(table), NEW id \in DOMAIN table, NEW new, NEW row,
           row = [experiment |-> row.experiment, units |-> row.units,
                  results |-> row.results],
           new = [table EXCEPT ![id] = row]
    PROVE  /\ DOMAIN new = DOMAIN table
           /\ new[id] = row
           /\ \A other \in DOMAIN table \ {id} : new[other] = table[other]
           /\ Rows(new)
<1>1. /\ new = [i \in DOMAIN table |-> IF i = id THEN row ELSE table[i]]
  BY DEF Rows
<1>2. \A i \in DOMAIN new :
        new[i] = [experiment |-> new[i].experiment, units |-> new[i].units,
                  results |-> new[i].results]
  BY <1>1 DEF Rows
<1>3. Rows(new)
  BY <1>1, <1>2 DEF Rows
<1> QED
  BY <1>1, <1>3

LEMMA PlanAdded ==
    ASSUME Rows(store), IsStored, NEW units,
           store' = [store EXCEPT ![Identity].units = units]
    PROVE  /\ DOMAIN store' = DOMAIN store
           /\ store'[Identity] = [experiment |-> store[Identity].experiment,
                                  units |-> units,
                                  results |-> store[Identity].results]
           /\ \A identity \in DOMAIN store \ {Identity} :
                    store'[identity] = store[identity]
           /\ Rows(store')
<1> DEFINE id == Identity
           row == [experiment |-> store[id].experiment, units |-> units,
                   results |-> store[id].results]
<1>1. id \in DOMAIN store
  BY DEF IsStored
<1>2. store[id] = [experiment |-> store[id].experiment, units |-> store[id].units,
                   results |-> store[id].results]
  BY <1>1 DEF Rows
<1>3. [store[id] EXCEPT !.units = units] = row
  BY <1>2
<1>4. store' = [store EXCEPT ![id] = row]
  BY <1>3
<1>5. row = [experiment |-> row.experiment, units |-> row.units, results |-> row.results]
  OBVIOUS
<1> HIDE DEF id, row
<1>6. /\ DOMAIN store' = DOMAIN store
      /\ store'[id] = row
      /\ \A other \in DOMAIN store \ {id} : store'[other] = store[other]
      /\ Rows(store')
  BY <1>1, <1>4, <1>5, RowReplaced
<1> QED
  BY <1>6 DEF id, row

LEMMA ResultAdded ==
    ASSUME Rows(store), IsStored, NEW rows,
           store' = [store EXCEPT ![Identity].results = rows]
    PROVE  /\ DOMAIN store' = DOMAIN store
           /\ store'[Identity] = [experiment |-> store[Identity].experiment,
                                  units |-> store[Identity].units,
                                  results |-> rows]
           /\ \A identity \in DOMAIN store \ {Identity} :
                    store'[identity] = store[identity]
           /\ Rows(store')
<1> DEFINE id == Identity
           row == [experiment |-> store[id].experiment, units |-> store[id].units,
                   results |-> rows]
<1>1. id \in DOMAIN store
  BY DEF IsStored
<1>2. store[id] = [experiment |-> store[id].experiment, units |-> store[id].units,
                   results |-> store[id].results]
  BY <1>1 DEF Rows
<1>3. [store[id] EXCEPT !.results = rows] = row
  BY <1>2
<1>4. store' = [store EXCEPT ![id] = row]
  BY <1>3
<1>5. row = [experiment |-> row.experiment, units |-> row.units, results |-> row.results]
  OBVIOUS
<1> HIDE DEF id, row
<1>6. /\ DOMAIN store' = DOMAIN store
      /\ store'[id] = row
      /\ \A other \in DOMAIN store \ {id} : store'[other] = store[other]
      /\ Rows(store')
  BY <1>1, <1>4, <1>5, RowReplaced
<1> QED
  BY <1>6 DEF id, row

LEMMA IdentityStays == UNCHANGED study => Identity' = Identity
BY DEF Identity

LEMMA StoreInit == Init => StoreInv
<1> SUFFICES ASSUME Init PROVE StoreInv
  OBVIOUS
<1>1. store = <<>> /\ before = store /\ DOMAIN store = {} /\ pc = "idle"
  BY DEF Init
<1>2. Rows(store)
  BY <1>1 DEF Rows
<1> QED
  BY <1>1, <1>2 DEF StoreInv, StoredResultsAreComplete, Unwritten, FailuresStoreNothing

LEMMA StoreStep ==
    ProcessInv /\ LocalsInv /\ ResultsInv /\ StoreInv /\ [Next]_vars => StoreInv'
<1> SUFFICES ASSUME ProcessInv, LocalsInv, ResultsInv, StoreInv, [Next]_vars
             PROVE  StoreInv'
  OBVIOUS
<1>1. ASSUME NEW code, Exit(code), UNCHANGED store,
             code \in {"ERROR", "VALIDATION_ERROR"} => Unwritten
      PROVE  StoreInv'
  <2>1. /\ exit' = code /\ pc' = "idle" /\ UNCHANGED <<before, command>>
    BY <1>1 DEF Exit, files
  <2>2. Rows(store)' /\ StoredResultsAreComplete'
    BY <1>1 DEF StoreInv, StoredResultsAreComplete, Rows
  <2>3. FailuresStoreNothing'
    BY <1>1, <2>1 DEF StoreInv, FailuresStoreNothing
  <2> QED
    BY <2>1, <2>2, <2>3 DEF StoreInv, Unwritten
<1>2. ASSUME UNCHANGED <<store, before, command, exit>>, Unwritten' => Unwritten,
             pc' \notin {"save_plan", "save_result"},
             pc' = "execute" => command.command # "optimize"
      PROVE  StoreInv'
  <2>1. Rows(store)' /\ StoredResultsAreComplete' /\ FailuresStoreNothing'
    BY <1>2 DEF StoreInv, StoredResultsAreComplete, Rows, FailuresStoreNothing
  <2> QED
    BY <1>2, <2>1 DEF StoreInv
<1>3. CASE Start
  <2>1. store' = store /\ before' = store /\ pc' = "arguments"
    BY <1>3 DEF Start
  <2>2. Rows(store)' /\ StoredResultsAreComplete' /\ FailuresStoreNothing'
    BY <2>1 DEF StoreInv, StoredResultsAreComplete, Rows, FailuresStoreNothing
  <2> QED
    BY <2>1, <2>2 DEF StoreInv
<1>4. CASE ReadArguments
  BY <1>1, <1>2, <1>4 DEF ReadArguments, Goto, Unwritten
<1>5. CASE ReadStudy
  BY <1>1, <1>2, <1>5 DEF ReadStudy, Goto, Unwritten
<1>6. CASE Build
  BY <1>1, <1>2, <1>6, CommandsAssumption DEF Build, Goto, Unwritten, ProcessInv
<1>7. CASE Validate
  BY <1>1, <1>7 DEF Validate
<1>8. CASE Run
  BY <1>1, <1>2, <1>8 DEF Run, Goto, Unwritten, ProcessInv
<1>9. CASE ValidateFastPath
  BY <1>1, <1>2, <1>9, ValidationEnds DEF Goto, Unwritten, ProcessInv
<1>10. CASE Compare
  BY <1>1, <1>2, <1>10 DEF Compare, Goto, Unwritten, ProcessInv
<1>11. CASE Optimize
  BY <1>2, <1>11 DEF Optimize, Goto, Unwritten
<1>12. CASE Evaluate
  BY <1>2, <1>12 DEF Evaluate, Goto, Unwritten
<1>13. CASE Return
  BY <1>2, <1>13 DEF Return, Goto, Unwritten
<1>14. CASE BuildOptimal
  BY <1>1, <1>2, <1>14 DEF BuildOptimal, Goto, Unwritten
<1>15. CASE Execute
  <2>1. CASE command.command = "optimize"
    <3>1. /\ pc' = "save_result" /\ UNCHANGED <<store, before, command, exit, study, built>>
      BY <1>15, <2>1 DEF Execute, Goto, Persists
    <3>2. /\ IsStored /\ store[Identity].units = built.units
          /\ store[Identity].results = <<>>
      BY <1>15, <2>1 DEF Execute, StoreInv
    <3>3. Rows(store)' /\ StoredResultsAreComplete' /\ FailuresStoreNothing'
      BY <3>1 DEF StoreInv, StoredResultsAreComplete, Rows, FailuresStoreNothing
    <3>4. (/\ IsStored /\ store[Identity].units = built.units
           /\ store[Identity].results = <<>>)'
      BY <3>1, <3>2, IdentityStays DEF IsStored
    <3> QED
      BY <3>1, <3>3, <3>4 DEF StoreInv, Unwritten
  <2>2. CASE command.command # "optimize"
    BY <1>2, <1>15, <2>2 DEF Execute, Goto, Unwritten
  <2> QED
    BY <2>1, <2>2
<1>16. CASE SaveExperiment
  <2>1. CASE IsStored /\ AfterPersisting /\ UNCHANGED store
    BY <1>1, <1>2, <2>1 DEF AfterPersisting, Goto, Unwritten
  <2>2. CASE ~IsStored /\ Goto("save_plan") /\ UNCHANGED locals
    <3>1. /\ pc' = "save_plan" /\ UNCHANGED <<before, command, exit, study>>
          /\ exit = "running" /\ ~Discards
      BY <1>16, <2>2, DiscardsDoNotSave DEF SaveExperiment, Goto, locals, ProcessInv, Saves
    <3>2. /\ DOMAIN store' = DOMAIN store \cup {Identity}
          /\ store'[Identity] = [experiment |-> built.experiment,
                                 units |-> <<>>, results |-> <<>>]
          /\ \A identity \in DOMAIN store : store'[identity] = store[identity]
          /\ Rows(store')
      BY <1>16, <2>2, ExperimentAdded DEF SaveExperiment, StoreInv, IsStored
    <3>3. StoredResultsAreComplete'
      BY <3>2 DEF StoreInv, StoredResultsAreComplete
    <3>4. FailuresStoreNothing'
      BY <3>1 DEF FailuresStoreNothing, Discards
    <3>5. (IsStored /\ store[Identity].units = <<>> /\ store[Identity].results = <<>>)'
      BY <3>1, <3>2, IdentityStays DEF IsStored
    <3>6. Rows(store)'
      BY <3>2 DEF Rows
    <3>7. ~Unwritten' /\ pc' \notin {"save_result", "execute"}
      BY <3>1 DEF Unwritten
    <3> QED
      BY <3>3, <3>4, <3>5, <3>6, <3>7 DEF StoreInv
  <2> QED
    BY <1>16, <2>1, <2>2 DEF SaveExperiment
<1>17. CASE SavePlan
  <2>1. /\ UNCHANGED <<before, command, exit, study, built>>
        /\ pc' = IF command.command = "optimize" THEN "execute" ELSE "save_result"
        /\ exit = "running" /\ ~Discards
    BY <1>17, DiscardsDoNotSave DEF SavePlan, Goto, locals, ProcessInv, Saves
  <2>2. IsStored /\ store[Identity].results = <<>>
    BY <1>17 DEF SavePlan, StoreInv
  <2>3. /\ DOMAIN store' = DOMAIN store
        /\ store'[Identity] = [experiment |-> store[Identity].experiment,
                               units |-> built.units, results |-> <<>>]
        /\ \A identity \in DOMAIN store \ {Identity} : store'[identity] = store[identity]
        /\ Rows(store')
    BY <1>17, <2>2, PlanAdded DEF SavePlan, StoreInv
  <2>4. StoredResultsAreComplete'
    BY <2>3 DEF StoreInv, StoredResultsAreComplete
  <2>5. FailuresStoreNothing'
    BY <2>1 DEF FailuresStoreNothing, Discards
  <2>6. ~Unwritten' /\ pc' # "save_plan"
    BY <2>1 DEF Unwritten
  <2>7. (IsStored /\ store[Identity].units = built.units /\ store[Identity].results = <<>>)'
    BY <2>1, <2>2, <2>3, IdentityStays DEF IsStored
  <2> QED
    BY <2>3, <2>4, <2>5, <2>6, <2>7 DEF StoreInv, Rows
<1>18. CASE SaveResult
  <2>1. /\ IsStored /\ store[Identity].units = built.units
        /\ results = Simulated(built.units)
    <3>1. pc = "save_result"
      BY <1>18 DEF SaveResult
    <3> QED
      <4>1. IsStored /\ store[Identity].units = built.units
        BY <3>1 DEF StoreInv
      <4>2. results = Simulated(built.units)
        BY <3>1, SavedAreReference
      <4> QED
        BY <4>1, <4>2
  <2>2. /\ DOMAIN store' = DOMAIN store
        /\ store'[Identity] = [experiment |-> store[Identity].experiment,
                               units |-> built.units, results |-> results]
        /\ \A identity \in DOMAIN store \ {Identity} : store'[identity] = store[identity]
        /\ Rows(store')
    BY <1>18, <2>1, ResultAdded DEF SaveResult, StoreInv
  <2>3. StoredResultsAreComplete'
    BY <2>1, <2>2 DEF StoreInv, StoredResultsAreComplete
  <2>4. /\ UNCHANGED command /\ pc' \in {"idle", "report"}
        /\ exit' \in {"SUCCESS", "running"} /\ ~Discards
    BY <1>18, DiscardsDoNotSave
       DEF SaveResult, AfterPersisting, Exit, Goto, ProcessInv, Saves
  <2>5. FailuresStoreNothing' /\ ~Unwritten'
    BY <2>4 DEF FailuresStoreNothing, Discards, Unwritten
  <2> QED
    BY <2>2, <2>3, <2>4, <2>5 DEF StoreInv, Rows
<1>19. CASE PrintReport
  BY <1>1, <1>19 DEF PrintReport
<1>20. CASE ExecutionFails
  BY <1>1, <1>20 DEF ExecutionFails, Unwritten
<1>21. CASE PersistenceFails
  BY <1>1, <1>2, <1>21 DEF PersistenceFails, AfterPersisting, Goto, Unwritten
<1>22. CASE Interrupt
  BY <1>1, <1>22 DEF Interrupt
<1>23. ASSUME UNCHANGED <<store, before, pc, command, exit, study, built>>
       PROVE  StoreInv'
  <2>1. Rows(store)' /\ StoredResultsAreComplete' /\ FailuresStoreNothing'
    BY <1>23 DEF StoreInv, StoredResultsAreComplete, Rows, FailuresStoreNothing
  <2>2. IsStored' = IsStored /\ store'[Identity'] = store[Identity]
    BY <1>23, IdentityStays DEF IsStored
  <2> QED
    BY <1>23, <2>1, <2>2 DEF StoreInv, Unwritten
<1>24. CASE Edit
  BY <1>23, <1>24 DEF Edit, locals
<1>25. CASE UNCHANGED vars
  BY <1>23, <1>25 DEF vars, locals
<1> QED
  BY <1>3, <1>4, <1>5, <1>6, <1>7, <1>8, <1>9, <1>10, <1>11, <1>12, <1>13, <1>14,
     <1>15, <1>16, <1>17, <1>18, <1>19, <1>20, <1>21, <1>22, <1>24, <1>25
     DEF Next, Proceed, Fail

-----------------------------------------------------------------------------
(***************************************************************************)
(* Theorems.                                                               *)
(***************************************************************************)

IInv ==
    /\ ProcessInv /\ LocalsInv /\ SearchInv /\ ResultsInv
    /\ PlanInv /\ SampleInv /\ StoreInv

LEMMA Invariance == Spec => []IInv
<1>1. Init => IInv
  BY ProcessInit, LocalsInit, SearchInit, ResultsInit, PlanInit, SampleInit,
     StoreInit DEF IInv
<1>2. IInv /\ [Next]_vars => IInv'
  BY ProcessStep, LocalsStep, SearchStep, ResultsStep, PlanStep, SampleStep,
     StoreStep DEF IInv
<1> QED
  BY <1>1, <1>2, PTL DEF Spec

\* Types are kept by every command, and what is persisted or reported has a
\* result for each unit.
THEOREM TypeCorrect == Spec => []TypeOK
<1>1. ASSUME IInv PROVE TypeOK
  <2>1. /\ pc \in Labels /\ exit \in ExitCodes /\ command \in Invocations \cup {None}
        /\ study_file \in StudyFiles /\ data_dir \in DataDirs
        /\ study \in StudyFiles \cup {None} /\ cache \in DataDirs \cup {None}
        /\ turn \in {0, 1} /\ given \in 0 .. MaxCommands /\ edits \in 0 .. MaxEdits
        /\ pc = "idle" => NoLocals
        /\ pc \in {"execute", "save_plan"} => built # None
    BY <1>1 DEF IInv, ProcessInv, LocalsInv, Saves
  <2>2. best \subseteq low .. high /\ high <= DomainMax
    <3>1. CASE Bound
      BY <1>1, <3>1, CommandsAssumption DEF IInv, SearchInv
    <3>2. CASE ~Bound
      BY <1>1, <3>2, CommandsAssumption DEF IInv, LocalsInv
    <3> QED
      BY <3>1, <3>2
  <2>3. pc \in {"save_result", "report"} => DOMAIN results = DOMAIN built.units
    BY <1>1 DEF IInv, ResultsInv, HasExecuted, Executed
  <2> QED
    BY <2>1, <2>2, <2>3 DEF TypeOK
<1> QED
  BY <1>1, Invariance, PTL

\* The store holds what the reference engine computes for the stored units,
\* whatever commands were given with whatever flags.
THEOREM StoredComplete == Spec => []StoredResultsAreComplete
<1>1. IInv => StoredResultsAreComplete
  BY DEF IInv, StoreInv
<1> QED
  BY <1>1, Invariance, PTL

\* No command that fails, and none that is to persist nothing, changes the
\* store.
THEOREM FailuresLeaveStore == Spec => []FailuresStoreNothing
<1>1. IInv => FailuresStoreNothing
  BY DEF IInv, StoreInv
<1> QED
  BY <1>1, Invariance, PTL

\* A start is generated or accepted exactly when the longest horizon can be
\* sliced from it, by each of the three strategies.
THEOREM StrategiesSlice == Spec => []CohortsCanBeSliced
<1>1. ASSUME IInv PROVE CohortsCanBeSliced
  <2> DEFINE dataset == Resolved(Loaded.registry, study.dataset)
             months == Months(LongestHorizon(study))
  <2> SUFFICES ASSUME pc = "build", Loaded.kind = "datasets",
                      Resolves(Loaded.registry, study.dataset),
                      CanHaveCohorts(dataset, months)
               PROVE
        LET sliceable == {date \in DatesOf(dataset) : Sliceable(dataset, date, months)}
        IN  /\ RollingStarts(dataset, months) = sliceable
            /\ \A start, end \in DatesOf(dataset) :
                  RangeStarts(dataset, months, start, end) = sliceable \cap start .. end
            /\ \A dates \in (SUBSET DatesOf(dataset)) \ {{}} :
                  AcceptsStartDates(dataset, months, dates) <=> dates \subseteq sliceable
    BY DEF CohortsCanBeSliced
  <2>1. Loaded \in DataDirs
    BY <1>1 DEF IInv, LocalsInv, Loaded
  <2>2. Matching(Loaded.registry, study.dataset) # {}
    BY FS_EmptySet DEF Resolves
  <2>3. Matching(Loaded.registry, study.dataset) \subseteq DOMAIN Loaded.registry
    BY DEF Matching
  <2>4. IsDataset(dataset)
    BY <2>1, <2>2, <2>3, DataDirsAssumption DEF Resolved
  <2>5. months \in Nat /\ months > 0
    <3>1. LongestHorizon(study) \in Nat
      BY <1>1, StudyFilesAssumption DEF IInv, LocalsInv
    <3>2. months \in Nat
      BY <3>1, MonthsAssumption DEF Months
    <3> QED
      BY <3>2 DEF CanHaveCohorts
  <2> HIDE DEF dataset, months
  <2> QED
    BY <2>4, <2>5, StrategiesAgree
<1> QED
  BY <1>1, Invariance, PTL

\* The study of a candidate is the study with one rate.
LEMMA CandidateIsStudy ==
    ASSUME IsStudy(study), DeclaresValues(study), AxesAreValid(study), NEW rate
    PROVE  /\ IsStudy(Candidate(rate)) /\ DeclaresValues(Candidate(rate))
           /\ AxesAreValid(Candidate(rate))
           /\ Candidate(rate).dataset = study.dataset
           /\ Candidate(rate).horizons = study.horizons
           /\ Candidate(rate).equity = study.equity
           /\ Range(Candidate(rate).rates) = {rate}
<1>1. /\ DOMAIN Candidate(rate) = DOMAIN study
      /\ Candidate(rate).rates = <<rate>>
      /\ Candidate(rate).dataset = study.dataset
      /\ Candidate(rate).horizons = study.horizons
      /\ Candidate(rate).equity = study.equity
  BY DEF Candidate, IsStudy
<1> DEFINE rates == <<rate>>
<1>2. /\ DOMAIN rates = {1} /\ rates[1] = rate /\ rates # <<>>
      /\ rates \in Seq({rate}) /\ Range(rates) = {rate}
  BY DEF Range
<1>3. IsInjective(Axis(rates))
  BY <1>2 DEF IsInjective, Axis
<1> HIDE DEF rates
<1>4. Candidate(rate).rates = rates
  BY <1>1 DEF rates
<1>5. IsStudy(Candidate(rate))
  BY <1>1, <1>2, <1>4 DEF IsStudy
<1>6. DeclaresValues(Candidate(rate))
  BY <1>1, <1>2, <1>4 DEF DeclaresValues
<1>7. AxesAreValid(Candidate(rate))
  BY <1>1, <1>3, <1>4 DEF AxesAreValid
<1> QED
  BY <1>1, <1>2, <1>4, <1>5, <1>6, <1>7

\* What was built of a study, or of the optimal rate.
LEMMA BuiltUnits ==
    ASSUME IInv, built # None
    PROVE  PlanIsTheGrid /\ HaveHorizons(built.units)
<1> DEFINE dataset == LoadedDataset
<1>1. /\ study \in StudyFiles /\ study.kind = "study" /\ DeclaresValues(study)
      /\ cache \in DataDirs /\ cache.kind = "datasets"
      /\ Buildable(study, cache.registry, command.capital)
  <2>1. IsPlanned /\ cache # None
    BY DEF IInv, PlanInv, LocalsInv, IsPlanned
  <2> QED
    BY <2>1 DEF IInv, PlanInv, LocalsInv
<1>2. IsStudy(study) /\ LongestHorizon(study) \in Nat
  BY <1>1, StudyFilesAssumption
<1>3. IsDataset(dataset)
  <2>1. Cardinality(Matching(cache.registry, study.dataset)) = 1
    BY <1>1 DEF Buildable, Resolves
  <2>2. Matching(cache.registry, study.dataset) # {}
    BY <2>1, FS_EmptySet
  <2>3. Matching(cache.registry, study.dataset) \subseteq DOMAIN cache.registry
    BY DEF Matching
  <2> QED
    BY <1>1, <2>2, <2>3, DataDirsAssumption DEF LoadedDataset, Resolved
<1>4. /\ CanHaveCohorts(dataset, Months(LongestHorizon(study)))
      /\ AxesAreValid(study)
      /\ \A start \in Range(PlanCohorts(study, dataset)), years \in Range(study.horizons) :
              Sliceable(dataset, start, Months(years))
  BY <1>1 DEF Buildable, LoadedDataset
<1>5. PICK s : /\ built = BuildWith(cache.registry, s)
               /\ IsStudy(s) /\ DeclaresValues(s) /\ AxesAreValid(s)
               /\ s.dataset = study.dataset /\ s.horizons = study.horizons
               /\ s.equity = study.equity /\ Range(s.rates) = SweptRates
  <2>1. CASE ~Answered
    <3>1. built = BuildWith(cache.registry, study) /\ SweptRates = Range(study.rates)
      BY <2>1 DEF IInv, PlanInv, SweptRates
    <3> QED
      BY <1>1, <1>2, <1>4, <3>1
  <2>2. CASE Answered
    <3>1. pc # "optimal"
      BY DEF IInv, PlanInv
    <3>2. PICK rate \in best : built = BuildWith(cache.registry, Candidate(rate))
      BY <2>2, <3>1 DEF IInv, ResultsInv
    <3>3. best = {rate} /\ SweptRates = {rate}
      BY <2>2, <3>2 DEF IInv, SearchInv, Bound, SweptRates
    <3> QED
      BY <1>1, <1>2, <1>4, <3>2, <3>3, CandidateIsStudy
  <2> QED
    BY <2>1, <2>2
<1>6. LongestHorizon(s) = LongestHorizon(study)
  BY <1>5 DEF LongestHorizon
<1>7. PlanCohorts(s, dataset) = PlanCohorts(study, dataset)
  BY <1>6 DEF PlanCohorts
<1>8. built.units = Units(s, dataset, PlanCohorts(s, dataset))
  BY <1>5 DEF BuildWith, BuildStudyPlan, LoadedDataset
<1>9. /\ StartsOf(s, dataset) = {dataset.snapshots[i].date :
              i \in 1 .. Total(dataset) + 1 - Months(LongestHorizon(study))}
      /\ Grid(s) = [equity : {AsFloat(v) : v \in Range(study.equity)},
                    rate : {AsFloat(v) : v \in SweptRates},
                    years : Range(study.horizons)]
  BY <1>5, <1>6 DEF StartsOf, Grid
<1> HIDE DEF dataset
<1>10. /\ AreTheGrid(built.units, dataset, StartsOf(s, dataset) \X Grid(s))
       /\ HaveHorizons(built.units)
  BY <1>2, <1>3, <1>4, <1>5, <1>6, <1>7, <1>8, PlanIsTheGridOfItsStudy
<1> QED
  BY <1>9, <1>10 DEF PlanIsTheGrid, AreTheGrid, dataset

\* The plan of a command, of its study or of the optimal rate, is the whole
\* grid, and a unit has the months of its own horizon from its own start.
THEOREM PlanIsWhole == Spec => []PlanIsTheGrid
<1>1. IInv => PlanIsTheGrid
  BY BuiltUnits DEF PlanIsTheGrid
<1> QED
  BY <1>1, Invariance, PTL

\* A validation that lets a command go on compared as many units as it reports,
\* within its budget and of every horizon the budget reaches, whatever the
\* generator drew; and a fast path that was wrong about one did not get by.
THEOREM ValidationSound == Spec => []ValidationIsSound
<1>1. ASSUME IInv, sample # NoSample PROVE ValidationIsSound
  <2>1. /\ built # None /\ sample \in Samples(built.units)
        /\ ValidationOutcome(built.units, sample) \in {"ok", "skipped"}
    BY <1>1 DEF IInv, SampleInv
  <2>2. HaveHorizons(built.units)
    BY <1>1, <2>1, BuiltUnits
  <2>3. Sampled(sample) # {}
    <3>1. PICK S, A : sample = [drawn |-> S, added |-> A]
      BY <2>1 DEF Samples
    <3> QED
      BY <1>1, <3>1 DEF Sampled, NoSample
  <2>4. IsSound(built.units, sample)
    BY <2>1, <2>2, <2>3, SampleIsSound
  <2> QED
    BY <2>4 DEF ValidationIsSound, IsSound, SampledUnits
<1>2. IInv => ValidationIsSound
  BY <1>1 DEF ValidationIsSound
<1> QED
  BY <1>2, Invariance, PTL

\* What is left of the domain after a turn of the search is half of what was
\* left before, rounded up, and less than that unless the tolerance is below a
\* step of the decimals: the search is over after as many turns as a number of
\* the size of the domain has binary digits.
TurnHalves ==
    Evaluate => /\ 2 * (high' - low') <= high - low + 1
                /\ command.tolerance > 0 => high' - low' < high - low

THEOREM SearchHalves == Spec => [][TurnHalves]_vars
<1>1. ASSUME IInv, Evaluate
      PROVE  /\ 2 * (high' - low') <= high - low + 1
             /\ command.tolerance > 0 => high' - low' < high - low
  <2>1. PICK l \in Nat, h \in Nat : l = low /\ h = high /\ l <= h
    BY <1>1, CommandsAssumption DEF IInv, SearchInv, Bound, Searching, Evaluate
  <2>2. h - l > command.tolerance /\ command.tolerance \in Nat
    BY <1>1, <2>1, CommandsAssumption
       DEF IInv, ProcessInv, Evaluate, Searching, Search!Wider
  <2>3. PICK mid \in Nat : mid = Search!Mid(l, h) /\ 2 * mid \in l + h - 1 .. l + h + 1
    BY DEF Search!Mid
  <2>4. \/ low' = mid /\ high' = h
        \/ low' = l /\ high' = mid
    BY <1>1, <2>1, <2>3 DEF Evaluate, Search!Bisect
  <2> QED
    BY <2>1, <2>2, <2>3, <2>4
<1>2. IInv /\ [Next]_vars => [TurnHalves]_vars
  BY <1>1 DEF TurnHalves
<1> QED
  BY <1>2, Invariance, PTL DEF Spec

\* The optimum that is persisted meets the target it was searched for.
THEOREM OptimumMeetsTarget == Spec => []StoredOptimumMeetsTarget
<1>1. ASSUME IInv PROVE StoredOptimumMeetsTarget
  <2> SUFFICES ASSUME pc = "save_result", command.command = "optimize"
               PROVE  MeetsTarget(results, command.target)
    BY DEF StoredOptimumMeetsTarget
  <2>1. Answered /\ pc # "optimal"
    BY DEF Answered
  <2>2. PICK rate \in best : built = BuildWith(cache.registry, Candidate(rate))
    BY <1>1, <2>1 DEF IInv, ResultsInv
  <2>3. rate \in Meeting
    BY <1>1, <2>1, <2>2 DEF IInv, SearchInv, Bound
  <2>4. results = Simulated(built.units)
    BY <1>1, SavedAreReference DEF IInv
  <2> QED
    BY <2>2, <2>3, <2>4 DEF Meeting, Evaluated
<1> QED
  BY <1>1, Invariance, PTL

\* What is in the store under an identity stays.
THEOREM StudiesRetained == Spec => StudiesAreRetained
<1> DEFINE Kept ==
        \A identity \in DOMAIN store :
          /\ identity \in DOMAIN store'
          /\ store'[identity].experiment = store[identity].experiment
          /\ store[identity].units # <<>> =>
                store'[identity].units = store[identity].units
          /\ store[identity].results # <<>> =>
                store'[identity].results = store[identity].results
<1>1. ASSUME IInv, [Next]_vars PROVE [Kept]_vars
  <2>1. CASE UNCHANGED store
    BY <2>1
  <2>2. CASE SaveExperiment /\ ~IsStored
    <3>1. \A identity \in DOMAIN store :
            identity \in DOMAIN store' /\ store'[identity] = store[identity]
      BY <1>1, <2>2, ExperimentAdded DEF SaveExperiment, IInv, StoreInv, IsStored
    <3> QED
      BY <3>1
  <2>3. CASE SavePlan
    <3>1. IsStored /\ store[Identity].units = <<>> /\ store[Identity].results = <<>>
      BY <1>1, <2>3 DEF SavePlan, IInv, StoreInv
    <3>2. /\ DOMAIN store' = DOMAIN store
          /\ store'[Identity].experiment = store[Identity].experiment
          /\ \A identity \in DOMAIN store \ {Identity} :
                store'[identity] = store[identity]
      BY <1>1, <2>3, <3>1, PlanAdded DEF SavePlan, IInv, StoreInv
    <3> QED
      BY <3>1, <3>2
  <2>4. CASE SaveResult
    <3>1. IsStored /\ store[Identity].results = <<>>
      BY <1>1, <2>4 DEF SaveResult, IInv, StoreInv
    <3>2. /\ DOMAIN store' = DOMAIN store
          /\ store'[Identity].experiment = store[Identity].experiment
          /\ store'[Identity].units = store[Identity].units
          /\ \A identity \in DOMAIN store \ {Identity} :
                store'[identity] = store[identity]
      BY <1>1, <2>4, <3>1, ResultAdded DEF SaveResult, IInv, StoreInv
    <3> QED
      BY <3>1, <3>2
  <2>5. ASSUME ~(SaveExperiment /\ ~IsStored), ~SavePlan, ~SaveResult
        PROVE  UNCHANGED store
    BY <1>1, <2>5, ValidationEnds
       DEF Next, Start, Proceed, Fail, Interrupt, Edit, ReadArguments, ReadStudy, Build,
           Validate, Run, Compare, Optimize, Evaluate, Return, BuildOptimal, Execute,
           SaveExperiment, PrintReport, ExecutionFails, PersistenceFails, vars
  <2> QED
    BY <2>1, <2>2, <2>3, <2>4, <2>5
<1> HIDE DEF Kept
<1>2. Spec => [][Kept]_vars
  BY <1>1, Invariance, PTL DEF Spec
<1> QED
  BY <1>2 DEF Kept, StudiesAreRetained

\* The search implements its promise.
THEOREM SearchIsSafe == Spec => FindsASafeRate
<1>1. IInv /\ [Next]_vars => [Search!Promise!Next]_Search!Promise!vars
  BY PromiseStep DEF IInv
<1> QED
  BY <1>1, PromiseInit, Invariance, PTL DEF Spec, FindsASafeRate, Search!Promise!Spec
=============================================================================
