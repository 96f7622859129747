----------------------------- MODULE MCReports -----------------------------
(***************************************************************************)
(* What a run tells its user, each part by itself: the steps and outcome   *)
(* of a test, the output of the driver, the progress board, the report of  *)
(* the run, and the places of failures.                                    *)
(***************************************************************************)
EXTENDS TestBody, DriverOutput, ProgressBoard, RunReport, FailureFrames

VARIABLE part      \* Which one runs; the others stay as they begin.

Parts == {"body", "output", "board", "report", "frames"}

\* Records of tests, with the times of their session and at most two kinds of steps.
Record(outcome, session, lasted, teardown, first, second) ==
    [outcome |-> outcome, session |-> session, body |-> lasted, teardown |-> teardown,
     steps |-> <<first, second>>]
SessionOf(how, duration, wait) == [prepared |-> how, duration |-> duration, wait |-> wait]
Stats(count, sum, max) == [count |-> count, total |-> sum, max |-> max]

MCRecords ==
    {Record("Passed", SessionOf("Created", 3, 0), 2, None, Stats(2, 2, 1), NoSteps),
     Record("Failed", SessionOf("Reset", 1, 1), 1, 1, Stats(1, 2, 2), Stats(1, 1, 1)),
     Record("Failed", SessionOf("Created", 2, 1), None, None, NoSteps, NoSteps),
     Record("Panicked", None, None, None, NoSteps, NoSteps),
     Record("TimedOut", SessionOf("Created", 2, 0), 4, 2, NoSteps, Stats(2, 3, 2)),
     Record("Cancelled", SessionOf("Reset", 1, 2), 1, None, NoSteps, NoSteps)}

\* Around the limits of the units, in 0.1ms.
MCRunTimes == {0, 5, 9994, 9995, 9996, 10000, 599949, 599950, 599999, 600000, 1199499, 1199500,
               1199600, 1253000}

\* A workspace with a vendored dependency whose files are named like the package's.
Spot(path, line) == [path |-> path, line |-> line]
Symbol(path, line, function) == [path |-> path, line |-> line, function |-> function]
Test1 == Symbol(<<"w", "p", "src", "lib">>, 1, "Test::run")
Test2 == Symbol(<<"w", "p", "src", "lib">>, 2, "helper")
Helped == Symbol(<<"w", "p", "src", "lib">>, 2, "helper::inner")
Vendored == Symbol(<<"w", "vendor", "dep", "src", "p", "src", "lib">>, 1, "dep::check")
Generated == Symbol(<<"w", "target", "gen">>, 1, "gen")
Step == Symbol(<<"own", "step">>, 1, "step")
Runner == Symbol(<<"own", "execution", "run">>, 1, "run")
Unnamed == Symbol(None, None, "")
Unlined == Symbol(<<"w", "q", "lib">>, None, "q")

MCStacks ==
    {<<Test1>>, <<Vendored>>, <<Vendored, Test1>>, <<Vendored, Test2>>, <<Generated, Test1>>,
     <<Test2, Step, Test2, Helped, Test1>>, <<Step, Test1, Runner, Test2>>, <<Step, Runner, Test2>>,
     <<Test1, Unnamed, Vendored, Test1, Runner>>, <<Test1, Unlined, Test2, Test1>>}

\* In full and below the workspace, and one in the vendored dependency.
MCLocations ==
    {Spot(Test1.path, 1), Spot(<<"p", "src", "lib">>, 2), Spot(Vendored.path, 1)}

MCPackages == {<<"w", "p">>, <<"x", "w">>}
MCWorkspaces == {<<"w">>}
MCTargetDirs == {<<"w", "target">>}
MCMarked == {<<"w", "vendor", "dep">>}
MCOwnSources == <<"own">>
MCRunnerSource == <<"own", "execution">>

\* The others begin in one way.
MCInit ==
    /\ part \in Parts
    /\ BodyInit /\ OutputInit /\ BoardInit /\ ReportInit /\ FramesInit
    /\ part # "output" => captures = FALSE
    /\ part # "frames" => asks = [r \in FrameRuns |-> FALSE] /\ package = <<"w", "p">>

MCNext ==
    /\ UNCHANGED part
    /\ \/ /\ part = "body" /\ BodyNext
          /\ UNCHANGED <<outputVars, boardVars, reportVars, frameVars>>
       \/ /\ part = "output" /\ OutputNext
          /\ UNCHANGED <<bodyVars, boardVars, reportVars, frameVars>>
       \/ /\ part = "board" /\ BoardNext
          /\ UNCHANGED <<bodyVars, outputVars, reportVars, frameVars>>
       \/ /\ part = "report" /\ ReportNext
          /\ UNCHANGED <<bodyVars, outputVars, boardVars, frameVars>>
       \/ /\ part = "frames" /\ FramesNext
          /\ UNCHANGED <<bodyVars, outputVars, boardVars, reportVars>>

MCSpec == MCInit /\ [][MCNext]_<<part, bodyVars, outputVars, boardVars, reportVars, frameVars>>

Symmetry == Permutations(StepKinds) \cup Permutations(FrameRuns)
=============================================================================
