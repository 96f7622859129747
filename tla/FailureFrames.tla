--------------------------- MODULE FailureFrames ---------------------------
(***************************************************************************)
(* Where failures happened: the hooks that runs install (rootcause takes   *)
(* one set of hooks per process, which may be the application's), and the  *)
(* frames of test code that they attach to the errors and panics of tests  *)
(* (failure_report.rs).  Paths are sequences of components.  A stack lists *)
(* its symbols, innermost first; a symbol may lack its path or line, and   *)
(* its function is empty where it lacks a name.  The location of a failure *)
(* may be any place, not just that of its innermost symbol: it is the call *)
(* site of a macro, or of a function that tracks its caller.               *)
(***************************************************************************)
EXTENDS Option, Listing, SequencesExt

CONSTANTS
    FrameRuns,     \* Runs of one process.
    Stacks,        \* Stacks that errors and panics happen on.
    Locations,     \* Places that they are said to happen at, by Rust.
    Packages,      \* Directories of the package whose tests may run.
    Workspaces,    \* Directories whose Cargo.toml has a workspace table.
    TargetDirs,    \* Where the target directory may be.
    Marked,        \* Directories that Cargo marked as those of a dependency.
    OwnSources, RunnerSource

Paths == Seq(STRING)
Symbols == [path : Paths \cup {None}, line : Nat \cup {None}, function : STRING]
Spots == [path : Paths, line : Nat]

\* Something is on every stack, and the sources of code are files.
ASSUME SourcesAssumption ==
    /\ IsPrefix(OwnSources, RunnerSource) /\ {OwnSources, RunnerSource} \subseteq Paths
    /\ Packages \cup Workspaces \cup TargetDirs \cup Marked \subseteq Paths
    /\ Locations \subseteq Spots
    /\ \A stack \in Stacks :
          /\ stack \in Seq(Symbols) \ {<<>>}
          /\ \A i \in DOMAIN stack : stack[i].path \notin Marked \cup {<<>>}

ASSUME FrameRunsAssumption == None # "done" /\ FrameRuns \cap {None, "done"} = {}

VARIABLES
    asks,          \* with_failure_report_hooks of each run.
    package, targetDir,
    installs,      \* Where each run is in `install`.
    hooksInPlace,  \* The process's hooks: "none", "ours" among them, or only "other" ones.
    hooksRan,      \* HOOKS_RAN
    reportHooks,   \* REPORT_HOOKS: None, the run that initializes it, or "done".
    panicHooks,    \* How often the panic hook was installed.
    hooksWarned,   \* A run said that its reports lack frames.
    dirs,          \* Dependencies::dirs
    failure,       \* An error or panic, with what its report has attached.
    raced          \* History: the application installed hooks as a run was about to.

cargo == <<asks, package, targetDir>>
hooking == <<installs, hooksInPlace, hooksRan, reportHooks, panicHooks, hooksWarned, raced>>
frameVars == <<cargo, hooking, dirs, failure>>

-----------------------------------------------------------------------------
(* install                                                                 *)

\* Mutant: the flag is read, but no report is created that would set it.
HooksInstalled_Unasked == hooksRan

\* hooks_installed: the hooks run as a report is created.
HooksInstalled == hooksRan \/ hooksInPlace = "ours"

\* REPORT_HOOKS.get_or_init blocks while another run initializes it.
Install(r) ==
    /\ installs[r] = "new"
    /\ \/ /\ asks[r] /\ reportHooks = None
          /\ reportHooks' = r
          /\ installs' = [installs EXCEPT ![r] = "checking"]
       \/ /\ asks[r] => reportHooks = "done"
          /\ installs' = [installs EXCEPT ![r] = "panicHook"]
          /\ UNCHANGED reportHooks
    /\ UNCHANGED <<cargo, hooksInPlace, hooksRan, panicHooks, hooksWarned, raced, dirs, failure>>

CheckHooks(r) ==
    /\ installs[r] = "checking"
    /\ hooksRan' = HooksInstalled
    /\ IF HooksInstalled
       THEN /\ installs' = [installs EXCEPT ![r] = "panicHook"]
            /\ reportHooks' = "done"
       ELSE /\ installs' = [installs EXCEPT ![r] = "installing"]
            /\ UNCHANGED reportHooks
    /\ UNCHANGED <<cargo, hooksInPlace, panicHooks, hooksWarned, raced, dirs, failure>>

InstallHooks(r) ==
    /\ installs[r] = "installing"
    /\ IF hooksInPlace = "none" THEN hooksInPlace' = "ours" /\ UNCHANGED hooksWarned
       ELSE hooksWarned' = TRUE /\ UNCHANGED hooksInPlace
    /\ reportHooks' = "done"
    /\ installs' = [installs EXCEPT ![r] = "panicHook"]
    /\ UNCHANGED <<cargo, hooksRan, panicHooks, raced, dirs, failure>>

\* PANIC_HOOK.get_or_init
InstallPanicHook(r) ==
    /\ installs[r] = "panicHook"
    /\ panicHooks' = IF panicHooks = 0 THEN 1 ELSE panicHooks
    /\ installs' = [installs EXCEPT ![r] = "done"]
    /\ UNCHANGED <<cargo, hooksInPlace, hooksRan, reportHooks, hooksWarned, raced, dirs, failure>>

\* The application installs hooks, with or without these (`hooks`).
Application(included) ==
    /\ hooksInPlace = "none"
    /\ hooksInPlace' = IF included THEN "ours" ELSE "other"
    /\ raced' = (\E r \in FrameRuns : installs[r] = "installing")
    /\ UNCHANGED <<cargo, installs, hooksRan, reportHooks, panicHooks, hooksWarned, dirs, failure>>

-----------------------------------------------------------------------------
(* TestCodeFrames::capture                                                 *)

\* workspace_root: the closest directory from the package's up, else that one.
TestRoot ==
    LET above == {n \in 1..Len(package) : SubSeq(package, 1, n) \in Workspaces}
    IN  IF above = {} THEN package ELSE SubSeq(package, 1, Max(above))

Learned(known, dir, is) ==
    [d \in DOMAIN known \cup {dir} |-> IF d = dir THEN is ELSE known[d]]

\* Mutant: the mark of a directory is kept, not whether it is a dependency's.
LookUp_KeepsMark(known, dir) ==
    LET up[n \in 0..Len(dir)] ==
            LET d == SubSeq(dir, 1, n)
            IN  IF d = TestRoot \/ ~IsPrefix(TestRoot, d) THEN [is |-> FALSE, dirs |-> known]
                ELSE IF d \in DOMAIN known THEN [is |-> known[d], dirs |-> known]
                ELSE IF d \in Marked THEN [is |-> TRUE, dirs |-> Learned(known, d, TRUE)]
                ELSE [is |-> up[n - 1].is, dirs |-> Learned(up[n - 1].dirs, d, FALSE)]
    IN  up[Len(dir)]

\* is_dependency_dir, for a directory and those above it, with what is known afterwards.
LookUp(known, dir) ==
    LET up[n \in 0..Len(dir)] ==
            LET d == SubSeq(dir, 1, n)
            IN  IF d = TestRoot \/ ~IsPrefix(TestRoot, d) THEN [is |-> FALSE, dirs |-> known]
                ELSE IF d \in DOMAIN known THEN [is |-> known[d], dirs |-> known]
                ELSE IF d \in Marked THEN [is |-> TRUE, dirs |-> Learned(known, d, TRUE)]
                ELSE [is |-> up[n - 1].is, dirs |-> Learned(up[n - 1].dirs, d, up[n - 1].is)]
    IN  up[Len(dir)]

\* Dependencies::contains
IsDependency(known, path) ==
    IF IsPrefix(targetDir, path) THEN [is |-> TRUE, dirs |-> known]
    ELSE LookUp(known, Front(path))

Entry(symbol) ==
    [file |-> SubSeq(symbol.path, Len(TestRoot) + 1, Len(symbol.path)), line |-> symbol.line,
     function |-> symbol.function]

\* The walk over a stack: the frames found, the dependencies known, whether the runner is met.
Visit(walk, symbol) ==
    IF walk.met \/ symbol.path = None THEN walk
    ELSE IF IsPrefix(RunnerSource, symbol.path) THEN [walk EXCEPT !.met = TRUE]
    ELSE IF \/ IsPrefix(OwnSources, symbol.path) \/ ~IsPrefix(TestRoot, symbol.path)
            \/ symbol.line = None
         THEN walk
    ELSE LET found == IsDependency(walk.dirs, symbol.path)
             repeats == walk.frames # <<>> /\ Last(walk.frames) = Entry(symbol)
         IN  [walk EXCEPT !.dirs = found.dirs,
                          !.frames = IF found.is \/ repeats THEN @ ELSE Append(@, Entry(symbol))]

Capture(stack) == FoldLeft(Visit, [frames |-> <<>>, dirs |-> dirs, met |-> FALSE], stack)

\* TestCodeFrames::starts_at, and what pop_location_at compares: the end of a path.
StartsAt(frames, location) ==
    /\ frames # <<>>
    /\ frames[1].line = location.line /\ IsSuffix(frames[1].file, location.path)

-----------------------------------------------------------------------------
(* Attachments                                                             *)

Location(location) == [what |-> "location", at |-> location]
Frames(frames) == [what |-> "frames", frames |-> frames]
PanicLocation(location, outside) ==
    [what |-> "panicked", at |-> location, outside |-> outside]
Custom == [what |-> "custom"]

\* What a new report has: its location, of rootcause's default hooks, and what a hook of the
\* application may attach after it.
Given(location, custom) == <<Location(location)>> \o (IF custom THEN <<Custom>> ELSE <<>>)
OwnLocation == [path |-> OwnSources, line |-> 1]

IsLocation(attachments) == attachments # <<>> /\ Last(attachments).what = "location"

\* pop_location_at
PopLocationAt(attachments, frames) ==
    IF IsLocation(attachments) /\ StartsAt(frames, Last(attachments).at)
    THEN Front(attachments) ELSE attachments

WithoutOwnLocation(attachments) ==
    IF IsLocation(attachments) THEN Front(attachments) ELSE attachments

\* A report is created here: by the test or beside it, of an error where it arises or of the
\* context it gets.
CreateReport(stack, location, inTest, childless, custom) ==
    LET given == Given(location, custom)
        walk == Capture(stack)
        captures == hooksInPlace = "ours" /\ childless /\ inTest
    IN  /\ failure = None
        /\ custom => hooksInPlace # "none"
        /\ hooksRan' = (hooksRan \/ hooksInPlace = "ours")
        /\ dirs' = IF captures THEN walk.dirs ELSE dirs
        /\ failure' = [kind |-> "error", stack |-> stack, location |-> location,
                       told |-> captures, given |-> given,
                       attached |-> IF captures /\ walk.frames # <<>>
                                    THEN Append(PopLocationAt(given, walk.frames),
                                                Frames(walk.frames))
                                    ELSE given]
        /\ UNCHANGED <<cargo, installs, hooksInPlace, reportHooks, panicHooks, hooksWarned, raced>>

\* A panic and, if it fails a test (failure_report), the test's report.  The runner creates it
\* beside the test, so that hooks attach no frames to it, but what else they attach.
PanicAt(stack, location, inTest, custom) ==
    LET given == Given(OwnLocation, custom)
        walk == Capture(stack)
        told == panicHooks > 0 /\ inTest
        outside == walk.frames # <<>> /\ ~StartsAt(walk.frames, location)
        own == WithoutOwnLocation(given)
        frames == IF walk.frames = <<>> THEN <<>> ELSE <<Frames(walk.frames)>>
    IN  /\ failure = None
        /\ custom => hooksInPlace # "none"
        /\ hooksRan' = (hooksRan \/ hooksInPlace = "ours")
        /\ dirs' = IF told THEN walk.dirs ELSE dirs
        /\ failure' = [kind |-> "panic", stack |-> stack, location |-> location,
                       told |-> told, given |-> given,
                       attached |-> IF told
                                    THEN own \o <<PanicLocation(location, outside)>> \o frames
                                    ELSE own]
        /\ UNCHANGED <<cargo, installs, hooksInPlace, reportHooks, panicHooks, hooksWarned, raced>>

\* The next failure comes with nothing left of this one but the dependencies known.
Handle ==
    /\ failure # None
    /\ failure' = None
    /\ UNCHANGED <<cargo, hooking, dirs>>

-----------------------------------------------------------------------------
FramesInit ==
    /\ asks \in [FrameRuns -> BOOLEAN]
    /\ package \in Packages /\ targetDir \in TargetDirs
    /\ installs = [r \in FrameRuns |-> "new"]
    /\ hooksInPlace = "none" /\ hooksRan = FALSE /\ reportHooks = None
    /\ panicHooks = 0 /\ hooksWarned = FALSE /\ raced = FALSE
    /\ dirs = <<>> /\ failure = None

FramesNext ==
    \/ \E r \in FrameRuns :
          Install(r) \/ CheckHooks(r) \/ InstallHooks(r) \/ InstallPanicHook(r)
    \/ \E included \in BOOLEAN : Application(included)
    \/ Handle
    \/ \E stack \in Stacks, location \in Locations, inTest, custom \in BOOLEAN :
          \/ PanicAt(stack, location, inTest, custom)
          \/ \E childless \in BOOLEAN : CreateReport(stack, location, inTest, childless, custom)

FramesSpec == FramesInit /\ [][FramesNext]_frameVars

-----------------------------------------------------------------------------
(* Properties                                                              *)

\* The documentation of test code: below the test root, without the sources of dependencies
\* and generated ones, above the runner.  Positions of a stack.
IsTestCode(symbol) ==
    /\ symbol.path # None /\ symbol.line # None
    /\ IsPrefix(TestRoot, symbol.path) /\ ~IsPrefix(OwnSources, symbol.path)
    /\ ~IsPrefix(targetDir, symbol.path)
    /\ ~\E d \in Marked : IsStrictPrefix(TestRoot, d) /\ IsPrefix(d, symbol.path)

TestCode(stack) ==
    {i \in DOMAIN stack :
        /\ IsTestCode(stack[i])
        /\ \A j \in 1..i : stack[j].path # None => ~IsPrefix(RunnerSource, stack[j].path)}

\* Those that are not the same place as the one before.
Places(stack) ==
    LET code == TestCode(stack)
    IN  {i \in code : \A j \in code :
            j < i /\ (\A k \in code : ~(j < k /\ k < i)) => Entry(stack[j]) # Entry(stack[i])}

\* A location is that of a symbol, with a path in full or as it is below the test root.
IsPlaceOf(location, symbol) ==
    location.line = symbol.line /\ location.path \in {symbol.path, Entry(symbol).file}

\* Every failure in a test tells the places of test code that led to it, innermost first,
\* whatever failures before left known about directories.  An error keeps the location it was
\* given, wherever that is, unless nothing was attached after it and its frames start there, so
\* that none loses its place.  A panic tells its place, which is said to be outside the test
\* code only if frames are told and the place is not that of the innermost one, and its report
\* leaves out the place in browser-test that it was created at, unless the application attached
\* something after it.  What the application attached stays.
FramesAreTestCode ==
    failure # None =>
        LET stack == failure.stack
            location == failure.location
            given == failure.given
            places == Ascending(Places(stack))
            frames == [i \in DOMAIN places |-> Entry(stack[places[i]])]
            kept == {failure.attached[i] : i \in DOMAIN failure.attached}
        IN  /\ Frames(frames) \in kept <=> failure.told /\ frames # <<>>
            /\ \A a \in kept : a.what = "frames" => a.frames = frames
            /\ failure.kind = "error" =>
                  \A i \in DOMAIN given :
                      \/ given[i] \in kept
                      \/ failure.told /\ given = <<Location(location)>> /\ StartsAt(frames, location)
            /\ failure.kind = "panic" =>
                  /\ Custom \in kept <=> given = <<Location(OwnLocation), Custom>>
                  /\ Location(OwnLocation) \in kept => Custom \in kept
                  /\ failure.told =>
                        \E outside \in BOOLEAN :
                            /\ PanicLocation(location, outside) \in kept
                            /\ outside <=> frames # <<>> /\ ~StartsAt(frames, location)
                            /\ outside => ~IsPlaceOf(location, stack[places[1]])

\* Once a run that asks for frames began, the hooks are in place or a warning says why they
\* are not, whichever run installs them and in whatever order with the application; the
\* warning is wrong only if the application installs these hooks just as a run does.  The
\* panic hook is installed once, so that no panic is reported twice.
HooksAreInstalled ==
    /\ \A r \in FrameRuns : asks[r] /\ installs[r] \in {"panicHook", "done"} =>
          hooksInPlace = "ours" \/ hooksWarned
    /\ hooksWarned => hooksInPlace = "other" \/ raced
    /\ panicHooks = IF \E r \in FrameRuns : installs[r] = "done" THEN 1 ELSE 0
=============================================================================
