---------------------------- MODULE TestSettings ----------------------------
(***************************************************************************)
(* The settings that the tests of a run get: those the environment gives   *)
(* the runner (env.rs and the from_env_var of its settings), those of the  *)
(* runner and of each test (test_settings.rs, timeout.rs, execution/       *)
(* plan.rs), and what of them is left in a session that runs one test      *)
(* after the other (execution/worker.rs, test_run.rs, session_reuse.rs).   *)
(***************************************************************************)
EXTENDS Option, Naturals, FiniteSets, SequencesExt

CONSTANTS
    TimeoutKinds,
    Durations,      \* Timeouts, waits and time limits that tests, runner and pages set.
    BrowserTimeout, \* The timeouts of a new session.
    TimeLimit,      \* DEFAULT_TIME_LIMIT
    Concurrencies,  \* How many tests of the run's suite can run at once.
    MaxSessionTests

ASSUME SettingsAssumption ==
    /\ None \notin Durations \cup {BrowserTimeout, TimeLimit} \cup Nat
    /\ Concurrencies \subseteq Nat \ {0}

\* What a variable may hold: nothing, words, digits, a regular expression or a broken one.
Values == {"unset", "blank", "on", "off", "1", "0", "2", "pattern", "(", "notUnicode"}

Variables == {"VISIBLE", "REUSE", "PAUSE", "OUTPUT", "OUTPUT_TAIL_LINES", "PARALLELISM", "NAME"}

VARIABLES
    variables,    \* History: the variables of the process as they were read, ...
    read,         \* ... and what they gave, until the runner is built from it.
    runner,       \* The runner's settings.
    test,         \* The test that runs: its settings, ...
    prepared,     \* ... and those completed with the runner's (PreparedTest).
    session,      \* The session the test runs in.
    stage

settingsVars == <<variables, read, runner, test, prepared, session, stage>>

Unlimited == [k \in TimeoutKinds |-> None]
SomeTimeouts == [TimeoutKinds -> Durations \cup {None}]

-----------------------------------------------------------------------------
(* The environment.  A value is given as a set: of one value, or empty.    *)

Given(v) == [failed |-> FALSE, value |-> v]
Refused == [failed |-> TRUE, value |-> {}]

EnvFlag(v) ==
    IF v \in {"unset", "blank"} THEN Given({})
    ELSE IF v \in {"on", "1"} THEN Given({TRUE})
    ELSE IF v \in {"off", "0"} THEN Given({FALSE}) ELSE Refused

EnvPositiveNumber(v) ==
    IF v \in {"unset", "blank"} THEN Given({})
    ELSE IF v = "1" THEN Given({1}) ELSE IF v = "2" THEN Given({2}) ELSE Refused

\* env_unicode_value and Pattern::new
EnvPattern(v) ==
    IF v \in {"unset", "blank"} THEN Given({})
    ELSE IF v \in {"(", "notUnicode"} THEN Refused ELSE Given({v})

\* DriverOutput::from_env_var: the lines to keep, none without a capture.
OutputFromEnv(flag, lines) ==
    IF EnvFlag(flag) \in {Refused, Given({})} THEN EnvFlag(flag)
    ELSE IF EnvFlag(flag) = Given({FALSE}) THEN Given({0})
    ELSE IF EnvPositiveNumber(lines) = Given({}) THEN Given({200}) ELSE EnvPositiveNumber(lines)

FromEnv(env) ==
    [VISIBLE     |-> EnvFlag(env["VISIBLE"]),
     REUSE       |-> EnvFlag(env["REUSE"]),
     PAUSE       |-> EnvFlag(env["PAUSE"]),
     OUTPUT      |-> OutputFromEnv(env["OUTPUT"], env["OUTPUT_TAIL_LINES"]),
     PARALLELISM |-> EnvPositiveNumber(env["PARALLELISM"]),
     NAME        |-> EnvPattern(env["NAME"])]

\* The application reads its settings, `from_env()?`.
ReadEnvironment(env) ==
    /\ stage = "environment"
    /\ variables' = env
    /\ read' = FromEnv(env)
    /\ stage' = IF \E n \in DOMAIN read' : read'[n].failed THEN "refused" ELSE "building"
    /\ UNCHANGED <<runner, test, prepared, session>>

-----------------------------------------------------------------------------
(* The runner                                                              *)

\* default_spare_sessions: div_ceil
DefaultSpares(concurrency, reuse) == IF reuse THEN (concurrency + 7) \div 8 ELSE concurrency

\* spare_sessions_for_run
SparesForRun(spares, visible, concurrency, reuse) ==
    IF spares # None THEN spares
    ELSE IF visible THEN 0 ELSE DefaultSpares(concurrency, reuse)

\* The builder's calls, and a run with `unwrap_or(FALSE)` for what was not read.
Build(timeouts, wait, limit, spares, concurrency) ==
    /\ stage = "building"
    /\ LET visible == read.VISIBLE.value = {TRUE}
           reuse == read.REUSE.value = {TRUE}
       IN  runner' = [timeouts |-> timeouts, wait |-> wait,
                      limit |-> OrElse(limit, TimeLimit),
                      spares |-> SparesForRun(spares, visible, concurrency, reuse),
                      asked |-> spares, visible |-> visible, reuse |-> reuse,
                      concurrency |-> concurrency]
    /\ variables' = None /\ read' = None
    /\ stage' = "idle"
    /\ UNCHANGED <<test, prepared, session>>

-----------------------------------------------------------------------------
(* The tests of a session, and those beside it                             *)

\* Timeouts::or
OrTimeouts(own, fallback) == [k \in TimeoutKinds |-> OrElse(own[k], fallback[k])]

\* plan_test
PrepareTest(settings) ==
    [timeouts |-> OrTimeouts(settings.timeouts, runner.timeouts),
     wait     |-> OrElse(settings.wait, runner.wait),
     limit    |-> OrElse(settings.limit, runner.limit),
     fresh    |-> settings.fresh]

UsesPool(p) == p.wait = runner.wait

NewSession(pooled, wait, baseline) ==
    [pooled |-> pooled, wait |-> wait, timeouts |-> [k \in TimeoutKinds |-> BrowserTimeout],
     baseline |-> baseline, ran |-> 0]

\* A test takes the session that is kept, or one is created for it; SessionBaseline::prepare
\* may fail, and reads the timeouts of the new session.
Assign(settings) ==
    /\ stage = "idle"
    /\ test' = settings
    /\ prepared' = PrepareTest(settings)
    /\ \/ /\ session # None /\ UsesPool(prepared') /\ (settings.fresh => session.ran = 0)
          /\ UNCHANGED session
       \/ \E baseline \in {runner.reuse, FALSE} :
             session' = NewSession(UsesPool(prepared'),
                                   IF UsesPool(prepared') THEN runner.wait ELSE prepared'.wait,
                                   baseline)
    /\ stage' = "preparing"
    /\ UNCHANGED <<variables, read, runner>>

\* run_job: update_timeouts sets those given, and is left out if there are none.
UpdateTimeouts ==
    /\ stage = "preparing"
    /\ session' = IF prepared.timeouts = Unlimited THEN session
                  ELSE [session EXCEPT !.timeouts = OrTimeouts(prepared.timeouts, @)]
    /\ stage' = "starting"
    /\ UNCHANGED <<variables, read, runner, test, prepared>>

\* The body may change the timeouts, over the session's driver.
Run(timeouts) ==
    /\ stage = "starting"
    /\ session' = [session EXCEPT !.timeouts = OrTimeouts(timeouts, @), !.ran = @ + 1]
    /\ stage' = "ran"
    /\ UNCHANGED <<variables, read, runner, test, prepared>>

\* Mutant: a reset leaves the timeouts as they are.
RestoredTimeouts_Kept == session.timeouts

\* SessionBaseline::reset restores those of the new session.
RestoredTimeouts == [k \in TimeoutKinds |-> BrowserTimeout]

\* The session is reset and kept, or quits: it must if its test timed out, it is not the
\* pool's, or its baseline is missing.
ReturnSession ==
    /\ stage = "ran"
    /\ \/ /\ runner.reuse /\ session.pooled /\ session.baseline
          /\ session.ran < MaxSessionTests
          /\ session' = [session EXCEPT !.timeouts = RestoredTimeouts]
       \/ session' = None
    /\ stage' = "idle" /\ test' = None /\ prepared' = None
    /\ UNCHANGED <<variables, read, runner>>

-----------------------------------------------------------------------------
SettingsOfTests ==
    [timeouts : SomeTimeouts, wait : Durations \cup {None}, limit : Durations \cup {None},
     fresh : BOOLEAN]

\* Two variables of each at a time: no setting reads more.
Environments ==
    LET set(n, v, m, w) == [x \in Variables |-> IF x = n THEN v ELSE IF x = m THEN w ELSE "unset"]
    IN  {set(n, v, m, w) : n \in {"VISIBLE", "OUTPUT"}, v \in Values,
                           m \in Variables \ {"VISIBLE", "OUTPUT"}, w \in Values}

SettingsInit ==
    /\ variables = None /\ read = None /\ runner = None
    /\ test = None /\ prepared = None /\ session = None
    /\ stage = "environment"

SettingsNext ==
    \/ \E env \in Environments : ReadEnvironment(env)
    \/ \E timeouts \in SomeTimeouts, wait, limit \in Durations \cup {None},
          spares \in {None, 1}, concurrency \in Concurrencies :
          Build(timeouts, wait, limit, spares, concurrency)
    \/ \E settings \in SettingsOfTests : Assign(settings)
    \/ UpdateTimeouts
    \/ \E timeouts \in SomeTimeouts : Run(timeouts)
    \/ ReturnSession

SettingsSpec == SettingsInit /\ [][SettingsNext]_settingsVars

-----------------------------------------------------------------------------
(* Properties                                                              *)

\* "None if the variable is unset or empty": only what a variable is set to can refuse a run,
\* the number of lines to keep only if lines are kept.
EnvironmentIsHeeded ==
    LET blank(n) == variables[n] \in {"unset", "blank"}
        counts == {n \in Variables : n = "OUTPUT_TAIL_LINES" => variables["OUTPUT"] \in {"on", "1"}}
        flags == {"VISIBLE", "REUSE", "PAUSE", "OUTPUT"}
        understood(n) ==
            \/ blank(n)
            \/ variables[n] \in (IF n \in flags THEN {"on", "off", "1", "0"}
                                 ELSE IF n = "NAME" THEN Values \ {"(", "notUnicode"}
                                 ELSE {"1", "2"})
    IN  variables # None =>
            /\ stage = "refused" <=> \E n \in counts : ~understood(n)
            /\ \A n \in DOMAIN read : blank(n) => read[n] = Given({})
            /\ read.OUTPUT.value \subseteq {0, 1, 2, 200}

\* A test runs with what it sets itself, else with what the runner sets, else with what its
\* browser came with: the timeouts one by one, the wait of its session's driver, and its time
\* limit.  Whatever tests ran in its session before, none of theirs is left, and a test that
\* asks for it has a fresh session.  No spare browser opens beside a visible one, and one at
\* least, but no more than tests run at once, beside the others, unless the runner says so.
TestsRunAsSet ==
    /\ stage = "starting" =>
          /\ \A k \in TimeoutKinds :
                session.timeouts[k] = IF test.timeouts[k] # None THEN test.timeouts[k]
                                      ELSE IF runner.timeouts[k] # None THEN runner.timeouts[k]
                                      ELSE BrowserTimeout
          /\ session.wait = IF test.wait # None THEN test.wait ELSE runner.wait
          /\ prepared.limit = IF test.limit # None THEN test.limit ELSE runner.limit
          /\ test.fresh => session.ran = 0
    /\ runner # None /\ runner.asked = None =>
          runner.spares \in IF runner.visible THEN {0} ELSE 1..runner.concurrency
    /\ EnvironmentIsHeeded
=============================================================================
