------------------------------ MODULE RunReport ------------------------------
(***************************************************************************)
(* What a run reports (report.rs, and the failures of scheduler.rs): tests *)
(* finish in any order, each with its record and, if it failed, a report.  *)
(* At the end the failures become the error of the run, and the records    *)
(* the summary that consumers get.  Durations are counted in 0.1ms.        *)
(***************************************************************************)
EXTENDS Option, Listing, SequencesExt

CONSTANTS
    PlannedTests,   \* So many tests were planned; their indices are 1..PlannedTests.
    Records,        \* What may be recorded of a test: BrowserTestRecord.
    Kinds,          \* Kinds of steps.
    RunTimes        \* How long a run may take.

Times == [count : Nat, total : Nat, max : Nat]

ASSUME ReportAssumption ==
    /\ PlannedTests \in Nat /\ RunTimes \subseteq Nat
    /\ Kinds \subseteq Int /\ IsFiniteSet(Kinds)
    /\ None \notin Nat
    /\ \A r \in Records :
          /\ r.outcome \in {"Passed", "Failed", "Panicked", "TimedOut", "Cancelled"}
          /\ r.session = None \/ r.session \in [prepared : {"Created", "Reset"},
                                              duration : Nat, wait : Nat]
          /\ r.body \in Nat \cup {None} /\ r.teardown \in Nat \cup {None}
          /\ \A k \in Kinds : r.steps[k] \in Times

VARIABLES
    finished,       \* Env::records: <<index, record>>
    failures,       \* Env::failures: the indices of the tests that failed.
    released,       \* Env::released_session_teardown
    report          \* BrowserTestRunReport and the run's result, once there are some.

reportVars == <<finished, failures, released, report>>

SumOf(s, time(_)) == SumFunction([i \in DOMAIN s |-> time(s[i])])

-----------------------------------------------------------------------------
(* TestOutcome, BrowserTestRecord and StepStats                            *)

IsPassed(r) == r.outcome = "Passed"
IsFailed(r) == r.outcome \in {"Failed", "Panicked", "TimedOut"}
IsCancelled(r) == r.outcome = "Cancelled"

\* BrowserTestRecord::total
TestTime(r) == (IF r.session = None THEN 0 ELSE r.session.wait) + OrElse(r.body, 0)

NoSteps == [count |-> 0, total |-> 0, max |-> 0]

\* StepStats::merge
Merge(s, other) ==
    [count |-> s.count + other.count, total |-> s.total + other.total,
     max   |-> IF s.max < other.max THEN other.max ELSE s.max]

-----------------------------------------------------------------------------
(* BrowserTestRunReport, over the records of its tests                     *)

Passed(tests) == Cardinality({i \in DOMAIN tests : IsPassed(tests[i])})
FailedTests(tests) == Cardinality({i \in DOMAIN tests : IsFailed(tests[i])})
CancelledTests(tests) == Cardinality({i \in DOMAIN tests : IsCancelled(tests[i])})

IsPrepared(r, how) == r.session # None /\ r.session.prepared = how

Prepared(tests, how) == Cardinality({i \in DOMAIN tests : IsPrepared(tests[i], how)})

SessionTime(tests, how) ==
    SumOf(tests, LAMBDA r : IF IsPrepared(r, how) THEN r.session.duration ELSE 0)
WaitTime(tests) == SumOf(tests, LAMBDA r : IF r.session = None THEN 0 ELSE r.session.wait)
TeardownTime(tests) == SumOf(tests, LAMBDA r : OrElse(r.teardown, 0)) + released
BodyTime(tests) == SumOf(tests, LAMBDA r : OrElse(r.body, 0))

\* A stable sort of the elements of s, largest first.
Descending(s, time(_)) ==
    LET order == ByKey([i \in DOMAIN s |-> -time(s[i])])
    IN  [n \in DOMAIN order |-> s[order[n]]]

SlowestTests(tests) == Descending(tests, TestTime)

\* The steps of kind k in all tests; none are merged for a test that has none.
Merged(tests, k) == FoldLeft(Merge, NoSteps, [i \in DOMAIN tests |-> tests[i].steps[k]])

\* The kinds of steps of all tests, in the order of a BTreeMap before they are sorted.
SlowestSteps(tests) ==
    LET kinds == Ascending({k \in Kinds : \E i \in DOMAIN tests : tests[i].steps[k].count > 0})
        steps == [i \in DOMAIN kinds |-> [kind |-> kinds[i], stats |-> Merged(tests, kinds[i])]]
    IN  Descending(steps, LAMBDA e : e.stats.total)

\* FormatDuration: milliseconds, or hundredths of seconds, or minutes with tenths of seconds.
FormatDuration(time) ==
    LET millis     == (time + 5) \div 10
        hundredths == (time + 50) \div 100
        tenths     == (time + 500) \div 1000
    IN  CASE millis < 1000 -> [unit |-> 10, shown |-> millis, minutes |-> 0]
          [] millis >= 1000 /\ hundredths < 6000 ->
                [unit |-> 100, shown |-> hundredths, minutes |-> 0]
          [] OTHER -> [unit |-> 1000, shown |-> tenths % 600, minutes |-> tenths \div 600]

\* The Display of the report: what the summary says.
Summary(tests, lasted) ==
    [tests     |-> PlannedTests,
     passed    |-> Passed(tests),
     failed    |-> FailedTests(tests),
     cancelled |-> CancelledTests(tests),
     created   |-> Prepared(tests, "Created"),
     resets    |-> Prepared(tests, "Reset"),
     creation  |-> SessionTime(tests, "Created"),
     reset     |-> SessionTime(tests, "Reset"),
     waited    |-> WaitTime(tests),
     quit      |-> TeardownTime(tests),
     bodies    |-> BodyTime(tests),
     slowest   |-> SlowestTests(tests),
     steps     |-> SlowestSteps(tests),
     total     |-> FormatDuration(lasted)]

-----------------------------------------------------------------------------
(* Env::finish and execute_tests                                           *)

ReportInit == finished = <<>> /\ failures = <<>> /\ released = 0 /\ report = None

Finished == {finished[i].index : i \in DOMAIN finished}

\* A test has its record, and a report if it failed.
FinishTest(test, r) ==
    /\ report = None /\ test \notin Finished
    /\ finished' = Append(finished, [index |-> test, record |-> r])
    /\ failures' = IF IsFailed(r) THEN Append(failures, test) ELSE failures
    /\ UNCHANGED <<released, report>>

\* A session without a test quits.
ReleaseSession ==
    /\ report = None /\ released = 0
    /\ released' = 1
    /\ UNCHANGED <<finished, failures, report>>

\* Mutant: the failures stay in the order in which the tests ended.
IntoResult_AsEnded == failures

\* BrowserTestFailures::into_result: the children of the run's error, none if it is Ok.
IntoResult ==
    LET order == ByKey(failures)
    IN  [n \in DOMAIN order |-> failures[order[n]]]

\* Consumers get the report of a run that started tests.
Report(lasted) ==
    /\ report = None
    /\ LET order == ByKey([i \in DOMAIN finished |-> finished[i].index])
           tests == [n \in DOMAIN order |-> finished[order[n]].record]
       IN  report' = [children |-> IntoResult,
                      notStarted |-> PlannedTests - Len(tests),
                      consumed |-> IF tests = <<>> THEN None ELSE Summary(tests, lasted),
                      lasted |-> lasted]
    /\ UNCHANGED <<finished, failures, released>>

ReportNext ==
    \/ \E test \in 1..PlannedTests, r \in Records : FinishTest(test, r)
    \/ ReleaseSession
    \/ \E lasted \in RunTimes : Report(lasted)

ReportSpec == ReportInit /\ [][ReportNext]_reportVars

-----------------------------------------------------------------------------
(* Properties                                                              *)

Of(is(_)) == {i \in DOMAIN finished : is(finished[i].record)}
Total(S, time(_)) == SumFunctionOnSet([i \in S |-> time(finished[i].record)], S)
All == DOMAIN finished
Failing == Of(IsFailed)
InSession == Of(LAMBDA r : r.session # None)

DurationOfSessions == Total(InSession, LAMBDA r : r.session.duration)
TimeOfTests == Total(All, TestTime)
TimeOfTeardowns == Total(All, LAMBDA r : OrElse(r.teardown, 0))
CountOf(k) == Total(All, LAMBDA r : r.steps[k].count)
TotalOf(k) == Total(All, LAMBDA r : r.steps[k].total)

\* How a duration reads: 0.1ms times the unit, and whole minutes.
Reads(format) == format.shown * format.unit + format.minutes * 600000

\* The duration of a run reads as what it is, rounded to the unit shown, in the smallest unit
\* that does not overflow into the next one ("1.00s", not "1000ms"; "2m 00.0s", not "1m
\* 60.0s"), so that a longer run never reads as a shorter one.
DurationsReadTrue ==
    report # None /\ finished # <<>> =>
        LET format == report.consumed.total
            off == Reads(format) - report.lasted
        IN  /\ 2 * off <= format.unit /\ -2 * off <= format.unit
            /\ format.shown * format.unit < (IF format.unit = 10 THEN 10000 ELSE 600000)
            /\ format.minutes > 0 <=> format.unit = 1000
            /\ \A time \in RunTimes :
                  time <= report.lasted => Reads(FormatDuration(time)) <= Reads(format)

\* In whatever order tests finish: the run fails with the failures of exactly the tests that
\* did, in definition order; every planned test is counted once, every session as created or
\* reset, and every moment a test took as waiting or in its body.  The slowest tests and kinds
\* of steps come first, the steps are those of all tests, and durations read true.
SummaryAddsUp ==
    /\ DurationsReadTrue
    /\ report # None =>
        LET s == report.consumed
        IN  /\ {report.children[i] : i \in DOMAIN report.children} =
                  {finished[i].index : i \in Failing}
            /\ Len(report.children) = Cardinality(Failing)
            /\ \A i, j \in DOMAIN report.children :
                  i < j => report.children[i] < report.children[j]
            /\ finished # <<>> =>
                  /\ s.passed + s.failed + s.cancelled + report.notStarted = PlannedTests
                  /\ s.failed = Len(report.children)
                  /\ s.created + s.resets = Cardinality(InSession)
                  /\ s.creation + s.reset = DurationOfSessions
                  /\ s.waited + s.bodies = TimeOfTests
                  /\ s.quit = released + TimeOfTeardowns
                  /\ Len(s.slowest) = Len(finished)
                  /\ \A i, j \in DOMAIN s.slowest :
                        i < j => TestTime(s.slowest[i]) >= TestTime(s.slowest[j])
                  /\ \A i, j \in DOMAIN s.steps :
                        i < j => s.steps[i].stats.total >= s.steps[j].stats.total
                  /\ \A i \in DOMAIN s.steps :
                        LET k == s.steps[i].kind
                            longest == {finished[n].record.steps[k].max : n \in All}
                        IN  /\ s.steps[i].stats.count = CountOf(k)
                            /\ s.steps[i].stats.total = TotalOf(k)
                            /\ s.steps[i].stats.max \in longest
                            /\ \A max \in longest : max <= s.steps[i].stats.max
=============================================================================
