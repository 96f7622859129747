# A verification model of browser-test

TLA+ specifications of `browser-test`, the runner that executes browser tests in parallel over a pool of WebDriver
sessions, with the TLC runs that check them and the theorems about them that TLAPS proves. The definitions are
translated from `src/browser-test/src`; `PROJECT.json` maps each to its lines, and lists components, runs, mutants,
hazards, findings and theorems.

## The system and its parts

A *run* (`runner.rs`) filters its suite of tests, waits for a manual pause, sets up a profile directory, launches
Chrome for Testing (one ChromeDriver), executes the tests, and takes everything down again. The execution
(`execution/`) walks the tree of suites; each test asks the session pool for a browser session, which a session
*worker* creates, runs the test in, and then quits or resets. All of these are futures of one run, polled by one task,
so they interleave between awaits, also on a multithreaded Tokio runtime. What comes from other threads, at any moment,
are cancellations, signals, the other runs of the process, and blocking calls on files and stdin.

| Part | State it keeps | Operations | Talks to |
|---|---|---|---|
| session pool, `execution/session_pool.rs` | counters, queue of tickets, notification | `take`, `deliver`, `test_finished`, `session_ended`, `claim_reset`, `deliver_reset`, `reset_failed`, `stopped`, `close` | tests and workers call it; it sends requests to the driver of the workers |
| tests, `execution/mod.rs` | the plan tree's progress, `keep_starting`, records | `run_suite`, `run_node`, `run_test`, `finish` | takes sessions, sends jobs to workers |
| workers, `execution/worker.rs`, `test_run.rs` | session, baseline, job, tests run | `drive_workers`, `run_session`, `serve_tests`, `run_job` | deliver tickets, finish tests, end sessions |
| plan, `execution/plan.rs` | none | `max_concurrency`, `plan` | read by the execution |
| profiles, `profile.rs` | directories and lock files on disk, `LIVE_RUNS` | create, sweep, session profiles, remove | other runs, also of other processes, over the file system |
| pause, `pause.rs` | `PROMPT`, `PENDING_READ`, reader threads | `pause`, `read_pending_or` | other runs of the process, stdin |
| runner and cancellation, `runner.rs`, `cancellation.rs` | phases of a run, `SHUTDOWN`, `LISTENING` | `run`, `run_reporting`, `listen`, `cancelled_result` | signals, application tokens, everything above |
| driver output, `driver_output.rs` | bounded tail, line counter | `follow`, `push`, `skip`, `finish` | ChromeDriver's output subscription, the runner |
| session reset, `session_reuse.rs` | the baseline of a session | `prepare`, `reset` | the browser |
| frozen pages, `frozen_pages.rs` | requests and replies of one check | `close_frozen_pages` | the browser's DevTools endpoint |
| progress board, `progress.rs` | activities with phase, start, warnings | `enter`, `clear`, `warn_overdue` | tests and workers enter; the watchdog reads |
| suites and filter, `test_case.rs`, `filter.rs` | the tree of tests | `filter`, `retain` | the runner |
| steps and failure reports, `step.rs`, `failure_report.rs` | a test's step statistics, its last steps, its panic; the process's hooks | `record_step`, `record_panic`, `install`, `capture` | test bodies, panics, `rootcause` |
| run report, `report.rs`, `scheduler.rs` | records and failures of the tests | `finish`, `into_result`, the summary | the execution, report consumers |
| settings, `test_settings.rs`, `timeout.rs`, `env.rs` | what environment, runner and test set; what a session has | `from_env_var`, `update_timeouts`, `prepare` | runner, workers, sessions |

What is hard here: wake-ups that can be lost between a look at the queue and the wait; counters that one party raises
and another lowers, on every path of failure, fail-fast and cancellation; cancellation dropping a worker between any
two awaits; decisions about spares, resets and creations that rest on counts that change; locks on files shared by
processes that may be killed at any point; a read of stdin that cannot be cancelled; signals at any moment; pages of a
test that go on while its session is reset; output that comes faster than it is read; steps that end because something
else ends; hooks that a process has one of and several want. `PROJECT.json` lists each hazard at its line.

## The modules

| Module | Models | Used by |
|---|---|---|
| `PoolCounts` | the critical sections of the pool, as operators on its counters | `SessionPool`, `Execution`, `ReplenishLoop` |
| `SessionPool` | the pool with any client: the *abstract* specification of the pool | `Execution` refines it |
| `ReplenishLoop` | the loop of `replenish_locked`, one round per step | – |
| `TestSettings` | the settings of a run and its tests, and what is left of them in a session | – |
| `SuitePlan` | filtering a suite, refusing or skipping its run, and planning its tests | `Execution` takes a plan as its constants |
| `Execution` | scheduler, tests, workers, board and cancellation, composed with the pool and its queue of tickets | – |
| `ChromeProfiles` | profile directories of the runs of several processes | – |
| `PausePrompt` | manual pauses of several runs of a process | – |
| `RunLifecycle` | the phases of the runs of a process, signals and tokens | abstracts `Execution` and `PausePrompt` into one step each |
| `SessionReset` | the reset of one session between tests, with the pages that act meanwhile | details `ResetDone` and `ResetFails` of `Execution` |
| `FrozenPages` | one check for frozen pages, with the pages, the endpoint and ChromeDriver | details what a timed-out body or reset of `Execution` does before its session quits |
| `TestBody` | one test in its session: steps, panics, time limit, outcome | details `BodyEnds` of `Execution` |
| `DriverOutput` | the follower of the driver's output, and the tail attached to a failed run | details `follower` of `RunLifecycle` |
| `ProgressBoard` | the watchdog's warnings over activities | its activities are those of the board of `Execution` |
| `RunReport` | the error of a run and its summary, from records in any order | – |
| `FailureFrames` | the installation of hooks, and the places of test code in reports | – |
| `Option` | Rust's `Option` | the modules with optional values |
| `Listing` | sorting: stable sorts of slices, the order of a `BTreeMap` | `TestBody`, `RunReport`, `FailureFrames` |
| `MC...` | the instances for TLC | |
| `SessionPoolProofs` | theorems about the pool and the loop of `replenish_locked` | |
| `TestSettingsProofs` | a theorem about the settings of tests | |
| `ExecutionProofs` | theorems about tests, workers, tickets, wake-ups and the counters of the pool | `ExecutionRefinement` |
| `ExecutionRefinement` | the theorem that `Execution` implements `SessionPool` | |
| `RunLifecycleProofs` | theorems about the runs of a process and their pauses | |
| `ReportsProofs` | theorems about outcomes, steps, the driver's output, warnings, the summary, hooks and frames | |
| `SessionResetProofs` | theorems about the reset of a session and the check for frozen pages | |
| `ChromeProfilesProofs` | theorems about the profile directories | |

An instance may hold several modules that share nothing: then each behaviour is one of one of them, and the state of
the others stays as it began. `MCRunLifecycle` has `RunLifecycle` and `PausePrompt`, `MCSessionReset` has
`SessionReset` and `FrozenPages`, `MCSetup` has `ReplenishLoop`, `SuitePlan` and `TestSettings`, and `MCReports` the
five modules of reports.

**`PoolCounts`.** A record has the fields of `PoolState`; the queue `idle` is abstracted to how many tickets of each
*sort* it holds: `created` (fresh), `reset`, or `failed` (a failed creation). Every method that holds the pool's lock
is an operator from record to record. The loop of `replenish_locked` has the closed form `Replenished` here: as many
sessions for tests that need fresh ones as are missing, then for the others, then spares. `ReplenishLoop` shows that
the loop computes it.

**`SessionPool`.** State: the record, `keepStarting` and `cancelled`. An action is all that one poll of a client does
to the pool: `Take` registers a test and serves it or lets it wait, `WaitEnds` and `StopsWaiting` end the wait,
`Deliver`, `CreationFails`, `TestFinished` (with `claim_reset`), `ResetDone`, `ResetFails`, `SessionEnded`, `Close`,
and the two changes from outside, `Stop` and `Cancel`. Where the code looks at the cancellation token twice within a
poll (another thread cancels it), the action has a disjunct for each outcome.

**`SuitePlan`.** A suite is a nested record as in `TestSuite`; the metadata of a test is matched by the filter's
patterns, is not, or panics. `Filter`, `Refuse`, `Skip` and `Plan` are the steps of `run` up to the execution. Its
operators descend the tree as the code does; the reference definitions look at it from the tests: which suites each is
in, at any depth, and which sets of tests the suites let run at once. `ConcurrencyIsReached` says both that no more
tests can run at once than planned and that so many can.

**`TestSettings`.** `variables` are the environment's values, by what the parsers tell apart (nothing, a flag, a
number, a pattern, something broken); `read` is what `from_env_var` made of each, `runner` the settings a run is built
with, `test` those of the test that runs, and `prepared` both together (`PreparedTest`). `session` has the timeouts,
the wait and the number of tests of a session as `serve_tests`, `prepare` and the reset change them, test after test;
a test may change its session's timeouts by itself.

**`Execution`.** The tree of suites runs as in `run_suite`: each suite has at most `Parallelism` children under way.
`phase[t]` is where `run_test` is for test `t` (queued, waiting for a pool session or for a dedicated one, running,
done). `workers` is the sequence of sessions that were ever requested; the state of a worker is where `serve_tests`
is. The queue has tickets again, `take_idle` its order, and `notify_waiters` is the set `woken`. The futures of a run
are polled by one task, so an action is what one of them does between two awaits. What WebDriver does is chosen:
creations, baselines, resets and quits fail (`Faults`), bodies pass, fail or time out (`Outcomes`). `Counts` maps its
pool to that of `SessionPool`.

**`ChromeProfiles`.** Each file-system call is a step, and any process may be killed between two. `remove_dir` may
fail at any point, which is only logged: the sweep goes on (`EndRemoval`), the run ends (`Deregister`), and the session
too (`EndSession`). `chromes` are the sessions whose Chrome has not exited: it may outlive its session, if quitting
failed, and its run, if Chrome for Testing failed to shut down or was killed, and recreate files until it exits.
`remains` records the runs that ended before their directory or their Chromes were gone. Locks belong to the
open file or to the process (`flock` emulated as POSIX locks, NFS), chosen in `Init`: with the latter, opening and
closing the file of a live run of the same process would drop its lock, which `LIVE_RUNS` avoids.

**`PausePrompt`.** `prompt` is the fair mutex `PROMPT` as a queue, `pending` is `PENDING_READ`, `reader` the threads
that read a line each. Cancellation drops the future anywhere: queued, before the read, or awaiting its line.

**`RunLifecycle`.** `phase[r]` follows `run` and `run_reporting`. A run's token is `SHUTDOWN` or one of the
application. The listener is unregistered, has received no signal, or one. A signal that arrives while nothing listens
kills the process.

**`SessionReset`.** `at` is the command the reset is at. Windows show a page of an origin, in a user context. What a
test leaves is `state`: storage per origin, and three items: `listed` (cookies, permissions, emulation: what a manual
reset lists), `httpCache`, `unlisted`. `events` is the BiDi stream of navigations.

**`FrozenPages`.** `checking` is the step of `try_close_frozen_pages`. The requests of a step are `expected`, the
replies it has counted `replies`, and everything without a reply is `underway`, also requests of earlier steps. A page
is responsive, busy for a while, frozen, behind a dialog, or gone, and changes by itself. `alert` is `open_dialog`,
asked of ChromeDriver while the pages are attached to; ChromeDriver is blocked if the session's own command (`hung`)
waits for a page that does not respond. Deadlines may pass at any time, except the one of the probes: the code relies
on a responsive page answering within `RESPONSE_TIMEOUT`, and so does the model. A frame in a process of its own
counts as a page.

**`Listing`.** An element of a sorted list is where as many come before it as the sort puts before it; no order of
comparisons is modelled, since both sorts are stable and determined by their keys.

**`TestBody`.** The recorder of `step.rs` has `stats`, `log` and `panicked`; `run` is what `run_body` keeps of the
body, `verdict` what `test_outcome` and `failure_report` make of it. Steps form a tree, of which any number is open:
`join!` runs them concurrently. When futures are dropped, those inside a step are dropped in any order (`DropOrders`),
a step around them before or after them depending on whether a panic unwinds through it. Where a step's future
finishes, the model has it drop what is inside before it is recorded, as the locals of an async block are; a combinator
may do so just after. No property looks at the difference: what is inside is recorded as dropped either way. `steps` and `ends` are the
history the report is compared with.

**`DriverOutput`.** A line is its position in the output. The run subscribes (`Follow`), captures the lines printed
before (`CatchUp`), while the driver prints on, and spawns the follower. The subscription is a broadcast channel of `ChannelCapacity`
lines: a follower that is slower is told how many it missed (`Lag`). A follower that is aborted finishes the poll it
is in. `attached` is the snapshot a failed run gets, which may be taken while such a follower still goes on.

**`ProgressBoard`.** `board` maps an activity to its phase, the moment it began, and the warnings given. `due` is when
the watchdog's sleep ends; it runs up to `MaxLate` later, as it shares its thread with the tests. `TickTime` is
`ProgressWarnings::tick`.

**`RunReport`.** Tests finish in any order, with any of the given records, and at any moment the run may end (the
tests that did not finish were not started). The report is computed as in `report.rs`; the property compares it with
sums and orders over the set of what finished. Durations are counted in 0.1 ms, as their formatting rounds.

**`FailureFrames`.** `installs[r]` is where run `r` is in `install`: `REPORT_HOOKS` and `PANIC_HOOK` are the process's
`OnceLock`s. The application may install hooks of its own, which include the runner's or not, at any moment. Paths are
sequences of directories, stacks sequences of symbols that may lack a path, a line or a name. The location that Rust
gives a failure is any of `Locations`, whatever the stack: it is the call site of a macro, or of a function with
`#[track_caller]`, while the innermost frame may be inside. `LookUp` is the cached walk up the directories for Cargo's
marks, `Capture` the walk over a stack; `dirs` goes from one failure to the next. What hooks of the application attach
comes after the location (`Given`): to the report of an error, and to that of a panic, which the runner creates.

## Runs

| Run | Instance | States | Shows |
|---|---|---|---|
| `pool` | 2 tests at once, 1 spare, 3 upcoming any-tests, 1 fresh, 1 of them always | 15 thousand | the pool's invariants for any client |
| `setup` | every pool with counters up to `Limit` = 2; every placement of 4 tests in 3 suites with parallelism 1 or 2, one of them always, one unfiltered; 2 kinds of timeouts, sessions of 2 tests | 369 thousand | the loop's outcome, what is planned, how many tests run at once, what tests run with |
| `reuse` | a parallel suite in a parallel suite, 4 tests (fresh, always), sessions of 2 tests, fail-fast, timeouts, failing creations and resets | 439 thousand | tickets, reuse, wake-ups |
| `cancel` | 4 tests (dedicated, always, fresh, not plannable), every fault but resets | 221 thousand | counters, records, stops, refinement of `SessionPool`, termination |
| `profiles` | 3 runs of 2 processes, 1 session each, 1 kill, one lock that cannot be opened | 1.5 million | living runs are left alone; what ended and killed ones leave is swept |
| `lifecycle` | 2 runs, 2 tokens, 2 signals; 3 runs that pause, 4 threads, 3 lines | 478 thousand | take-down, errors, cancellation; one reader, no line lost, every pause ends |
| `reset` | 2 tests, 4 things each, 2 origins, 3 windows; 3 pages, 1 change of a page by itself | 2.4 million (symmetric) | what a test leaves to the next; who is closed: never a responsive page, always a frozen one or the report says so |
| `reports` | 3 steps of 2 kinds, the last 2 kept, 2 panics; 5 lines, a channel and a tail of 2; 2 activities with thresholds of 8 and 4 ticks, 12 ticks; 3 tests with any of 6 records, 14 durations; 2 runs, 10 stacks, 3 locations | 624 thousand (symmetric) | what a run tells is true: steps, outcomes, output, warnings, summary, places of failures |
| `open_browsers` | 3 sequential tests, 1 spare | violated | finding 1 |
| `board_cancelled` | reuse, cancelled | violated | finding 2 |
| `reset_blank` | as `reset`, tests visit the blank page | violated | finding 3 |
| `panics` | 1 step, 2 panics | violated | finding 4 |

Why the bounds suffice: in `pool` more tests are upcoming than run at once, so tests wait, spares are wanted and
refused, and reset sessions compete with fresh ones. In `reuse`, the nested suite makes the concurrency of the tree
(3) differ from both suites' own. It also has more tests than sessions, so that sessions are reset, kept, dropped, and
make way; `cancel` has the spare session. `profiles` needs a second run of the same process (a sweep against a live
run of its own), another process, and a kill; one session is enough, as a session touches its own profile only, and
the theorems are about any number. In `lifecycle`, the pauses need three runs for one at the prompt, one
cancelled in the queue and one after. Four acts are what it takes in `reset` for a test to visit a page, store
something there, and leave it again in a way that hides it from windows and history. The check for frozen pages has
three pages: one that is frozen, one with a dialog or that hangs the command, and one that must not be closed; any of
them may change once, at any point. In `reports`, three steps nest in each other, run beside each other, or both, and
one more ends than is kept. Five lines fill the channel, overflow it, and come before and after the follower began.
Twelve ticks see a phase warned of twice and replaced by another, with two thresholds of
which the shorter sets the tick. The records have a session that was created, was reset, or is
missing, a body that did not run, and steps of no, one and both kinds; the durations are those on both sides of each
change of unit and of each rounding. The stacks have a vendored dependency whose files end like the package's, a
generated file, frames of the runner below and above test code, repeated places in the same function and in another,
and symbols without path or line; the locations are in full and below the workspace, in test code and outside.

`reuse`, `cancel` and `setup` check deadlock: only a run that returned and a loop that ended may stop, by a step of
their own. The other systems really stop: their runs return, are killed, or their bounded changes are used up.

### Fairness

`Execution!FairSpec`: the task of the run is polled while one of its futures is ready. Which one continues is not
assumed; each makes finitely many steps, so all get their turn. Bodies and resets have time limits in the code; that
creating and quitting a session end is assumed of WebDriver. `PausePrompt`: the runtime polls each pause, and the user
types a line or closes stdin some time. `RunLifecycle`: each run's own steps, and the listener's thread. Nothing is
assumed of users, signals and cancellations, with the exception of the user at the pause; `CancelledRunsReturn` holds
without him. The other specifications state no fairness and no liveness is checked on them.

### Findings

1. `open_browsers`: more than `max_concurrency + spare` browsers can be open, because sessions that are created for
   waiting tests ignore the ones that still quit. The code bounds only spares that way.
2. `board_cancelled`: a session that is being reset when the run is cancelled stays on the progress board.
3. `reset_blank`: a manual reset takes the first navigation of the tab to `data:text/html,` for its own. A test that
   refreshes the page it started on leaves an earlier one, and the storage of origins visited after it survives,
   unless the history or an open window names them. The stream then stays one behind.
4. `panics`: a test that caught a panic of its own and fails with one that was resumed (`resume_unwind` runs no panic
   hook) reports the place of the one it caught.

Smaller things the models show and their properties except: an empty suite counts as one test in `max_concurrency`
(`SuitePlan`), so that the pool's bound is higher than needed; filters remove the empty suites they meet. Besides,
`SessionReset` shows two limits that its properties except, by the history variable `escaped`: with `NewContext`, what
a test did in the default context is noticed only by the windows and the first tab's page that are there at the reset
(a window closed again is not); and with `Manual`, a window that a page opens after `close_windows_except` survives
the reset. `FrozenPages` has one that `OnlyFrozenPagesAreClosed` excepts: a dialog that opens after `open_dialog`
looked, or while ChromeDriver is blocked, is not seen, and its page is closed. The limits of `SessionReset` are where
`NothingElseSurvives` says less than the documentation: that of `NewContext` has the session quit whenever a test
leaves state in the default context (src/browser-test/src/session_reuse.rs:203).

`ChromeProfiles` shows what a run may leave although it returned: its directory, if removing it failed, or if a Chrome
outlived it and wrote to its profile again. Nobody is told but the log; the next run that can remove it does.

`FailureFrames` shows that a panic may be said to be outside the test code although it is not. `starts_at` compares the
location with the innermost frame; in a test's own function with `#[track_caller]`, or its own macro, the location is
the call site and the innermost frame may be inside, both in test code, and the report says "Panicked outside the test
code" (src/browser-test/src/failure_report.rs:395), which the comment on `PanicLocation` (line 379) has for dependencies.
`FramesAreTestCode` promises only that the place of the innermost frame is never called outside. And where the
application's hooks attach something to every report, that of a panic keeps the place in browser-test which
`without_own_location` would drop, as it drops a last attachment only.

## Proofs

Everything about the pool's counters is proved for every `MaxConcurrency`, `Spare`, `Upcoming` and `UpcomingAlways`
that `PoolCounts` assumes to be natural numbers, of which no more tests run always than are upcoming.

*Inductive invariant.* `SessionPoolProofs!Inv` is `Sound(pool, cancelled)`, `Covers(pool)`, and the types of the two
flags. `Sound` strengthens the invariants so that they are inductive: the counters are natural
numbers, running and waiting tests are within `MaxConcurrency`, kept sessions within the bound, and `alive` counts
them. `KeptWithinBound` alone is not inductive: a creation for a waiting test keeps to the bound only because waiting
and running tests are within the concurrency. `CoversWaiting` is not inductive without the rest either, as
`deliver_reset` drops a session on the strength of a count of running and supplied ones, which says something about
waiting tests only within the concurrency.

*Argument.* `SessionPoolProofs` begins with one lemma per critical section of `PoolCounts`: it keeps `Sound`, and, with the replenishing that
ends it in the code, re-establishes `Covers`. `CreatedFacts` bounds what the closed form creates,
`ReplenishKeepsBound` and `ReplenishSound` follow from it. `StepInv` has one step per action. `Invariance` is the
temporal step, and `Typed`, `WaitingCovered`, `ConcurrencyLimited`, `KeptSessionsBounded` and `OpenSessionsCounted`
follow from it. `CancelledCreatesNothing` is an action property, from the invariant and `NothingToReplenish`.
`NoBrowserInVain` (`CreatesOnlyWhatIsNeeded`) is one too: `CreatedParts` says of each sort of session how many the
closed form creates, `ReplenishIsNeeded` that none is more than what waits or the tests to come can use, and
`StepIsNeeded` goes through the actions; `SparesOnceStopped` is the case of a run that starts no more tests.
`SessionsCreated` is what a step created, not how `alive` changed: a session that ends may be replaced by the spare that
had to wait for it (`ServeFields` and `ReplenishCreates` say what each half of a step does to the count).

`LoopOutcome`, in the same module: the loop keeps `Replenished(state, spares) = Replenished(before, spares)`: a round
takes away one of the sessions that the closed form would create, and nothing else; when no condition of the loop
holds, the closed form creates nothing. So the pool the loop leaves is the closed form's. A round adds a session, and
the loop never has more than the closed form (`ReplenishedHasMore`), so it ends.

*Runs of a process.* `RunLifecycleProofs` is about any number of runs and tokens. `LifecycleInv` has four parts:
`HoldsWhatItNeeds`, what a run has follows from where it is; `Tells`, nothing happened to a run that still goes on to its tests,
its result names what happened, and a result that is ok has no errors below it, which `merge_shutdown_result` would
drop; `Listens`, a run that asked for the signals gets nowhere before somebody listens; `Doomed`, the way of a run
that was cancelled before it began. None of the properties is inductive by itself: that a run is not killed over its
browser rests on where it was when the listener was missing, and that the errors are kept rests on where they can
happen. `LifecycleStep` has a step per action, with one per part; the lemmas on `TellsOf` say what the results the
code builds tell of. From it follow `RunsCleanUp`, `ErrorsAreKept`, `BrowsersOutliveSignals` and
`LateRunsStartNothing`.
`StateTypes` is the type invariant of the instance `MCRunLifecycle`, of runs and pauses together.

*Pauses.* The second half of `RunLifecycleProofs` is about any number of runs, threads and lines. `QueueIsExact`: the queue of the prompt
has every run that waits or asks, once; from it `HolderAsks`, only the first one asks or reads, survives a run that gives
up its place. `ReadsAreAwaited`: a thread reads or holds a line if and only if its read is pending or awaited by the run
at the prompt; so there is one at most (`OneThreadReads`). `LinesAreKept` is `NoLineIsLost` with what makes it inductive:
a line that a thread holds was no answer yet. The lemmas on queues are about `Append`, `Tail` and `RemoveAt`.

*Profile directories.* `ChromeProfilesProofs` is about any number of runs, processes, sessions and kills, and both kinds
of lock owners; all three invariants of `ChromeProfiles` are proved. That living runs are left alone
(`ProfilesInv`) rests on what a sweep can come to: `ListedHaveBegun`, no sweep has listed the directory a run has not
renamed yet, so the lock file in it is there and locked; `SweepsAreSafe`, only directories of runs that are done
(`Gone`) are probed or removed, because a run of the same process is live, the lock of another's is taken, and a staging
directory that is old enough is a killed run's; `LocksAreOwned`, a lock that its run does not have belongs to a sweep
probing it. That nothing is left behind (`SweepInv`) rests on `DuesAreDead`, nobody writes any more to what a sweep has
to remove, and `DuesAreSwept`, such a directory is still listed, or the sweep is at it, and its lock can be taken; and on
`DirectoriesAreTheirs`, a run has one directory, so a probe takes the lock of no other. A run may end with its directory
still there: `EndedHaveNone` is about those that did not, which have no Chrome any more that could recreate it.

*Execution.* `ExecutionProofs` is about any tree of suites and tests of any number (`TreeAssumption`,
`OwnershipAssumption`). Its `Inv` relates what the tests, the workers, the queue of tickets and the tree keep of each
other: `RequestsConsistent`, `WorkersDistinct`, `WorkersConsistent` (a worker has a job of a test that runs, and of no
other worker), `TicketsConsistent` (a ticket is of a session that is offered, a reset one has run tests),
`TestsConsistent`, `TreeConsistent` (what a suite has started and finished agrees with its children), and
`NoLostWakeup` itself. `Invariance` shows it of every behaviour; from it follow `TicketsStayLive`, `ReuseIsSafe`,
`WakeupsAreNotLost`, `TestsAreRecordedOnce` and `NoTestStartsAfterStop`. The queue is changed by a recursive function
(`WithoutResets`), whose facts are proved by taking the least index at which one would fail, since induction over an
operator is out of reach.

`CountersAreRight` (`CountersMatchSessions`) adds `CountInv` to it. `Tallied` says of a pool, the sessions, `n` sessions
that are just being requested, and the phases of the tests what each counter counts; it speaks of states in the middle
of an action too, so that every action is a few steps from one tallied pool to the next: a test registers
(`RegisterTally`), is answered (`AnsweredTally`, `StartedTally`), the pool is replenished (`ReplenishTally`) and the
sessions requested (`HireTally`). Its last two parts are there for the bound on sessions: a session is requested for a
test that was started or as a spare, and each is still unused or a test was answered with it. That a ticket is taken
by the kind of test it counts for needs `TestsPlaced` and `SessionsPlaced`; that the counters hold although a cancelled
run drops its workers needs that `Tallied` compares them with the sessions only until then, and with the tests always.

`ExecutionRefinement!PoolIsUsedAsSpecified` is the refinement: `Spec => RefinesSessionPool`. `AbstractPool` maps the pool to its counts
(`Counts`, which forgets the order of the queue and whose its tickets are). Each action of `Execution` has a lemma
(`TakeOrWaitSimulated`, `FinishedSimulated`, `ResetDoneSimulated`, ...) that it is the action of `SessionPool` with its
guards, or leaves the abstract state alone; `StepSimulated` joins them. The counts follow from one lemma per critical
section (`CountsKept`, `CountsServed`, `CountsOffered`, `ReplenishCounts`, ...): what the code does to the queue is what
`PoolCounts` does to the counts. The guards say what the abstract pool assumes of its clients, and are where the
invariants are needed: that a test starts only where fewer than `MaxConcurrency` are under way (`RoomForTest`) needs
`RunInv`, no suite has more children in flight than its parallelism, so that what is under way is `Together`; that the
pool is not closed under a test needs that the root is done last; that the counters of a session that ends are positive,
and that a session quits which the abstract pool counts nowhere else (`SessionQuitting`), need `CountInv`. With
`AbstractConstants`, the constants satisfy what `PoolCounts` assumes of them; so the invariants of `SessionPool` that
`SessionPoolProofs` proves (`CoversWaiting` and the others) hold of the counts of a run. This last inference is by
instantiation: the proof system does not let a theorem of an instantiated module be cited, so it is not machine-checked.

`MaxConcurrency` is the closed form `Together` (sets of tests that the suites let run at
once); that the code's recursion computes it is what `ConcurrencyIsReached` checks in `SuitePlan`.

*Session reset.* `SessionResetProofs` is about any origins, windows, contexts and number of acts. `NothingElseStays`
(`NothingElseSurvives`) rests on how far a reset has come: `ManualProgress` and `ContextProgress` say what each command
behind it has cleared and what no page can have brought back, `SettingsRestored` what the session's settings are.
`StorageStaysCleared` needs besides that every origin with storage is traced by a window, the history or the stream of
navigations (`OriginsTraced`), which holds only if the reset takes its own navigation for its own (`OwnEventOnce`).
Finding 3 is that it may not, when a test visits the blank page itself: so both, and `StateTypes`, have the hypothesis
`~RevisitsBlank`.

*Frozen pages.* The second half of `SessionResetProofs` is about any number of pages and changes. `CheckInv` has
`Unlisted` and `RepliesAreTrue` (a page that answered was attached to, a reply says what the page was), `ClosesLast`,
`DialogsStay`, and `FrozenAreSeen` (a frozen page is unanswered, under way or in the report). From it follow
`OnlyFrozenAreClosed` and `FrozenAreClosed`.

*Settings.* `TestSettingsProofs!SettingsReachTests` is about any kinds of timeouts, durations and concurrencies, and any
values of the variables. What a test runs with rests on what its session has kept: `SessionAsNew`, a pooled session has
the wait of the runner, and the timeouts of its browser until a test runs in it, however many did before. The lemmas
`FlagsAreRead` to `EnvironmentIsRead` say what each variable gives.

*Reports.* `ReportsProofs` has a theorem for each promise of the reports. `OutcomesAreTrue`: `StoredAsItEnded`, what `run_body` stored
says how the body ended, and a panic that ran the hook is the last one. `OutputStaysTrue` is about any capacity of the
tail and of the channel: `IsTailOf`, the tail is the end of what was received; `CountsToCursor`, what was captured and
skipped adds up to the cursor; `LastIsReceived`, skipping never loses the last line, so a follower that saw the end
(`ClosedAtTheEnd`) has it. `PhasesAreWarnedOf` is about any thresholds, tick limits and delays: after a round, no phase
is overdue for more than the warning it just got (`WarnedByRounds`), if the watchdog notices within the threshold
(`TickNotices`), and the next round comes in time (`SleepsATick`). `DurationsReadInOrder` is about every duration.

*Hooks.* `ReportsProofs!HooksInstalledOnce` is about any number of runs. That a warning is right needs that only
the run which initializes `REPORT_HOOKS` checks and installs (`OneInitializes`), and that what it found still holds
but for hooks the application has installed since (`ChecksAreTrue`).

*Lists, folds and sums.* What the reports compute are folds over sequences, sums and maxima over sets, and sorts. The
provers cannot instantiate an induction over an operator, so these are proved of sequences and sets of any size by
inductions over *sets* (`NumberInduction`, `SetInduction`: a set of numbers with no least one missing is all of them).
`SubsetRecursion` and `NumberRecursion` give the function that a sum or a fold is the last value of (`SumExists`), from
which follow that sums add up and do not depend on the order (`SumAdd`, `SumReordered`). Folds over sequences are taken
one element at a time (`MergesOneByOne`, `VisitsOneByOne`, `CountsOneByOne`, `PushesOneByOne`). `ListingFacts` is that a
list has each element of its set once, in its order; so sorting loses and repeats nothing (`SortsByKey`).

*Steps.* `EveryStepIsTold` (`StepsAreTold`) is about any number of steps, nested and concurrent in any way, any number
of kept ones and any end of the body. Its `StepsInv` has three parts. `Nested`: a step around an open step is open
(`OpenStepsNest`), which is what makes a dropped future take all inside it along (`Closes`). `RecordIsTrue`: `ends` has
each step that ended once (`Orders`), the statistics have counted and timed exactly these (`Counted`), and the log has
the last of them (`LoggedLast`). And what was stored when the body ended is what the record was: none of its
steps was open any more. That each `DropOrders` of a set is an order of it is `DroppedOnce`.

*Summary.* `SummariesAddUp` (`SummaryAddsUp`) is about any number of tests and any records of them, finishing in any
order. `ReportsInv` says that a test finishes once (`FinishedOnce`), that the failures are those of the tests that
failed (`FailuresOfFailed`), and that the report was told of what had finished (`Told`). The records are sorted by
definition order first, so every sum and count is one over the finished tests in another order (`TestsAre`, `Numbers`);
the times of a kind of steps are merged into what `PartsOf` says of each prefix.

*Frames.* `FramesTellTestCode` (`FramesAreTestCode`) is about any stacks, directories and marks, and any number of
failures one after the other. Its `FramesInv` is that the cache of directories is true (`Knows`): a directory in it is a
dependency's if and only if it or one above it, below the test root, is marked. `LookUp` keeps it, by the least
directory on the way up at which it would not, and answers with it; and `Seen` says what the walk over a stack has after
each frame: the places of test code so far, unless it met the runner. The location is any place (`Locations`), and what
is said of it follows from the first frame alone: `StartsAtTestCode`, frames start at the place of their first symbol,
whether its path is given in full or below the test root. What a report keeps is a set (`Attached`, `GivenToReports`).

*What the proofs found.* The properties are as before, but two modules state more of their inputs than they did:
`RunReport` what a record is (`ReportAssumption`), and `FailureFrames` that stacks are not empty and that the source of
a frame is a file, never a directory that Cargo marked (`SourcesAssumption`). Without the latter, a frame whose path is
itself a marked directory would be a dependency's by the documentation, and not by the code.

*Only model-checked:* all liveness (`Terminates`, `EveryPauseEnds`, `CancelledRunsReturn`), which TLAPS does not support
with fairness here; and of the invariants `SelectedTestsRun` and `ConcurrencyIsReached`, which are about the recursion
over the tree of suites: recursive operators are out of the provers' reach.

## Not modelled

- The attribute macro (it generates code from syntax at compile time), the error type and the exports, and the support
  for the repository's own tests: no behaviour.
- The wording and layout of reports, logs and the summary, how WebDriver errors and function names read, and the
  consumers that print. What they are computed from is modelled.
- The capabilities of a session, the choice of a Chrome version and binary, and Chrome for Testing itself, which is
  external: a launch succeeds or fails.
- How a suite is built by its builder, and what a pattern matches: the filter's input is a tree whose tests match, do
  not, or panic.
- The checks of the permissions of the profile directory, which have no state.
- Recorded suites in the report, which are only passed on.

## Plan

1. Models: the capabilities of sessions, which decide whether one can be reset at all; the records of suites in the
   report.
2. Proofs: `ConcurrencyIsReached`, once the tree of suites is written as a function of its depth.
