------------------------------ MODULE TestBody ------------------------------
(***************************************************************************)
(* One test in its session (execution/test_run.rs), with the steps of its  *)
(* body (step.rs) and what its failure report tells (failure_report.rs).   *)
(* Steps nest and run concurrently, they finish, are dropped by their own  *)
(* test, or end as a panic unwinds or the time limit drops the body.       *)
(* Panics may be caught, and resumed without the panic hook.  A step that  *)
(* was not polled leaves nothing behind, and so is left out.               *)
(***************************************************************************)
EXTENDS Option, Listing, SequencesExt

CONSTANTS
    StepKinds,
    RecentStepCount,   \* How many steps RecentSteps keeps.
    MaxSteps, MaxPanics, MaxClock

ASSUME BodyAssumption ==
    /\ RecentStepCount \in Nat \ {0}
    /\ None \notin Nat

VARIABLES
    clock,
    body,       \* How far the test is.
    stats,      \* StepRecorder::steps
    log,        \* StepRecorder::log: the last events, and how many there were.
    panicked,   \* StepRecorder::panic: the panic whose location was recorded.
    run,        \* JobRun: its failure, steps and recent steps.
    verdict,    \* The outcome of the test and its report.
    steps,      \* History: the steps in the order they started, ...
    ends,       \* ... and in the order they ended.
    panics,     \* History: how often something panicked in the body.
    ended,      \* History: how the body ended, ...
    quit        \* ... and whether its session quit then.

recorder == <<stats, log, panicked>>
bodyVars == <<clock, body, recorder, run, verdict, steps, ends, panics, ended, quit>>

Open == {s \in DOMAIN steps : steps[s].ended = None}

\* The step s and those around it.
Around(s) ==
    LET around[u \in 0..s] == IF u = 0 THEN {} ELSE {u} \cup around[steps[u].parent]
    IN  around[s]

\* The open steps inside s, which is a step or (0) the body.
Inside(s) == {u \in Open \ {s} : s = 0 \/ s \in Around(u)}

(***************************************************************************)
(* The orders in which futures that are dropped drop the steps S.  A step  *)
(* records itself before it drops what is inside it, but a panic on the    *)
(* path unwinds the innermost frame first.                                 *)
(***************************************************************************)
DropOrders(S, path) ==
    {order \in SetToSeqs(S) :
        \A i, j \in DOMAIN order :
            i < j => /\ order[i] \in Around(order[j]) => order[i] \notin path
                     /\ order[j] \in Around(order[i]) => order[j] \in path}

-----------------------------------------------------------------------------
(* The recorder                                                            *)

\* StepStats::record
RecordDuration(s, duration) ==
    [count |-> s.count + 1, total |-> s.total + duration, max |-> Max({s.max, duration})]

\* StepLog::push
PushEvent(l, event) ==
    [events |-> Append(IF Len(l.events) = RecentStepCount THEN Tail(l.events) ELSE l.events, event),
     total  |-> l.total + 1]

CountEvent(all, e) == [all EXCEPT ![steps[e.step].kind] = RecordDuration(@, e.duration)]

\* record_step, for the steps that end in this order.
RecordSteps(order, finished) ==
    LET event(s) == [step |-> s, started |-> steps[s].started,
                     duration |-> clock - steps[s].started, finished |-> s \in finished]
        events == [i \in DOMAIN order |-> event(order[i])]
    IN  /\ stats' = FoldLeft(CountEvent, stats, events)
        /\ log' = FoldLeft(PushEvent, log, events)
        /\ steps' = [s \in DOMAIN steps |->
                        IF s \in {order[i] : i \in DOMAIN order}
                        THEN [steps[s] EXCEPT !.ended = clock, !.finished = s \in finished]
                        ELSE steps[s]]
        /\ ends' = ends \o order

\* RecentSteps::new sorts the events, as recorded, by when they started (a stable sort).
RecentSteps(l) ==
    LET order == ByKey([i \in DOMAIN l.events |-> l.events[i].started])
    IN  IF l.events = <<>> THEN None
        ELSE [steps   |-> [i \in DOMAIN order |-> l.events[order[i]]],
              omitted |-> l.total - Len(l.events)]

-----------------------------------------------------------------------------
(* run_job and run_body                                                    *)

NoRun == [failure |-> "none", details |-> None, steps |-> None, recent |-> None]

BodyInit ==
    /\ clock = 0 /\ body = "preparing"
    /\ stats = [k \in StepKinds |-> [count |-> 0, total |-> 0, max |-> 0]]
    /\ log = [events |-> <<>>, total |-> 0]
    /\ panicked = None /\ run = NoRun /\ verdict = None
    /\ steps = <<>> /\ ends = <<>> /\ panics = 0 /\ ended = "no" /\ quit = "no"

\* update_timeouts, if the test sets any.
Prepare(ok) ==
    /\ body = "preparing"
    /\ IF ok THEN body' = "running" /\ UNCHANGED <<run, ended>>
       ELSE /\ body' = "quitting" /\ ended' = "prepare"
            /\ run' = [run EXCEPT !.failure = "prepare"]
    /\ UNCHANGED <<clock, recorder, verdict, steps, ends, panics, quit>>

Passes ==
    /\ body = "running" /\ clock < MaxClock
    /\ clock' = clock + 1
    /\ UNCHANGED <<body, recorder, run, verdict, steps, ends, panics, ended, quit>>

\* The first poll of a step, in another one or in the body itself.
Begin(parent, kind) ==
    /\ body = "running" /\ Len(steps) < MaxSteps
    /\ parent \in Open \cup {0}
    /\ steps' = Append(steps, [kind |-> kind, parent |-> parent, started |-> clock,
                               ended |-> None, finished |-> FALSE])
    /\ UNCHANGED <<clock, body, recorder, run, verdict, ends, panics, ended, quit>>

\* A step's future finishes: what it still holds is dropped before the step is recorded (as an
\* async block does; a combinator may drop it just after, with the future itself).
Finish(s) ==
    /\ body = "running" /\ s \in Open
    /\ \E order \in DropOrders(Inside(s), {}) : RecordSteps(Append(order, s), {s})
    /\ UNCHANGED <<clock, body, panicked, run, verdict, panics, ended, quit>>

\* The test drops a step before it finished, e.g. by a timeout of its own.
DropStep(s) ==
    /\ body = "running" /\ s \in Open
    /\ \E order \in DropOrders(Inside(s) \cup {s}, {}) : RecordSteps(order, {})
    /\ UNCHANGED <<clock, body, panicked, run, verdict, panics, ended, quit>>

\* What run_body stores once the body returned, panicked (catch_unwind), or was dropped.
Store(failure, details, how) ==
    /\ run' = [failure |-> failure, details |-> details, steps |-> stats', recent |-> RecentSteps(log')]
    /\ body' = "quitting" /\ ended' = how

\* The body returns, and drops what it did not await.
Return(ok) ==
    /\ body = "running"
    /\ \E order \in DropOrders(Open, {}) : RecordSteps(order, {})
    /\ Store(IF ok THEN "none" ELSE "error", None, IF ok THEN "ok" ELSE "error")
    /\ UNCHANGED <<clock, panicked, verdict, panics, quit>>

\* Mutant: the body is dropped outside of its recorder's scope, or after the steps are taken.
TimeOut_TakenFirst ==
    /\ body = "running"
    /\ run' = [failure |-> "timedOut", details |-> None, steps |-> stats, recent |-> RecentSteps(log)]
    /\ body' = "quitting" /\ ended' = "timedOut"
    /\ \E order \in DropOrders(Open, {}) : RecordSteps(order, {})
    /\ UNCHANGED <<clock, panicked, verdict, panics, quit>>

\* The time limit drops the body, in its recorder's scope, before the steps are taken.  Then
\* the session's frozen pages are closed.
TimeOut ==
    /\ body = "running"
    /\ \E order \in DropOrders(Open, {}) : RecordSteps(order, {})
    /\ Store("timedOut", None, "timedOut")
    /\ UNCHANGED <<clock, panicked, verdict, panics, quit>>

\* record_panic, called by the panic hook: the last panic counts.
RecordPanic(panic) == panicked' = panic

(***************************************************************************)
(* Something panics in the step (or body) at, and unwinds as far as the    *)
(* test catches it, or all of the body.  A panic that is resumed (of a     *)
(* task the test awaited, or one it caught) does not run the hook.         *)
(***************************************************************************)
Panic(at, resumed) ==
    /\ body = "running" /\ panics < MaxPanics
    /\ at \in Open \cup {0}
    /\ panics' = panics + 1
    /\ IF resumed THEN UNCHANGED panicked ELSE RecordPanic(panics')
    /\ \/ \E S \in {{}} \cup {{top} \cup Inside(top) : top \in Around(at)} :
            /\ \E order \in DropOrders(S, Around(at)) : RecordSteps(order, {})
            /\ UNCHANGED <<body, run, ended>>
       \/ /\ \E order \in DropOrders(Open, Around(at)) : RecordSteps(order, {})
          /\ Store("panic", panicked', IF resumed THEN "resumed" ELSE "panic")
    /\ UNCHANGED <<clock, verdict, quit>>

-----------------------------------------------------------------------------
(* test_outcome and failure_report                                         *)

Outcomes == [none |-> "Passed", prepare |-> "Failed", error |-> "Failed",
             panic |-> "Panicked", timedOut |-> "TimedOut"]

\* Mutant: a test that passed stays passed if its session does not quit.
TestOutcome_Passed(quits) ==
    [outcome  |-> Outcomes[run.failure],
     error    |-> run.failure,
     location |-> run.details,
     children |-> IF quits THEN {} ELSE {"quit"},
     recent   |-> run.recent]

\* A test that passed fails with the error of quitting its session, others keep it as a child.
TestOutcome(quits) ==
    IF run.failure = "none" /\ quits
    THEN [outcome |-> "Passed", error |-> "none", location |-> None, children |-> {}, recent |-> None]
    ELSE [outcome  |-> IF run.failure = "none" THEN "Failed" ELSE Outcomes[run.failure],
          error    |-> IF run.failure = "none" THEN "quit" ELSE run.failure,
          location |-> run.details,
          children |-> IF quits \/ run.failure = "none" THEN {} ELSE {"quit"},
          recent   |-> run.recent]

\* The session is quit, or returned to the pool, and the test has its outcome.
Conclude(quits) ==
    /\ body = "quitting"
    /\ verdict' = TestOutcome(quits)
    /\ body' = "done" /\ quit' = IF quits THEN "ok" ELSE "failed"
    /\ UNCHANGED <<clock, recorder, run, steps, ends, panics, ended>>

BodyNext ==
    \/ \E ok \in BOOLEAN : Prepare(ok) \/ Return(ok) \/ Conclude(ok)
    \/ Passes
    \/ \E parent \in 0..MaxSteps, kind \in StepKinds : Begin(parent, kind)
    \/ \E s \in Open : Finish(s) \/ DropStep(s)
    \/ TimeOut
    \/ \E at \in 0..MaxSteps, resumed \in BOOLEAN : Panic(at, resumed)

BodySpec == BodyInit /\ [][BodyNext]_bodyVars

-----------------------------------------------------------------------------
(* Properties                                                              *)

RanBody == ended \notin {"no", "prepare"}

\* However the body ended, its record counts each step it started once, with the time until
\* it finished or was dropped, and its report lists the last of them: those that ended last,
\* as they started, and around before inside unless they started at the same moment.
StepsAreTold ==
    RanBody =>
        LET lasting(s) == steps[s].ended - steps[s].started
            of(k) == {s \in DOMAIN steps : steps[s].kind = k}
            sum(S) == SumFunctionOnSet([s \in DOMAIN steps |-> lasting(s)], S)
            kept == Min({RecentStepCount, Len(steps)})
            listed == run.recent.steps
        IN  /\ \A s \in DOMAIN steps : steps[s].ended # None
            /\ \A k \in StepKinds :
                  run.steps[k] = [count |-> Cardinality(of(k)), total |-> sum(of(k)),
                                  max |-> Max({0} \cup {lasting(s) : s \in of(k)})]
            /\ IF steps = <<>> THEN run.recent = None
               ELSE /\ Len(listed) = kept /\ run.recent.omitted = Len(steps) - kept
                    /\ {listed[i].step : i \in DOMAIN listed} =
                          {ends[i] : i \in (Len(ends) - kept + 1)..Len(ends)}
                    /\ \A i \in DOMAIN listed :
                          /\ listed[i].duration = lasting(listed[i].step)
                          /\ listed[i].finished = steps[listed[i].step].finished
                    /\ \A i, j \in DOMAIN listed :
                          i < j => steps[listed[i].step].started <= steps[listed[j].step].started

\* The outcome of a test says how its body ended, and its report has every error of it: the
\* one of quitting the session never hides a failure nor is hidden by it.  A panic is reported
\* with its own location, whatever panics the test caught before.
ReportIsTrue ==
    body = "done" =>
        /\ verdict.outcome = "Passed" <=> ended = "ok" /\ quit = "ok"
        /\ quit = "failed" => "quit" \in {verdict.error} \cup verdict.children
        /\ ended \notin {"ok", "resumed"} => verdict.error = ended
        /\ verdict.outcome = "TimedOut" <=> ended = "timedOut"
        /\ verdict.outcome = "Panicked" <=> ended \in {"panic", "resumed"}
        /\ ended = "panic" => verdict.location = panics
        /\ verdict.outcome # "Passed" => verdict.recent = run.recent

\* What step.rs says of record_panic: a panic failing the test is the last one, and counts.
FailingPanicCounts ==
    body = "done" /\ verdict.outcome = "Panicked" => verdict.location \in {None, panics}
=============================================================================
