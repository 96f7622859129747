----------------------------- MODULE Execution -----------------------------
(***************************************************************************)
(* A run of a test suite (browser-test/src/execution): the executor, which *)
(* walks the suite tree and starts its tests, the session workers, which   *)
(* create browser sessions and run the tests in them, and the pool between *)
(* the two.                                                                *)
(*                                                                         *)
(* execute_tests joins the executor and the workers in one future, so they *)
(* are polled by one task: an action is what one of them does between two  *)
(* awaits, and awaits are where the others interleave.  The cancellation   *)
(* token is the one thing another thread changes.                          *)
(***************************************************************************)
EXTENDS Integers, Sequences, FiniteSets, FiniteSetsExt, SequencesExt

CONSTANTS
    Tests, Suites, Root,
    Children,       \* Suite::children, a sequence of tests and suites per suite.
    Parallelism,    \* Suite::parallelism
    Dedicated,      \* Tests with session settings of their own (not of the pool).
    Fresh,          \* Pool tests that need a fresh session.
    RunAlways,      \* Tests that start even after a failure.
    Unplannable,    \* Tests whose metadata panicked when the run was planned.
    FailFast,       \* The failure policy.
    Reuse,          \* Session reuse is enabled ...
    MaxTests,       \* ... for so many tests per session.
    Spare,          \* Spare sessions.
    Outcomes,       \* How the bodies of tests may end.
    Faults          \* What may go wrong: see FaultKinds.

None == "none"
Pool == "pool"
Close == 0          \* The end of the requests.

BodyOutcomes == {"passed", "failed", "timedOut"}
FaultKinds == {"creation", "baseline", "reset", "quit", "cancel"}

Nodes == Tests \union Suites

ChildrenOf(s) == {Children[s][i] : i \in DOMAIN Children[s]}

ASSUME TreeAssumption ==
    /\ IsFiniteSet(Suites) /\ Root \in Suites
    /\ Children \in [Suites -> Seq(Nodes)]
    /\ Parallelism \in [Suites -> Nat \ {0}]

\* A suite owns its children (Vec<Node>): every node but the root is a child, at one place, and
\* no suite is among its own descendants, so that each set of suites has a topmost one.
ASSUME OwnershipAssumption ==
    /\ \A n \in Nodes : n # Root <=> \E s \in Suites : n \in ChildrenOf(s)
    /\ \A s, u \in Suites : \A i \in DOMAIN Children[s], j \in DOMAIN Children[u] :
          Children[s][i] = Children[u][j] => s = u /\ i = j
    /\ \A S \in SUBSET Suites :
          S # {} => \E n \in S : \A s \in S : n \notin ChildrenOf(s)
ASSUME TestsAssumption ==
    /\ IsFiniteSet(Tests)
    /\ Tests \intersect (Suites \union {None, Pool}) = {}
    /\ UNION {Dedicated, Fresh, RunAlways, Unplannable} \subseteq Tests
    /\ (Dedicated \union Unplannable) \intersect Fresh = {}
ASSUME SettingsAssumption ==
    /\ FailFast \in BOOLEAN /\ Reuse \in BOOLEAN
    /\ MaxTests \in Nat \ {0} /\ Spare \in Nat
    /\ Outcomes \subseteq BodyOutcomes /\ Faults \subseteq FaultKinds

VARIABLES
    suite,          \* Of each suite: unstarted, running or done.
    started,        \* How many of a suite's children its stream started.
    phase,          \* Where run_test is for each test.
    woken,          \* Waiting tests whose notification fired.
    pool,           \* PoolState
    requests,       \* Session requests, a channel.
    workers,        \* The session workers, by session number.
    keepStarting,   \* Env::keep_starting
    cancelled,      \* The cancellation token.
    record,         \* The outcomes recorded for each test.
    board           \* What the progress board shows for each test.

executor == <<suite, started, phase, woken>>
sessions == <<pool, requests, workers>>
vars == <<executor, sessions, keepStarting, cancelled, record, board>>

-----------------------------------------------------------------------------
(* The plan of the run. *)

\* Nodes in flight at once: each with its suite, and of no suite more than its parallelism.
Together(R) ==
    \A s \in Suites :
        /\ s \notin R => R \intersect ChildrenOf(s) = {}
        /\ Cardinality(R \intersect ChildrenOf(s)) <= Parallelism[s]

\* Suite::max_concurrency by what its recursion computes (ConcurrencyIsReached of SuitePlan):
\* the most tests in flight at once, where an empty suite counts as a test.
MaxConcurrency ==
    LET leaves == {n \in Nodes : n \in Suites => Children[n] = <<>>}
    IN  Max({Cardinality(R \intersect leaves) : R \in {R \in SUBSET Nodes : Together(R)}}
                \union {1})

Kind(t) == IF t \in Fresh THEN "fresh" ELSE "any"
PoolTests == Tests \ (Dedicated \union Unplannable)
PoolTestsOf(kind) == {t \in PoolTests : Kind(t) = kind}

Upcoming == [any   |-> Cardinality(PoolTestsOf("any")),
             fresh |-> Cardinality(PoolTestsOf("fresh"))]
UpcomingAlways == [any   |-> Cardinality(PoolTestsOf("any") \intersect RunAlways),
                   fresh |-> Cardinality(PoolTestsOf("fresh") \intersect RunAlways)]

-----------------------------------------------------------------------------
(* The pool: PoolState with its queue of tickets. *)

C == INSTANCE PoolCounts

IsFresh(ticket) == ticket.sort # "reset"
IsReset(ticket) == ticket.sort = "reset"
IsOk(ticket) == ticket.sort # "failed"

OfSort(idle, sort) == Cardinality({i \in DOMAIN idle : idle[i].sort = sort})

Counts(p) == [p EXCEPT !.idle = [sort \in C!Sorts |-> OfSort(p.idle, sort)]]

\* The queue after n reset sessions, from the front, made way for fresh ones.
WithoutResets(idle, n) ==
    LET without[i \in 0 .. n] ==
            IF i = 0 THEN idle
            ELSE RemoveAt(without[i - 1], SelectInSeq(without[i - 1], IsReset))
    IN  without[n]

Replenish(p, keep, cancel) ==
    LET c == C!Replenish(Counts(p), keep, cancel)
    IN  [p EXCEPT !.idle = WithoutResets(@, OfSort(@, "reset") - c.idle["reset"]),
                  !.creating = c.creating,
                  !.alive = c.alive]

Ended(p, keep, cancel) == Replenish([p EXCEPT !.alive = @ - 1], keep, cancel)

Offer(p, session, sort) ==
    IF p.closed THEN p
    ELSE [p EXCEPT !.idle = Append(@, [session |-> session, sort |-> sort])]

\* take_idle: the position of the ticket a test of `kind` takes, 0 if there is none.
Position(idle, kind) ==
    LET reset == SelectInSeq(idle, IsReset)
    IN  IF kind = "fresh" THEN SelectInSeq(idle, IsFresh)
        ELSE IF reset # 0 \/ idle = <<>> THEN reset ELSE 1

\* Mutant: the ticket stays in the queue.
Serve_KeepsTicket(p, kind, i) ==
    [p EXCEPT !.waiting[kind] = @ - 1,
              !.running = IF p.idle[i].sort = "failed" THEN @ ELSE @ + 1]

\* take, when it finds its ticket at position i.
Serve(p, kind, i) ==
    [p EXCEPT !.idle = RemoveAt(@, i),
              !.waiting[kind] = @ - 1,
              !.running = IF p.idle[i].sort = "failed" THEN @ ELSE @ + 1]

\* Sessions requested together: they are numbered in the order of their requests.
Hired(owner) ==
    [state |-> "requested", owner |-> owner, test |-> None, ran |-> <<>>,
     outcome |-> None, baseline |-> FALSE]

Request(ws, owner, n) ==
    /\ workers' = ws \o [i \in 1 .. n |-> Hired(owner)]
    /\ requests' = requests \o [i \in 1 .. n |-> Len(ws) + i]

\* The pool becomes q, which requests the sessions it added to those of `open`.
Update(q, open, ws) == pool' = q /\ Request(ws, Pool, q.alive - open)

-----------------------------------------------------------------------------
(* Env *)

\* Mutant: a failure does not keep tests from starting.
MayStart_IgnoresStop(t) == ~cancelled

MayStart(t) == ~cancelled /\ (keepStarting \/ t \in RunAlways)

Waiting == {t \in Tests : phase[t] = "waiting"}

\* notify_waiters
Notify == woken' = Waiting

\* Mutant: waiting tests are not told that no further test starts.
StopOn_Silently(failed, t) ==
    /\ keepStarting' = (keepStarting /\ ~(failed /\ FailFast))
    /\ woken' = woken \ {t}

\* stop_starting_on_fail_fast, where `failed`, in a step that ends the wait of test t, if it
\* waits.
StopOn(failed, t) ==
    IF failed /\ FailFast
    THEN keepStarting' = FALSE /\ woken' = Waiting \ {t}
    ELSE UNCHANGED keepStarting /\ woken' = woken \ {t}

Record(t, outcome) == record' = [record EXCEPT ![t] = Append(@, outcome)]

\* The test returns from run_test: not started, or recorded as failed.
NotStarted(t) ==
    /\ phase' = [phase EXCEPT ![t] = "done"]
    /\ StopOn(FALSE, t)
    /\ UNCHANGED <<record, board>>

FailsToStart(t, outcome) ==
    /\ phase' = [phase EXCEPT ![t] = "done"]
    /\ StopOn(TRUE, t)
    /\ Record(t, outcome)
    /\ UNCHANGED <<cancelled, board>>

\* The job of t is sent to worker w, which starts its body.
Assigned(t, w) == [workers EXCEPT ![w].state = "running", ![w].test = t,
                                  ![w].ran = Append(@, t)]

StartsBody(t) ==
    /\ phase' = [phase EXCEPT ![t] = "running"]
    /\ board' = [board EXCEPT ![t] = "running"]
    /\ StopOn(FALSE, t)
    /\ UNCHANGED <<cancelled, record>>

-----------------------------------------------------------------------------
(* The executor: run_suite, run_node and run_test. *)

Done(n) == IF n \in Tests THEN phase[n] = "done" ELSE suite[n] = "done"

InFlight(s) == {i \in 1 .. started[s] : ~Done(Children[s][i])}

HasRoom(s) ==
    /\ suite[s] = "running"
    /\ started[s] < Len(Children[s])
    /\ Cardinality(InFlight(s)) < Parallelism[s]

AllDone(s) ==
    /\ suite[s] = "running"
    /\ started[s] = Len(Children[s])
    /\ InFlight(s) = {}

\* The rest of take, once t is registered in p, and of run_test up to its next await.
TakeFrom(t, p) ==
    LET i         == Position(p.idle, Kind(t))
        ticket    == p.idle[i]
        taken(cancel) == Replenish(Serve(p, Kind(t), i), keepStarting, cancel)
        returned(cancel) == [taken(cancel) EXCEPT !.running = @ - 1]
        offered   == workers[ticket.session].state = "offered"
    IN  \/ /\ i = 0
           /\ Update(p, pool.alive, workers)
           /\ phase' = [phase EXCEPT ![t] = "waiting"]
           /\ woken' = woken \ {t}
           /\ UNCHANGED <<keepStarting, cancelled, record, board>>
        \/ /\ i # 0 /\ IsOk(ticket) /\ offered
           /\ Update(taken(FALSE), pool.alive, Assigned(t, ticket.session))
           /\ StartsBody(t)
        \/ /\ i # 0 /\ IsOk(ticket) /\ ~offered
           /\ Update(returned(FALSE), pool.alive, workers)
           /\ FailsToStart(t, "failed")
        \/ /\ i # 0 /\ ~IsOk(ticket)
           /\ Update(taken(FALSE), pool.alive, workers)
           /\ FailsToStart(t, "failed")
        \/ /\ i # 0 /\ "cancel" \in Faults   \* Cancelled between take and run_test's check.
           /\ \E cancel \in BOOLEAN :
                 Update(IF IsOk(ticket) THEN returned(cancel) ELSE taken(cancel),
                        pool.alive, workers)
           /\ cancelled' = TRUE
           /\ NotStarted(t)

Register(t) ==
    [pool EXCEPT !.upcoming[Kind(t)] = C!Monus(@, 1),
                 !.upcomingAlways[Kind(t)] = IF t \in RunAlways THEN C!Monus(@, 1) ELSE @,
                 !.waiting[Kind(t)] = @ + 1]

GiveUp(p, t) == [p EXCEPT !.waiting[Kind(t)] = @ - 1]

\* A test not started because of fail-fast or a cancellation.
Skip(t) ==
    /\ ~MayStart(t)
    /\ NotStarted(t)
    /\ UNCHANGED <<sessions, cancelled>>

\* A test whose metadata panicked fails without a session.
FailUnplannable(t) ==
    /\ MayStart(t) /\ t \in Unplannable
    /\ FailsToStart(t, "panicked")
    /\ UNCHANGED sessions

RequestDedicated(t) ==
    /\ MayStart(t) /\ t \in Dedicated \ Unplannable
    /\ phase' = [phase EXCEPT ![t] = "requested"]
    /\ Request(workers, t, 1)
    /\ UNCHANGED <<woken, pool, keepStarting, cancelled, record, board>>

TakeOrWait(t) ==
    LET registered(cancel) == Replenish(Register(t), keepStarting, cancel)
    IN  /\ MayStart(t) /\ t \in PoolTests
        /\ \/ TakeFrom(t, registered(FALSE))
           \/ /\ "cancel" \in Faults       \* Cancelled before it looks for a session.
              /\ \E cancel \in BOOLEAN :
                    Update(GiveUp(registered(cancel), t), pool.alive, workers)
              /\ cancelled' = TRUE
              /\ NotStarted(t)

\* buffer_unordered polls the next child of a suite for the first time.
StartChild(s) ==
    /\ HasRoom(s)
    /\ started' = [started EXCEPT ![s] = @ + 1]
    /\ LET n == Children[s][started[s] + 1]
       IN  \/ /\ n \in Suites
              /\ suite' = [suite EXCEPT ![n] = "running"]
              /\ UNCHANGED <<phase, woken, sessions, keepStarting, cancelled, record, board>>
           \/ /\ n \in Tests
              /\ Skip(n) \/ FailUnplannable(n) \/ RequestDedicated(n) \/ TakeOrWait(n)
              /\ UNCHANGED suite

\* Mutant: the workers are not told that no request follows.
FinishSuite_WithoutEnd(s) ==
    /\ AllDone(s)
    /\ suite' = [suite EXCEPT ![s] = "done"]
    /\ pool' = IF s = Root THEN [pool EXCEPT !.closed = TRUE, !.idle = <<>>] ELSE pool
    /\ UNCHANGED <<started, phase, woken, requests, workers, keepStarting, cancelled, record,
                   board>>

\* Every child of a suite is done.  After the root, the pool closes.
FinishSuite(s) ==
    /\ AllDone(s)
    /\ suite' = [suite EXCEPT ![s] = "done"]
    /\ IF s = Root
       THEN /\ pool' = [pool EXCEPT !.closed = TRUE, !.idle = <<>>]
            /\ requests' = Append(requests, Close)
       ELSE UNCHANGED <<pool, requests>>
    /\ UNCHANGED <<started, phase, woken, workers, keepStarting, cancelled, record, board>>

\* A waiting test was notified, or the run was cancelled.
IsWoken(t) == phase[t] = "waiting" /\ (t \in woken \/ cancelled)

\* Mutant: a woken test looks for a session before it asks whether it may still start.
StopsWaiting_LooksFirst(t) ==
    /\ IsWoken(t)
    /\ \/ /\ MayStart(t) \/ Position(pool.idle, Kind(t)) # 0
          /\ TakeFrom(t, pool)
       \/ /\ ~MayStart(t) /\ Position(pool.idle, Kind(t)) = 0
          /\ pool' = GiveUp(pool, t)
          /\ NotStarted(t)
          /\ UNCHANGED <<requests, workers, cancelled>>
    /\ UNCHANGED <<suite, started>>

StopsWaiting(t) ==
    /\ IsWoken(t)
    /\ \/ MayStart(t) /\ TakeFrom(t, pool)
       \/ /\ ~MayStart(t)
          /\ pool' = GiveUp(pool, t)
          /\ NotStarted(t)
          /\ UNCHANGED <<requests, workers, cancelled>>
    /\ UNCHANGED <<suite, started>>

\* A test got the ticket of its own session, or learned that it could not be created.
HasAnswer(t, w) ==
    /\ phase[t] \in {"requested", "refused"}
    /\ workers[w].owner = t
    /\ workers[w].state \notin {"requested", "creating"}

GetsDedicated(t) ==
    /\ \E w \in DOMAIN workers :
          /\ HasAnswer(t, w)
          /\ LET starts == phase[t] = "requested" /\ workers[w].state = "offered"
             IN  \/ ~MayStart(t) /\ NotStarted(t) /\ UNCHANGED <<workers, cancelled>>
                 \/ MayStart(t) /\ starts /\ StartsBody(t) /\ workers' = Assigned(t, w)
                 \/ MayStart(t) /\ ~starts /\ FailsToStart(t, "failed") /\ UNCHANGED workers
    /\ UNCHANGED <<suite, started, pool, requests>>

Serving(w, t) == workers[w].test = t /\ workers[w].state \in {"running", "checking"}

\* A cancelled run dropped the worker of a test.
LostWorker(t) == phase[t] = "running" /\ \A w \in DOMAIN workers : ~Serving(w, t)

\* Mutants: the test of a dropped worker stays counted as running, or is not recorded.
IsCancelled_StillRunning(t) ==
    /\ LostWorker(t)
    /\ phase' = [phase EXCEPT ![t] = "done"]
    /\ Record(t, "cancelled")
    /\ board' = [board EXCEPT ![t] = None]
    /\ StopOn(FALSE, t)
    /\ UNCHANGED <<suite, started, sessions, cancelled>>

IsCancelled_Unrecorded(t) ==
    /\ LostWorker(t)
    /\ phase' = [phase EXCEPT ![t] = "done"]
    /\ pool' = IF t \in PoolTests THEN [pool EXCEPT !.running = @ - 1] ELSE pool
    /\ board' = [board EXCEPT ![t] = None]
    /\ StopOn(FALSE, t)
    /\ UNCHANGED <<suite, started, requests, workers, cancelled, record>>

IsCancelled(t) ==
    /\ LostWorker(t)
    /\ phase' = [phase EXCEPT ![t] = "done"]
    /\ pool' = IF t \in PoolTests THEN [pool EXCEPT !.running = @ - 1] ELSE pool
    /\ Record(t, "cancelled")
    /\ board' = [board EXCEPT ![t] = None]
    /\ StopOn(FALSE, t)
    /\ UNCHANGED <<suite, started, requests, workers, cancelled>>

-----------------------------------------------------------------------------
(* The session workers: drive_workers, run_session and serve_tests. *)

Pooled(w) == workers[w].owner = Pool

\* drive_workers receives the next request.
HasRequest == requests # <<>> /\ Head(requests) # Close

Spawn ==
    /\ HasRequest
    /\ requests' = Tail(requests)
    /\ workers' = [workers EXCEPT ![Head(requests)].state = "creating"]
    /\ UNCHANGED <<executor, pool, keepStarting, cancelled, record, board>>

\* The session is created, and offered to the pool or to its test.
Created(w) ==
    /\ workers[w].state = "creating"
    /\ \E baseline \in {Reuse} \union (IF "baseline" \in Faults THEN {FALSE} ELSE {}) :
          workers' = [workers EXCEPT ![w].state = "offered", ![w].baseline = baseline]
    /\ UNCHANGED <<suite, started, phase, requests, keepStarting, cancelled, record, board>>
    /\ IF Pooled(w)
       THEN pool' = Offer([pool EXCEPT !.creating = @ - 1], w, "created") /\ Notify
       ELSE UNCHANGED <<pool, woken>>

\* The session could not be created, also because the run was cancelled: fail_creation and
\* session_ended.
CreationFails(w) ==
    LET ws == [workers EXCEPT ![w].state = "ended"]
        failed == Offer([pool EXCEPT !.creating = @ - 1], w, "failed")
    IN  /\ workers[w].state = "creating"
        /\ "creation" \in Faults \/ cancelled
        /\ IF Pooled(w)
           THEN /\ Update(Ended(failed, keepStarting, cancelled), pool.alive - 1, ws)
                /\ Notify
                /\ UNCHANGED phase
           ELSE /\ phase' = [phase EXCEPT ![workers[w].owner] = "refused"]
                /\ workers' = ws
                /\ UNCHANGED <<pool, requests, woken>>
        /\ UNCHANGED <<suite, started, keepStarting, cancelled, record, board>>

\* The ticket of session w is still somewhere: in the pool, or with the test it is for.
TicketHeld(w) ==
    IF Pooled(w) THEN \E i \in DOMAIN pool.idle : IsOk(pool.idle[i]) /\ pool.idle[i].session = w
                 ELSE phase[workers[w].owner] = "requested"

\* The ticket was dropped: no test needs this session anymore.
IsReleased(w) == workers[w].state = "offered" /\ ~TicketHeld(w)

Release(w) ==
    /\ IsReleased(w)
    /\ workers' = [workers EXCEPT ![w].state = "quitting", ![w].test = None]
    /\ UNCHANGED <<executor, pool, requests, keepStarting, cancelled, record, board>>

\* Mutant: a session is reused although commands of a timed out test may still run in it.
MayReuse_TimedOut(w, outcome) ==
    /\ Reuse /\ Pooled(w)
    /\ workers[w].baseline
    /\ Len(workers[w].ran) < MaxTests

\* Whether a session may run another test after one with this outcome: its baseline was
\* captured, and it ran fewer tests than the limit.
MayReuse(w, outcome) ==
    /\ Reuse /\ Pooled(w)
    /\ outcome # "timedOut"
    /\ workers[w].baseline
    /\ Len(workers[w].ran) < MaxTests

\* What serve_tests does once run_job returned: the session is claimed for a reset, which
\* completes the record of its test, or quits; then the next test may start.
AfterBody(w, outcome) ==
    LET t == workers[w].test
        finished == IF Pooled(w) THEN [pool EXCEPT !.running = @ - 1] ELSE pool
        reuse == MayReuse(w, outcome) /\ C!WantsReset(Counts(finished), keepStarting', cancelled)
        state == IF reuse THEN "resetting" ELSE "quitting"
    IN  /\ phase' = [phase EXCEPT ![t] = "done"]
        /\ pool' = IF reuse THEN [finished EXCEPT !.resetting = @ + 1] ELSE finished
        /\ workers' = [workers EXCEPT ![w].state = state, ![w].outcome = outcome]
        /\ board' = [board EXCEPT ![t] = state]
        /\ IF reuse THEN Record(t, outcome) ELSE UNCHANGED record
        /\ UNCHANGED <<suite, started, requests, cancelled>>

\* The body returned or panicked (or the session's timeouts could not be updated).
BodyEnds(w) ==
    /\ workers[w].state = "running"
    /\ \E outcome \in Outcomes \ {"timedOut"} :
          StopOn(outcome # "passed", workers[w].test) /\ AfterBody(w, outcome)

\* The body exceeded its time limit: no further test starts while its pages are checked.
TimesOut(w) ==
    /\ workers[w].state = "running"
    /\ "timedOut" \in Outcomes
    /\ workers' = [workers EXCEPT ![w].state = "checking"]
    /\ StopOn(TRUE, workers[w].test)
    /\ UNCHANGED <<suite, started, phase, pool, requests, cancelled, record, board>>

PagesChecked(w) ==
    /\ workers[w].state = "checking"
    /\ UNCHANGED <<keepStarting, woken>>
    /\ AfterBody(w, "timedOut")

\* The session was reset and is offered again, if the pool keeps it.
ResetDone(w) ==
    LET done == [pool EXCEPT !.resetting = @ - 1]
        kept == C!KeepsReset(Counts(done), keepStarting, cancelled)
    IN  /\ workers[w].state = "resetting"
        /\ workers' = [workers EXCEPT ![w].state = "offered", ![w].test = None]
        /\ pool' = IF kept THEN Offer(done, w, "reset") ELSE done
        /\ board' = [board EXCEPT ![workers[w].test] = None]
        /\ UNCHANGED <<suite, started, phase, requests, keepStarting, cancelled, record>>
        /\ IF kept THEN Notify ELSE UNCHANGED woken

ResetFails(w) ==
    /\ workers[w].state = "resetting"
    /\ "reset" \in Faults
    /\ Update(Replenish([pool EXCEPT !.resetting = @ - 1], keepStarting, cancelled), pool.alive,
              [workers EXCEPT ![w].state = "quitting", ![w].test = None])
    /\ board' = [board EXCEPT ![workers[w].test] = None]
    /\ UNCHANGED <<executor, keepStarting, cancelled, record>>

\* The session quit.  Its last test, if it left one to record, fails with it: finish_job and
\* session_ended.
Quits(w, ok) ==
    LET t == workers[w].test
        outcome == IF workers[w].outcome = "passed" /\ ~ok THEN "failed" ELSE workers[w].outcome
        ws == [workers EXCEPT ![w].state = "ended", ![w].test = None]
    IN  /\ workers[w].state = "quitting"
        /\ UNCHANGED phase
        /\ IF t = None
           THEN StopOn(FALSE, t) /\ UNCHANGED <<record, board>>
           ELSE /\ StopOn(outcome # "passed", t)
                /\ Record(t, outcome)
                /\ board' = [board EXCEPT ![t] = None]
        /\ IF Pooled(w)
           THEN Update(Ended(pool, keepStarting', cancelled), pool.alive - 1, ws)
           ELSE workers' = ws /\ UNCHANGED <<pool, requests>>
        /\ UNCHANGED <<suite, started, cancelled>>

\* A cancelled run drops what its workers do in their sessions, which then quit.
Dropped(w) ==
    /\ cancelled
    /\ workers[w].state \in {"offered", "running", "checking", "resetting"}
    /\ workers' = [workers EXCEPT ![w].state = "quitting", ![w].test = None]
    /\ UNCHANGED <<executor, pool, requests, keepStarting, cancelled, record, board>>

-----------------------------------------------------------------------------

Cancel ==
    /\ "cancel" \in Faults
    /\ ~cancelled
    /\ cancelled' = TRUE
    /\ UNCHANGED <<executor, sessions, keepStarting, record, board>>

\* The run is over: the executor is done, and so are the workers.
Terminated ==
    /\ suite[Root] = "done"
    /\ requests = <<Close>>
    /\ \A w \in DOMAIN workers : workers[w].state = "ended"

Terminating == Terminated /\ UNCHANGED vars

NewPool == [C!NewPool EXCEPT !.idle = <<>>]

Init ==
    LET p == Replenish(NewPool, TRUE, FALSE)
    IN  /\ pool = p
        /\ workers = [i \in 1 .. p.alive |-> Hired(Pool)]
        /\ requests = [i \in 1 .. p.alive |-> i]
        /\ suite = [s \in Suites |-> IF s = Root THEN "running" ELSE "unstarted"]
        /\ started = [s \in Suites |-> 0]
        /\ phase = [t \in Tests |-> "queued"]
        /\ woken = {}
        /\ keepStarting = TRUE
        /\ cancelled = FALSE
        /\ record = [t \in Tests |-> <<>>]
        /\ board = [t \in Tests |-> None]

\* A step of the executor, of the driver of the workers, or of a worker.
Progress ==
    \/ \E s \in Suites : StartChild(s) \/ FinishSuite(s)
    \/ \E t \in Tests : StopsWaiting(t) \/ GetsDedicated(t) \/ IsCancelled(t)
    \/ Spawn
    \/ \E w \in DOMAIN workers :
          \/ Created(w) \/ CreationFails(w) \/ Release(w) \/ Dropped(w)
          \/ BodyEnds(w) \/ TimesOut(w) \/ PagesChecked(w)
          \/ ResetDone(w) \/ ResetFails(w)
          \/ \E ok \in IF "quit" \in Faults THEN BOOLEAN ELSE {TRUE} : Quits(w, ok)

Next == Progress \/ Cancel \/ Terminating

Spec == Init /\ [][Next]_vars

(***************************************************************************)
(* What can be polled to continue: a request that was sent, a session that *)
(* was created, ran its test, was reset or quit, a ticket that was dropped *)
(* or delivered, a test that was woken, a suite with room for a child.     *)
(***************************************************************************)
Ready ==
    \/ HasRequest
    \/ \E w \in DOMAIN workers :
          \/ workers[w].state \in {"creating", "running", "checking", "resetting", "quitting"}
          \/ IsReleased(w) \/ (workers[w].state = "offered" /\ cancelled)
    \/ \E t \in Tests :
          IsWoken(t) \/ LostWorker(t) \/ \E w \in DOMAIN workers : HasAnswer(t, w)
    \/ \E s \in Suites : HasRoom(s) \/ AllDone(s)

(***************************************************************************)
(* The task that polls the executor and the workers is polled while one of *)
(* them is ready (WF_vars(Progress), with its enabling condition spelled   *)
(* out).  Bodies end within their time limit and resets within             *)
(* RESET_TIME_LIMIT; creating and quitting a session is assumed to end.    *)
(* Nothing is assumed about who continues first, nor about cancellation.   *)
(***************************************************************************)
FairSpec == Spec /\ ([]<>~Ready \/ []<><<Progress>>_vars)

-----------------------------------------------------------------------------
(* Properties *)

States == {"requested", "creating", "offered", "running", "checking", "resetting",
           "quitting", "ended"}

\* What the run may request: a test may cost a session that failed and its replacement.
MaxSessions == Cardinality(Tests \ Unplannable) + Spare

\* The shape of the state.  Among it, hard to see in the code: every counter is a natural
\* number, only waiting tests hold a notification, and however sessions fail and are replaced,
\* the run requests no more than one per planned test and the spares.
TypeOK ==
    /\ suite \in [Suites -> {"unstarted", "running", "done"}]
    /\ \A s \in Suites : started[s] \in 0 .. Len(Children[s])
    /\ phase \in [Tests -> {"queued", "waiting", "requested", "refused", "running", "done"}]
    /\ woken \subseteq Waiting
    /\ pool \in [idle : Seq([session : DOMAIN workers, sort : C!Sorts]),
                 creating : Nat, resetting : Nat, running : Nat, alive : Nat,
                 waiting : C!Tally, upcoming : C!Tally, upcomingAlways : C!Tally,
                 closed : BOOLEAN]
    /\ Range(requests) \subseteq {Close} \union DOMAIN workers
    /\ workers \in Seq([state : States, owner : {Pool} \union Tests,
                        test : {None} \union Tests, ran : Seq(Tests),
                        outcome : {None} \union Outcomes, baseline : BOOLEAN])
    /\ Len(workers) <= MaxSessions
    /\ keepStarting \in BOOLEAN /\ cancelled \in BOOLEAN
    /\ \A t \in Tests : Range(record[t]) \subseteq BodyOutcomes \union {"panicked", "cancelled"}
    /\ board \in [Tests -> {None, "running", "resetting", "quitting"}]

PoolSessions(states) == {w \in DOMAIN workers : Pooled(w) /\ workers[w].state \in states}

\* The tests that replenish and claim_reset expect to start are those that will: all queued
\* ones, or once a failure stopped the run the queued ones that run always.
UpcomingMatchesQueue ==
    \A k \in C!Kinds :
        LET queued == {t \in PoolTestsOf(k) : phase[t] = "queued"}
        IN  /\ keepStarting => pool.upcoming[k] = Cardinality(queued)
            /\ pool.upcomingAlways[k] = Cardinality(queued \intersect RunAlways)

\* The pool's counters, which tests and workers adjust in different places, are what they
\* claim to count: sessions being created, reset, running a test or open, and waiting and
\* upcoming tests, in a state of the right shape (TypeOK).  (Once the run is cancelled,
\* workers that were dropped no longer report.)
CountersMatchSessions ==
    /\ TypeOK
    /\ pool.alive = Cardinality(PoolSessions(States \ {"ended"}))
    /\ pool.creating = Cardinality(PoolSessions({"requested", "creating"}))
    /\ pool.running = Cardinality({t \in PoolTests : phase[t] = "running"})
    /\ \A k \in C!Kinds : pool.waiting[k] = Cardinality({t \in Waiting : Kind(t) = k})
    /\ ~cancelled =>
          /\ pool.resetting = Cardinality(PoolSessions({"resetting"}))
          /\ pool.running = Cardinality(PoolSessions({"running", "checking"}))
          /\ UpcomingMatchesQueue

\* A test sleeps only as long as there is no session for it and it may still start: none of
\* deliver, deliver_reset and stop_starting_on_fail_fast misses a test it should wake.
NoLostWakeup ==
    \A t \in Waiting \ woken :
        ~cancelled => MayStart(t) /\ Position(pool.idle, Kind(t)) = 0

\* The tickets of the pool are those of sessions waiting for a test, so that no test fails
\* because its session ended before it started.
TicketsAreLive ==
    ~cancelled =>
        \A i, j \in DOMAIN pool.idle :
            IsOk(pool.idle[i]) =>
                /\ workers[pool.idle[i].session].state = "offered"
                /\ pool.idle[j].session = pool.idle[i].session => i = j

\* What a session runs: without reuse one test; with it at most MaxTests, one after the
\* other was recorded; no test that needs a fresh session but as its first; none after a
\* test that timed out, which may have left commands running.
SessionsAreReusedSafely ==
    \A w \in DOMAIN workers :
        LET ran == workers[w].ran
        IN  /\ Len(ran) <= (IF Reuse /\ Pooled(w) /\ workers[w].baseline THEN MaxTests ELSE 1)
            /\ \A i \in 2 .. Len(ran) :
                  ran[i] \notin Fresh /\ record[ran[i - 1]] \in {<<"passed">>, <<"failed">>}

Ran(t) == {w \in DOMAIN workers : t \in Range(workers[w].ran)}

\* Every test is recorded at most once and runs in at most one session.  At the end of the
\* run, only tests that did not run are missing, and only because the run was cancelled or
\* stopped on a failure.
RecordedOnce ==
    /\ \A t \in Tests : Len(record[t]) <= 1 /\ Cardinality(Ran(t)) <= 1
    /\ Terminated =>
          \A t \in Tests :
              record[t] = <<>> => /\ Ran(t) = {}
                                  /\ cancelled \/ (~keepStarting /\ t \notin RunAlways)

\* The board shows a session being reset only while a worker resets it: "What the runner is
\* currently doing, for the watchdog."
BoardShowsResets ==
    \A t \in Tests :
        board[t] = "resetting" =>
            \E w \in DOMAIN workers : workers[w].state = "resetting" /\ workers[w].test = t

\* "At most `parallel tests + spare sessions` browsers are open at once, as documented."
\* A browser is open until its session quit.
BrowsersWithinBound ==
    Cardinality({w \in DOMAIN workers : workers[w].state \notin {"requested", "ended"}})
        <= MaxConcurrency + Spare

\* No test starts in a session once the run is cancelled, or, unless it runs always, once a
\* failure stopped the run: not even one that already waited for its session.
NoStartAfterStop ==
    [][\A t \in Tests :
          phase[t] # "running" /\ phase'[t] = "running" => MayStart(t)]_vars

\* Tests and workers use the pool as its abstract specification allows: counters, waiting
\* tests and sessions created are those of SessionPool, whose invariants hold here too.
AbstractPool == INSTANCE SessionPool WITH pool <- Counts(pool)

RefinesSessionPool == AbstractPool!Spec

\* The run ends: every test finishes or is given up, every session quits, and the driver of
\* the workers receives the end of the requests after the last of them.
Terminates == <>Terminated
=============================================================================
