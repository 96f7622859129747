---------------------------- MODULE SessionPool ----------------------------
(***************************************************************************)
(* The pool of browser sessions kept ready for starting tests              *)
(* (browser-test/src/execution/session_pool.rs) and its clients, at the    *)
(* level of the pool's counters.                                           *)
(*                                                                         *)
(* An action is one poll of a client of the pool: everything a test or a   *)
(* session worker does between two awaits is one step, because the         *)
(* executor and all workers are polled by one task.  Only cancellation     *)
(* comes from another thread, at any time.                                 *)
(***************************************************************************)
EXTENDS PoolCounts

VARIABLES
    pool,           \* PoolState
    keepStarting,   \* Env::keep_starting: no failure stopped the run.
    cancelled       \* The run's cancellation token.

vars == <<pool, keepStarting, cancelled>>

-----------------------------------------------------------------------------

Init ==
    /\ cancelled \in BOOLEAN
    /\ keepStarting = TRUE
    /\ pool = Replenish(NewPool, TRUE, cancelled)

\* Pool sessions that are neither on their way to a test nor running one: they quit.  A
\* cancelled run drops its workers wherever they are, except that a session being created is
\* delivered as failed first.
Quitting(p) ==
    p.alive - p.creating - (IF cancelled THEN 0
                            ELSE p.idle["created"] + p.idle["reset"] + p.resetting + p.running)

MayStart(always) == ~cancelled /\ (always \/ keepStarting)

\* A recorded failure stops a run with FailFast.
StopsRun == keepStarting' \in {keepStarting, FALSE}

\* A test of `kind` takes the idle ticket `sort` of p, whose creation failure fails the test.
\* The run may be cancelled between take and run_test's own check: the test then doesn't
\* start and its session quits.
ServeFrom(p, kind, sort) ==
    LET served(cancel) == Replenish(Serve(p, kind, sort), keepStarting, cancel)
    IN  \/ /\ pool' = served(FALSE)
           /\ IF sort = "failed" THEN StopsRun ELSE UNCHANGED keepStarting
           /\ UNCHANGED cancelled
        \/ /\ \E cancel \in BOOLEAN :
                 pool' = IF sort = "failed" THEN served(cancel) ELSE Finished(served(cancel))
           /\ cancelled' = TRUE
           /\ UNCHANGED keepStarting

\* A test starts: it registers, and takes an idle session or waits for one.  At most
\* MaxConcurrency tests are started and unfinished (buffer_unordered), and each counted
\* test takes once.  The run may be cancelled before it first looks at the idle sessions.
Take(kind, always) ==
    LET registered(cancel) == Replenish(Register(pool, kind, always), keepStarting, cancel)
        p == registered(FALSE)
    IN  /\ ~pool.closed
        /\ MayStart(always)
        /\ pool.running + Total(pool.waiting) < MaxConcurrency
        /\ IF always THEN pool.upcomingAlways[kind] > 0
                     ELSE pool.upcoming[kind] > pool.upcomingAlways[kind]
        /\ \/ Takes(p, kind) = {} /\ pool' = p /\ UNCHANGED <<keepStarting, cancelled>>
           \/ \E sort \in Takes(p, kind) : ServeFrom(p, kind, sort)
           \/ /\ \E cancel \in BOOLEAN : pool' = GiveUp(registered(cancel), kind)
              /\ cancelled' = TRUE
              /\ UNCHANGED keepStarting

\* A waiting test, woken up, finds an idle session.
WaitEnds(kind) ==
    /\ ~cancelled
    /\ pool.waiting[kind] > 0
    /\ \E sort \in Takes(pool, kind) : ServeFrom(pool, kind, sort)

\* A waiting test, woken up, doesn't start anymore.
StopsWaiting(kind) ==
    /\ cancelled \/ ~keepStarting
    /\ pool.waiting[kind] > 0
    /\ pool' = GiveUp(pool, kind)
    /\ UNCHANGED <<keepStarting, cancelled>>

\* deliver, of a created session.
Deliver ==
    /\ pool.creating > 0
    /\ pool' = Delivered(pool, "created")
    /\ UNCHANGED <<keepStarting, cancelled>>

\* A session could not be created (or its run was cancelled): its worker delivers the
\* failure and ends.
CreationFails ==
    /\ pool.creating > 0
    /\ pool' = Ended(Delivered(pool, "failed"), keepStarting, cancelled)
    /\ UNCHANGED <<keepStarting, cancelled>>

\* The test of a session finished, and stops the run if it failed.  Its session is claimed
\* for a reset, if the pool wants it and it may run another test, or quits.
TestFinished ==
    /\ pool.running > 0
    /\ StopsRun
    /\ LET p == Finished(pool)
       IN  \/ pool' = p
           \/ WantsReset(p, keepStarting', cancelled) /\ pool' = Claimed(p)
    /\ UNCHANGED cancelled

\* A claimed session was reset, and is offered again.
ResetDone ==
    /\ pool.resetting > 0
    /\ pool' = DeliverReset(pool, keepStarting, cancelled)
    /\ UNCHANGED <<keepStarting, cancelled>>

\* reset_failed: the session quits.
ResetFails ==
    /\ pool.resetting > 0
    /\ pool' = Replenish(ResetOver(pool), keepStarting, cancelled)
    /\ UNCHANGED <<keepStarting, cancelled>>

\* The worker of a pool session that quit ended.  Recording its test may stop the run.
SessionEnded ==
    /\ Quitting(pool) > 0
    /\ StopsRun
    /\ pool' = Ended(pool, keepStarting', cancelled)
    /\ UNCHANGED cancelled

\* Every test is done: create no further sessions and let idle ones quit.
Close ==
    /\ ~pool.closed
    /\ pool.running = 0
    /\ Total(pool.waiting) = 0
    /\ pool' = Shut(pool)
    /\ UNCHANGED <<keepStarting, cancelled>>

\* A failure stops the run (a timed out test, whose pages are checked before it finished).
Stop ==
    /\ keepStarting' = FALSE
    /\ UNCHANGED <<pool, cancelled>>

Cancel ==
    /\ cancelled' = TRUE
    /\ UNCHANGED <<pool, keepStarting>>

Next ==
    \/ \E kind \in Kinds : \/ \E always \in BOOLEAN : Take(kind, always)
                           \/ WaitEnds(kind)
                           \/ StopsWaiting(kind)
    \/ Deliver
    \/ CreationFails
    \/ TestFinished
    \/ ResetDone
    \/ ResetFails
    \/ SessionEnded
    \/ Close
    \/ Stop
    \/ Cancel

Spec == Init /\ [][Next]_vars

-----------------------------------------------------------------------------
(* Properties *)

\* Every counter is a natural number: no unsigned subtraction of the pool underflows,
\* whatever order its clients call it in (`waiting -= 1`, `creating -= 1`, `running -= 1`,
\* `resetting -= 1` and `alive -= 1` have no check of their own).
TypeOK ==
    /\ pool \in PoolState
    /\ keepStarting \in BOOLEAN
    /\ cancelled \in BOOLEAN

\* As long as the pool is open, every waiting test has a session ready or on its way, and
\* every waiting test that needs a fresh one a fresh one.  Not every step that lowers the
\* supply replenishes: deliver_reset drops a session trusting that nobody needs it.
CoversWaiting ==
    ~pool.closed =>
        /\ Supply(pool) >= Total(pool.waiting)
        /\ FreshSupply(pool) >= pool.waiting["fresh"]

\* Tests taking a session or running in one never exceed the run's parallelism.
WithinConcurrency == pool.running + Total(pool.waiting) <= MaxConcurrency

\* Not counting sessions that quit or are being reset, at most MaxConcurrency + Spare
\* sessions are open, whatever waiting tests and creation failures force the pool to create.
KeptWithinBound ==
    pool.running + pool.creating + pool.idle["created"] + pool.idle["reset"] <= Bound

\* `alive` counts every session on its way to a test or running one, so that spares wait
\* for the ones quitting (a cancelled run drops sessions whose tickets stay in the queue).
AliveCountsOpen ==
    /\ pool.alive >= pool.creating
    /\ Quitting(pool) >= 0

\* The sessions a step creates.  Creations end one at a time: a created session is delivered
\* by a step that creates none, a failed one by a step that may create others in its place.
SessionsCreated ==
    pool'.creating - pool.creating
        + (IF pool'.idle["failed"] > pool.idle["failed"] THEN 1 ELSE 0)

\* A step that creates sessions, also one in place of a session that ended or could not be
\* created, stops as soon as no test needs another one: it leaves just enough fresh sessions
\* for the tests waiting for those, just enough for all that wait, or spares within the bound
\* on open browsers.  (Cancelled in between, a test may give up after a session was created
\* for it.)
CreatesOnlyWhatIsNeeded ==
    [][SessionsCreated > 0 /\ cancelled' = cancelled =>
          \/ FreshSupply(pool') = pool'.waiting["fresh"]
          \/ Supply(pool') = Total(pool'.waiting)
          \/ /\ pool'.alive <= Bound
             /\ Supply(pool') <=
                    Total(pool'.waiting) + Spares(pool', keepStarting, cancelled)]_vars

\* A cancelled run starts no browser anymore once no test waits for one, although it still
\* replenishes the pool every time a session ends.  (Before its waiting tests notice, a failed
\* reset may still be replaced.)
NoCreationOnceCancelled ==
    [][cancelled /\ Total(pool.waiting) = 0 =>
          pool'.alive <= pool.alive /\ pool'.creating <= pool.creating]_vars

=============================================================================
