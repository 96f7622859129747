----------------------------- MODULE PoolCounts -----------------------------
(***************************************************************************)
(* The counters of the session pool                                        *)
(* (browser-test/src/execution/session_pool.rs) and what its critical      *)
(* sections do to them.                                                    *)
(*                                                                         *)
(* A pool p is PoolState, with the queue of idle tickets reduced to how    *)
(* many there are of each sort.  Modules SessionPool (the pool and its     *)
(* clients), ReplenishLoop (the loop of replenish_locked) and Execution    *)
(* (tests and session workers) are built from these operators.             *)
(***************************************************************************)
EXTENDS Integers

CONSTANTS
    MaxConcurrency,     \* How many tests can run at the same time.
    Spare,              \* Sessions to keep ready beyond those requested.
    Upcoming,           \* Pool tests of the run, by kind.
    UpcomingAlways      \* Those of them that start even after a failure.

Kinds == {"any", "fresh"}       \* Tests taking any session, or a fresh one.
Sorts == {"created", "failed", "reset"}       \* Idle tickets.

Tally == [Kinds -> Nat]

ASSUME ConcurrencyAssumption == MaxConcurrency \in Nat \ {0}
ASSUME SpareAssumption == Spare \in Nat
ASSUME UpcomingAssumption ==
    /\ Upcoming \in Tally
    /\ UpcomingAlways \in Tally
    /\ \A k \in Kinds : UpcomingAlways[k] <= Upcoming[k]

PoolState ==
    [idle           : [Sorts -> Nat],   \* Sessions ready for a test, not yet taken.
     creating       : Nat,              \* Sessions being created for the pool.
     resetting      : Nat,              \* Sessions being reset for the pool.
     running        : Nat,              \* Pool sessions running a test.
     alive          : Nat,              \* Pool sessions whose worker did not end yet.
     waiting        : Tally,            \* Tests waiting for a pool session.
     upcoming       : Tally,            \* Pool tests that did not request one yet.
     upcomingAlways : Tally,            \* Those of them that run always.
     closed         : BOOLEAN]

-----------------------------------------------------------------------------
(* What the pool has and what it needs. *)

Minimum(m, n) == IF m <= n THEN m ELSE n
Monus(m, n) == IF m >= n THEN m - n ELSE 0
Total(tally) == tally["any"] + tally["fresh"]

\* Only tickets of the sort "reset" are not fresh: a failed creation goes to whichever test
\* takes it.
FreshIdle(p) == p.idle["created"] + p.idle["failed"]
FreshSupply(p) == FreshIdle(p) + p.creating
Supply(p) == FreshSupply(p) + p.idle["reset"] + p.resetting

Bound == MaxConcurrency + Spare

\* Mutant: a cancelled run keeps preparing for the tests it will not start.
Starting_IgnoresCancel(p, keep, cancel) ==
    IF keep THEN Total(p.upcoming) ELSE Total(p.upcomingAlways)

\* The upcoming tests that will still start.
Starting(p, keep, cancel) ==
    IF cancel THEN 0 ELSE IF keep THEN Total(p.upcoming) ELSE Total(p.upcomingAlways)

StartingAny(p, keep, cancel) ==
    IF cancel THEN 0 ELSE IF keep THEN p.upcoming["any"] ELSE p.upcomingAlways["any"]

Spares(p, keep, cancel) == Minimum(Spare, Starting(p, keep, cancel))

(***************************************************************************)
(* The outcome of replenish_locked's loop, which creates one session per   *)
(* round.  Its rounds come in three phases: fresh sessions for waiting     *)
(* tests that need them (at the bound each drops an idle reset session no  *)
(* waiting test takes), sessions for the other waiting tests, and spares   *)
(* while fewer sessions than the bound are alive.                          *)
(***************************************************************************)
CreatedFresh(p) == Monus(p.waiting["fresh"], FreshSupply(p))

\* Mutant: no reset session makes way for a fresh one.
DroppedResets_None(p) == 0

DroppedResets(p) ==
    Minimum(Monus(CreatedFresh(p), Monus(Bound, p.alive)),
            Monus(p.idle["reset"], p.waiting["any"]))

CreatedAny(p) ==
    Monus(Total(p.waiting), Supply(p) - DroppedResets(p) + CreatedFresh(p))

\* Mutant: spares are created whatever number of sessions is open.
CreatedSpares_Unbounded(p, spares) ==
    Monus(Total(p.waiting) + spares,
          Supply(p) - DroppedResets(p) + CreatedFresh(p) + CreatedAny(p))

CreatedSpares(p, spares) ==
    LET created == CreatedFresh(p) + CreatedAny(p)
    IN  Minimum(Monus(Total(p.waiting) + spares, Supply(p) - DroppedResets(p) + created),
                Monus(Bound, p.alive + created))

Created(p, spares) == CreatedFresh(p) + CreatedAny(p) + CreatedSpares(p, spares)

Replenished(p, spares) ==
    IF p.closed THEN p
    ELSE [p EXCEPT !.idle["reset"] = @ - DroppedResets(p),
                   !.creating = @ + Created(p, spares),
                   !.alive = @ + Created(p, spares)]

Replenish(p, keep, cancel) == Replenished(p, Spares(p, keep, cancel))

-----------------------------------------------------------------------------
(* The critical sections of the pool, on its state. *)

\* take, up to its first look at the idle sessions.
Register(p, kind, always) ==
    [p EXCEPT !.upcoming[kind] = Monus(@, 1),
              !.upcomingAlways[kind] = IF always THEN Monus(@, 1) ELSE @,
              !.waiting[kind] = @ + 1]

\* The sorts of idle tickets a test of `kind` takes next: a fresh one if it needs one,
\* otherwise a reset one as long as there are any.
Takes(p, kind) ==
    {s \in Sorts : /\ p.idle[s] > 0
                   /\ (s = "reset") <=> (kind = "any" /\ p.idle["reset"] > 0)}

\* Mutant: the session's test is not counted as running.
Serve_NotRunning(p, kind, sort) ==
    [p EXCEPT !.idle[sort] = @ - 1, !.waiting[kind] = @ - 1]

\* take, when it finds the idle session.
Serve(p, kind, sort) ==
    [p EXCEPT !.idle[sort] = @ - 1,
              !.waiting[kind] = @ - 1,
              !.running = IF sort = "failed" THEN @ ELSE @ + 1]

GiveUp(p, kind) == [p EXCEPT !.waiting[kind] = @ - 1]

Finished(p) == [p EXCEPT !.running = @ - 1]

Offer(p, sort) == IF p.closed THEN p ELSE [p EXCEPT !.idle[sort] = @ + 1]

\* A session being created was, or could not be.
Delivered(p, sort) == Offer([p EXCEPT !.creating = @ - 1], sort)

\* The worker of a pool session ended: session_ended, up to its replenishing.
Gone(p) == [p EXCEPT !.alive = @ - 1]

Ended(p, keep, cancel) == Replenish(Gone(p), keep, cancel)

\* claim_reset, and the end of the reset it allowed.
Claimed(p) == [p EXCEPT !.resetting = @ + 1]
ResetOver(p) == [p EXCEPT !.resetting = @ - 1]

\* close.
Shut(p) == [p EXCEPT !.closed = TRUE, !.idle = [s \in Sorts |-> 0]]

\* Mutant: deliver_reset counts the session that was reset twice, against itself.
KeepsReset_CountsItself(p, keep, cancel) ==
    LET starting == Starting(p, keep, cancel)
        atOnce   == Minimum(MaxConcurrency, p.running + Total(p.waiting) + starting)
    IN  ~p.closed /\ p.running + Supply(p) + 1 < atOnce + Minimum(Spare, starting)

\* deliver_reset keeps a session only while there are fewer than tests that can run at the
\* same time and spares need.
KeepsReset(p, keep, cancel) ==
    LET starting == Starting(p, keep, cancel)
        atOnce   == Minimum(MaxConcurrency, p.running + Total(p.waiting) + starting)
    IN  ~p.closed /\ p.running + Supply(p) < atOnce + Minimum(Spare, starting)

DeliverReset(p, keep, cancel) ==
    LET done == ResetOver(p)
    IN  IF KeepsReset(done, keep, cancel) THEN Offer(done, "reset") ELSE done

\* claim_reset: whether the session of a finished test is reset rather than quit.
WantsReset(p, keep, cancel) ==
    ~p.closed /\ p.waiting["any"] + StartingAny(p, keep, cancel) > 0

-----------------------------------------------------------------------------

NewPool ==
    [idle           |-> [s \in Sorts |-> 0],
     creating       |-> 0,
     resetting      |-> 0,
     running        |-> 0,
     alive          |-> 0,
     waiting        |-> [k \in Kinds |-> 0],
     upcoming       |-> Upcoming,
     upcomingAlways |-> UpcomingAlways,
     closed         |-> FALSE]
=============================================================================
