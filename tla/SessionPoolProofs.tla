-------------------------- MODULE SessionPoolProofs --------------------------
(***************************************************************************)
(* The session pool, for every parallelism, number of spare sessions and   *)
(* set of upcoming tests: what its critical sections make of its counters  *)
(* (the operators of PoolCounts), the loop of replenish_locked, and the    *)
(* safety properties of SessionPool.                                       *)
(*                                                                         *)
(* The invariants of SessionPool are not inductive one by one: that a      *)
(* session delivered after a reset is within the bound needs its room to   *)
(* be counted in `alive`, and that dropping it leaves the waiting tests    *)
(* covered needs the limit on how many tests are under way.  Inv joins     *)
(* them; a lemma per critical section shows what it makes of their parts.  *)
(***************************************************************************)
EXTENDS SessionPool, ReplenishLoop, TLAPS

USE ConcurrencyAssumption, SpareAssumption, UpcomingAssumption

-----------------------------------------------------------------------------
(* Numbers. *)

\* The counters of the pool are natural numbers, as their types in Rust say
\* (`usize`): the invariants show that their subtractions do not wrap.
LEMMA PoolFields ==
    ASSUME NEW p \in PoolState
    PROVE  /\ p.idle["created"] \in Nat /\ p.idle["failed"] \in Nat /\ p.idle["reset"] \in Nat
           /\ p.creating \in Nat /\ p.resetting \in Nat /\ p.running \in Nat /\ p.alive \in Nat
           /\ p.waiting["any"] \in Nat /\ p.waiting["fresh"] \in Nat
           /\ p.upcoming["any"] \in Nat /\ p.upcoming["fresh"] \in Nat
           /\ p.upcomingAlways["any"] \in Nat /\ p.upcomingAlways["fresh"] \in Nat
           /\ p.closed \in BOOLEAN
BY DEF PoolState, Tally, Kinds, Sorts

\* Upcoming::remove subtracts, saturating at zero.
LEMMA MonusFacts ==
    ASSUME NEW m \in Nat, NEW n \in Nat
    PROVE  /\ Monus(m, n) \in Nat
           /\ m <= n => Monus(m, n) = 0
           /\ m >= n => Monus(m, n) = m - n
BY DEF Monus

\* usize::min is one of its arguments and at most both.
LEMMA MinimumFacts ==
    ASSUME NEW m \in Nat, NEW n \in Nat
    PROVE  /\ Minimum(m, n) \in Nat
           /\ Minimum(m, n) <= m
           /\ Minimum(m, n) <= n
           /\ Minimum(m, n) \in {m, n}
BY DEF Minimum

\* PoolState::supply and fresh_supply are sums of counters.
LEMMA SupplyFacts ==
    ASSUME NEW p \in PoolState
    PROVE  /\ FreshSupply(p) \in Nat
           /\ Supply(p) \in Nat
           /\ Supply(p) = FreshSupply(p) + p.idle["reset"] + p.resetting
           /\ FreshSupply(p) = p.idle["created"] + p.idle["failed"] + p.creating
           /\ Total(p.waiting) = p.waiting["any"] + p.waiting["fresh"]
           /\ Total(p.waiting) \in Nat
           /\ Bound \in Nat
BY PoolFields DEF FreshSupply, FreshIdle, Supply, Total, Bound

\* The sessions replenish_locked creates, and the reset ones it drops, leave the
\* waiting tests covered: in all, and those that need a fresh session.
LEMMA CreatedFacts ==
    ASSUME NEW p \in PoolState, NEW aim \in Nat
    PROVE  /\ Created(p, aim) \in Nat
           /\ DroppedResets(p) \in 0 .. p.idle["reset"]
           /\ Supply(p) - DroppedResets(p) + Created(p, aim) >= Total(p.waiting)
           /\ FreshSupply(p) + Created(p, aim) >= p.waiting["fresh"]
<1>1. /\ FreshSupply(p) \in Nat
      /\ Supply(p) = FreshSupply(p) + p.idle["reset"] + p.resetting
      /\ Total(p.waiting) = p.waiting["any"] + p.waiting["fresh"]
      /\ Bound \in Nat
  BY PoolFields DEF FreshSupply, FreshIdle, Supply, Total, Bound
<1>2. /\ CreatedFresh(p) \in Nat
      /\ FreshSupply(p) + CreatedFresh(p) >= p.waiting["fresh"]
  BY <1>1, PoolFields DEF CreatedFresh, Monus
<1>3. DroppedResets(p) \in 0 .. p.idle["reset"]
  <2>1. Monus(CreatedFresh(p), Monus(Bound, p.alive)) \in Nat
    BY <1>1, <1>2, PoolFields DEF Monus
  <2>2. Monus(p.idle["reset"], p.waiting["any"]) \in 0 .. p.idle["reset"]
    BY PoolFields DEF Monus
  <2> QED BY <2>1, <2>2, PoolFields DEF DroppedResets, Minimum
<1>4. /\ CreatedAny(p) \in Nat
      /\ Supply(p) - DroppedResets(p) + CreatedFresh(p) + CreatedAny(p) >= Total(p.waiting)
  BY <1>1, <1>2, <1>3, PoolFields DEF CreatedAny, Monus
<1>5. CreatedSpares(p, aim) \in Nat
  BY <1>1, <1>2, <1>3, <1>4, PoolFields DEF CreatedSpares, Monus, Minimum
<1> QED
  BY <1>1, <1>2, <1>3, <1>4, <1>5, PoolFields DEF Created

\* What replenish_locked changes.
LEMMA ReplenishedFields ==
    ASSUME NEW p \in PoolState, NEW aim \in Nat, ~p.closed,
           NEW q, q = Replenished(p, aim)
    PROVE  /\ q \in PoolState
           /\ q.idle["created"] = p.idle["created"]
           /\ q.idle["failed"] = p.idle["failed"]
           /\ q.idle["reset"] = p.idle["reset"] - DroppedResets(p)
           /\ q.creating = p.creating + Created(p, aim)
           /\ q.alive = p.alive + Created(p, aim)
           /\ q.resetting = p.resetting
           /\ q.running = p.running
           /\ q.waiting = p.waiting
           /\ q.upcoming = p.upcoming
           /\ q.upcomingAlways = p.upcomingAlways
           /\ q.closed = p.closed
<1> DEFINE reset == p.idle["reset"] - DroppedResets(p)
           creating == p.creating + Created(p, aim)
           alive == p.alive + Created(p, aim)
<1>1. reset \in Nat /\ creating \in Nat /\ alive \in Nat
  BY CreatedFacts, PoolFields
<1>2. q = [p EXCEPT !.idle["reset"] = reset, !.creating = creating, !.alive = alive]
  BY DEF Replenished
<1> HIDE DEF reset, creating, alive
<1>3. [p.idle EXCEPT !["reset"] = reset] \in [Sorts -> Nat]
  BY <1>1 DEF PoolState, Sorts
<1>4. q.idle = [p.idle EXCEPT !["reset"] = reset]
  BY <1>2 DEF PoolState
<1>5. q \in PoolState
  BY <1>1, <1>2, <1>3 DEF PoolState
<1>6. /\ q.idle["created"] = p.idle["created"]
      /\ q.idle["failed"] = p.idle["failed"]
      /\ q.idle["reset"] = reset
  BY <1>3, <1>4 DEF PoolState, Sorts
<1>7. /\ q.creating = creating
      /\ q.alive = alive
      /\ q.resetting = p.resetting
      /\ q.running = p.running
      /\ q.waiting = p.waiting
      /\ q.upcoming = p.upcoming
      /\ q.upcomingAlways = p.upcomingAlways
      /\ q.closed = p.closed
  BY <1>2 DEF PoolState
<1> QED BY <1>5, <1>6, <1>7 DEF reset, creating, alive

-----------------------------------------------------------------------------
(* The invariants of a pool, apart from its run. *)

InUse(p) == p.running + p.creating + p.idle["created"] + p.idle["reset"]

Covers(p) ==
    ~p.closed => /\ Supply(p) >= Total(p.waiting)
                 /\ FreshSupply(p) >= p.waiting["fresh"]

Sound(p, cancel) ==
    /\ p \in PoolState
    /\ p.running + Total(p.waiting) <= MaxConcurrency
    /\ InUse(p) <= Bound
    /\ p.alive >= p.creating
    /\ ~cancel => p.alive >= InUse(p) + p.resetting
    /\ \A k \in Kinds : p.upcomingAlways[k] <= p.upcoming[k]

\* Replenishing keeps within the bound: fresh sessions are paid for by spare room or by
\* dropped resets, and what is left of resets, other sessions and spares is needed.
LEMMA ReplenishKeepsBound ==
    ASSUME NEW p \in PoolState, NEW aim \in 0 .. Spare, NEW cancel \in BOOLEAN,
           Sound(p, cancel), cancel => FreshSupply(p) >= p.waiting["fresh"]
    PROVE  InUse(p) - DroppedResets(p) + Created(p, aim) <= Bound
<1> DEFINE fresh == CreatedFresh(p)
           any == CreatedAny(p)
           extra == CreatedSpares(p, aim)
           dropped == DroppedResets(p)
<1>1. /\ fresh \in Nat /\ any \in Nat /\ extra \in Nat /\ dropped \in 0 .. p.idle["reset"]
      /\ Created(p, aim) = fresh + any + extra
      /\ Bound = MaxConcurrency + Spare
      /\ Total(p.waiting) = p.waiting["any"] + p.waiting["fresh"]
      /\ Supply(p) = FreshSupply(p) + p.idle["reset"] + p.resetting
      /\ FreshSupply(p) = p.idle["created"] + p.idle["failed"] + p.creating
      /\ InUse(p) = p.running + p.creating + p.idle["created"] + p.idle["reset"]
  <2>1. fresh \in Nat
    BY PoolFields DEF CreatedFresh, Monus, FreshSupply, FreshIdle
  <2>2. dropped \in 0 .. p.idle["reset"]
    BY CreatedFacts
  <2>3. any \in Nat
    BY <2>1, <2>2, PoolFields DEF CreatedAny, Monus, Supply, FreshSupply, FreshIdle, Total
  <2>4. extra \in Nat
    BY <2>1, <2>2, <2>3, PoolFields
       DEF CreatedSpares, Monus, Minimum, Supply, FreshSupply, FreshIdle, Total, Bound
  <2> QED
    BY <2>1, <2>2, <2>3, <2>4
       DEF Created, Bound, Total, Supply, FreshSupply, FreshIdle, InUse
<1>2. /\ p.running + Total(p.waiting) <= MaxConcurrency
      /\ InUse(p) <= Bound
      /\ ~cancel => p.alive >= InUse(p) + p.resetting
  BY DEF Sound
<1>3. CASE extra > 0
  <2>1. Supply(p) - dropped + fresh + any + extra <= Total(p.waiting) + aim
    BY <1>1, <1>3, PoolFields DEF CreatedSpares, Monus, Minimum
  <2> QED BY <1>1, <1>2, <2>1, PoolFields
<1>4. CASE extra = 0 /\ any > 0
  <2>1. Supply(p) - dropped + fresh + any = Total(p.waiting)
    BY <1>1, <1>4, PoolFields DEF CreatedAny, Monus
  <2> QED BY <1>1, <1>2, <1>4, <2>1, PoolFields
<1>5. CASE extra = 0 /\ any = 0 /\ fresh > 0
  <2>1. FreshSupply(p) + fresh = p.waiting["fresh"] /\ ~cancel
    BY <1>1, <1>5, PoolFields DEF CreatedFresh, Monus
  <2> DEFINE atBound == Monus(fresh, Monus(Bound, p.alive))
             unused == Monus(p.idle["reset"], p.waiting["any"])
  <2>2. /\ atBound \in Nat /\ unused \in Nat
        /\ dropped = atBound \/ dropped = unused
    BY <1>1, PoolFields DEF Monus, DroppedResets, Minimum
  <2>3. CASE dropped = unused
    <3>1. p.idle["reset"] - dropped <= p.waiting["any"]
      BY <1>1, <2>3, PoolFields DEF Monus
    <3> QED BY <1>1, <1>2, <1>5, <2>1, <3>1, PoolFields
  <2>4. CASE dropped = atBound
    <3>1. fresh - dropped <= Monus(Bound, p.alive)
      BY <1>1, <2>4, PoolFields DEF Monus
    <3>2. fresh - dropped <= 0 \/ fresh - dropped <= Bound - p.alive
      BY <1>1, <3>1, PoolFields DEF Monus
    <3> QED BY <1>1, <1>2, <1>5, <2>1, <3>2, PoolFields
  <2> QED BY <2>2, <2>3, <2>4
<1>6. CASE extra = 0 /\ any = 0 /\ fresh = 0
  BY <1>1, <1>2, <1>6, PoolFields
<1> QED BY <1>1, <1>3, <1>4, <1>5, <1>6

\* The spares replenish_locked aims at are a number of sessions, at most `spare`.
LEMMA SparesFacts ==
    ASSUME NEW p \in PoolState, NEW keep \in BOOLEAN, NEW cancel \in BOOLEAN
    PROVE  Spares(p, keep, cancel) \in 0 .. Spare
<1>1. Starting(p, keep, cancel) \in Nat
  BY PoolFields DEF Starting, Total
<1> QED BY <1>1 DEF Spares, Minimum

\* Replenishing preserves soundness and covers the waiting tests.
LEMMA ReplenishSound ==
    ASSUME NEW p, NEW keep \in BOOLEAN, NEW cancel \in BOOLEAN, NEW dead \in BOOLEAN,
           Sound(p, dead), dead /\ ~p.closed => FreshSupply(p) >= p.waiting["fresh"],
           NEW q, q = Replenish(p, keep, cancel)
    PROVE  Sound(q, dead) /\ Covers(q)
<1> DEFINE aim == Spares(p, keep, cancel)
<1>1. p \in PoolState /\ aim \in 0 .. Spare
  BY SparesFacts DEF Sound
<1>2. CASE p.closed
  BY <1>2 DEF Replenish, Replenished, Covers
<1>3. CASE ~p.closed
  <2> HIDE DEF aim
  <2>0. q = Replenished(p, aim) /\ aim \in Nat
    BY <1>1 DEF Replenish, aim
  <2>1. /\ q \in PoolState
        /\ q.idle["created"] = p.idle["created"]
        /\ q.idle["failed"] = p.idle["failed"]
        /\ q.idle["reset"] = p.idle["reset"] - DroppedResets(p)
        /\ q.creating = p.creating + Created(p, aim)
        /\ q.alive = p.alive + Created(p, aim)
        /\ q.resetting = p.resetting
        /\ q.running = p.running
        /\ q.waiting = p.waiting
        /\ q.upcoming = p.upcoming
        /\ q.upcomingAlways = p.upcomingAlways
        /\ q.closed = p.closed
    BY <1>1, <1>3, <2>0, ReplenishedFields
  <2>2. /\ Created(p, aim) \in Nat
        /\ DroppedResets(p) \in 0 .. p.idle["reset"]
        /\ Supply(p) - DroppedResets(p) + Created(p, aim) >= Total(p.waiting)
        /\ FreshSupply(p) + Created(p, aim) >= p.waiting["fresh"]
    BY <1>1, <2>0, CreatedFacts
  <2>3. InUse(p) - DroppedResets(p) + Created(p, aim) <= Bound
    BY <1>1, <1>3, ReplenishKeepsBound
  <2>4. Covers(q)
    BY <1>1, <2>1, <2>2, PoolFields DEF Covers, Supply, FreshSupply, FreshIdle
  <2>5. InUse(q) = InUse(p) - DroppedResets(p) + Created(p, aim)
    BY <1>1, <2>1, <2>2, PoolFields DEF InUse
  <2>6. /\ InUse(p) \in Nat
        /\ p.running + Total(p.waiting) <= MaxConcurrency
        /\ p.alive >= p.creating
        /\ ~dead => p.alive >= InUse(p) + p.resetting
        /\ \A k \in Kinds : p.upcomingAlways[k] <= p.upcoming[k]
    BY <1>1, PoolFields DEF Sound, InUse
  <2>7. /\ q.alive >= q.creating
        /\ ~dead => q.alive >= InUse(q) + q.resetting
    BY <1>1, <2>1, <2>2, <2>5, <2>6, PoolFields
  <2> QED BY <2>1, <2>3, <2>4, <2>5, <2>6, <2>7 DEF Sound
<1> QED BY <1>2, <1>3

-----------------------------------------------------------------------------
(* The other critical sections. *)

\* SessionPool::take, until it waits: the test counts as waiting, and the rest of
\* the pool's invariant is kept.
LEMMA RegisterSound ==
    ASSUME NEW p, NEW kind \in Kinds, NEW always \in BOOLEAN, NEW dead \in BOOLEAN,
           Sound(p, dead), p.running + Total(p.waiting) < MaxConcurrency,
           IF always THEN p.upcomingAlways[kind] > 0
                     ELSE p.upcoming[kind] > p.upcomingAlways[kind],
           NEW q, q = Register(p, kind, always)
    PROVE  Sound(q, dead) /\ q.waiting[kind] > 0
<1>1. p \in PoolState
  BY DEF Sound
<1>2. /\ q.idle = p.idle /\ q.creating = p.creating /\ q.resetting = p.resetting
      /\ q.running = p.running /\ q.alive = p.alive /\ q.closed = p.closed
      /\ q.waiting = [p.waiting EXCEPT ![kind] = @ + 1]
      /\ q.upcoming = [p.upcoming EXCEPT ![kind] = Monus(@, 1)]
      /\ q.upcomingAlways = [p.upcomingAlways EXCEPT ![kind] =
                                IF always THEN Monus(@, 1) ELSE @]
  BY <1>1 DEF Register, PoolState
<1>3. /\ q.waiting \in Tally /\ q.upcoming \in Tally /\ q.upcomingAlways \in Tally
      /\ Total(q.waiting) = Total(p.waiting) + 1
      /\ q.waiting[kind] > 0
      /\ \A k \in Kinds : q.upcomingAlways[k] <= q.upcoming[k]
  BY <1>1, <1>2 DEF Sound, PoolState, Tally, Kinds, Total, Monus
<1>4. q \in PoolState
  BY <1>1, <1>2, <1>3 DEF Register, PoolState
<1> QED
  BY <1>1, <1>2, <1>3, <1>4, PoolFields DEF Sound, InUse, Total

\* SessionPool::take, once a session is there: a test that got one no longer
\* waits, and the pool's invariant is kept.
LEMMA ServeSound ==
    ASSUME NEW p, NEW kind \in Kinds, NEW dead \in BOOLEAN, Sound(p, dead),
           p.waiting[kind] > 0, NEW sort \in Takes(p, kind),
           NEW q, q = Serve(p, kind, sort)
    PROVE  Sound(q, dead)
<1>1. p \in PoolState /\ sort \in Sorts /\ p.idle[sort] > 0
  BY DEF Sound, Takes
<1>2. /\ q.idle = [p.idle EXCEPT ![sort] = @ - 1]
      /\ q.creating = p.creating /\ q.resetting = p.resetting
      /\ q.running = IF sort = "failed" THEN p.running ELSE p.running + 1
      /\ q.alive = p.alive /\ q.closed = p.closed
      /\ q.waiting = [p.waiting EXCEPT ![kind] = @ - 1]
      /\ q.upcoming = p.upcoming /\ q.upcomingAlways = p.upcomingAlways
  BY <1>1 DEF Serve, PoolState
<1>3. /\ q.waiting \in Tally
      /\ Total(q.waiting) = Total(p.waiting) - 1
      /\ Total(p.waiting) \in Nat
  BY <1>1, <1>2 DEF PoolState, Tally, Kinds, Total
<1>4. /\ q.idle \in [Sorts -> Nat]
      /\ q.running + q.idle["created"] + q.idle["reset"] =
             p.running + p.idle["created"] + p.idle["reset"]
  BY <1>1, <1>2, PoolFields DEF PoolState, Sorts
<1>5. q \in PoolState
  <2>1. q.running \in Nat
    BY <1>1, <1>2, PoolFields
  <2>2. q = [p EXCEPT !.idle = q.idle, !.waiting = q.waiting, !.running = q.running]
    BY <1>1, <1>2 DEF Serve, PoolState
  <2> QED BY <1>1, <1>3, <1>4, <2>1, <2>2 DEF PoolState
<1>6. InUse(q) = InUse(p)
  BY <1>1, <1>2, <1>4, <1>5, PoolFields DEF InUse
<1>7. q.running + Total(q.waiting) <= MaxConcurrency
  BY <1>1, <1>2, <1>3, PoolFields DEF Sound
<1> QED
  BY <1>1, <1>2, <1>5, <1>6, <1>7, PoolFields DEF Sound

\* SessionPool::take counts the test as running only if a session was delivered,
\* not for a creation that failed.
LEMMA ServeRuns ==
    ASSUME NEW p \in PoolState, NEW kind \in Kinds, NEW sort \in Takes(p, kind),
           sort # "failed", NEW q, q = Serve(p, kind, sort)
    PROVE  q.running > 0
BY PoolFields DEF Serve, PoolState

\* SessionPool::take that gives up: the test no longer waits, and what covered it
\* still covers the others.
LEMMA GiveUpSound ==
    ASSUME NEW p, NEW kind \in Kinds, NEW dead \in BOOLEAN, Sound(p, dead), Covers(p),
           p.waiting[kind] > 0, NEW q, q = GiveUp(p, kind)
    PROVE  Sound(q, dead) /\ Covers(q)
<1>1. p \in PoolState
  BY DEF Sound
<1>2. /\ q.idle = p.idle /\ q.creating = p.creating /\ q.resetting = p.resetting
      /\ q.running = p.running /\ q.alive = p.alive /\ q.closed = p.closed
      /\ q.waiting = [p.waiting EXCEPT ![kind] = @ - 1]
      /\ q.upcoming = p.upcoming /\ q.upcomingAlways = p.upcomingAlways
  BY <1>1 DEF GiveUp, PoolState
<1>3. /\ q.waiting \in Tally
      /\ Total(q.waiting) = Total(p.waiting) - 1
      /\ Total(p.waiting) \in Nat
      /\ q.waiting["fresh"] <= p.waiting["fresh"]
  BY <1>1, <1>2 DEF PoolState, Tally, Kinds, Total
<1>4. q \in PoolState
  BY <1>1, <1>2, <1>3 DEF GiveUp, PoolState
<1>5. Sound(q, dead)
  BY <1>1, <1>2, <1>3, <1>4, PoolFields DEF Sound, InUse
<1>6. Covers(q)
  BY <1>1, <1>2, <1>3, <1>4, PoolFields DEF Covers, Supply, FreshSupply, FreshIdle
<1> QED BY <1>5, <1>6

\* SessionPool::test_finished keeps the pool's invariant.
LEMMA FinishedSound ==
    ASSUME NEW p, NEW dead \in BOOLEAN, Sound(p, dead), Covers(p), p.running > 0,
           NEW q, q = Finished(p)
    PROVE  /\ Sound(q, dead)
           /\ Covers(q)
           /\ ~dead => q.alive > InUse(q) + q.resetting
<1>1. p \in PoolState
  BY DEF Sound
<1>2. /\ q.idle = p.idle /\ q.creating = p.creating /\ q.resetting = p.resetting
      /\ q.running = p.running - 1 /\ q.alive = p.alive /\ q.closed = p.closed
      /\ q.waiting = p.waiting
      /\ q.upcoming = p.upcoming /\ q.upcomingAlways = p.upcomingAlways
  BY <1>1 DEF Finished, PoolState
<1>3. q \in PoolState
  BY <1>1, <1>2, PoolFields DEF Finished, PoolState
<1>4. Total(p.waiting) \in Nat
  BY <1>1, PoolFields DEF Total
<1>5. /\ InUse(p) \in Nat
      /\ InUse(q) = InUse(p) - 1
      /\ Total(q.waiting) = Total(p.waiting)
  BY <1>1, <1>2, PoolFields DEF InUse
<1>6. ~dead => q.alive > InUse(q) + q.resetting
  BY <1>1, <1>2, <1>5, PoolFields DEF Sound
<1>7. Sound(q, dead)
  BY <1>1, <1>2, <1>3, <1>4, <1>5, <1>6, PoolFields DEF Sound, Bound
<1>8. Covers(q)
  BY <1>2 DEF Covers, Supply, FreshSupply, FreshIdle
<1> QED BY <1>6, <1>7, <1>8
\* deliver, of a created session.
LEMMA DeliverSound ==
    ASSUME NEW p, NEW dead \in BOOLEAN, Sound(p, dead), Covers(p), p.creating > 0,
           NEW q, q = Delivered(p, "created")
    PROVE  Sound(q, dead) /\ Covers(q)
<1>1. p \in PoolState
  BY DEF Sound
<1>2. CASE p.closed
  <2>1. q = [p EXCEPT !.creating = p.creating - 1]
    BY <1>1, <1>2 DEF Delivered, Offer, PoolState
  <2>2. /\ q.idle = p.idle /\ q.creating = p.creating - 1 /\ q.resetting = p.resetting
        /\ q.running = p.running /\ q.alive = p.alive /\ q.closed = p.closed
        /\ q.waiting = p.waiting
        /\ q.upcoming = p.upcoming /\ q.upcomingAlways = p.upcomingAlways
    BY <1>1, <2>1 DEF PoolState
  <2>3. q \in PoolState
    BY <1>1, <2>1, PoolFields DEF PoolState
  <2>4. /\ InUse(p) \in Nat /\ InUse(q) = InUse(p) - 1
        /\ Total(q.waiting) = Total(p.waiting) /\ Total(p.waiting) \in Nat
    BY <1>1, <2>2, PoolFields DEF InUse, Total
  <2> QED
    <3>1. Sound(q, dead)
      BY <1>1, <2>2, <2>3, <2>4, PoolFields DEF Sound, Bound
    <3> QED BY <1>2, <2>2, <3>1 DEF Covers
<1>3. CASE ~p.closed
  <2>1. /\ q = [p EXCEPT !.creating = p.creating - 1, !.idle = q.idle]
        /\ q.idle = [p.idle EXCEPT !["created"] = @ + 1]
    BY <1>1, <1>3 DEF Delivered, Offer, PoolState
  <2>2. /\ q.creating = p.creating - 1 /\ q.resetting = p.resetting
        /\ q.running = p.running /\ q.alive = p.alive /\ q.closed = p.closed
        /\ q.waiting = p.waiting
        /\ q.upcoming = p.upcoming /\ q.upcomingAlways = p.upcomingAlways
    BY <1>1, <2>1 DEF PoolState
  <2>3. /\ q.idle \in [Sorts -> Nat]
        /\ q.idle["created"] = p.idle["created"] + 1
        /\ q.idle["failed"] = p.idle["failed"]
        /\ q.idle["reset"] = p.idle["reset"]
    BY <1>1, <2>1, PoolFields DEF PoolState, Sorts
  <2>4. q \in PoolState
    <3>1. q = [p EXCEPT !.creating = q.creating, !.idle = q.idle]
      BY <2>1, <2>2
    <3>2. q.creating \in Nat
      BY <1>1, <2>2, PoolFields
    <3> QED BY <1>1, <2>3, <3>1, <3>2 DEF PoolState
  <2>5. /\ InUse(p) \in Nat /\ InUse(q) = InUse(p)
        /\ Total(q.waiting) = Total(p.waiting) /\ Total(p.waiting) \in Nat
    BY <1>1, <2>2, <2>3, PoolFields DEF InUse, Total
  <2>6. FreshSupply(q) = FreshSupply(p) /\ Supply(q) = Supply(p)
    BY <1>1, <2>2, <2>3, PoolFields DEF FreshSupply, FreshIdle, Supply
  <2> QED
    BY <1>1, <1>3, <2>2, <2>4, <2>5, <2>6, PoolFields DEF Sound, Covers
<1> QED BY <1>2, <1>3

\* fail_creation and the end of the worker, up to its replenishing: a failed ticket stands
\* for the session that is no longer created.
LEMMA FailedCreationSound ==
    ASSUME NEW p, NEW dead \in BOOLEAN, Sound(p, dead), Covers(p), p.creating > 0,
           NEW q, q = Gone(Delivered(p, "failed"))
    PROVE  /\ Sound(q, dead)
           /\ ~q.closed => FreshSupply(q) >= q.waiting["fresh"]
<1>1. p \in PoolState
  BY DEF Sound
<1>2. /\ q = [p EXCEPT !.creating = p.creating - 1, !.alive = p.alive - 1, !.idle = q.idle]
      /\ q.idle = IF p.closed THEN p.idle ELSE [p.idle EXCEPT !["failed"] = @ + 1]
  BY <1>1 DEF Gone, Delivered, Offer, PoolState
<1>3. /\ q.creating = p.creating - 1 /\ q.resetting = p.resetting
      /\ q.running = p.running /\ q.alive = p.alive - 1 /\ q.closed = p.closed
      /\ q.waiting = p.waiting
      /\ q.upcoming = p.upcoming /\ q.upcomingAlways = p.upcomingAlways
  BY <1>1, <1>2 DEF PoolState
<1>4. /\ q.idle \in [Sorts -> Nat]
      /\ q.idle["created"] = p.idle["created"]
      /\ ~p.closed => q.idle["failed"] = p.idle["failed"] + 1
      /\ q.idle["reset"] = p.idle["reset"]
  BY <1>1, <1>2, PoolFields DEF PoolState, Sorts
<1>5. p.alive \in Nat /\ p.creating \in Nat /\ p.alive >= p.creating
  BY <1>1, PoolFields DEF Sound
<1>6. q \in PoolState
  <2>1. q = [p EXCEPT !.creating = q.creating, !.alive = q.alive, !.idle = q.idle]
    BY <1>2, <1>3
  <2>2. q.creating \in Nat /\ q.alive \in Nat
    BY <1>3, <1>5
  <2> QED BY <1>1, <1>4, <2>1, <2>2 DEF PoolState
<1>7. /\ InUse(p) \in Nat /\ InUse(q) = InUse(p) - 1
      /\ Total(q.waiting) = Total(p.waiting) /\ Total(p.waiting) \in Nat
  BY <1>1, <1>3, <1>4, PoolFields DEF InUse, Total
<1>8. ~p.closed => FreshSupply(q) = FreshSupply(p)
  BY <1>1, <1>3, <1>4, PoolFields DEF FreshSupply, FreshIdle
<1>9. ~q.closed => FreshSupply(q) >= q.waiting["fresh"]
  BY <1>3, <1>8 DEF Covers
<1>10. Sound(q, dead)
  BY <1>1, <1>3, <1>5, <1>6, <1>7, PoolFields DEF Sound, Bound
<1> QED BY <1>9, <1>10

\* claim_reset: the session of a finished test is among those that would quit.
LEMMA ClaimResetSound ==
    ASSUME NEW p, NEW dead \in BOOLEAN, Sound(p, dead), Covers(p),
           ~dead => p.alive > InUse(p) + p.resetting,
           NEW q, q = Claimed(p)
    PROVE  Sound(q, dead) /\ Covers(q)
<1>1. p \in PoolState
  BY DEF Sound
<1>2. /\ q.idle = p.idle /\ q.creating = p.creating /\ q.resetting = p.resetting + 1
      /\ q.running = p.running /\ q.alive = p.alive /\ q.closed = p.closed
      /\ q.waiting = p.waiting
      /\ q.upcoming = p.upcoming /\ q.upcomingAlways = p.upcomingAlways
  BY <1>1 DEF Claimed, PoolState
<1>3. q \in PoolState
  BY <1>1, PoolFields DEF Claimed, PoolState
<1>4. InUse(p) \in Nat /\ InUse(q) = InUse(p) /\ Total(q.waiting) = Total(p.waiting)
  BY <1>1, <1>2, PoolFields DEF InUse
<1>5. Sound(q, dead)
  BY <1>1, <1>2, <1>3, <1>4, PoolFields DEF Sound
<1>6. /\ FreshSupply(q) = FreshSupply(p) /\ Supply(q) = Supply(p) + 1
      /\ FreshSupply(p) \in Nat /\ Supply(p) \in Nat /\ Total(p.waiting) \in Nat
  BY <1>1, <1>2, PoolFields DEF FreshSupply, FreshIdle, Supply, Total
<1>7. Covers(q)
  BY <1>2, <1>4, <1>6 DEF Covers
<1> QED BY <1>5, <1>7

\* A session that is no longer reset: reset_failed before it replenishes.
LEMMA ResetEndsSound ==
    ASSUME NEW p, NEW dead \in BOOLEAN, Sound(p, dead), Covers(p), p.resetting > 0,
           NEW q, q = ResetOver(p)
    PROVE  /\ Sound(q, dead)
           /\ ~q.closed => FreshSupply(q) >= q.waiting["fresh"]
           /\ ~dead => q.alive > InUse(q) + q.resetting
           /\ q.closed = p.closed /\ q.waiting = p.waiting
           /\ Supply(q) = Supply(p) - 1
<1>1. p \in PoolState
  BY DEF Sound
<1>2. /\ q.idle = p.idle /\ q.creating = p.creating /\ q.resetting = p.resetting - 1
      /\ q.running = p.running /\ q.alive = p.alive /\ q.closed = p.closed
      /\ q.waiting = p.waiting
      /\ q.upcoming = p.upcoming /\ q.upcomingAlways = p.upcomingAlways
  BY <1>1 DEF ResetOver, PoolState
<1>3. q \in PoolState
  BY <1>1, PoolFields DEF ResetOver, PoolState
<1>4. InUse(p) \in Nat /\ InUse(q) = InUse(p)
  BY <1>1, <1>2, PoolFields DEF InUse
<1>5. ~dead => q.alive > InUse(q) + q.resetting
  BY <1>1, <1>2, <1>4, PoolFields DEF Sound
<1>6. Sound(q, dead)
  BY <1>1, <1>2, <1>3, <1>4, <1>5, PoolFields DEF Sound
<1>7. FreshSupply(q) = FreshSupply(p) /\ Supply(q) = Supply(p) - 1
  BY <1>1, <1>2, PoolFields DEF FreshSupply, FreshIdle, Supply
<1> QED BY <1>2, <1>5, <1>6, <1>7 DEF Covers

\* deliver_reset keeps its session only where the tests that can run at once need it, which
\* keeps within the bound, and drops it only where the waiting tests don't.
LEMMA DeliverResetSound ==
    ASSUME NEW p, NEW keep \in BOOLEAN, NEW cancel \in BOOLEAN, NEW dead \in BOOLEAN,
           Sound(p, dead), Covers(p), p.resetting > 0,
           NEW q, q = DeliverReset(p, keep, cancel)
    PROVE  Sound(q, dead) /\ Covers(q)
<1> DEFINE done == ResetOver(p)
           starting == Starting(done, keep, cancel)
           atOnce == Minimum(MaxConcurrency, done.running + Total(done.waiting) + starting)
<1>1. /\ Sound(done, dead)
      /\ ~done.closed => FreshSupply(done) >= done.waiting["fresh"]
      /\ ~dead => done.alive > InUse(done) + done.resetting
      /\ done.closed = p.closed /\ done.waiting = p.waiting
      /\ Supply(done) = Supply(p) - 1
  BY ResetEndsSound
<1> HIDE DEF done
<1>2. /\ done \in PoolState
      /\ done.running + Total(done.waiting) <= MaxConcurrency
  BY <1>1 DEF Sound
<1>3. starting \in Nat /\ Total(done.waiting) \in Nat
  BY <1>2, PoolFields DEF Starting, Total
<1>4. /\ atOnce \in Nat /\ atOnce <= MaxConcurrency
      /\ atOnce >= done.running + Total(done.waiting)
  BY <1>2, <1>3, PoolFields DEF Minimum
<1>5. /\ Minimum(Spare, starting) \in Nat /\ Minimum(Spare, starting) <= Spare
  BY <1>3 DEF Minimum
<1>6. KeepsReset(done, keep, cancel) <=>
          ~done.closed /\ done.running + Supply(done) < atOnce + Minimum(Spare, starting)
  BY DEF KeepsReset
<1>7. q = IF KeepsReset(done, keep, cancel) THEN Offer(done, "reset") ELSE done
  BY DEF DeliverReset, done
<1> HIDE DEF starting, atOnce
<1>8. /\ Supply(done) = FreshSupply(done) + done.idle["reset"] + done.resetting
      /\ FreshSupply(done) = done.idle["created"] + done.idle["failed"] + done.creating
      /\ InUse(done) = done.running + done.creating + done.idle["created"] + done.idle["reset"]
      /\ Bound = MaxConcurrency + Spare
  BY DEF Supply, FreshSupply, FreshIdle, InUse, Bound
<1>9. CASE KeepsReset(done, keep, cancel)
  <2>1. /\ ~done.closed
        /\ q = [done EXCEPT !.idle = q.idle]
        /\ q.idle = [done.idle EXCEPT !["reset"] = @ + 1]
    BY <1>2, <1>6, <1>7, <1>9 DEF Offer, PoolState
  <2>2. /\ q.creating = done.creating /\ q.resetting = done.resetting
        /\ q.running = done.running /\ q.alive = done.alive /\ q.closed = done.closed
        /\ q.waiting = done.waiting
        /\ q.upcoming = done.upcoming /\ q.upcomingAlways = done.upcomingAlways
    BY <1>2, <2>1 DEF PoolState
  <2>3. /\ q.idle \in [Sorts -> Nat]
        /\ q.idle["created"] = done.idle["created"]
        /\ q.idle["failed"] = done.idle["failed"]
        /\ q.idle["reset"] = done.idle["reset"] + 1
    BY <1>2, <2>1, PoolFields DEF PoolState, Sorts
  <2>4. q \in PoolState
    BY <1>2, <2>1, <2>3 DEF PoolState
  <2>5. /\ InUse(done) \in Nat /\ InUse(q) = InUse(done) + 1
        /\ Total(q.waiting) = Total(done.waiting)
    BY <1>2, <2>2, <2>3, PoolFields DEF InUse
  <2>6. InUse(q) <= Bound
    BY <1>2, <1>4, <1>5, <1>6, <1>8, <1>9, <2>5, PoolFields
  <2>7. Sound(q, dead)
    BY <1>1, <1>2, <2>2, <2>4, <2>5, <2>6, PoolFields DEF Sound
  <2>8. FreshSupply(q) = FreshSupply(done) /\ Supply(q) = Supply(done) + 1
    BY <1>2, <2>2, <2>3, PoolFields DEF FreshSupply, FreshIdle, Supply
  <2>9. Supply(q) = Supply(p)
    <3>1. Supply(done) \in Int
      BY <1>2, <1>8, PoolFields
    <3>2. Supply(p) \in Int
      BY PoolFields DEF Supply, FreshSupply, FreshIdle, Sound
    <3> QED BY <1>1, <2>8, <3>1, <3>2
  <2>10. Covers(q)
    BY <1>1, <2>2, <2>8, <2>9 DEF Covers
  <2> QED BY <2>7, <2>10
<1>10. CASE ~KeepsReset(done, keep, cancel)
  <2>1. q = done
    BY <1>7, <1>10
  <2>2. ~done.closed => done.running + Supply(done) >= atOnce
    BY <1>2, <1>4, <1>5, <1>6, <1>8, <1>10, PoolFields
  <2>3. ~done.closed => Supply(done) >= Total(done.waiting)
    BY <1>2, <1>3, <1>4, <1>8, <2>2, PoolFields
  <2> QED BY <1>1, <2>1, <2>3 DEF Covers
<1> QED BY <1>9, <1>10

\* The worker of a session that quit ended, before it replenishes.
LEMMA SessionGoneSound ==
    ASSUME NEW p, NEW dead \in BOOLEAN, Sound(p, dead), Covers(p),
           p.alive > p.creating, ~dead => p.alive > InUse(p) + p.resetting,
           NEW q, q = Gone(p)
    PROVE  /\ Sound(q, dead)
           /\ ~q.closed => FreshSupply(q) >= q.waiting["fresh"]
<1>1. p \in PoolState
  BY DEF Sound
<1>2. /\ q.idle = p.idle /\ q.creating = p.creating /\ q.resetting = p.resetting
      /\ q.running = p.running /\ q.alive = p.alive - 1 /\ q.closed = p.closed
      /\ q.waiting = p.waiting
      /\ q.upcoming = p.upcoming /\ q.upcomingAlways = p.upcomingAlways
  BY <1>1 DEF Gone, PoolState
<1>3. q \in PoolState
  BY <1>1, PoolFields DEF Gone, PoolState
<1>4. InUse(p) \in Nat /\ InUse(q) = InUse(p)
  BY <1>1, <1>2, PoolFields DEF InUse
<1>5. Sound(q, dead)
  BY <1>1, <1>2, <1>3, <1>4, PoolFields DEF Sound
<1>6. FreshSupply(q) = FreshSupply(p)
  BY <1>2 DEF FreshSupply, FreshIdle
<1> QED BY <1>2, <1>5, <1>6 DEF Covers

\* close.
LEMMA CloseSound ==
    ASSUME NEW p, NEW dead \in BOOLEAN, Sound(p, dead),
           NEW q, q = Shut(p)
    PROVE  Sound(q, dead) /\ Covers(q)
<1>1. p \in PoolState
  BY DEF Sound
<1>2. /\ q.idle = [s \in Sorts |-> 0] /\ q.creating = p.creating
      /\ q.resetting = p.resetting
      /\ q.running = p.running /\ q.alive = p.alive /\ q.closed = TRUE
      /\ q.waiting = p.waiting
      /\ q.upcoming = p.upcoming /\ q.upcomingAlways = p.upcomingAlways
  BY <1>1 DEF Shut, PoolState
<1>3. q \in PoolState
  BY <1>1 DEF Shut, PoolState, Sorts
<1>4. /\ q.idle["created"] = 0 /\ q.idle["failed"] = 0 /\ q.idle["reset"] = 0
  BY <1>2 DEF Sorts
<1>5. /\ InUse(p) \in Nat /\ InUse(q) \in Nat /\ InUse(q) <= InUse(p)
      /\ Bound \in Nat
  BY <1>1, <1>2, <1>4, PoolFields DEF InUse, Bound
<1>6. Sound(q, dead)
  BY <1>1, <1>2, <1>3, <1>5, PoolFields DEF Sound
<1> QED BY <1>2, <1>6 DEF Covers

\* A pool of a new run, before it replenishes.
LEMMA NewPoolSound ==
    ASSUME NEW dead \in BOOLEAN
    PROVE  /\ Sound(NewPool, dead)
           /\ FreshSupply(NewPool) >= NewPool.waiting["fresh"]
<1>1. /\ NewPool \in PoolState
      /\ NewPool.running = 0 /\ NewPool.creating = 0 /\ NewPool.alive = 0
      /\ NewPool.resetting = 0
      /\ \A s \in Sorts : NewPool.idle[s] = 0
      /\ \A k \in Kinds : NewPool.waiting[k] = 0
      /\ NewPool.upcoming = Upcoming /\ NewPool.upcomingAlways = UpcomingAlways
  BY DEF NewPool, PoolState, Tally
<1>2. InUse(NewPool) = 0 /\ Total(NewPool.waiting) = 0 /\ FreshSupply(NewPool) = 0
  BY <1>1 DEF InUse, Total, FreshSupply, FreshIdle, Sorts, Kinds
<1>3. Bound \in Nat
  BY DEF Bound
<1> QED BY <1>1, <1>2, <1>3 DEF Sound, Kinds

-----------------------------------------------------------------------------
(* The loop of replenish_locked                                            *)

LoopInv ==
    /\ before \in PoolState
    /\ state \in PoolState
    /\ spares \in Nat
    /\ Replenished(state, spares) = Replenished(before, spares)

\* What a round makes q of p, dropping `dropped` reset sessions.
AfterRound(p, q, n, dropped) ==
    /\ p \in PoolState /\ q \in PoolState /\ n \in Nat /\ dropped \in {0, 1}
    /\ q.idle["created"] = p.idle["created"] /\ q.idle["failed"] = p.idle["failed"]
    /\ q.idle["reset"] = p.idle["reset"] - dropped
    /\ q.creating = p.creating + 1 /\ q.alive = p.alive + 1
    /\ q.resetting = p.resetting /\ q.waiting = p.waiting
    /\ \/ FreshSupply(p) < p.waiting["fresh"]
       \/ Supply(p) < Total(p.waiting)
       \/ Supply(p) < Total(p.waiting) + n /\ p.alive < Bound
    /\ dropped = 1 <=> /\ FreshSupply(p) < p.waiting["fresh"]
                       /\ p.alive >= Bound
                       /\ p.idle["reset"] > p.waiting["any"]

\* A round takes one session off what remains to be created, and the reset session that makes
\* way for it, if any, off what remains to be dropped.
LEMMA RoundCounts ==
    ASSUME NEW p, NEW q, NEW n, NEW dropped, AfterRound(p, q, n, dropped)
    PROVE  /\ q.idle["reset"] - DroppedResets(q) = p.idle["reset"] - DroppedResets(p)
           /\ Created(q, n) = Created(p, n) - 1
<1> USE DEF AfterRound
<1>1. /\ FreshSupply(q) = FreshSupply(p) + 1
      /\ Supply(q) = Supply(p) + 1 - dropped
      /\ Total(q.waiting) = Total(p.waiting)
      /\ FreshSupply(p) \in Nat /\ Supply(p) \in Nat /\ Total(p.waiting) \in Nat
      /\ Bound \in Nat
  BY SupplyFacts, PoolFields
<1>2. /\ p.idle["reset"] \in Nat /\ p.alive \in Nat
      /\ p.waiting["any"] \in Nat /\ p.waiting["fresh"] \in Nat
  BY PoolFields
<1>0. /\ dropped \in {0, 1} /\ n \in Nat /\ p \in PoolState
      /\ q.idle["reset"] = p.idle["reset"] - dropped
      /\ q.alive = p.alive + 1 /\ q.waiting = p.waiting
      /\ dropped = 1 <=> /\ FreshSupply(p) < p.waiting["fresh"]
                         /\ p.alive >= Bound
                         /\ p.idle["reset"] > p.waiting["any"]
  OBVIOUS
<1> HIDE DEF AfterRound
<1>3. CASE FreshSupply(p) < p.waiting["fresh"]
  <2>1. /\ CreatedFresh(p) \in Nat
        /\ CreatedFresh(p) > 0
        /\ CreatedFresh(q) = CreatedFresh(p) - 1
    BY <1>0, <1>1, <1>2, <1>3 DEF CreatedFresh, Monus
  <2>2. DroppedResets(q) = DroppedResets(p) - dropped
    <3>1. CASE dropped = 1
      <4>1. Monus(Bound, p.alive) = 0 /\ Monus(Bound, q.alive) = 0
        BY <1>0, <1>1, <1>2, <3>1 DEF Monus
      <4> QED
        BY <1>0, <1>1, <1>2, <2>1, <3>1, <4>1 DEF DroppedResets, Monus, Minimum
    <3>2. CASE dropped = 0 /\ p.alive < Bound
      <4>1. /\ Monus(Bound, p.alive) = Bound - p.alive
            /\ Monus(Bound, q.alive) = Bound - p.alive - 1
        BY <1>0, <1>1, <1>2, <3>2 DEF Monus
      <4>2. Monus(CreatedFresh(q), Monus(Bound, q.alive)) =
                Monus(CreatedFresh(p), Monus(Bound, p.alive))
        BY <1>0, <1>1, <1>2, <2>1, <4>1 DEF Monus
      <4>3. Monus(q.idle["reset"], q.waiting["any"]) = Monus(p.idle["reset"], p.waiting["any"])
        BY <1>0, <1>2, <3>2
      <4>4. DroppedResets(p) \in Nat
        BY <1>0, CreatedFacts
      <4> QED BY <3>2, <4>2, <4>3, <4>4 DEF DroppedResets
    <3>3. CASE dropped = 0 /\ p.idle["reset"] <= p.waiting["any"]
      <4>1. Monus(q.idle["reset"], q.waiting["any"]) = 0
            /\ Monus(p.idle["reset"], p.waiting["any"]) = 0
        BY <1>0, <1>2, <3>3 DEF Monus
      <4>2. /\ Monus(CreatedFresh(q), Monus(Bound, q.alive)) \in Nat
            /\ Monus(CreatedFresh(p), Monus(Bound, p.alive)) \in Nat
        BY <1>0, <1>1, <1>2, <2>1 DEF Monus
      <4>3. DroppedResets(q) = 0 /\ DroppedResets(p) = 0
        BY <4>1, <4>2 DEF DroppedResets, Minimum
      <4> QED BY <3>3, <4>3
    <3> QED BY <1>0, <1>1, <1>2, <1>3, <3>1, <3>2, <3>3
  <2>3. DroppedResets(p) \in Nat
    BY <1>0, CreatedFacts
  <2>4. CreatedAny(q) = CreatedAny(p) /\ CreatedAny(p) \in Nat
    BY <1>0, <1>1, <2>1, <2>2, <2>3 DEF CreatedAny, Monus
  <2>5. CreatedSpares(q, n) = CreatedSpares(p, n) /\ CreatedSpares(p, n) \in Nat
    <3>1. /\ q.alive + (CreatedFresh(q) + CreatedAny(q)) =
                 p.alive + (CreatedFresh(p) + CreatedAny(p))
          /\ Supply(q) - DroppedResets(q) + (CreatedFresh(q) + CreatedAny(q)) =
                 Supply(p) - DroppedResets(p) + (CreatedFresh(p) + CreatedAny(p))
      BY <1>0, <1>1, <1>2, <2>1, <2>2, <2>3, <2>4
    <3>2. CreatedSpares(q, n) = CreatedSpares(p, n)
      BY <1>0, <1>1, <3>1 DEF CreatedSpares
    <3> QED
      BY <1>0, <1>1, <1>2, <2>1, <2>3, <2>4, <3>2 DEF CreatedSpares, Monus, Minimum
  <2> QED
    BY <1>0, <1>2, <2>1, <2>2, <2>3, <2>4, <2>5 DEF Created
<1>4. ASSUME ~(FreshSupply(p) < p.waiting["fresh"])
      PROVE  /\ dropped = 0
             /\ CreatedFresh(p) = 0 /\ CreatedFresh(q) = 0
             /\ DroppedResets(p) = 0 /\ DroppedResets(q) = 0
  <2>1. dropped = 0 /\ CreatedFresh(p) = 0 /\ CreatedFresh(q) = 0
    BY <1>0, <1>1, <1>2, <1>4 DEF CreatedFresh, Monus
  <2> QED
    BY <1>0, <1>1, <1>2, <2>1 DEF DroppedResets, Monus, Minimum
<1>5. CASE ~(FreshSupply(p) < p.waiting["fresh"]) /\ Supply(p) < Total(p.waiting)
  <2>1. /\ CreatedAny(p) \in Nat
        /\ CreatedAny(q) = CreatedAny(p) - 1
    BY <1>0, <1>1, <1>4, <1>5 DEF CreatedAny, Monus
  <2>2. CreatedSpares(q, n) = CreatedSpares(p, n) /\ CreatedSpares(p, n) \in Nat
    BY <1>0, <1>1, <1>2, <1>4, <1>5, <2>1 DEF CreatedSpares, Monus, Minimum
  <2> QED
    BY <1>0, <1>2, <1>4, <1>5, <2>1, <2>2 DEF Created
<1>6. CASE /\ ~(FreshSupply(p) < p.waiting["fresh"])
           /\ ~(Supply(p) < Total(p.waiting))
           /\ Supply(p) < Total(p.waiting) + n /\ p.alive < Bound
  <2>1. CreatedAny(p) = 0 /\ CreatedAny(q) = 0
    BY <1>0, <1>1, <1>4, <1>6 DEF CreatedAny, Monus
  <2>2. /\ CreatedSpares(p, n) \in Nat
        /\ CreatedSpares(q, n) = CreatedSpares(p, n) - 1
    BY <1>0, <1>1, <1>2, <1>4, <1>6, <2>1 DEF CreatedSpares, Monus, Minimum
  <2> QED
    BY <1>0, <1>2, <1>4, <1>6, <2>1, <2>2 DEF Created
<1> QED BY <1>3, <1>5, <1>6 DEF AfterRound

\* What a round does to the pool.
LEMMA RoundFields ==
    ASSUME state \in PoolState, spares \in Nat, Round
    PROVE  /\ state' \in PoolState
           /\ state'.closed = state.closed
           /\ state'.idle["reset"] - DroppedResets(state') = state.idle["reset"] - DroppedResets(state)
           /\ Created(state', spares) = Created(state, spares) - 1
<1> DEFINE dropped == IF MakesWay THEN 1 ELSE 0
<1>1. /\ state' = [state EXCEPT !.idle = state'.idle, !.creating = state'.creating,
                              !.alive = state'.alive]
      /\ state'.idle = [state.idle EXCEPT !["reset"] = IF MakesWay THEN @ - 1 ELSE @]
      /\ state'.creating = state.creating + 1
      /\ state'.alive = state.alive + 1
      /\ state'.resetting = state.resetting
      /\ state'.waiting = state.waiting
      /\ state'.closed = state.closed
  BY DEF Round, PoolState
<1>2. state.waiting["any"] \in Nat /\ state.idle["reset"] \in Nat
      /\ state.creating \in Nat /\ state.alive \in Nat
  BY PoolFields
<1>3. /\ dropped \in {0, 1}
      /\ MakesWay => state.idle["reset"] > 0
  BY <1>2 DEF MakesWay
<1>4. /\ state'.idle \in [Sorts -> Nat]
      /\ state'.idle["created"] = state.idle["created"]
      /\ state'.idle["failed"] = state.idle["failed"]
      /\ state'.idle["reset"] = state.idle["reset"] - dropped
  BY <1>1, <1>2, <1>3 DEF PoolState, Sorts
<1>5. state'.creating \in Nat /\ state'.alive \in Nat
  BY <1>1, <1>2
<1>6. state' \in PoolState
  BY <1>1, <1>4, <1>5 DEF PoolState
<1>7. dropped = 1 <=> /\ FreshSupply(state) < state.waiting["fresh"]
                      /\ state.alive >= Bound
                      /\ state.idle["reset"] > state.waiting["any"]
  BY DEF MakesWay, NeedsFresh
<1>8. \/ FreshSupply(state) < state.waiting["fresh"]
      \/ Supply(state) < Total(state.waiting)
      \/ Supply(state) < Total(state.waiting) + spares /\ state.alive < Bound
  BY DEF Round, Loops, NeedsFresh, NeedsAny, WantsSpare
<1>9. /\ state'.idle["reset"] - DroppedResets(state') =
             state.idle["reset"] - DroppedResets(state)
      /\ Created(state', spares) = Created(state, spares) - 1
  <2>1. AfterRound(state, state', spares, dropped)
    <3> HIDE DEF dropped
    <3> QED BY <1>1, <1>3, <1>4, <1>6, <1>7, <1>8 DEF AfterRound
  <2> HIDE DEF dropped
  <2> QED BY <2>1, RoundCounts
<1> QED BY <1>1, <1>6, <1>9

\* A round does not change the outcome.
LEMMA RoundKeepsOutcome ==
    ASSUME LoopInv, Round
    PROVE  LoopInv'
<1> USE DEF LoopInv
<1>1. /\ state' \in PoolState
      /\ state'.closed = state.closed
      /\ state'.idle["reset"] - DroppedResets(state') = state.idle["reset"] - DroppedResets(state)
      /\ Created(state', spares) = Created(state, spares) - 1
  BY RoundFields
<1>2. /\ before' = before /\ spares' = spares
      /\ ~state.closed
      /\ \E n : state' = [state EXCEPT !.idle["reset"] = n, !.creating = state.creating + 1,
                                     !.alive = state.alive + 1]
  BY DEF Round, Loops
<1>3. Replenished(state', spares) = Replenished(state, spares)
  <2> DEFINE reset == state.idle["reset"] - DroppedResets(state)
             creating == state.creating + Created(state, spares)
             alive == state.alive + Created(state, spares)
  <2>1. Replenished(state, spares) =
            [state EXCEPT !.idle["reset"] = reset, !.creating = creating, !.alive = alive]
    BY <1>2 DEF Replenished
  <2>2. Created(state, spares) \in Nat /\ state'.creating = state.creating + 1
        /\ state'.alive = state.alive + 1
    BY <1>2, CreatedFacts DEF PoolState
  <2>3. state'.creating + Created(state', spares) = creating
        /\ state'.alive + Created(state', spares) = alive
    BY <1>1, <2>2, PoolFields
  <2>4. Replenished(state', spares) =
            [state' EXCEPT !.idle["reset"] = reset, !.creating = creating, !.alive = alive]
    BY <1>1, <1>2, <2>3 DEF Replenished
  <2> HIDE DEF reset, creating, alive
  <2>5. PICK n : state' = [state EXCEPT !.idle["reset"] = n, !.creating = state.creating + 1,
                                      !.alive = state.alive + 1]
    BY <1>2
  <2>6. [state' EXCEPT !.idle["reset"] = reset, !.creating = creating, !.alive = alive] =
            [state EXCEPT !.idle["reset"] = reset, !.creating = creating, !.alive = alive]
    BY <2>5 DEF PoolState, Sorts
  <2> QED BY <2>1, <2>4, <2>6
<1> QED BY <1>1, <1>2, <1>3

\* A pool that needs nothing is replenished already.
LEMMA NothingToDo ==
    ASSUME state \in PoolState, spares \in Nat, ~Loops
    PROVE  Replenished(state, spares) = state
<1>1. CASE state.closed
  BY <1>1 DEF Replenished
<1>2. CASE ~state.closed
  <2>1. ~NeedsFresh /\ ~NeedsAny /\ ~WantsSpare
    BY <1>2 DEF Loops
  <2>2. FreshSupply(state) \in Nat /\ Supply(state) \in Nat /\ Total(state.waiting) \in Nat
        /\ Bound \in Nat
    BY SupplyFacts
  <2>3. CreatedFresh(state) = 0
    BY <2>1, <2>2, PoolFields DEF CreatedFresh, Monus, NeedsFresh
  <2>4. DroppedResets(state) = 0
    BY <2>2, <2>3, PoolFields DEF DroppedResets, Monus, Minimum
  <2>5. CreatedAny(state) = 0
    BY <2>1, <2>2, <2>3, <2>4 DEF CreatedAny, Monus, NeedsAny
  <2>6. CreatedSpares(state, spares) = 0
    BY <2>1, <2>2, <2>3, <2>4, <2>5, PoolFields DEF CreatedSpares, Monus, Minimum, WantsSpare
  <2>7. /\ Created(state, spares) = 0
        /\ state.idle["reset"] - DroppedResets(state) = state.idle["reset"]
        /\ state.creating + Created(state, spares) = state.creating
        /\ state.alive + Created(state, spares) = state.alive
    BY <2>3, <2>4, <2>5, <2>6, PoolFields DEF Created
  <2>8. Replenished(state, spares) =
            [state EXCEPT !.idle["reset"] = state.idle["reset"], !.creating = state.creating,
                         !.alive = state.alive]
    BY <1>2, <2>7 DEF Replenished
  <2> QED BY <2>8 DEF PoolState, Sorts
<1> QED BY <1>1, <1>2

\* Replenishing takes no session away.
LEMMA ReplenishedHasMore ==
    ASSUME state \in PoolState, spares \in Nat
    PROVE  state.alive <= Replenished(state, spares).alive
<1>1. CASE state.closed
  BY <1>1, PoolFields DEF Replenished
<1>2. CASE ~state.closed
  <2>1. Created(state, spares) \in Nat /\ state.alive \in Nat
    BY CreatedFacts, PoolFields
  <2>2. Replenished(state, spares).alive = state.alive + Created(state, spares)
    BY <1>2 DEF Replenished, PoolState
  <2> QED BY <2>1, <2>2
<1> QED BY <1>1, <1>2

\* The pools a loop starts with are pools.
LEMMA InitLoop == LoopInit => LoopInv
<1> SUFFICES ASSUME LoopInit PROVE LoopInv
  OBVIOUS
<1>1. before \in PoolState
  <2>1. 0 .. Limit \subseteq Nat /\ 0 .. MaxConcurrency \subseteq Nat
        /\ 0 .. (Bound + Limit) \subseteq Nat
    BY LimitAssumption DEF Bound
  <2>2. before \in [idle           : [Sorts -> 0 .. Limit],
                    creating       : 0 .. Limit,
                    resetting      : 0 .. Limit,
                    running        : {0},
                    alive          : 0 .. Bound + Limit,
                    waiting        : [Kinds -> 0 .. MaxConcurrency],
                    upcoming       : {Upcoming},
                    upcomingAlways : {UpcomingAlways},
                    closed         : BOOLEAN]
    BY DEF LoopInit, Pools
  <2>3. /\ before.idle \in [Sorts -> Nat] /\ before.waiting \in Tally
        /\ before.running \in Nat
        /\ before.upcoming \in Tally /\ before.upcomingAlways \in Tally
    <3>1. before.idle \in [Sorts -> 0 .. Limit]
      BY <2>2
    <3>2. before.waiting \in [Kinds -> 0 .. MaxConcurrency]
      BY <2>2
    <3>3. /\ before.running = 0
          /\ before.upcoming = Upcoming /\ before.upcomingAlways = UpcomingAlways
      BY <2>2
    <3>4. before.idle \in [Sorts -> Nat]
      BY <2>1, <3>1
    <3>5. before.waiting \in Tally
      BY <2>1, <3>2 DEF Tally
    <3> QED BY <3>3, <3>4, <3>5, UpcomingAssumption
  <2>4. before.closed \in BOOLEAN
    BY <2>2
  <2>5. before.alive \in Nat /\ before.creating \in Nat /\ before.resetting \in Nat
    BY <2>1, <2>2
  <2>6. before = [idle |-> before.idle, creating |-> before.creating,
                  resetting |-> before.resetting, running |-> before.running,
                  alive |-> before.alive, waiting |-> before.waiting,
                  upcoming |-> before.upcoming, upcomingAlways |-> before.upcomingAlways,
                  closed |-> before.closed]
    BY <2>2
  <2> QED BY <2>3, <2>4, <2>5, <2>6 DEF PoolState
<1> QED BY <1>1 DEF LoopInit, LoopInv

\* Whatever pool the loop starts with, it leaves the pool that Replenished gives, and never
\* creates more sessions than that.
THEOREM LoopOutcome == LoopSpec => []LeavesOutcome
<1>1. LoopInv /\ [LoopNext]_loopVars => LoopInv'
  <2>1. LoopInv /\ Round => LoopInv'
    BY RoundKeepsOutcome
  <2>2. LoopInv /\ UNCHANGED loopVars => LoopInv'
    BY DEF LoopInv, loopVars
  <2> QED BY <2>1, <2>2 DEF LoopNext, Leave
<1>2. LoopInv => LeavesOutcome
  BY NothingToDo, ReplenishedHasMore DEF LoopInv, LeavesOutcome
<1> QED BY InitLoop, <1>1, <1>2, PTL DEF LoopSpec

-----------------------------------------------------------------------------
(* The pool and its clients. *)

Inv ==
    /\ Sound(pool, cancelled)
    /\ Covers(pool)
    /\ keepStarting \in BOOLEAN
    /\ cancelled \in BOOLEAN

-----------------------------------------------------------------------------

\* What is sound in a run is sound in a cancelled one.
LEMMA SoundOnceCancelled ==
    ASSUME NEW p, NEW dead \in BOOLEAN, Sound(p, FALSE)
    PROVE  Sound(p, dead)
BY DEF Sound

\* Replenishing leaves the tests alone.
LEMMA ReplenishKeepsTests ==
    ASSUME NEW p \in PoolState, NEW keep \in BOOLEAN, NEW cancel \in BOOLEAN,
           NEW q, q = Replenish(p, keep, cancel)
    PROVE  q.running = p.running /\ q.waiting = p.waiting
<1> DEFINE aim == Spares(p, keep, cancel)
<1>1. aim \in Nat /\ q = Replenished(p, aim)
  BY SparesFacts DEF Replenish
<1> HIDE DEF aim
<1>2. CASE p.closed
  BY <1>1, <1>2 DEF Replenished
<1>3. CASE ~p.closed
  BY <1>1, <1>3, ReplenishedFields
<1> QED BY <1>2, <1>3

\* A test takes an idle ticket of a sound pool that has it.
LEMMA ServeFromInv ==
    ASSUME Inv, ~cancelled, NEW p, NEW kind \in Kinds, NEW sort \in Takes(p, kind),
           Sound(p, FALSE), p.waiting[kind] > 0, ServeFrom(p, kind, sort)
    PROVE  Inv'
<1> DEFINE serve == Serve(p, kind, sort)
           served(cancel) == Replenish(serve, keepStarting, cancel)
<1>1. Sound(serve, FALSE) /\ (sort # "failed" => serve.running > 0)
  BY ServeSound, ServeRuns DEF Sound
<1> HIDE DEF serve
<1>2. ASSUME NEW cancel \in BOOLEAN
      PROVE  /\ Sound(served(cancel), FALSE) /\ Covers(served(cancel))
             /\ sort # "failed" => served(cancel).running > 0
  <2>1. serve \in PoolState
    BY <1>1 DEF Sound
  <2> QED BY <1>1, <2>1, ReplenishSound, ReplenishKeepsTests DEF Inv
<1> HIDE DEF served
<1>3. CASE /\ pool' = served(FALSE)
           /\ IF sort = "failed" THEN StopsRun ELSE UNCHANGED keepStarting
           /\ UNCHANGED cancelled
  <2>1. Sound(pool', cancelled') /\ Covers(pool')
    BY <1>2, <1>3, SoundOnceCancelled DEF Inv
  <2>2. keepStarting' \in BOOLEAN
    BY <1>3 DEF Inv, StopsRun
  <2>3. Covers(pool)'
    BY <2>1 DEF Covers
  <2> QED BY <1>3, <2>1, <2>2, <2>3 DEF Inv
<1>4. ASSUME NEW cancel \in BOOLEAN, cancelled' = TRUE, UNCHANGED keepStarting,
             pool' = IF sort = "failed" THEN served(cancel) ELSE Finished(served(cancel))
      PROVE  Inv'
  <2>1. Sound(pool', FALSE) /\ Covers(pool')
    BY <1>2, <1>4, FinishedSound
  <2> QED BY <1>4, <2>1, SoundOnceCancelled DEF Inv
<1> QED
  BY <1>3, <1>4 DEF ServeFrom, serve, served

\* A test starts.
LEMMA TakeInv ==
    ASSUME Inv, NEW kind \in Kinds, NEW always \in BOOLEAN, Take(kind, always)
    PROVE  Inv'
<1> DEFINE register == Register(pool, kind, always)
           registered(cancel) == Replenish(register, keepStarting, cancel)
<1>1. ~cancelled /\ Sound(pool, FALSE)
  BY DEF Take, MayStart, Inv
<1>2. Sound(register, FALSE) /\ register.waiting[kind] > 0
  BY <1>1, RegisterSound DEF Take
<1> HIDE DEF register
<1>3. ASSUME NEW cancel \in BOOLEAN
      PROVE  /\ Sound(registered(cancel), FALSE) /\ Covers(registered(cancel))
             /\ registered(cancel).waiting[kind] > 0
  <2>1. register \in PoolState
    BY <1>2 DEF Sound
  <2> QED BY <1>2, <2>1, ReplenishSound, ReplenishKeepsTests DEF Inv
<1>4. CASE /\ pool' = registered(FALSE)
           /\ UNCHANGED <<keepStarting, cancelled>>
  BY <1>1, <1>3, <1>4, SoundOnceCancelled DEF Inv
<1>5. ASSUME NEW sort \in Takes(registered(FALSE), kind),
             ServeFrom(registered(FALSE), kind, sort)
      PROVE  Inv'
  BY <1>1, <1>3, <1>5, ServeFromInv
<1>6. ASSUME NEW cancel \in BOOLEAN, pool' = GiveUp(registered(cancel), kind),
             cancelled' = TRUE, UNCHANGED keepStarting
      PROVE  Inv'
  <2>1. Sound(pool', FALSE) /\ Covers(pool')
    BY <1>3, <1>6, GiveUpSound
  <2> QED BY <1>6, <2>1, SoundOnceCancelled DEF Inv
<1> QED
  BY <1>4, <1>5, <1>6 DEF Take, register, registered

-----------------------------------------------------------------------------
(* One step per action. *)

\* The pool that SessionPool::new makes, before any test, has the invariant.
LEMMA InitInv == Init => Inv
<1> SUFFICES ASSUME Init PROVE Inv
  OBVIOUS
<1>1. cancelled \in BOOLEAN /\ keepStarting = TRUE
  BY DEF Init
<1>2. pool = Replenish(NewPool, TRUE, cancelled)
  BY DEF Init
<1>3. Sound(NewPool, cancelled) /\ FreshSupply(NewPool) >= NewPool.waiting["fresh"]
  BY <1>1, NewPoolSound
<1>4. Sound(pool, cancelled) /\ Covers(pool)
  BY <1>1, <1>2, <1>3, ReplenishSound
<1> QED BY <1>1, <1>4 DEF Inv

\* Every operation of the pool keeps the invariant, one case per operation.
LEMMA StepInv == Inv /\ [Next]_vars => Inv'
<1> SUFFICES ASSUME Inv, [Next]_vars PROVE Inv'
  OBVIOUS
<1> USE DEF Inv
<1>1. ASSUME NEW kind \in Kinds, NEW always \in BOOLEAN, Take(kind, always)
      PROVE  Inv'
  BY <1>1, TakeInv
<1>2. ASSUME NEW kind \in Kinds, WaitEnds(kind)
      PROVE  Inv'
  <2>1. /\ ~cancelled /\ Sound(pool, FALSE)
        /\ pool.waiting[kind] > 0
        /\ \E sort \in Takes(pool, kind) : ServeFrom(pool, kind, sort)
    BY <1>2 DEF WaitEnds
  <2> QED BY <2>1, ServeFromInv
<1>3. ASSUME NEW kind \in Kinds, StopsWaiting(kind)
      PROVE  Inv'
  BY <1>3, GiveUpSound DEF StopsWaiting
<1>4. CASE Deliver
  BY <1>4, DeliverSound DEF Deliver
<1>5. CASE CreationFails
  <2> DEFINE gone == Gone(Delivered(pool, "failed"))
  <2>1. /\ Sound(gone, cancelled)
        /\ ~gone.closed => FreshSupply(gone) >= gone.waiting["fresh"]
    BY <1>5, FailedCreationSound DEF CreationFails
  <2>2. /\ pool' = Replenish(gone, keepStarting, cancelled)
        /\ UNCHANGED <<keepStarting, cancelled>>
    BY <1>5 DEF CreationFails, Ended
  <2> HIDE DEF gone
  <2> QED BY <2>1, <2>2, ReplenishSound
<1>6. CASE TestFinished
  <2> DEFINE p == Finished(pool)
  <2>1. /\ Sound(p, cancelled) /\ Covers(p)
        /\ ~cancelled => p.alive > InUse(p) + p.resetting
    BY <1>6, FinishedSound DEF TestFinished
  <2>2. /\ pool' = p \/ pool' = Claimed(p)
        /\ keepStarting' \in BOOLEAN /\ cancelled' = cancelled
    BY <1>6 DEF TestFinished, StopsRun
  <2> HIDE DEF p
  <2> QED BY <2>1, <2>2, ClaimResetSound
<1>7. CASE ResetDone
  BY <1>7, DeliverResetSound DEF ResetDone
<1>8. CASE ResetFails
  <2> DEFINE over == ResetOver(pool)
  <2>1. /\ Sound(over, cancelled)
        /\ ~over.closed => FreshSupply(over) >= over.waiting["fresh"]
    BY <1>8, ResetEndsSound DEF ResetFails
  <2>2. /\ pool' = Replenish(over, keepStarting, cancelled)
        /\ UNCHANGED <<keepStarting, cancelled>>
    BY <1>8 DEF ResetFails
  <2> HIDE DEF over
  <2> QED BY <2>1, <2>2, ReplenishSound
<1>9. CASE SessionEnded
  <2> DEFINE gone == Gone(pool)
  <2>1. pool.alive > pool.creating /\ (~cancelled => pool.alive > InUse(pool) + pool.resetting)
    BY <1>9, PoolFields DEF SessionEnded, Quitting, InUse, Sound
  <2>2. /\ Sound(gone, cancelled)
        /\ ~gone.closed => FreshSupply(gone) >= gone.waiting["fresh"]
    BY <2>1, SessionGoneSound
  <2>3. /\ pool' = Replenish(gone, keepStarting', cancelled)
        /\ keepStarting' \in BOOLEAN /\ cancelled' = cancelled
    BY <1>9 DEF SessionEnded, StopsRun, Ended
  <2> HIDE DEF gone
  <2> QED BY <2>2, <2>3, ReplenishSound
<1>10. CASE Close
  BY <1>10, CloseSound DEF Close
<1>11. CASE Stop
  BY <1>11 DEF Stop
<1>12. CASE Cancel
  BY <1>12 DEF Cancel, Sound
<1>13. CASE UNCHANGED vars
  BY <1>13 DEF vars
<1> QED
  BY <1>1, <1>2, <1>3, <1>4, <1>5, <1>6, <1>7, <1>8, <1>9, <1>10, <1>11, <1>12, <1>13
     DEF Next

\* The inductive invariant holds in every behaviour of the pool.
THEOREM Invariance == Spec => []Inv
<1> QED BY InitInv, StepInv, PTL DEF Spec

-----------------------------------------------------------------------------
(* The properties that TLC checks. *)

\* No counter of the pool ever underflows: each stays a natural number.
THEOREM Typed == Spec => []TypeOK
<1>1. Inv => TypeOK
  BY DEF Inv, Sound, TypeOK
<1> QED BY <1>1, Invariance, PTL

\* Every waiting test of an open pool has a session ready or on its way, of its kind.
THEOREM WaitingCovered == Spec => []CoversWaiting
<1>1. Inv => CoversWaiting
  BY DEF Inv, Covers, CoversWaiting
<1> QED BY <1>1, Invariance, PTL

\* The tests under way never exceed the parallelism of the run.
THEOREM ConcurrencyLimited == Spec => []WithinConcurrency
<1>1. Inv => WithinConcurrency
  BY DEF Inv, Sound, WithinConcurrency
<1> QED BY <1>1, Invariance, PTL

\* At most MaxConcurrency + Spare sessions are kept for tests.
THEOREM KeptSessionsBounded == Spec => []KeptWithinBound
<1>1. Inv => KeptWithinBound
  BY DEF Inv, Sound, KeptWithinBound, InUse
<1> QED BY <1>1, Invariance, PTL

\* `alive` counts every session the pool accounts for elsewhere.
THEOREM OpenSessionsCounted == Spec => []AliveCountsOpen
<1>1. Inv => AliveCountsOpen
  BY PoolFields DEF Inv, Sound, AliveCountsOpen, Quitting, InUse
<1> QED BY <1>1, Invariance, PTL

-----------------------------------------------------------------------------
(* A cancelled run. *)

\* Once a run is cancelled and no test waits, replenishing leaves the pool as it is.
LEMMA NothingToReplenish ==
    ASSUME NEW p \in PoolState, NEW keep \in BOOLEAN, Total(p.waiting) = 0,
           NEW q, q = Replenish(p, keep, TRUE)
    PROVE  q.alive = p.alive /\ q.creating = p.creating
<1>1. Spares(p, keep, TRUE) = 0
  BY SpareAssumption DEF Spares, Starting, Minimum
<1>2. CASE p.closed
  BY <1>1, <1>2 DEF Replenish, Replenished
<1>3. CASE ~p.closed
  <2>1. p.waiting["fresh"] = 0
    BY PoolFields DEF Total
  <2>2. CreatedFresh(p) = 0
    BY <2>1, SupplyFacts DEF CreatedFresh, Monus
  <2>3. DroppedResets(p) \in 0 .. p.idle["reset"]
    BY CreatedFacts
  <2>4. Supply(p) - DroppedResets(p) \in Nat
    BY <2>3, SupplyFacts, PoolFields
  <2>5. CreatedAny(p) = 0
    BY <2>2, <2>4 DEF CreatedAny, Monus
  <2>6. CreatedSpares(p, 0) = 0
    BY <2>2, <2>4, <2>5, SupplyFacts, PoolFields DEF CreatedSpares, Monus, Minimum
  <2>7. Created(p, 0) = 0
    BY <2>2, <2>5, <2>6 DEF Created
  <2>8. q = Replenished(p, 0)
    BY <1>1 DEF Replenish
  <2>9. p.alive \in Nat /\ p.creating \in Nat
    BY PoolFields
  <2>10. q.alive = p.alive + Created(p, 0) /\ q.creating = p.creating + Created(p, 0)
    <3> HIDE DEF Created
    <3> QED BY ONLY <1>3, <2>8, p \in PoolState DEF Replenished, PoolState
  <2> QED BY ONLY <2>7, <2>9, <2>10
<1> QED BY <1>2, <1>3

\* A cancelled run starts no browser once no test waits for one.
THEOREM CancelledCreatesNothing == Spec => NoCreationOnceCancelled
<1> DEFINE Quiet == cancelled /\ Total(pool.waiting) = 0 =>
                        pool'.alive <= pool.alive /\ pool'.creating <= pool.creating
<1>1. Inv /\ [Next]_vars => Quiet
  <2> SUFFICES ASSUME Inv, [Next]_vars, cancelled, Total(pool.waiting) = 0
               PROVE  pool'.alive <= pool.alive /\ pool'.creating <= pool.creating
    OBVIOUS
  <2>1. /\ pool \in PoolState /\ keepStarting \in BOOLEAN
        /\ pool.alive \in Nat /\ pool.creating \in Nat
        /\ \A kind \in Kinds : pool.waiting[kind] = 0
    <3>1. pool \in PoolState
      BY DEF Inv, Sound
    <3> QED BY <3>1, PoolFields DEF Inv, Total, Kinds
  <2>2. ASSUME NEW kind \in Kinds, NEW always \in BOOLEAN,
               Take(kind, always) \/ WaitEnds(kind) \/ StopsWaiting(kind)
        PROVE  FALSE
    BY <2>1, <2>2 DEF Take, MayStart, WaitEnds, StopsWaiting
  <2>3. CASE Deliver
    <3>1. pool' = Offer([pool EXCEPT !.creating = @ - 1], "created")
      BY <2>3 DEF Deliver, Delivered
    <3>2. pool'.alive = pool.alive /\ pool'.creating = pool.creating - 1
      BY <2>1, <3>1 DEF Offer, PoolState
    <3> QED BY <2>1, <3>2
  <2>4. CASE CreationFails
    <3> DEFINE gone == Gone(Delivered(pool, "failed"))
    <3>1. gone.alive = pool.alive - 1 /\ gone.creating = pool.creating - 1
          /\ gone.waiting = pool.waiting
      BY <2>1 DEF Gone, Delivered, Offer, PoolState
    <3>2. gone \in PoolState
      BY <2>4, FailedCreationSound DEF CreationFails, Inv, Sound
    <3>3. pool' = Replenish(gone, keepStarting, TRUE)
      BY <2>4 DEF CreationFails, Ended, Inv
    <3> HIDE DEF gone
    <3>4. pool'.alive = gone.alive /\ pool'.creating = gone.creating
      BY <2>1, <3>1, <3>2, <3>3, NothingToReplenish
    <3> QED BY <2>1, <3>1, <3>4
  <2>5. CASE TestFinished
    <3>1. pool' = Finished(pool) \/ pool' = Claimed(Finished(pool))
      BY <2>5 DEF TestFinished
    <3>2. pool'.alive = pool.alive /\ pool'.creating = pool.creating
      BY <2>1, <3>1, Zenon DEF Finished, Claimed, PoolState
    <3> QED BY <2>1, <3>2
  <2>6. CASE ResetDone
    <3>1. pool' = ResetOver(pool) \/ pool' = Offer(ResetOver(pool), "reset")
      BY <2>6 DEF ResetDone, DeliverReset
    <3>2. pool'.alive = pool.alive /\ pool'.creating = pool.creating
      BY <2>1, <3>1 DEF Offer, ResetOver, PoolState
    <3> QED BY <2>1, <3>2
  <2>7. CASE ResetFails
    <3> DEFINE over == ResetOver(pool)
    <3>1. over.alive = pool.alive /\ over.creating = pool.creating
          /\ over.waiting = pool.waiting
      BY <2>1 DEF ResetOver, PoolState
    <3>2. over \in PoolState
      BY <2>7, ResetEndsSound DEF ResetFails, Inv, Sound
    <3>3. pool' = Replenish(over, keepStarting, TRUE)
      BY <2>7 DEF ResetFails, Inv
    <3> HIDE DEF over
    <3>4. pool'.alive = over.alive /\ pool'.creating = over.creating
      BY <2>1, <3>1, <3>2, <3>3, NothingToReplenish
    <3> QED BY <2>1, <3>1, <3>4
  <2>8. CASE SessionEnded
    <3> DEFINE gone == Gone(pool)
    <3>1. gone.alive = pool.alive - 1 /\ gone.creating = pool.creating
          /\ gone.waiting = pool.waiting
      BY <2>1 DEF Gone, PoolState
    <3>2. pool.alive > pool.creating
      BY <2>8, PoolFields DEF SessionEnded, Quitting, Inv, Sound
    <3>3. gone \in PoolState
      BY <2>1, <3>2, PoolFields DEF Gone, PoolState
    <3>4. pool' = Replenish(gone, keepStarting', TRUE) /\ keepStarting' \in BOOLEAN
      BY <2>1, <2>8 DEF SessionEnded, StopsRun, Ended, Inv
    <3> HIDE DEF gone
    <3>5. pool'.alive = gone.alive /\ pool'.creating = gone.creating
      BY <3>1, <3>3, <3>4, NothingToReplenish
    <3> QED BY <2>1, <3>1, <3>5
  <2>9. CASE Close
    BY <2>1, <2>9 DEF Close, Shut, PoolState
  <2>10. CASE Stop \/ Cancel \/ UNCHANGED vars
    <3>1. pool' = pool
      BY <2>10 DEF Stop, Cancel, vars
    <3> QED BY <2>1, <3>1
  <2> QED
    BY <2>2, <2>3, <2>4, <2>5, <2>6, <2>7, <2>8, <2>9, <2>10 DEF Next
<1>2. Inv /\ [Next]_vars => [Quiet]_vars
  BY <1>1
<1> QED BY <1>2, Invariance, PTL DEF Spec, NoCreationOnceCancelled

-----------------------------------------------------------------------------
(* What is created. *)

\* A pool that replenish_locked leaves as soon as no test needs another session.
Needed(p, aim) ==
    \/ FreshSupply(p) = p.waiting["fresh"]
    \/ Supply(p) = Total(p.waiting)
    \/ p.alive <= Bound /\ Supply(p) <= Total(p.waiting) + aim

\* Each of the three phases of replenish_locked creates a number of sessions.
LEMMA CreatedParts ==
    ASSUME NEW p \in PoolState, NEW aim \in Nat
    PROVE  /\ CreatedFresh(p) \in Nat /\ CreatedAny(p) \in Nat
           /\ CreatedSpares(p, aim) \in Nat
<1>1. CreatedFresh(p) \in Nat
  BY SupplyFacts, PoolFields DEF CreatedFresh, Monus
<1>2. Supply(p) - DroppedResets(p) \in Int /\ Total(p.waiting) \in Nat /\ p.alive \in Nat
  <2>1. DroppedResets(p) \in 0 .. p.idle["reset"]
    BY CreatedFacts
  <2>2. p.idle["reset"] \in Nat /\ p.alive \in Nat
    BY PoolFields
  <2> QED BY <2>1, <2>2, SupplyFacts
<1>3. CreatedAny(p) \in Nat
  BY <1>1, <1>2 DEF CreatedAny, Monus
<1>4. CreatedSpares(p, aim) \in Nat
  BY <1>1, <1>2, <1>3, SupplyFacts DEF CreatedSpares, Monus, Minimum
<1> QED BY <1>1, <1>3, <1>4

\* The last session that replenish_locked creates is one that its loop still asked for.
LEMMA ReplenishIsNeeded ==
    ASSUME NEW p \in PoolState, NEW keep \in BOOLEAN, NEW cancel \in BOOLEAN,
           NEW q, q = Replenish(p, keep, cancel), q.alive # p.alive
    PROVE  Needed(q, Spares(q, keep, cancel))
<1> DEFINE aim == Spares(p, keep, cancel)
           fresh == CreatedFresh(p)
           any == CreatedAny(p)
           extra == CreatedSpares(p, aim)
           dropped == DroppedResets(p)
           total == Total(p.waiting)
<1>1. aim \in Nat /\ q = Replenished(p, aim)
  BY SparesFacts DEF Replenish
<1>2. ~p.closed
  BY <1>1 DEF Replenished
<1>3. /\ q \in PoolState /\ p.alive \in Nat
      /\ Supply(q) = Supply(p) - dropped + (fresh + any + extra)
      /\ FreshSupply(q) = FreshSupply(p) + (fresh + any + extra)
      /\ q.alive = p.alive + (fresh + any + extra)
      /\ q.waiting = p.waiting /\ Spares(q, keep, cancel) = aim
  <2> HIDE DEF aim
  <2>1. /\ q \in PoolState
        /\ q.idle["created"] = p.idle["created"] /\ q.idle["failed"] = p.idle["failed"]
        /\ q.idle["reset"] = p.idle["reset"] - dropped
        /\ q.creating = p.creating + (fresh + any + extra)
        /\ q.alive = p.alive + (fresh + any + extra)
        /\ q.resetting = p.resetting /\ q.waiting = p.waiting
        /\ q.upcoming = p.upcoming /\ q.upcomingAlways = p.upcomingAlways
    BY <1>1, <1>2, ReplenishedFields DEF Created
  <2>2. fresh + any + extra \in Nat /\ dropped \in 0 .. p.idle["reset"]
    BY <1>1, CreatedFacts DEF Created
  <2> HIDE DEF fresh, any, extra, dropped
  <2>3. Spares(q, keep, cancel) = Spares(p, keep, cancel)
    BY <2>1 DEF Spares, Starting
  <2>4. p.alive \in Nat /\ p.idle["reset"] \in Nat
    BY PoolFields
  <2>5. /\ FreshSupply(q) = FreshSupply(p) + (fresh + any + extra)
        /\ Supply(q) = Supply(p) - dropped + (fresh + any + extra)
    <3> DEFINE c == fresh + any + extra
    <3>1. /\ c \in Nat /\ dropped \in Nat
          /\ q.creating = p.creating + c
      BY <2>1, <2>2, <2>4
    <3> HIDE DEF c
    <3>2. /\ FreshSupply(q) = FreshSupply(p) + c /\ Supply(q) = Supply(p) - dropped + c
      BY <2>1, <3>1, PoolFields DEF FreshSupply, FreshIdle, Supply
    <3> QED BY <3>2 DEF c
  <2> QED BY <2>1, <2>3, <2>4, <2>5 DEF aim
<1>4. /\ FreshSupply(p) \in Nat /\ Supply(p) - dropped \in Nat /\ total \in Nat
      /\ p.waiting["fresh"] \in Nat
  <2>1. dropped \in 0 .. p.idle["reset"] /\ p.idle["reset"] \in Nat
    BY <1>1, CreatedFacts, PoolFields
  <2> HIDE DEF dropped
  <2> QED BY <2>1, SupplyFacts, PoolFields
<1>5. /\ fresh = Monus(p.waiting["fresh"], FreshSupply(p))
      /\ any = Monus(total, Supply(p) - dropped + fresh)
      /\ extra = Minimum(Monus(total + aim, Supply(p) - dropped + (fresh + any)),
                         Monus(Bound, p.alive + (fresh + any)))
  BY DEF CreatedFresh, CreatedAny, CreatedSpares
<1>6. Bound \in Nat
  BY SupplyFacts
<1> HIDE DEF fresh, any, extra, dropped, total, aim
<1>7. fresh \in Nat /\ (fresh # 0 => FreshSupply(p) + fresh = p.waiting["fresh"])
  BY <1>4, <1>5 DEF Monus
<1> DEFINE left == Supply(p) - dropped
<1>8. any \in Nat /\ (any # 0 => left + fresh + any = total)
  <2>1. left \in Nat
    BY <1>4
  <2> HIDE DEF left
  <2> QED BY <1>4, <1>5, <1>7, <2>1 DEF Monus, left
<1>9. /\ extra \in Nat
      /\ extra # 0 => left + fresh + any + extra <= total + aim
                       /\ p.alive + fresh + any + extra <= Bound
  <2>1. left \in Nat /\ p.alive \in Nat /\ fresh + any \in Nat
    BY <1>3, <1>4, <1>7, <1>8
  <2>2. extra = Minimum(Monus(total + aim, left + (fresh + any)),
                        Monus(Bound, p.alive + (fresh + any)))
    BY <1>5
  <2> HIDE DEF left
  <2> QED BY <1>1, <1>4, <1>6, <1>7, <1>8, <2>1, <2>2 DEF Monus, Minimum
<1>10. left \in Nat /\ total = Total(q.waiting)
  BY <1>3, <1>4 DEF total
<1>11. CASE extra # 0
  <2>1. q.alive <= Bound /\ Supply(q) <= Total(q.waiting) + Spares(q, keep, cancel)
    BY ONLY <1>1, <1>3, <1>4, <1>6, <1>7, <1>8, <1>9, <1>10, <1>11 DEF left
  <2> QED BY <2>1 DEF Needed
<1>12. CASE extra = 0 /\ any # 0
  <2>1. Supply(q) = Total(q.waiting)
    BY ONLY <1>3, <1>7, <1>8, <1>10, <1>12 DEF left
  <2> QED BY <2>1 DEF Needed
<1>13. CASE extra = 0 /\ any = 0
  <2>1. FreshSupply(q) = q.waiting["fresh"]
    BY ONLY q.alive # p.alive, <1>3, <1>4, <1>7, <1>13
  <2> QED BY <2>1 DEF Needed
<1> QED BY <1>11, <1>12, <1>13

\* A test's own session replaced, what is needed is still needed: another session is created
\* only if a test for a fresh one waits for it, or as a spare.
LEMMA ServedIsNeeded ==
    ASSUME NEW p \in PoolState, NEW keep \in BOOLEAN, NEW cancel \in BOOLEAN,
           NEW kind \in Kinds, NEW sort \in Takes(p, kind), p.waiting[kind] > 0,
           NEW q, q = Replenish(Serve(p, kind, sort), keep, cancel),
           q.alive # p.alive \/ (~p.closed /\ Needed(p, Spares(p, keep, cancel)))
    PROVE  Needed(q, Spares(q, keep, cancel))
<1> PICK serve : serve = Serve(p, kind, sort)
  OBVIOUS
<1>1. sort \in Sorts /\ p.idle[sort] > 0
  BY DEF Takes
<1>2. /\ serve.idle = [p.idle EXCEPT ![sort] = @ - 1]
      /\ serve.waiting = [p.waiting EXCEPT ![kind] = @ - 1]
      /\ serve.running = IF sort = "failed" THEN p.running ELSE p.running + 1
      /\ serve.creating = p.creating /\ serve.resetting = p.resetting
      /\ serve.alive = p.alive /\ serve.closed = p.closed
      /\ serve.upcoming = p.upcoming /\ serve.upcomingAlways = p.upcomingAlways
  BY <1>1 DEF Serve, PoolState
<1>3. serve \in PoolState
  <2>1. /\ serve.running \in Nat
        /\ serve.idle \in [Sorts -> Nat] /\ serve.waiting \in Tally
    BY <1>1, <1>2, PoolFields DEF PoolState, Tally, Kinds, Sorts
  <2>2. serve = [p EXCEPT !.idle = serve.idle, !.waiting = serve.waiting,
                          !.running = serve.running]
    BY <1>1, <1>2 DEF Serve, PoolState
  <2> QED BY <2>1, <2>2 DEF PoolState
<1>4. CASE q.alive # p.alive
  BY <1>2, <1>3, <1>4, ReplenishIsNeeded
<1>5. ASSUME q.alive = p.alive, ~p.closed, Needed(p, Spares(p, keep, cancel))
      PROVE  Needed(q, Spares(q, keep, cancel))
  <2> DEFINE aim == Spares(serve, keep, cancel)
  <2>1. aim \in Nat /\ q = Replenished(serve, aim) /\ ~serve.closed
    BY <1>2, <1>3, <1>5, SparesFacts DEF Replenish
  <2>2. /\ q.idle["created"] = serve.idle["created"] /\ q.idle["failed"] = serve.idle["failed"]
        /\ q.idle["reset"] = serve.idle["reset"] - DroppedResets(serve)
        /\ q.creating = serve.creating + Created(serve, aim)
        /\ q.alive = serve.alive + Created(serve, aim)
        /\ q.resetting = serve.resetting /\ q.waiting = serve.waiting
        /\ q.upcoming = serve.upcoming /\ q.upcomingAlways = serve.upcomingAlways
    <3> HIDE DEF aim
    <3> QED BY <1>3, <2>1, ReplenishedFields
  <2>3. Created(serve, aim) \in Nat /\ p.alive \in Nat
    BY <1>3, <2>1, CreatedFacts, PoolFields
  <2>4. Created(serve, aim) = 0
    <3> HIDE DEF aim
    <3> QED BY ONLY <1>2, <1>5, <2>2, <2>3
  <2>5. CreatedFresh(serve) = 0
    <3>1. /\ CreatedFresh(serve) \in Nat /\ CreatedAny(serve) \in Nat
          /\ CreatedSpares(serve, aim) \in Nat
      BY <1>3, <2>1, CreatedParts
    <3> HIDE DEF aim
    <3> QED BY <2>4, <3>1 DEF Created
  <2>6. FreshSupply(serve) >= serve.waiting["fresh"]
    BY <1>3, <2>5, SupplyFacts, PoolFields DEF CreatedFresh, Monus
  <2>7. DroppedResets(serve) = 0
    <3>1. Monus(0, Monus(Bound, serve.alive)) = 0
      BY <1>3, SupplyFacts, PoolFields DEF Monus
    <3>2. Monus(serve.idle["reset"], serve.waiting["any"]) \in Nat
      BY <1>3, PoolFields DEF Monus
    <3> QED BY <2>5, <3>1, <3>2 DEF DroppedResets, Minimum
  <2>8. /\ FreshSupply(q) = FreshSupply(serve) /\ Supply(q) = Supply(serve)
        /\ q.waiting = serve.waiting /\ q.alive = p.alive
    <3> HIDE DEF aim
    <3>1. q.creating = serve.creating /\ q.idle["reset"] = serve.idle["reset"]
      BY <1>3, <2>2, <2>4, <2>7, PoolFields
    <3> QED BY <1>5, <2>2, <3>1 DEF FreshSupply, FreshIdle, Supply
  <2>9. Spares(q, keep, cancel) = Spares(p, keep, cancel)
    BY <1>2, <2>2 DEF Spares, Starting
  <2>10. /\ Supply(serve) = Supply(p) - 1
         /\ Total(serve.waiting) = Total(p.waiting) - 1
         /\ sort # "reset" => FreshSupply(serve) = FreshSupply(p) - 1
         /\ sort = "reset" => FreshSupply(serve) = FreshSupply(p)
         /\ kind = "fresh" => serve.waiting["fresh"] = p.waiting["fresh"] - 1
         /\ kind = "any" => serve.waiting["fresh"] = p.waiting["fresh"]
         /\ kind = "any" \/ kind = "fresh"
         /\ kind = "fresh" => sort # "reset"
    <3>1. /\ Supply(serve) = Supply(p) - 1
          /\ sort # "reset" => FreshSupply(serve) = FreshSupply(p) - 1
          /\ sort = "reset" => FreshSupply(serve) = FreshSupply(p)
      BY <1>1, <1>2, PoolFields DEF Supply, FreshSupply, FreshIdle, PoolState, Sorts
    <3>2. /\ Total(serve.waiting) = Total(p.waiting) - 1
          /\ kind = "fresh" => serve.waiting["fresh"] = p.waiting["fresh"] - 1
          /\ kind = "any" => serve.waiting["fresh"] = p.waiting["fresh"]
          /\ kind = "any" \/ kind = "fresh"
      BY <1>2, PoolFields DEF Total, Kinds, PoolState, Tally
    <3>3. kind = "fresh" => sort # "reset"
      BY DEF Takes
    <3> QED BY <3>1, <3>2, <3>3
  <2>11. /\ FreshSupply(p) \in Nat /\ Supply(p) \in Nat /\ Total(p.waiting) \in Nat
         /\ p.waiting["fresh"] \in Nat /\ Spares(p, keep, cancel) \in Nat
    BY SupplyFacts, PoolFields, SparesFacts
  <2> HIDE DEF aim
  <2>12. CASE FreshSupply(p) = p.waiting["fresh"]
    <3>1. FreshSupply(serve) = serve.waiting["fresh"]
      BY ONLY <2>6, <2>10, <2>11, <2>12
    <3> QED BY <2>8, <3>1 DEF Needed
  <2>13. CASE Supply(p) = Total(p.waiting)
    BY <2>8, <2>10, <2>13 DEF Needed
  <2>14. CASE p.alive <= Bound /\ Supply(p) <= Total(p.waiting) + Spares(p, keep, cancel)
    <3>1. q.alive <= Bound /\ Supply(q) <= Total(q.waiting) + Spares(q, keep, cancel)
      BY ONLY <2>8, <2>9, <2>10, <2>11, <2>14
    <3> QED BY <3>1 DEF Needed
  <2> QED BY <1>5, <2>12, <2>13, <2>14 DEF Needed
<1> QED BY <1>4, <1>5

\* Once a failure stops the run, fewer tests are expected, and no more spares needed.
LEMMA SparesOnceStopped ==
    ASSUME NEW p, NEW dead \in BOOLEAN, Sound(p, dead), NEW cancel \in BOOLEAN,
           NEW keep \in BOOLEAN, NEW aim \in Nat, aim = Spares(p, keep, cancel),
           Needed(p, aim)
    PROVE  Needed(p, Spares(p, TRUE, cancel))
<1>1. p \in PoolState /\ Total(p.upcomingAlways) <= Total(p.upcoming)
  BY PoolFields DEF Sound, Total, Kinds
<1>2. Total(p.upcomingAlways) \in Nat /\ Total(p.upcoming) \in Nat
  BY <1>1, PoolFields DEF Total
<1>3. aim <= Spares(p, TRUE, cancel) /\ Spares(p, TRUE, cancel) \in Nat
  BY <1>1, <1>2 DEF Spares, Starting, Minimum
<1>4. Supply(p) \in Nat /\ Total(p.waiting) \in Nat /\ p.alive \in Nat
  BY <1>1, SupplyFacts, PoolFields
<1> PICK most : most = Spares(p, TRUE, cancel)
  OBVIOUS
<1>5. aim <= most /\ most \in Nat
  BY <1>3
<1>6. Needed(p, most)
  BY ONLY Needed(p, aim), aim \in Nat, <1>4, <1>5 DEF Needed
<1> QED BY <1>6

\* Replenishing offers no failure, and opens the sessions it creates.
LEMMA ReplenishCreates ==
    ASSUME NEW p \in PoolState, NEW keep \in BOOLEAN, NEW cancel \in BOOLEAN,
           NEW q, q = Replenish(p, keep, cancel)
    PROVE  /\ q.idle["failed"] = p.idle["failed"]
           /\ q.alive - p.alive = q.creating - p.creating
<1> DEFINE aim == Spares(p, keep, cancel)
<1>1. aim \in Nat /\ q = Replenished(p, aim)
  BY SparesFacts DEF Replenish
<1>2. CASE p.closed
  <2>1. q = p /\ p.alive \in Nat /\ p.creating \in Nat
    BY <1>1, <1>2, PoolFields DEF Replenished
  <2> QED BY <2>1
<1>3. CASE ~p.closed
  <2> HIDE DEF aim
  <2>1. /\ q.idle["failed"] = p.idle["failed"]
        /\ q.creating = p.creating + Created(p, aim)
        /\ q.alive = p.alive + Created(p, aim)
    BY <1>1, <1>3, ReplenishedFields
  <2>2. Created(p, aim) \in Nat /\ p.alive \in Nat /\ p.creating \in Nat
    BY <1>1, CreatedFacts, PoolFields
  <2> QED BY <2>1, <2>2
<1> QED BY <1>2, <1>3

\* A test that takes an idle ticket leaves the sessions as many as they are.
LEMMA ServeFields ==
    ASSUME NEW p \in PoolState, NEW kind \in Kinds, NEW sort \in Takes(p, kind),
           p.waiting[kind] > 0, NEW serve, serve = Serve(p, kind, sort)
    PROVE  /\ serve \in PoolState
           /\ serve.idle["failed"] <= p.idle["failed"]
           /\ serve.alive = p.alive /\ serve.creating = p.creating
<1>1. sort \in Sorts /\ p.idle[sort] > 0
  BY DEF Takes
<1>2. /\ serve.idle = [p.idle EXCEPT ![sort] = @ - 1]
      /\ serve.waiting = [p.waiting EXCEPT ![kind] = @ - 1]
      /\ serve.running = IF sort = "failed" THEN p.running ELSE p.running + 1
      /\ serve.creating = p.creating /\ serve.alive = p.alive
  BY <1>1 DEF Serve, PoolState
<1>3. /\ serve.running \in Nat
      /\ serve.idle \in [Sorts -> Nat] /\ serve.waiting \in Tally
  BY <1>1, <1>2, PoolFields DEF PoolState, Tally, Kinds, Sorts
<1>4. serve = [p EXCEPT !.idle = serve.idle, !.waiting = serve.waiting, !.running = serve.running]
  BY <1>1, <1>2 DEF Serve, PoolState
<1>5. serve \in PoolState
  BY <1>3, <1>4 DEF PoolState
<1> QED BY <1>1, <1>2, <1>5, PoolFields DEF PoolState, Sorts

\* A step that creates sessions creates those that are needed, one case per operation that
\* replenishes the pool.
LEMMA StepIsNeeded ==
    ASSUME Inv, [Next]_vars, SessionsCreated > 0, cancelled' = cancelled
    PROVE  Needed(pool', Spares(pool', keepStarting, cancelled))
<1> PICK keep \in BOOLEAN : keep = keepStarting
  BY DEF Inv
<1> PICK cancel \in BOOLEAN : cancel = cancelled
  BY DEF Inv
<1>1. pool \in PoolState /\ pool' \in PoolState /\ SessionsCreated > 0
  BY StepInv DEF Inv, Sound
<1>0. /\ pool'.creating >= pool.creating
      /\ pool'.idle["failed"] <= pool.idle["failed"] => pool'.creating > pool.creating
  BY <1>1, PoolFields DEF SessionsCreated
<1>2. ASSUME NEW p \in PoolState, NEW k \in BOOLEAN, pool' = Replenish(p, k, cancel),
             \/ p.creating < pool.creating
             \/ p.creating = pool.creating /\ p.idle["failed"] <= pool.idle["failed"]
      PROVE  Needed(pool', Spares(pool', k, cancel))
  <2>1. pool'.alive # p.alive
    <3>1. /\ pool'.idle["failed"] = p.idle["failed"]
          /\ pool'.alive - p.alive = pool'.creating - p.creating
      BY <1>2, ReplenishCreates
    <3> QED BY <1>0, <1>1, <1>2, <3>1, PoolFields
  <2> QED BY <1>2, <2>1, ReplenishIsNeeded
<1>3. ASSUME NEW p \in PoolState, NEW kind \in Kinds, NEW sort \in Takes(p, kind),
             p.waiting[kind] > 0, ~cancelled, ServeFrom(p, kind, sort),
             p.idle["failed"] <= pool.idle["failed"],
             p.alive - pool.alive = p.creating - pool.creating,
             p.alive = pool.alive \/ (~p.closed /\ Needed(p, Spares(p, keep, cancel)))
      PROVE  Needed(pool', Spares(pool', keep, cancel))
  <2>1. pool' = Replenish(Serve(p, kind, sort), keep, cancel)
    BY <1>3 DEF ServeFrom
  <2> PICK serve : serve = Serve(p, kind, sort)
    OBVIOUS
  <2>2. /\ serve \in PoolState /\ serve.idle["failed"] <= p.idle["failed"]
        /\ serve.alive = p.alive /\ serve.creating = p.creating
    BY <1>3, ServeFields
  <2>3. /\ pool'.idle["failed"] = serve.idle["failed"]
        /\ pool'.alive - serve.alive = pool'.creating - serve.creating
    BY <2>1, <2>2, ReplenishCreates
  <2>4. pool'.alive # p.alive \/ (~p.closed /\ Needed(p, Spares(p, keep, cancel)))
    BY <1>0, <1>1, <1>3, <2>2, <2>3, PoolFields
  <2> QED BY <1>3, <2>1, <2>4, ServedIsNeeded
<1>4. ASSUME NEW kind \in Kinds, NEW always \in BOOLEAN, Take(kind, always)
      PROVE  Needed(pool', Spares(pool', keep, cancel))
  <2> PICK register : register = Register(pool, kind, always)
    OBVIOUS
  <2> PICK p : p = Replenish(register, keep, cancel)
    OBVIOUS
  <2>1. ~cancelled /\ ~pool.closed
    BY <1>4 DEF Take, MayStart
  <2>2. /\ register.alive = pool.alive /\ register.closed = pool.closed
        /\ register.creating = pool.creating /\ register.idle = pool.idle
    BY <1>1 DEF Register, PoolState
  <2>3. Sound(register, cancel) /\ register.waiting[kind] > 0
    BY <1>4, RegisterSound DEF Take, Inv
  <2>4. register \in PoolState
    BY <2>3 DEF Sound
  <2>5. Sound(p, cancel) /\ p.waiting = register.waiting
    BY <2>1, <2>3, <2>4, ReplenishSound, ReplenishKeepsTests
  <2>6. p \in PoolState
    BY <2>5 DEF Sound
  <2>7. ~p.closed
    <3>1. /\ Spares(register, keep, cancel) \in Nat
          /\ p = Replenished(register, Spares(register, keep, cancel))
      BY <2>4, SparesFacts DEF Replenish
    <3> QED BY <2>1, <2>2, <2>4, <3>1, ReplenishedFields
  <2>8. p.alive = pool.alive \/ Needed(p, Spares(p, keep, cancel))
    BY <2>2, <2>4, ReplenishIsNeeded
  <2>12. /\ p.idle["failed"] = pool.idle["failed"]
         /\ p.alive - pool.alive = p.creating - pool.creating
    BY <2>2, <2>4, ReplenishCreates
  <2>13. p.idle["failed"] <= pool.idle["failed"]
    BY <1>1, <2>12, PoolFields
  <2>9. CASE pool' = p
    BY <1>0, <1>1, <2>8, <2>9, <2>12, <2>13, PoolFields
  <2>10. CASE \E sort \in Takes(p, kind) : ServeFrom(p, kind, sort)
    BY <1>3, <2>1, <2>3, <2>5, <2>6, <2>7, <2>8, <2>10, <2>12, <2>13
  <2>11. p = Replenish(Register(pool, kind, always), keepStarting, FALSE)
    BY <2>1
  <2> QED BY <1>4, <2>1, <2>9, <2>10, <2>11 DEF Take
<1>5. ASSUME NEW kind \in Kinds, WaitEnds(kind)
      PROVE  Needed(pool', Spares(pool', keep, cancel))
  <2>1. /\ pool.idle["failed"] <= pool.idle["failed"]
        /\ pool.alive - pool.alive = pool.creating - pool.creating
    BY <1>1, PoolFields
  <2>2. /\ pool.waiting[kind] > 0 /\ ~cancelled
        /\ \E sort \in Takes(pool, kind) : ServeFrom(pool, kind, sort)
    BY <1>5 DEF WaitEnds
  <2> QED BY <1>1, <1>3, <2>1, <2>2
<1>6. ASSUME NEW kind \in Kinds, StopsWaiting(kind)
      PROVE  FALSE
  <2>1. pool'.creating = pool.creating /\ pool'.idle = pool.idle
    BY <1>1, <1>6 DEF StopsWaiting, GiveUp, PoolState
  <2> QED BY <1>0, <1>1, <2>1, PoolFields
<1>7. CASE Deliver
  <2>1. pool' = Offer([pool EXCEPT !.creating = @ - 1], "created")
    BY <1>7 DEF Deliver, Delivered
  <2>2. pool'.creating = pool.creating - 1
    BY <1>1, <2>1 DEF Offer, PoolState
  <2> QED BY <1>0, <1>1, <2>2, PoolFields
<1>8. CASE CreationFails
  <2> DEFINE gone == Gone(Delivered(pool, "failed"))
  <2>1. gone.creating = pool.creating - 1
    BY <1>1 DEF Gone, Delivered, Offer, PoolState
  <2>2. gone \in PoolState
    BY <1>8, FailedCreationSound DEF CreationFails, Inv, Sound
  <2>3. pool' = Replenish(gone, keep, cancel)
    BY <1>8 DEF CreationFails, Ended
  <2> HIDE DEF gone
  <2>4. gone.creating < pool.creating
    BY <1>1, <2>1, PoolFields
  <2> QED BY <1>2, <2>2, <2>3, <2>4
<1>9. CASE TestFinished
  <2>1. pool' = Finished(pool) \/ pool' = Claimed(Finished(pool))
    BY <1>9 DEF TestFinished
  <2>2. pool'.creating = pool.creating /\ pool'.idle = pool.idle
    BY <1>1, <2>1, Zenon DEF Finished, Claimed, PoolState
  <2> QED BY <1>0, <1>1, <2>2, PoolFields
<1>10. CASE ResetDone
  <2>1. pool' = ResetOver(pool) \/ pool' = Offer(ResetOver(pool), "reset")
    BY <1>10 DEF ResetDone, DeliverReset
  <2>3. /\ ResetOver(pool).creating = pool.creating /\ ResetOver(pool).idle = pool.idle
        /\ ResetOver(pool) = [pool EXCEPT !.resetting = @ - 1]
    BY <1>1 DEF ResetOver, PoolState
  <2>2. pool'.creating = pool.creating /\ pool'.idle["failed"] = pool.idle["failed"]
    <3>1. CASE pool' = ResetOver(pool)
      BY <2>3, <3>1
    <3>2. CASE pool' = [ResetOver(pool) EXCEPT !.idle["reset"] = @ + 1]
      <4>1. pool'.idle = [pool.idle EXCEPT !["reset"] = @ + 1] /\ pool'.creating = pool.creating
        BY <1>1, <2>3, <3>2 DEF PoolState
      <4> QED BY <1>1, <4>1 DEF PoolState, Sorts
    <3> QED BY <2>1, <3>1, <3>2 DEF Offer
  <2> QED BY <1>0, <1>1, <2>2, PoolFields
<1>11. CASE ResetFails
  <2> DEFINE over == ResetOver(pool)
  <2>1. over.creating = pool.creating /\ over.idle = pool.idle
    BY <1>1 DEF ResetOver, PoolState
  <2>2. over \in PoolState
    BY <1>11, ResetEndsSound DEF ResetFails, Inv, Sound
  <2>3. pool' = Replenish(over, keep, cancel)
    BY <1>11 DEF ResetFails
  <2> HIDE DEF over
  <2>4. over.idle["failed"] <= pool.idle["failed"]
    BY <1>1, <2>1, PoolFields
  <2> QED BY <1>2, <2>1, <2>2, <2>3, <2>4
<1>12. CASE SessionEnded
  <2> DEFINE gone == Gone(pool)
  <2>1. gone.creating = pool.creating /\ gone.idle = pool.idle
    BY <1>1 DEF Gone, PoolState
  <2>2. pool.alive > pool.creating /\ (~cancelled => pool.alive > InUse(pool) + pool.resetting)
    BY <1>1, <1>12, PoolFields DEF SessionEnded, Quitting, InUse, Inv, Sound
  <2>3. gone \in PoolState
    BY <1>1, <2>2, PoolFields DEF Gone, PoolState
  <2>4. pool' = Replenish(gone, keepStarting', cancelled) /\ keepStarting' \in {keep, FALSE}
    BY <1>12 DEF SessionEnded, StopsRun, Ended
  <2> PICK later \in BOOLEAN : later = keepStarting'
    BY <2>4
  <2> HIDE DEF gone
  <2>5. gone.creating = pool.creating /\ gone.idle["failed"] <= pool.idle["failed"]
    BY <1>1, <2>1, PoolFields
  <2>6. Needed(pool', Spares(pool', later, cancel))
    BY <1>2, <2>3, <2>4, <2>5
  <2>7. Sound(pool', cancelled')
    BY StepInv DEF Inv
  <2>8. CASE later = keep
    BY <2>6, <2>8
  <2>9. CASE keep = TRUE
    <3>1. Spares(pool', later, cancel) \in Nat
      BY <2>7, SparesFacts DEF Sound
    <3>2. Sound(pool', cancel)
      BY <2>7
    <3> QED BY <2>6, <2>9, <3>1, <3>2, SparesOnceStopped
  <2> QED BY <2>4, <2>8, <2>9
<1>13. CASE Close
  <2>1. pool'.creating = pool.creating /\ pool'.idle["failed"] = 0
    BY <1>1, <1>13 DEF Close, Shut, PoolState, Sorts
  <2> QED BY <1>0, <1>1, <2>1, PoolFields
<1>14. CASE Stop \/ Cancel \/ UNCHANGED vars
  <2>1. pool' = pool
    BY <1>14 DEF Stop, Cancel, vars
  <2> QED BY <1>0, <1>1, <2>1, PoolFields
<1> QED
  BY <1>4, <1>5, <1>6, <1>7, <1>8, <1>9, <1>10, <1>11, <1>12, <1>13, <1>14 DEF Next

\* A step that creates sessions, also one in place of a session that ended or could not be
\* created, stops as soon as no test needs another one: replenish_locked creates no browser in
\* vain.
THEOREM NoBrowserInVain == Spec => CreatesOnlyWhatIsNeeded
<1> DEFINE Thrifty == SessionsCreated > 0 /\ cancelled' = cancelled =>
          \/ FreshSupply(pool') = pool'.waiting["fresh"]
          \/ Supply(pool') = Total(pool'.waiting)
          \/ /\ pool'.alive <= Bound
             /\ Supply(pool') <=
                    Total(pool'.waiting) + Spares(pool', keepStarting, cancelled)
<1>1. Inv /\ [Next]_vars => Thrifty
  BY StepIsNeeded DEF Needed
<1>2. Inv /\ [Next]_vars => [Thrifty]_vars
  BY <1>1
<1> QED BY <1>2, Invariance, PTL DEF Spec, CreatesOnlyWhatIsNeeded
=============================================================================
