--------------------------- MODULE ReplenishLoop ---------------------------
(***************************************************************************)
(* The loop of replenish_locked                                            *)
(* (browser-test/src/execution/session_pool.rs), round by round.  Module   *)
(* PoolCounts gives its outcome in closed form; this module shows that the *)
(* loop ends and that this is what it leaves.                              *)
(***************************************************************************)
EXTENDS PoolCounts

CONSTANT Limit      \* Bounds the counters of the pools the loop starts with.

ASSUME LimitAssumption == Limit \in Nat

VARIABLES
    before,     \* The pool that is replenished.
    state,      \* Its state in the loop.
    spares      \* Computed before the loop.

loopVars == <<before, state, spares>>

NeedsFresh == FreshSupply(state) < state.waiting["fresh"]
NeedsAny == Supply(state) < Total(state.waiting)
WantsSpare == Supply(state) < Total(state.waiting) + spares /\ state.alive < Bound

Loops == ~state.closed /\ (NeedsFresh \/ NeedsAny \/ WantsSpare)

\* Mutant: also one that a waiting test takes.
MakesWay_Eagerly ==
    /\ NeedsFresh
    /\ state.alive >= Bound
    /\ state.idle["reset"] >= state.waiting["any"] /\ state.idle["reset"] > 0

\* At the bound, a reset session no waiting test takes makes way for a fresh one.
MakesWay ==
    /\ NeedsFresh
    /\ state.alive >= Bound
    /\ state.idle["reset"] > state.waiting["any"]

Round ==
    /\ Loops
    /\ state' = [state EXCEPT !.idle["reset"] = IF MakesWay THEN @ - 1 ELSE @,
                             !.creating = @ + 1,
                             !.alive = @ + 1]
    /\ UNCHANGED <<before, spares>>

Leave == ~Loops /\ UNCHANGED loopVars

LoopNext == Round \/ Leave

\* The pools of a run whose counters are at most `limit`.
Pools(limit) ==
    {p \in [idle           : [Sorts -> 0 .. limit],
            creating       : 0 .. limit,
            resetting      : 0 .. limit,
            running        : {0},
            alive          : 0 .. Bound + limit,
            waiting        : [Kinds -> 0 .. MaxConcurrency],
            upcoming       : {Upcoming},
            upcomingAlways : {UpcomingAlways},
            closed         : BOOLEAN] :
        /\ p.alive >= p.creating + p.idle["created"] + p.idle["reset"] + p.resetting
        /\ Total(p.waiting) <= MaxConcurrency}

LoopInit ==
    /\ before \in Pools(Limit)
    /\ state = before
    /\ spares \in 0 .. Spare

LoopSpec == LoopInit /\ [][LoopNext]_loopVars

-----------------------------------------------------------------------------

\* When the loop ends, it leaves the pool that PoolCounts computes: fresh sessions first,
\* dropping resets only at the bound and only those no waiting test takes, then sessions for
\* the other waiting tests, then spares.  It ends, as each round adds a session and it
\* never has more than that pool.
LeavesOutcome ==
    /\ ~Loops => state = Replenished(before, spares)
    /\ state.alive <= Replenished(before, spares).alive
=============================================================================
