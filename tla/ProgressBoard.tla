---------------------------- MODULE ProgressBoard ----------------------------
(***************************************************************************)
(* The watchdog of a run (progress.rs): tests and sessions enter phases on *)
(* the board, and every tick the watchdog warns of those that last longer  *)
(* than their threshold once more.  Time is counted in units of the least  *)
(* tick.  The watchdog runs on the task of the tests: it may run late.     *)
(***************************************************************************)
EXTENDS Naturals, Sequences, FiniteSetsExt, Functions

CONSTANTS
    Activities,
    TestRunning, Session,   \* ProgressWarnings: the thresholds.
    MinTick, MaxTick,       \* What the tick is clamped to: 50ms and 1s.
    Never,                  \* No threshold.
    MaxLate,                \* How late the watchdog runs at most.
    MaxTime

ASSUME BoardAssumption ==
    /\ {TestRunning, Session} \subseteq Nat \cup {Never} /\ Never \notin Nat
    /\ MinTick \in Nat \ {0} /\ MaxTick \in Nat /\ MinTick <= MaxTick
    /\ MaxLate \in Nat /\ MaxTime \in Nat

VARIABLES
    now,
    board,      \* The activities, each with its phase, since when, and its warnings.
    due,        \* When the watchdog's sleep ends.
    warned      \* History: when an activity was warned of in its phase.

boardVars == <<now, board, due, warned>>

Phases == {"CreatingSession", "RunningTest", "ResettingSession", "QuittingSession"}

-----------------------------------------------------------------------------
(* ProgressWarnings                                                        *)

Threshold(phase) == IF phase = "RunningTest" THEN TestRunning ELSE Session

\* ProgressWarnings::tick, unless there are no thresholds: then nothing is watched.
TickTime == Max({MinTick, Min({MaxTick, Min({TestRunning, Session} \ {Never}) \div 4})})

Watched == {TestRunning, Session} # {Never}

-----------------------------------------------------------------------------
(* The board                                                               *)

BoardInit ==
    /\ now = 0 /\ board = <<>> /\ warned = <<>>
    /\ due = IF Watched THEN TickTime ELSE Never

With(f, a, v) == [b \in DOMAIN f \cup {a} |-> IF b = a THEN v ELSE f[b]]

\* Mutant: an activity that is on the board already keeps its count of warnings.
Enter_KeepsWarnings(a, phase) ==
    /\ now < MaxTime
    /\ board' = With(board, a, [phase |-> phase, since |-> now,
                                warnings |-> IF a \in DOMAIN board THEN board[a].warnings ELSE 0])
    /\ warned' = With(warned, a, <<>>)
    /\ UNCHANGED <<now, due>>

\* ProgressBoard::enter replaces what the activity did before.
Enter(a, phase) ==
    /\ now < MaxTime
    /\ board' = With(board, a, [phase |-> phase, since |-> now, warnings |-> 0])
    /\ warned' = With(warned, a, <<>>)
    /\ UNCHANGED <<now, due>>

\* ProgressBoard::clear
Clear(a) ==
    /\ a \in DOMAIN board
    /\ board' = Restrict(board, DOMAIN board \ {a})
    /\ warned' = Restrict(warned, DOMAIN board \ {a})
    /\ UNCHANGED <<now, due>>

\* is_overdue
IsOverdue(elapsed, threshold, warnings) ==
    threshold # 0 /\ elapsed >= threshold * (warnings + 1)

Overdue(status) ==
    /\ Threshold(status.phase) # Never
    /\ IsOverdue(now - status.since, Threshold(status.phase), status.warnings)

\* A round of ProgressBoard::watch: warn_overdue, then the next sleep begins.
Watch ==
    /\ Watched /\ now >= due
    /\ board' = [a \in DOMAIN board |->
                    IF Overdue(board[a]) THEN [board[a] EXCEPT !.warnings = @ + 1] ELSE board[a]]
    /\ warned' = [a \in DOMAIN board |->
                    IF Overdue(board[a]) THEN Append(warned[a], now) ELSE warned[a]]
    /\ due' = now + TickTime
    /\ UNCHANGED now

TimePasses ==
    /\ now < MaxTime
    /\ Watched => now < due + MaxLate
    /\ now' = now + 1
    /\ UNCHANGED <<board, due, warned>>

BoardNext ==
    \/ \E a \in Activities : Clear(a) \/ \E phase \in Phases : Enter(a, phase)
    \/ Watch
    \/ TimePasses

BoardSpec == BoardInit /\ [][BoardNext]_boardVars

-----------------------------------------------------------------------------
(* Properties                                                              *)

\* How long the watchdog takes to notice: a quarter of the threshold, or the least tick, and
\* as long as it is late.
Notice(threshold) == Max({MinTick, threshold \div 4}) + MaxLate

\* "And again every time threshold passes": the n-th warning of a phase comes when it has
\* lasted n thresholds, not before and not later than the watchdog notices, whatever the
\* activity was warned of in earlier phases, and however the watchdog is delayed.
WarnedInTime ==
    \A a \in DOMAIN board :
        LET threshold == Threshold(board[a].phase)
            due_at(n) == board[a].since + n * threshold
        IN  IF threshold \in {Never, 0} THEN warned[a] = <<>>
            ELSE /\ \A n \in DOMAIN warned[a] : warned[a][n] >= due_at(n)
                 /\ Notice(threshold) <= threshold =>
                       /\ \A n \in DOMAIN warned[a] : warned[a][n] <= due_at(n) + Notice(threshold)
                       /\ now <= due_at(Len(warned[a]) + 1) + Notice(threshold)
=============================================================================
