---------------------------- MODULE ReportsProofs ----------------------------
(***************************************************************************)
(* What a run tells its user: theorems about the outcome and the steps of  *)
(* a test, the output of the driver, the progress board, the summary and   *)
(* its durations, the hooks that runs install, and the frames of failures. *)
(* Each part has a specification by itself.                                *)
(***************************************************************************)
EXTENDS TestBody, DriverOutput, ProgressBoard, RunReport, FailureFrames, SequenceTheorems,
        FiniteSetTheorems, WellFoundedInduction, TLAPS

-----------------------------------------------------------------------------
(* The progress board                                                      *)

Statuses == [phase : Phases, since : Nat, warnings : Nat]

BoardTypeOK ==
    /\ now \in Nat
    /\ Watched => due \in Nat
    /\ board \in [DOMAIN board -> Statuses]
    /\ warned \in [DOMAIN board -> Seq(Nat)]
    /\ \A a \in DOMAIN board : board[a].since <= now /\ board[a].warnings = Len(warned[a])

\* The watchdog sleeps a tick at a time, and is late only by so much.
SleepsATick == Watched => due <= now + TickTime /\ now <= due + MaxLate

\* What the last round left: nothing that was overdue, if a round comes within every threshold.
WarnedSoFar(threshold, since, times, next) ==
    IF threshold \in {Never, 0} THEN times = <<>>
    ELSE /\ \A n \in DOMAIN times : times[n] >= since + n * threshold
         /\ Notice(threshold) <= threshold =>
               /\ \A n \in DOMAIN times : times[n] <= since + n * threshold + Notice(threshold)
               /\ next < since + (Len(times) + 1) * threshold + TickTime

WarnedByRounds ==
    \A a \in DOMAIN board :
        WarnedSoFar(Threshold(board[a].phase), board[a].since, warned[a], due)

BoardInv == BoardTypeOK /\ SleepsATick /\ WarnedByRounds

\* The larger of two numbers.
LEMMA LargerOfTwo ==
    ASSUME NEW i \in Nat, NEW j \in Nat
    PROVE  Max({i, j}) = IF i >= j THEN i ELSE j
BY DEF Max

\* The smaller of two numbers.
LEMMA SmallerOfTwo ==
    ASSUME NEW i \in Nat, NEW j \in Nat
    PROVE  Min({i, j}) = IF i <= j THEN i ELSE j
BY DEF Min

\* The least threshold there is.
LEMMA LeastThreshold ==
    ASSUME Watched
    PROVE  LET least == Min({TestRunning, Session} \ {Never})
           IN  least \in Nat /\ \A t \in {TestRunning, Session} \cap Nat : least <= t
<1>1. CASE TestRunning = Never
  <2>1. Session \in Nat /\ {TestRunning, Session} \ {Never} = {Session}
    BY <1>1, BoardAssumption DEF Watched
  <2> QED BY <1>1, <2>1, BoardAssumption DEF Min
<1>2. CASE Session = Never
  <2>1. TestRunning \in Nat /\ {TestRunning, Session} \ {Never} = {TestRunning}
    BY <1>2, BoardAssumption DEF Watched
  <2> QED BY <1>2, <2>1, BoardAssumption DEF Min
<1>3. CASE TestRunning # Never /\ Session # Never
  <2>1. TestRunning \in Nat /\ Session \in Nat
        /\ {TestRunning, Session} \ {Never} = {TestRunning, Session}
    BY <1>3, BoardAssumption
  <2> QED BY <2>1, SmallerOfTwo
<1> QED BY <1>1, <1>2, <1>3

\* A tick is no longer than a threshold takes to be noticed, the delay aside.
LEMMA TickNotices ==
    ASSUME Watched
    PROVE  /\ TickTime \in Nat \ {0}
           /\ \A t \in {TestRunning, Session} \ {Never} :
                 /\ t \in Nat /\ Notice(t) \in Nat
                 /\ TickTime + MaxLate <= Notice(t)
<1> DEFINE least == Min({TestRunning, Session} \ {Never})
<1>1. /\ least \in Nat
      /\ \A t \in {TestRunning, Session} \cap Nat : least <= t
  BY LeastThreshold
<1> HIDE DEF least
<1>2. MinTick \in Nat \ {0} /\ MaxTick \in Nat /\ MaxLate \in Nat
  BY BoardAssumption
<1>3. PICK quarter \in Nat : quarter = least \div 4
  BY <1>1
<1>4. PICK capped \in Nat : capped = Min({MaxTick, quarter}) /\ capped <= quarter
  BY <1>2, <1>3, SmallerOfTwo
<1>5. TickTime = Max({MinTick, capped})
  BY <1>3, <1>4 DEF TickTime, least
<1>6. /\ TickTime \in Nat \ {0}
      /\ TickTime = IF MinTick >= capped THEN MinTick ELSE capped
  BY <1>2, <1>4, <1>5, LargerOfTwo
<1>7. ASSUME NEW t \in {TestRunning, Session} \ {Never}
      PROVE  t \in Nat /\ Notice(t) \in Nat /\ TickTime + MaxLate <= Notice(t)
  <2>1. t \in Nat /\ least <= t
    BY <1>1, <1>7, BoardAssumption
  <2>2. PICK own \in Nat : own = t \div 4 /\ quarter <= own
    BY <1>1, <1>3, <2>1
  <2>3. Notice(t) = (IF MinTick >= own THEN MinTick ELSE own) + MaxLate
    BY <1>2, <2>2, LargerOfTwo DEF Notice
  <2> QED BY <1>2, <1>4, <1>6, <2>1, <2>2, <2>3
<1> QED BY <1>6, <1>7

\* Every phase has one of the two thresholds; one that may be exceeded is watched.
LEMMA Thresholds ==
    ASSUME NEW phase
    PROVE  /\ Threshold(phase) \in {TestRunning, Session}
           /\ Threshold(phase) # Never => Watched
BY BoardAssumption DEF Threshold, Watched

\* A phase begins without warnings.
LEMMA NoneAtFirst ==
    ASSUME NEW phase, NEW at \in Nat, NEW next, Watched => next \in Nat /\ next <= at + TickTime
    PROVE  WarnedSoFar(Threshold(phase), at, <<>>, next)
<1>1. CASE Threshold(phase) \in {Never, 0}
  BY <1>1 DEF WarnedSoFar
<1>2. CASE Threshold(phase) \notin {Never, 0}
  <2>1. PICK t \in Nat \ {0} : t = Threshold(phase)
    BY <1>2, Thresholds, BoardAssumption
  <2>2. Watched /\ TickTime \in Nat \ {0}
    BY <1>2, Thresholds, TickNotices
  <2>3. next < at + 1 * t + TickTime
    BY <2>1, <2>2
  <2>4. Len(<<>>) = 0 /\ DOMAIN <<>> = {}
    OBVIOUS
  <2>5. next < at + (Len(<<>>) + 1) * t + TickTime
    BY <2>3, <2>4
  <2> QED BY <1>2, <2>1, <2>4, <2>5 DEF WarnedSoFar
<1> QED BY <1>1, <1>2

\* A round warns of a phase that is overdue, and the next one is due before it is again.
LEMMA ARound ==
    ASSUME NEW phase, NEW since \in Nat, NEW times \in Seq(Nat), NEW at \in Nat, NEW next \in Nat,
           WarnedSoFar(Threshold(phase), since, times, next),
           Threshold(phase) # Never, next <= at, at <= next + MaxLate
    PROVE  LET overdue == IsOverdue(at - since, Threshold(phase), Len(times))
           IN  WarnedSoFar(Threshold(phase), since, IF overdue THEN Append(times, at) ELSE times,
                           at + TickTime)
<1> DEFINE overdue == IsOverdue(at - since, Threshold(phase), Len(times))
<1>1. PICK t \in Nat : t = Threshold(phase)
  BY Thresholds, BoardAssumption
<1>2. /\ Watched /\ TickTime \in Nat \ {0} /\ MaxLate \in Nat
      /\ t # Never /\ Notice(t) \in Nat /\ TickTime + MaxLate <= Notice(t)
  BY <1>1, Thresholds, TickNotices, BoardAssumption
<1>3. CASE t = 0
  <2>1. ~overdue /\ times = <<>>
    BY <1>1, <1>3 DEF IsOverdue, WarnedSoFar
  <2> QED BY <1>1, <1>3, <2>1 DEF WarnedSoFar
<1>4. CASE t # 0
  <2>1. PICK late \in Nat : late = Notice(t)
    BY <1>2
  <2>2. PICK k \in Nat : k = Len(times)
    OBVIOUS
  <2>3. PICK x \in Nat : x = (k + 1) * t
    BY <2>2
  <2>3a. (k + 1 + 1) * t = x + t
    BY <2>2, <2>3
  <2>4. /\ \A n \in DOMAIN times : times[n] >= since + n * t
        /\ late <= t => /\ \A n \in DOMAIN times : times[n] <= since + n * t + late
                        /\ next < since + x + TickTime
    BY <1>1, <1>2, <1>4, <2>1, <2>2, <2>3 DEF WarnedSoFar
  <2>5. overdue <=> at - since >= x
    BY <1>1, <1>4, <2>2, <2>3 DEF IsOverdue
  <2>6. late <= t => at < since + x + late
    BY <1>2, <2>1, <2>3, <2>4
  <2>7. CASE overdue
    <3> DEFINE more == Append(times, at)
    <3>1. /\ Len(more) = k + 1 /\ DOMAIN more = 1..(k + 1) /\ DOMAIN times = 1..k
          /\ \A n \in 1..k : more[n] = times[n]
          /\ more[k + 1] = at
      BY <2>2
    <3> HIDE DEF more
    <3>2. /\ at >= since + x
          /\ late <= t => at <= since + x + late
      BY <2>3, <2>5, <2>6, <2>7
    <3>3. \A n \in DOMAIN more : more[n] >= since + n * t
      <4> TAKE n \in DOMAIN more
      <4>1. CASE n = k + 1  BY <3>1, <3>2, <2>3, <4>1
      <4>2. CASE n \in 1..k BY <3>1, <2>4, <4>2
      <4> QED BY <3>1, <4>1, <4>2
    <3>4. ASSUME late <= t
          PROVE  \A n \in DOMAIN more : more[n] <= since + n * t + late
      <4> TAKE n \in DOMAIN more
      <4>1. CASE n = k + 1  BY <3>1, <3>2, <3>4, <2>3, <4>1
      <4>2. CASE n \in 1..k BY <3>1, <3>4, <2>4, <4>2
      <4> QED BY <3>1, <4>1, <4>2
    <3>5. late <= t => at + TickTime < since + (Len(more) + 1) * t + TickTime
      <4>1. PICK y \in Nat : y = (Len(more) + 1) * t /\ y = x + t
        BY <3>1, <2>3a
      <4> QED BY <1>2, <2>1, <2>6, <4>1
    <3>6. WarnedSoFar(t, since, more, at + TickTime)
      BY <1>2, <1>4, <2>1, <3>3, <3>4, <3>5 DEF WarnedSoFar
    <3> QED BY <1>1, <2>7, <3>6 DEF more
  <2>8. CASE ~overdue
    <3>1. late <= t => at + TickTime < since + x + TickTime
      BY <1>2, <2>3, <2>5, <2>8
    <3>2. WarnedSoFar(t, since, times, at + TickTime)
      BY <1>2, <1>4, <2>1, <2>2, <2>3, <2>4, <3>1 DEF WarnedSoFar
    <3> QED BY <1>1, <2>8, <3>2
  <2> QED BY <2>7, <2>8
<1> QED BY <1>3, <1>4

\* Every step of the board and of its watchdog keeps the invariant.
LEMMA BoardStep == BoardInv /\ [BoardNext]_boardVars => BoardInv'
<1> SUFFICES ASSUME BoardInv, [BoardNext]_boardVars
             PROVE  BoardInv'
  OBVIOUS
<1> USE DEF BoardInv
<1>a. now \in Nat /\ (Watched => due \in Nat /\ TickTime \in Nat \ {0} /\ MaxLate \in Nat)
  BY TickNotices, BoardAssumption DEF BoardTypeOK
<1>1. ASSUME NEW a \in Activities, NEW phase \in Phases, Enter(a, phase) PROVE BoardInv'
  <2>1. /\ now' = now /\ due' = due
        /\ DOMAIN board' = DOMAIN board \cup {a} /\ DOMAIN warned' = DOMAIN board'
        /\ board'[a] = [phase |-> phase, since |-> now, warnings |-> 0] /\ warned'[a] = <<>>
        /\ \A b \in DOMAIN board \ {a} : board'[b] = board[b] /\ warned'[b] = warned[b]
        /\ board' = [b \in DOMAIN board' |-> board'[b]]
        /\ warned' = [b \in DOMAIN board' |-> warned'[b]]
    BY <1>1 DEF Enter, With, BoardTypeOK
  <2>2. BoardTypeOK'
    <3>1. \A b \in DOMAIN board' : board'[b] \in Statuses /\ warned'[b] \in Seq(Nat)
                                   /\ board'[b].since <= now /\ board'[b].warnings = Len(warned'[b])
      <4> TAKE b \in DOMAIN board'
      <4>1. CASE b = a
        <5>1. [phase |-> phase, since |-> now, warnings |-> 0] \in Statuses
          BY <1>1, <1>a DEF Statuses
        <5> QED BY <2>1, <4>1, <5>1, <1>a
      <4>2. CASE b # a
        BY <2>1, <4>2 DEF BoardTypeOK
      <4> QED BY <4>1, <4>2
    <3> QED BY <1>a, <2>1, <3>1 DEF BoardTypeOK
  <2>3. SleepsATick'
    BY <2>1 DEF SleepsATick
  <2>4. WarnedByRounds'
    <3> SUFFICES ASSUME NEW b \in DOMAIN board'
                 PROVE  WarnedSoFar(Threshold(board'[b].phase), board'[b].since, warned'[b], due)
      BY <2>1 DEF WarnedByRounds
    <3>1. CASE b = a
      <4>1. WarnedSoFar(Threshold(phase), now, <<>>, due)
        BY <1>a, NoneAtFirst DEF SleepsATick
      <4> QED BY <2>1, <3>1, <4>1
    <3>2. CASE b # a
      BY <2>1, <3>2 DEF WarnedByRounds
    <3> QED BY <3>1, <3>2
  <2> QED BY <2>2, <2>3, <2>4
<1>2. ASSUME NEW a \in Activities, Clear(a) PROVE BoardInv'
  <2>1. /\ now' = now /\ due' = due
        /\ DOMAIN board' = DOMAIN board \ {a} /\ DOMAIN warned' = DOMAIN board'
        /\ \A b \in DOMAIN board \ {a} : board'[b] = board[b] /\ warned'[b] = warned[b]
        /\ board' = [b \in DOMAIN board' |-> board'[b]]
        /\ warned' = [b \in DOMAIN board' |-> warned'[b]]
    BY <1>2 DEF Clear, Restrict, BoardTypeOK
  <2>2. BoardTypeOK'
    BY <2>1 DEF BoardTypeOK
  <2>3. SleepsATick'
    BY <2>1 DEF SleepsATick
  <2>4. WarnedByRounds'
    BY <2>1 DEF WarnedByRounds
  <2> QED BY <2>2, <2>3, <2>4
<1>3. ASSUME Watch PROVE BoardInv'
  <2>1. /\ Watched /\ now' = now /\ due' = now + TickTime /\ due <= now
        /\ DOMAIN board' = DOMAIN board /\ DOMAIN warned' = DOMAIN board
        /\ \A b \in DOMAIN board :
              /\ board'[b] = IF Overdue(board[b]) THEN [board[b] EXCEPT !.warnings = @ + 1] ELSE board[b]
              /\ warned'[b] = IF Overdue(board[b]) THEN Append(warned[b], now) ELSE warned[b]
        /\ board' = [b \in DOMAIN board' |-> board'[b]]
        /\ warned' = [b \in DOMAIN board' |-> warned'[b]]
    BY <1>3, <1>a DEF Watch, BoardTypeOK
  <2>2. \A b \in DOMAIN board :
            /\ board[b] \in Statuses /\ warned[b] \in Seq(Nat)
            /\ board[b].since <= now /\ board[b].warnings = Len(warned[b])
    BY DEF BoardTypeOK
  <2>3. \A b \in DOMAIN board :
            /\ board'[b] \in Statuses /\ warned'[b] \in Seq(Nat)
            /\ board'[b].since = board[b].since /\ board'[b].phase = board[b].phase
            /\ board'[b].warnings = Len(warned'[b])
    <3> TAKE b \in DOMAIN board
    <3>1. CASE Overdue(board[b])
      <4>1. PICK w \in Nat : w = board[b].warnings
        BY <2>2 DEF Statuses
      <4>2. /\ board'[b] \in Statuses
            /\ board'[b].since = board[b].since /\ board'[b].phase = board[b].phase
            /\ board'[b].warnings = w + 1
        BY <2>1, <2>2, <3>1, <4>1 DEF Statuses
      <4>3. warned'[b] \in Seq(Nat) /\ Len(warned'[b]) = w + 1
        <5>1. PICK times \in Seq(Nat) : times = warned[b] /\ Len(times) = w
          BY <2>2, <4>1
        <5>2. Append(times, now) \in Seq(Nat) /\ Len(Append(times, now)) = w + 1
          BY <1>a, <5>1
        <5> QED BY <2>1, <3>1, <5>1, <5>2
      <4> QED BY <4>2, <4>3
    <3>2. CASE ~Overdue(board[b])
      BY <2>1, <2>2, <3>2
    <3> QED BY <3>1, <3>2
  <2>4. BoardTypeOK'
    <3>1. \A b \in DOMAIN board' :
             /\ board'[b] \in Statuses /\ warned'[b] \in Seq(Nat)
             /\ board'[b].since <= now' /\ board'[b].warnings = Len(warned'[b])
      BY <2>1, <2>2, <2>3
    <3> QED BY <1>a, <2>1, <3>1 DEF BoardTypeOK
  <2>5. SleepsATick'
    BY <1>a, <2>1 DEF SleepsATick
  <2>6. WarnedByRounds'
    <3> SUFFICES ASSUME NEW b \in DOMAIN board
                 PROVE  WarnedSoFar(Threshold(board[b].phase), board[b].since, warned'[b],
                                    now + TickTime)
      BY <2>1, <2>3 DEF WarnedByRounds
    <3>1. WarnedSoFar(Threshold(board[b].phase), board[b].since, warned[b], due)
      BY DEF WarnedByRounds
    <3>2. CASE Threshold(board[b].phase) = Never
      BY <2>1, <3>1, <3>2 DEF WarnedSoFar, Overdue
    <3>3. CASE Threshold(board[b].phase) # Never
      <4>1. Overdue(board[b]) <=> IsOverdue(now - board[b].since, Threshold(board[b].phase), Len(warned[b]))
        BY <2>2, <3>3 DEF Overdue
      <4>2. due \in Nat /\ due <= now /\ now <= due + MaxLate
        BY <1>a, <2>1 DEF SleepsATick
      <4>3. PICK since \in Nat : since = board[b].since
        BY <2>2 DEF Statuses
      <4>4. PICK times \in Seq(Nat) : times = warned[b]
        BY <2>2
      <4>5. LET overdue == IsOverdue(now - since, Threshold(board[b].phase), Len(times))
            IN  WarnedSoFar(Threshold(board[b].phase), since,
                            IF overdue THEN Append(times, now) ELSE times, now + TickTime)
        BY <1>a, <3>1, <3>3, <4>2, <4>3, <4>4, ARound
      <4> QED BY <2>1, <4>1, <4>3, <4>4, <4>5
    <3> QED BY <3>2, <3>3
  <2> QED BY <2>4, <2>5, <2>6
<1>4. ASSUME TimePasses PROVE BoardInv'
  <2>1. /\ now' = now + 1 /\ UNCHANGED <<board, due, warned>>
        /\ Watched => now < due + MaxLate
    BY <1>4 DEF TimePasses
  <2>2. BoardTypeOK'
    BY <1>a, <2>1 DEF BoardTypeOK, Statuses
  <2>3. SleepsATick'
    BY <1>a, <2>1 DEF SleepsATick
  <2>4. WarnedByRounds'
    BY <2>1 DEF WarnedByRounds
  <2> QED BY <2>2, <2>3, <2>4
<1>5. CASE UNCHANGED boardVars
  BY <1>5 DEF boardVars, BoardTypeOK, SleepsATick, WarnedByRounds
<1> QED BY <1>1, <1>2, <1>3, <1>4, <1>5 DEF BoardNext

\* Every warning comes in its time, and none is missing: progress.rs warns of a test or a
\* session "again every time threshold passes", for all thresholds and however late the
\* watchdog is (up to MaxLate).
THEOREM PhasesAreWarnedOf == BoardSpec => []WarnedInTime
<1>1. BoardInit => BoardInv
  <2> SUFFICES ASSUME BoardInit PROVE BoardInv
    OBVIOUS
  <2>1. DOMAIN board = {} /\ board = [b \in DOMAIN board |-> board[b]]
        /\ warned = [b \in DOMAIN board |-> warned[b]]
    BY DEF BoardInit
  <2> QED BY <2>1, TickNotices, BoardAssumption
          DEF BoardInit, BoardInv, BoardTypeOK, SleepsATick, WarnedByRounds
<1>2. BoardInv => WarnedInTime
  <2> SUFFICES ASSUME BoardInv, NEW a \in DOMAIN board,
                      Threshold(board[a].phase) \notin {Never, 0}
               PROVE  LET threshold == Threshold(board[a].phase)
                          due_at(n) == board[a].since + n * threshold
                      IN  /\ \A n \in DOMAIN warned[a] : warned[a][n] >= due_at(n)
                          /\ Notice(threshold) <= threshold =>
                                 /\ \A n \in DOMAIN warned[a] :
                                        warned[a][n] <= due_at(n) + Notice(threshold)
                                 /\ now <= due_at(Len(warned[a]) + 1) + Notice(threshold)
    BY DEF BoardInv, WarnedByRounds, WarnedSoFar, WarnedInTime
  <2>1. PICK t \in Nat : t = Threshold(board[a].phase)
    BY Thresholds, BoardAssumption
  <2>2. /\ Watched /\ TickTime \in Nat \ {0} /\ MaxLate \in Nat
        /\ Notice(t) \in Nat /\ TickTime + MaxLate <= Notice(t)
    BY <2>1, Thresholds, TickNotices, BoardAssumption
  <2>3. /\ now \in Nat /\ due \in Nat /\ now <= due + MaxLate
        /\ board[a].since \in Nat /\ Len(warned[a]) \in Nat
    BY <2>2 DEF BoardInv, BoardTypeOK, SleepsATick, Statuses
  <2>4. WarnedSoFar(t, board[a].since, warned[a], due) /\ t \notin {Never, 0}
    BY <2>1 DEF BoardInv, WarnedByRounds
  <2>5. Notice(t) <= t => now <= board[a].since + (Len(warned[a]) + 1) * t + Notice(t)
    <3>1. PICK x \in Nat : x = (Len(warned[a]) + 1) * t
      BY <2>3
    <3>2. Notice(t) <= t => due < board[a].since + x + TickTime
      BY <2>4, <3>1 DEF WarnedSoFar
    <3>3. PICK n \in Nat, s \in Nat, late \in Nat, tick \in Nat :
              n = now /\ s = board[a].since /\ late = Notice(t) /\ tick = TickTime
      BY <2>2, <2>3
    <3>4. late <= t => n <= s + x + late
      BY <2>2, <2>3, <3>2, <3>3
    <3> QED BY <3>1, <3>3, <3>4
  <2>6. /\ \A n \in DOMAIN warned[a] : warned[a][n] >= board[a].since + n * t
        /\ Notice(t) <= t =>
              \A n \in DOMAIN warned[a] : warned[a][n] <= board[a].since + n * t + Notice(t)
    BY <2>4 DEF WarnedSoFar
  <2> QED BY <2>1, <2>5, <2>6
<1> QED BY <1>1, <1>2, BoardStep, PTL DEF BoardSpec

-----------------------------------------------------------------------------
(* The outcome of a test                                                   *)

\* What run_body stored of a body that ended this way.
FailureOf == [ok |-> "none", error |-> "error", prepare |-> "prepare", timedOut |-> "timedOut",
              panic |-> "panic", resumed |-> "panic"]

BeforeItEnds == body \in {"preparing", "running"} => ended = "no" /\ run = NoRun

StoredAsItEnded ==
    body \in {"quitting", "done"} =>
        /\ ended \in DOMAIN FailureOf
        /\ run = [failure |-> FailureOf[ended], details |-> run.details, steps |-> run.steps,
                  recent |-> run.recent]
        /\ ended = "panic" => run.details = panics

ConcludedOnce ==
    body = "done" => quit \in {"ok", "failed"} /\ verdict = TestOutcome(quit = "ok")

BodyInv ==
    /\ body \in {"preparing", "running", "quitting", "done"}
    /\ BeforeItEnds /\ StoredAsItEnded /\ ConcludedOnce

\* Every step of a test and of what runs it keeps the invariant.
LEMMA BodyStep == BodyInv /\ [BodyNext]_bodyVars => BodyInv'
<1> SUFFICES ASSUME BodyInv, [BodyNext]_bodyVars
             PROVE  BodyInv'
  OBVIOUS
<1> USE DEF BodyInv
<1>1. ASSUME NEW ok \in BOOLEAN, Prepare(ok) PROVE BodyInv'
  BY <1>1 DEF Prepare, BeforeItEnds, StoredAsItEnded, ConcludedOnce, NoRun, FailureOf
<1>2. ASSUME NEW stored, NEW details, NEW how \in DOMAIN FailureOf,
             Store(stored, details, how), FailureOf[how] = stored,
             how = "panic" => details = panics'
      PROVE  BodyInv'
  BY <1>2 DEF Store, BeforeItEnds, StoredAsItEnded, ConcludedOnce
<1>3. ASSUME NEW ok \in BOOLEAN, Return(ok) PROVE BodyInv'
  <2>1. CASE ok
    BY <1>2, <1>3, <2>1 DEF Return, FailureOf
  <2>2. CASE ~ok
    BY <1>2, <1>3, <2>2 DEF Return, FailureOf
  <2> QED BY <2>1, <2>2
<1>4. ASSUME TimeOut PROVE BodyInv'
  BY <1>2, <1>4 DEF TimeOut, FailureOf
<1>5. ASSUME NEW at, NEW resumed \in BOOLEAN, Panic(at, resumed) PROVE BodyInv'
  <2>1. CASE UNCHANGED <<body, run, ended>>
    BY <1>5, <2>1 DEF Panic, BeforeItEnds, StoredAsItEnded, ConcludedOnce
  <2>2. CASE Store("panic", panicked', IF resumed THEN "resumed" ELSE "panic")
    <3>1. CASE resumed
      BY <1>2, <2>2, <3>1 DEF FailureOf
    <3>2. CASE ~resumed
      <4>1. panicked' = panics'
        BY <1>5, <3>2 DEF Panic, RecordPanic
      <4> QED BY <1>2, <2>2, <3>2, <4>1 DEF FailureOf
    <3> QED BY <3>1, <3>2
  <2> QED BY <1>5, <2>1, <2>2 DEF Panic
<1>6. ASSUME NEW quits \in BOOLEAN, Conclude(quits) PROVE BodyInv'
  <2>1. /\ body' = "done" /\ verdict' = TestOutcome(quits)
        /\ quit' = IF quits THEN "ok" ELSE "failed"
        /\ body = "quitting" /\ UNCHANGED <<run, panics, ended>>
    BY <1>6 DEF Conclude
  <2>2. TestOutcome(quits)' = TestOutcome(quits)
    BY <2>1 DEF TestOutcome
  <2>3. quits = (quit' = "ok") /\ quit' \in {"ok", "failed"}
    BY <2>1
  <2> QED BY <2>1, <2>2, <2>3 DEF BeforeItEnds, StoredAsItEnded, ConcludedOnce, TestOutcome
<1>7. CASE \/ Passes
           \/ \E parent \in 0..MaxSteps, kind \in StepKinds : Begin(parent, kind)
           \/ \E s \in Open : Finish(s) \/ DropStep(s)
           \/ UNCHANGED bodyVars
  <2>1. UNCHANGED <<body, run, verdict, panics, ended, quit>>
    BY <1>7 DEF Passes, Begin, Finish, DropStep, bodyVars
  <2> QED BY <2>1 DEF BeforeItEnds, StoredAsItEnded, ConcludedOnce, TestOutcome
<1> QED BY <1>1, <1>3, <1>4, <1>5, <1>6, <1>7 DEF BodyNext

\* However a body ends and its session quits, the outcome and the report of the test say so:
\* neither failure hides the other, and a panic that fails the test has its own location
\* (test_outcome and failure_report of test_run.rs).
THEOREM OutcomesAreTrue == BodySpec => []ReportIsTrue
<1>1. BodyInit => BodyInv
  BY DEF BodyInit, BodyInv, BeforeItEnds, StoredAsItEnded, ConcludedOnce
<1>2. BodyInv => ReportIsTrue
  <2> SUFFICES ASSUME BodyInv, body = "done" PROVE ReportIsTrue
    BY DEF ReportIsTrue
  <2>1. /\ ended \in DOMAIN FailureOf /\ run.failure = FailureOf[ended]
        /\ ended = "panic" => run.details = panics
        /\ quit \in {"ok", "failed"} /\ verdict = TestOutcome(quit = "ok")
    BY DEF BodyInv, StoredAsItEnded, ConcludedOnce
  <2>2. CASE ended = "ok"
    BY <2>1, <2>2 DEF ReportIsTrue, TestOutcome, Outcomes, FailureOf
  <2>3. CASE ended # "ok"
    BY <2>1, <2>3 DEF ReportIsTrue, TestOutcome, Outcomes, FailureOf
  <2> QED BY <2>2, <2>3
<1> QED BY <1>1, <1>2, BodyStep, PTL DEF BodySpec

-----------------------------------------------------------------------------
(* The output of the driver                                                *)

CapturedLines == [sequence : Nat, line : Nat]

OutputTypeOK ==
    /\ printed \in Nat /\ history \in Nat /\ cursor \in Nat \ {0} /\ total \in Nat
    /\ tail \in Seq(CapturedLines) /\ received \in Seq(Nat \ {0})
    /\ driver \in {"running", "ended"}
    /\ follower \in {"none", "following", "aborting", "aborted", "closed"}
    /\ stage \in {"launched", "following", "executing", "finishing", "finished", "returned"}

\* t has the last of the lines q, as many as fit, with their positions.
IsTailOf(t, q) ==
    /\ Len(t) = IF Len(q) < TailCapacity THEN Len(q) ELSE TailCapacity
    /\ \A i \in 1..Len(t) :
          /\ t[i].line = q[Len(q) - Len(t) + i]
          /\ t[i].sequence = t[i].line - 1

\* Every line counts up to the cursor, and nothing from there on was received.
CountsToCursor ==
    /\ total = cursor - 1 /\ cursor <= printed + 1 /\ history <= printed
    /\ \A i \in 1..Len(received) : received[i] < cursor
    /\ \A i, j \in 1..Len(received) : i < j => received[i] < received[j]

\* The line printed last is not skipped.
LastIsReceived ==
    cursor = printed + 1 /\ printed > 0 =>
        received # <<>> /\ received[Len(received)] = printed

\* A follower that saw the end of the output saw all of it, and before the run took the tail.
ClosedAtTheEnd ==
    /\ stage \in {"launched", "following"} => follower = "none"
    /\ driver = "ended" => stage \in {"finishing", "finished", "returned"}
    /\ stage \in {"finished", "returned"} => follower # "following"
    /\ follower = "closed" => driver = "ended" /\ cursor = printed + 1
    /\ attached # None => stage = "returned"

AttachedIsTrue ==
    attached # None =>
        /\ attached.tail \in Seq(CapturedLines) /\ attached.tail # <<>>
        /\ Len(attached.tail) <= TailCapacity
        /\ \A i \in 1..Len(attached.tail) :
              /\ attached.tail[i].sequence = attached.tail[i].line - 1
              /\ attached.tail[i].line <= attached.total
        /\ attached.total \in Nat /\ attached.total <= printed
        /\ follower = "closed" =>
              /\ attached.total = printed
              /\ attached.tail[Len(attached.tail)].line = printed

OutputInv ==
    /\ OutputTypeOK /\ IsTailOf(tail, received) /\ CountsToCursor /\ LastIsReceived
    /\ ClosedAtTheEnd /\ AttachedIsTrue

\* Pushing a line to the tail of what was received gives the tail of what is received then.
LEMMA LastOfPushed ==
    ASSUME NEW t \in Seq(CapturedLines), NEW q \in Seq(Nat \ {0}), IsTailOf(t, q), NEW line \in Nat \ {0}
    PROVE  LET c == [sequence |-> line - 1, line |-> line]
           IN  Pushed(t, c) \in Seq(CapturedLines) /\ IsTailOf(Pushed(t, c), Append(q, line))
<1> DEFINE c == [sequence |-> line - 1, line |-> line]
           more == Append(q, line)
<1>1. TailCapacity \in Nat \ {0} /\ c \in CapturedLines
  BY OutputAssumption DEF CapturedLines
<1>2. c.line = line /\ c.sequence = line - 1
  OBVIOUS
<1>3. PICK k \in Nat : k = Len(q)
  OBVIOUS
<1>4. /\ more \in Seq(Nat \ {0}) /\ Len(more) = k + 1 /\ more[k + 1] = line
      /\ \A i \in 1..k : more[i] = q[i]
  BY <1>3
<1> HIDE DEF c, more
<1>5. CASE k < TailCapacity
  <2>1. Len(t) = k /\ \A i \in 1..k : t[i].line = q[i] /\ t[i].sequence = t[i].line - 1
    BY <1>1, <1>3, <1>5 DEF IsTailOf
  <2>2. Pushed(t, c) = Append(t, c)
    BY <1>1, <1>5, <2>1 DEF Pushed
  <2>2a. Append(t, c) \in Seq(CapturedLines)
    BY <1>1
  <2>3. PICK p \in Seq(CapturedLines) : p = Append(t, c)
    BY <2>2a
  <2>4. /\ Len(p) = k + 1 /\ p[k + 1] = c
        /\ \A i \in 1..k : p[i] = t[i]
    BY <1>1, <2>1, <2>3
  <2>5. Len(p) = IF Len(more) < TailCapacity THEN Len(more) ELSE TailCapacity
    BY <1>1, <1>4, <1>5, <2>4
  <2>6. \A i \in 1..Len(p) : p[i].line = more[Len(more) - Len(p) + i] /\ p[i].sequence = p[i].line - 1
    <3> TAKE i \in 1..Len(p)
    <3>0. Len(more) - Len(p) + i = i
      BY <1>4, <2>4
    <3>1. CASE i = k + 1  BY <1>2, <1>4, <2>4, <3>0, <3>1
    <3>2. CASE i \in 1..k BY <1>4, <2>1, <2>4, <3>0, <3>2
    <3> QED BY <2>4, <3>1, <3>2
  <2> QED BY <2>2, <2>3, <2>5, <2>6 DEF IsTailOf, c, more
<1>6. CASE k >= TailCapacity
  <2>1. PICK m \in Nat \ {0} : m = TailCapacity /\ Len(t) = m
    BY <1>1, <1>3, <1>6 DEF IsTailOf
  <2>2. \A i \in 1..m : t[i].line = q[k - m + i] /\ t[i].sequence = t[i].line - 1
    BY <1>3, <2>1 DEF IsTailOf
  <2>2a. Tail(t) \in Seq(CapturedLines)
    BY <2>1
  <2>3. PICK u \in Seq(CapturedLines) : u = Tail(t)
    BY <2>2a
  <2>4. Len(u) = m - 1 /\ \A i \in 1..(m - 1) : u[i] = t[i + 1]
    BY <2>1, <2>3
  <2>4a. Append(u, c) \in Seq(CapturedLines)
    BY <1>1
  <2>5. PICK p \in Seq(CapturedLines) : p = Append(u, c)
    BY <2>4a
  <2>6. Len(p) = m /\ p[m] = c /\ \A i \in 1..(m - 1) : p[i] = u[i]
    BY <1>1, <2>1, <2>4, <2>5
  <2>7. Pushed(t, c) = p
    BY <2>1, <2>3, <2>5 DEF Pushed
  <2>8. Len(p) = IF Len(more) < TailCapacity THEN Len(more) ELSE TailCapacity
    BY <1>3, <1>4, <1>6, <2>1, <2>6
  <2>9. \A i \in 1..Len(p) : p[i].line = more[Len(more) - Len(p) + i] /\ p[i].sequence = p[i].line - 1
    <3> TAKE i \in 1..Len(p)
    <3>0. Len(more) - Len(p) + i = k + 1 - m + i
      BY <1>4, <2>6
    <3>1. CASE i = m  BY <1>2, <1>3, <1>4, <2>1, <2>6, <3>0, <3>1
    <3>2. CASE i \in 1..(m - 1)
      <4>0. p[i] = u[i] /\ u[i] = t[i + 1]
        BY <2>4, <2>6, <3>2
      <4>1. p[i] = t[i + 1] /\ i + 1 \in 1..m
        BY <2>1, <3>2, <4>0
      <4>2. p[i].line = q[k - m + (i + 1)] /\ p[i].sequence = p[i].line - 1
        BY <2>2, <4>1
      <4>3. k - m + (i + 1) \in 1..k /\ k - m + (i + 1) = k + 1 - m + i
        BY <1>3, <1>6, <2>1, <3>2
      <4> QED BY <1>4, <3>0, <4>2, <4>3
    <3> QED BY <2>1, <2>6, <3>1, <3>2
  <2> QED BY <2>7, <2>8, <2>9 DEF IsTailOf, c, more
<1> QED BY <1>1, <1>3, <1>5, <1>6

\* A line is captured, by the run or by the task that follows.
LEMMA CaptureStep ==
    ASSUME OutputInv, cursor <= printed, Push(cursor), cursor' = cursor + 1,
           UNCHANGED <<printed, history, driver, stage, attached>>,
           follower \in {"none", "following", "aborting"},
           follower' = follower \/ (follower = "aborting" /\ follower' = "aborted")
    PROVE  OutputInv'
<1> USE DEF OutputInv
<1>1. /\ total \in Nat /\ total = cursor - 1 /\ cursor \in Nat \ {0} /\ printed \in Nat
      /\ tail \in Seq(CapturedLines) /\ received \in Seq(Nat \ {0}) /\ IsTailOf(tail, received)
  BY DEF OutputTypeOK, CountsToCursor
<1>2. /\ tail' = Pushed(tail, [sequence |-> cursor - 1, line |-> cursor])
      /\ total' = total + 1 /\ received' = Append(received, cursor)
  BY <1>1 DEF Push
<1>3. tail' \in Seq(CapturedLines) /\ IsTailOf(tail', received')
  BY <1>1, <1>2, LastOfPushed
<1>4. PICK k \in Nat : k = Len(received)
  BY <1>1
<1>5. /\ received' \in Seq(Nat \ {0}) /\ Len(received') = k + 1 /\ received'[k + 1] = cursor
      /\ \A i \in 1..k : received'[i] = received[i]
  BY <1>1, <1>2, <1>4
<1>6. OutputTypeOK'
  BY <1>1, <1>2, <1>3, <1>5 DEF OutputTypeOK
<1>7. CountsToCursor'
  <2>1. \A i \in 1..k : received[i] \in Nat \ {0} /\ received[i] < cursor
    BY <1>1, <1>4, ElementOfSeq DEF CountsToCursor
  <2>2. \A i \in 1..(k + 1) : received'[i] < cursor + 1
    <3> TAKE i \in 1..(k + 1)
    <3>1. CASE i = k + 1 BY <1>1, <1>5, <3>1
    <3>2. CASE i \in 1..k
      <4>1. received'[i] = received[i] /\ received[i] \in Nat \ {0} /\ received[i] < cursor
        BY <1>5, <2>1, <3>2
      <4> QED BY <1>1, <4>1
    <3> QED BY <1>4, <3>1, <3>2
  <2>3. \A i, j \in 1..(k + 1) : i < j => received'[i] < received'[j]
    <3> TAKE i, j \in 1..(k + 1)
    <3> HAVE i < j
    <3>1. CASE j = k + 1
      <4>1. i \in 1..k
        BY <1>4, <3>1
      <4> QED BY <1>5, <2>1, <3>1, <4>1
    <3>2. CASE j \in 1..k
      <4>1. i \in 1..k
        BY <1>4, <3>2
      <4>2. received[i] < received[j]
        BY <1>4, <3>2, <4>1 DEF CountsToCursor
      <4> QED BY <1>5, <3>2, <4>1, <4>2
    <3> QED BY <1>4, <3>1, <3>2
  <2>4. total' = cursor' - 1 /\ cursor' <= printed' + 1 /\ history' <= printed'
    BY <1>1, <1>2 DEF CountsToCursor
  <2> QED BY <1>5, <2>2, <2>3, <2>4 DEF CountsToCursor
<1>8. LastIsReceived'
  <2>1. received' # <<>>
    BY <1>4, <1>5
  <2>2. cursor' = printed' + 1 => cursor = printed'
    BY <1>1
  <2> QED BY <1>5, <2>1, <2>2 DEF LastIsReceived
<1>9. ClosedAtTheEnd' /\ AttachedIsTrue'
  BY DEF ClosedAtTheEnd, AttachedIsTrue
<1> QED BY <1>3, <1>6, <1>7, <1>8, <1>9

\* What a snapshot of the tail shows.
LEMMA SnapshotIsTrue ==
    ASSUME OutputInv
    PROVE  /\ Len(tail) <= TailCapacity
           /\ \A i \in 1..Len(tail) :
                 /\ tail[i].sequence = tail[i].line - 1
                 /\ tail[i].line <= total
           /\ total <= printed
           /\ follower = "closed" /\ tail # <<>> =>
                 total = printed /\ tail[Len(tail)].line = printed
<1> USE DEF OutputInv
<1>1. /\ total \in Nat /\ cursor \in Nat \ {0} /\ printed \in Nat
      /\ total = cursor - 1 /\ cursor <= printed + 1
      /\ tail \in Seq(CapturedLines) /\ received \in Seq(Nat \ {0})
  BY DEF OutputTypeOK, CountsToCursor
<1>2. PICK k \in Nat, n \in Nat : k = Len(received) /\ n = Len(tail)
  BY <1>1
<1>3. /\ TailCapacity \in Nat \ {0}
      /\ n = IF k < TailCapacity THEN k ELSE TailCapacity
      /\ \A i \in 1..n : tail[i].line = received[k - n + i] /\ tail[i].sequence = tail[i].line - 1
  BY <1>2, OutputAssumption DEF IsTailOf
<1>4. \A i \in 1..k : received[i] \in Nat \ {0} /\ received[i] < cursor
  BY <1>1, <1>2, ElementOfSeq DEF CountsToCursor
<1>5. ASSUME NEW i \in 1..n PROVE tail[i].line <= total
  <2>1. k - n + i \in 1..k
    BY <1>2, <1>3
  <2>2. tail[i].line \in Nat /\ tail[i].line < cursor
    BY <1>3, <1>4, <2>1
  <2> QED BY <1>1, <2>2
<1>6. ASSUME follower = "closed", tail # <<>>
      PROVE  total = printed /\ tail[n].line = printed
  <2>1. n > 0
    BY <1>1, <1>2, <1>6
  <2>2. cursor = printed + 1
    BY <1>6 DEF ClosedAtTheEnd
  <2>3. 1 \in 1..k
    BY <1>2, <1>3, <2>1
  <2>4. printed > 0
    <3>1. received[1] \in Nat \ {0} /\ received[1] < cursor
      BY <1>4, <2>3
    <3> QED BY <1>1, <2>2, <3>1
  <2>5. received[k] = printed
    BY <1>2, <2>2, <2>4 DEF LastIsReceived
  <2>6. n \in 1..n /\ k - n + n = k
    BY <1>2, <2>1
  <2>7. tail[n].line = received[k - n + n]
    BY <1>3, <2>6
  <2>8. tail[n].line = printed
    BY <2>5, <2>6, <2>7
  <2>9. total = printed
    BY <1>1, <2>2
  <2> QED BY <2>8, <2>9
<1>7. Len(tail) <= TailCapacity /\ total <= printed
  BY <1>1, <1>2, <1>3
<1>8. \A i \in 1..n : tail[i].sequence = tail[i].line - 1 /\ tail[i].line <= total
  BY <1>3, <1>5
<1> QED BY <1>2, <1>6, <1>7, <1>8

\* The last part of a sequence, by its positions.
LEMMA LastPart ==
    ASSUME NEW S, NEW q \in Seq(S), NEW n \in Nat, n <= Len(q)
    PROVE  SubSeq(q, Len(q) - n + 1, Len(q)) = [i \in 1..n |-> q[Len(q) - n + i]]
OBVIOUS

\* Every step of the driver, the follower and the run keeps the invariant.
LEMMA OutputStep == OutputInv /\ [OutputNext]_outputVars => OutputInv'
<1> SUFFICES ASSUME OutputInv, [OutputNext]_outputVars
             PROVE  OutputInv'
  OBVIOUS
<1> USE DEF OutputInv
<1>a. /\ total \in Nat /\ cursor \in Nat \ {0} /\ printed \in Nat /\ history \in Nat
      /\ total = cursor - 1 /\ cursor <= printed + 1 /\ history <= printed
      /\ tail \in Seq(CapturedLines) /\ received \in Seq(Nat \ {0})
      /\ ChannelCapacity \in Nat \ {0}
  BY OutputAssumption DEF OutputTypeOK, CountsToCursor
<1>b. ASSUME UNCHANGED <<printed, history, cursor, total, tail, received>>
      PROVE  (IsTailOf(tail, received))' /\ CountsToCursor' /\ LastIsReceived'
  BY <1>b DEF IsTailOf, CountsToCursor, LastIsReceived
<1>1. CASE PrintLine
  <2>1. /\ printed' = printed + 1 /\ driver = "running"
        /\ UNCHANGED <<driver, history, cursor, total, tail, follower, stage, attached, received>>
    BY <1>1 DEF PrintLine, capture
  <2>2. OutputTypeOK' /\ (IsTailOf(tail, received))'
    BY <1>a, <2>1 DEF OutputTypeOK, IsTailOf
  <2>2a. ClosedAtTheEnd'
    BY <2>1 DEF ClosedAtTheEnd
  <2>3. CountsToCursor' /\ LastIsReceived'
    BY <1>a, <2>1 DEF CountsToCursor, LastIsReceived
  <2>4. AttachedIsTrue'
    BY <1>a, <2>1 DEF AttachedIsTrue, ClosedAtTheEnd
  <2> QED BY <2>2, <2>2a, <2>3, <2>4
<1>2. CASE Follow
  <2>1. /\ UNCHANGED <<driver, printed, cursor, total, tail, follower, attached, received>>
        /\ stage = "launched" /\ stage' \in {"following", "executing"}
        /\ history' \in {history, printed}
    BY <1>2 DEF Follow, capture
  <2>2. OutputTypeOK' /\ (IsTailOf(tail, received))' /\ CountsToCursor' /\ LastIsReceived'
    BY <1>a, <2>1 DEF OutputTypeOK, IsTailOf, CountsToCursor, LastIsReceived
  <2>3. ClosedAtTheEnd' /\ AttachedIsTrue'
    BY <2>1 DEF ClosedAtTheEnd, AttachedIsTrue
  <2> QED BY <2>2, <2>3
<1>3. CASE CatchUp
  <2>1. /\ cursor <= printed /\ Push(cursor) /\ cursor' = cursor + 1
        /\ UNCHANGED <<printed, history, driver, stage, attached, follower>>
        /\ stage = "following"
    BY <1>a, <1>3 DEF CatchUp
  <2>2. follower = "none"
    BY <2>1 DEF ClosedAtTheEnd
  <2> QED BY <2>1, <2>2, CaptureStep
<1>4. CASE Spawn
  <2>1. /\ UNCHANGED <<driver, printed, history, cursor, total, tail, attached, received>>
        /\ stage = "following" /\ stage' = "executing" /\ follower' = "following"
    BY <1>4 DEF Spawn, capture
  <2>2. OutputTypeOK' /\ ClosedAtTheEnd' /\ AttachedIsTrue'
    BY <2>1 DEF OutputTypeOK, ClosedAtTheEnd, AttachedIsTrue
  <2> QED BY <1>b, <2>1, <2>2
<1>5. CASE Receive
  <2>1. /\ cursor <= printed /\ Push(cursor) /\ cursor' = cursor + 1
        /\ UNCHANGED <<printed, history, driver, stage, attached>>
        /\ follower \in {"following", "aborting"}
        /\ follower' = follower \/ (follower = "aborting" /\ follower' = "aborted")
    BY <1>5 DEF Receive, Follows, AfterPoll
  <2> QED BY <2>1, CaptureStep
<1>6. CASE Lag
  <2>1. PICK oldest \in Nat : oldest = Oldest /\ oldest <= printed /\ cursor < oldest
    <3>1. Oldest \in Nat /\ Oldest <= printed /\ cursor < Oldest
      BY <1>a, <1>6 DEF Lag, Oldest
    <3> QED BY <3>1
  <2>2. /\ UNCHANGED <<driver, printed, history, tail, stage, attached, received>>
        /\ total' = total + (oldest - cursor) /\ cursor' = oldest
        /\ follower \in {"following", "aborting"}
        /\ follower' = follower \/ (follower = "aborting" /\ follower' = "aborted")
    BY <1>6, <2>1 DEF Lag, Skipped, Follows, AfterPoll
  <2>3. OutputTypeOK' /\ (IsTailOf(tail, received))'
    BY <1>a, <2>1, <2>2 DEF OutputTypeOK, IsTailOf
  <2>4. CountsToCursor'
    <3>1. total' = cursor' - 1 /\ cursor' <= printed' + 1 /\ history' <= printed'
      BY <1>a, <2>1, <2>2
    <3>2. \A i \in 1..Len(received) : received[i] < oldest
      <4> TAKE i \in 1..Len(received)
      <4>1. received[i] \in Nat \ {0} /\ received[i] < cursor
        BY <1>a, ElementOfSeq DEF CountsToCursor
      <4> QED BY <1>a, <2>1, <4>1
    <3> QED BY <2>2, <3>1, <3>2 DEF CountsToCursor
  <2>5. LastIsReceived'
    BY <1>a, <2>1, <2>2 DEF LastIsReceived
  <2>6. ClosedAtTheEnd' /\ AttachedIsTrue'
    BY <2>2 DEF ClosedAtTheEnd, AttachedIsTrue
  <2> QED BY <2>3, <2>4, <2>5, <2>6
<1>7. CASE SubscriptionClosed
  <2>1. /\ UNCHANGED <<driver, printed, history, cursor, total, tail, stage, attached, received>>
        /\ driver = "ended" /\ cursor > printed /\ follower \in {"following", "aborting"}
        /\ follower' = IF follower = "following" THEN "closed" ELSE "aborted"
    BY <1>7 DEF SubscriptionClosed, Follows, capture
  <2>2. OutputTypeOK' /\ ClosedAtTheEnd'
    BY <1>a, <2>1 DEF OutputTypeOK, ClosedAtTheEnd
  <2>3. AttachedIsTrue'
    BY <2>1 DEF ClosedAtTheEnd, AttachedIsTrue
  <2> QED BY <1>b, <2>1, <2>2, <2>3
<1>8. CASE Aborted \/ FinishFollower \/ ShutDown
  <2>1. /\ UNCHANGED <<printed, history, cursor, total, tail, attached, received>>
        /\ follower' \in {follower, "aborting", "aborted"}
        /\ stage' \in {stage, "finishing", "finished"} /\ driver' \in {"running", "ended"}
    BY <1>8 DEF Aborted, FinishFollower, ShutDown, capture, OutputTypeOK
  <2>2. OutputTypeOK'
    BY <2>1 DEF OutputTypeOK
  <2>3. ClosedAtTheEnd' /\ AttachedIsTrue'
    BY <1>8 DEF Aborted, FinishFollower, ShutDown, capture, ClosedAtTheEnd, AttachedIsTrue
  <2> QED BY <1>b, <2>1, <2>2, <2>3
<1>9. ASSUME NEW fails \in BOOLEAN, Attach(fails) PROVE OutputInv'
  <2>1. /\ UNCHANGED <<driver, printed, history, cursor, total, tail, follower, received>>
        /\ stage = "finished" /\ stage' = "returned"
        /\ attached' = None \/ (tail # <<>> /\ attached' = Snapshot)
    BY <1>9 DEF Attach, capture
  <2>2. OutputTypeOK' /\ ClosedAtTheEnd'
    BY <2>1 DEF OutputTypeOK, ClosedAtTheEnd
  <2>3. AttachedIsTrue'
    <3>1. CASE attached' = None
      BY <3>1 DEF AttachedIsTrue
    <3>2. CASE attached' = Snapshot /\ tail # <<>>
      <4>1. attached'.tail = tail /\ attached'.total = total
        BY <3>2 DEF Snapshot
      <4> QED BY <1>a, <2>1, <3>2, <4>1, SnapshotIsTrue DEF AttachedIsTrue
    <3> QED BY <2>1, <3>1, <3>2
  <2> QED BY <1>b, <2>1, <2>2, <2>3
<1>10. CASE UNCHANGED outputVars
  <2>1. UNCHANGED <<driver, printed, history, cursor, total, tail, follower, stage, attached, received>>
    BY <1>10 DEF outputVars, capture
  <2>2. OutputTypeOK' /\ ClosedAtTheEnd' /\ AttachedIsTrue'
    BY <2>1 DEF OutputTypeOK, ClosedAtTheEnd, AttachedIsTrue
  <2> QED BY <1>b, <2>1, <2>2
<1> QED
  BY <1>1, <1>2, <1>3, <1>4, <1>5, <1>6, <1>7, <1>8, <1>9, <1>10 DEF OutputNext

\* For every capacity of the tail and of the channel, and however the follower lags: the lines
\* of the tail and of a failure's attachment have their positions in the output, and what
\* they omit is counted (DriverOutputCapture).
THEOREM OutputStaysTrue == OutputSpec => []OutputIsTrue
<1>1. OutputInit => OutputInv
  <2> SUFFICES ASSUME OutputInit PROVE OutputInv
    OBVIOUS
  <2>1. OutputTypeOK /\ CountsToCursor /\ LastIsReceived /\ ClosedAtTheEnd /\ AttachedIsTrue
    BY DEF OutputInit, OutputTypeOK, CountsToCursor, LastIsReceived, ClosedAtTheEnd, AttachedIsTrue
  <2>2. IsTailOf(tail, received)
    BY OutputAssumption DEF OutputInit, IsTailOf
  <2> QED BY <2>1, <2>2 DEF OutputInv
<1>2. OutputInv => OutputIsTrue
  <2> SUFFICES ASSUME OutputInv PROVE OutputIsTrue
    OBVIOUS
  <2> DEFINE true(snapshot) ==
               /\ Len(snapshot.tail) <= TailCapacity
               /\ \A i \in DOMAIN snapshot.tail :
                     /\ snapshot.tail[i].sequence = snapshot.tail[i].line - 1
                     /\ snapshot.tail[i].line <= snapshot.total
               /\ snapshot.total <= printed
             kept == IF Len(received) < TailCapacity THEN Len(received) ELSE TailCapacity
  <2>1. /\ tail \in Seq(CapturedLines) /\ received \in Seq(Nat \ {0})
        /\ DOMAIN tail = 1..Len(tail) /\ DOMAIN received = 1..Len(received)
    BY DEF OutputInv, OutputTypeOK
  <2>2. true(Snapshot)
    BY <2>1, SnapshotIsTrue DEF Snapshot
  <2>3. attached # None =>
            /\ true(attached) /\ attached.tail # <<>>
            /\ follower = "closed" =>
                  attached.total = printed /\ Last(attached.tail).line = printed
    BY DEF OutputInv, AttachedIsTrue, Last
  <2>4. [i \in DOMAIN tail |-> tail[i].line] =
            SubSeq(received, Len(received) - kept + 1, Len(received))
    <3>0. Len(received) \in Nat /\ Len(tail) \in Nat
      BY <2>1
    <3>1. PICK k \in Nat, n \in Nat : k = Len(received) /\ n = Len(tail)
      BY <3>0
    <3>2. \A i \in 1..n : tail[i].line = received[k - n + i]
      BY <3>1 DEF OutputInv, IsTailOf
    <3>2a. n = kept /\ n <= k
      BY <3>1, OutputAssumption DEF OutputInv, IsTailOf
    <3>3. SubSeq(received, k - n + 1, k) = [i \in 1..n |-> received[k - n + i]]
      <4>1. n <= Len(received)
        BY <3>1, <3>2a
      <4> QED BY <2>1, <3>1, <4>1, LastPart
    <3> QED BY <2>1, <3>1, <3>2, <3>2a, <3>3
  <2>5. /\ \A i, j \in DOMAIN received : i < j => received[i] < received[j]
        /\ total = cursor - 1
    BY <2>1 DEF OutputInv, CountsToCursor
  <2>6. follower = "closed" => total = printed
    BY DEF OutputInv, CountsToCursor, ClosedAtTheEnd, OutputTypeOK
  <2> HIDE DEF true, kept
  <2> QED BY <2>2, <2>3, <2>4, <2>5, <2>6 DEF OutputIsTrue, true, kept
<1> QED BY <1>1, <1>2, OutputStep, PTL DEF OutputSpec

-----------------------------------------------------------------------------
(* The durations of a summary                                              *)

\* How a duration reads, given how many of each unit it is rounded to.
RoundsTo(time, millis, hundredths, tenths, minutes, rest) ==
    LET format == FormatDuration(time)
    IN  /\ millis = (time + 5) \div 10
        /\ hundredths = (time + 50) \div 100
        /\ tenths = (time + 500) \div 1000
        /\ tenths = 600 * minutes + rest /\ rest < 600
        /\ \/ /\ millis < 1000
              /\ format = [unit |-> 10, shown |-> millis, minutes |-> 0]
              /\ Reads(format) = 10 * millis
           \/ /\ millis >= 1000 /\ hundredths < 6000
              /\ format = [unit |-> 100, shown |-> hundredths, minutes |-> 0]
              /\ Reads(format) = 100 * hundredths
           \/ /\ millis >= 1000 /\ hundredths >= 6000
              /\ format = [unit |-> 1000, shown |-> rest, minutes |-> minutes]
              /\ Reads(format) = 1000 * tenths

\* A duration reads as one of its roundings, in the unit that holds it.
LEMMA ReadsAs ==
    ASSUME NEW time \in Nat
    PROVE  \E millis, hundredths, tenths, minutes, rest \in Nat :
              RoundsTo(time, millis, hundredths, tenths, minutes, rest)
<1>1. PICK millis \in Nat : millis = (time + 5) \div 10
  OBVIOUS
<1>2. PICK hundredths \in Nat : hundredths = (time + 50) \div 100
  OBVIOUS
<1>3. PICK tenths \in Nat : tenths = (time + 500) \div 1000
  OBVIOUS
<1>4. PICK minutes \in Nat, rest \in Nat :
          /\ minutes = tenths \div 600 /\ rest = tenths % 600
          /\ tenths = 600 * minutes + rest /\ rest < 600
  BY <1>3
<1>5. CASE millis < 1000
  <2>1. FormatDuration(time) = [unit |-> 10, shown |-> millis, minutes |-> 0]
    BY <1>1, <1>2, <1>5 DEF FormatDuration
  <2>2. Reads(FormatDuration(time)) = 10 * millis
    BY <2>1 DEF Reads
  <2>3. RoundsTo(time, millis, hundredths, tenths, minutes, rest)
    BY <1>1, <1>2, <1>3, <1>4, <1>5, <2>1, <2>2 DEF RoundsTo
  <2> QED BY <2>3
<1>6. CASE millis >= 1000 /\ hundredths < 6000
  <2>1. FormatDuration(time) = [unit |-> 100, shown |-> hundredths, minutes |-> 0]
    BY <1>1, <1>2, <1>6 DEF FormatDuration
  <2>2. Reads(FormatDuration(time)) = 100 * hundredths
    BY <2>1 DEF Reads
  <2>3. RoundsTo(time, millis, hundredths, tenths, minutes, rest)
    BY <1>1, <1>2, <1>3, <1>4, <1>6, <2>1, <2>2 DEF RoundsTo
  <2> QED BY <2>3
<1>7. CASE millis >= 1000 /\ hundredths >= 6000
  <2>1. FormatDuration(time) = [unit |-> 1000, shown |-> rest, minutes |-> minutes]
    BY <1>1, <1>2, <1>3, <1>4, <1>7 DEF FormatDuration
  <2>2. Reads(FormatDuration(time)) = 1000 * tenths
    BY <1>4, <2>1 DEF Reads
  <2>3. RoundsTo(time, millis, hundredths, tenths, minutes, rest)
    BY <1>1, <1>2, <1>3, <1>4, <1>7, <2>1, <2>2 DEF RoundsTo
  <2> QED BY <2>3
<1> QED BY <1>1, <1>2, <1>5, <1>6, <1>7

\* Every duration reads as what it is, rounded to the unit shown, in the smallest unit that
\* does not overflow into the next; and a longer one never reads as a shorter one
\* (FormatDuration of report.rs, what DurationsReadTrue says of a run's).
THEOREM DurationsReadInOrder ==
    ASSUME NEW time \in Nat, NEW longer \in Nat, time <= longer
    PROVE  LET format == FormatDuration(time)
           IN  /\ 2 * (Reads(format) - time) <= format.unit
               /\ 2 * (time - Reads(format)) <= format.unit
               /\ format.shown * format.unit < (IF format.unit = 10 THEN 10000 ELSE 600000)
               /\ format.minutes > 0 <=> format.unit = 1000
               /\ Reads(format) <= Reads(FormatDuration(longer))
<1>1a. PICK m, h, t, n, r \in Nat : RoundsTo(time, m, h, t, n, r)
  BY ReadsAs
<1>2a. PICK m2, h2, t2, n2, r2 \in Nat : RoundsTo(longer, m2, h2, t2, n2, r2)
  BY ReadsAs
<1>1. LET format == FormatDuration(time)
      IN  /\ m = (time + 5) \div 10 /\ h = (time + 50) \div 100 /\ t = (time + 500) \div 1000
          /\ t = 600 * n + r /\ r < 600
          /\ \/ /\ m < 1000 /\ format = [unit |-> 10, shown |-> m, minutes |-> 0]
                /\ Reads(format) = 10 * m
             \/ /\ m >= 1000 /\ h < 6000 /\ format = [unit |-> 100, shown |-> h, minutes |-> 0]
                /\ Reads(format) = 100 * h
             \/ /\ m >= 1000 /\ h >= 6000 /\ format = [unit |-> 1000, shown |-> r, minutes |-> n]
                /\ Reads(format) = 1000 * t
  BY <1>1a DEF RoundsTo
<1>2. /\ m2 = (longer + 5) \div 10 /\ h2 = (longer + 50) \div 100
      /\ t2 = (longer + 500) \div 1000
      /\ \/ m2 < 1000 /\ Reads(FormatDuration(longer)) = 10 * m2
         \/ m2 >= 1000 /\ h2 < 6000 /\ Reads(FormatDuration(longer)) = 100 * h2
         \/ m2 >= 1000 /\ h2 >= 6000 /\ Reads(FormatDuration(longer)) = 1000 * t2
  BY <1>2a DEF RoundsTo
<1>3. /\ 10 * m <= time + 5 /\ time + 5 < 10 * m + 10
      /\ 100 * h <= time + 50 /\ time + 50 < 100 * h + 100
      /\ 1000 * t <= time + 500 /\ time + 500 < 1000 * t + 1000
  BY <1>1
<1>4. /\ 10 * m2 <= longer + 5 /\ longer + 5 < 10 * m2 + 10
      /\ 100 * h2 <= longer + 50 /\ longer + 50 < 100 * h2 + 100
      /\ 1000 * t2 <= longer + 500 /\ longer + 500 < 1000 * t2 + 1000
  BY <1>2
<1>5. m <= m2 /\ h <= h2 /\ t <= t2
  BY <1>3, <1>4
<1>6. Reads(FormatDuration(time)) <= Reads(FormatDuration(longer))
  <2>1. m < 1000 \/ (m >= 1000 /\ h < 6000) \/ (m >= 1000 /\ h >= 6000)
    OBVIOUS
  <2>2. CASE m < 1000
    BY <1>1, <1>2, <1>3, <1>4, <1>5, <2>2
  <2>3. CASE m >= 1000 /\ h < 6000
    BY <1>1, <1>2, <1>3, <1>4, <1>5, <2>3
  <2>4. CASE m >= 1000 /\ h >= 6000
    BY <1>1, <1>2, <1>3, <1>4, <1>5, <2>4
  <2> QED BY <2>1, <2>2, <2>3, <2>4
<1>7. CASE m < 1000
  BY <1>1, <1>3, <1>6, <1>7
<1>8. CASE m >= 1000 /\ h < 6000
  BY <1>1, <1>3, <1>6, <1>8
<1>9. CASE m >= 1000 /\ h >= 6000
  BY <1>1, <1>3, <1>6, <1>9
<1> QED BY <1>7, <1>8, <1>9

-----------------------------------------------------------------------------
(* The hooks of failure reports                                            *)

HooksTypeOK ==
    /\ asks \in [FrameRuns -> BOOLEAN]
    /\ installs \in [FrameRuns -> {"new", "checking", "installing", "panicHook", "done"}]
    /\ hooksInPlace \in {"none", "ours", "other"}
    /\ hooksRan \in BOOLEAN /\ hooksWarned \in BOOLEAN /\ raced \in BOOLEAN
    /\ reportHooks \in FrameRuns \cup {None, "done"}
    /\ panicHooks \in {0, 1}

\* The run that initializes REPORT_HOOKS is the only one that checks and installs.
OneInitializes ==
    \A r \in FrameRuns : installs[r] \in {"checking", "installing"} <=> reportHooks = r

\* A run that found no hooks has missed only those that the application installed since.
ChecksAreTrue ==
    /\ hooksRan => hooksInPlace = "ours"
    /\ \A r \in FrameRuns : installs[r] = "installing" /\ hooksInPlace = "ours" => raced
    /\ hooksWarned => hooksInPlace = "other" \/ raced
    /\ raced => hooksInPlace # "none"

\* Once REPORT_HOOKS is initialized, hooks are in place or a warning was given; no run goes on
\* before.
InitializedOnce ==
    /\ reportHooks = "done" => hooksInPlace = "ours" \/ hooksWarned
    /\ \A r \in FrameRuns :
          asks[r] /\ installs[r] \in {"panicHook", "done"} => reportHooks = "done"

PanicHookOnce == panicHooks = IF \E r \in FrameRuns : installs[r] = "done" THEN 1 ELSE 0

HooksInv == HooksTypeOK /\ OneInitializes /\ ChecksAreTrue /\ InitializedOnce /\ PanicHookOnce

-----------------------------------------------------------------------------

\* Every step of a run that installs, and of the application, keeps the invariant.
LEMMA HooksStep == HooksInv /\ [FramesNext]_frameVars => HooksInv'
<1> SUFFICES ASSUME HooksInv, [FramesNext]_frameVars
             PROVE  HooksInv'
  OBVIOUS
<1> USE DEF HooksInv
<1>a. None # "done" /\ None \notin FrameRuns /\ "done" \notin FrameRuns
  BY FrameRunsAssumption
<1>1. ASSUME NEW r \in FrameRuns, Install(r) PROVE HooksInv'
  <2>1. HooksTypeOK'
    BY <1>1 DEF Install, HooksTypeOK, cargo
  <2>2. OneInitializes'
    BY <1>a, <1>1 DEF Install, HooksTypeOK, OneInitializes
  <2>3. ChecksAreTrue'
    BY <1>1 DEF Install, HooksTypeOK, ChecksAreTrue
  <2>4. InitializedOnce'
    BY <1>a, <1>1 DEF Install, HooksTypeOK, InitializedOnce, cargo
  <2>5. PanicHookOnce'
    BY <1>1 DEF Install, HooksTypeOK, PanicHookOnce
  <2> QED BY <2>1, <2>2, <2>3, <2>4, <2>5
<1>2. ASSUME NEW r \in FrameRuns, CheckHooks(r) PROVE HooksInv'
  <2>1. HooksTypeOK'
    BY <1>2 DEF CheckHooks, HooksInstalled, HooksTypeOK, cargo
  <2>2. OneInitializes'
    BY <1>a, <1>2 DEF CheckHooks, HooksTypeOK, OneInitializes
  <2>3. ChecksAreTrue'
    BY <1>2 DEF CheckHooks, HooksInstalled, HooksTypeOK, ChecksAreTrue
  <2>4. InitializedOnce'
    BY <1>a, <1>2 DEF CheckHooks, HooksInstalled, HooksTypeOK, OneInitializes, ChecksAreTrue,
                      InitializedOnce, cargo
  <2>5. PanicHookOnce'
    BY <1>2 DEF CheckHooks, HooksTypeOK, PanicHookOnce
  <2> QED BY <2>1, <2>2, <2>3, <2>4, <2>5
<1>3. ASSUME NEW r \in FrameRuns, InstallHooks(r) PROVE HooksInv'
  <2>1. HooksTypeOK'
    BY <1>3 DEF InstallHooks, HooksTypeOK, cargo
  <2>2. OneInitializes'
    BY <1>a, <1>3 DEF InstallHooks, HooksTypeOK, OneInitializes
  <2>3. ChecksAreTrue'
    BY <1>3 DEF InstallHooks, HooksTypeOK, OneInitializes, ChecksAreTrue
  <2>4. InitializedOnce'
    BY <1>3 DEF InstallHooks, HooksTypeOK, InitializedOnce, cargo
  <2>5. PanicHookOnce'
    BY <1>3 DEF InstallHooks, HooksTypeOK, PanicHookOnce
  <2> QED BY <2>1, <2>2, <2>3, <2>4, <2>5
<1>4. ASSUME NEW r \in FrameRuns, InstallPanicHook(r) PROVE HooksInv'
  <2>1. HooksTypeOK'
    BY <1>4 DEF InstallPanicHook, HooksTypeOK, cargo
  <2>2. OneInitializes'
    BY <1>4 DEF InstallPanicHook, HooksTypeOK, OneInitializes
  <2>3. ChecksAreTrue'
    BY <1>4 DEF InstallPanicHook, HooksTypeOK, ChecksAreTrue
  <2>4. InitializedOnce'
    BY <1>4 DEF InstallPanicHook, HooksTypeOK, InitializedOnce, cargo
  <2>5. PanicHookOnce'
    BY <1>4 DEF InstallPanicHook, HooksTypeOK, PanicHookOnce
  <2> QED BY <2>1, <2>2, <2>3, <2>4, <2>5
<1>5. ASSUME NEW included \in BOOLEAN, Application(included) PROVE HooksInv'
  <2>1. HooksTypeOK' /\ OneInitializes' /\ PanicHookOnce'
    BY <1>5 DEF Application, HooksTypeOK, OneInitializes, PanicHookOnce, cargo
  <2>2. ChecksAreTrue' /\ InitializedOnce'
    BY <1>5 DEF Application, HooksTypeOK, ChecksAreTrue, InitializedOnce, cargo
  <2> QED BY <2>1, <2>2
<1>6. CASE \/ Handle
           \/ \E stack \in Stacks, location \in Locations, inTest, custom \in BOOLEAN :
                 \/ PanicAt(stack, location, inTest, custom)
                 \/ \E childless \in BOOLEAN :
                       CreateReport(stack, location, inTest, childless, custom)
           \/ UNCHANGED frameVars
  <2>1. /\ UNCHANGED <<asks, installs, hooksInPlace, reportHooks, panicHooks, hooksWarned, raced>>
        /\ hooksRan' \in {hooksRan, hooksRan \/ hooksInPlace = "ours"}
    <3>1. Handle \/ UNCHANGED frameVars =>
              UNCHANGED <<asks, installs, hooksInPlace, hooksRan, reportHooks, panicHooks,
                          hooksWarned, raced>>
      BY DEF Handle, frameVars, cargo, hooking
    <3>2. ASSUME NEW stack, NEW location, NEW inTest, NEW custom,
                 PanicAt(stack, location, inTest, custom)
          PROVE  /\ UNCHANGED <<asks, installs, hooksInPlace, reportHooks, panicHooks,
                                hooksWarned, raced>>
                 /\ hooksRan' = (hooksRan \/ hooksInPlace = "ours")
      BY <3>2 DEF PanicAt, cargo
    <3>3. ASSUME NEW stack, NEW location, NEW inTest, NEW childless, NEW custom,
                 CreateReport(stack, location, inTest, childless, custom)
          PROVE  /\ UNCHANGED <<asks, installs, hooksInPlace, reportHooks, panicHooks,
                                hooksWarned, raced>>
                 /\ hooksRan' = (hooksRan \/ hooksInPlace = "ours")
      BY <3>3 DEF CreateReport, cargo
    <3> QED BY <1>6, <3>1, <3>2, <3>3
  <2>2. HooksTypeOK' /\ OneInitializes' /\ PanicHookOnce'
    BY <2>1 DEF HooksTypeOK, OneInitializes, PanicHookOnce
  <2>3. ChecksAreTrue' /\ InitializedOnce'
    BY <2>1 DEF HooksTypeOK, ChecksAreTrue, InitializedOnce
  <2> QED BY <2>2, <2>3
<1> QED BY <1>1, <1>2, <1>3, <1>4, <1>5, <1>6 DEF FramesNext

\* Whichever run installs the hooks, and in whatever order with the application, every run
\* that asked for frames goes on only with the hooks in place or after a warning, and there is
\* one panic hook (failure_report::install).
THEOREM HooksInstalledOnce == FramesSpec => []HooksAreInstalled
<1>1. FramesInit => HooksInv
  BY FrameRunsAssumption
     DEF FramesInit, HooksInv, HooksTypeOK, OneInitializes, ChecksAreTrue, InitializedOnce, PanicHookOnce
<1>2. HooksInv => HooksAreInstalled
  BY DEF HooksInv, HooksTypeOK, ChecksAreTrue, InitializedOnce, PanicHookOnce, HooksAreInstalled
<1> QED BY <1>1, <1>2, HooksStep, PTL DEF FramesSpec

-----------------------------------------------------------------------------
(* Sets of numbers, lists, folds and sums                                  *)

\* The least of some numbers.
LEMMA LeastNumber ==
    ASSUME NEW S \in SUBSET Nat, S # {}
    PROVE  \E m \in S : \A k \in S : m <= k
<1>1. PICK m \in S : \A k \in S : <<k, m>> \notin OpToRel(<, Nat)
  BY WFMin, NatLessThanWellFounded, Zenon
<1>2. \A k \in S : ~(k < m)
  BY <1>1, Zenon DEF OpToRel
<1> QED BY <1>2

\* Induction over a set of numbers.
LEMMA NumberInduction ==
    ASSUME NEW S, 0 \in S, \A n \in Nat : n \in S => n + 1 \in S
    PROVE  Nat \subseteq S
<1>1. SUFFICES ASSUME Nat \ S # {} PROVE FALSE
  OBVIOUS
<1>2. PICK m \in Nat \ S : \A k \in Nat \ S : m <= k
  BY <1>1, LeastNumber
<1>3. m - 1 \in Nat /\ m - 1 \notin S
  BY <1>2
<1> QED BY <1>2, <1>3

\* A list has every element once, in the order it was given.
LEMMA ListingFacts ==
    ASSUME NEW S, IsFiniteSet(S), NEW R,
           \A x \in S : <<x, x>> \notin R,
           \A x, y \in S : x # y => <<x, y>> \in R \/ <<y, x>> \in R,
           \A x, y, z \in S : <<x, y>> \in R /\ <<y, z>> \in R => <<x, z>> \in R
    PROVE  /\ Cardinality(S) \in Nat
           /\ Listing(S, R) \in [1..Cardinality(S) -> S]
           /\ \A x \in S : \E n \in 1..Cardinality(S) : Listing(S, R)[n] = x
           /\ \A m, n \in 1..Cardinality(S) :
                 m < n => <<Listing(S, R)[m], Listing(S, R)[n]>> \in R
<1> DEFINE Before(x) == {y \in S : <<y, x>> \in R}
           rank == [x \in S |-> Cardinality(Before(x))]
           N == Cardinality(S)
           Ranks == 0..(N - 1)
<1>1. N \in Nat
  BY FS_CardinalityType
<1>2. ASSUME NEW x \in S
      PROVE  IsFiniteSet(Before(x)) /\ rank[x] \in Ranks
  <2>1. Before(x) \subseteq S \ {x}
    OBVIOUS
  <2>2. IsFiniteSet(S \ {x}) /\ Cardinality(S \ {x}) = N - 1
    BY FS_RemoveElement
  <2> HIDE DEF Before
  <2>3. IsFiniteSet(Before(x)) /\ Cardinality(Before(x)) <= N - 1
    BY <2>1, <2>2, FS_Subset
  <2> QED BY <1>1, <2>3, FS_CardinalityType
<1>3. ASSUME NEW x \in S, NEW y \in S, <<x, y>> \in R
      PROVE  rank[x] < rank[y]
  <2>1. Before(x) \cup {x} \subseteq Before(y)
    BY <1>3
  <2>2. x \notin Before(x)
    OBVIOUS
  <2>3. Cardinality(Before(x) \cup {x}) = Cardinality(Before(x)) + 1
    BY <1>2, <2>2, FS_AddElement
  <2>4. Cardinality(Before(x) \cup {x}) <= Cardinality(Before(y))
    BY <1>2, <2>1, FS_Subset
  <2>5. Cardinality(Before(x)) \in Nat /\ Cardinality(Before(y)) \in Nat
    BY <1>2, FS_CardinalityType
  <2> HIDE DEF Before
  <2> QED BY <2>3, <2>4, <2>5
<1>4. rank \in Injection(S, Ranks)
  <2>1. rank \in [S -> Ranks]
    BY <1>2
  <2>2. ASSUME NEW x \in S, NEW y \in S, rank[x] = rank[y] PROVE x = y
    <3> HIDE DEF rank
    <3>1. rank[x] \in Int /\ rank[y] \in Int
      BY <1>1, <2>1
    <3>2. ~(rank[x] < rank[y]) /\ ~(rank[y] < rank[x])
      BY <2>2, <3>1
    <3>3. <<x, y>> \notin R /\ <<y, x>> \notin R
      BY <1>3, <3>2
    <3> QED BY <3>3
  <2> HIDE DEF rank
  <2> QED BY <2>1, <2>2 DEF Injection, IsInjective
<1>5. IsFiniteSet(Ranks) /\ Cardinality(Ranks) = N
  <2> HIDE DEF N
  <2>1. N - 1 \in Int /\ (0 > N - 1 <=> N = 0)
    BY <1>1
  <2> QED BY <1>1, <2>1, FS_Interval
<1>6. rank \in Surjection(S, Ranks)
  <2> HIDE DEF rank, Ranks
  <2> QED BY <1>4, <1>5, FS_Injection
<1>7. \A r \in Ranks : \E x \in S : rank[x] = r
  <2> HIDE DEF rank, Ranks
  <2> QED BY <1>6 DEF Surjection
<1>8. ASSUME NEW n \in 1..N
      PROVE  Listing(S, R)[n] \in S /\ rank[Listing(S, R)[n]] = n - 1
  <2>1. n - 1 \in Ranks
    BY <1>1
  <2>2. Listing(S, R)[n] = CHOOSE x \in S : Cardinality({y \in S : <<y, x>> \in R}) = n - 1
    BY DEF Listing
  <2>3. \E x \in S : Cardinality({y \in S : <<y, x>> \in R}) = n - 1
    BY <1>7, <2>1
  <2> QED BY <2>2, <2>3
<1>9. Listing(S, R) \in [1..N -> S]
  BY <1>8 DEF Listing
<1> HIDE DEF rank
<1>10. ASSUME NEW x \in S PROVE \E n \in 1..N : Listing(S, R)[n] = x
  <2>1. rank[x] \in Ranks
    BY <1>4 DEF Injection
  <2>2. rank[x] + 1 \in 1..N
    BY <1>1, <2>1
  <2>3. Listing(S, R)[rank[x] + 1] \in S
        /\ rank[Listing(S, R)[rank[x] + 1]] = rank[x]
    BY <1>1, <1>8, <2>1, <2>2
  <2>4. Listing(S, R)[rank[x] + 1] = x
    BY <1>4, <2>3 DEF Injection, IsInjective
  <2> QED BY <2>2, <2>4
<1>11. ASSUME NEW m \in 1..N, NEW n \in 1..N, m < n
       PROVE  <<Listing(S, R)[m], Listing(S, R)[n]>> \in R
  <2>1. PICK x \in S, y \in S : x = Listing(S, R)[m] /\ y = Listing(S, R)[n]
    BY <1>8
  <2>2. rank[x] = m - 1 /\ rank[y] = n - 1
    BY <1>8, <2>1
  <2>3. x # y /\ ~(rank[y] < rank[x])
    BY <1>1, <1>11, <2>2
  <2>4. <<x, y>> \in R
    BY <1>3, <2>3
  <2> QED BY <2>1, <2>4
<1> QED BY <1>1, <1>9, <1>10, <1>11

\* A fold of the subsets of S: F[x][y] adds x, and c chooses the element that is added last.
CanFold(S, X, b, F, c) ==
    /\ IsFiniteSet(S) /\ b \in X /\ F \in [S -> [X -> X]]
    /\ \A T \in SUBSET S : T # {} => c[T] \in T

IsFold(g, S, X, b, F, c) ==
    /\ g \in [SUBSET S -> X] /\ g[{}] = b
    /\ \A T \in SUBSET S : T # {} => g[T] = F[c[T]][g[T \ {c[T]}]]

\* What is defined on the subsets of a finite set, by removing a chosen element, is a function.
LEMMA SubsetRecursion ==
    ASSUME NEW S, NEW X, NEW b, NEW F, NEW c, CanFold(S, X, b, F, c)
    PROVE  \E g : IsFold(g, S, X, b, F, c)
<1> USE DEF CanFold
<1> DEFINE Upto(n) == {T \in SUBSET S : Cardinality(T) <= n}
           Step(g, T) == IF T = {} THEN b ELSE F[c[T]][g[T \ {c[T]}]]
           Is(g, n) == g \in [Upto(n) -> X] /\ \A T \in Upto(n) : g[T] = Step(g, T)
           I == {n \in Nat : \E g : Is(g, n)}
<1>1. \A T \in SUBSET S : IsFiniteSet(T) /\ Cardinality(T) \in Nat
  BY FS_Subset, FS_CardinalityType
<1>2. \A T \in SUBSET S : T # {} =>
          T \ {c[T]} \in SUBSET S /\ Cardinality(T \ {c[T]}) = Cardinality(T) - 1
  BY <1>1, FS_RemoveElement
<1>3. 0 \in I
  <2>1. \A T \in Upto(0) : T = {}
    BY <1>1, FS_EmptySet
  <2>2. Is([T \in Upto(0) |-> b], 0)
    BY <2>1
  <2> HIDE DEF Is
  <2> QED BY <2>2
<1>4. ASSUME NEW n \in Nat, n \in I PROVE n + 1 \in I
  <2>1. PICK g : Is(g, n)
    BY <1>4
  <2> DEFINE h == [T \in Upto(n + 1) |-> Step(g, T)]
  <2>2. \A T \in Upto(n) : T \in Upto(n + 1) /\ h[T] = g[T]
    <3>1. \A T \in Upto(n) : T \in Upto(n + 1)
      BY <1>1
    <3> HIDE DEF Step, Upto
    <3> QED BY <2>1, <3>1
  <2>3. \A T \in Upto(n + 1) : T # {} => T \ {c[T]} \in Upto(n)
    BY <1>1, <1>2
  <2>4. \A T \in Upto(n + 1) : Step(g, T) \in X
    <3> SUFFICES ASSUME NEW T \in Upto(n + 1), T # {} PROVE F[c[T]][g[T \ {c[T]}]] \in X
      OBVIOUS
    <3>1. g[T \ {c[T]}] \in X
      BY <2>1, <2>3
    <3>2. c[T] \in S
      OBVIOUS
    <3>3. F[c[T]] \in [X -> X]
      BY <3>2
    <3> HIDE DEF CanFold
    <3> QED BY <3>1, <3>3
  <2>5. \A T \in Upto(n + 1) : Step(h, T) = Step(g, T)
    <3> HIDE DEF h, Upto
    <3> QED BY <2>2, <2>3
  <2>6. h \in [Upto(n + 1) -> X] /\ \A T \in Upto(n + 1) : h[T] = Step(g, T)
    <3> HIDE DEF Step, Upto
    <3> QED BY <2>4
  <2>7. Is(h, n + 1)
    <3> HIDE DEF h, Step, Upto
    <3> QED BY <2>5, <2>6
  <2> HIDE DEF Is
  <2> QED BY <2>7
<1>5. Cardinality(S) \in I
  <2>1. Nat \subseteq I
    <3> HIDE DEF I
    <3> QED BY <1>3, <1>4, NumberInduction
  <2> QED BY <1>1, <2>1
<1>6. PICK g : Is(g, Cardinality(S))
  BY <1>5
<1>7. Upto(Cardinality(S)) = SUBSET S
  BY FS_Subset
<1>8. g \in [SUBSET S -> X] /\ \A T \in SUBSET S : g[T] = Step(g, T)
  BY <1>6, <1>7
<1> QED BY <1>8 DEF IsFold

Chosen(T) == CHOOSE x \in T : TRUE

IsSum(g, f, S) ==
    g = [T \in SUBSET S |-> IF T = {} THEN 0 ELSE f[Chosen(T)] + g[T \ {Chosen(T)}]]

\* A sum does not depend on the set its parts are taken of.
LEMMA SumUnique ==
    ASSUME NEW S, NEW T \in SUBSET S, IsFiniteSet(S), NEW f, NEW g, NEW h,
           IsSum(g, f, S), IsSum(h, f, T)
    PROVE  \A U \in SUBSET T : g[U] = h[U]
<1> DEFINE I == {n \in Nat : \A U \in SUBSET T : Cardinality(U) = n => g[U] = h[U]}
<1>1. \A U \in SUBSET T : IsFiniteSet(U) /\ Cardinality(U) \in Nat
  BY FS_Subset, FS_CardinalityType
<1>2. 0 \in I
  <2>1. \A U \in SUBSET T : Cardinality(U) = 0 => U = {}
    BY <1>1, FS_EmptySet
  <2> QED BY <2>1 DEF IsSum
<1>3. ASSUME NEW n \in Nat, n \in I PROVE n + 1 \in I
  <2> SUFFICES ASSUME NEW U \in SUBSET T, Cardinality(U) = n + 1 PROVE g[U] = h[U]
    OBVIOUS
  <2>1. U # {}
    BY FS_EmptySet
  <2>2. Chosen(U) \in U
    BY <2>1 DEF Chosen
  <2>3. U \ {Chosen(U)} \in SUBSET T /\ Cardinality(U \ {Chosen(U)}) = n
    BY <1>1, <2>2, FS_RemoveElement
  <2>4. g[U \ {Chosen(U)}] = h[U \ {Chosen(U)}]
    BY <1>3, <2>3
  <2>5. /\ g[U] = f[Chosen(U)] + g[U \ {Chosen(U)}]
        /\ h[U] = f[Chosen(U)] + h[U \ {Chosen(U)}]
    BY <2>1 DEF IsSum
  <2> QED BY <2>4, <2>5
<1>4. Nat \subseteq I
  <2> HIDE DEF I
  <2> QED BY <1>2, <1>3, NumberInduction
<1> QED BY <1>1, <1>4

\* A sum is one on every subset.
LEMMA SumExists ==
    ASSUME NEW S, IsFiniteSet(S), NEW f, \A x \in S : f[x] \in Int
    PROVE  \E g \in [SUBSET S -> Int] : IsSum(g, f, S) /\ SumFunctionOnSet(f, S) = g[S]
<1> DEFINE F == [x \in S |-> [n \in Int |-> f[x] + n]]
           c == [T \in (SUBSET S) \ {{}} |-> Chosen(T)]
<1>1. \A T \in SUBSET S : T # {} => Chosen(T) \in T /\ Chosen(T) \in S /\ c[T] = Chosen(T)
  <2> SUFFICES ASSUME NEW T \in SUBSET S, T # {} PROVE Chosen(T) \in T /\ c[T] = Chosen(T)
    OBVIOUS
  <2>1. T \in (SUBSET S) \ {{}}
    OBVIOUS
  <2> QED BY <2>1 DEF Chosen
<1> HIDE DEF c
<1>2. /\ F \in [S -> [Int -> Int]]
      /\ \A x \in S, n \in Int : F[x][n] = f[x] + n
  OBVIOUS
<1> HIDE DEF F
<1>3. PICK g : IsFold(g, S, Int, 0, F, c)
  <2>1. CanFold(S, Int, 0, F, c)
    BY <1>1, <1>2 DEF CanFold
  <2> QED BY ONLY <2>1, SubsetRecursion
<1>4. \A T \in SUBSET S : T # {} =>
          F[c[T]][g[T \ {c[T]}]] = f[Chosen(T)] + g[T \ {Chosen(T)}]
  <2> SUFFICES ASSUME NEW T \in SUBSET S, T # {}
               PROVE  F[c[T]][g[T \ {c[T]}]] = f[Chosen(T)] + g[T \ {Chosen(T)}]
    OBVIOUS
  <2>1. c[T] = Chosen(T) /\ Chosen(T) \in S
    BY <1>1
  <2>2. g[T \ {Chosen(T)}] \in Int
    BY <1>3 DEF IsFold
  <2>3. F[Chosen(T)][g[T \ {Chosen(T)}]] = f[Chosen(T)] + g[T \ {Chosen(T)}]
    BY <1>2, <2>1, <2>2
  <2> QED BY <2>1, <2>3
<1>5. IsSum(g, f, S)
  <2> QED BY <1>3, <1>4 DEF IsSum, IsFold
<1>6. IsSum(CHOOSE k : IsSum(k, f, S), f, S)
  BY <1>5
<1>7. SumFunctionOnSet(f, S) = (CHOOSE k : IsSum(k, f, S))[S]
  BY DEF SumFunctionOnSet, FoldFunctionOnSet, MapThenFoldSet, IsSum, Chosen
<1>8. g[S] = (CHOOSE k : IsSum(k, f, S))[S]
  BY <1>5, <1>6, SumUnique
<1> QED BY <1>3, <1>5, <1>7, <1>8 DEF IsFold

\* Induction over the subsets of a finite set.
LEMMA SetInduction ==
    ASSUME NEW S, IsFiniteSet(S), NEW P, {} \in P,
           \A U \in SUBSET S, x \in S : U \in P /\ x \notin U => U \cup {x} \in P
    PROVE  SUBSET S \subseteq P
<1> DEFINE I == {n \in Nat : \A U \in SUBSET S : Cardinality(U) = n => U \in P}
<1>1. \A U \in SUBSET S : IsFiniteSet(U) /\ Cardinality(U) \in Nat
  BY FS_Subset, FS_CardinalityType
<1>2. 0 \in I
  <2>1. \A U \in SUBSET S : Cardinality(U) = 0 => U = {}
    BY <1>1, FS_EmptySet
  <2> QED BY <2>1
<1>3. ASSUME NEW n \in Nat, n \in I PROVE n + 1 \in I
  <2> SUFFICES ASSUME NEW U \in SUBSET S, Cardinality(U) = n + 1 PROVE U \in P
    OBVIOUS
  <2>1. PICK x : x \in U
    BY FS_EmptySet
  <2>2. U \ {x} \in SUBSET S /\ Cardinality(U \ {x}) = n
    <3>1. Cardinality(U \ {x}) = Cardinality(U) - 1
      BY <1>1, <2>1, FS_RemoveElement
    <3> QED BY <3>1
  <2>3. U \ {x} \in P /\ x \in S /\ x \notin U \ {x}
    BY <1>3, <2>1, <2>2
  <2>4. (U \ {x}) \cup {x} \in P
    BY <2>2, <2>3
  <2>5. (U \ {x}) \cup {x} = U
    BY <2>1
  <2> QED BY <2>4, <2>5
<1>4. Nat \subseteq I
  <2> HIDE DEF I
  <2> QED BY <1>2, <1>3, NumberInduction
<1> QED BY <1>1, <1>4

Summand(f, S) == IsFiniteSet(S) /\ \A x \in S : f[x] \in Int

\* The sum of nothing.
LEMMA SumEmpty == \A f : SumFunctionOnSet(f, {}) = 0
<1> SUFFICES ASSUME NEW f PROVE SumFunctionOnSet(f, {}) = 0
  OBVIOUS
<1>1. PICK S : S = {} /\ IsFiniteSet(S)
  BY FS_EmptySet
<1>2. \A x \in S : f[x] \in Int
  BY <1>1
<1>3. PICK g \in [SUBSET S -> Int] : IsSum(g, f, S) /\ SumFunctionOnSet(f, S) = g[S]
  BY <1>1, <1>2, SumExists
<1> QED BY <1>1, <1>3 DEF IsSum

\* A sum adds the element that was chosen to the others.
LEMMA SumChosen ==
    ASSUME NEW S, NEW f, Summand(f, S), S # {}
    PROVE  /\ SumFunctionOnSet(f, S) \in Int
           /\ Chosen(S) \in S
           /\ SumFunctionOnSet(f, S) = f[Chosen(S)] + SumFunctionOnSet(f, S \ {Chosen(S)})
<1> USE DEF Summand
<1>1. PICK T : T = S \ {Chosen(S)}
  OBVIOUS
<1>2. T \in SUBSET S /\ IsFiniteSet(T)
  BY <1>1, FS_Subset
<1>3. PICK g \in [SUBSET S -> Int] : IsSum(g, f, S) /\ SumFunctionOnSet(f, S) = g[S]
  BY SumExists
<1>4. PICK h \in [SUBSET T -> Int] : IsSum(h, f, T) /\ SumFunctionOnSet(f, T) = h[T]
  BY <1>2, SumExists
<1>5. g[T] = h[T]
  BY <1>2, <1>3, <1>4, SumUnique
<1>6. g[S] = f[Chosen(S)] + g[T]
  BY <1>1, <1>3 DEF IsSum
<1> QED BY <1>1, <1>3, <1>4, <1>5, <1>6 DEF Chosen

\* Any element may be added last.
LEMMA SumStep ==
    ASSUME NEW S, NEW f, Summand(f, S), NEW x \in S
    PROVE  /\ SumFunctionOnSet(f, S) \in Int
           /\ SumFunctionOnSet(f, S \ {x}) \in Int
           /\ SumFunctionOnSet(f, S) = f[x] + SumFunctionOnSet(f, S \ {x})
<1> DEFINE sum(U) == SumFunctionOnSet(f, U)
           I == {n \in Nat : \A U \in SUBSET S : Cardinality(U) = n =>
                                \A y \in U : sum(U) = f[y] + sum(U \ {y})}
<1>1. \A U \in SUBSET S : Summand(f, U) /\ IsFiniteSet(U) /\ Cardinality(U) \in Nat
  BY FS_Subset, FS_CardinalityType DEF Summand
<1>2. \A U \in SUBSET S : sum(U) \in Int
  <2> SUFFICES ASSUME NEW U \in SUBSET S PROVE sum(U) \in Int
    OBVIOUS
  <2>1. CASE U = {}
    BY <2>1, SumEmpty
  <2>2. CASE U # {}
    BY <1>1, <2>2, SumChosen
  <2> QED BY <2>1, <2>2
<1>3. \A U \in SUBSET S : U # {} => Chosen(U) \in U /\ sum(U) = f[Chosen(U)] + sum(U \ {Chosen(U)})
  BY <1>1, SumChosen
<1>4. \A y \in S : f[y] \in Int
  BY DEF Summand
<1> HIDE DEF sum
<1>5. 0 \in I
  BY <1>1, FS_EmptySet
<1>6. ASSUME NEW n \in Nat, n \in I PROVE n + 1 \in I
  <2> SUFFICES ASSUME NEW U \in SUBSET S, Cardinality(U) = n + 1, NEW y \in U
               PROVE  sum(U) = f[y] + sum(U \ {y})
    OBVIOUS
  <2>1. PICK c : c = Chosen(U) /\ c \in U /\ sum(U) = f[c] + sum(U \ {c})
    BY <1>3
  <2>2. CASE c = y
    BY <2>1, <2>2
  <2>3. CASE c # y
    <3>1. /\ U \ {c} \in SUBSET S /\ Cardinality(U \ {c}) = n /\ y \in U \ {c}
          /\ U \ {y} \in SUBSET S /\ Cardinality(U \ {y}) = n /\ c \in U \ {y}
      <4>1. /\ Cardinality(U \ {c}) = Cardinality(U) - 1
            /\ Cardinality(U \ {y}) = Cardinality(U) - 1
        BY <1>1, <2>1, FS_RemoveElement
      <4> QED BY <2>1, <2>3, <4>1
    <3>2. /\ sum(U \ {c}) = f[y] + sum((U \ {c}) \ {y})
          /\ sum(U \ {y}) = f[c] + sum((U \ {y}) \ {c})
      BY <1>6, <3>1
    <3>3. PICK rest \in SUBSET S : rest = (U \ {c}) \ {y} /\ rest = (U \ {y}) \ {c}
      OBVIOUS
    <3>4. /\ f[y] \in Int /\ f[c] \in Int /\ sum(rest) \in Int
          /\ sum(U \ {c}) = f[y] + sum(rest) /\ sum(U \ {y}) = f[c] + sum(rest)
      BY <1>2, <1>4, <2>1, <3>2, <3>3
    <3> QED BY <2>1, <3>4
  <2> QED BY <2>2, <2>3
<1>7. Nat \subseteq I
  <2> HIDE DEF I
  <2> QED BY <1>5, <1>6, NumberInduction
<1>8. sum(S) = f[x] + sum(S \ {x})
  BY <1>1, <1>7
<1> QED BY <1>2, <1>8 DEF sum

\* A sum of integers is one.
LEMMA SumType ==
    ASSUME NEW S, NEW f, Summand(f, S) PROVE SumFunctionOnSet(f, S) \in Int
<1>1. CASE S = {}
  BY <1>1, SumEmpty
<1>2. CASE S # {}
  BY <1>2, SumChosen
<1> QED BY <1>1, <1>2

\* One more.
LEMMA SumInsert ==
    ASSUME NEW U, NEW f, NEW x, x \notin U, Summand(f, U), f[x] \in Int
    PROVE  /\ Summand(f, U \cup {x})
           /\ SumFunctionOnSet(f, U \cup {x}) = f[x] + SumFunctionOnSet(f, U)
<1>1. PICK S : S = U \cup {x}
  OBVIOUS
<1>2. IsFiniteSet(S)
  BY <1>1, FS_AddElement DEF Summand
<1>3. Summand(f, S) /\ x \in S /\ S \ {x} = U
  BY <1>1, <1>2 DEF Summand
<1> QED BY <1>1, <1>3, SumStep

\* Equal summands, equal sums.
LEMMA SumSame ==
    ASSUME NEW S, NEW f, NEW h, Summand(f, S), \A x \in S : h[x] = f[x]
    PROVE  Summand(h, S) /\ SumFunctionOnSet(h, S) = SumFunctionOnSet(f, S)
<1> DEFINE P == {U \in SUBSET S : SumFunctionOnSet(h, U) = SumFunctionOnSet(f, U)}
<1>1. \A U \in SUBSET S : Summand(f, U) /\ Summand(h, U)
  BY FS_Subset DEF Summand
<1>2. {} \in P
  BY SumEmpty
<1>3. ASSUME NEW U \in SUBSET S, NEW x \in S, U \in P, x \notin U PROVE U \cup {x} \in P
  <2>1. /\ SumFunctionOnSet(f, U \cup {x}) = f[x] + SumFunctionOnSet(f, U)
        /\ SumFunctionOnSet(h, U \cup {x}) = h[x] + SumFunctionOnSet(h, U)
    BY <1>1, <1>3, SumInsert DEF Summand
  <2> QED BY <1>3, <2>1
<1>4. SUBSET S \subseteq P
  <2> HIDE DEF P
  <2> QED BY <1>2, <1>3, SetInduction DEF Summand
<1> QED BY <1>1, <1>4

\* The sum of sums.
LEMMA SumAdd ==
    ASSUME NEW S, NEW f, NEW g, NEW h, Summand(f, S), Summand(g, S), \A x \in S : h[x] = f[x] + g[x]
    PROVE  /\ Summand(h, S)
           /\ SumFunctionOnSet(h, S) = SumFunctionOnSet(f, S) + SumFunctionOnSet(g, S)
<1> DEFINE P == {U \in SUBSET S : SumFunctionOnSet(h, U) =
                                      SumFunctionOnSet(f, U) + SumFunctionOnSet(g, U)}
<1>1. \A U \in SUBSET S : Summand(f, U) /\ Summand(g, U) /\ Summand(h, U)
  BY FS_Subset DEF Summand
<1>2. {} \in P
  BY SumEmpty
<1>3. ASSUME NEW U \in SUBSET S, NEW x \in S, U \in P, x \notin U PROVE U \cup {x} \in P
  <2>1. f[x] \in Int /\ g[x] \in Int /\ h[x] = f[x] + g[x]
    BY DEF Summand
  <2>2. /\ SumFunctionOnSet(f, U \cup {x}) = f[x] + SumFunctionOnSet(f, U)
        /\ SumFunctionOnSet(g, U \cup {x}) = g[x] + SumFunctionOnSet(g, U)
        /\ SumFunctionOnSet(h, U \cup {x}) = h[x] + SumFunctionOnSet(h, U)
    BY <1>1, <1>3, <2>1, SumInsert DEF Summand
  <2>3. SumFunctionOnSet(f, U) \in Int /\ SumFunctionOnSet(g, U) \in Int
    BY <1>1, SumType
  <2>4. SumFunctionOnSet(h, U \cup {x}) =
            SumFunctionOnSet(f, U \cup {x}) + SumFunctionOnSet(g, U \cup {x})
    BY <1>3, <2>1, <2>2, <2>3
  <2> QED BY <2>4
<1>4. SUBSET S \subseteq P
  <2> HIDE DEF P
  <2> QED BY <1>2, <1>3, SetInduction DEF Summand
<1> QED BY <1>1, <1>4

\* What adds nothing may be left out.
LEMMA SumZeros ==
    ASSUME NEW S, NEW f, Summand(f, S), NEW T \in SUBSET S, \A x \in S \ T : f[x] = 0
    PROVE  SumFunctionOnSet(f, S) = SumFunctionOnSet(f, T)
<1> DEFINE P == {U \in SUBSET (S \ T) : SumFunctionOnSet(f, T \cup U) = SumFunctionOnSet(f, T)}
<1>1. \A U \in SUBSET S : Summand(f, U)
  BY FS_Subset DEF Summand
<1>2. {} \in P
  <2>1. T \cup {} = T
    OBVIOUS
  <2> QED BY <2>1
<1>3. ASSUME NEW U \in SUBSET (S \ T), NEW x \in S \ T, U \in P, x \notin U PROVE U \cup {x} \in P
  <2>1. PICK V : V = T \cup U
    OBVIOUS
  <2>2. Summand(f, V) /\ x \notin V /\ f[x] = 0
    BY <1>1, <1>3, <2>1
  <2>3. SumFunctionOnSet(f, V \cup {x}) = f[x] + SumFunctionOnSet(f, V)
    <3>1. f[x] \in Int
      BY <2>2
    <3> QED BY ONLY <2>2, <3>1, SumInsert
  <2>4. SumFunctionOnSet(f, V) \in Int
    BY <2>2, SumType
  <2>5. V \cup {x} = T \cup (U \cup {x})
    BY <2>1
  <2>6. SumFunctionOnSet(f, V \cup {x}) = SumFunctionOnSet(f, T)
    BY <1>3, <2>1, <2>2, <2>3, <2>4
  <2> QED BY <2>5, <2>6
<1>4. SUBSET (S \ T) \subseteq P
  <2>1. IsFiniteSet(S \ T)
    BY FS_Subset DEF Summand
  <2> HIDE DEF P
  <2> QED BY <1>2, <1>3, <2>1, SetInduction
<1>5. T \cup (S \ T) = S
  OBVIOUS
<1>6. S \ T \in P
  BY <1>4
<1> QED BY <1>5, <1>6

\* Sums do not depend on the order.
LEMMA SumReordered ==
    ASSUME NEW S, IsFiniteSet(S), NEW T, NEW f, Summand(f, T), NEW p \in Bijection(S, T), NEW h,
           \A x \in S : h[x] = f[p[x]]
    PROVE  Summand(h, S) /\ SumFunctionOnSet(h, S) = SumFunctionOnSet(f, T)
<1> DEFINE Image(U) == {p[x] : x \in U}
           P == {U \in SUBSET S : SumFunctionOnSet(h, U) = SumFunctionOnSet(f, Image(U))}
<1>0. /\ p \in [S -> T] /\ \A x, y \in S : p[x] = p[y] => x = y
      /\ \A y \in T : \E x \in S : p[x] = y
  BY DEF Bijection, Injection, Surjection, IsInjective
<1>1. \A U \in SUBSET S : Summand(h, U) /\ Image(U) \in SUBSET T /\ Summand(f, Image(U))
  <2> SUFFICES ASSUME NEW U \in SUBSET S
               PROVE  Summand(h, U) /\ Image(U) \in SUBSET T /\ Summand(f, Image(U))
    OBVIOUS
  <2>1. Image(U) \in SUBSET T
    BY <1>0
  <2> HIDE DEF Image
  <2>2. IsFiniteSet(Image(U)) /\ IsFiniteSet(U)
    BY <2>1, FS_Subset DEF Summand
  <2>3. \A x \in U : h[x] \in Int
    BY <1>0 DEF Summand
  <2> QED BY <2>1, <2>2, <2>3 DEF Summand
<1>2. {} \in P
  <2>1. Image({}) = {}
    OBVIOUS
  <2> HIDE DEF Image
  <2> QED BY <2>1, SumEmpty
<1>3. ASSUME NEW U \in SUBSET S, NEW x \in S, U \in P, x \notin U PROVE U \cup {x} \in P
  <2>1. Image(U \cup {x}) = Image(U) \cup {p[x]} /\ p[x] \notin Image(U)
    BY <1>0, <1>3
  <2>2. SumFunctionOnSet(h, U) = SumFunctionOnSet(f, Image(U))
    BY <1>3
  <2> HIDE DEF Image
  <2>3. Summand(h, U) /\ Summand(f, Image(U))
    BY <1>1
  <2>4. f[p[x]] \in Int /\ h[x] = f[p[x]]
    BY <1>0 DEF Summand
  <2>5. SumFunctionOnSet(h, U \cup {x}) = h[x] + SumFunctionOnSet(h, U)
    BY <1>3, <2>3, <2>4, SumInsert
  <2>6. SumFunctionOnSet(f, Image(U) \cup {p[x]}) = f[p[x]] + SumFunctionOnSet(f, Image(U))
    BY <2>1, <2>3, <2>4, SumInsert
  <2>7. SumFunctionOnSet(h, U \cup {x}) = SumFunctionOnSet(f, Image(U \cup {x}))
    BY <2>1, <2>2, <2>4, <2>5, <2>6
  <2> QED BY <2>7
<1>4. SUBSET S \subseteq P
  <2> HIDE DEF P
  <2> QED BY <1>2, <1>3, SetInduction
<1>5. Image(S) = T
  BY <1>0
<1> QED BY <1>1, <1>4, <1>5

\* A finite set of integers has a greatest one.
LEMMA MaxFacts ==
    ASSUME NEW S, IsFiniteSet(S), S \in SUBSET Int, S # {}
    PROVE  Max(S) \in S /\ \A y \in S : y <= Max(S)
<1> DEFINE P == {U \in SUBSET S : U # {} => \E x \in U : \A y \in U : x >= y}
<1>1. {} \in P
  OBVIOUS
<1>2. ASSUME NEW U \in SUBSET S, NEW n \in S, U \in P, n \notin U PROVE U \cup {n} \in P
  <2>1. CASE U = {}
    <3>1. n \in U \cup {n} /\ \A y \in U \cup {n} : n >= y
      BY <2>1
    <3> QED BY <3>1
  <2>2. CASE U # {}
    <3>1. PICK x \in U : \A y \in U : x >= y
      BY <1>2, <2>2
    <3>2. CASE x >= n
      <4>1. x \in U \cup {n} /\ \A y \in U \cup {n} : x >= y
        BY <3>1, <3>2
      <4> QED BY <4>1
    <3>3. CASE ~(x >= n)
      <4>1. \A y \in U : n >= y
        BY <3>1, <3>3
      <4>2. n \in U \cup {n} /\ \A y \in U \cup {n} : n >= y
        BY <4>1
      <4> QED BY <4>2
    <3> QED BY <3>2, <3>3
  <2> QED BY <2>1, <2>2
<1>3. SUBSET S \subseteq P
  <2> HIDE DEF P
  <2> QED BY <1>1, <1>2, SetInduction
<1>4. \E x \in S : \A y \in S : x >= y
  BY <1>3
<1>5. Max(S) \in S /\ \A y \in S : Max(S) >= y
  BY <1>4 DEF Max
<1> QED BY <1>5

\* A function from the numbers up to n: F[i] gives the value at i from the one before.
CanRecur(n, X, b, F) == n \in Nat /\ b \in X /\ F \in [1..n -> [X -> X]]

IsRecursion(r, n, X, b, F) ==
    r \in [0..n -> X] /\ r[0] = b /\ \A i \in 1..n : r[i] = F[i][r[i - 1]]

\* What is defined step by step up to n is a function.
LEMMA NumberRecursion ==
    ASSUME NEW n, NEW X, NEW b, NEW F, CanRecur(n, X, b, F)
    PROVE  \E r : IsRecursion(r, n, X, b, F)
<1> USE DEF CanRecur
<1> DEFINE Is(r, m) == r \in [0..m -> X] /\ r[0] = b /\ \A i \in 1..m : r[i] = F[i][r[i - 1]]
           I == {m \in Nat : m <= n => \E r : Is(r, m)}
<1>1. 0 \in I
  <2>1. Is([i \in 0..0 |-> b], 0)
    OBVIOUS
  <2> HIDE DEF Is
  <2> QED BY <2>1
<1>2. ASSUME NEW m \in Nat, m \in I PROVE m + 1 \in I
  <2> SUFFICES ASSUME m + 1 <= n PROVE \E r : Is(r, m + 1)
    OBVIOUS
  <2>1. PICK r : Is(r, m)
    BY <1>2
  <2> DEFINE q == [i \in 0..(m + 1) |-> IF i = m + 1 THEN F[i][r[m]] ELSE r[i]]
  <2>2. F[m + 1] \in [X -> X] /\ r[m] \in X
    BY <2>1
  <2>3. F[m + 1][r[m]] \in X
    BY <2>2
  <2>4. q \in [0..(m + 1) -> X]
    BY <2>1, <2>3
  <2>5. q[0] = b
    BY <2>1
  <2>6. ASSUME NEW i \in 1..(m + 1) PROVE q[i] = F[i][q[i - 1]]
    <3>1. CASE i = m + 1
      BY <3>1
    <3>2. CASE i # m + 1
      <4>1. i \in 1..m /\ i - 1 \in 0..m
        BY <3>2
      <4>2. q[i] = r[i] /\ q[i - 1] = r[i - 1]
        BY <4>1
      <4> HIDE DEF q
      <4> QED BY <2>1, <4>1, <4>2
    <3> QED BY <3>1, <3>2
  <2> HIDE DEF q
  <2>7. Is(q, m + 1)
    BY <2>4, <2>5, <2>6
  <2> HIDE DEF Is
  <2> QED BY <2>7
<1>3. n \in I
  <2> HIDE DEF I
  <2> QED BY <1>1, <1>2, NumberInduction
<1>4. PICK r : Is(r, n)
  BY <1>3
<1> QED BY <1>4 DEF IsRecursion

\* p takes each of S to one of T, and each of T is taken from one of S.
Reorders(p, S, T) ==
    /\ p \in [S -> T]
    /\ \A x, y \in S : p[x] = p[y] => x = y
    /\ \A y \in T : \E x \in S : p[x] = y

\* One by one is a bijection.
LEMMA ReordersIsBijection ==
    ASSUME NEW p, NEW S, NEW T, Reorders(p, S, T)
    PROVE  p \in Bijection(S, T)
BY DEF Reorders, Bijection, Injection, Surjection, IsInjective

\* Parts that correspond one by one have as many elements.
LEMMA SameCount ==
    ASSUME NEW p, NEW S, NEW T, Reorders(p, S, T), IsFiniteSet(S), NEW A \in SUBSET T,
           NEW B \in SUBSET S, \A x \in S : x \in B <=> p[x] \in A
    PROVE  Cardinality(B) = Cardinality(A)
<1> DEFINE q == [x \in B |-> p[x]]
<1>1. Reorders(q, B, A)
  BY DEF Reorders
<1>2. IsFiniteSet(B)
  BY FS_Subset
<1> HIDE DEF q
<1>3. q \in Bijection(B, A)
  BY <1>1, ReordersIsBijection
<1>4. Cardinality(A) = Cardinality(B)
  BY <1>2, <1>3, FS_Bijection DEF ExistsBijection
<1> QED BY <1>4

\* What sort_by_key does: each position is taken once, in the order of the keys.
LEMMA SortsByKey ==
    ASSUME NEW n \in Nat, NEW keys, DOMAIN keys = 1..n, \A i \in 1..n : keys[i] \in Int
    PROVE  /\ Reorders(ByKey(keys), 1..n, 1..n)
           /\ \A i, j \in 1..n :
                 i < j => \/ keys[ByKey(keys)[i]] < keys[ByKey(keys)[j]]
                          \/ /\ keys[ByKey(keys)[i]] = keys[ByKey(keys)[j]]
                             /\ ByKey(keys)[i] < ByKey(keys)[j]
<1> DEFINE before(i, j) == keys[i] < keys[j] \/ (keys[i] = keys[j] /\ i < j)
           R == {p \in (1..n) \X (1..n) : before(p[1], p[2])}
           list == ByKey(keys)
<1>1. list = Listing(1..n, R)
  BY DEF ByKey
<1>2. IsFiniteSet(1..n) /\ Cardinality(1..n) = n
  BY FS_Interval
<1>3. \A i, j \in 1..n : <<i, j>> \in R <=> before(i, j)
  OBVIOUS
<1> HIDE DEF R
<1>4. /\ \A x \in 1..n : <<x, x>> \notin R
      /\ \A x, y \in 1..n : x # y => <<x, y>> \in R \/ <<y, x>> \in R
      /\ \A x, y, z \in 1..n : <<x, y>> \in R /\ <<y, z>> \in R => <<x, z>> \in R
  BY <1>3
<1> HIDE DEF list
<1>5. /\ list \in [1..n -> 1..n]
      /\ \A x \in 1..n : \E m \in 1..n : list[m] = x
      /\ \A i, j \in 1..n : i < j => <<list[i], list[j]>> \in R
  <2>1. /\ Listing(1..n, R) \in [1..Cardinality(1..n) -> 1..n]
        /\ \A x \in 1..n : \E m \in 1..Cardinality(1..n) : Listing(1..n, R)[m] = x
        /\ \A i, j \in 1..Cardinality(1..n) :
              i < j => <<Listing(1..n, R)[i], Listing(1..n, R)[j]>> \in R
    BY ONLY <1>2, <1>4, ListingFacts
  <2> QED BY <1>1, <1>2, <2>1
<1>6. \A i, j \in 1..n : i < j => before(list[i], list[j])
  BY <1>3, <1>5
<1>7. ASSUME NEW i \in 1..n, NEW j \in 1..n, list[i] = list[j] PROVE i = j
  <2>1. ~(i < j) /\ ~(j < i)
    BY <1>4, <1>5, <1>7
  <2> QED BY <1>5, <2>1
<1> QED BY <1>5, <1>6, <1>7 DEF Reorders, list

\* What iterating over a BTreeMap does: each key once, ascending.
LEMMA ListsAscending ==
    ASSUME NEW S, IsFiniteSet(S), S \in SUBSET Int
    PROVE  /\ Cardinality(S) \in Nat
           /\ Reorders(Ascending(S), 1..Cardinality(S), S)
           /\ \A i, j \in 1..Cardinality(S) : i < j => Ascending(S)[i] < Ascending(S)[j]
<1> DEFINE R == {p \in S \X S : p[1] < p[2]}
           list == Ascending(S)
           n == Cardinality(S)
<1>1. list = Listing(S, R)
  BY DEF Ascending
<1>3. \A i, j \in S : <<i, j>> \in R <=> i < j
  OBVIOUS
<1> HIDE DEF R
<1>4. /\ \A x \in S : <<x, x>> \notin R
      /\ \A x, y \in S : x # y => <<x, y>> \in R \/ <<y, x>> \in R
      /\ \A x, y, z \in S : <<x, y>> \in R /\ <<y, z>> \in R => <<x, z>> \in R
  BY <1>3
<1> HIDE DEF list, n
<1>5. /\ n \in Nat
      /\ list \in [1..n -> S]
      /\ \A x \in S : \E m \in 1..n : list[m] = x
      /\ \A i, j \in 1..n : i < j => <<list[i], list[j]>> \in R
  <2>1. /\ Cardinality(S) \in Nat
        /\ Listing(S, R) \in [1..Cardinality(S) -> S]
        /\ \A x \in S : \E m \in 1..Cardinality(S) : Listing(S, R)[m] = x
        /\ \A i, j \in 1..Cardinality(S) :
              i < j => <<Listing(S, R)[i], Listing(S, R)[j]>> \in R
    BY ONLY IsFiniteSet(S), <1>4, ListingFacts
  <2> QED BY <1>1, <2>1 DEF n
<1>6. \A i, j \in 1..n : i < j => list[i] < list[j]
  BY <1>3, <1>5
<1>7. ASSUME NEW i \in 1..n, NEW j \in 1..n, list[i] = list[j] PROVE i = j
  <2>1. ~(i < j) /\ ~(j < i)
    BY <1>4, <1>5, <1>7
  <2> QED BY <1>5, <2>1
<1> QED BY <1>5, <1>6, <1>7 DEF Reorders, list, n

\* How a fold over a sequence chooses.
ChosenLast(n) == [T \in (SUBSET (1..n)) \ {{}} |-> Max(T)]

\* A fold over a sequence chooses the last of the positions left.
LEMMA LastOfChosen ==
    ASSUME NEW n \in Nat
    PROVE  /\ IsFiniteSet(1..n)
           /\ \A T \in SUBSET (1..n) : T # {} => Max(T) \in T /\ ChosenLast(n)[T] = Max(T)
           /\ \A i \in 1..n : Max(1..i) = i /\ (1..i) \ {i} = 1..(i - 1) /\ 1..i \in SUBSET (1..n)
<1>1. IsFiniteSet(1..n)
  BY FS_Interval
<1>2. ASSUME NEW T \in SUBSET (1..n), T # {}
      PROVE  Max(T) \in T /\ (\A i \in T : i <= Max(T)) /\ ChosenLast(n)[T] = Max(T)
  <2>1. IsFiniteSet(T) /\ T \in SUBSET Int
    <3>1. IsFiniteSet(T)
      BY <1>1, FS_Subset
    <3>2. 1..n \subseteq Int
      OBVIOUS
    <3> QED BY <3>1, <3>2
  <2>2. Max(T) \in T /\ \A i \in T : i <= Max(T)
    BY <1>2, <2>1, MaxFacts
  <2>3. T \in (SUBSET (1..n)) \ {{}}
    BY <1>2
  <2> QED BY <2>2, <2>3 DEF ChosenLast
<1>3. ASSUME NEW i \in 1..n
      PROVE  Max(1..i) = i /\ (1..i) \ {i} = 1..(i - 1) /\ 1..i \in SUBSET (1..n)
  <2>1. 1..i \in SUBSET (1..n) /\ i \in 1..i /\ (1..i) \ {i} = 1..(i - 1)
    OBVIOUS
  <2>2. PICK m, T : m = Max(T) /\ T = 1..i
    OBVIOUS
  <2>3. m \in T /\ i <= m
    BY <1>2, <2>1, <2>2
  <2> QED BY <2>1, <2>2, <2>3
<1> QED BY <1>1, <1>2, <1>3

-----------------------------------------------------------------------------
(* The report of a run                                                     *)

\* The records of the tests that finished, in the order of the tests, as the report has them.
TestsOf ==
    LET order == ByKey([i \in DOMAIN finished |-> finished[i].index])
    IN  [n \in DOMAIN order |-> finished[order[n]].record]

\* What a run that lasted so long reports.
Told(lasted) ==
    [children |-> IntoResult,
     notStarted |-> PlannedTests - Len(TestsOf),
     consumed |-> IF TestsOf = <<>> THEN None ELSE Summary(TestsOf, lasted),
     lasted |-> lasted]

\* Each test finished once at most.
FinishedOnce ==
    /\ finished \in Seq([index : 1..PlannedTests, record : Records])
    /\ \A i, j \in DOMAIN finished : finished[i].index = finished[j].index => i = j

\* Each test that failed has its failure, once.
FailuresOfFailed ==
    /\ failures \in Seq(1..PlannedTests)
    /\ \A i, j \in DOMAIN failures : failures[i] = failures[j] => i = j
    /\ {failures[i] : i \in DOMAIN failures} = {finished[i].index : i \in Failing}

\* The inductive invariant: the pieces of a report, and that it is made of them.
ReportsInv ==
    /\ FinishedOnce /\ FailuresOfFailed /\ released \in {0, 1}
    /\ report = None \/ \E lasted \in RunTimes : report = Told(lasted)

\* A report stays what its run told.
LEMMA ToldIsKept ==
    ASSUME NEW lasted, UNCHANGED <<finished, failures, released>>
    PROVE  Told(lasted)' = Told(lasted)
<1>1. TestsOf' = TestsOf
  BY DEF TestsOf
<1>2. IntoResult' = IntoResult
  BY DEF IntoResult
<1>3. TeardownTime(TestsOf)' = TeardownTime(TestsOf)
  BY <1>1 DEF TeardownTime, SumOf
<1>4. Summary(TestsOf, lasted)' = Summary(TestsOf, lasted)
  BY <1>1, <1>3 DEF Summary
<1> QED BY <1>1, <1>2, <1>4 DEF Told

\* Every step of the run keeps the invariant of its report.
LEMMA ReportsStep == ReportsInv /\ [ReportNext]_reportVars => ReportsInv'
<1> SUFFICES ASSUME ReportsInv, [ReportNext]_reportVars PROVE ReportsInv'
  OBVIOUS
<1>1. CASE UNCHANGED reportVars
  <2>1. UNCHANGED <<finished, failures, released, report>>
    BY <1>1 DEF reportVars
  <2>2. \A lasted \in RunTimes : Told(lasted)' = Told(lasted)
    BY <2>1, ToldIsKept
  <2> QED BY <2>1, <2>2 DEF ReportsInv, FinishedOnce, FailuresOfFailed, Failing, Of
<1>2. ASSUME NEW test \in 1..PlannedTests, NEW r \in Records, FinishTest(test, r)
      PROVE  ReportsInv'
  <2> DEFINE done == [index |-> test, record |-> r]
  <2>1. /\ finished \in Seq([index : 1..PlannedTests, record : Records])
        /\ failures \in Seq(1..PlannedTests)
        /\ finished' = Append(finished, done)
    BY <1>2 DEF ReportsInv, FinishedOnce, FailuresOfFailed, FinishTest
  <2>2. PICK n \in Nat : n = Len(finished) /\ DOMAIN finished = 1..n
    BY <2>1
  <2>3. /\ finished' \in Seq([index : 1..PlannedTests, record : Records])
        /\ DOMAIN finished' = 1..(n + 1)
        /\ \A i \in 1..n : finished'[i] = finished[i]
        /\ finished'[n + 1] = done
    BY <2>1, <2>2
  <2>4. \A i \in 1..n : finished[i].index # test
    BY <1>2, <2>2 DEF FinishTest, Finished
  <2>5. FinishedOnce'
    <3>1. \A i, j \in 1..n : finished[i].index = finished[j].index => i = j
      BY <2>2 DEF ReportsInv, FinishedOnce
    <3>2. done.index = test
      OBVIOUS
    <3> HIDE DEF done
    <3>3. ASSUME NEW i \in 1..(n + 1), NEW j \in 1..(n + 1), finished'[i].index = finished'[j].index
          PROVE  i = j
      <4>1. (i \in 1..n \/ i = n + 1) /\ (j \in 1..n \/ j = n + 1)
        OBVIOUS
      <4> QED BY <2>3, <2>4, <3>1, <3>2, <3>3, <4>1
    <3> QED BY <2>3, <3>3 DEF FinishedOnce
  <2>6. Failing' = IF IsFailed(r) THEN Failing \cup {n + 1} ELSE Failing
    <3>1. done.record = r
      OBVIOUS
    <3> HIDE DEF done
    <3>2. \A i \in 1..(n + 1) : i \in 1..n \/ i = n + 1
      OBVIOUS
    <3>3. 1..(n + 1) = 1..n \cup {n + 1} /\ n + 1 \notin 1..n
      BY <3>2
    <3> QED BY <2>2, <2>3, <3>1, <3>3 DEF Failing, Of, IsFailed
  <2>7. FailuresOfFailed'
    <3>1. PICK m \in Nat : m = Len(failures) /\ DOMAIN failures = 1..m
      BY <2>1
    <3>2. \A i \in Failing : i \in 1..n
      BY <2>2 DEF Failing, Of
    <3>3. CASE IsFailed(r)
      <4>1. failures' = Append(failures, test)
        BY <1>2, <3>3 DEF FinishTest
      <4>2. /\ failures' \in Seq(1..PlannedTests) /\ DOMAIN failures' = 1..(m + 1)
            /\ \A i \in 1..m : failures'[i] = failures[i]
            /\ failures'[m + 1] = test
        BY <2>1, <3>1, <4>1
      <4>3. \A i \in 1..m : failures[i] # test
        <5>1. \A i \in 1..m : failures[i] \in {finished[k].index : k \in Failing}
          BY <3>1 DEF ReportsInv, FailuresOfFailed
        <5> QED BY <2>4, <3>2, <5>1
      <4>4. ASSUME NEW i \in 1..(m + 1), NEW j \in 1..(m + 1), failures'[i] = failures'[j]
            PROVE  i = j
        <5>1. (i \in 1..m \/ i = m + 1) /\ (j \in 1..m \/ j = m + 1)
          OBVIOUS
        <5>2. \A k, l \in 1..m : failures[k] = failures[l] => k = l
          BY <3>1 DEF ReportsInv, FailuresOfFailed
        <5> QED BY <4>2, <4>3, <4>4, <5>1, <5>2
      <4>5. {failures'[i] : i \in 1..(m + 1)} = {failures[i] : i \in 1..m} \cup {test}
        <5>1. \A i \in 1..(m + 1) : i \in 1..m \/ i = m + 1
          OBVIOUS
        <5>2. 1..(m + 1) = 1..m \cup {m + 1}
          BY <5>1
        <5> QED BY <4>2, <5>2
      <4>6. {finished'[i].index : i \in Failing'} =
                {finished[i].index : i \in Failing} \cup {test}
        <5>1. Failing' = Failing \cup {n + 1}
          BY <2>6, <3>3
        <5>2. finished'[n + 1].index = test
          BY <2>3
        <5> QED BY <2>3, <3>2, <5>1, <5>2
      <4>7. {failures[i] : i \in 1..m} = {finished[i].index : i \in Failing}
        BY <3>1 DEF ReportsInv, FailuresOfFailed
      <4> QED BY <4>2, <4>4, <4>5, <4>6, <4>7 DEF FailuresOfFailed
    <3>4. CASE ~IsFailed(r)
      <4>1. failures' = failures /\ Failing' = Failing
        BY <1>2, <2>6, <3>4 DEF FinishTest
      <4>2. {finished'[i].index : i \in Failing} = {finished[i].index : i \in Failing}
        BY <2>3, <3>2
      <4> QED BY <4>1, <4>2 DEF ReportsInv, FailuresOfFailed
    <3> QED BY <3>3, <3>4
  <2> QED BY <1>2, <2>5, <2>7 DEF ReportsInv, FinishTest
<1>3. CASE ReleaseSession
  BY <1>3 DEF ReportsInv, ReleaseSession, FinishedOnce, FailuresOfFailed, Failing, Of
<1>4. ASSUME NEW lasted \in RunTimes, Report(lasted) PROVE ReportsInv'
  <2>1. /\ UNCHANGED <<finished, failures, released>>
        /\ report' = Told(lasted)
    BY <1>4 DEF Report, Told, TestsOf
  <2>2. report' = Told(lasted)'
    BY <2>1, ToldIsKept
  <2> QED BY <2>1, <2>2 DEF ReportsInv, FinishedOnce, FailuresOfFailed, Failing, Of
<1> QED BY <1>1, <1>2, <1>3, <1>4 DEF ReportNext

TestsAre(n, p) ==
    /\ n \in Nat /\ n = Len(finished) /\ DOMAIN finished = 1..n
    /\ \A i \in 1..n : finished[i].record \in Records
    /\ Reorders(p, 1..n, 1..n)
    /\ DOMAIN TestsOf = 1..n /\ Len(TestsOf) = n /\ (TestsOf = <<>> <=> n = 0)
    /\ \A i \in 1..n : TestsOf[i] = finished[p[i]].record /\ TestsOf[i] \in Records

\* The tests are reported once each, in the order of the run, whenever they finished.
LEMMA Reported == FinishedOnce => \E n, p : TestsAre(n, p)
<1> SUFFICES ASSUME FinishedOnce PROVE \E n, p : TestsAre(n, p)
  OBVIOUS
<1>1. finished \in Seq([index : 1..PlannedTests, record : Records])
  BY DEF FinishedOnce
<1>2. PICK n \in Nat : n = Len(finished) /\ DOMAIN finished = 1..n
  BY <1>1
<1>2a. \A i \in 1..n : finished[i] \in [index : 1..PlannedTests, record : Records]
  BY <1>1, <1>2, ElementOfSeq
<1>3. PICK keys : keys = [i \in DOMAIN finished |-> finished[i].index]
  OBVIOUS
<1>4. DOMAIN keys = 1..n /\ \A i \in 1..n : keys[i] \in Int
  <2>1. \A i \in 1..n : finished[i].index \in 1..PlannedTests
    BY <1>2a
  <2> QED BY <1>2, <1>3, <2>1, ReportAssumption
<1>5. PICK p : p = ByKey(keys) /\ Reorders(p, 1..n, 1..n)
  BY <1>4, SortsByKey
<1>6. DOMAIN p = 1..n /\ \A i \in 1..n : p[i] \in 1..n
  BY <1>5 DEF Reorders
<1>7. TestsOf = [i \in 1..n |-> finished[p[i]].record]
  BY <1>3, <1>5, <1>6 DEF TestsOf
<1>8. \A i \in 1..n : finished[i].record \in Records
  BY <1>2a
<1>9. \A i \in 1..n : TestsOf[i] = finished[p[i]].record /\ TestsOf[i] \in Records
  BY <1>6, <1>7, <1>8
<1>10. DOMAIN TestsOf = 1..n /\ Len(TestsOf) = n /\ (TestsOf = <<>> <=> n = 0)
  <2>1. TestsOf \in Seq(Records) /\ DOMAIN TestsOf = 1..n
    BY <1>6, <1>7, <1>8
  <2> QED BY <2>1
<1>11. TestsAre(n, p)
  BY <1>2, <1>5, <1>8, <1>9, <1>10 DEF TestsAre
<1> QED BY <1>11

\* Two parts have as many elements as they have together.
LEMMA SumOfParts ==
    ASSUME NEW S, NEW T, IsFiniteSet(S), IsFiniteSet(T), S \cap T = {}
    PROVE  IsFiniteSet(S \cup T) /\ Cardinality(S \cup T) = Cardinality(S) + Cardinality(T)
<1>1. /\ IsFiniteSet(S \cup T)
      /\ Cardinality(S \cup T) = Cardinality(S) + Cardinality(T) - Cardinality(S \cap T)
  BY FS_Union
<1>2. Cardinality(S) \in Nat /\ Cardinality(T) \in Nat
  BY FS_CardinalityType
<1>3. Cardinality(S \cap T) = 0
  BY FS_EmptySet
<1> QED BY <1>1, <1>2, <1>3

\* Every test is counted as one of passed, failed and cancelled, and each session by how it was prepared.
LEMMA CountsTests ==
    ASSUME NEW n, NEW p, TestsAre(n, p)
    PROVE  /\ Passed(TestsOf) \in Nat /\ FailedTests(TestsOf) \in Nat
           /\ CancelledTests(TestsOf) \in Nat
           /\ Passed(TestsOf) + FailedTests(TestsOf) + CancelledTests(TestsOf) = n
           /\ FailedTests(TestsOf) = Cardinality(Failing)
           /\ Prepared(TestsOf, "Created") + Prepared(TestsOf, "Reset") =
                 Cardinality(InSession)
<1> DEFINE P == {i \in 1..n : IsPassed(TestsOf[i])}
           F == {i \in 1..n : IsFailed(TestsOf[i])}
           C == {i \in 1..n : IsCancelled(TestsOf[i])}
           N == {i \in 1..n : IsPrepared(TestsOf[i], "Created")}
           R == {i \in 1..n : IsPrepared(TestsOf[i], "Reset")}
           inSession == {i \in 1..n : finished[i].record.session # None}
<1>1. /\ n \in Nat /\ DOMAIN finished = 1..n /\ DOMAIN TestsOf = 1..n
      /\ Reorders(p, 1..n, 1..n) /\ \A i \in 1..n : p[i] \in 1..n
      /\ \A i \in 1..n : TestsOf[i] = finished[p[i]].record /\ TestsOf[i] \in Records
  BY DEF TestsAre, Reorders
<1>2. IsFiniteSet(1..n) /\ Cardinality(1..n) = n
  BY <1>1, FS_Interval
<1>3. /\ IsFiniteSet(P) /\ IsFiniteSet(F) /\ IsFiniteSet(C) /\ IsFiniteSet(N) /\ IsFiniteSet(R)
      /\ Cardinality(P) \in Nat /\ Cardinality(F) \in Nat /\ Cardinality(C) \in Nat
      /\ Cardinality(N) \in Nat /\ Cardinality(R) \in Nat
  <2>1. /\ P \in SUBSET (1..n) /\ F \in SUBSET (1..n) /\ C \in SUBSET (1..n)
        /\ N \in SUBSET (1..n) /\ R \in SUBSET (1..n)
    OBVIOUS
  <2> HIDE DEF P, F, C, N, R
  <2> QED BY <1>2, <2>1, FS_Subset, FS_CardinalityType
<1>4. Cardinality(P) + Cardinality(F) + Cardinality(C) = n
  <2>1. \A i \in 1..n : TestsOf[i].outcome \in
            {"Passed", "Failed", "Panicked", "TimedOut", "Cancelled"}
    BY <1>1, ReportAssumption
  <2>2. P \cap F = {} /\ (P \cup F) \cap C = {} /\ (P \cup F) \cup C = 1..n
    BY <2>1 DEF IsPassed, IsFailed, IsCancelled
  <2> HIDE DEF P, F, C
  <2>3. IsFiniteSet(P \cup F) /\ Cardinality(P \cup F) = Cardinality(P) + Cardinality(F)
    BY <1>3, <2>2, SumOfParts
  <2>4. Cardinality((P \cup F) \cup C) = Cardinality(P \cup F) + Cardinality(C)
    BY <1>3, <2>2, <2>3, SumOfParts
  <2> QED BY <1>2, <1>3, <2>2, <2>3, <2>4
<1>5. Cardinality(F) = Cardinality(Failing)
  <2>1. PICK A : A = Failing /\ A \in SUBSET (1..n)
    BY <1>1 DEF Failing, Of
  <2>2. F = {i \in 1..n : p[i] \in A}
    BY <1>1, <2>1 DEF Failing, Of
  <2> HIDE DEF F
  <2>3. F \in SUBSET (1..n) /\ \A i \in 1..n : i \in F <=> p[i] \in A
    BY <2>2
  <2>4. Cardinality(F) = Cardinality(A)
    <3>1. PICK D, B : D = 1..n /\ B = F
      OBVIOUS
    <3>2. /\ Reorders(p, D, D) /\ IsFiniteSet(D) /\ A \in SUBSET D
          /\ B \in SUBSET D /\ \A i \in D : i \in B <=> p[i] \in A
      BY <1>1, <1>2, <2>1, <2>3, <3>1
    <3>3. Cardinality(B) = Cardinality(A)
      BY ONLY <3>2, SameCount
    <3> QED BY <3>1, <3>3
  <2> QED BY <2>1, <2>4
<1>6. Cardinality(N) + Cardinality(R) = Cardinality(inSession)
  <2>1. \A r \in Records : r.session # None => r.session.prepared \in {"Created", "Reset"}
    BY ReportAssumption
  <2>2. N \cap R = {} /\ N \cup R = {i \in 1..n : p[i] \in inSession}
    BY <1>1, <2>1 DEF IsPrepared
  <2>3. inSession \in SUBSET (1..n)
    OBVIOUS
  <2> HIDE DEF N, R, inSession
  <2>4. Cardinality(N \cup R) = Cardinality(inSession)
    <3>1. PICK D, B : D = 1..n /\ B = N \cup R
      OBVIOUS
    <3>2. /\ Reorders(p, D, D) /\ IsFiniteSet(D) /\ inSession \in SUBSET D
          /\ B \in SUBSET D /\ \A i \in D : i \in B <=> p[i] \in inSession
      BY <1>1, <1>2, <2>2, <2>3, <3>1
    <3>3. Cardinality(B) = Cardinality(inSession)
      BY ONLY <3>2, SameCount
    <3> QED BY <3>1, <3>3
  <2>5. Cardinality(N \cup R) = Cardinality(N) + Cardinality(R)
    BY <1>3, <2>2, SumOfParts
  <2> QED BY <2>4, <2>5
<1>7. InSession = inSession
  BY <1>1 DEF InSession, Of
<1> QED BY <1>1, <1>3, <1>4, <1>5, <1>6, <1>7 DEF Passed, FailedTests, CancelledTests, Prepared

\* RunState::into_result has the failure of each test that failed, in the order of the tests.
LEMMA ChildrenOfFailed ==
    ASSUME FinishedOnce, FailuresOfFailed
    PROVE  /\ {IntoResult[i] : i \in DOMAIN IntoResult} =
                  {finished[i].index : i \in Failing}
           /\ Len(IntoResult) = Cardinality(Failing)
           /\ \A i, j \in DOMAIN IntoResult : i < j => IntoResult[i] < IntoResult[j]
<1> DEFINE A == {finished[i].index : i \in Failing}
<1>1. PICK m \in Nat : m = Len(failures) /\ DOMAIN failures = 1..m
  BY DEF FailuresOfFailed
<1>2. /\ \A i \in 1..m : failures[i] \in Int /\ failures[i] \in 1..PlannedTests
      /\ \A i, j \in 1..m : failures[i] = failures[j] => i = j
      /\ {failures[i] : i \in 1..m} = A
      /\ failures \in Seq(1..PlannedTests)
  <2>1. failures \in Seq(1..PlannedTests)
    BY DEF FailuresOfFailed
  <2>2. \A i \in 1..m : failures[i] \in 1..PlannedTests
    BY <1>1, <2>1, ElementOfSeq
  <2>3. \A i \in 1..m : failures[i] \in Int
    BY <2>2, ReportAssumption
  <2> QED BY <1>1, <2>1, <2>2, <2>3 DEF FailuresOfFailed
<1>3. PICK q : /\ q = ByKey(failures) /\ Reorders(q, 1..m, 1..m)
               /\ \A i, j \in 1..m : i < j => \/ failures[q[i]] < failures[q[j]]
                                              \/ failures[q[i]] = failures[q[j]] /\ q[i] < q[j]
  BY <1>1, <1>2, SortsByKey
<1>4. /\ DOMAIN q = 1..m /\ \A i \in 1..m : q[i] \in 1..m
      /\ \A i, j \in 1..m : q[i] = q[j] => i = j
      /\ \A j \in 1..m : \E i \in 1..m : q[i] = j
  BY <1>3 DEF Reorders
<1>5. IntoResult = [i \in 1..m |-> failures[q[i]]]
  BY <1>3, <1>4 DEF IntoResult
<1>6. DOMAIN IntoResult = 1..m /\ Len(IntoResult) = m /\ \A i \in 1..m : IntoResult[i] = failures[q[i]]
  <2>1. IntoResult \in Seq(1..PlannedTests)
    <3>1. \A i \in 1..m : failures[q[i]] \in 1..PlannedTests
      BY <1>1, <1>2, <1>4
    <3> QED BY <1>5, <3>1
  <2> QED BY <1>5, <2>1
<1>7. {IntoResult[i] : i \in 1..m} = A
  <2>1. {IntoResult[i] : i \in 1..m} = {failures[i] : i \in 1..m}
    <3> HIDE DEF A
    <3>1. \A i \in 1..m : q[i] \in 1..m /\ IntoResult[i] = failures[q[i]]
      BY <1>4, <1>6
    <3>2. \A j \in 1..m : \E i \in 1..m : IntoResult[i] = failures[j]
      BY <1>4, <1>6
    <3> QED BY ONLY <3>1, <3>2
  <2> QED BY <1>2, <2>1
<1>8. \A i, j \in 1..m : i < j => IntoResult[i] < IntoResult[j]
  <2> SUFFICES ASSUME NEW i \in 1..m, NEW j \in 1..m, i < j PROVE failures[q[i]] < failures[q[j]]
    BY <1>6
  <2>1. q[i] # q[j] /\ failures[q[i]] # failures[q[j]]
    <3>1. \A k, l \in 1..m : failures[k] = failures[l] => k = l
      BY <1>2
    <3>2. /\ \A k \in 1..m : q[k] \in 1..m
          /\ \A k, l \in 1..m : q[k] = q[l] => k = l
      BY <1>4
    <3> QED BY ONLY m \in Nat, i \in 1..m, j \in 1..m, i < j, <3>1, <3>2
  <2> QED BY <1>3, <2>1
<1>9. m = Cardinality(Failing)
  <2>1. PICK D : D = Failing
    OBVIOUS
  <2>2. IsFiniteSet(D)
    <3>1. PICK n \in Nat : DOMAIN finished = 1..n
      BY DEF FinishedOnce
    <3>2. D \in SUBSET (1..n) /\ IsFiniteSet(1..n)
      BY <2>1, <3>1, FS_Interval DEF Failing, Of
    <3> QED BY <3>2, FS_Subset
  <2>3. PICK index : index = [i \in D |-> finished[i].index]
    OBVIOUS
  <2>4. Reorders(index, D, A)
    <3>1. \A i, j \in D : finished[i].index = finished[j].index => i = j
      BY <2>1 DEF FinishedOnce, Failing, Of
    <3> QED BY <2>1, <2>3, <3>1 DEF Reorders
  <2>5. Reorders(failures, 1..m, A)
    <3>1. failures = [i \in 1..m |-> failures[i]]
      BY <1>1, <1>2
    <3>2. failures \in [1..m -> A]
      BY <1>2, <3>1
    <3> QED BY <1>2, <3>2 DEF Reorders
  <2> HIDE DEF A
  <2>6. Cardinality(A) = Cardinality(D)
    BY <2>2, <2>4, ReordersIsBijection, FS_Bijection DEF ExistsBijection
  <2>7. IsFiniteSet(1..m) /\ Cardinality(1..m) = m
    BY FS_Interval
  <2>8. Cardinality(A) = m
    BY <2>5, <2>7, ReordersIsBijection, FS_Bijection DEF ExistsBijection
  <2> QED BY <2>1, <2>6, <2>8
<1> QED BY <1>6, <1>7, <1>8, <1>9

\* h has the numbers of the report's tests, f those of the tests as they finished.
Numbers(h, f, n, p) ==
    DOMAIN h = 1..n /\ \A i \in 1..n : f[i] \in Int /\ h[i] = f[p[i]]

\* A sum over the tests of the report is one over those that finished, in any order.
LEMMA SumOfTests ==
    ASSUME NEW n, NEW p, TestsAre(n, p), NEW h, NEW f, Numbers(h, f, n, p)
    PROVE  /\ Summand(f, 1..n)
           /\ SumFunction(h) = SumFunctionOnSet(f, 1..n)
<1> USE DEF Numbers
<1>1. PICK D : D = 1..n
  OBVIOUS
<1>2. Summand(f, D) /\ IsFiniteSet(D)
  BY <1>1, FS_Interval DEF Summand, TestsAre
<1>3. p \in Bijection(D, D)
  BY <1>1, ReordersIsBijection DEF TestsAre
<1>4. \A i \in D : h[i] = f[p[i]]
  BY <1>1
<1>5. SumFunctionOnSet(h, D) = SumFunctionOnSet(f, D)
  BY ONLY <1>2, <1>3, <1>4, SumReordered
<1> QED BY <1>1, <1>2, <1>5 DEF SumFunction

\* The times of a record are numbers.
LEMMA TimesOfRecord ==
    ASSUME NEW r \in Records
    PROVE  /\ r.session # None => /\ r.session.duration \in Nat /\ r.session.wait \in Nat
                                  /\ r.session.prepared \in {"Created", "Reset"}
           /\ OrElse(r.body, 0) \in Nat /\ OrElse(r.teardown, 0) \in Nat
           /\ (IF r.session = None THEN 0 ELSE r.session.wait) \in Nat
           /\ TestTime(r) \in Nat
           /\ \A k \in Kinds : r.steps[k] \in Times
<1>1. /\ r.session = None \/ r.session \in [prepared : {"Created", "Reset"},
                                           duration : Nat, wait : Nat]
      /\ r.body \in Nat \cup {None} /\ r.teardown \in Nat \cup {None}
      /\ \A k \in Kinds : r.steps[k] \in Times
  BY ReportAssumption
<1>2. OrElse(r.body, 0) \in Nat /\ OrElse(r.teardown, 0) \in Nat
  BY <1>1 DEF OrElse
<1>3. (IF r.session = None THEN 0 ELSE r.session.wait) \in Nat
  BY <1>1
<1> QED BY <1>1, <1>2, <1>3 DEF TestTime

\* The time of created and of reset sessions is the time of all sessions.
LEMMA SessionTimes ==
    ASSUME NEW n, NEW p, TestsAre(n, p)
    PROVE  SessionTime(TestsOf, "Created") + SessionTime(TestsOf, "Reset") =
              DurationOfSessions
<1> DEFINE time(r, how) == IF IsPrepared(r, how) THEN r.session.duration ELSE 0
<1>1. /\ n \in Nat /\ DOMAIN finished = 1..n /\ DOMAIN TestsOf = 1..n
      /\ \A i \in 1..n : p[i] \in 1..n
      /\ \A i \in 1..n : finished[i].record \in Records
      /\ \A i \in 1..n : TestsOf[i] = finished[p[i]].record
  BY DEF TestsAre, Reorders
<1>2. PICK h1, h2 : /\ h1 = [i \in DOMAIN TestsOf |-> time(TestsOf[i], "Created")]
                    /\ h2 = [i \in DOMAIN TestsOf |-> time(TestsOf[i], "Reset")]
  OBVIOUS
<1>3. PICK f1, f2 : /\ f1 = [i \in 1..n |-> time(finished[i].record, "Created")]
                    /\ f2 = [i \in 1..n |-> time(finished[i].record, "Reset")]
  OBVIOUS
<1>4. SessionTime(TestsOf, "Created") = SumFunction(h1) /\ SessionTime(TestsOf, "Reset") = SumFunction(h2)
  BY <1>2 DEF SessionTime, SumOf
<1>5. \A i \in 1..n : f1[i] \in Int /\ f2[i] \in Int
  <2>1. \A r \in Records : IsPrepared(r, "Created") \/ IsPrepared(r, "Reset") => r.session.duration \in Nat
    BY TimesOfRecord DEF IsPrepared
  <2> QED BY <1>1, <1>3, <2>1
<1>6. Numbers(h1, f1, n, p) /\ Numbers(h2, f2, n, p)
  BY <1>1, <1>2, <1>3, <1>5 DEF Numbers
<1>7. /\ Summand(f1, 1..n) /\ SumFunction(h1) = SumFunctionOnSet(f1, 1..n)
      /\ Summand(f2, 1..n) /\ SumFunction(h2) = SumFunctionOnSet(f2, 1..n)
  BY ONLY TestsAre(n, p), <1>6, SumOfTests
<1>8. PICK f, D, T : /\ f = [i \in 1..n |-> f1[i] + f2[i]] /\ D = 1..n
                     /\ T = InSession
  OBVIOUS
<1>9. \A i \in D : f[i] = f1[i] + f2[i]
  BY <1>8
<1>10. Summand(f, D) /\ SumFunctionOnSet(f, D) = SumFunctionOnSet(f1, D) + SumFunctionOnSet(f2, D)
  <2>1. Summand(f1, D) /\ Summand(f2, D)
    BY <1>7, <1>8
  <2> QED BY ONLY <2>1, <1>9, SumAdd
<1>11. /\ T \in SUBSET D
       /\ \A i \in D \ T : f[i] = 0
       /\ \A i \in T : f[i] = finished[i].record.session.duration
  <2>1. T = {i \in D : finished[i].record.session # None}
    BY <1>1, <1>8 DEF InSession, Of
  <2>2. ASSUME NEW i \in D
        PROVE  f[i] = IF finished[i].record.session = None THEN 0
                      ELSE finished[i].record.session.duration
    <3>1. PICK r \in Records : r = finished[i].record
      BY <1>1, <1>8
    <3>2. f[i] = time(r, "Created") + time(r, "Reset")
      BY <1>3, <1>8, <3>1
    <3>3. r.session # None => /\ r.session.duration \in Nat
                              /\ r.session.prepared \in {"Created", "Reset"}
      BY TimesOfRecord
    <3>4. time(r, "Created") + time(r, "Reset") = IF r.session = None THEN 0 ELSE r.session.duration
      BY <3>3 DEF IsPrepared
    <3> QED BY <3>1, <3>2, <3>4
  <2> QED BY <2>1, <2>2
<1>12. SumFunctionOnSet(f, D) = SumFunctionOnSet(f, T)
  BY ONLY <1>10, <1>11, SumZeros
<1>13. PICK g : g = [i \in T |-> finished[i].record.session.duration]
  OBVIOUS
<1>14. SumFunctionOnSet(g, T) = SumFunctionOnSet(f, T)
  <2>1. Summand(f, T)
    BY <1>10, <1>11, FS_Subset DEF Summand
  <2>2. \A i \in T : g[i] = f[i]
    BY <1>11, <1>13
  <2> QED BY ONLY <2>1, <2>2, SumSame
<1>15. DurationOfSessions = SumFunctionOnSet(g, T)
  BY <1>8, <1>13 DEF DurationOfSessions, Total
<1> QED BY <1>4, <1>7, <1>8, <1>10, <1>12, <1>14, <1>15

\* Waiting and running add up to the time of the tests.
LEMMA MomentsOfTests ==
    ASSUME NEW n, NEW p, TestsAre(n, p)
    PROVE  WaitTime(TestsOf) + BodyTime(TestsOf) = TimeOfTests
<1> DEFINE wait(r) == IF r.session = None THEN 0 ELSE r.session.wait
           lasted(r) == OrElse(r.body, 0)
<1>1. /\ n \in Nat /\ DOMAIN finished = 1..n /\ DOMAIN TestsOf = 1..n
      /\ \A i \in 1..n : p[i] \in 1..n
      /\ \A i \in 1..n : finished[i].record \in Records
      /\ \A i \in 1..n : TestsOf[i] = finished[p[i]].record
  BY DEF TestsAre, Reorders
<1>2. PICK h1, h2 : /\ h1 = [i \in DOMAIN TestsOf |-> wait(TestsOf[i])]
                    /\ h2 = [i \in DOMAIN TestsOf |-> lasted(TestsOf[i])]
  OBVIOUS
<1>3. PICK f1, f2, f : /\ f1 = [i \in 1..n |-> wait(finished[i].record)]
                       /\ f2 = [i \in 1..n |-> lasted(finished[i].record)]
                       /\ f = [i \in 1..n |-> TestTime(finished[i].record)]
  OBVIOUS
<1>4. WaitTime(TestsOf) = SumFunction(h1) /\ BodyTime(TestsOf) = SumFunction(h2)
  BY <1>2 DEF WaitTime, BodyTime, SumOf
<1>5. \A i \in 1..n : f1[i] \in Int /\ f2[i] \in Int
  <2>1. \A r \in Records : wait(r) \in Nat /\ lasted(r) \in Nat
    BY TimesOfRecord
  <2> HIDE DEF wait, lasted
  <2> QED BY <1>1, <1>3, <2>1
<1>6. Numbers(h1, f1, n, p) /\ Numbers(h2, f2, n, p)
  BY <1>1, <1>2, <1>3, <1>5 DEF Numbers
<1>7. /\ Summand(f1, 1..n) /\ SumFunction(h1) = SumFunctionOnSet(f1, 1..n)
      /\ Summand(f2, 1..n) /\ SumFunction(h2) = SumFunctionOnSet(f2, 1..n)
  BY ONLY TestsAre(n, p), <1>6, SumOfTests
<1>8. PICK D : D = 1..n
  OBVIOUS
<1>9. \A i \in D : f[i] = f1[i] + f2[i]
  BY <1>3, <1>8 DEF TestTime
<1>10. Summand(f1, D) /\ Summand(f2, D)
  BY <1>7, <1>8
<1>11. SumFunctionOnSet(f, D) = SumFunctionOnSet(f1, D) + SumFunctionOnSet(f2, D)
  BY ONLY <1>9, <1>10, SumAdd
<1>12. TimeOfTests = SumFunctionOnSet(f, D)
  BY <1>1, <1>3, <1>8 DEF TimeOfTests, Total, All
<1> QED BY <1>4, <1>7, <1>8, <1>11, <1>12

\* The sessions that the pool released late are part of the time of tearing down.
LEMMA TeardownsOfTests ==
    ASSUME NEW n, NEW p, TestsAre(n, p), released \in {0, 1}
    PROVE  TeardownTime(TestsOf) = released + TimeOfTeardowns
<1> DEFINE teardown(r) == OrElse(r.teardown, 0)
<1>1. /\ n \in Nat /\ DOMAIN finished = 1..n /\ DOMAIN TestsOf = 1..n
      /\ \A i \in 1..n : p[i] \in 1..n
      /\ \A i \in 1..n : finished[i].record \in Records
      /\ \A i \in 1..n : TestsOf[i] = finished[p[i]].record
  BY DEF TestsAre, Reorders
<1>2. PICK h, f : /\ h = [i \in DOMAIN TestsOf |-> teardown(TestsOf[i])]
                  /\ f = [i \in 1..n |-> teardown(finished[i].record)]
  OBVIOUS
<1>3. TeardownTime(TestsOf) = SumFunction(h) + released
  BY <1>2 DEF TeardownTime, SumOf
<1>4. \A i \in 1..n : f[i] \in Int
  <2>1. \A r \in Records : teardown(r) \in Nat
    BY TimesOfRecord
  <2> HIDE DEF teardown
  <2> QED BY <1>1, <1>2, <2>1
<1>5. Numbers(h, f, n, p)
  BY <1>1, <1>2, <1>4 DEF Numbers
<1>6. Summand(f, 1..n) /\ SumFunction(h) = SumFunctionOnSet(f, 1..n)
  BY ONLY TestsAre(n, p), <1>5, SumOfTests
<1>7. SumFunctionOnSet(f, 1..n) \in Int
  BY ONLY <1>6, SumType
<1>8. TimeOfTeardowns = SumFunctionOnSet(f, 1..n)
  BY <1>1, <1>2 DEF TimeOfTeardowns, Total, All
<1> QED BY <1>3, <1>6, <1>7, <1>8

\* What a fold of StepStats::merge over the tests has merged after each of them.
LEMMA MergesOneByOne ==
    ASSUME NEW n \in Nat, NEW s, DOMAIN s = 1..n, \A i \in 1..n : s[i] \in Times
    PROVE  \E r : /\ r[0] = NoSteps
                  /\ \A i \in 1..n : r[i] = Merge(r[i - 1], s[i])
                  /\ FoldLeft(Merge, NoSteps, s) = r[n]
<1> DEFINE D == 1..n
           F == [i \in D |-> [x \in Times |-> Merge(x, s[i])]]
           c == ChosenLast(n)
           Is(k) == k = [T \in SUBSET D |->
                            IF T = {} THEN NoSteps ELSE Merge(k[T \ {Max(T)}], s[Max(T)])]
<1>1. /\ IsFiniteSet(D)
      /\ \A T \in SUBSET D : T # {} => Max(T) \in T /\ c[T] = Max(T)
      /\ \A i \in D : Max(1..i) = i /\ (1..i) \ {i} = 1..(i - 1) /\ 1..i \in SUBSET D
  BY LastOfChosen
<1>2. CanFold(D, Times, NoSteps, F, c)
  <2>1. NoSteps \in Times
    BY DEF NoSteps, Times
  <2>2. \A x \in Times, i \in D : Merge(x, s[i]) \in Times
    BY DEF Merge, Times
  <2>3. F \in [D -> [Times -> Times]]
    BY <2>2
  <2> HIDE DEF F, D, c
  <2> QED BY <1>1, <2>1, <2>3 DEF CanFold
<1>3. \A i \in D, x \in Times : F[i][x] = Merge(x, s[i])
  OBVIOUS
<1> HIDE DEF D, F, c
<1>4. PICK g : IsFold(g, D, Times, NoSteps, F, c)
  BY ONLY <1>2, SubsetRecursion
<1>5. Is(g)
  <2>1. ASSUME NEW T \in SUBSET D, T # {} PROVE g[T] = Merge(g[T \ {Max(T)}], s[Max(T)])
    <3>1. Max(T) \in D /\ c[T] = Max(T) /\ g[T \ {Max(T)}] \in Times
      BY <1>1, <1>4, <2>1 DEF IsFold
    <3> QED BY <1>3, <1>4, <2>1, <3>1 DEF IsFold
  <2> QED BY <1>4, <2>1 DEF IsFold
<1>6. PICK k : k = (CHOOSE q : Is(q)) /\ Is(k)
  <2> HIDE DEF Is
  <2> QED BY <1>5
<1>7. FoldLeft(Merge, NoSteps, s) = k[D]
  BY <1>6 DEF FoldLeft, MapThenFoldSet, D
<1>8. k[{}] = NoSteps /\ \A i \in D : k[1..i] = Merge(k[1..(i - 1)], s[i])
  <2>1. k[{}] = NoSteps
    BY <1>6
  <2>2. ASSUME NEW i \in D PROVE k[1..i] = Merge(k[1..(i - 1)], s[i])
    <3>1. PICK T \in SUBSET D : T = 1..i /\ T # {} /\ Max(T) = i /\ T \ {i} = 1..(i - 1)
      <4>1. i \in 1..n /\ 1 \in 1..i
        BY DEF D
      <4> QED BY <1>1, <4>1
    <3>2. k[T] = Merge(k[T \ {i}], s[i])
      BY <1>6, <3>1
    <3> QED BY <3>1, <3>2
  <2> QED BY <2>1, <2>2
<1>9. PICK r : r = [i \in 0..n |-> k[1..i]]
  OBVIOUS
<1>10. r[0] = NoSteps /\ r[n] = k[D]
  <2>1. 1..0 = {}
    OBVIOUS
  <2> QED BY <1>8, <1>9, <2>1 DEF D
<1>11. \A i \in 1..n : r[i] = Merge(r[i - 1], s[i])
  <2> SUFFICES ASSUME NEW i \in 1..n PROVE r[i] = Merge(r[i - 1], s[i])
    OBVIOUS
  <2>1. r[i] = k[1..i] /\ r[i - 1] = k[1..(i - 1)]
    BY <1>9
  <2> QED BY <1>8, <2>1 DEF D
<1> QED BY <1>7, <1>10, <1>11

PartsOf(s, n, counts, totals) ==
    DOMAIN s = 1..n /\ \A i \in 1..n :
        s[i] \in Times /\ counts[i] = s[i].count /\ totals[i] = s[i].total

\* What merging tells: the sums, and the longest.
LEMMA MergedTells ==
    ASSUME NEW n \in Nat, NEW s, NEW counts, NEW totals, PartsOf(s, n, counts, totals)
    PROVE  LET merged == FoldLeft(Merge, NoSteps, s)
           IN  /\ merged \in Times
               /\ merged.count = SumFunctionOnSet(counts, 1..n)
               /\ merged.total = SumFunctionOnSet(totals, 1..n)
               /\ \A i \in 1..n : s[i].max <= merged.max
               /\ n > 0 => \E i \in 1..n : merged.max = s[i].max
<1>1. PICK r : /\ r[0] = NoSteps
               /\ \A i \in 1..n : r[i] = Merge(r[i - 1], s[i])
               /\ FoldLeft(Merge, NoSteps, s) = r[n]
  BY MergesOneByOne DEF PartsOf
<1> DEFINE Tells(m) ==
              /\ r[m] \in Times
              /\ r[m].count = SumFunctionOnSet(counts, 1..m)
              /\ r[m].total = SumFunctionOnSet(totals, 1..m)
              /\ \A i \in 1..m : s[i].max <= r[m].max
              /\ m > 0 => \E i \in 1..m : r[m].max = s[i].max
           I == {m \in Nat : m <= n => Tells(m)}
<1>2. \A i \in 1..n : /\ s[i].count \in Nat /\ s[i].total \in Nat /\ s[i].max \in Nat
                      /\ counts[i] = s[i].count /\ totals[i] = s[i].total
  BY DEF Times, PartsOf
<1>3. 0 \in I
  <2>1. NoSteps \in Times /\ NoSteps.count = 0 /\ NoSteps.total = 0
    BY DEF NoSteps, Times
  <2>2. 1..0 = {}
    OBVIOUS
  <2>3. SumFunctionOnSet(counts, 1..0) = 0 /\ SumFunctionOnSet(totals, 1..0) = 0
    BY <2>2, SumEmpty
  <2>4. Tells(0)
    BY <1>1, <2>1, <2>2, <2>3
  <2> HIDE DEF Tells
  <2> QED BY <2>4
<1>4. ASSUME NEW m \in Nat, m \in I PROVE m + 1 \in I
  <2> SUFFICES ASSUME m + 1 <= n PROVE Tells(m + 1)
    OBVIOUS
  <2>1. Tells(m)
    BY <1>4
  <2>2. PICK x, y : x = r[m] /\ y = s[m + 1]
    OBVIOUS
  <2>3. m + 1 \in 1..n /\ (m + 1) - 1 = m
    OBVIOUS
  <2>4. x \in Times /\ y \in Times /\ r[m + 1] = Merge(x, y)
    BY <1>1, <2>1, <2>2, <2>3 DEF PartsOf
  <2>5. PICK z : z = Merge(x, y)
    OBVIOUS
  <2>6. /\ z \in Times /\ z.count = x.count + y.count /\ z.total = x.total + y.total
        /\ x.max <= z.max /\ y.max <= z.max /\ (z.max = x.max \/ z.max = y.max)
        /\ m = 0 => z.max = y.max
    <3>1. /\ z.count = x.count + y.count /\ z.total = x.total + y.total
          /\ z.max = IF x.max < y.max THEN y.max ELSE x.max
          /\ z = [count |-> z.count, total |-> z.total, max |-> z.max]
      BY <2>5 DEF Merge
    <3>2. /\ x.count \in Nat /\ x.total \in Nat /\ x.max \in Nat
          /\ y.count \in Nat /\ y.total \in Nat /\ y.max \in Nat
      BY <2>4 DEF Times
    <3>3. m = 0 => x.max = 0
      BY <1>1, <2>2 DEF NoSteps
    <3>4. z \in Times
      BY <3>1, <3>2 DEF Times
    <3> QED BY <3>1, <3>2, <3>3, <3>4
  <2>7. PICK U, e : U = 1..m /\ e = m + 1 /\ 1..(m + 1) = U \cup {e} /\ e \notin U /\ IsFiniteSet(U)
    <3>1. IsFiniteSet(1..m)
      BY FS_Interval
    <3>2. 1..(m + 1) = 1..m \cup {m + 1} /\ m + 1 \notin 1..m
      OBVIOUS
    <3> QED BY <3>1, <3>2
  <2>8. /\ Summand(counts, U) /\ counts[e] = y.count /\ counts[e] \in Int
        /\ Summand(totals, U) /\ totals[e] = y.total /\ totals[e] \in Int
    <3>1. \A i \in U : i \in 1..n
      BY <2>3, <2>7
    <3>2. \A i \in U : counts[i] \in Int /\ totals[i] \in Int
      BY <1>2, <3>1
    <3>3. counts[e] = y.count /\ totals[e] = y.total /\ counts[e] \in Int /\ totals[e] \in Int
      BY <1>2, <2>2, <2>3, <2>7
    <3> QED BY <2>7, <3>2, <3>3 DEF Summand
  <2>9. /\ SumFunctionOnSet(counts, U \cup {e}) = counts[e] + SumFunctionOnSet(counts, U)
        /\ SumFunctionOnSet(totals, U \cup {e}) = totals[e] + SumFunctionOnSet(totals, U)
    BY ONLY <2>7, <2>8, SumInsert
  <2>10. /\ SumFunctionOnSet(counts, U) = x.count /\ SumFunctionOnSet(totals, U) = x.total
         /\ x.count \in Nat /\ x.total \in Nat /\ y.count \in Nat /\ y.total \in Nat
         /\ x.max \in Nat /\ y.max \in Nat /\ z.max \in Nat
    BY <2>1, <2>2, <2>4, <2>6, <2>7 DEF Times
  <2>11. /\ r[m + 1] = z
         /\ z.count = SumFunctionOnSet(counts, 1..(m + 1))
         /\ z.total = SumFunctionOnSet(totals, 1..(m + 1))
    <3>1. /\ SumFunctionOnSet(counts, 1..(m + 1)) = counts[e] + SumFunctionOnSet(counts, U)
          /\ SumFunctionOnSet(totals, 1..(m + 1)) = totals[e] + SumFunctionOnSet(totals, U)
      BY <2>7, <2>9
    <3>2. /\ SumFunctionOnSet(counts, 1..(m + 1)) = y.count + x.count
          /\ SumFunctionOnSet(totals, 1..(m + 1)) = y.total + x.total
      BY <2>8, <2>10, <3>1
    <3> QED BY <2>4, <2>5, <2>6, <2>10, <3>2
  <2>12. /\ \A i \in 1..m : s[i].max <= x.max
         /\ m > 0 => \E i \in 1..m : x.max = s[i].max
    BY <2>1, <2>2
  <2>13. \A i \in 1..(m + 1) : s[i].max <= z.max
    <3> SUFFICES ASSUME NEW i \in 1..(m + 1) PROVE s[i].max <= z.max
      OBVIOUS
    <3>1. i \in 1..n /\ s[i].max \in Nat /\ (i \in 1..m \/ i = m + 1)
      BY <1>2
    <3> QED BY <2>2, <2>6, <2>10, <2>12, <3>1
  <2>14. \E i \in 1..(m + 1) : z.max = s[i].max
    <3>1. CASE z.max = y.max
      BY <2>2, <3>1
    <3>2. CASE z.max # y.max
      <4>1. m > 0 /\ z.max = x.max
        BY <2>6, <3>2
      <4>2. PICK i \in 1..m : x.max = s[i].max
        BY <2>12, <4>1
      <4> QED BY <4>1, <4>2
    <3> QED BY <3>1, <3>2
  <2> QED BY <2>6, <2>11, <2>13, <2>14
<1>5. Nat \subseteq I
  <2> HIDE DEF I
  <2> QED BY <1>3, <1>4, NumberInduction
<1>6. Tells(n)
  <2> HIDE DEF Tells
  <2> QED BY <1>5
<1> QED BY <1>1, <1>6

\* The steps of a kind are counted and timed over all tests, and the longest of them is kept.
LEMMA StepsOfTests ==
    ASSUME NEW n, NEW p, TestsAre(n, p), n > 0, NEW k \in Kinds
    PROVE  LET merged == Merged(TestsOf, k)
               longest == {finished[i].record.steps[k].max : i \in All}
           IN  /\ merged \in Times
               /\ merged.count = CountOf(k)
               /\ merged.total = TotalOf(k)
               /\ merged.max \in longest
               /\ \A max \in longest : max <= merged.max
<1>1. /\ n \in Nat /\ DOMAIN finished = 1..n /\ DOMAIN TestsOf = 1..n
      /\ \A i \in 1..n : p[i] \in 1..n
      /\ \A j \in 1..n : \E i \in 1..n : p[i] = j
      /\ \A i \in 1..n : finished[i].record \in Records
      /\ \A i \in 1..n : TestsOf[i] = finished[p[i]].record /\ TestsOf[i] \in Records
  BY DEF TestsAre, Reorders
<1>2. PICK s, counts, totals :
          /\ s = [i \in DOMAIN TestsOf |-> TestsOf[i].steps[k]]
          /\ counts = [i \in 1..n |-> s[i].count] /\ totals = [i \in 1..n |-> s[i].total]
  OBVIOUS
<1>3. PICK merged : merged = Merged(TestsOf, k) /\ merged = FoldLeft(Merge, NoSteps, s)
  BY <1>2 DEF Merged
<1>4. DOMAIN s = 1..n /\ \A i \in 1..n : s[i] = TestsOf[i].steps[k] /\ s[i] \in Times
  <2>1. \A r \in Records : r.steps[k] \in Times
    BY TimesOfRecord
  <2> QED BY <1>1, <1>2, <2>1
<1>5. /\ merged \in Times
      /\ merged.count = SumFunctionOnSet(counts, 1..n)
      /\ merged.total = SumFunctionOnSet(totals, 1..n)
      /\ \A i \in 1..n : s[i].max <= merged.max
      /\ \E i \in 1..n : merged.max = s[i].max
  <2>1. n \in Nat /\ PartsOf(s, n, counts, totals)
    BY <1>1, <1>2, <1>4 DEF PartsOf
  <2> QED BY <1>3, <2>1, MergedTells
<1>6. PICK f1, f2 : /\ f1 = [i \in 1..n |-> finished[i].record.steps[k].count]
                    /\ f2 = [i \in 1..n |-> finished[i].record.steps[k].total]
  OBVIOUS
<1>7. Numbers(counts, f1, n, p) /\ Numbers(totals, f2, n, p)
  <2>1. \A i \in 1..n : f1[i] \in Int /\ f2[i] \in Int
    <3>1. \A r \in Records : r.steps[k] \in Times
      BY TimesOfRecord
    <3>2. \A x \in Times : x.count \in Int /\ x.total \in Int
      BY DEF Times
    <3> QED BY <1>1, <1>6, <3>1, <3>2
  <2> QED BY <1>1, <1>2, <1>4, <1>6, <2>1 DEF Numbers
<1>8. /\ SumFunction(counts) = SumFunctionOnSet(f1, 1..n)
      /\ SumFunction(totals) = SumFunctionOnSet(f2, 1..n)
  BY ONLY TestsAre(n, p), <1>7, SumOfTests
<1>9. /\ SumFunction(counts) = SumFunctionOnSet(counts, 1..n)
      /\ SumFunction(totals) = SumFunctionOnSet(totals, 1..n)
  BY <1>2 DEF SumFunction
<1>10. /\ CountOf(k) = SumFunctionOnSet(f1, 1..n)
       /\ TotalOf(k) = SumFunctionOnSet(f2, 1..n)
  BY <1>1, <1>6 DEF CountOf, TotalOf, Total, All
<1>11. {finished[i].record.steps[k].max : i \in All} = {s[i].max : i \in 1..n}
  <2>1. \A i \in 1..n : s[i].max = finished[p[i]].record.steps[k].max
    BY <1>1, <1>4
  <2>2. PICK a, b : /\ a = [i \in 1..n |-> finished[i].record.steps[k].max]
                    /\ b = [i \in 1..n |-> s[i].max]
    OBVIOUS
  <2>3. \A i \in 1..n : p[i] \in 1..n /\ b[i] = a[p[i]]
    BY <1>1, <2>1, <2>2
  <2>4. \A j \in 1..n : \E i \in 1..n : p[i] = j
    BY <1>1
  <2>5. {a[i] : i \in 1..n} = {b[i] : i \in 1..n}
    BY ONLY <2>3, <2>4
  <2>6. /\ {finished[i].record.steps[k].max : i \in 1..n} = {a[i] : i \in 1..n}
        /\ {s[i].max : i \in 1..n} = {b[i] : i \in 1..n}
    BY <2>2
  <2> QED BY <1>1, <2>5, <2>6 DEF All
<1> QED BY <1>3, <1>5, <1>8, <1>9, <1>10, <1>11

\* All tests are listed by their time, the slowest first.
LEMMA SlowestOfTests ==
    ASSUME NEW n, NEW p, TestsAre(n, p)
    PROVE  LET slowest == SlowestTests(TestsOf)
           IN  /\ Len(slowest) = n /\ DOMAIN slowest = 1..n
               /\ \A i, j \in 1..n : i < j => TestTime(slowest[i]) >= TestTime(slowest[j])
<1>1. /\ n \in Nat /\ DOMAIN TestsOf = 1..n /\ \A i \in 1..n : TestsOf[i] \in Records
  BY DEF TestsAre
<1>2. PICK keys : keys = [i \in DOMAIN TestsOf |-> -TestTime(TestsOf[i])]
  OBVIOUS
<1>3. \A i \in 1..n : TestTime(TestsOf[i]) \in Nat /\ keys[i] = -TestTime(TestsOf[i])
  BY <1>1, <1>2, TimesOfRecord
<1>4. DOMAIN keys = 1..n /\ \A i \in 1..n : keys[i] \in Int
  BY <1>1, <1>2, <1>3
<1>5. PICK q : /\ q = ByKey(keys) /\ Reorders(q, 1..n, 1..n)
               /\ \A i, j \in 1..n : i < j => \/ keys[q[i]] < keys[q[j]]
                                              \/ keys[q[i]] = keys[q[j]] /\ q[i] < q[j]
  BY <1>1, <1>4, SortsByKey
<1>6. DOMAIN q = 1..n /\ \A i \in 1..n : q[i] \in 1..n
  BY <1>5 DEF Reorders
<1>7. PICK slowest : slowest = SlowestTests(TestsOf) /\ slowest = [i \in 1..n |-> TestsOf[q[i]]]
  BY <1>2, <1>5, <1>6 DEF SlowestTests, Descending
<1>8. slowest \in Seq(Records)
  BY <1>1, <1>6, <1>7
<1>9. \A i, j \in 1..n : i < j => TestTime(slowest[i]) >= TestTime(slowest[j])
  <2> SUFFICES ASSUME NEW i \in 1..n, NEW j \in 1..n, i < j
               PROVE  TestTime(TestsOf[q[i]]) >= TestTime(TestsOf[q[j]])
    BY <1>7
  <2>1. q[i] \in 1..n /\ q[j] \in 1..n
    BY <1>6
  <2>2. keys[q[i]] <= keys[q[j]]
    BY <1>4, <1>5, <2>1
  <2> QED BY <1>3, <2>1, <2>2
<1>10. Len(slowest) = n /\ DOMAIN slowest = 1..n
  BY <1>1, <1>7, <1>8
<1> QED BY <1>7, <1>9, <1>10

\* The kinds of steps are listed by their time, the slowest first, with what they add up to.
LEMMA SlowestStepsOfTests ==
    ASSUME NEW n, NEW p, TestsAre(n, p), n > 0
    PROVE  LET slowest == SlowestSteps(TestsOf)
           IN  /\ \A i \in DOMAIN slowest :
                     slowest[i].kind \in Kinds /\ slowest[i].stats = Merged(TestsOf, slowest[i].kind)
               /\ \A i, j \in DOMAIN slowest :
                     i < j => slowest[i].stats.total >= slowest[j].stats.total
<1>1. PICK K : K = {k \in Kinds : \E i \in DOMAIN TestsOf : TestsOf[i].steps[k].count > 0}
  OBVIOUS
<1>2. IsFiniteSet(K) /\ K \in SUBSET Int /\ K \subseteq Kinds
  BY <1>1, ReportAssumption, FS_Subset
<1>3. PICK m, kinds : /\ m = Cardinality(K) /\ m \in Nat /\ kinds = Ascending(K)
                      /\ Reorders(kinds, 1..m, K)
  BY <1>2, ListsAscending
<1>4. DOMAIN kinds = 1..m /\ \A i \in 1..m : kinds[i] \in Kinds
  BY <1>2, <1>3 DEF Reorders
<1>5. PICK told :
          told = [i \in DOMAIN kinds |-> [kind |-> kinds[i], stats |-> Merged(TestsOf, kinds[i])]]
  OBVIOUS
<1>6. /\ DOMAIN told = 1..m
      /\ \A i \in 1..m : /\ told[i].kind \in Kinds
                         /\ told[i].stats = Merged(TestsOf, told[i].kind)
                         /\ told[i].stats.total \in Nat
  <2>1. \A k \in Kinds : Merged(TestsOf, k).total \in Nat
    BY StepsOfTests DEF Times
  <2> QED BY <1>4, <1>5, <2>1
<1>7. PICK keys : keys = [i \in DOMAIN told |-> -told[i].stats.total]
  OBVIOUS
<1>8. DOMAIN keys = 1..m /\ \A i \in 1..m : keys[i] \in Int /\ keys[i] = -told[i].stats.total
  BY <1>6, <1>7
<1>9. PICK q : /\ q = ByKey(keys) /\ Reorders(q, 1..m, 1..m)
               /\ \A i, j \in 1..m : i < j => \/ keys[q[i]] < keys[q[j]]
                                              \/ keys[q[i]] = keys[q[j]] /\ q[i] < q[j]
  BY <1>3, <1>8, SortsByKey
<1>10. DOMAIN q = 1..m /\ \A i \in 1..m : q[i] \in 1..m
  BY <1>9 DEF Reorders
<1>11. PICK slowest : slowest = SlowestSteps(TestsOf) /\ slowest = [i \in 1..m |-> told[q[i]]]
  <2>1. SlowestSteps(TestsOf) = Descending(told, LAMBDA e : e.stats.total)
    BY <1>1, <1>3, <1>5 DEF SlowestSteps
  <2>2. Descending(told, LAMBDA e : e.stats.total) = [i \in 1..m |-> told[q[i]]]
    BY <1>7, <1>9, <1>10 DEF Descending
  <2> QED BY <2>1, <2>2
<1>12. \A i, j \in 1..m : i < j => slowest[i].stats.total >= slowest[j].stats.total
  <2> SUFFICES ASSUME NEW i \in 1..m, NEW j \in 1..m, i < j
               PROVE  told[q[i]].stats.total >= told[q[j]].stats.total
    BY <1>11
  <2>1. q[i] \in 1..m /\ q[j] \in 1..m
    BY <1>10
  <2>2. keys[q[i]] <= keys[q[j]]
    BY <1>8, <1>9, <2>1
  <2> QED BY <1>6, <1>8, <2>1, <2>2
<1>13. \A i \in 1..m : /\ slowest[i].kind \in Kinds
                       /\ slowest[i].stats = Merged(TestsOf, slowest[i].kind)
  BY <1>6, <1>10, <1>11
<1> QED BY <1>11, <1>12, <1>13

\* A time is read within half a unit of what it was, below the next larger unit, in order.
LEMMA ReadsTrue ==
    ASSUME NEW lasted \in RunTimes
    PROVE  LET format == FormatDuration(lasted)
               off == Reads(format) - lasted
           IN  /\ 2 * off <= format.unit /\ -2 * off <= format.unit
               /\ format.shown * format.unit < (IF format.unit = 10 THEN 10000 ELSE 600000)
               /\ format.minutes > 0 <=> format.unit = 1000
               /\ \A time \in RunTimes :
                     time <= lasted => Reads(FormatDuration(time)) <= Reads(format)
<1>1. PICK format : format = FormatDuration(lasted)
  OBVIOUS
<1>2. lasted \in Nat /\ \A time \in RunTimes : time \in Nat
  BY ReportAssumption
<1>3. /\ 2 * (Reads(format) - lasted) <= format.unit
      /\ 2 * (lasted - Reads(format)) <= format.unit
      /\ format.shown * format.unit < (IF format.unit = 10 THEN 10000 ELSE 600000)
      /\ format.minutes > 0 <=> format.unit = 1000
  BY <1>1, <1>2, DurationsReadInOrder
<1>4. \A time \in RunTimes : time <= lasted => Reads(FormatDuration(time)) <= Reads(format)
  BY <1>1, <1>2, DurationsReadInOrder
<1>5. Reads(format) \in Int /\ format.unit \in Int
  <2>1. PICK m, h, t, o, r \in Nat : RoundsTo(lasted, m, h, t, o, r)
    BY <1>2, ReadsAs
  <2> QED BY <1>1, <2>1 DEF RoundsTo
<1>6. -2 * (Reads(format) - lasted) <= format.unit
  BY <1>2, <1>3, <1>5
<1> QED BY <1>1, <1>3, <1>4, <1>6

\* What a report tells, for all records of tests, adds up.
LEMMA ToldAddsUp ==
    ASSUME FinishedOnce, FailuresOfFailed, released \in {0, 1},
           NEW lasted \in RunTimes, report = Told(lasted)
    PROVE  SummaryAddsUp
<1>1. PICK n, p : TestsAre(n, p)
  BY Reported
<1>2. /\ report.children = IntoResult /\ report.lasted = lasted
      /\ report.notStarted = PlannedTests - Len(TestsOf)
      /\ TestsOf # <<>> => report.consumed = Summary(TestsOf, lasted)
  BY DEF Told
<1>3. finished # <<>> <=> n > 0
  <2>1. n \in Nat /\ n = Len(finished)
    BY <1>1 DEF TestsAre
  <2>2. finished \in Seq([index : 1..PlannedTests, record : Records])
    BY DEF FinishedOnce
  <2> QED BY <2>1, <2>2
<1>4. n > 0 => /\ report.consumed = Summary(TestsOf, lasted)
               /\ report.notStarted = PlannedTests - n /\ n \in Nat /\ PlannedTests \in Nat
  BY <1>1, <1>2, ReportAssumption DEF TestsAre
<1>5. DurationsReadTrue
  <2> SUFFICES ASSUME finished # <<>> PROVE DurationsReadTrue
    BY DEF DurationsReadTrue
  <2>1. report.consumed.total = FormatDuration(lasted)
    BY <1>3, <1>4 DEF Summary
  <2> QED BY <1>2, <2>1, ReadsTrue DEF DurationsReadTrue
<1>6. /\ {report.children[i] : i \in DOMAIN report.children} = {finished[i].index : i \in Failing}
      /\ Len(report.children) = Cardinality(Failing)
      /\ \A i, j \in DOMAIN report.children : i < j => report.children[i] < report.children[j]
  BY <1>2, ChildrenOfFailed
<1>7. ASSUME finished # <<>>
      PROVE  LET s == report.consumed
             IN  /\ s.passed + s.failed + s.cancelled + report.notStarted = PlannedTests
                 /\ s.failed = Len(report.children)
                 /\ s.created + s.resets = Cardinality(InSession)
                 /\ s.creation + s.reset = DurationOfSessions
                 /\ s.waited + s.bodies = TimeOfTests
                 /\ s.quit = released + TimeOfTeardowns
                 /\ Len(s.slowest) = Len(finished)
                 /\ \A i, j \in DOMAIN s.slowest :
                       i < j => TestTime(s.slowest[i]) >= TestTime(s.slowest[j])
  <2>1. PICK s : /\ s = report.consumed
                 /\ s.passed = Passed(TestsOf) /\ s.failed = FailedTests(TestsOf)
                 /\ s.cancelled = CancelledTests(TestsOf)
                 /\ s.created = Prepared(TestsOf, "Created") /\ s.resets = Prepared(TestsOf, "Reset")
                 /\ s.creation = SessionTime(TestsOf, "Created")
                 /\ s.reset = SessionTime(TestsOf, "Reset")
                 /\ s.waited = WaitTime(TestsOf) /\ s.bodies = BodyTime(TestsOf)
                 /\ s.quit = TeardownTime(TestsOf) /\ s.slowest = SlowestTests(TestsOf)
    BY <1>3, <1>4, <1>7 DEF Summary
  <2>2. s.passed + s.failed + s.cancelled + report.notStarted = PlannedTests
    BY <1>1, <1>3, <1>4, <1>7, <2>1, CountsTests
  <2>3. s.failed = Len(report.children) /\ s.created + s.resets = Cardinality(InSession)
    BY <1>1, <1>6, <2>1, CountsTests
  <2>4. s.creation + s.reset = DurationOfSessions
    BY <1>1, <2>1, SessionTimes
  <2>5. s.waited + s.bodies = TimeOfTests
    BY <1>1, <2>1, MomentsOfTests
  <2>6. s.quit = released + TimeOfTeardowns
    BY <1>1, <2>1, TeardownsOfTests
  <2>7. /\ Len(s.slowest) = Len(finished)
        /\ \A i, j \in DOMAIN s.slowest : i < j => TestTime(s.slowest[i]) >= TestTime(s.slowest[j])
    BY <1>1, <2>1, SlowestOfTests DEF TestsAre
  <2> QED BY <2>1, <2>2, <2>3, <2>4, <2>5, <2>6, <2>7
<1>8. ASSUME finished # <<>>
      PROVE  LET s == report.consumed
             IN  /\ \A i, j \in DOMAIN s.steps :
                       i < j => s.steps[i].stats.total >= s.steps[j].stats.total
                 /\ \A i \in DOMAIN s.steps :
                       LET k == s.steps[i].kind
                           longest == {finished[m].record.steps[k].max : m \in All}
                       IN  /\ s.steps[i].stats.count = CountOf(k)
                           /\ s.steps[i].stats.total = TotalOf(k)
                           /\ s.steps[i].stats.max \in longest
                           /\ \A max \in longest : max <= s.steps[i].stats.max
  <2>1. PICK told : told = report.consumed.steps /\ told = SlowestSteps(TestsOf)
    BY <1>3, <1>4, <1>8 DEF Summary
  <2>2. /\ \A i \in DOMAIN told :
              told[i].kind \in Kinds /\ told[i].stats = Merged(TestsOf, told[i].kind)
        /\ \A i, j \in DOMAIN told : i < j => told[i].stats.total >= told[j].stats.total
    BY <1>1, <1>3, <1>8, <2>1, SlowestStepsOfTests
  <2>3. ASSUME NEW i \in DOMAIN told
        PROVE  LET k == told[i].kind
                   longest == {finished[m].record.steps[k].max : m \in All}
               IN  /\ told[i].stats.count = CountOf(k)
                   /\ told[i].stats.total = TotalOf(k)
                   /\ told[i].stats.max \in longest
                   /\ \A max \in longest : max <= told[i].stats.max
    <3>1. PICK k \in Kinds : k = told[i].kind /\ told[i].stats = Merged(TestsOf, k)
      BY <2>2
    <3>2. /\ Merged(TestsOf, k).count = CountOf(k)
          /\ Merged(TestsOf, k).total = TotalOf(k)
          /\ Merged(TestsOf, k).max \in {finished[m].record.steps[k].max : m \in All}
          /\ \A max \in {finished[m].record.steps[k].max : m \in All} : max <= Merged(TestsOf, k).max
      BY <1>1, <1>3, <1>8, StepsOfTests
    <3> QED BY <3>1, <3>2
  <2> QED BY <2>1, <2>2, <2>3
<1> QED BY <1>5, <1>6, <1>7, <1>8 DEF SummaryAddsUp

\* Whatever the order in which tests finish, the report of a run has each failed test once, in the
\* order of the tests, its counts and its times add up over all tests, its lists begin with the
\* slowest, and every duration reads as it was, up to rounding (report.rs, scheduler.rs).
THEOREM SummariesAddUp == ReportSpec => []SummaryAddsUp
<1>1. ReportInit => ReportsInv
  <2> SUFFICES ASSUME ReportInit PROVE ReportsInv
    OBVIOUS
  <2>1. finished = <<>> /\ failures = <<>> /\ released = 0 /\ report = None
    BY DEF ReportInit
  <2>2. DOMAIN finished = {} /\ DOMAIN failures = {}
    BY <2>1
  <2>3. Failing = {}
    BY <2>2 DEF Failing, Of
  <2>4. FinishedOnce
    BY <2>1, <2>2 DEF FinishedOnce
  <2>5. FailuresOfFailed
    BY <2>1, <2>2, <2>3 DEF FailuresOfFailed
  <2> QED BY <2>1, <2>4, <2>5 DEF ReportsInv
<1>2. ReportsInv => SummaryAddsUp
  <2> SUFFICES ASSUME ReportsInv PROVE SummaryAddsUp
    OBVIOUS
  <2>1. CASE report = None
    <3>1. DurationsReadTrue
      BY <2>1 DEF DurationsReadTrue
    <3> QED BY <2>1, <3>1 DEF SummaryAddsUp
  <2>2. CASE \E lasted \in RunTimes : report = Told(lasted)
    BY <2>2, ToldAddsUp DEF ReportsInv
  <2> QED BY <2>1, <2>2 DEF ReportsInv
<1> QED BY <1>1, <1>2, ReportsStep, PTL DEF ReportSpec

-----------------------------------------------------------------------------
(* The places of failures                                                  *)

\* A prefix, position by position.
LEMMA PrefixOf ==
    ASSUME NEW X, NEW s \in Seq(X), NEW t \in Seq(X)
    PROVE  /\ Len(s) \in Nat /\ Len(t) \in Nat
           /\ IsPrefix(s, t) <=> Len(s) <= Len(t) /\ \A i \in 1..Len(s) : s[i] = t[i]
<1>1. PICK k \in Nat, n \in Nat : k = Len(s) /\ n = Len(t)
  OBVIOUS
<1>2. SubSeq(s, 1, k) = [i \in 1..k |-> s[i]]
  BY <1>1
<1>3. k <= n => SubSeq(t, 1, k) = [i \in 1..k |-> t[i]]
  BY <1>1
<1>4. k <= n => (SubSeq(s, 1, k) = SubSeq(t, 1, k) <=> \A i \in 1..k : s[i] = t[i])
  BY <1>2, <1>3
<1> QED BY <1>1, <1>4 DEF IsPrefix

\* The first elements of a sequence.
LEMMA FirstOf ==
    ASSUME NEW X, NEW s \in Seq(X), NEW n \in 0..Len(s)
    PROVE  /\ SubSeq(s, 1, n) \in Seq(X) /\ Len(SubSeq(s, 1, n)) = n
           /\ \A i \in 1..n : SubSeq(s, 1, n)[i] = s[i]
           /\ IsPrefix(SubSeq(s, 1, n), s)
<1>1. SubSeq(s, 1, n) = [i \in 1..n |-> s[i]]
  OBVIOUS
<1>2. \A i \in 1..n : s[i] \in X
  OBVIOUS
<1>3. SubSeq(s, 1, n) \in Seq(X) /\ Len(SubSeq(s, 1, n)) = n
  BY <1>1, <1>2
<1>4. IsPrefix(SubSeq(s, 1, n), s)
  <2>1. PICK t \in Seq(X) : t = SubSeq(s, 1, n) /\ Len(t) = n /\ \A i \in 1..n : t[i] = s[i]
    BY <1>1, <1>3
  <2>2. Len(t) <= Len(s) /\ \A i \in 1..Len(t) : t[i] = s[i]
    BY <2>1
  <2>3. IsPrefix(t, s)
    BY ONLY s \in Seq(X), t \in Seq(X), <2>2, PrefixOf
  <2> QED BY <2>1, <2>3
<1> QED BY <1>1, <1>3, <1>4

\* Prefixes of prefixes.
LEMMA PrefixTransitive ==
    ASSUME NEW X, NEW s \in Seq(X), NEW t \in Seq(X), NEW u \in Seq(X), IsPrefix(s, t), IsPrefix(t, u)
    PROVE  IsPrefix(s, u)
<1>1. PICK k \in Nat, m \in Nat, n \in Nat : k = Len(s) /\ m = Len(t) /\ n = Len(u)
  OBVIOUS
<1>2. /\ k <= m /\ \A i \in 1..k : s[i] = t[i]
      /\ m <= n /\ \A i \in 1..m : t[i] = u[i]
  BY <1>1, PrefixOf
<1>3. k <= n /\ \A i \in 1..k : s[i] = u[i]
  BY <1>2
<1> QED BY <1>1, <1>3, PrefixOf

\* A prefix of the first n elements is all of them, or one of the first n - 1.
LEMMA PrefixOfFirst ==
    ASSUME NEW X, NEW s \in Seq(X), NEW n \in 1..Len(s), NEW m \in Seq(X)
    PROVE  IsPrefix(m, SubSeq(s, 1, n)) <=> \/ m = SubSeq(s, 1, n)
                                            \/ IsPrefix(m, SubSeq(s, 1, n - 1))
<1>1. n - 1 \in 0..Len(s) /\ n \in 0..Len(s)
  OBVIOUS
<1>2a. PICK t \in Seq(X) : t = SubSeq(s, 1, n) /\ Len(t) = n /\ \A i \in 1..n : t[i] = s[i]
  BY <1>1, FirstOf
<1>2b. PICK u \in Seq(X) :
           /\ u = SubSeq(s, 1, n - 1) /\ Len(u) = n - 1 /\ \A i \in 1..(n - 1) : u[i] = s[i]
  BY <1>1, FirstOf
<1>2. PICK k \in Nat : k = Len(m)
  OBVIOUS
<1>3. IsPrefix(m, t) <=> k <= n /\ \A i \in 1..k : m[i] = t[i]
  BY ONLY m \in Seq(X), t \in Seq(X), <1>2, <1>2a, PrefixOf
<1>4. IsPrefix(m, u) <=> k <= n - 1 /\ \A i \in 1..k : m[i] = u[i]
  <2>1. IsPrefix(m, u) <=> Len(m) <= Len(u) /\ \A i \in 1..Len(m) : m[i] = u[i]
    BY ONLY m \in Seq(X), u \in Seq(X), PrefixOf
  <2> QED BY <1>2, <1>2b, <2>1
<1>5. m = t <=> k = n /\ \A i \in 1..k : m[i] = t[i]
  <2>1. k = n /\ (\A i \in 1..k : m[i] = t[i]) => m = t
    BY <1>2, <1>2a, SeqEqual
  <2> QED BY <1>2, <1>2a, <2>1
<1>6. k <= n - 1 => ((\A i \in 1..k : m[i] = t[i]) <=> (\A i \in 1..k : m[i] = u[i]))
  BY <1>2a, <1>2b
<1>7. k <= n <=> k = n \/ k <= n - 1
  BY <1>2
<1> QED BY <1>2a, <1>2b, <1>3, <1>4, <1>5, <1>6, <1>7

\* The root of the tests is a path.
LEMMA RootIsPath ==
    ASSUME package \in Packages
    PROVE  TestRoot \in Paths
<1>1. package \in Seq(STRING)
  BY SourcesAssumption DEF Paths
<1>2. PICK above : above = {n \in 1..Len(package) : SubSeq(package, 1, n) \in Workspaces}
  OBVIOUS
<1>3. CASE above = {}
  BY <1>1, <1>2, <1>3 DEF TestRoot, Paths
<1>4. CASE above # {}
  <2>1. IsFiniteSet(above) /\ above \in SUBSET Int
    <3>1. above \in SUBSET (1..Len(package)) /\ Len(package) \in Int
      BY <1>1, <1>2
    <3>2. IsFiniteSet(1..Len(package))
      BY <3>1, FS_Interval
    <3>3. above \in SUBSET Int
      BY <3>1
    <3> QED BY <3>1, <3>2, <3>3, FS_Subset
  <2>2. Max(above) \in 0..Len(package)
    <3>1. Max(above) \in above
      BY <1>4, <2>1, MaxFacts
    <3> QED BY <1>1, <1>2, <3>1
  <2>3. TestRoot = SubSeq(package, 1, Max(above))
    BY <1>2, <1>4 DEF TestRoot
  <2> QED BY <1>1, <2>2, <2>3, FirstOf DEF Paths
<1> QED BY <1>3, <1>4

\* Whether a directory is of a dependency: at or in one that is marked, below the root of the tests.
IsDependencyDir(dir) == \E m \in Marked : IsStrictPrefix(TestRoot, m) /\ IsPrefix(m, dir)

\* The cache of directories is true.
Knows(known) ==
    /\ \E D \in SUBSET Paths : known \in [D -> BOOLEAN]
    /\ \A d \in DOMAIN known : known[d] <=> IsDependencyDir(d)

\* What is learned of a directory keeps what is known true.
LEMMA LearnsTrue ==
    ASSUME NEW known, Knows(known), NEW dir \in Paths,
           NEW is \in BOOLEAN, is <=> IsDependencyDir(dir)
    PROVE  Knows(Learned(known, dir, is))
<1>1. PICK D \in SUBSET Paths : known \in [D -> BOOLEAN]
  BY DEF Knows
<1>2. PICK E \in SUBSET Paths : E = D \cup {dir}
  OBVIOUS
<1>3. PICK f : f = Learned(known, dir, is) /\ f = [d \in E |-> IF d = dir THEN is ELSE known[d]]
  BY <1>1, <1>2 DEF Learned
<1>4. f \in [E -> BOOLEAN]
  BY <1>1, <1>2, <1>3
<1>5. \A d \in E : f[d] <=> IsDependencyDir(d)
  <2> SUFFICES ASSUME NEW d \in E PROVE f[d] <=> IsDependencyDir(d)
    OBVIOUS
  <2>1. CASE d = dir
    BY <1>3, <2>1
  <2>2. CASE d # dir
    <3>1. f[d] = known[d] /\ d \in DOMAIN known
      BY <1>1, <1>2, <1>3, <2>2
    <3> QED BY <3>1 DEF Knows
  <2> QED BY <2>1, <2>2
<1> QED BY <1>3, <1>4, <1>5 DEF Knows

\* Walking up from a directory tells whether it is of a dependency, whatever was cached before.
LEMMA LooksUp ==
    ASSUME package \in Packages, NEW known, Knows(known), NEW dir \in Paths
    PROVE  LET found == LookUp(known, dir)
           IN  /\ found.is \in BOOLEAN /\ (found.is <=> IsDependencyDir(dir))
               /\ Knows(found.dirs)
<1> DEFINE first(n) == SubSeq(dir, 1, n)
           up(n, before) ==
              LET d == SubSeq(dir, 1, n)
              IN  IF d = TestRoot \/ ~IsPrefix(TestRoot, d) THEN [is |-> FALSE, dirs |-> known]
                  ELSE IF d \in DOMAIN known THEN [is |-> known[d], dirs |-> known]
                  ELSE IF d \in Marked THEN [is |-> TRUE, dirs |-> Learned(known, d, TRUE)]
                  ELSE [is |-> before.is, dirs |-> Learned(before.dirs, d, before.is)]
           L == Len(dir)
           Maps == UNION {[D -> BOOLEAN] : D \in SUBSET Paths}
           X == [is : BOOLEAN, dirs : Maps]
           nothing == [is |-> FALSE, dirs |-> known]
           F == [n \in 1..L |-> [x \in X |-> up(n, x)]]
           Is(u) == u = [n \in 0..L |-> up(n, u[n - 1])]
<1>1. /\ L \in Nat /\ dir \in Seq(STRING) /\ TestRoot \in Seq(STRING)
      /\ known \in Maps /\ Marked \subseteq Seq(STRING) /\ Paths = Seq(STRING)
  BY RootIsPath, SourcesAssumption DEF Paths, Knows
<1>2. \A n \in 0..L : first(n) \in Seq(STRING) /\ Len(first(n)) = n
  BY <1>1, FirstOf
<1>3. \A k \in Maps, d \in Paths, is \in BOOLEAN : Learned(k, d, is) \in Maps
  <2> SUFFICES ASSUME NEW k \in Maps, NEW d \in Paths, NEW is \in BOOLEAN
               PROVE  Learned(k, d, is) \in Maps
    OBVIOUS
  <2>1. PICK D \in SUBSET Paths : k \in [D -> BOOLEAN]
    OBVIOUS
  <2>2. Learned(k, d, is) \in [D \cup {d} -> BOOLEAN] /\ D \cup {d} \in SUBSET Paths
    BY <2>1 DEF Learned
  <2> QED BY <2>2
<1> HIDE DEF Maps
<1>4. \A d \in DOMAIN known : known[d] \in BOOLEAN
  BY DEF Knows
<1>5. \A n \in 1..L, x \in X : up(n, x) \in X
  <2> SUFFICES ASSUME NEW n \in 1..L, NEW x \in X PROVE up(n, x) \in X
    OBVIOUS
  <2>1. PICK d \in Paths : d = SubSeq(dir, 1, n)
    <3>1. n \in 0..L
      BY <1>1
    <3>2. first(n) \in Paths
      <4> HIDE DEF first
      <4> QED BY <1>1, <1>2, <3>1
    <3> QED BY <3>2
  <2>2. x.is \in BOOLEAN /\ x.dirs \in Maps
    OBVIOUS
  <2>3. Learned(known, d, TRUE) \in Maps /\ Learned(x.dirs, d, x.is) \in Maps
    BY <1>1, <1>3, <2>2
  <2>4. \/ up(n, x) = [is |-> FALSE, dirs |-> known]
        \/ d \in DOMAIN known /\ up(n, x) = [is |-> known[d], dirs |-> known]
        \/ up(n, x) = [is |-> TRUE, dirs |-> Learned(known, d, TRUE)]
        \/ up(n, x) = [is |-> x.is, dirs |-> Learned(x.dirs, d, x.is)]
    BY <2>1
  <2>5. known \in Maps /\ x.is \in BOOLEAN /\ (d \in DOMAIN known => known[d] \in BOOLEAN)
    BY <1>1, <1>4, <2>2
  <2> HIDE DEF up
  <2>6. CASE up(n, x) = [is |-> FALSE, dirs |-> known]
    BY <2>5, <2>6
  <2>7. CASE d \in DOMAIN known /\ up(n, x) = [is |-> known[d], dirs |-> known]
    BY <2>5, <2>7
  <2>8. CASE up(n, x) = [is |-> TRUE, dirs |-> Learned(known, d, TRUE)]
    <3>1. PICK k \in Maps : k = Learned(known, d, TRUE)
      BY <2>3
    <3>2. [is |-> TRUE, dirs |-> k] \in X
      OBVIOUS
    <3> HIDE DEF X
    <3> QED BY <2>8, <3>1, <3>2
  <2>9. CASE up(n, x) = [is |-> x.is, dirs |-> Learned(x.dirs, d, x.is)]
    BY <2>3, <2>5, <2>9
  <2> QED BY <2>4, <2>6, <2>7, <2>8, <2>9
<1>6a. first(0) = <<>> /\ (first(0) = TestRoot \/ ~IsPrefix(TestRoot, first(0)))
  <2>1. first(0) = <<>>
    <3>1. 0 \in 0..L
      BY <1>1
    <3>2. Len(first(0)) = 0 /\ first(0) \in Seq(STRING)
      <4> HIDE DEF first
      <4> QED BY <1>2, <3>1
    <3> HIDE DEF first
    <3> QED BY <3>2
  <2>2. CASE Len(TestRoot) = 0
    <3>1. TestRoot = <<>>
      BY <1>1, <2>2
    <3> HIDE DEF first
    <3> QED BY <2>1, <3>1
  <2>3. CASE Len(TestRoot) # 0
    <3>1. PICK t \in Seq(STRING) : t = TestRoot /\ Len(t) # 0
      BY <1>1, <2>3
    <3>2. <<>> \in Seq(STRING) /\ Len(<<>>) = 0
      OBVIOUS
    <3>3. ~IsPrefix(t, <<>>)
      <4>1. PICK e \in Seq(STRING) : e = <<>> /\ Len(e) = 0
        BY <3>2
      <4>2. IsPrefix(t, e) => Len(t) <= Len(e)
        BY ONLY t \in Seq(STRING), e \in Seq(STRING), PrefixOf
      <4>3. Len(t) \in Nat
        OBVIOUS
      <4> QED BY <3>1, <4>1, <4>2, <4>3
    <3> HIDE DEF first
    <3> QED BY <2>1, <3>1, <3>3
  <2> QED BY <2>2, <2>3
<1>6. \A x : up(0, x) = nothing
  <2> QED BY <1>6a
<1>7. CanRecur(L, X, nothing, F)
  <2>1. nothing \in X
    BY <1>1
  <2>2. F \in [1..L -> [X -> X]]
    <3> HIDE DEF up, X
    <3> QED BY <1>5
  <2> HIDE DEF F, X, nothing
  <2> QED BY <1>1, <2>1, <2>2 DEF CanRecur
<1>8. PICK r : IsRecursion(r, L, X, nothing, F)
  <2> HIDE DEF F, X, nothing
  <2> QED BY ONLY <1>7, NumberRecursion
<1> HIDE DEF X
<1>9. Is(r)
  <2>1. ASSUME NEW n \in 0..L PROVE r[n] = up(n, r[n - 1])
    <3>1. CASE n = 0
      BY <1>6, <1>8, <3>1 DEF IsRecursion
    <3>2. CASE n # 0
      <4>1. n \in 1..L /\ n - 1 \in 0..L
        BY <1>1, <3>2
      <4>2. r[n - 1] \in X /\ r[n] = F[n][r[n - 1]]
        BY <1>8, <4>1 DEF IsRecursion
      <4> HIDE DEF up
      <4> QED BY <4>1, <4>2
    <3> QED BY <3>1, <3>2
  <2>2. r = [n \in 0..L |-> r[n]]
    BY <1>8 DEF IsRecursion
  <2> HIDE DEF up
  <2> QED BY <2>1, <2>2
<1>10. PICK u : u = (CHOOSE q : Is(q)) /\ Is(u)
  <2> HIDE DEF Is
  <2> QED BY <1>9
<1>11. LookUp(known, dir) = u[L]
  BY <1>10 DEF LookUp
<1>12. \A n \in 0..L : u[n] = up(n, u[n - 1])
  <2> HIDE DEF up
  <2> QED BY <1>10
<1> DEFINE True(n) == /\ u[n].is \in BOOLEAN /\ (u[n].is <=> IsDependencyDir(first(n)))
                      /\ Knows(u[n].dirs)
           I == {n \in Nat : n <= L => True(n)}
<1>13. ASSUME NEW n \in 0..L, NEW d \in Seq(STRING), d = first(n),
              d = TestRoot \/ ~IsPrefix(TestRoot, d)
       PROVE  True(n)
  <2>1. u[n] = [is |-> FALSE, dirs |-> known]
    BY <1>12, <1>13
  <2>2. ~IsDependencyDir(d)
    <3> SUFFICES ASSUME NEW m \in Marked, IsStrictPrefix(TestRoot, m), IsPrefix(m, d) PROVE FALSE
      BY DEF IsDependencyDir
    <3>1. m \in Seq(STRING) /\ IsPrefix(TestRoot, m) /\ TestRoot # m
      BY <1>1 DEF IsStrictPrefix
    <3>2. IsPrefix(TestRoot, d)
      BY ONLY <1>1, <3>1, d \in Seq(STRING), IsPrefix(m, d), PrefixTransitive
    <3>3. d = TestRoot
      BY <1>13, <3>2
    <3>4. PICK k \in Nat : k = Len(m) /\ k = Len(TestRoot) /\ \A i \in 1..k : m[i] = TestRoot[i]
      <4>1. /\ Len(m) \in Nat /\ Len(TestRoot) \in Nat
            /\ Len(m) <= Len(TestRoot) /\ Len(TestRoot) <= Len(m)
            /\ \A i \in 1..Len(m) : m[i] = TestRoot[i]
        BY ONLY <1>1, <3>1, <3>3, IsPrefix(m, d), PrefixOf
      <4> QED BY <4>1
    <3> QED BY <1>1, <3>1, <3>4, SeqEqual
  <2>3. True(n)
    BY <1>13, <2>1, <2>2
  <2> QED BY <2>3
<1>14. 0 \in I
  <2>1. 0 \in 0..L /\ first(0) \in Seq(STRING)
    <3> HIDE DEF first
    <3> QED BY <1>1, <1>2
  <2>2. True(0)
    <3> HIDE DEF True, first
    <3> QED BY <1>6a, <1>13, <2>1
  <2> HIDE DEF True
  <2> QED BY <2>2
<1>15. ASSUME NEW b \in Nat, b \in I PROVE b + 1 \in I
  <2> SUFFICES ASSUME b + 1 <= L PROVE True(b + 1)
    OBVIOUS
  <2>1. PICK n \in 1..L : n = b + 1 /\ b = n - 1 /\ n \in 0..L /\ n - 1 \in 0..L
    BY <1>1
  <2>2. PICK d \in Seq(STRING) : d = first(n)
    BY <1>2, <2>1
  <2>3. True(n - 1)
    BY <1>15, <2>1
  <2>4. PICK x : x = u[n - 1]
    OBVIOUS
  <2>5. /\ x.is \in BOOLEAN /\ (x.is <=> IsDependencyDir(first(n - 1))) /\ Knows(x.dirs)
    BY <2>3, <2>4
  <2>6. CASE d = TestRoot \/ ~IsPrefix(TestRoot, d)
    <3> HIDE DEF True, first
    <3> QED BY <1>13, <2>1, <2>2, <2>6
  <2>7. CASE d # TestRoot /\ IsPrefix(TestRoot, d)
    <3>1. CASE d \in DOMAIN known
      <4>1. u[n] = [is |-> known[d], dirs |-> known]
        BY <1>12, <2>1, <2>2, <2>7, <3>1
      <4>2. known[d] \in BOOLEAN /\ (known[d] <=> IsDependencyDir(d))
        BY <1>4, <3>1 DEF Knows
      <4> QED BY <2>1, <2>2, <4>1, <4>2
    <3>2. CASE d \notin DOMAIN known /\ d \in Marked
      <4>1. u[n] = [is |-> TRUE, dirs |-> Learned(known, d, TRUE)]
        BY <1>12, <2>1, <2>2, <2>7, <3>2
      <4>2. IsDependencyDir(d)
        <5>1. IsPrefix(d, d)
          BY PrefixOf
        <5> QED BY <2>7, <3>2, <5>1 DEF IsDependencyDir, IsStrictPrefix
      <4>3. Knows(Learned(known, d, TRUE))
        <5>1. PICK is \in BOOLEAN : is = TRUE
          OBVIOUS
        <5> QED BY <1>1, <4>2, <5>1, LearnsTrue
      <4>4. u[n].is = TRUE /\ u[n].dirs = Learned(known, d, TRUE)
        BY <4>1
      <4> HIDE DEF first
      <4> QED BY <2>1, <2>2, <4>2, <4>3, <4>4
    <3>3. CASE d \notin DOMAIN known /\ d \notin Marked
      <4>1. u[n] = [is |-> x.is, dirs |-> Learned(x.dirs, d, x.is)]
        BY <1>12, <2>1, <2>2, <2>4, <2>7, <3>3
      <4>2. IsDependencyDir(d) <=> IsDependencyDir(first(n - 1))
        <5>1. \A m \in Marked : IsPrefix(m, d) <=> m = d \/ IsPrefix(m, first(n - 1))
          BY <1>1, <2>2, PrefixOfFirst
        <5> HIDE DEF first
        <5> QED BY <3>3, <5>1 DEF IsDependencyDir
      <4>3. Knows(Learned(x.dirs, d, x.is))
        <5>1. x.is <=> IsDependencyDir(d)
          BY <2>5, <4>2
        <5>2. PICK is, k : is \in BOOLEAN /\ is = x.is /\ k = x.dirs /\ Knows(k) /\ (is <=> IsDependencyDir(d))
          BY <2>5, <5>1
        <5> QED BY <1>1, <5>2, LearnsTrue
      <4>4. u[n].is = x.is /\ u[n].dirs = Learned(x.dirs, d, x.is)
        BY <4>1
      <4> HIDE DEF first
      <4> QED BY <2>1, <2>2, <2>5, <4>2, <4>3, <4>4
    <3> QED BY <3>1, <3>2, <3>3
  <2> QED BY <2>6, <2>7
<1>16. True(L)
  <2>1. Nat \subseteq I
    <3> HIDE DEF I
    <3> QED BY <1>14, <1>15, NumberInduction
  <2> HIDE DEF True
  <2> QED BY <1>1, <2>1
<1>17. first(L) = dir
  BY <1>1
<1> QED BY <1>11, <1>16, <1>17

\* Whether a path is one of a dependency, or of the target directory.
IsForeign(path) == IsPrefix(targetDir, path) \/ IsDependencyDir(path)

Maps == {known \in UNION {[D -> BOOLEAN] : D \in SUBSET Paths} : Knows(known)}

\* A file is told to be foreign if it is, whatever was cached before.
LEMMA TellsDependencies ==
    ASSUME package \in Packages, NEW known \in Maps,
           NEW path \in Paths, path # <<>>, path \notin Marked
    PROVE  /\ IsDependency(known, path).dirs \in Maps
           /\ IsDependency(known, path).is <=> IsForeign(path)
<1>1. CASE IsPrefix(targetDir, path)
  <2>1. IsDependency(known, path) = [is |-> TRUE, dirs |-> known]
    BY <1>1 DEF IsDependency
  <2> QED BY <1>1, <2>1 DEF IsForeign
<1>2. CASE ~IsPrefix(targetDir, path)
  <2>1. PICK n \in Nat : n = Len(path) /\ n \in 1..Len(path) /\ n # 0 /\ n - 1 \in 0..Len(path)
    BY DEF Paths
  <2>2. PICK dir \in Paths : dir = SubSeq(path, 1, n - 1) /\ dir = Front(path)
    BY <2>1, FirstOf DEF Paths, Front
  <2>3. SubSeq(path, 1, n) = path
    BY <2>1 DEF Paths
  <2>4. \A m \in Marked : IsPrefix(m, path) <=> IsPrefix(m, dir)
    <3>1. path \in Seq(STRING) /\ Marked \subseteq Seq(STRING)
      BY SourcesAssumption DEF Paths
    <3> SUFFICES ASSUME NEW m \in Marked PROVE IsPrefix(m, path) <=> IsPrefix(m, dir)
      OBVIOUS
    <3>2. m \in Seq(STRING) /\ m # path
      BY <3>1
    <3>3. IsPrefix(m, SubSeq(path, 1, n)) <=> m = SubSeq(path, 1, n) \/ IsPrefix(m, SubSeq(path, 1, n - 1))
      BY ONLY <2>1, <3>1, <3>2, PrefixOfFirst
    <3> QED BY <2>2, <2>3, <3>2, <3>3
  <2>5. IsDependencyDir(path) <=> IsDependencyDir(dir)
    BY <2>4 DEF IsDependencyDir
  <2>6. PICK found : found = LookUp(known, dir) /\ (found.is <=> IsDependencyDir(dir)) /\ Knows(found.dirs)
    BY LooksUp DEF Maps
  <2>7. IsDependency(known, path) = found
    BY <1>2, <2>2, <2>6 DEF IsDependency
  <2>8. found.dirs \in Maps
    BY <2>6 DEF Maps, Knows
  <2> QED BY <1>2, <2>5, <2>6, <2>7, <2>8 DEF IsForeign
<1> QED BY <1>1, <1>2

\* A walk over a stack.
Entries == [file : Paths, line : Nat, function : STRING]
Walks == [frames : Seq(Entries), dirs : Maps, met : BOOLEAN]
IsSymbol(symbol) == symbol \in Symbols /\ symbol.path \notin Marked \cup {<<>>}
IsRunner(symbol) == symbol.path # None /\ IsPrefix(RunnerSource, symbol.path)

\* A place of test code has an entry.
LEMMA EntriesOfPlaces ==
    ASSUME package \in Packages, NEW symbol \in Symbols, IsTestCode(symbol)
    PROVE  Entry(symbol) \in Entries
<1>1. symbol.path \in Seq(STRING) /\ symbol.line \in Nat /\ symbol.function \in STRING
  BY DEF IsTestCode, Symbols, Paths
<1>2. TestRoot \in Seq(STRING) /\ IsPrefix(TestRoot, symbol.path)
  BY RootIsPath DEF IsTestCode, Paths
<1>3. PICK a \in Nat, b \in Nat, p \in Seq(STRING) :
          a = Len(TestRoot) /\ b = Len(p) /\ p = symbol.path /\ a <= b
  BY <1>1, <1>2, PrefixOf
<1>4. SubSeq(p, a + 1, b) \in Seq(STRING)
  BY <1>3
<1> QED BY <1>1, <1>3, <1>4 DEF Entry, Entries, Paths

\* What visiting one symbol of a stack changes.
LEMMA VisitTells ==
    ASSUME package \in Packages, NEW walk \in Walks, NEW symbol, IsSymbol(symbol)
    PROVE  LET next == Visit(walk, symbol)
               repeats == walk.frames # <<>> /\ Last(walk.frames) = Entry(symbol)
           IN  /\ next \in Walks
               /\ next.met <=> walk.met \/ IsRunner(symbol)
               /\ next.frames = IF IsTestCode(symbol) /\ ~next.met /\ ~repeats
                                THEN Append(walk.frames, Entry(symbol)) ELSE walk.frames
<1> DEFINE next == Visit(walk, symbol)
           repeats == walk.frames # <<>> /\ Last(walk.frames) = Entry(symbol)
<1>1. walk.frames \in Seq(Entries) /\ walk.dirs \in Maps /\ walk.met \in BOOLEAN
  BY DEF Walks
<1>2. walk = [frames |-> walk.frames, dirs |-> walk.dirs, met |-> walk.met]
  BY DEF Walks
<1>3. CASE walk.met \/ symbol.path = None
  <2>1. next = walk
    BY <1>3 DEF Visit
  <2>2. symbol.path = None => ~IsRunner(symbol) /\ ~IsTestCode(symbol)
    BY DEF IsRunner, IsTestCode
  <2> QED BY <1>1, <1>3, <2>1, <2>2
<1>4. CASE ~walk.met /\ symbol.path # None /\ IsPrefix(RunnerSource, symbol.path)
  <2>1. next = [walk EXCEPT !.met = TRUE]
    BY <1>4 DEF Visit
  <2>2. next \in Walks /\ next.met = TRUE /\ next.frames = walk.frames
    BY <1>1, <2>1 DEF Walks
  <2> QED BY <1>4, <2>2 DEF IsRunner
<1>5. CASE /\ ~walk.met /\ symbol.path # None /\ ~IsPrefix(RunnerSource, symbol.path)
           /\ \/ IsPrefix(OwnSources, symbol.path) \/ ~IsPrefix(TestRoot, symbol.path)
              \/ symbol.line = None
  <2>1. next = walk
    BY <1>5 DEF Visit
  <2>2. ~IsRunner(symbol) /\ ~IsTestCode(symbol)
    BY <1>5 DEF IsRunner, IsTestCode
  <2> QED BY <1>1, <1>5, <2>1, <2>2
<1>6. CASE /\ ~walk.met /\ symbol.path # None /\ ~IsPrefix(RunnerSource, symbol.path)
           /\ ~IsPrefix(OwnSources, symbol.path) /\ IsPrefix(TestRoot, symbol.path)
           /\ symbol.line # None
  <2>1. symbol.path \in Paths /\ symbol.path # <<>> /\ symbol.path \notin Marked
    BY <1>6 DEF IsSymbol, Symbols
  <2>2. PICK found : found = IsDependency(walk.dirs, symbol.path)
    OBVIOUS
  <2>3. found.dirs \in Maps /\ (found.is <=> IsForeign(symbol.path))
    BY <1>1, <2>1, <2>2, TellsDependencies
  <2>4. IsTestCode(symbol) <=> ~found.is
    BY <1>6, <2>3 DEF IsTestCode, IsForeign, IsDependencyDir
  <2>5. PICK frames : frames = IF found.is \/ repeats THEN walk.frames
                               ELSE Append(walk.frames, Entry(symbol))
    OBVIOUS
  <2>6. next = [walk EXCEPT !.dirs = found.dirs, !.frames = frames]
    BY <1>6, <2>2, <2>5 DEF Visit
  <2>7. next = [frames |-> frames, dirs |-> found.dirs, met |-> walk.met]
    BY <1>2, <2>6
  <2>8. frames \in Seq(Entries)
    <3>1. CASE found.is \/ repeats
      BY <1>1, <2>5, <3>1
    <3>2. CASE ~(found.is \/ repeats)
      <4>1. Entry(symbol) \in Entries
        BY <2>4, <3>2, EntriesOfPlaces DEF IsSymbol
      <4>2. frames = Append(walk.frames, Entry(symbol))
        BY <2>5, <3>2
      <4> HIDE DEF repeats
      <4> QED BY <1>1, <4>1, <4>2
    <3> QED BY <3>1, <3>2
  <2>9. next.frames = frames /\ next.met = walk.met /\ next \in Walks
    BY <1>1, <2>3, <2>7, <2>8 DEF Walks
  <2>10. ~IsRunner(symbol)
    BY <1>6 DEF IsRunner
  <2>11. next.frames = IF IsTestCode(symbol) /\ ~next.met /\ ~repeats
                       THEN Append(walk.frames, Entry(symbol)) ELSE walk.frames
    <3> HIDE DEF next, repeats
    <3> QED BY <1>6, <2>4, <2>5, <2>9
  <2> HIDE DEF next, repeats
  <2>12. next \in Walks /\ (next.met <=> walk.met \/ IsRunner(symbol))
    BY <1>6, <2>9, <2>10
  <2> QED BY <2>11, <2>12 DEF next, repeats
<1> QED BY <1>1, <1>3, <1>4, <1>5, <1>6

\* A set of numbers is listed in one way.
Lists(q, m, S) ==
    /\ m \in Nat /\ q \in [1..m -> Int]
    /\ \A a, b \in 1..m : a < b => q[a] < q[b]
    /\ \A x : x \in S <=> \E a \in 1..m : q[a] = x

\* A list that is ascending is the list of its numbers.
LEMMA ListsOneWay ==
    ASSUME NEW q, NEW m, NEW S, Lists(q, m, S)
    PROVE  Ascending(S) = q
<1> USE DEF Lists
<1> DEFINE before(x) == {y \in S : y < x}
           order == {p \in S \X S : p[1] < p[2]}
<1>1. S \subseteq Int /\ \A a \in 1..m : q[a] \in S
  OBVIOUS
<1>2. \A a, b \in 1..m : q[a] < q[b] <=> a < b
  <2> SUFFICES ASSUME NEW a \in 1..m, NEW b \in 1..m, q[a] < q[b], ~(a < b) PROVE FALSE
    OBVIOUS
  <2>1. a = b \/ b < a
    OBVIOUS
  <2>2. q[a] \in Int /\ q[b] \in Int
    OBVIOUS
  <2> QED BY <2>1, <2>2
<1>3. Reorders(q, 1..m, S)
  <2>1. q \in [1..m -> S]
    BY <1>1
  <2>2. \A a, b \in 1..m : q[a] = q[b] => a = b
    <3> SUFFICES ASSUME NEW a \in 1..m, NEW b \in 1..m, q[a] = q[b], a # b PROVE FALSE
      OBVIOUS
    <3>1. a < b \/ b < a
      OBVIOUS
    <3>2. q[a] \in Int /\ q[b] \in Int
      OBVIOUS
    <3> QED BY <3>1, <3>2
  <2>3. \A x \in S : \E a \in 1..m : q[a] = x
    OBVIOUS
  <2> QED BY <2>1, <2>2, <2>3 DEF Reorders
<1>4. IsFiniteSet(1..m) /\ Cardinality(1..m) = m
  BY FS_Interval
<1>5. Cardinality(S) = m
  <2>1. PICK D : D = 1..m /\ IsFiniteSet(D) /\ Reorders(q, D, S)
    BY <1>3, <1>4
  <2>2. \A a \in D : a \in D <=> q[a] \in S
    BY <2>1 DEF Reorders
  <2>3. S \in SUBSET S /\ D \in SUBSET D
    OBVIOUS
  <2>4. Cardinality(D) = Cardinality(S)
    <3>1. IsFiniteSet(D) /\ Reorders(q, D, S)
      BY <2>1
    <3> QED BY ONLY <3>1, <2>2, <2>3, SameCount
  <2> QED BY <1>4, <2>1, <2>4
<1>6. ASSUME NEW a \in 1..m PROVE Cardinality(before(q[a])) = a - 1
  <2>1. PICK D, B : D = 1..m /\ B = 1..(a - 1) /\ B \in SUBSET D /\ IsFiniteSet(D) /\ Reorders(q, D, S)
    BY <1>3, <1>4
  <2>2. PICK A \in SUBSET S : A = before(q[a])
    OBVIOUS
  <2>3. \A b \in D : b \in B <=> q[b] \in A
    <3> SUFFICES ASSUME NEW b \in 1..m PROVE b \in 1..(a - 1) <=> q[b] \in A
      BY <2>1
    <3>1. q[b] \in A <=> q[b] < q[a]
      BY <1>1, <2>2
    <3>2. b \in 1..(a - 1) <=> b < a
      OBVIOUS
    <3> QED BY <1>2, <3>1, <3>2
  <2>4. Cardinality(B) = Cardinality(A)
    <3>1. IsFiniteSet(D) /\ Reorders(q, D, S) /\ A \in SUBSET S /\ B \in SUBSET D
      BY <2>1
    <3> QED BY ONLY <3>1, <2>3, SameCount
  <2>5. Cardinality(1..(a - 1)) = a - 1
    <3>1. PICK k \in Nat : k = a - 1
      OBVIOUS
    <3>2. 1 \in Int /\ k \in Int
      OBVIOUS
    <3>3. Cardinality(1..k) = IF 1 > k THEN 0 ELSE k - 1 + 1
      BY <3>2, FS_Interval
    <3> QED BY <3>1, <3>3
  <2> QED BY <2>1, <2>2, <2>4, <2>5
<1>7. \A x, y \in S : <<y, x>> \in order <=> y < x
  OBVIOUS
<1>8. ASSUME NEW a \in 1..m
      PROVE  (CHOOSE x \in S : Cardinality({y \in S : <<y, x>> \in order}) = a - 1) = q[a]
  <2>1. \A x \in S : {y \in S : <<y, x>> \in order} = before(x)
    BY <1>7
  <2>2. \A x \in S : Cardinality(before(x)) = a - 1 => x = q[a]
    <3> SUFFICES ASSUME NEW b \in 1..m, Cardinality(before(q[b])) = a - 1 PROVE q[b] = q[a]
      OBVIOUS
    <3>1. b - 1 = a - 1
      BY <1>6
    <3> QED BY <3>1
  <2> HIDE DEF before, order
  <2> QED BY <1>1, <1>6, <2>1, <2>2
<1>9. Ascending(S) = [a \in 1..m |-> CHOOSE x \in S : Cardinality({y \in S : <<y, x>> \in order}) = a - 1]
  BY <1>5 DEF Ascending, Listing
<1>10. q = [a \in 1..m |-> q[a]]
  OBVIOUS
<1> QED BY <1>8, <1>9, <1>10

\* Frames that tell the places of a set of positions, in their order.
Shows(frames, stack, S) ==
    \E m, q :
       Lists(q, m, S) /\ frames = [a \in 1..m |-> Entry(stack[q[a]])]

\* The frames shown, one place further.
LEMMA ShowsOne ==
    ASSUME NEW stack, NEW frames \in Seq(Entries), NEW S, Shows(frames, stack, S),
           NEW i \in Int, \A x \in S : x < i, Entry(stack[i]) \in Entries
    PROVE  Shows(Append(frames, Entry(stack[i])), stack, S \cup {i})
<1>0. PICK m \in Nat : \E q : Lists(q, m, S) /\ frames = [a \in 1..m |-> Entry(stack[q[a]])]
  BY DEF Shows, Lists
<1>1. PICK q : /\ Lists(q, m, S) /\ frames = [a \in 1..m |-> Entry(stack[q[a]])]
               /\ q \in [1..m -> Int]
  BY <1>0 DEF Lists
<1>2. PICK p : p = [a \in 1..(m + 1) |-> IF a = m + 1 THEN i ELSE q[a]]
  OBVIOUS
<1>3. p \in [1..(m + 1) -> Int] /\ p[m + 1] = i /\ \A a \in 1..m : p[a] = q[a]
  <2>1. \A a \in 1..(m + 1) : a = m + 1 \/ a \in 1..m
    OBVIOUS
  <2>2. m + 1 \in 1..(m + 1) /\ \A a \in 1..m : a \in 1..(m + 1) /\ a # m + 1
    OBVIOUS
  <2>3. p \in [1..(m + 1) -> Int]
    BY <1>1, <1>2, <2>1
  <2> QED BY <1>2, <2>2, <2>3
<1>4. Lists(p, m + 1, S \cup {i})
  <2>1. ASSUME NEW a \in 1..(m + 1), NEW b \in 1..(m + 1), a < b PROVE p[a] < p[b]
    <3>1. a \in 1..m /\ p[a] = q[a] /\ q[a] \in S
      BY <1>1, <1>3, <2>1 DEF Lists
    <3>2. CASE b = m + 1
      BY <1>3, <3>1, <3>2
    <3>3. CASE b # m + 1
      <4>1. b \in 1..m
        BY <3>3
      <4>2. q[a] < q[b]
        BY <1>1, <2>1, <3>1, <4>1 DEF Lists
      <4> QED BY <1>3, <3>1, <4>1, <4>2
    <3> QED BY <3>2, <3>3
  <2>2. ASSUME NEW x PROVE x \in S \cup {i} <=> \E a \in 1..(m + 1) : p[a] = x
    <3>1. (\E a \in 1..(m + 1) : p[a] = x) <=> p[m + 1] = x \/ \E a \in 1..m : p[a] = x
      <4>1. \A a \in 1..(m + 1) : a = m + 1 \/ a \in 1..m
        OBVIOUS
      <4>2. m + 1 \in 1..(m + 1) /\ \A a \in 1..m : a \in 1..(m + 1)
        OBVIOUS
      <4> QED BY <4>1, <4>2
    <3>2. (\E a \in 1..m : p[a] = x) <=> \E a \in 1..m : q[a] = x
      BY <1>3
    <3>3. x \in S <=> \E a \in 1..m : q[a] = x
      BY <1>1 DEF Lists
    <3> QED BY <1>3, <3>1, <3>2, <3>3
  <2> QED BY <1>3, <2>1, <2>2 DEF Lists
<1>5. Append(frames, Entry(stack[i])) = [a \in 1..(m + 1) |-> Entry(stack[p[a]])]
  <2>1. Len(frames) = m /\ \A a \in 1..m : frames[a] = Entry(stack[q[a]])
    BY <1>1
  <2>2. PICK e \in Entries : e = Entry(stack[i])
    OBVIOUS
  <2>3. Append(frames, e) = [a \in 1..(m + 1) |-> IF a = m + 1 THEN e ELSE frames[a]]
    <3>1. PICK g : g = Append(frames, e)
      OBVIOUS
    <3>2. g \in Seq(Entries) /\ Len(g) = m + 1 /\ g[m + 1] = e /\ \A a \in 1..m : g[a] = frames[a]
      BY <2>1, <3>1
    <3>3. g = [a \in 1..(m + 1) |-> g[a]]
      BY <3>2
    <3>4. \A a \in 1..(m + 1) : g[a] = IF a = m + 1 THEN e ELSE frames[a]
      <4>1. \A a \in 1..(m + 1) : a = m + 1 \/ a \in 1..m
        OBVIOUS
      <4> QED BY <3>2, <4>1
    <3> QED BY <3>1, <3>3, <3>4
  <2>4. ASSUME NEW a \in 1..(m + 1)
        PROVE  (IF a = m + 1 THEN e ELSE frames[a]) = Entry(stack[p[a]])
    <3>1. CASE a = m + 1
      BY <1>3, <2>2, <3>1
    <3>2. CASE a # m + 1
      <4>1. a \in 1..m
        BY <3>2
      <4> QED BY <1>3, <2>1, <3>2, <4>1
    <3> QED BY <3>1, <3>2
  <2> QED BY <2>2, <2>3, <2>4
<1>6. m + 1 \in Nat
  OBVIOUS
<1>7. PICK k, T, g : k = m + 1 /\ T = S \cup {i} /\ g = Append(frames, Entry(stack[i]))
  OBVIOUS
<1>8. Lists(p, k, T) /\ g = [a \in 1..k |-> Entry(stack[p[a]])]
  BY <1>4, <1>5, <1>7
<1>9. Shows(g, stack, T)
  BY ONLY <1>8 DEF Shows
<1> QED BY <1>7, <1>9

IsStack(stack) == stack \in Seq(Symbols) /\ stack # <<>> /\ \A i \in 1..Len(stack) : IsSymbol(stack[i])

\* What a walk tells after the first i symbols.
Seen(walk, stack, i) ==
    /\ walk.met <=> \E j \in 1..i : IsRunner(stack[j])
    /\ Shows(walk.frames, stack, {p \in Places(stack) : p <= i})
    /\ walk.frames # <<>> => \E l \in TestCode(stack) : l <= i
    /\ \A l \in TestCode(stack) :
          l <= i /\ (\A k \in TestCode(stack) : k <= i => k <= l) =>
             walk.frames # <<>> /\ Last(walk.frames) = Entry(stack[l])

\* Before a position with test code before it is the last such.
LEMMA LastTestCode ==
    ASSUME NEW stack, NEW n \in Nat, TestCode(stack) \in SUBSET (1..n), NEW i \in Int,
           \E l \in TestCode(stack) : l < i
    PROVE  \E l \in TestCode(stack) : l < i /\ \A k \in TestCode(stack) : k < i => k <= l
<1>1. PICK S : S = {k \in TestCode(stack) : k < i}
  OBVIOUS
<1>2. IsFiniteSet(1..n)
  BY FS_Interval
<1>3. S \in SUBSET (1..n) /\ S # {}
  BY <1>1
<1>4. IsFiniteSet(S)
  BY <1>2, <1>3, FS_Subset
<1>5. S \in SUBSET Int
  BY <1>3
<1>6. Max(S) \in S /\ \A y \in S : y <= Max(S)
  BY <1>3, <1>4, <1>5, MaxFacts
<1> QED BY <1>1, <1>6

\* A walk that has seen the places before a symbol has seen those up to it once it visited it.
LEMMA SeesOne ==
    ASSUME package \in Packages, NEW stack, IsStack(stack), NEW i \in 1..Len(stack),
           NEW walk \in Walks, Seen(walk, stack, i - 1)
    PROVE  Seen(Visit(walk, stack[i]), stack, i)
<1> DEFINE Code == TestCode(stack)
           entry(j) == Entry(stack[j])
           repeats == walk.frames # <<>> /\ Last(walk.frames) = entry(i)
<1>1. PICK n \in Nat : n = Len(stack) /\ stack \in Seq(Symbols) /\ i \in 1..n
  BY DEF IsStack
<1>2. PICK next : next = Visit(walk, stack[i])
  OBVIOUS
<1>3. /\ next \in Walks /\ walk.frames \in Seq(Entries)
      /\ next.met <=> walk.met \/ IsRunner(stack[i])
      /\ next.frames = IF IsTestCode(stack[i]) /\ ~next.met /\ ~repeats
                       THEN Append(walk.frames, entry(i)) ELSE walk.frames
  <2>1. IsSymbol(stack[i])
    BY DEF IsStack
  <2>2. walk.frames \in Seq(Entries)
    BY DEF Walks
  <2> QED BY <1>2, <2>1, <2>2, VisitTells
<1>4. \A j : j \in Code <=> j \in 1..n /\ IsTestCode(stack[j]) /\ ~\E k \in 1..j : IsRunner(stack[k])
  BY <1>1 DEF TestCode, IsRunner
<1>5. Places(stack) = {p \in Code : \A j \in Code :
                          j < p /\ (\A k \in Code : ~(j < k /\ k < p)) => entry(j) # entry(p)}
  BY DEF Places
<1> HIDE DEF Code, entry
<1>6. next.met <=> \E j \in 1..i : IsRunner(stack[j])
  <2>1. \A j \in 1..i : j = i \/ j \in 1..(i - 1)
    OBVIOUS
  <2>2. i \in 1..i /\ \A j \in 1..(i - 1) : j \in 1..i
    OBVIOUS
  <2> QED BY <1>3, <2>1, <2>2 DEF Seen
<1>7. i \in Code <=> IsTestCode(stack[i]) /\ ~next.met
  BY <1>1, <1>4, <1>6
<1>8. Code \in SUBSET (1..n) /\ Places(stack) \in SUBSET Code
  BY <1>4, <1>5
<1>9. /\ walk.frames # <<>> => \E l \in Code : l <= i - 1
      /\ \A l \in Code : l <= i - 1 /\ (\A k \in Code : k <= i - 1 => k <= l) =>
            walk.frames # <<>> /\ Last(walk.frames) = entry(l)
      /\ Shows(walk.frames, stack, {p \in Places(stack) : p <= i - 1})
  BY DEF Seen, Code, entry
<1>10. CASE i \notin Code
  <2>1. next.frames = walk.frames
    BY <1>3, <1>7, <1>10
  <2>2. \A k \in Code : k <= i <=> k <= i - 1
    BY <1>8, <1>10
  <2>3. {p \in Places(stack) : p <= i} = {p \in Places(stack) : p <= i - 1}
    BY <1>8, <2>2
  <2>4. next.frames # <<>> => \E l \in Code : l <= i
    BY <1>9, <2>1, <2>2
  <2>5. \A l \in Code : l <= i /\ (\A k \in Code : k <= i => k <= l) =>
            next.frames # <<>> /\ Last(next.frames) = entry(l)
    BY <1>9, <2>1, <2>2
  <2> QED BY <1>2, <1>6, <1>9, <2>1, <2>3, <2>4, <2>5 DEF Seen, Code, entry
<1>11. CASE i \in Code
  <2>1. next.frames = IF repeats THEN walk.frames ELSE Append(walk.frames, entry(i))
    BY <1>3, <1>7, <1>11
  <2>2. entry(i) \in Entries
    <3>1. stack[i] \in Symbols
      BY <1>1
    <3> QED BY <1>7, <1>11, <3>1, EntriesOfPlaces DEF entry
  <2>3. next.frames # <<>> /\ Last(next.frames) = entry(i)
    <3>1. CASE repeats
      BY <2>1, <3>1
    <3>2. CASE ~repeats
      <4>1. PICK g : g = Append(walk.frames, entry(i))
        OBVIOUS
      <4>2. Len(g) = Len(walk.frames) + 1 /\ g \in Seq(Entries) /\ g[Len(walk.frames) + 1] = entry(i)
        BY <1>3, <2>2, <4>1
      <4>3. Len(walk.frames) \in Nat
        BY <1>3
      <4>4. g # <<>> /\ Last(g) = entry(i)
        BY <4>2, <4>3 DEF Last
      <4> HIDE DEF repeats
      <4> QED BY <2>1, <3>2, <4>1, <4>4
    <3> QED BY <3>1, <3>2
  <2>4. i \in Places(stack) <=> ~repeats
    <3>1. CASE \A l \in Code : ~(l < i)
      <4>1. walk.frames = <<>>
        BY <1>8, <1>9, <3>1
      <4>2. i \in Places(stack)
        BY <1>5, <1>11, <3>1
      <4> QED BY <4>1, <4>2
    <3>2. CASE \E l \in Code : l < i
      <4>1. PICK l \in Code : l < i /\ \A k \in Code : k < i => k <= l
        BY <1>8, <3>2, LastTestCode DEF Code
      <4>2. \A k \in Code : k < i <=> k <= i - 1
        BY <1>8
      <4>3. walk.frames # <<>> /\ Last(walk.frames) = entry(l)
        BY <1>9, <4>1, <4>2
      <4>4. \A j \in Code : j < i /\ (\A k \in Code : ~(j < k /\ k < i)) <=> j = l
        <5>1. \A j \in Code : j \in Int
          BY <1>8
        <5> QED BY <4>1, <5>1
      <4>5. i \in Places(stack) <=> entry(l) # entry(i)
        BY <1>5, <1>11, <4>4
      <4> QED BY <4>3, <4>5
    <3> QED BY <3>1, <3>2
  <2>5. Shows(next.frames, stack, {p \in Places(stack) : p <= i})
    <3> DEFINE S == {p \in Places(stack) : p <= i - 1}
    <3>0. \A p \in Places(stack) : p \in Int
      <4>1. \A p \in Places(stack) : p \in 1..n
        <5> HIDE DEF S
        <5> QED BY <1>8
      <4> QED BY <4>1
    <3>1. \A p \in S : p < i
      BY <3>0
    <3>2. \A p \in Places(stack) : p <= i <=> p = i \/ p <= i - 1
      BY <3>0
    <3>3. CASE repeats
      <4>1. {p \in Places(stack) : p <= i} = S
        BY <2>4, <3>2, <3>3
      <4> QED BY <1>9, <2>1, <3>3, <4>1
    <3>4. CASE ~repeats
      <4>1. {p \in Places(stack) : p <= i} = S \cup {i}
        BY <2>4, <3>2, <3>4
      <4> HIDE DEF S, repeats
      <4>2. Shows(walk.frames, stack, S)
        BY <1>9 DEF S
      <4>3. i \in Int
        OBVIOUS
      <4>4. Shows(Append(walk.frames, Entry(stack[i])), stack, S \cup {i})
        <5>1. Entry(stack[i]) \in Entries /\ walk.frames \in Seq(Entries)
          BY <1>3, <2>2 DEF entry
        <5> QED BY ONLY <3>1, <4>2, <4>3, <5>1, ShowsOne
      <4> QED BY <2>1, <3>4, <4>1, <4>4 DEF entry
    <3> QED BY <3>3, <3>4
  <2>6. \E l \in Code : l <= i
    BY <1>11
  <2>7. \A l \in Code : l <= i /\ (\A k \in Code : k <= i => k <= l) => l = i
    BY <1>8, <1>11
  <2> HIDE DEF repeats
  <2> QED BY <1>2, <1>6, <2>3, <2>5, <2>6, <2>7 DEF Seen, Code, entry
<1> QED BY <1>10, <1>11

\* What a walk over a stack has seen after each symbol.
LEMMA VisitsOneByOne ==
    ASSUME package \in Packages, Knows(dirs), NEW stack, IsStack(stack)
    PROVE  \E r : /\ r[0] = [frames |-> <<>>, dirs |-> dirs, met |-> FALSE] /\ r[0] \in Walks
                  /\ \A i \in 1..Len(stack) : r[i] = Visit(r[i - 1], stack[i])
                  /\ Capture(stack) = r[Len(stack)]
<1> DEFINE start == [frames |-> <<>>, dirs |-> dirs, met |-> FALSE]
<1>0. PICK n \in Nat : n = Len(stack) /\ DOMAIN stack = 1..n /\ \A i \in 1..n : IsSymbol(stack[i])
  BY DEF IsStack
<1> DEFINE D == 1..n
           F == [i \in D |-> [x \in Walks |-> Visit(x, stack[i])]]
           c == ChosenLast(n)
           Is(k) == k = [T \in SUBSET D |->
                            IF T = {} THEN start ELSE Visit(k[T \ {Max(T)}], stack[Max(T)])]
<1>1. /\ IsFiniteSet(D)
      /\ \A T \in SUBSET D : T # {} => Max(T) \in T /\ c[T] = Max(T)
      /\ \A i \in D : Max(1..i) = i /\ (1..i) \ {i} = 1..(i - 1) /\ 1..i \in SUBSET D
  BY LastOfChosen
<1>2. start \in Walks
  <2>1. dirs \in Maps /\ <<>> \in Seq(Entries)
    BY DEF Maps, Knows
  <2> QED BY <2>1 DEF Walks
<1>2a. CanFold(D, Walks, start, F, c)
  <2>2. \A x \in Walks, i \in D : Visit(x, stack[i]) \in Walks
    BY <1>0, VisitTells
  <2>3. F \in [D -> [Walks -> Walks]]
    BY <2>2
  <2> HIDE DEF F, D, c, start
  <2> QED BY <1>1, <1>2, <2>3 DEF CanFold
<1>3. \A i \in D, x \in Walks : F[i][x] = Visit(x, stack[i])
  OBVIOUS
<1> HIDE DEF D, F, c, start
<1>4. PICK g : IsFold(g, D, Walks, start, F, c)
  BY ONLY <1>2a, SubsetRecursion
<1>5. Is(g)
  <2>1. ASSUME NEW T \in SUBSET D, T # {} PROVE g[T] = Visit(g[T \ {Max(T)}], stack[Max(T)])
    <3>1. Max(T) \in D /\ c[T] = Max(T) /\ g[T \ {Max(T)}] \in Walks
      BY <1>1, <1>4, <2>1 DEF IsFold
    <3> QED BY <1>3, <1>4, <2>1, <3>1 DEF IsFold
  <2> QED BY <1>4, <2>1 DEF IsFold
<1>6. PICK k : k = (CHOOSE q : Is(q)) /\ Is(k)
  <2> HIDE DEF Is
  <2> QED BY <1>5
<1>7. Capture(stack) = k[D]
  BY <1>0, <1>6 DEF Capture, FoldLeft, MapThenFoldSet, D, start
<1>8. k[{}] = start /\ \A i \in D : k[1..i] = Visit(k[1..(i - 1)], stack[i])
  <2>1. k[{}] = start
    BY <1>6
  <2>2. ASSUME NEW i \in D PROVE k[1..i] = Visit(k[1..(i - 1)], stack[i])
    <3>1. PICK T \in SUBSET D : T = 1..i /\ T # {} /\ Max(T) = i /\ T \ {i} = 1..(i - 1)
      <4>1. i \in 1..n /\ 1 \in 1..i
        BY DEF D
      <4> QED BY <1>1, <4>1
    <3>2. k[T] = Visit(k[T \ {i}], stack[i])
      BY <1>6, <3>1
    <3> QED BY <3>1, <3>2
  <2> QED BY <2>1, <2>2
<1>9. PICK r : r = [i \in 0..n |-> k[1..i]]
  OBVIOUS
<1>10. r[0] = start /\ r[n] = k[D]
  <2>1. 1..0 = {}
    OBVIOUS
  <2> QED BY <1>8, <1>9, <2>1 DEF D
<1>11. \A i \in 1..n : r[i] = Visit(r[i - 1], stack[i])
  <2> SUFFICES ASSUME NEW i \in 1..n PROVE r[i] = Visit(r[i - 1], stack[i])
    OBVIOUS
  <2>1. r[i] = k[1..i] /\ r[i - 1] = k[1..(i - 1)]
    BY <1>9
  <2> QED BY <1>8, <2>1 DEF D
<1> QED BY <1>0, <1>2, <1>7, <1>10, <1>11 DEF start

\* capture finds the places of test code, in order, and the cache stays true.
LEMMA CaptureTells ==
    ASSUME package \in Packages, Knows(dirs), NEW stack, IsStack(stack)
    PROVE  LET walk == Capture(stack)
               places == Ascending(Places(stack))
           IN  /\ Knows(walk.dirs) /\ walk.frames \in Seq(Entries)
               /\ walk.frames = [i \in DOMAIN places |-> Entry(stack[places[i]])]
               /\ walk.frames # <<>> =>
                     places[1] \in TestCode(stack) /\ walk.frames[1] = Entry(stack[places[1]])
<1> DEFINE start == [frames |-> <<>>, dirs |-> dirs, met |-> FALSE]
<1>1. PICK n \in Nat : n = Len(stack) /\ n # 0
  BY DEF IsStack
<1>2. PICK r : /\ r[0] = start /\ r[0] \in Walks
               /\ \A i \in 1..n : r[i] = Visit(r[i - 1], stack[i])
               /\ Capture(stack) = r[n]
  BY <1>1, VisitsOneByOne
<1>3. TestCode(stack) \in SUBSET (1..n) /\ Places(stack) \in SUBSET TestCode(stack)
  BY <1>1 DEF TestCode, Places, IsStack
<1>3a. \A p \in TestCode(stack) : p \in 1..n
  BY <1>3
<1> DEFINE IsSeen(i) == r[i] \in Walks /\ Seen(r[i], stack, i)
           I == {i \in Nat : i <= n => IsSeen(i)}
<1>4. 0 \in I
  <2>1. Lists(<<>>, 0, {})
    BY DEF Lists
  <2>2. start.frames = [a \in 1..0 |-> Entry(stack[<<>>[a]])]
    OBVIOUS
  <2>3. {p \in Places(stack) : p <= 0} = {} /\ \A l \in TestCode(stack) : ~(l <= 0)
    BY <1>3, <1>3a
  <2>4. Shows(start.frames, stack, {})
    <3>1. PICK k, q, S, f : k = 0 /\ q = <<>> /\ S = {} /\ f = start.frames
      OBVIOUS
    <3>2. Lists(q, k, S) /\ f = [a \in 1..k |-> Entry(stack[q[a]])]
      BY <2>1, <2>2, <3>1
    <3>3. Shows(f, stack, S)
      BY ONLY <3>2 DEF Shows
    <3> QED BY <3>1, <3>3
  <2>5. ~start.met /\ start.frames = <<>> /\ ~\E j \in 1..0 : IsRunner(stack[j])
    OBVIOUS
  <2> HIDE DEF start
  <2>6. Seen(start, stack, 0)
    BY <2>3, <2>4, <2>5 DEF Seen
  <2> QED BY <1>2, <2>6
<1>5. ASSUME NEW b \in Nat, b \in I PROVE b + 1 \in I
  <2> SUFFICES ASSUME b + 1 <= n PROVE IsSeen(b + 1)
    OBVIOUS
  <2>1. PICK i \in 1..n : i = b + 1 /\ i - 1 = b /\ IsSeen(i - 1)
    BY <1>5
  <2>2. Seen(Visit(r[i - 1], stack[i]), stack, i)
    <3>1. PICK w \in Walks : w = r[i - 1] /\ Seen(w, stack, i - 1)
      BY <2>1
    <3>2. i \in 1..Len(stack)
      BY <1>1
    <3> QED BY <3>1, <3>2, SeesOne
  <2>3. Visit(r[i - 1], stack[i]) \in Walks
    <3>1. IsSymbol(stack[i])
      BY <1>1 DEF IsStack
    <3> QED BY <2>1, <3>1, VisitTells
  <2> QED BY <1>2, <2>1, <2>2, <2>3
<1>6. IsSeen(n)
  <2>1. Nat \subseteq I
    <3> HIDE DEF I
    <3> QED BY <1>4, <1>5, NumberInduction
  <2> HIDE DEF IsSeen
  <2> QED BY <1>1, <2>1
<1>7. PICK walk \in Walks : walk = Capture(stack) /\ Seen(walk, stack, n)
  BY <1>2, <1>6
<1>8. {p \in Places(stack) : p <= n} = Places(stack)
  BY <1>3, <1>3a
<1>9a. PICK m \in Nat : \E q : /\ Lists(q, m, Places(stack))
                                /\ walk.frames = [a \in 1..m |-> Entry(stack[q[a]])]
  <2>1. Shows(walk.frames, stack, Places(stack))
    BY <1>7, <1>8 DEF Seen
  <2>2. PICK m, q : /\ Lists(q, m, Places(stack))
                    /\ walk.frames = [a \in 1..m |-> Entry(stack[q[a]])]
    BY <2>1 DEF Shows
  <2> QED BY <2>2 DEF Lists
<1>9. PICK q : /\ Lists(q, m, Places(stack))
               /\ walk.frames = [a \in 1..m |-> Entry(stack[q[a]])]
  BY <1>9a
<1>10. Ascending(Places(stack)) = q /\ DOMAIN q = 1..m
  <2>1. DOMAIN q = 1..m
    BY <1>9 DEF Lists
  <2> QED BY <1>9, <2>1, ListsOneWay
<1>11. Knows(walk.dirs) /\ walk.frames \in Seq(Entries)
  BY DEF Walks, Maps
<1>12. ASSUME walk.frames # <<>>
       PROVE  q[1] \in TestCode(stack) /\ walk.frames[1] = Entry(stack[q[1]])
  <2>1. m # 0
    <3> SUFFICES ASSUME m = 0 PROVE FALSE
      OBVIOUS
    <3>1. walk.frames = <<>>
      BY <1>9
    <3> QED BY <1>12, <3>1
  <2>2. 1 \in 1..m
    BY <2>1
  <2>3. q[1] \in Places(stack)
    BY <1>9, <2>2 DEF Lists
  <2> QED BY <1>3, <1>9, <2>2, <2>3
<1> QED BY <1>7, <1>9, <1>10, <1>11, <1>12

\* What is left of a sequence after dropping its first elements.
LEMMA EndOf ==
    ASSUME NEW X, NEW s \in Seq(X), NEW k \in 0..Len(s)
    PROVE  IsSuffix(SubSeq(s, k + 1, Len(s)), s)
<1>0. PICK n \in Nat, m \in Nat : n = Len(s) /\ m = n - k
  <2>1. Len(s) \in Nat /\ Len(s) - k \in Nat
    OBVIOUS
  <2> QED BY <2>1
<1>1. PICK t : n = Len(s) /\ m = n - k /\ t = SubSeq(s, k + 1, n)
  BY <1>0
<1>2. t = [i \in 1..m |-> s[k + i]]
  <2>1. t = [i \in 1..(1 + n - (k + 1)) |-> s[i + (k + 1) - 1]]
    BY <1>1
  <2>2. 1 + n - (k + 1) = m /\ \A i \in 1..m : i + (k + 1) - 1 = k + i
    BY <1>1
  <2> QED BY <2>1, <2>2
<1>3. t \in Seq(X) /\ Len(t) = m
  <2>1. \A i \in 1..m : k + i \in 1..n /\ s[k + i] \in X
    BY <1>1
  <2> QED BY <1>2, <2>1
<1>4. PICK a, b : a = Reverse(t) /\ b = Reverse(s)
  OBVIOUS
<1>5. a \in Seq(X) /\ Len(a) = m /\ \A i \in 1..m : a[i] = t[m - i + 1]
  <2>1. a = [i \in 1..m |-> t[m - i + 1]]
    BY <1>3, <1>4 DEF Reverse
  <2>2. \A i \in 1..m : m - i + 1 \in 1..m /\ t[m - i + 1] \in X
    BY <1>3
  <2> QED BY <2>1, <2>2
<1>6. b \in Seq(X) /\ Len(b) = n /\ \A i \in 1..n : b[i] = s[n - i + 1]
  <2>1. b = [i \in 1..n |-> s[n - i + 1]]
    BY <1>1, <1>4 DEF Reverse
  <2>2. \A i \in 1..n : n - i + 1 \in 1..n /\ s[n - i + 1] \in X
    BY <1>1
  <2> QED BY <2>1, <2>2
<1>7. m <= n /\ \A i \in 1..m : a[i] = b[i]
  <2>1. ASSUME NEW i \in 1..m PROVE a[i] = b[i]
    <3>1. m - i + 1 \in 1..m /\ i \in 1..n /\ k + (m - i + 1) = n - i + 1
      BY <1>1
    <3>2. t[m - i + 1] = s[n - i + 1]
      BY <1>2, <3>1
    <3> QED BY <1>5, <1>6, <3>1, <3>2
  <2> QED BY <1>1, <2>1
<1>8. IsPrefix(a, b)
  <2>1. Len(a) <= Len(b) /\ \A i \in 1..Len(a) : a[i] = b[i]
    BY <1>5, <1>6, <1>7
  <2>2. a \in Seq(X) /\ b \in Seq(X)
    BY <1>5, <1>6
  <2> QED BY ONLY <2>1, <2>2, PrefixOf
<1> QED BY <1>1, <1>4, <1>8 DEF IsSuffix

\* What the report of a failure tells.
Tells(f) ==
    LET stack == f.stack
        location == f.location
        given == f.given
        places == Ascending(Places(stack))
        frames == [i \in DOMAIN places |-> Entry(stack[places[i]])]
        kept == {f.attached[i] : i \in DOMAIN f.attached}
    IN  /\ Frames(frames) \in kept <=> f.told /\ frames # <<>>
        /\ \A a \in kept : a.what = "frames" => a.frames = frames
        /\ f.kind = "error" =>
              \A i \in DOMAIN given :
                  \/ given[i] \in kept
                  \/ f.told /\ given = <<Location(location)>> /\ StartsAt(frames, location)
        /\ f.kind = "panic" =>
              /\ Custom \in kept <=> given = <<Location(OwnLocation), Custom>>
              /\ Location(OwnLocation) \in kept => Custom \in kept
              /\ f.told =>
                    \E outside \in BOOLEAN :
                        /\ PanicLocation(location, outside) \in kept
                        /\ outside <=> frames # <<>> /\ ~StartsAt(frames, location)
                        /\ outside => ~IsPlaceOf(location, stack[places[1]])

\* The inductive invariant: the cache is true, and a failure tells its own places.
FramesInv ==
    /\ package \in Packages /\ targetDir \in TargetDirs /\ Knows(dirs)
    /\ \A f : f = failure /\ f # None => Tells(f)

\* The stacks of the program are stacks.
LEMMA StackOfSymbols == \A stack \in Stacks : IsStack(stack)
BY SourcesAssumption DEF IsStack, IsSymbol

\* Frames beginning with the entry of a place of test code start there.
LEMMA StartsAtTestCode ==
    ASSUME package \in Packages, NEW stack, IsStack(stack), NEW i \in TestCode(stack),
           NEW frames, frames # <<>>, frames[1] = Entry(stack[i]),
           NEW location, IsPlaceOf(location, stack[i])
    PROVE  StartsAt(frames, location)
<1>1. IsTestCode(stack[i]) /\ stack[i] \in Symbols
  BY DEF TestCode, IsStack
<1>2. stack[i].path \in Seq(STRING) /\ TestRoot \in Seq(STRING) /\ IsPrefix(TestRoot, stack[i].path)
  BY <1>1, RootIsPath DEF IsTestCode, Symbols, Paths
<1>3. PICK k \in Nat, path \in Seq(STRING) : path = stack[i].path /\ k = Len(TestRoot)
  BY <1>2
<1>4. k \in 0..Len(path)
  BY <1>2, <1>3, PrefixOf
<1>5. IsSuffix(SubSeq(path, k + 1, Len(path)), path)
  BY <1>4, EndOf
<1>6. PICK file \in Seq(STRING) : file = SubSeq(path, k + 1, Len(path))
  <2>1. PICK n \in Nat : n = Len(path) /\ k <= n
    BY <1>4
  <2>2. SubSeq(path, k + 1, n) \in Seq(STRING)
    BY <2>1
  <2> QED BY <2>1, <2>2
<1>7. IsSuffix(file, file)
  <2>1. 0 \in 0..Len(file) /\ SubSeq(file, 0 + 1, Len(file)) = file
    OBVIOUS
  <2> QED BY <2>1, EndOf
<1>8. frames[1].file = file /\ frames[1].line = stack[i].line
  <2>1. Entry(stack[i]) = [file |-> file, line |-> stack[i].line, function |-> stack[i].function]
    BY ONLY <1>3, <1>6 DEF Entry
  <2> QED BY <2>1
<1>9. location.line = stack[i].line /\ (location.path = path \/ location.path = file)
  BY <1>3, <1>6 DEF IsPlaceOf, Entry
<1> QED BY <1>5, <1>6, <1>7, <1>8, <1>9 DEF StartsAt

\* The code is found in the same way after every step.
LEMMA RootIsKept ==
    ASSUME UNCHANGED package
    PROVE  /\ TestRoot' = TestRoot
           /\ \A known : Knows(known)' <=> Knows(known)
<1>1. TestRoot' = TestRoot
  BY DEF TestRoot
<1>2. \A d : IsDependencyDir(d)' <=> IsDependencyDir(d)
  BY <1>1 DEF IsDependencyDir
<1> QED BY <1>1, <1>2 DEF Knows

\* What a failure tells depends on its package and its target directory alone.
LEMMA TellingIsKept ==
    ASSUME UNCHANGED package, UNCHANGED targetDir
    PROVE  \A f : Tells(f)' <=> Tells(f)
<1>1. TestRoot' = TestRoot /\ targetDir' = targetDir
  BY RootIsKept
<1>2. \A symbol : Entry(symbol)' = Entry(symbol)
  BY <1>1 DEF Entry
<1>3. \A symbol : IsTestCode(symbol)' <=> IsTestCode(symbol)
  BY <1>1 DEF IsTestCode
<1>4. \A stack : TestCode(stack)' = TestCode(stack)
  BY <1>3 DEF TestCode
<1>5. \A stack : Places(stack)' = Places(stack)
  BY <1>2, <1>4 DEF Places
<1> SUFFICES ASSUME NEW f PROVE Tells(f)' <=> Tells(f)
  OBVIOUS
<1>6. Ascending(Places(f.stack))' = Ascending(Places(f.stack))
  BY <1>5
<1>7. \A location, symbol : IsPlaceOf(location, symbol)' <=> IsPlaceOf(location, symbol)
  BY <1>2 DEF IsPlaceOf
<1> QED BY <1>2, <1>6, <1>7
        DEF Tells, Frames, StartsAt, PanicLocation, Location, OwnLocation, Custom

\* The sequences that the attachments of a report are.
LEMMA Attaching ==
    ASSUME NEW a, NEW b, NEW c
    PROVE  /\ Append(<<>>, a) = <<a>> /\ Append(<<a>>, b) = <<a, b>>
           /\ Append(<<a, b>>, c) = <<a, b, c>>
           /\ <<a>> \o <<>> = <<a>> /\ <<a>> \o <<b>> = <<a, b>>
           /\ <<>> \o <<a>> = <<a>> /\ <<>> \o <<>> = <<>>
<1> DEFINE X == {a, b, c}
<1>1. Append(<<>>, a) = <<a>> /\ <<>> \o <<a>> = <<a>> /\ <<a>> \o <<>> = <<a>> /\ <<>> \o <<>> = <<>>
  OBVIOUS
<1>6. a \in X /\ b \in X /\ c \in X
  OBVIOUS
<1> HIDE DEF X
<1>2. PICK s \in Seq(X) : s = <<a>> /\ Len(s) = 1 /\ s[1] = a
  <2>1. PICK l : l = <<a>>
    OBVIOUS
  <2>2. l \in Seq(X)
    BY <1>6, <2>1
  <2>3. Len(l) = 1
    BY <2>1
  <2>4. l[1] = a
    BY <2>1
  <2> QED BY <2>1, <2>2, <2>3, <2>4
<1>3. PICK u \in Seq(X) : u = <<b>> /\ Len(u) = 1 /\ u[1] = b
  <2>1. PICK l : l = <<b>>
    OBVIOUS
  <2>2. l \in Seq(X)
    BY <1>6, <2>1
  <2>3. Len(l) = 1
    BY <2>1
  <2>4. l[1] = b
    BY <2>1
  <2> QED BY <2>1, <2>2, <2>3, <2>4
<1>4. PICK t \in Seq(X) : t = <<a, b>> /\ Len(t) = 2 /\ t[1] = a /\ t[2] = b
  <2>1. PICK l : l = <<a, b>>
    OBVIOUS
  <2>2. l \in Seq(X)
    BY <1>6, <2>1
  <2>3. Len(l) = 2
    BY <2>1
  <2>4. l[1] = a /\ l[2] = b
    BY <2>1
  <2> QED BY <2>1, <2>2, <2>3, <2>4
<1>5. PICK v \in Seq(X) : v = <<a, b, c>> /\ Len(v) = 3 /\ v[1] = a /\ v[2] = b /\ v[3] = c
  <2>1. PICK l : l = <<a, b, c>>
    OBVIOUS
  <2>2. l \in Seq(X)
    BY <1>6, <2>1
  <2>3. Len(l) = 3
    BY <2>1
  <2>4. l[1] = a /\ l[2] = b /\ l[3] = c
    BY <2>1
  <2> QED BY <2>1, <2>2, <2>3, <2>4
<1>7. Append(s, b) = t
  <2>0. PICK p : p = Append(s, b)
    OBVIOUS
  <2>1. p \in Seq(X) /\ Len(p) = 2 /\ p[1] = a /\ p[2] = b
    BY <1>2, <1>6, <2>0
  <2>2. \A i \in 1..Len(p) : p[i] = t[i]
    BY <1>4, <2>1
  <2> QED BY <1>4, <2>0, <2>1, <2>2, SeqEqual
<1>8. s \o u = t
  <2>0. PICK p : p = s \o u
    OBVIOUS
  <2>1. p \in Seq(X) /\ Len(p) = 2 /\ p[1] = a /\ p[2] = b
    BY <1>2, <1>3, <2>0
  <2>2. \A i \in 1..Len(p) : p[i] = t[i]
    BY <1>4, <2>1
  <2> QED BY <1>4, <2>0, <2>1, <2>2, SeqEqual
<1>9. Append(t, c) = v
  <2>0. PICK p : p = Append(t, c)
    OBVIOUS
  <2>1. p \in Seq(X) /\ Len(p) = 3 /\ p[1] = a /\ p[2] = b /\ p[3] = c
    BY <1>4, <1>6, <2>0
  <2>2. \A i \in 1..Len(p) : p[i] = v[i]
    BY <1>5, <2>1
  <2> QED BY <1>5, <2>0, <2>1, <2>2, SeqEqual
<1> QED BY <1>1, <1>2, <1>3, <1>4, <1>5, <1>7, <1>8, <1>9

\* What a report has of two lists of attachments.
LEMMA Attached ==
    ASSUME NEW X, NEW s \in Seq(X), NEW t \in Seq(X)
    PROVE  ToSet(s \o t) = ToSet(s) \cup ToSet(t)
<1>0. s \o t \in Seq(X)
  OBVIOUS
<1>1. PICK m \in Nat, n \in Nat : m = Len(s) /\ n = Len(t) /\ DOMAIN s = 1..m /\ DOMAIN t = 1..n
  OBVIOUS
<1>2. PICK u : /\ u = s \o t /\ DOMAIN u = 1..(m + n)
               /\ \A i \in 1..m : u[i] = s[i]
               /\ \A i \in 1..n : u[m + i] = t[i]
  <2>1. PICK v \in Seq(X) : v = s \o t
    BY <1>0
  <2>2. Len(v) = m + n
    BY <1>1, <2>1
  <2>3. \A i \in 1..m : v[i] = s[i]
    BY <1>1, <2>1
  <2>4. \A i \in 1..n : v[m + i] = t[i]
    BY <1>1, <2>1
  <2>5. DOMAIN v = 1..(m + n)
    BY <2>2
  <2> QED BY <2>1, <2>3, <2>4, <2>5
<1>3. \A i \in 1..(m + n) : i \in 1..m \/ (i - m \in 1..n /\ m + (i - m) = i)
  OBVIOUS
<1>4. (\A i \in 1..m : i \in 1..(m + n)) /\ \A i \in 1..n : m + i \in 1..(m + n)
  OBVIOUS
<1>5. ASSUME NEW x PROVE x \in ToSet(u) <=> x \in ToSet(s) \/ x \in ToSet(t)
  <2>1. x \in ToSet(u) <=> \E i \in 1..(m + n) : u[i] = x
    BY <1>2 DEF ToSet
  <2>2. x \in ToSet(s) <=> \E i \in 1..m : s[i] = x
    BY <1>1 DEF ToSet
  <2>3. x \in ToSet(t) <=> \E i \in 1..n : t[i] = x
    BY <1>1 DEF ToSet
  <2>4. ASSUME NEW i \in 1..(m + n), u[i] = x PROVE x \in ToSet(s) \/ x \in ToSet(t)
    <3>1. CASE i \in 1..m
      BY <1>2, <2>2, <2>4, <3>1
    <3>2. CASE i - m \in 1..n /\ m + (i - m) = i
      BY <1>2, <2>3, <2>4, <3>2
    <3> QED BY <1>3, <3>1, <3>2
  <2>5. ASSUME NEW i \in 1..m, s[i] = x PROVE x \in ToSet(u)
    BY <1>2, <1>4, <2>1, <2>5
  <2>6. ASSUME NEW i \in 1..n, t[i] = x PROVE x \in ToSet(u)
    BY <1>2, <1>4, <2>1, <2>6
  <2> QED BY <2>1, <2>2, <2>3, <2>4, <2>5, <2>6
<1> QED BY <1>2, <1>5

\* What a new report has.
LEMMA GivenToReports ==
    ASSUME NEW location, NEW custom \in BOOLEAN
    PROVE  Given(location, custom) = IF custom THEN <<Location(location), Custom>>
                                               ELSE <<Location(location)>>
<1>1. PICK at, given : at = Location(location) /\ given = Given(location, custom)
  OBVIOUS
<1>2. given = <<at>> \o (IF custom THEN <<Custom>> ELSE <<>>)
  BY <1>1 DEF Given
<1>3. CASE custom
  <2>1. given = <<at>> \o <<Custom>>
    BY <1>2, <1>3
  <2> QED BY <1>1, <1>3, <2>1, Attaching
<1>4. CASE ~custom
  <2>1. given = <<at>> \o <<>>
    BY <1>2, <1>4
  <2> QED BY <1>1, <1>4, <2>1, Attaching
<1> QED BY <1>3, <1>4

\* The report of an error tells the places of its stack, and keeps the cache true.
LEMMA ErrorTells ==
    ASSUME FramesInv, NEW stack \in Stacks, NEW location \in Locations, NEW inTest \in BOOLEAN,
           NEW childless \in BOOLEAN, NEW custom \in BOOLEAN,
           CreateReport(stack, location, inTest, childless, custom)
    PROVE  Tells(failure') /\ (Knows(dirs'))
<1> DEFINE given == Given(location, custom)
           capturing == hooksInPlace = "ours" /\ childless /\ inTest
           places == Ascending(Places(stack))
           frames == [i \in DOMAIN places |-> Entry(stack[places[i]])]
           at == Location(location)
<1>1. PICK walk : walk = Capture(stack)
  OBVIOUS
<1>2. IsStack(stack) /\ package \in Packages /\ Knows(dirs)
  BY StackOfSymbols DEF FramesInv
<1>3. Knows(walk.dirs) /\ walk.frames = frames
  BY <1>1, <1>2, CaptureTells
<1>4. Knows(dirs')
  BY <1>1, <1>2, <1>3 DEF CreateReport
<1> HIDE DEF frames, places
<1>5. PICK holds : holds = IF capturing /\ frames # <<>>
                                 THEN Append(PopLocationAt(given, frames), Frames(frames))
                                 ELSE given
  OBVIOUS
<1>6. PICK f : /\ f = failure'
               /\ f = [kind |-> "error", stack |-> stack, location |-> location,
                       told |-> capturing, given |-> given, attached |-> holds]
  BY <1>1, <1>3, <1>5 DEF CreateReport
<1>7. given = IF custom THEN <<at, Custom>> ELSE <<at>>
  BY GivenToReports
<1>8. at.what = "location" /\ at.at = location /\ Custom.what = "custom"
  BY DEF Location, Custom
<1>9. \A x : Frames(x).what = "frames" /\ Frames(x).frames = x
  BY DEF Frames
<1> DEFINE kept == {holds[i] : i \in DOMAIN holds}
           Stays == \A i \in DOMAIN given :
                       \/ given[i] \in kept
                       \/ capturing /\ given = <<at>> /\ StartsAt(frames, location)
           Shown == /\ Frames(frames) \in kept <=> capturing /\ frames # <<>>
                    /\ \A a \in kept : a.what = "frames" => a.frames = frames
<1> HIDE DEF given, capturing, at
<1>10. Stays /\ Shown
  <2>1. CASE ~(capturing /\ frames # <<>>)
    <3>1. holds = given
      BY <1>5, <2>1
    <3>2. \A a \in kept : a = at \/ a = Custom
      <4>1. CASE custom
        BY <1>7, <3>1, <4>1
      <4>2. CASE ~custom
        BY <1>7, <3>1, <4>2
      <4> QED BY <4>1, <4>2
    <3>3. Frames(frames) \notin kept /\ \A a \in kept : a.what # "frames"
      BY <1>8, <1>9, <3>2
    <3>4. \A i \in DOMAIN given : given[i] \in kept
      BY <3>1
    <3> HIDE DEF kept
    <3>5. Shown
      BY <2>1, <3>3
    <3> QED BY <3>4, <3>5
  <2>2. CASE capturing /\ frames # <<>> /\ custom
    <3>1. given = <<at, Custom>>
      BY <1>7, <2>2
    <3>2. ~IsLocation(given)
      BY <1>8, <3>1 DEF IsLocation, Last
    <3>3. holds = <<at, Custom, Frames(frames)>>
      <4>1. holds = Append(given, Frames(frames))
        BY <1>5, <2>2, <3>2 DEF PopLocationAt
      <4> QED BY <3>1, <4>1, Attaching
    <3>4. kept = {at, Custom, Frames(frames)}
      BY <3>3
    <3> HIDE DEF kept
    <3>5. \A i \in DOMAIN given : given[i] \in kept
      BY <3>1, <3>4
    <3>6. Shown
      BY <1>8, <1>9, <2>2, <3>4
    <3> QED BY <3>5, <3>6
  <2>3. CASE capturing /\ frames # <<>> /\ ~custom /\ StartsAt(frames, location)
    <3>1. given = <<at>>
      BY <1>7, <2>3
    <3>2. IsLocation(given) /\ Last(given) = at /\ Front(given) = <<>>
      BY <1>8, <3>1 DEF IsLocation, Last, Front
    <3>3. holds = <<Frames(frames)>>
      <4>1. PopLocationAt(given, frames) = <<>>
        BY <1>8, <2>3, <3>2 DEF PopLocationAt
      <4>2. holds = Append(<<>>, Frames(frames))
        BY <1>5, <2>3, <4>1
      <4> QED BY <4>2, Attaching
    <3>4. kept = {Frames(frames)}
      BY <3>3
    <3> HIDE DEF kept
    <3>6. Shown
      BY <1>8, <1>9, <2>3, <3>4
    <3> QED BY <2>3, <3>1, <3>6
  <2>4. CASE capturing /\ frames # <<>> /\ ~custom /\ ~StartsAt(frames, location)
    <3>1. given = <<at>>
      BY <1>7, <2>4
    <3>2. Last(given) = at
      BY <3>1 DEF Last
    <3>3. holds = <<at, Frames(frames)>>
      <4>1. PopLocationAt(given, frames) = <<at>>
        BY <1>8, <2>4, <3>1, <3>2 DEF PopLocationAt
      <4>2. holds = Append(<<at>>, Frames(frames))
        BY <1>5, <2>4, <4>1
      <4> QED BY <4>2, Attaching
    <3>4. kept = {at, Frames(frames)}
      BY <3>3
    <3> HIDE DEF kept
    <3>5. \A i \in DOMAIN given : given[i] \in kept
      BY <3>1, <3>4
    <3>6. Shown
      BY <1>8, <1>9, <2>4, <3>4
    <3> QED BY <3>5, <3>6
  <2> QED BY <2>1, <2>2, <2>3, <2>4
<1> HIDE DEF kept
<1>11. /\ f.stack = stack /\ f.told = capturing /\ f.given = given /\ f.attached = holds
       /\ f.kind = "error" /\ f.location = location
  BY <1>6
<1>12. Tells(f)
  <2>1. kept = {f.attached[i] : i \in DOMAIN f.attached}
    BY <1>11 DEF kept
  <2>2. \A i \in DOMAIN f.given :
            \/ f.given[i] \in kept
            \/ f.told /\ f.given = <<Location(location)>> /\ StartsAt(frames, location)
    <3> HIDE DEF kept
    <3> QED BY <1>10, <1>11 DEF at
  <2>3. f.kind # "panic"
    BY <1>11
  <2> HIDE DEF kept, Stays
  <2> QED BY <1>10, <1>11, <2>1, <2>2, <2>3 DEF Tells, frames, places
<1> QED BY <1>4, <1>6, <1>12

\* The report of a panic tells the places of its stack, and keeps the cache true.
LEMMA PanicTells ==
    ASSUME FramesInv, NEW stack \in Stacks, NEW location \in Locations, NEW inTest \in BOOLEAN,
           NEW custom \in BOOLEAN, PanicAt(stack, location, inTest, custom)
    PROVE  Tells(failure') /\ (Knows(dirs'))
<1> DEFINE places == Ascending(Places(stack))
           frames == [i \in DOMAIN places |-> Entry(stack[places[i]])]
           told == panicHooks > 0 /\ inTest
           outside == frames # <<>> /\ ~StartsAt(frames, location)
           given == Given(OwnLocation, custom)
           own == WithoutOwnLocation(given)
           shown == IF frames = <<>> THEN <<>> ELSE <<Frames(frames)>>
           here == Location(OwnLocation)
           at == PanicLocation(location, outside)
<1>1. PICK walk : walk = Capture(stack)
  OBVIOUS
<1>2. IsStack(stack) /\ package \in Packages /\ Knows(dirs)
  BY StackOfSymbols DEF FramesInv
<1>3. /\ Knows(walk.dirs) /\ walk.frames = frames
      /\ frames # <<>> => places[1] \in TestCode(stack) /\ frames[1] = Entry(stack[places[1]])
  BY <1>1, <1>2, CaptureTells
<1>4. Knows(dirs')
  BY <1>1, <1>2, <1>3 DEF PanicAt
<1> HIDE DEF frames, places
<1>5. outside => ~IsPlaceOf(location, stack[places[1]])
  BY <1>2, <1>3, StartsAtTestCode
<1>6. PICK holds : holds = IF told THEN own \o <<at>> \o shown ELSE own
  OBVIOUS
<1>7. PICK f : /\ f = failure'
               /\ f = [kind |-> "panic", stack |-> stack, location |-> location,
                       told |-> told, given |-> given, attached |-> holds]
  BY <1>1, <1>3, <1>6 DEF PanicAt
<1>8. /\ given = IF custom THEN <<here, Custom>> ELSE <<here>>
      /\ own = IF custom THEN <<here, Custom>> ELSE <<>>
  <2>1. given = IF custom THEN <<here, Custom>> ELSE <<here>>
    BY GivenToReports
  <2>0. \A y : Location(y).what = "location"
    BY DEF Location
  <2>2. PICK x : x = here /\ x.what = "location"
    BY <2>0
  <2>2a. Custom.what = "custom"
    BY DEF Custom
  <2> HIDE DEF here, given
  <2>3. CASE custom
    <3>1. given = <<x, Custom>>
      BY <2>1, <2>2, <2>3
    <3>2. ~IsLocation(given)
      BY <2>2a, <3>1 DEF IsLocation, Last
    <3> QED BY <2>2, <2>3, <3>1, <3>2 DEF WithoutOwnLocation
  <2>4. CASE ~custom
    <3>1. given = <<x>>
      BY <2>1, <2>2, <2>4
    <3>2. IsLocation(given) /\ Front(given) = <<>>
      BY <2>2, <3>1 DEF IsLocation, Last, Front
    <3> QED BY <2>1, <2>4, <3>2 DEF WithoutOwnLocation
  <2> QED BY <2>3, <2>4
<1>9. /\ at.what = "panicked" /\ here.what = "location" /\ Custom.what = "custom"
      /\ \A x : Frames(x).what = "frames" /\ Frames(x).frames = x
  BY DEF PanicLocation, Frames, Location, Custom
<1> DEFINE kept == {holds[i] : i \in DOMAIN holds}
           mine == IF custom THEN {here, Custom} ELSE {}
           more == IF frames = <<>> THEN {} ELSE {Frames(frames)}
<1> HIDE DEF at, told, outside, here, given, own
<1>10. kept = IF told THEN mine \cup {at} \cup more ELSE mine
  <2>1. ToSet(own) = mine /\ ToSet(<<at>>) = {at} /\ ToSet(shown) = more
    <3>1. ToSet(<<at>>) = {at} /\ ToSet(shown) = more
      BY DEF ToSet
    <3>2. ToSet(own) = mine
      <4>1. CASE custom
        <5>1. own = <<here, Custom>>
          BY <1>8, <4>1
        <5> QED BY <4>1, <5>1 DEF ToSet
      <4>2. CASE ~custom
        <5>1. own = <<>>
          BY <1>8, <4>2
        <5> QED BY <4>2, <5>1 DEF ToSet
      <4> QED BY <4>1, <4>2
    <3> QED BY <3>1, <3>2
  <2>2. PICK X : X = {here, Custom, at, Frames(frames)}
    OBVIOUS
  <2>3. own \in Seq(X) /\ <<at>> \in Seq(X) /\ shown \in Seq(X)
    <3>1. here \in X /\ Custom \in X /\ at \in X /\ Frames(frames) \in X
      BY <2>2
    <3>2. <<here, Custom>> \in Seq(X) /\ <<>> \in Seq(X) /\ <<at>> \in Seq(X)
      BY <3>1
    <3>3. <<Frames(frames)>> \in Seq(X)
      BY <3>1
    <3>4. own \in Seq(X)
      BY <1>8, <3>2
    <3>5. shown \in Seq(X)
      BY <3>2, <3>3
    <3> QED BY <3>2, <3>4, <3>5
  <2> HIDE DEF mine, more, shown
  <2>4. PICK s \in Seq(X) : s = own \o <<at>>
    <3>1. PICK a \in Seq(X), b \in Seq(X) : a = own /\ b = <<at>>
      BY <2>3
    <3>2. a \o b \in Seq(X)
      OBVIOUS
    <3> QED BY <3>1, <3>2
  <2>5. ToSet(s) = mine \cup {at}
    <3>1. PICK a \in Seq(X), b \in Seq(X) : a = own /\ b = <<at>>
      BY <2>3
    <3>2. ToSet(a \o b) = ToSet(a) \cup ToSet(b)
      BY Attached
    <3> QED BY <2>1, <2>4, <3>1, <3>2
  <2>6. ToSet(s \o shown) = mine \cup {at} \cup more
    BY <2>1, <2>3, <2>5, Attached
  <2>7. kept = ToSet(holds)
    BY DEF ToSet
  <2> HIDE DEF kept
  <2> QED BY <1>6, <2>1, <2>4, <2>6, <2>7
<1> HIDE DEF kept
<1>11. /\ Frames(frames) \in kept <=> told /\ frames # <<>>
       /\ \A a \in kept : a.what = "frames" => a.frames = frames
       /\ Custom \in kept <=> custom
       /\ here \in kept => Custom \in kept
       /\ told => at \in kept
  <2>1. \A a \in kept : a \in {here, Custom, at} \/ (told /\ frames # <<>> /\ a = Frames(frames))
    BY <1>10
  <2>2. /\ Frames(frames) \notin {here, Custom, at} /\ Custom \notin {here, at, Frames(frames)}
        /\ here \notin {at, Frames(frames)}
    BY <1>9
  <2>3. \A a \in kept : a.what = "frames" => a.frames = frames
    BY <1>9, <2>1
  <2> QED BY <1>10, <2>2, <2>3
<1>12. given = <<here, Custom>> <=> custom
  <2>1. Len(<<here, Custom>>) # Len(<<here>>)
    OBVIOUS
  <2> QED BY <1>8, <2>1
<1>13. /\ f.stack = stack /\ f.told = told /\ f.attached = holds /\ f.kind = "panic"
       /\ f.location = location /\ f.given = given
  BY <1>7
<1>14. told => \E b \in BOOLEAN : /\ PanicLocation(location, b) \in kept
                                  /\ b <=> frames # <<>> /\ ~StartsAt(frames, location)
                                  /\ b => ~IsPlaceOf(location, stack[places[1]])
  <2>1. PICK b \in BOOLEAN : b = outside
    BY DEF outside
  <2>2. b <=> frames # <<>> /\ ~StartsAt(frames, location)
    BY <2>1 DEF outside
  <2>3. b => ~IsPlaceOf(location, stack[places[1]])
    BY <1>5, <2>1
  <2>4. told => PanicLocation(location, b) \in kept
    BY <1>11, <2>1 DEF at
  <2> QED BY <2>2, <2>3, <2>4
<1>15. Tells(f)
  BY <1>11, <1>12, <1>13, <1>14 DEF Tells, kept, frames, places, here
<1> QED BY <1>4, <1>7, <1>15

\* Every step keeps the invariant of the frames.
LEMMA FramesStep ==
    ASSUME FramesInv, [FramesNext]_frameVars PROVE FramesInv'
<1>1. SUFFICES ASSUME /\ UNCHANGED package /\ UNCHANGED targetDir
                      /\ Knows(dirs')
                      /\ failure' # None => Tells(failure')
               PROVE  FramesInv'
  <2>1. Knows(dirs) /\ (failure # None => Tells(failure))
    BY DEF FramesInv
  <2>2. UNCHANGED package /\ UNCHANGED targetDir
    <3>1. ASSUME NEW r, Install(r) \/ CheckHooks(r) \/ InstallHooks(r) \/ InstallPanicHook(r)
          PROVE  UNCHANGED package /\ UNCHANGED targetDir
      BY <3>1 DEF Install, CheckHooks, InstallHooks, InstallPanicHook, cargo
    <3>2. ASSUME NEW included, Application(included) PROVE UNCHANGED package /\ UNCHANGED targetDir
      BY <3>2 DEF Application, cargo
    <3>3. Handle \/ UNCHANGED frameVars => UNCHANGED package /\ UNCHANGED targetDir
      BY DEF Handle, frameVars, cargo
    <3>4. ASSUME NEW stack, NEW location, NEW inTest, NEW custom,
                 PanicAt(stack, location, inTest, custom)
          PROVE  UNCHANGED package /\ UNCHANGED targetDir
      BY <3>4 DEF PanicAt, cargo
    <3>5. ASSUME NEW stack, NEW location, NEW inTest, NEW childless, NEW custom,
                 CreateReport(stack, location, inTest, childless, custom)
          PROVE  UNCHANGED package /\ UNCHANGED targetDir
      BY <3>5 DEF CreateReport, cargo
    <3> QED BY <3>1, <3>2, <3>3, <3>4, <3>5 DEF FramesNext
  <2>3. CASE UNCHANGED dirs /\ (failure' = None \/ UNCHANGED failure)
    BY <2>1, <2>2, <2>3, <1>1
  <2>4. ASSUME NEW r \in FrameRuns,
               Install(r) \/ CheckHooks(r) \/ InstallHooks(r) \/ InstallPanicHook(r)
        PROVE  UNCHANGED dirs /\ UNCHANGED failure
    BY <2>4 DEF Install, CheckHooks, InstallHooks, InstallPanicHook
  <2>5. ASSUME NEW included \in BOOLEAN, Application(included)
        PROVE  UNCHANGED dirs /\ UNCHANGED failure
    BY <2>5 DEF Application
  <2>6. Handle => UNCHANGED dirs /\ failure' = None
    BY DEF Handle
  <2>7. ASSUME NEW stack \in Stacks, NEW location \in Locations, NEW inTest \in BOOLEAN,
               NEW custom \in BOOLEAN, PanicAt(stack, location, inTest, custom)
        PROVE  FramesInv'
    BY <1>1, <2>2, <2>7, PanicTells
  <2>8. ASSUME NEW stack \in Stacks, NEW location \in Locations, NEW inTest \in BOOLEAN,
               NEW childless \in BOOLEAN, NEW custom \in BOOLEAN,
               CreateReport(stack, location, inTest, childless, custom)
        PROVE  FramesInv'
    BY <1>1, <2>2, <2>8, ErrorTells
  <2>9. UNCHANGED frameVars => UNCHANGED dirs /\ UNCHANGED failure
    BY DEF frameVars
  <2> QED BY <2>3, <2>4, <2>5, <2>6, <2>7, <2>8, <2>9 DEF FramesNext
<1>2. package' \in Packages /\ targetDir' \in TargetDirs
  BY <1>1 DEF FramesInv
<1>3. Knows(dirs)'
  <2>1. PICK known : known = dirs'
    OBVIOUS
  <2>2. Knows(known)'
    BY <1>1, <2>1, RootIsKept
  <2> QED BY <2>1, <2>2 DEF Knows, IsDependencyDir
<1>4. ASSUME NEW f, f = failure' /\ f # None PROVE Tells(f)'
  BY <1>1, <1>4, TellingIsKept
<1> QED BY <1>2, <1>3, <1>4 DEF FramesInv

\* The frames of a failure are the places of test code on its stack, from the failing one outward,
\* none of a dependency or of the runner, whatever was looked up and cached before it; and
\* wherever Rust says that it happened, and whatever hooks of the application attach after
\* that, its place is told, by the frames or beside them (failure_report.rs).
THEOREM FramesTellTestCode == FramesSpec => []FramesAreTestCode
<1>1. FramesInit => FramesInv
  <2> SUFFICES ASSUME FramesInit PROVE FramesInv
    OBVIOUS
  <2>1. Knows(<<>>)
    <3>1. PICK k, D : k = <<>> /\ D = {} /\ DOMAIN k = D
      OBVIOUS
    <3>2. <<>> = [x \in {} |-> TRUE]
      OBVIOUS
    <3>3. k \in [D -> BOOLEAN] /\ D \in SUBSET Paths
      BY <3>1, <3>2
    <3> QED BY <3>1, <3>3 DEF Knows
  <2> QED BY <2>1 DEF FramesInit, FramesInv
<1>2. FramesInv /\ [FramesNext]_frameVars => FramesInv'
  BY FramesStep
<1>3. FramesInv => FramesAreTestCode
  BY DEF FramesInv, FramesAreTestCode, Tells
<1> QED BY <1>1, <1>2, <1>3, PTL DEF FramesSpec

-----------------------------------------------------------------------------
(* The steps of a test                                                     *)

\* Steps begin in the body (0) or in a step that began before.
StepRecords == [kind : StepKinds, parent : Nat, started : Nat, ended : Nat \cup {None}, finished : BOOLEAN]

StepsTyped == steps \in Seq(StepRecords) /\ \A s \in DOMAIN steps : steps[s].parent \in 0..(s - 1)

\* Around a step are the step itself and those around the one it began in.
LEMMA AroundStep ==
    ASSUME StepsTyped
    PROVE  Around(0) = {} /\ \A s \in DOMAIN steps : Around(s) = {s} \cup Around(steps[s].parent)
<1>1. PICK N \in Nat : N = Len(steps) /\ DOMAIN steps = 1..N
  BY DEF StepsTyped
<1>2. PICK par : par = [u \in 1..N |-> steps[u].parent]
  OBVIOUS
<1>3. \A u \in 1..N : par[u] = steps[u].parent /\ par[u] \in 0..(u - 1) /\ par[u] \in 0..N
  <2> SUFFICES ASSUME NEW u \in 1..N PROVE par[u] = steps[u].parent /\ par[u] \in 0..(u - 1) /\ par[u] \in 0..N
    OBVIOUS
  <2>1. par[u] = steps[u].parent /\ par[u] \in 0..(u - 1)
    BY <1>1, <1>2 DEF StepsTyped
  <2> QED BY <2>1
<1> DEFINE X == [0..N -> SUBSET (0..N)]
           step(i, x) == [x EXCEPT ![i] = {i} \cup x[par[i]]]
           F == [i \in 1..N |-> [x \in X |-> step(i, x)]]
           b == [u \in 0..N |-> {}]
<1>4. CanRecur(N, X, b, F)
  <2>1. b \in X
    OBVIOUS
  <2>2. \A i \in 1..N, x \in X : step(i, x) \in X
    <3> SUFFICES ASSUME NEW i \in 1..N, NEW x \in X PROVE step(i, x) \in X
      OBVIOUS
    <3>1. x[par[i]] \in SUBSET (0..N)
      BY <1>3
    <3>2. {i} \cup x[par[i]] \in SUBSET (0..N)
      BY <3>1
    <3> QED BY <3>2
  <2>3. F \in [1..N -> [X -> X]]
    <3> HIDE DEF step, X
    <3> QED BY <2>2
  <2> HIDE DEF X, F, b
  <2> QED BY <2>1, <2>3 DEF CanRecur
<1>5. \A i \in 1..N, x \in X : F[i][x] = step(i, x)
  OBVIOUS
<1> HIDE DEF F
<1>6. PICK r : IsRecursion(r, N, X, b, F)
  <2> HIDE DEF X, b
  <2> QED BY ONLY <1>4, NumberRecursion
<1>7. /\ \A i \in 0..N : r[i] \in X
      /\ r[0] = b
      /\ \A i \in 1..N : r[i] = step(i, r[i - 1])
  <2> HIDE DEF X, b, step
  <2>1. \A i \in 0..N : r[i] \in X
    BY <1>6 DEF IsRecursion
  <2>2. ASSUME NEW i \in 1..N PROVE r[i] = step(i, r[i - 1])
    <3>1. i - 1 \in 0..N
      OBVIOUS
    <3>2. r[i] = F[i][r[i - 1]]
      BY <1>6 DEF IsRecursion
    <3> QED BY <1>5, <2>1, <3>1, <3>2
  <2> QED BY <1>6, <2>1, <2>2 DEF IsRecursion
<1>8. \A i \in 1..N : /\ r[i][i] = {i} \cup r[i - 1][par[i]]
                      /\ \A u \in 0..N : u # i => r[i][u] = r[i - 1][u]
  <2> SUFFICES ASSUME NEW i \in 1..N
               PROVE  /\ r[i][i] = {i} \cup r[i - 1][par[i]]
                      /\ \A u \in 0..N : u # i => r[i][u] = r[i - 1][u]
    OBVIOUS
  <2>1. PICK x \in X : x = r[i - 1] /\ r[i] = [x EXCEPT ![i] = {i} \cup x[par[i]]]
    <3>1. i - 1 \in 0..N
      OBVIOUS
    <3> QED BY <1>7, <3>1
  <2> QED BY <2>1
<1> HIDE DEF X, b, step
<1> DEFINE Settled(i) == \A u \in 0..N : u <= i => r[i][u] = r[u][u]
           I == {i \in Nat : i <= N => Settled(i)}
<1>9. \A i \in 0..N : Settled(i)
  <2>1. 0 \in I
    <3>1. \A u \in 0..N : u <= 0 => u = 0
      OBVIOUS
    <3> QED BY <3>1
  <2>2. ASSUME NEW a \in Nat, a \in I PROVE a + 1 \in I
    <3> SUFFICES ASSUME a + 1 <= N, NEW u \in 0..N, u <= a + 1 PROVE r[a + 1][u] = r[u][u]
      OBVIOUS
    <3>1. CASE u = a + 1
      BY <3>1
    <3>2. CASE u # a + 1
      <4>1. PICK i \in 1..N : i = a + 1 /\ i - 1 = a /\ u <= i - 1 /\ u # i
        BY <3>2
      <4>2. r[i][u] = r[i - 1][u]
        BY <1>8, <4>1
      <4>3. r[i - 1][u] = r[u][u]
        BY <2>2, <4>1
      <4> QED BY <4>1, <4>2, <4>3
    <3> QED BY <3>1, <3>2
  <2>3. Nat \subseteq I
    <3> HIDE DEF I
    <3> QED BY <2>1, <2>2, NumberInduction
  <2> HIDE DEF Settled
  <2> QED BY <2>3
<1>10. PICK f : f = [u \in 0..N |-> r[u][u]]
  OBVIOUS
<1>11. f[0] = {} /\ \A u \in 1..N : f[u] = {u} \cup f[par[u]]
  <2>1. f[0] = {}
    BY <1>7, <1>10 DEF b
  <2>2. ASSUME NEW u \in 1..N PROVE f[u] = {u} \cup f[par[u]]
    <3>1. u - 1 \in 0..N /\ par[u] \in 0..N /\ par[u] <= u - 1
      BY <1>3
    <3>2. r[u - 1][par[u]] = r[par[u]][par[u]]
      BY <1>9, <3>1
    <3>3. f[u] = r[u][u] /\ f[par[u]] = r[par[u]][par[u]]
      BY <1>10, <3>1
    <3> QED BY <1>8, <3>2, <3>3
  <2> QED BY <2>1, <2>2
<1> DEFINE Is(a, s) == a = [u \in 0..s |-> IF u = 0 THEN {} ELSE {u} \cup a[steps[u].parent]]
<1>12. ASSUME NEW s \in 0..N PROVE Around(s) = f[s]
  <2>1. \A u \in 0..s : u = 0 \/ (u \in 1..N /\ par[u] \in 0..s)
    BY <1>3
  <2>2. Is([u \in 0..s |-> f[u]], s)
    <3>1. PICK a : a = [u \in 0..s |-> f[u]]
      OBVIOUS
    <3>2. \A u \in 0..s : f[u] = IF u = 0 THEN {} ELSE {u} \cup a[steps[u].parent]
      <4> SUFFICES ASSUME NEW u \in 0..s, u # 0 PROVE f[u] = {u} \cup a[steps[u].parent]
        BY <1>11
      <4>1. a[steps[u].parent] = f[par[u]]
        BY <1>3, <2>1, <3>1
      <4> QED BY <1>11, <2>1, <4>1
    <3> QED BY <3>1, <3>2
  <2>3. PICK a : a = (CHOOSE q : Is(q, s)) /\ Is(a, s)
    <3> HIDE DEF Is
    <3> QED BY <2>2
  <2>4. Around(s) = a[s]
    BY <2>3 DEF Around
  <2> DEFINE Wrong == {u \in 0..s : a[u] # f[u]}
  <2>5. Wrong = {}
    <3> SUFFICES ASSUME Wrong # {} PROVE FALSE
      OBVIOUS
    <3>1. PICK u \in Wrong : \A v \in Wrong : u <= v
      <4>1. Wrong \in SUBSET Nat
        OBVIOUS
      <4> HIDE DEF Wrong
      <4> QED BY <4>1, LeastNumber
    <3>2. a[u] = IF u = 0 THEN {} ELSE {u} \cup a[steps[u].parent]
      BY <2>3
    <3>3. CASE u = 0
      BY <1>11, <3>2, <3>3
    <3>4. CASE u # 0
      <4>1. u \in 1..N /\ par[u] \in 0..s /\ par[u] < u /\ par[u] = steps[u].parent
        BY <1>3, <3>4
      <4>2. a[par[u]] = f[par[u]]
        BY <3>1, <4>1
      <4> QED BY <1>11, <3>2, <3>4, <4>1, <4>2
    <3> QED BY <3>3, <3>4
  <2> QED BY <2>4, <2>5
<1>13. 0 \in 0..N /\ \A s \in 1..N : s \in 0..N /\ steps[s].parent = par[s] /\ par[s] \in 0..N
  BY <1>3
<1> HIDE DEF Is, I, Settled
<1> QED BY <1>1, <1>11, <1>12, <1>13

\* Each of S is in the sequence once.
Orders(order, S) ==
    /\ order \in Seq(S)
    /\ \A i, j \in DOMAIN order : order[i] = order[j] => i = j
    /\ \A s \in S : \E i \in DOMAIN order : order[i] = s

\* Dropping futures drops each of their steps once.
LEMMA DroppedOnce ==
    ASSUME NEW S, IsFiniteSet(S), NEW path, NEW order \in DropOrders(S, path)
    PROVE  Orders(order, S)
<1>1. PICK n \in Nat : n = Cardinality(S)
  BY FS_CardinalityType
<1>2. order \in [1..n -> S] /\ \A i, j \in 1..n : i # j => order[i] # order[j]
  BY <1>1 DEF DropOrders, SetToSeqs
<1>3. order \in Seq(S) /\ DOMAIN order = 1..n
  BY <1>2
<1>4. PICK T \in SUBSET S : T = {order[i] : i \in 1..n}
  BY <1>2
<1>5. IsFiniteSet(T)
  BY FS_Subset
<1>6. PICK D : D = 1..n /\ IsFiniteSet(D) /\ Cardinality(D) = n
  BY FS_Interval
<1>7. Reorders(order, D, T)
  <2>1. order \in [D -> T]
    BY <1>2, <1>4, <1>6
  <2> QED BY <1>2, <1>4, <1>6, <2>1 DEF Reorders
<1>8. Cardinality(T) = n
  <2>1. D \in SUBSET D /\ T \in SUBSET T /\ \A i \in D : i \in D <=> order[i] \in T
    BY <1>7 DEF Reorders
  <2>2. IsFiniteSet(D)
    BY <1>6
  <2>3. Cardinality(D) = Cardinality(T)
    BY ONLY <1>7, <2>1, <2>2, SameCount
  <2> QED BY <1>6, <2>3
<1>9. T = S
  BY <1>1, <1>8, FS_Subset
<1> QED BY <1>2, <1>3, <1>4, <1>9 DEF Orders

\* One more at the end of an order.
LEMMA OrdersOneMore ==
    ASSUME NEW S, NEW order, Orders(order, S), NEW s, s \notin S
    PROVE  Orders(Append(order, s), S \cup {s})
<1>1. PICK n \in Nat : n = Len(order) /\ DOMAIN order = 1..n
  BY DEF Orders
<1>2. order \in Seq(S \cup {s})
  BY DEF Orders
<1>3. PICK T : T = S \cup {s} /\ s \in T
  OBVIOUS
<1>4. PICK q : q = Append(order, s)
  OBVIOUS
<1>5. q \in Seq(T) /\ Len(q) = n + 1 /\ q[n + 1] = s /\ \A i \in 1..n : q[i] = order[i]
  BY <1>1, <1>2, <1>3, <1>4
<1>6. DOMAIN q = 1..(n + 1) /\ n + 1 \in 1..(n + 1) /\ \A i \in 1..(n + 1) : i = n + 1 \/ i \in 1..n
  BY <1>5
<1>7. \A i \in 1..n : order[i] \in S /\ i \in 1..(n + 1)
  BY <1>1 DEF Orders
<1>8. \A i, j \in DOMAIN q : q[i] = q[j] => i = j
  <2> SUFFICES ASSUME NEW i \in 1..(n + 1), NEW j \in 1..(n + 1), q[i] = q[j] PROVE i = j
    BY <1>6
  <2>1. CASE i = n + 1 /\ j = n + 1
    BY <2>1
  <2>2. CASE i = n + 1 /\ j # n + 1
    BY <1>5, <1>6, <1>7, <2>2
  <2>3. CASE i # n + 1 /\ j = n + 1
    BY <1>5, <1>6, <1>7, <2>3
  <2>4. CASE i # n + 1 /\ j # n + 1
    BY <1>1, <1>5, <1>6, <2>4 DEF Orders
  <2> QED BY <2>1, <2>2, <2>3, <2>4
<1>9. \A x \in T : \E i \in DOMAIN q : q[i] = x
  <2> SUFFICES ASSUME NEW x \in T PROVE \E i \in DOMAIN q : q[i] = x
    OBVIOUS
  <2>1. CASE x = s
    BY <1>5, <1>6, <2>1
  <2>2. CASE x \in S
    <3>1. PICK i \in 1..n : order[i] = x
      BY <1>1, <2>2 DEF Orders
    <3> QED BY <1>5, <1>6, <1>7, <3>1
  <2> QED BY <1>3, <2>1, <2>2
<1> QED BY <1>3, <1>4, <1>5, <1>8, <1>9 DEF Orders

\* Steps end with all that is inside them.
OpenStepsNest == \A s \in Open : steps[s].parent \in Open \cup {0}

Closes(C) == C \in SUBSET Open /\ \A u \in Open : steps[u].parent \in C => u \in C

\* The steps around an open step are open.
LEMMA AroundOpen ==
    ASSUME StepsTyped, OpenStepsNest, NEW s \in Open
    PROVE  Around(s) \subseteq Open
<1>0. Open \in SUBSET Nat
  BY DEF Open, StepsTyped
<1> DEFINE Wrong == {u \in Open : ~(Around(u) \subseteq Open)}
<1>1. Wrong = {}
  <2> SUFFICES ASSUME Wrong # {} PROVE FALSE
    OBVIOUS
  <2>1. PICK u \in Wrong : \A v \in Wrong : u <= v
    <3>1. Wrong \in SUBSET Nat
      BY <1>0
    <3> HIDE DEF Wrong
    <3> QED BY <3>1, LeastNumber
  <2>2. PICK p : p = steps[u].parent /\ p \in Open \cup {0}
    BY DEF OpenStepsNest
  <2>3. Around(u) = {u} \cup Around(p) /\ Around(0) = {}
    BY <2>2, AroundStep DEF Open
  <2>4. p < u
    BY <2>2 DEF StepsTyped, Open
  <2>5. Around(p) \subseteq Open
    <3>1. CASE p = 0
      BY <2>3, <3>1
    <3>2. CASE p \in Open
      <4>1. ~(u <= p)
        BY <1>0, <2>4, <3>2
      <4> QED BY <2>1, <3>2, <4>1
    <3> QED BY <2>2, <3>1, <3>2
  <2> QED BY <2>3, <2>5
<1> QED BY <1>1

\* A step ends with all that is inside it.
LEMMA InsideCloses ==
    ASSUME StepsTyped, OpenStepsNest, NEW s \in Open
    PROVE  Closes(Inside(s) \cup {s}) /\ s \notin Inside(s)
<1>0. s \in DOMAIN steps /\ s # 0 /\ \A u \in Open : u \in DOMAIN steps /\ u # 0
  BY DEF Open, StepsTyped
<1>1. \A u \in Open : u \in Inside(s) \cup {s} <=> s \in Around(u)
  <2>1. s \in Around(s)
    BY <1>0, AroundStep
  <2> QED BY <1>0, <2>1 DEF Inside
<1>2. \A u \in Open : s \in Around(steps[u].parent) => s \in Around(u)
  BY <1>0, AroundStep
<1>3. Inside(s) \cup {s} \in SUBSET Open /\ s \notin Inside(s)
  BY DEF Inside
<1>4. ASSUME NEW u \in Open, steps[u].parent \in Inside(s) \cup {s}
      PROVE  u \in Inside(s) \cup {s}
  BY <1>1, <1>2, <1>3, <1>4
<1> QED BY <1>3, <1>4 DEF Closes

\* What a step of the test ends, and in which order it is recorded.
Ending(order, C, over) ==
    /\ Orders(order, C) /\ Closes(C) /\ RecordSteps(order, over)
    /\ clock' = clock /\ body = "running"
    /\ \/ UNCHANGED <<body, run, ended>>
       \/ C = Open /\ run'.steps = stats' /\ run'.recent = RecentSteps(log') /\ body' = "quitting"

\* Finitely many steps are open.
LEMMA OpenIsFinite == StepsTyped => IsFiniteSet(Open)
<1> SUFFICES ASSUME StepsTyped PROVE IsFiniteSet(Open)
  OBVIOUS
<1>1. PICK n, D : n \in Nat /\ n = Len(steps) /\ D = 1..n /\ DOMAIN steps = D
  BY DEF StepsTyped
<1>2. IsFiniteSet(D)
  BY <1>1, FS_Interval
<1>3. Open \in SUBSET D
  BY <1>1 DEF Open
<1> QED BY <1>2, <1>3, FS_Subset

\* The body ends with all open steps, and nothing may end alone.
LEMMA AllCloses == Closes(Open) /\ Closes({}) /\ Inside(0) = Open \ {0}
BY DEF Closes, Inside

\* The statistics and the log of a recorder.
Tallies == [StepKinds -> [count : Nat, total : Nat, max : Nat]]
Events == [step : Nat, started : Nat, duration : Nat, finished : BOOLEAN]
Logs == {l \in [events : Seq(Events), total : Nat] : Len(l.events) <= RecentStepCount}

Counting(all, events) == FoldLeft(CountEvent, all, events)
Logging(l, events) == FoldLeft(PushEvent, l, events)

\* The events of n steps, and what is counted and logged after each of them.
AreEvents(events, n) ==
    DOMAIN events = 1..n /\ \A i \in 1..n : events[i] \in Events /\ events[i].step \in DOMAIN steps

IsCounting(r, n, base, events) ==
    /\ r[0] = base /\ \A i \in 0..n : r[i] \in Tallies
    /\ \A i \in 1..n : r[i] = CountEvent(r[i - 1], events[i])
    /\ Counting(base, events) = r[n]

IsLogging(r, n, base, events) ==
    /\ r[0] = base /\ \A i \in 0..n : r[i] \in Logs
    /\ \A i \in 1..n : r[i] = PushEvent(r[i - 1], events[i])
    /\ Logging(base, events) = r[n]

\* Counting an event (StepStats::record) keeps statistics.
LEMMA CountsAnEvent ==
    ASSUME StepsTyped, NEW all \in Tallies, NEW e \in Events, e.step \in DOMAIN steps
    PROVE  CountEvent(all, e) \in Tallies
<1>1. PICK k \in StepKinds : k = steps[e.step].kind
  <2>1. steps \in Seq(StepRecords)
    BY DEF StepsTyped
  <2>2. steps[e.step] \in StepRecords
    BY <2>1, ElementOfSeq
  <2> QED BY <2>2 DEF StepRecords
<1>2. PICK c, t, m \in Nat : all[k] = [count |-> c, total |-> t, max |-> m]
  <2>1. all[k] \in [count : Nat, total : Nat, max : Nat]
    BY DEF Tallies
  <2>2. all[k] = [count |-> all[k].count, total |-> all[k].total, max |-> all[k].max]
    BY <2>1
  <2> QED BY <2>1, <2>2
<1>3. PICK d \in Nat : d = e.duration
  BY DEF Events
<1>4. Max({m, d}) \in Nat
  BY DEF Max
<1>5. RecordDuration(all[k], d) \in [count : Nat, total : Nat, max : Nat]
  BY <1>2, <1>3, <1>4 DEF RecordDuration
<1>6. CountEvent(all, e) = [all EXCEPT ![k] = RecordDuration(all[k], d)]
  BY <1>1, <1>3 DEF CountEvent
<1> QED BY <1>5, <1>6 DEF Tallies

\* Pushing an event (StepLog::push) never exceeds the bound of the log.
LEMMA PushesAnEvent ==
    ASSUME NEW l \in Logs, NEW e \in Events
    PROVE  PushEvent(l, e) \in Logs
<1>1. PICK q \in Seq(Events), n \in Nat : q = l.events /\ n = l.total /\ Len(q) <= RecentStepCount
  BY DEF Logs
<1>2. RecentStepCount \in Nat /\ RecentStepCount # 0
  BY BodyAssumption
<1>3. PICK p : p = (IF Len(q) = RecentStepCount THEN Tail(q) ELSE q)
  OBVIOUS
<1>4. p \in Seq(Events) /\ Len(p) + 1 <= RecentStepCount
  <2>1. CASE Len(q) = RecentStepCount
    <3>1. q # <<>>
      BY <1>2, <2>1
    <3>2. Tail(q) \in Seq(Events) /\ Len(Tail(q)) = Len(q) - 1
      BY <3>1
    <3> QED BY <1>2, <1>3, <2>1, <3>2
  <2>2. CASE Len(q) # RecentStepCount
    BY <1>1, <1>2, <1>3, <2>2
  <2> QED BY <2>1, <2>2
<1>5. Append(p, e) \in Seq(Events) /\ Len(Append(p, e)) = Len(p) + 1
  BY <1>4
<1>6. PushEvent(l, e) = [events |-> Append(p, e), total |-> n + 1]
  BY <1>1, <1>3 DEF PushEvent
<1> QED BY <1>1, <1>4, <1>5, <1>6 DEF Logs

\* What the statistics are after each step that is recorded.
LEMMA CountsOneByOne ==
    ASSUME StepsTyped, NEW base \in Tallies, NEW n \in Nat, NEW s, AreEvents(s, n)
    PROVE  \E r : IsCounting(r, n, base, s)
<1>0. DOMAIN s = 1..n /\ \A i \in 1..n : s[i] \in Events /\ s[i].step \in DOMAIN steps
  BY DEF AreEvents
<1> DEFINE D == 1..n
           F == [i \in D |-> [x \in Tallies |-> CountEvent(x, s[i])]]
           c == ChosenLast(n)
           Is(k) == k = [T \in SUBSET D |->
                            IF T = {} THEN base ELSE CountEvent(k[T \ {Max(T)}], s[Max(T)])]
<1>1. /\ IsFiniteSet(D)
      /\ \A T \in SUBSET D : T # {} => Max(T) \in T /\ c[T] = Max(T)
      /\ \A i \in D : Max(1..i) = i /\ (1..i) \ {i} = 1..(i - 1) /\ 1..i \in SUBSET D
  BY LastOfChosen
<1>2. CanFold(D, Tallies, base, F, c)
  <2>1. base \in Tallies
    OBVIOUS
  <2>2. \A x \in Tallies, i \in D : CountEvent(x, s[i]) \in Tallies
    BY <1>0, CountsAnEvent
  <2>3. F \in [D -> [Tallies -> Tallies]]
    BY <2>2
  <2> HIDE DEF F, D, c
  <2> QED BY <1>1, <2>1, <2>3 DEF CanFold
<1>3. \A i \in D, x \in Tallies : F[i][x] = CountEvent(x, s[i])
  OBVIOUS
<1> HIDE DEF D, F, c
<1>4. PICK g : IsFold(g, D, Tallies, base, F, c)
  BY ONLY <1>2, SubsetRecursion
<1>5. Is(g)
  <2>1. ASSUME NEW T \in SUBSET D, T # {} PROVE g[T] = CountEvent(g[T \ {Max(T)}], s[Max(T)])
    <3>1. Max(T) \in D /\ c[T] = Max(T) /\ g[T \ {Max(T)}] \in Tallies
      BY <1>1, <1>4, <2>1 DEF IsFold
    <3> QED BY <1>3, <1>4, <2>1, <3>1 DEF IsFold
  <2> QED BY <1>4, <2>1 DEF IsFold
<1>6. PICK k : k = (CHOOSE q : Is(q)) /\ Is(k)
  <2> HIDE DEF Is
  <2> QED BY <1>5
<1>7. Counting(base, s) = k[D]
  BY <1>0, <1>6 DEF Counting, FoldLeft, MapThenFoldSet, D
<1>8. k[{}] = base /\ \A i \in D : k[1..i] = CountEvent(k[1..(i - 1)], s[i])
  <2>1. k[{}] = base
    BY <1>6
  <2>2. ASSUME NEW i \in D PROVE k[1..i] = CountEvent(k[1..(i - 1)], s[i])
    <3>1. PICK T \in SUBSET D : T = 1..i /\ T # {} /\ Max(T) = i /\ T \ {i} = 1..(i - 1)
      <4>1. i \in 1..n /\ 1 \in 1..i
        BY DEF D
      <4> QED BY <1>1, <4>1
    <3>2. k[T] = CountEvent(k[T \ {i}], s[i])
      BY <1>6, <3>1
    <3> QED BY <3>1, <3>2
  <2> QED BY <2>1, <2>2
<1>9. PICK r : r = [i \in 0..n |-> k[1..i]]
  OBVIOUS
<1>10. r[0] = base /\ r[n] = k[D]
  <2>1. 1..0 = {}
    OBVIOUS
  <2> QED BY <1>8, <1>9, <2>1 DEF D
<1>11. \A i \in 1..n : r[i] = CountEvent(r[i - 1], s[i])
  <2> SUFFICES ASSUME NEW i \in 1..n PROVE r[i] = CountEvent(r[i - 1], s[i])
    OBVIOUS
  <2>1. r[i] = k[1..i] /\ r[i - 1] = k[1..(i - 1)]
    BY <1>9
  <2> QED BY <1>8, <2>1 DEF D
<1>12. \A i \in 0..n : r[i] \in Tallies
  <2> DEFINE I == {i \in Nat : i <= n => r[i] \in Tallies}
  <2>1. 0 \in I
    BY <1>10
  <2>2. ASSUME NEW m \in Nat, m \in I PROVE m + 1 \in I
    <3> SUFFICES ASSUME m + 1 <= n PROVE r[m + 1] \in Tallies
      OBVIOUS
    <3>1. PICK i \in 1..n : i = m + 1 /\ i - 1 = m /\ r[i - 1] \in Tallies
      BY <2>2
    <3> QED BY <1>0, <1>11, <3>1, CountsAnEvent
  <2>3. Nat \subseteq I
    <3> HIDE DEF I
    <3> QED BY <2>1, <2>2, NumberInduction
  <2> QED BY <2>3
<1> QED BY <1>7, <1>10, <1>11, <1>12 DEF IsCounting

\* What the log is after each step that is recorded.
LEMMA PushesOneByOne ==
    ASSUME NEW base \in Logs, NEW n \in Nat, NEW s, AreEvents(s, n)
    PROVE  \E r : IsLogging(r, n, base, s)
<1>0. DOMAIN s = 1..n /\ \A i \in 1..n : s[i] \in Events
  BY DEF AreEvents
<1> DEFINE D == 1..n
           F == [i \in D |-> [x \in Logs |-> PushEvent(x, s[i])]]
           c == ChosenLast(n)
           Is(k) == k = [T \in SUBSET D |->
                            IF T = {} THEN base ELSE PushEvent(k[T \ {Max(T)}], s[Max(T)])]
<1>1. /\ IsFiniteSet(D)
      /\ \A T \in SUBSET D : T # {} => Max(T) \in T /\ c[T] = Max(T)
      /\ \A i \in D : Max(1..i) = i /\ (1..i) \ {i} = 1..(i - 1) /\ 1..i \in SUBSET D
  BY LastOfChosen
<1>2. CanFold(D, Logs, base, F, c)
  <2>1. base \in Logs
    OBVIOUS
  <2>2. \A x \in Logs, i \in D : PushEvent(x, s[i]) \in Logs
    BY <1>0, PushesAnEvent
  <2>3. F \in [D -> [Logs -> Logs]]
    BY <2>2
  <2> HIDE DEF F, D, c
  <2> QED BY <1>1, <2>1, <2>3 DEF CanFold
<1>3. \A i \in D, x \in Logs : F[i][x] = PushEvent(x, s[i])
  OBVIOUS
<1> HIDE DEF D, F, c
<1>4. PICK g : IsFold(g, D, Logs, base, F, c)
  BY ONLY <1>2, SubsetRecursion
<1>5. Is(g)
  <2>1. ASSUME NEW T \in SUBSET D, T # {} PROVE g[T] = PushEvent(g[T \ {Max(T)}], s[Max(T)])
    <3>1. Max(T) \in D /\ c[T] = Max(T) /\ g[T \ {Max(T)}] \in Logs
      BY <1>1, <1>4, <2>1 DEF IsFold
    <3> QED BY <1>3, <1>4, <2>1, <3>1 DEF IsFold
  <2> QED BY <1>4, <2>1 DEF IsFold
<1>6. PICK k : k = (CHOOSE q : Is(q)) /\ Is(k)
  <2> HIDE DEF Is
  <2> QED BY <1>5
<1>7. Logging(base, s) = k[D]
  BY <1>0, <1>6 DEF Logging, FoldLeft, MapThenFoldSet, D
<1>8. k[{}] = base /\ \A i \in D : k[1..i] = PushEvent(k[1..(i - 1)], s[i])
  <2>1. k[{}] = base
    BY <1>6
  <2>2. ASSUME NEW i \in D PROVE k[1..i] = PushEvent(k[1..(i - 1)], s[i])
    <3>1. PICK T \in SUBSET D : T = 1..i /\ T # {} /\ Max(T) = i /\ T \ {i} = 1..(i - 1)
      <4>1. i \in 1..n /\ 1 \in 1..i
        BY DEF D
      <4> QED BY <1>1, <4>1
    <3>2. k[T] = PushEvent(k[T \ {i}], s[i])
      BY <1>6, <3>1
    <3> QED BY <3>1, <3>2
  <2> QED BY <2>1, <2>2
<1>9. PICK r : r = [i \in 0..n |-> k[1..i]]
  OBVIOUS
<1>10. r[0] = base /\ r[n] = k[D]
  <2>1. 1..0 = {}
    OBVIOUS
  <2> QED BY <1>8, <1>9, <2>1 DEF D
<1>11. \A i \in 1..n : r[i] = PushEvent(r[i - 1], s[i])
  <2> SUFFICES ASSUME NEW i \in 1..n PROVE r[i] = PushEvent(r[i - 1], s[i])
    OBVIOUS
  <2>1. r[i] = k[1..i] /\ r[i - 1] = k[1..(i - 1)]
    BY <1>9
  <2> QED BY <1>8, <2>1 DEF D
<1>12. \A i \in 0..n : r[i] \in Logs
  <2> DEFINE I == {i \in Nat : i <= n => r[i] \in Logs}
  <2>1. 0 \in I
    BY <1>10
  <2>2. ASSUME NEW m \in Nat, m \in I PROVE m + 1 \in I
    <3> SUFFICES ASSUME m + 1 <= n PROVE r[m + 1] \in Logs
      OBVIOUS
    <3>1. PICK i \in 1..n : i = m + 1 /\ i - 1 = m /\ r[i - 1] \in Logs
      BY <2>2
    <3> QED BY <1>0, <1>11, <3>1, PushesAnEvent
  <2>3. Nat \subseteq I
    <3> HIDE DEF I
    <3> QED BY <2>1, <2>2, NumberInduction
  <2> QED BY <2>3
<1> QED BY <1>7, <1>10, <1>11, <1>12 DEF IsLogging

\* What the steps of E, which lasted so long, add up to.
OfKind(kind, E, k) == {s \in E : kind[s] = k}

CountedOf(a, S, last) ==
    /\ a.count = Cardinality(S)
    /\ a.total = SumFunctionOnSet(last, S)
    /\ \A s \in S : last[s] <= a.max
    /\ a.max = 0 \/ \E s \in S : a.max = last[s]

Counted(all, E, kind, last) ==
    all \in Tallies /\ \A k \in StepKinds : CountedOf(all[k], OfKind(kind, E, k), last)

\* Two elements.
LEMMA PairIsFinite == \A x, y : IsFiniteSet({x, y})
<1> SUFFICES ASSUME NEW x, NEW y PROVE IsFiniteSet({x, y})
  OBVIOUS
<1>1. PICK S : S = {x} /\ IsFiniteSet(S)
  BY FS_Singleton
<1>2. {x, y} = S \cup {y}
  BY <1>1
<1> QED BY <1>1, <1>2, FS_AddElement

\* Recording the duration of one more step of a kind.
LEMMA RecordsOneMore ==
    ASSUME NEW a \in [count : Nat, total : Nat, max : Nat], NEW S, IsFiniteSet(S), NEW last,
           \A s \in S : last[s] \in Nat, CountedOf(a, S, last),
           NEW s, s \notin S, last[s] \in Nat
    PROVE  CountedOf(RecordDuration(a, last[s]), S \cup {s}, last)
<1>1. PICK d \in Nat : d = last[s]
  OBVIOUS
<1>2. PICK c, t, m \in Nat : a.count = c /\ a.total = t /\ a.max = m
  OBVIOUS
<1>3. PICK M, P : M = Max(P) /\ P = {m, d}
  OBVIOUS
<1>4. M \in {m, d} /\ m <= M /\ d <= M /\ M \in Nat
  <2>1. IsFiniteSet(P) /\ P \in SUBSET Int /\ P # {}
    <3>1. IsFiniteSet(P)
      BY <1>3, PairIsFinite
    <3> QED BY <1>3, <3>1
  <2>2. M \in P /\ \A y \in P : y <= M
    BY <1>3, <2>1, MaxFacts
  <2> QED BY <1>3, <2>2
<1>5. PICK b : b = RecordDuration(a, last[s])
  OBVIOUS
<1>6. b.count = c + 1 /\ b.total = t + d /\ b.max = M
  BY <1>1, <1>2, <1>3, <1>5 DEF RecordDuration
<1>7. Cardinality(S \cup {s}) = c + 1
  BY <1>2, FS_AddElement DEF CountedOf
<1>8. SumFunctionOnSet(last, S \cup {s}) = t + d
  <2>1. Summand(last, S) /\ last[s] \in Int
    BY DEF Summand
  <2>2. SumFunctionOnSet(last, S \cup {s}) = last[s] + SumFunctionOnSet(last, S)
    BY <2>1, SumInsert
  <2> QED BY <1>1, <1>2, <2>2 DEF CountedOf
<1>9. \A x \in S \cup {s} : last[x] <= M
  <2> SUFFICES ASSUME NEW x \in S, last[x] <= m PROVE last[x] <= M
    BY <1>1, <1>2, <1>4 DEF CountedOf
  <2> QED BY <1>4
<1>10. M = 0 \/ \E x \in S \cup {s} : M = last[x]
  <2>1. CASE M = m
    BY <1>2, <2>1 DEF CountedOf
  <2>2. CASE M = d
    BY <1>1, <2>2
  <2> QED BY <1>4, <2>1, <2>2
<1>11. CountedOf(b, S \cup {s}, last)
  BY <1>6, <1>7, <1>8, <1>9, <1>10 DEF CountedOf
<1> QED BY <1>5, <1>11

\* Counting one more step, of any kind.
LEMMA CountsOneMore ==
    ASSUME NEW N \in Nat, NEW kind \in [1..N -> StepKinds], NEW last \in [1..N -> Nat],
           NEW E \in SUBSET (1..N), NEW s \in (1..N) \ E, NEW all, Counted(all, E, kind, last)
    PROVE  Counted([all EXCEPT ![kind[s]] = RecordDuration(all[kind[s]], last[s])],
                   E \cup {s}, kind, last)
<1>1. PICK k \in StepKinds : k = kind[s]
  OBVIOUS
<1>2. all \in Tallies /\ \A j \in StepKinds : all[j] \in [count : Nat, total : Nat, max : Nat]
  BY DEF Counted, Tallies
<1>3. IsFiniteSet(E)
  <2>1. IsFiniteSet(1..N)
    BY FS_Interval
  <2> QED BY <2>1, FS_Subset
<1>4. \A j \in StepKinds : /\ IsFiniteSet(OfKind(kind, E, j)) /\ s \notin OfKind(kind, E, j)
                           /\ \A x \in OfKind(kind, E, j) : last[x] \in Nat
                           /\ CountedOf(all[j], OfKind(kind, E, j), last)
  <2> SUFFICES ASSUME NEW j \in StepKinds
               PROVE  IsFiniteSet(OfKind(kind, E, j)) /\ s \notin OfKind(kind, E, j)
                      /\ \A x \in OfKind(kind, E, j) : last[x] \in Nat
    BY DEF Counted
  <2>1. OfKind(kind, E, j) \in SUBSET E
    BY DEF OfKind
  <2> QED BY <1>3, <2>1, FS_Subset
<1>5. OfKind(kind, E \cup {s}, k) = OfKind(kind, E, k) \cup {s}
      /\ \A j \in StepKinds \ {k} : OfKind(kind, E \cup {s}, j) = OfKind(kind, E, j)
  BY <1>1 DEF OfKind
<1>6. PICK r : r = RecordDuration(all[k], last[s])
  OBVIOUS
<1>7. CountedOf(r, OfKind(kind, E \cup {s}, k), last)
  <2>1. last[s] \in Nat
    OBVIOUS
  <2>2. CountedOf(RecordDuration(all[k], last[s]), OfKind(kind, E, k) \cup {s}, last)
    BY <1>2, <1>4, <2>1, RecordsOneMore
  <2> QED BY <1>5, <1>6, <2>2
<1>8. r \in [count : Nat, total : Nat, max : Nat]
  <2>1. PICK a \in [count : Nat, total : Nat, max : Nat], d \in Nat : a = all[k] /\ d = last[s]
    BY <1>2
  <2>2. Max({a.max, d}) \in Nat
    <3>1. PICK P : P = {a.max, d}
      OBVIOUS
    <3>2. IsFiniteSet(P) /\ P \in SUBSET Int /\ P # {} /\ P \in SUBSET Nat
      <4>1. IsFiniteSet(P)
        BY <3>1, PairIsFinite
      <4>2. a.max \in Nat /\ d \in Nat
        BY <2>1
      <4> QED BY <3>1, <4>1, <4>2
    <3> QED BY <3>1, <3>2, MaxFacts
  <2> QED BY <1>6, <2>1, <2>2 DEF RecordDuration
<1>9. PICK new : new = [all EXCEPT ![k] = r]
  OBVIOUS
<1>10. new \in Tallies /\ new[k] = r /\ \A j \in StepKinds \ {k} : new[j] = all[j]
  BY <1>2, <1>8, <1>9 DEF Tallies
<1>11. \A j \in StepKinds : CountedOf(new[j], OfKind(kind, E \cup {s}, j), last)
  <2> SUFFICES ASSUME NEW j \in StepKinds PROVE CountedOf(new[j], OfKind(kind, E \cup {s}, j), last)
    OBVIOUS
  <2>1. CASE j = k
    BY <1>7, <1>10, <2>1
  <2>2. CASE j # k
    BY <1>4, <1>5, <1>10, <2>2
  <2> QED BY <2>1, <2>2
<1> QED BY <1>1, <1>6, <1>9, <1>10, <1>11 DEF Counted

\* The steps that ended last, of the first n of the order, with what is told of each.
LoggedLast(l, n, order, tell) ==
    /\ l \in Logs /\ l.total = n
    /\ Len(l.events) = IF n < RecentStepCount THEN n ELSE RecentStepCount
    /\ \A i \in 1..Len(l.events) : l.events[i] = tell[order[n - Len(l.events) + i]]

\* Logging one more event: with the log full, the oldest one is dropped.
LEMMA LogsOneMore ==
    ASSUME NEW l, NEW tell, NEW order, NEW n \in Nat, LoggedLast(l, n, order, tell),
           tell[order[n + 1]] \in Events
    PROVE  LoggedLast(PushEvent(l, tell[order[n + 1]]), n + 1, order, tell)
<1>1. PICK old \in Seq(Events) : old = l.events /\ n = l.total /\ Len(old) <= RecentStepCount
  BY DEF Logs, LoggedLast
<1>2. RecentStepCount \in Nat /\ RecentStepCount # 0
  BY BodyAssumption
<1>3. PICK x \in Events : x = tell[order[n + 1]]
  OBVIOUS
<1>4. PICK new : new = PushEvent(l, x)
  OBVIOUS
<1>5. new \in Logs
  BY <1>4, PushesAnEvent DEF LoggedLast
<1>6. PICK o \in Nat : o = Len(old)
  OBVIOUS
<1>15. o = IF n < RecentStepCount THEN n ELSE RecentStepCount
  BY <1>1, <1>6 DEF LoggedLast
<1>7. PICK p : p = (IF o = RecentStepCount THEN Tail(old) ELSE old)
  OBVIOUS
<1>8. new.events = Append(p, x) /\ new.total = n + 1
  BY <1>1, <1>4, <1>6, <1>7 DEF PushEvent
<1>9. PICK k \in {0, 1}, z \in Nat :
          /\ k = (IF o = RecentStepCount THEN 1 ELSE 0) /\ z = o - k
          /\ p \in Seq(Events) /\ Len(p) = z /\ \A i \in 1..z : p[i] = old[i + k]
  <2>1. CASE o = RecentStepCount
    <3>1. old # <<>>
      BY <1>2, <1>6, <2>1
    <3>2. /\ Tail(old) \in Seq(Events) /\ Len(Tail(old)) = o - 1 /\ o - 1 \in Nat
          /\ \A i \in 1..(o - 1) : Tail(old)[i] = old[i + 1]
      BY <1>6, <3>1
    <3> QED BY <1>7, <2>1, <3>2
  <2>2. CASE o # RecentStepCount
    <3>1. p = old /\ 0 \in {0, 1} /\ o - 0 = o /\ \A i \in 1..o : i + 0 = i
      BY <1>7, <2>2
    <3> QED BY <1>6, <2>2, <3>1
  <2> QED BY <2>1, <2>2
<1>10. PICK e : e = Append(p, x)
  OBVIOUS
<1>11. Len(e) = z + 1 /\ e[z + 1] = x /\ \A i \in 1..z : e[i] = p[i]
  BY <1>9, <1>10
<1>12. z + 1 = IF n + 1 < RecentStepCount THEN n + 1 ELSE RecentStepCount
  BY <1>2, <1>9, <1>15
<1>13. ASSUME NEW i \in 1..(z + 1)
       PROVE  e[i] = tell[order[n + 1 - (z + 1) + i]]
  <2>1. CASE i = z + 1
    BY <1>3, <1>11, <2>1
  <2>2. CASE i # z + 1
    <3>1. i \in 1..z /\ i + k \in 1..o /\ n + 1 - (z + 1) + i = n - o + (i + k)
      <4>1. k \in {0, 1} /\ z = o - k /\ i \in 1..(z + 1)
        BY <1>9
      <4> QED BY <2>2, <4>1
    <3>2. old[i + k] = tell[order[n - o + (i + k)]]
      BY <1>1, <1>6, <3>1 DEF LoggedLast
    <3> QED BY <1>9, <1>11, <3>1, <3>2
  <2> QED BY <2>1, <2>2
<1>16. PICK k1 : k1 = n + 1
  OBVIOUS
<1>14. LoggedLast(new, k1, order, tell)
  <2>1. new.events = e /\ new.total = k1 /\ Len(e) = z + 1
    BY <1>8, <1>10, <1>11, <1>16
  <2>2. Len(e) = IF k1 < RecentStepCount THEN k1 ELSE RecentStepCount
    BY <1>12, <1>16, <2>1
  <2>3. \A i \in 1..Len(e) : e[i] = tell[order[k1 - Len(e) + i]]
    BY <1>13, <1>16, <2>1
  <2> QED BY <1>5, <2>1, <2>2, <2>3, Zenon DEF LoggedLast
<1> QED BY <1>3, <1>4, <1>14, <1>16

\* The kinds, times and events of N steps, of which E ended before, and C end now.
Recordable(N, kind, last, tell, E, C) ==
    /\ N \in Nat /\ DOMAIN steps = 1..N
    /\ kind \in [1..N -> StepKinds] /\ last \in [1..N -> Nat] /\ tell \in [1..N -> Events]
    /\ \A s \in 1..N : kind[s] = steps[s].kind /\ tell[s].step = s /\ tell[s].duration = last[s]
    /\ E \in SUBSET (1..N) /\ C \in SUBSET ((1..N) \ E)

\* Recording steps one by one counts all of them.
LEMMA CountsAll ==
    ASSUME StepsTyped, NEW N, NEW kind, NEW last, NEW tell, NEW E, NEW C,
           Recordable(N, kind, last, tell, E, C), NEW order, Orders(order, C),
           NEW all, Counted(all, E, kind, last)
    PROVE  Counted(Counting(all, [i \in DOMAIN order |-> tell[order[i]]]), E \cup C, kind, last)
<1>0. /\ N \in Nat /\ DOMAIN steps = 1..N
      /\ kind \in [1..N -> StepKinds] /\ last \in [1..N -> Nat] /\ tell \in [1..N -> Events]
      /\ \A s \in 1..N : kind[s] = steps[s].kind /\ tell[s].step = s /\ tell[s].duration = last[s]
      /\ E \in SUBSET (1..N) /\ C \in SUBSET ((1..N) \ E)
  BY DEF Recordable
<1>1. PICK n \in Nat : DOMAIN order = 1..n /\ \A i \in 1..n : order[i] \in C
  <2>1. order \in Seq(C)
    BY DEF Orders
  <2> QED BY <2>1
<1>2. PICK events : events = [i \in DOMAIN order |-> tell[order[i]]]
  OBVIOUS
<1>3. DOMAIN events = 1..n /\ \A i \in 1..n : /\ events[i] \in Events /\ events[i] = tell[order[i]]
                                              /\ events[i].step = order[i] /\ order[i] \in DOMAIN steps
                                              /\ events[i].duration = last[order[i]]
                                              /\ order[i] \in 1..N
  <2>1. DOMAIN events = 1..n
    BY <1>1, <1>2
  <2>2. ASSUME NEW i \in 1..n
        PROVE  /\ events[i] \in Events /\ events[i] = tell[order[i]]
               /\ events[i].step = order[i] /\ order[i] \in DOMAIN steps
               /\ events[i].duration = last[order[i]] /\ order[i] \in 1..N
    <3>1. PICK s \in 1..N : s = order[i]
      BY <1>0, <1>1
    <3> QED BY <1>0, <1>1, <1>2, <3>1
  <2> QED BY <2>1, <2>2
<1>4. PICK r : IsCounting(r, n, all, events)
  <2>1. all \in Tallies
    BY DEF Counted
  <2>2. AreEvents(events, n)
    BY <1>3 DEF AreEvents
  <2> QED BY <2>1, <2>2, CountsOneByOne
<1>10. /\ r[0] = all /\ Counting(all, events) = r[n]
       /\ \A i \in 1..n : r[i] = CountEvent(r[i - 1], events[i])
  BY <1>4 DEF IsCounting
<1> DEFINE Done(i) == E \cup {order[j] : j \in 1..i}
           I == {i \in Nat : i <= n => Counted(r[i], Done(i), kind, last)}
<1>5. 0 \in I
  <2>1. 1..0 = {}
    OBVIOUS
  <2>2. Done(0) = E
    BY <2>1
  <2> HIDE DEF Done
  <2> QED BY <1>10, <2>2
<1>6. ASSUME NEW m \in Nat, m \in I PROVE m + 1 \in I
  <2> SUFFICES ASSUME m + 1 <= n PROVE Counted(r[m + 1], Done(m + 1), kind, last)
    OBVIOUS
  <2>1. PICK i \in 1..n : i = m + 1 /\ i - 1 = m
    OBVIOUS
  <2>2. PICK s \in (1..N) \ Done(m) : s = order[i]
    <3>1. order[i] \in (1..N) \ E
      BY <1>0, <1>1
    <3>2. \A j \in 1..m : order[j] # order[i]
      <4> SUFFICES ASSUME NEW j \in 1..m PROVE order[j] # order[i]
        OBVIOUS
      <4>1. j \in DOMAIN order /\ i \in DOMAIN order /\ j # i
        BY <1>1, <2>1
      <4> QED BY <4>1 DEF Orders
    <3> QED BY <3>1, <3>2
  <2>3. Done(i) = Done(m) \cup {s} /\ Done(m) \in SUBSET (1..N)
    <3>1. 1..i = 1..m \cup {i}
      BY <2>1
    <3>2. \A j \in 1..m : j \in 1..n
      BY <2>1
    <3>3. Done(i) = Done(m) \cup {s}
      <4>1. PICK J, K : J = 1..m /\ K = 1..i /\ K = J \cup {i}
        BY <3>1
      <4>2. {order[j] : j \in K} = {order[j] : j \in J} \cup {order[i]}
        <5>1. \A j \in K : j \in J \/ j = i
          BY <4>1
        <5>2. i \in K /\ \A j \in J : j \in K
          BY <4>1
        <5> QED BY ONLY <5>1, <5>2
      <4> QED BY <2>2, <4>1, <4>2
    <3>4. \A j \in 1..m : order[j] \in 1..N
      BY <1>3, <3>2
    <3>5. {order[j] : j \in 1..m} \in SUBSET (1..N)
      BY <3>4
    <3> QED BY <1>0, <3>3, <3>5
  <2> HIDE DEF Done
  <2>4. PICK a, D : a = r[m] /\ D = Done(m)
    OBVIOUS
  <2>5. D \in SUBSET (1..N) /\ s \in (1..N) \ D /\ Counted(a, D, kind, last)
    BY <1>6, <2>1, <2>2, <2>3, <2>4
  <2>6. Counted([a EXCEPT ![kind[s]] = RecordDuration(a[kind[s]], last[s])], D \cup {s}, kind, last)
    BY <1>0, <2>5, CountsOneMore
  <2>7. r[i] = [a EXCEPT ![kind[s]] = RecordDuration(a[kind[s]], last[s])]
    <3>1. r[i] = CountEvent(a, events[i])
      BY <1>10, <2>1, <2>4
    <3>2. PICK e : e = events[i] /\ e.step = s /\ e.duration = last[s] /\ steps[e.step].kind = kind[s]
      BY <1>0, <1>3, <2>1, <2>2
    <3>3. CountEvent(a, e) = [a EXCEPT ![kind[s]] = RecordDuration(a[kind[s]], last[s])]
      BY <3>2 DEF CountEvent
    <3> QED BY <3>1, <3>2, <3>3
  <2>8. Counted(r[i], Done(i), kind, last)
    BY <2>3, <2>4, <2>6, <2>7
  <2> QED BY <2>1, <2>8
<1>7. Nat \subseteq I
  <2> HIDE DEF I
  <2> QED BY <1>5, <1>6, NumberInduction
<1>8. Done(n) = E \cup C
  <2>1. \A s \in C : \E j \in 1..n : order[j] = s
    BY <1>1 DEF Orders
  <2>2. \A j \in 1..n : order[j] \in C
    BY <1>1
  <2>3. C = {order[j] : j \in 1..n}
    BY <2>1, <2>2
  <2> QED BY <2>3
<1> HIDE DEF Done
<1>9. Counted(r[n], Done(n), kind, last)
  BY <1>7
<1> QED BY <1>2, <1>10, <1>8, <1>9

\* Recording steps one by one leaves the last of them in the log.
LEMMA LogsAll ==
    ASSUME NEW X \in SUBSET DOMAIN steps, NEW tell \in [X -> Events], \A s \in X : tell[s].step = s, NEW q \in Seq(X), NEW order \in Seq(X),
           NEW l, LoggedLast(l, Len(q), q, tell)
    PROVE  LET new == Logging(l, [i \in DOMAIN order |-> tell[order[i]]])
           IN  LoggedLast(new, Len(q \o order), q \o order, tell)
<1>1. PICK n, m \in Nat : n = Len(order) /\ m = Len(q)
  OBVIOUS
<1>2. PICK w \in Seq(X) : /\ w = q \o order /\ Len(w) = m + n
                          /\ \A i \in 1..m : w[i] = q[i]
                          /\ \A i \in 1..n : w[m + i] = order[i]
  <2>1. q \o order \in Seq(X) /\ Len(q \o order) = m + n
    BY <1>1
  <2>2. \A i \in 1..m : (q \o order)[i] = q[i]
    BY <1>1
  <2>3. \A i \in 1..n : (q \o order)[m + i] = order[i]
    BY <1>1
  <2> QED BY <2>1, <2>2, <2>3
<1>3. PICK events : events = [i \in DOMAIN order |-> tell[order[i]]]
  OBVIOUS
<1>4. DOMAIN events = 1..n /\ \A i \in 1..n : events[i] \in Events /\ events[i] = tell[order[i]]
  <2>1. \A i \in 1..n : order[i] \in X
    BY <1>1
  <2> QED BY <1>1, <1>3, <2>1
<1>5. LoggedLast(l, m, w, tell)
  <2>1. Len(l.events) \in Nat /\ Len(l.events) <= m
    <3>1. PICK old \in Seq(Events) : old = l.events /\ Len(old) = IF m < RecentStepCount THEN m ELSE RecentStepCount
      BY <1>1 DEF LoggedLast, Logs
    <3> QED BY <3>1, BodyAssumption
  <2>2. \A i \in 1..Len(l.events) : m - Len(l.events) + i \in 1..m
    BY <2>1
  <2> QED BY <1>1, <1>2, <2>2 DEF LoggedLast
<1>6. PICK r : IsLogging(r, n, l, events)
  <2>1. l \in Logs
    BY DEF LoggedLast
  <2>2. AreEvents(events, n)
    <3>1. \A i \in 1..n : order[i] \in X
      BY <1>1
    <3> QED BY <1>4, <3>1 DEF AreEvents
  <2> QED BY <2>1, <2>2, PushesOneByOne
<1>11. /\ r[0] = l /\ Logging(l, events) = r[n]
       /\ \A i \in 1..n : r[i] = PushEvent(r[i - 1], events[i])
  BY <1>6 DEF IsLogging
<1> DEFINE I == {i \in Nat : i <= n => LoggedLast(r[i], m + i, w, tell)}
<1>7. 0 \in I
  BY <1>5, <1>11
<1>8. ASSUME NEW j \in Nat, j \in I PROVE j + 1 \in I
  <2> SUFFICES ASSUME j + 1 <= n PROVE LoggedLast(r[j + 1], m + (j + 1), w, tell)
    OBVIOUS
  <2>1. PICK i \in 1..n, k \in Nat : i = j + 1 /\ i - 1 = j /\ k = m + j /\ m + i = k + 1
    OBVIOUS
  <2>2. PICK old : old = r[j] /\ LoggedLast(old, k, w, tell)
    BY <1>8, <2>1
  <2>3. tell[w[k + 1]] = events[i] /\ tell[w[k + 1]] \in Events
    <3>1. w[m + i] = order[i]
      BY <1>2
    <3>2. events[i] \in Events /\ events[i] = tell[order[i]]
      BY <1>4
    <3> QED BY <2>1, <3>1, <3>2
  <2>4. LoggedLast(PushEvent(old, tell[w[k + 1]]), k + 1, w, tell)
    BY ONLY k \in Nat, <2>2, <2>3, LogsOneMore
  <2>5. r[i] = PushEvent(old, tell[w[k + 1]])
    BY <1>11, <2>1, <2>2, <2>3
  <2> QED BY <2>1, <2>4, <2>5
<1>9. Nat \subseteq I
  <2> HIDE DEF I
  <2> QED BY <1>7, <1>8, NumberInduction
<1>10. LoggedLast(r[n], m + n, w, tell)
  BY <1>9
<1> QED BY <1>2, <1>3, <1>11, <1>10

StepsTimed ==
    /\ clock \in Nat
    /\ \A s \in DOMAIN steps : /\ steps[s].started <= clock
                               /\ steps[s].ended # None => steps[s].started <= steps[s].ended

Over == DOMAIN steps \ Open

KindOf == [s \in DOMAIN steps |-> steps[s].kind]

\* How long each step that ended lasted, and what its event tells.
Lasting == [s \in DOMAIN steps |-> IF steps[s].ended = None THEN 0 ELSE steps[s].ended - steps[s].started]
EventsOf == [s \in DOMAIN steps |-> [step |-> s, started |-> steps[s].started,
                                     duration |-> Lasting[s], finished |-> steps[s].finished]]

Nested == StepsTyped /\ StepsTimed /\ OpenStepsNest

\* What recording the steps C changes, and what it leaves.
Recorded(order, C) ==
    /\ DOMAIN steps' = DOMAIN steps /\ Open' = Open \ C /\ KindOf' = KindOf
    /\ \A s \in Over : Lasting'[s] = Lasting[s] /\ EventsOf'[s] = EventsOf[s]
    /\ stats' = Counting(stats, [i \in DOMAIN order |-> EventsOf'[order[i]]])
    /\ log' = Logging(log, [i \in DOMAIN order |-> EventsOf'[order[i]]])
    /\ ends' = ends \o order

\* What a step is.
LEMMA TypedSteps ==
    ASSUME StepsTyped
    PROVE  /\ Len(steps) \in Nat /\ DOMAIN steps = 1..Len(steps) /\ Open \in SUBSET DOMAIN steps
           /\ \A s \in DOMAIN steps :
                 /\ steps[s] \in StepRecords /\ steps[s].kind \in StepKinds /\ steps[s].parent \in 0..(s - 1)
                 /\ steps[s].started \in Nat /\ steps[s].ended \in Nat \cup {None}
                 /\ steps[s].finished \in BOOLEAN
<1>1. steps \in Seq(StepRecords)
  BY DEF StepsTyped
<1>2. \A s \in DOMAIN steps : steps[s] \in StepRecords
  BY <1>1, ElementOfSeq
<1>3. Len(steps) \in Nat /\ DOMAIN steps = 1..Len(steps)
  BY <1>1
<1>4. \A r \in StepRecords : /\ r.kind \in StepKinds /\ r.started \in Nat /\ r.ended \in Nat \cup {None}
                             /\ r.finished \in BOOLEAN
  BY DEF StepRecords
<1>5. \A s \in DOMAIN steps : steps[s].parent \in 0..(s - 1)
  BY DEF StepsTyped
<1>6. Open \in SUBSET DOMAIN steps
  BY DEF Open
<1> QED BY <1>2, <1>3, <1>4, <1>5, <1>6

\* A step never ends before it started.
LEMMA LastingTyped ==
    ASSUME StepsTyped, StepsTimed
    PROVE  /\ \A s \in DOMAIN steps : Lasting[s] \in Nat /\ EventsOf[s] \in Events
                                      /\ EventsOf[s].step = s /\ EventsOf[s].duration = Lasting[s]
           /\ DOMAIN Lasting = DOMAIN steps /\ DOMAIN EventsOf = DOMAIN steps /\ DOMAIN KindOf = DOMAIN steps
<1> SUFFICES ASSUME NEW s \in DOMAIN steps
             PROVE  /\ Lasting[s] \in Nat /\ EventsOf[s] \in Events
                    /\ EventsOf[s].step = s /\ EventsOf[s].duration = Lasting[s]
  BY DEF Lasting, EventsOf, KindOf
<1>1. PICK a, e : a \in Nat /\ a = steps[s].started /\ e = steps[s].ended /\ e \in Nat \cup {None}
  BY TypedSteps
<1>2. Lasting[s] \in Nat
  <2>1. Lasting[s] = IF e = None THEN 0 ELSE e - a
    BY <1>1 DEF Lasting
  <2>2. e # None => a <= e
    BY <1>1 DEF StepsTimed
  <2> QED BY <1>1, <2>1, <2>2
<1>3. s \in Nat
  BY TypedSteps
<1>4. EventsOf[s] = [step |-> s, started |-> a, duration |-> Lasting[s], finished |-> steps[s].finished]
  BY <1>1 DEF EventsOf
<1>5. steps[s].finished \in BOOLEAN
  BY TypedSteps
<1> QED BY <1>1, <1>2, <1>3, <1>4, <1>5 DEF Events

\* Recording steps ends them, and leaves those that ended before as they are.
LEMMA RecordsSteps ==
    ASSUME Nested, NEW C, Closes(C), NEW order, Orders(order, C), NEW fin, RecordSteps(order, fin),
           clock' = clock
    PROVE  Nested' /\ Recorded(order, C)
<1>0. StepsTyped /\ StepsTimed /\ OpenStepsNest
  BY DEF Nested
<1>1. PICK N \in Nat : DOMAIN steps = 1..N
  BY <1>0, TypedSteps
<1>2. C \in SUBSET DOMAIN steps /\ C \in SUBSET Open
  BY DEF Closes, Open
<1>3. C = {order[i] : i \in DOMAIN order} /\ \A i \in DOMAIN order : order[i] \in C
  <2>1. \A i \in DOMAIN order : order[i] \in C
    BY ElementOfSeq DEF Orders
  <2> QED BY <2>1 DEF Orders
<1>4. PICK new : new = steps'
  OBVIOUS
<1>5. new = [s \in DOMAIN steps |->
                IF s \in C THEN [steps[s] EXCEPT !.ended = clock, !.finished = s \in fin] ELSE steps[s]]
  BY <1>3, <1>4 DEF RecordSteps
<1>6. DOMAIN new = DOMAIN steps /\ \A s \in DOMAIN steps \ C : new[s] = steps[s]
  BY <1>5
<1>7. ASSUME NEW s \in C
      PROVE  /\ new[s].kind = steps[s].kind /\ new[s].parent = steps[s].parent
             /\ new[s].started = steps[s].started /\ new[s].ended = clock /\ new[s].finished = (s \in fin)
             /\ new[s] \in StepRecords
  <2>1. PICK r \in StepRecords : r = steps[s]
    BY <1>0, <1>2, TypedSteps
  <2>2. new[s] = [r EXCEPT !.ended = clock, !.finished = s \in fin]
    BY <1>2, <1>5, <2>1
  <2>3. PICK b \in BOOLEAN : b = (s \in fin)
    <3>1. (s \in fin) \in BOOLEAN
      OBVIOUS
    <3> QED BY <3>1, Zenon
  <2>4. new[s] = [kind |-> r.kind, parent |-> r.parent, started |-> r.started, ended |-> clock, finished |-> b]
    BY <2>2, <2>3 DEF StepRecords
  <2>5. clock \in Nat
    BY <1>0 DEF StepsTimed
  <2>6. new[s] \in StepRecords
    BY <2>4, <2>5 DEF StepRecords
  <2> QED BY <2>1, <2>3, <2>4, <2>6
<1>8. clock \in Nat /\ clock # None
  BY <1>0, BodyAssumption DEF StepsTimed
<1>9. \A s \in DOMAIN steps : /\ new[s] \in StepRecords /\ new[s].kind = steps[s].kind
                              /\ new[s].parent = steps[s].parent /\ new[s].started = steps[s].started
  BY <1>0, <1>6, <1>7, TypedSteps
<1>10. StepsTyped'
  <2>1. new \in Seq(StepRecords)
    <3>1. new \in [1..N -> StepRecords]
      BY <1>1, <1>5, <1>6, <1>9
    <3> QED BY <3>1
  <2>2. \A s \in DOMAIN new : new[s].parent \in 0..(s - 1)
    BY <1>0, <1>6, <1>9, TypedSteps
  <2> QED BY <1>4, <2>1, <2>2 DEF StepsTyped
<1>11. StepsTimed'
  <2>1. \A s \in DOMAIN new : new[s].started <= clock /\ (new[s].ended # None => new[s].started <= new[s].ended)
    <3> SUFFICES ASSUME NEW s \in DOMAIN steps
                 PROVE  new[s].started <= clock /\ (new[s].ended # None => new[s].started <= new[s].ended)
      BY <1>6
    <3>1. steps[s].started <= clock /\ (steps[s].ended # None => steps[s].started <= steps[s].ended)
      BY <1>0 DEF StepsTimed
    <3>2. CASE s \in C
      BY <1>7, <3>1, <3>2
    <3>3. CASE s \notin C
      BY <1>6, <3>1, <3>3
    <3> QED BY <3>2, <3>3
  <2> QED BY <1>4, <1>8, <2>1 DEF StepsTimed
<1>12. PICK left : left = Open'
  OBVIOUS
<1>13. left = Open \ C
  <2>1. left = {s \in DOMAIN new : new[s].ended = None}
    BY <1>4, <1>12 DEF Open
  <2>2. \A s \in DOMAIN steps : new[s].ended = None <=> s \notin C /\ steps[s].ended = None
    BY <1>6, <1>7, <1>8
  <2> QED BY <1>6, <2>1, <2>2 DEF Open
<1>14. OpenStepsNest'
  <2>1. \A s \in left : new[s].parent \in left \cup {0}
    <3> SUFFICES ASSUME NEW s \in Open \ C PROVE new[s].parent \in (Open \ C) \cup {0}
      BY <1>13
    <3>1. s \in DOMAIN steps /\ new[s].parent = steps[s].parent
      BY <1>6 DEF Open
    <3>2. steps[s].parent \in Open \cup {0} /\ steps[s].parent \notin C
      BY <1>0 DEF OpenStepsNest, Closes
    <3> QED BY <3>1, <3>2
  <2> QED BY <1>4, <1>12, <2>1 DEF OpenStepsNest
<1>15. PICK k1, l1, e1 : k1 = KindOf' /\ l1 = Lasting' /\ e1 = EventsOf'
  OBVIOUS
<1>16. k1 = KindOf
  <2>1. k1 = [s \in DOMAIN new |-> new[s].kind]
    BY <1>4, <1>15 DEF KindOf
  <2> QED BY <1>6, <1>9, <2>1 DEF KindOf
<1>17. l1 = [s \in DOMAIN steps |-> IF new[s].ended = None THEN 0 ELSE new[s].ended - new[s].started]
  BY <1>4, <1>6, <1>15 DEF Lasting
<1>18. e1 = [s \in DOMAIN steps |-> [step |-> s, started |-> new[s].started,
                                     duration |-> l1[s], finished |-> new[s].finished]]
  BY <1>4, <1>6, <1>15 DEF EventsOf
<1>19. \A s \in DOMAIN steps \ Open : l1[s] = Lasting[s] /\ e1[s] = EventsOf[s]
  <2> SUFFICES ASSUME NEW s \in DOMAIN steps \ Open PROVE l1[s] = Lasting[s] /\ e1[s] = EventsOf[s]
    OBVIOUS
  <2>1. new[s] = steps[s]
    BY <1>2, <1>6
  <2>2. l1[s] = Lasting[s]
    BY <1>17, <2>1 DEF Lasting
  <2> QED BY <1>18, <2>1, <2>2 DEF EventsOf
<1>20. PICK events : events = [i \in DOMAIN order |-> e1[order[i]]]
  OBVIOUS
<1>21. events = [i \in DOMAIN order |-> [step |-> order[i], started |-> steps[order[i]].started,
                                         duration |-> clock - steps[order[i]].started,
                                         finished |-> order[i] \in fin]]
  <2> SUFFICES ASSUME NEW s \in C
               PROVE  e1[s] = [step |-> s, started |-> steps[s].started,
                               duration |-> clock - steps[s].started, finished |-> s \in fin]
    BY <1>3, <1>20
  <2>1. l1[s] = clock - steps[s].started
    BY <1>2, <1>7, <1>8, <1>17
  <2> QED BY <1>2, <1>7, <1>18, <2>1
<1>22. stats' = Counting(stats, events) /\ log' = Logging(log, events) /\ ends' = ends \o order
  BY <1>21 DEF RecordSteps, Counting, Logging
<1>23. Recorded(order, C)
  BY <1>4, <1>6, <1>12, <1>13, <1>15, <1>16, <1>19, <1>20, <1>22 DEF Recorded, Over
<1> QED BY <1>10, <1>11, <1>14, <1>23 DEF Nested

\* The statistics have counted the steps that ended, and the log the last of them.
RecordIsTrue ==
    /\ Orders(ends, Over)
    /\ Counted(stats, Over, KindOf, Lasting)
    /\ LoggedLast(log, Len(ends), ends, EventsOf)

Measured ==
    /\ \A s \in DOMAIN steps : Lasting[s] \in Nat /\ EventsOf[s] \in Events
                              /\ EventsOf[s].step = s /\ EventsOf[s].duration = Lasting[s]
    /\ DOMAIN Lasting = DOMAIN steps /\ DOMAIN EventsOf = DOMAIN steps

\* The same for the next state.
LEMMA MeasuredSteps == StepsTyped /\ StepsTimed => Measured
BY LastingTyped DEF Measured

\* Statistics depend on the steps they counted alone.
LEMMA CountsTheSame ==
    ASSUME NEW all, NEW E, IsFiniteSet(E), NEW kind, NEW last, NEW other, Counted(all, E, kind, last),
           \A s \in E : last[s] \in Nat /\ other[s] = last[s]
    PROVE  Counted(all, E, kind, other)
<1> SUFFICES ASSUME NEW k \in StepKinds PROVE CountedOf(all[k], OfKind(kind, E, k), other)
  BY DEF Counted
<1>1. PICK S : S = OfKind(kind, E, k) /\ S \in SUBSET E
  BY DEF OfKind
<1>2. CountedOf(all[k], S, last)
  BY <1>1 DEF Counted
<1>3. Summand(last, S)
  BY <1>1, FS_Subset DEF Summand
<1>4. \A s \in S : other[s] = last[s]
  BY <1>1
<1>5. SumFunctionOnSet(other, S) = SumFunctionOnSet(last, S)
  BY <1>3, <1>4, SumSame
<1> QED BY <1>1, <1>2, <1>4, <1>5 DEF CountedOf

\* A log depends on the steps in it alone.
LEMMA LogsTheSame ==
    ASSUME NEW l, NEW E, NEW q \in Seq(E), NEW tell, NEW other, LoggedLast(l, Len(q), q, tell),
           \A s \in E : other[s] = tell[s]
    PROVE  LoggedLast(l, Len(q), q, other)
<1>1. PICK n \in Nat : n = Len(q) /\ \A i \in 1..n : q[i] \in E
  BY ElementOfSeq
<1>2. PICK m \in Nat : m = Len(l.events) /\ m <= n
  <2>1. PICK old \in Seq(Events) : old = l.events
    BY DEF LoggedLast, Logs
  <2>2. Len(old) \in Nat /\ Len(old) = IF n < RecentStepCount THEN n ELSE RecentStepCount
    BY <1>1, <2>1 DEF LoggedLast
  <2> QED BY <2>1, <2>2, BodyAssumption
<1>3. \A i \in 1..m : n - m + i \in 1..n
  BY <1>2
<1>4. \A i \in 1..m : other[q[n - m + i]] = tell[q[n - m + i]]
  BY <1>1, <1>3
<1> QED BY <1>1, <1>2, <1>4 DEF LoggedLast

\* One order after another one.
LEMMA OrdersTogether ==
    ASSUME NEW S, NEW T, S \cap T = {}, NEW p, Orders(p, S), NEW q, Orders(q, T)
    PROVE  Orders(p \o q, S \cup T)
<1>1. PICK U : U = S \cup T
  OBVIOUS
<1>2. p \in Seq(U) /\ q \in Seq(U) /\ p \in Seq(S) /\ q \in Seq(T)
  BY <1>1 DEF Orders
<1>3. PICK m, n \in Nat : m = Len(p) /\ n = Len(q) /\ DOMAIN p = 1..m /\ DOMAIN q = 1..n
  BY <1>2
<1>4. PICK w : w = p \o q
  OBVIOUS
<1>5. w \in Seq(U) /\ Len(w) = m + n
  BY <1>2, <1>3, <1>4
<1>6. \A i \in 1..m : w[i] = p[i]
  BY <1>2, <1>3, <1>4
<1>7. \A i \in 1..n : w[m + i] = q[i]
  BY <1>2, <1>3, <1>4
<1>8. DOMAIN w = 1..(m + n) /\ \A i \in 1..(m + n) : i \in 1..m \/ \E j \in 1..n : i = m + j
  <2>1. ASSUME NEW i \in 1..(m + n), i \notin 1..m PROVE \E j \in 1..n : i = m + j
    <3>1. i - m \in 1..n /\ i = m + (i - m)
      BY <2>1
    <3> QED BY <3>1
  <2> QED BY <1>5, <2>1
<1>9. (\A i \in 1..m : p[i] \in S /\ p[i] \notin T) /\ (\A i \in 1..n : q[i] \in T /\ q[i] \notin S)
  <2>1. (\A i \in 1..m : p[i] \in S) /\ (\A i \in 1..n : q[i] \in T)
    BY <1>2, <1>3, ElementOfSeq
  <2> QED BY <2>1
<1>10. \A i, j \in DOMAIN w : w[i] = w[j] => i = j
  <2> SUFFICES ASSUME NEW i \in 1..(m + n), NEW j \in 1..(m + n), w[i] = w[j] PROVE i = j
    BY <1>8
  <2>1. CASE i \in 1..m /\ j \in 1..m
    BY <1>3, <1>6, <2>1 DEF Orders
  <2>2. CASE i \in 1..m /\ j \notin 1..m
    BY <1>6, <1>7, <1>8, <1>9, <2>2
  <2>3. CASE i \notin 1..m /\ j \in 1..m
    BY <1>6, <1>7, <1>8, <1>9, <2>3
  <2>4. CASE i \notin 1..m /\ j \notin 1..m
    <3>1. PICK a \in 1..n, b \in 1..n : i = m + a /\ j = m + b
      BY <1>8, <2>4
    <3>2. q[a] = q[b]
      BY <1>7, <3>1
    <3>3. a = b
      BY <1>3, <3>2 DEF Orders
    <3> QED BY <3>1, <3>3
  <2> QED BY <2>1, <2>2, <2>3, <2>4
<1>11. \A s \in U : \E i \in DOMAIN w : w[i] = s
  <2> SUFFICES ASSUME NEW s \in U PROVE \E i \in 1..(m + n) : w[i] = s
    BY <1>8
  <2>1. CASE s \in S
    <3>1. PICK i \in 1..m : p[i] = s
      BY <1>3, <2>1 DEF Orders
    <3>2. i \in 1..(m + n)
      OBVIOUS
    <3> QED BY <1>6, <3>1, <3>2
  <2>2. CASE s \in T
    <3>1. PICK i \in 1..n : q[i] = s
      BY <1>3, <2>2 DEF Orders
    <3>2. m + i \in 1..(m + n)
      OBVIOUS
    <3> QED BY <1>7, <3>1, <3>2
  <2> QED BY <1>1, <2>1, <2>2
<1> QED BY <1>1, <1>4, <1>5, <1>10, <1>11 DEF Orders

\* Recording steps that were open keeps the record true.
LEMMA RecordingTells ==
    ASSUME Nested, Nested', RecordIsTrue, NEW C \in SUBSET Open, NEW order, Orders(order, C), Recorded(order, C)
    PROVE  RecordIsTrue'
<1>0. StepsTyped /\ StepsTimed /\ StepsTyped' /\ StepsTimed'
  BY DEF Nested
<1>1. PICK N, D : N \in Nat /\ D = 1..N /\ DOMAIN steps = D /\ (DOMAIN steps)' = D /\ IsFiniteSet(D)
  <2>1. PICK N \in Nat : DOMAIN steps = 1..N
    BY <1>0, TypedSteps
  <2>2. IsFiniteSet(1..N)
    BY FS_Interval
  <2> QED BY <2>1, <2>2 DEF Recorded
<1>2. PICK E, F : E = Over /\ F = Over'
  OBVIOUS
<1>3. F = E \cup C /\ E \in SUBSET D /\ C \in SUBSET (D \ E) /\ E \cap C = {} /\ IsFiniteSet(E)
  <2>1. Open \in SUBSET D /\ Open' = Open \ C
    BY <1>1 DEF Recorded, Open
  <2>2. E = D \ Open /\ F = D \ (Open \ C)
    BY <1>1, <1>2, <2>1 DEF Over
  <2> QED BY <1>1, <2>1, <2>2, FS_Subset
<1>4. PICK kind, last, tell : kind = KindOf' /\ last = Lasting' /\ tell = EventsOf'
  OBVIOUS
<1>5. /\ kind = KindOf /\ \A s \in E : last[s] = Lasting[s] /\ tell[s] = EventsOf[s] /\ Lasting[s] \in Nat
  <2>1. \A s \in E : Lasting[s] \in Nat
    BY <1>0, <1>1, <1>3, LastingTyped
  <2> QED BY <1>2, <1>4, <2>1 DEF Recorded
<1>6. /\ last \in [D -> Nat] /\ tell \in [D -> Events]
      /\ \A s \in D : tell[s].step = s /\ tell[s].duration = last[s]
  <2>1. /\ \A s \in D : Lasting'[s] \in Nat /\ EventsOf'[s] \in Events
                       /\ EventsOf'[s].step = s /\ EventsOf'[s].duration = Lasting'[s]
        /\ DOMAIN Lasting' = D /\ DOMAIN EventsOf' = D
    <3>1. (StepsTyped /\ StepsTimed => Measured)'
      BY MeasuredSteps, PTL
    <3>2. Measured'
      BY <1>0, <3>1
    <3> QED BY <1>1, <3>2 DEF Measured
  <2>2. last = [s \in D |-> last[s]] /\ tell = [s \in D |-> tell[s]]
    BY <1>1, <1>4 DEF Lasting, EventsOf
  <2> QED BY <1>4, <2>1, <2>2
<1>7. kind \in [D -> StepKinds] /\ \A s \in D : kind[s] = steps[s].kind
  <2>1. \A s \in D : steps[s].kind \in StepKinds
    BY <1>0, <1>1, TypedSteps
  <2> QED BY <1>1, <1>5, <2>1 DEF KindOf
<1>8. PICK st, l, e : st = stats /\ l = log /\ e = ends
  OBVIOUS
<1>9. Counted(st, E, kind, last) /\ LoggedLast(l, Len(e), e, tell) /\ Orders(e, E)
  <2>1. Counted(st, E, kind, Lasting)
    BY <1>2, <1>5, <1>8 DEF RecordIsTrue
  <2>2. Counted(st, E, kind, last)
    BY <1>3, <1>5, <2>1, CountsTheSame
  <2>3. Orders(e, E) /\ LoggedLast(l, Len(e), e, EventsOf)
    BY <1>2, <1>8 DEF RecordIsTrue
  <2>4. e \in Seq(E)
    BY <2>3 DEF Orders
  <2>5. LoggedLast(l, Len(e), e, tell)
    BY <1>5, <2>3, <2>4, LogsTheSame
  <2> QED BY <2>2, <2>3, <2>5
<1>10. PICK events : events = [i \in DOMAIN order |-> tell[order[i]]]
  OBVIOUS
<1>11. Counted(Counting(st, events), F, kind, last)
  <2>1. Recordable(N, kind, last, tell, E, C)
    BY <1>1, <1>3, <1>6, <1>7 DEF Recordable
  <2> QED BY <1>0, <1>3, <1>9, <1>10, <2>1, CountsAll
<1>12. LoggedLast(Logging(l, events), Len(e \o order), e \o order, tell)
  <2>1. e \in Seq(D) /\ order \in Seq(D)
    <3>1. e \in Seq(E) /\ order \in Seq(C)
      BY <1>9 DEF Orders
    <3> QED BY <1>3, <3>1
  <2> QED BY <1>1, <1>6, <1>9, <1>10, <2>1, LogsAll
<1>13. Orders(e \o order, F)
  BY <1>3, <1>9, OrdersTogether
<1>14. stats' = Counting(st, events) /\ log' = Logging(l, events) /\ ends' = e \o order
  BY <1>4, <1>8, <1>10 DEF Recorded
<1> QED BY <1>2, <1>4, <1>11, <1>12, <1>13, <1>14 DEF RecordIsTrue

\* The inductive invariant: the record is true while the body runs, and is what was stored once it ended.
StepsInv ==
    /\ Nested /\ RecordIsTrue
    /\ body \in {"preparing", "running"} => ended = "no"
    /\ RanBody => Open = {} /\ run.steps = stats /\ run.recent = RecentSteps(log)

\* Some steps that are dropped are each recorded once.
LEMMA EndsSome ==
    ASSUME Nested, NEW C, Closes(C), NEW path, NEW order \in DropOrders(C, path)
    PROVE  Orders(order, C)
<1>1. IsFiniteSet(C)
  BY OpenIsFinite, FS_Subset DEF Nested, Closes
<1> QED BY <1>1, DroppedOnce

\* A step that finishes or is dropped ends with what is inside it.
LEMMA StepEnds ==
    ASSUME Nested, NEW s \in Open, Finish(s) \/ DropStep(s)
    PROVE  \E order, C, fin : Ending(order, C, fin)
<1>1. PICK C : C = Inside(s) \cup {s} /\ Closes(C) /\ s \notin Inside(s)
  BY InsideCloses DEF Nested
<1>2. CASE Finish(s)
  <2>1. PICK order \in DropOrders(Inside(s), {}) : RecordSteps(Append(order, s), {s})
    BY <1>2 DEF Finish
  <2>2. PICK I : I = Inside(s) /\ IsFiniteSet(I)
    <3>1. Inside(s) \in SUBSET Open
      BY DEF Inside
    <3> QED BY <3>1, OpenIsFinite, FS_Subset DEF Nested
  <2>3. Orders(order, I)
    BY <2>1, <2>2, DroppedOnce
  <2>4. Orders(Append(order, s), C)
    BY <1>1, <2>2, <2>3, OrdersOneMore
  <2>5. clock' = clock /\ body = "running" /\ UNCHANGED <<body, run, ended>>
    BY <1>2 DEF Finish
  <2>6. Ending(Append(order, s), C, {s})
    BY <1>1, <2>1, <2>4, <2>5 DEF Ending
  <2> QED BY <2>6
<1>3. CASE DropStep(s)
  <2>1. PICK order \in DropOrders(C, {}) : RecordSteps(order, {})
    BY <1>1, <1>3 DEF DropStep
  <2>2. Orders(order, C)
    BY <1>1, <2>1, EndsSome
  <2>3. clock' = clock /\ body = "running" /\ UNCHANGED <<body, run, ended>>
    BY <1>3 DEF DropStep
  <2>4. Ending(order, C, {})
    BY <1>1, <2>1, <2>2, <2>3 DEF Ending
  <2> QED BY <2>4
<1> QED BY <1>2, <1>3

\* A body that ends records all its open steps, and stores the record after that.
LEMMA BodyEnds ==
    ASSUME Nested, NEW path, \E order \in DropOrders(Open, path) : RecordSteps(order, {}),
           clock' = clock, body = "running", NEW why, NEW details, NEW how, Store(why, details, how)
    PROVE  \E order, C, fin : Ending(order, C, fin)
<1>1. PICK order \in DropOrders(Open, path) : RecordSteps(order, {})
  OBVIOUS
<1>2. Closes(Open)
  BY AllCloses
<1>3. Orders(order, Open)
  BY <1>1, <1>2, EndsSome
<1>4. run'.steps = stats' /\ run'.recent = RecentSteps(log') /\ body' = "quitting"
  BY DEF Store
<1>5. Ending(order, Open, {})
  BY <1>1, <1>2, <1>3, <1>4 DEF Ending
<1> QED BY <1>5

\* Every action that records steps ends some with all inside them.
LEMMA WhatEnds ==
    ASSUME Nested,
           \/ \E s \in Open : Finish(s) \/ DropStep(s)
           \/ \E ok \in BOOLEAN : Return(ok)
           \/ TimeOut
           \/ \E at \in 0..MaxSteps, resumed \in BOOLEAN : Panic(at, resumed)
    PROVE  \E order, C, fin : Ending(order, C, fin)
<1>1. CASE \E s \in Open : Finish(s) \/ DropStep(s)
  BY <1>1, StepEnds
<1>2. ASSUME NEW ok \in BOOLEAN, Return(ok)
      PROVE  \E order, C, fin : Ending(order, C, fin)
  <2>1. PICK f, h, path : Store(f, None, h) /\ \E order \in DropOrders(Open, path) : RecordSteps(order, {})
    BY <1>2 DEF Return
  <2>2. clock' = clock /\ body = "running"
    BY <1>2 DEF Return
  <2> QED BY <2>1, <2>2, BodyEnds
<1>3. CASE TimeOut
  <2>1. PICK f, h, path : Store(f, None, h) /\ \E order \in DropOrders(Open, path) : RecordSteps(order, {})
    BY <1>3 DEF TimeOut
  <2>2. clock' = clock /\ body = "running"
    BY <1>3 DEF TimeOut
  <2> QED BY <2>1, <2>2, BodyEnds
<1>4. ASSUME NEW at \in 0..MaxSteps, NEW resumed \in BOOLEAN, Panic(at, resumed)
      PROVE  \E order, C, fin : Ending(order, C, fin)
  <2>1. clock' = clock /\ body = "running" /\ at \in Open \cup {0}
    BY <1>4 DEF Panic
  <2>2. PICK path : path = Around(at)
    OBVIOUS
  <2>3. path \in SUBSET Open
    <3>1. CASE at \in Open
      BY <2>2, <3>1, AroundOpen DEF Nested
    <3>2. CASE at = 0
      BY <2>2, <3>2, AroundStep DEF Nested
    <3> QED BY <2>1, <3>1, <3>2
  <2>4. CASE \E S \in {{}} \cup {{top} \cup Inside(top) : top \in path} :
                /\ \E order \in DropOrders(S, path) : RecordSteps(order, {})
                /\ UNCHANGED <<body, run, ended>>
    <3>1. PICK S \in {{}} \cup {{top} \cup Inside(top) : top \in path} :
                /\ \E order \in DropOrders(S, path) : RecordSteps(order, {})
                /\ UNCHANGED <<body, run, ended>>
      BY <2>4
    <3>2. Closes(S)
      <4>1. CASE S = {}
        BY <4>1, AllCloses
      <4>2. ASSUME NEW top \in path, S = {top} \cup Inside(top) PROVE Closes(S)
        <5>1. top \in Open /\ S = Inside(top) \cup {top}
          BY <2>3, <4>2
        <5> QED BY <5>1, InsideCloses DEF Nested
      <4> QED BY <3>1, <4>1, <4>2
    <3>3. PICK order \in DropOrders(S, path) : RecordSteps(order, {})
      BY <3>1
    <3>4. Orders(order, S)
      BY <3>2, <3>3, EndsSome
    <3>5. Ending(order, S, {})
      BY <2>1, <3>1, <3>2, <3>3, <3>4 DEF Ending
    <3> QED BY <3>5
  <2>5. CASE /\ \E order \in DropOrders(Open, path) : RecordSteps(order, {})
             /\ Store("panic", panicked', IF resumed THEN "resumed" ELSE "panic")
    <3>1. PICK d, h : Store("panic", d, h)
      BY <2>5
    <3> QED BY <2>1, <2>5, <3>1, BodyEnds
  <2> QED BY <1>4, <2>2, <2>4, <2>5 DEF Panic
<1> QED BY <1>1, <1>2, <1>3, <1>4

\* Ending steps keeps the invariant.
LEMMA EndingTells ==
    ASSUME StepsInv, NEW order, NEW C, NEW fin, Ending(order, C, fin)
    PROVE  StepsInv'
<1>1. Nested' /\ Recorded(order, C)
  BY RecordsSteps DEF StepsInv, Ending
<1>2. C \in SUBSET Open /\ Orders(order, C)
  BY DEF Ending, Closes
<1>3. RecordIsTrue'
  BY <1>1, <1>2, RecordingTells DEF StepsInv
<1>4. body = "running" /\ ended = "no"
  BY DEF Ending, StepsInv
<1>5. CASE UNCHANGED <<body, run, ended>>
  BY <1>1, <1>3, <1>4, <1>5 DEF StepsInv, RanBody
<1>6. CASE C = Open /\ run'.steps = stats' /\ run'.recent = RecentSteps(log') /\ body' = "quitting"
  <2>1. Open' = {}
    BY <1>1, <1>6 DEF Recorded
  <2>2. RecentSteps(log)' = RecentSteps(log')
    BY DEF RecentSteps
  <2>3. run'.steps = stats' /\ run'.recent = RecentSteps(log') /\ body' \notin {"preparing", "running"}
    BY <1>6
  <2> QED BY <1>1, <1>3, <2>1, <2>2, <2>3 DEF StepsInv, RanBody
<1> QED BY <1>5, <1>6 DEF Ending

\* What happens without a step beginning or ending, time passing included.
LEMMA StepsAreKept ==
    ASSUME Nested, RecordIsTrue, UNCHANGED <<stats, log, steps, ends>>, clock' = clock \/ clock' = clock + 1
    PROVE  Nested' /\ RecordIsTrue' /\ Open' = Open
<1>1. /\ Open' = Open /\ Over' = Over /\ KindOf' = KindOf /\ Lasting' = Lasting /\ EventsOf' = EventsOf
  <2>1. Lasting' = Lasting
    BY DEF Lasting
  <2> QED BY <2>1 DEF Open, Over, KindOf, EventsOf
<1>2. StepsTyped'
  BY DEF Nested, StepsTyped
<1>3. OpenStepsNest'
  BY <1>1 DEF Nested, OpenStepsNest
<1>4. StepsTimed'
  <2>1. PICK c, d \in Nat : c = clock /\ d = clock' /\ c <= d
    BY DEF Nested, StepsTimed
  <2>2. ASSUME NEW s \in DOMAIN steps
        PROVE  steps[s].started <= d /\ (steps[s].ended # None => steps[s].started <= steps[s].ended)
    <3>1. steps[s].started <= c /\ (steps[s].ended # None => steps[s].started <= steps[s].ended)
      BY <2>1 DEF Nested, StepsTimed
    <3>2. steps[s].started \in Nat
      BY TypedSteps DEF Nested
    <3> QED BY <2>1, <3>1, <3>2
  <2> QED BY <2>1, <2>2 DEF StepsTimed
<1> QED BY <1>1, <1>2, <1>3, <1>4 DEF Nested, RecordIsTrue

\* A step begins in an open one, or in the body.
LEMMA StepBegins ==
    ASSUME Nested, RecordIsTrue, NEW parent, NEW kind \in StepKinds, Begin(parent, kind)
    PROVE  Nested' /\ RecordIsTrue'
<1>0. StepsTyped /\ StepsTimed /\ OpenStepsNest
  BY DEF Nested
<1>1. PICK n \in Nat : n = Len(steps) /\ DOMAIN steps = 1..n
  BY <1>0, TypedSteps
<1>2. PICK c \in Nat : c = clock /\ c = clock'
  BY <1>0 DEF StepsTimed, Begin
<1>3. PICK r : r = [kind |-> kind, parent |-> parent, started |-> c, ended |-> None, finished |-> FALSE]
  OBVIOUS
<1>4. parent \in Open \cup {0} /\ parent \in 0..n /\ UNCHANGED <<stats, log, ends>>
  <2>1. Open \in SUBSET (1..n)
    BY <1>1 DEF Open
  <2> QED BY <2>1 DEF Begin, recorder
<1>5. r \in StepRecords
  BY <1>3, <1>4 DEF StepRecords
<1>6. PICK new : new = steps' /\ new = Append(steps, r)
  BY <1>2, <1>3 DEF Begin
<1>7. new \in Seq(StepRecords) /\ DOMAIN new = 1..(n + 1)
  <2>1. steps \in Seq(StepRecords)
    BY <1>0 DEF StepsTyped
  <2>2. new \in Seq(StepRecords) /\ Len(new) = n + 1
    BY <1>1, <1>5, <1>6, <2>1
  <2> QED BY <2>2
<1>8. new[n + 1] = r /\ \A s \in 1..n : new[s] = steps[s]
  <2>1. steps \in Seq(StepRecords)
    BY <1>0 DEF StepsTyped
  <2> QED BY <1>1, <1>6, <2>1
<1>9. \A s \in 1..(n + 1) : s \in 1..n \/ s = n + 1
  OBVIOUS
<1>10. StepsTyped'
  <2>1. ASSUME NEW s \in 1..(n + 1) PROVE new[s].parent \in 0..(s - 1)
    <3>1. CASE s = n + 1
      BY <1>3, <1>4, <1>8, <3>1
    <3>2. CASE s \in 1..n
      BY <1>0, <1>1, <1>8, <3>2, TypedSteps
    <3> QED BY <1>9, <3>1, <3>2
  <2> QED BY <1>6, <1>7, <2>1 DEF StepsTyped
<1>11. StepsTimed'
  <2>1. ASSUME NEW s \in 1..(n + 1)
        PROVE  new[s].started <= c /\ (new[s].ended # None => new[s].started <= new[s].ended)
    <3>1. CASE s = n + 1
      BY <1>3, <1>8, <3>1
    <3>2. CASE s \in 1..n
      BY <1>0, <1>1, <1>2, <1>8, <3>2 DEF StepsTimed
    <3> QED BY <1>9, <3>1, <3>2
  <2> QED BY <1>2, <1>6, <1>7, <2>1 DEF StepsTimed
<1>12. PICK left : left = Open'
  OBVIOUS
<1>13. left = Open \cup {n + 1}
  <2>1. left = {s \in 1..(n + 1) : new[s].ended = None}
    BY <1>6, <1>7, <1>12 DEF Open
  <2>2. Open = {s \in 1..n : steps[s].ended = None}
    BY <1>1 DEF Open
  <2>3. new[n + 1].ended = None /\ n + 1 \in 1..(n + 1) /\ \A s \in 1..n : s \in 1..(n + 1)
    BY <1>3, <1>8
  <2> QED BY <1>8, <1>9, <2>1, <2>2, <2>3
<1>14. OpenStepsNest'
  <2>1. ASSUME NEW s \in left PROVE new[s].parent \in left \cup {0}
    <3>1. CASE s = n + 1
      BY <1>3, <1>4, <1>8, <1>13, <3>1
    <3>2. CASE s \in Open
      <4>1. s \in 1..n
        BY <1>1, <3>2 DEF Open
      <4> QED BY <1>0, <1>8, <1>13, <3>2, <4>1 DEF OpenStepsNest
    <3> QED BY <1>13, <3>1, <3>2
  <2> QED BY <1>6, <1>12, <2>1 DEF OpenStepsNest
<1>15. PICK E : E = Over /\ E = Over'
  <2>1. Over' = (1..(n + 1)) \ left
    BY <1>6, <1>7, <1>12 DEF Over
  <2>2. Over = (1..n) \ Open
    BY <1>1 DEF Over
  <2>3. n + 1 \notin 1..n
    OBVIOUS
  <2>4. \A A, O, x : x \notin A => (A \cup {x}) \ (O \cup {x}) = A \ O
    BY Zenon
  <2>5. Over' = Over
    <3>1. Over' = ((1..n) \cup {n + 1}) \ (Open \cup {n + 1})
      BY <1>9, <1>13, <2>1
    <3> QED BY <2>2, <2>3, <2>4, <3>1
  <2> QED BY <2>5
<1>16. E \in SUBSET (1..n) /\ IsFiniteSet(E)
  <2>1. E \in SUBSET (1..n)
    BY <1>1, <1>15 DEF Over
  <2>2. IsFiniteSet(1..n)
    BY FS_Interval
  <2> QED BY <2>1, <2>2, FS_Subset
<1>17. PICK k1, l1, e1 : k1 = KindOf' /\ l1 = Lasting' /\ e1 = EventsOf'
  OBVIOUS
<1>18. \A s \in E : k1[s] = KindOf[s] /\ l1[s] = Lasting[s] /\ e1[s] = EventsOf[s] /\ Lasting[s] \in Nat
  <2> SUFFICES ASSUME NEW s \in 1..n
               PROVE  k1[s] = KindOf[s] /\ l1[s] = Lasting[s] /\ e1[s] = EventsOf[s] /\ Lasting[s] \in Nat
    BY <1>16
  <2>1. new[s] = steps[s] /\ s \in DOMAIN new /\ s \in DOMAIN steps
    BY <1>1, <1>7, <1>8
  <2>2. k1[s] = KindOf[s]
    BY <1>6, <1>17, <2>1 DEF KindOf
  <2>3. l1[s] = Lasting[s]
    BY <1>6, <1>17, <2>1 DEF Lasting
  <2>4. e1[s] = EventsOf[s]
    BY <1>6, <1>17, <2>1, <2>3 DEF EventsOf
  <2> QED BY <1>0, <2>1, <2>2, <2>3, <2>4, LastingTyped
<1>19. RecordIsTrue'
  <2>1. Orders(ends, E) /\ Counted(stats, E, KindOf, Lasting) /\ LoggedLast(log, Len(ends), ends, EventsOf)
    BY <1>15 DEF RecordIsTrue
  <2>2. Counted(stats, E, k1, Lasting)
    <3>1. \A k \in StepKinds : OfKind(k1, E, k) = OfKind(KindOf, E, k)
      BY <1>18 DEF OfKind
    <3> QED BY <2>1, <3>1 DEF Counted
  <2>3. Counted(stats, E, k1, l1)
    BY <1>16, <1>18, <2>2, CountsTheSame
  <2>4. ends \in Seq(E)
    BY <2>1 DEF Orders
  <2>5. LoggedLast(log, Len(ends), ends, e1)
    BY <1>18, <2>1, <2>4, LogsTheSame
  <2> QED BY <1>4, <1>15, <1>17, <2>1, <2>3, <2>5 DEF RecordIsTrue
<1> QED BY <1>10, <1>11, <1>14, <1>19 DEF Nested

\* Every step of a test keeps the invariant.
LEMMA StepsStep == StepsInv /\ [BodyNext]_bodyVars => StepsInv'
<1> SUFFICES ASSUME StepsInv, [BodyNext]_bodyVars PROVE StepsInv'
  OBVIOUS
<1>0. Nested /\ RecordIsTrue /\ (body \in {"preparing", "running"} => ended = "no")
  BY DEF StepsInv
<1>1. CASE \/ \E s \in Open : Finish(s) \/ DropStep(s)
           \/ \E ok \in BOOLEAN : Return(ok)
           \/ TimeOut
           \/ \E at \in 0..MaxSteps, resumed \in BOOLEAN : Panic(at, resumed)
  BY <1>0, <1>1, WhatEnds, EndingTells
<1>2. ASSUME NEW parent \in 0..MaxSteps, NEW kind \in StepKinds, Begin(parent, kind)
      PROVE  StepsInv'
  <2>1. Nested' /\ RecordIsTrue'
    BY <1>0, <1>2, StepBegins
  <2>2. body' = body /\ ended' = ended /\ body = "running"
    BY <1>2 DEF Begin
  <2> QED BY <1>0, <2>1, <2>2 DEF StepsInv, RanBody
<1>3. ASSUME NEW ok \in BOOLEAN, Prepare(ok) PROVE StepsInv'
  <2>1. UNCHANGED <<stats, log, steps, ends>> /\ clock' = clock /\ body = "preparing"
    BY <1>3 DEF Prepare, recorder
  <2>2. Nested' /\ RecordIsTrue'
    BY <1>0, <2>1, StepsAreKept
  <2>3. (body' = "running" /\ ended' = ended) \/ (body' = "quitting" /\ ended' = "prepare")
    BY <1>3 DEF Prepare
  <2> QED BY <1>0, <2>1, <2>2, <2>3 DEF StepsInv, RanBody
<1>4. ASSUME \/ Passes
             \/ \E ok \in BOOLEAN : Conclude(ok)
             \/ UNCHANGED bodyVars
      PROVE  StepsInv'
  <2>1. UNCHANGED <<stats, log, steps, ends>> /\ (clock' = clock \/ clock' = clock + 1)
    BY <1>4 DEF Passes, Conclude, bodyVars, recorder
  <2>2. Nested' /\ RecordIsTrue' /\ Open' = Open
    BY <1>0, <2>1, StepsAreKept
  <2>3. /\ run' = run /\ ended' = ended
        /\ body' \in {"preparing", "running"} => body \in {"preparing", "running"}
    BY <1>4 DEF Passes, Conclude, bodyVars
  <2>4. RecentSteps(log)' = RecentSteps(log)
    BY <2>1 DEF RecentSteps
  <2> QED BY <2>1, <2>2, <2>3, <2>4 DEF StepsInv, RanBody
<1> QED BY <1>1, <1>2, <1>3, <1>4 DEF BodyNext

\* A record of a test whose steps all ended is the count, sum and maximum over all of them.
LEMMA AllAreCounted ==
    ASSUME Nested, RecordIsTrue, Open = {}, NEW k \in StepKinds
    PROVE  LET lasting(s) == steps[s].ended - steps[s].started
               of == {s \in DOMAIN steps : steps[s].kind = k}
           IN  stats[k] = [count |-> Cardinality(of),
                           total |-> SumFunctionOnSet([s \in DOMAIN steps |-> lasting(s)], of),
                           max   |-> Max({0} \cup {lasting(s) : s \in of})]
<1> DEFINE lasting(s) == steps[s].ended - steps[s].started
<1>1. PICK D : D = DOMAIN steps /\ IsFiniteSet(D) /\ D = Over
  <2>1. PICK n \in Nat : DOMAIN steps = 1..n
    BY TypedSteps DEF Nested
  <2>2. IsFiniteSet(1..n)
    BY FS_Interval
  <2> QED BY <2>1, <2>2 DEF Over
<1>2. \A s \in D : Lasting[s] = lasting(s) /\ Lasting[s] \in Nat
  <2> SUFFICES ASSUME NEW s \in D PROVE Lasting[s] = lasting(s) /\ Lasting[s] \in Nat
    OBVIOUS
  <2>1. steps[s].ended # None
    BY <1>1 DEF Open
  <2> QED BY <1>1, <2>1, LastingTyped DEF Lasting, Nested
<1>3. PICK f, S : f = [s \in DOMAIN steps |-> lasting(s)] /\ S = {s \in DOMAIN steps : steps[s].kind = k}
  OBVIOUS
<1>4. f = Lasting
  BY <1>1, <1>2, <1>3 DEF Lasting
<1>5. S = OfKind(KindOf, D, k) /\ S \in SUBSET D /\ IsFiniteSet(S)
  <2>1. S = OfKind(KindOf, D, k)
    BY <1>1, <1>3 DEF OfKind, KindOf
  <2> QED BY <1>1, <1>3, <2>1, FS_Subset
<1>6. PICK a : a = stats[k] /\ a \in [count : Nat, total : Nat, max : Nat] /\ CountedOf(a, S, Lasting)
  BY <1>1, <1>5 DEF RecordIsTrue, Counted, Tallies
<1>7. PICK P : P = {0} \cup {lasting(s) : s \in S}
  OBVIOUS
<1>8. a.max \in P /\ \A y \in P : y \in Int /\ a.max >= y
  <2>1. a.max \in P
    <3>1. a.max = 0 \/ \E s \in S : a.max = Lasting[s]
      BY <1>6 DEF CountedOf
    <3> QED BY <1>2, <1>5, <1>7, <3>1
  <2>2. \A s \in S : lasting(s) \in Int /\ a.max >= lasting(s)
    <3> SUFFICES ASSUME NEW s \in S PROVE lasting(s) \in Int /\ a.max >= lasting(s)
      OBVIOUS
    <3>1. Lasting[s] = lasting(s) /\ Lasting[s] \in Nat
      BY <1>2, <1>5
    <3>2. Lasting[s] <= a.max /\ a.max \in Nat
      BY <1>6 DEF CountedOf
    <3> QED BY <3>1, <3>2
  <2>3. 0 \in Int /\ a.max >= 0
    BY <1>6
  <2> QED BY <1>7, <2>1, <2>2, <2>3
<1>9. PICK M : M = Max(P) /\ M \in P /\ (\A y \in P : M >= y)
  BY <1>8 DEF Max
<1>10. a.max = M
  <2>1. a.max \in Int /\ M \in Int /\ a.max >= M /\ M >= a.max
    BY <1>8, <1>9
  <2> QED BY <2>1
<1>11. a.count = Cardinality(S) /\ a.total = SumFunctionOnSet(f, S)
  BY <1>4, <1>6 DEF CountedOf
<1>12. a = [count |-> a.count, total |-> a.total, max |-> a.max]
  BY <1>6
<1>13. a = [count |-> Cardinality(S), total |-> SumFunctionOnSet(f, S), max |-> M]
  BY <1>10, <1>11, <1>12
<1> QED BY <1>3, <1>6, <1>7, <1>9, <1>13

\* With no step open, each of them ended once.
LEMMA EndsOfAll ==
    ASSUME Nested, RecordIsTrue, Open = {}
    PROVE  Len(ends) = Len(steps) /\ ends \in [DOMAIN steps -> DOMAIN steps]
<1>1. PICK n, D : n \in Nat /\ n = Len(steps) /\ D = DOMAIN steps /\ D = 1..n
  BY TypedSteps DEF Nested
<1>2. Orders(ends, D)
  BY <1>1 DEF RecordIsTrue, Over
<1>3. PICK m, F : m \in Nat /\ m = Len(ends) /\ F = DOMAIN ends /\ F = 1..m /\ ends \in [F -> D]
  BY <1>2 DEF Orders
<1>4. /\ IsFiniteSet(D) /\ Cardinality(D) = n /\ IsFiniteSet(F) /\ Cardinality(F) = m
  <2>1. \A k \in Nat : IsFiniteSet(1..k) /\ Cardinality(1..k) = k
    <3> SUFFICES ASSUME NEW k \in Nat PROVE IsFiniteSet(1..k) /\ Cardinality(1..k) = k
      OBVIOUS
    <3> QED BY FS_Interval
  <2> QED BY <1>1, <1>3, <2>1
<1>5. Reorders(ends, F, D)
  BY <1>2, <1>3 DEF Reorders, Orders
<1>6. Cardinality(F) = Cardinality(D)
  <2>1. D \in SUBSET D /\ F \in SUBSET F /\ \A i \in F : i \in F <=> ends[i] \in D
    BY <1>3
  <2> QED BY ONLY <1>4, <1>5, <2>1, SameCount
<1> QED BY <1>1, <1>3, <1>4, <1>6

\* The recent steps of such a test are the last ones that ended, as they started.
LEMMA LastAreListed ==
    ASSUME Nested, RecordIsTrue, Open = {}, NEW recent, recent = RecentSteps(log)
    PROVE  LET lasting(s) == steps[s].ended - steps[s].started
               kept == Min({RecentStepCount, Len(steps)})
               listed == recent.steps
           IN  IF steps = <<>> THEN recent = None
               ELSE /\ Len(listed) = kept /\ recent.omitted = Len(steps) - kept
                    /\ {listed[i].step : i \in DOMAIN listed} =
                          {ends[i] : i \in (Len(ends) - kept + 1)..Len(ends)}
                    /\ \A i \in DOMAIN listed :
                          /\ listed[i].duration = lasting(listed[i].step)
                          /\ listed[i].finished = steps[listed[i].step].finished
                    /\ \A i, j \in DOMAIN listed :
                          i < j => steps[listed[i].step].started <= steps[listed[j].step].started
<1> DEFINE lasting(s) == steps[s].ended - steps[s].started
<1>1. PICK n \in Nat : n = Len(steps) /\ DOMAIN steps = 1..n /\ n = Len(ends) /\ ends \in [1..n -> 1..n]
  BY TypedSteps, EndsOfAll DEF Nested
<1>2. PICK es \in Seq(Events) : es = log.events
  BY DEF RecordIsTrue, LoggedLast, Logs
<1>3. PICK K \in Nat : K = Len(es) /\ DOMAIN es = 1..K
  OBVIOUS
<1>4. K = IF n < RecentStepCount THEN n ELSE RecentStepCount
  BY <1>1, <1>2, <1>3 DEF RecordIsTrue, LoggedLast
<1>5. RecentStepCount \in Nat /\ RecentStepCount # 0
  BY BodyAssumption
<1>6. PICK kept : kept = Min({RecentStepCount, Len(steps)}) /\ kept = K
  <2>1. PICK i, j \in Nat : i = RecentStepCount /\ j = Len(steps) /\ j = n
    BY <1>1, <1>5
  <2>2. Min({i, j}) = IF i <= j THEN i ELSE j
    BY SmallerOfTwo
  <2>3. K = IF i <= j THEN i ELSE j
    BY <1>4, <2>1
  <2> QED BY <2>1, <2>2, <2>3
<1>7. steps = <<>> <=> n = 0
  <2>1. steps \in Seq(StepRecords)
    BY DEF Nested, StepsTyped
  <2> QED BY <1>1, <2>1
<1>8. CASE n = 0
  <2>1. es = <<>>
    BY <1>3, <1>4, <1>5, <1>8
  <2> QED BY <1>2, <1>7, <1>8, <2>1 DEF RecentSteps
<1>9. CASE n # 0
  <2>1. es # <<>> /\ K > 0 /\ K <= n
    BY <1>3, <1>4, <1>5, <1>9
  <2>2. PICK keys : keys = [i \in DOMAIN es |-> es[i].started]
    OBVIOUS
  <2>3. \A i \in 1..K : es[i] \in Events /\ es[i].started \in Nat /\ keys[i] = es[i].started
    <3>1. \A i \in 1..K : es[i] \in Events
      BY <1>3, ElementOfSeq
    <3> QED BY <1>3, <2>2, <3>1 DEF Events
  <2>4. PICK order : order = ByKey(keys)
    OBVIOUS
  <2>5. /\ Reorders(order, 1..K, 1..K)
        /\ \A i, j \in 1..K : i < j => keys[order[i]] < keys[order[j]] \/ keys[order[i]] = keys[order[j]]
    <3>1. DOMAIN keys = 1..K
      BY <1>3, <2>2
    <3>2. \A i \in 1..K : keys[i] \in Int
      BY <2>3
    <3>3. /\ Reorders(ByKey(keys), 1..K, 1..K)
          /\ \A i, j \in 1..K :
                i < j => \/ keys[ByKey(keys)[i]] < keys[ByKey(keys)[j]]
                         \/ /\ keys[ByKey(keys)[i]] = keys[ByKey(keys)[j]]
                            /\ ByKey(keys)[i] < ByKey(keys)[j]
      BY <3>1, <3>2, SortsByKey
    <3> QED BY <2>4, <3>3
  <2>6. /\ DOMAIN order = 1..K /\ \A i \in 1..K : order[i] \in 1..K
        /\ \A j \in 1..K : \E i \in 1..K : order[i] = j
    BY <2>5 DEF Reorders
  <2>7. PICK listed : listed = [i \in 1..K |-> es[order[i]]]
    OBVIOUS
  <2>8. recent = [steps |-> listed, omitted |-> log.total - K]
    <3>1. ByKey([i \in DOMAIN log.events |-> log.events[i].started]) = order
      BY <1>2, <2>2, <2>4
    <3>2. recent = [steps   |-> [i \in DOMAIN order |-> log.events[order[i]]],
                    omitted |-> log.total - Len(log.events)]
      BY <1>2, <2>1, <3>1 DEF RecentSteps
    <3> QED BY <1>2, <1>3, <2>6, <2>7, <3>2
  <2>9. log.total = n /\ recent.steps = listed /\ recent.omitted = n - K
    BY <1>1, <2>8 DEF RecordIsTrue, LoggedLast
  <2>10. Len(listed) = K /\ DOMAIN listed = 1..K
    <3>1. listed \in [1..K -> Events]
      BY <2>3, <2>6, <2>7
    <3>2. listed \in Seq(Events)
      BY <3>1
    <3> QED BY <2>7, <3>2
  <2>11. ASSUME NEW i \in 1..K
         PROVE  /\ n - K + order[i] \in 1..n /\ n - K + order[i] >= n - K + 1
                /\ listed[i].step = ends[n - K + order[i]] /\ listed[i].step \in 1..n
                /\ listed[i].started = steps[listed[i].step].started /\ keys[order[i]] = listed[i].started
                /\ listed[i].duration = lasting(listed[i].step)
                /\ listed[i].finished = steps[listed[i].step].finished
    <3>1. PICK j \in 1..K : j = order[i]
      BY <2>6
    <3>2. n - K + j \in 1..n /\ n - K + j >= n - K + 1
      BY <2>1
    <3>3. PICK s \in 1..n : s = ends[n - K + j]
      BY <1>1, <3>2
    <3>4. listed[i] = EventsOf[s]
      <4>1. es[j] = EventsOf[ends[n - K + j]]
        BY <1>1, <1>2, <1>3 DEF RecordIsTrue, LoggedLast
      <4> QED BY <2>7, <3>1, <3>3, <4>1
    <3>5. steps[s].ended # None
      BY <1>1 DEF Open
    <3>6. EventsOf[s] = [step |-> s, started |-> steps[s].started, duration |-> lasting(s),
                         finished |-> steps[s].finished]
      BY <1>1, <3>5 DEF EventsOf, Lasting
    <3>7. PICK v : v = listed[i] /\ v = EventsOf[s]
      BY <3>4
    <3>8. v.step = s /\ v.started = steps[s].started /\ v.duration = lasting(s) /\ v.finished = steps[s].finished
      BY <3>6, <3>7
    <3>9. keys[j] = v.started
      BY <2>3, <2>7, <3>1, <3>7
    <3> QED BY <3>1, <3>2, <3>3, <3>7, <3>8, <3>9
  <2>12. PICK A, B : A = {listed[i].step : i \in 1..K} /\ B = {ends[i] : i \in (n - K + 1)..n}
    OBVIOUS
  <2>13. A = B
    <3>1. A \subseteq B
      BY <2>1, <2>11, <2>12
    <3>2. ASSUME NEW x \in (n - K + 1)..n PROVE ends[x] \in A
      <4>1. x - (n - K) \in 1..K
        BY <2>1
      <4>2. PICK i \in 1..K : order[i] = x - (n - K)
        BY <2>6, <4>1
      <4>3. n - K + order[i] = x
        BY <4>2
      <4> QED BY <2>11, <2>12, <4>3
    <3> QED BY <2>12, <3>1, <3>2
  <2>14. ASSUME NEW i \in 1..K, NEW j \in 1..K, i < j
         PROVE  steps[listed[i].step].started <= steps[listed[j].step].started
    <3>1. PICK a, b : a = keys[order[i]] /\ b = keys[order[j]] /\ a \in Nat /\ b \in Nat
      BY <2>3, <2>6
    <3>2. a < b \/ a = b
      BY <2>5, <2>14, <3>1
    <3>3. a = steps[listed[i].step].started /\ b = steps[listed[j].step].started
      BY <2>11, <3>1
    <3> QED BY <3>1, <3>2, <3>3
  <2>15. Len(listed) = kept /\ recent.omitted = Len(steps) - kept /\ recent.steps = listed /\ steps # <<>>
    BY <1>1, <1>6, <1>7, <1>9, <2>9, <2>10
  <2>16. {listed[i].step : i \in DOMAIN listed} = {ends[i] : i \in (Len(ends) - kept + 1)..Len(ends)}
    BY <1>1, <1>6, <2>10, <2>12, <2>13
  <2>17. \A i \in DOMAIN listed : /\ listed[i].duration = lasting(listed[i].step)
                                  /\ listed[i].finished = steps[listed[i].step].finished
    BY <2>10, <2>11
  <2>18. \A i, j \in DOMAIN listed :
            i < j => steps[listed[i].step].started <= steps[listed[j].step].started
    BY <2>10, <2>14
  <2> QED BY <1>6, <2>15, <2>16, <2>17, <2>18
<1> QED BY <1>8, <1>9

\* However a body ends (it returns, panics, is resumed, or is dropped at its time limit), its record
\* counts and times each step once, and its report lists those that ended last (step.rs, test_run.rs).
THEOREM EveryStepIsTold == BodySpec => []StepsAreTold
<1>1. BodyInit => StepsInv
  <2> SUFFICES ASSUME BodyInit PROVE StepsInv
    OBVIOUS
  <2>1. PICK e : e = <<>> /\ e \in Seq({}) /\ e \in Seq(StepRecords) /\ e \in Seq(Events) /\ Len(e) = 0
                 /\ DOMAIN e = {}
    <3>1. <<>> \in Seq({}) /\ <<>> \in Seq(StepRecords) /\ <<>> \in Seq(Events)
      OBVIOUS
    <3>2. Len(<<>>) = 0 /\ DOMAIN <<>> = {}
      OBVIOUS
    <3> QED BY <3>1, <3>2
  <2>2. steps = e /\ ends = e /\ clock = 0 /\ body = "preparing" /\ ended = "no"
        /\ stats = [k \in StepKinds |-> [count |-> 0, total |-> 0, max |-> 0]]
        /\ log = [events |-> e, total |-> 0]
    BY <2>1 DEF BodyInit
  <2>3. Nested /\ Over = {}
    BY <2>1, <2>2 DEF Nested, StepsTyped, StepsTimed, OpenStepsNest, Open, Over
  <2>4. Orders(ends, Over)
    BY <2>1, <2>2, <2>3 DEF Orders
  <2>5. Counted(stats, Over, KindOf, Lasting)
    <3>1. stats \in Tallies
      BY <2>2 DEF Tallies
    <3>2. ASSUME NEW k \in StepKinds PROVE CountedOf(stats[k], OfKind(KindOf, Over, k), Lasting)
      <4>1. PICK S : S = OfKind(KindOf, Over, k) /\ S = {}
        BY <2>3 DEF OfKind
      <4>2. Cardinality(S) = 0 /\ SumFunctionOnSet(Lasting, S) = 0
        BY <4>1, FS_EmptySet, SumEmpty
      <4> QED BY <2>2, <4>1, <4>2 DEF CountedOf
    <3> QED BY <3>1, <3>2 DEF Counted
  <2>6. LoggedLast(log, Len(ends), ends, EventsOf)
    <3>1. log \in Logs
      BY <2>1, <2>2, BodyAssumption DEF Logs
    <3> QED BY <2>1, <2>2, <3>1, BodyAssumption DEF LoggedLast
  <2> QED BY <2>2, <2>3, <2>4, <2>5, <2>6 DEF StepsInv, RecordIsTrue, RanBody
<1>2. StepsInv /\ [BodyNext]_bodyVars => StepsInv'
  BY StepsStep
<1>3. StepsInv => StepsAreTold
  <2> SUFFICES ASSUME StepsInv, RanBody PROVE StepsAreTold
    BY DEF StepsAreTold
  <2>1. Nested /\ RecordIsTrue /\ Open = {} /\ run.steps = stats /\ run.recent = RecentSteps(log)
    BY DEF StepsInv
  <2>2. \A s \in DOMAIN steps : steps[s].ended # None
    BY <2>1 DEF Open
  <2> QED BY <2>1, <2>2, AllAreCounted, LastAreListed DEF StepsAreTold
<1> QED BY <1>1, <1>2, <1>3, PTL DEF BodySpec
=============================================================================
