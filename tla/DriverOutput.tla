---------------------------- MODULE DriverOutput ----------------------------
(***************************************************************************)
(* The capture of the browser driver's output (driver_output.rs): a run    *)
(* (runner.rs) has a task follow the lines the driver prints, which keeps  *)
(* the last of them in a bounded tail, and attaches that tail to its       *)
(* failure.  The subscription is a channel of a bounded capacity, so the   *)
(* task may lag.  Lines are told apart by their position in the output.    *)
(***************************************************************************)
EXTENDS Option, Integers, SequencesExt

CONSTANTS
    TailCapacity,      \* DriverOutput::tail_lines
    ChannelCapacity,   \* Lines the subscription holds for a slow receiver.
    MaxLines

ASSUME OutputAssumption ==
    /\ TailCapacity \in Nat \ {0} /\ ChannelCapacity \in Nat \ {0} /\ MaxLines \in Nat
    /\ None \notin Nat

VARIABLES
    captures,      \* Whether the run captures the output.
    driver,        \* The driver runs, or its output has ended.
    printed,       \* How many lines it printed.
    history,       \* How many lines were printed before the run subscribed.
    cursor,        \* The next line of the history, or that the subscription delivers.
    total, tail,   \* BrowserDriverOutputState
    follower,      \* The task that follows the output.
    stage,         \* Where the run is.
    attached,      \* The snapshot attached to the failure of the run.
    received       \* History: the lines captured so far.

capture == <<total, tail>>
outputVars ==
    <<captures, driver, printed, history, cursor, capture, follower, stage, attached, received>>

Snapshot == [total |-> total, tail |-> tail]

-----------------------------------------------------------------------------
(* The capture                                                             *)

\* Mutant: a line that was captured counts, one that was skipped does not.
Skipped_Uncounted(count) == total

\* DriverOutputCapture::skip
Skipped(count) == total + count

Pushed(t, captured) == Append(IF Len(t) >= TailCapacity THEN Tail(t) ELSE t, captured)

\* DriverOutputCapture::push
Push(line) ==
    /\ tail' = Pushed(tail, [sequence |-> total, line |-> line])
    /\ total' = total + 1
    /\ received' = Append(received, line)

-----------------------------------------------------------------------------
(* The driver, outside of this crate, and the task that follows it         *)

OutputInit ==
    /\ captures \in BOOLEAN
    /\ driver = "running" /\ printed = 0 /\ history = 0 /\ cursor = 1
    /\ total = 0 /\ tail = <<>> /\ received = <<>>
    /\ follower = "none" /\ stage = "launched" /\ attached = None

PrintLine ==
    /\ driver = "running" /\ printed < MaxLines
    /\ printed' = printed + 1
    /\ UNCHANGED <<captures, driver, history, cursor, capture, follower, stage, attached, received>>

\* Subscribes to what follows what was printed so far, without a gap.
Follow ==
    /\ stage = "launched"
    /\ IF captures THEN stage' = "following" /\ history' = printed
       ELSE stage' = "executing" /\ UNCHANGED history
    /\ UNCHANGED <<captures, driver, printed, cursor, capture, follower, attached, received>>

\* The driver goes on while the run captures the history, and the subscription fills.
CatchUp ==
    /\ stage = "following" /\ cursor <= history
    /\ Push(cursor)
    /\ cursor' = cursor + 1
    /\ UNCHANGED <<captures, driver, printed, history, follower, stage, attached>>

Spawn ==
    /\ stage = "following" /\ cursor > history
    /\ stage' = "executing" /\ follower' = "following"
    /\ UNCHANGED <<captures, driver, printed, history, cursor, capture, attached, received>>

Follows == follower \in {"following", "aborting"}

Oldest == IF printed > ChannelCapacity THEN printed - ChannelCapacity + 1 ELSE 1

\* A task that is aborted still finishes the poll it is in.
AfterPoll == IF follower = "aborting" THEN {"aborting", "aborted"} ELSE {follower}

Receive ==
    /\ Follows /\ cursor >= Oldest /\ cursor <= printed
    /\ Push(cursor)
    /\ cursor' = cursor + 1
    /\ follower' \in AfterPoll
    /\ UNCHANGED <<captures, driver, printed, history, stage, attached>>

Lag ==
    /\ Follows /\ cursor < Oldest
    /\ total' = Skipped(Oldest - cursor)
    /\ cursor' = Oldest
    /\ follower' \in AfterPoll
    /\ UNCHANGED <<captures, driver, printed, history, tail, stage, attached, received>>

\* The subscription ends only after every line it holds was received.
SubscriptionClosed ==
    /\ Follows /\ driver = "ended" /\ cursor > printed
    /\ follower' = IF follower = "following" THEN "closed" ELSE "aborted"
    /\ UNCHANGED <<captures, driver, printed, history, cursor, capture, stage, attached, received>>

Aborted ==
    /\ follower = "aborting"
    /\ follower' = "aborted"
    /\ UNCHANGED <<captures, driver, printed, history, cursor, capture, stage, attached, received>>

-----------------------------------------------------------------------------
(* The run                                                                 *)

\* ChromeForTesting::shutdown, which may fail and leave the driver running.
ShutDown ==
    /\ stage = "executing"
    /\ stage' = "finishing"
    /\ driver' \in {"running", "ended"}
    /\ UNCHANGED <<captures, printed, history, cursor, capture, follower, attached, received>>

\* DriverOutputFollower::finish: until the task ends, or a second has passed.
FinishFollower ==
    /\ stage = "finishing"
    /\ stage' = "finished"
    /\ follower' = IF follower = "following" THEN "aborting" ELSE follower
    /\ UNCHANGED <<captures, driver, printed, history, cursor, capture, attached, received>>

\* attach_browser_driver_output_to_result
Attach(fails) ==
    /\ stage = "finished"
    /\ stage' = "returned"
    /\ attached' = IF fails /\ captures /\ tail # <<>> THEN Snapshot ELSE None
    /\ UNCHANGED <<captures, driver, printed, history, cursor, capture, follower, received>>

OutputNext ==
    \/ PrintLine \/ Follow \/ CatchUp \/ Spawn \/ Receive \/ Lag \/ SubscriptionClosed \/ Aborted
    \/ ShutDown \/ FinishFollower
    \/ \E fails \in BOOLEAN : Attach(fails)

OutputSpec == OutputInit /\ [][OutputNext]_outputVars

-----------------------------------------------------------------------------
(* Properties                                                              *)

\* The numbers of the lines in the tail and in a failure's attachment are their positions in
\* the driver's output, also after the capture fell behind.  The tail has the last of the lines
\* that were received, in their order and each once, and all lines count: those it dropped,
\* those it skipped, and once the output has ended, every one that was printed.  A failure of a
\* run whose follower saw the end of the output shows how it ended.
OutputIsTrue ==
    LET true(snapshot) ==
            /\ Len(snapshot.tail) <= TailCapacity
            /\ \A i \in DOMAIN snapshot.tail :
                  /\ snapshot.tail[i].sequence = snapshot.tail[i].line - 1
                  /\ snapshot.tail[i].line <= snapshot.total
            /\ snapshot.total <= printed
    IN  /\ true(Snapshot)
        /\ attached # None => true(attached) /\ attached.tail # <<>>
        /\ LET kept == IF Len(received) < TailCapacity THEN Len(received) ELSE TailCapacity
           IN  [i \in DOMAIN tail |-> tail[i].line] =
                  SubSeq(received, Len(received) - kept + 1, Len(received))
        /\ \A i, j \in DOMAIN received : i < j => received[i] < received[j]
        /\ total = cursor - 1
        /\ follower = "closed" =>
              /\ total = printed
              /\ attached # None => attached.total = printed /\ Last(attached.tail).line = printed
=============================================================================
