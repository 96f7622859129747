---------------------------- MODULE PausePrompt ----------------------------
(***************************************************************************)
(* The manual pause of pause.rs, for several runs of a process that pause  *)
(* at the same time.  They ask one after another, in the order they came   *)
(* (tokio's Mutex is fair).  A line is read by a thread, because a read of *)
(* stdin cannot be cancelled: a run that is cancelled at the prompt leaves *)
(* its read behind in PENDING_READ, for the next pause to take.            *)
(***************************************************************************)
EXTENDS Naturals, FiniteSets, SequencesExt

CONSTANTS
    PausingRuns,
    Readers,   \* the threads that may be spawned
    MaxLines,  \* bound: lines the user types
    NoReader

ASSUME ReadersAssumption == NoReader \notin Readers
ASSUME LinesAssumption == MaxLines \in Nat

VARIABLES
    pause,
    prompt,   \* the runs that hold (first) or wait for the prompt lock
    pending,  \* PENDING_READ
    read,     \* read[r]: the reader whose line r awaits
    reader,   \* state of a thread: unspawned, reading, sent or closed
    got,      \* got[t]: what a thread sends
    typed,    \* lines typed so far
    eof,      \* stdin has ended
    used      \* used[l]: the runs that line l was an answer to

pauseVars == <<pause, prompt, pending, read, reader, got, typed, eof, used>>

Lines == 1 .. MaxLines
Eof == 0
Answers == {"continue", "abort", "other"}
Decided == {"continue", "abort", "error", "cancelled"}
Holds(r) == prompt # <<>> /\ Head(prompt) = r

Enter(r) ==
    /\ pause[r] = "new"
    /\ pause' = [pause EXCEPT ![r] = "queued"]
    /\ prompt' = Append(prompt, r)
    /\ UNCHANGED <<pending, read, reader, got, typed, eof, used>>

\* pause: the lock is held from here until the pause returns or is dropped.
Ask(r) ==
    /\ pause[r] = "queued"
    /\ Holds(r)
    /\ pause' = [pause EXCEPT ![r] = "asking"]
    /\ UNCHANGED <<prompt, pending, read, reader, got, typed, eof, used>>

PendingTaken_Copied == pending

\* The read is taken out of PENDING_READ.
PendingTaken == NoReader

\* read_pending_or: the pending read, or a thread that is spawned.
TakeRead(r) ==
    /\ pause[r] = "asking"
    /\ pause' = [pause EXCEPT ![r] = "reading"]
    /\ \/ /\ pending # NoReader
          /\ read' = [read EXCEPT ![r] = pending]
          /\ pending' = PendingTaken
          /\ UNCHANGED reader
       \/ /\ pending = NoReader
          /\ \E t \in Readers :
                /\ reader[t] = "unspawned"
                /\ read' = [read EXCEPT ![r] = t]
                /\ reader' = [reader EXCEPT ![t] = "reading"]
          /\ UNCHANGED pending
    /\ UNCHANGED <<prompt, got, typed, eof, used>>

Decide(r, decision) ==
    /\ pause' = [pause EXCEPT ![r] = decision]
    /\ prompt' = IF decision \in Decided THEN Tail(prompt) ELSE prompt

CannotSpawn(r) ==
    /\ pause[r] = "asking"
    /\ pending = NoReader
    /\ Decide(r, "error")
    /\ UNCHANGED <<pending, read, reader, got, typed, eof, used>>

\* A thread takes a line the user typed, or the end of the input.
Line(t) ==
    /\ reader[t] = "reading"
    /\ reader' = [reader EXCEPT ![t] = "sent"]
    /\ \/ /\ ~eof /\ typed < MaxLines
          /\ typed' = typed + 1
          /\ got' = [got EXCEPT ![t] = typed + 1]
          /\ UNCHANGED eof
       \/ /\ eof' = TRUE
          /\ got' = [got EXCEPT ![t] = Eof]
          /\ UNCHANGED typed
    /\ UNCHANGED <<pause, prompt, pending, read, used>>

\* The channel is received from; an answer that is none asks again.
Answer(r, answer) ==
    /\ pause[r] = "reading"
    /\ reader[read[r]] = "sent"
    /\ reader' = [reader EXCEPT ![read[r]] = "closed"]
    /\ read' = [read EXCEPT ![r] = NoReader]
    /\ LET line == got[read[r]] IN
          IF line = Eof
          THEN Decide(r, "error") /\ UNCHANGED used
          ELSE /\ Decide(r, IF answer = "other" THEN "asking" ELSE answer)
               /\ used' = [used EXCEPT ![line] = @ \cup {r}]
    /\ UNCHANGED <<pending, got, typed, eof>>

PutBack_Never(r) == pending

\* Pending::drop puts the read of a dropped pause back.
PutBack(r) == IF read[r] # NoReader THEN read[r] ELSE pending

Release_HolderOnly(r) == IF Holds(r) THEN Tail(prompt) ELSE prompt

\* Then the lock is released, or the place in its queue given up.
Release(r) == RemoveAt(prompt, CHOOSE i \in DOMAIN prompt : prompt[i] = r)

\* The run is cancelled and drops its pause, also when the line is there.
DropPause(r) ==
    /\ pause[r] \in {"queued", "asking", "reading"}
    /\ pause' = [pause EXCEPT ![r] = "cancelled"]
    /\ pending' = PutBack(r)
    /\ read' = [read EXCEPT ![r] = NoReader]
    /\ prompt' = Release(r)
    /\ UNCHANGED <<reader, got, typed, eof, used>>

PauseInit ==
    /\ pause = [r \in PausingRuns |-> "new"]
    /\ prompt = <<>>
    /\ pending = NoReader
    /\ read = [r \in PausingRuns |-> NoReader]
    /\ reader = [t \in Readers |-> "unspawned"]
    /\ got = [t \in Readers |-> Eof]
    /\ typed = 0
    /\ eof = FALSE
    /\ used = [l \in Lines |-> {}]

Proceed(r) == Ask(r) \/ TakeRead(r) \/ CannotSpawn(r) \/ \E a \in Answers : Answer(r, a)

PauseNext ==
    \/ \E r \in PausingRuns : Enter(r) \/ Proceed(r) \/ DropPause(r)
    \/ \E t \in Readers : Line(t)

PauseSpec == PauseInit /\ [][PauseNext]_pauseVars

\* The runtime polls every run; the user types or closes the input some time.
PauseFairness ==
    /\ \A r \in PausingRuns : WF_pauseVars(Proceed(r))
    /\ \A t \in Readers : WF_pauseVars(Line(t))

-----------------------------------------------------------------------------
(* Properties.                                                             *)

\* The shape of the state.  Among it, hard to see in the code: every read is awaited by one
\* run or is pending, never both, and never do two threads read stdin at once: the second
\* would take the line that the user typed for a prompt only the first one's run shows.
PauseTypeOK ==
    /\ pause \in [PausingRuns -> {"new", "queued", "asking", "reading"} \cup Decided]
    /\ prompt \in Seq(PausingRuns)
    /\ reader \in [Readers -> {"unspawned", "reading", "sent", "closed"}]
    /\ got \in [Readers -> Lines \cup {Eof}]
    /\ typed \in 0 .. MaxLines /\ eof \in BOOLEAN
    /\ used \in [Lines -> SUBSET PausingRuns]
    /\ \A t \in Readers :
          Cardinality({r \in PausingRuns : read[r] = t}) + (IF pending = t THEN 1 ELSE 0)
            = IF reader[t] \in {"reading", "sent"} THEN 1 ELSE 0
    /\ Cardinality({t \in Readers : reader[t] \in {"reading", "sent"}}) <= 1

\* No line is lost or answers twice: it was an answer to one run, or waits
\* in a read for the next pause to take it ("which the next read takes").
NoLineIsLost ==
    \A l \in 1 .. typed :
        \/ Cardinality(used[l]) = 1
        \/ /\ used[l] = {}
           /\ \E t \in {pending} \cup {read[r] : r \in PausingRuns} :
                 t # NoReader /\ reader[t] = "sent" /\ got[t] = l

\* Whatever the runs before it do, also being cancelled in the queue or at
\* the prompt, a run that pauses gets to decide or is cancelled.
EveryPauseEnds ==
    \A r \in PausingRuns : pause[r] = "queued" ~> pause[r] \in Decided
=============================================================================
