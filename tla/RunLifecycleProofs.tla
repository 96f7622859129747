------------------------ MODULE RunLifecycleProofs ------------------------
(***************************************************************************)
(* For any number of runs and tokens, whichever runs ask for the shutdown  *)
(* signals and whenever they come: what a run leaves behind, what its      *)
(* result tells, and which runs a signal may end.  And for any number of   *)
(* runs that pause at once, of threads and of lines: one thread at most    *)
(* reads stdin, and no line is lost or answers twice.                      *)
(***************************************************************************)
EXTENDS MCRunLifecycle, TLAPS, FiniteSetTheorems, SequenceTheorems

\* What a run holds follows from where it is, a browser that failed to shut
\* down excepted.
HoldsWhatItNeeds ==
    \A r \in Runs :
        /\ r \in profiles <=> phase[r] \in {"launching", "executing", "shutting_down", "cleaning"}
        /\ r \in follower => phase[r] \in {"executing", "shutting_down", "cleaning", "following"}
        /\ r \in chrome =>
              \/ phase[r] \in {"executing", "shutting_down"}
              \/ "shutdown" \in happened[r]

\* The errors of a run.
Problems ==
    {"no_test_selected", "listen", "pause", "profiles", "launch", "test", "shutdown", "cancelled"}

Results == [top : Problems \cup {"ok"}, children : SUBSET Problems]

\* A result tells of these errors.  One that is ok has none below it, as a
\* failed shutdown would drop them.
TellsOf(res, errors) ==
    /\ res \in Results
    /\ errors \in SUBSET Problems
    /\ res.top = "ok" => res.children = {}
    /\ errors \subseteq Errors(res)

Unfinished == {"new", "starting", "pausing", "profiling", "launching", "executing"}

\* Until its tests ran, nothing happened to a run that goes on.
Tells ==
    /\ result \in [Runs -> Results]
    /\ happened \in [Runs -> SUBSET Problems]
    /\ \A r \in Runs :
        /\ TellsOf(result[r], happened[r])
        /\ phase[r] \in Unfinished => result[r] = Ok /\ happened[r] = {}

\* Before somebody listens, no run that asked for it has got further than that.
Listens ==
    /\ process = "killed" => listener = "unregistered"
    /\ listener = "unregistered" =>
          \A r \in Runs : tokenOf[r] = SHUTDOWN =>
              r \notin chrome /\ phase[r] \in {"new", "starting", "returned"}

\* A run that was cancelled before it began goes from pause to result.
Doomed ==
    \A r \in Runs : r \in doomed =>
        /\ IsCancelled(r)
        /\ phase[r] \in {"starting", "pausing", "finishing", "returned"}
        /\ r \notin chrome
        /\ phase[r] = "finishing" => result[r] = Ok
        /\ phase[r] = "returned" /\ result[r].top # "listen" => result[r] = Failed("cancelled")

LifecycleInv == TypeOK /\ HoldsWhatItNeeds /\ Tells /\ Listens /\ Doomed

-----------------------------------------------------------------------------
(* What results tell of.                                                   *)

LEMMA OkTells == TellsOf(Ok, {})
BY DEF TellsOf, Ok, Errors, Results

\* Whatever ends a run is all that happened to it.
LEMMA FailedTells ==
    ASSUME NEW error \in Problems \cup {"ok"}
    PROVE  TellsOf(IF error = "ok" THEN Ok ELSE Failed(error), {} \cup ({error} \ {"ok"}))
<1>1. CASE error = "ok"
  BY <1>1, OkTells
<1>2. CASE error # "ok"
  BY <1>2 DEF TellsOf, Failed, Errors, Results, Problems
<1> QED BY <1>1, <1>2

\* A failed shutdown hides no error of the tests.
LEMMA MergedTells ==
    ASSUME NEW res, NEW errors, TellsOf(res, errors)
    PROVE  TellsOf(Merged(res, "shutdown"), errors \cup {"shutdown"})
<1>1. CASE res.top = "ok"
  BY <1>1 DEF TellsOf, Merged, Failed, Errors, Results, Problems
<1>2. CASE res.top # "ok"
  <2> DEFINE merged == Merged(res, "shutdown")
  <2>1. /\ merged \in Results
        /\ merged.top = res.top
        /\ merged.children = res.children \cup {"shutdown"}
    BY <1>2 DEF TellsOf, Merged, Results, Problems
  <2> QED BY <1>2, <2>1 DEF TellsOf, Errors, Results, Problems
<1> QED BY <1>1, <1>2

\* Nor does the cancellation.
LEMMA CancelledTells ==
    ASSUME NEW res, NEW errors, TellsOf(res, errors)
    PROVE  TellsOf(CancelledResult(res), errors)
BY DEF TellsOf, CancelledResult, Errors, Results, Problems

\* A run that ends before its tests ran, with any error or none.
LEMMA EndsTells ==
    ASSUME TypeOK, Tells, NEW r \in Runs, phase[r] \in Unfinished,
           NEW p, p \notin Unfinished, NEW error \in Problems \cup {"ok"}, Ends(r, p, error)
    PROVE  Tells'
<1> DEFINE res == IF error = "ok" THEN Ok ELSE Failed(error)
           errors == {} \cup ({error} \ {"ok"})
<1>1. TellsOf(res, errors)
  BY FailedTells
<1>2. /\ result' = [result EXCEPT ![r] = res]
      /\ happened' = [happened EXCEPT ![r] = errors]
      /\ phase' = [phase EXCEPT ![r] = p]
  BY DEF Ends, Goes, Tells
<1> HIDE DEF res, errors
<1>3. /\ res \in Results
      /\ errors \in SUBSET Problems
  BY <1>1 DEF TellsOf
<1> QED BY <1>1, <1>2, <1>3 DEF Tells, TypeOK, Unfinished

-----------------------------------------------------------------------------

\* Every step of a run, and every signal or cancellation, keeps the invariant.
LEMMA LifecycleStep ==
    LifecycleInv /\ [Next]_vars => LifecycleInv'
<1> SUFFICES ASSUME LifecycleInv, [Next]_vars
             PROVE  LifecycleInv'
  OBVIOUS
<1> USE DEF LifecycleInv
<1>a. SHUTDOWN \in Tokens
  BY TokensAssumption
<1>1. ASSUME NEW r \in Runs, Start(r) PROVE LifecycleInv'
  <2>1. TypeOK'
    BY <1>a, <1>1 DEF Start, Goes, Ends, world, owned, TypeOK
  <2>2. HoldsWhatItNeeds'
    BY <1>1 DEF Start, At, Goes, Ends, owned, TypeOK, HoldsWhatItNeeds, Tells
  <2>3. Tells'
    BY EndsTells, <1>1 DEF Start, At, Goes, TypeOK, Tells, Unfinished, Problems
  <2>4. Listens'
    BY <1>1 DEF Start, Goes, Ends, world, owned, TypeOK, Listens
  <2>5. Doomed'
    <3>1. r \notin doomed /\ r \notin chrome
      BY <1>1 DEF Start, At, Doomed, HoldsWhatItNeeds, Tells, Unfinished
    <3>2. \/ doomed' = doomed
          \/ /\ doomed' \in {doomed, doomed \cup {r}}
             /\ r \in doomed' => IsCancelled(r)
             /\ phase'[r] = "starting"
      BY <1>1, <3>1 DEF Start, Goes, TypeOK
    <3>3. \A s \in Runs \ {r} : result'[s] = result[s] /\ phase'[s] = phase[s]
      BY <1>1 DEF Start, Goes, Ends, Tells, TypeOK
    <3>4. UNCHANGED <<world, owned>>
      BY <1>1 DEF Start
    <3> HIDE DEF Failed
    <3> QED BY <3>1, <3>2, <3>3, <3>4 DEF Doomed, IsCancelled, world, owned
  <2> QED BY <2>1, <2>2, <2>3, <2>4, <2>5
<1>2. ASSUME NEW r \in Runs, RunToken(r) PROVE LifecycleInv'
  <2>1. TypeOK'
    BY <1>a, <1>2 DEF RunToken, Goes, Ends, Registers, owned, TypeOK
  <2>2. HoldsWhatItNeeds'
    BY <1>2 DEF RunToken, At, Goes, Ends, owned, TypeOK, HoldsWhatItNeeds, Tells
  <2>3. Tells'
    BY EndsTells, <1>2 DEF RunToken, At, Goes, TypeOK, Tells, Unfinished, Problems
  <2>4. Listens'
    BY <1>2 DEF RunToken, At, Goes, Ends, Registers, owned, TypeOK, Listens
  <2>5. Doomed'
    BY <1>2 DEF RunToken, Goes, Ends, Registers, owned, TypeOK, Doomed, Tells, IsCancelled
  <2> QED BY <2>1, <2>2, <2>3, <2>4, <2>5
<1>3. ASSUME NEW r \in Runs, Pause(r) PROVE LifecycleInv'
  <2>1. TypeOK'
    BY <1>a, <1>3 DEF Pause, Goes, Ends, world, owned, TypeOK
  <2>2. HoldsWhatItNeeds'
    BY <1>3 DEF Pause, At, Goes, Ends, owned, TypeOK, HoldsWhatItNeeds, Tells
  <2>3. Tells'
    BY EndsTells, <1>3 DEF Pause, At, Goes, TypeOK, Tells, Unfinished, Problems
  <2>4. Listens'
    BY <1>3 DEF Pause, At, Goes, Ends, world, owned, TypeOK, Listens
  <2>5. Doomed'
    BY <1>3 DEF Pause, Goes, Ends, MayPause, world, owned, TypeOK, Doomed, Tells, IsCancelled
  <2> QED BY <2>1, <2>2, <2>3, <2>4, <2>5
<1>4. ASSUME NEW r \in Runs, CancelPause(r) PROVE LifecycleInv'
  <2>1. TypeOK'
    BY <1>a, <1>4 DEF CancelPause, Goes, Ends, world, owned, TypeOK
  <2>2. HoldsWhatItNeeds'
    BY <1>4 DEF CancelPause, At, Goes, Ends, owned, HoldsWhatItNeeds
  <2>3. Tells'
    BY EndsTells, <1>4 DEF CancelPause, At, Unfinished
  <2>4. Listens'
    BY <1>4 DEF CancelPause, At, Goes, Ends, world, owned, Listens
  <2>5. Doomed'
    BY <1>4 DEF CancelPause, Goes, Ends, world, owned, TypeOK, Doomed, Tells, IsCancelled
  <2> QED BY <2>1, <2>2, <2>3, <2>4, <2>5
<1>5. ASSUME NEW r \in Runs, CreateProfiles(r) PROVE LifecycleInv'
  <2>1. TypeOK'
    BY <1>a, <1>5 DEF CreateProfiles, Goes, Ends, world, TypeOK
  <2>2. HoldsWhatItNeeds'
    BY <1>5 DEF CreateProfiles, At, Goes, Ends, TypeOK, HoldsWhatItNeeds, Tells
  <2>3. Tells'
    BY EndsTells, <1>5 DEF CreateProfiles, At, Goes, TypeOK, Tells, Unfinished, Problems
  <2>4. Listens'
    BY <1>5 DEF CreateProfiles, At, Goes, Ends, world, TypeOK, Listens
  <2>5. Doomed'
    BY <1>5 DEF CreateProfiles, At, Goes, Ends, world, TypeOK, Doomed, Tells, IsCancelled
  <2> QED BY <2>1, <2>2, <2>3, <2>4, <2>5
<1>6. ASSUME NEW r \in Runs, Launch(r) PROVE LifecycleInv'
  <2>1. TypeOK'
    BY <1>a, <1>6 DEF Launch, Goes, Ends, world, TypeOK
  <2>2. HoldsWhatItNeeds'
    BY <1>6 DEF Launch, At, Goes, Ends, TypeOK, HoldsWhatItNeeds, Tells
  <2>3. Tells'
    BY EndsTells, <1>6 DEF Launch, At, Goes, TypeOK, Tells, Unfinished, Problems
  <2>4. Listens'
    BY <1>6 DEF Launch, At, Goes, Ends, world, TypeOK, Listens
  <2>5. Doomed'
    BY <1>6 DEF Launch, At, Goes, Ends, world, TypeOK, Doomed, Tells, IsCancelled
  <2> QED BY <2>1, <2>2, <2>3, <2>4, <2>5
<1>7. ASSUME NEW r \in Runs, Execute(r) PROVE LifecycleInv'
  <2>1. TypeOK'
    BY <1>a, <1>7 DEF Execute, Goes, Ends, world, owned, TypeOK
  <2>2. HoldsWhatItNeeds'
    BY <1>7 DEF Execute, At, Goes, Ends, owned, HoldsWhatItNeeds
  <2>3. Tells'
    BY EndsTells, <1>7 DEF Execute, At, Unfinished, Problems
  <2>4. Listens'
    BY <1>7 DEF Execute, At, Goes, Ends, world, owned, Listens
  <2>5. Doomed'
    BY <1>7 DEF Execute, At, Goes, Ends, world, owned, TypeOK, Doomed, IsCancelled
  <2> QED BY <2>1, <2>2, <2>3, <2>4, <2>5
<1>8. ASSUME NEW r \in Runs, Shutdown(r) PROVE LifecycleInv'
  <2>1. TypeOK'
    BY <1>a, <1>8 DEF Shutdown, Goes, AfterShutdown, Closed, world, TypeOK
  <2>2. HoldsWhatItNeeds'
    BY <1>8 DEF Shutdown, At, Goes, AfterShutdown, Closed, TypeOK, HoldsWhatItNeeds, Tells
  <2>3. Tells'
    <3> DEFINE merged == Merged(result[r], "shutdown")
               errors == happened[r] \cup {"shutdown"}
    <3>1. TellsOf(merged, errors)
      BY MergedTells DEF Tells
    <3>2. merged \in Results /\ errors \in SUBSET Problems
      BY <3>1 DEF TellsOf
    <3>3. \/ result' = result /\ happened' = happened
          \/ /\ result' = [result EXCEPT ![r] = merged]
             /\ happened' = [happened EXCEPT ![r] = errors]
      BY <1>8 DEF Shutdown
    <3>4. phase[r] = "shutting_down" /\ phase' = [phase EXCEPT ![r] = "cleaning"]
      BY <1>8 DEF Shutdown, At, Goes, AfterShutdown
    <3> HIDE DEF merged, errors
    <3> QED BY <3>1, <3>2, <3>3, <3>4 DEF TypeOK, Tells, Unfinished
  <2>4. Listens'
    BY <1>8 DEF Shutdown, At, Goes, Closed, world, TypeOK, Listens
  <2>5. Doomed'
    BY <1>8 DEF Shutdown, At, Goes, Closed, world, TypeOK, Doomed, Tells, IsCancelled
  <2> QED BY <2>1, <2>2, <2>3, <2>4, <2>5
<1>9. ASSUME NEW r \in Runs, RemoveProfiles(r) PROVE LifecycleInv'
  <2>1. TypeOK'
    BY <1>a, <1>9 DEF RemoveProfiles, Goes, world, TypeOK
  <2>2. HoldsWhatItNeeds'
    BY <1>9 DEF RemoveProfiles, At, Goes, TypeOK, HoldsWhatItNeeds
  <2>3. Tells'
    BY <1>9 DEF RemoveProfiles, Goes, Tells, Unfinished
  <2>4. Listens'
    BY <1>9 DEF RemoveProfiles, At, Goes, world, Listens
  <2>5. Doomed'
    BY <1>9 DEF RemoveProfiles, At, Goes, world, Doomed, IsCancelled
  <2> QED BY <2>1, <2>2, <2>3, <2>4, <2>5
<1>10. ASSUME NEW r \in Runs, FinishFollowing(r) PROVE LifecycleInv'
  <2>1. TypeOK'
    BY <1>a, <1>10 DEF FinishFollowing, Goes, world, TypeOK
  <2>2. HoldsWhatItNeeds'
    BY <1>10 DEF FinishFollowing, At, Goes, HoldsWhatItNeeds
  <2>3. Tells'
    BY <1>10 DEF FinishFollowing, Goes, Tells, Unfinished
  <2>4. Listens'
    BY <1>10 DEF FinishFollowing, At, Goes, world, Listens
  <2>5. Doomed'
    BY <1>10 DEF FinishFollowing, At, Goes, world, Doomed, IsCancelled
  <2> QED BY <2>1, <2>2, <2>3, <2>4, <2>5
<1>11. ASSUME NEW r \in Runs, Finish(r) PROVE LifecycleInv'
  <2>1. TypeOK'
    BY <1>a, <1>11 DEF Finish, Goes, world, owned, TypeOK
  <2>2. HoldsWhatItNeeds'
    BY <1>11 DEF Finish, At, Goes, owned, HoldsWhatItNeeds
  <2>3. Tells'
    <3> DEFINE told == CancelledResult(result[r])
    <3>1. TellsOf(told, happened[r])
      BY CancelledTells DEF Tells
    <3>2. told \in Results
      BY <3>1 DEF TellsOf
    <3>3. result' = result \/ result' = [result EXCEPT ![r] = told]
      BY <1>11 DEF Finish
    <3>4. happened' = happened /\ phase' = [phase EXCEPT ![r] = "returned"]
      BY <1>11 DEF Finish, Goes
    <3> HIDE DEF told
    <3> QED BY <3>1, <3>2, <3>3, <3>4 DEF TypeOK, Tells, Unfinished
  <2>4. Listens'
    BY <1>11 DEF Finish, Goes, world, owned, Listens
  <2>5. Doomed'
    <3>1. r \in doomed => IsCancelled(r) /\ result[r] = Ok
      BY <1>11 DEF Finish, At, Doomed
    <3>2. CancelledResult(Ok) = Failed("cancelled")
      BY DEF CancelledResult, Ok, Failed, Errors
    <3>3. r \in doomed => result' = [result EXCEPT ![r] = Failed("cancelled")]
      BY <1>11, <3>1, <3>2 DEF Finish
    <3>4. \A s \in Runs \ {r} : result'[s] = result[s] /\ phase'[s] = phase[s]
      BY <1>11 DEF Finish, Goes, Tells, TypeOK
    <3>5. phase'[r] = "returned" /\ UNCHANGED <<world, owned, doomed>>
      BY <1>11 DEF Finish, Goes, TypeOK
    <3>6. r \in doomed => result'[r] = Failed("cancelled")
      BY <3>3 DEF Tells
    <3> HIDE DEF Failed
    <3> QED BY <3>1, <3>4, <3>5, <3>6 DEF Doomed, IsCancelled, world, owned
  <2> QED BY <2>1, <2>2, <2>3, <2>4, <2>5
<1>12. ASSUME NEW s \in Signals, Signal(s) PROVE LifecycleInv'
  <2>1. TypeOK'
    BY <1>a, <1>12 DEF Signal, owned, TypeOK
  <2>2. HoldsWhatItNeeds'
    BY <1>a, <1>12 DEF Signal, owned, HoldsWhatItNeeds
  <2>3. Tells'
    BY <1>a, <1>12 DEF Signal, Tells
  <2>4. Listens'
    BY <1>a, <1>12 DEF Signal, owned, Listens
  <2>5. Doomed'
    BY <1>a, <1>12 DEF Signal, owned, Doomed, IsCancelled
  <2> QED BY <2>1, <2>2, <2>3, <2>4, <2>5
<1>13. ASSUME NEW s \in Signals, Receive(s) PROVE LifecycleInv'
  <2>1. TypeOK'
    BY <1>a, <1>13 DEF Receive, CancelledOn, owned, TypeOK
  <2>2. HoldsWhatItNeeds'
    BY <1>a, <1>13 DEF Receive, owned, HoldsWhatItNeeds
  <2>3. Tells'
    BY <1>a, <1>13 DEF Receive, Tells
  <2>4. Listens'
    BY <1>a, <1>13 DEF Receive, Listens
  <2>5. Doomed'
    BY <1>a, <1>13 DEF Receive, CancelledOn, owned, Doomed, IsCancelled
  <2> QED BY <2>1, <2>2, <2>3, <2>4, <2>5
<1>14. ASSUME NEW s \in Tokens, Cancel(s) PROVE LifecycleInv'
  <2>1. TypeOK'
    BY <1>a, <1>14 DEF Cancel, owned, TypeOK
  <2>2. HoldsWhatItNeeds'
    BY <1>a, <1>14 DEF Cancel, owned, HoldsWhatItNeeds
  <2>3. Tells'
    BY <1>a, <1>14 DEF Cancel, Tells
  <2>4. Listens'
    BY <1>a, <1>14 DEF Cancel, owned, Listens
  <2>5. Doomed'
    BY <1>a, <1>14 DEF Cancel, owned, Doomed, IsCancelled
  <2> QED BY <2>1, <2>2, <2>3, <2>4, <2>5
<1>15. CASE UNCHANGED vars
  BY <1>15 DEF vars, TypeOK, HoldsWhatItNeeds, Tells, Listens, Doomed, IsCancelled
<1> QED
  BY <1>1, <1>2, <1>3, <1>4, <1>5, <1>6, <1>7, <1>8, <1>9, <1>10, <1>11, <1>12, <1>13, <1>14, <1>15
     DEF Next, Step

-----------------------------------------------------------------------------
(* The properties.                                                         *)

LEMMA LifecycleBegins ==
    ASSUME Init
    PROVE  LifecycleInv
<1>1. TypeOK /\ HoldsWhatItNeeds /\ Listens /\ Doomed
  BY TokensAssumption DEF Init, TypeOK, HoldsWhatItNeeds, Listens, Doomed
<1>2. Tells
  BY OkTells DEF Init, Tells, TellsOf
<1> QED BY <1>1, <1>2 DEF LifecycleInv

LEMMA LifecycleInvariance == Spec => []LifecycleInv
<1>1. Init => LifecycleInv
  BY LifecycleBegins
<1> QED BY <1>1, LifecycleStep, PTL DEF Spec

\* The variables have their types, and SHUTDOWN is cancelled exactly when the
\* listener has received a first signal (Cancellation::on_shutdown_signals).
THEOREM LifecycleTyped == Spec => []TypeOK
BY LifecycleInvariance, PTL DEF LifecycleInv

\* However a run returns, it removed its profiles, after its browsers, and the
\* task following the driver's output; a browser is left only by a failed
\* shutdown (run_reporting).
THEOREM RunsCleanUp == Spec => []CleansUp
<1>1. LifecycleInv => CleansUp
  BY DEF LifecycleInv, HoldsWhatItNeeds, CleansUp
<1> QED BY <1>1, LifecycleInvariance, PTL

\* No error of a run is missing in its result, whatever failed after it and
\* whether it is cancelled (merge_shutdown_result, cancelled_result).
THEOREM ErrorsAreKept == Spec => []NoErrorIsLost
<1>1. LifecycleInv => NoErrorIsLost
  BY DEF LifecycleInv, Tells, TellsOf, NoErrorIsLost
<1> QED BY <1>1, LifecycleInvariance, PTL

\* A run that asked for the shutdown signals has its listener before it has a
\* browser, so no single signal kills the process over it (run_token).
THEOREM BrowsersOutliveSignals == Spec => []NotKilledWhileBrowsing
<1>1. LifecycleInv => NotKilledWhileBrowsing
  BY DEF LifecycleInv, TypeOK, Listens, NotKilledWhileBrowsing
<1> QED BY <1>1, LifecycleInvariance, PTL

\* A run whose runner is cancelled already starts nothing, and says that it
\* was cancelled (the biased select of run_reporting).
THEOREM LateRunsStartNothing == Spec => []LaterRunsAreCancelled
<1>1. LifecycleInv => LaterRunsAreCancelled
  <2> SUFFICES ASSUME LifecycleInv, NEW r \in doomed
               PROVE  /\ r \notin chrome \cup profiles
                      /\ phase[r] = "returned" /\ result[r].top # "listen" =>
                            result[r] = Failed("cancelled")
    BY DEF LaterRunsAreCancelled
  <2>1. r \in Runs
    BY DEF LifecycleInv, TypeOK
  <2> QED BY <2>1 DEF LifecycleInv, HoldsWhatItNeeds, Doomed
<1> QED BY <1>1, LifecycleInvariance, PTL

-----------------------------------------------------------------------------
(* The runs that pause.                                                    *)

InQueue(r) == pause[r] \in {"queued", "asking", "reading"}
Queued == {r \in PausingRuns : InQueue(r)}
Active(t) == reader[t] \in {"reading", "sent"}

PromptTypeOK ==
    /\ pause \in [PausingRuns -> {"new", "queued", "asking", "reading"} \cup Decided]
    /\ pending \in Readers \cup {NoReader}
    /\ read \in [PausingRuns -> Readers \cup {NoReader}]
    /\ reader \in [Readers -> {"unspawned", "reading", "sent", "closed"}]
    /\ got \in [Readers -> Lines \cup {Eof}]
    /\ typed \in 0 .. MaxLines /\ eof \in BOOLEAN
    /\ used \in [Lines -> SUBSET PausingRuns]

\* A queue of these runs, each once.
QueueOf(queue, runs) ==
    /\ queue \in Seq(PausingRuns)
    /\ \A i, j \in 1..Len(queue) : queue[i] = queue[j] => i = j
    /\ \A r \in PausingRuns : r \in runs <=> \E i \in 1..Len(queue) : queue[i] = r

\* The queue has every run that waits or asks.
QueueIsExact == QueueOf(prompt, Queued)

\* Only the run that holds the prompt asks or reads.
HolderAsks ==
    \A r \in PausingRuns : pause[r] \in {"asking", "reading"} => prompt # <<>> /\ prompt[1] = r

\* Every read is awaited by the run at the prompt or pending, and has a thread.
ReadsAreAwaited ==
    /\ \A r \in PausingRuns : pause[r] = "reading" <=> read[r] # NoReader
    /\ pending # NoReader => \A r \in PausingRuns : read[r] = NoReader
    /\ \A t \in Readers : Active(t) <=> pending = t \/ \E r \in PausingRuns : read[r] = t

\* A line was the answer to one run, or a thread has it that no run heard of.
LinesAreKept ==
    /\ \A l \in Lines : l > typed => used[l] = {}
    /\ \A l \in 1..typed :
          \/ \E r \in PausingRuns : used[l] = {r}
          \/ used[l] = {} /\ \E t \in Readers : reader[t] = "sent" /\ got[t] = l
    /\ \A t \in Readers :
          reader[t] = "sent" /\ got[t] # Eof => got[t] \in 1..typed /\ used[got[t]] = {}

PromptInv == PromptTypeOK /\ QueueIsExact /\ HolderAsks /\ ReadsAreAwaited /\ LinesAreKept

\* No two threads read stdin, or hold a line, at the same time.
OneReader == \A t, u \in Readers : Active(t) /\ Active(u) => t = u

-----------------------------------------------------------------------------
(* The queue of the prompt.                                                *)

LEMMA QueueAppend ==
    ASSUME NEW queue, NEW runs, QueueOf(queue, runs), NEW r \in PausingRuns, r \notin runs
    PROVE  /\ QueueOf(Append(queue, r), runs \cup {r})
           /\ queue # <<>> => Append(queue, r) # <<>> /\ Append(queue, r)[1] = queue[1]
<1> DEFINE longer == Append(queue, r)
<1>1. queue \in Seq(PausingRuns) /\ Len(queue) \in Nat
  BY DEF QueueOf
<1>2. /\ longer \in Seq(PausingRuns)
      /\ Len(longer) = Len(queue) + 1
      /\ longer[Len(queue) + 1] = r
      /\ \A i \in 1..Len(queue) : longer[i] = queue[i]
  BY <1>1
<1> HIDE DEF longer
<1>3. \A i \in 1..Len(queue) : queue[i] # r
  BY DEF QueueOf
<1>4. QueueOf(longer, runs \cup {r})
  <2>1. \A i, j \in 1..Len(longer) : longer[i] = longer[j] => i = j
    BY <1>1, <1>2, <1>3 DEF QueueOf
  <2>2. \A s \in PausingRuns : s \in runs \cup {r} <=> \E i \in 1..Len(longer) : longer[i] = s
    BY <1>1, <1>2 DEF QueueOf
  <2> QED BY <1>2, <2>1, <2>2 DEF QueueOf
<1>5. queue # <<>> => longer # <<>> /\ longer[1] = queue[1]
  BY <1>1, <1>2
<1> QED BY <1>4, <1>5 DEF longer

\* Without its k-th run.
LEMMA QueueWithout ==
    ASSUME NEW queue, NEW runs, QueueOf(queue, runs), NEW k \in 1..Len(queue), NEW shorter,
           shorter \in Seq(PausingRuns), Len(shorter) = Len(queue) - 1,
           \A i \in 1..Len(shorter) : shorter[i] = IF i < k THEN queue[i] ELSE queue[i + 1]
    PROVE  QueueOf(shorter, runs \ {queue[k]})
<1>1. queue \in Seq(PausingRuns) /\ Len(queue) \in Nat
  BY DEF QueueOf
<1>2. \A i, j \in 1..Len(queue) : queue[i] = queue[j] => i = j
  BY DEF QueueOf
<1>3. \A i, j \in 1..Len(shorter) : shorter[i] = shorter[j] => i = j
  <2>1. TAKE i, j \in 1..Len(shorter)
  <2>2. HAVE shorter[i] = shorter[j]
  <2> DEFINE place(n) == IF n < k THEN n ELSE n + 1
  <2>3. /\ place(i) \in 1..Len(queue) /\ shorter[i] = queue[place(i)]
        /\ place(j) \in 1..Len(queue) /\ shorter[j] = queue[place(j)]
    BY <1>1
  <2>4. place(i) = place(j)
    BY <1>2, <2>2, <2>3
  <2> QED BY <1>1, <2>4
<1>4. ASSUME NEW r \in PausingRuns
      PROVE  r \in runs \ {queue[k]} <=> \E i \in 1..Len(shorter) : shorter[i] = r
  <2>1. ASSUME r \in runs, r # queue[k]
        PROVE  \E i \in 1..Len(shorter) : shorter[i] = r
    <3>1. PICK i \in 1..Len(queue) : queue[i] = r
      BY <2>1 DEF QueueOf
    <3>2. CASE i < k
      BY <1>1, <3>1, <3>2
    <3>3. CASE i > k
      <4>1. i - 1 \in 1..Len(shorter) /\ shorter[i - 1] = queue[i]
        BY <1>1, <3>1, <3>3
      <4> QED BY <3>1, <4>1
    <3> QED BY <1>1, <2>1, <3>1, <3>2, <3>3
  <2>2. ASSUME NEW i \in 1..Len(shorter), shorter[i] = r
        PROVE  r \in runs /\ r # queue[k]
    <3>1. PICK j \in 1..Len(queue) : j # k /\ queue[j] = r
      BY <1>1, <2>2
    <3> QED BY <1>2, <3>1 DEF QueueOf
  <2> QED BY <2>1, <2>2
<1> QED BY <1>3, <1>4 DEF QueueOf

LEMMA QueueTail ==
    ASSUME NEW queue, NEW runs, QueueOf(queue, runs), queue # <<>>
    PROVE  QueueOf(Tail(queue), runs \ {queue[1]})
<1>1. queue \in Seq(PausingRuns) /\ Len(queue) \in Nat /\ 1 \in 1..Len(queue)
  BY DEF QueueOf
<1>2. /\ Tail(queue) \in Seq(PausingRuns)
      /\ Len(Tail(queue)) = Len(queue) - 1
      /\ \A i \in 1..Len(Tail(queue)) :
            Tail(queue)[i] = IF i < 1 THEN queue[i] ELSE queue[i + 1]
  BY <1>1
<1> QED BY <1>1, <1>2, QueueWithout

LEMMA SuffixFacts ==
    ASSUME NEW S, NEW q \in Seq(S), NEW k \in 1..Len(q)
    PROVE  /\ SubSeq(q, k + 1, Len(q)) \in Seq(S)
           /\ Len(SubSeq(q, k + 1, Len(q))) = Len(q) - k
           /\ \A i \in 1..(Len(q) - k) : SubSeq(q, k + 1, Len(q))[i] = q[k + i]
OBVIOUS

\* A run that gives up its place leaves the others in theirs.
LEMMA QueueRemove ==
    ASSUME NEW queue, NEW runs, QueueOf(queue, runs), NEW r \in PausingRuns, r \in runs,
           NEW k, k = CHOOSE i \in DOMAIN queue : queue[i] = r
    PROVE  /\ QueueOf(RemoveAt(queue, k), runs \ {r})
           /\ queue[1] # r => RemoveAt(queue, k) # <<>> /\ RemoveAt(queue, k)[1] = queue[1]
<1> DEFINE shorter == RemoveAt(queue, k)
<1>1. queue \in Seq(PausingRuns) /\ Len(queue) \in Nat /\ DOMAIN queue = 1..Len(queue)
  BY DEF QueueOf
<1>2. k \in 1..Len(queue) /\ queue[k] = r
  BY <1>1 DEF QueueOf
<1>3. /\ shorter \in Seq(PausingRuns)
      /\ Len(shorter) = Len(queue) - 1
      /\ \A i \in 1..Len(shorter) : shorter[i] = IF i < k THEN queue[i] ELSE queue[i + 1]
  <2> DEFINE before == SubSeq(queue, 1, k - 1)
             after == SubSeq(queue, k + 1, Len(queue))
  <2>1. /\ before \in Seq(PausingRuns) /\ Len(before) = k - 1
        /\ \A i \in 1..(k - 1) : before[i] = queue[i]
    BY <1>1, <1>2
  <2>2. /\ after \in Seq(PausingRuns) /\ Len(after) = Len(queue) - k
        /\ \A i \in 1..(Len(queue) - k) : after[i] = queue[k + i]
    BY <1>1, <1>2, SuffixFacts
  <2>3. shorter = before \o after
    BY DEF RemoveAt
  <2> HIDE DEF before, after, shorter
  <2>4. shorter \in Seq(PausingRuns) /\ Len(shorter) = Len(queue) - 1
    <3>1. shorter \in Seq(PausingRuns) /\ Len(shorter) = Len(before) + Len(after)
      BY <2>1, <2>2, <2>3, ConcatProperties
    <3> QED BY <1>1, <1>2, <2>1, <2>2, <3>1
  <2>5. /\ Len(shorter) = Len(before) + Len(after)
        /\ \A i \in 1..Len(before) + Len(after) :
              shorter[i] = IF i <= Len(before) THEN before[i] ELSE after[i - Len(before)]
    <3>1. /\ Len(before \o after) = Len(before) + Len(after)
          /\ \A i \in 1..Len(before) + Len(after) :
                (before \o after)[i] =
                    IF i <= Len(before) THEN before[i] ELSE after[i - Len(before)]
      BY <2>1, <2>2, ConcatProperties, ZenonT(30)
    <3> QED BY <2>3, <3>1, ZenonT(30)
  <2>6. ASSUME NEW i \in 1..Len(shorter)
        PROVE  shorter[i] = IF i < k THEN queue[i] ELSE queue[i + 1]
    <3>1. /\ i \in Nat /\ i >= 1 /\ i <= Len(queue) - 1
          /\ k \in Nat /\ k >= 1 /\ k <= Len(queue)
      BY <1>1, <1>2, <2>4
    <3>2. shorter[i] = IF i <= k - 1 THEN before[i] ELSE after[i - (k - 1)]
      BY <2>1, <2>5
    <3>3. CASE i < k
      <4>1. i <= k - 1 /\ i \in 1..(k - 1)
        BY <3>1, <3>3
      <4> QED BY <2>1, <3>2, <3>3, <4>1
    <3>4. CASE ~(i < k)
      <4>1. /\ ~(i <= k - 1)
            /\ i - (k - 1) \in 1..(Len(queue) - k)
            /\ k + (i - (k - 1)) = i + 1
        BY <1>1, <3>1, <3>4
      <4>2. after[i - (k - 1)] = queue[k + (i - (k - 1))]
        BY <2>2, <4>1
      <4> QED BY <3>2, <3>4, <4>1, <4>2
    <3> QED BY <3>3, <3>4
  <2> QED BY <2>4, <2>6
<1> HIDE DEF shorter
<1>4. QueueOf(shorter, runs \ {r})
  BY <1>2, <1>3, QueueWithout
<1>5. queue[1] # r => shorter # <<>> /\ shorter[1] = queue[1]
  <2> SUFFICES ASSUME queue[1] # r
               PROVE  shorter # <<>> /\ shorter[1] = queue[1]
    OBVIOUS
  <2>1. k > 1 /\ Len(queue) > 1
    BY <1>1, <1>2
  <2>2. Len(shorter) > 0 /\ 1 \in 1..Len(shorter)
    BY <1>1, <1>3, <2>1
  <2> QED BY <1>3, <2>1, <2>2
<1> QED BY <1>4, <1>5 DEF shorter

-----------------------------------------------------------------------------
(* The invariant.                                                          *)

LEMMA OneReads ==
    ASSUME HolderAsks, ReadsAreAwaited
    PROVE  /\ OneReader
           /\ \A r, s \in PausingRuns :
                 pause[r] \in {"asking", "reading"} /\ pause[s] \in {"asking", "reading"} => r = s
<1>1. \A r, s \in PausingRuns :
          pause[r] \in {"asking", "reading"} /\ pause[s] \in {"asking", "reading"} => r = s
  BY DEF HolderAsks
<1>2. ASSUME NEW t \in Readers, NEW u \in Readers, Active(t), Active(u)
      PROVE  t = u
  <2>1. /\ pending = t \/ \E r \in PausingRuns : read[r] = t
        /\ pending = u \/ \E r \in PausingRuns : read[r] = u
    BY <1>2 DEF ReadsAreAwaited
  <2>2. t # NoReader /\ u # NoReader
    BY ReadersAssumption
  <2> QED BY <1>1, <2>1, <2>2 DEF ReadsAreAwaited
<1> QED BY <1>1, <1>2 DEF OneReader

LEMMA PromptStep == PromptInv /\ [PauseNext]_pauseVars => PromptInv'
<1> SUFFICES ASSUME PromptInv, [PauseNext]_pauseVars
             PROVE  PromptInv'
  OBVIOUS
<1> USE DEF PromptInv
<1>a. MaxLines \in Nat /\ NoReader \notin Readers
  BY LinesAssumption, ReadersAssumption
<1>b. prompt \in Seq(PausingRuns) /\ (prompt # <<>> => Head(prompt) = prompt[1])
  BY DEF QueueIsExact, QueueOf
<1>1. ASSUME NEW r \in PausingRuns, Enter(r) PROVE PromptInv'
  <2>1. /\ pause[r] = "new" /\ pause' = [pause EXCEPT ![r] = "queued"]
        /\ prompt' = Append(prompt, r)
    BY <1>1 DEF Enter
  <2>2. UNCHANGED <<pending, read, reader, got, typed, eof, used>>
    BY <1>1 DEF Enter
  <2>3. PromptTypeOK'
    BY <2>1, <2>2 DEF PromptTypeOK
  <2>4. /\ QueueOf(prompt', Queued \cup {r})
        /\ prompt # <<>> => prompt' # <<>> /\ prompt'[1] = prompt[1]
    <3>1. r \notin Queued /\ QueueOf(prompt, Queued)
      BY <2>1 DEF Queued, InQueue, QueueIsExact
    <3> QED BY <2>1, <3>1, QueueAppend
  <2>5. QueueIsExact'
    <3>1. Queued' = Queued \cup {r}
      BY <2>1 DEF PromptTypeOK, Queued, InQueue
    <3> QED BY <2>4, <3>1 DEF Queued, QueueIsExact
  <2>6. HolderAsks'
    BY <2>1, <2>4 DEF PromptTypeOK, HolderAsks
  <2>7. ReadsAreAwaited'
    BY <2>1, <2>2 DEF PromptTypeOK, ReadsAreAwaited, Active
  <2>8. LinesAreKept'
    BY <2>2 DEF LinesAreKept
  <2> QED BY <2>3, <2>5, <2>6, <2>7, <2>8
<1>2. ASSUME NEW r \in PausingRuns, Ask(r) PROVE PromptInv'
  <2>1. /\ pause[r] = "queued" /\ pause' = [pause EXCEPT ![r] = "asking"]
        /\ prompt # <<>> /\ prompt[1] = r
    BY <1>b, <1>2 DEF Ask, Holds
  <2>2. UNCHANGED <<prompt, pending, read, reader, got, typed, eof, used>>
    BY <1>2 DEF Ask
  <2>3. PromptTypeOK'
    BY <2>1, <2>2 DEF PromptTypeOK
  <2>4. QueueIsExact'
    <3>1. Queued' = Queued
      BY <2>1 DEF PromptTypeOK, Queued, InQueue
    <3> QED BY <2>2, <3>1 DEF Queued, QueueIsExact
  <2>5. HolderAsks'
    BY <2>1, <2>2 DEF PromptTypeOK, HolderAsks
  <2>6. ReadsAreAwaited'
    BY <2>1, <2>2 DEF PromptTypeOK, ReadsAreAwaited, Active
  <2>7. LinesAreKept'
    BY <2>2 DEF LinesAreKept
  <2> QED BY <2>3, <2>4, <2>5, <2>6, <2>7
<1>3. ASSUME NEW r \in PausingRuns, TakeRead(r) PROVE PromptInv'
  <2>1. pause[r] = "asking" /\ pause' = [pause EXCEPT ![r] = "reading"]
    BY <1>3 DEF TakeRead
  <2>2. UNCHANGED <<prompt, got, typed, eof, used>>
    BY <1>3 DEF TakeRead
  <2>3. \A s \in PausingRuns : read[s] = NoReader
    BY <2>1, OneReads DEF ReadsAreAwaited
  <2>4. \/ /\ pending \in Readers
           /\ read' = [read EXCEPT ![r] = pending]
           /\ pending' = NoReader /\ reader' = reader
        \/ /\ pending = NoReader /\ pending' = NoReader
           /\ \E t \in Readers :
                 /\ reader[t] = "unspawned"
                 /\ read' = [read EXCEPT ![r] = t]
                 /\ reader' = [reader EXCEPT ![t] = "reading"]
    BY <1>3 DEF TakeRead, PendingTaken, PromptTypeOK
  <2>5. PromptTypeOK'
    BY <2>1, <2>2, <2>4 DEF PromptTypeOK
  <2>6. QueueIsExact'
    <3>1. Queued' = Queued
      BY <2>1 DEF PromptTypeOK, Queued, InQueue
    <3> QED BY <2>2, <3>1 DEF Queued, QueueIsExact
  <2>7. HolderAsks'
    BY <2>1, <2>2 DEF PromptTypeOK, HolderAsks
  <2>8. ReadsAreAwaited'
    BY <1>a, <2>1, <2>3, <2>4 DEF PromptTypeOK, ReadsAreAwaited, Active
  <2>9. LinesAreKept'
    BY <2>2, <2>4 DEF PromptTypeOK, LinesAreKept
  <2> QED BY <2>5, <2>6, <2>7, <2>8, <2>9
<1>4. ASSUME NEW r \in PausingRuns, CannotSpawn(r) PROVE PromptInv'
  <2>1. /\ pause[r] = "asking" /\ pause' = [pause EXCEPT ![r] = "error"]
        /\ prompt' = Tail(prompt)
    BY <1>4 DEF CannotSpawn, Decide, Decided
  <2>2. UNCHANGED <<pending, read, reader, got, typed, eof, used>>
    BY <1>4 DEF CannotSpawn
  <2>3. PromptTypeOK'
    BY <2>1, <2>2 DEF PromptTypeOK, Decided
  <2>4. QueueIsExact'
    <3>1. prompt # <<>> /\ prompt[1] = r
      BY <2>1 DEF HolderAsks
    <3>2. QueueOf(prompt', Queued \ {r})
      BY <2>1, <3>1, QueueTail DEF Queued, QueueIsExact
    <3>3. Queued' = Queued \ {r}
      BY <2>1 DEF PromptTypeOK, Queued, InQueue
    <3> QED BY <3>2, <3>3 DEF Queued, QueueIsExact
  <2>5. HolderAsks'
    BY <2>1, OneReads DEF PromptTypeOK, HolderAsks
  <2>6. ReadsAreAwaited'
    BY <2>1, <2>2 DEF PromptTypeOK, ReadsAreAwaited, Active
  <2>7. LinesAreKept'
    BY <2>2 DEF LinesAreKept
  <2> QED BY <2>3, <2>4, <2>5, <2>6, <2>7
<1>5. ASSUME NEW r \in PausingRuns, NEW answer \in Answers, Answer(r, answer) PROVE PromptInv'
  <2> DEFINE t == read[r]
             line == got[t]
             next == IF line = Eof THEN "error" ELSE IF answer = "other" THEN "asking" ELSE answer
  <2>1. /\ pause[r] = "reading" /\ t \in Readers /\ reader[t] = "sent"
        /\ pending = NoReader
        /\ reader' = [reader EXCEPT ![t] = "closed"]
        /\ read' = [read EXCEPT ![r] = NoReader]
    BY <1>5 DEF Answer, PromptTypeOK, ReadsAreAwaited
  <2>2. /\ next \in {"asking", "continue", "abort", "error"}
        /\ pause' = [pause EXCEPT ![r] = next]
        /\ prompt' = IF next = "asking" THEN prompt ELSE Tail(prompt)
    BY <1>5 DEF Answer, Decide, Decided, Answers
  <2>3. UNCHANGED <<pending, got, typed, eof>>
    BY <1>5 DEF Answer
  <2>4. \/ line = Eof /\ used' = used
        \/ /\ line # Eof /\ line \in 1..typed /\ line \in Lines /\ used[line] = {}
           /\ used' = [used EXCEPT ![line] = {r}]
    <3>1. line # Eof => line \in 1..typed /\ line \in Lines /\ used[line] = {}
      BY <1>a, <2>1 DEF LinesAreKept, PromptTypeOK, Lines
    <3>2. \/ line = Eof /\ used' = used
          \/ line # Eof /\ used' = [used EXCEPT ![line] = @ \cup {r}]
      BY <1>5 DEF Answer
    <3> QED BY <3>1, <3>2 DEF PromptTypeOK
  <2>5. \A u \in Readers : Active(u) <=> u = t
    BY <2>1, OneReads DEF OneReader, Active
  <2>6. \A s \in PausingRuns : s # r => pause[s] \notin {"asking", "reading"} /\ read[s] = NoReader
    BY <2>1, OneReads DEF ReadsAreAwaited
  <2> HIDE DEF t, line, next
  <2>7. PromptTypeOK'
    BY <2>1, <2>2, <2>3, <2>4 DEF PromptTypeOK, Decided, Lines
  <2>8. QueueIsExact'
    <3>1. prompt # <<>> /\ prompt[1] = r
      BY <2>1 DEF HolderAsks
    <3>2. CASE next = "asking"
      <4>1. Queued' = Queued
        BY <2>1, <2>2, <3>2 DEF PromptTypeOK, Queued, InQueue
      <4> QED BY <2>2, <3>2, <4>1 DEF Queued, QueueIsExact
    <3>3. CASE next # "asking"
      <4>1. QueueOf(prompt', Queued \ {r})
        BY <2>2, <3>1, <3>3, QueueTail DEF Queued, QueueIsExact
      <4>2. Queued' = Queued \ {r}
        BY <2>2, <3>3 DEF PromptTypeOK, Queued, InQueue
      <4> QED BY <4>1, <4>2 DEF Queued, QueueIsExact
    <3> QED BY <3>2, <3>3
  <2>9. HolderAsks'
    BY <2>1, <2>2, <2>6 DEF PromptTypeOK, HolderAsks
  <2>10. ReadsAreAwaited'
    BY <1>a, <2>1, <2>2, <2>3, <2>5, <2>6 DEF PromptTypeOK, ReadsAreAwaited, Active
  <2>11. LinesAreKept'
    <3>1. \A u \in Readers : reader'[u] # "sent"
      BY <2>1, <2>5 DEF PromptTypeOK, Active
    <3>2. \A l \in Lines : l > typed => used'[l] = {}
      <4> SUFFICES ASSUME NEW l \in Lines, l > typed
                   PROVE  used'[l] = {}
        OBVIOUS
      <4>1. used[l] = {}
        BY DEF LinesAreKept
      <4>2. l \notin 1..typed
        BY <1>a DEF PromptTypeOK, Lines
      <4> QED BY <2>4, <4>1, <4>2 DEF PromptTypeOK
    <3>3. ASSUME NEW l \in 1..typed
          PROVE  \E s \in PausingRuns : used'[l] = {s}
      <4>1. l \in Lines /\ l # Eof
        BY <1>a DEF PromptTypeOK, Lines, Eof
      <4>2. CASE \E s \in PausingRuns : used[l] = {s}
        <5>1. used'[l] = used[l]
          BY <2>4, <4>1, <4>2 DEF PromptTypeOK
        <5> QED BY <4>2, <5>1
      <4>3. CASE \E u \in Readers : reader[u] = "sent" /\ got[u] = l
        <5>1. l = line
          BY <2>5, <4>3 DEF Active, line
        <5> QED BY <2>4, <4>1, <5>1 DEF PromptTypeOK
      <4> QED BY <4>2, <4>3 DEF LinesAreKept
    <3> QED BY <2>3, <3>1, <3>2, <3>3 DEF LinesAreKept
  <2> QED BY <2>7, <2>8, <2>9, <2>10, <2>11
<1>6. ASSUME NEW r \in PausingRuns, DropPause(r) PROVE PromptInv'
  <2>1. /\ InQueue(r) /\ pause' = [pause EXCEPT ![r] = "cancelled"]
        /\ read' = [read EXCEPT ![r] = NoReader]
        /\ pending' = IF read[r] # NoReader THEN read[r] ELSE pending
    BY <1>6 DEF DropPause, PutBack, InQueue
  <2>2. UNCHANGED <<reader, got, typed, eof, used>>
    BY <1>6 DEF DropPause
  <2>3. PromptTypeOK'
    BY <2>1, <2>2 DEF PromptTypeOK, Decided
  <2>4. /\ QueueOf(prompt', Queued \ {r})
        /\ prompt[1] # r => prompt' # <<>> /\ prompt'[1] = prompt[1]
    <3>1. r \in Queued /\ QueueOf(prompt, Queued)
      BY <2>1 DEF Queued, QueueIsExact
    <3> QED BY <1>6, <3>1, QueueRemove DEF DropPause, Release
  <2>5. QueueIsExact'
    <3>1. Queued' = Queued \ {r}
      BY <2>1 DEF PromptTypeOK, Queued, InQueue
    <3> QED BY <2>4, <3>1 DEF Queued, QueueIsExact
  <2>6. HolderAsks'
    BY <2>1, <2>4 DEF PromptTypeOK, HolderAsks
  <2>7. ReadsAreAwaited'
    <3>1. \A s \in PausingRuns : read[r] # NoReader /\ s # r => read[s] = NoReader
      BY OneReads DEF ReadsAreAwaited
    <3> QED BY <1>a, <2>1, <2>2, <3>1 DEF PromptTypeOK, ReadsAreAwaited, Active
  <2>8. LinesAreKept'
    BY <2>2 DEF LinesAreKept
  <2> QED BY <2>3, <2>5, <2>6, <2>7, <2>8
<1>7. ASSUME NEW t \in Readers, Line(t) PROVE PromptInv'
  <2>1. reader[t] = "reading" /\ reader' = [reader EXCEPT ![t] = "sent"]
    BY <1>7 DEF Line
  <2>2. UNCHANGED <<pause, prompt, pending, read, used>>
    BY <1>7 DEF Line
  <2>3. \/ /\ typed < MaxLines /\ typed' = typed + 1
           /\ got' = [got EXCEPT ![t] = typed + 1]
        \/ typed' = typed /\ got' = [got EXCEPT ![t] = Eof]
    BY <1>7 DEF Line
  <2>4. PromptTypeOK'
    <3>1. eof' \in BOOLEAN
      BY <1>7 DEF Line, PromptTypeOK
    <3>2. got' \in [Readers -> Lines \cup {Eof}] /\ typed' \in 0 .. MaxLines
      BY <2>3, LinesAssumption DEF PromptTypeOK, Lines
    <3> QED BY <2>1, <2>2, <3>1, <3>2 DEF PromptTypeOK
  <2>5. QueueIsExact' /\ HolderAsks'
    BY <2>2 DEF QueueIsExact, QueueOf, Queued, InQueue, HolderAsks
  <2>6. ReadsAreAwaited'
    BY <2>1, <2>2 DEF PromptTypeOK, ReadsAreAwaited, Active
  <2>7. LinesAreKept'
    <3>1. \A l \in Lines : l > typed' => used'[l] = {}
      BY <2>2, <2>3 DEF PromptTypeOK, LinesAreKept, Lines
    <3>2. \A u \in Readers : u # t => reader'[u] = reader[u] /\ got'[u] = got[u]
      BY <2>1, <2>3 DEF PromptTypeOK
    <3>3. \A u \in Readers : reader'[u] = "sent" /\ got'[u] # Eof =>
              got'[u] \in 1..typed' /\ used'[got'[u]] = {}
      BY <1>a, <2>1, <2>2, <2>3, <3>2 DEF PromptTypeOK, LinesAreKept, Lines, Eof
    <3>4. \A l \in 1..typed :
              \/ \E r \in PausingRuns : used'[l] = {r}
              \/ used'[l] = {} /\ \E u \in Readers : reader'[u] = "sent" /\ got'[u] = l
      BY <2>1, <2>2, <3>2 DEF LinesAreKept
    <3>5. typed' # typed =>
              /\ typed' = typed + 1 /\ used'[typed'] = {}
              /\ reader'[t] = "sent" /\ got'[t] = typed'
      BY <1>a, <2>1, <2>2, <2>3 DEF PromptTypeOK, LinesAreKept, Lines
    <3> QED BY <3>1, <3>3, <3>4, <3>5 DEF PromptTypeOK, LinesAreKept
  <2> QED BY <2>4, <2>5, <2>6, <2>7
<1>8. CASE UNCHANGED pauseVars
  <2>1. PromptTypeOK' /\ QueueIsExact' /\ HolderAsks'
    BY <1>8 DEF pauseVars, PromptTypeOK, QueueIsExact, QueueOf, Queued, InQueue, HolderAsks
  <2>2. ReadsAreAwaited' /\ LinesAreKept'
    BY <1>8 DEF pauseVars, ReadsAreAwaited, Active, LinesAreKept
  <2> QED BY <2>1, <2>2
<1> QED BY <1>1, <1>2, <1>3, <1>4, <1>5, <1>6, <1>7, <1>8 DEF PauseNext, Proceed

LEMMA PromptBegins ==
    ASSUME PauseInit
    PROVE  PromptInv
<1>1. PromptTypeOK
  <2>1. eof \in BOOLEAN
    BY DEF PauseInit
  <2>2. typed \in 0 .. MaxLines
    BY LinesAssumption DEF PauseInit
  <2> QED BY <2>1, <2>2 DEF PauseInit, PromptTypeOK
<1>2. QueueIsExact
  BY DEF PauseInit, QueueIsExact, QueueOf, Queued, InQueue
<1>3. HolderAsks /\ LinesAreKept
  BY DEF PauseInit, HolderAsks, LinesAreKept
<1>4. ReadsAreAwaited
  BY ReadersAssumption DEF PauseInit, ReadsAreAwaited, Active
<1> QED BY <1>1, <1>2, <1>3, <1>4 DEF PromptInv

LEMMA PromptInvariance == PauseSpec => []PromptInv
<1>1. PauseInit => PromptInv
  BY PromptBegins
<1> QED BY <1>1, PromptStep, PTL DEF PauseSpec

\* Whichever runs pause and are cancelled at the prompt, no second thread reads stdin while one
\* does: it would take the line that answers the prompt shown (pause.rs, read_pending_or).
THEOREM OneThreadReads == PauseSpec => []OneReader
<1>1. PromptInv => OneReader
  BY OneReads DEF PromptInv
<1> QED BY <1>1, PromptInvariance, PTL

\* Every line the user typed is the answer to one run, or still waits in a read for the next
\* pause to take it (Pending::drop, PENDING_READ).
THEOREM LinesAreNotLost == PauseSpec => []NoLineIsLost
<1>1. PromptInv => NoLineIsLost
  <2> SUFFICES ASSUME PromptInv, NEW l \in 1..typed
               PROVE  \/ Cardinality(used[l]) = 1
                      \/ /\ used[l] = {}
                         /\ \E t \in {pending} \cup {read[r] : r \in PausingRuns} :
                               t # NoReader /\ reader[t] = "sent" /\ got[t] = l
    BY DEF NoLineIsLost
  <2>1. CASE \E r \in PausingRuns : used[l] = {r}
    BY <2>1, FS_Singleton
  <2>2. CASE used[l] = {} /\ \E t \in Readers : reader[t] = "sent" /\ got[t] = l
    BY <2>2, ReadersAssumption DEF PromptInv, ReadsAreAwaited, Active
  <2> QED BY <2>1, <2>2 DEF PromptInv, LinesAreKept
<1> QED BY <1>1, PromptInvariance, PTL

LEMMA PromptInvImplies ==
    ASSUME PromptInv
    PROVE  PauseTypeOK
<1> USE DEF PromptInv
<1>1. ASSUME NEW t \in Readers
      PROVE  Cardinality({r \in PausingRuns : read[r] = t}) + (IF pending = t THEN 1 ELSE 0)
               = IF reader[t] \in {"reading", "sent"} THEN 1 ELSE 0
  <2>1. t # NoReader
    BY ReadersAssumption
  <2>2. Active(t) <=> pending = t \/ \E r \in PausingRuns : read[r] = t
    BY DEF ReadsAreAwaited
  <2>3. CASE pending = t
    <3>1. {r \in PausingRuns : read[r] = t} = {}
      BY <2>1, <2>3 DEF ReadsAreAwaited
    <3> QED BY <2>2, <2>3, <3>1, FS_EmptySet DEF Active
  <2>4. CASE pending # t /\ \E r \in PausingRuns : read[r] = t
    <3>1. PICK r \in PausingRuns : read[r] = t
      BY <2>4
    <3>2. \A s \in PausingRuns : read[s] = t => s = r
      BY <2>1, <3>1, OneReads DEF ReadsAreAwaited
    <3>3. {s \in PausingRuns : read[s] = t} = {r}
      BY <3>1, <3>2
    <3>4. Cardinality({s \in PausingRuns : read[s] = t}) = 1
      BY <3>3, FS_Singleton
    <3> QED BY <2>2, <2>4, <3>4 DEF Active
  <2>5. CASE pending # t /\ ~\E r \in PausingRuns : read[r] = t
    <3>1. {r \in PausingRuns : read[r] = t} = {}
      BY <2>5
    <3> QED BY <2>2, <2>5, <3>1, FS_EmptySet DEF Active
  <2> QED BY <2>3, <2>4, <2>5
<1>2. Cardinality({t \in Readers : reader[t] \in {"reading", "sent"}}) <= 1
  <2> DEFINE A == {t \in Readers : reader[t] \in {"reading", "sent"}}
  <2>1. \A t, u \in A : t = u
    BY OneReads DEF OneReader, Active
  <2>2. CASE A = {}
    BY <2>2, FS_EmptySet
  <2>3. CASE A # {}
    <3>1. PICK t \in A : TRUE
      BY <2>3
    <3>2. A = {t}
      BY <2>1, <3>1
    <3> QED BY <3>2, FS_Singleton
  <2> QED BY <2>2, <2>3
<1> QED BY <1>1, <1>2 DEF PauseTypeOK, PromptTypeOK, QueueIsExact, QueueOf

\* The runs of a process and those of them that pause keep their types, each while the others rest:
\* SHUTDOWN is cancelled on a first signal, every read of stdin is awaited by one run or pending,
\* and at most one thread reads.
THEOREM StateTypes == MCSpec => []StateTypeOK
<1> DEFINE Both == LifecycleInv /\ PromptInv
<1>1. NoRuns => LifecycleInv
  <2> SUFFICES ASSUME NoRuns PROVE LifecycleInv
    OBVIOUS
  <2>1. TypeOK /\ HoldsWhatItNeeds /\ Listens /\ Doomed
    BY TokensAssumption DEF NoRuns, TypeOK, HoldsWhatItNeeds, Listens, Doomed
  <2>2. Tells
    BY OkTells DEF NoRuns, Tells, TellsOf
  <2> QED BY <2>1, <2>2 DEF LifecycleInv
<1>2. NoPauses => PromptInv
  <2> SUFFICES ASSUME NoPauses PROVE PromptInv
    OBVIOUS
  <2>1. PromptTypeOK
    <3>1. eof \in BOOLEAN
      BY DEF NoPauses
    <3>2. typed \in 0 .. MaxLines
      BY LinesAssumption DEF NoPauses
    <3> QED BY <3>1, <3>2 DEF NoPauses, PromptTypeOK, Decided
  <2>2. QueueIsExact
    BY DEF NoPauses, QueueIsExact, QueueOf, Queued, InQueue
  <2>3. HolderAsks /\ LinesAreKept
    BY DEF NoPauses, HolderAsks, LinesAreKept
  <2>4. ReadsAreAwaited
    BY ReadersAssumption DEF NoPauses, ReadsAreAwaited, Active
  <2> QED BY <2>1, <2>2, <2>3, <2>4 DEF PromptInv
<1>3. MCInit => Both
  BY <1>1, <1>2, LifecycleBegins, PromptBegins DEF MCInit
<1>4. Both /\ [MCNext]_<<vars, pauseVars>> => Both'
  <2>1. SUFFICES ASSUME Both, [Next]_vars, [PauseNext]_pauseVars PROVE Both'
    BY DEF MCNext
  <2> QED BY <2>1, LifecycleStep, PromptStep
<1>5. Both => StateTypeOK
  BY PromptInvImplies DEF StateTypeOK, LifecycleInv
<1> QED BY <1>3, <1>4, <1>5, PTL DEF MCSpec
=============================================================================
