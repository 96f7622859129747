---------------------------- MODULE RunLifecycle ----------------------------
(***************************************************************************)
(* The runs of one process from start to result (runner.rs), and what      *)
(* cancels them: the shutdown signals or a token of the application        *)
(* (cancellation.rs).  A run pauses, sets up its profiles, launches Chrome *)
(* for Testing, executes its tests (Execution), and takes all of that down *)
(* again.  Runs share the token SHUTDOWN and the listener for the signals. *)
(***************************************************************************)
EXTENDS Naturals, FiniteSets

CONSTANTS
    Runs,
    Tokens,    \* the tokens of the runners, SHUTDOWN among them
    SHUTDOWN   \* the token of Cancellation::on_shutdown_signals

ASSUME TokensAssumption == SHUTDOWN \in Tokens

Signals == {"SIGINT", "SIGTERM"}

VARIABLES
    tokenOf,    \* the token of a run's runner
    process,    \* alive, killed by a signal, or exited on a second one
    listener,   \* unregistered, or the number of signals it has received
    arrived,    \* signals it has not received yet
    cancelled,  \* tokens that are cancelled
    phase,
    chrome,     \* Chrome for Testing of a run is running
    profiles,   \* the run has its profiles (RunProfiles; their directory: ChromeProfiles)
    follower,   \* the task following the driver's output runs
    result,     \* [top |-> "ok" or an error, children |-> further errors]
    happened,   \* history: the errors of a run
    doomed      \* history: runs that were cancelled before they began

vars == <<tokenOf, process, listener, arrived, cancelled, phase, chrome, profiles, follower, result,
          happened, doomed>>
world == <<tokenOf, process, listener, arrived, cancelled>>
owned == <<chrome, profiles, follower>>

Ok == [top |-> "ok", children |-> {}]
Failed(error) == [top |-> error, children |-> {}]
Errors(res) == ({res.top} \cup res.children) \ {"ok"}
IsCancelled(r) == tokenOf[r] \in cancelled

\* The future of a run makes a step only while its process lives.
At(r, p) == process = "alive" /\ phase[r] = p
Goes(r, p) == phase' = [phase EXCEPT ![r] = p]

\* The run goes on with a result that says so if `error` happened.
Ends(r, p, error) ==
    /\ Goes(r, p)
    /\ result' = [result EXCEPT ![r] = IF error = "ok" THEN Ok ELSE Failed(error)]
    /\ happened' = [happened EXCEPT ![r] = @ \cup ({error} \ {"ok"})]

-----------------------------------------------------------------------------
(* BrowserTestRunner::run.                                                 *)

\* An empty run, or one whose filter selects nothing, does nothing at all.
Start(r) ==
    /\ At(r, "new")
    /\ \/ \E error \in {"ok", "no_test_selected"} : Ends(r, "returned", error) /\ UNCHANGED doomed
       \/ /\ Goes(r, "starting")
          /\ doomed' = IF IsCancelled(r) THEN doomed \cup {r} ELSE doomed
          /\ UNCHANGED <<result, happened>>
    /\ UNCHANGED <<world, owned>>

Registers_Later(r) == FALSE

\* Cancellation::run_token: only for the runs that asked for it, and once.
Registers(r) == tokenOf[r] = SHUTDOWN /\ listener = "unregistered"

RunToken(r) ==
    /\ At(r, "starting")
    /\ \/ /\ ~Registers(r)
          /\ Goes(r, "pausing")
          /\ UNCHANGED <<listener, result, happened>>
       \/ /\ Registers(r)
          /\ listener' = "first"
          /\ Goes(r, "pausing")
          /\ UNCHANGED <<result, happened>>
       \/ /\ Registers(r)
          /\ Ends(r, "returned", "listen")
          /\ UNCHANGED listener
    /\ UNCHANGED <<tokenOf, process, arrived, cancelled, owned, doomed>>

MayPause_Unbiased(r) == TRUE

\* The select in run_reporting looks at the cancellation first.
MayPause(r) == ~IsCancelled(r)

PauseCancelled_Never(r) == FALSE

PauseCancelled(r) == IsCancelled(r)

\* The user may never answer.
Pause(r) ==
    /\ At(r, "pausing")
    /\ MayPause(r)
    /\ \/ Goes(r, "profiling") /\ UNCHANGED <<result, happened>>
       \/ \E error \in {"ok", "pause"} : Ends(r, "finishing", error)
    /\ UNCHANGED <<world, owned, doomed>>

CancelPause(r) ==
    /\ At(r, "pausing")
    /\ PauseCancelled(r)
    /\ Ends(r, "finishing", "ok")
    /\ UNCHANGED <<world, owned, doomed>>

CreateProfiles(r) ==
    /\ At(r, "profiling")
    /\ \/ /\ profiles' = profiles \cup {r}
          /\ Goes(r, "launching")
          /\ UNCHANGED <<result, happened>>
       \/ /\ Ends(r, "finishing", "profiles")
          /\ UNCHANGED profiles
    /\ UNCHANGED <<world, chrome, follower, doomed>>

\* A launch that fails, e.g. as it is cancelled, drops the profiles.
Launch(r) ==
    /\ At(r, "launching")
    /\ \/ /\ chrome' = chrome \cup {r}
          /\ follower' \in {follower, follower \cup {r}}
          /\ Goes(r, "executing")
          /\ UNCHANGED <<profiles, result, happened>>
       \/ /\ profiles' = profiles \ {r}
          /\ Ends(r, "finishing", "launch")
          /\ UNCHANGED <<chrome, follower>>
    /\ UNCHANGED <<world, doomed>>

Execute(r) ==
    /\ At(r, "executing")
    /\ \E error \in {"ok", "test"} : Ends(r, "shutting_down", error)
    /\ UNCHANGED <<world, owned, doomed>>

Merged_LastWins(res, error) == Failed(error)

\* merge_shutdown_result: a failed shutdown does not hide the tests' result.
Merged(res, error) ==
    IF res.top = "ok" THEN Failed(error) ELSE [res EXCEPT !.children = @ \cup {error}]

AfterShutdown(error) == "cleaning"

Closed_InBackground(r) == chrome

\* A shutdown that is awaited has ended the driver and its browsers.
Closed(r) == chrome \ {r}

\* Where it fails, browsers may be left.
Shutdown(r) ==
    /\ At(r, "shutting_down")
    /\ \/ /\ chrome' = Closed(r)
          /\ Goes(r, AfterShutdown("ok"))
          /\ UNCHANGED <<result, happened>>
       \/ /\ chrome' \in {chrome, chrome \ {r}}
          /\ Goes(r, AfterShutdown("shutdown"))
          /\ result' = [result EXCEPT ![r] = Merged(@, "shutdown")]
          /\ happened' = [happened EXCEPT ![r] = @ \cup {"shutdown"}]
    /\ UNCHANGED <<world, profiles, follower, doomed>>

\* The run gives up its profiles; that a directory could not be removed is only logged.
RemoveProfiles(r) ==
    /\ At(r, "cleaning")
    /\ profiles' = profiles \ {r}
    /\ Goes(r, "following")
    /\ UNCHANGED <<world, chrome, follower, result, happened, doomed>>

\* DriverOutputFollower::finish waits a second at most, then aborts.
FinishFollowing(r) ==
    /\ At(r, "following")
    /\ follower' = follower \ {r}
    /\ Goes(r, "finishing")
    /\ UNCHANGED <<world, chrome, profiles, result, happened, doomed>>

\* cancelled_result: an error that holds the run's own as its child.
CancelledResult(res) == [top |-> "cancelled", children |-> Errors(res)]

Finish(r) ==
    /\ At(r, "finishing")
    /\ result' = IF IsCancelled(r) THEN [result EXCEPT ![r] = CancelledResult(@)] ELSE result
    /\ Goes(r, "returned")
    /\ UNCHANGED <<world, owned, happened, doomed>>

-----------------------------------------------------------------------------
(* The signals, and the application's own tokens.                          *)

\* Without a listener, a signal ends the process as usual.  Several of one
\* kind that were not received are one.
Signal(s) ==
    /\ process = "alive"
    /\ IF listener = "unregistered"
       THEN process' = "killed" /\ UNCHANGED arrived
       ELSE arrived' = arrived \cup {s} /\ UNCHANGED process
    /\ UNCHANGED <<tokenOf, listener, cancelled, phase, owned, result, happened, doomed>>

CancelledOn(s) == cancelled \cup {SHUTDOWN}

\* The first signal cancels, the second exits the process.
Receive(s) ==
    /\ process = "alive"
    /\ s \in arrived
    /\ arrived' = arrived \ {s}
    /\ \/ /\ listener = "first"
          /\ listener' = "second"
          /\ cancelled' = CancelledOn(s)
          /\ UNCHANGED process
       \/ /\ listener = "second"
          /\ process' = "exited"
          /\ UNCHANGED <<listener, cancelled>>
    /\ UNCHANGED <<tokenOf, phase, owned, result, happened, doomed>>

Cancel(t) ==
    /\ process = "alive"
    /\ t \in Tokens \ (cancelled \cup {SHUTDOWN})
    /\ cancelled' = cancelled \cup {t}
    /\ UNCHANGED <<tokenOf, process, listener, arrived, phase, owned, result, happened, doomed>>

-----------------------------------------------------------------------------
Init ==
    /\ tokenOf \in [Runs -> Tokens]
    /\ process = "alive" /\ listener = "unregistered"
    /\ arrived = {} /\ cancelled = {} /\ doomed = {}
    /\ phase = [r \in Runs |-> "new"]
    /\ chrome = {} /\ profiles = {} /\ follower = {}
    /\ result = [r \in Runs |-> Ok]
    /\ happened = [r \in Runs |-> {}]

\* The steps a run takes by itself, without the user.
Step(r) ==
    \/ RunToken(r) \/ CancelPause(r) \/ CreateProfiles(r) \/ Launch(r) \/ Execute(r)
    \/ Shutdown(r) \/ RemoveProfiles(r) \/ FinishFollowing(r) \/ Finish(r)

Next ==
    \/ \E r \in Runs : Start(r) \/ Pause(r) \/ Step(r)
    \/ \E s \in Signals : Signal(s) \/ Receive(s)
    \/ \E t \in Tokens : Cancel(t)

Spec == Init /\ [][Next]_vars

\* The runtimes poll the runs, and the listener's thread its signals.  That
\* Launch, Execute and Shutdown end rests on Chrome for Testing and on
\* Execution's Terminates.  Users, signals and tokens are not fair.
Fairness ==
    /\ \A r \in Runs : WF_vars(Step(r))
    /\ \A s \in Signals : WF_vars(Receive(s))

-----------------------------------------------------------------------------
(* Properties.                                                             *)

\* The type invariant of the variables above.  The first signal of either kind,
\* and nothing else, cancels SHUTDOWN.
TypeOK ==
    /\ tokenOf \in [Runs -> Tokens]
    /\ process \in {"alive", "killed", "exited"}
    /\ listener \in {"unregistered", "first", "second"}
    /\ arrived \subseteq Signals /\ cancelled \subseteq Tokens
    /\ SHUTDOWN \in cancelled <=> listener = "second"
    /\ phase \in [Runs -> {"new", "starting", "pausing", "profiling", "launching", "executing",
                           "shutting_down", "cleaning", "following", "finishing", "returned"}]
    /\ chrome \subseteq Runs /\ profiles \subseteq Runs /\ follower \subseteq Runs
    /\ doomed \subseteq Runs

\* "Once cancelled, every later run of the runner with tests is cancelled
\* right away": it starts no browser, sets up no profiles, and says so.
LaterRunsAreCancelled ==
    \A r \in doomed :
        /\ r \notin chrome \cup profiles
        /\ phase[r] = "returned" /\ result[r].top # "listen" => result[r] = Failed("cancelled")

\* The result of a run tells of every error on the way: a failed shutdown
\* hides no failed test, and a cancellation neither of them.
NoErrorIsLost ==
    \A r \in Runs : phase[r] = "returned" => happened[r] \subseteq Errors(result[r])

\* However a run returns, it has given up its profiles and its task, and leaves a
\* browser only where Chrome for Testing failed to shut down.  Until then, no
\* profile is removed while browsers use it ("Only now, as Chrome for Testing
\* shut down, no browser uses the profiles anymore").
CleansUp ==
    \A r \in Runs :
        /\ phase[r] = "returned" => r \notin profiles \cup follower
        /\ r \in chrome =>
              \/ "shutdown" \in happened[r]
              \/ phase[r] # "returned" /\ r \in profiles

\* No single signal ends the process over the browsers of a run that asked
\* for the shutdown signals, whichever runs began before it.
NotKilledWhileBrowsing ==
    process = "killed" => \A r \in chrome : tokenOf[r] # SHUTDOWN

\* A cancelled run returns, also when nobody answers its pause, unless a
\* second signal exits the process.
CancelledRunsReturn ==
    \A r \in Runs :
        (IsCancelled(r) /\ phase[r] # "new") ~> (phase[r] = "returned" \/ process # "alive")
=============================================================================
