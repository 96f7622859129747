--------------------------- MODULE MCRunLifecycle ---------------------------
(***************************************************************************)
(* The runs of a process from start to result, and those of them that      *)
(* pause at the same time, each by itself.                                 *)
(***************************************************************************)
EXTENDS RunLifecycle, PausePrompt

\* A process that was killed runs nothing, and runs that were cancelled ask for nothing.
NoRuns ==
    /\ tokenOf = [r \in Runs |-> SHUTDOWN]
    /\ process = "killed" /\ listener = "unregistered"
    /\ arrived = {} /\ cancelled = {} /\ doomed = {}
    /\ phase = [r \in Runs |-> "new"]
    /\ chrome = {} /\ profiles = {} /\ follower = {}
    /\ result = [r \in Runs |-> Ok]
    /\ happened = [r \in Runs |-> {}]

NoPauses ==
    /\ pause = [r \in PausingRuns |-> "cancelled"]
    /\ prompt = <<>> /\ pending = NoReader
    /\ read = [r \in PausingRuns |-> NoReader]
    /\ reader = [t \in Readers |-> "unspawned"] /\ got = [t \in Readers |-> Eof]
    /\ typed = 0 /\ eof = FALSE
    /\ used = [l \in Lines |-> {}]

MCInit == (Init /\ NoPauses) \/ (NoRuns /\ PauseInit)

MCNext == (Next /\ UNCHANGED pauseVars) \/ (PauseNext /\ UNCHANGED vars)

MCSpec == MCInit /\ [][MCNext]_<<vars, pauseVars>> /\ Fairness /\ PauseFairness

\* The state of the runs and that of the pauses have their types.
StateTypeOK == TypeOK /\ PauseTypeOK
=============================================================================
