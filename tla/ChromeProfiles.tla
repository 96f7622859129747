--------------------------- MODULE ChromeProfiles ---------------------------
(***************************************************************************)
(* The Chrome profile directories of profile.rs: runs of several processes *)
(* share one profiles directory.  A starting run first sweeps away the     *)
(* directories of ended runs, then makes its own: it registers its name in *)
(* its process, creates a staging directory, creates and locks the lock    *)
(* file, and renames the directory.  Each session gets a subdirectory.     *)
(*                                                                         *)
(* Every file-system call is a step of its own, so that the sweeps, starts *)
(* and ends of all runs interleave between any two of them, and a process  *)
(* may be killed between any two.  Removing a directory may fail at any    *)
(* point, which is only logged, and a Chrome may outlive its session and   *)
(* its run, when it didn't quit or shut down.                              *)
(*                                                                         *)
(* Two steps of the code are one here: listing the directory, and the      *)
(* checks before the lock file is opened (no name that was listed becomes  *)
(* live, and the run of an old staging directory is gone for good, so that *)
(* nothing can happen between them that matters).                          *)
(***************************************************************************)
EXTENDS Naturals, FiniteSets, Functions

CONSTANTS
    Runs,         \* each has a name of its own (RunProfiles::unique_name)
    Processes,
    ProcessOf,    \* the process of a run
    Unopenable,   \* ended runs whose lock file cannot be opened (permissions)
    MaxSessions,  \* bound: session profiles of one run
    MaxKills,     \* bound: processes killed
    NoRun

ASSUME RunsAssumption == NoRun \notin Runs /\ Unopenable \subseteq Runs
ASSUME ProcessAssumption == ProcessOf \in [Runs -> Processes]
ASSUME BoundsAssumption == MaxSessions \in Nat /\ MaxKills \in Nat

LockFile == <<"run.lock", 0>>
Profile(s) == <<"session", s>>
Sessions == 0 .. MaxSessions - 1
Staging(r) == <<"staging", r>>   \* .staging-<name>
RunDir(r) == <<"run", r>>        \* run-<name>
Paths == {"staging", "run"} \X Runs

VARIABLES
    lockOwner,  \* who owns a lock: the open "file", or the "process" (NFS)
    killed,     \* processes that were killed
    fs,         \* the directories that exist, each with its entries
    lock,       \* lock[r]: the run that has the lock file of r locked
    live,       \* LIVE_RUNS of all processes
    phase,
    todo,       \* directories the sweep of a run still looks at
    at,         \* the directory a run probes or removes
    dir,        \* OwnedDir::path of the directory of a run
    next,       \* next_session
    inUse,      \* sessions of a run that use their profile
    chromes,    \* sessions of a run whose Chrome has not exited
    old,        \* staging directories older than STAGING_GRACE
    due,        \* history: what the sweep of a run has to remove
    remains     \* history: runs that ended before their directory or their Chromes were gone

vars == <<lockOwner, killed, fs, lock, live, phase, todo, at, dir, next, inUse, chromes, old, due,
          remains>>
sweepVars == <<todo, at, due>>
outside == <<lockOwner, killed, old, remains>>
sessionVars == <<next, inUse, chromes>>

IsAlive(r) == ProcessOf[r] \notin killed
SameProcess(r, s) == ProcessOf[r] = ProcessOf[s]
Files(p) == IF p \in DOMAIN fs THEN fs[p] ELSE {}
Put(p, files) == [q \in DOMAIN fs \cup {p} |-> IF q = p THEN files ELSE fs[q]]

-----------------------------------------------------------------------------
(* Locks.  An open file owns its lock, or, where the file system emulates  *)
(* flock, the process does: then another open of the same process takes    *)
(* the lock, and closing that one releases it.                             *)

Shares(r, x) == lockOwner = "process" /\ lock[x] # NoRun /\ SameProcess(lock[x], r)

CanLock(r, x) == lock[x] = NoRun \/ Shares(r, x)

Releases(r, x) == lock[x] = r \/ Shares(r, x)

Unlocked(r, x) == IF Releases(r, x) THEN [lock EXCEPT ![x] = NoRun] ELSE lock

-----------------------------------------------------------------------------
(* The sweep: RunProfiles::remove_abandoned.                               *)

IsStaging(p) == p[1] = "staging"

\* LiveRun::is_alive: only the process of the sweeping run is looked at.
IsLiveHere(r, p) == p[2] \in live /\ SameProcess(r, p[2])

Skips_LiveOnes(r, p) == IsStaging(p) /\ p \notin old

Skips(r, p) ==
    \/ IsLiveHere(r, p)
    \/ IsStaging(p) /\ p \notin old

\* RunLock::is_held: nobody holds a missing lock file, and one that cannot be
\* opened counts as held.
Missing(p) == LockFile \notin Files(p)

Probes(r, p) ==
    /\ LockFile \in Files(p)
    /\ p[2] \notin Unopenable
    /\ CanLock(r, p[2])

\* A directory whose run was killed, or ended without removing it, and its Chromes are gone.
Abandoned(p) ==
    /\ p \in DOMAIN fs
    /\ phase[p[2]] \in {"ended", "killed"}
    /\ IsStaging(p) => p \in old
    /\ LockFile \in Files(p) => p[2] \notin Unopenable
    /\ chromes[p[2]] = {}

StartRun(r) ==
    /\ phase[r] = "new"
    /\ IsAlive(r)
    /\ phase' = [phase EXCEPT ![r] = "sweeping"]
    /\ todo' = [todo EXCEPT ![r] = DOMAIN fs]
    /\ due' = [due EXCEPT ![r] = {p \in DOMAIN fs : Abandoned(p) /\ lock[p[2]] = NoRun}]
    /\ UNCHANGED <<outside, fs, lock, live, at, dir, sessionVars>>

Skip(r, p) ==
    /\ phase[r] = "sweeping"
    /\ p \in todo[r]
    /\ Skips(r, p)
    /\ todo' = [todo EXCEPT ![r] = @ \ {p}]
    /\ UNCHANGED <<outside, fs, lock, live, phase, at, dir, sessionVars, due>>

\* Another sweep that finds the lock taken leaves the directory to this one.
Probe(r, p) ==
    /\ phase[r] = "sweeping"
    /\ p \in todo[r]
    /\ ~Skips(r, p)
    /\ todo' = [todo EXCEPT ![r] = @ \ {p}]
    /\ \/ /\ Missing(p)
          /\ at' = [at EXCEPT ![r] = p]
          /\ phase' = [phase EXCEPT ![r] = "removing"]
          /\ UNCHANGED <<lock, due>>
       \/ /\ Probes(r, p)
          /\ at' = [at EXCEPT ![r] = p]
          /\ phase' = [phase EXCEPT ![r] = "probing"]
          /\ lock' = [lock EXCEPT ![p[2]] = r]
          /\ due' = [s \in Runs |-> IF s = r THEN due[s] ELSE due[s] \ {p}]
       \/ /\ ~Missing(p) /\ ~Probes(r, p)
          /\ UNCHANGED <<at, phase, lock, due>>
    /\ UNCHANGED <<outside, fs, live, dir, sessionVars>>

\* The probe closes the file and found nobody holding the lock.
EndProbe(r) ==
    /\ phase[r] = "probing"
    /\ phase' = [phase EXCEPT ![r] = "removing"]
    /\ lock' = Unlocked(r, at[r][2])
    /\ UNCHANGED <<outside, fs, live, sweepVars, dir, sessionVars>>

\* One step of fs::remove_dir_all: an entry goes, then the empty directory.
Unlinks(p) ==
    \/ \E f \in Files(p) : fs' = Put(p, fs[p] \ {f})
    \/ p \in DOMAIN fs /\ fs[p] = {} /\ fs' = Restrict(fs, DOMAIN fs \ {p})

\* That makes the directory younger: another sweep leaves a staging one to this sweep.
RemoveSome(r) ==
    LET p == IF phase[r] = "removing" THEN at[r] ELSE dir[r]
    IN  /\ phase[r] \in {"removing", "leaving"}
        /\ Unlinks(p)
        /\ old' = old \ {p}
        /\ due' = [s \in Runs |-> IF s = r \/ ~IsStaging(p) THEN due[s] ELSE due[s] \ {p}]
        /\ UNCHANGED <<lockOwner, killed, remains, lock, live, phase, todo, at, dir, sessionVars>>

\* remove_dir returns when the directory is gone, or with a failure that is only logged.
EndRemoval(r) ==
    /\ phase[r] = "removing"
    /\ phase' = [phase EXCEPT ![r] = "sweeping"]
    /\ at' = [at EXCEPT ![r] = RunDir(r)]
    /\ due' = IF at[r] \in DOMAIN fs THEN [due EXCEPT ![r] = @ \ {at[r]}] ELSE due
    /\ UNCHANGED <<outside, fs, lock, live, todo, dir, sessionVars>>

-----------------------------------------------------------------------------
(* The directory of the run: RunProfiles::create_blocking.                 *)

Register(r) ==
    /\ phase[r] = "sweeping"
    /\ todo[r] = {}
    /\ phase' = [phase EXCEPT ![r] = "registered"]
    /\ live' = live \cup {r}
    /\ UNCHANGED <<outside, fs, lock, sweepVars, dir, sessionVars>>

CreateStaging(r) ==
    /\ phase[r] = "registered"
    /\ phase' = [phase EXCEPT ![r] = "staged"]
    /\ fs' = Put(Staging(r), {})
    /\ dir' = [dir EXCEPT ![r] = Staging(r)]
    /\ UNCHANGED <<outside, lock, live, sweepVars, sessionVars>>

CreateLockFile(r) ==
    /\ phase[r] = "staged"
    /\ Staging(r) \in DOMAIN fs
    /\ phase' = [phase EXCEPT ![r] = "filed"]
    /\ fs' = Put(Staging(r), fs[Staging(r)] \cup {LockFile})
    /\ UNCHANGED <<outside, lock, live, sweepVars, dir, sessionVars>>

TryLock(r) ==
    /\ phase[r] = "filed"
    /\ CanLock(r, r)
    /\ phase' = [phase EXCEPT ![r] = "locked"]
    /\ lock' = [lock EXCEPT ![r] = r]
    /\ UNCHANGED <<outside, fs, live, sweepVars, dir, sessionVars>>

Renamed_KeepsPath(r) == Staging(r)

\* OwnedDir::rename: the path follows the directory.
Renamed(r) == RunDir(r)

Rename(r) ==
    /\ phase[r] = "locked"
    /\ Staging(r) \in DOMAIN fs
    /\ phase' = [phase EXCEPT ![r] = "running"]
    /\ fs' = Restrict(Put(RunDir(r), fs[Staging(r)]), (DOMAIN fs \ {Staging(r)}) \cup {RunDir(r)})
    /\ dir' = [dir EXCEPT ![r] = Renamed(r)]
    /\ UNCHANGED <<outside, lock, live, sweepVars, sessionVars>>

\* A step of the creation fails: the lock, the directory and the
\* registration go, in this order.
FailsToStart(r) ==
    /\ phase[r] \in {"registered", "staged", "filed", "locked"}
    /\ phase' = [phase EXCEPT ![r] = "leaving"]
    /\ lock' = Unlocked(r, r)
    /\ UNCHANGED <<outside, fs, live, sweepVars, dir, sessionVars>>

-----------------------------------------------------------------------------
(* Sessions, and the end of the run: RunProfiles::remove.                  *)

CreateSession(r) ==
    /\ phase[r] = "running"
    /\ next[r] < MaxSessions
    /\ RunDir(r) \in DOMAIN fs
    /\ next' = [next EXCEPT ![r] = @ + 1]
    /\ inUse' = [inUse EXCEPT ![r] = @ \cup {next[r]}]
    /\ chromes' = [chromes EXCEPT ![r] = @ \cup {next[r]}]
    /\ fs' = Put(RunDir(r), fs[RunDir(r)] \cup {Profile(next[r])})
    /\ UNCHANGED <<outside, lock, live, phase, sweepVars, dir>>

\* Whether or not its Chrome has quit, the profile is removed, or stays when that fails.
EndSession(r, s) ==
    /\ phase[r] = "running"
    /\ s \in inUse[r]
    /\ inUse' = [inUse EXCEPT ![r] = @ \ {s}]
    /\ \/ RunDir(r) \in DOMAIN fs /\ fs' = Put(RunDir(r), fs[RunDir(r)] \ {Profile(s)})
       \/ fs' = fs
    /\ UNCHANGED <<outside, lock, live, phase, sweepVars, dir, next, chromes>>

\* execute_tests has waited for every session.  Chrome for Testing has shut down, or failed to.
Remove(r) ==
    /\ phase[r] = "running"
    /\ inUse[r] = {}
    /\ phase' = [phase EXCEPT ![r] = "leaving"]
    /\ lock' = Unlocked(r, r)
    /\ UNCHANGED <<outside, fs, live, sweepVars, dir, sessionVars>>

Forgotten_Never(r) == live

\* LiveRun::drop.
Forgotten(r) == live \ {r}

\* The run ends, whether or not its directory is gone.
Deregister(r) ==
    /\ phase[r] = "leaving"
    /\ phase' = [phase EXCEPT ![r] = "ended"]
    /\ live' = Forgotten(r)
    /\ remains' = IF dir[r] \in DOMAIN fs \/ chromes[r] # {} THEN remains \cup {r} ELSE remains
    /\ UNCHANGED <<lockOwner, killed, old, fs, lock, sweepVars, dir, sessionVars>>

-----------------------------------------------------------------------------
(* The environment.                                                        *)

\* The operating system releases the locks of a killed process.
Kill(p) ==
    /\ p \notin killed /\ Cardinality(killed) < MaxKills
    /\ killed' = killed \cup {p}
    /\ phase' = [r \in Runs |-> IF ProcessOf[r] = p /\ phase[r] \notin {"new", "ended"}
                                  THEN "killed" ELSE phase[r]]
    /\ lock' = [r \in Runs |-> IF lock[r] # NoRun /\ ProcessOf[lock[r]] = p THEN NoRun ELSE lock[r]]
    /\ live' = {r \in live : ProcessOf[r] # p}
    /\ inUse' = [r \in Runs |-> IF ProcessOf[r] = p THEN {} ELSE inUse[r]]
    /\ UNCHANGED <<lockOwner, fs, sweepVars, dir, next, chromes, old, remains>>

\* Assumed of STAGING_GRACE: a run that lives does not stay staged that long.
GrowsOld(r) ==
    /\ phase[r] \in {"ended", "killed"}
    /\ Staging(r) \in DOMAIN fs
    /\ old' = old \cup {Staging(r)}
    /\ UNCHANGED <<lockOwner, killed, remains, fs, lock, live, phase, sweepVars, dir, sessionVars>>

\* A Chrome writes to its profile, also when its session or its run is over.
ChromeRecreates(r, s) ==
    /\ s \in chromes[r]
    /\ fs' = Put(RunDir(r), Files(RunDir(r)) \cup {Profile(s)})
    /\ UNCHANGED <<outside, lock, live, phase, sweepVars, dir, sessionVars>>

\* A Chrome exits when its session quits, when Chrome for Testing shuts down, or later.
ChromeExits(r, s) ==
    /\ s \in chromes[r] \ inUse[r]
    /\ chromes' = [chromes EXCEPT ![r] = @ \ {s}]
    /\ UNCHANGED <<outside, fs, lock, live, phase, sweepVars, dir, next, inUse>>

-----------------------------------------------------------------------------
Init ==
    /\ lockOwner \in {"file", "process"}
    /\ killed = {} /\ live = {} /\ old = {} /\ remains = {}
    /\ fs = [p \in {} |-> {}]
    /\ lock = [r \in Runs |-> NoRun]
    /\ phase = [r \in Runs |-> "new"]
    /\ todo = [r \in Runs |-> {}]
    /\ at = [r \in Runs |-> RunDir(r)]
    /\ dir = [r \in Runs |-> Staging(r)]
    /\ next = [r \in Runs |-> 0]
    /\ inUse = [r \in Runs |-> {}] /\ chromes = [r \in Runs |-> {}]
    /\ due = [r \in Runs |-> {}]

Next ==
    \/ \E r \in Runs :
          \/ StartRun(r) \/ EndProbe(r) \/ RemoveSome(r) \/ EndRemoval(r)
          \/ \E p \in todo[r] : Skip(r, p) \/ Probe(r, p)
          \/ Register(r) \/ CreateStaging(r) \/ CreateLockFile(r) \/ TryLock(r) \/ Rename(r)
          \/ FailsToStart(r) \/ CreateSession(r) \/ Remove(r) \/ Deregister(r)
          \/ GrowsOld(r)
          \/ \E s \in Sessions : EndSession(r, s) \/ ChromeRecreates(r, s) \/ ChromeExits(r, s)
    \/ \E p \in Processes : Kill(p)

Spec == Init /\ [][Next]_vars
-----------------------------------------------------------------------------
(* Properties.                                                             *)

\* The type invariant of the variables above. LIVE_RUNS holds the runs of the
\* process from their registration until they have removed their directory, or tried to.
TypeOK ==
    /\ killed \subseteq Processes
    /\ live = {r \in Runs : phase[r] \in {"registered", "staged", "filed", "locked", "running",
                                          "leaving"}}
    /\ DOMAIN fs \subseteq Paths
    /\ \A p \in DOMAIN fs : fs[p] \subseteq {Profile(s) : s \in Sessions} \cup {LockFile}
    /\ lock \in [Runs -> Runs \cup {NoRun}]
    /\ phase \in [Runs -> {"new", "sweeping", "probing", "removing", "registered", "staged",
                           "filed", "locked", "running", "leaving", "ended", "killed"}]
    /\ todo \in [Runs -> SUBSET Paths] /\ due \in [Runs -> SUBSET Paths]
    /\ at \in [Runs -> Paths] /\ dir \in [Runs -> Paths]
    /\ next \in [Runs -> 0 .. MaxSessions] /\ inUse \in [Runs -> SUBSET Sessions]
    /\ chromes \in [Runs -> SUBSET Sessions]
    /\ old \subseteq Paths /\ remains \subseteq Runs

\* No sweep, of this process or another, takes away what a living run uses
\* (the module docs of profile.rs: such runs "are alive").  A running one keeps
\* its directory, its lock file, its lock and the profiles of its sessions; a
\* starting one keeps its staging directory, and no probe makes its lock fail.
LivingRunsAreLeftAlone ==
    \A r \in Runs :
        /\ phase[r] = "running" =>
              /\ lock[r] = r
              /\ {Profile(s) : s \in inUse[r]} \cup {LockFile} \subseteq Files(RunDir(r))
        /\ phase[r] \in {"staged", "filed", "locked"} => Staging(r) \in DOMAIN fs
        /\ phase[r] = "filed" => CanLock(r, r)

\* No directory is left behind for good.  A run that ended, also one that failed to start, leaves
\* none, unless its own removal failed or one of its Chromes outlived it.  What such runs and the
\* killed ones left, a later sweep removes: a run that goes on to make its own directory has
\* removed every directory that was abandoned when its sweep began, also if a removal was
\* interrupted halfway or a Chrome recreated the directory, except those whose removal by this
\* sweep failed and those that it left to another sweep, which was probing or removing them.
NothingLeftBehind ==
    \A r \in Runs :
        /\ phase[r] = "ended" /\ r \notin remains => {Staging(r), RunDir(r)} \cap DOMAIN fs = {}
        /\ phase[r] = "registered" => due[r] \cap DOMAIN fs = {}
=============================================================================
