----------------------- MODULE ChromeProfilesProofs -----------------------
(***************************************************************************)
(* For any number of runs, processes, sessions and kills, whichever way    *)
(* the file system owns locks, and whichever removals fail: no sweep takes *)
(* away what a living run uses, and what runs leave that ended or were     *)
(* killed, later sweeps remove.                                            *)
(***************************************************************************)
EXTENDS ChromeProfiles, TLAPS

\* Nobody needs the directories of such a run, and it has no lock any more.
Gone(r) == phase[r] \in {"leaving", "ended", "killed"}

\* Only such a run can have a directory that is not staging.
Began(r) == phase[r] = "running" \/ Gone(r)

\* It never changes its directory again.
Over(r) == phase[r] \in {"ended", "killed"}

\* A lock file is locked by its run, or by a sweep that probes it.
LocksAreOwned ==
    \A x \in Runs :
        lock[x] # NoRun =>
            \/ lock[x] = x /\ phase[x] \in {"locked", "running"}
            \/ phase[lock[x]] = "probing" /\ at[lock[x]][2] = x

\* What a sweep has listed is as old as it was when it was listed, or older.
ListedHaveBegun ==
    /\ \A x \in Runs : RunDir(x) \in DOMAIN fs => Began(x)
    /\ \A r, x \in Runs : RunDir(x) \in todo[r] => Began(x)

\* Sweeps probe and remove only what the run of the directory is done with.
SweepsAreSafe ==
    /\ \A r \in Runs : phase[r] \in {"probing", "removing"} => Gone(at[r][2])
    /\ \A p \in old : IsStaging(p) /\ Over(p[2])

\* A run has the lock and the files it made.
RunHasItsFiles(r) ==
    /\ phase[r] \in {"staged", "filed", "locked"} => Staging(r) \in DOMAIN fs
    /\ phase[r] \in {"filed", "locked"} => LockFile \in fs[Staging(r)]
    /\ phase[r] = "running" =>
          /\ RunDir(r) \in DOMAIN fs /\ LockFile \in fs[RunDir(r)]
          /\ \A s \in inUse[r] : Profile(s) \in fs[RunDir(r)]

RunsHaveTheirs ==
    \A r \in Runs :
        /\ dir[r][2] = r
        /\ phase[r] # "running" => inUse[r] = {}
        /\ chromes[r] # {} => Began(r)
        /\ phase[r] \in {"locked", "running"} => lock[r] = r
        /\ RunHasItsFiles(r)

ProfilesInv == TypeOK /\ LocksAreOwned /\ ListedHaveBegun /\ SweepsAreSafe /\ RunsHaveTheirs

-----------------------------------------------------------------------------
(* Paths and files.                                                        *)

LEMMA PathFacts ==
    /\ \A r \in Runs : Staging(r) \in Paths /\ RunDir(r) \in Paths
    /\ \A r \in Runs : Staging(r)[2] = r /\ RunDir(r)[2] = r
    /\ \A r \in Runs : IsStaging(Staging(r)) /\ ~IsStaging(RunDir(r))
    /\ \A p \in Paths : p[2] \in Runs /\ (p = Staging(p[2]) \/ p = RunDir(p[2]))
    /\ \A p \in Paths : IsStaging(p) => p = Staging(p[2])
    /\ \A p \in Paths : ~IsStaging(p) => p = RunDir(p[2])
BY DEF Paths, Staging, RunDir, IsStaging

LEMMA FileFacts ==
    /\ \A s \in Sessions : Profile(s) # LockFile
    /\ \A s, u \in Sessions : Profile(s) = Profile(u) => s = u
BY DEF Profile, LockFile

Entries == {Profile(s) : s \in Sessions} \cup {LockFile}

\* The type of the directories.
FsOK(f) == DOMAIN f \subseteq Paths /\ \A p \in DOMAIN f : f[p] \subseteq Entries

\* Only this directory changes.
Within(p) ==
    \A q \in Paths :
        q # p => (q \in DOMAIN fs' <=> q \in DOMAIN fs) /\ (q \in DOMAIN fs => fs'[q] = fs[q])

LEMMA PutFacts ==
    ASSUME FsOK(fs), NEW p \in Paths, NEW files \in SUBSET Entries, fs' = Put(p, files)
    PROVE  FsOK(fs') /\ Within(p) /\ p \in DOMAIN fs' /\ fs'[p] = files
<1>1. fs' = [q \in DOMAIN fs \cup {p} |-> IF q = p THEN files ELSE fs[q]]
  BY DEF Put
<1>2. DOMAIN fs' = DOMAIN fs \cup {p} /\ fs'[p] = files
  BY <1>1
<1>3. \A q \in DOMAIN fs : q # p => fs'[q] = fs[q]
  BY <1>1
<1> QED BY <1>2, <1>3 DEF FsOK, Within

LEMMA UnlinksFacts ==
    ASSUME FsOK(fs), NEW p \in Paths, Unlinks(p)
    PROVE  FsOK(fs') /\ Within(p) /\ DOMAIN fs' \subseteq DOMAIN fs
<1>1. CASE \E f \in Files(p) : fs' = Put(p, fs[p] \ {f})
  <2>1. p \in DOMAIN fs /\ fs[p] \in SUBSET Entries
    BY <1>1 DEF Files, FsOK
  <2>2. PICK f \in Files(p) : fs' = Put(p, fs[p] \ {f})
    BY <1>1
  <2>3. fs[p] \ {f} \in SUBSET Entries
    BY <2>1
  <2>4. FsOK(fs') /\ Within(p)
    BY <2>2, <2>3, PutFacts
  <2>5. DOMAIN fs' = DOMAIN fs
    BY <2>1, <2>2 DEF Put
  <2> QED BY <2>4, <2>5
<1>2. CASE p \in DOMAIN fs /\ fs[p] = {} /\ fs' = Restrict(fs, DOMAIN fs \ {p})
  <2>1. DOMAIN fs' = DOMAIN fs \ {p} /\ \A q \in DOMAIN fs \ {p} : fs'[q] = fs[q]
    BY <1>2 DEF Restrict
  <2> QED BY <2>1 DEF FsOK, Within
<1> QED BY <1>1, <1>2 DEF Unlinks

\* Other runs keep their files.
LEMMA OthersKeepTheirs ==
    ASSUME RunsHaveTheirs, NEW p \in Paths, Within(p), NEW r \in Runs, p[2] # r,
           phase'[r] = phase[r], inUse'[r] = inUse[r]
    PROVE  RunHasItsFiles(r)'
<1>1. /\ Staging(r) \in Paths /\ RunDir(r) \in Paths
      /\ Staging(r) # p /\ RunDir(r) # p
  BY PathFacts
<1>2. /\ Staging(r) \in DOMAIN fs' <=> Staging(r) \in DOMAIN fs
      /\ Staging(r) \in DOMAIN fs => fs'[Staging(r)] = fs[Staging(r)]
      /\ RunDir(r) \in DOMAIN fs' <=> RunDir(r) \in DOMAIN fs
      /\ RunDir(r) \in DOMAIN fs => fs'[RunDir(r)] = fs[RunDir(r)]
  BY <1>1 DEF Within
<1> QED BY <1>2 DEF RunsHaveTheirs, RunHasItsFiles

-----------------------------------------------------------------------------
(* Locks.                                                                  *)

\* Whoever gives up a lock file does not have it any more, and nobody gets it.
LEMMA UnlockedFacts ==
    ASSUME TypeOK, NEW r \in Runs, NEW x \in Runs
    PROVE  /\ Unlocked(r, x) \in [Runs -> Runs \cup {NoRun}]
           /\ Unlocked(r, x)[x] # r
           /\ \A y \in Runs :
                 Unlocked(r, x)[y] = lock[y] \/ (y = x /\ Unlocked(r, x)[y] = NoRun)
<1> DEFINE unlocked == Unlocked(r, x)
<1>1. lock \in [Runs -> Runs \cup {NoRun}] /\ NoRun # r
  BY RunsAssumption DEF TypeOK
<1>2. \/ unlocked = [lock EXCEPT ![x] = NoRun]
      \/ unlocked = lock /\ lock[x] # r
  BY DEF Unlocked, Releases
<1> HIDE DEF unlocked
<1>3. /\ unlocked \in [Runs -> Runs \cup {NoRun}]
      /\ unlocked[x] # r
      /\ \A y \in Runs : unlocked[y] = lock[y] \/ (y = x /\ unlocked[y] = NoRun)
  BY <1>1, <1>2
<1> QED BY <1>3 DEF unlocked

-----------------------------------------------------------------------------
(* The invariant.                                                          *)

LEMMA ProfilesStep == ProfilesInv /\ [Next]_vars => ProfilesInv'
<1> SUFFICES ASSUME ProfilesInv, [Next]_vars
             PROVE  ProfilesInv'
  OBVIOUS
<1> USE DEF ProfilesInv
<1>1. ASSUME NEW r \in Runs, StartRun(r) PROVE ProfilesInv'
  <2>1. /\ phase[r] = "new" /\ phase' = [phase EXCEPT ![r] = "sweeping"]
        /\ todo' = [todo EXCEPT ![r] = DOMAIN fs]
        /\ due' = [due EXCEPT ![r] = {p \in DOMAIN fs : Abandoned(p) /\ lock[p[2]] = NoRun}]
        /\ UNCHANGED <<lockOwner, remains, killed, fs, lock, live, at, dir, next, inUse, chromes,
                       old>>
    BY <1>1 DEF StartRun, outside, sweepVars, sessionVars
  <2>2. TypeOK'
    BY <2>1 DEF TypeOK, FsOK, Entries
  <2>3. LocksAreOwned'
    BY <2>1 DEF TypeOK, LocksAreOwned
  <2>4. ListedHaveBegun'
    BY <2>1 DEF TypeOK, ListedHaveBegun, Began, Gone
  <2>5. SweepsAreSafe'
    BY <2>1 DEF TypeOK, SweepsAreSafe, Gone, Over
  <2>6. RunsHaveTheirs'
    BY <2>1 DEF TypeOK, RunsHaveTheirs, RunHasItsFiles, Began, Gone
  <2> QED BY <2>2, <2>3, <2>4, <2>5, <2>6 DEF ProfilesInv
<1>2. ASSUME NEW r \in Runs, NEW p \in todo[r], Skip(r, p) PROVE ProfilesInv'
  <2>1. /\ todo' = [todo EXCEPT ![r] = @ \ {p}]
        /\ UNCHANGED <<lockOwner, remains, killed, fs, lock, live, phase, at, dir, next, inUse,
                       chromes, old, due>>
    BY <1>2 DEF Skip, outside, sweepVars, sessionVars
  <2>2. TypeOK'
    BY <2>1 DEF TypeOK, FsOK, Entries
  <2>3. LocksAreOwned'
    BY <2>1 DEF TypeOK, LocksAreOwned
  <2>4. ListedHaveBegun'
    BY <2>1 DEF TypeOK, ListedHaveBegun, Began, Gone
  <2>5. SweepsAreSafe'
    BY <2>1 DEF TypeOK, SweepsAreSafe, Gone, Over
  <2>6. RunsHaveTheirs'
    BY <2>1 DEF TypeOK, RunsHaveTheirs, RunHasItsFiles, Began, Gone
  <2> QED BY <2>2, <2>3, <2>4, <2>5, <2>6 DEF ProfilesInv
<1>3. ASSUME NEW r \in Runs, NEW p \in todo[r], Probe(r, p) PROVE ProfilesInv'
  <2>1. /\ phase[r] = "sweeping" /\ ~Skips(r, p)
        /\ todo' = [todo EXCEPT ![r] = @ \ {p}]
        /\ \/ /\ Missing(p) /\ at' = [at EXCEPT ![r] = p]
              /\ phase' = [phase EXCEPT ![r] = "removing"] /\ UNCHANGED <<lock, due>>
           \/ /\ Probes(r, p) /\ at' = [at EXCEPT ![r] = p]
              /\ phase' = [phase EXCEPT ![r] = "probing"]
              /\ lock' = [lock EXCEPT ![p[2]] = r]
              /\ due' = [s \in Runs |-> IF s = r THEN due[s] ELSE due[s] \ {p}]
           \/ UNCHANGED <<at, phase, lock, due>>
        /\ UNCHANGED <<lockOwner, remains, killed, fs, live, dir, next, inUse, chromes, old>>
    BY <1>3 DEF Probe, outside, sweepVars, sessionVars
  <2>2. p \in Paths /\ p[2] \in Runs
    BY PathFacts DEF TypeOK
  <2>3. ASSUME Missing(p) \/ Probes(r, p)
        PROVE  Gone(p[2])
    <3>1. CASE IsStaging(p)
      BY <2>1, <3>1 DEF Skips, SweepsAreSafe, Gone, Over
    <3>2. CASE ~IsStaging(p)
      <4>1. p = RunDir(p[2]) /\ Began(p[2])
        BY <2>2, <3>2, PathFacts DEF ListedHaveBegun
      <4>2. CASE phase[p[2]] = "running"
        <5>1. /\ ~SameProcess(r, p[2])
              /\ lock[p[2]] = p[2] /\ LockFile \in Files(p)
          BY <2>1, <2>2, <4>1, <4>2
             DEF TypeOK, Skips, IsLiveHere, RunsHaveTheirs, RunHasItsFiles, Files
        <5> QED BY <2>2, <2>3, <5>1, RunsAssumption
                DEF Missing, Probes, CanLock, Shares, SameProcess
      <4> QED BY <4>1, <4>2 DEF Began
    <3> QED BY <3>1, <3>2
  <2>4. TypeOK'
    BY <2>1, <2>2, <2>3 DEF TypeOK, FsOK, Entries
  <2>5. LocksAreOwned'
    BY <2>1, <2>2, <2>3, RunsAssumption DEF TypeOK, LocksAreOwned, Gone
  <2>6. ListedHaveBegun'
    BY <2>1, <2>2, <2>3 DEF TypeOK, ListedHaveBegun, Began, Gone
  <2>7. SweepsAreSafe'
    <3>1. \A x \in Runs : Gone(x) => Gone(x)'
      BY <2>1 DEF TypeOK, Gone
    <3>2. phase'[r] \in {"probing", "removing"} => at'[r] = p /\ Gone(p[2])
      BY <2>1, <2>3 DEF TypeOK
    <3>3. \A x \in Runs : x # r => phase'[x] = phase[x] /\ at'[x] = at[x]
      BY <2>1 DEF TypeOK
    <3>4. \A x \in Runs : phase'[x] \in {"probing", "removing"} => Gone(at[x][2])'
      <4>1. ASSUME NEW x \in Runs, x # r, phase[x] \in {"probing", "removing"}
            PROVE  Gone(at[x][2]) /\ at[x][2] \in Runs
        BY <4>1, PathFacts DEF TypeOK, SweepsAreSafe, Over
      <4>2. ASSUME NEW x \in Runs, phase'[x] \in {"probing", "removing"}
            PROVE  Gone(at'[x][2]) /\ at'[x][2] \in Runs
        BY <2>2, <3>2, <3>3, <4>1, <4>2
      <4> QED BY <3>1, <4>2 DEF Gone
    <3>5. \A q \in old' : IsStaging(q) /\ Over(q[2])'
      BY <2>1, PathFacts DEF TypeOK, SweepsAreSafe, Over
    <3> QED BY <3>4, <3>5 DEF SweepsAreSafe
  <2>8. RunsHaveTheirs'
    BY <2>1, <2>2, <2>3, RunsAssumption DEF TypeOK, RunsHaveTheirs, RunHasItsFiles, Began, Gone
  <2> QED BY <2>4, <2>5, <2>6, <2>7, <2>8 DEF ProfilesInv
<1>4. ASSUME NEW r \in Runs, EndProbe(r) PROVE ProfilesInv'
  <2>1. /\ phase[r] = "probing" /\ phase' = [phase EXCEPT ![r] = "removing"]
        /\ lock' = Unlocked(r, at[r][2])
        /\ UNCHANGED <<lockOwner, remains, killed, fs, live, todo, at, dir, next, inUse, chromes,
                       old, due>>
    BY <1>4 DEF EndProbe, outside, sweepVars, sessionVars
  <2>2. Gone(at[r][2]) /\ at[r][2] \in Runs
    BY <2>1, PathFacts DEF TypeOK, SweepsAreSafe, Over
  <2>3. \A x \in Runs : lock'[x] = lock[x] \/ (x = at[r][2] /\ lock'[x] = NoRun)
    BY <2>1, <2>2, UnlockedFacts
  <2>4. lock'[at[r][2]] # r /\ lock' \in [Runs -> Runs \cup {NoRun}]
    BY <2>1, <2>2, UnlockedFacts
  <2>5. TypeOK'
    BY <2>1, <2>2, <2>3, <2>4 DEF TypeOK, FsOK, Entries
  <2>6. LocksAreOwned'
    BY <2>1, <2>2, <2>3, <2>4 DEF TypeOK, LocksAreOwned
  <2>7. ListedHaveBegun'
    BY <2>1, <2>2, <2>3, <2>4 DEF TypeOK, ListedHaveBegun, Began, Gone
  <2>8. SweepsAreSafe'
    BY <2>1, <2>2, <2>3, <2>4 DEF TypeOK, SweepsAreSafe, Gone, Over
  <2>9. RunsHaveTheirs'
    BY <2>1, <2>2, <2>3, <2>4, RunsAssumption DEF TypeOK, RunsHaveTheirs, RunHasItsFiles, Began, Gone
  <2> QED BY <2>5, <2>6, <2>7, <2>8, <2>9 DEF ProfilesInv
<1>5. ASSUME NEW r \in Runs, RemoveSome(r) PROVE ProfilesInv'
  <2>1. /\ phase[r] \in {"removing", "leaving"}
        /\ Unlinks(IF phase[r] = "removing" THEN at[r] ELSE dir[r])
        /\ old' \subseteq old
        /\ due' \in [Runs -> SUBSET Paths]
        /\ UNCHANGED <<lockOwner, remains, killed, lock, live, phase, todo, at, dir, next, inUse,
                       chromes>>
    BY <1>5 DEF RemoveSome, sessionVars, TypeOK
  <2>2. PICK p \in Paths : Unlinks(p) /\ Gone(p[2])
    BY <2>1 DEF TypeOK, SweepsAreSafe, RunsHaveTheirs, Gone
  <2>3. FsOK(fs') /\ Within(p) /\ DOMAIN fs' \subseteq DOMAIN fs
    BY <2>2, UnlinksFacts DEF TypeOK, FsOK, Entries
  <2>4. \A x \in Runs : Gone(x) \/ RunHasItsFiles(x)'
    BY <2>1, <2>2, <2>3, OthersKeepTheirs
  <2>5. TypeOK'
    BY <2>1, <2>2, <2>3, <2>4 DEF TypeOK, FsOK, Entries
  <2>6. LocksAreOwned'
    BY <2>1, <2>2, <2>3, <2>4 DEF TypeOK, LocksAreOwned
  <2>7. ListedHaveBegun'
    BY <2>1, <2>2, <2>3, <2>4 DEF TypeOK, ListedHaveBegun, Began, Gone
  <2>8. SweepsAreSafe'
    BY <2>1, <2>2, <2>3, <2>4 DEF TypeOK, SweepsAreSafe, Gone, Over
  <2>9. RunsHaveTheirs'
    <3>1. \A x \in Runs : Gone(x) => RunHasItsFiles(x)'
      BY <2>1 DEF Gone, RunHasItsFiles
    <3> QED BY <2>1, <2>4, <3>1 DEF RunsHaveTheirs, Began, Gone
  <2> QED BY <2>5, <2>6, <2>7, <2>8, <2>9 DEF ProfilesInv
<1>6. ASSUME NEW r \in Runs, EndRemoval(r) PROVE ProfilesInv'
  <2>1. /\ phase[r] = "removing" /\ phase' = [phase EXCEPT ![r] = "sweeping"]
        /\ at' = [at EXCEPT ![r] = RunDir(r)]
        /\ due' \in [Runs -> SUBSET Paths]
        /\ UNCHANGED <<lockOwner, remains, killed, fs, lock, live, todo, dir, next, inUse, chromes,
                       old>>
    BY <1>6 DEF EndRemoval, outside, sessionVars, TypeOK
  <2>2. TypeOK'
    BY <2>1, PathFacts DEF TypeOK
  <2>3. LocksAreOwned'
    BY <2>1 DEF TypeOK, LocksAreOwned
  <2>4. ListedHaveBegun'
    BY <2>1 DEF TypeOK, ListedHaveBegun, Began, Gone
  <2>5. SweepsAreSafe'
    BY <2>1 DEF TypeOK, SweepsAreSafe, Gone, Over
  <2>6. RunsHaveTheirs'
    BY <2>1 DEF TypeOK, RunsHaveTheirs, RunHasItsFiles, Began, Gone
  <2> QED BY <2>2, <2>3, <2>4, <2>5, <2>6 DEF ProfilesInv
<1>7. ASSUME NEW r \in Runs, Register(r) PROVE ProfilesInv'
  <2>1. /\ phase[r] = "sweeping" /\ phase' = [phase EXCEPT ![r] = "registered"]
        /\ live' = live \cup {r}
        /\ UNCHANGED <<lockOwner, remains, killed, fs, lock, todo, at, dir, next, inUse, chromes,
                       old, due>>
    BY <1>7 DEF Register, outside, sweepVars, sessionVars
  <2>2. TypeOK'
    BY <2>1 DEF TypeOK, FsOK, Entries
  <2>3. LocksAreOwned'
    BY <2>1 DEF TypeOK, LocksAreOwned
  <2>4. ListedHaveBegun'
    BY <2>1 DEF TypeOK, ListedHaveBegun, Began, Gone
  <2>5. SweepsAreSafe'
    BY <2>1 DEF TypeOK, SweepsAreSafe, Gone, Over
  <2>6. RunsHaveTheirs'
    BY <2>1 DEF TypeOK, RunsHaveTheirs, RunHasItsFiles, Began, Gone
  <2> QED BY <2>2, <2>3, <2>4, <2>5, <2>6 DEF ProfilesInv
<1>8. ASSUME NEW r \in Runs, CreateStaging(r) PROVE ProfilesInv'
  <2>1. /\ phase[r] = "registered" /\ phase' = [phase EXCEPT ![r] = "staged"]
        /\ fs' = Put(Staging(r), {})
        /\ dir' = [dir EXCEPT ![r] = Staging(r)]
        /\ UNCHANGED <<lockOwner, remains, killed, lock, live, todo, at, next, inUse, chromes, old,
                       due>>
    BY <1>8 DEF CreateStaging, outside, sweepVars, sessionVars
  <2>2. FsOK(fs') /\ Within(Staging(r)) /\ Staging(r) \in DOMAIN fs' /\ fs'[Staging(r)] = {}
    BY <2>1, PathFacts, PutFacts DEF TypeOK, FsOK, Entries
  <2>3. \A x \in Runs : x # r => RunHasItsFiles(x)'
    BY <2>1, PathFacts, <2>2, OthersKeepTheirs DEF TypeOK
  <2>4. TypeOK'
    BY <2>1, <2>2, <2>3, PathFacts DEF TypeOK, FsOK, Entries
  <2>5. LocksAreOwned'
    BY <2>1, <2>2, <2>3 DEF TypeOK, LocksAreOwned
  <2>6. ListedHaveBegun'
    BY <2>1, <2>2, <2>3, PathFacts DEF TypeOK, ListedHaveBegun, Began, Gone, Within
  <2>7. SweepsAreSafe'
    BY <2>1, <2>2, <2>3 DEF TypeOK, SweepsAreSafe, Gone, Over
  <2>8. RunsHaveTheirs'
    <3>1. RunHasItsFiles(r)'
      BY <2>1, <2>2 DEF TypeOK, RunsHaveTheirs, RunHasItsFiles, Began, Gone
    <3> QED BY <2>1, <2>3, <3>1, PathFacts DEF TypeOK, RunsHaveTheirs, Began, Gone
  <2> QED BY <2>4, <2>5, <2>6, <2>7, <2>8 DEF ProfilesInv
<1>9. ASSUME NEW r \in Runs, CreateLockFile(r) PROVE ProfilesInv'
  <2>1. /\ phase[r] = "staged" /\ phase' = [phase EXCEPT ![r] = "filed"]
        /\ Staging(r) \in DOMAIN fs
        /\ fs' = Put(Staging(r), fs[Staging(r)] \cup {LockFile})
        /\ UNCHANGED <<lockOwner, remains, killed, lock, live, todo, at, dir, next, inUse, chromes,
                       old, due>>
    BY <1>9 DEF CreateLockFile, outside, sweepVars, sessionVars
  <2>2. FsOK(fs') /\ Within(Staging(r)) /\ Staging(r) \in DOMAIN fs' /\ fs'[Staging(r)] = fs[Staging(r)] \cup {LockFile}
    BY <2>1, PathFacts, PutFacts DEF TypeOK, FsOK, Entries
  <2>3. \A x \in Runs : x # r => RunHasItsFiles(x)'
    BY <2>1, PathFacts, <2>2, OthersKeepTheirs DEF TypeOK
  <2>4. TypeOK'
    BY <2>1, <2>2, <2>3 DEF TypeOK, FsOK, Entries
  <2>5. LocksAreOwned'
    BY <2>1, <2>2, <2>3 DEF TypeOK, LocksAreOwned
  <2>6. ListedHaveBegun'
    BY <2>1, <2>2, <2>3, PathFacts DEF TypeOK, ListedHaveBegun, Began, Gone, Within
  <2>7. SweepsAreSafe'
    BY <2>1, <2>2, <2>3 DEF TypeOK, SweepsAreSafe, Gone, Over
  <2>8. RunsHaveTheirs'
    <3>1. RunHasItsFiles(r)'
      BY <2>1, <2>2 DEF TypeOK, RunsHaveTheirs, RunHasItsFiles, Began, Gone
    <3> QED BY <2>1, <2>3, <3>1, PathFacts DEF TypeOK, RunsHaveTheirs, Began, Gone
  <2> QED BY <2>4, <2>5, <2>6, <2>7, <2>8 DEF ProfilesInv
<1>10. ASSUME NEW r \in Runs, TryLock(r) PROVE ProfilesInv'
  <2>1. /\ phase[r] = "filed" /\ phase' = [phase EXCEPT ![r] = "locked"]
        /\ lock' = [lock EXCEPT ![r] = r]
        /\ UNCHANGED <<lockOwner, remains, killed, fs, live, todo, at, dir, next, inUse, chromes,
                       old, due>>
    BY <1>10 DEF TryLock, outside, sweepVars, sessionVars
  <2>2. TypeOK'
    BY <2>1 DEF TypeOK, FsOK, Entries
  <2>3. LocksAreOwned'
    BY <2>1 DEF TypeOK, LocksAreOwned
  <2>4. ListedHaveBegun'
    BY <2>1 DEF TypeOK, ListedHaveBegun, Began, Gone
  <2>5. SweepsAreSafe'
    BY <2>1 DEF TypeOK, SweepsAreSafe, Gone, Over
  <2>6. RunsHaveTheirs'
    BY <2>1 DEF TypeOK, RunsHaveTheirs, RunHasItsFiles, Began, Gone
  <2> QED BY <2>2, <2>3, <2>4, <2>5, <2>6 DEF ProfilesInv
<1>11. ASSUME NEW r \in Runs, Rename(r) PROVE ProfilesInv'
  <2>1. /\ phase[r] = "locked" /\ phase' = [phase EXCEPT ![r] = "running"]
        /\ Staging(r) \in DOMAIN fs
        /\ fs' = Restrict(Put(RunDir(r), fs[Staging(r)]), (DOMAIN fs \ {Staging(r)}) \cup {RunDir(r)})
        /\ dir' = [dir EXCEPT ![r] = RunDir(r)]
        /\ UNCHANGED <<lockOwner, remains, killed, lock, live, todo, at, next, inUse, chromes, old,
                       due>>
    BY <1>11 DEF Rename, outside, sweepVars, sessionVars, Renamed
  <2>2. /\ DOMAIN fs' = (DOMAIN fs \ {Staging(r)}) \cup {RunDir(r)}
        /\ \A q \in DOMAIN fs' : fs'[q] = IF q = RunDir(r) THEN fs[Staging(r)] ELSE fs[q]
    BY <2>1 DEF Put, Restrict
  <2>3. FsOK(fs')
    BY <2>1, <2>2, PathFacts DEF TypeOK, FsOK, Entries
  <2>4. \A x \in Runs : x # r => RunHasItsFiles(x)'
    <3> SUFFICES ASSUME NEW x \in Runs, x # r
                 PROVE  RunHasItsFiles(x)'
      OBVIOUS
    <3>1. Staging(x) \notin {Staging(r), RunDir(r)} /\ RunDir(x) \notin {Staging(r), RunDir(r)}
      BY PathFacts
    <3>2. RunHasItsFiles(x) /\ phase'[x] = phase[x] /\ inUse'[x] = inUse[x]
      BY <2>1 DEF TypeOK, RunsHaveTheirs, Began, Gone
    <3> QED BY <2>2, <3>1, <3>2 DEF RunHasItsFiles
  <2>5. TypeOK'
    <3>1. live' = {x \in Runs : phase'[x] \in {"registered", "staged", "filed", "locked",
                                              "running", "leaving"}}
      BY <2>1 DEF TypeOK
    <3>2. DOMAIN fs' \subseteq Paths /\ \A p \in DOMAIN fs' : fs'[p] \subseteq Entries
      BY <2>3 DEF FsOK
    <3>3. phase' \in [Runs -> {"new", "sweeping", "probing", "removing", "registered", "staged",
                              "filed", "locked", "running", "leaving", "ended", "killed"}]
      BY <2>1 DEF TypeOK
    <3>4. dir' \in [Runs -> Paths]
      BY <2>1, PathFacts DEF TypeOK
    <3> QED BY <2>1, <3>1, <3>2, <3>3, <3>4 DEF TypeOK, Entries
  <2>6. LocksAreOwned'
    BY <2>1, <2>2, <2>3, <2>4 DEF TypeOK, LocksAreOwned
  <2>7. ListedHaveBegun'
    BY <2>1, <2>2, <2>3, <2>4, PathFacts DEF TypeOK, ListedHaveBegun, Began, Gone
  <2>8. SweepsAreSafe'
    BY <2>1, <2>2, <2>3, <2>4 DEF TypeOK, SweepsAreSafe, Gone, Over
  <2>9. RunsHaveTheirs'
    <3>1. lock[r] = r
      BY <2>1 DEF LocksAreOwned, RunsHaveTheirs
    <3>2. RunHasItsFiles(r)'
      BY <2>1, <2>2 DEF TypeOK, RunsHaveTheirs, RunHasItsFiles, Began, Gone
    <3> QED BY <2>1, <2>4, <3>1, <3>2, PathFacts DEF TypeOK, RunsHaveTheirs, Began, Gone
  <2> QED BY <2>5, <2>6, <2>7, <2>8, <2>9 DEF ProfilesInv
<1>12. ASSUME NEW r \in Runs, FailsToStart(r) PROVE ProfilesInv'
  <2>1. /\ phase[r] \in {"registered", "staged", "filed", "locked"}
        /\ phase' = [phase EXCEPT ![r] = "leaving"]
        /\ lock' = Unlocked(r, r)
        /\ UNCHANGED <<lockOwner, remains, killed, fs, live, todo, at, dir, next, inUse, chromes,
                       old, due>>
    BY <1>12 DEF FailsToStart, outside, sweepVars, sessionVars
  <2>2. \A x \in Runs : lock'[x] = lock[x] \/ (x = r /\ lock'[x] = NoRun)
    BY <2>1, UnlockedFacts
  <2>3. lock'[r] # r /\ lock' \in [Runs -> Runs \cup {NoRun}]
    BY <2>1, UnlockedFacts
  <2>4. TypeOK'
    BY <2>1, <2>2, <2>3 DEF TypeOK, FsOK, Entries
  <2>5. LocksAreOwned'
    BY <2>1, <2>2, <2>3 DEF TypeOK, LocksAreOwned
  <2>6. ListedHaveBegun'
    BY <2>1, <2>2, <2>3 DEF TypeOK, ListedHaveBegun, Began, Gone
  <2>7. SweepsAreSafe'
    BY <2>1, <2>2, <2>3 DEF TypeOK, SweepsAreSafe, Gone, Over
  <2>8. RunsHaveTheirs'
    BY <2>1, <2>2, <2>3 DEF TypeOK, RunsHaveTheirs, RunHasItsFiles, Began, Gone
  <2> QED BY <2>4, <2>5, <2>6, <2>7, <2>8 DEF ProfilesInv
<1>13. ASSUME NEW r \in Runs, CreateSession(r) PROVE ProfilesInv'
  <2>1. /\ phase[r] = "running"
        /\ next[r] < MaxSessions
        /\ RunDir(r) \in DOMAIN fs
        /\ next' = [next EXCEPT ![r] = @ + 1]
        /\ inUse' = [inUse EXCEPT ![r] = @ \cup {next[r]}]
        /\ chromes' = [chromes EXCEPT ![r] = @ \cup {next[r]}]
        /\ fs' = Put(RunDir(r), fs[RunDir(r)] \cup {Profile(next[r])})
        /\ UNCHANGED <<lockOwner, remains, killed, lock, live, phase, todo, at, dir, old, due>>
    BY <1>13 DEF CreateSession, outside, sweepVars, sessionVars
  <2>2. next[r] \in Sessions /\ next[r] + 1 \in 0 .. MaxSessions
    BY <2>1, BoundsAssumption DEF TypeOK, Sessions
  <2>3. /\ FsOK(fs') /\ Within(RunDir(r))
        /\ RunDir(r) \in DOMAIN fs' /\ fs'[RunDir(r)] = fs[RunDir(r)] \cup {Profile(next[r])}
    <3>1. FsOK(fs) /\ fs[RunDir(r)] \cup {Profile(next[r])} \in SUBSET Entries
      BY <2>1, <2>2 DEF TypeOK, FsOK, Entries
    <3> QED BY <2>1, <3>1, PathFacts, PutFacts
  <2>4. \A x \in Runs : x # r => RunHasItsFiles(x)'
    BY <2>1, <2>3, PathFacts, OthersKeepTheirs DEF TypeOK
  <2>5. TypeOK'
    BY <2>1, <2>2, <2>3, <2>4 DEF TypeOK, FsOK, Entries
  <2>6. LocksAreOwned'
    BY <2>1, <2>2, <2>3, <2>4 DEF TypeOK, LocksAreOwned
  <2>7. ListedHaveBegun'
    BY <2>1, <2>2, <2>3, <2>4, PathFacts DEF TypeOK, ListedHaveBegun, Began, Gone, Within
  <2>8. SweepsAreSafe'
    BY <2>1, <2>2, <2>3, <2>4 DEF TypeOK, SweepsAreSafe, Gone, Over
  <2>9. RunsHaveTheirs'
    <3>1. RunHasItsFiles(r)'
      <4>1. phase'[r] = "running" /\ inUse'[r] = inUse[r] \cup {next[r]}
        BY <2>1 DEF TypeOK
      <4>2. /\ LockFile \in fs[RunDir(r)]
            /\ \A s \in inUse[r] : Profile(s) \in fs[RunDir(r)]
        BY <2>1 DEF RunsHaveTheirs, RunHasItsFiles
      <4> QED BY <2>3, <4>1, <4>2 DEF RunHasItsFiles
    <3> QED BY <2>1, <2>4, <3>1, PathFacts DEF TypeOK, RunsHaveTheirs, Began, Gone
  <2> QED BY <2>5, <2>6, <2>7, <2>8, <2>9 DEF ProfilesInv
<1>14. ASSUME NEW r \in Runs, NEW s \in Sessions, EndSession(r, s) PROVE ProfilesInv'
  <2>1. /\ phase[r] = "running" /\ s \in inUse[r]
        /\ inUse' = [inUse EXCEPT ![r] = @ \ {s}]
        /\ fs' = Put(RunDir(r), fs[RunDir(r)] \ {Profile(s)}) \/ fs' = fs
        /\ UNCHANGED <<lockOwner, remains, killed, lock, live, phase, todo, at, dir, next, chromes,
                       old,
                       due>>
    BY <1>14 DEF EndSession, outside, sweepVars, sessionVars
  <2>2. RunDir(r) \in DOMAIN fs
    BY <2>1 DEF RunsHaveTheirs, RunHasItsFiles, Began, Gone
  <2>3. /\ FsOK(fs') /\ Within(RunDir(r)) /\ RunDir(r) \in DOMAIN fs'
        /\ fs[RunDir(r)] \ {Profile(s)} \subseteq fs'[RunDir(r)]
    <3>1. FsOK(fs) /\ fs[RunDir(r)] \ {Profile(s)} \in SUBSET Entries
      BY <2>2 DEF TypeOK, FsOK, Entries
    <3>2. CASE fs' = fs
      BY <2>2, <3>1, <3>2 DEF Within
    <3>3. CASE fs' = Put(RunDir(r), fs[RunDir(r)] \ {Profile(s)})
      <4>1. RunDir(r) \in Paths
        BY PathFacts
      <4>2. FsOK(fs') /\ Within(RunDir(r)) /\ RunDir(r) \in DOMAIN fs'
        BY <3>1, <3>3, <4>1, PutFacts
      <4>3. fs'[RunDir(r)] = fs[RunDir(r)] \ {Profile(s)}
        BY <3>1, <3>3, <4>1, PutFacts
      <4> QED BY <4>2, <4>3
    <3> QED BY <2>1, <3>2, <3>3
  <2>4. \A x \in Runs : x # r => RunHasItsFiles(x)'
    BY <2>1, <2>2, PathFacts, <2>3, OthersKeepTheirs DEF TypeOK
  <2>5. TypeOK'
    BY <2>1, <2>2, <2>3, <2>4 DEF TypeOK, FsOK, Entries
  <2>6. LocksAreOwned'
    BY <2>1, <2>2, <2>3, <2>4 DEF TypeOK, LocksAreOwned
  <2>7. ListedHaveBegun'
    BY <2>1, <2>2, <2>3, <2>4, PathFacts DEF TypeOK, ListedHaveBegun, Began, Gone, Within
  <2>8. SweepsAreSafe'
    BY <2>1, <2>2, <2>3, <2>4 DEF TypeOK, SweepsAreSafe, Gone, Over
  <2>9. RunsHaveTheirs'
    <3>1. RunHasItsFiles(r)'
      BY <2>1, <2>3, FileFacts DEF TypeOK, RunsHaveTheirs, RunHasItsFiles, Began, Gone
    <3> QED BY <2>1, <2>4, <3>1 DEF TypeOK, RunsHaveTheirs, Began, Gone
  <2> QED BY <2>5, <2>6, <2>7, <2>8, <2>9 DEF ProfilesInv
<1>15. ASSUME NEW r \in Runs, Remove(r) PROVE ProfilesInv'
  <2>1. /\ phase[r] = "running" /\ inUse[r] = {}
        /\ phase' = [phase EXCEPT ![r] = "leaving"]
        /\ lock' = Unlocked(r, r)
        /\ UNCHANGED <<lockOwner, remains, killed, fs, live, todo, at, dir, next, inUse, chromes,
                       old, due>>
    BY <1>15 DEF Remove, outside, sweepVars, sessionVars
  <2>2. \A x \in Runs : lock'[x] = lock[x] \/ (x = r /\ lock'[x] = NoRun)
    BY <2>1, UnlockedFacts
  <2>3. lock'[r] # r /\ lock' \in [Runs -> Runs \cup {NoRun}]
    BY <2>1, UnlockedFacts
  <2>4. TypeOK'
    BY <2>1, <2>2, <2>3 DEF TypeOK, FsOK, Entries
  <2>5. LocksAreOwned'
    BY <2>1, <2>2, <2>3 DEF TypeOK, LocksAreOwned
  <2>6. ListedHaveBegun'
    BY <2>1, <2>2, <2>3 DEF TypeOK, ListedHaveBegun, Began, Gone
  <2>7. SweepsAreSafe'
    BY <2>1, <2>2, <2>3 DEF TypeOK, SweepsAreSafe, Gone, Over
  <2>8. RunsHaveTheirs'
    BY <2>1, <2>2, <2>3 DEF TypeOK, RunsHaveTheirs, RunHasItsFiles, Began, Gone
  <2> QED BY <2>4, <2>5, <2>6, <2>7, <2>8 DEF ProfilesInv
<1>16. ASSUME NEW r \in Runs, Deregister(r) PROVE ProfilesInv'
  <2>1. /\ phase[r] = "leaving" /\ phase' = [phase EXCEPT ![r] = "ended"]
        /\ live' = live \ {r}
        /\ remains' \subseteq Runs
        /\ UNCHANGED <<lockOwner, killed, fs, lock, todo, at, dir, next, inUse, chromes, old, due>>
    BY <1>16 DEF Deregister, sweepVars, sessionVars, Forgotten, TypeOK
  <2>2. TypeOK'
    BY <2>1 DEF TypeOK, FsOK, Entries
  <2>3. LocksAreOwned'
    BY <2>1 DEF TypeOK, LocksAreOwned
  <2>4. ListedHaveBegun'
    BY <2>1 DEF TypeOK, ListedHaveBegun, Began, Gone
  <2>5. SweepsAreSafe'
    BY <2>1 DEF TypeOK, SweepsAreSafe, Gone, Over
  <2>6. RunsHaveTheirs'
    BY <2>1 DEF TypeOK, RunsHaveTheirs, RunHasItsFiles, Began, Gone
  <2> QED BY <2>2, <2>3, <2>4, <2>5, <2>6 DEF ProfilesInv
<1>17. ASSUME NEW p \in Processes, Kill(p) PROVE ProfilesInv'
  <2>1. /\ killed' = killed \cup {p}
        /\ phase' = [r \in Runs |-> IF ProcessOf[r] = p /\ phase[r] \notin {"new", "ended"}
                                     THEN "killed" ELSE phase[r]]
        /\ lock' = [r \in Runs |-> IF lock[r] # NoRun /\ ProcessOf[lock[r]] = p THEN NoRun
                                                                         ELSE lock[r]]
        /\ live' = {r \in live : ProcessOf[r] # p}
        /\ inUse' = [r \in Runs |-> IF ProcessOf[r] = p THEN {} ELSE inUse[r]]
        /\ UNCHANGED <<lockOwner, remains, fs, todo, at, dir, next, chromes, old, due>>
    BY <1>17 DEF Kill, outside, sweepVars, sessionVars
  <2>2. TypeOK'
    BY <2>1 DEF TypeOK, FsOK, Entries
  <2>3. LocksAreOwned'
    BY <2>1 DEF TypeOK, LocksAreOwned
  <2>4. ListedHaveBegun'
    BY <2>1 DEF TypeOK, ListedHaveBegun, Began, Gone
  <2>5. SweepsAreSafe'
    BY <2>1, PathFacts DEF TypeOK, SweepsAreSafe, Gone, Over
  <2>6. RunsHaveTheirs'
    BY <2>1 DEF TypeOK, RunsHaveTheirs, RunHasItsFiles, Began, Gone
  <2> QED BY <2>2, <2>3, <2>4, <2>5, <2>6 DEF ProfilesInv
<1>18. ASSUME NEW r \in Runs, GrowsOld(r) PROVE ProfilesInv'
  <2>1. /\ phase[r] \in {"ended", "killed"} /\ Staging(r) \in DOMAIN fs
        /\ old' = old \cup {Staging(r)}
        /\ UNCHANGED <<lockOwner, remains, killed, fs, lock, live, phase, todo, at, dir, next,
                       inUse, chromes, due>>
    BY <1>18 DEF GrowsOld, outside, sweepVars, sessionVars
  <2>2. TypeOK'
    BY <2>1 DEF TypeOK, FsOK, Entries
  <2>3. LocksAreOwned'
    BY <2>1 DEF TypeOK, LocksAreOwned
  <2>4. ListedHaveBegun'
    BY <2>1 DEF TypeOK, ListedHaveBegun, Began, Gone
  <2>5. SweepsAreSafe'
    BY <2>1, PathFacts DEF TypeOK, SweepsAreSafe, Gone, Over
  <2>6. RunsHaveTheirs'
    BY <2>1 DEF TypeOK, RunsHaveTheirs, RunHasItsFiles, Began, Gone
  <2> QED BY <2>2, <2>3, <2>4, <2>5, <2>6 DEF ProfilesInv
<1>19. ASSUME NEW r \in Runs, NEW s \in Sessions, ChromeRecreates(r, s) PROVE ProfilesInv'
  <2>1. /\ s \in chromes[r] /\ Began(r)
        /\ fs' = Put(RunDir(r), Files(RunDir(r)) \cup {Profile(s)})
        /\ UNCHANGED <<lockOwner, remains, killed, lock, live, phase, todo, at, dir, next, inUse,
                       chromes, old, due>>
    BY <1>19 DEF ChromeRecreates, outside, sweepVars, sessionVars, RunsHaveTheirs
  <2>2. /\ FsOK(fs') /\ Within(RunDir(r)) /\ RunDir(r) \in DOMAIN fs'
        /\ fs'[RunDir(r)] = Files(RunDir(r)) \cup {Profile(s)}
    <3>1. FsOK(fs) /\ Files(RunDir(r)) \cup {Profile(s)} \in SUBSET Entries
      BY PathFacts DEF TypeOK, FsOK, Entries, Files
    <3> QED BY <2>1, <3>1, PathFacts, PutFacts
  <2>3. \A x \in Runs : x # r => RunHasItsFiles(x)'
    BY <2>1, <2>2, PathFacts, OthersKeepTheirs DEF TypeOK
  <2>4. TypeOK'
    BY <2>1, <2>2, <2>3 DEF TypeOK, FsOK, Entries
  <2>5. LocksAreOwned'
    BY <2>1, <2>2, <2>3 DEF TypeOK, LocksAreOwned
  <2>6. ListedHaveBegun'
    <3>1. \A x \in Runs : RunDir(x) \in DOMAIN fs' => RunDir(x) \in DOMAIN fs \/ x = r
      BY <2>2, PathFacts DEF Within
    <3>2. \A x \in Runs : Began(x) <=> Began(x)'
      BY <2>1 DEF Began, Gone
    <3> QED BY <2>1, <3>1, <3>2 DEF ListedHaveBegun, Began, Gone
  <2>7. SweepsAreSafe'
    BY <2>1, <2>2, <2>3 DEF TypeOK, SweepsAreSafe, Gone, Over
  <2>8. RunsHaveTheirs'
    <3>1. RunHasItsFiles(r)'
      BY <2>1, <2>2 DEF TypeOK, RunsHaveTheirs, RunHasItsFiles, Began, Gone, Files
    <3> QED BY <2>1, <2>3, <3>1, PathFacts DEF TypeOK, RunsHaveTheirs, Began, Gone
  <2> QED BY <2>4, <2>5, <2>6, <2>7, <2>8 DEF ProfilesInv
<1>20. ASSUME NEW r \in Runs, NEW s \in Sessions, ChromeExits(r, s) PROVE ProfilesInv'
  <2>1. /\ chromes' = [chromes EXCEPT ![r] = @ \ {s}]
        /\ UNCHANGED <<lockOwner, remains, killed, fs, lock, live, phase, todo, at, dir, next,
                       inUse,
                       old, due>>
    BY <1>20 DEF ChromeExits, outside, sweepVars
  <2>2. TypeOK'
    BY <2>1 DEF TypeOK, FsOK, Entries
  <2>3. LocksAreOwned'
    BY <2>1 DEF TypeOK, LocksAreOwned
  <2>4. ListedHaveBegun'
    BY <2>1 DEF TypeOK, ListedHaveBegun, Began, Gone
  <2>5. SweepsAreSafe'
    BY <2>1 DEF TypeOK, SweepsAreSafe, Gone, Over
  <2>6. RunsHaveTheirs'
    BY <2>1 DEF TypeOK, RunsHaveTheirs, RunHasItsFiles, Began, Gone
  <2> QED BY <2>2, <2>3, <2>4, <2>5, <2>6 DEF ProfilesInv
<1>21. CASE UNCHANGED vars
  BY <1>21 DEF vars, TypeOK, LocksAreOwned, ListedHaveBegun, Began, Gone, SweepsAreSafe, Over,
                 RunsHaveTheirs, RunHasItsFiles, Began, Gone
<1> QED BY <1>1, <1>2, <1>3, <1>4, <1>5, <1>6, <1>7, <1>8, <1>9, <1>10, <1>11, <1>12, <1>13,
           <1>14, <1>15, <1>16, <1>17, <1>18, <1>19, <1>20, <1>21 DEF Next

LEMMA ProfilesInvariance == Spec => []ProfilesInv
<1>1. Init => ProfilesInv
  <2> SUFFICES ASSUME Init
               PROVE  ProfilesInv
    OBVIOUS
  <2>1. TypeOK
    BY PathFacts, BoundsAssumption DEF Init, TypeOK
  <2>2. RunsHaveTheirs
    BY PathFacts DEF Init, RunsHaveTheirs, RunHasItsFiles, Began, Gone
  <2>3. LocksAreOwned /\ ListedHaveBegun /\ SweepsAreSafe
    BY DEF Init, LocksAreOwned, ListedHaveBegun, SweepsAreSafe
  <2> QED BY <2>1, <2>2, <2>3 DEF ProfilesInv
<1> QED BY <1>1, ProfilesStep, PTL DEF Spec

\* The runs of a process that live, in LIVE_RUNS, are those between their registration and the
\* end of their directory (LiveRun), and the rest of the state is what its comments say.
THEOREM ProfilesTyped == Spec => []TypeOK
<1>1. ProfilesInv => TypeOK
  BY DEF ProfilesInv
<1> QED BY <1>1, ProfilesInvariance, PTL

\* Whichever sweeps, kills and Chromes interleave with it, a run that starts or runs keeps its
\* directory, lock and profiles, and its lock can be taken (RunProfiles::remove_abandoned).
THEOREM LivingRunsKeepTheirs == Spec => []LivingRunsAreLeftAlone
<1>1. ProfilesInv => LivingRunsAreLeftAlone
  <2> SUFFICES ASSUME ProfilesInv, NEW r \in Runs
               PROVE  /\ phase[r] = "running" =>
                            /\ lock[r] = r
                            /\ {Profile(s) : s \in inUse[r]} \cup {LockFile} \subseteq Files(RunDir(r))
                      /\ phase[r] \in {"staged", "filed", "locked"} => Staging(r) \in DOMAIN fs
                      /\ phase[r] = "filed" => CanLock(r, r)
    BY DEF LivingRunsAreLeftAlone
  <2>1. phase[r] = "filed" => lock[r] = NoRun
    BY DEF ProfilesInv, TypeOK, LocksAreOwned, SweepsAreSafe, Gone
  <2> QED BY <2>1 DEF ProfilesInv, RunsHaveTheirs, RunHasItsFiles, Files, CanLock
<1> QED BY <1>1, ProfilesInvariance, PTL

-----------------------------------------------------------------------------
(* What is left behind.                                                    *)

\* A run has the one directory it knows of, and none before it makes one.
DirectoriesAreTheirs ==
    /\ \A p \in DOMAIN fs :
          /\ p = dir[p[2]]
          /\ \/ phase[p[2]] \in {"staged", "filed", "locked", "running", "leaving"}
             \/ Over(p[2])
    /\ \A r \in Runs : chromes[r] # {} => dir[r] = RunDir(r)

\* A run that saw its directory and its Chromes go has left nothing.
EndedHaveNone ==
    \A r \in Runs :
        phase[r] = "ended" /\ r \notin remains => dir[r] \notin DOMAIN fs /\ chromes[r] = {}

\* A directory that nobody will write to any more.
Dead(p) == Over(p[2]) /\ chromes[p[2]] = {}

\* The sweep of r comes to a due directory, unless it is at it.
DuesAreDead ==
    \A r \in Runs :
        /\ \A p \in due[r] : Dead(p) /\ (IsStaging(p) /\ p \in todo[r] => p \in old)
        /\ phase[r] \in {"probing", "removing"} => at[r] \notin todo[r]

Sweeps(r) == phase[r] \in {"sweeping", "probing", "removing", "registered"}

\* The sweep of r comes to this directory, or is at it, and can remove it.
Swept(r, p) ==
    /\ \/ p \in todo[r] /\ phase[r] # "registered"
       \/ p = at[r] /\ phase[r] \in {"probing", "removing"}
    /\ LockFile \in fs[p] => p[2] \notin Unopenable
    /\ \/ lock[p[2]] = NoRun
       \/ lock[p[2]] = r /\ p = at[r] /\ phase[r] = "probing"

DuesAreSwept == \A r \in Runs : Sweeps(r) => \A p \in due[r] : p \in DOMAIN fs => Swept(r, p)

SweepInv == DirectoriesAreTheirs /\ EndedHaveNone /\ DuesAreDead /\ DuesAreSwept

\* Nothing is added to such a directory.
KeepsOut(p) == p \in DOMAIN fs' => p \in DOMAIN fs /\ (LockFile \in fs'[p] => LockFile \in fs[p])

\* Then a run that ended without a directory gets none.
LEMMA EndedKeepNone ==
    ASSUME TypeOK, RunsHaveTheirs, EndedHaveNone, \A p \in Paths : Dead(p) => KeepsOut(p),
           UNCHANGED remains,
           \A x \in Runs : phase'[x] = "ended" =>
              phase[x] = "ended" /\ dir'[x] = dir[x] /\ chromes'[x] = chromes[x]
    PROVE  EndedHaveNone'
<1> SUFFICES ASSUME NEW x \in Runs, phase'[x] = "ended", x \notin remains'
             PROVE  dir'[x] \notin DOMAIN fs' /\ chromes'[x] = {}
  BY DEF EndedHaveNone
<1>1. /\ phase[x] = "ended" /\ dir'[x] = dir[x] /\ chromes'[x] = chromes[x]
      /\ dir[x] \notin DOMAIN fs /\ chromes[x] = {}
  BY DEF EndedHaveNone
<1>2. dir[x] \in Paths /\ dir[x][2] = x
  BY DEF TypeOK, RunsHaveTheirs
<1>3. KeepsOut(dir[x])
  BY <1>1, <1>2 DEF Dead, Over
<1> QED BY <1>1, <1>3 DEF KeepsOut

\* And the sweeps find the due directories as they were, or with less in them.
LEMMA DuesStaySwept ==
    ASSUME TypeOK, DuesAreDead, DuesAreSwept, \A p \in Paths : Dead(p) => KeepsOut(p),
           UNCHANGED <<todo, at, due, lock>>,
           \A r \in Runs : Sweeps(r)' => phase'[r] = phase[r]
    PROVE  DuesAreSwept'
<1> SUFFICES ASSUME NEW r \in Runs, Sweeps(r)', NEW p \in due[r], p \in DOMAIN fs'
             PROVE  Swept(r, p)'
  BY DEF DuesAreSwept
<1>1. p \in Paths /\ Dead(p)
  BY DEF TypeOK, DuesAreDead
<1>2. p \in DOMAIN fs /\ (LockFile \in fs'[p] => LockFile \in fs[p])
  BY <1>1 DEF KeepsOut
<1>3. Sweeps(r) /\ phase'[r] = phase[r]
  BY DEF Sweeps
<1>4. Swept(r, p)
  BY <1>2, <1>3 DEF DuesAreSwept
<1> QED BY <1>2, <1>3, <1>4 DEF Swept

LEMMA SweepStep == ProfilesInv /\ SweepInv /\ [Next]_vars => SweepInv'
<1> SUFFICES ASSUME ProfilesInv, SweepInv, [Next]_vars
             PROVE  SweepInv'
  OBVIOUS
<1> USE DEF ProfilesInv, SweepInv
<1>a. /\ \A r \in Runs : Staging(r) \in Paths /\ RunDir(r) \in Paths
      /\ \A r \in Runs : Staging(r)[2] = r /\ RunDir(r)[2] = r
      /\ \A p \in Paths : p[2] \in Runs
  BY PathFacts
<1>1. ASSUME NEW r \in Runs, StartRun(r) PROVE SweepInv'
  <2>1. /\ phase[r] = "new" /\ IsAlive(r) /\ phase' = [phase EXCEPT ![r] = "sweeping"]
        /\ todo' = [todo EXCEPT ![r] = DOMAIN fs]
        /\ due' = [due EXCEPT ![r] = {p \in DOMAIN fs : Abandoned(p) /\ lock[p[2]] = NoRun}]
        /\ UNCHANGED <<lockOwner, remains, killed, fs, lock, live, at, dir, next, inUse, chromes,
                       old>>
    BY <1>1 DEF StartRun, outside, sweepVars, sessionVars
  <2>2. DirectoriesAreTheirs'
    BY <1>a, <2>1 DEF TypeOK, DirectoriesAreTheirs, Over
  <2>3. EndedHaveNone'
    BY <1>a, <2>1 DEF TypeOK, EndedHaveNone, KeepsOut, Dead, Over
  <2>4. DuesAreDead'
    <3>1. \A p \in due'[r] : Over(p[2]) /\ chromes[p[2]] = {} /\ (IsStaging(p) => p \in old)
      BY <2>1 DEF TypeOK, Abandoned, Over
    <3>2. \A s \in Runs : s # r => due'[s] = due[s] /\ todo'[s] = todo[s] /\ phase'[s] = phase[s]
      BY <2>1 DEF TypeOK
    <3>3. phase'[r] = "sweeping" /\ \A x \in Runs : Over(x) => Over(x)'
      BY <2>1 DEF TypeOK, Over
    <3>4. \A s \in Runs : \A p \in due'[s] :
             Over(p[2])' /\ chromes[p[2]] = {} /\ (IsStaging(p) /\ p \in todo'[s] => p \in old)
      <4>1. \A s \in Runs : due'[s] \subseteq Paths
        BY <2>1 DEF TypeOK
      <4> QED BY <1>a, <3>1, <3>2, <3>3, <4>1 DEF DuesAreDead, Dead
    <3> QED BY <2>1, <3>2, <3>3, <3>4 DEF DuesAreDead, Dead
  <2>5. DuesAreSwept'
    <3>1. \A p \in due'[r] : p \in DOMAIN fs /\ Abandoned(p) /\ lock[p[2]] = NoRun /\ p \in todo'[r]
      BY <2>1 DEF TypeOK
    <3>2. \A p \in due'[r] : LockFile \in fs[p] => p[2] \notin Unopenable
      BY <3>1 DEF Abandoned, Files
    <3>3. \A s \in Runs : s # r => due'[s] = due[s] /\ phase'[s] = phase[s] /\ todo'[s] = todo[s]
      BY <2>1 DEF TypeOK
    <3>4. phase'[r] = "sweeping"
      BY <2>1 DEF TypeOK
    <3> QED BY <2>1, <3>1, <3>2, <3>3, <3>4 DEF DuesAreSwept, Sweeps, Swept
  <2> QED BY <2>2, <2>3, <2>4, <2>5 DEF SweepInv
<1>2. ASSUME NEW r \in Runs, NEW p \in todo[r], Skip(r, p) PROVE SweepInv'
  <2>1. /\ phase[r] = "sweeping" /\ Skips(r, p)
        /\ todo' = [todo EXCEPT ![r] = @ \ {p}]
        /\ UNCHANGED <<lockOwner, remains, killed, fs, lock, live, phase, at, dir, next, inUse,
                       chromes, old, due>>
    BY <1>2 DEF Skip, outside, sweepVars, sessionVars
  <2>2. p \notin due[r] \/ p \notin DOMAIN fs
    BY <1>a, <2>1 DEF TypeOK, Skips, IsLiveHere, DuesAreDead, Dead, Over
  <2>3. DirectoriesAreTheirs'
    BY <1>a, <2>1, <2>2 DEF TypeOK, DirectoriesAreTheirs, Over
  <2>4. EndedHaveNone'
    BY <1>a, <2>1, <2>2 DEF TypeOK, EndedHaveNone, KeepsOut, Dead, Over
  <2>5. DuesAreDead'
    BY <1>a, <2>1, <2>2 DEF TypeOK, DuesAreDead, Dead, Over
  <2>6. DuesAreSwept'
    BY <1>a, <2>1, <2>2 DEF TypeOK, DuesAreSwept, Sweeps, Swept
  <2> QED BY <2>3, <2>4, <2>5, <2>6 DEF SweepInv
<1>3. ASSUME NEW r \in Runs, NEW p \in todo[r], Probe(r, p) PROVE SweepInv'
  <2>1. /\ phase[r] = "sweeping"
        /\ todo' = [todo EXCEPT ![r] = @ \ {p}]
        /\ \/ /\ Missing(p) /\ at' = [at EXCEPT ![r] = p]
              /\ phase' = [phase EXCEPT ![r] = "removing"] /\ UNCHANGED <<lock, due>>
           \/ /\ Probes(r, p) /\ at' = [at EXCEPT ![r] = p]
              /\ phase' = [phase EXCEPT ![r] = "probing"]
              /\ lock' = [lock EXCEPT ![p[2]] = r]
              /\ due' = [s \in Runs |-> IF s = r THEN due[s] ELSE due[s] \ {p}]
           \/ ~Missing(p) /\ ~Probes(r, p) /\ UNCHANGED <<at, phase, lock, due>>
        /\ UNCHANGED <<lockOwner, remains, killed, fs, live, dir, next, inUse, chromes, old>>
    BY <1>3 DEF Probe, outside, sweepVars, sessionVars
  <2>2. p \in Paths /\ p[2] \in Runs
    BY PathFacts DEF TypeOK
  <2>3. p \in due[r] /\ p \in DOMAIN fs => Missing(p) \/ Probes(r, p)
    BY <2>1, <2>2 DEF TypeOK, DuesAreSwept, Sweeps, Swept, Missing, Probes, CanLock, Files
  <2>4. Probes(r, p) => p \in DOMAIN fs
    BY DEF Probes, Files
  <2>5. DirectoriesAreTheirs'
    BY <1>a, <2>1, <2>2, <2>3, <2>4 DEF TypeOK, DirectoriesAreTheirs, Over
  <2>6. EndedHaveNone'
    BY <1>a, <2>1, <2>2, <2>3, <2>4 DEF TypeOK, EndedHaveNone, KeepsOut, Dead, Over
  <2>7. DuesAreDead'
    BY <1>a, <2>1, <2>2, <2>3, <2>4 DEF TypeOK, DuesAreDead, Dead, Over
  <2>8. DuesAreSwept'
    <3> SUFFICES ASSUME NEW s \in Runs, NEW q \in due'[s], q \in DOMAIN fs, Sweeps(s)'
                 PROVE  Swept(s, q)'
      BY <2>1 DEF DuesAreSwept
    <3>1. q \in due[s] /\ q \in Paths /\ q[2] \in Runs
      BY <2>1, PathFacts DEF TypeOK
    <3>2. Sweeps(s) /\ Swept(s, q)
      BY <2>1, <3>1 DEF TypeOK, DuesAreSwept, Sweeps
    <3>3. CASE s = r /\ q = p
      BY <2>1, <2>2, <2>3, <3>1, <3>2, <3>3 DEF TypeOK, Swept
    <3>4. CASE s = r /\ q # p
      <4>1. Probes(r, p) => p[2] # q[2]
        BY <2>4, <3>4 DEF DirectoriesAreTheirs, Over
      <4> QED BY <2>1, <2>2, <3>1, <3>2, <3>4, <4>1 DEF TypeOK, Swept
    <3>5. CASE s # r
      <4>1. Probes(r, p) => p[2] # q[2]
        <5>1. Probes(r, p) => q # p
          BY <2>1, <3>5 DEF Missing, Probes
        <5> QED BY <2>4, <5>1 DEF DirectoriesAreTheirs, Over
      <4> QED BY <2>1, <2>2, <3>1, <3>2, <3>5, <4>1 DEF TypeOK, Swept
    <3> QED BY <3>3, <3>4, <3>5
  <2> QED BY <2>5, <2>6, <2>7, <2>8 DEF SweepInv
<1>4. ASSUME NEW r \in Runs, EndProbe(r) PROVE SweepInv'
  <2>1. /\ phase[r] = "probing" /\ phase' = [phase EXCEPT ![r] = "removing"]
        /\ lock' = Unlocked(r, at[r][2])
        /\ UNCHANGED <<lockOwner, remains, killed, fs, live, todo, at, dir, next, inUse, chromes,
                       old, due>>
    BY <1>4 DEF EndProbe, outside, sweepVars, sessionVars
  <2>2. at[r][2] \in Runs
    BY PathFacts DEF TypeOK
  <2>3. /\ \A x \in Runs : lock'[x] = lock[x] \/ lock'[x] = NoRun
        /\ lock'[at[r][2]] # r
    BY <2>1, <2>2, UnlockedFacts
  <2>4. DirectoriesAreTheirs'
    BY <1>a, <2>1, <2>2, <2>3 DEF TypeOK, DirectoriesAreTheirs, Over
  <2>5. EndedHaveNone'
    BY <1>a, <2>1, <2>2, <2>3 DEF TypeOK, EndedHaveNone, KeepsOut, Dead, Over
  <2>6. DuesAreDead'
    BY <1>a, <2>1, <2>2, <2>3 DEF TypeOK, DuesAreDead, Dead, Over
  <2>7. DuesAreSwept'
    BY <2>1, <2>2, <2>3, <1>a DEF TypeOK, DuesAreSwept, Sweeps, Swept
  <2> QED BY <2>4, <2>5, <2>6, <2>7 DEF SweepInv
<1>5. ASSUME NEW r \in Runs, RemoveSome(r) PROVE SweepInv'
  <2> DEFINE p == IF phase[r] = "removing" THEN at[r] ELSE dir[r]
  <2>1. /\ phase[r] \in {"removing", "leaving"}
        /\ Unlinks(p)
        /\ old' = old \ {p}
        /\ due' = [s \in Runs |-> IF s = r \/ ~IsStaging(p) THEN due[s] ELSE due[s] \ {p}]
        /\ UNCHANGED <<lockOwner, remains, killed, lock, live, phase, todo, at, dir, next, inUse,
                       chromes>>
    BY <1>5 DEF RemoveSome, sessionVars
  <2>2. p \in Paths
    BY <2>1 DEF TypeOK
  <2>3. p \in due[r] => p \notin todo[r]
    <3>1. CASE phase[r] = "removing"
      BY <3>1 DEF DuesAreDead
    <3>2. CASE phase[r] = "leaving"
      <4>1. p[2] = r
        BY <3>2 DEF RunsHaveTheirs
      <4> QED BY <3>2, <4>1 DEF DuesAreDead, Dead, Over
    <3> QED BY <2>1, <3>1, <3>2
  <2> HIDE DEF p
  <2>4. DOMAIN fs' \subseteq DOMAIN fs /\ \A q \in DOMAIN fs' : fs'[q] \subseteq fs[q]
    BY <2>1 DEF Unlinks, Files, Put, Restrict
  <2>5. DirectoriesAreTheirs'
    BY <1>a, <2>1, <2>4 DEF TypeOK, DirectoriesAreTheirs, Over
  <2>6. EndedHaveNone'
    BY <1>a, <2>1, <2>4 DEF TypeOK, EndedHaveNone
  <2>7. DuesAreDead'
    <3>1. \A s \in Runs : \A q \in due'[s] :
             q \in due[s] /\ (s = r \/ q # p \/ ~IsStaging(q))
      BY <2>1
    <3>2. ASSUME NEW s \in Runs, NEW q \in due'[s], IsStaging(q), q \in todo[s]
          PROVE  q \in old'
      <4>1. q # p
        BY <2>3, <3>1, <3>2
      <4> QED BY <2>1, <3>1, <3>2, <4>1 DEF DuesAreDead
    <3> QED BY <2>1, <3>1, <3>2 DEF DuesAreDead, Dead, Over
  <2>8. DuesAreSwept'
    <3>1. \A s \in Runs : due'[s] \subseteq due[s]
      BY <2>1
    <3>2. \A q \in DOMAIN fs' : q \in DOMAIN fs /\ (LockFile \in fs'[q] => LockFile \in fs[q])
      BY <2>4
    <3> QED BY <1>a, <2>1, <3>1, <3>2 DEF TypeOK, DuesAreSwept, Sweeps, Swept
  <2> QED BY <2>5, <2>6, <2>7, <2>8 DEF SweepInv
<1>6. ASSUME NEW r \in Runs, EndRemoval(r) PROVE SweepInv'
  <2>1. /\ phase[r] = "removing" /\ phase' = [phase EXCEPT ![r] = "sweeping"]
        /\ at' = [at EXCEPT ![r] = RunDir(r)]
        /\ due' = IF at[r] \in DOMAIN fs THEN [due EXCEPT ![r] = @ \ {at[r]}] ELSE due
        /\ UNCHANGED <<lockOwner, remains, killed, fs, lock, live, todo, dir, next, inUse, chromes,
                       old>>
    BY <1>6 DEF EndRemoval, outside, sessionVars
  <2>2. DirectoriesAreTheirs'
    BY <1>a, <2>1 DEF TypeOK, DirectoriesAreTheirs, Over
  <2>3. EndedHaveNone'
    BY <1>a, <2>1 DEF TypeOK, EndedHaveNone
  <2>4. /\ \A s \in Runs : due'[s] \subseteq due[s]
        /\ at[r] \in due'[r] => at[r] \notin DOMAIN fs
    BY <2>1 DEF TypeOK
  <2>5. DuesAreDead'
    BY <1>a, <2>1, <2>4 DEF TypeOK, DuesAreDead, Dead, Over
  <2>6. DuesAreSwept'
    BY <1>a, <2>1, <2>4 DEF TypeOK, DuesAreSwept, Sweeps, Swept
  <2> QED BY <2>2, <2>3, <2>5, <2>6 DEF SweepInv
<1>7. ASSUME NEW r \in Runs, Register(r) PROVE SweepInv'
  <2>1. /\ phase[r] = "sweeping" /\ todo[r] = {}
        /\ phase' = [phase EXCEPT ![r] = "registered"]
        /\ live' = live \cup {r}
        /\ UNCHANGED <<lockOwner, remains, killed, fs, lock, todo, at, dir, next, inUse, chromes,
                       old, due>>
    BY <1>7 DEF Register, outside, sweepVars, sessionVars
  <2>2. DirectoriesAreTheirs'
    BY <1>a, <2>1 DEF TypeOK, DirectoriesAreTheirs, Over
  <2>3. EndedHaveNone'
    BY <1>a, <2>1 DEF TypeOK, EndedHaveNone, KeepsOut, Dead, Over
  <2>4. DuesAreDead'
    BY <1>a, <2>1 DEF TypeOK, DuesAreDead, Dead, Over
  <2>5. DuesAreSwept'
    BY <1>a, <2>1 DEF TypeOK, DuesAreSwept, Sweeps, Swept
  <2> QED BY <2>2, <2>3, <2>4, <2>5 DEF SweepInv
<1>8. ASSUME NEW r \in Runs, CreateStaging(r) PROVE SweepInv'
  <2>1. /\ phase[r] = "registered" /\ phase' = [phase EXCEPT ![r] = "staged"]
        /\ fs' = Put(Staging(r), {})
        /\ dir' = [dir EXCEPT ![r] = Staging(r)]
        /\ UNCHANGED <<lockOwner, remains, killed, lock, live, todo, at, next, inUse, chromes, old,
                       due>>
    BY <1>8 DEF CreateStaging, outside, sweepVars, sessionVars
  <2>2. FsOK(fs') /\ Within(Staging(r))
    <3>1. FsOK(fs)
      BY DEF TypeOK, FsOK, Entries
    <3> QED BY <2>1, <3>1, PathFacts, PutFacts
  <2>3. \A p \in Paths : Dead(p) => KeepsOut(p)
    BY <1>a, <2>1, <2>2 DEF TypeOK, Dead, Over, KeepsOut, Within
  <2>4. DirectoriesAreTheirs'
    <3>1. \A p \in DOMAIN fs' : p = Staging(r) \/ (p \in DOMAIN fs /\ p[2] # r)
      BY <1>a, <2>1, <2>2 DEF TypeOK, FsOK, DirectoriesAreTheirs, Over, Within
    <3>2. dir' \in [Runs -> Paths] /\ dir'[r] = Staging(r)
      BY <1>a, <2>1 DEF TypeOK, DirectoriesAreTheirs, Over
    <3>3. /\ phase'[r] = "staged" /\ chromes' = chromes /\ chromes[r] = {}
          /\ \A x \in Runs : x # r => phase'[x] = phase[x] /\ dir'[x] = dir[x]
          /\ \A p \in DOMAIN fs : p[2] \in Runs
      BY <1>a, <2>1 DEF TypeOK, RunsHaveTheirs, Began, Gone
    <3> QED BY <1>a, <3>1, <3>2, <3>3 DEF DirectoriesAreTheirs, Over
  <2>5. EndedHaveNone'
    <3>1. \A x \in Runs : phase'[x] = "ended" =>
             phase[x] = "ended" /\ dir'[x] = dir[x] /\ chromes'[x] = chromes[x]
      BY <2>1 DEF TypeOK
    <3> QED BY <2>1, <2>3, <3>1, EndedKeepNone
  <2>6. DuesAreDead'
    BY <1>a, <2>1, <2>2, <2>3 DEF TypeOK, DuesAreDead, Dead, Over
  <2>7. DuesAreSwept'
    <3>1. \A x \in Runs : Sweeps(x)' => phase'[x] = phase[x]
      BY <2>1 DEF TypeOK, Sweeps
    <3> QED BY <2>1, <2>3, <3>1, DuesStaySwept
  <2> QED BY <2>4, <2>5, <2>6, <2>7 DEF SweepInv
<1>9. ASSUME NEW r \in Runs, CreateLockFile(r) PROVE SweepInv'
  <2>1. /\ phase[r] = "staged" /\ phase' = [phase EXCEPT ![r] = "filed"]
        /\ Staging(r) \in DOMAIN fs /\ fs[Staging(r)] \cup {LockFile} \in SUBSET Entries
        /\ fs' = Put(Staging(r), fs[Staging(r)] \cup {LockFile})
        /\ UNCHANGED <<lockOwner, remains, killed, lock, live, todo, at, dir, next, inUse, chromes,
                       old, due>>
    BY <1>9 DEF CreateLockFile, outside, sweepVars, sessionVars, TypeOK, Entries
  <2>2. FsOK(fs') /\ Within(Staging(r))
    <3>1. FsOK(fs)
      BY DEF TypeOK, FsOK, Entries
    <3> QED BY <2>1, <3>1, PathFacts, PutFacts
  <2>3. \A p \in Paths : Dead(p) => KeepsOut(p)
    BY <1>a, <2>1, <2>2 DEF TypeOK, Dead, Over, KeepsOut, Within
  <2>4. DirectoriesAreTheirs'
    BY <2>1, <2>2, <2>3, <1>a DEF TypeOK, FsOK, DirectoriesAreTheirs, Over, Within
  <2>5. EndedHaveNone'
    <3>1. \A x \in Runs : phase'[x] = "ended" =>
             phase[x] = "ended" /\ dir'[x] = dir[x] /\ chromes'[x] = chromes[x]
      BY <2>1 DEF TypeOK
    <3> QED BY <2>1, <2>3, <3>1, EndedKeepNone
  <2>6. DuesAreDead'
    BY <1>a, <2>1, <2>2, <2>3 DEF TypeOK, DuesAreDead, Dead, Over
  <2>7. DuesAreSwept'
    <3>1. \A x \in Runs : Sweeps(x)' => phase'[x] = phase[x]
      BY <2>1 DEF TypeOK, Sweeps
    <3> QED BY <2>1, <2>3, <3>1, DuesStaySwept
  <2> QED BY <2>4, <2>5, <2>6, <2>7 DEF SweepInv
<1>10. ASSUME NEW r \in Runs, TryLock(r) PROVE SweepInv'
  <2>1. /\ phase[r] = "filed" /\ phase' = [phase EXCEPT ![r] = "locked"]
        /\ lock' = [lock EXCEPT ![r] = r]
        /\ UNCHANGED <<lockOwner, remains, killed, fs, live, todo, at, dir, next, inUse, chromes,
                       old, due>>
    BY <1>10 DEF TryLock, outside, sweepVars, sessionVars
  <2>2. DirectoriesAreTheirs'
    BY <1>a, <2>1 DEF TypeOK, DirectoriesAreTheirs, Over
  <2>3. EndedHaveNone'
    BY <1>a, <2>1 DEF TypeOK, EndedHaveNone, KeepsOut, Dead, Over
  <2>4. DuesAreDead'
    BY <1>a, <2>1 DEF TypeOK, DuesAreDead, Dead, Over
  <2>5. DuesAreSwept'
    BY <2>1, <1>a DEF TypeOK, DuesAreSwept, DuesAreDead, Dead, Over, Sweeps, Swept
  <2> QED BY <2>2, <2>3, <2>4, <2>5 DEF SweepInv
<1>11. ASSUME NEW r \in Runs, Rename(r) PROVE SweepInv'
  <2>1. /\ phase[r] = "locked" /\ phase' = [phase EXCEPT ![r] = "running"]
        /\ Staging(r) \in DOMAIN fs
        /\ fs' = Restrict(Put(RunDir(r), fs[Staging(r)]), (DOMAIN fs \ {Staging(r)}) \cup {RunDir(r)})
        /\ dir' = [dir EXCEPT ![r] = RunDir(r)]
        /\ UNCHANGED <<lockOwner, remains, killed, lock, live, todo, at, next, inUse, chromes, old,
                       due>>
    BY <1>11 DEF Rename, outside, sweepVars, sessionVars, Renamed
  <2>2. /\ DOMAIN fs' = (DOMAIN fs \ {Staging(r)}) \cup {RunDir(r)}
        /\ \A q \in DOMAIN fs' : q # RunDir(r) => fs'[q] = fs[q]
    BY <2>1 DEF Put, Restrict
  <2>3. \A p \in Paths : Dead(p) => KeepsOut(p)
    BY <1>a, <2>1, <2>2 DEF TypeOK, Dead, Over, KeepsOut, Within
  <2>4. DirectoriesAreTheirs'
    <3>1. \A p \in DOMAIN fs' : p = RunDir(r) \/ (p \in DOMAIN fs /\ p[2] # r)
      <4>1. dir[r] = Staging(r)
        BY <1>a, <2>1 DEF DirectoriesAreTheirs, Over
      <4>2. \A p \in DOMAIN fs' : p = RunDir(r) \/ (p \in DOMAIN fs /\ p # Staging(r))
        BY <1>a, <2>1, <2>2
      <4> QED BY <4>1, <4>2 DEF DirectoriesAreTheirs, Over
    <3>2. dir' \in [Runs -> Paths] /\ dir'[r] = RunDir(r)
      BY <1>a, <2>1 DEF TypeOK, DirectoriesAreTheirs, Over
    <3>3. /\ phase'[r] = "running" /\ chromes' = chromes
          /\ \A x \in Runs : x # r => phase'[x] = phase[x] /\ dir'[x] = dir[x]
          /\ \A p \in DOMAIN fs : p[2] \in Runs
      BY <1>a, <2>1 DEF TypeOK
    <3> QED BY <1>a, <3>1, <3>2, <3>3 DEF DirectoriesAreTheirs, Over
  <2>5. EndedHaveNone'
    <3>1. \A x \in Runs : phase'[x] = "ended" =>
             phase[x] = "ended" /\ dir'[x] = dir[x] /\ chromes'[x] = chromes[x]
      BY <2>1 DEF TypeOK
    <3> QED BY <2>1, <2>3, <3>1, EndedKeepNone
  <2>6. DuesAreDead'
    BY <1>a, <2>1, <2>2, <2>3 DEF TypeOK, DuesAreDead, Dead, Over
  <2>7. DuesAreSwept'
    <3>1. \A x \in Runs : Sweeps(x)' => phase'[x] = phase[x]
      BY <2>1 DEF TypeOK, Sweeps
    <3> QED BY <2>1, <2>3, <3>1, DuesStaySwept
  <2> QED BY <2>4, <2>5, <2>6, <2>7 DEF SweepInv
<1>12. ASSUME NEW r \in Runs, FailsToStart(r) PROVE SweepInv'
  <2>1. /\ phase[r] \in {"registered", "staged", "filed", "locked"}
        /\ phase' = [phase EXCEPT ![r] = "leaving"]
        /\ lock' = Unlocked(r, r)
        /\ UNCHANGED <<lockOwner, remains, killed, fs, live, todo, at, dir, next, inUse, chromes,
                       old, due>>
    BY <1>12 DEF FailsToStart, outside, sweepVars, sessionVars
  <2>2. \A x \in Runs : lock'[x] = lock[x] \/ (x = r /\ lock'[x] = NoRun)
    BY <2>1, UnlockedFacts
  <2>3. DirectoriesAreTheirs'
    BY <1>a, <2>1, <2>2 DEF TypeOK, DirectoriesAreTheirs, Over
  <2>4. EndedHaveNone'
    BY <1>a, <2>1, <2>2 DEF TypeOK, EndedHaveNone, KeepsOut, Dead, Over
  <2>5. DuesAreDead'
    BY <1>a, <2>1, <2>2 DEF TypeOK, DuesAreDead, Dead, Over
  <2>6. DuesAreSwept'
    BY <2>1, <2>2, <1>a DEF TypeOK, DuesAreSwept, Sweeps, Swept
  <2> QED BY <2>3, <2>4, <2>5, <2>6 DEF SweepInv
<1>13. ASSUME NEW r \in Runs, CreateSession(r) PROVE SweepInv'
  <2>1. /\ phase[r] = "running" /\ next[r] < MaxSessions
        /\ RunDir(r) \in DOMAIN fs
        /\ chromes' = [chromes EXCEPT ![r] = @ \cup {next[r]}]
        /\ fs' = Put(RunDir(r), fs[RunDir(r)] \cup {Profile(next[r])})
        /\ UNCHANGED <<lockOwner, remains, killed, lock, live, phase, todo, at, dir, old, due>>
    BY <1>13 DEF CreateSession, outside, sweepVars, sessionVars
  <2>2. FsOK(fs') /\ Within(RunDir(r))
    <3>1. FsOK(fs) /\ fs[RunDir(r)] \cup {Profile(next[r])} \in SUBSET Entries
      BY <2>1, BoundsAssumption DEF TypeOK, FsOK, Entries, Sessions
    <3> QED BY <2>1, <3>1, PathFacts, PutFacts
  <2>3. \A p \in Paths : Dead(p) => KeepsOut(p)
    BY <1>a, <2>1, <2>2 DEF TypeOK, Dead, Over, KeepsOut, Within
  <2>4. DirectoriesAreTheirs'
    <3>1. \A p \in DOMAIN fs' : p = RunDir(r) \/ (p \in DOMAIN fs /\ p[2] # r)
      <4>1. dir[r] = RunDir(r)
        BY <1>a, <2>1 DEF DirectoriesAreTheirs, Over
      <4>2. \A p \in DOMAIN fs' : p = RunDir(r) \/ (p \in DOMAIN fs /\ p # RunDir(r))
        BY <1>a, <2>1, <2>2 DEF FsOK, Within
      <4> QED BY <4>1, <4>2 DEF DirectoriesAreTheirs, Over
    <3>2. dir' \in [Runs -> Paths] /\ dir'[r] = RunDir(r)
      BY <1>a, <2>1 DEF TypeOK, DirectoriesAreTheirs, Over
    <3>3. /\ phase'[r] = "running" /\ phase' = phase /\ dir' = dir
          /\ \A x \in Runs : x # r => chromes'[x] = chromes[x]
      BY <2>1 DEF TypeOK
    <3> QED BY <1>a, <3>1, <3>2, <3>3 DEF DirectoriesAreTheirs, Over
  <2>5. EndedHaveNone'
    <3>1. \A x \in Runs : phase'[x] = "ended" =>
             phase[x] = "ended" /\ dir'[x] = dir[x] /\ chromes'[x] = chromes[x]
      BY <2>1 DEF TypeOK
    <3> QED BY <2>1, <2>3, <3>1, EndedKeepNone
  <2>6. DuesAreDead'
    BY <1>a, <2>1, <2>2, <2>3 DEF TypeOK, DuesAreDead, Dead, Over
  <2>7. DuesAreSwept'
    <3>1. \A x \in Runs : Sweeps(x)' => phase'[x] = phase[x]
      BY <2>1 DEF TypeOK, Sweeps
    <3> QED BY <2>1, <2>3, <3>1, DuesStaySwept
  <2> QED BY <2>4, <2>5, <2>6, <2>7 DEF SweepInv
<1>14. ASSUME NEW r \in Runs, NEW s \in Sessions, EndSession(r, s) PROVE SweepInv'
  <2>1. /\ phase[r] = "running"
        /\ \/ RunDir(r) \in DOMAIN fs /\ fs' = Put(RunDir(r), fs[RunDir(r)] \ {Profile(s)})
           \/ fs' = fs
        /\ UNCHANGED <<lockOwner, remains, killed, lock, live, phase, todo, at, dir, chromes, old,
                       due>>
    BY <1>14 DEF EndSession, outside, sweepVars, sessionVars
  <2>2. FsOK(fs') /\ Within(RunDir(r))
    <3>1. FsOK(fs) /\ (RunDir(r) \in DOMAIN fs => fs[RunDir(r)] \ {Profile(s)} \in SUBSET Entries)
      BY DEF TypeOK, FsOK, Entries
    <3>2. CASE fs' = fs
      BY <3>1, <3>2 DEF Within
    <3> QED BY <2>1, <3>1, <3>2, PathFacts, PutFacts
  <2>3. \A p \in Paths : Dead(p) => KeepsOut(p)
    BY <1>a, <2>1, <2>2 DEF TypeOK, Dead, Over, KeepsOut, Within
  <2>4. DirectoriesAreTheirs'
    BY <2>1, <2>2, <2>3, <1>a DEF TypeOK, FsOK, DirectoriesAreTheirs, Over, Within
  <2>5. EndedHaveNone'
    <3>1. \A x \in Runs : phase'[x] = "ended" =>
             phase[x] = "ended" /\ dir'[x] = dir[x] /\ chromes'[x] = chromes[x]
      BY <2>1 DEF TypeOK
    <3> QED BY <2>1, <2>3, <3>1, EndedKeepNone
  <2>6. DuesAreDead'
    BY <1>a, <2>1, <2>2, <2>3 DEF TypeOK, DuesAreDead, Dead, Over
  <2>7. DuesAreSwept'
    <3>1. \A x \in Runs : Sweeps(x)' => phase'[x] = phase[x]
      BY <2>1 DEF TypeOK, Sweeps
    <3> QED BY <2>1, <2>3, <3>1, DuesStaySwept
  <2> QED BY <2>4, <2>5, <2>6, <2>7 DEF SweepInv
<1>15. ASSUME NEW r \in Runs, Remove(r) PROVE SweepInv'
  <2>1. /\ phase[r] = "running"
        /\ phase' = [phase EXCEPT ![r] = "leaving"]
        /\ lock' = Unlocked(r, r)
        /\ UNCHANGED <<lockOwner, remains, killed, fs, live, todo, at, dir, next, inUse, chromes,
                       old, due>>
    BY <1>15 DEF Remove, outside, sweepVars, sessionVars
  <2>2. \A x \in Runs : lock'[x] = lock[x] \/ (x = r /\ lock'[x] = NoRun)
    BY <2>1, UnlockedFacts
  <2>3. DirectoriesAreTheirs'
    BY <1>a, <2>1, <2>2 DEF TypeOK, DirectoriesAreTheirs, Over
  <2>4. EndedHaveNone'
    BY <1>a, <2>1, <2>2 DEF TypeOK, EndedHaveNone, KeepsOut, Dead, Over
  <2>5. DuesAreDead'
    BY <1>a, <2>1, <2>2 DEF TypeOK, DuesAreDead, Dead, Over
  <2>6. DuesAreSwept'
    BY <2>1, <2>2, <1>a DEF TypeOK, DuesAreSwept, Sweeps, Swept
  <2> QED BY <2>3, <2>4, <2>5, <2>6 DEF SweepInv
<1>16. ASSUME NEW r \in Runs, Deregister(r) PROVE SweepInv'
  <2>1. /\ phase[r] = "leaving"
        /\ phase' = [phase EXCEPT ![r] = "ended"]
        /\ remains' = IF dir[r] \in DOMAIN fs \/ chromes[r] # {} THEN remains \cup {r} ELSE remains
        /\ UNCHANGED <<lockOwner, killed, fs, lock, todo, at, dir, next, inUse, chromes, old, due>>
    BY <1>16 DEF Deregister, sweepVars, sessionVars
  <2>2. DirectoriesAreTheirs'
    BY <1>a, <2>1 DEF TypeOK, DirectoriesAreTheirs, Over
  <2>3. EndedHaveNone'
    BY <1>a, <2>1 DEF TypeOK, EndedHaveNone, KeepsOut, Dead, Over
  <2>4. DuesAreDead'
    BY <1>a, <2>1 DEF TypeOK, DuesAreDead, Dead, Over
  <2>5. DuesAreSwept'
    BY <1>a, <2>1 DEF TypeOK, DuesAreSwept, Sweeps, Swept
  <2> QED BY <2>2, <2>3, <2>4, <2>5 DEF SweepInv
<1>17. ASSUME NEW p \in Processes, Kill(p) PROVE SweepInv'
  <2>1. /\ killed' = killed \cup {p}
        /\ phase' = [r \in Runs |-> IF ProcessOf[r] = p /\ phase[r] \notin {"new", "ended"}
                                     THEN "killed" ELSE phase[r]]
        /\ lock' = [r \in Runs |-> IF lock[r] # NoRun /\ ProcessOf[lock[r]] = p THEN NoRun
                                                                         ELSE lock[r]]
        /\ UNCHANGED <<lockOwner, remains, fs, todo, at, dir, next, chromes, old, due>>
    BY <1>17 DEF Kill, outside, sweepVars, sessionVars
  <2>2. DirectoriesAreTheirs'
    BY <2>1, <1>a DEF TypeOK, DirectoriesAreTheirs, Over
  <2>3. EndedHaveNone'
    BY <1>a, <2>1 DEF TypeOK, EndedHaveNone, KeepsOut, Dead, Over
  <2>4. DuesAreDead'
    BY <1>a, <2>1 DEF TypeOK, DuesAreDead, Dead, Over
  <2>5. DuesAreSwept'
    <3>1. \A x \in Runs : lock'[x] = lock[x] \/ lock'[x] = NoRun
      BY <2>1 DEF TypeOK
    <3>2. \A r \in Runs : Sweeps(r)' => phase'[r] = phase[r]
      BY <2>1 DEF TypeOK, Sweeps
    <3> QED BY <1>a, <2>1, <3>1, <3>2 DEF TypeOK, DuesAreSwept, Sweeps, Swept
  <2> QED BY <2>2, <2>3, <2>4, <2>5 DEF SweepInv
<1>18. ASSUME NEW r \in Runs, GrowsOld(r) PROVE SweepInv'
  <2>1. /\ old' = old \cup {Staging(r)}
        /\ UNCHANGED <<lockOwner, remains, killed, fs, lock, live, phase, todo, at, dir, next,
                       inUse, chromes, due>>
    BY <1>18 DEF GrowsOld, outside, sweepVars, sessionVars
  <2>2. DirectoriesAreTheirs'
    BY <1>a, <2>1 DEF TypeOK, DirectoriesAreTheirs, Over
  <2>3. EndedHaveNone'
    BY <1>a, <2>1 DEF TypeOK, EndedHaveNone, KeepsOut, Dead, Over
  <2>4. DuesAreDead'
    BY <1>a, <2>1 DEF TypeOK, DuesAreDead, Dead, Over
  <2>5. DuesAreSwept'
    BY <1>a, <2>1 DEF TypeOK, DuesAreSwept, Sweeps, Swept
  <2> QED BY <2>2, <2>3, <2>4, <2>5 DEF SweepInv
<1>19. ASSUME NEW r \in Runs, NEW s \in Sessions, ChromeRecreates(r, s) PROVE SweepInv'
  <2>1. /\ s \in chromes[r] /\ Began(r)
        /\ fs' = Put(RunDir(r), Files(RunDir(r)) \cup {Profile(s)})
        /\ UNCHANGED <<lockOwner, remains, killed, lock, live, phase, todo, at, dir, next, inUse,
                       chromes, old, due>>
    BY <1>19 DEF ChromeRecreates, outside, sweepVars, sessionVars, RunsHaveTheirs
  <2>2. FsOK(fs') /\ Within(RunDir(r))
    <3>1. FsOK(fs) /\ Files(RunDir(r)) \cup {Profile(s)} \in SUBSET Entries
      BY PathFacts DEF TypeOK, FsOK, Entries, Files
    <3> QED BY <2>1, <3>1, PathFacts, PutFacts
  <2>3. \A p \in Paths : Dead(p) => KeepsOut(p)
    BY <1>a, <2>1, <2>2 DEF TypeOK, Dead, Over, KeepsOut, Within
  <2>4. DirectoriesAreTheirs'
    <3>1. \A p \in DOMAIN fs' : p = RunDir(r) \/ (p \in DOMAIN fs /\ p[2] # r)
      <4>1. dir[r] = RunDir(r)
        BY <1>a, <2>1 DEF DirectoriesAreTheirs, Over
      <4>2. \A p \in DOMAIN fs' : p = RunDir(r) \/ (p \in DOMAIN fs /\ p # RunDir(r))
        BY <1>a, <2>1, <2>2 DEF FsOK, Within
      <4> QED BY <4>1, <4>2 DEF DirectoriesAreTheirs, Over
    <3>2. dir' \in [Runs -> Paths] /\ dir'[r] = RunDir(r)
      BY <1>a, <2>1 DEF TypeOK, DirectoriesAreTheirs, Over
    <3>3. phase' = phase /\ dir' = dir /\ chromes' = chromes /\ Began(r)
      BY <2>1
    <3>4. phase[r] \in {"running", "leaving"} \/ Over(r)
      BY <3>3 DEF Began, Gone, Over
    <3> QED BY <1>a, <3>1, <3>2, <3>3, <3>4 DEF DirectoriesAreTheirs, Over
  <2>5. EndedHaveNone'
    <3>1. \A x \in Runs : phase'[x] = "ended" =>
             phase[x] = "ended" /\ dir'[x] = dir[x] /\ chromes'[x] = chromes[x]
      BY <2>1 DEF TypeOK
    <3> QED BY <2>1, <2>3, <3>1, EndedKeepNone
  <2>6. DuesAreDead'
    BY <1>a, <2>1, <2>2, <2>3 DEF TypeOK, DuesAreDead, Dead, Over
  <2>7. DuesAreSwept'
    <3>1. \A x \in Runs : Sweeps(x)' => phase'[x] = phase[x]
      BY <2>1 DEF TypeOK, Sweeps
    <3> QED BY <2>1, <2>3, <3>1, DuesStaySwept
  <2> QED BY <2>4, <2>5, <2>6, <2>7 DEF SweepInv
<1>20. ASSUME NEW r \in Runs, NEW s \in Sessions, ChromeExits(r, s) PROVE SweepInv'
  <2>1. /\ chromes' = [chromes EXCEPT ![r] = @ \ {s}]
        /\ UNCHANGED <<lockOwner, remains, killed, fs, lock, live, phase, todo, at, dir, next,
                       inUse,
                       old, due>>
    BY <1>20 DEF ChromeExits, outside, sweepVars
  <2>2. DirectoriesAreTheirs'
    BY <1>a, <2>1 DEF TypeOK, DirectoriesAreTheirs, Over
  <2>3. EndedHaveNone'
    BY <1>a, <2>1 DEF TypeOK, EndedHaveNone
  <2>4. DuesAreDead'
    BY <1>a, <2>1 DEF TypeOK, DuesAreDead, Dead, Over
  <2>5. DuesAreSwept'
    BY <1>a, <2>1 DEF TypeOK, DuesAreSwept, Sweeps, Swept
  <2> QED BY <2>2, <2>3, <2>4, <2>5 DEF SweepInv
<1>21. CASE UNCHANGED vars
  BY <1>21 DEF vars, DirectoriesAreTheirs, EndedHaveNone, Over, DuesAreDead, Dead, DuesAreSwept,
                 Sweeps, Swept
<1> QED BY <1>1, <1>2, <1>3, <1>4, <1>5, <1>6, <1>7, <1>8, <1>9, <1>10, <1>11, <1>12, <1>13,
           <1>14, <1>15, <1>16, <1>17, <1>18, <1>19, <1>20, <1>21 DEF Next

LEMMA SweepInvariance == Spec => []SweepInv
<1>1. Init => SweepInv
  BY DEF Init, SweepInv, DirectoriesAreTheirs, EndedHaveNone, DuesAreDead, DuesAreSwept, Sweeps
<1> QED BY <1>1, SweepStep, ProfilesInvariance, PTL DEF Spec

\* A run that ended leaves no directory, also one that failed to start, unless its removal failed
\* or a Chrome outlived it; a sweep removes what ended and killed runs left when it began, wherever
\* a removal before it was interrupted, unless this sweep's own removal fails or another sweep was
\* at the directory (RunProfiles::remove, remove_abandoned, remove_dir).
THEOREM NothingStays == Spec => []NothingLeftBehind
<1>1. ProfilesInv /\ SweepInv => NothingLeftBehind
  <2> SUFFICES ASSUME ProfilesInv, SweepInv, NEW r \in Runs
               PROVE  /\ phase[r] = "ended" /\ r \notin remains =>
                            {Staging(r), RunDir(r)} \cap DOMAIN fs = {}
                      /\ phase[r] = "registered" => due[r] \cap DOMAIN fs = {}
    BY DEF NothingLeftBehind
  <2>1. Staging(r)[2] = r /\ RunDir(r)[2] = r
    BY PathFacts
  <2> QED BY <2>1 DEF SweepInv, DirectoriesAreTheirs, EndedHaveNone, DuesAreSwept, Sweeps, Swept
<1> QED BY <1>1, ProfilesInvariance, SweepInvariance, PTL
=============================================================================
