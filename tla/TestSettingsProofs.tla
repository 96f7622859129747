-------------------------- MODULE TestSettingsProofs --------------------------
(***************************************************************************)
(* Theorems about the settings that tests get, for all that the            *)
(* environment, the runner and the tests may set.                          *)
(***************************************************************************)
EXTENDS TestSettings, TLAPS

Times == Durations \cup {None, BrowserTimeout, TimeLimit}

Runners ==
    [timeouts : SomeTimeouts, wait : Times, limit : Times \ {None}, spares : Nat,
     asked : {None, 1}, visible : BOOLEAN, reuse : BOOLEAN, concurrency : Nat \ {0}]

Sessions ==
    [pooled : BOOLEAN, wait : Times, timeouts : [TimeoutKinds -> Times], baseline : BOOLEAN,
     ran : Nat]

Running == {"preparing", "starting", "ran"}

SettingsTypeOK ==
    /\ stage \in {"environment", "refused", "building", "idle"} \cup Running
    /\ stage \in {"refused", "building"} => variables \in [Variables -> Values]
    /\ stage \notin {"refused", "building"} => variables = None
    /\ stage \in {"idle"} \cup Running => runner \in Runners
    /\ stage \notin {"idle"} \cup Running => runner = None /\ session = None
    /\ stage \in Running => test \in SettingsOfTests /\ session \in Sessions
    /\ stage = "idle" => session = None \/ (session \in Sessions /\ session.pooled)

ReadAsSet ==
    stage \in {"refused", "building"} =>
        /\ read = FromEnv(variables)
        /\ stage = "refused" <=> \E n \in DOMAIN read : read[n].failed

SparesAsSet ==
    stage \in {"idle"} \cup Running =>
        (runner.asked = None =>
            runner.spares \in IF runner.visible THEN {0} ELSE 1..runner.concurrency)

\* A session has the wait of its pool and, until a test runs in it, the timeouts it came with.
SessionAsNew ==
    LET new == session.timeouts = [k \in TimeoutKinds |-> BrowserTimeout]
    IN  /\ stage = "idle" /\ session # None => session.wait = runner.wait /\ new
        /\ stage = "preparing" => new
        /\ stage \in Running /\ session.pooled => session.wait = runner.wait

TestAsSet ==
    stage \in {"preparing", "starting"} =>
        /\ prepared = PrepareTest(test)
        /\ session.wait = prepared.wait
        /\ test.fresh => session.ran = 0

TimeoutsAsSet ==
    stage = "starting" =>
        \A k \in TimeoutKinds :
            session.timeouts[k] = OrElse(prepared.timeouts[k], BrowserTimeout)

SettingsInv ==
    /\ SettingsTypeOK /\ ReadAsSet /\ SparesAsSet /\ SessionAsNew /\ TestAsSet /\ TimeoutsAsSet

LEMMA EnvironmentsAreTyped == Environments \subseteq [Variables -> Values]
BY DEF Environments, Variables, Values

\* As many as tests run at once, or an eighth of that if sessions are kept, and one at least.
LEMMA SparesInBounds ==
    ASSUME NEW concurrency \in Nat \ {0}, NEW reuse \in BOOLEAN
    PROVE  DefaultSpares(concurrency, reuse) \in 1..concurrency
BY DEF DefaultSpares

LEMMA SettingsStep == SettingsInv /\ [SettingsNext]_settingsVars => SettingsInv'
<1> SUFFICES ASSUME SettingsInv, [SettingsNext]_settingsVars
             PROVE  SettingsInv'
  OBVIOUS
<1> USE DEF SettingsInv
<1>1. ASSUME NEW env \in Environments, ReadEnvironment(env) PROVE SettingsInv'
  <2>1. /\ env \in [Variables -> Values] /\ stage = "environment"
        /\ variables' = env /\ read' = FromEnv(env)
        /\ stage' = IF \E n \in DOMAIN read' : read'[n].failed THEN "refused" ELSE "building"
        /\ UNCHANGED <<runner, test, prepared, session>>
    BY <1>1, EnvironmentsAreTyped DEF ReadEnvironment
  <2>2. SettingsTypeOK'
    BY <2>1 DEF SettingsTypeOK, Running
  <2>3. ReadAsSet'
    BY <2>1 DEF ReadAsSet
  <2>4. SparesAsSet' /\ SessionAsNew' /\ TestAsSet' /\ TimeoutsAsSet'
    BY <2>1 DEF SparesAsSet, SessionAsNew, TestAsSet, TimeoutsAsSet, Running
  <2> QED BY <2>2, <2>3, <2>4
<1>2. ASSUME NEW timeouts \in SomeTimeouts, NEW wait \in Durations \cup {None},
             NEW limit \in Durations \cup {None}, NEW asked \in {None, 1},
             NEW concurrency \in Concurrencies, Build(timeouts, wait, limit, asked, concurrency)
      PROVE  SettingsInv'
  <2>1. PICK visible \in BOOLEAN, reuse \in BOOLEAN :
          visible = (read.VISIBLE.value = {TRUE}) /\ reuse = (read.REUSE.value = {TRUE})
    OBVIOUS
  <2>2. /\ stage = "building" /\ stage' = "idle" /\ variables' = None
        /\ runner' = [timeouts |-> timeouts, wait |-> wait, limit |-> OrElse(limit, TimeLimit),
                      spares |-> SparesForRun(asked, visible, concurrency, reuse),
                      asked |-> asked, visible |-> visible, reuse |-> reuse,
                      concurrency |-> concurrency]
        /\ UNCHANGED <<test, prepared, session>>
    BY <1>2, <2>1 DEF Build
  <2>3. concurrency \in Nat \ {0} /\ None # TimeLimit /\ 1 # None
    BY <1>2, SettingsAssumption
  <2>4. OrElse(limit, TimeLimit) \in Times \ {None}
    BY <1>2, <2>3 DEF OrElse, Times
  <2>5. DefaultSpares(concurrency, reuse) \in 1..concurrency
    BY <2>1, <2>3, SparesInBounds
  <2>6. /\ SparesForRun(asked, visible, concurrency, reuse) \in Nat
        /\ asked = None => SparesForRun(asked, visible, concurrency, reuse) \in
                              IF visible THEN {0} ELSE 1..concurrency
    <3>1. CASE asked # None
      BY <1>2, <3>1 DEF SparesForRun
    <3>2. CASE asked = None /\ visible
      BY <3>2 DEF SparesForRun
    <3>3. CASE asked = None /\ ~visible
      BY <2>3, <2>5, <3>3 DEF SparesForRun
    <3> QED BY <2>1, <3>1, <3>2, <3>3
  <2>7. runner' \in Runners
    BY <1>2, <2>1, <2>2, <2>3, <2>4, <2>6 DEF Runners, Times
  <2>8. SettingsTypeOK'
    BY <2>2, <2>7 DEF SettingsTypeOK, Running
  <2>9. SparesAsSet'
    BY <2>2, <2>6 DEF SparesAsSet
  <2>10. ReadAsSet' /\ SessionAsNew' /\ TestAsSet' /\ TimeoutsAsSet'
    BY <2>2 DEF SettingsTypeOK, ReadAsSet, SessionAsNew, TestAsSet, TimeoutsAsSet, Running
  <2> QED BY <2>8, <2>9, <2>10
<1>3. ASSUME NEW settings \in SettingsOfTests, Assign(settings) PROVE SettingsInv'
  <2>1. /\ stage = "idle" /\ stage' = "preparing"
        /\ test' = settings /\ prepared' = PrepareTest(settings)
        /\ UNCHANGED <<variables, read, runner>>
    BY <1>3 DEF Assign
  <2>2. /\ runner \in Runners /\ variables = None
        /\ session = None \/ (session \in Sessions /\ session.pooled)
    BY <2>1 DEF SettingsTypeOK
  <2>3. PrepareTest(settings)' = PrepareTest(settings)
    BY <2>1 DEF PrepareTest
  <2>4. prepared'.wait \in Times
    BY <1>3, <2>1, <2>2 DEF PrepareTest, OrElse, SettingsOfTests, Runners, Times
  <2>5. /\ session' \in Sessions
        /\ session'.wait = prepared'.wait
        /\ session'.pooled => session'.wait = runner.wait
        /\ session'.timeouts = [k \in TimeoutKinds |-> BrowserTimeout]
        /\ settings.fresh => session'.ran = 0
    <3>1. CASE /\ session # None /\ UsesPool(prepared') /\ (settings.fresh => session.ran = 0)
               /\ UNCHANGED session
      BY <2>1, <2>2, <3>1 DEF UsesPool, SessionAsNew
    <3>2. CASE \E baseline \in {runner.reuse, FALSE} :
                 session' = NewSession(UsesPool(prepared'),
                                       IF UsesPool(prepared') THEN runner.wait ELSE prepared'.wait,
                                       baseline)
      <4>1. PICK pooled \in BOOLEAN, baseline \in BOOLEAN, wait \in Times :
                /\ session' = NewSession(pooled, wait, baseline)
                /\ wait = prepared'.wait /\ (pooled => wait = runner.wait)
        <5>1. runner.reuse \in BOOLEAN /\ (prepared'.wait = runner.wait) \in BOOLEAN
          BY <2>2 DEF Runners
        <5>2. PICK pooled \in BOOLEAN : pooled = (prepared'.wait = runner.wait)
          OBVIOUS
        <5>3. \E baseline \in BOOLEAN :
                 session' = NewSession(pooled, prepared'.wait, baseline)
          BY <3>2, <5>1, <5>2 DEF UsesPool
        <5> QED BY <2>4, <5>2, <5>3
      <4>2. [k \in TimeoutKinds |-> BrowserTimeout] \in [TimeoutKinds -> Times]
        BY DEF Times
      <4> QED BY <4>1, <4>2 DEF NewSession, Sessions
    <3> QED BY <1>3, <3>1, <3>2 DEF Assign
  <2>6. SettingsTypeOK'
    BY <1>3, <2>1, <2>2, <2>5 DEF SettingsTypeOK, Running
  <2>7. SparesAsSet' /\ SessionAsNew'
    BY <2>1, <2>5 DEF SparesAsSet, SessionAsNew, Running
  <2>8. TestAsSet'
    BY <2>1, <2>3, <2>5 DEF TestAsSet
  <2>9. ReadAsSet' /\ TimeoutsAsSet'
    BY <2>1 DEF ReadAsSet, TimeoutsAsSet
  <2> QED BY <2>6, <2>7, <2>8, <2>9
<1>4. ASSUME UpdateTimeouts PROVE SettingsInv'
  <2>1. /\ stage = "preparing" /\ stage' = "starting"
        /\ session' = IF prepared.timeouts = Unlimited THEN session
                      ELSE [session EXCEPT !.timeouts = OrTimeouts(prepared.timeouts, @)]
        /\ UNCHANGED <<variables, read, runner, test, prepared>>
    BY <1>4 DEF UpdateTimeouts
  <2>2. /\ runner \in Runners /\ test \in SettingsOfTests /\ session \in Sessions
        /\ variables = None
    BY <2>1 DEF SettingsTypeOK, Running
  <2>3. /\ prepared.timeouts \in [TimeoutKinds -> Times]
        /\ \A k \in TimeoutKinds : prepared.timeouts[k] \in Times
    BY <2>1, <2>2 DEF TestAsSet, PrepareTest, OrTimeouts, OrElse, SettingsOfTests, SomeTimeouts,
                      Runners, Times
  <2>4. session.timeouts = [k \in TimeoutKinds |-> BrowserTimeout]
    BY <2>1 DEF SessionAsNew
  <2>5. /\ session' \in Sessions
        /\ session'.wait = session.wait /\ session'.pooled = session.pooled
        /\ session'.ran = session.ran
        /\ \A k \in TimeoutKinds :
              session'.timeouts[k] = OrElse(prepared.timeouts[k], session.timeouts[k])
    <3>1. CASE prepared.timeouts = Unlimited
      BY <2>1, <2>2, <3>1 DEF Unlimited, OrElse
    <3>2. CASE prepared.timeouts # Unlimited
      <4>1. OrTimeouts(prepared.timeouts, session.timeouts) \in [TimeoutKinds -> Times]
        BY <2>2, <2>3 DEF OrTimeouts, OrElse, Sessions
      <4>2. /\ session' \in Sessions
            /\ session'.wait = session.wait /\ session'.pooled = session.pooled
            /\ session'.ran = session.ran
            /\ session'.timeouts = OrTimeouts(prepared.timeouts, session.timeouts)
        BY <2>1, <2>2, <3>2, <4>1 DEF Sessions
      <4> QED BY <4>2 DEF OrTimeouts
    <3> QED BY <3>1, <3>2
  <2>6. SettingsTypeOK'
    BY <2>1, <2>2, <2>5 DEF SettingsTypeOK, Running
  <2>7. SparesAsSet' /\ ReadAsSet'
    BY <2>1 DEF SparesAsSet, ReadAsSet, Running
  <2>8. SessionAsNew'
    BY <2>1, <2>5 DEF SessionAsNew, Running
  <2>9. TestAsSet'
    BY <2>1, <2>5 DEF TestAsSet, PrepareTest
  <2>10. TimeoutsAsSet'
    BY <2>1, <2>4, <2>5 DEF TimeoutsAsSet
  <2> QED BY <2>6, <2>7, <2>8, <2>9, <2>10
<1>5. ASSUME NEW timeouts \in SomeTimeouts, Run(timeouts) PROVE SettingsInv'
  <2>1. /\ stage = "starting" /\ stage' = "ran"
        /\ session' = [session EXCEPT !.timeouts = OrTimeouts(timeouts, @), !.ran = @ + 1]
        /\ UNCHANGED <<variables, read, runner, test, prepared>>
    BY <1>5 DEF Run
  <2>2. /\ runner \in Runners /\ test \in SettingsOfTests /\ session \in Sessions
        /\ variables = None
    BY <2>1 DEF SettingsTypeOK, Running
  <2>3. OrTimeouts(timeouts, session.timeouts) \in [TimeoutKinds -> Times]
    BY <1>5, <2>2 DEF OrTimeouts, OrElse, Sessions, SomeTimeouts, Times
  <2>4. /\ session' \in Sessions
        /\ session'.wait = session.wait /\ session'.pooled = session.pooled
    <3>1. session.ran + 1 \in Nat
      BY <2>2 DEF Sessions
    <3>2. PICK restored \in [TimeoutKinds -> Times] : restored = OrTimeouts(timeouts, session.timeouts)
      BY <2>3
    <3>3. PICK ran \in Nat : ran = session.ran + 1
      BY <3>1
    <3>4. session' = [session EXCEPT !.timeouts = restored, !.ran = ran]
      BY <2>1, <2>2, <3>2, <3>3 DEF Sessions
    <3> QED BY <2>2, <3>4 DEF Sessions
  <2>5. SettingsTypeOK'
    BY <2>1, <2>2, <2>4 DEF SettingsTypeOK, Running
  <2>6. SessionAsNew'
    BY <2>1, <2>4 DEF SessionAsNew, Running
  <2>7. ReadAsSet' /\ SparesAsSet' /\ TestAsSet' /\ TimeoutsAsSet'
    BY <2>1 DEF ReadAsSet, SparesAsSet, TestAsSet, TimeoutsAsSet, Running
  <2> QED BY <2>5, <2>6, <2>7
<1>6. CASE ReturnSession
  <2>1. /\ stage = "ran" /\ stage' = "idle"
        /\ \/ session.pooled /\ session' = [session EXCEPT !.timeouts = RestoredTimeouts]
           \/ session' = None
        /\ UNCHANGED <<variables, read, runner>>
    BY <1>6 DEF ReturnSession
  <2>2. /\ runner \in Runners /\ session \in Sessions /\ variables = None
    BY <2>1 DEF SettingsTypeOK, Running
  <2>3. \/ /\ session' \in Sessions /\ session'.pooled /\ session'.wait = runner.wait
           /\ session'.timeouts = [k \in TimeoutKinds |-> BrowserTimeout]
        \/ session' = None
    <3>1. CASE session' = None
      BY <3>1
    <3>2. CASE session.pooled /\ session' = [session EXCEPT !.timeouts = RestoredTimeouts]
      <4>1. session.wait = runner.wait
        BY <2>1, <3>2 DEF SessionAsNew, Running
      <4>2. RestoredTimeouts \in [TimeoutKinds -> Times]
        BY DEF RestoredTimeouts, Times
      <4> QED BY <2>2, <3>2, <4>1, <4>2 DEF Sessions, RestoredTimeouts
    <3> QED BY <2>1, <3>1, <3>2
  <2>4. SettingsTypeOK'
    BY <2>1, <2>2, <2>3 DEF SettingsTypeOK, Running
  <2>5. SessionAsNew'
    BY <2>1, <2>3 DEF SessionAsNew, Running
  <2>6. ReadAsSet' /\ SparesAsSet' /\ TestAsSet' /\ TimeoutsAsSet'
    BY <2>1 DEF ReadAsSet, SparesAsSet, TestAsSet, TimeoutsAsSet, Running
  <2> QED BY <2>4, <2>5, <2>6
<1>7. CASE UNCHANGED settingsVars
  BY <1>7 DEF settingsVars, SettingsTypeOK, ReadAsSet, SparesAsSet, SessionAsNew, TestAsSet, PrepareTest,
              TimeoutsAsSet, OrElse
<1> QED BY <1>1, <1>2, <1>3, <1>4, <1>5, <1>6, <1>7 DEF SettingsNext

\* What a variable gives, and whether it refuses a run.
LEMMA FlagsAreRead ==
    ASSUME NEW v \in Values
    PROVE  /\ EnvFlag(v).failed <=> v \notin {"unset", "blank", "on", "off", "1", "0"}
           /\ v \in {"unset", "blank"} <=> EnvFlag(v) = Given({})
           /\ v \in {"off", "0"} <=> EnvFlag(v) = Given({FALSE})
           /\ v \in {"on", "1"} <=> EnvFlag(v) = Given({TRUE})
           /\ EnvFlag(v) \in {Refused, Given({}), Given({FALSE}), Given({TRUE})}
<1>1. Refused # Given({}) /\ Refused # Given({FALSE}) /\ Refused # Given({TRUE})
  BY DEF Refused, Given
<1>2. Given({}) # Given({FALSE}) /\ Given({}) # Given({TRUE}) /\ Given({FALSE}) # Given({TRUE})
  BY DEF Given
<1>3. Refused.failed /\ \A x : ~Given(x).failed
  BY DEF Refused, Given
<1> HIDE DEF Refused, Given
<1> QED BY <1>1, <1>2, <1>3 DEF EnvFlag, Values

LEMMA NumbersAreRead ==
    ASSUME NEW v \in Values
    PROVE  /\ EnvPositiveNumber(v).failed <=> v \notin {"unset", "blank", "1", "2"}
           /\ v \in {"unset", "blank"} <=> EnvPositiveNumber(v) = Given({})
           /\ EnvPositiveNumber(v).value \subseteq {1, 2}
<1>1. Refused # Given({}) /\ Given({}) # Given({1}) /\ Given({}) # Given({2})
  BY DEF Refused, Given
<1>2. Refused.failed /\ Refused.value = {} /\ \A x : ~Given(x).failed /\ Given(x).value = x
  BY DEF Refused, Given
<1> QED BY <1>1, <1>2 DEF EnvPositiveNumber, Values

LEMMA PatternsAreRead ==
    ASSUME NEW v \in Values
    PROVE  /\ EnvPattern(v).failed <=> v \in {"(", "notUnicode"}
           /\ v \in {"unset", "blank"} => EnvPattern(v) = Given({})
BY DEF EnvPattern, Refused, Given, Values

LEMMA OutputIsRead ==
    ASSUME NEW flag \in Values, NEW lines \in Values
    PROVE  /\ OutputFromEnv(flag, lines).failed <=>
                 \/ flag \notin {"unset", "blank", "on", "off", "1", "0"}
                 \/ flag \in {"on", "1"} /\ lines \notin {"unset", "blank", "1", "2"}
           /\ flag \in {"unset", "blank"} => OutputFromEnv(flag, lines) = Given({})
           /\ OutputFromEnv(flag, lines).value \subseteq {0, 1, 2, 200}
<1>1. Refused # Given({}) /\ Refused # Given({TRUE}) /\ Refused # Given({FALSE})
  BY DEF Refused, Given
<1>2. Given({}) # Given({TRUE}) /\ Given({}) # Given({FALSE}) /\ Given({TRUE}) # Given({FALSE})
  BY DEF Given
<1>3. Refused.failed /\ Refused.value = {} /\ \A x : ~Given(x).failed /\ Given(x).value = x
  BY DEF Refused, Given
<1> HIDE DEF Refused, Given
<1>4. CASE flag \notin {"unset", "blank", "on", "off", "1", "0"}
  <2>1. EnvFlag(flag) = Refused
    BY <1>3, <1>4, FlagsAreRead
  <2> QED BY <1>3, <1>4, <2>1 DEF OutputFromEnv
<1>5. CASE flag \in {"unset", "blank"}
  <2>1. EnvFlag(flag) = Given({})
    BY <1>5, FlagsAreRead
  <2> QED BY <1>3, <1>5, <2>1 DEF OutputFromEnv
<1>6. CASE flag \in {"off", "0"}
  <2>1. EnvFlag(flag) = Given({FALSE})
    BY <1>6, FlagsAreRead
  <2> QED BY <1>1, <1>2, <1>3, <1>6, <2>1 DEF OutputFromEnv
<1>7. CASE flag \in {"on", "1"}
  <2>1. EnvFlag(flag) = Given({TRUE})
    BY <1>7, FlagsAreRead
  <2>2. OutputFromEnv(flag, lines) = IF lines \in {"unset", "blank"} THEN Given({200})
                                     ELSE EnvPositiveNumber(lines)
    BY <1>1, <1>2, <2>1, NumbersAreRead DEF OutputFromEnv
  <2> QED BY <1>3, <1>7, <2>2, NumbersAreRead
<1> QED BY <1>4, <1>5, <1>6, <1>7

\* Each variable refuses a run by itself, but the number of lines only if they are kept.
LEMMA EnvironmentIsRead ==
    ASSUME NEW env \in [Variables -> Values]
    PROVE  LET refuses(n) == FromEnv(env)[n].failed
               flag(n) == env[n] \in {"unset", "blank", "on", "off", "1", "0"}
               number(n) == env[n] \in {"unset", "blank", "1", "2"}
           IN  /\ DOMAIN FromEnv(env) =
                     {"VISIBLE", "REUSE", "PAUSE", "OUTPUT", "PARALLELISM", "NAME"}
               /\ \A n \in {"VISIBLE", "REUSE", "PAUSE"} : refuses(n) <=> ~flag(n)
               /\ refuses("OUTPUT") <=>
                     \/ ~flag("OUTPUT")
                     \/ env["OUTPUT"] \in {"on", "1"} /\ ~number("OUTPUT_TAIL_LINES")
               /\ refuses("PARALLELISM") <=> ~number("PARALLELISM")
               /\ refuses("NAME") <=> env["NAME"] \in {"(", "notUnicode"}
               /\ \A n \in DOMAIN FromEnv(env) :
                     env[n] \in {"unset", "blank"} => FromEnv(env)[n] = Given({})
               /\ FromEnv(env).OUTPUT.value \subseteq {0, 1, 2, 200}
<1>1. \A n \in Variables : env[n] \in Values
  OBVIOUS
<1>2. Variables = {"VISIBLE", "REUSE", "PAUSE", "OUTPUT", "OUTPUT_TAIL_LINES", "PARALLELISM", "NAME"}
  BY DEF Variables
<1>3. \A n \in {"VISIBLE", "REUSE", "PAUSE"} : FromEnv(env)[n] = EnvFlag(env[n])
  BY DEF FromEnv
<1>4. /\ FromEnv(env)["OUTPUT"] = OutputFromEnv(env["OUTPUT"], env["OUTPUT_TAIL_LINES"])
      /\ FromEnv(env)["PARALLELISM"] = EnvPositiveNumber(env["PARALLELISM"])
      /\ FromEnv(env)["NAME"] = EnvPattern(env["NAME"])
      /\ DOMAIN FromEnv(env) = {"VISIBLE", "REUSE", "PAUSE", "OUTPUT", "PARALLELISM", "NAME"}
  BY DEF FromEnv
<1>5. \A n \in {"VISIBLE", "REUSE", "PAUSE"} :
         /\ FromEnv(env)[n].failed <=> env[n] \notin {"unset", "blank", "on", "off", "1", "0"}
         /\ env[n] \in {"unset", "blank"} => FromEnv(env)[n] = Given({})
  BY <1>1, <1>2, <1>3, FlagsAreRead
<1>6. /\ FromEnv(env)["PARALLELISM"].failed <=> env["PARALLELISM"] \notin {"unset", "blank", "1", "2"}
      /\ env["PARALLELISM"] \in {"unset", "blank"} => FromEnv(env)["PARALLELISM"] = Given({})
  BY <1>1, <1>2, <1>4, NumbersAreRead
<1>7. /\ FromEnv(env)["NAME"].failed <=> env["NAME"] \in {"(", "notUnicode"}
      /\ env["NAME"] \in {"unset", "blank"} => FromEnv(env)["NAME"] = Given({})
  BY <1>1, <1>2, <1>4, PatternsAreRead
<1>8. /\ FromEnv(env)["OUTPUT"].failed <=>
              \/ env["OUTPUT"] \notin {"unset", "blank", "on", "off", "1", "0"}
              \/ /\ env["OUTPUT"] \in {"on", "1"}
                 /\ env["OUTPUT_TAIL_LINES"] \notin {"unset", "blank", "1", "2"}
      /\ env["OUTPUT"] \in {"unset", "blank"} => FromEnv(env)["OUTPUT"] = Given({})
      /\ FromEnv(env)["OUTPUT"].value \subseteq {0, 1, 2, 200}
  BY <1>1, <1>2, <1>4, OutputIsRead
<1> HIDE DEF FromEnv
<1> QED BY <1>4, <1>5, <1>6, <1>7, <1>8

\* Every test runs with the settings it asks for, else the runner's, else its browser's,
\* whatever ran in its session before and whatever the environment, the runner and the tests
\* may set; and the environment refuses a run only by what it is set to (env.rs, plan_test
\* and run_job).
THEOREM SettingsReachTests == SettingsSpec => []TestsRunAsSet
<1>1. SettingsInit => SettingsInv
  BY DEF SettingsInit, SettingsInv, SettingsTypeOK, ReadAsSet, SparesAsSet, SessionAsNew, TestAsSet,
         TimeoutsAsSet, Running
<1>2. SettingsInv => TestsRunAsSet
  <2> SUFFICES ASSUME SettingsInv PROVE TestsRunAsSet
    OBVIOUS
  <2> USE DEF SettingsInv
  <2>1. ASSUME stage = "starting"
        PROVE  /\ \A k \in TimeoutKinds :
                      session.timeouts[k] = IF test.timeouts[k] # None THEN test.timeouts[k]
                                            ELSE IF runner.timeouts[k] # None THEN runner.timeouts[k]
                                            ELSE BrowserTimeout
               /\ session.wait = IF test.wait # None THEN test.wait ELSE runner.wait
               /\ prepared.limit = IF test.limit # None THEN test.limit ELSE runner.limit
               /\ test.fresh => session.ran = 0
    BY <2>1 DEF TestAsSet, TimeoutsAsSet, PrepareTest, OrTimeouts, OrElse
  <2>2. runner # None /\ runner.asked = None =>
            runner.spares \in IF runner.visible THEN {0} ELSE 1..runner.concurrency
    BY DEF SettingsTypeOK, SparesAsSet
  <2>3. EnvironmentIsHeeded
    <3>1. CASE stage \notin {"refused", "building"}
      BY <3>1 DEF SettingsTypeOK, EnvironmentIsHeeded
    <3>2. CASE stage \in {"refused", "building"}
      <4>1. variables \in [Variables -> Values] /\ read = FromEnv(variables)
        BY <3>2 DEF SettingsTypeOK, ReadAsSet
      <4> QED BY <3>2, <4>1, EnvironmentIsRead DEF ReadAsSet, EnvironmentIsHeeded, Variables, Values
    <3> QED BY <3>1, <3>2
  <2> QED BY <2>1, <2>2, <2>3 DEF TestsRunAsSet
<1> QED BY <1>1, <1>2, SettingsStep, PTL DEF SettingsSpec
=============================================================================
