------------------------------ MODULE MCSetup ------------------------------
(***************************************************************************)
(* What a run computes without awaiting, each by itself: the settings of   *)
(* its tests, the plan of its suite, and the loop of replenish_locked.     *)
(***************************************************************************)
EXTENDS ReplenishLoop, SuitePlan, TestSettings

MCUpcoming == [any |-> 0, fresh |-> 0]

Test(name, tags, settings) ==
    [test |-> <<name, tags>>, name |-> name, tags |-> tags, settings |-> settings]

MCTests == <<Test("hit", "hit", "hit"), Test("hit", "missed", "panics"),
             Test("missed", "panics", "hit"), Test("panics", "missed", "hit")>>

MCFilters == [names : BOOLEAN, tags : BOOLEAN]

Flags == {"root", "inner", "deep", "none"}

\* The tests of a suite, then the suites nested in it.
Entries(home, name, nested) ==
    SelectSeq(MCTests, LAMBDA t : home[t.test] = name) \o nested

Tree(home, parallelism, always, unfiltered, deepInInner) ==
    LET make(name, nested) ==
            [name |-> name, parallelism |-> parallelism[name],
             runAlways |-> always = name, unfiltered |-> unfiltered = name,
             entries |-> Entries(home, name, nested)]
        deep == make("deep", <<>>)
    IN  IF deepInInner THEN make("root", <<make("inner", <<deep>>)>>)
        ELSE make("root", <<make("inner", <<>>), deep>>)

Names == {"root", "inner", "deep"}

\* Every placement of four tests in a suite with two nested ones, and no test at all.
MCTrees ==
    {Tree(home, parallelism, always, unfiltered, deepInInner) :
        home \in LET tests == {MCTests[i].test : i \in DOMAIN MCTests}
                 IN  [tests -> Names] \cup [tests -> {"nowhere"}],
        parallelism \in [Names -> {1, 2}],
        always \in Flags, unfiltered \in Flags, deepInInner \in BOOLEAN}

EmptyTree ==
    [name |-> "root", parallelism |-> 1, runAlways |-> FALSE, unfiltered |-> FALSE,
     entries |-> <<>>]

NoLoop ==
    /\ state = [NewPool EXCEPT !.closed = TRUE]
    /\ before = state /\ spares = 0

NoPlan ==
    /\ suite = EmptyTree /\ kept = suite /\ queue = <<>> /\ outcome = "skipped"
    /\ filter = [names |-> FALSE, tags |-> FALSE]

NoSettings ==
    /\ variables = None /\ read = None /\ runner = None
    /\ test = None /\ prepared = None /\ session = None
    /\ stage = "refused"

MCInit ==
    \/ LoopInit /\ NoPlan /\ NoSettings
    \/ PlanInit /\ NoLoop /\ NoSettings
    \/ SettingsInit /\ NoLoop /\ NoPlan

MCNext ==
    \/ LoopNext /\ UNCHANGED <<planVars, settingsVars>>
    \/ PlanNext /\ UNCHANGED <<loopVars, settingsVars>>
    \/ SettingsNext /\ UNCHANGED <<loopVars, planVars>>

MCSpec == MCInit /\ [][MCNext]_<<loopVars, planVars, settingsVars>>
=============================================================================
