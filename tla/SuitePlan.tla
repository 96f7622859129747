----------------------------- MODULE SuitePlan -----------------------------
(***************************************************************************)
(* What a run makes of its suite before anything starts: the filter keeps  *)
(* some tests (test_case.rs, filter.rs), the run is refused or skipped if  *)
(* none is left (runner.rs), and the plan lists the tests with where they  *)
(* are placed, and says how many can run at once (execution/plan.rs).      *)
(* Metadata methods of a test may panic wherever they are read.            *)
(***************************************************************************)
EXTENDS Naturals, FiniteSets, SequencesExt

CONSTANTS
    Trees,      \* Suites given to the runner (TestSuite).
    Filters     \* Whether there are patterns for names, and for tags (TestFilter).

VARIABLES
    suite,      \* The suite given to the runner.
    filter,     \* The runner's filter.
    kept,       \* The suite after filtering.
    queue,      \* The tests of the plan, in definition order.
    outcome     \* How far the run is.

planVars == <<suite, filter, kept, queue, outcome>>

(***************************************************************************)
(* An entry of a suite is a suite or a test.  The name, the tags and the   *)
(* settings of a test are "hit" (matched by a pattern of the filter),      *)
(* "missed", or "panics".                                                  *)
(***************************************************************************)
IsTest(entry) == "tags" \in DOMAIN entry

-----------------------------------------------------------------------------
(* The filter                                                              *)

\* Tags are read only if the name matches.
Selects(test) ==
    \/ filter.names /\ test.name = "panics"
    \/ /\ filter.names => test.name = "hit"
       /\ filter.tags => test.tags \in {"hit", "panics"}

SelectsAll == ~filter.names /\ ~filter.tags

RECURSIVE IsEmpty(_), Retain(_), HasFilterableTests(_), Concurrency(_), Queue(_, _)

IsEmpty(s) ==
    \A i \in DOMAIN s.entries : IF IsTest(s.entries[i]) THEN FALSE ELSE IsEmpty(s.entries[i])

Retain(s) ==
    IF s.unfiltered THEN s
    ELSE LET retained(e) == IF IsTest(e) THEN e ELSE Retain(e)
             included(e) == IF IsTest(e) THEN Selects(e) ELSE ~IsEmpty(e)
         IN  [s EXCEPT !.entries =
                 SelectSeq([i \in DOMAIN @ |-> retained(@[i])], included)]

HasFilterableTests(s) ==
    /\ ~s.unfiltered
    /\ \E i \in DOMAIN s.entries :
          IF IsTest(s.entries[i]) THEN TRUE ELSE HasFilterableTests(s.entries[i])

-----------------------------------------------------------------------------
(* The plan                                                                *)

\* How many of the children, each of which can run that many tests at once, fill a suite.
\* Mutant: the first children, not those that can run most.
Fill_InOrder(counts, parallelism) ==
    FoldLeft(+, 0, SubSeq(counts, 1, Min({parallelism, Len(counts)})))

Fill(counts, parallelism) ==
    LET sorted == SortSeq(counts, >)
    IN  FoldLeft(+, 0, SubSeq(sorted, 1, Min({parallelism, Len(sorted)})))

\* Suite::max_concurrency
Concurrency(s) ==
    LET counts == [i \in DOMAIN s.entries |->
                      IF IsTest(s.entries[i]) THEN 1 ELSE Concurrency(s.entries[i])]
    IN  Max({1, Fill(counts, s.parallelism)})

\* The tests of s in definition order.  A test whose metadata panics is planned to fail.
Queue(s, always) ==
    LET placed == always \/ s.runAlways
        planned(e) == IF IsTest(e)
                      THEN <<[test     |-> e.test,
                              always   |-> placed,
                              prepared |-> "panics" \notin {e.name, e.tags, e.settings}]>>
                      ELSE Queue(e, placed)
    IN  FlattenSeq([i \in DOMAIN s.entries |-> planned(s.entries[i])])

-----------------------------------------------------------------------------
(* BrowserTestRunner::run, up to the execution                             *)

PlanInit ==
    /\ suite \in Trees /\ filter \in Filters
    /\ kept = suite /\ queue = <<>>
    /\ outcome = "given"

Filter ==
    /\ outcome = "given"
    /\ kept' = IF SelectsAll THEN suite ELSE Retain(suite)
    /\ outcome' = "filtered"
    /\ UNCHANGED <<suite, filter, queue>>

\* Mutant: the tests of unfiltered suites count as well.
SelectedNone_Empty == ~IsEmpty(suite) /\ IsEmpty(kept)

SelectedNone == HasFilterableTests(suite) /\ ~HasFilterableTests(kept)

Refuse ==
    /\ outcome = "filtered"
    /\ SelectedNone
    /\ outcome' = "noTestSelected"
    /\ UNCHANGED <<suite, filter, kept, queue>>

Skip ==
    /\ outcome = "filtered"
    /\ ~SelectedNone /\ IsEmpty(kept)
    /\ outcome' = "skipped"
    /\ UNCHANGED <<suite, filter, kept, queue>>

Plan ==
    /\ outcome = "filtered"
    /\ ~SelectedNone /\ ~IsEmpty(kept)
    /\ queue' = Queue(kept, FALSE)
    /\ outcome' = "planned"
    /\ UNCHANGED <<suite, filter, kept>>

PlanNext == Filter \/ Refuse \/ Skip \/ Plan

-----------------------------------------------------------------------------
(* Reference definitions                                                   *)

RECURSIVE SuitesOf(_), Occurrences(_)

\* s and the suites nested in it.
SuitesOf(s) ==
    {s} \cup UNION {SuitesOf(s.entries[i]) : i \in {i \in DOMAIN s.entries : ~IsTest(s.entries[i])}}

\* The tests of s, each with the suites it is in.
Occurrences(s) ==
    UNION {IF IsTest(s.entries[i])
           THEN {[test |-> s.entries[i], within |-> {s}]}
           ELSE {[o EXCEPT !.within = @ \cup {s}] : o \in Occurrences(s.entries[i])} :
           i \in DOMAIN s.entries}

TestsOf(s) == {o.test : o \in Occurrences(s)}

Protected(o) == \E s \in o.within : s.unfiltered

\* Tests can run at once if no suite has more entries under way than its parallelism.
CanRunAtOnce(s, tests) ==
    \A u \in SuitesOf(s) :
        LET under(i) == IF IsTest(u.entries[i]) THEN {u.entries[i]} ELSE TestsOf(u.entries[i])
        IN  Cardinality({i \in DOMAIN u.entries : under(i) \cap tests # {}}) <= u.parallelism

\* Whether a filter keeps a test: what the documentation of TestSuite::filter and
\* TestFilter says, pattern by pattern.
Hits(test) ==
    LET hits(patterns, value) == patterns => value \in {"hit", "panics"}
    IN  \/ hits(filter.names, test.name) /\ hits(filter.tags, test.tags)
        \/ filter.names /\ test.name = "panics"

-----------------------------------------------------------------------------
(* Properties                                                              *)

\* Exactly the tests the filter selects and those of unfiltered suites, at any depth, are
\* planned, each once; those in a suite that always runs, at any depth, are placed so; a
\* test whose metadata panics as the filter reads it is planned and fails, it is never
\* dropped.  A run is refused only if its filter could have selected a test and selected none.
SelectedTestsRun ==
    LET tests == Occurrences(suite)
        mine == {o \in tests : Protected(o) \/ Hits(o.test)}
        refused == /\ \E o \in tests : ~Protected(o)
                   /\ \A o \in mine : Protected(o)
    IN  /\ outcome = "planned" =>
              /\ ~refused /\ Len(queue) = Cardinality(mine)
              /\ \A o \in mine : \E i \in DOMAIN queue :
                    /\ queue[i].test = o.test.test
                    /\ queue[i].always <=> \E s \in o.within : s.runAlways
                    /\ filter.names /\ o.test.name = "panics" => ~queue[i].prepared
        /\ outcome = "noTestSelected" => refused
        /\ outcome = "skipped" => tests = {}

\* max_concurrency is the size of the largest set of tests that the suites let run at once,
\* however they are nested.  An empty suite counts as a test, though: a filter removes the
\* ones it meets, but not without patterns nor within unfiltered suites.
ConcurrencyIsReached ==
    outcome = "planned" =>
        LET most == Max({Cardinality(T) : T \in {T \in SUBSET TestsOf(kept) :
                                                   CanRunAtOnce(kept, T)}})
        IN  /\ Concurrency(kept) >= most
            /\ (\A s \in SuitesOf(kept) : s.entries # <<>>) => Concurrency(kept) = most
=============================================================================
