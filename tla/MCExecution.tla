---------------------------- MODULE MCExecution ----------------------------
(***************************************************************************)
(* Instances of Execution for TLC.  Their tests and suites are strings.    *)
(***************************************************************************)
EXTENDS Execution

\* A parallel suite in a parallel suite.
NestedChildren == "root" :> <<"t1", "inner", "t4">> @@ "inner" :> <<"t2", "t3">>
NestedParallelism == "root" :> 2 @@ "inner" :> 2

\* One suite, running two of its tests at once.
FlatChildren == "root" :> <<"t1", "t2", "t3", "t4">>
SmallChildren == "root" :> <<"t1", "t2", "t3">>
FlatParallelism == "root" :> 2
SequentialParallelism == "root" :> 1
=============================================================================
