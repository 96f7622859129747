--------------------------- MODULE MCSessionPool ---------------------------
(* Instances of SessionPool for TLC. *)
EXTENDS SessionPool

MCUpcoming == [any |-> 3, fresh |-> 1]
MCUpcomingAlways == [any |-> 1, fresh |-> 0]
=============================================================================
