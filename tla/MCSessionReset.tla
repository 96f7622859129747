--------------------------- MODULE MCSessionReset ---------------------------
(***************************************************************************)
(* What a session goes through besides its tests, each by itself: the      *)
(* reset between two of them, and the check for frozen pages.  Nothing     *)
(* tells origins apart, nor windows other than the tab, nor pages.         *)
(***************************************************************************)
EXTENDS SessionReset, FrozenPages

CONSTANTS tab, w1, w2, o1, o2

MCWindows == {tab, w1, w2}
MCOrigins == {o1, o2}

\* A session that has quit does nothing, and nor does a check that was given up.
NoReset ==
    /\ mode = "Manual" /\ kept = FALSE /\ at = "quit"
    /\ page = [w \in {Tab} |-> Shown("default", First)]
    /\ history = {} /\ events = <<>> /\ origins = {} /\ state = {} /\ settings = {}
    /\ acts = 0 /\ ran = 0 /\ lost = {} /\ escaped = {}

NoCheck ==
    /\ conduct = [p \in OpenPages |-> "frozen"] /\ hung = None
    /\ changes = 0 /\ began = conduct /\ troubled = OpenPages
    /\ checking = "unknown" /\ alert = "unasked"
    /\ targets = {} /\ expected = {} /\ replies = {} /\ underway = {}
    /\ frozen = {} /\ unchecked = {}

MCInit == (Init /\ NoCheck) \/ (NoReset /\ CheckInit)

MCNext == (Next /\ UNCHANGED checkVars) \/ (CheckNext /\ UNCHANGED vars)

MCSpec == MCInit /\ [][MCNext]_<<vars, checkVars>>

\* The state of the reset and that of the check have their types.
StateTypeOK == TypeOK /\ CheckTypeOK

Symmetry == Permutations({w1, w2}) \union Permutations(MCOrigins) \union Permutations(OpenPages)
=============================================================================
