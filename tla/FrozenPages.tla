---------------------------- MODULE FrozenPages ----------------------------
(***************************************************************************)
(* The check for frozen pages (frozen_pages.rs), which runs when a command *)
(* of a session takes too long: over the browser's DevTools endpoint it    *)
(* attaches to every page, probes it, and closes those that do not answer, *)
(* unless a dialog is open.  The requests of a step are sent at once and   *)
(* answered in any order, or too late for the step that waits for them.    *)
(* A frame with a process of its own is a page here.                       *)
(***************************************************************************)
EXTENDS Option, Naturals, FiniteSets

CONSTANTS
    OpenPages,
    MaxChanges   \* So often a page changes by itself.

ASSUME PagesAssumption == IsFiniteSet(OpenPages) /\ None \notin OpenPages
ASSUME ChangesAssumption == MaxChanges \in Nat

VARIABLES
    conduct,     \* What each page does.
    changes,     \* How often a page changed by itself.
    hung,        \* The page a command of the session waits for.
    checking,    \* Where the check is, or what it found (PageCheck).
    targets,     \* The pages the browser listed.
    expected,    \* The requests of this step, and ...
    replies,     \* ... the replies to them that arrived.
    underway,    \* Requests without a reply.
    alert,       \* What ChromeDriver says about an open dialog.
    frozen,      \* The pages found to be frozen, with the error of closing them.
    unchecked,   \* Those that could not be checked.
    began,       \* History: what each page did as the check began.
    troubled     \* History: pages that at some moment did not respond.

pagesOpen == <<conduct, changes, hung, began, troubled>>
check == <<checking, targets, expected, replies, underway, alert, frozen, unchecked>>
checkVars == <<pagesOpen, check>>

(***************************************************************************)
(* A busy page yields some time, a frozen one never.  One that shows a     *)
(* dialog waits for it, but ChromeDriver does not.                         *)
(***************************************************************************)
Conduct == {"unopened", "responsive", "busy", "frozen", "dialog", "gone"}
Unresponsive == {"busy", "frozen", "dialog", "gone"}

Results == {"checked", "dialog", "unknown"}
Underway == checking \notin Results

-----------------------------------------------------------------------------
(* Browser: requests and replies.                                          *)

Requests(method, pages) == [method : {method}, page : pages]

Send(method, pages) ==
    /\ expected' = Requests(method, pages)
    /\ replies' = {}
    /\ underway' = underway \cup Requests(method, pages)

\* Mutant: a reply counts whatever request it belongs to.
Awaited_Any(r) == TRUE

\* `ids.contains`
Awaited(r) == r \in expected

Complete == Cardinality(replies) >= Cardinality(expected)

Replied(method, p, answers) ==
    \E reply \in replies :
        reply.request = [method |-> method, page |-> p] /\ reply.answer \in answers

\* What the browser, or the page for a probe, may answer now.
Answers(r) ==
    LET gone == conduct[r.page] = "gone"
    IN  CASE r.method = "attach" -> IF gone THEN {"no_target"} ELSE {"ok", "error"}
          [] r.method = "probe"  -> IF gone THEN {"error"}
                                    ELSE IF conduct[r.page] = "responsive" THEN {"ok"} ELSE {}
          [] r.method = "close"  -> IF gone THEN {"no_target"} ELSE {"ok", "refused", "error"}

\* Also after the check was given up: its requests are not taken back.
Answer(r) ==
    /\ r \in underway
    /\ \E answer \in Answers(r) :
          /\ replies' = IF Awaited(r) /\ Underway
                        THEN replies \cup {[request |-> r, answer |-> answer]} ELSE replies
          /\ IF r.method = "close" /\ answer = "ok"
             THEN /\ conduct' = [conduct EXCEPT ![r.page] = "gone"]
                  /\ troubled' = troubled \cup {r.page}
             ELSE UNCHANGED <<conduct, troubled>>
    /\ underway' = underway \ {r}
    /\ UNCHANGED <<changes, hung, began, checking, targets, expected, alert, frozen, unchecked>>

-----------------------------------------------------------------------------
(* try_close_frozen_pages                                                  *)

\* Once the pages are listed, the check attaches to them, and asks ChromeDriver at the same
\* time whether a dialog is open.
ListTargets ==
    /\ checking = "listing"
    /\ targets' = {p \in OpenPages : conduct[p] \notin {"unopened", "gone"}}
    /\ Send("attach", targets')
    /\ alert' = "asked"
    /\ checking' = "attaching"
    /\ UNCHANGED <<pagesOpen, frozen, unchecked>>

\* ChromeDriver runs one command after the other.
Blocked == hung # None /\ conduct[hung] \in {"busy", "frozen"}

AlertAnswered == IF \E p \in OpenPages : conduct[p] = "dialog" THEN "open" ELSE "none"

\* open_dialog: ChromeDriver answers in time, unless it is blocked.
AskAlert ==
    /\ alert = "asked" /\ Underway
    /\ alert' = IF Blocked THEN "none" ELSE AlertAnswered
    /\ UNCHANGED <<pagesOpen, checking, targets, expected, replies, underway, frozen, unchecked>>

\* Pages that could not be attached to, or not in time: not those that closed meanwhile.
Unattached == {p \in targets : ~Replied("attach", p, {"ok", "no_target"})}

\* All replies arrived, or ENDPOINT_TIMEOUT passed, which may happen any time.
Probe ==
    /\ checking = "attaching"
    /\ unchecked' = Unattached
    /\ Send("probe", {p \in targets : Replied("attach", p, {"ok"})})
    /\ checking' = "probing"
    /\ UNCHANGED <<pagesOpen, targets, alert, frozen>>

Unanswered == {r.page : r \in expected \ {reply.request : reply \in replies}}

(***************************************************************************)
(* RESPONSE_TIMEOUT passed.  "A responsive page answers within             *)
(* milliseconds": only pages that at some moment did not respond may still *)
(* owe an answer then.                                                     *)
(***************************************************************************)
ProbesTimedOut == Unanswered \subseteq troubled

AlertKnown == alert # "asked"

\* The probes and the answer about the dialog are joined.
Judge ==
    /\ checking = "probing"
    /\ Complete \/ ProbesTimedOut
    /\ AlertKnown
    /\ \/ /\ alert = "open"
          /\ checking' = "dialog"
          /\ UNCHANGED <<expected, replies, underway>>
       \/ /\ alert # "open"
          /\ Send("close", Unanswered)
          /\ checking' = "closing"
    /\ UNCHANGED <<pagesOpen, targets, alert, frozen, unchecked>>

\* Mutant: a page whose closing the browser did not confirm counts as closed.
CloseError_NoneInTime(p) == Replied("close", p, {"refused", "error"})

\* A page that closed meanwhile is closed.
CloseError(p) == ~Replied("close", p, {"ok", "no_target"})

\* All replies arrived, or ENDPOINT_TIMEOUT passed.
Conclude ==
    /\ checking = "closing"
    /\ frozen' = {[page |-> r.page, error |-> CloseError(r.page)] : r \in expected}
    /\ checking' = "checked"
    /\ UNCHANGED <<pagesOpen, targets, expected, replies, underway, alert, unchecked>>

\* The endpoint is not found or its connection fails, or CHECK_TIMEOUT passed.
GiveUp ==
    /\ Underway
    /\ checking' = "unknown"
    /\ UNCHANGED <<pagesOpen, targets, expected, replies, underway, alert, frozen, unchecked>>

-----------------------------------------------------------------------------
(* The browser by itself.                                                  *)

Becomes(p, next) ==
    /\ changes < MaxChanges
    /\ changes' = changes + 1
    /\ conduct' = [conduct EXCEPT ![p] = next]
    /\ troubled' = IF next \in Unresponsive THEN troubled \cup {p} ELSE troubled
    /\ UNCHANGED <<hung, began, check>>

PageChanges(p) ==
    \/ conduct[p] = "unopened" /\ Becomes(p, "responsive")
    \/ conduct[p] = "responsive" /\ \E next \in Unresponsive : Becomes(p, next)
    \/ conduct[p] = "busy" /\ \E next \in {"responsive", "gone"} : Becomes(p, next)

-----------------------------------------------------------------------------
CheckInit ==
    /\ conduct \in [OpenPages -> Conduct \ {"gone"}]
    /\ changes = 0
    /\ hung \in {None} \cup {p \in OpenPages : conduct[p] # "unopened"}
    /\ checking = "listing" /\ alert = "unasked"
    /\ targets = {} /\ expected = {} /\ replies = {} /\ underway = {}
    /\ frozen = {} /\ unchecked = {}
    /\ began = conduct
    /\ troubled = {p \in OpenPages : conduct[p] \in Unresponsive}

CheckNext ==
    \/ ListTargets \/ AskAlert \/ Probe \/ Judge \/ Conclude \/ GiveUp
    \/ \E r \in underway : Answer(r)
    \/ \E p \in OpenPages : PageChanges(p)

CheckSpec == CheckInit /\ [][CheckNext]_checkVars

-----------------------------------------------------------------------------
(* Properties                                                              *)

\* The shape of the state.  Among it: a check waits for the replies of pages it was told of
\* only, and no reply is kept for a request of an earlier step.
CheckTypeOK ==
    /\ conduct \in [OpenPages -> Conduct] /\ began \in [OpenPages -> Conduct]
    /\ changes \in 0 .. MaxChanges
    /\ hung \in OpenPages \cup {None}
    /\ checking \in {"listing", "attaching", "probing", "closing"} \cup Results
    /\ expected \cup underway \subseteq
          [method : {"attach", "probe", "close"}, page : targets]
    /\ {reply.request : reply \in replies} \subseteq expected \ underway
    /\ alert \in {"unasked", "asked", "none", "open"}
    /\ frozen \subseteq [page : targets, error : BOOLEAN]
    /\ unchecked \subseteq targets /\ targets \cup troubled \subseteq OpenPages

Closing == {r.page : r \in {r \in expected : r.method = "close"}}

\* Only pages that did not respond at some moment of the check are closed: in particular no
\* page because the answer of another one, or one of an earlier step, was taken for its own.
\* And "nothing was closed" where a dialog is open: if ChromeDriver says so, or was not busy
\* with another command and a dialog was open all along.  (A dialog that opens after
\* ChromeDriver answered, or while it waits for a frozen page, is not seen, and its page is
\* closed.)
OnlyFrozenPagesAreClosed ==
    /\ Closing \subseteq troubled
    /\ alert = "open" \/ (hung = None /\ \E p \in OpenPages : began[p] = "dialog") => Closing = {}

\* The check tells the truth about pages that were frozen when it began: when it returns, each
\* is closed, unless it is reported as not closed or not checked.
FrozenPagesAreClosed ==
    checking = "checked" =>
        \A p \in OpenPages :
            began[p] = "frozen" =>
                \/ conduct[p] = "gone"
                \/ p \in unchecked
                \/ [page |-> p, error |-> TRUE] \in frozen
=============================================================================
