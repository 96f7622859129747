------------------------- MODULE SessionResetProofs -------------------------
(***************************************************************************)
(* Proofs about the reset of a session (SessionReset) for any number of    *)
(* origins, windows, tests and acts of theirs, and about the check for     *)
(* frozen pages (FrozenPages) for any pages that change at any time.       *)
(***************************************************************************)
EXTENDS MCSessionReset, FiniteSetTheorems, SequenceTheorems, WellFoundedInduction, TLAPS

-----------------------------------------------------------------------------
(* The check for frozen pages. *)

Gone(p) == conduct[p] = "gone"

\* What the check knows when it begins, when alone ChromeDriver was not asked yet.
Unlisted ==
    /\ checking = "listing" =>
          /\ expected = {} /\ replies = {} /\ underway = {} /\ frozen = {} /\ unchecked = {}
          /\ alert = "unasked"
    /\ alert = "unasked" => checking \in {"listing", "unknown"}

\* A request has one reply.  One that says that a page is gone tells the truth, as does a page's
\* own: a page that was frozen from the start has none.
RepliesAreTrue ==
    /\ \A a, b \in replies : a.request = b.request => a = b
    /\ \A a \in replies :
          \/ a.answer = "no_target"
          \/ a.request.method = "close" /\ a.answer = "ok"
          \/ a.request.method = "probe" /\ began[a.request.page] = "frozen"
          => Gone(a.request.page)

NoClose == \A r \in expected \union underway : r.method # "close"

\* Pages are closed last, when ChromeDriver said that no dialog is open.
ClosesLast ==
    /\ checking \in {"listing", "attaching", "probing", "dialog"} => NoClose
    /\ Closing \subseteq troubled
    /\ Closing # {} => alert = "none"

\* A dialog that was open from the start stays, and ChromeDriver tells of it.
DialogsStay ==
    hung = None /\ (\E p \in OpenPages : began[p] = "dialog") =>
        /\ \A p \in OpenPages : began[p] = "dialog" => conduct[p] = "dialog"
        /\ alert # "none" /\ NoClose

\* What the check does next about a page that was frozen from the start.
Attempted(p, method) == Gone(p) \/ p \in unchecked \/ [method |-> method, page |-> p] \in expected

FrozenIsSeen(p) ==
    /\ conduct[p] \in {"frozen", "gone"}
    /\ checking = "listing" => conduct[p] = "frozen"
    /\ checking = "attaching" => [method |-> "attach", page |-> p] \in expected
    /\ checking = "probing" => Attempted(p, "probe")
    /\ checking = "closing" => Attempted(p, "close")
    /\ checking = "checked" =>
          Gone(p) \/ p \in unchecked \/ [page |-> p, error |-> TRUE] \in frozen

FrozenAreSeen == \A p \in OpenPages : began[p] = "frozen" => FrozenIsSeen(p)

CheckInv ==
    /\ CheckTypeOK
    /\ Unlisted
    /\ RepliesAreTrue
    /\ ClosesLast
    /\ DialogsStay
    /\ FrozenAreSeen

\* The replies to all requests of a step are there: each is answered.
LEMMA AllReplied ==
    ASSUME CheckTypeOK, RepliesAreTrue, Complete
    PROVE  Unanswered = {}
<1> DEFINE f == [reply \in replies |-> reply.request]
<1>1. IsFiniteSet(expected)
  <2> DEFINE methods == {"attach", "probe", "close"}
             g == [r \in expected |-> <<r.method, r.page>>]
  <2>1. expected \subseteq [method : methods, page : OpenPages]
    BY DEF CheckTypeOK
  <2>2. IsFiniteSet(methods)
    <3>1. IsFiniteSet({"attach"})
      BY FS_Singleton
    <3>2. IsFiniteSet({"attach"} \union {"probe"})
      BY <3>1, FS_AddElement
    <3>3. IsFiniteSet(({"attach"} \union {"probe"}) \union {"close"})
      BY <3>2, FS_AddElement
    <3>4. ({"attach"} \union {"probe"}) \union {"close"} = methods
      OBVIOUS
    <3> QED BY <3>3, <3>4
  <2>3. IsFiniteSet(methods \X OpenPages)
    BY <2>2, PagesAssumption, FS_Product
  <2> HIDE DEF methods
  <2>4. g \in Injection(expected, methods \X OpenPages)
    BY <2>1 DEF Injection, IsInjective
  <2> QED BY <2>3, <2>4, FS_Injection
<1>2. f \in Injection(replies, expected)
  BY DEF CheckTypeOK, RepliesAreTrue, Injection, IsInjective
<1>3. f \in Surjection(replies, expected)
  <2>1. Cardinality(replies) <= Cardinality(expected)
        /\ (Cardinality(replies) = Cardinality(expected) <=> f \in Surjection(replies, expected))
        /\ IsFiniteSet(replies)
    BY <1>1, <1>2, FS_Injection
  <2>2. Cardinality(replies) \in Nat /\ Cardinality(expected) \in Nat
    BY <1>1, <2>1, FS_CardinalityType
  <2> QED BY <2>1, <2>2 DEF Complete
<1>4. \A r \in expected : \E reply \in replies : reply.request = r
  BY <1>3 DEF Surjection
<1> QED BY <1>4 DEF Unanswered

LEMMA CheckBegins ==
    ASSUME CheckInit
    PROVE  CheckInv
<1>1. CheckTypeOK
  BY ChangesAssumption DEF CheckInit, CheckTypeOK, Conduct, Unresponsive, Results
<1>2. Unlisted /\ RepliesAreTrue
  BY DEF CheckInit, Unlisted, RepliesAreTrue
<1>3. ClosesLast /\ DialogsStay
  BY DEF CheckInit, ClosesLast, DialogsStay, NoClose, Closing
<1>4. FrozenAreSeen
  BY DEF CheckInit, FrozenAreSeen, FrozenIsSeen
<1> QED BY <1>1, <1>2, <1>3, <1>4 DEF CheckInv

LEMMA ListTargetsInv ==
    ASSUME CheckInv, ListTargets
    PROVE  CheckInv'
<1>1. /\ checking = "listing" /\ checking' = "attaching" /\ alert' = "asked"
      /\ targets' = {p \in OpenPages : conduct[p] \notin {"unopened", "gone"}}
      /\ expected' = [method : {"attach"}, page : targets'] /\ replies' = {}
      /\ underway' = expected' /\ frozen = {} /\ unchecked = {}
      /\ conduct' = conduct /\ changes' = changes /\ hung' = hung /\ began' = began
      /\ troubled' = troubled /\ frozen' = frozen /\ unchecked' = unchecked
  BY DEF ListTargets, Send, Requests, pagesOpen, CheckInv, Unlisted
<1>2. CheckTypeOK'
  BY <1>1 DEF CheckInv, CheckTypeOK
<1>3. NoClose' /\ Closing' = {}
  BY <1>1 DEF NoClose, Closing
<1>4. Unlisted' /\ RepliesAreTrue' /\ ClosesLast'
  BY <1>1, <1>3 DEF Unlisted, RepliesAreTrue, ClosesLast
<1>5. DialogsStay'
  BY <1>1, <1>3 DEF CheckInv, DialogsStay
<1>6. FrozenAreSeen'
  <2>1. ASSUME NEW p \in OpenPages, began[p] = "frozen"
        PROVE  FrozenIsSeen(p)'
    <3>1. conduct[p] = "frozen"
      BY <1>1, <2>1 DEF CheckInv, FrozenAreSeen, FrozenIsSeen
    <3>2. [method |-> "attach", page |-> p] \in expected'
      BY <1>1, <3>1
    <3> QED BY <1>1, <3>1, <3>2 DEF FrozenIsSeen
  <2> QED BY <1>1, <2>1 DEF FrozenAreSeen
<1> QED BY <1>2, <1>3, <1>4, <1>5, <1>6 DEF CheckInv

LEMMA AskAlertInv ==
    ASSUME CheckInv, AskAlert
    PROVE  CheckInv'
<1>1. /\ alert = "asked" /\ alert' = IF Blocked THEN "none" ELSE AlertAnswered
      /\ conduct' = conduct /\ changes' = changes /\ hung' = hung /\ began' = began
      /\ troubled' = troubled /\ frozen' = frozen /\ unchecked' = unchecked
      /\ checking' = checking /\ targets' = targets /\ expected' = expected
      /\ replies' = replies /\ underway' = underway
  BY DEF AskAlert, pagesOpen
<1>2. alert' \in {"none", "open"}
  BY <1>1 DEF AlertAnswered
<1>3. CheckTypeOK'
  BY <1>1, <1>2 DEF CheckInv, CheckTypeOK
<1>4. Unlisted' /\ RepliesAreTrue'
  BY <1>1, <1>2 DEF CheckInv, Unlisted, RepliesAreTrue, Gone
<1>5. ClosesLast'
  BY <1>1 DEF CheckInv, ClosesLast, Closing, NoClose
<1>6. DialogsStay'
  BY <1>1 DEF CheckInv, DialogsStay, NoClose, Blocked, AlertAnswered
<1>7. FrozenAreSeen'
  BY <1>1 DEF CheckInv, FrozenAreSeen, FrozenIsSeen, Attempted, Gone
<1> QED BY <1>3, <1>4, <1>5, <1>6, <1>7 DEF CheckInv

LEMMA ProbeInv ==
    ASSUME CheckInv, Probe
    PROVE  CheckInv'
<1> DEFINE attached == {p \in targets : Replied("attach", p, {"ok"})}
<1>1. /\ checking = "attaching" /\ checking' = "probing" /\ unchecked' = Unattached
      /\ expected' = [method : {"probe"}, page : attached] /\ replies' = {}
      /\ underway' = underway \union expected'
      /\ conduct' = conduct /\ changes' = changes /\ hung' = hung /\ began' = began
      /\ troubled' = troubled /\ frozen' = frozen /\ targets' = targets /\ alert' = alert
  BY DEF Probe, Send, Requests, pagesOpen
<1>2. attached \subseteq targets /\ Unattached \subseteq targets
  BY DEF Unattached
<1>3. CheckTypeOK'
  BY <1>1, <1>2 DEF CheckInv, CheckTypeOK
<1>4. NoClose' /\ Closing' = {}
  BY <1>1 DEF CheckInv, ClosesLast, NoClose, Closing
<1>5. Unlisted' /\ RepliesAreTrue' /\ ClosesLast'
  BY <1>1, <1>4 DEF CheckInv, Unlisted, RepliesAreTrue, ClosesLast
<1>6. DialogsStay'
  BY <1>1, <1>4 DEF CheckInv, DialogsStay
<1>7. FrozenAreSeen'
  <2>1. ASSUME NEW p \in OpenPages, began[p] = "frozen"
        PROVE  FrozenIsSeen(p)'
    <3>1. conduct[p] \in {"frozen", "gone"} /\ [method |-> "attach", page |-> p] \in expected
      BY <1>1, <2>1 DEF CheckInv, FrozenAreSeen, FrozenIsSeen
    <3>2. p \in targets
      BY <3>1 DEF CheckInv, CheckTypeOK
    <3>3. Attempted(p, "probe")'
      <4>1. CASE p \in Unattached
        BY <1>1, <4>1 DEF Attempted
      <4>2. CASE Replied("attach", p, {"ok"})
        BY <1>1, <3>2, <4>2 DEF Attempted
      <4>3. CASE Replied("attach", p, {"no_target"})
        BY <1>1, <4>3 DEF CheckInv, RepliesAreTrue, Replied, Attempted, Gone
      <4> QED BY <3>2, <4>1, <4>2, <4>3 DEF Unattached, Replied
    <3> QED BY <1>1, <3>1, <3>3 DEF FrozenIsSeen
  <2> QED BY <1>1, <2>1 DEF FrozenAreSeen
<1> QED BY <1>3, <1>4, <1>5, <1>6, <1>7 DEF CheckInv

LEMMA JudgeInv ==
    ASSUME CheckInv, Judge
    PROVE  CheckInv'
<1>1. /\ checking = "probing" /\ alert # "asked" /\ Unanswered \subseteq troubled
      /\ conduct' = conduct /\ changes' = changes /\ hung' = hung /\ began' = began
      /\ troubled' = troubled /\ frozen' = frozen /\ targets' = targets /\ alert' = alert
      /\ unchecked' = unchecked
  BY AllReplied DEF Judge, ProbesTimedOut, AlertKnown, pagesOpen, CheckInv
<1>2. NoClose
  BY <1>1 DEF CheckInv, ClosesLast
<1>3. CASE alert = "open"
  <2>1. checking' = "dialog" /\ expected' = expected /\ replies' = replies /\ underway' = underway
    BY <1>3 DEF Judge
  <2>2. CheckTypeOK' /\ Unlisted' /\ RepliesAreTrue'
    BY <1>1, <2>1 DEF CheckInv, CheckTypeOK, Unlisted, RepliesAreTrue, Gone, Results
  <2>3. ClosesLast' /\ DialogsStay'
    BY <1>1, <1>2, <2>1 DEF CheckInv, ClosesLast, DialogsStay, NoClose, Closing
  <2>4. FrozenAreSeen'
    BY <1>1, <2>1 DEF CheckInv, FrozenAreSeen, FrozenIsSeen
  <2> QED BY <2>2, <2>3, <2>4 DEF CheckInv
<1>4. CASE alert # "open"
  <2>1. /\ checking' = "closing"
        /\ expected' = [method : {"close"}, page : Unanswered] /\ replies' = {}
        /\ underway' = underway \union expected'
    BY <1>4 DEF Judge, Send, Requests
  <2>2. Unanswered \subseteq targets
    BY DEF Unanswered, CheckInv, CheckTypeOK
  <2>3. CheckTypeOK'
    BY <1>1, <2>1, <2>2 DEF CheckInv, CheckTypeOK
  <2>4. Unlisted' /\ RepliesAreTrue'
    BY <1>1, <2>1 DEF CheckInv, Unlisted, RepliesAreTrue
  <2>5. ClosesLast'
    <3>1. Closing' \subseteq Unanswered
      BY <2>1 DEF Closing
    <3>2. alert' = "none"
      BY <1>1, <1>4 DEF CheckInv, CheckTypeOK, Unlisted
    <3> QED BY <1>1, <2>1, <3>1, <3>2 DEF ClosesLast
  <2>6. DialogsStay'
    <3>1. alert = "none"
      BY <1>1, <1>4 DEF CheckInv, CheckTypeOK, Unlisted
    <3> QED BY <1>1, <3>1 DEF CheckInv, DialogsStay
  <2>7. FrozenAreSeen'
    <3>1. ASSUME NEW p \in OpenPages, began[p] = "frozen"
          PROVE  FrozenIsSeen(p)'
      <4>1. conduct[p] \in {"frozen", "gone"} /\ Attempted(p, "probe")
        BY <1>1, <3>1 DEF CheckInv, FrozenAreSeen, FrozenIsSeen
      <4>2. Attempted(p, "close")'
        <5>1. CASE Gone(p) \/ p \in unchecked
          BY <1>1, <5>1 DEF Attempted, Gone
        <5>2. CASE [method |-> "probe", page |-> p] \in expected /\ ~Gone(p)
          <6>1. [method |-> "probe", page |-> p] \notin {reply.request : reply \in replies}
            BY <3>1, <5>2 DEF CheckInv, RepliesAreTrue
          <6>2. p \in Unanswered
            BY <5>2, <6>1 DEF Unanswered
          <6> QED BY <2>1, <6>2 DEF Attempted
        <5> QED BY <4>1, <5>1, <5>2 DEF Attempted
      <4> QED BY <1>1, <2>1, <4>1, <4>2 DEF FrozenIsSeen
    <3> QED BY <1>1, <3>1 DEF FrozenAreSeen
  <2> QED BY <2>3, <2>4, <2>5, <2>6, <2>7 DEF CheckInv
<1> QED BY <1>3, <1>4

LEMMA ConcludeInv ==
    ASSUME CheckInv, Conclude
    PROVE  CheckInv'
<1>1. /\ checking = "closing" /\ checking' = "checked"
      /\ frozen' = {[page |-> r.page, error |-> CloseError(r.page)] : r \in expected}
      /\ conduct' = conduct /\ changes' = changes /\ hung' = hung /\ began' = began
      /\ troubled' = troubled /\ targets' = targets /\ alert' = alert
      /\ unchecked' = unchecked /\ expected' = expected /\ replies' = replies
      /\ underway' = underway
  BY DEF Conclude, pagesOpen
<1>2. CheckTypeOK'
  <2>1. frozen' \subseteq [page : targets', error : BOOLEAN]
    <3>1. \A r \in expected : r.page \in targets /\ CloseError(r.page) \in BOOLEAN
      BY DEF CheckInv, CheckTypeOK, CloseError
    <3> QED BY <1>1, <3>1
  <2> QED BY <1>1, <2>1 DEF CheckInv, CheckTypeOK, Results
<1>3. Unlisted' /\ RepliesAreTrue'
  BY <1>1 DEF CheckInv, Unlisted, RepliesAreTrue, Gone
<1>4. ClosesLast' /\ DialogsStay'
  BY <1>1 DEF CheckInv, ClosesLast, DialogsStay, NoClose, Closing
<1>5. FrozenAreSeen'
  <2>1. ASSUME NEW p \in OpenPages, began[p] = "frozen"
        PROVE  FrozenIsSeen(p)'
    <3>1. conduct[p] \in {"frozen", "gone"} /\ Attempted(p, "close")
      BY <1>1, <2>1 DEF CheckInv, FrozenAreSeen, FrozenIsSeen
    <3>2. CASE Gone(p) \/ p \in unchecked
      BY <1>1, <3>1, <3>2 DEF FrozenIsSeen, Gone
    <3>3. CASE [method |-> "close", page |-> p] \in expected /\ ~Gone(p)
      <4>1. CloseError(p) = TRUE
        BY <3>3 DEF CloseError, Replied, CheckInv, RepliesAreTrue
      <4>2. [page |-> p, error |-> CloseError(p)] \in frozen'
        BY <1>1, <3>3
      <4> QED BY <1>1, <3>1, <4>1, <4>2 DEF FrozenIsSeen
    <3> QED BY <3>1, <3>2, <3>3 DEF Attempted
  <2> QED BY <1>1, <2>1 DEF FrozenAreSeen
<1> QED BY <1>2, <1>3, <1>4, <1>5 DEF CheckInv

LEMMA GiveUpInv ==
    ASSUME CheckInv, GiveUp
    PROVE  CheckInv'
<1>1. /\ checking' = "unknown"
      /\ conduct' = conduct /\ changes' = changes /\ hung' = hung /\ began' = began
      /\ troubled' = troubled /\ targets' = targets /\ alert' = alert /\ frozen' = frozen
      /\ unchecked' = unchecked /\ expected' = expected /\ replies' = replies
      /\ underway' = underway
  BY DEF GiveUp, pagesOpen
<1>2. CheckTypeOK' /\ Unlisted' /\ RepliesAreTrue'
  BY <1>1 DEF CheckInv, CheckTypeOK, Unlisted, RepliesAreTrue, Gone, Results
<1>3. ClosesLast' /\ DialogsStay'
  BY <1>1 DEF CheckInv, ClosesLast, DialogsStay, NoClose, Closing
<1>4. FrozenAreSeen'
  BY <1>1 DEF CheckInv, FrozenAreSeen, FrozenIsSeen
<1> QED BY <1>2, <1>3, <1>4 DEF CheckInv

LEMMA AnswerInv ==
    ASSUME CheckInv, NEW r \in underway, Answer(r)
    PROVE  CheckInv'
<1>1. PICK answer \in Answers(r) :
          /\ replies' = IF Awaited(r) /\ Underway
                        THEN replies \cup {[request |-> r, answer |-> answer]} ELSE replies
          /\ IF r.method = "close" /\ answer = "ok"
             THEN /\ conduct' = [conduct EXCEPT ![r.page] = "gone"]
                  /\ troubled' = troubled \cup {r.page}
             ELSE conduct' = conduct /\ troubled' = troubled
  BY DEF Answer
<1>2. /\ underway' = underway \ {r}
      /\ changes' = changes /\ hung' = hung /\ began' = began /\ checking' = checking
      /\ targets' = targets /\ expected' = expected /\ alert' = alert
      /\ frozen' = frozen /\ unchecked' = unchecked
  BY DEF Answer
<1>3. /\ r.page \in OpenPages /\ r.page \in targets /\ r.method \in {"attach", "probe", "close"}
      /\ conduct \in [OpenPages -> Conduct]
  BY DEF CheckInv, CheckTypeOK
<1>4. /\ answer = "no_target" => Gone(r.page)
      /\ r.method = "probe" /\ ~Gone(r.page) => conduct[r.page] = "responsive"
  BY <1>1, <1>3 DEF Answers, Gone
<1>5. /\ conduct' \in [OpenPages -> Conduct]
      /\ \A p \in OpenPages : conduct'[p] = conduct[p] \/ conduct'[p] = "gone"
      /\ r.method # "close" => conduct' = conduct
      /\ r.method = "close" /\ answer = "ok" => conduct'[r.page] = "gone"
  BY <1>1, <1>3 DEF Conduct
<1>6. CheckTypeOK'
  <2>1. troubled' \subseteq OpenPages
    BY <1>1, <1>3 DEF CheckInv, CheckTypeOK
  <2>2. {reply.request : reply \in replies'} \subseteq expected \ underway'
    BY <1>1, <1>2 DEF CheckInv, CheckTypeOK, Awaited
  <2> QED BY <1>2, <1>5, <2>1, <2>2 DEF CheckInv, CheckTypeOK
<1>7. Unlisted'
  BY <1>1, <1>2 DEF CheckInv, Unlisted, Awaited
<1>8. RepliesAreTrue'
  <2>1. \A a \in replies : a.request # r /\ a.request.page \in OpenPages
    BY DEF CheckInv, CheckTypeOK
  <2>2. \A a \in replies' : a \in replies \/ a = [request |-> r, answer |-> answer]
    BY <1>1
  <2>3. \A a, b \in replies' : a.request = b.request => a = b
    BY <2>1, <2>2 DEF CheckInv, RepliesAreTrue
  <2>4. r.method = "probe" /\ began[r.page] = "frozen" => Gone(r.page)
    BY <1>3, <1>4 DEF CheckInv, FrozenAreSeen, FrozenIsSeen
  <2>5. ASSUME NEW a \in replies',
               \/ a.answer = "no_target"
               \/ a.request.method = "close" /\ a.answer = "ok"
               \/ a.request.method = "probe" /\ began[a.request.page] = "frozen"
        PROVE  conduct'[a.request.page] = "gone"
    <3>1. CASE a \in replies
      BY <1>5, <2>1, <2>5, <3>1 DEF CheckInv, RepliesAreTrue, Gone
    <3>2. CASE a = [request |-> r, answer |-> answer]
      BY <1>3, <1>4, <1>5, <2>4, <2>5, <3>2 DEF Gone
    <3> QED BY <2>2, <3>1, <3>2
  <2> QED BY <1>2, <2>3, <2>5 DEF RepliesAreTrue, Gone
<1>9. ClosesLast'
  BY <1>1, <1>2 DEF CheckInv, ClosesLast, NoClose, Closing
<1>10. DialogsStay'
  BY <1>2, <1>5 DEF CheckInv, DialogsStay, NoClose
<1>11. FrozenAreSeen'
  <2>1. ASSUME NEW p \in OpenPages, began[p] = "frozen"
        PROVE  FrozenIsSeen(p)'
    <3>1. FrozenIsSeen(p)
      BY <2>1 DEF CheckInv, FrozenAreSeen
    <3>2. checking # "listing"
      BY DEF CheckInv, Unlisted
    <3>3. Gone(p) => Gone(p)'
      BY <1>5 DEF Gone
    <3> QED BY <1>2, <1>5, <3>1, <3>2, <3>3 DEF FrozenIsSeen, Attempted
  <2> QED BY <1>2, <2>1 DEF FrozenAreSeen
<1> QED BY <1>6, <1>7, <1>8, <1>9, <1>10, <1>11 DEF CheckInv

LEMMA PageChangesInv ==
    ASSUME CheckInv, NEW p \in OpenPages, PageChanges(p)
    PROVE  CheckInv'
<1>1. PICK next \in {"responsive"} \union Unresponsive :
          /\ conduct[p] \in {"unopened", "responsive", "busy"}
          /\ Becomes(p, next)
  BY DEF PageChanges, Unresponsive
<1>2. /\ changes < MaxChanges /\ changes' = changes + 1
      /\ conduct' = [conduct EXCEPT ![p] = next] /\ troubled \subseteq troubled'
      /\ troubled' \subseteq troubled \union {p}
      /\ hung' = hung /\ began' = began /\ checking' = checking
      /\ targets' = targets /\ expected' = expected /\ replies' = replies
      /\ underway' = underway /\ alert' = alert
      /\ frozen' = frozen /\ unchecked' = unchecked
  BY <1>1 DEF Becomes, check
<1>3. /\ conduct' \in [OpenPages -> Conduct] /\ changes' \in 0 .. MaxChanges
      /\ \A q \in OpenPages : conduct[q] \in {"frozen", "dialog", "gone"} => conduct'[q] = conduct[q]
  BY <1>1, <1>2, ChangesAssumption DEF CheckInv, CheckTypeOK, Conduct, Unresponsive
<1>4. CheckTypeOK'
  BY <1>2, <1>3 DEF CheckInv, CheckTypeOK
<1>5. Unlisted' /\ ClosesLast'
  BY <1>2 DEF CheckInv, Unlisted, ClosesLast, NoClose, Closing
<1>6. RepliesAreTrue'
  <2>1. \A a \in replies : a.request.page \in OpenPages
    BY DEF CheckInv, CheckTypeOK
  <2> QED BY <1>2, <1>3, <2>1 DEF CheckInv, RepliesAreTrue, Gone
<1>7. DialogsStay'
  BY <1>2, <1>3 DEF CheckInv, DialogsStay, NoClose
<1>8. FrozenAreSeen'
  <2>1. ASSUME NEW q \in OpenPages, began[q] = "frozen"
        PROVE  FrozenIsSeen(q)'
    <3>1. FrozenIsSeen(q)
      BY <2>1 DEF CheckInv, FrozenAreSeen
    <3>2. conduct'[q] = conduct[q]
      BY <1>3, <3>1 DEF FrozenIsSeen
    <3> QED BY <1>2, <3>1, <3>2 DEF FrozenIsSeen, Attempted, Gone
  <2> QED BY <1>2, <2>1 DEF FrozenAreSeen
<1> QED BY <1>4, <1>5, <1>6, <1>7, <1>8 DEF CheckInv

LEMMA CheckStep ==
    ASSUME CheckInv, [CheckNext]_checkVars
    PROVE  CheckInv'
<1>1. CASE UNCHANGED checkVars
  <2>1. /\ conduct' = conduct /\ changes' = changes /\ hung' = hung /\ began' = began
        /\ troubled' = troubled /\ checking' = checking /\ targets' = targets
        /\ expected' = expected /\ replies' = replies /\ underway' = underway
        /\ alert' = alert /\ frozen' = frozen /\ unchecked' = unchecked
    BY <1>1 DEF checkVars, pagesOpen, check
  <2>2. CheckTypeOK' /\ Unlisted' /\ RepliesAreTrue'
    BY <2>1 DEF CheckInv, CheckTypeOK, Unlisted, RepliesAreTrue, Gone
  <2>3. ClosesLast' /\ DialogsStay'
    BY <2>1 DEF CheckInv, ClosesLast, DialogsStay, NoClose, Closing
  <2>4. FrozenAreSeen'
    BY <2>1 DEF CheckInv, FrozenAreSeen, FrozenIsSeen, Attempted, Gone
  <2> QED BY <2>2, <2>3, <2>4 DEF CheckInv
<1> QED BY <1>1, ListTargetsInv, AskAlertInv, ProbeInv, JudgeInv, ConcludeInv, GiveUpInv,
           AnswerInv, PageChangesInv DEF CheckNext

LEMMA CheckInvImplies ==
    ASSUME CheckInv
    PROVE  CheckTypeOK /\ OnlyFrozenPagesAreClosed /\ FrozenPagesAreClosed
<1>1. NoClose => Closing = {}
  BY DEF NoClose, Closing
<1>2. OnlyFrozenPagesAreClosed
  BY <1>1 DEF CheckInv, ClosesLast, DialogsStay, OnlyFrozenPagesAreClosed
<1>3. FrozenPagesAreClosed
  BY DEF CheckInv, FrozenAreSeen, FrozenIsSeen, FrozenPagesAreClosed, Gone
<1> QED BY <1>2, <1>3 DEF CheckInv

-----------------------------------------------------------------------------
(* The reset of a session. *)

ManualSteps == {"windows", "close", "history", "blank", "events", "storage", "items"}
ContextSteps == {"remove", "check", "open"}

Contexts == {"default", "user"}

ResetShape ==
    /\ mode \in {"NewContext", "Manual"} /\ kept \in BOOLEAN
    /\ at \in ResetSteps \union {"ready", "test", "quit"}
    /\ mode = "Manual" => at \notin ContextSteps
    /\ mode = "NewContext" => at \notin ManualSteps
    /\ page \in [DOMAIN page -> [context : Contexts, at : Pages]] /\ DOMAIN page \subseteq Windows
    /\ history \subseteq Origins /\ origins \subseteq Origins /\ lost \subseteq Origins
    /\ events \in Seq(Windows \X Pages)
    /\ state \subseteq Contexts \X (Origins \union Items)
    /\ settings \subseteq Settings

\* A setting that was restored stays so until the next test.
SettingsRestored ==
    /\ at \in ResetSteps \ {"timeouts"} => "timeouts" \notin settings
    /\ at = "size" => "keys" \notin settings
    /\ at = "ready" => settings = {}

\* How far a manual reset is, while no page opened a window that it does not see.
Unwatched == "popup" \in escaped

KeptItems == {"unlisted"} \union (IF kept THEN {"httpCache"} ELSE {})

ManualProgress ==
    mode = "Manual" /\ ~Unwatched =>
        /\ at \in {"history", "blank", "events", "storage", "items", "keys", "size", "ready"} =>
              DOMAIN page = {Tab}
        /\ at \in {"events", "storage", "items", "keys", "size", "ready"} =>
              page[Tab].at \notin Origins /\ history = {}
        /\ at \in {"keys", "size", "ready"} =>
              \A s \in state : s[2] \in Items => s[2] \in KeptItems

\* What CheckDefault would notice of a test that left something in the default context.
Used == \E w \in DOMAIN page : page[w].context = "default" /\ (w # Tab \/ page[w].at # First)

Unseen == "unseen" \in escaped

TwoTabs ==
    \E w \in Windows \ {Tab} :
        /\ DOMAIN page = {Tab, w}
        /\ page[Tab] = Shown("default", First) /\ page[w] = Shown("user", First)

ContextProgress ==
    mode = "NewContext" =>
        /\ (\E s \in state : s[1] = "default") => Used \/ Unseen
        /\ at = "check" =>
              /\ \A w \in DOMAIN page : page[w].context = "default"
              /\ \A s \in state : s[1] = "default"
        /\ at = "open" => DOMAIN page = {Tab} /\ page[Tab] = Shown("default", First)
        /\ at \in {"keys", "size", "ready"} => TwoTabs
        /\ at \in {"open", "keys", "size", "ready"} => (state # {} => Unseen)

ResetInv ==
    /\ ResetShape
    /\ SettingsRestored
    /\ ManualProgress
    /\ ContextProgress

\* If no test visits the page of the reset, the stream holds its navigation once at most.
OwnEventOnce ==
    /\ at \notin {"events", "quit"} => \A i \in DOMAIN events : events[i] # <<Tab, Blank>>
    /\ at = "events" => \A i, j \in DOMAIN events :
          events[i] = <<Tab, Blank>> /\ events[j] = <<Tab, Blank>> => i = j

\* An origin that a page is at or whose storage is not empty was lost or is known to the reset.
Found(o) ==
    \/ \E w \in DOMAIN page : page[w].at = o
    \/ \E s \in state : s[2] = o

Traced(o) ==
    \/ o \in lost
    \/ /\ at \in {"test", "timeouts", "windows", "close", "history", "blank", "events"}
       /\ \E i \in DOMAIN events : events[i][2] = o
    \/ at = "storage" /\ o \in origins

OriginsTraced ==
    mode = "Manual" /\ ~Unwatched /\ at # "quit" =>
        /\ \A o \in Origins : Found(o) => Traced(o)
        /\ at = "events" => events # <<>> /\ events[Len(events)] = <<Tab, Blank>>

TracedInv == ResetInv /\ OwnEventOnce /\ OriginsTraced

LEMMA RestrictFacts ==
    ASSUME NEW f, NEW S, NEW r, r = Restrict(f, S)
    PROVE  DOMAIN r = S /\ r = [x \in S |-> f[x]] /\ \A x \in S : r[x] = f[x]
BY DEF Restrict

LEMMA WithFacts ==
    ASSUME NEW v, NEW context, v \notin DOMAIN page, NEW r, r = With(v, context)
    PROVE  /\ DOMAIN r = DOMAIN page \union {v} /\ r[v] = Shown(context, First)
           /\ \A w \in DOMAIN page : r[w] = page[w]
           /\ r = [w \in DOMAIN r |-> r[w]]
BY DEF With

\* When a page may still act: not in the manual reset once the tab is blank, unless a page
\* opened a window, and not once the context of the tests was removed and replaced.
LEMMA WhenPagesAct ==
    ASSUME ResetInv, NEW w, Acts(w)
    PROVE  /\ mode' = mode /\ kept' = kept /\ at' = at /\ origins' = origins
           /\ at # "quit" /\ w \in DOMAIN page
           /\ at = "test" \/ page[w].at \in Origins
           /\ mode = "Manual" /\ ~Unwatched =>
                 at \notin {"events", "storage", "items", "keys", "size", "ready"}
           /\ mode = "NewContext" => at \notin {"open", "keys", "size", "ready"}
<1>1. /\ mode' = mode /\ kept' = kept /\ at' = at /\ origins' = origins
      /\ w \in DOMAIN page /\ at # "quit"
      /\ at = "test" \/ page[w].at \in Origins
  BY DEF Acts, baseline
<1>2. mode = "Manual" /\ ~Unwatched =>
          at \notin {"events", "storage", "items", "keys", "size", "ready"}
  BY <1>1 DEF ResetInv, ManualProgress
<1>3. mode = "NewContext" => at \notin {"open", "keys", "size", "ready"}
  <2>1. SUFFICES ASSUME mode = "NewContext", at \in {"open", "keys", "size", "ready"}
                 PROVE  FALSE
    OBVIOUS
  <2>2. \A c : Shown(c, First).at = First
    BY DEF Shown
  <2>3. CASE at = "open"
    BY <1>1, <2>1, <2>2, <2>3, OriginsAssumption DEF ResetInv, ContextProgress
  <2>4. CASE TwoTabs
    BY <1>1, <2>1, <2>2, <2>4, OriginsAssumption DEF TwoTabs
  <2> QED BY <2>1, <2>3, <2>4 DEF ResetInv, ContextProgress
<1>4. mode \in {"NewContext", "Manual"}
  BY DEF ResetInv, ResetShape
<1> QED BY <1>1, <1>2, <1>3, <1>4

LEMMA LeastNumber ==
    ASSUME NEW S \in SUBSET Nat, S # {}
    PROVE  \E m \in S : \A k \in S : m <= k
<1>1. PICK m \in S : \A k \in S : <<k, m>> \notin OpToRel(<, Nat)
  BY WFMin, NatLessThanWellFounded, Zenon
<1>2. \A k \in S : ~(k < m)
  BY <1>1, Zenon DEF OpToRel
<1> QED BY <1>2

\* The event that the reset takes for its own is one of a navigation to its page.
LEMMA OwnEventFacts ==
    ASSUME events \in Seq(Windows \X Pages)
    PROVE  /\ OwnEvent \in {0} \union 1 .. Len(events)
           /\ OwnEvent # 0 => events[OwnEvent] = <<Tab, Blank>>
<1> DEFINE I == {i \in 1 .. Len(events) : events[i] = <<Tab, Blank>>}
<1>1. OwnEvent = IF I # {} THEN Min(I) ELSE 0
  BY DEF OwnEvent, SelectInSeq
<1>2. I \in SUBSET Nat /\ (I # {} => Min(I) \in I)
  <2>1. I \in SUBSET Nat
    OBVIOUS
  <2> HIDE DEF I
  <2>2. I # {} => \E m \in I : \A k \in I : m <= k
    BY <2>1, LeastNumber
  <2> QED BY <2>1, <2>2 DEF Min
<1>3. CASE I = {}
  BY <1>1, <1>3
<1>4. CASE I # {}
  <2>1. OwnEvent \in I
    BY <1>1, <1>2, <1>4
  <2> QED BY <2>1
<1> QED BY <1>3, <1>4

LEMMA NavigateInv ==
    ASSUME ResetInv, NEW w, NEW p, NEW replaces, Navigate(w, p, replaces)
    PROVE  ResetInv'
<1>1. /\ mode' = mode /\ kept' = kept /\ at' = at /\ origins' = origins
      /\ w \in DOMAIN page /\ at # "quit"
      /\ at = "test" \/ page[w].at \in Origins
      /\ mode = "Manual" /\ ~Unwatched =>
            at \notin {"events", "storage", "items", "keys", "size", "ready"}
      /\ mode = "NewContext" => at \notin {"open", "keys", "size", "ready"}
  BY WhenPagesAct DEF Navigate
<1>2. /\ p \in Pages /\ page' = [page EXCEPT ![w].at = p]
      /\ history' \subseteq Origins
      /\ events' = (IF mode = "Manual" THEN Append(events, <<w, p>>) ELSE events)
      /\ escaped' = (IF w = Tab /\ p = First THEN escaped \union {"unseen"} ELSE escaped)
      /\ state' = state /\ settings' = settings /\ lost' = lost
  BY DEF Navigate, ResetInv, ResetShape, Pages
<1>3. /\ page \in [DOMAIN page -> [context : Contexts, at : Pages]] /\ DOMAIN page \subseteq Windows
      /\ events \in Seq(Windows \X Pages)
  BY DEF ResetInv, ResetShape
<1>4. /\ DOMAIN page' = DOMAIN page
      /\ page' \in [DOMAIN page -> [context : Contexts, at : Pages]]
      /\ page'[w].at = p /\ page'[w].context = page[w].context
      /\ \A v \in DOMAIN page : v # w => page'[v] = page[v]
  BY <1>1, <1>2, <1>3
<1>5. ResetShape'
  <2>1. events' \in Seq(Windows \X Pages)
    BY <1>1, <1>2, <1>3
  <2> QED BY <1>1, <1>2, <1>3, <1>4, <2>1 DEF ResetInv, ResetShape
<1>6. SettingsRestored'
  BY <1>1, <1>2 DEF ResetInv, SettingsRestored
<1>7. ManualProgress'
  BY <1>1, <1>2, <1>4 DEF ResetInv, ManualProgress, Unwatched
<1>8. ContextProgress'
  <2>1. Used => Used' \/ Unseen'
    BY <1>2, <1>4 DEF Used, Unseen
  <2>2. Unseen => Unseen'
    BY <1>2 DEF Unseen
  <2>3. (\A v \in DOMAIN page : page[v].context = "default") =>
            \A v \in DOMAIN page' : page'[v].context = "default"
    BY <1>4
  <2> QED BY <1>1, <1>2, <2>1, <2>2, <2>3 DEF ResetInv, ContextProgress
<1> QED BY <1>5, <1>6, <1>7, <1>8 DEF ResetInv

LEMMA StoreInv ==
    ASSUME ResetInv, NEW w, Store(w)
    PROVE  ResetInv'
<1>1. /\ mode' = mode /\ kept' = kept /\ at' = at /\ origins' = origins
      /\ w \in DOMAIN page /\ at # "quit"
      /\ mode = "Manual" /\ ~Unwatched =>
            at \notin {"events", "storage", "items", "keys", "size", "ready"}
      /\ mode = "NewContext" => at \notin {"open", "keys", "size", "ready"}
  BY WhenPagesAct DEF Store
<1>2. /\ page[w].at \in Origins
      /\ state' = state \union {<<page[w].context, page[w].at>>}
      /\ page' = page /\ history' = history /\ events' = events /\ settings' = settings
      /\ lost' = lost /\ escaped' = escaped
  BY DEF Store, ghosts
<1>3. page[w] \in [context : Contexts, at : Pages]
  BY <1>1 DEF ResetInv, ResetShape
<1>4. ResetShape'
  BY <1>1, <1>2, <1>3 DEF ResetInv, ResetShape
<1>5. SettingsRestored'
  BY <1>1, <1>2 DEF ResetInv, SettingsRestored
<1>6. ManualProgress'
  BY <1>1, <1>2 DEF ResetInv, ManualProgress, Unwatched
<1>7. ContextProgress'
  <2>1. page[w].context = "default" => Used
    BY <1>1, <1>2, OriginsAssumption DEF Used
  <2>2. Used' = Used /\ Unseen' = Unseen
    BY <1>2 DEF Used, Unseen
  <2> QED BY <1>1, <1>2, <2>1, <2>2 DEF ResetInv, ContextProgress
<1> QED BY <1>4, <1>5, <1>6, <1>7 DEF ResetInv

LEMMA ChangeInv ==
    ASSUME ResetInv, NEW w, NEW item \in Items, Change(w, item)
    PROVE  ResetInv'
<1>1. /\ mode' = mode /\ kept' = kept /\ at' = at /\ origins' = origins
      /\ w \in DOMAIN page /\ at # "quit"
      /\ mode = "Manual" /\ ~Unwatched =>
            at \notin {"events", "storage", "items", "keys", "size", "ready"}
      /\ mode = "NewContext" => at \notin {"open", "keys", "size", "ready"}
  BY WhenPagesAct DEF Change
<1>2. /\ state' = state \union {<<page[w].context, item>>}
      /\ escaped' = (IF page[w].at \in Origins THEN escaped ELSE escaped \union {"unseen"})
      /\ page' = page /\ history' = history /\ events' = events /\ settings' = settings
      /\ lost' = lost
  BY DEF Change
<1>3. page[w] \in [context : Contexts, at : Pages]
  BY <1>1 DEF ResetInv, ResetShape
<1>4. ResetShape'
  BY <1>1, <1>2, <1>3 DEF ResetInv, ResetShape
<1>5. SettingsRestored'
  BY <1>1, <1>2 DEF ResetInv, SettingsRestored
<1>6. ManualProgress'
  BY <1>1, <1>2 DEF ResetInv, ManualProgress, Unwatched
<1>7. ContextProgress'
  <2>1. page[w].context = "default" => Used \/ Unseen'
    BY <1>1, <1>2, OriginsAssumption DEF Used, Unseen
  <2>2. Used' = Used /\ (Unseen => Unseen')
    BY <1>2 DEF Used, Unseen
  <2> QED BY <1>1, <1>2, <2>1, <2>2 DEF ResetInv, ContextProgress
<1> QED BY <1>4, <1>5, <1>6, <1>7 DEF ResetInv

LEMMA OpenWindowInv ==
    ASSUME ResetInv, NEW w, NEW v, NEW context \in Contexts, OpenWindow(w, v, context)
    PROVE  ResetInv'
<1>1. /\ mode' = mode /\ kept' = kept /\ at' = at /\ origins' = origins
      /\ w \in DOMAIN page /\ at # "quit"
      /\ mode = "Manual" /\ ~Unwatched =>
            at \notin {"events", "storage", "items", "keys", "size", "ready"}
      /\ mode = "NewContext" => at \notin {"open", "keys", "size", "ready"}
  BY WhenPagesAct DEF OpenWindow
<1>2. /\ v \in Windows /\ v \notin DOMAIN page
      /\ context = page[w].context \/ at = "test"
      /\ escaped' = (IF mode = "Manual" /\ at \notin {"test", "timeouts", "windows", "close"}
                     THEN escaped \union {"popup"} ELSE escaped)
      /\ state' = state /\ history' = history /\ events' = events /\ settings' = settings
      /\ lost' = lost
  BY DEF OpenWindow
<1>3. /\ DOMAIN page' = DOMAIN page \union {v} /\ page'[v] = Shown(context, First)
      /\ \A u \in DOMAIN page : page'[u] = page[u]
      /\ page' = [u \in DOMAIN page' |-> page'[u]]
  BY <1>2, WithFacts DEF OpenWindow
<1>4. ResetShape'
  <2>1. Shown(context, First) \in [context : Contexts, at : Pages]
    BY DEF Shown, Pages
  <2> QED BY <1>1, <1>2, <1>3, <2>1 DEF ResetInv, ResetShape
<1>5. SettingsRestored'
  BY <1>1, <1>2 DEF ResetInv, SettingsRestored
<1>6. ManualProgress'
  BY <1>1, <1>2 DEF ResetInv, ManualProgress, Unwatched
<1>7. ContextProgress'
  <2>1. Used => Used'
    BY <1>3 DEF Used
  <2>2. Unseen' = Unseen
    BY <1>2 DEF Unseen
  <2>3. Shown(context, First).context = context
    BY DEF Shown
  <2>4. at = "check" /\ (\A u \in DOMAIN page : page[u].context = "default") =>
            \A u \in DOMAIN page' : page'[u].context = "default"
    BY <1>1, <1>2, <1>3, <2>3
  <2> QED BY <1>1, <1>2, <2>1, <2>2, <2>4 DEF ResetInv, ContextProgress
<1> QED BY <1>4, <1>5, <1>6, <1>7 DEF ResetInv

LEMMA CloseWindowInv ==
    ASSUME ResetInv, NEW w, CloseWindow(w)
    PROVE  ResetInv'
<1>1. /\ mode' = mode /\ kept' = kept /\ at' = at /\ origins' = origins
      /\ w \in DOMAIN page /\ at = "test"
  BY DEF CloseWindow, Acts, baseline
<1>2. /\ escaped' = (IF page[w].context = "default" THEN escaped \union {"unseen"} ELSE escaped)
      /\ state' = state /\ history' = history /\ events' = events /\ settings' = settings
      /\ lost' = lost
  BY DEF CloseWindow
<1>3. /\ DOMAIN page' = DOMAIN page \ {w}
      /\ page' = [u \in DOMAIN page \ {w} |-> page[u]]
      /\ \A u \in DOMAIN page' : page'[u] = page[u]
  BY RestrictFacts DEF CloseWindow
<1>4. ResetShape'
  BY <1>1, <1>2, <1>3 DEF ResetInv, ResetShape
<1>5. SettingsRestored'
  BY <1>1, <1>2 DEF ResetInv, SettingsRestored
<1>6. ManualProgress'
  BY <1>1 DEF ManualProgress
<1>7. ContextProgress'
  <2>1. Used => Used' \/ Unseen'
    BY <1>2, <1>3 DEF Used, Unseen
  <2>2. Unseen => Unseen'
    BY <1>2 DEF Unseen
  <2> QED BY <1>1, <1>2, <2>1, <2>2 DEF ResetInv, ContextProgress
<1> QED BY <1>4, <1>5, <1>6, <1>7 DEF ResetInv

\* Steps that leave the pages and what tests changed alone.
LEMMA StillInv ==
    ASSUME ResetInv,
           mode' = mode, kept' = kept, page' = page, state' = state, escaped' = escaped,
           history' = history, origins' \subseteq Origins,
           events' \in Seq(Windows \X Pages), lost' \subseteq Origins,
           settings' \subseteq Settings, SettingsRestored',
           \/ at' \in {at, "quit"}
           \/ at = "ready" /\ at' = "test"
           \/ at = "test" /\ at' = "timeouts"
           \/ at = "timeouts" /\ at' = (IF mode = "Manual" THEN "windows" ELSE "remove")
           \/ at = "windows" /\ at' = "close"
           \/ at = "keys" /\ at' = "size"
           \/ at = "size" /\ at' = "ready"
    PROVE  ResetInv'
<1>1. ResetShape'
  <2>1. /\ at' \in ResetSteps \union {"ready", "test", "quit"}
        /\ mode = "Manual" => at' \notin ContextSteps
        /\ mode = "NewContext" => at' \notin ManualSteps
    BY DEF ResetInv, ResetShape, ResetSteps, ContextSteps, ManualSteps
  <2> QED BY <2>1 DEF ResetInv, ResetShape
<1>2. ManualProgress'
  BY DEF ResetInv, ResetShape, ManualProgress, Unwatched, KeptItems
<1>3. ContextProgress'
  <2>1. Used' = Used /\ Unseen' = Unseen /\ TwoTabs' = TwoTabs
    BY DEF Used, Unseen, TwoTabs
  <2> QED BY <2>1 DEF ResetInv, ContextProgress
<1> QED BY <1>1, <1>2, <1>3 DEF ResetInv

LEMMA StillSteps ==
    ASSUME ResetInv,
           \/ LoseEvent \/ StartTest \/ EndTest \/ Fails \/ RestoreTimeouts \/ ListWindows
           \/ ReleaseKeys \/ RestoreSize \/ \E setting \in Settings : Alter(setting)
    PROVE  ResetInv'
<1> USE DEF baseline, browser, ghosts, Goes
<1>1. /\ settings \subseteq Settings /\ SettingsRestored /\ origins \subseteq Origins
      /\ events \in Seq(Windows \X Pages) /\ lost \subseteq Origins
  BY DEF ResetInv, ResetShape
<1>2. CASE LoseEvent
  <2>1. /\ mode' = mode /\ kept' = kept /\ page' = page /\ state' = state /\ escaped' = escaped
        /\ history' = history /\ origins' = origins /\ settings' = settings /\ at' = at
        /\ events # <<>> /\ events' = Tail(events)
        /\ lost' = lost \union ({Head(events)[2]} \intersect Origins)
    BY <1>2 DEF LoseEvent
  <2>2. SettingsRestored'
    BY <1>1, <2>1 DEF SettingsRestored
  <2>3. events' \in Seq(Windows \X Pages) /\ lost' \subseteq Origins
    BY <1>1, <2>1
  <2> QED BY <1>1, <2>1, <2>2, <2>3, StillInv
<1>3. CASE StartTest
  <2>1. /\ mode' = mode /\ kept' = kept /\ page' = page /\ state' = state /\ escaped' = escaped
        /\ history' = history /\ origins' = origins /\ settings' = settings
        /\ events' = events /\ lost' = lost /\ at = "ready" /\ at' = "test"
    BY <1>3 DEF StartTest
  <2>2. SettingsRestored'
    BY <1>1, <2>1 DEF SettingsRestored, ResetSteps
  <2> QED BY <1>1, <2>1, <2>2, StillInv
<1>4. CASE EndTest
  <2>1. /\ mode' = mode /\ kept' = kept /\ page' = page /\ state' = state /\ escaped' = escaped
        /\ history' = history /\ origins' = origins /\ settings' = settings
        /\ events' = events /\ lost' = lost /\ at = "test" /\ at' \in {"timeouts", "quit"}
    BY <1>4 DEF EndTest
  <2>2. SettingsRestored'
    BY <1>1, <2>1 DEF SettingsRestored, ResetSteps
  <2> QED BY <1>1, <2>1, <2>2, StillInv
<1>5. CASE Fails
  <2>1. /\ mode' = mode /\ kept' = kept /\ page' = page /\ state' = state /\ escaped' = escaped
        /\ history' = history /\ origins' = origins /\ settings' = settings
        /\ events' = events /\ lost' = lost /\ at' = "quit"
    BY <1>5 DEF Fails
  <2>2. SettingsRestored'
    BY <1>1, <2>1 DEF SettingsRestored, ResetSteps
  <2> QED BY <1>1, <2>1, <2>2, StillInv
<1>6. CASE RestoreTimeouts
  <2>1. /\ mode' = mode /\ kept' = kept /\ page' = page /\ state' = state /\ escaped' = escaped
        /\ history' = history /\ origins' = {} /\ settings' = settings \ {"timeouts"}
        /\ events' = events /\ lost' = lost /\ at = "timeouts"
        /\ at' = (IF mode = "Manual" THEN "windows" ELSE "remove")
    BY <1>6 DEF RestoreTimeouts
  <2>2. SettingsRestored'
    BY <1>1, <2>1 DEF SettingsRestored, ResetSteps
  <2> QED BY <1>1, <2>1, <2>2, StillInv
<1>7. CASE ListWindows
  <2>1. /\ mode' = mode /\ kept' = kept /\ page' = page /\ state' = state /\ escaped' = escaped
        /\ history' = history /\ origins' \subseteq Origins /\ settings' = settings
        /\ events' = events /\ lost' = lost /\ at = "windows" /\ at' = "close"
    BY <1>7 DEF ListWindows
  <2>2. SettingsRestored'
    BY <1>1, <2>1 DEF SettingsRestored, ResetSteps
  <2> QED BY <1>1, <2>1, <2>2, StillInv
<1>8. CASE ReleaseKeys
  <2>1. /\ mode' = mode /\ kept' = kept /\ page' = page /\ state' = state /\ escaped' = escaped
        /\ history' = history /\ origins' = origins /\ settings' = settings \ {"keys"}
        /\ events' = events /\ lost' = lost /\ at = "keys" /\ at' = "size"
    BY <1>8 DEF ReleaseKeys
  <2>2. SettingsRestored'
    BY <1>1, <2>1 DEF SettingsRestored, ResetSteps
  <2> QED BY <1>1, <2>1, <2>2, StillInv
<1>9. CASE RestoreSize
  <2>1. /\ mode' = mode /\ kept' = kept /\ page' = page /\ state' = state /\ escaped' = escaped
        /\ history' = history /\ origins' = origins /\ settings' = settings \ {"size"}
        /\ events' = events /\ lost' = lost /\ at = "size" /\ at' = "ready"
    BY <1>9 DEF RestoreSize
  <2>2. SettingsRestored'
    BY <1>1, <2>1 DEF SettingsRestored, ResetSteps, Settings
  <2> QED BY <1>1, <2>1, <2>2, StillInv
<1>10. ASSUME NEW setting \in Settings, Alter(setting)
       PROVE  ResetInv'
  <2>1. /\ mode' = mode /\ kept' = kept /\ page' = page /\ state' = state /\ escaped' = escaped
        /\ history' = history /\ origins' = origins /\ settings' = settings \union {setting}
        /\ events' = events /\ lost' = lost /\ at = "test" /\ at' = at
    BY <1>10 DEF Alter
  <2>2. SettingsRestored'
    BY <1>1, <2>1 DEF SettingsRestored, ResetSteps
  <2> QED BY <1>1, <2>1, <2>2, StillInv
<1> QED BY <1>2, <1>3, <1>4, <1>5, <1>6, <1>7, <1>8, <1>9, <1>10

LEMMA RemoveContextInv ==
    ASSUME ResetInv, RemoveContext
    PROVE  ResetInv'
<1>1. /\ at = "remove" /\ at' = "check" /\ mode' = mode /\ kept' = kept
      /\ state' = {s \in state : s[1] # "user"}
      /\ history' = history /\ events' = events /\ settings' = settings
      /\ origins' = origins /\ lost' = lost /\ escaped' = escaped
  BY DEF RemoveContext, Goes, baseline, ghosts
<1>2. /\ DOMAIN page' = {w \in DOMAIN page : page[w].context # "user"}
      /\ page' = [w \in DOMAIN page' |-> page[w]]
      /\ \A w \in DOMAIN page' : page'[w] = page[w]
  BY RestrictFacts DEF RemoveContext
<1>3. mode = "NewContext"
  BY <1>1 DEF ResetInv, ResetShape, ContextSteps
<1>4. ResetShape'
  BY <1>1, <1>2, <1>3 DEF ResetInv, ResetShape, ResetSteps, ManualSteps
<1>5. SettingsRestored'
  BY <1>1 DEF ResetInv, SettingsRestored, ResetSteps
<1>6. ManualProgress'
  BY <1>1, <1>3 DEF ManualProgress
<1>7. ContextProgress'
  <2>1. Used => Used'
    BY <1>2 DEF Used
  <2>2. Unseen' = Unseen
    BY <1>1 DEF Unseen
  <2>3. \A w \in DOMAIN page' : page'[w].context = "default"
    BY <1>2 DEF ResetInv, ResetShape, Contexts
  <2>4. \A s \in state' : s[1] = "default"
    BY <1>1 DEF ResetInv, ResetShape, Contexts
  <2> QED BY <1>1, <1>3, <2>1, <2>2, <2>3, <2>4 DEF ResetInv, ContextProgress
<1> QED BY <1>4, <1>5, <1>6, <1>7 DEF ResetInv

LEMMA CheckDefaultInv ==
    ASSUME ResetInv, CheckDefault
    PROVE  ResetInv'
<1>1. /\ at = "check" /\ at' = (IF DefaultUnused THEN "open" ELSE "quit")
      /\ mode' = mode /\ kept' = kept /\ page' = page /\ state' = state
      /\ history' = history /\ events' = events /\ settings' = settings
      /\ origins' = origins /\ lost' = lost /\ escaped' = escaped
  BY DEF CheckDefault, Goes, baseline, browser, ghosts
<1>2. mode = "NewContext"
  BY <1>1 DEF ResetInv, ResetShape, ContextSteps
<1>3. ResetShape'
  BY <1>1, <1>2 DEF ResetInv, ResetShape, ResetSteps, ManualSteps
<1>4. SettingsRestored'
  BY <1>1 DEF ResetInv, SettingsRestored, ResetSteps
<1>5. ManualProgress'
  BY <1>1, <1>2 DEF ManualProgress
<1>6. ContextProgress'
  <2>1. Used' = Used /\ Unseen' = Unseen
    BY <1>1 DEF Used, Unseen
  <2>2. CASE DefaultUnused
    <3>1. ~Used
      BY <2>2 DEF DefaultUnused, Used
    <3>2. state # {} => Unseen
      BY <1>1, <1>2, <3>1 DEF ResetInv, ContextProgress
    <3>3. DOMAIN page = {Tab} /\ page[Tab] = Shown("default", First)
      <4>1. /\ page[Tab] \in [context : Contexts, at : Pages]
            /\ page[Tab].context = "default" /\ page[Tab].at = First
        BY <1>1, <1>2, <2>2 DEF ResetInv, ResetShape, ContextProgress, DefaultUnused
      <4> QED BY <2>2, <4>1 DEF DefaultUnused, Shown
    <3> QED BY <1>1, <2>1, <2>2, <3>2, <3>3 DEF ResetInv, ContextProgress
  <2>3. CASE ~DefaultUnused
    BY <1>1, <2>1, <2>3 DEF ResetInv, ContextProgress
  <2> QED BY <2>2, <2>3
<1> QED BY <1>3, <1>4, <1>5, <1>6 DEF ResetInv

LEMMA OpenContextInv ==
    ASSUME ResetInv, OpenContext
    PROVE  ResetInv'
<1>1. PICK w \in Windows : w \notin DOMAIN page /\ page' = With(w, "user")
  BY DEF OpenContext
<1>2. /\ at = "open" /\ at' = "keys" /\ mode' = mode /\ kept' = kept /\ state' = state
      /\ history' = history /\ events' = events
      /\ settings' \in {settings, settings \union {"size"}}
      /\ origins' = origins /\ lost' = lost /\ escaped' = escaped
  BY DEF OpenContext, Goes, baseline, ghosts
<1>3. /\ DOMAIN page' = DOMAIN page \union {w} /\ page'[w] = Shown("user", First)
      /\ \A u \in DOMAIN page : page'[u] = page[u]
      /\ page' = [u \in DOMAIN page' |-> page'[u]]
  BY <1>1 DEF With
<1>4. mode = "NewContext"
  BY <1>2 DEF ResetInv, ResetShape, ContextSteps
<1>5. ResetShape'
  <2>1. Shown("user", First) \in [context : Contexts, at : Pages]
    BY DEF Shown, Pages, Contexts
  <2>2. settings' \subseteq Settings
    BY <1>2 DEF ResetInv, ResetShape, Settings
  <2> QED BY <1>1, <1>2, <1>3, <1>4, <2>1, <2>2
          DEF ResetInv, ResetShape, ResetSteps, ManualSteps
<1>6. SettingsRestored'
  BY <1>2 DEF ResetInv, SettingsRestored, ResetSteps
<1>7. ManualProgress'
  BY <1>2, <1>4 DEF ManualProgress
<1>8. ContextProgress'
  <2>1. DOMAIN page = {Tab} /\ page[Tab] = Shown("default", First) /\ (state # {} => Unseen)
    BY <1>2, <1>4 DEF ResetInv, ContextProgress
  <2>2. TwoTabs'
    BY <1>1, <1>3, <2>1 DEF TwoTabs
  <2>3. Unseen' = Unseen
    BY <1>2 DEF Unseen
  <2> QED BY <1>2, <2>1, <2>2, <2>3 DEF ContextProgress
<1> QED BY <1>5, <1>6, <1>7, <1>8 DEF ResetInv

LEMMA CloseWindowsInv ==
    ASSUME ResetInv, CloseWindows
    PROVE  ResetInv'
<1>1. /\ Tab \in DOMAIN page /\ at = "close" /\ at' = "history" /\ mode' = mode /\ kept' = kept
      /\ state' = state /\ history' = history /\ events' = events /\ settings' = settings
      /\ origins' = origins /\ lost' = lost /\ escaped' = escaped
  BY DEF CloseWindows, Goes, baseline, ghosts
<1>2. DOMAIN page' = {Tab} /\ page' = [w \in {Tab} |-> page[w]]
  BY RestrictFacts DEF CloseWindows
<1>3. mode = "Manual"
  BY <1>1 DEF ResetInv, ResetShape, ManualSteps
<1>4. ResetShape'
  BY <1>1, <1>2, <1>3 DEF ResetInv, ResetShape, ResetSteps, ContextSteps
<1>5. SettingsRestored'
  BY <1>1 DEF ResetInv, SettingsRestored, ResetSteps
<1>6. ManualProgress'
  BY <1>1, <1>2 DEF ManualProgress
<1>7. ContextProgress'
  BY <1>1, <1>3 DEF ContextProgress
<1> QED BY <1>4, <1>5, <1>6, <1>7 DEF ResetInv

\* The steps of a manual reset that follow, up to its last.
LEMMA ManualInv ==
    ASSUME ResetInv, ReadHistory \/ ReadEvents \/ ClearStorage
    PROVE  ResetInv'
<1>1. /\ at \in {"history", "events", "storage"}
      /\ at = "history" => at' = "blank"
      /\ at = "events" => at' = "storage"
      /\ at = "storage" => at' = "items"
      /\ mode' = mode /\ kept' = kept /\ page' = page /\ history' = history
      /\ settings' = settings /\ escaped' = escaped /\ state' \subseteq state
      /\ lost' \subseteq lost
  BY DEF ReadHistory, ReadEvents, ClearStorage, Goes, baseline, browser, ghosts
<1>2. origins' \subseteq Origins
  BY DEF ReadHistory, ReadEvents, ClearStorage, ResetInv, ResetShape
<1>3. events' \in Seq(Windows \X Pages)
  <2>1. CASE events' = events
    BY <2>1 DEF ResetInv, ResetShape
  <2>2. CASE ReadEvents
    <3>1. OwnEvent \in 1 .. Len(events) /\ events' = SubSeq(events, OwnEvent + 1, Len(events))
      <4>1. events \in Seq(Windows \X Pages) /\ OwnEvent # 0
        BY <2>2 DEF ReadEvents, ResetInv, ResetShape
      <4> QED BY <2>2, <4>1, OwnEventFacts DEF ReadEvents, Unread
    <3>2. events \in Seq(Windows \X Pages)
      BY DEF ResetInv, ResetShape
    <3> QED BY <3>1, <3>2
  <2> QED BY <2>1, <2>2 DEF ReadHistory, ClearStorage, browser
<1>4. mode = "Manual"
  BY <1>1 DEF ResetInv, ResetShape, ManualSteps
<1>5. ResetShape'
  BY <1>1, <1>2, <1>3, <1>4 DEF ResetInv, ResetShape, ResetSteps, ContextSteps
<1>6. SettingsRestored'
  BY <1>1 DEF ResetInv, SettingsRestored, ResetSteps
<1>7. ManualProgress'
  BY <1>1 DEF ResetInv, ManualProgress, Unwatched
<1>8. ContextProgress'
  BY <1>1, <1>4 DEF ContextProgress
<1> QED BY <1>5, <1>6, <1>7, <1>8 DEF ResetInv

LEMMA GoBlankInv ==
    ASSUME ResetInv, GoBlank
    PROVE  ResetInv'
<1>1. /\ at = "blank" /\ at' = "events" /\ mode' = mode /\ kept' = kept
      /\ page' = [page EXCEPT ![Tab].at = Blank]
      /\ events' = Append(events, <<Tab, Blank>>) /\ history' = {}
      /\ state' = state /\ settings' = settings
      /\ origins' = origins /\ lost' = lost /\ escaped' = escaped
  BY DEF GoBlank, Goes, baseline, ghosts
<1>2. mode = "Manual"
  BY <1>1 DEF ResetInv, ResetShape, ManualSteps
<1>3. /\ page \in [DOMAIN page -> [context : Contexts, at : Pages]]
      /\ events \in Seq(Windows \X Pages)
  BY DEF ResetInv, ResetShape
<1>4. /\ DOMAIN page' = DOMAIN page
      /\ page' \in [DOMAIN page -> [context : Contexts, at : Pages]]
      /\ Tab \in DOMAIN page => page'[Tab].at = Blank
  BY <1>1, <1>3 DEF Pages
<1>5. events' \in Seq(Windows \X Pages)
  BY <1>1, <1>3, WindowsAssumption DEF Pages
<1>6. ResetShape'
  BY <1>1, <1>2, <1>4, <1>5 DEF ResetInv, ResetShape, ResetSteps, ContextSteps
<1>7. SettingsRestored'
  BY <1>1 DEF ResetInv, SettingsRestored, ResetSteps
<1>8. ManualProgress'
  <2>1. ~Unwatched => DOMAIN page = {Tab}
    BY <1>1, <1>2 DEF ResetInv, ManualProgress
  <2> QED BY <1>1, <1>4, <2>1, OriginsAssumption DEF ManualProgress, Unwatched
<1>9. ContextProgress'
  BY <1>1, <1>2 DEF ContextProgress
<1> QED BY <1>6, <1>7, <1>8, <1>9 DEF ResetInv

LEMMA ClearItemsInv ==
    ASSUME ResetInv, ClearItems
    PROVE  ResetInv'
<1>1. /\ at = "items" /\ at' = "keys" /\ mode' = mode /\ kept' = kept
      /\ state' = {s \in state : s[2] # "listed" /\ (s[2] = "httpCache" => kept)}
      /\ page' = page /\ events' = events /\ history' = history /\ settings' = settings
      /\ origins' = origins /\ lost' = lost /\ escaped' = escaped
  BY DEF ClearItems, Goes, baseline, ghosts
<1>2. mode = "Manual"
  BY <1>1 DEF ResetInv, ResetShape, ManualSteps
<1>3. ResetShape'
  BY <1>1, <1>2 DEF ResetInv, ResetShape, ResetSteps, ContextSteps
<1>4. SettingsRestored'
  BY <1>1 DEF ResetInv, SettingsRestored, ResetSteps
<1>5. ManualProgress'
  <2>1. \A s \in state' : s[2] \in Items => s[2] \in KeptItems'
    BY <1>1 DEF Items, KeptItems
  <2> QED BY <1>1, <2>1 DEF ResetInv, ManualProgress, Unwatched
<1>6. ContextProgress'
  BY <1>1, <1>2 DEF ContextProgress
<1> QED BY <1>3, <1>4, <1>5, <1>6 DEF ResetInv

LEMMA ResetBegins ==
    ASSUME Init
    PROVE  ResetInv
<1>1. /\ mode \in {"NewContext", "Manual"} /\ kept \in BOOLEAN /\ at = "ready"
      /\ history = {} /\ events = <<>> /\ origins = {} /\ state = {} /\ settings = {}
      /\ lost = {} /\ escaped = {}
  BY DEF Init
<1>2. \A context \in Contexts : /\ Shown(context, First) \in [context : Contexts, at : Pages]
                                /\ Shown(context, First).at = First
  BY DEF Shown, Pages
<1>3. CASE mode = "Manual"
  <2>1. page = [w \in {Tab} |-> Shown("default", First)]
    BY <1>3 DEF Init
  <2>2. page \in [DOMAIN page -> [context : Contexts, at : Pages]] /\ DOMAIN page = {Tab}
        /\ page[Tab].at = First
    BY <1>2, <2>1 DEF Contexts
  <2> QED BY <1>1, <1>3, <2>2, WindowsAssumption, OriginsAssumption
          DEF ResetInv, ResetShape, ResetSteps, ContextSteps, SettingsRestored, ManualProgress,
              ContextProgress
<1>4. CASE mode = "NewContext"
  <2>1. PICK v \in Windows \ {Tab} :
            page = [w \in {Tab, v} |-> Shown(IF w = Tab THEN "default" ELSE "user", First)]
    BY <1>4 DEF Init
  <2>2. /\ DOMAIN page = {Tab, v}
        /\ page[Tab] = Shown("default", First) /\ page[v] = Shown("user", First)
        /\ page \in [DOMAIN page -> [context : Contexts, at : Pages]]
    BY <1>2, <2>1 DEF Contexts
  <2>3. TwoTabs
    BY <2>2 DEF TwoTabs
  <2> QED BY <1>1, <1>4, <2>2, <2>3, WindowsAssumption
          DEF ResetInv, ResetShape, ResetSteps, ManualSteps, SettingsRestored, ManualProgress,
              ContextProgress
<1> QED BY <1>1, <1>3, <1>4

LEMMA ResetStep ==
    ASSUME ResetInv, [Next]_vars
    PROVE  ResetInv'
<1>1. CASE UNCHANGED vars
  <2>1. /\ mode' = mode /\ kept' = kept /\ page' = page /\ state' = state /\ escaped' = escaped
        /\ history' = history /\ origins' = origins /\ settings' = settings
        /\ events' = events /\ lost' = lost /\ at' = at
    BY <1>1 DEF vars, baseline, browser, ghosts
  <2>2. ResetShape' /\ SettingsRestored'
    BY <2>1 DEF ResetInv, ResetShape, SettingsRestored
  <2> QED BY <2>1, <2>2, StillInv DEF ResetShape
<1>2. ASSUME NEW w \in Windows,
             \/ \E p \in Pages, replaces \in BOOLEAN : Navigate(w, p, replaces)
             \/ \E item \in Items : Change(w, item)
             \/ Store(w) \/ CloseWindow(w)
      PROVE  ResetInv'
  BY <1>2, NavigateInv, ChangeInv, StoreInv, CloseWindowInv
<1>3. ASSUME NEW w \in Windows, NEW v \in Windows, NEW context \in Contexts, OpenWindow(w, v, context)
      PROVE  ResetInv'
  BY <1>3, OpenWindowInv
<1>4. CASE \/ LoseEvent \/ StartTest \/ EndTest \/ \E setting \in Settings : Alter(setting)
  BY <1>4, StillSteps
<1>5. CASE Reset
  BY <1>5, StillSteps, RemoveContextInv, CheckDefaultInv, OpenContextInv, CloseWindowsInv,
     ManualInv, GoBlankInv, ClearItemsInv DEF Reset
<1> QED BY <1>1, <1>2, <1>3, <1>4, <1>5 DEF Next, Contexts

LEMMA ResetInvImplies ==
    ASSUME ResetInv
    PROVE  NothingElseSurvives
<1>1. SUFFICES ASSUME at = "ready" PROVE NothingElseSurvives
  BY DEF NothingElseSurvives
<1>2. settings = {}
  BY <1>1 DEF ResetInv, SettingsRestored
<1>3. ASSUME mode = "Manual", "popup" \notin escaped
      PROVE  /\ DOMAIN page = {Tab} /\ history = {}
             /\ {s[2] : s \in state} \intersect Items
                   \subseteq {"unlisted"} \union (IF kept THEN {"httpCache"} ELSE {})
  BY <1>1, <1>3 DEF ResetInv, ManualProgress, Unwatched, KeptItems
<1>4. ASSUME mode = "NewContext"
      PROVE  /\ page[Tab] = Shown("default", First)
             /\ \A w \in Others : page[w] = Shown("user", First)
             /\ Cardinality(Others) = 1
             /\ state # {} => "unseen" \in escaped
  <2>1. PICK w \in Windows \ {Tab} :
            /\ DOMAIN page = {Tab, w}
            /\ page[Tab] = Shown("default", First) /\ page[w] = Shown("user", First)
    BY <1>1, <1>4 DEF ResetInv, ContextProgress, TwoTabs
  <2>2. Others = {w}
    BY <2>1 DEF Others
  <2>3. Cardinality(Others) = 1
    BY <2>2, FS_Singleton
  <2>4. state # {} => "unseen" \in escaped
    BY <1>1, <1>4 DEF ResetInv, ContextProgress, Unseen
  <2> QED BY <2>1, <2>2, <2>3, <2>4
<1> QED BY <1>1, <1>2, <1>3, <1>4 DEF NothingElseSurvives

-----------------------------------------------------------------------------
(* What the reset finds out about the origins that tests visited. *)

\* Steps that neither add an event nor leave the reset's own navigation behind.
LEMMA QuietOwnEvent ==
    ASSUME OwnEventOnce, events' = events,
           \/ at' \in {at, "quit"}
           \/ at \notin {"events", "quit"} /\ at' # "events"
    PROVE  OwnEventOnce'
BY DEF OwnEventOnce

LEMMA NavigateOwnEvent ==
    ASSUME ResetInv, OwnEventOnce, ~RevisitsBlank, NEW w, NEW p, NEW replaces,
           Navigate(w, p, replaces)
    PROVE  OwnEventOnce'
<1>1. at' = at
  BY DEF Navigate, Acts
<1>2. p # Blank
  BY OriginsAssumption DEF Navigate, First, Blank
<1>3. CASE mode = "Manual"
  <2>1. events' = Append(events, <<w, p>>) /\ events \in Seq(Windows \X Pages)
    BY <1>3 DEF Navigate, ResetInv, ResetShape
  <2>2. \A i \in DOMAIN events' : events'[i] = <<Tab, Blank>> =>
            i \in DOMAIN events /\ events'[i] = events[i]
    <3>1. /\ DOMAIN events' = 1 .. Len(events) + 1 /\ DOMAIN events = 1 .. Len(events)
          /\ Len(events) \in Nat
          /\ events'[Len(events) + 1] = <<w, p>>
          /\ \A i \in 1 .. Len(events) : events'[i] = events[i]
      BY <2>1
    <3>2. <<w, p>> # <<Tab, Blank>>
      BY <1>2
    <3> QED BY <3>1, <3>2
  <2> QED BY <1>1, <2>2 DEF OwnEventOnce
<1>4. CASE mode # "Manual"
  BY <1>1, <1>4, QuietOwnEvent DEF Navigate
<1> QED BY <1>3, <1>4

LEMMA LoseOwnEvent ==
    ASSUME ResetInv, OwnEventOnce, LoseEvent
    PROVE  OwnEventOnce'
<1>1. /\ events \in Seq(Windows \X Pages) /\ events # <<>> /\ events' = Tail(events)
      /\ at = "test" /\ at' = at
  BY DEF LoseEvent, ResetInv, ResetShape
<1>2. \A i \in DOMAIN events' : i + 1 \in DOMAIN events /\ events'[i] = events[i + 1]
  BY <1>1
<1> QED BY <1>1, <1>2 DEF OwnEventOnce

LEMMA BlankOwnEvent ==
    ASSUME ResetInv, OwnEventOnce, GoBlank
    PROVE  OwnEventOnce'
<1>1. /\ events \in Seq(Windows \X Pages) /\ events' = Append(events, <<Tab, Blank>>)
      /\ at = "blank" /\ at' = "events"
  BY DEF GoBlank, Goes, ResetInv, ResetShape
<1>2. \A i \in DOMAIN events' : i # Len(events) + 1 =>
          i \in DOMAIN events /\ events'[i] = events[i]
  BY <1>1
<1>3. \A i \in DOMAIN events' : events'[i] = <<Tab, Blank>> => i = Len(events) + 1
  BY <1>1, <1>2 DEF OwnEventOnce
<1> QED BY <1>1, <1>3 DEF OwnEventOnce

\* No event that stays in the stream is of a navigation to the page of the reset.
LEMMA ReadOwnEvent ==
    ASSUME ResetInv, OwnEventOnce, ReadEvents
    PROVE  OwnEventOnce'
<1>1. /\ events \in Seq(Windows \X Pages) /\ at = "events" /\ at' = "storage"
      /\ OwnEvent # 0 /\ events' = SubSeq(events, OwnEvent + 1, Len(events))
  BY DEF ReadEvents, Goes, Unread, ResetInv, ResetShape
<1>2. OwnEvent \in 1 .. Len(events) /\ events[OwnEvent] = <<Tab, Blank>>
  BY <1>1, OwnEventFacts
<1>3. PICK n \in 1 .. Len(events) : n = OwnEvent
  BY <1>2
<1>4. \A i \in DOMAIN events' :
          /\ i + n \in DOMAIN events /\ i + n # n /\ events'[i] = events[i + n]
  BY <1>1, <1>3
<1>5. \A i, j \in DOMAIN events :
          events[i] = <<Tab, Blank>> /\ events[j] = <<Tab, Blank>> => i = j
  BY <1>1 DEF OwnEventOnce
<1>6. n \in DOMAIN events /\ events[n] = <<Tab, Blank>>
  BY <1>1, <1>2, <1>3
<1>7. \A i \in DOMAIN events' : events'[i] # <<Tab, Blank>>
  BY <1>4, <1>5, <1>6
<1> QED BY <1>1, <1>7 DEF OwnEventOnce

LEMMA OwnEventStep ==
    ASSUME ResetInv, OwnEventOnce, ~RevisitsBlank, [Next]_vars
    PROVE  OwnEventOnce'
<1> USE DEF baseline, browser, ghosts
<1>1. CASE UNCHANGED vars
  BY <1>1, QuietOwnEvent DEF vars
<1>2. ASSUME NEW w, NEW p, NEW replaces, Navigate(w, p, replaces) PROVE OwnEventOnce'
  BY <1>2, NavigateOwnEvent
<1>3. ASSUME NEW w, NEW item, Change(w, item) PROVE OwnEventOnce'
  BY <1>3, QuietOwnEvent DEF Change, Acts
<1>4. ASSUME NEW w, NEW v, NEW context, OpenWindow(w, v, context) PROVE OwnEventOnce'
  BY <1>4, QuietOwnEvent DEF OpenWindow, Acts
<1>5. ASSUME NEW w, Store(w) \/ CloseWindow(w) PROVE OwnEventOnce'
  BY <1>5, QuietOwnEvent DEF Store, CloseWindow, Acts
<1>6. ASSUME NEW setting, Alter(setting) PROVE OwnEventOnce'
  BY <1>6, QuietOwnEvent DEF Alter
<1>7. CASE LoseEvent
  BY <1>7, LoseOwnEvent
<1>8. CASE StartTest \/ EndTest
  BY <1>8, QuietOwnEvent DEF StartTest, EndTest
<1>9. CASE Reset
  <2>1. CASE GoBlank
    BY <2>1, BlankOwnEvent
  <2>2. CASE ReadEvents
    BY <2>2, ReadOwnEvent
  <2>3. CASE RestoreTimeouts \/ Fails \/ RemoveContext \/ CheckDefault \/ OpenContext
    BY <2>3, QuietOwnEvent
       DEF RestoreTimeouts, Fails, RemoveContext, CheckDefault, OpenContext, Goes
  <2>4. CASE ListWindows \/ CloseWindows \/ ReadHistory \/ ClearStorage \/ ClearItems
             \/ ReleaseKeys \/ RestoreSize
    BY <2>4, QuietOwnEvent
       DEF ListWindows, CloseWindows, ReadHistory, ClearStorage, ClearItems, ReleaseKeys,
           RestoreSize, Goes
  <2> QED BY <1>9, <2>1, <2>2, <2>3, <2>4 DEF Reset
<1> QED BY <1>1, <1>2, <1>3, <1>4, <1>5, <1>6, <1>7, <1>8, <1>9 DEF Next

TestSteps == {"test", "timeouts", "windows", "close", "history", "blank"}

\* Steps after which nothing is found that was not before, and nothing known is forgotten.
LEMMA QuietOrigins ==
    ASSUME OriginsTraced,
           at' \in {at, "quit"} \/ (at # "quit" /\ at' # "events"),
           mode' = mode, escaped \subseteq escaped', events' = events,
           mode = "Manual" /\ ~Unwatched' /\ at' # "quit" =>
               \A o \in Origins : (Found(o)' => Found(o)) /\ (Traced(o) => Traced(o)')
    PROVE  OriginsTraced'
<1>1. SUFFICES ASSUME mode = "Manual", ~Unwatched', at' # "quit"
               PROVE  OriginsTraced'
  BY DEF OriginsTraced
<1>2. ~Unwatched /\ at # "quit"
  BY <1>1 DEF Unwatched
<1>3. \A o \in Origins : Found(o)' => Traced(o)'
  BY <1>1, <1>2 DEF OriginsTraced
<1>4. at' = "events" => at = "events"
  BY <1>1
<1> QED BY <1>1, <1>2, <1>3, <1>4 DEF OriginsTraced

LEMMA NavigateOrigins ==
    ASSUME ResetInv, OriginsTraced, NEW w, NEW p, NEW replaces, Navigate(w, p, replaces)
    PROVE  OriginsTraced'
<1>1. SUFFICES ASSUME mode = "Manual", ~Unwatched'
               PROVE  OriginsTraced'
  BY DEF OriginsTraced, Navigate, Acts, baseline
<1>2. /\ mode' = mode /\ at' = at /\ w \in DOMAIN page /\ at # "quit"
      /\ at \notin {"events", "storage", "items", "keys", "size", "ready"}
      /\ state' = state /\ lost' = lost /\ origins' = origins /\ ~Unwatched
  BY <1>1, WhenPagesAct DEF Navigate, Unwatched
<1>3. at \in TestSteps
  BY <1>1, <1>2 DEF ResetInv, ResetShape, ResetSteps, ContextSteps, TestSteps
<1>4. /\ events \in Seq(Windows \X Pages) /\ events' = Append(events, <<w, p>>)
      /\ page \in [DOMAIN page -> [context : Contexts, at : Pages]]
      /\ page' = [page EXCEPT ![w].at = p]
  BY <1>1 DEF Navigate, ResetInv, ResetShape
<1>5. /\ Len(events) + 1 \in DOMAIN events' /\ events'[Len(events) + 1][2] = p
      /\ \A i \in DOMAIN events : i \in DOMAIN events' /\ events'[i] = events[i]
  BY <1>4
<1>6. \A v \in DOMAIN page' : v \in DOMAIN page /\ (page'[v].at = page[v].at \/ page'[v].at = p)
  BY <1>4
<1>7. ASSUME NEW o \in Origins, Found(o)'
      PROVE  Traced(o)'
  <2>1. o = p \/ Found(o)
    BY <1>2, <1>6, <1>7 DEF Found
  <2>2. CASE o = p
    BY <1>2, <1>3, <1>5, <2>2 DEF Traced, TestSteps
  <2>3. CASE Found(o)
    <3>1. o \in lost \/ \E i \in DOMAIN events : events[i][2] = o
      BY <1>1, <1>2, <2>3 DEF OriginsTraced, Traced
    <3> QED BY <1>2, <1>3, <1>5, <3>1 DEF Traced, TestSteps
  <2> QED BY <2>1, <2>2, <2>3
<1> QED BY <1>2, <1>7 DEF OriginsTraced

LEMMA PagesOrigins ==
    ASSUME ResetInv, OriginsTraced, NEW w,
           \/ Store(w) \/ CloseWindow(w) \/ \E item \in Items : Change(w, item)
           \/ \E v, context : OpenWindow(w, v, context)
    PROVE  OriginsTraced'
<1>1. /\ mode' = mode /\ at' = at /\ w \in DOMAIN page /\ at # "quit" /\ origins' = origins
      /\ events' = events /\ lost' = lost /\ escaped \subseteq escaped'
  BY DEF Store, CloseWindow, Change, OpenWindow, Acts, ghosts, baseline
<1>2. \A o \in Origins : Traced(o)' = Traced(o)
  BY <1>1 DEF Traced
<1>3. ASSUME NEW o \in Origins, Found(o)' PROVE Found(o)
  <2>1. CASE Store(w)
    BY <1>1, <1>3, <2>1 DEF Store, Found
  <2>2. CASE CloseWindow(w)
    <3>1. \A u \in DOMAIN page' : u \in DOMAIN page /\ page'[u] = page[u]
      BY <2>2, RestrictFacts DEF CloseWindow
    <3> QED BY <1>3, <2>2, <3>1 DEF CloseWindow, Found
  <2>3. CASE \E item \in Items : Change(w, item)
    BY <1>3, <2>3, OriginsAssumption DEF Change, Found
  <2>4. ASSUME NEW v, NEW context, OpenWindow(w, v, context)
        PROVE  Found(o)
    <3>1. /\ DOMAIN page' = DOMAIN page \union {v} /\ page'[v].at = First
          /\ \A u \in DOMAIN page : page'[u] = page[u]
      BY <2>4 DEF OpenWindow, With, Shown
    <3>2. state' = state /\ o # First
      BY <2>4, OriginsAssumption DEF OpenWindow
    <3> QED BY <1>3, <3>1, <3>2 DEF Found
  <2> QED BY <2>1, <2>2, <2>3, <2>4
<1>4. \A o \in Origins : (Found(o)' => Found(o)) /\ (Traced(o) => Traced(o)')
  BY <1>2, <1>3
<1> QED BY <1>1, <1>4, QuietOrigins

LEMMA LoseOrigins ==
    ASSUME ResetInv, OriginsTraced, LoseEvent
    PROVE  OriginsTraced'
<1>1. /\ mode' = mode /\ at = "test" /\ at' = at /\ events # <<>> /\ events' = Tail(events)
      /\ lost' = lost \union ({Head(events)[2]} \intersect Origins)
      /\ page' = page /\ state' = state /\ escaped' = escaped
      /\ events \in Seq(Windows \X Pages)
  BY DEF LoseEvent, baseline, ResetInv, ResetShape
<1>2. \A i \in DOMAIN events :
          events[i] = Head(events) \/ (i - 1 \in DOMAIN events' /\ events'[i - 1] = events[i])
  BY <1>1
<1>3. ASSUME NEW o \in Origins, Traced(o)
      PROVE  Traced(o)'
  BY <1>1, <1>2, <1>3 DEF Traced
<1>4. \A o \in Origins : Found(o)' = Found(o)
  BY <1>1 DEF Found
<1> QED BY <1>1, <1>3, <1>4 DEF OriginsTraced, Unwatched

\* Steps between those of the reset, or of it, that leave the pages and what tests left alone.
LEMMA StillOrigins ==
    ASSUME ResetInv, OriginsTraced,
           \/ StartTest \/ EndTest \/ Fails \/ RestoreTimeouts \/ ListWindows \/ ReadHistory
           \/ ReleaseKeys \/ RestoreSize \/ CheckDefault
           \/ \E setting \in Settings : Alter(setting)
    PROVE  OriginsTraced'
<1>1. /\ mode' = mode /\ page' = page /\ state' = state /\ escaped' = escaped
      /\ events' = events /\ lost' = lost
  BY DEF StartTest, EndTest, Fails, RestoreTimeouts, ListWindows, ReadHistory, ReleaseKeys,
         RestoreSize, CheckDefault, Alter, Goes, baseline, browser, ghosts
<1>2. \/ at' \in {at, "quit"}
      \/ at \in {"ready", "test", "timeouts", "windows", "history"} /\ at' \in TestSteps
      \/ at \in {"keys", "size"} /\ at' \notin {"events", "quit"}
      \/ mode = "NewContext" /\ at # "quit" /\ at' # "events"
  BY DEF StartTest, EndTest, Fails, RestoreTimeouts, ListWindows, ReadHistory, ReleaseKeys,
         RestoreSize, CheckDefault, Alter, Goes, TestSteps, ResetInv, ResetShape, ContextSteps
<1>3. at # "storage" \/ at' = "quit"
  BY <1>2 DEF TestSteps, StartTest, EndTest, Fails, RestoreTimeouts, ListWindows, ReadHistory,
         ReleaseKeys, RestoreSize, CheckDefault, Alter, Goes
<1>4. ASSUME mode = "Manual", at' # "quit", NEW o \in Origins
      PROVE  (Found(o)' => Found(o)) /\ (Traced(o) => Traced(o)')
  <2>1. Found(o)' = Found(o)
    BY <1>1 DEF Found
  <2>2. Traced(o) => Traced(o)'
    BY <1>1, <1>2, <1>3, <1>4 DEF Traced, TestSteps
  <2> QED BY <2>1, <2>2
<1>5. mode = "Manual" /\ ~Unwatched' /\ at' # "quit" =>
          \A o \in Origins : (Found(o)' => Found(o)) /\ (Traced(o) => Traced(o)')
  BY <1>4
<1>6. at' \in {at, "quit"} \/ (at # "quit" /\ at' # "events")
  BY <1>2 DEF TestSteps
<1> QED BY <1>1, <1>5, <1>6, QuietOrigins

LEMMA ClosedOrigins ==
    ASSUME ResetInv, OriginsTraced, CloseWindows
    PROVE  OriginsTraced'
<1>1. /\ mode' = mode /\ state' = state /\ escaped' = escaped /\ events' = events
      /\ lost' = lost /\ at = "close" /\ at' = "history" /\ Tab \in DOMAIN page
  BY DEF CloseWindows, Goes, baseline, ghosts
<1>2. \A u \in DOMAIN page' : u \in DOMAIN page /\ page'[u] = page[u]
  BY <1>1, RestrictFacts DEF CloseWindows
<1>3. \A o \in Origins : (Found(o)' => Found(o)) /\ (Traced(o) => Traced(o)')
  BY <1>1, <1>2 DEF Found, Traced
<1> QED BY <1>1, <1>3, QuietOrigins

LEMMA BlankOrigins ==
    ASSUME ResetInv, OriginsTraced, GoBlank
    PROVE  OriginsTraced'
<1>1. /\ mode' = mode /\ state' = state /\ escaped' = escaped /\ lost' = lost
      /\ at = "blank" /\ at' = "events" /\ origins' = origins
      /\ page' = [page EXCEPT ![Tab].at = Blank]
      /\ events' = Append(events, <<Tab, Blank>>) /\ events \in Seq(Windows \X Pages)
      /\ page \in [DOMAIN page -> [context : Contexts, at : Pages]]
  BY DEF GoBlank, Goes, baseline, ghosts, ResetInv, ResetShape
<1>2. /\ Len(events') = Len(events) + 1 /\ events'[Len(events')] = <<Tab, Blank>>
      /\ \A i \in DOMAIN events : i \in DOMAIN events' /\ events'[i] = events[i]
  BY <1>1
<1>3. \A o \in Origins : Traced(o) => Traced(o)'
  BY <1>1, <1>2 DEF Traced
<1>4. \A u \in DOMAIN page' : u \in DOMAIN page /\ page'[u].at \in {page[u].at, Blank}
  BY <1>1
<1>5. \A o \in Origins : Found(o)' => Found(o)
  BY <1>1, <1>4, OriginsAssumption DEF Found
<1>6. events' # <<>>
  BY <1>1
<1> QED BY <1>1, <1>2, <1>3, <1>5, <1>6 DEF OriginsTraced, Unwatched

\* The reset's own navigation is the last event, so that it reads every one before.
LEMMA ReadOrigins ==
    ASSUME ResetInv, OwnEventOnce, OriginsTraced, ReadEvents
    PROVE  OriginsTraced'
<1>1. SUFFICES ASSUME mode = "Manual", ~Unwatched PROVE OriginsTraced'
  BY DEF OriginsTraced, ReadEvents, Unwatched, Goes, baseline, ghosts
<1>2. /\ mode' = mode /\ state' = state /\ page' = page /\ lost' = lost
      /\ at = "events" /\ at' = "storage" /\ OwnEvent # 0
      /\ origins' = origins \union (Named(OwnEvent) \intersect Origins)
      /\ events \in Seq(Windows \X Pages)
  BY DEF ReadEvents, Goes, baseline, ghosts, ResetInv, ResetShape
<1>3. OwnEvent = Len(events)
  <2>1. OwnEvent \in DOMAIN events /\ events[OwnEvent] = <<Tab, Blank>>
    BY <1>2, OwnEventFacts
  <2>2. Len(events) \in DOMAIN events /\ events[Len(events)] = <<Tab, Blank>>
    BY <1>1, <1>2 DEF OriginsTraced
  <2> QED BY <1>2, <2>1, <2>2 DEF OwnEventOnce
<1>4. ASSUME NEW o \in Origins, Found(o)
      PROVE  o \in lost \/ o \in origins'
  <2>1. o \in lost \/ \E i \in DOMAIN events : events[i][2] = o
    BY <1>1, <1>2, <1>4 DEF OriginsTraced, Traced
  <2>2. \A i \in DOMAIN events : events[i][2] \in Named(OwnEvent)
    BY <1>2, <1>3 DEF Named
  <2> QED BY <1>2, <2>1, <2>2
<1>5. \A o \in Origins : Found(o)' => Found(o)
  BY <1>2 DEF Found
<1> QED BY <1>2, <1>4, <1>5 DEF OriginsTraced, Traced

LEMMA ClearedOrigins ==
    ASSUME ResetInv, OriginsTraced, ClearStorage \/ ClearItems
    PROVE  OriginsTraced'
<1>1. SUFFICES ASSUME mode = "Manual", ~Unwatched PROVE OriginsTraced'
  BY DEF OriginsTraced, ClearStorage, ClearItems, Unwatched, Goes, baseline, ghosts
<1>2. /\ mode' = mode /\ page' = page /\ at' \in {"items", "keys"} /\ at \in {"storage", "items"}
      /\ state' \subseteq state
  BY DEF ClearStorage, ClearItems, Goes, baseline, ghosts
<1>3. \A w \in DOMAIN page : page[w].at \notin Origins
  BY <1>1, <1>2 DEF ResetInv, ManualProgress
<1>4. ASSUME NEW o \in Origins, Found(o)' PROVE o \in lost'
  <2>1. \E s \in state' : s[2] = o
    BY <1>2, <1>3, <1>4 DEF Found
  <2>2. Found(o)
    BY <1>2, <2>1 DEF Found
  <2>3. Traced(o)
    BY <1>1, <1>2, <2>2 DEF OriginsTraced
  <2>4. CASE ClearStorage
    BY <2>1, <2>3, <2>4 DEF ClearStorage, Goes, Traced
  <2>5. CASE ClearItems
    BY <2>3, <2>5 DEF ClearItems, Goes, Traced, ghosts
  <2> QED BY <2>4, <2>5
<1> QED BY <1>2, <1>4 DEF OriginsTraced, Traced

LEMMA OriginsStep ==
    ASSUME ResetInv, OwnEventOnce, OriginsTraced, [Next]_vars
    PROVE  OriginsTraced'
<1>1. CASE UNCHANGED vars
  <2>1. /\ mode' = mode /\ page' = page /\ state' = state /\ escaped' = escaped
        /\ events' = events /\ lost' = lost /\ at' = at /\ origins' = origins
    BY <1>1 DEF vars, baseline, browser, ghosts
  <2>2. \A o \in Origins : (Found(o)' => Found(o)) /\ (Traced(o) => Traced(o)')
    BY <2>1 DEF Found, Traced
  <2> QED BY <2>1, <2>2, QuietOrigins
<1>2. ASSUME NEW w, NEW p, NEW replaces, Navigate(w, p, replaces) PROVE OriginsTraced'
  BY <1>2, NavigateOrigins
<1>3. ASSUME NEW w, \/ Store(w) \/ CloseWindow(w) \/ \E item \in Items : Change(w, item)
                    \/ \E v, context : OpenWindow(w, v, context)
      PROVE  OriginsTraced'
  BY <1>3, PagesOrigins
<1>4. CASE LoseEvent \/ StartTest \/ EndTest \/ \E setting \in Settings : Alter(setting)
  BY <1>4, LoseOrigins, StillOrigins
<1>5. CASE Reset
  <2>1. CASE RemoveContext \/ OpenContext
    BY <2>1 DEF RemoveContext, OpenContext, Goes, baseline, OriginsTraced, ResetInv, ResetShape,
                ContextSteps
  <2> QED BY <1>5, <2>1, StillOrigins, ClosedOrigins, BlankOrigins, ReadOrigins, ClearedOrigins
          DEF Reset
<1> QED BY <1>1, <1>2, <1>3, <1>4, <1>5 DEF Next

LEMMA TracedBegins ==
    ASSUME Init
    PROVE  TracedInv
<1>1. at = "ready" /\ events = <<>> /\ state = {} /\ lost = {}
  BY DEF Init
<1>2. OwnEventOnce
  BY <1>1 DEF OwnEventOnce
<1>3. \A w \in DOMAIN page : page[w].at = First
  <2>1. CASE mode = "Manual"
    BY <2>1 DEF Init, Shown
  <2>2. CASE mode = "NewContext"
    <3>1. PICK v \in Windows \ {Tab} :
              page = [w \in {Tab, v} |-> Shown(IF w = Tab THEN "default" ELSE "user", First)]
      BY <2>2 DEF Init
    <3>2. \A context : Shown(context, First).at = First
      BY DEF Shown
    <3> QED BY <3>1, <3>2
  <2> QED BY <2>1, <2>2 DEF Init
<1>4. \A o \in Origins : ~Found(o)
  BY <1>1, <1>3, OriginsAssumption DEF Found
<1> QED BY <1>1, <1>2, <1>4, ResetBegins DEF TracedInv, OriginsTraced

LEMMA TracedStep ==
    ASSUME ~RevisitsBlank, TracedInv, [Next]_vars
    PROVE  TracedInv'
BY ResetStep, OwnEventStep, OriginsStep DEF TracedInv

LEMMA TracedInvImplies ==
    ASSUME TracedInv
    PROVE  TypeOK /\ StorageIsCleared
<1>1. TypeOK
  <2>1. \A w \in DOMAIN page : page[w] \in [context : {"default", "user"}, at : Pages]
    BY DEF TracedInv, ResetInv, ResetShape, Contexts
  <2>2. at = "ready" => <<Tab, Blank>> \notin Range(events)
    BY DEF TracedInv, OwnEventOnce, Range
  <2> QED BY <2>1, <2>2 DEF TracedInv, ResetInv, ResetShape, TypeOK, Contexts
<1>2. StorageIsCleared
  <2>1. SUFFICES ASSUME at = "ready", mode = "Manual", ~Unwatched,
                        NEW o \in Origins, <<"default", o>> \in state
                 PROVE  o \in lost
    BY DEF StorageIsCleared, Unwatched
  <2>2. Found(o)
    BY <2>1 DEF Found
  <2> QED BY <2>1, <2>2 DEF TracedInv, OriginsTraced, Traced
<1> QED BY <1>1, <1>2

-----------------------------------------------------------------------------
(* Theorems *)

\* What a reset session (reset in session_reuse.rs) keeps of the tests before is what the strategy
\* says that it keeps, and what the reset cannot see: also if a test visits the reset's own page.
THEOREM NothingElseStays == Spec => []NothingElseSurvives
<1>1. Init => ResetInv
  BY ResetBegins
<1>2. ResetInv /\ [Next]_vars => ResetInv'
  BY ResetStep
<1>3. ResetInv => NothingElseSurvives
  BY ResetInvImplies
<1> QED BY <1>1, <1>2, <1>3, PTL DEF Spec

THEOREM OriginsStayTraced ==
    ASSUME ~RevisitsBlank
    PROVE  Spec => []TracedInv
<1>1. Init => TracedInv
  BY TracedBegins
<1>2. TracedInv /\ [Next]_vars => TracedInv'
  BY TracedStep
<1> QED BY <1>1, <1>2, PTL DEF Spec

\* A manual reset (reset_manually) clears the storage of every origin that was navigated to, of
\* which no event was lost, as long as no test visits the page that marks the end of its events.
THEOREM StorageStaysCleared ==
    ASSUME ~RevisitsBlank
    PROVE  Spec => []StorageIsCleared
<1>1. TracedInv => StorageIsCleared
  BY TracedInvImplies
<1> QED BY <1>1, OriginsStayTraced, PTL

THEOREM CheckInvariance == CheckSpec => []CheckInv
<1>1. CheckInit => CheckInv
  BY CheckBegins
<1>2. CheckInv /\ [CheckNext]_checkVars => CheckInv'
  BY CheckStep
<1> QED BY <1>1, <1>2, PTL DEF CheckSpec

\* The check (try_close_frozen_pages) closes only pages that did not respond, and none where
\* ChromeDriver says that a dialog is open or could have said so of one that was open all along.
THEOREM OnlyFrozenAreClosed == CheckSpec => []OnlyFrozenPagesAreClosed
<1>1. CheckInv => OnlyFrozenPagesAreClosed
  BY CheckInvImplies
<1> QED BY <1>1, CheckInvariance, PTL

\* What the check returns (FrozenPages) accounts for every page that was frozen when it began.
THEOREM FrozenAreClosed == CheckSpec => []FrozenPagesAreClosed
<1>1. CheckInv => FrozenPagesAreClosed
  BY CheckInvImplies
<1> QED BY <1>1, CheckInvariance, PTL

\* The state of the reset and that of the check keep their types, each while the other rests; so
\* no navigation of a reset is left in the stream for a later reset to take for its own.
THEOREM StateTypes ==
    ASSUME ~RevisitsBlank
    PROVE  MCSpec => []StateTypeOK
<1> DEFINE Both == TracedInv /\ CheckInv
<1>1. NoReset => TracedInv
  <2>1. SUFFICES ASSUME NoReset PROVE TracedInv
    OBVIOUS
  <2>2. ResetInv
    <3>1. Shown("default", First) \in [context : Contexts, at : Pages]
      BY DEF Shown, Contexts, Pages
    <3>2. page \in [DOMAIN page -> [context : Contexts, at : Pages]] /\ DOMAIN page = {Tab}
      BY <2>1, <3>1 DEF NoReset
    <3>3. ResetShape
      <4>1. /\ mode = "Manual" /\ kept = FALSE /\ at = "quit"
            /\ history = {} /\ events = <<>> /\ origins = {} /\ state = {} /\ settings = {}
            /\ lost = {}
        BY <2>1 DEF NoReset
      <4>2. events \in Seq(Windows \X Pages)
        BY <4>1
      <4>3. DOMAIN page \subseteq Windows
        BY <3>2, WindowsAssumption
      <4>4. state \subseteq Contexts \X (Origins \union Items)
        BY <4>1
      <4> QED BY <3>2, <4>1, <4>2, <4>3, <4>4 DEF ResetShape, ContextSteps, ManualSteps
    <3> QED BY <2>1, <3>3
            DEF NoReset, ResetInv, SettingsRestored, ManualProgress, ContextProgress, ResetSteps
  <2> QED BY <2>1, <2>2 DEF NoReset, TracedInv, OwnEventOnce, OriginsTraced
<1>2. NoCheck => CheckInv
  BY ChangesAssumption, PagesAssumption
     DEF NoCheck, CheckInv, CheckTypeOK, Conduct, Results, Unlisted, RepliesAreTrue, NoClose,
         ClosesLast, Closing, DialogsStay, FrozenAreSeen, FrozenIsSeen
<1>3. MCInit => Both
  BY <1>1, <1>2, TracedBegins, CheckBegins DEF MCInit
<1>4. Both /\ [MCNext]_<<vars, checkVars>> => Both'
  <2>1. SUFFICES ASSUME Both, [Next]_vars, [CheckNext]_checkVars PROVE Both'
    BY DEF MCNext
  <2> QED BY <2>1, TracedStep, CheckStep
<1>5. Both => StateTypeOK
  BY TracedInvImplies, CheckInvImplies DEF StateTypeOK
<1> QED BY <1>3, <1>4, <1>5, PTL DEF MCSpec
=============================================================================
