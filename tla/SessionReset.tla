---------------------------- MODULE SessionReset ----------------------------
(***************************************************************************)
(* How a reused browser session is reset between two tests                 *)
(* (session_reuse.rs), and what of a test the next one finds in it.        *)
(*                                                                         *)
(* A step of the reset is one command to the browser, or some that follow  *)
(* each other with no page between them that could act.  Pages go on while *)
(* the reset runs, until they are closed or left.                          *)
(***************************************************************************)
EXTENDS Naturals, Sequences, SequencesExt, Functions, FiniteSets

CONSTANTS
    Origins,        \* The origins that tests visit, each with its storage.
    Windows,        \* Window handles, ...
    Tab,            \* ... among them SessionBaseline::first_tab.
    RevisitsBlank,  \* Whether tests visit the reset's BLANK page, e.g. by a refresh.
    MaxActs,        \* How much a test and its pages do.
    MaxTests        \* How many tests the session runs.

ASSUME WindowsAssumption == Tab \in Windows
ASSUME BoundsAssumption == RevisitsBlank \in BOOLEAN /\ MaxActs \in Nat /\ MaxTests \in Nat

First == "first page"           \* SessionBaseline::first_url
Blank == "data:text/html,"      \* BLANK
Pages == Origins \union {First, Blank}

\* What tests change beside the storage of origins: what a manual reset lists (cookies,
\* permissions, emulation), the HTTP cache, and what it says it does not reset.
Items == {"listed", "httpCache", "unlisted"}

ASSUME OriginsAssumption == Origins \intersect ({First, Blank} \union Items) = {}

\* Settings of the session itself, which no context owns.
Settings == {"timeouts", "keys", "size"}

VARIABLES
    mode, kept,     \* SessionReset: how sessions are reset, KeptCaches::http.
    at,             \* Where the session is.
    page,           \* The open windows: their user context, and the page they show.
    history,        \* The origins that the history of the tab lists (Manual).
    events,         \* NavigationStarted events not read yet: <<window, page>>.
    origins,        \* The reset's origins.
    state,          \* What tests left where: <<context, origin or item>>.
    settings,       \* The settings that differ from the baseline's.
    acts, ran,      \* Bounded by MaxActs and MaxTests.
    lost,           \* Origins named by events that were pushed out of the buffer.
    escaped         \* What resets cannot see: see the actions of tests.

baseline == <<mode, kept>>
browser == <<page, history, events, state>>
ghosts == <<lost, escaped>>
vars == <<baseline, browser, at, origins, settings, acts, ran, ghosts>>

Shown(context, p) == [context |-> context, at |-> p]
Others == DOMAIN page \ {Tab}

\* The windows once v opened in a context.
With(v, context) ==
    [w \in DOMAIN page \union {v} |-> IF w = v THEN Shown(context, First) ELSE page[w]]

ResetSteps == {"timeouts", "remove", "check", "open", "windows", "close", "history", "blank",
               "events", "storage", "items", "keys", "size"}

-----------------------------------------------------------------------------
(* What tests do, and their pages at any time. *)

Acts(w) ==
    /\ at # "quit" /\ acts < MaxActs
    /\ w \in DOMAIN page
    /\ at = "test" \/ page[w].at \in Origins
    /\ acts' = acts + 1
    /\ UNCHANGED <<baseline, at, origins, ran>>

\* A navigation adds an entry to the history, or replaces the current one (location.replace).
\* A frame's navigation and return are two that replace.
Navigate(w, p, replaces) ==
    /\ Acts(w)
    /\ p \in Origins \union (IF at = "test" THEN {First} ELSE {})
                     \union (IF at = "test" /\ RevisitsBlank THEN {Blank} ELSE {})
    /\ page' = [page EXCEPT ![w].at = p]
    /\ history' = IF w # Tab \/ mode = "NewContext" THEN history
                  ELSE ((IF replaces THEN history \ {page[w].at} ELSE history) \union {p})
                          \intersect Origins
    /\ events' = IF mode = "Manual" THEN Append(events, <<w, p>>) ELSE events
    /\ escaped' = IF w = Tab /\ p = First THEN escaped \union {"unseen"} ELSE escaped
    /\ UNCHANGED <<state, settings, lost>>

Store(w) ==
    /\ Acts(w)
    /\ page[w].at \in Origins
    /\ state' = state \union {<<page[w].context, page[w].at>>}
    /\ UNCHANGED <<page, history, events, settings, ghosts>>

\* Cookies and caches come with a page of an origin; a test may do without, over CDP.
Change(w, item) ==
    /\ Acts(w)
    /\ at = "test" \/ item # "unlisted"
    /\ state' = state \union {<<page[w].context, item>>}
    /\ escaped' = IF page[w].at \in Origins THEN escaped ELSE escaped \union {"unseen"}
    /\ UNCHANGED <<page, history, events, settings, lost>>

\* A popup shares its opener's context; WebDriver's New Window opens in the default one.
\* One opened after the manual reset closed the others escapes it.
OpenWindow(w, v, context) ==
    /\ Acts(w)
    /\ v \in Windows \ DOMAIN page
    /\ context = page[w].context \/ (at = "test" /\ context = "default")
    /\ page' = With(v, context)
    /\ escaped' = IF mode = "Manual" /\ at \notin {"test", "timeouts", "windows", "close"}
                  THEN escaped \union {"popup"} ELSE escaped
    /\ UNCHANGED <<history, events, state, settings, lost>>

\* A test that closes its window in the default context, as one that takes the first tab back
\* to its first page, undoes what the check of the default context looks at.
CloseWindow(w) ==
    /\ at = "test" /\ Acts(w)
    /\ Cardinality(DOMAIN page) > 1
    /\ page' = Restrict(page, DOMAIN page \ {w})
    /\ escaped' = IF page[w].context = "default" THEN escaped \union {"unseen"} ELSE escaped
    /\ UNCHANGED <<history, events, state, settings, lost>>

Alter(setting) ==
    /\ at = "test" /\ acts < MaxActs
    /\ settings' = settings \union {setting}
    /\ acts' = acts + 1
    /\ UNCHANGED <<baseline, browser, at, origins, ran, ghosts>>

\* A test with many subscriptions of its own pushes the oldest event out of the buffer.
LoseEvent ==
    /\ at = "test" /\ acts < MaxActs
    /\ events # <<>>
    /\ events' = Tail(events)
    /\ lost' = lost \union ({Head(events)[2]} \intersect Origins)
    /\ acts' = acts + 1
    /\ UNCHANGED <<baseline, at, page, history, origins, state, settings, ran, escaped>>

StartTest ==
    /\ at = "ready" /\ ran < MaxTests
    /\ at' = "test"
    /\ ran' = ran + 1 /\ acts' = 0
    /\ UNCHANGED <<baseline, browser, origins, settings, ghosts>>

\* The session is reset, or, if it is not reused, quits.
EndTest ==
    /\ at = "test"
    /\ at' \in {"timeouts", "quit"}
    /\ UNCHANGED <<baseline, browser, origins, settings, acts, ran, ghosts>>

-----------------------------------------------------------------------------
(* The reset. *)

Goes(from, to) ==
    /\ at = from /\ at' = to
    /\ UNCHANGED <<baseline, acts, ran>>

\* A command fails, or the reset takes longer than RESET_TIME_LIMIT.
Fails ==
    /\ at \in ResetSteps
    /\ Goes(at, "quit")
    /\ UNCHANGED <<browser, origins, settings, ghosts>>

RestoreTimeouts ==
    /\ Goes("timeouts", IF mode = "Manual" THEN "windows" ELSE "remove")
    /\ settings' = settings \ {"timeouts"}
    /\ origins' = {}
    /\ UNCHANGED <<browser, ghosts>>

\* SessionReset::NewContext

RemoveContext ==
    /\ Goes("remove", "check")
    /\ page' = Restrict(page, {w \in DOMAIN page : page[w].context # "user"})
    /\ state' = {s \in state : s[1] # "user"}
    /\ UNCHANGED <<history, events, origins, settings, ghosts>>

\* Mutant: the page of the first tab is not compared.
DefaultUnused_AnyPage == DOMAIN page = {Tab}

DefaultUnused == DOMAIN page = {Tab} /\ page[Tab].at = First

CheckDefault ==
    /\ Goes("check", IF DefaultUnused THEN "open" ELSE "quit")
    /\ UNCHANGED <<browser, origins, settings, ghosts>>

\* The new tab may open in a window of another size.
OpenContext ==
    /\ Goes("open", "keys")
    /\ \E w \in Windows \ DOMAIN page : page' = With(w, "user")
    /\ settings' \in {settings, settings \union {"size"}}
    /\ UNCHANGED <<history, events, origins, state, ghosts>>

\* SessionReset::Manual

ListWindows ==
    /\ Goes("windows", "close")
    /\ origins' = {page[w].at : w \in Others} \intersect Origins
    /\ UNCHANGED <<browser, settings, ghosts>>

CloseWindows ==
    /\ Tab \in DOMAIN page
    /\ Goes("close", "history")
    /\ page' = Restrict(page, {Tab})
    /\ UNCHANGED <<history, events, origins, state, settings, ghosts>>

ReadHistory ==
    /\ Goes("history", "blank")
    /\ origins' = origins \union history
    /\ UNCHANGED <<browser, settings, ghosts>>

GoBlank ==
    /\ Goes("blank", "events")
    /\ page' = [page EXCEPT ![Tab].at = Blank]
    /\ events' = Append(events, <<Tab, Blank>>)
    /\ history' = {}
    /\ UNCHANGED <<origins, state, settings, ghosts>>

\* The position of the event that reset_manually takes for that of its own navigation.
OwnEvent == SelectInSeq(events, LAMBDA e : e = <<Tab, Blank>>)

\* Mutants: only the tab's navigations count; the event of the reset stays in the stream.
Named_TabOnly(n) == {events[i][2] : i \in {j \in 1 .. n : events[j][1] = Tab}}

Unread_KeepsOwn(n) == SubSeq(events, n, Len(events))

Named(n) == {events[i][2] : i \in 1 .. n}

Unread(n) == SubSeq(events, n + 1, Len(events))

ReadEvents ==
    /\ OwnEvent # 0
    /\ Goes("events", "storage")
    /\ origins' = origins \union (Named(OwnEvent) \intersect Origins)
    /\ events' = Unread(OwnEvent)
    /\ UNCHANGED <<page, history, state, settings, ghosts>>

ClearStorage ==
    /\ Goes("storage", "items")
    /\ state' = {s \in state : s[2] \notin origins}
    /\ lost' = lost \ origins
    /\ UNCHANGED <<page, history, events, origins, settings, escaped>>

ClearItems ==
    /\ Goes("items", "keys")
    /\ state' = {s \in state : s[2] # "listed" /\ (s[2] = "httpCache" => kept)}
    /\ UNCHANGED <<page, history, events, origins, settings, ghosts>>

\* Both

ReleaseKeys ==
    /\ Goes("keys", "size")
    /\ settings' = settings \ {"keys"}
    /\ UNCHANGED <<browser, origins, ghosts>>

RestoreSize ==
    /\ Goes("size", "ready")
    /\ settings' = settings \ {"size"}
    /\ UNCHANGED <<browser, origins, ghosts>>

-----------------------------------------------------------------------------
\* SessionBaseline::prepare
Init ==
    /\ mode \in {"NewContext", "Manual"} /\ kept \in BOOLEAN
    /\ mode = "NewContext" => ~kept
    /\ at = "ready"
    /\ \/ mode = "Manual" /\ page = [w \in {Tab} |-> Shown("default", First)]
       \/ /\ mode = "NewContext"
          /\ \E v \in Windows \ {Tab} :
                page = [w \in {Tab, v} |-> Shown(IF w = Tab THEN "default" ELSE "user", First)]
    /\ history = {} /\ events = <<>> /\ origins = {}
    /\ state = {} /\ settings = {}
    /\ acts = 0 /\ ran = 0
    /\ lost = {} /\ escaped = {}

Reset ==
    \/ RestoreTimeouts \/ Fails
    \/ RemoveContext \/ CheckDefault \/ OpenContext
    \/ ListWindows \/ CloseWindows \/ ReadHistory \/ GoBlank \/ ReadEvents
    \/ ClearStorage \/ ClearItems
    \/ ReleaseKeys \/ RestoreSize

Next ==
    \/ \E w \in Windows :
          \/ \E p \in Pages, replaces \in BOOLEAN : Navigate(w, p, replaces)
          \/ \E item \in Items : Change(w, item)
          \/ \E v \in Windows, context \in {"default", "user"} : OpenWindow(w, v, context)
          \/ Store(w) \/ CloseWindow(w)
    \/ \E setting \in Settings : Alter(setting)
    \/ LoseEvent \/ StartTest \/ EndTest
    \/ Reset

Spec == Init /\ [][Next]_vars

-----------------------------------------------------------------------------
(* Properties *)

\* The shape of the state.  Among it, hard to see in the code: as the reset's own navigation
\* marks the end of those of its test, no event is left for a later reset to take for its own.
TypeOK ==
    /\ mode \in {"NewContext", "Manual"} /\ kept \in BOOLEAN
    /\ at \in ResetSteps \union {"ready", "test", "quit"}
    /\ DOMAIN page \subseteq Windows
    /\ \A w \in DOMAIN page : page[w] \in [context : {"default", "user"}, at : Pages]
    /\ history \subseteq Origins /\ origins \subseteq Origins /\ lost \subseteq Origins
    /\ events \in Seq(Windows \X Pages)
    /\ state \subseteq {"default", "user"} \X (Origins \union Items)
    /\ settings \subseteq Settings
    /\ at = "ready" => <<Tab, Blank>> \notin Range(events)

\* A manual reset clears the storage "of every origin a page navigated to since the last reset,
\* in any window or frame, also when no history lists it anymore", but for "the storage of
\* origins that only the lost events named", unless a page opened a window meanwhile.
StorageIsCleared ==
    at = "ready" /\ mode = "Manual" /\ "popup" \notin escaped =>
        \A o \in Origins : <<"default", o>> \in state => o \in lost

\* "Both strategies give the next test a browser without the state of the tests before": it
\* finds the session's settings, one window or its own tab beside the first one, no history, and
\* of what tests changed only what a manual reset keeps or says that it leaves, or what a test
\* did in the default context over CDP, or in a window it closed or a tab it took back.
NothingElseSurvives ==
    at = "ready" =>
        /\ settings = {}
        /\ mode = "Manual" /\ "popup" \notin escaped =>
              /\ DOMAIN page = {Tab} /\ history = {}
              /\ {s[2] : s \in state} \intersect Items
                    \subseteq {"unlisted"} \union (IF kept THEN {"httpCache"} ELSE {})
        /\ mode = "NewContext" =>
              /\ page[Tab] = Shown("default", First)
              /\ \A w \in Others : page[w] = Shown("user", First)
              /\ Cardinality(Others) = 1
              /\ state # {} => "unseen" \in escaped
=============================================================================
