----------------------------- MODULE TabDispatch -----------------------------
(***************************************************************************)
(* How the browse daemon picks the tab a command works on: the pin, the    *)
(* own-only check, the captured session and the restore of                 *)
(* handleCommandInternalImpl (browse/src/server.ts), and the tab maps of   *)
(* browse/src/browser-manager.ts it reads and writes.                      *)
(*                                                                         *)
(* A handler runs from one await to the next in one action; other requests *)
(* and page events come in between.  A command is one of                   *)
(*   "page"     works on the captured session until its promise settles,   *)
(*   "tab"      switches to tab arg,                                       *)
(*   "newtab"   opens a tab,                                               *)
(*   "closetab" closes tab arg, or the active tab,                         *)
(*   "chain"    runs commands one after the other, each from the start of  *)
(*              handleCommandInternal and without a pin of its own,        *)
(*   "refused"  is answered without the handlers: help, an unknown         *)
(*              command, a mutation while watching, a filtered result.     *)
(* pages and tabSessions always change together: both are "tabs".          *)
(***************************************************************************)
EXTENDS Integers, FiniteSets

CONSTANTS
    Client,      \* own-only scoped clients
    Root,        \* the local caller
    Request,     \* slots for commands in flight
    Scenario,    \* who calls, with which commands
    MaxTab       \* bound on the tab ids handed out

None == "none"      \* no entry in tabOwnership

ASSUME RootAssumption == {Root, None} \cap Client = {}
ASSUME ScenarioAssumption ==
    /\ IsFiniteSet(Request)
    /\ \A s \in Scenario :
          /\ s.clients \subseteq Client /\ s.requests \subseteq Request
          /\ s.kinds \subseteq {"page", "tab", "newtab", "closetab", "chain", "refused"}
          /\ s.pagesFail \in BOOLEAN   \* the browser may reject a new page
          /\ s.pagesClose \in BOOLEAN  \* pages may close of themselves
ASSUME BoundAssumption == MaxTab \in Nat \ {0}

TabId == 1..MaxTab
NoTab == 0          \* an absent tabId argument; activeTabId when no tab is left
Caller == Client \cup {Root}
Frame == Request \X {0, 1}   \* calls of handleCommandInternal: request, chainDepth

VARIABLES
    scenario,  \* the one that is played
    tabs,      \* open tabs
    active,    \* activeTabId
    nextTab,   \* nextTabId
    owner,     \* tabOwnership
    cmd,       \* the command each frame is in
    selected,  \* history: the tab that was active when no pin was in force
    pinLeft    \* history: a pinned command returned early since that choice

vars == <<scenario, tabs, active, nextTab, owner, cmd, selected, pinLeft>>

Kind == scenario.kinds

Idle == [pc |-> "idle"]
\* pc: the await the command is at.  saved: the tab to switch back to.
\* session: the tab whose session was captured, or that is being closed.
Running == [pc : {"page", "chain", "newpage", "goto", "closing", "replacing"}, who : Caller,
            pin : TabId \cup {NoTab}, saved : TabId \cup {NoTab},
            session : TabId \cup {NoTab}, wasActive : BOOLEAN]
Busy(f) == cmd[f].pc # "idle"
Depth(f) == f[2]
Quiet == \A f \in Frame : ~Busy(f)

Last(S) == IF S = {} THEN NoTab ELSE CHOOSE t \in S : \A u \in S : u <= t

Init ==
    /\ scenario \in Scenario
    /\ tabs = {1}
    /\ active = 1
    /\ nextTab = 2
    /\ owner = [t \in TabId |-> None]
    /\ cmd = [r \in Frame |-> Idle]
    /\ selected = 1
    /\ pinLeft = FALSE

-----------------------------------------------------------------------------
(* From the request to its first await.                                    *)

\* switchTab(tabId) in a try: a tab that is gone leaves the active tab.
Pinned(pin) == IF pin \in tabs THEN pin ELSE active
Saved(pin) == IF pin = NoTab THEN NoTab ELSE active
\* Slips a mutation run puts in its place: no restore; a restore to a closed tab.
Restored_never(open, saved, current) == current
Restored_blind(open, saved, current) == IF saved # NoTab THEN saved ELSE current
Restored(open, saved, current) == IF saved \in open THEN saved ELSE current

\* The own-only check: of the pin, or else of the active tab.
\* Slip: the pin is ignored.
MayUse_active(who, pin) == who \in Client => active # NoTab /\ owner[active] = who
MayUse(who, pin) ==
    who \in Client => LET target == IF pin = NoTab THEN active ELSE pin
                      IN  target # NoTab /\ owner[target] = who

Begin(pc, who, pin) ==
    [pc |-> pc, who |-> who, pin |-> pin, saved |-> Saved(pin),
     session |-> Pinned(pin), wasActive |-> FALSE]

\* 403, or a command answered without its handler, as a chain in a chain is:
\* the pin stays.
Refuse(f, who, kind, pin) ==
    /\ ~Busy(f)
    /\ \/ kind # "newtab" /\ ~MayUse(who, pin)
       \/ kind = "refused"
       \/ kind = "chain" /\ Depth(f) > 0
    /\ active' = Pinned(pin)
    /\ UNCHANGED <<tabs, nextTab, owner, cmd>>

\* getActiveSession, or the tab of "tab" or "closetab", is not there: the
\* handler throws and the catch block restores.
Throw(f, who, kind, pin, arg) ==
    /\ ~Busy(f)
    /\ kind \notin {"newtab", "refused"} /\ MayUse(who, pin)
    /\ \/ Pinned(pin) \notin tabs
       \/ kind = "tab" /\ arg \notin tabs
       \/ kind = "closetab" /\ arg \notin tabs \cup {NoTab}
    /\ active' = Restored(tabs, Saved(pin), Pinned(pin))
    /\ UNCHANGED <<tabs, nextTab, owner, cmd>>

Start(f, who, kind, pin) ==
    /\ ~Busy(f)
    /\ kind # "newtab" => MayUse(who, pin)
    /\ kind # "newtab" \/ who = Root => Pinned(pin) \in tabs

\* The commands that await before they change anything.
StartAwaiting(f, who, kind, pc, pin) ==
    /\ Start(f, who, kind, pin)
    /\ active' = Pinned(pin)
    /\ cmd' = [cmd EXCEPT ![f] = Begin(pc, who, pin)]
    /\ UNCHANGED <<tabs, nextTab, owner>>

StartPage(f, who, pin) == StartAwaiting(f, who, "page", "page", pin)
StartNewTab(f, who, pin) == StartAwaiting(f, who, "newtab", "newpage", pin)
StartChain(f, who, pin) == Depth(f) = 0 /\ StartAwaiting(f, who, "chain", "chain", pin)

\* "tab" awaits nothing: it switches, and switches back if it was pinned.
SwitchTab(f, who, pin, arg) ==
    /\ Start(f, who, "tab", pin)
    /\ arg \in tabs
    /\ active' = Restored(tabs, Saved(pin), arg)
    /\ UNCHANGED <<tabs, nextTab, owner, cmd>>

StartClose(f, who, pin, arg) ==
    /\ Start(f, who, "closetab", pin)
    /\ LET t == IF arg = NoTab THEN Pinned(pin) ELSE arg IN
         /\ t \in tabs
         /\ cmd' = [cmd EXCEPT ![f] = [Begin("closing", who, pin) EXCEPT
                                         !.session = t, !.wasActive = (t = Pinned(pin))]]
    /\ active' = Pinned(pin)
    /\ UNCHANGED <<tabs, nextTab, owner>>

-----------------------------------------------------------------------------
(* After an await.                                                         *)

\* The end of a command inside the try: switch back if it was pinned.  The
\* action assigns tabs' first.
Done(f, current) ==
    /\ active' = Restored(tabs', cmd[f].saved, current)
    /\ cmd' = [cmd EXCEPT ![f] = Idle]

\* newTab records an owner only for a caller that names itself.
Owned(t, who) == IF who \in Client THEN [owner EXCEPT ![t] = who] ELSE owner

\* Whether the tab closeTab closes was active.  Slip: looked up after the close.
WasActive_late(f) == cmd[f].session = active
WasActive(f) == cmd[f].wasActive

\* context.newPage() settled; with a URL the root's newtab awaits its goto.  A
\* scoped newtab returns from outside the try, its tab active.
PageCreated(f) ==
    /\ cmd[f].pc \in {"newpage", "replacing"}
    /\ nextTab <= MaxTab
    /\ nextTab' = nextTab + 1
    /\ tabs' = tabs \cup {nextTab}
    /\ owner' = IF cmd[f].pc = "newpage" THEN Owned(nextTab, cmd[f].who) ELSE owner
    /\ IF cmd[f].pc = "newpage" /\ cmd[f].who \in Client
       THEN /\ active' = nextTab
            /\ cmd' = [cmd EXCEPT ![f] = Idle]
       ELSE \/ Done(f, nextTab)
            \/ /\ cmd[f].pc = "newpage"
               /\ active' = nextTab
               /\ cmd' = [cmd EXCEPT ![f].pc = "goto"]

\* newPage was rejected.
PageFailed(f) ==
    /\ scenario.pagesFail
    /\ cmd[f].pc \in {"newpage", "replacing"}
    /\ UNCHANGED <<tabs, nextTab, owner>>
    /\ IF cmd[f].pc = "newpage" /\ cmd[f].who \in Client
       THEN cmd' = [cmd EXCEPT ![f] = Idle] /\ UNCHANGED active
       ELSE Done(f, active)

\* The "close" event of a page: it leaves tabOwnership alone.
Closed(t) ==
    /\ t \in tabs
    /\ tabs' = tabs \ {t}
    /\ active' = IF active = t THEN Last(tabs') ELSE active
    /\ UNCHANGED <<nextTab, owner, cmd>>

\* That of the page of a closetab; that of one closed by itself or the user.
CloseEvent(f) == cmd[f].pc = "closing" /\ Closed(cmd[f].session)
PageCloses(t) == scenario.pagesClose /\ Closed(t)

\* closeTab after "await page.close()", before or after the event.
CloseResume(f) ==
    /\ cmd[f].pc = "closing"
    /\ LET t == cmd[f].session
           next == IF WasActive(f) /\ active \notin tabs \ {t}
                   THEN Last(tabs \ {t}) ELSE active
       IN  /\ tabs' = tabs \ {t}
           /\ owner' = [owner EXCEPT ![t] = None]
           /\ IF WasActive(f) /\ tabs \ {t} = {}
              THEN cmd' = [cmd EXCEPT ![f].pc = "replacing"] /\ UNCHANGED active
              ELSE Done(f, next)
    /\ UNCHANGED nextTab

\* The command's promise settled, either way.  A chain's does between two of
\* its commands: it is over, or what it waits for at the end has thrown.
Finish(f) ==
    /\ \/ cmd[f].pc \in {"page", "goto"}
       \/ cmd[f].pc = "chain" /\ ~Busy(<<f[1], 1>>)
    /\ UNCHANGED <<tabs, nextTab, owner>>
    /\ Done(f, active)

\* A scoped caller's result was stopped by the content filter: returned early.
Filtered(f) ==
    /\ "refused" \in Kind
    /\ cmd[f].pc = "page" /\ cmd[f].who \in Client
    /\ cmd' = [cmd EXCEPT ![f] = Idle]
    /\ UNCHANGED <<tabs, active, nextTab, owner>>

Serve(f, who, pin) ==
    \/ \E kind \in Kind, arg \in TabId \cup {NoTab} : Throw(f, who, kind, pin, arg)
    \/ "page" \in Kind /\ StartPage(f, who, pin)
    \/ "chain" \in Kind /\ StartChain(f, who, pin)
    \/ "tab" \in Kind /\ \E arg \in TabId : SwitchTab(f, who, pin, arg)
    \/ "newtab" \in Kind /\ StartNewTab(f, who, pin)
    \/ "closetab" \in Kind /\ \E arg \in TabId \cup {NoTab} : StartClose(f, who, pin, arg)

Resume(f) == PageCreated(f) \/ PageFailed(f) \/ CloseEvent(f) \/ CloseResume(f) \/ Finish(f)

-----------------------------------------------------------------------------
\* Whether commands come one after the other.
Single == Cardinality(scenario.requests) = 1

\* The histories, which mean something only then.  What a caller without a pin
\* does is its choice; one with a pin leaves the choice alone, and when that tab
\* is gone at the end, what is left is it.  "early": the step is a return of a
\* pinned command that skips the restore.
Chosen(unpinned, early) ==
    IF Single
    THEN /\ selected' = IF unpinned \/ (Quiet' /\ selected \notin tabs') THEN active' ELSE selected
         /\ pinLeft' = (early \/ (pinLeft /\ ~unpinned))
    ELSE UNCHANGED <<selected, pinLeft>>

Unpinned(r) == cmd[<<r, 0>>].pc # "idle" /\ cmd[<<r, 0>>].pin = NoTab
\* A scoped newtab, whose return is outside the try, is about to end.
EndsOutside(f) == cmd[f].pc = "newpage" /\ cmd[f].who \in Client

Issue(f, who, pin, unpinned) ==
    \/ \E kind \in Kind : Refuse(f, who, kind, pin) /\ Chosen(unpinned, pin # NoTab)
    \/ Serve(f, who, pin) /\ Chosen(unpinned, FALSE)

\* The next command of a chain: its caller's, without a pin.
IssueChained(r) ==
    /\ cmd[<<r, 0>>].pc = "chain"
    /\ Issue(<<r, 1>>, cmd[<<r, 0>>].who, NoTab, Unpinned(r))

GoOn(f, unpinned) ==
    \/ Resume(f) /\ Chosen(unpinned, EndsOutside(f) /\ cmd[f].pin # NoTab)
    \/ Filtered(f) /\ Chosen(unpinned, cmd[f].pin # NoTab)

Next ==
    /\ \/ \E r \in scenario.requests :
             \/ \E who \in scenario.clients \cup {Root}, pin \in TabId \cup {NoTab} :
                   Issue(<<r, 0>>, who, pin, pin = NoTab)
             \/ IssueChained(r)
             \/ \E depth \in {0, 1} : GoOn(<<r, depth>>, Unpinned(r))
       \/ \E t \in TabId : PageCloses(t) /\ Chosen(\E r \in scenario.requests : Unpinned(r), FALSE)
    /\ UNCHANGED scenario

Spec == Init /\ [][Next]_vars

-----------------------------------------------------------------------------
(* Properties.                                                             *)

\* The tab maps and the captured values have the values the code gives them
\* (browser-manager.ts:282-313).
TypeOK ==
    /\ scenario \in Scenario
    /\ tabs \subseteq 1..(nextTab - 1)
    /\ active \in TabId \cup {NoTab} /\ selected \in TabId \cup {NoTab}
    /\ nextTab \in 1..(MaxTab + 1)
    /\ owner \in [TabId -> Client \cup {None}]
    /\ cmd \in [Frame -> {Idle} \cup Running]
    /\ pinLeft \in BOOLEAN

\* Where commands do not overlap, a pin is undone by every command that does
\* not return early: between commands the active tab is the one the callers
\* without a pin last chose, unless since then a pinned command was refused,
\* was a scoped newtab or was answered by the content filter (server.ts:1063-1065,
\* 1232-1250; the returns that skip the restore are those of 1085-1093,
\* 1097-1116, 1120-1125, 1208-1223 and 1237-1239).
PinsAreUndone == Single /\ Quiet /\ ~pinLeft => active = selected

\* The page an own-only client's command works on is, for as long as it works,
\* a tab the client owns or one that has closed, unless the client named a tab
\* of its own that had closed: then the failed pin is passed over and the
\* command works on whatever is active (browser-manager.ts:1095-1098, 1942-1957;
\* server.ts:1070).  However the pin, the check and the capture of the session
\* interleave with other requests, closes and close events.
OwnOnlyWorksOnItsTabs ==
    \A f \in Frame : cmd[f].pc = "page" /\ cmd[f].who \in Client =>
        IF cmd[f].pin \in {NoTab, cmd[f].session}
        THEN owner[cmd[f].session] = cmd[f].who \/ cmd[f].session \notin tabs
        ELSE cmd[f].pin \notin tabs

\* Where commands do not overlap and pages close by closetab only, the active
\* tab is open between commands, so that getActiveSession finds a session after
\* any order of switches, closes and close events; no tab is left only where the
\* browser refused the page that replaces the last one (browser-manager.ts:986-1018,
\* "leaving the manager with zero tabs").
ActiveIsOpen ==
    Single /\ ~scenario.pagesClose /\ Quiet => active \in tabs \/ (tabs = {} /\ scenario.pagesFail)
=============================================================================
