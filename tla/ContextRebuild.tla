---------------------------- MODULE ContextRebuild ----------------------------
(***************************************************************************)
(* The browser context replaced under its tabs (browse/src/                *)
(* browser-manager.ts): recreateContext for a user agent or a device       *)
(* scale, the roll back of a scale that failed, state load, and handoff to *)
(* a headed browser; all of them save the tabs and open them again in the  *)
(* new context, one await after the other, while agents open tabs, the     *)
(* operator revokes agents, and other commands rebuild too: nothing keeps  *)
(* a second rebuild out of the awaits of the first.                        *)
(***************************************************************************)
EXTENDS Integers

CONSTANTS
    Client,       \* agents that own tabs
    AtOnce,       \* bound on the rebuilds under way at a time
    Purpose,      \* why the context is replaced: "agent", "scale", "load", "handoff"
    Scale,        \* device scale factors
    MaxTab,       \* bound on the tab ids handed out
    MaxRebuild    \* bound on the rebuilds begun

ASSUME RebuildAssumption ==
    /\ Purpose \subseteq {"agent", "scale", "load", "handoff"}
    /\ MaxTab \in Nat \ {0} /\ MaxRebuild \in Nat /\ AtOnce \in Nat /\ 1 \in Scale

TabId == 1..MaxTab
Command == 1..AtOnce   \* the commands that have the context replaced
NoOwner == "none"
Owner == Client \cup {NoOwner}

VARIABLES
    context,     \* this.context: is it open, its scale, the handoff that put it there
    mode,        \* connectionMode
    tabs,        \* pages
    nextTab,     \* nextTabId
    owner,       \* tabOwnership
    scale,       \* deviceScaleFactor, what the manager believes
    op,          \* the rebuild a command has under way
    rebuilds,    \* how many were begun
    opener,      \* history: the client that opened the tab, or the one it restores
    revoked,     \* history: clients revoked; they do not come back
    crossed      \* history: two recreateContext ran at a time, and none alone since

rebuildVars == <<context, mode, tabs, nextTab, owner, scale, op, rebuilds,
          opener, revoked, crossed>>

NoOp == [pc |-> "idle"]
NoCommand == 0
Page == [tab : TabId, owner : Owner, opener : Owner]
NoScale == 0
Rebuilds ==
    [pc : {"saving", "closing", "creating", "fallback", "blank", "launching", "restoring",
           "pages"},
     why : {"agent", "scale", "load", "handoff", "rollback"},
     before : Scale \cup {NoScale},   \* prevScale
     given : Scale \cup {NoScale},    \* the scale of the context being created
     left : SUBSET Page]              \* the saved pages that are still to be opened
Context(s, by) == [open |-> TRUE, scale |-> s, by |-> by]
Closed == [open |-> FALSE, scale |-> 1, by |-> NoCommand]
Idle(r) == op[r].pc = "idle"
Quiet == \A r \in Command : Idle(r)
OpAt(r, pc) == op[r].pc = pc
OpGoes(r, pc) == op' = [op EXCEPT ![r].pc = pc]
OpEnds(r) == op' = [op EXCEPT ![r] = NoOp]

\* The rebuilds that are a recreateContext.
Recreates(r) == ~Idle(r) /\ op[r].why \in {"agent", "scale", "rollback"}
Alone(r) == \A q \in Command \ {r} : ~Recreates(q)

RebuildInit ==
    /\ context = Context(1, NoCommand)
    /\ mode = "launched" /\ scale = 1
    /\ tabs = {1} /\ nextTab = 2
    /\ owner = [t \in TabId |-> NoOwner] /\ opener = owner
    /\ op = [r \in Command |-> NoOp] /\ rebuilds = 0
    /\ revoked = {} /\ crossed = FALSE

-----------------------------------------------------------------------------
(* Opening a tab: the id is new, the tab becomes active, and the owner is   *)
(* entered if there is one.                                                 *)

OpenTab(c, from) ==
    /\ nextTab <= MaxTab
    /\ nextTab' = nextTab + 1
    /\ opener' = [opener EXCEPT ![nextTab] = from]
    /\ owner' = IF c = NoOwner THEN owner ELSE [owner EXCEPT ![nextTab] = c]

newTab(c) ==
    /\ context.open
    /\ c \notin revoked
    /\ OpenTab(c, c)
    /\ tabs' = tabs \cup {nextTab}
    /\ UNCHANGED <<context, mode, scale, op, rebuilds, revoked, crossed>>

\* DELETE /token, or a narrowing pairing: releaseClientTabs.
Revoke(c) ==
    /\ c \notin revoked
    /\ revoked' = revoked \cup {c}
    /\ owner' = [t \in TabId |-> IF owner[t] = c THEN NoOwner ELSE owner[t]]
    /\ UNCHANGED <<context, mode, tabs, nextTab, scale, op, rebuilds,
                   opener, crossed>>

-----------------------------------------------------------------------------
(* saveState, and what each purpose sets before it.                        *)

\* The pages by the tab they are in, each with its owner.
SavedTabs == {[tab |-> t, owner |-> owner[t], opener |-> opener[t]] : t \in tabs}
\* state load takes the pages of a file: none of them has an owner.
LoadedTabs == {[tab |-> 1, owner |-> NoOwner, opener |-> NoOwner]}

BeginRebuild(r, why, s) ==
    /\ Idle(r) /\ rebuilds < MaxRebuild
    /\ \A q \in 1..(r - 1) : ~Idle(q)   \* a command has no other name than its place
    /\ why = "load" \/ mode = "launched"
    /\ why \in Purpose
    /\ why = "scale" \/ s = scale
    /\ rebuilds' = rebuilds + 1
    /\ scale' = s
    /\ op' = [op EXCEPT ![r] = [pc |-> "saving", why |-> why, given |-> NoScale, left |-> {},
                               before |-> IF why = "scale" THEN scale ELSE NoScale]]
    /\ crossed' = (crossed \/ (why \in {"agent", "scale"} /\ ~Alone(r)))
    /\ UNCHANGED <<context, mode, tabs, nextTab, owner, opener, revoked>>

\* The cookies of a context that is closed cannot be read.
SaveState(r) ==
    /\ OpAt(r, "saving") /\ context.open
    /\ LET why == op[r].why IN
       /\ op' = [op EXCEPT ![r].left = IF why = "load" THEN LoadedTabs ELSE SavedTabs,
                           ![r].pc = CASE why = "load" -> "restoring"
                                       [] why = "handoff" -> "launching"
                                       [] OTHER -> "closing"]
       /\ tabs' = IF why = "load" THEN {} ELSE tabs
    /\ UNCHANGED <<context, mode, nextTab, owner, scale, rebuilds,
                   opener, revoked, crossed>>

SaveFails(r) ==
    /\ OpAt(r, "saving") /\ Recreates(r)
    /\ OpGoes(r, "fallback")
    /\ UNCHANGED <<context, mode, tabs, nextTab, owner, scale, rebuilds,
                   opener, revoked, crossed>>

\* Without a context to save from, load and handoff throw.
SaveThrows(r) ==
    /\ OpAt(r, "saving") /\ ~Recreates(r)
    /\ OpEnds(r)
    /\ UNCHANGED <<context, mode, tabs, nextTab, owner, scale, rebuilds,
                   opener, revoked, crossed>>

-----------------------------------------------------------------------------
(* recreateContext: close all, open a context with the current settings.    *)
(* The settings are read once the old context is closed.  What is closed    *)
(* is the context this.context names by then, whoever made it.              *)

CloseOld(r) ==
    /\ OpAt(r, "closing")
    /\ tabs' = {}
    /\ context' = Closed
    /\ op' = [op EXCEPT ![r].pc = "creating", ![r].given = scale]
    /\ crossed' = (crossed /\ ~Alone(r))
    /\ UNCHANGED <<mode, nextTab, owner, scale, rebuilds, opener, revoked>>

CreateContext(r) ==
    /\ OpAt(r, "creating")
    /\ context' = Context(op[r].given, NoCommand)
    /\ op' = [op EXCEPT ![r].pc = "restoring", ![r].given = NoScale]
    /\ UNCHANGED <<mode, tabs, nextTab, owner, scale, rebuilds, opener,
                   revoked, crossed>>

CreateFails(r) ==
    /\ OpAt(r, "creating")
    /\ op' = [op EXCEPT ![r].pc = "fallback", ![r].given = NoScale]
    /\ UNCHANGED <<context, mode, tabs, nextTab, owner, scale, rebuilds,
                   opener, revoked, crossed>>

\* The rollback: the fields first, then a second recreateContext, which
\* throws if a handoff has made the mode headed meanwhile.
\* Slip: the fields are put back, the context is left as it is.
FailedScale_fields(r) ==
    /\ OpEnds(r)
    /\ scale' = IF op[r].why = "scale" THEN op[r].before ELSE scale
FailedScale(r) ==
    IF op[r].why = "scale"
    THEN /\ scale' = op[r].before
         /\ IF mode = "headed" THEN OpEnds(r)
            ELSE op' = [op EXCEPT ![r].pc = "saving", ![r].why = "rollback", ![r].given = NoScale]
    ELSE OpEnds(r) /\ scale' = scale

\* A clean context at the current settings, with one blank tab.
Fallback(r) ==
    /\ OpAt(r, "fallback")
    /\ tabs' = {}
    /\ context' = Closed
    /\ op' = [op EXCEPT ![r].pc = "blank", ![r].given = scale, ![r].left = {}]
    /\ crossed' = (crossed /\ ~Alone(r))
    /\ UNCHANGED <<mode, nextTab, owner, scale, opener, rebuilds, revoked>>

BlankTab(r) ==
    /\ OpAt(r, "blank")
    /\ context' = Context(op[r].given, NoCommand)
    /\ OpenTab(NoOwner, NoOwner)
    /\ tabs' = tabs \cup {nextTab}
    /\ FailedScale(r)
    /\ UNCHANGED <<mode, rebuilds, revoked, crossed>>

\* There is no new context, or it has no tab.
FallbackFails(r) ==
    /\ OpAt(r, "blank")
    /\ context' \in {context, Context(op[r].given, NoCommand)}
    /\ FailedScale(r)
    /\ UNCHANGED <<mode, tabs, nextTab, owner, opener, rebuilds, revoked, crossed>>

-----------------------------------------------------------------------------
(* handoff: launch first, swap, restore.  The headed context is given no    *)
(* scale: it has the one of the screen.                                     *)

Swap(r) ==
    /\ OpAt(r, "launching")
    /\ \E screen \in Scale : context' = Context(screen, r)
    /\ tabs' = {} /\ mode' = "headed"
    /\ OpGoes(r, "restoring")
    /\ UNCHANGED <<nextTab, owner, scale, rebuilds, opener, revoked, crossed>>

LaunchFails(r) ==
    /\ OpAt(r, "launching")
    /\ OpEnds(r)
    /\ UNCHANGED <<context, mode, tabs, nextTab, owner, scale, rebuilds,
                   opener, revoked, crossed>>

-----------------------------------------------------------------------------
(* restoreState: the cookies, then tab after tab.                          *)

\* Before the first page: the owners of the old ids are forgotten.
BeginRestore(r) ==
    /\ OpAt(r, "restoring") /\ context.open
    /\ owner' = [t \in TabId |-> NoOwner]
    /\ OpGoes(r, "pages")
    /\ UNCHANGED <<context, mode, tabs, nextTab, scale, rebuilds, opener,
                   revoked, crossed>>

\* Slip: the owner of the last page that was saved.
RestoredOwner_last(r, p) ==
    (CHOOSE q \in op[r].left : \A o \in op[r].left : o.tab <= q.tab).owner
RestoredOwner(r, p) == p.owner

\* The pages in the order of the tabs they were in.
RestorePage(r) ==
    /\ OpAt(r, "pages") /\ context.open
    /\ \E p \in op[r].left :
          /\ \A o \in op[r].left : p.tab <= o.tab
          /\ OpenTab(RestoredOwner(r, p), p.opener)
          /\ op' = [op EXCEPT ![r].left = @ \ {p}]
    /\ tabs' = tabs \cup {nextTab}
    /\ UNCHANGED <<context, mode, scale, rebuilds, revoked, crossed>>

EndRestore(r) ==
    /\ OpAt(r, "pages")
    /\ op[r].left = {}
    /\ IF tabs # {} THEN UNCHANGED <<tabs, nextTab, owner, opener>>
       ELSE context.open /\ OpenTab(NoOwner, NoOwner) /\ tabs' = {nextTab}
    /\ OpEnds(r)
    /\ UNCHANGED <<context, mode, scale, rebuilds, revoked, crossed>>

\* The cookies or a page are refused.  recreateContext falls back, load
\* throws, handoff closes the context it has swapped in: this.context, if
\* no other command replaced it since.
RestoreFails(r) ==
    /\ op[r].pc \in {"restoring", "pages"}
    /\ IF Recreates(r) THEN OpGoes(r, "fallback") ELSE OpEnds(r)
    /\ IF op[r].why = "handoff" /\ context.by = r
       THEN context' = Closed /\ tabs' = {}
       ELSE UNCHANGED <<context, tabs>>
    /\ UNCHANGED <<mode, nextTab, owner, scale, rebuilds, opener, revoked, crossed>>

-----------------------------------------------------------------------------
Rebuild(r) ==
    \/ \E why \in Purpose, s \in Scale : BeginRebuild(r, why, s)
    \/ SaveState(r) \/ SaveFails(r) \/ SaveThrows(r)
    \/ CloseOld(r) \/ CreateContext(r) \/ CreateFails(r)
    \/ Fallback(r) \/ BlankTab(r) \/ FallbackFails(r)
    \/ Swap(r) \/ LaunchFails(r)
    \/ BeginRestore(r) \/ RestorePage(r) \/ EndRestore(r) \/ RestoreFails(r)

RebuildNext ==
    \/ \E r \in Command : Rebuild(r)
    \/ \E c \in Client : newTab(c) \/ Revoke(c)

RebuildSpec == RebuildInit /\ [][RebuildNext]_rebuildVars

-----------------------------------------------------------------------------
RebuildTypeOK ==
    /\ context \in [open : BOOLEAN, scale : Scale, by : Command \cup {NoCommand}]
    /\ mode \in {"launched", "headed"}
    /\ tabs \subseteq 1..(nextTab - 1) /\ nextTab \in 1..(MaxTab + 1)
    /\ owner \in [TabId -> Owner] /\ opener \in [TabId -> Owner]
    /\ scale \in Scale /\ rebuilds \in 0..MaxRebuild
    /\ op \in [Command -> Rebuilds \cup {NoOp}]
    /\ revoked \subseteq Client /\ crossed \in BOOLEAN

(* Whatever was rebuilt, rolled back, opened or revoked meanwhile, a tab is *)
(* never owned by another agent than the one that opened it or the page it  *)
(* restores: an id is not handed to the owner of an older tab.             *)
OwnedByItsOpener == \A t \in TabId : owner[t] \in {NoOwner, opener[t]}

(* Between rebuilds the open context has the device scale the manager       *)
(* reports, however often the rebuild and its roll back failed, and whatever *)
(* state loads and handoffs ran beside them.  Two exceptions: in headed mode *)
(* the context has the screen's scale and deviceScaleFactor the last one     *)
(* asked for (browser-manager.ts:1821-1836); and where two recreateContext   *)
(* ran at a time, one may put back, or have read, a scale that was not the   *)
(* other's to keep (browser-manager.ts:1617-1734 lets the second one in),    *)
(* until one of them gets to close the old context with no other under way.  *)
ReportedScaleIsReal ==
    Quiet /\ context.open /\ mode = "launched" /\ ~crossed => context.scale = scale
=============================================================================
