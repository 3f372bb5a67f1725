---------------------------- MODULE ServerProcess ----------------------------
(***************************************************************************)
(* How one browse daemon ends (browse/src/server.ts): the idle timer, the  *)
(* parent watchdog, the signals, stop, a crash, and the one shutdown they  *)
(* race to start; the session snapshots (browse/src/session-persist.ts)    *)
(* that the interval and the shutdown write meanwhile, and the restore at  *)
(* boot; the tunnel, whose state decides which of the timers may end the   *)
(* daemon.                                                                 *)
(*                                                                         *)
(* A snapshot is of every tab with its storage unless its capture met a    *)
(* closing browser or a restore that was not over.                         *)
(***************************************************************************)
EXTENDS Tunnel

CONSTANTS
    Persist,      \* BROWSE_PERSIST_STATE=1
    Crashes       \* whether an uncaught exception or a Chromium crash may occur

ASSUME ProcessAssumption == Persist \in BOOLEAN /\ Crashes \in BOOLEAN

VARIABLES
    mode,        \* connectionMode
    suppressed,  \* headedParentShutdownSuppressed
    watched,     \* the parent watchdog is registered
    parent,      \* the parent process lives
    picker,      \* hasActivePicker()
    stale,       \* Date.now() - lastActivity > IDLE_TIMEOUT_MS
    shutdown,    \* where shutdown() stands
    cause,       \* history: what started it
    browser,     \* "up", "closing" or "gone"
    restore,     \* restoreSessionState at boot: "running" or "over"
    saver,       \* persistSessionState of the interval and of the shutdown
    snapshot,    \* session-state.json: who wrote it and what its capture met
    stateFile    \* browse.json names this daemon

lifeVars == <<mode, suppressed, watched, parent, picker, stale>>
saveVars == <<restore, saver, snapshot>>
procVars == <<lifeVars, shutdown, cause, browser, saveVars, stateFile>>
vars == <<tunnelVars, procVars>>

Saver == {"interval", "final"}
Exited == shutdown = "exited"
isShuttingDown == shutdown # "no"

Init ==
    /\ TunnelInit
    /\ mode \in {"launched", "headed"}
    /\ watched \in BOOLEAN /\ (mode = "headed" => ~watched)
    /\ suppressed = FALSE
    /\ parent = TRUE /\ picker = FALSE /\ stale = FALSE
    /\ shutdown = "no" /\ cause = "none" /\ browser = "up"
    /\ restore \in IF Persist /\ mode = "launched" THEN {"running", "over"} ELSE {"over"}
    /\ saver = [s \in Saver |-> "off"]
    /\ snapshot = [by |-> "previous", met |-> "nothing"]
    /\ stateFile = TRUE

-----------------------------------------------------------------------------
(* Around the daemon.                                                      *)

\* A command, or a lease refresh of a terminal, resets the idle timer when it
\* arrives; the timeout may then pass while the command still runs.
Activity == stale /\ stale' = FALSE /\ UNCHANGED <<mode, suppressed, watched, parent, picker>>
TimePasses == ~stale /\ stale' = TRUE /\ UNCHANGED <<mode, suppressed, watched, parent, picker>>
ParentExits == parent /\ parent' = FALSE /\ UNCHANGED <<mode, suppressed, watched, picker, stale>>
PickerChanges == picker' = ~picker /\ UNCHANGED <<mode, suppressed, watched, parent, stale>>

\* handoff: a headless daemon becomes headed; its watchdog stays registered.
\* Slip: the interval is cleared instead of suppressed.
Promote_cleared ==
    /\ mode = "launched" /\ mode' = "headed"
    /\ suppressed' = TRUE /\ watched' = FALSE
    /\ UNCHANGED <<parent, picker, stale>>
Promote ==
    /\ mode = "launched" /\ mode' = "headed"
    /\ suppressed' = TRUE
    /\ UNCHANGED <<watched, parent, picker, stale>>

Surroundings ==
    /\ ~isShuttingDown
    /\ Activity \/ TimePasses \/ ParentExits \/ PickerChanges \/ Promote
    /\ UNCHANGED <<tunnelVars, shutdown, cause, browser, saveVars, stateFile>>

-----------------------------------------------------------------------------
(* What calls shutdown().                                                  *)

\* Slip: an open cookie picker counts as activity.
Idle_picker == mode # "headed" /\ ~tunnelActive /\ stale /\ ~picker
Idle == mode # "headed" /\ ~tunnelActive /\ stale
ParentGone == watched /\ ~parent /\ ~picker /\ ((mode = "headed" /\ ~suppressed) \/ tunnelActive)
Terminated == ~picker /\ (mode = "headed" \/ tunnelActive)

\* Up to the await of flushBuffers: the intervals are cleared.
BeginShutdown(why) ==
    /\ ~isShuttingDown
    /\ shutdown' = "flushing" /\ cause' = why
    /\ UNCHANGED <<tunnelVars, lifeVars, browser, saveVars, stateFile>>

idleCheckTick == Idle /\ BeginShutdown("idle")
parentWatchdogTick == ParentGone /\ BeginShutdown("parent")
SIGTERM == Terminated /\ BeginShutdown("order")
Order == BeginShutdown("order")      \* stop, restart, SIGINT, SIGHUP

-----------------------------------------------------------------------------
(* persistSessionState: saveState walks the tabs, awaiting each; what fails *)
(* on a tab is swallowed, so a closing browser still yields a state, which  *)
(* is written and renamed in one step.                                     *)

StartSave(s) ==
    /\ mode = "launched"
    /\ saver' = [saver EXCEPT ![s] = "cookies"]

\* The interval skips a tick while the last one is under way.
PersistTick ==
    /\ Persist /\ ~isShuttingDown /\ saver["interval"] = "off"
    /\ StartSave("interval")
    /\ UNCHANGED <<tunnelVars, lifeVars, shutdown, cause, browser, restore, snapshot, stateFile>>

\* The cookies are a call to the context, which must be open.
CookiesRead(s) ==
    /\ ~Exited /\ saver[s] = "cookies"
    /\ saver' = [saver EXCEPT ![s] = IF browser = "up" THEN "pages" ELSE "off"]
    /\ UNCHANGED <<tunnelVars, lifeVars, shutdown, cause, browser, restore, snapshot, stateFile>>

\* A wedged page keeps the saver here for as long as the browser is up.
PagesRead(s) ==
    /\ ~Exited /\ saver[s] = "pages"
    /\ saver' = [saver EXCEPT ![s] = "off"]
    /\ snapshot' = [by |-> s, met |-> CASE browser # "up" -> "closing"
                                         [] restore = "running" -> "restore"
                                         [] OTHER -> "nothing"]
    /\ UNCHANGED <<tunnelVars, lifeVars, shutdown, cause, browser, restore, stateFile>>

RestoreEnds ==
    /\ ~Exited /\ restore = "running"
    /\ restore' = "over"
    /\ UNCHANGED <<tunnelVars, lifeVars, shutdown, cause, browser, saver, snapshot, stateFile>>

-----------------------------------------------------------------------------
(* The rest of shutdown().                                                 *)

Step(from, to) == shutdown = from /\ shutdown' = to /\ cause' = cause

\* The final snapshot begins.
Flushed ==
    /\ Step("flushing", "saving")
    /\ saver' = [saver EXCEPT !["final"] = IF Persist /\ mode = "launched" THEN "cookies" ELSE "off"]
    /\ UNCHANGED <<tunnelVars, lifeVars, browser, restore, snapshot, stateFile>>

\* Slip: no deadline.
Saved_late ==
    /\ Step("saving", "closing")
    /\ saver["final"] = "off"
    /\ browser' = "closing"
    /\ UNCHANGED <<tunnelVars, lifeVars, saveVars, stateFile>>

\* Promise.race: the snapshot has ended or two seconds have passed.
Saved ==
    /\ Step("saving", "closing")
    /\ browser' = "closing"
    /\ UNCHANGED <<tunnelVars, lifeVars, saveVars, stateFile>>

\* close() resolves, or its own race of five seconds ends it; then exit.
\* With the process its ngrok sessions and its listeners go.
Closed ==
    /\ Step("closing", "exited")
    /\ browser' = "gone" /\ stateFile' = FALSE
    /\ sessions' = {} /\ bound' = {}
    /\ handler' = [h \in Handler |-> Free]
    /\ UNCHANGED <<remembered, bindings, overlapped, lifeVars, saveVars>>

\* An uncaught exception: emergencyCleanup removes the state file unless a
\* shutdown is under way, and the process exits in either case.
Crash ==
    /\ Crashes /\ ~Exited
    /\ stateFile' = (stateFile /\ isShuttingDown)
    /\ shutdown' = "exited" /\ cause' = "crash" /\ browser' = "gone"
    /\ sessions' = {} /\ bound' = {} /\ handler' = [h \in Handler |-> Free]
    /\ UNCHANGED <<remembered, bindings, overlapped, lifeVars, saveVars>>

\* handleChromiumDisconnect: the process exits at once, nothing is removed.
Disconnected ==
    /\ Crashes /\ browser = "up"
    /\ shutdown' = "exited" /\ cause' = "disconnect" /\ browser' = "gone"
    /\ sessions' = {} /\ bound' = {} /\ handler' = [h \in Handler |-> Free]
    /\ UNCHANGED <<remembered, bindings, overlapped, lifeVars, saveVars, stateFile>>

ShutdownStep == Flushed \/ Saved \/ Closed
SaverStep == \E s \in Saver : CookiesRead(s) \/ PagesRead(s)

TunnelStep == ~Exited /\ TunnelNext /\ UNCHANGED procVars

Next ==
    \/ TunnelStep \/ Surroundings
    \/ idleCheckTick \/ parentWatchdogTick \/ SIGTERM \/ Order
    \/ PersistTick \/ SaverStep \/ RestoreEnds
    \/ ShutdownStep \/ Crash \/ Disconnected

Spec == Init /\ [][Next]_vars

(* The intervals fire, and the deadlines of shutdown() pass.  Nothing is    *)
(* assumed of the browser, of ngrok or of the snapshots.                   *)
FairSpec ==
    /\ Spec
    /\ WF_vars(idleCheckTick) /\ WF_vars(parentWatchdogTick)
    /\ WF_vars(ShutdownStep)

-----------------------------------------------------------------------------
TypeOK ==
    /\ TunnelTypeOK
    /\ mode \in {"launched", "headed"}
    /\ {suppressed, watched, parent, picker, stale, stateFile} \subseteq BOOLEAN
    /\ shutdown \in {"no", "flushing", "saving", "closing", "exited"}
    /\ cause \in {"none", "idle", "parent", "order", "crash", "disconnect"}
    /\ (cause = "none") = (shutdown = "no")
    /\ browser \in {"up", "closing", "gone"}
    /\ (browser = "closing") = (shutdown = "closing") /\ (browser = "gone") = Exited
    /\ restore \in {"running", "over"}
    /\ saver \in [Saver -> {"off", "cookies", "pages"}]
    /\ snapshot \in [by : Saver \cup {"previous"}, met : {"nothing", "restore", "closing"}]

(* A shutdown that has begun ends, however wedged the browser, the pages    *)
(* and the snapshots are.                                                  *)
ShutdownEnds == isShuttingDown ~> Exited

(* A daemon that was abandoned ends: headless, without a tunnel and unused, *)
(* or exposed through a tunnel whose parent is gone, and then even when it  *)
(* was handed off to the user in between.                                  *)
AbandonedEnds ==
    /\ (<>[](mode = "launched" /\ ~tunnelActive /\ stale)) => <>Exited
    /\ (watched /\ ~parent /\ tunnelActive) ~> (Exited \/ ~tunnelActive \/ picker)
=============================================================================
