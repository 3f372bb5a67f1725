--------------------------- MODULE DaemonLifecycle ---------------------------
(***************************************************************************)
(* CLI invocations, the browse daemons they start, retry and kill, and the *)
(* state file through which they find each other: ensureServer,            *)
(* startServer, killServer, sendCommand and the stop short-circuit of      *)
(* browse/src/cli.ts; start, shutdown and emergencyCleanup of              *)
(* browse/src/server.ts.                                                   *)
(*                                                                         *)
(* CLIs and daemons are processes: each read of the file, each probe, kill *)
(* or write is an action, and what a CLI has read may be stale when it     *)
(* acts.  A probe of a live daemon may fail (it is busy).  Daemons are     *)
(* numbered in the order of spawning; pids and ports are never reused.     *)
(***************************************************************************)
EXTENDS Integers, FiniteSets

CONSTANTS
    Invocation,  \* the CLI processes
    MaxDaemon,   \* bound on the daemons ever spawned
    Scenario     \* who runs, and what may go wrong around them

\* "lock": the start lock may be had by two (ServerLock, broken).
\* "upgrade": a new binary may be installed.  "die": daemons end by
\* themselves.  "interrupt": an invocation may be killed.  "slow": a start may
\* outlast MAX_START_WAIT.  "busy": a live daemon may leave a probe or a command
\* unanswered.
Fault == {"lock", "upgrade", "die", "interrupt", "slow", "busy"}

ASSUME ScenarioAssumption ==
    \A s \in Scenario : /\ s.runs \subseteq Invocation /\ IsFiniteSet(s.runs)
                        /\ s.faults \subseteq Fault
                        /\ s.forcing \subseteq s.runs    \* --force-restart
                        /\ s.stopping \subseteq s.runs   \* "stop"
ASSUME BoundAssumption == MaxDaemon \in Nat \ {0}

Daemon == 1..MaxDaemon
NoDaemon == 0

VARIABLES
    scenario, \* the one that is played
    daemon,   \* the life of each daemon
    old,      \* daemons whose binary is not the installed one
    state,    \* the daemon the state file names
    holders,  \* the invocations that hold the start lock
    cli       \* where each invocation is

lifeVars == <<scenario, daemon, old, state, holders, cli>>

Forcing == scenario.forcing
Stopping == scenario.stopping
May(fault) == fault \in scenario.faults

\* st: the daemon of the ServerState at hand.  alive: its pid was alive when
\* st was read.  retries: of sendCommand.
CliState == [pc : {"begin", "probe", "lock", "wait", "waitProbe", "reread",
                   "kill", "killing", "reap", "spawn", "poll", "pollProbe", "send",
                   "lost", "lostProbe", "stopKill", "stopKilling", "stopClean", "done"},
             st : Daemon \cup {NoDaemon}, alive : BOOLEAN, retries : {0, 1}]

\* isProcessAlive.  Slip: a daemon that is closing counts as dead.
Alive_open(d) == d # NoDaemon /\ daemon[d] \in {"starting", "up"}
Alive(d) == d # NoDaemon /\ daemon[d] \in {"starting", "up", "closing"}
Answers(d) == d # NoDaemon /\ daemon[d] \in {"up", "closing"}
Unanswered(d) == May("busy") \/ ~Answers(d)
At(c, step) == cli[c].pc = step

LifeInit ==
    /\ \E first \in {"none", "up", "dead"} :
          /\ daemon = [d \in Daemon |-> IF d = 1 THEN first ELSE "none"]
          /\ state = IF first = "none" THEN NoDaemon ELSE 1
    /\ old = {}
    /\ holders = {}
    /\ scenario \in Scenario
    /\ cli = [c \in Invocation |-> [pc |-> IF c \in scenario.runs THEN "begin" ELSE "done",
                             st |-> NoDaemon, alive |-> FALSE, retries |-> 0]]

-----------------------------------------------------------------------------
(* Steps every invocation is made of.                                      *)

Goto(c, step) == cli' = [cli EXCEPT ![c].pc = step]
ReadState(c, step) ==
    cli' = [cli EXCEPT ![c].pc = step, ![c].st = state, ![c].alive = Alive(state)]

\* The result of ensureServer or startServer, or its throw: the lock goes.
ReturnFrom(c, step) ==
    /\ Goto(c, step)
    /\ holders' = holders \ {c}

-----------------------------------------------------------------------------
(* ensureServer.                                                           *)

Begin(c) ==
    /\ At(c, "begin")
    /\ \/ c \notin Stopping /\ ReadState(c, "probe")
       \* stop: the short-circuit before ensureServer.
       \/ c \in Stopping /\ state = NoDaemon /\ Goto(c, "done")
       \/ c \in Stopping /\ state # NoDaemon /\ ~Alive(state) /\ ReadState(c, "stopClean")
       \/ c \in Stopping \ Forcing /\ Alive(state) /\ ReadState(c, "probe")
       \/ c \in Stopping \cap Forcing /\ Alive(state) /\ ReadState(c, "stopKill")
    /\ UNCHANGED <<daemon, old, state, holders>>

ProbeHealthy(c) ==
    /\ At(c, "probe") /\ Answers(cli[c].st)
    \* a daemon of another binary is killed and restarted, without the lock
    /\ Goto(c, IF cli[c].st \in old THEN "kill" ELSE "send")
    /\ UNCHANGED <<daemon, old, state, holders>>

\* Only --force-restart goes on against a pid that was alive.  Slip: all do.
MayReplace_busy(c) == TRUE
MayReplace(c) == cli[c].alive => c \in Forcing

ProbeFailed(c) ==
    /\ At(c, "probe") /\ Unanswered(cli[c].st)
    /\ Goto(c, IF MayReplace(c) THEN "lock" ELSE "done")
    /\ UNCHANGED <<daemon, old, state, holders>>

\* acquireServerLock.  Slip: it is had by all.
AcquireLock_always(c) ==
    /\ At(c, "lock")
    /\ holders' = holders \cup {c} /\ Goto(c, "reread")
    /\ UNCHANGED <<daemon, old, state>>
AcquireLock(c) ==
    /\ At(c, "lock")
    /\ \/ /\ holders = {} \/ May("lock")
          /\ holders' = holders \cup {c} /\ Goto(c, "reread")
       \/ /\ holders # {}
          /\ UNCHANGED holders /\ Goto(c, "wait")
       \* ServerLockError: the file cannot be created or read
       \/ UNCHANGED holders /\ Goto(c, "done")
    /\ UNCHANGED <<daemon, old, state>>

\* Another is starting the daemon: poll the state file.
Wait(c) ==
    /\ \/ At(c, "wait") /\ ReadState(c, "waitProbe")
       \/ At(c, "waitProbe") /\ Answers(cli[c].st) /\ Goto(c, "send")
       \/ At(c, "waitProbe") /\ Unanswered(cli[c].st) /\ Goto(c, "wait")
    /\ UNCHANGED <<daemon, old, state, holders>>

WaitTimeout(c) ==
    /\ At(c, "wait")
    /\ Goto(c, "done")
    /\ UNCHANGED <<daemon, old, state, holders>>

\* Under the lock: has another started it?  (The read and the probe of the
\* daemon it names.)  To be killed is still the daemon of the first read.
Reread(c) ==
    /\ At(c, "reread")
    /\ \/ state # NoDaemon /\ Answers(state)
          /\ cli' = [cli EXCEPT ![c].pc = "send", ![c].st = state] /\ holders' = holders \ {c}
       \* no state file, or one probe of 2 s failed
       \/ Unanswered(state) /\ Goto(c, "kill") /\ UNCHANGED holders
    /\ UNCHANGED <<daemon, old, state>>

\* killServer: SIGTERM, which ends a headed or tunnelled daemon and which a
\* headless one ignores, then SIGKILL to what is alive after 2 s.
Kill(c) ==
    /\ \E kill \in {<<"kill", "killing", "reap">>, <<"stopKill", "stopKilling", "stopClean">>} :
          /\ At(c, kill[1])
          /\ IF ~Alive(cli[c].st)
             THEN Goto(c, kill[3]) /\ UNCHANGED daemon
             ELSE /\ Goto(c, kill[2])
                  /\ \/ UNCHANGED daemon
                     \/ daemon' = [daemon EXCEPT ![cli[c].st] = "closing"]
    /\ UNCHANGED <<old, state, holders>>

Killed(c) ==
    /\ \E kill \in {<<"killing", "reap">>, <<"stopKilling", "stopClean">>} :
          At(c, kill[1]) /\ Goto(c, kill[2])
    /\ daemon' = [daemon EXCEPT ![cli[c].st] = "dead"]
    /\ UNCHANGED <<old, state, holders>>

-----------------------------------------------------------------------------
(* startServer.                                                            *)

\* The Chromium recorded in the state file is killed, and with it the daemon
\* it belongs to, if that one still runs.
Reap(c) ==
    /\ At(c, "reap")
    /\ daemon' = IF Alive(state) THEN [daemon EXCEPT ![state] = "dead"] ELSE daemon
    /\ Goto(c, "spawn")
    /\ UNCHANGED <<old, state, holders>>

Fresh == {d \in Daemon : daemon[d] = "none"}

\* The state file is removed, then the daemon is spawned.
Spawn(c) ==
    /\ At(c, "spawn")
    /\ \E d \in Fresh :
          /\ \A e \in Fresh : d <= e
          /\ daemon' = [daemon EXCEPT ![d] = "starting"]
    /\ state' = NoDaemon
    /\ Goto(c, "poll")
    /\ UNCHANGED <<old, holders>>

Poll(c) ==
    /\ At(c, "poll")
    /\ ReadState(c, "pollProbe")
    /\ UNCHANGED <<daemon, old, state, holders>>

PollHealthy(c) ==
    /\ At(c, "pollProbe") /\ Answers(cli[c].st)
    /\ ReturnFrom(c, "send")
    /\ UNCHANGED <<daemon, old, state>>

PollAgain(c) ==
    /\ At(c, "pollProbe") /\ Unanswered(cli[c].st)
    /\ Goto(c, "poll")
    /\ UNCHANGED <<daemon, old, state, holders>>

\* MAX_START_WAIT is over.  Slip: it counts only while there is no state file.
PollTimeout_absent(c) ==
    /\ At(c, "poll") /\ state = NoDaemon
    /\ May("slow") \/ \A d \in Daemon : daemon[d] # "starting" /\ Unanswered(d)
    /\ ReturnFrom(c, "done")
    /\ UNCHANGED <<daemon, old, state>>
PollTimeout(c) ==
    /\ At(c, "poll")
    /\ May("slow") \/ \A d \in Daemon : daemon[d] # "starting" /\ Unanswered(d)
    /\ ReturnFrom(c, "done")
    /\ UNCHANGED <<daemon, old, state>>

-----------------------------------------------------------------------------
(* sendCommand.                                                            *)

\* The reply comes; "stop" is acknowledged before the shutdown starts.
SendOk(c) ==
    /\ At(c, "send") /\ Answers(cli[c].st)
    /\ daemon' = IF c \in Stopping THEN [daemon EXCEPT ![cli[c].st] = "closing"] ELSE daemon
    /\ Goto(c, "done")
    /\ UNCHANGED <<old, state, holders>>

\* No reply within 30 s.
SendTimeout(c) ==
    /\ At(c, "send") /\ Answers(cli[c].st) /\ May("busy")
    /\ Goto(c, "done")
    /\ UNCHANGED <<daemon, old, state, holders>>

\* Refused or reset; a live daemon may have executed the command.
SendLost(c) ==
    /\ At(c, "send")
    /\ Unanswered(cli[c].st)
    /\ Goto(c, "lost")
    /\ UNCHANGED <<daemon, old, state, holders>>

\* The state file again: is that daemon alive?  A second loss gives up.
Retry(c, step) ==
    IF cli[c].retries = 1 THEN Goto(c, "done")
    ELSE cli' = [cli EXCEPT ![c].pc = step, ![c].retries = 1]

Lost(c) ==
    /\ At(c, "lost")
    /\ ReadState(c, "lostProbe")
    /\ UNCHANGED <<daemon, old, state, holders>>

RetrySame(c) ==
    /\ At(c, "lostProbe") /\ cli[c].alive /\ Answers(cli[c].st)
    /\ Retry(c, "send")
    /\ UNCHANGED <<daemon, old, state, holders>>

\* Busy, or to be replaced.  The restart does not take the lock.
Restart(c) ==
    /\ At(c, "lostProbe") /\ Unanswered(cli[c].st)
    /\ IF ~cli[c].alive /\ c \in Stopping
       THEN Goto(c, "done") /\ state' = NoDaemon
       ELSE /\ IF MayReplace(c) THEN Retry(c, "kill") ELSE Goto(c, "done")
            /\ UNCHANGED state
    /\ UNCHANGED <<daemon, old, holders>>

-----------------------------------------------------------------------------
(* stop: the stale state file goes.                                        *)

StopClean(c) ==
    /\ At(c, "stopClean")
    /\ state' = NoDaemon
    /\ Goto(c, "done")
    /\ UNCHANGED <<daemon, old, holders>>

-----------------------------------------------------------------------------
(* Daemons.                                                                *)

Publish(d) ==
    /\ daemon[d] = "starting"
    /\ daemon' = [daemon EXCEPT ![d] = "up"]
    /\ state' = d
    /\ UNCHANGED <<old, holders, cli>>

\* Idle timeout, SIGINT, SIGHUP, a closed window.
BeginShutdown(d) ==
    /\ May("die")
    /\ daemon[d] = "up"
    /\ daemon' = [daemon EXCEPT ![d] = "closing"]
    /\ UNCHANGED <<old, state, holders, cli>>

\* The end of shutdown removes the state file, whoever it names.
Exit(d) ==
    /\ daemon[d] = "closing"
    /\ daemon' = [daemon EXCEPT ![d] = "dead"]
    /\ state' = NoDaemon
    /\ UNCHANGED <<old, holders, cli>>

\* Chromium crashed, SIGKILL, or a start that failed: the state file stays.
\* An uncaught exception: emergencyCleanup removes it.
Crash(d) ==
    /\ May("die")
    /\ Alive(d)
    /\ daemon' = [daemon EXCEPT ![d] = "dead"]
    /\ UNCHANGED state \/ state' = NoDaemon
    /\ UNCHANGED <<old, holders, cli>>

\* A new binary is installed: daemons that are up have the old hash.
Upgrade ==
    /\ May("upgrade") /\ old = {}
    /\ old' = {d \in Daemon : daemon[d] \in {"up", "closing"}}
    /\ UNCHANGED <<daemon, state, holders, cli>>

\* An invocation is killed.  The lockfile of a dead process counts for nothing.
Interrupt(c) ==
    /\ May("interrupt") /\ ~At(c, "done")
    /\ ReturnFrom(c, "done")
    /\ UNCHANGED <<daemon, old, state>>

Step(c) ==
    \/ Begin(c) \/ ProbeHealthy(c) \/ ProbeFailed(c) \/ AcquireLock(c) \/ Wait(c)
    \/ Reread(c) \/ Kill(c) \/ Killed(c) \/ Reap(c) \/ Spawn(c) \/ Poll(c)
    \/ PollHealthy(c) \/ PollAgain(c) \/ SendOk(c) \/ SendTimeout(c) \/ SendLost(c)
    \/ Lost(c) \/ RetrySame(c) \/ Restart(c) \/ StopClean(c)

Timeout(c) == WaitTimeout(c) \/ PollTimeout(c)

Live(d) == Publish(d) \/ BeginShutdown(d) \/ Exit(d) \/ Crash(d)

LifeNext ==
    /\ \/ \E c \in Invocation : Step(c) \/ Timeout(c) \/ Interrupt(c)
       \/ \E d \in Daemon : Live(d)
       \/ Upgrade
    /\ UNCHANGED scenario

LifeSpec == LifeInit /\ [][LifeNext]_lifeVars

\* A CLI runs, its deadlines pass even while it polls, a daemon that starts
\* comes up or dies, a shutdown ends.
LifeFairSpec ==
    /\ LifeSpec
    /\ \A c \in Invocation : /\ WF_lifeVars(Step(c) /\ UNCHANGED scenario)
                             /\ SF_lifeVars(Timeout(c) /\ UNCHANGED scenario)
    /\ \A d \in Daemon : WF_lifeVars((Publish(d) \/ Exit(d)) /\ UNCHANGED scenario)

-----------------------------------------------------------------------------
(* Properties.                                                             *)

LifeTypeOK ==
    /\ scenario \in Scenario
    /\ daemon \in [Daemon -> {"none", "starting", "up", "closing", "dead"}]
    /\ old \subseteq Daemon
    /\ state \in Daemon \cup {NoDaemon}
    /\ holders \subseteq Invocation
    /\ cli \in [Invocation -> CliState]

\* However stale the state that an invocation captured, it signals no live
\* daemon unless it was to force that or an update has left the daemon with
\* another binary.  The update is an exception to "The ONLY path that kills a
\* live daemon is the user explicitly passing --force-restart" (cli.ts:372-375)
\* that the code makes (cli.ts:706-712); the Chromium that startServer reaps
\* (Reap) is not signalled by its daemon's pid and not meant here.
KillOnlyByForce ==
    \A c \in Invocation :
        cli[c].pc \in {"kill", "stopKill"} /\ Alive(cli[c].st) =>
            c \in Forcing \/ cli[c].st \in old

\* One daemon per project: two invocations do not both start one while nothing
\* else goes wrong (CHANGELOG.md:9482, "An exclusive lockfile prevents two CLI
\* invocations from both killing the old server and starting new ones").
OneDaemon ==
    scenario.faults = {} /\ Forcing = {} =>
        Cardinality({d \in Daemon : daemon[d] \in {"starting", "up"}}) <= 1

\* A daemon that is up can be found: once an invocation that met no other is
\* over, the state file names it, whatever went wrong around the invocation
\* (ARCHITECTURE.md:94, "The CLI reads this file to find the server").
Reachable ==
    Cardinality(scenario.runs) = 1 /\ (\A c \in Invocation : At(c, "done")) =>
        \A d \in Daemon : daemon[d] = "up" => state = d

\* Every invocation ends, with a reply or an error.
InvocationEnds == <>(\A c \in Invocation : At(c, "done"))
=============================================================================
