---------------------------- MODULE DesignClient ----------------------------
(* `$D compare --serve` and the design daemon (design/src/daemon-client.ts,  *)
(* daemon-state.ts, daemon.ts): the state file, the lock, attaching,         *)
(* upgrading and starting, with the boards of a daemon reduced to whether    *)
(* one of them is not done.  DesignBoards has the boards themselves.         *)
(***************************************************************************)
EXTENDS Integers, FiniteSets, Sequences

CONSTANTS
    User,         \* invocations of the command
    Version,      \* versions of gstack they may be of
    MaxStarted,   \* bound on the daemons started
    Trouble       \* what may go wrong: crash, late, kill

NoUser == "nobody"
ASSUME ClientAssumption ==
    /\ NoUser \notin User
    /\ Version # {} /\ MaxStarted \in Nat /\ Trouble \subseteq {"crash", "late", "kill"}

VARIABLES
    daemon,      \* the daemons by pid: how far in life, version, boards not done
    stateFile,   \* the pid in design.json
    lockHolder,  \* the invocation that created the design.json.lock that exists
    lockNamed,   \* its pid is in that file
    user,        \* the invocations
    trouble      \* history: what went wrong so far; "stolen": the lock of a
                 \* live invocation was unlinked by another

lockVars == <<lockHolder, lockNamed>>
clientVars == <<daemon, stateFile, lockHolder, lockNamed, user, trouble>>

NoPid == 0
Pid == DOMAIN daemon

ClientInit ==
    /\ daemon = <<>> /\ stateFile = NoPid /\ lockHolder = NoUser /\ lockNamed = FALSE
    /\ user \in [User -> [pc : {"new"}, version : Version, pid : {NoPid}]]
    /\ trouble = {}

\* /health and every other route are answered.
Serves(d) == d # NoPid /\ daemon[d].life \in {"up", "armed"}
Alive(d) == d # NoPid /\ daemon[d].life # "dead"

\* The pid of a daemon is kept by the steps that need it.
GoWith(u, to, d) == user' = [user EXCEPT ![u].pc = to, ![u].pid = d]
Go(u, to) ==
    GoWith(u, to, IF to \in {"shutdown", "kill", "awaitDeath", "attached"} THEN user[u].pid
                  ELSE NoPid)

UserAt(u, step) == user[u].pc = step
\* Something goes wrong: a daemon crashes, is late, or an invocation is killed.
Meets(t) == t \in Trouble /\ trouble' = trouble \cup {t}

-----------------------------------------------------------------------------
(* ensureDaemon, up to the lock.                                            *)

\* The health check of d, as far as it decides what u does next.
Judged(u, d) ==
    CASE daemon[d].version = user[u].version -> "attached"
      [] daemon[d].version # user[u].version /\ daemon[d].active -> "refused"
      [] OTHER -> "shutdown"

ReadState(u) ==
    /\ UserAt(u, "new")
    /\ IF stateFile = NoPid THEN GoWith(u, "lock", NoPid) ELSE GoWith(u, "probe", stateFile)
    /\ UNCHANGED <<daemon, stateFile, lockVars, trouble>>

\* healthCheck, answered or in vain.
Probe(u) ==
    LET d == user[u].pid IN
    /\ UserAt(u, "probe")
    /\ Go(u, IF Serves(d) THEN Judged(u, d) ELSE "kill")
    /\ UNCHANGED <<daemon, stateFile, lockVars, trouble>>

\* A daemon that is busy for more than two seconds is taken for dead.
ProbeTimesOut(u) ==
    /\ UserAt(u, "probe") /\ Serves(user[u].pid) /\ Meets("late")
    /\ Go(u, "kill")
    /\ UNCHANGED <<daemon, stateFile, lockVars>>

\* gracefulShutdownExistingDaemon: the answer, a refusal too, is not looked at.
PostShutdown(u) ==
    LET d == user[u].pid IN
    /\ UserAt(u, "shutdown")
    /\ daemon' = IF daemon[d].life = "up" /\ ~daemon[d].active
                   THEN [daemon EXCEPT ![d].life = "armed"] ELSE daemon
    /\ Go(u, "kill")
    /\ UNCHANGED <<stateFile, lockVars, trouble>>

\* gracefulShutdown: the server stops and the state file goes, whoever it names.
Stops(d) ==
    /\ daemon' = [daemon EXCEPT ![d].life = "closing"]
    /\ stateFile' = NoPid

\* killByPidWithIdentity sends SIGTERM.
KillDaemon(u) ==
    LET d == user[u].pid IN
    /\ UserAt(u, "kill")
    /\ IF Serves(d) THEN Stops(d) ELSE UNCHANGED <<daemon, stateFile>>
    /\ Go(u, IF Alive(d) THEN "awaitDeath" ELSE "lock")
    /\ UNCHANGED <<lockVars, trouble>>

\* It waits for the process to end, or ends it after two seconds.
AwaitDeath(u) ==
    LET d == user[u].pid IN
    /\ UserAt(u, "awaitDeath")
    /\ \/ daemon[d].life = "dead" /\ UNCHANGED <<daemon, trouble>>
       \/ Alive(d) /\ Meets("late") /\ daemon' = [daemon EXCEPT ![d].life = "dead"]
    /\ Go(u, "lock")
    /\ UNCHANGED <<stateFile, lockVars>>

-----------------------------------------------------------------------------
(* acquireLock one system call at a time, and what is done under the lock.  *)

\* openSync with 'wx' creates the file or fails.
Lock(u) ==
    /\ UserAt(u, "lock")
    /\ IF lockHolder = NoUser
         THEN lockHolder' = u /\ lockNamed' = FALSE /\ Go(u, "name")
         ELSE UNCHANGED lockVars /\ Go(u, "look")
    /\ UNCHANGED <<daemon, stateFile, trouble>>

\* writeSync: into the file that u created, if the name still leads there or not.
NameLock(u) ==
    /\ UserAt(u, "name")
    /\ lockNamed' = (lockNamed \/ lockHolder = u)
    /\ Go(u, "reread")
    /\ UNCHANGED <<daemon, stateFile, lockHolder, trouble>>

\* readFileSync and isProcessAlive: a file without a pid counts as stale.
ReadLock(u) ==
    /\ UserAt(u, "look")
    /\ Go(u, IF lockHolder # NoUser /\ (lockNamed => UserAt(lockHolder, "killed"))
               THEN "unlink" ELSE "wait")
    /\ UNCHANGED <<daemon, stateFile, lockVars, trouble>>

\* Whichever file has the name goes, in reclaiming and in releasing.
Unlinks(u) == lockHolder' = NoUser /\ lockNamed' = FALSE
StolenBy(u) ==
    IF lockHolder \in {u, NoUser} \/ UserAt(lockHolder, "killed") THEN {} ELSE {"stolen"}

\* unlinkSync and once more, or ENOENT.
UnlinkLock(u) ==
    /\ UserAt(u, "unlink")
    /\ Unlinks(u) /\ trouble' = trouble \cup StolenBy(u)
    /\ Go(u, IF lockHolder = NoUser THEN "wait" ELSE "lock")
    /\ UNCHANGED <<daemon, stateFile>>

\* Another invocation starts a daemon: any that answers will do.
WaitEnds(u) ==
    /\ UserAt(u, "wait") /\ Serves(stateFile)
    /\ GoWith(u, "attached", stateFile)
    /\ UNCHANGED <<daemon, stateFile, lockVars, trouble>>

\* MAX_START_WAIT_MS pass.
WaitTimesOut(u) ==
    /\ UserAt(u, "wait")
    /\ Go(u, "failed")
    /\ UNCHANGED <<daemon, stateFile, lockVars, trouble>>

\* The state file once more: attached to only if it is of the right version.
Attaches_never(u, d) == FALSE
Attaches(u, d) == Serves(d) /\ daemon[d].version = user[u].version

Reread(u) ==
    /\ UserAt(u, "reread")
    /\ IF Attaches(u, stateFile)
         THEN /\ Unlinks(u) /\ trouble' = trouble \cup StolenBy(u)
              /\ GoWith(u, "attached", stateFile)
         ELSE Go(u, "spawn") /\ UNCHANGED <<lockVars, trouble>>
    /\ UNCHANGED <<daemon, stateFile>>

\* spawnDaemon.
Spawn(u) ==
    /\ UserAt(u, "spawn") /\ Cardinality(Pid) < MaxStarted
    /\ daemon' = Append(daemon, [life |-> "starting", version |-> user[u].version, active |-> FALSE])
    /\ Go(u, "poll")
    /\ UNCHANGED <<stateFile, lockVars, trouble>>

\* Whichever daemon the state file names is attached to once it answers.
Started(u) ==
    /\ UserAt(u, "poll") /\ Serves(stateFile)
    /\ Unlinks(u) /\ trouble' = trouble \cup StolenBy(u)
    /\ GoWith(u, "attached", stateFile)
    /\ UNCHANGED <<daemon, stateFile>>

\* The daemon is late, or was ended before it was seen.
StartTimesOut(u) ==
    /\ UserAt(u, "poll")
    /\ \E late \in SUBSET (Trouble \cap {"late"}) :
          /\ late # {} <=> \E d \in Pid : daemon[d].life = "starting" \/ Serves(d)
          /\ Unlinks(u) /\ trouble' = trouble \cup late \cup StolenBy(u)
    /\ Go(u, "failed")
    /\ UNCHANGED <<daemon, stateFile>>

\* publishBoard.
PublishBoard(u) ==
    LET d == user[u].pid IN
    /\ UserAt(u, "attached")
    /\ daemon' = IF Serves(d) THEN [daemon EXCEPT ![d].active = TRUE] ELSE daemon
    /\ Go(u, IF Serves(d) THEN "published" ELSE "failed")
    /\ UNCHANGED <<stateFile, lockVars, trouble>>

\* The invocation is killed.
Killed(u) ==
    /\ user[u].pc \notin {"new", "refused", "failed", "published", "killed"} /\ Meets("kill")
    /\ Go(u, "killed")
    /\ UNCHANGED <<daemon, stateFile, lockVars>>

-----------------------------------------------------------------------------
(* The daemons.                                                             *)

\* start() listens, then writes the state file.
Up(d) ==
    /\ daemon[d].life = "starting"
    /\ daemon' = [daemon EXCEPT ![d].life = "up"]
    /\ stateFile' = d
    /\ UNCHANGED <<lockVars, user, trouble>>

\* The timer that /shutdown armed.
Disarm(d) ==
    /\ daemon[d].life = "armed"
    /\ Stops(d)
    /\ UNCHANGED <<lockVars, user, trouble>>

\* Nobody uses it and its boards are done.
Expire(d) ==
    /\ daemon[d].life = "up" /\ ~daemon[d].active
    /\ Stops(d)
    /\ UNCHANGED <<lockVars, user, trouble>>

ExitDaemon(d) ==
    /\ daemon[d].life = "closing"
    /\ daemon' = [daemon EXCEPT ![d].life = "dead"]
    /\ UNCHANGED <<stateFile, lockVars, user, trouble>>

Crash(d) ==
    /\ Alive(d) /\ Meets("crash")
    /\ daemon' = [daemon EXCEPT ![d].life = "dead"]
    /\ UNCHANGED <<stateFile, lockVars, user>>

\* The boards are submitted.
Submit(d) ==
    /\ Serves(d) /\ daemon[d].active
    /\ daemon' = [daemon EXCEPT ![d].active = FALSE]
    /\ UNCHANGED <<stateFile, lockVars, user, trouble>>

ClientNext ==
    \/ \E u \in User :
          \/ ReadState(u) \/ Probe(u) \/ ProbeTimesOut(u) \/ PostShutdown(u) \/ KillDaemon(u)
          \/ AwaitDeath(u) \/ Lock(u) \/ NameLock(u) \/ ReadLock(u) \/ UnlinkLock(u)
          \/ WaitEnds(u) \/ WaitTimesOut(u) \/ Reread(u) \/ Spawn(u) \/ Started(u) \/ StartTimesOut(u) \/ PublishBoard(u) \/ Killed(u)
    \/ \E d \in Pid : Up(d) \/ Disarm(d) \/ Expire(d) \/ ExitDaemon(d) \/ Crash(d) \/ Submit(d)

ClientSpec == ClientInit /\ [][ClientNext]_clientVars

-----------------------------------------------------------------------------
ClientTypeOK ==
    /\ daemon \in Seq([life : {"starting", "up", "armed", "closing", "dead"},
                       version : Version, active : BOOLEAN])
    /\ Len(daemon) <= MaxStarted /\ stateFile \in Pid \cup {NoPid}
    /\ lockHolder \in User \cup {NoUser} /\ lockNamed \in BOOLEAN
    /\ trouble \subseteq Trouble \cup {"stolen"}
    /\ user \in [User -> [pc : {"new", "probe", "refused", "shutdown", "kill", "awaitDeath",
                               "lock", "name", "look", "unlink", "wait", "reread", "spawn", "poll", "attached",
                               "published", "failed", "killed"},
                         version : Version, pid : Pid \cup {NoPid}]]

OneVersion == \A u, v \in User : user[u].version = user[v].version

(* Invocations of one version leave one daemon, which the state file names, *)
(* though daemons crash: the lock, and the second look at the state file    *)
(* under it (daemon-client.ts:146-158).  Exceptions are a daemon that is    *)
(* late, an invocation that is killed, and a lock that was unlinked while   *)
(* its holder lived: one without its pid yet counts as stale, and one that  *)
(* was read as stale may be another's by then (daemon-state.ts:198-215).    *)
OneDesignDaemon ==
    OneVersion /\ trouble \subseteq {"crash"} =>
        /\ Cardinality({d \in Pid : daemon[d].life = "starting" \/ Serves(d)}) <= 1
        /\ \A d \in Pid : daemon[d].life = "up" => stateFile = d

(* "Refuse-to-kill on version mismatch with active boards ... in-memory     *)
(* boards would be lost" (daemon-client.ts:20-22): no invocation of another *)
(* version ends a daemon that has a board that is not done.                 *)
ActiveBoardsSurvive ==
    [][\A u \in User, d \in Pid :
          UserAt(u, "kill") /\ user'[u].pc # "kill" /\ user[u].pid = d /\ trouble = {}
          /\ Serves(d) /\ daemon'[d].life = "closing"
          => ~daemon[d].active]_clientVars
=============================================================================
