----------------------------- MODULE IosDaemon -----------------------------
(* The iOS QA daemon's way to the app (ios-qa/daemon/src/index.ts,           *)
(* tunnel-bootstrap.ts, proxy.ts): the cached tunnel, its one bootstrap at a *)
(* time, the recovery of a request that failed, and the tokens of the app's  *)
(* StateServer.  The bearer of an instance of the app is named by that       *)
(* instance: its boot token is good for one rotation.                        *)
(***************************************************************************)
EXTENDS Integers, FiniteSets

CONSTANTS
    Inbound,     \* requests to the daemon
    ReadOnly,    \* those that are GET, HEAD or OPTIONS
    MaxMishap    \* bound on what goes wrong outside the daemon

ASSUME IosAssumption == ReadOnly \subseteq Inbound /\ MaxMishap \in Nat

VARIABLES
    app,         \* the app: the number of its instance, whether it runs and was rotated
    bootFile,    \* the instance whose boot token is in the app's container
    tunnel,      \* the cached tunnel: the instance whose bearer it carries
    bootstrap,   \* tunnelInFlight
    inbound,     \* the handlers of the requests
    mishaps,     \* history: what went wrong outside the daemon
    relaunches   \* history: apps terminated by relaunchApp

iosVars == <<app, bootFile, tunnel, bootstrap, inbound, mishaps, relaunches>>

None == 0
NoBootstrap == [pc |-> "none", token |-> None, since |-> 0]
Fresh == [pc |-> "new", attempt |-> 1, via |-> None, to |-> 0, answer |-> "none",
          safe |-> TRUE, dispatched |-> 0, sound |-> FALSE, born |-> 0]

IosInit ==
    /\ app \in {[up |-> FALSE, instance |-> 0, rotated |-> FALSE],
                [up |-> TRUE, instance |-> 1, rotated |-> FALSE]}
    /\ bootFile = app.instance
    /\ tunnel = None /\ bootstrap = NoBootstrap
    /\ inbound = [r \in Inbound |-> Fresh]
    /\ mishaps = 0 /\ relaunches = 0

-----------------------------------------------------------------------------
(* The app.  start() writes the boot token of the new instance.             *)

Starts ==
    /\ app' = [up |-> TRUE, instance |-> app.instance + 1, rotated |-> FALSE]
    /\ bootFile' = app.instance + 1

\* What authorize() accepts.
Accepts(t) == app.up /\ app.rotated /\ app.instance = t

\* The instance that a connection reached is gone.
Gone(n) == ~app.up \/ app.instance # n

-----------------------------------------------------------------------------
(* getTunnel and proxyWithTunnelRecovery.                                   *)

\* The handler sends its request over t.
Attempt(q, t, n) ==
    [pc |-> "sent", attempt |-> n, via |-> t, to |-> app.instance, answer |-> "none",
     safe |-> TRUE, dispatched |-> q.dispatched, sound |-> q.sound, born |-> q.born]

Done(q, how) ==
    [pc |-> "done", attempt |-> 1, via |-> None, to |-> 0, answer |-> how,
     safe |-> TRUE, dispatched |-> q.dispatched, sound |-> q.sound, born |-> q.born]

\* The handler goes on with what getTunnel resolved to.
Resumed(q, t) ==
    IF q.attempt = 1 /\ q.via = None
      THEN IF t = None THEN Done(q, "failed") ELSE Attempt(q, t, 1)
      ELSE IF t = None \/ ~q.safe THEN Done(q, "failed") ELSE Attempt(q, t, 2)

\* getTunnel for r, whose cache holds t and whose handler is at q: the cached
\* tunnel at once, or that of the one bootstrap under way.
getTunnel(r, q, t) ==
    /\ tunnel' = t
    /\ inbound' = [inbound EXCEPT ![r] =
                     IF t # None THEN Resumed(q, t) ELSE [q EXCEPT !.pc = "waiting"]]
    /\ bootstrap' = IF t # None \/ bootstrap.pc # "none" THEN bootstrap
                    ELSE [pc |-> "launch", token |-> None, since |-> mishaps]

\* The cache after invalidateTunnel(failed).
invalidateTunnel_any(failed) == None
invalidateTunnel(failed) == IF tunnel = failed THEN None ELSE tunnel

shouldRefreshTunnel_lost(answer) == answer = "lost"
shouldRefreshTunnel(answer) == answer \in {"unauthorized", "lost"}

canReplayAfterRefresh_always(r, answer) == TRUE
canReplayAfterRefresh(r, answer) == answer = "unauthorized" \/ r \in ReadOnly

Asked(r) ==
    /\ inbound[r].pc = "new"
    /\ getTunnel(r, [inbound[r] EXCEPT !.born = mishaps,
                        !.sound = bootstrap.pc = "none" \/ bootstrap.since = mishaps], tunnel)
    /\ UNCHANGED <<app, bootFile, mishaps, relaunches>>

\* The app takes the request, and dispatches it if its bearer is the app's.
Delivered(q) ==
    LET ok == Accepts(q.via) IN
    [pc |-> "answered", attempt |-> q.attempt, via |-> q.via, to |-> app.instance,
     answer |-> IF ok THEN "ok" ELSE "unauthorized", safe |-> q.safe,
     dispatched |-> q.dispatched + (IF ok THEN 1 ELSE 0), sound |-> q.sound, born |-> q.born]

Arrives(r) ==
    /\ inbound[r].pc = "sent" /\ app.up
    /\ inbound' = [inbound EXCEPT ![r] = Delivered(@)]
    /\ UNCHANGED <<app, bootFile, tunnel, bootstrap, mishaps, relaunches>>

\* The connection is refused, or reset with the instance at its other end.
Reset(r) ==
    /\ inbound[r].pc \in {"sent", "answered"} /\ inbound[r].answer # "lost"
    /\ Gone(inbound[r].to)
    /\ inbound' = [inbound EXCEPT ![r].pc = "answered", ![r].answer = "lost"]
    /\ UNCHANGED <<app, bootFile, tunnel, bootstrap, mishaps, relaunches>>

\* What came of an attempt: an answer of the app, or a fault of the tunnel.
Answered(r) ==
    LET q == inbound[r] IN
    /\ q.pc = "answered"
    /\ \/ /\ ~shouldRefreshTunnel(q.answer)
          /\ inbound' = [inbound EXCEPT ![r] = Done(q, q.answer)]
          /\ UNCHANGED <<tunnel, bootstrap>>
       \/ /\ shouldRefreshTunnel(q.answer) /\ q.attempt = 1
          /\ getTunnel(r, [q EXCEPT !.safe = canReplayAfterRefresh(r, q.answer)],
                       invalidateTunnel(q.via))
       \/ /\ shouldRefreshTunnel(q.answer) /\ q.attempt = 2
          /\ tunnel' = invalidateTunnel(q.via)
          /\ inbound' = [inbound EXCEPT ![r] = Done(q, "failed")]
          /\ UNCHANGED bootstrap
    /\ UNCHANGED <<app, bootFile, mishaps, relaunches>>

-----------------------------------------------------------------------------
(* bootstrapTunnel.  Its calls of devicectl block the daemon.               *)

\* The bootstrap is over with t, for all that wait for it.
Over(t) ==
    /\ tunnel' = IF t = None THEN tunnel ELSE t
    /\ bootstrap' = NoBootstrap
    /\ inbound' = [r \in Inbound |->
                     IF inbound[r].pc = "waiting" THEN Resumed(inbound[r], t) ELSE inbound[r]]

\* isAppRunning and launchApp.
Launch ==
    /\ bootstrap.pc = "launch"
    /\ IF app.up THEN UNCHANGED <<app, bootFile>> ELSE Starts
    /\ bootstrap' = [bootstrap EXCEPT !.pc = "read"]
    /\ UNCHANGED <<tunnel, inbound, mishaps, relaunches>>

\* The StateServer answers, and the boot token is read if it is there.
ReadBootToken ==
    /\ bootstrap.pc = "read" /\ app.up
    /\ bootstrap' = IF bootFile = None THEN [bootstrap EXCEPT !.pc = "relaunch"]
                    ELSE [bootstrap EXCEPT !.pc = "rotate", !.token = bootFile]
    /\ UNCHANGED <<app, bootFile, tunnel, inbound, mishaps, relaunches>>

relaunchApp ==
    /\ bootstrap.pc = "relaunch"
    /\ Starts
    /\ relaunches' = relaunches + (IF app.up THEN 1 ELSE 0)
    /\ bootstrap' = [bootstrap EXCEPT !.pc = "reread"]
    /\ UNCHANGED <<tunnel, inbound, mishaps>>

ReadAgain ==
    /\ bootstrap.pc = "reread" /\ app.up /\ bootFile # None
    /\ bootstrap' = [bootstrap EXCEPT !.pc = "rotate", !.token = bootFile]
    /\ UNCHANGED <<app, bootFile, tunnel, inbound, mishaps, relaunches>>

\* The app does not answer in time.
Unreachable ==
    /\ bootstrap.pc \in {"read", "reread", "rotate"} /\ ~app.up
    /\ Over(None)
    /\ UNCHANGED <<app, bootFile, mishaps, relaunches>>

\* handleAuthRotate.
Rotate ==
    /\ bootstrap.pc = "rotate" /\ app.up
    /\ \/ /\ app.instance = bootstrap.token /\ ~app.rotated
          /\ app' = [app EXCEPT !.rotated = TRUE]
          /\ bootFile' = None
          /\ bootstrap' = [bootstrap EXCEPT !.pc = "rotated"]
          /\ UNCHANGED <<tunnel, inbound>>
       \/ /\ app.instance # bootstrap.token \/ app.rotated
          /\ Over(None)
          /\ UNCHANGED <<app, bootFile>>
    /\ UNCHANGED <<mishaps, relaunches>>

Rotated ==
    /\ bootstrap.pc = "rotated"
    /\ Over(bootstrap.token)
    /\ UNCHANGED <<app, bootFile, mishaps, relaunches>>

-----------------------------------------------------------------------------
(* What goes wrong outside the daemon.                                      *)

Mishap == mishaps < MaxMishap /\ mishaps' = mishaps + 1 /\ relaunches' = relaunches

\* The app crashes, or is closed.
AppExits ==
    /\ Mishap /\ app.up
    /\ app' = [app EXCEPT !.up = FALSE]
    /\ UNCHANGED <<bootFile, tunnel, bootstrap, inbound>>

\* The app is started again by hand or by a new build.
AppRestarts ==
    /\ Mishap /\ Starts
    /\ UNCHANGED <<tunnel, bootstrap, inbound>>

\* The answer to a request is lost, though the app lives.
AnswerLost(r) ==
    /\ Mishap /\ inbound[r].pc = "answered" /\ inbound[r].answer # "lost"
    /\ inbound' = [inbound EXCEPT ![r].answer = "lost"]
    /\ UNCHANGED <<app, bootFile, tunnel, bootstrap>>

\* The bootstrap fails: the phone is locked or away, a name does not resolve,
\* the answer to the rotation is lost.
BootstrapFails ==
    /\ Mishap /\ bootstrap.pc # "none"
    /\ Over(None)
    /\ UNCHANGED <<app, bootFile>>

\* The daemon is killed, and another one started.
DaemonRestarts ==
    /\ Mishap
    /\ tunnel' = None /\ bootstrap' = NoBootstrap
    /\ inbound' = [r \in Inbound |-> IF inbound[r].pc \in {"new", "done"} THEN inbound[r]
                                     ELSE Done(inbound[r], "failed")]
    /\ UNCHANGED <<app, bootFile>>

IosNext ==
    \/ \E r \in Inbound : Asked(r) \/ Arrives(r) \/ Reset(r) \/ Answered(r) \/ AnswerLost(r)
    \/ Launch \/ ReadBootToken \/ relaunchApp \/ ReadAgain \/ Unreachable \/ Rotate \/ Rotated
    \/ AppExits \/ AppRestarts \/ BootstrapFails \/ DaemonRestarts

IosSpec == IosInit /\ [][IosNext]_iosVars

-----------------------------------------------------------------------------
IosTypeOK ==
    /\ app \in [up : BOOLEAN, instance : Nat, rotated : BOOLEAN]
    /\ {bootFile, tunnel} \subseteq 0..app.instance
    /\ bootstrap \in [pc : {"none", "launch", "read", "relaunch", "reread", "rotate", "rotated"},
                      token : 0..app.instance, since : 0..mishaps]
    /\ inbound \in [Inbound -> [pc : {"new", "waiting", "sent", "answered", "done"},
                                attempt : 1..2, via : 0..app.instance, to : 0..app.instance,
                                answer : {"none", "ok", "unauthorized", "lost", "failed"},
                                safe : BOOLEAN, dispatched : Nat, sound : BOOLEAN,
                                born : 0..mishaps]]
    /\ mishaps \in 0..MaxMishap /\ relaunches \in Nat

(* "Never replay an ambiguous mutation whose response was lost: doing so    *)
(* could double-tap" (index.ts:299-301): the app dispatches a request that  *)
(* is not read-only at most once, whatever is lost or restarted.            *)
DispatchedOnce == \A r \in Inbound \ ReadOnly : inbound[r].dispatched <= 1

(* The app, and the state under test with it, is terminated at most once    *)
(* for each thing that went wrong: neither requests that fail together nor  *)
(* late failures over an old tunnel start another recovery ("a late         *)
(* response from the old app must not evict a tunnel that another request   *)
(* has already refreshed", index.ts:91-93).                                *)
OneRelaunchPerMishap == relaunches <= mishaps

(* A read that came after the last mishap is answered by the app, however   *)
(* stale the cached tunnel, unless it joined a bootstrap that the mishap    *)
(* had met.                                                                 *)
ReadsRecover ==
    \A r \in ReadOnly :
        /\ inbound[r].pc = "done" /\ inbound[r].sound /\ inbound[r].born = mishaps
        => inbound[r].answer = "ok"
=============================================================================
