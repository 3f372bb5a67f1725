------------------------------- MODULE MCStart -------------------------------
(***************************************************************************)
(* How an invocation of the CLI gets its daemon, at two grains: the start  *)
(* lock one system call at a time, and the invocations, the daemons and    *)
(* the state file over a lock that is whole or broken.  A behaviour is one *)
(* of one of the two.                                                      *)
(***************************************************************************)
EXTENDS ServerLock, DaemonLifecycle

VARIABLE part   \* the grain of this behaviour

-----------------------------------------------------------------------------
\* Three plain commands, and nothing else goes wrong.
Calm == [runs |-> {"c1", "c2", "c3"}, forcing |-> {}, stopping |-> {}, faults |-> {}]

\* Two plain commands under a lock that two may have, with daemons that live on.
Broken == [runs |-> {"c1", "c2"}, forcing |-> {}, stopping |-> {},
           faults |-> Fault \ {"upgrade", "die"}]

\* A plain command, a plain stop and a forcing stop.
Unruly == [runs |-> {"c1", "c2", "c3"}, forcing |-> {"c3"}, stopping |-> {"c2", "c3"},
           faults |-> Fault \ {"upgrade", "lock"}]

\* One command, forcing or not, and everything but the lock may go wrong.
Sole == [runs : {{"c1"}}, forcing : {{}, {"c1"}}, stopping : {{}}, faults : {Fault \ {"lock"}}]

\* Two plain commands around an update, with daemons that leave probes unanswered.
Updated == [runs |-> {"c1", "c2"}, forcing |-> {}, stopping |-> {},
            faults |-> {"upgrade", "busy"}]

Played == {Calm, Broken, Unruly, Updated} \cup Sole

-----------------------------------------------------------------------------
startVars == <<part, vars, lifeVars>>

StartInit ==
    /\ part \in {"lock", "life"}
    /\ Init /\ LifeInit
    \* One initial state of the invocations is enough where they stand still.
    /\ part = "lock" => scenario = Calm /\ state = NoDaemon

StartNext ==
    /\ UNCHANGED part
    /\ \/ part = "lock" /\ Next /\ UNCHANGED lifeVars
       \/ part = "life" /\ LifeNext /\ UNCHANGED vars

\* The fairness is that of the two modules.
StartSpec ==
    /\ StartInit /\ [][StartNext]_startVars
    /\ \A p \in Cli : WF_vars(part = "lock" /\ Acquire(p))
    /\ \A c \in Invocation :
          /\ WF_lifeVars(part = "life" /\ Step(c) /\ UNCHANGED scenario)
          /\ SF_lifeVars(part = "life" /\ Timeout(c) /\ UNCHANGED scenario)
    /\ \A d \in Daemon :
          WF_lifeVars(part = "life" /\ (Publish(d) \/ Exit(d)) /\ UNCHANGED scenario)

-----------------------------------------------------------------------------
\* An acquisition ends, however others come and go (cli.ts:649).  Neither the
\* steps nor the fairness tell the processes apart: one stands for all of
\* AcquisitionEnds.
AnAcquisitionEnds == AcquisitionOf(CHOOSE p \in Cli : TRUE)

\* Every invocation ends, with a reply or an error (cli.ts:520-605, 820-921).
EveryInvocationEnds == part = "life" => InvocationEnds
=============================================================================
