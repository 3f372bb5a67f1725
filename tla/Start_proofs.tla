----------------------------- MODULE Start_proofs -----------------------------
(***************************************************************************)
(* How an invocation of the CLI gets its daemon, for any number of         *)
(* processes, invocations and daemons: what the lockfile gives, whom an    *)
(* invocation may kill, that one daemon runs and that it is found.         *)
(***************************************************************************)
EXTENDS ServerLock, DaemonLifecycle, FiniteSetTheorems, TLAPS

-----------------------------------------------------------------------------
(* The start lock, one system call at a time (ServerLock).                 *)

\* While no live process's lockfile has been removed under it, whoever holds
\* the lock is the creator of the file that exists.
HolderOwnsFile == ~broken => \A p \in Cli : Holds(p) => creator = p

IInv == TypeOK /\ NoLeftover /\ HolderOwnsFile

LEMMA InitIInv == Init => IInv
<1> SUFFICES ASSUME Init PROVE IInv
  OBVIOUS
<1>1. TypeOK
  <2>1. pc \in [Cli -> PC]
    BY DEF Init, PC
  <2>2. depth \in [Cli -> 0..DepthCap]
    BY DepthAssumption DEF Init
  <2> QED
    BY <2>1, <2>2 DEF Init, TypeOK
<1>2. NoLeftover /\ HolderOwnsFile
  BY DEF Init, NoLeftover, HolderOwnsFile, Holds
<1> QED
  BY <1>1, <1>2 DEF IInv

\* The shape of the state after each step: one case per system call.
LEMMA TypeStep == TypeOK /\ [Next]_vars => TypeOK'
<1> SUFFICES ASSUME TypeOK, [Next]_vars PROVE TypeOK'
  OBVIOUS
<1> USE NobodyAssumption, DepthAssumption DEF TypeOK, PC, Inside
<1>1. CASE UNCHANGED vars
  BY <1>1 DEF vars
<1>2. ASSUME NEW p \in Cli, Start(p) PROVE TypeOK'
  BY <1>2 DEF Start
<1>3. ASSUME NEW p \in Cli, Open(p) PROVE TypeOK'
  BY <1>3 DEF Open
<1>4. ASSUME NEW p \in Cli, Write(p) PROVE TypeOK'
  BY <1>4 DEF Write
<1>5. ASSUME NEW p \in Cli, Retried(p)
      PROVE  /\ pc' \in [Cli -> PC] /\ depth' \in [Cli -> 0..DepthCap]
  BY <1>5 DEF Retried
<1>6. ASSUME NEW p \in Cli, Read(p) PROVE TypeOK'
  BY <1>5, <1>6 DEF Read
<1>7. ASSUME NEW p \in Cli, Removed(p)
      PROVE  /\ creator' \in Cli \cup {Nobody} /\ named' \in BOOLEAN
             /\ broken' \in BOOLEAN
  BY <1>7 DEF Removed
<1>8. ASSUME NEW p \in Cli, Unlink(p) PROVE TypeOK'
  BY <1>5, <1>7, <1>8 DEF Unlink
<1>9. ASSUME NEW p \in Cli, Release(p) PROVE TypeOK'
  BY <1>7, <1>9 DEF Release
<1>10. ASSUME NEW p \in Cli, Leave(p) \/ Die(p) \/ Recycle(p) PROVE TypeOK'
  BY <1>10 DEF Leave, Die, Recycle
<1> QED
  BY <1>1, <1>2, <1>3, <1>4, <1>6, <1>8, <1>9, <1>10 DEF Next, Acquire

\* What a retry does to the process that makes it, and to the others.
LEMMA RetriedStep ==
    ASSUME TypeOK, NEW p \in Cli, Retried(p)
    PROVE  /\ pc'[p] \in {"open", "refused"}
           /\ \A q \in Cli : q # p => pc'[q] = pc[q]
BY DEF Retried, TypeOK

LEMMA LeftoverStep == TypeOK /\ NoLeftover /\ [Next]_vars => NoLeftover'
<1> SUFFICES ASSUME TypeOK, NoLeftover, [Next]_vars PROVE NoLeftover'
  OBVIOUS
<1> USE NobodyAssumption DEF TypeOK, NoLeftover, Holds
<1>1. CASE UNCHANGED vars
  BY <1>1 DEF vars
<1>2. ASSUME NEW p \in Cli, Start(p) PROVE NoLeftover'
  BY <1>2 DEF Start
<1>3. ASSUME NEW p \in Cli, Open(p) PROVE NoLeftover'
  BY <1>3 DEF Open
<1>4. ASSUME NEW p \in Cli, Write(p) PROVE NoLeftover'
  BY <1>4 DEF Write
<1>5. ASSUME NEW p \in Cli, Read(p) PROVE NoLeftover'
  <2>1. /\ pc[p] = "read" /\ UNCHANGED creator
        /\ \A q \in Cli : q # p => pc'[q] = pc[q]
    BY <1>5, RetriedStep DEF Read
  <2> QED
    BY <2>1
<1>6. ASSUME NEW p \in Cli, Unlink(p) \/ Release(p) PROVE NoLeftover'
  BY <1>6 DEF Unlink, Release, Removed
<1>7. ASSUME NEW p \in Cli, Leave(p) \/ Die(p) \/ Recycle(p) PROVE NoLeftover'
  BY <1>7 DEF Leave, Die, Recycle, Inside
<1> QED
  BY <1>1, <1>2, <1>3, <1>4, <1>5, <1>6, <1>7 DEF Next, Acquire

LEMMA OwnerStep == TypeOK /\ HolderOwnsFile /\ [Next]_vars => HolderOwnsFile'
<1> SUFFICES ASSUME TypeOK, HolderOwnsFile, [Next]_vars, ~broken'
             PROVE  \A q \in Cli : Holds(q)' => creator' = q
  BY DEF HolderOwnsFile
<1> USE NobodyAssumption DEF TypeOK, HolderOwnsFile, Holds
<1>1. CASE UNCHANGED vars
  BY <1>1 DEF vars
<1>2. ASSUME NEW p \in Cli, Start(p) PROVE \A q \in Cli : Holds(q)' => creator' = q
  BY <1>2 DEF Start
<1>3. ASSUME NEW p \in Cli, Open(p) PROVE \A q \in Cli : Holds(q)' => creator' = q
  \* The file was absent, so nobody held the lock.
  BY <1>3 DEF Open
<1>4. ASSUME NEW p \in Cli, Write(p) PROVE \A q \in Cli : Holds(q)' => creator' = q
  BY <1>4 DEF Write
<1>5. ASSUME NEW p \in Cli, Read(p) PROVE \A q \in Cli : Holds(q)' => creator' = q
  <2>1. /\ UNCHANGED <<creator, broken>> /\ pc'[p] \in {"open", "refused", "unlink"}
        /\ \A q \in Cli : q # p => pc'[q] = pc[q]
    BY <1>5, RetriedStep DEF Read
  <2> QED
    BY <2>1
<1>6. ASSUME NEW p \in Cli, Removed(p), NEW q \in Cli, q # p, Holds(q)
      PROVE  FALSE
  \* The file of a live holder would have been removed: that breaks the lock.
  BY <1>6 DEF Removed, isProcessAlive
<1>7. ASSUME NEW p \in Cli, Unlink(p) PROVE \A q \in Cli : Holds(q)' => creator' = q
  <2>1. /\ Removed(p) /\ pc'[p] \in {"open", "refused"}
        /\ \A q \in Cli : q # p => pc'[q] = pc[q]
    BY <1>7, RetriedStep DEF Unlink
  <2> QED
    BY <2>1, <1>6
<1>8. ASSUME NEW p \in Cli, Release(p) PROVE \A q \in Cli : Holds(q)' => creator' = q
  <2>1. /\ Removed(p) /\ pc'[p] = "out" /\ \A q \in Cli : q # p => pc'[q] = pc[q]
    BY <1>8 DEF Release
  <2> QED
    BY <2>1, <1>6
<1>9. ASSUME NEW p \in Cli, Leave(p) \/ Die(p) \/ Recycle(p)
      PROVE  \A q \in Cli : Holds(q)' => creator' = q
  BY <1>9 DEF Leave, Die, Recycle
<1> QED
  BY <1>1, <1>2, <1>3, <1>4, <1>5, <1>7, <1>8, <1>9 DEF Next, Acquire

LEMMA Invariance == Spec => []IInv
<1>1. IInv /\ [Next]_vars => IInv'
  BY TypeStep, LeftoverStep, OwnerStep DEF IInv
<1> QED
  BY InitIInv, <1>1, PTL DEF Spec

\* However many CLI processes open, unlink, release and die in whatever order,
\* a lockfile that exists is that of a process inside or killed inside
\* (cli.ts:637, 660-663).
THEOREM NoLockLeftBehind == Spec => []NoLeftover
BY Invariance, PTL DEF IInv

\* Two CLI processes hold the start lock only if a lockfile was removed while
\* its creator lived: the empty-file window and the blind unlink of
\* cli.ts:634-657 are the only ways to lose the exclusion.
THEOREM ExclusiveUnlessBroken == Spec => []ExclusionUnlessBroken
<1>1. IInv => ExclusionUnlessBroken
  BY DEF IInv, HolderOwnsFile, ExclusionUnlessBroken
<1> QED
  BY Invariance, <1>1, PTL

\* Each system call is a step of the abstract mutual exclusion or none.
LEMMA MutexStep == IInv /\ [Next]_vars => [M!Next]_<<{p \in Cli : Holds(p)}, broken>>
<1> DEFINE H == {p \in Cli : Holds(p)}
<1> SUFFICES ASSUME IInv, [Next]_vars
             PROVE  M!Next \/ UNCHANGED <<H, broken>>
  OBVIOUS
<1> USE DEF IInv, TypeOK, Holds
<1>1. CASE UNCHANGED vars
  BY <1>1 DEF vars
<1>2. ASSUME NEW p \in Cli,
             Start(p) \/ Write(p) \/ Leave(p) \/ Recycle(p)
      PROVE  UNCHANGED <<H, broken>>
  BY <1>2 DEF Start, Write, Leave, Recycle
<1>3. ASSUME NEW p \in Cli, Open(p) PROVE M!Enter(p) \/ UNCHANGED <<H, broken>>
  <2>1. CASE creator = Nobody
    <3>1. H' = H \cup {p} /\ p \notin H /\ UNCHANGED broken
      BY <1>3, <2>1 DEF Open
    <3>2. H = {} \/ broken
      BY <2>1, NobodyAssumption DEF HolderOwnsFile
    <3> QED
      BY <3>1, <3>2 DEF M!Enter
  <2>2. CASE creator # Nobody
    BY <1>3, <2>2 DEF Open
  <2> QED
    BY <2>1, <2>2
<1>4. ASSUME NEW p \in Cli, Read(p) PROVE UNCHANGED <<H, broken>>
  BY <1>4, RetriedStep DEF Read
<1>5. ASSUME NEW p \in Cli, Removed(p) PROVE broken' \in {broken, TRUE}
  BY <1>5 DEF Removed
<1>6. ASSUME NEW p \in Cli, Unlink(p) PROVE M!Break \/ UNCHANGED <<H, broken>>
  <2>1. pc[p] = "unlink" /\ pc'[p] \in {"open", "refused"} /\ \A q \in Cli : q # p => pc'[q] = pc[q]
    BY <1>6, RetriedStep DEF Unlink
  <2>2. H' = H
    BY <2>1
  <2> QED
    BY <2>2, <1>5, <1>6 DEF Unlink, M!Break
<1>7. ASSUME NEW p \in Cli, Release(p) \/ Die(p) PROVE M!Leave(p) \/ UNCHANGED <<H, broken>>
  <2>1. broken' \in {broken, TRUE}
    BY <1>5, <1>7 DEF Release, Die
  <2>2. CASE p \in H
    <3>1. H' = H \ {p}
      BY <1>7, <2>2 DEF Release, Die
    <3> QED
      BY <2>1, <2>2, <3>1 DEF M!Leave
  <2>3. CASE p \notin H
    BY <1>7, <2>3 DEF Release, Die
  <2> QED
    BY <2>2, <2>3
<1> QED
  BY <1>1, <1>2, <1>3, <1>4, <1>6, <1>7 DEF Next, Acquire, M!Next

\* The start lock implements the mutual exclusion that only the removal of a
\* live holder's file breaks, for any number of processes and any depth cap.
THEOREM LockImplementsMutex == Spec => ImplementsMutex
<1>1. Init => M!Init
  BY DEF Init, M!Init, Holds
<1> QED
  BY <1>1, MutexStep, Invariance, PTL DEF Spec, ImplementsMutex, M!Spec

-----------------------------------------------------------------------------
(* The invocations and the daemons (DaemonLifecycle).  First, what the     *)
(* steps write.                                                            *)

LifeStates == {"none", "starting", "up", "closing", "dead"}

\* Only the entry of c changes.
Only(c) ==
    cli' \in [Invocation -> CliState] /\ \A e \in Invocation \ {c} : cli'[e] = cli[e]

LEMMA GotoWrites ==
    ASSUME LifeTypeOK, NEW c \in Invocation, NEW step, [cli[c] EXCEPT !.pc = step] \in CliState,
           Goto(c, step)
    PROVE  /\ Only(c) /\ cli'[c].pc = step /\ cli'[c].st = cli[c].st
           /\ cli'[c].alive = cli[c].alive /\ cli'[c].retries = cli[c].retries
<1> DEFINE b == [cli[c] EXCEPT !.pc = step]
<1>1. cli \in [Invocation -> CliState] /\ cli[c] \in CliState /\ b \in CliState
  BY DEF LifeTypeOK
<1>2. /\ b.pc = step /\ b.st = cli[c].st /\ b.alive = cli[c].alive
      /\ b.retries = cli[c].retries
  BY <1>1 DEF CliState
<1>3. cli' = [cli EXCEPT ![c] = b]
  BY DEF Goto
<1> HIDE DEF b
<1> QED
  BY <1>1, <1>2, <1>3 DEF Only

LEMMA ReadWrites ==
    ASSUME LifeTypeOK, NEW c \in Invocation,
           NEW step \in {"probe", "waitProbe", "pollProbe", "lostProbe", "stopClean", "stopKill"},
           ReadState(c, step)
    PROVE  Only(c) /\ cli'[c].pc = step /\ cli'[c].st = state /\ cli'[c].alive = Alive(state)
<1> DEFINE b == [cli[c] EXCEPT !.pc = step, !.st = state, !.alive = Alive(state)]
<1>1. cli \in [Invocation -> CliState] /\ cli[c] \in CliState
  BY DEF LifeTypeOK
<1>2. b \in CliState /\ b.pc = step /\ b.st = state /\ b.alive = Alive(state)
  BY <1>1 DEF CliState, LifeTypeOK, Alive
<1>3. cli' = [cli EXCEPT ![c] = b]
  BY DEF ReadState
<1> HIDE DEF b
<1> QED
  BY <1>1, <1>2, <1>3 DEF Only

Goes(c, step) == Only(c) /\ cli'[c].pc = step /\ cli'[c].st = cli[c].st
Reads(c, step) ==
    Only(c) /\ cli'[c].pc = step /\ cli'[c].st = state /\ cli'[c].alive = Alive(state)

LEMMA Steps ==
    ASSUME LifeTypeOK, NEW c \in Invocation,
           NEW step \in {"probe", "lock", "wait", "waitProbe", "reread", "kill", "killing", "reap",
                         "spawn", "poll", "pollProbe", "send", "lost", "lostProbe", "stopKill",
                         "stopKilling", "stopClean", "done"},
           Goto(c, step)
    PROVE  Goes(c, step) /\ cli'[c].alive = cli[c].alive
<1>1. [cli[c] EXCEPT !.pc = step] \in CliState
  BY DEF LifeTypeOK, CliState
<1> QED
  BY <1>1, GotoWrites DEF Goes

LEMMA RetryWrites ==
    ASSUME LifeTypeOK, NEW c \in Invocation, NEW step \in {"send", "kill"}, Retry(c, step)
    PROVE  (Goes(c, step) \/ Goes(c, "done")) /\ cli'[c].alive = cli[c].alive
<1>1. CASE cli[c].retries = 1
  BY <1>1, Steps DEF Retry
<1>2. CASE cli[c].retries # 1
  <2> DEFINE b == [cli[c] EXCEPT !.pc = step, !.retries = 1]
  <2>1. cli \in [Invocation -> CliState] /\ cli[c] \in CliState
    BY DEF LifeTypeOK
  <2>2. b \in CliState /\ b.pc = step /\ b.st = cli[c].st /\ b.alive = cli[c].alive
    BY <2>1 DEF CliState
  <2>3. cli' = [cli EXCEPT ![c] = b]
    BY <1>2 DEF Retry
  <2> HIDE DEF b
  <2> QED
    BY <2>1, <2>2, <2>3 DEF Only, Goes
<1> QED
  BY <1>1, <1>2

LEMMA RereadWrites ==
    ASSUME LifeTypeOK, NEW c \in Invocation,
           cli' = [cli EXCEPT ![c].pc = "send", ![c].st = state]
    PROVE  Only(c) /\ cli'[c].pc = "send" /\ cli'[c].st = state
<1> DEFINE b == [cli[c] EXCEPT !.pc = "send", !.st = state]
<1>1. cli \in [Invocation -> CliState] /\ cli[c] \in CliState
  BY DEF LifeTypeOK
<1>2. b \in CliState /\ b.pc = "send" /\ b.st = state
  BY <1>1 DEF CliState, LifeTypeOK
<1>3. cli' = [cli EXCEPT ![c] = b]
  OBVIOUS
<1> HIDE DEF b
<1> QED
  BY <1>1, <1>2, <1>3 DEF Only


LEMMA OnlyOne ==
    ASSUME LifeTypeOK, NEW c \in Invocation, Step(c) \/ Timeout(c) \/ Interrupt(c)
    PROVE  Only(c)
<1>1. CASE Begin(c) \/ ProbeHealthy(c) \/ ProbeFailed(c)
  BY <1>1, Steps, ReadWrites DEF Begin, ProbeHealthy, ProbeFailed, Goes
<1>2. CASE AcquireLock(c) \/ Wait(c) \/ WaitTimeout(c) \/ Poll(c)
  BY <1>2, Steps, ReadWrites DEF AcquireLock, Wait, WaitTimeout, Poll, Goes
<1>3. CASE Reread(c) \/ Reap(c) \/ Spawn(c)
  BY <1>3, Steps, RereadWrites DEF Reread, Reap, Spawn, Goes
<1>4. CASE Kill(c) \/ Killed(c)
  BY <1>4, Steps DEF Kill, Killed, Goes
<1>5. CASE PollHealthy(c) \/ PollAgain(c) \/ PollTimeout(c) \/ Interrupt(c)
  BY <1>5, Steps DEF PollHealthy, PollAgain, PollTimeout, Interrupt, ReturnFrom, Goes
<1>6. CASE SendOk(c) \/ SendTimeout(c) \/ SendLost(c) \/ StopClean(c)
  BY <1>6, Steps DEF SendOk, SendTimeout, SendLost, StopClean, Goes
<1>7. CASE Lost(c) \/ RetrySame(c)
  BY <1>7, ReadWrites, RetryWrites DEF Lost, RetrySame, Goes
<1>8. CASE Restart(c)
  BY <1>8, Steps, RetryWrites DEF Restart, Goes
<1> QED
  BY <1>1, <1>2, <1>3, <1>4, <1>5, <1>6, <1>7, <1>8 DEF Step, Timeout

-----------------------------------------------------------------------------
(* Daemons go on in their lives, and what was read names one that was up.   *)

Named(d) == d # NoDaemon => daemon[d] \in {"up", "closing", "dead"}
AllNamed == Named(state) /\ \A c \in Invocation : Named(cli[c].st)

OneMoves ==
    \/ daemon' = daemon
    \/ \E d \in Daemon : \/ daemon' = [daemon EXCEPT ![d] = "dead"] /\ daemon[d] # "none"
                         \/ daemon' = [daemon EXCEPT ![d] = "closing"] /\ Answers(d)
                         \/ daemon' = [daemon EXCEPT ![d] = "starting"] /\ daemon[d] = "none"
                         \/ daemon' = [daemon EXCEPT ![d] = "up"] /\ daemon[d] = "starting"

LEMMA DaemonsMove ==
    ASSUME LifeTypeOK, AllNamed, LifeNext PROVE OneMoves
<1>t. /\ state \in Daemon \cup {NoDaemon} /\ NoDaemon \notin Daemon
      /\ daemon \in [Daemon -> LifeStates]
      /\ \A c \in Invocation : cli[c].st \in Daemon \cup {NoDaemon}
  BY DEF LifeTypeOK, CliState, NoDaemon, Daemon, LifeStates
<1>1. ASSUME NEW c \in Invocation,
             \/ Begin(c) \/ ProbeHealthy(c) \/ ProbeFailed(c) \/ AcquireLock(c) \/ Wait(c)
             \/ Reread(c) \/ Poll(c) \/ PollHealthy(c) \/ PollAgain(c) \/ SendTimeout(c)
             \/ SendLost(c) \/ Lost(c) \/ RetrySame(c) \/ Restart(c) \/ StopClean(c)
             \/ Timeout(c) \/ Interrupt(c)
      PROVE  UNCHANGED daemon
  BY <1>1 DEF Begin, ProbeHealthy, ProbeFailed, AcquireLock, Wait, Reread, Poll, PollHealthy,
     PollAgain, SendTimeout, SendLost, Lost, RetrySame, Restart, StopClean, Timeout, WaitTimeout,
     PollTimeout, Interrupt
<1>2. ASSUME NEW c \in Invocation, Kill(c) PROVE OneMoves
  <2>1. UNCHANGED daemon
        \/ (Alive(cli[c].st) /\ daemon' = [daemon EXCEPT ![cli[c].st] = "closing"])
    BY <1>2 DEF Kill
  <2> QED
    BY <1>t, <2>1 DEF OneMoves, Alive, Answers, AllNamed, Named
<1>3. ASSUME NEW c \in Invocation, Killed(c) PROVE OneMoves
  <2>1. daemon' = [daemon EXCEPT ![cli[c].st] = "dead"]
    BY <1>3 DEF Killed
  <2>2. CASE cli[c].st = NoDaemon
    BY <1>t, <2>1, <2>2 DEF OneMoves
  <2>3. CASE cli[c].st # NoDaemon
    BY <1>t, <2>1, <2>3 DEF OneMoves, AllNamed, Named
  <2> QED
    BY <2>2, <2>3
<1>4. ASSUME NEW c \in Invocation, Reap(c) \/ Spawn(c) \/ SendOk(c) PROVE OneMoves
  BY <1>4, <1>t DEF Reap, Spawn, SendOk, OneMoves, Alive, Answers, Fresh
<1>5. ASSUME NEW d \in Daemon, Live(d) PROVE OneMoves
  BY <1>5, <1>t DEF Live, Publish, BeginShutdown, Exit, Crash, Alive, Answers, OneMoves
<1>6. CASE Upgrade
  BY <1>6 DEF Upgrade, OneMoves
<1> QED
  BY <1>1, <1>2, <1>3, <1>4, <1>5, <1>6 DEF LifeNext, Step, OneMoves

LEMMA DaemonsGoOn ==
    ASSUME LifeTypeOK, OneMoves
    PROVE  /\ daemon' \in [Daemon -> LifeStates]
           /\ \A d \in Daemon \cup {NoDaemon} : Named(d) => Named(d)'
           /\ \A d \in Daemon \cup {NoDaemon} : Named(d) /\ ~Alive(d) => ~Alive(d)'
<1>1. daemon \in [Daemon -> LifeStates] /\ NoDaemon \notin Daemon
  BY DEF LifeTypeOK, LifeStates, NoDaemon, Daemon
<1>2. daemon' \in [Daemon -> LifeStates]
  BY <1>1 DEF OneMoves, LifeStates
<1>3. ASSUME NEW d \in Daemon PROVE /\ Named(d) => Named(d)'
                                    /\ Named(d) /\ ~Alive(d) => ~Alive(d)'
  BY <1>1, <1>3 DEF OneMoves, Named, Alive, Answers
<1> QED
  BY <1>1, <1>2, <1>3 DEF Named, Alive

-----------------------------------------------------------------------------
(* Only an invocation that may is about to kill a live daemon.              *)

\* An invocation that may not kill the daemon it has captured.
Spares(c) == c \notin Forcing /\ cli[c].st \notin old

\* What an invocation that does not force has found dead.
FoundDead(c) ==
    /\ cli[c].pc \in {"stopKill", "stopKilling"} => c \in Forcing
    /\ Spares(c) =>
        /\ cli[c].pc \in {"probe", "lostProbe"} /\ ~cli[c].alive => ~Alive(cli[c].st)
        /\ cli[c].pc \in {"lock", "reread", "kill"} => ~Alive(cli[c].st)
Local(c) == Named(cli[c].st) /\ (cli[c].pc # "done" => c \in scenario.runs) /\ FoundDead(c)

LifeInv ==
    /\ LifeTypeOK /\ Named(state)
    /\ \A c \in Invocation : Local(c)
    /\ May("upgrade") \/ old = {}

LEMMA LifeInitInv == LifeInit => LifeInv
<1> SUFFICES ASSUME LifeInit PROVE LifeInv
  OBVIOUS
<1>1. LifeTypeOK /\ Named(state)
  <2>1. /\ daemon \in [Daemon -> LifeStates] /\ state \in Daemon \cup {NoDaemon}
        /\ Named(state)
    BY BoundAssumption DEF LifeInit, LifeStates, Daemon, Named, NoDaemon
  <2>2. cli \in [Invocation -> CliState]
    BY DEF LifeInit, CliState
  <2> QED
    BY <2>1, <2>2 DEF LifeInit, LifeTypeOK, LifeStates
<1>2. ASSUME NEW c \in Invocation PROVE Local(c)
  BY DEF LifeInit, Local, Named, FoundDead
<1> QED
  BY <1>1, <1>2 DEF LifeInv, LifeInit

LEMMA LifeTypeStep == LifeInv /\ LifeNext => LifeTypeOK'
<1> SUFFICES ASSUME LifeInv, LifeNext PROVE LifeTypeOK'
  OBVIOUS
<1>t. LifeTypeOK /\ AllNamed
  BY DEF LifeInv, AllNamed, Local
<1>1. daemon' \in [Daemon -> LifeStates]
  BY <1>t, DaemonsMove, DaemonsGoOn
<1>2. cli' \in [Invocation -> CliState]
  <2>1. ASSUME NEW d \in Daemon, Live(d) PROVE UNCHANGED cli
    BY <2>1 DEF Live, Publish, BeginShutdown, Exit, Crash
  <2> QED
    BY <1>t, <2>1, OnlyOne DEF Only, LifeNext, Upgrade, LifeTypeOK
<1>3. /\ state' \in {state, NoDaemon} \cup Daemon
      /\ old' \subseteq Daemon
      /\ holders' \subseteq Invocation
  <2>1. ASSUME NEW c \in Invocation, Step(c) \/ Timeout(c) \/ Interrupt(c)
        PROVE  /\ state' \in {state, NoDaemon} /\ UNCHANGED old
               /\ holders' \subseteq Invocation
    BY <1>t, <2>1 DEF LifeTypeOK, Step, Timeout, Interrupt, Begin, ProbeHealthy, ProbeFailed,
       AcquireLock, Wait, Reread, Poll, PollHealthy, PollAgain, SendTimeout, SendLost, Lost,
       RetrySame, Restart, StopClean, WaitTimeout, PollTimeout, Kill, Killed, Reap, Spawn, SendOk,
       ReturnFrom
  <2>2. ASSUME NEW d \in Daemon, Live(d)
        PROVE  state' \in {state, NoDaemon, d} /\ UNCHANGED <<old, holders>>
    BY <2>2 DEF Live, Publish, BeginShutdown, Exit, Crash
  <2> QED
    BY <1>t, <2>1, <2>2 DEF LifeNext, Upgrade, LifeTypeOK
<1> QED
  BY <1>t, <1>1, <1>2, <1>3 DEF LifeNext, LifeTypeOK, LifeStates

LEMMA LocalStep ==
    ASSUME LifeInv, UNCHANGED scenario, OneMoves, NEW c \in Invocation,
           Step(c) \/ Timeout(c) \/ Interrupt(c)
    PROVE  Local(c)'
<1>t. /\ LifeTypeOK /\ Local(c) /\ Named(state) /\ scenario \in Scenario
      /\ cli[c].st \in Daemon \cup {NoDaemon} /\ state \in Daemon \cup {NoDaemon}
  BY DEF LifeInv, LifeTypeOK, CliState
<1>n. \A d \in Daemon \cup {NoDaemon} : /\ Named(d) => Named(d)'
                                        /\ Named(d) /\ ~Alive(d) => ~Alive(d)'
  BY <1>t, DaemonsGoOn
<1>o. UNCHANGED old
  BY DEF Step, Timeout, Interrupt, Begin, ProbeHealthy, ProbeFailed, AcquireLock, Wait, Reread, Poll,
     PollHealthy, PollAgain, SendTimeout, SendLost, Lost, RetrySame, Restart, StopClean, WaitTimeout,
     PollTimeout, Kill, Killed, Reap, Spawn, SendOk
\* It goes where nothing is claimed.
<1>h. ASSUME Goes(c, "wait") \/ Goes(c, "spawn") \/ Goes(c, "send") \/ Goes(c, "poll")
             \/ Goes(c, "done") \/ Goes(c, "lost") \/ Goes(c, "killing") \/ Goes(c, "reap")
             \/ Goes(c, "stopClean"),
             cli[c].pc # "done"
      PROVE  Local(c)'
  BY <1>h, <1>t, <1>n DEF Goes, Local, FoundDead, Forcing, Spares
<1>r. ASSUME NEW step, Reads(c, step), cli[c].pc # "done",
             step \in {"stopKill", "stopKilling"} => c \in Forcing,
             step \notin {"lock", "reread", "kill"}
      PROVE  Local(c)'
  BY <1>r, <1>t, <1>n DEF Reads, Local, FoundDead, Forcing, Spares
\* It goes on with what it has found dead.
<1>d. ASSUME Goes(c, "lock") \/ Goes(c, "reread") \/ Goes(c, "kill"), cli[c].pc # "done",
             Spares(c) => ~Alive(cli[c].st)
      PROVE  Local(c)'
  BY <1>d, <1>t, <1>n, <1>o DEF Goes, Local, FoundDead, Forcing, Spares
<1>1. CASE Begin(c)
  <2>1. CASE Goto(c, "done")
    BY <1>1, <1>h, <1>t, <2>1, Steps DEF Begin, At
  <2>2. CASE ReadState(c, "probe") \/ ReadState(c, "stopClean")
    BY <1>1, <1>r, <1>t, <2>2, ReadWrites DEF Begin, At, Reads
  <2>3. CASE ReadState(c, "stopKill") /\ c \in Forcing
    BY <1>1, <1>r, <1>t, <2>3, ReadWrites DEF Begin, At, Reads
  <2> QED
    BY <1>1, <2>1, <2>2, <2>3 DEF Begin
<1>2. CASE ProbeHealthy(c)
  <2>1. CASE cli[c].st \in old
    <3>1. ~Spares(c)
      BY <2>1 DEF Spares
    <3> QED
      BY <1>2, <1>d, <1>t, <2>1, <3>1, Steps DEF ProbeHealthy, At
  <2>2. CASE cli[c].st \notin old
    BY <1>2, <1>h, <1>t, <2>2, Steps DEF ProbeHealthy, At
  <2> QED
    BY <2>1, <2>2
<1>3. CASE ProbeFailed(c)
  <2>1. CASE MayReplace(c)
    <3>1. Spares(c) => ~Alive(cli[c].st)
      BY <1>3, <1>t, <2>1 DEF MayReplace, Local, FoundDead, Spares, ProbeFailed, At
    <3> QED
      BY <1>3, <1>d, <1>t, <2>1, <3>1, Steps DEF ProbeFailed, At
  <2>2. CASE ~MayReplace(c)
    BY <1>3, <1>h, <1>t, <2>2, Steps DEF ProbeFailed, At
  <2> QED
    BY <2>1, <2>2
<1>4. CASE AcquireLock(c)
  <2>1. CASE Goto(c, "reread")
    <3>1. Spares(c) => ~Alive(cli[c].st)
      BY <1>4, <1>t DEF Local, FoundDead, AcquireLock, At
    <3> QED
      BY <1>4, <1>d, <1>t, <2>1, <3>1, Steps DEF AcquireLock, At
  <2>2. CASE Goto(c, "wait") \/ Goto(c, "done")
    BY <1>4, <1>h, <1>t, <2>2, Steps DEF AcquireLock, At
  <2> QED
    BY <1>4, <2>1, <2>2 DEF AcquireLock
<1>5. CASE Wait(c) \/ WaitTimeout(c) \/ Poll(c) \/ Lost(c)
  <2>1. CASE ReadState(c, "waitProbe") \/ ReadState(c, "pollProbe") \/ ReadState(c, "lostProbe")
    BY <1>5, <1>r, <1>t, <2>1, ReadWrites DEF Wait, WaitTimeout, Poll, Lost, At, Reads
  <2>2. CASE Goto(c, "send") \/ Goto(c, "wait") \/ Goto(c, "done")
    BY <1>5, <1>h, <1>t, <2>2, Steps DEF Wait, WaitTimeout, Poll, Lost, At
  <2> QED
    BY <1>5, <2>1, <2>2 DEF Wait, WaitTimeout, Poll, Lost
<1>6. CASE Reread(c)
  <2>1. CASE cli' = [cli EXCEPT ![c].pc = "send", ![c].st = state]
    BY <1>6, <1>n, <1>t, <2>1, RereadWrites DEF Reread, At, Local, FoundDead
  <2>2. CASE Goto(c, "kill")
    <3>1. Spares(c) => ~Alive(cli[c].st)
      BY <1>6, <1>t DEF Local, FoundDead, Reread, At
    <3> QED
      BY <1>6, <1>d, <1>t, <2>2, <3>1, Steps DEF Reread, At
  <2> QED
    BY <1>6, <2>1, <2>2 DEF Reread
<1>7. CASE Kill(c) \/ Killed(c)
  <2>1. CASE Goto(c, "reap") \/ Goto(c, "killing") \/ Goto(c, "stopClean")
    <3>1. cli[c].pc # "done"
      BY <1>7 DEF Kill, Killed, At
    <3> QED
      BY <1>h, <1>t, <2>1, <3>1, Steps
  <2>2. CASE Goto(c, "stopKilling") /\ c \in Forcing
    <3>1. cli[c].pc # "done"
      BY <1>7 DEF Kill, Killed, At
    <3> QED
      BY <1>n, <1>t, <2>2, <3>1, Steps DEF Goes, Local, FoundDead, Forcing, Spares
  <2>3. Goto(c, "stopKilling") => c \in Forcing
    <3>1. Goto(c, "stopKilling") => At(c, "stopKill")
      BY <1>7, <1>t, Steps DEF Kill, Killed, Goes
    <3> QED
      BY <1>t, <3>1 DEF Local, FoundDead, At
  <2> QED
    BY <1>7, <2>1, <2>2, <2>3 DEF Kill, Killed
<1>8. CASE Reap(c) \/ Spawn(c) \/ PollAgain(c) \/ PollHealthy(c) \/ PollTimeout(c) \/ Interrupt(c)
  <2>1. cli[c].pc # "done"
    BY <1>8 DEF Reap, Spawn, PollAgain, PollHealthy, PollTimeout, Interrupt, At
  <2>2. Goto(c, "spawn") \/ Goto(c, "poll") \/ Goto(c, "send") \/ Goto(c, "done")
    BY <1>8 DEF Reap, Spawn, PollAgain, PollHealthy, PollTimeout, Interrupt, ReturnFrom
  <2> QED
    BY <1>h, <1>t, <2>1, <2>2, Steps
<1>9. CASE SendOk(c) \/ SendTimeout(c) \/ SendLost(c) \/ StopClean(c)
  <2>1. cli[c].pc # "done"
    BY <1>9 DEF SendOk, SendTimeout, SendLost, StopClean, At
  <2>2. Goto(c, "lost") \/ Goto(c, "done")
    BY <1>9 DEF SendOk, SendTimeout, SendLost, StopClean
  <2> QED
    BY <1>h, <1>t, <2>1, <2>2, Steps
<1>10. CASE RetrySame(c)
  BY <1>10, <1>h, <1>t, RetryWrites DEF RetrySame, At
<1>11. CASE Restart(c)
  <2>1. CASE Goto(c, "done")
    BY <1>11, <1>h, <1>t, <2>1, Steps DEF Restart, At
  <2>2. CASE MayReplace(c) /\ Retry(c, "kill")
    <3>1. Spares(c) => ~Alive(cli[c].st)
      BY <1>11, <1>t, <2>2 DEF MayReplace, Local, FoundDead, Spares, Restart, At
    <3> QED
      BY <1>11, <1>d, <1>h, <1>t, <2>2, <3>1, RetryWrites DEF Restart, At
  <2> QED
    BY <1>11, <2>1, <2>2 DEF Restart
<1> QED
  BY <1>1, <1>2, <1>3, <1>4, <1>5, <1>6, <1>7, <1>8, <1>9, <1>10, <1>11 DEF Step, Timeout

LEMMA LifeNextInv ==
    ASSUME LifeInv, [LifeNext]_lifeVars
    PROVE  LifeInv'
<1>1. CASE UNCHANGED lifeVars
  BY <1>1 DEF lifeVars, LifeInv, LifeTypeOK, Named, Local, FoundDead, Alive, Forcing, Spares, May
<1>2. CASE LifeNext
  <2>t. LifeTypeOK /\ OneMoves /\ UNCHANGED scenario
    BY <1>2, DaemonsMove DEF LifeInv, AllNamed, Local, LifeNext
  <2>n. \A d \in Daemon \cup {NoDaemon} : /\ Named(d) => Named(d)'
                                          /\ Named(d) /\ ~Alive(d) => ~Alive(d)'
    BY <2>t, DaemonsGoOn
  <2>s. state \in Daemon \cup {NoDaemon} /\ \A e \in Invocation : cli[e].st \in Daemon \cup {NoDaemon}
    BY <2>t DEF LifeTypeOK, CliState
  <2>o. old \subseteq old'
    BY <1>2 DEF LifeNext, Upgrade, Live, Publish, BeginShutdown, Exit, Crash, Step, Timeout, Interrupt,
       Begin, ProbeHealthy, ProbeFailed, AcquireLock, Wait, Reread, Poll, PollHealthy, PollAgain,
       SendTimeout, SendLost, Lost, RetrySame, Restart, StopClean, WaitTimeout, PollTimeout, Kill,
       Killed, Reap, Spawn, SendOk
  <2>e. ASSUME NEW e \in Invocation, cli'[e] = cli[e] PROVE Local(e)'
    BY <2>e, <2>n, <2>o, <2>s, <2>t DEF LifeInv, Local, FoundDead, Forcing, Spares
  <2>1. LifeTypeOK'
    BY <1>2, LifeTypeStep
  <2>2. CASE \E c \in Invocation : Step(c) \/ Timeout(c) \/ Interrupt(c)
    <3>1. PICK c \in Invocation : Step(c) \/ Timeout(c) \/ Interrupt(c)
      BY <2>2
    <3>2. Local(c)' /\ Only(c)
      BY <2>t, <3>1, LocalStep, OnlyOne
    <3>3. \A e \in Invocation : Local(e)'
      BY <2>e, <3>2 DEF Only
    <3>4. state' \in {state, NoDaemon} /\ UNCHANGED old
      BY <3>1 DEF Step, Timeout, Interrupt, Begin, ProbeHealthy, ProbeFailed, AcquireLock, Wait,
         Reread, Poll, PollHealthy, PollAgain, SendTimeout, SendLost, Lost, RetrySame, Restart,
         StopClean, WaitTimeout, PollTimeout, Kill, Killed, Reap, Spawn, SendOk
    <3>5. Named(state)'
      BY <2>n, <2>s, <3>4 DEF LifeInv, Named
    <3> QED
      BY <2>1, <2>t, <3>3, <3>4, <3>5 DEF LifeInv, May
  <2>3. CASE \E d \in Daemon : Live(d)
    <3>1. PICK d \in Daemon : Live(d)
      BY <2>3
    <3>2. UNCHANGED <<cli, old>> /\ (state' \in {state, NoDaemon} \/ Publish(d))
      BY <3>1 DEF Live, Publish, BeginShutdown, Exit, Crash
    <3>3. Named(state)'
      BY <2>n, <2>s, <2>t, <3>2 DEF LifeInv, Named, Publish, LifeTypeOK
    <3> QED
      BY <2>1, <2>e, <2>t, <3>2, <3>3 DEF LifeInv, May
  <2>4. CASE Upgrade
    <3>1. May("upgrade") /\ UNCHANGED <<cli, state, daemon>>
      BY <2>4 DEF Upgrade
    <3> QED
      BY <2>1, <2>e, <2>t, <3>1 DEF LifeInv, May, Named
  <2> QED
    BY <1>2, <2>2, <2>3, <2>4 DEF LifeNext
<1> QED
  BY <1>1, <1>2

(* No captured pid that is about to be signalled is alive, however stale    *)
(* the capture, unless the invocation was to force it or an update has left *)
(* that daemon with another binary (cli.ts:372-375, 706-712): for any       *)
(* invocations, whatever goes wrong and whenever a new binary comes.        *)
THEOREM KilledOnlyByForce == LifeSpec => []KillOnlyByForce
<1>1. LifeInv /\ [LifeNext]_lifeVars => LifeInv'
  BY LifeNextInv
<1>2. LifeInv => KillOnlyByForce
  BY DEF LifeInv, LifeTypeOK, Local, FoundDead, Spares, Forcing,
     KillOnlyByForce
<1> QED
  BY <1>1, <1>2, LifeInitInv, PTL DEF LifeSpec

-----------------------------------------------------------------------------
(* A sole invocation.  This section and the next start from what a step    *)
(* writes where c is all that runs, or where no fault is met.               *)

\* The steps of the others are over.
LEMMA OthersAreDone ==
    ASSUME LifeInv, NEW c \in Invocation, scenario.runs = {c}, NEW e \in Invocation,
           Step(e) \/ Timeout(e) \/ Interrupt(e)
    PROVE  e = c
<1>1. cli[e].pc # "done"
  BY DEF Step, Timeout, Interrupt, Begin, ProbeHealthy, ProbeFailed, AcquireLock, Wait, Reread,
     Poll, PollHealthy, PollAgain, SendTimeout, SendLost, Lost, RetrySame, Restart, StopClean,
     WaitTimeout, PollTimeout, Kill, Killed, Reap, Spawn, SendOk, At
<1> QED
  BY <1>1 DEF LifeInv, Local

NoneStarts == \A d \in Daemon : daemon[d] # "starting"
NoneAlive == \A d \in Daemon : ~Alive(d)

\* At most one daemon is alive, and the state file names it once it is up.
OneIsNamed ==
    /\ \A d, e \in Daemon : Alive(d) /\ Alive(e) => d = e
    /\ \A d \in Daemon : Alive(d) /\ daemon[d] # "starting" => state = d

\* What c knows of it when it is alone.
Knows(c) ==
    /\ cli[c].pc \notin {"poll", "pollProbe", "done"} => NoneStarts
    /\ cli[c].pc \in {"spawn", "stopClean"} => NoneAlive
    /\ cli[c].pc = "lostProbe" /\ ~cli[c].alive => NoneAlive
    /\ cli[c].pc \in {"stopKill", "stopKilling"} => \A d \in Daemon : Alive(d) => d = cli[c].st

SoleInv == \A c \in Invocation : scenario.runs = {c} => OneIsNamed /\ Knows(c)

LEMMA SoleInitInv == LifeInit => SoleInv
<1> SUFFICES ASSUME LifeInit, NEW c \in Invocation, scenario.runs = {c}
             PROVE  OneIsNamed /\ Knows(c)
  BY DEF SoleInv
<1>1. \A d \in Daemon : daemon[d] \in {"none", "up", "dead"} /\ (Alive(d) => d = 1 /\ state = 1)
  BY DEF LifeInit, Alive, Daemon
<1>2. cli[c].pc = "begin"
  BY DEF LifeInit
<1> QED
  BY <1>1, <1>2 DEF OneIsNamed, Knows, NoneStarts

\* A daemon that is closed, killed or gone leaves at most the others alive.
LEMMA FewerAlive ==
    ASSUME LifeTypeOK, OneIsNamed, NEW d \in Daemon,
           daemon' = [daemon EXCEPT ![d] = "dead"], UNCHANGED state \/ Alive(d)
    PROVE  /\ OneIsNamed' /\ (NoneStarts => NoneStarts') /\ (NoneAlive => NoneAlive')
           /\ \A e \in Daemon : Alive(e)' => Alive(e) /\ e # d
<1>1. daemon \in [Daemon -> LifeStates] /\ NoDaemon \notin Daemon
  BY DEF LifeTypeOK, LifeStates, NoDaemon, Daemon
<1>2. /\ daemon'[d] = "dead" /\ (\A e \in Daemon \ {d} : daemon'[e] = daemon[e])
      /\ \A e \in Daemon : Alive(e)' => Alive(e) /\ e # d /\ daemon'[e] = daemon[e]
  BY <1>1 DEF Alive
<1>3. OneIsNamed'
  BY <1>2 DEF OneIsNamed
<1> QED
  BY <1>2, <1>3 DEF NoneStarts, NoneAlive

\* A daemon that closes is still alive.
LEMMA SameAlive ==
    ASSUME LifeTypeOK, OneIsNamed, NEW d \in Daemon, Answers(d),
           daemon' = [daemon EXCEPT ![d] = "closing"], UNCHANGED state
    PROVE  /\ OneIsNamed' /\ (NoneStarts => NoneStarts')
           /\ \A e \in Daemon : Alive(e)' <=> Alive(e)
<1>1. daemon \in [Daemon -> LifeStates] /\ NoDaemon \notin Daemon
  BY DEF LifeTypeOK, LifeStates, NoDaemon, Daemon
<1>2. /\ daemon'[d] = "closing" /\ (\A e \in Daemon \ {d} : daemon'[e] = daemon[e])
      /\ \A e \in Daemon : Alive(e)' <=> Alive(e)
  BY <1>1 DEF Alive, Answers
<1>3. OneIsNamed'
  BY <1>1, <1>2 DEF OneIsNamed, Answers
<1> QED
  BY <1>1, <1>2, <1>3 DEF NoneStarts

LEMMA SoleStep ==
    ASSUME LifeInv, NEW c \in Invocation, OneIsNamed, Knows(c),
           Step(c) \/ Timeout(c) \/ Interrupt(c)
    PROVE  OneIsNamed' /\ Knows(c)'
<1>t. /\ LifeTypeOK /\ NoDaemon \notin Daemon /\ Named(state) /\ Named(cli[c].st)
      /\ daemon \in [Daemon -> LifeStates]
      /\ cli[c].st \in Daemon \cup {NoDaemon} /\ state \in Daemon \cup {NoDaemon}
  BY DEF LifeInv, LifeTypeOK, CliState, Local, NoDaemon, Daemon, LifeStates
\* It only goes on, or only looks.
<1>g. ASSUME UNCHANGED <<daemon, state>> PROVE OneIsNamed'
  BY <1>g DEF OneIsNamed, Alive
<1>h. ASSUME UNCHANGED <<daemon, state>>,
             \/ Goes(c, "lock") \/ Goes(c, "wait") \/ Goes(c, "reread") \/ Goes(c, "send")
             \/ Goes(c, "lost") \/ Goes(c, "kill") \/ Goes(c, "killing") \/ Goes(c, "reap")
             \/ Reads(c, "probe") \/ Reads(c, "waitProbe"), NoneStarts
      PROVE  Knows(c)'
  BY <1>h DEF Goes, Reads, Knows, NoneStarts
<1>d. ASSUME Goes(c, "done") \/ Goes(c, "poll") \/ Reads(c, "pollProbe") PROVE Knows(c)'
  BY <1>d DEF Goes, Reads, Knows
<1>s. cli[c].pc \notin {"poll", "pollProbe", "done"} => NoneStarts
  BY DEF Knows
<1>1. CASE Begin(c)
  <2>1. NoneStarts /\ UNCHANGED <<daemon, state>>
    BY <1>1, <1>s DEF Begin, At
  <2>2. CASE Goto(c, "done") \/ ReadState(c, "probe")
    BY <1>d, <1>g, <1>h, <1>t, <2>1, <2>2, Steps, ReadWrites DEF Reads
  <2>3. CASE ReadState(c, "stopClean") /\ ~Alive(state)
    <3>1. NoneAlive
      BY <1>t, <2>1, <2>3 DEF OneIsNamed, NoneStarts, NoneAlive
    <3> QED
      BY <1>g, <1>t, <2>1, <2>3, <3>1, ReadWrites DEF Knows, NoneStarts, NoneAlive, Alive
  <2>4. CASE ReadState(c, "stopKill")
    <3>1. \A d \in Daemon : Alive(d) => d = state
      BY <2>1 DEF OneIsNamed, NoneStarts
    <3> QED
      BY <1>g, <1>t, <2>1, <2>4, <3>1, ReadWrites DEF Knows, NoneStarts, Alive
  <2> QED
    BY <1>1, <2>2, <2>3, <2>4 DEF Begin
<1>2. CASE ProbeHealthy(c) \/ ProbeFailed(c) \/ AcquireLock(c)
  <2>1. NoneStarts /\ UNCHANGED <<daemon, state>>
    BY <1>2, <1>s DEF ProbeHealthy, ProbeFailed, AcquireLock, At
  <2>2. \/ Goto(c, "kill") \/ Goto(c, "send") \/ Goto(c, "lock") \/ Goto(c, "done")
        \/ Goto(c, "reread") \/ Goto(c, "wait")
    BY <1>2 DEF ProbeHealthy, ProbeFailed, AcquireLock
  <2> QED
    BY <1>d, <1>g, <1>h, <1>t, <2>1, <2>2, Steps
<1>3. CASE Wait(c) \/ WaitTimeout(c) \/ SendTimeout(c) \/ SendLost(c)
  <2>1. NoneStarts /\ UNCHANGED <<daemon, state>>
    BY <1>3, <1>s DEF Wait, WaitTimeout, SendTimeout, SendLost, At
  <2>2. \/ Goto(c, "send") \/ Goto(c, "wait") \/ Goto(c, "done") \/ Goto(c, "lost")
        \/ ReadState(c, "waitProbe")
    BY <1>3 DEF Wait, WaitTimeout, SendTimeout, SendLost
  <2> QED
    BY <1>d, <1>g, <1>h, <1>t, <2>1, <2>2, Steps, ReadWrites DEF Reads
<1>4. CASE Lost(c)
  <2>1. NoneStarts /\ UNCHANGED <<daemon, state>>
    BY <1>4, <1>s DEF Lost, At
  <2>2. ~Alive(state) => NoneAlive
    BY <2>1 DEF OneIsNamed, NoneStarts, NoneAlive
  <2> QED
    BY <1>4, <1>g, <1>t, <2>1, <2>2, ReadWrites DEF Lost, Knows, NoneStarts, NoneAlive, Alive
<1>5. CASE Reread(c)
  <2>1. NoneStarts /\ UNCHANGED <<daemon, state>>
    BY <1>5, <1>s DEF Reread, At
  <2>2. CASE cli' = [cli EXCEPT ![c].pc = "send", ![c].st = state]
    BY <1>g, <1>t, <2>1, <2>2, RereadWrites DEF Knows, NoneStarts
  <2>3. CASE Goto(c, "kill")
    BY <1>g, <1>h, <1>t, <2>1, <2>3, Steps
  <2> QED
    BY <1>5, <2>2, <2>3 DEF Reread
<1>6. CASE Poll(c) \/ PollAgain(c) \/ PollTimeout(c) \/ Interrupt(c)
  <2>1. UNCHANGED <<daemon, state>>
    BY <1>6 DEF Poll, PollAgain, PollTimeout, Interrupt
  <2>2. ReadState(c, "pollProbe") \/ Goto(c, "poll") \/ Goto(c, "done")
    BY <1>6 DEF Poll, PollAgain, PollTimeout, Interrupt, ReturnFrom
  <2> QED
    BY <1>d, <1>g, <1>t, <2>1, <2>2, Steps, ReadWrites DEF Reads
<1>7. CASE PollHealthy(c)
  <2>1. UNCHANGED <<daemon, state>> /\ Answers(cli[c].st)
    BY <1>7 DEF PollHealthy
  <2>2. NoneStarts
    BY <1>t, <2>1 DEF OneIsNamed, NoneStarts, Answers, Alive
  <2> QED
    BY <1>7, <1>g, <1>h, <1>t, <2>1, <2>2, Steps DEF PollHealthy, ReturnFrom
<1>8. CASE RetrySame(c) \/ Restart(c)
  <2>1. NoneStarts /\ UNCHANGED daemon /\ (UNCHANGED state \/ (NoneAlive /\ Goto(c, "done")))
    BY <1>8, <1>s DEF RetrySame, Restart, At, Knows
  <2>2. Goes(c, "send") \/ Goes(c, "kill") \/ Goes(c, "done")
    BY <1>8, <1>t, Steps, RetryWrites DEF RetrySame, Restart
  <2>3. OneIsNamed'
    BY <1>g, <2>1 DEF OneIsNamed, NoneAlive, Alive
  <2>4. Knows(c)'
    BY <2>1, <2>2 DEF Goes, Knows, NoneStarts
  <2> QED
    BY <2>3, <2>4
<1>9. CASE StopClean(c)
  <2>1. NoneAlive /\ UNCHANGED daemon /\ Goto(c, "done")
    BY <1>9 DEF StopClean, Knows, At
  <2>2. OneIsNamed'
    BY <2>1 DEF OneIsNamed, NoneAlive, Alive
  <2> QED
    BY <1>d, <1>t, <2>1, <2>2, Steps
<1>10. CASE Kill(c) \/ Killed(c)
  <2>1. NoneStarts /\ UNCHANGED state
    BY <1>10, <1>s DEF Kill, Killed, At
  \* what is not alive, closes or is dead now
  <2>2. /\ OneIsNamed' /\ NoneStarts' /\ (\A d \in Daemon : Alive(d)' => Alive(d))
        /\ \A d \in Daemon : Killed(c) /\ d = cli[c].st => ~Alive(d)'
    <3>1. CASE UNCHANGED daemon /\ ~Killed(c)
      BY <1>g, <2>1, <3>1 DEF NoneStarts, Alive
    <3>2. CASE Alive(cli[c].st) /\ daemon' = [daemon EXCEPT ![cli[c].st] = "closing"] /\ ~Killed(c)
      BY <1>t, <2>1, <3>2, SameAlive DEF Alive, Named, Answers
    <3>3. CASE Killed(c)
      <4>1. daemon' = [daemon EXCEPT ![cli[c].st] = "dead"]
        BY <3>3 DEF Killed
      <4>2. CASE cli[c].st = NoDaemon
        <5>1. UNCHANGED daemon
          BY <1>t, <4>1, <4>2
        <5> QED
          BY <1>g, <1>t, <2>1, <4>2, <5>1 DEF NoneStarts, Alive
      <4>3. CASE cli[c].st # NoDaemon
        BY <1>t, <2>1, <4>1, <4>3, FewerAlive DEF Alive
      <4> QED
        BY <4>2, <4>3
    <3> QED
      BY <1>10, <3>1, <3>2, <3>3 DEF Kill
  <2>3. CASE Goto(c, "reap") \/ Goto(c, "killing")
    BY <1>t, <2>2, <2>3, Steps DEF Goes, Knows
  <2>4. CASE Goto(c, "stopKilling") /\ ~Goto(c, "reap") /\ ~Goto(c, "killing")
    <3>1. At(c, "stopKill")
      BY <1>10, <1>t, <2>4, Steps DEF Goes, Kill, Killed
    <3>2. \A d \in Daemon : Alive(d) => d = cli[c].st
      BY <3>1 DEF At, Knows
    <3> QED
      BY <1>t, <2>2, <2>4, <3>2, Steps DEF Goes, Knows
  <2>5. CASE Goto(c, "stopClean") /\ ~Goto(c, "reap") /\ ~Goto(c, "killing")
    <3>1. cli[c].pc \in {"stopKill", "stopKilling"} /\ (~Alive(cli[c].st) \/ Killed(c))
      BY <1>10, <1>t, <2>5, Steps DEF Goes, Kill, Killed, At
    <3>2. NoneAlive'
      <4>1. ASSUME NEW d \in Daemon, Alive(d)' PROVE FALSE
        <5>1. d = cli[c].st /\ Alive(d)
          BY <2>2, <3>1, <4>1 DEF Knows
        <5> QED
          BY <2>2, <3>1, <4>1, <5>1 DEF Alive
      <4> QED
        BY <4>1 DEF NoneAlive
    <3> QED
      BY <1>t, <2>2, <2>5, <3>2, Steps DEF Goes, Knows
  <2> QED
    BY <1>10, <2>2, <2>3, <2>4, <2>5 DEF Kill, Killed
<1>11. CASE Reap(c)
  <2>1. NoneStarts /\ UNCHANGED state /\ Goto(c, "spawn")
    BY <1>11, <1>s DEF Reap, At
  <2>2. OneIsNamed' /\ NoneStarts' /\ NoneAlive'
    <3>1. CASE Alive(state)
      <4>1. state \in Daemon /\ daemon' = [daemon EXCEPT ![state] = "dead"]
        BY <1>11, <1>t, <3>1 DEF Reap, Alive
      <4>2. OneIsNamed' /\ NoneStarts' /\ \A e \in Daemon : Alive(e)' => Alive(e) /\ e # state
        BY <1>t, <2>1, <4>1, FewerAlive
      <4> QED
        BY <2>1, <4>2 DEF OneIsNamed, NoneStarts, NoneAlive
    <3>2. CASE ~Alive(state)
      <4>1. UNCHANGED daemon
        BY <1>11, <3>2 DEF Reap
      <4> QED
        BY <1>g, <2>1, <3>2, <4>1 DEF OneIsNamed, NoneStarts, NoneAlive, Alive
    <3> QED
      BY <3>1, <3>2
  <2> QED
    BY <1>t, <2>1, <2>2, Steps DEF Goes, Knows
<1>12. CASE Spawn(c)
  <2>1. PICK d \in Daemon : daemon' = [daemon EXCEPT ![d] = "starting"]
    BY <1>12 DEF Spawn, Fresh
  <2>2. NoneAlive /\ Goto(c, "poll")
    BY <1>12 DEF Spawn, Knows, At
  <2>3. \A e \in Daemon : Alive(e)' => e = d /\ daemon'[e] = "starting"
    BY <1>t, <2>1, <2>2 DEF NoneAlive, Alive
  <2>4. OneIsNamed'
    BY <2>3 DEF OneIsNamed
  <2> QED
    BY <1>d, <1>t, <2>2, <2>4, Steps
<1>13. CASE SendOk(c)
  <2>1. NoneStarts /\ UNCHANGED state /\ Goto(c, "done")
    BY <1>13, <1>s DEF SendOk, At
  <2>2. OneIsNamed'
    BY <1>13, <1>g, <1>t, <2>1, SameAlive DEF SendOk, Answers
  <2> QED
    BY <1>d, <1>t, <2>1, <2>2, Steps
<1> QED
  BY <1>1, <1>2, <1>3, <1>4, <1>5, <1>6, <1>7, <1>8, <1>9, <1>10, <1>11, <1>12, <1>13
  DEF Step, Timeout

LEMMA SoleDaemonStep ==
    ASSUME LifeInv, NEW c \in Invocation, OneIsNamed, Knows(c), NEW d \in Daemon, Live(d)
    PROVE  OneIsNamed' /\ Knows(c)'
<1>t. /\ LifeTypeOK /\ NoDaemon \notin Daemon /\ daemon \in [Daemon -> LifeStates]
      /\ UNCHANGED cli
  BY DEF LifeInv, LifeTypeOK, NoDaemon, Daemon, LifeStates, Live, Publish, BeginShutdown, Exit,
     Crash
<1>1. OneIsNamed' /\ (NoneStarts => NoneStarts') /\ (\A e \in Daemon : Alive(e)' => Alive(e))
  <2>1. CASE Publish(d)
    <3>1. state' = d /\ daemon' = [daemon EXCEPT ![d] = "up"] /\ daemon[d] = "starting"
      BY <2>1 DEF Publish
    <3>2. \A e \in Daemon : Alive(e)' => Alive(e) /\ e = d
      BY <1>t, <3>1 DEF OneIsNamed, Alive
    <3> QED
      BY <1>t, <3>1, <3>2 DEF OneIsNamed, NoneStarts
  <2>2. CASE BeginShutdown(d)
    BY <1>t, <2>2, SameAlive DEF BeginShutdown, Answers
  <2>3. CASE Exit(d) \/ Crash(d)
    <3>1. daemon' = [daemon EXCEPT ![d] = "dead"] /\ Alive(d)
      BY <1>t, <2>3 DEF Exit, Crash, Alive
    <3> QED
      BY <1>t, <3>1, FewerAlive
  <2> QED
    BY <2>1, <2>2, <2>3 DEF Live
<1> QED
  BY <1>t, <1>1 DEF Knows, NoneAlive

LEMMA SoleNextInv ==
    ASSUME LifeInv, SoleInv, [LifeNext]_lifeVars PROVE SoleInv'
<1> SUFFICES ASSUME NEW c \in Invocation, scenario'.runs = {c} PROVE (OneIsNamed /\ Knows(c))'
  BY DEF SoleInv
<1>1. UNCHANGED scenario /\ scenario.runs = {c}
  BY DEF LifeNext, lifeVars
<1>2. OneIsNamed /\ Knows(c)
  BY <1>1 DEF SoleInv
<1>3. CASE UNCHANGED <<daemon, state, cli>>
  BY <1>2, <1>3 DEF OneIsNamed, Knows, NoneStarts, NoneAlive, Alive
<1>4. CASE \E e \in Invocation : Step(e) \/ Timeout(e) \/ Interrupt(e)
  BY <1>1, <1>2, <1>4, OthersAreDone, SoleStep
<1>5. CASE \E d \in Daemon : Live(d)
  BY <1>2, <1>5, SoleDaemonStep
<1> QED
  BY <1>3, <1>4, <1>5 DEF LifeNext, Upgrade, lifeVars

(* A daemon that is up can be found: once an invocation that met no other    *)
(* is over, the state file names it (ARCHITECTURE.md:94), whatever fault it  *)
(* met, whether it forces or stops, and for any number of daemons.           *)
THEOREM UpIsFound == LifeSpec => []Reachable
<1>1. LifeInv /\ SoleInv /\ [LifeNext]_lifeVars => LifeInv' /\ SoleInv'
  BY LifeNextInv, SoleNextInv
<1>2. LifeInv /\ SoleInv => Reachable
  <2> SUFFICES ASSUME LifeInv, SoleInv, Cardinality(scenario.runs) = 1,
                      NEW d \in Daemon, daemon[d] = "up"
               PROVE  state = d
    BY DEF Reachable
  <2>1. scenario.runs \subseteq Invocation /\ IsFiniteSet(scenario.runs)
    BY ScenarioAssumption DEF LifeInv, LifeTypeOK
  <2>2. PICK c : scenario.runs = {c}
    BY <2>1, FS_Singleton
  <2>3. OneIsNamed
    BY <2>1, <2>2 DEF SoleInv
  <2> QED
    BY <2>3 DEF OneIsNamed, Alive, NoDaemon, Daemon
<1> QED
  BY <1>1, <1>2, LifeInitInv, SoleInitInv, PTL DEF LifeSpec

-----------------------------------------------------------------------------
(* Where nothing goes wrong, the start lock keeps the daemon single.         *)

\* No fault, no --force-restart and no "stop" around it.
Undisturbed == scenario.faults = {} /\ Forcing = {} /\ Stopping = {}

Runs(d) == daemon[d] \in {"starting", "up"}
NoneRuns == \A d \in Daemon : ~Runs(d)

\* Between the acquisition of the lock and its release.
UnderLock == {"reread", "kill", "reap", "spawn", "poll", "pollProbe"}

\* Whoever goes on to spawn a daemon has the lock and has found none.
Follows(c) ==
    /\ cli[c].pc \notin {"killing", "lost", "lostProbe", "stopKill", "stopKilling", "stopClean"}
    /\ cli[c].pc \in UnderLock <=> c \in holders
    /\ cli[c].pc = "send" => Answers(cli[c].st)
    /\ cli[c].pc \in {"kill", "reap", "spawn"} => NoneRuns

\* One daemon runs, it is named once it is up, and its starter polls for it.
OneRuns ==
    /\ \A d \in Daemon : daemon[d] # "closing"
    /\ \A d, e \in Daemon : Runs(d) /\ Runs(e) => d = e
    /\ \A d \in Daemon : daemon[d] = "up" => state = d
    /\ \A d \in Daemon : daemon[d] = "starting" =>
          \E c \in holders : cli[c].pc \in {"poll", "pollProbe"}

CalmInv ==
    Undisturbed =>
        /\ OneRuns
        /\ \A c \in Invocation : Follows(c)
        /\ \A c, e \in holders : c = e

LEMMA CalmInitInv == LifeInit => CalmInv
<1> SUFFICES ASSUME LifeInit PROVE CalmInv
  OBVIOUS
<1>1. \A d \in Daemon : daemon[d] \in {"none", "up", "dead"} /\ (daemon[d] = "up" => d = 1 /\ state = 1)
  BY DEF LifeInit, Daemon
<1>2. \A c \in Invocation : cli[c].pc \in {"begin", "done"}
  BY DEF LifeInit
<1>3. holders = {}
  BY DEF LifeInit
<1> QED
  BY <1>1, <1>2, <1>3 DEF CalmInv, OneRuns, Runs, Follows, UnderLock

Undisturbing == LifeInv /\ CalmInv /\ Undisturbed /\ UNCHANGED scenario

\* What a step of c does where nothing goes wrong.
LEMMA CalmStep ==
    ASSUME Undisturbing, NEW c \in Invocation, Step(c) \/ Timeout(c) \/ Interrupt(c), ~Spawn(c)
    PROVE  /\ UNCHANGED <<daemon, state>>
           /\ Follows(c)'
           /\ \/ UNCHANGED holders
              \/ holders = {} /\ holders' = {c}
              \/ holders' = holders \ {c}
           /\ cli[c].pc \in {"poll", "pollProbe"} =>
                 cli'[c].pc \in {"poll", "pollProbe"} \/ \A d \in Daemon : daemon[d] # "starting"
<1>t. /\ LifeTypeOK /\ OneRuns /\ Follows(c) /\ NoDaemon \notin Daemon /\ Named(state)
      /\ Named(cli[c].st) /\ old = {} /\ UNCHANGED scenario
      /\ daemon \in [Daemon -> LifeStates] /\ (\A d \in Daemon : daemon[d] # "closing")
      /\ cli[c].st \in Daemon \cup {NoDaemon} /\ state \in Daemon \cup {NoDaemon}
      /\ holders \subseteq Invocation /\ \A a, b \in holders : a = b
  BY DEF Undisturbing, Undisturbed, CalmInv, OneRuns, LifeInv, LifeTypeOK, CliState, Local,
     NoDaemon, Daemon, LifeStates, May
<1>m. /\ \A f \in Fault : ~May(f)
      /\ c \notin Forcing /\ c \notin Stopping /\ c \notin Forcing'
  BY DEF Undisturbing, Undisturbed, May, Forcing
<1>a. \A d \in Daemon \cup {NoDaemon} : Unanswered(d) <=> ~Answers(d)
  BY <1>m DEF Unanswered, Fault
<1>n. NoneRuns => \A d \in Daemon \cup {NoDaemon} : ~Alive(d)
  BY <1>t DEF NoneRuns, Runs, Alive
<1> DEFINE Same == UNCHANGED <<daemon, state, holders>>
<1>b. ASSUME Same, c \notin holders,
             \/ Goes(c, "lock") \/ Goes(c, "wait") \/ Goes(c, "done")
             \/ Reads(c, "probe") \/ Reads(c, "waitProbe")
      PROVE  Follows(c)'
  BY <1>b DEF Goes, Reads, Follows, UnderLock
<1>u. ASSUME UNCHANGED daemon, c \in holders',
             \/ Goes(c, "reread") \/ Goes(c, "poll") \/ Reads(c, "pollProbe")
             \/ NoneRuns /\ (Goes(c, "kill") \/ Goes(c, "reap") \/ Goes(c, "spawn"))
      PROVE  Follows(c)'
  BY <1>u DEF Goes, Reads, Follows, UnderLock, NoneRuns, Runs
<1>s. ASSUME UNCHANGED daemon, c \notin holders', Goes(c, "send"), Answers(cli[c].st)
      PROVE  Follows(c)'
  BY <1>s DEF Goes, Follows, UnderLock, Answers
<1>1. CASE Begin(c)
  BY <1>1, <1>b, <1>m, <1>t, ReadWrites DEF Begin, At, Reads, Follows, UnderLock
<1>2. CASE ProbeHealthy(c)
  BY <1>2, <1>s, <1>t, Steps DEF ProbeHealthy, At, Follows, UnderLock
<1>3. CASE ProbeFailed(c) \/ WaitTimeout(c)
  <2>1. Goto(c, "lock") \/ Goto(c, "done")
    BY <1>3 DEF ProbeFailed, WaitTimeout
  <2> QED
    BY <1>3, <1>b, <1>t, <2>1, Steps DEF ProbeFailed, WaitTimeout, At, Follows, UnderLock
<1>4. CASE AcquireLock(c)
  <2>1. c \notin holders /\ UNCHANGED <<daemon, state>>
    BY <1>4, <1>t DEF AcquireLock, At, Follows, UnderLock
  <2>2. CASE holders = {} /\ holders' = holders \cup {c} /\ Goto(c, "reread")
    BY <1>4, <1>t, <1>u, <2>1, <2>2, Steps DEF AcquireLock, At
  <2>3. CASE UNCHANGED holders /\ (Goto(c, "wait") \/ Goto(c, "done"))
    BY <1>4, <1>b, <1>t, <2>1, <2>3, Steps DEF AcquireLock, At
  <2> QED
    BY <1>4, <1>m, <2>2, <2>3 DEF AcquireLock, Fault
<1>5. CASE Wait(c)
  <2>1. c \notin holders /\ Same
    BY <1>5, <1>t DEF Wait, At, Follows, UnderLock
  <2>2. CASE ReadState(c, "waitProbe") \/ Goto(c, "wait")
    BY <1>5, <1>b, <1>t, <2>1, <2>2, Steps, ReadWrites DEF Reads, Wait, At
  <2>3. CASE Goto(c, "send") /\ Answers(cli[c].st)
    BY <1>5, <1>s, <1>t, <2>1, <2>3, Steps DEF Wait, At
  <2> QED
    BY <1>5, <2>2, <2>3 DEF Wait
<1>6. CASE Reread(c)
  <2>1. c \in holders /\ UNCHANGED <<daemon, state>> /\ At(c, "reread")
    BY <1>6, <1>t DEF Reread, At, Follows, UnderLock
  <2>2. CASE Answers(state) /\ cli' = [cli EXCEPT ![c].pc = "send", ![c].st = state] /\ holders' = holders \ {c}
    BY <1>t, <2>1, <2>2, RereadWrites DEF Follows, UnderLock, At, Answers
  <2>3. CASE Unanswered(state) /\ Goto(c, "kill") /\ UNCHANGED holders
    <3>1. \A d \in Daemon : daemon[d] # "starting"
      BY <1>t, <2>1 DEF OneRuns, At
    <3>2. NoneRuns
      BY <1>a, <1>t, <2>3, <3>1 DEF OneRuns, NoneRuns, Runs, Answers
    <3> QED
      BY <1>t, <1>u, <2>1, <2>3, <3>2, Steps DEF At
  <2> QED
    BY <1>6, <2>2, <2>3 DEF Reread
<1>7. CASE Kill(c) \/ Killed(c) \/ Reap(c)
  <2>1. (At(c, "kill") /\ Kill(c)) \/ (At(c, "reap") /\ Reap(c))
    <3>1. /\ Kill(c) => At(c, "kill") \/ At(c, "stopKill")
          /\ Killed(c) => At(c, "killing") \/ At(c, "stopKilling")
          /\ Reap(c) => At(c, "reap")
      BY DEF Kill, Killed, Reap
    <3>2. \A step \in {"killing", "stopKill", "stopKilling"} : ~At(c, step)
      BY <1>t DEF At, Follows
    <3> QED
      BY <1>7, <3>1, <3>2
  <2>2. NoneRuns /\ c \in holders
    BY <1>t, <2>1 DEF At, Follows, UnderLock
  <2>3. Same /\ (Goto(c, "reap") \/ Goto(c, "spawn"))
    BY <1>n, <1>t, <2>1, <2>2 DEF Kill, Reap, At
  <2> QED
    BY <1>t, <1>u, <2>1, <2>2, <2>3, Steps DEF At
<1>8. CASE Poll(c) \/ PollAgain(c)
  <2>1. c \in holders /\ Same /\ (ReadState(c, "pollProbe") \/ Goto(c, "poll"))
    BY <1>8, <1>t DEF Poll, PollAgain, At, Follows, UnderLock
  <2> QED
    BY <1>t, <1>u, <2>1, Steps, ReadWrites DEF Reads, Goes
<1>9. CASE PollHealthy(c)
  <2>1. /\ UNCHANGED <<daemon, state>> /\ holders' = holders \ {c} /\ Goto(c, "send")
        /\ Answers(cli[c].st)
    BY <1>9 DEF PollHealthy, ReturnFrom
  <2>2. \A d \in Daemon : daemon[d] # "starting"
    BY <1>t, <2>1 DEF OneRuns, Runs, Answers
  <2> QED
    BY <1>s, <1>t, <2>1, <2>2, Steps
<1>10. CASE PollTimeout(c)
  <2>1. /\ UNCHANGED <<daemon, state>> /\ holders' = holders \ {c} /\ Goto(c, "done")
        /\ \A d \in Daemon : daemon[d] # "starting"
    BY <1>10, <1>m DEF PollTimeout, ReturnFrom, Fault
  <2> QED
    BY <1>t, <2>1, Steps DEF Goes, Follows, UnderLock
<1>11. CASE SendOk(c)
  BY <1>11, <1>b, <1>m, <1>t, Steps DEF SendOk, At, Follows, UnderLock
<1>12. ~SendTimeout(c) /\ ~SendLost(c) /\ ~Lost(c) /\ ~RetrySame(c) /\ ~Restart(c)
       /\ ~StopClean(c) /\ ~Interrupt(c)
  BY <1>a, <1>m, <1>t DEF SendTimeout, SendLost, Lost, RetrySame, Restart, StopClean, Interrupt, At,
     Follows, Fault
<1> QED
  BY <1>1, <1>2, <1>3, <1>4, <1>5, <1>6, <1>7, <1>8, <1>9, <1>10, <1>11, <1>12 DEF Step, Timeout

LEMMA CalmNextInv ==
    ASSUME LifeInv, CalmInv, [LifeNext]_lifeVars PROVE CalmInv'
<1> SUFFICES ASSUME Undisturbed' PROVE (OneRuns /\ (\A c \in Invocation : Follows(c))
                                        /\ \A c, e \in holders : c = e)'
  BY DEF CalmInv
<1>u. UNCHANGED scenario /\ Undisturbed /\ Undisturbing
  BY DEF LifeNext, lifeVars, Undisturbed, Forcing, Stopping, Undisturbing
<1>t. /\ LifeTypeOK /\ OneRuns /\ (\A c \in Invocation : Follows(c)) /\ holders \subseteq Invocation
      /\ (\A a, b \in holders : a = b) /\ NoDaemon \notin Daemon
      /\ daemon \in [Daemon -> LifeStates]
      /\ \A c \in Invocation : cli[c].st \in Daemon \cup {NoDaemon}
  BY <1>u DEF CalmInv, LifeInv, LifeTypeOK, NoDaemon, Daemon, LifeStates, CliState
<1>1. CASE UNCHANGED lifeVars
  BY <1>1, <1>t DEF lifeVars, OneRuns, Runs, Follows, Answers, NoneRuns
<1>2. ASSUME NEW c \in Invocation, Step(c) \/ Timeout(c) \/ Interrupt(c), ~Spawn(c)
      PROVE  (OneRuns /\ (\A e \in Invocation : Follows(e)) /\ \A e, f \in holders : e = f)'
  <2>1. /\ UNCHANGED <<daemon, state>> /\ Only(c)
        /\ Follows(c)'
        /\ \/ UNCHANGED holders
           \/ holders = {} /\ holders' = {c}
           \/ holders' = holders \ {c}
        /\ cli[c].pc \in {"poll", "pollProbe"} =>
              cli'[c].pc \in {"poll", "pollProbe"} \/ \A d \in Daemon : daemon[d] # "starting"
    BY <1>2, <1>t, <1>u, CalmStep, OnlyOne
  <2>2. ASSUME NEW e \in Invocation, e # c PROVE Follows(e)'
    <3>1. cli'[e] = cli[e] /\ Follows(e) /\ (e \in holders' <=> e \in holders)
      BY <1>t, <2>1, <2>2 DEF Only
    <3> QED
      BY <2>1, <3>1 DEF Follows, Answers, NoneRuns, Runs
  <2>3. OneRuns'
    <3>1. ASSUME NEW d \in Daemon, daemon[d] = "starting"
          PROVE  \E e \in holders' : cli'[e].pc \in {"poll", "pollProbe"}
      <4>1. PICK e \in holders : cli[e].pc \in {"poll", "pollProbe"}
        BY <1>t, <3>1 DEF OneRuns
      <4>2. cli'[e].pc \in {"poll", "pollProbe"}
        BY <1>t, <2>1, <3>1, <4>1 DEF Only
      <4>3. e \in holders'
        <5>1. CASE e = c
          BY <2>1, <4>2, <5>1 DEF Follows, UnderLock
        <5>2. CASE e # c
          BY <2>1, <4>1, <5>2
        <5> QED
          BY <5>1, <5>2
      <4> QED
        BY <4>2, <4>3
    <3> QED
      BY <1>t, <2>1, <3>1 DEF OneRuns, Runs
  <2>4. \A e, f \in holders' : e = f
    BY <1>t, <2>1
  <2> QED
    BY <2>1, <2>2, <2>3, <2>4
<1>3. ASSUME NEW c \in Invocation, Spawn(c)
      PROVE  (OneRuns /\ (\A e \in Invocation : Follows(e)) /\ \A e, f \in holders : e = f)'
  <2>1. NoneRuns /\ c \in holders /\ At(c, "spawn") /\ UNCHANGED holders
    BY <1>3, <1>t DEF Spawn, At, Follows, UnderLock
  <2>2. Only(c) /\ cli'[c].pc = "poll"
    BY <1>3, <1>t, Steps DEF Spawn, Goes
  <2>3. PICK d \in Daemon : daemon' = [daemon EXCEPT ![d] = "starting"]
    BY <1>3 DEF Spawn, Fresh
  <2>4. \A e \in Daemon : daemon'[e] = IF e = d THEN "starting" ELSE daemon[e]
    BY <1>t, <2>3
  <2>5. OneRuns'
    BY <1>t, <2>1, <2>2, <2>4 DEF OneRuns, NoneRuns, Runs
  <2>6. ASSUME NEW e \in Invocation PROVE Follows(e)'
    <3>1. CASE e = c
      BY <2>1, <2>2, <3>1 DEF Follows, UnderLock
    <3>2. CASE e # c
      <4>1. cli'[e] = cli[e] /\ Follows(e) /\ e \notin holders
        BY <1>t, <2>1, <2>2, <3>2 DEF Only
      <4>2. cli[e].pc # "send"
        BY <1>t, <2>1, <4>1 DEF Follows, Answers, NoneRuns, Runs, OneRuns
      <4> QED
        BY <2>1, <4>1, <4>2 DEF Follows, UnderLock
    <3> QED
      BY <3>1, <3>2
  <2> QED
    BY <1>t, <2>1, <2>5, <2>6
<1>4. ASSUME NEW d \in Daemon, Live(d)
      PROVE  (OneRuns /\ (\A e \in Invocation : Follows(e)) /\ \A e, f \in holders : e = f)'
  <2>1. /\ daemon[d] = "starting" /\ daemon' = [daemon EXCEPT ![d] = "up"] /\ state' = d
        /\ UNCHANGED <<holders, cli>>
    BY <1>4, <1>t, <1>u DEF Live, Publish, BeginShutdown, Exit, Crash, Undisturbed, May, OneRuns
  <2>2. \A e \in Daemon : daemon'[e] = IF e = d THEN "up" ELSE daemon[e]
    BY <1>t, <2>1
  <2>3. \A e \in Daemon : Runs(e)' <=> Runs(e)
    BY <2>1, <2>2 DEF Runs
  <2>4. OneRuns'
    BY <1>t, <2>1, <2>2, <2>3 DEF OneRuns, Runs
  <2>5. ASSUME NEW e \in Invocation PROVE Follows(e)'
    BY <1>t, <2>1, <2>2, <2>3 DEF Follows, NoneRuns, Answers
  <2> QED
    BY <1>t, <2>1, <2>4, <2>5
<1>5. ~Upgrade
  BY <1>u DEF Upgrade, Undisturbed, May
<1> QED
  BY <1>1, <1>2, <1>3, <1>4, <1>5 DEF LifeNext, Step

(* One daemon per project: two invocations do not both start one, however    *)
(* many there are and however they interleave (CHANGELOG.md:9482), as long   *)
(* as what goes on besides them is no "stop".                                *)
THEOREM OneDaemonRuns ==
    ASSUME \A s \in Scenario : s.faults = {} /\ s.forcing = {} => s.stopping = {}
    PROVE  LifeSpec => []OneDaemon
<1>1. LifeInv /\ CalmInv /\ [LifeNext]_lifeVars => LifeInv' /\ CalmInv'
  BY LifeNextInv, CalmNextInv
<1>2. LifeInv /\ CalmInv => OneDaemon
  <2> DEFINE R == {d \in Daemon : daemon[d] \in {"starting", "up"}}
  <2> SUFFICES ASSUME LifeInv, CalmInv, scenario.faults = {}, Forcing = {}
               PROVE  Cardinality(R) <= 1
    BY DEF OneDaemon
  <2>1. OneRuns
    BY DEF LifeInv, LifeTypeOK, CalmInv, Undisturbed, Forcing, Stopping
  <2>2. \A d, e \in R : d = e
    BY <2>1 DEF OneRuns, Runs
  <2>3. CASE R = {}
    BY <2>3, FS_EmptySet
  <2>4. CASE R # {}
    <3>1. PICK d : R = {d}
      BY <2>2, <2>4
    <3> QED
      BY <3>1, FS_Singleton
  <2> QED
    BY <2>3, <2>4
<1> QED
  BY <1>1, <1>2, LifeInitInv, CalmInitInv, PTL DEF LifeSpec
=============================================================================
