------------------------- MODULE LocalDaemons_proofs -------------------------
(***************************************************************************)
(* The other daemons of the user: the boards of the design daemon and the  *)
(* invocations that start it, for any requests, directories, cap, times and *)
(* invocations; the requests of the iOS daemon, for any bound on mishaps.  *)
(***************************************************************************)
EXTENDS DesignBoards, DesignClient, IosDaemon, FiniteSetTheorems, TLAPS

-----------------------------------------------------------------------------
(* The boards (DesignBoards).                                              *)

\* The cap holds between requests.
CapInv == IsFiniteSet(DOMAIN boards) /\ Cardinality(DOMAIN boards) <= MaxBoards

\* The ids in use have been given out.
IdInv == published \in Nat /\ DOMAIN boards \subseteq 1..published

\* What the idle timer counts is the time since the last work on a board.
TimeInv ==
    /\ {idle, extensions, quiet} \subseteq Nat
    /\ quiet = idle + extensions
    /\ phase \in {"up", "armed", "down", "expired"}
    /\ phase # "expired" => idle < IdleTime
    /\ extensions <= MaxExtensions
    /\ phase = "expired" =>
          /\ idle >= IdleTime
          /\ Active(boards) # {} => extensions >= MaxExtensions

-----------------------------------------------------------------------------
(* The cap and the eviction.                                                *)

\* The domain of boards after a step that does not publish.
LEMMA OthersKeepTheBoards ==
    ASSUME [BoardsNext]_boardsVars, ~\E d \in SourceDir : Publish(d)
    PROVE  DOMAIN boards' = DOMAIN boards /\ published' = published
<1>1. ASSUME NEW p \in Post, Apply(p)
      PROVE  DOMAIN boards' = DOMAIN boards /\ published' = published
  BY <1>1 DEF Apply
<1>2. ASSUME UNCHANGED <<boards, published>>
      PROVE  DOMAIN boards' = DOMAIN boards /\ published' = published
  BY <1>2
<1>3. ASSUME NEW p \in Post, NEW b \in DOMAIN boards, NEW r \in Request, Requested(p, b, r)
      PROVE  UNCHANGED <<boards, published>>
  BY <1>3 DEF Requested
<1>4. ASSUME NEW p \in Post, Refused(p) PROVE UNCHANGED <<boards, published>>
  BY <1>4 DEF Refused
<1>5. CASE Shutdown \/ gracefulShutdown \/ idleCheckTick \/ UNCHANGED boardsVars
  BY <1>2, <1>5 DEF Shutdown, gracefulShutdown, idleCheckTick, boardsVars
<1> QED
  BY <1>1, <1>2, <1>3, <1>4, <1>5 DEF BoardsNext

\* A board that is published comes on top, and what goes for it was done.
LEMMA PublishEvicts ==
    ASSUME CapInv, IdInv, NEW d \in SourceDir, Publish(d)
    PROVE  /\ CapInv'
           /\ IdInv'
           /\ \A b \in DOMAIN boards \ DOMAIN boards' : boards[b].state = "done"
<1> DEFINE new == published + 1
           bs == [b \in DOMAIN boards \cup {new} |->
                    IF b = new THEN [dir |-> d, state |-> "serving"] ELSE boards[b]]
<1>1. /\ DOMAIN bs = DOMAIN boards \cup {new} /\ new \notin DOMAIN boards
      /\ \A b \in DOMAIN boards : bs[b] = boards[b]
      /\ bs[new].state = "serving"
  BY DEF IdInv
<1>2. boards' \in Evicted(bs) /\ published' = new /\ ~Full
  BY DEF Publish
<1> HIDE DEF bs
<1>3. /\ IsFiniteSet(DOMAIN bs) /\ Cardinality(DOMAIN bs) = Cardinality(DOMAIN boards) + 1
      /\ Cardinality(DOMAIN boards) \in Nat /\ MaxBoards \in Nat
  BY <1>1, FS_AddElement, FS_CardinalityType, BoardsAssumption DEF CapInv
<1>4. new \in Active(bs) /\ Active(bs) \cap DOMAIN boards = Active(boards)
  BY <1>1 DEF Active
<1>5. CASE boards' = bs /\ Cardinality(DOMAIN bs) <= MaxBoards
  BY <1>1, <1>2, <1>3, <1>5 DEF CapInv, IdInv
<1>6. CASE Cardinality(DOMAIN bs) > MaxBoards
  <2>1. Cardinality(DOMAIN boards) = MaxBoards
    BY <1>3, <1>6 DEF CapInv
  <2>2. Active(bs) # DOMAIN bs
    <3>1. Active(boards) # DOMAIN boards
      BY <1>2, <1>3, <2>1 DEF Full
    <3> QED
      BY <1>1, <1>4, <3>1
  <2>3. PICK b \in DOMAIN bs \ Active(bs) : boards' = Without(bs, b)
    BY <1>2, <1>3, <1>6, <2>2 DEF Evicted, Victims
  <2>4. b \in DOMAIN boards /\ boards[b].state = "done"
    BY <1>1, <1>4, <2>3 DEF Active
  <2>5. DOMAIN boards' = DOMAIN bs \ {b}
    BY <2>3 DEF Without
  <2>6. IsFiniteSet(DOMAIN boards') /\ Cardinality(DOMAIN boards') = Cardinality(DOMAIN bs) - 1
    BY <1>3, <2>3, <2>5, FS_RemoveElement
  <2> QED
    BY <1>1, <1>2, <1>3, <2>1, <2>4, <2>5, <2>6 DEF CapInv, IdInv
<1> QED
  BY <1>2, <1>3, <1>5, <1>6 DEF Evicted, CapInv

(* No board that is not done is evicted, for any cap.                       *)
THEOREM OnlyDoneIsEvicted == BoardsSpec => EvictedAreDone
<1>1. BoardsInit => CapInv /\ IdInv
  <2>1. DOMAIN <<>> = {}
    OBVIOUS
  <2>2. IsFiniteSet({}) /\ Cardinality({}) = 0 /\ MaxBoards >= 0
    BY FS_EmptySet, BoardsAssumption
  <2> QED
    BY <2>1, <2>2 DEF BoardsInit, CapInv, IdInv
<1>2. CapInv /\ IdInv /\ [BoardsNext]_boardsVars => CapInv' /\ IdInv'
  <2> SUFFICES ASSUME CapInv, IdInv, [BoardsNext]_boardsVars PROVE CapInv' /\ IdInv'
    OBVIOUS
  <2>1. CASE \E d \in SourceDir : Publish(d)
    BY <2>1, PublishEvicts
  <2>2. CASE ~\E d \in SourceDir : Publish(d)
    BY <2>2, OthersKeepTheBoards DEF CapInv, IdInv
  <2> QED
    BY <2>1, <2>2
<1>3. CapInv /\ IdInv /\ [BoardsNext]_boardsVars =>
         [\A b \in DOMAIN boards \ DOMAIN boards' : boards[b].state = "done"]_boardsVars
  <2> SUFFICES ASSUME CapInv, IdInv, [BoardsNext]_boardsVars
               PROVE  \A b \in DOMAIN boards \ DOMAIN boards' : boards[b].state = "done"
    OBVIOUS
  <2>1. CASE \E d \in SourceDir : Publish(d)
    BY <2>1, PublishEvicts
  <2>2. CASE ~\E d \in SourceDir : Publish(d)
    BY <2>2, OthersKeepTheBoards
  <2> QED
    BY <2>1, <2>2
<1> QED
  BY <1>1, <1>2, <1>3, PTL DEF BoardsSpec, EvictedAreDone

-----------------------------------------------------------------------------
(* The idle timer.                                                          *)

\* Every step keeps what the timer counts.
LEMMA TimeStep == TimeInv /\ [BoardsNext]_boardsVars => TimeInv'
<1> SUFFICES ASSUME TimeInv, [BoardsNext]_boardsVars PROVE TimeInv'
  OBVIOUS
<1>0. {IdleTime, MaxExtensions} \subseteq Nat /\ IdleTime > 0
  BY BoardsAssumption
\* Work on a board, which only a running daemon does.
<1>1. ASSUME Running, idle' = 0, extensions' = 0, quiet' = 0, phase' = phase PROVE TimeInv'
  BY <1>0, <1>1 DEF TimeInv, Running
\* What leaves the clock alone.
<1>2. ASSUME UNCHANGED <<boards, idle, extensions, quiet>>,
             phase' \in {phase, "armed", "down"}, phase' # phase => Running
      PROVE  TimeInv'
  BY <1>0, <1>2 DEF TimeInv, Running, Active
<1>3. ASSUME NEW d \in SourceDir, Publish(d) PROVE TimeInv'
  BY <1>1, <1>3 DEF Publish, markMeaningfulActivity
<1>4. ASSUME NEW p \in Post, Apply(p) PROVE TimeInv'
  BY <1>1, <1>4 DEF Apply, Turn, markMeaningfulActivity
<1>5. ASSUME NEW p \in Post, Refused(p) PROVE TimeInv'
  BY <1>2, <1>5 DEF Refused
<1>6. ASSUME NEW p \in Post, NEW b \in DOMAIN boards, NEW r \in Request, Requested(p, b, r)
      PROVE  TimeInv'
  BY <1>2, <1>6 DEF Requested
<1>7. CASE Shutdown \/ gracefulShutdown \/ UNCHANGED boardsVars
  BY <1>2, <1>7 DEF Shutdown, gracefulShutdown, Running, boardsVars
<1>8. CASE idleCheckTick
  BY <1>0, <1>8 DEF idleCheckTick, TimeInv, Active
<1> QED
  BY <1>3, <1>4, <1>5, <1>6, <1>7, <1>8 DEF BoardsNext

(* The idle timer spares a daemon with boards that are not done until the   *)
(* ceiling, and never longer, for any times.                                *)
THEOREM IdleIsBounded == BoardsSpec => []IdleWithinBounds
<1>0. {IdleTime, MaxExtensions} \subseteq Nat /\ IdleTime > 0
  BY BoardsAssumption
<1>1. BoardsInit => TimeInv
  BY <1>0 DEF BoardsInit, TimeInv
<1>2. TimeInv => IdleWithinBounds
  BY <1>0 DEF TimeInv, IdleWithinBounds
<1> QED
  BY <1>1, <1>2, TimeStep, PTL DEF BoardsSpec

-----------------------------------------------------------------------------
(* The start of the design daemon (DesignClient): invocations of one       *)
(* version, none of them killed, no daemon late and no live one's lock     *)
(* unlinked.                                                               *)

Untroubled == OneVersion /\ trouble \subseteq {"crash"}
Runs(d) == daemon[d].life \in {"starting", "up"}

\* An invocation that deals with a daemon knows which.
PidKnown ==
    \A u \in User :
        user[u].pc \in {"probe", "shutdown", "kill", "awaitDeath"} => user[u].pid # NoPid

\* No daemon is of another version, so none is ever told to shut down, and
\* the daemon an invocation wants to end is ended already.
NoneUnwanted ==
    /\ \A u \in User, d \in Pid : daemon[d].version = user[u].version
    /\ \A d \in Pid : daemon[d].life # "armed"
    /\ \A u \in User :
          /\ user[u].pc \notin {"shutdown", "refused", "killed"}
          /\ user[u].pc = "probe" => daemon[user[u].pid].life # "starting"
          /\ user[u].pc = "kill" => ~Runs(user[u].pid)

\* What is done under the lock is done by the one that holds it.
UnderTheLock ==
    \A u \in User : user[u].pc \in {"name", "reread", "spawn", "poll"} <=> lockHolder = u

\* The holder starts a daemon when there is none, and waits until it is up.
StartedUnderLock ==
    /\ \A d \in Pid : daemon[d].life = "starting" =>
           lockHolder # NoUser /\ user[lockHolder].pc = "poll"
    /\ \A u \in User : user[u].pc = "spawn" => \A d \in Pid : ~Runs(d)

\* The daemon that is up is the one the state file names, and the only one.
OneRuns ==
    /\ \A d, e \in Pid : Runs(d) /\ Runs(e) => d = e
    /\ \A d \in Pid : daemon[d].life = "up" => stateFile = d
    /\ stateFile # NoPid => daemon[stateFile].life # "starting"

ClientInv ==
    /\ ClientTypeOK /\ PidKnown
    /\ Untroubled => NoneUnwanted /\ UnderTheLock /\ StartedUnderLock /\ OneRuns

Lives == {"starting", "up", "armed", "closing", "dead"}
Steps == {"new", "probe", "refused", "shutdown", "kill", "awaitDeath", "lock", "name", "look",
          "unlink", "wait", "reread", "spawn", "poll", "attached", "published", "failed", "killed"}
DaemonType == [life : Lives, version : Version, active : BOOLEAN]
UserType == [User -> [pc : Steps, version : Version, pid : Pid \cup {NoPid}]]

\* An invocation goes to another step, the others stay.
LEMMA GoWithWrites ==
    ASSUME ClientTypeOK, NEW u \in User, NEW to \in Steps, NEW d \in Pid \cup {NoPid},
           GoWith(u, to, d)
    PROVE  /\ user' \in UserType
           /\ user'[u].pc = to /\ user'[u].pid = d
           /\ \A v \in User : user'[v].version = user[v].version
           /\ \A v \in User \ {u} : user'[v] = user[v]
<1> DEFINE gone == [user[u] EXCEPT !.pc = to, !.pid = d]
<1>1. user \in UserType
  BY DEF ClientTypeOK, UserType, Steps
<1>2. user' = [user EXCEPT ![u] = gone]
  BY DEF GoWith
<1>3. /\ gone \in [pc : Steps, version : Version, pid : Pid \cup {NoPid}]
      /\ gone.pc = to /\ gone.pid = d /\ gone.version = user[u].version
  BY <1>1 DEF UserType
<1> HIDE DEF gone
<1> QED
  BY <1>1, <1>2, <1>3 DEF UserType

LEMMA GoWrites ==
    ASSUME ClientTypeOK, NEW u \in User, NEW to \in Steps, Go(u, to)
    PROVE  /\ user' \in UserType
           /\ user'[u].pc = to
           /\ to \in {"shutdown", "kill", "awaitDeath", "attached"} => user'[u].pid = user[u].pid
           /\ \A v \in User : user'[v].version = user[v].version
           /\ \A v \in User \ {u} : user'[v] = user[v]
<1>1. user[u].pid \in Pid \cup {NoPid}
  BY DEF ClientTypeOK
<1>2. CASE to \in {"shutdown", "kill", "awaitDeath", "attached"}
  BY <1>1, <1>2, GoWithWrites DEF Go
<1>3. CASE to \notin {"shutdown", "kill", "awaitDeath", "attached"}
  BY <1>3, GoWithWrites DEF Go
<1> QED
  BY <1>2, <1>3

\* A daemon goes on in its life, the others stay as they are.
LEMMA LifeWrites ==
    ASSUME ClientTypeOK, NEW d \in Pid, NEW x \in Lives,
           daemon' = [daemon EXCEPT ![d].life = x]
    PROVE  /\ daemon' \in Seq(DaemonType) /\ Len(daemon') = Len(daemon) /\ Pid' = Pid
           /\ daemon'[d].life = x
           /\ \A e \in Pid : daemon'[e].version = daemon[e].version
           /\ \A e \in Pid \ {d} : daemon'[e] = daemon[e]
<1>1. daemon \in Seq(DaemonType) /\ Pid = 1..Len(daemon)
  BY DEF ClientTypeOK, Pid, DaemonType, Lives
<1> DEFINE later == [daemon[d] EXCEPT !.life = x]
<1>0. daemon[d] \in DaemonType
  BY <1>1
<1>2. later \in DaemonType /\ later.life = x /\ later.version = daemon[d].version
  BY <1>0 DEF DaemonType
<1>3. daemon' = [daemon EXCEPT ![d] = later]
  OBVIOUS
<1> HIDE DEF later
<1> QED
  BY <1>1, <1>2, <1>3 DEF Pid

LEMMA ActiveWrites ==
    ASSUME ClientTypeOK, NEW d \in Pid, NEW b \in BOOLEAN,
           daemon' = [daemon EXCEPT ![d].active = b]
    PROVE  /\ daemon' \in Seq(DaemonType) /\ Len(daemon') = Len(daemon) /\ Pid' = Pid
           /\ \A e \in Pid : /\ daemon'[e].version = daemon[e].version
                             /\ daemon'[e].life = daemon[e].life
<1>1. daemon \in Seq(DaemonType) /\ Pid = 1..Len(daemon)
  BY DEF ClientTypeOK, Pid, DaemonType, Lives
<1> DEFINE later == [daemon[d] EXCEPT !.active = b]
<1>0. daemon[d] \in DaemonType
  BY <1>1
<1>2. /\ later \in DaemonType /\ later.life = daemon[d].life
      /\ later.version = daemon[d].version
  BY <1>0 DEF DaemonType
<1>3. daemon' = [daemon EXCEPT ![d] = later]
  OBVIOUS
<1> HIDE DEF later
<1> QED
  BY <1>1, <1>2, <1>3 DEF Pid

LEMMA SpawnWrites ==
    ASSUME ClientTypeOK, NEW u \in User, Spawn(u)
    PROVE  /\ daemon' \in Seq(DaemonType) /\ Len(daemon') <= MaxStarted
           /\ Pid' = Pid \cup {Len(daemon) + 1} /\ Len(daemon) + 1 \notin Pid
           /\ daemon'[Len(daemon) + 1].life = "starting"
           /\ daemon'[Len(daemon) + 1].version = user[u].version
           /\ \A e \in Pid : daemon'[e] = daemon[e]
<1>1. daemon \in Seq(DaemonType) /\ Pid = 1..Len(daemon) /\ Len(daemon) \in Nat
  BY DEF ClientTypeOK, Pid, DaemonType, Lives
<1> DEFINE new == [life |-> "starting", version |-> user[u].version, active |-> FALSE]
<1>2. new \in DaemonType /\ new.life = "starting" /\ new.version = user[u].version
  BY DEF DaemonType, Lives, ClientTypeOK
<1>3. daemon' = Append(daemon, new)
  BY DEF Spawn
<1>4. Cardinality(Pid) = Len(daemon)
  BY <1>1, FS_Interval
<1>5. Len(daemon) + 1 <= MaxStarted
  BY <1>1, <1>4, ClientAssumption DEF Spawn
<1> HIDE DEF new
<1> QED
  BY <1>1, <1>2, <1>3, <1>5 DEF Pid

LEMMA ClientInitInv == ClientInit => ClientInv
<1> SUFFICES ASSUME ClientInit PROVE ClientInv
  OBVIOUS
<1> USE ClientAssumption DEF ClientInit
<1>1. Pid = {} /\ Len(daemon) = 0 /\ daemon \in Seq(DaemonType)
  BY DEF Pid
<1>2. ClientTypeOK
  <2>1. /\ daemon \in Seq([life : {"starting", "up", "armed", "closing", "dead"},
                          version : Version, active : BOOLEAN])
        /\ Len(daemon) <= MaxStarted
    BY <1>1 DEF DaemonType, Lives
  <2>2. user \in UserType
    BY DEF UserType, Steps
  <2> QED
    BY <2>1, <2>2 DEF ClientTypeOK, UserType, Steps
<1>3. \A u \in User : user[u].pc = "new"
  OBVIOUS
<1>4. PidKnown /\ NoneUnwanted /\ StartedUnderLock
  BY <1>1, <1>3 DEF PidKnown, NoneUnwanted, StartedUnderLock
<1>5. UnderTheLock
  BY <1>3 DEF UnderTheLock
<1>6. OneRuns
  BY <1>1 DEF OneRuns
<1> QED
  BY <1>2, <1>4, <1>5, <1>6 DEF ClientInv

\* The types, put together from what a step writes.
LEMMA ClientTyped ==
    ASSUME daemon' \in Seq(DaemonType), Len(daemon') <= MaxStarted,
           stateFile' \in Pid' \cup {NoPid}, lockHolder' \in User \cup {NoUser},
           lockNamed' \in BOOLEAN, trouble' \subseteq Trouble \cup {"stolen"}, user' \in UserType, Pid \subseteq Pid'
    PROVE  ClientTypeOK'
  BY DEF ClientTypeOK, DaemonType, UserType, Lives, Steps

LEMMA ClientTypeStep == ClientTypeOK /\ PidKnown /\ ClientNext => ClientTypeOK'
<1> SUFFICES ASSUME ClientTypeOK, PidKnown, ClientNext PROVE ClientTypeOK'
  OBVIOUS
<1>n. /\ daemon \in Seq(DaemonType) /\ user \in UserType /\ Len(daemon) <= MaxStarted
      /\ stateFile \in Pid \cup {NoPid} /\ lockHolder \in User \cup {NoUser}
      /\ lockNamed \in BOOLEAN /\ trouble \subseteq Trouble \cup {"stolen"}
  BY DEF ClientTypeOK, DaemonType, UserType, Lives, Steps
<1>m. ASSUME UNCHANGED daemon PROVE Pid' = Pid
  BY <1>m DEF Pid
<1>1. ASSUME NEW u \in User,
             \/ ReadState(u) \/ Probe(u) \/ ProbeTimesOut(u) \/ Lock(u) \/ NameLock(u)
             \/ ReadLock(u) \/ UnlinkLock(u) \/ WaitEnds(u) \/ WaitTimesOut(u) \/ Reread(u)
             \/ Started(u) \/ StartTimesOut(u) \/ Killed(u)
      PROVE  ClientTypeOK'
  <2>1. user' \in UserType
    BY <1>1, <1>n, GoWrites, GoWithWrites
       DEF ReadState, Probe, ProbeTimesOut, Judged, Lock, NameLock, ReadLock, UnlinkLock, WaitEnds, WaitTimesOut, Reread, Started,
           StartTimesOut, Killed, Steps
  <2>2. UNCHANGED <<daemon, stateFile>> /\ trouble' \subseteq Trouble \cup {"stolen"}
    BY <1>1, <1>n DEF ReadState, Probe, ProbeTimesOut, Lock, NameLock, ReadLock, UnlinkLock,
           WaitEnds, WaitTimesOut, Reread, Started, StartTimesOut, Killed, Meets, StolenBy
  <2>3. lockHolder' \in User \cup {NoUser} /\ lockNamed' \in BOOLEAN
    BY <1>1, <1>n DEF ReadState, Probe, ProbeTimesOut, Lock, NameLock, ReadLock, UnlinkLock,
           WaitEnds, WaitTimesOut, Reread, Started, StartTimesOut, Killed, Unlinks, lockVars
  <2> QED
    BY <1>n, <1>m, <2>1, <2>2, <2>3, ClientTyped
<1>2. ASSUME NEW u \in User, PostShutdown(u) \/ KillDaemon(u) \/ AwaitDeath(u) \/ PublishBoard(u)
      PROVE  ClientTypeOK'
  <2> DEFINE d == user[u].pid
  <2>1. user' \in UserType
    BY <1>2, <1>n, GoWrites DEF PostShutdown, KillDaemon, AwaitDeath, PublishBoard, Steps
  <2>2. /\ daemon' \in Seq(DaemonType) /\ Len(daemon') = Len(daemon) /\ Pid' = Pid
    <3>1. d \in Pid \cup {NoPid}
      BY <1>n DEF UserType
    <3>2. CASE UNCHANGED daemon
      BY <1>m, <1>n, <3>2
    <3>3. CASE d \in Pid /\ \E x \in Lives : daemon' = [daemon EXCEPT ![d].life = x]
      BY <3>3, LifeWrites
    <3>4. CASE d \in Pid /\ daemon' = [daemon EXCEPT ![d].active = TRUE]
      BY <3>4, ActiveWrites
    <3>5. CASE PostShutdown(u)
      BY <3>1, <3>2, <3>3, <3>5 DEF PostShutdown, PidKnown, UserAt, Lives
    <3>6. CASE KillDaemon(u)
      BY <3>1, <3>2, <3>3, <3>6 DEF KillDaemon, Serves, Stops, Lives
    <3>7. CASE AwaitDeath(u)
      BY <3>1, <3>2, <3>3, <3>7 DEF AwaitDeath, Alive, Lives
    <3>8. CASE PublishBoard(u)
      BY <3>1, <3>2, <3>4, <3>8 DEF PublishBoard, Serves
    <3> QED
      BY <1>2, <3>5, <3>6, <3>7, <3>8
  <2>3. /\ stateFile' \in {stateFile, NoPid} /\ trouble' \subseteq Trouble \cup {"stolen"}
        /\ UNCHANGED lockVars
    BY <1>2, <1>n DEF PostShutdown, KillDaemon, AwaitDeath, PublishBoard, Stops, Meets
  <2> QED
    BY <1>n, <2>1, <2>2, <2>3, ClientTyped DEF lockVars
<1>3. ASSUME NEW u \in User, Spawn(u)
      PROVE  ClientTypeOK'
  <2>1. user' \in UserType
    BY <1>3, GoWrites DEF Spawn, Steps
  <2> QED
    BY <1>3, <1>n, <2>1, SpawnWrites, ClientTyped DEF Spawn, lockVars
<1>4. ASSUME NEW d \in Pid, Up(d) \/ Disarm(d) \/ Expire(d) \/ ExitDaemon(d) \/ Crash(d)
      PROVE  ClientTypeOK'
  <2>1. /\ daemon' \in Seq(DaemonType) /\ Len(daemon') = Len(daemon) /\ Pid' = Pid
    BY <1>4, LifeWrites DEF Up, Disarm, Expire, ExitDaemon, Crash, Stops, Lives
  <2>2. stateFile' \in {stateFile, d, NoPid} /\ trouble' \subseteq Trouble \cup {"stolen"}
        /\ UNCHANGED <<lockVars, user>>
    BY <1>4, <1>n DEF Up, Disarm, Expire, ExitDaemon, Crash, Stops, Meets
  <2> QED
    BY <1>n, <2>1, <2>2, ClientTyped DEF lockVars
<1>5. ASSUME NEW d \in Pid, Submit(d)
      PROVE  ClientTypeOK'
  BY <1>5, <1>n, ActiveWrites, ClientTyped DEF Submit, lockVars
<1> QED
  BY <1>1, <1>2, <1>3, <1>4, <1>5 DEF ClientNext

LEMMA PidKnownStep == ClientTypeOK /\ PidKnown /\ ClientNext => PidKnown'
<1> SUFFICES ASSUME ClientTypeOK, PidKnown, ClientNext PROVE PidKnown'
  OBVIOUS
<1>1. ASSUME NEW u \in User, ReadState(u)
      PROVE  PidKnown'
  BY <1>1, GoWithWrites DEF ReadState, PidKnown, ClientTypeOK, Steps
<1>2. ASSUME NEW u \in User,
             \/ Probe(u) \/ ProbeTimesOut(u) \/ PostShutdown(u) \/ KillDaemon(u)
      PROVE  PidKnown'
  <2>1. PICK to \in Steps \ {"probe"} : Go(u, to)
    BY <1>2 DEF Probe, ProbeTimesOut, PostShutdown, KillDaemon, Judged, Steps
  <2>2. user[u].pid # NoPid
    BY <1>2 DEF Probe, ProbeTimesOut, PostShutdown, KillDaemon, PidKnown, UserAt
  <2> QED
    BY <2>1, <2>2, GoWrites DEF PidKnown
<1>3. ASSUME NEW u \in User,
             \/ AwaitDeath(u) \/ Lock(u) \/ NameLock(u) \/ ReadLock(u) \/ UnlinkLock(u)
             \/ WaitEnds(u) \/ WaitTimesOut(u) \/ Reread(u) \/ Spawn(u) \/ Started(u) \/ StartTimesOut(u) \/ PublishBoard(u) \/ Killed(u)
      PROVE  PidKnown'
  <2>1. stateFile \in Pid \cup {NoPid}
    BY DEF ClientTypeOK
  <2>2. /\ user'[u].pc \in {"lock", "name", "look", "unlink", "wait", "reread", "spawn", "poll",
                            "attached", "published", "failed", "killed"}
        /\ \A v \in User \ {u} : user'[v] = user[v]
    BY <1>3, <2>1, GoWrites, GoWithWrites
       DEF AwaitDeath, Lock, NameLock, ReadLock, UnlinkLock, WaitEnds, WaitTimesOut, Reread, Spawn, Started, StartTimesOut,
           PublishBoard, Killed, Steps
  <2> QED
    BY <2>2 DEF PidKnown
<1>4. CASE UNCHANGED user
  BY <1>4 DEF PidKnown
<1> QED
  BY <1>1, <1>2, <1>3, <1>4 DEF ClientNext, Up, Disarm, Expire, ExitDaemon, Crash, Submit

-----------------------------------------------------------------------------
\* What holds of invocations of one version without trouble.
OneDaemonCore == NoneUnwanted /\ UnderTheLock /\ StartedUnderLock /\ OneRuns

SameLives ==
    /\ Pid' = Pid
    /\ \A d \in Pid : daemon'[d].life = daemon[d].life /\ daemon'[d].version = daemon[d].version

LEMMA SameVersions ==
    ASSUME NEW u \in User, OneDaemonCore, SameLives,
           \A v \in User : user'[v].version = user[v].version
    PROVE  \A v \in User, d \in Pid' : daemon'[d].version = user'[v].version
  BY DEF OneDaemonCore, NoneUnwanted, SameLives

\* An invocation moves outside the lock, and the daemons live as before.
LEMMA OutsideTheLock ==
    ASSUME ClientTypeOK, PidKnown, PidKnown', OneDaemonCore, SameLives, NEW u \in User,
           UNCHANGED <<stateFile, lockHolder>>,
           \A v \in User : user'[v].version = user[v].version,
           \A v \in User \ {u} : user'[v] = user[v],
           user[u].pc \notin {"name", "reread", "spawn", "poll"},
           user'[u].pc \notin {"name", "reread", "spawn", "poll", "shutdown", "refused", "killed"},
           user'[u].pc \in {"probe", "kill", "awaitDeath"} => user'[u].pid \in Pid,
           user'[u].pc = "probe" => daemon[user'[u].pid].life # "starting",
           user'[u].pc = "kill" => ~Runs(user'[u].pid)
    PROVE  OneDaemonCore'
<1> USE DEF OneDaemonCore
<1>1. \A v \in User \ {u} : user[v].pc \in {"probe", "kill"} => user[v].pid \in Pid
  BY DEF PidKnown, ClientTypeOK
<1>2. NoneUnwanted'
  <2>1. \A v \in User, d \in Pid' : daemon'[d].version = user'[v].version
    BY SameVersions
  <2> QED
    BY <1>1, <2>1 DEF NoneUnwanted, SameLives, Runs
<1>3. UnderTheLock'
  BY DEF UnderTheLock
<1>4. StartedUnderLock'
  <2>1. ASSUME NEW d \in Pid, daemon[d].life = "starting"
        PROVE  lockHolder # NoUser /\ user'[lockHolder].pc = "poll"
    BY <2>1 DEF StartedUnderLock, ClientTypeOK
  <2> QED
    BY <2>1 DEF StartedUnderLock, SameLives, Runs
<1>5. OneRuns'
  BY DEF OneRuns, SameLives, Runs, ClientTypeOK
<1> QED
  BY <1>2, <1>3, <1>4, <1>5, Zenon

LEMMA OutsideSteps ==
    ASSUME ClientTypeOK, PidKnown, PidKnown', Untroubled', OneDaemonCore, NEW u \in User,
           \/ ReadState(u) \/ Probe(u) \/ ProbeTimesOut(u) \/ PostShutdown(u) \/ KillDaemon(u)
           \/ AwaitDeath(u) \/ ReadLock(u) \/ UnlinkLock(u) \/ WaitEnds(u) \/ WaitTimesOut(u)
           \/ PublishBoard(u) \/ Killed(u)
    PROVE  OneDaemonCore'
<1> USE DEF OneDaemonCore
<1> USE DEF lockVars
<1>t. stateFile \in Pid \cup {NoPid} /\ user[u].pid \in Pid \cup {NoPid}
  BY DEF ClientTypeOK
<1>s. UNCHANGED daemon => SameLives
  BY DEF SameLives, Pid
<1>1. CASE ReadState(u)
  <2>1. CASE stateFile = NoPid
    <3>1. GoWith(u, "lock", NoPid)
      BY <1>1, <2>1 DEF ReadState
    <3> QED
      BY <1>1, <1>s, <3>1, GoWithWrites, OutsideTheLock DEF ReadState, UserAt, Steps
  <2>2. CASE stateFile # NoPid
    <3>1. GoWith(u, "probe", stateFile) /\ daemon[stateFile].life # "starting"
      BY <1>1, <2>2 DEF ReadState, OneRuns
    <3> QED
      BY <1>1, <1>t, <1>s, <2>2, <3>1, GoWithWrites, OutsideTheLock DEF ReadState, UserAt, Steps
  <2> QED
    BY <2>1, <2>2
<1>2. CASE Probe(u)
  <2>1. user[u].pid \in Pid /\ daemon[user[u].pid].life \notin {"starting", "armed"}
    BY <1>2, <1>t DEF Probe, UserAt, PidKnown, NoneUnwanted
  <2>2. CASE Serves(user[u].pid)
    <3>1. Go(u, "attached")
      BY <1>2, <2>1, <2>2 DEF Probe, Judged, NoneUnwanted
    <3> QED
      BY <1>2, <1>s, <3>1, GoWrites, OutsideTheLock DEF Probe, UserAt, Steps
  <2>3. CASE ~Serves(user[u].pid)
    <3>1. Go(u, "kill") /\ ~Runs(user[u].pid)
      BY <1>2, <1>t, <2>1, <2>3 DEF Probe, Serves, Runs, PidKnown, UserAt
    <3> QED
      BY <1>2, <1>s, <2>1, <3>1, GoWrites, OutsideTheLock DEF Probe, UserAt, Steps
  <2> QED
    BY <2>2, <2>3
<1>3. CASE ProbeTimesOut(u) \/ Killed(u)
  BY <1>3 DEF ProbeTimesOut, Killed, Meets, Untroubled
<1>4. CASE PostShutdown(u)
  BY <1>4 DEF PostShutdown, UserAt, NoneUnwanted
<1>5. CASE KillDaemon(u)
  <2>1. user[u].pid \in Pid /\ ~Serves(user[u].pid)
    BY <1>5, <1>t DEF KillDaemon, UserAt, PidKnown, NoneUnwanted, Serves, Runs
  <2>2. UNCHANGED <<daemon, stateFile>>
    BY <1>5, <2>1 DEF KillDaemon
  <2>3. Go(u, "awaitDeath") \/ Go(u, "lock")
    BY <1>5 DEF KillDaemon
  <2> QED
    BY <1>5, <1>s, <2>1, <2>2, <2>3, GoWrites, OutsideTheLock DEF KillDaemon, UserAt, Steps
<1>6. CASE AwaitDeath(u)
  <2>1. UNCHANGED daemon
    BY <1>6 DEF AwaitDeath, Meets, Untroubled
  <2> QED
    BY <1>6, <1>s, <2>1, GoWrites, OutsideTheLock DEF AwaitDeath, UserAt, Steps
<1>7. CASE WaitEnds(u) \/ WaitTimesOut(u)
  BY <1>7, <1>s, <1>t, GoWrites, GoWithWrites, OutsideTheLock
     DEF WaitEnds, WaitTimesOut, UserAt, Steps
<1>8. CASE PublishBoard(u)
  <2>1. SameLives
    <3>1. CASE Serves(user[u].pid)
      <4>1. user[u].pid \in Pid /\ daemon' = [daemon EXCEPT ![user[u].pid].active = TRUE]
        BY <1>8, <1>t, <3>1 DEF PublishBoard, Serves
      <4> QED
        BY <4>1, ActiveWrites DEF SameLives
    <3>2. CASE ~Serves(user[u].pid)
      BY <1>8, <1>s, <3>2 DEF PublishBoard
    <3> QED
      BY <3>1, <3>2
  <2> QED
    BY <1>8, <2>1, GoWrites, OutsideTheLock DEF PublishBoard, UserAt, Steps
<1>9. CASE ReadLock(u)
  <2>1. (Go(u, "unlink") \/ Go(u, "wait")) /\ UNCHANGED <<daemon, stateFile, lockHolder>>
    BY <1>9 DEF ReadLock
  <2> QED
    BY <1>9, <1>s, <2>1, GoWrites, OutsideTheLock DEF ReadLock, UserAt, Steps
<1>10. CASE UnlinkLock(u)
  \* Whoever holds the lock lives: u would have stolen it.
  <2>1. lockHolder = NoUser
    <3>1. lockHolder \in User => user[lockHolder].pc # "killed"
      BY DEF NoneUnwanted
    <3>2. lockHolder # u
      BY <1>10 DEF UnlinkLock, UserAt, UnderTheLock
    <3>3. StolenBy(u) = {}
      BY <1>10 DEF UnlinkLock, StolenBy, Untroubled
    <3> QED
      BY <3>1, <3>2, <3>3 DEF StolenBy, UserAt, ClientTypeOK
  <2>2. Go(u, "wait") /\ UNCHANGED <<daemon, stateFile, lockHolder>>
    BY <1>10, <2>1 DEF UnlinkLock, Unlinks
  <2> QED
    BY <1>10, <1>s, <2>2, GoWrites, OutsideTheLock DEF UnlinkLock, UserAt, Steps
<1> QED
  BY <1>1, <1>2, <1>3, <1>4, <1>5, <1>6, <1>7, <1>8, <1>9, <1>10

-----------------------------------------------------------------------------
\* An invocation moves under the lock, and the daemons live as before.
LEMMA InsideTheLock ==
    ASSUME ClientTypeOK, PidKnown, OneDaemonCore, SameLives, NEW u \in User,
           UNCHANGED stateFile,
           \A v \in User : user'[v].version = user[v].version,
           \A v \in User \ {u} : user'[v] = user[v],
           lockHolder \in {u, NoUser}, lockHolder' \in {u, NoUser},
           user'[u].pc \in {"name", "reread", "spawn"} <=> lockHolder' = u,
           user'[u].pc \notin {"probe", "kill", "shutdown", "refused", "killed", "poll"},
           \A d \in Pid : daemon[d].life # "starting",
           user'[u].pc = "spawn" => \A d \in Pid : ~Runs(d)
    PROVE  OneDaemonCore'
<1> USE DEF OneDaemonCore
<1>0. u # NoUser
  BY ClientAssumption
<1>1. \A v \in User \ {u} : user[v].pc \in {"probe", "kill"} => user[v].pid \in Pid
  BY DEF PidKnown, ClientTypeOK
<1>2. NoneUnwanted'
  <2>1. \A v \in User, d \in Pid' : daemon'[d].version = user'[v].version
    BY SameVersions
  <2> QED
    BY <1>1, <2>1 DEF NoneUnwanted, SameLives, Runs
<1>3. UnderTheLock'
  <2>1. \A v \in User \ {u} : user'[v].pc \notin {"name", "reread", "spawn", "poll"} /\ lockHolder' # v
    BY <1>0, ClientAssumption DEF UnderTheLock
  <2> QED
    BY <2>1 DEF UnderTheLock
<1>4. StartedUnderLock'
  <2>1. \A v \in User \ {u} : user'[v].pc # "spawn"
    BY <1>0, ClientAssumption DEF UnderTheLock
  <2> QED
    BY <2>1 DEF StartedUnderLock, SameLives, Runs
<1>5. OneRuns'
  BY DEF OneRuns, SameLives, Runs, ClientTypeOK
<1> QED
  BY <1>2, <1>3, <1>4, <1>5

LEMMA LockSteps ==
    ASSUME ClientTypeOK, PidKnown, PidKnown', Untroubled', OneDaemonCore, NEW u \in User,
           Lock(u) \/ NameLock(u) \/ Reread(u) \/ Started(u) \/ StartTimesOut(u)
    PROVE  OneDaemonCore'
<1> USE DEF lockVars
<1>t. /\ stateFile \in Pid \cup {NoPid} /\ NoPid \notin Pid /\ u # NoUser
      /\ lockHolder \in User \cup {NoUser}
  BY ClientAssumption DEF ClientTypeOK, Pid, NoPid
<1>s. UNCHANGED daemon => SameLives
  BY DEF SameLives, Pid
<1>1. CASE Lock(u)
  <2>1. CASE lockHolder = NoUser
    <3>1. lockHolder' = u /\ Go(u, "name")
      BY <1>1, <2>1 DEF Lock
    <3>2. \A d \in Pid : daemon[d].life # "starting"
      BY <2>1 DEF OneDaemonCore, StartedUnderLock
    <3> QED
      BY <1>1, <1>s, <2>1, <3>1, <3>2, GoWrites, InsideTheLock DEF Lock, Steps
  <2>2. CASE lockHolder # NoUser
    <3>1. Go(u, "look") /\ UNCHANGED lockHolder
      BY <1>1, <2>2 DEF Lock
    <3> QED
      BY <1>1, <1>s, <3>1, GoWrites, OutsideTheLock DEF Lock, UserAt, Steps
  <2> QED
    BY <2>1, <2>2
<1>2. CASE Reread(u)
  <2>1. lockHolder = u /\ user[u].pc = "reread"
    BY <1>2 DEF Reread, UserAt, OneDaemonCore, UnderTheLock
  <2>2. \A d \in Pid : daemon[d].life # "starting"
    BY <2>1 DEF OneDaemonCore, StartedUnderLock
  <2>3. CASE Attaches(u, stateFile)
    <3>1. lockHolder' = NoUser /\ GoWith(u, "attached", stateFile)
      BY <1>2, <2>1, <2>3 DEF Reread, Unlinks
    <3> QED
      BY <1>2, <1>s, <1>t, <2>1, <2>2, <3>1, GoWithWrites, InsideTheLock DEF Reread, Steps
  <2>4. CASE ~Attaches(u, stateFile)
    <3>1. lockHolder' = lockHolder /\ Go(u, "spawn")
      BY <1>2, <2>4 DEF Reread
    <3>2. ~Serves(stateFile)
      BY <1>t, <2>4 DEF Attaches, Serves, OneDaemonCore, NoneUnwanted
    <3>3. ASSUME NEW d \in Pid, Runs(d) PROVE FALSE
      <4>1. daemon[d].life = "up"
        BY <2>2, <3>3 DEF Runs
      <4>2. stateFile = d
        BY <4>1 DEF OneDaemonCore, OneRuns
      <4> QED
        BY <1>t, <3>2, <4>1, <4>2 DEF Serves
    <3> QED
      BY <1>2, <1>s, <2>1, <2>2, <3>1, <3>3, GoWrites, InsideTheLock DEF Reread, Steps
  <2> QED
    BY <2>3, <2>4
<1>3. CASE Started(u)
  <2>1. lockHolder = u /\ lockHolder' = NoUser
    BY <1>3 DEF Started, UserAt, OneDaemonCore, UnderTheLock, Unlinks
  <2>2. stateFile \in Pid /\ daemon[stateFile].life = "up"
    BY <1>3, <1>t DEF Started, Serves, OneDaemonCore, NoneUnwanted
  <2>3. \A d \in Pid : daemon[d].life # "starting"
    BY <2>2 DEF OneDaemonCore, OneRuns, Runs
  <2> QED
    BY <1>3, <1>s, <1>t, <2>1, <2>3, GoWithWrites, InsideTheLock DEF Started, Steps
<1>4. CASE StartTimesOut(u)
  <2>1. lockHolder = u /\ lockHolder' = NoUser /\ Go(u, "failed")
    BY <1>4 DEF StartTimesOut, UserAt, OneDaemonCore, UnderTheLock, Unlinks
  <2>2. \A d \in Pid : daemon[d].life # "starting"
    BY <1>4 DEF StartTimesOut, Meets, Untroubled
  <2> QED
    BY <1>4, <1>s, <1>t, <2>1, <2>2, GoWrites, InsideTheLock DEF StartTimesOut, Steps
<1>5. CASE NameLock(u)
  <2>1. lockHolder = u /\ UNCHANGED lockHolder /\ Go(u, "reread") /\ user[u].pc = "name"
    BY <1>5 DEF NameLock, UserAt, OneDaemonCore, UnderTheLock
  <2>2. \A d \in Pid : daemon[d].life # "starting"
    BY <2>1 DEF OneDaemonCore, StartedUnderLock
  <2> QED
    BY <1>5, <1>s, <2>1, <2>2, GoWrites, InsideTheLock DEF NameLock, Steps
<1> QED
  BY <1>1, <1>2, <1>3, <1>4, <1>5

LEMMA SpawnStep ==
    ASSUME ClientTypeOK, PidKnown, OneVersion, OneDaemonCore, NEW u \in User, Spawn(u)
    PROVE  OneDaemonCore'
<1> USE DEF OneDaemonCore
<1> DEFINE new == Len(daemon) + 1
<1>1. /\ Pid' = Pid \cup {new} /\ new \notin Pid
      /\ daemon'[new].life = "starting" /\ daemon'[new].version = user[u].version
      /\ \A e \in Pid : daemon'[e] = daemon[e]
  BY SpawnWrites
<1> HIDE DEF new
<1>2. /\ user'[u].pc = "poll" /\ user[u].pc = "spawn"
      /\ \A v \in User : user'[v].version = user[v].version
      /\ \A v \in User \ {u} : user'[v] = user[v]
  BY GoWrites DEF Spawn, UserAt, Steps
<1>3. UNCHANGED <<stateFile, lockHolder>> /\ lockHolder = u /\ u # NoUser
  BY <1>2, ClientAssumption DEF Spawn, UnderTheLock, lockVars
<1>4. \A d \in Pid : ~Runs(d)
  BY <1>2 DEF StartedUnderLock
<1>5. NoneUnwanted'
  <2>1. \A v \in User, d \in Pid' : daemon'[d].version = user'[v].version
    BY <1>1, <1>2 DEF NoneUnwanted, OneVersion
  <2>2. \A v \in User \ {u} : user[v].pc \in {"probe", "kill"} => user[v].pid \in Pid
    BY DEF PidKnown, ClientTypeOK
  <2> QED
    BY <1>1, <1>2, <2>1, <2>2 DEF NoneUnwanted, Runs
<1>6. UnderTheLock'
  BY <1>2, <1>3 DEF UnderTheLock
<1>7. StartedUnderLock'
  BY <1>2, <1>3 DEF StartedUnderLock, UnderTheLock
<1>8. OneRuns'
  <2>1. \A d \in Pid' : Runs(d)' => d = new
    BY <1>1, <1>4 DEF Runs
  <2>2. \A d \in Pid' : daemon'[d].life # "up"
    BY <1>1, <1>4 DEF Runs
  <2>3. stateFile # NoPid => stateFile \in Pid
    BY DEF ClientTypeOK
  <2> QED
    BY <1>1, <1>3, <2>1, <2>2, <2>3 DEF OneRuns
<1> QED
  BY <1>5, <1>6, <1>7, <1>8

LEMMA DaemonSteps ==
    ASSUME ClientTypeOK, PidKnown, OneDaemonCore, NEW d \in Pid,
           Up(d) \/ Disarm(d) \/ Expire(d) \/ ExitDaemon(d) \/ Crash(d) \/ Submit(d)
    PROVE  OneDaemonCore'
<1> USE DEF OneDaemonCore
<1>n. UNCHANGED <<lockHolder, user>> /\ stateFile \in Pid \cup {NoPid} /\ NoPid \notin Pid
  BY DEF Up, Disarm, Expire, ExitDaemon, Crash, Submit, ClientTypeOK, Pid, NoPid, lockVars
<1>p. \A v \in User : user[v].pc \in {"probe", "kill"} => user[v].pid \in Pid
  BY DEF PidKnown, ClientTypeOK
<1>u. UnderTheLock'
  BY <1>n DEF UnderTheLock
<1>1. CASE Up(d)
  <2>1. /\ Pid' = Pid /\ daemon'[d].life = "up" /\ Runs(d) /\ stateFile' = d
        /\ \A e \in Pid : daemon'[e].version = daemon[e].version
        /\ \A e \in Pid \ {d} : daemon'[e] = daemon[e]
    BY <1>1, LifeWrites DEF Up, Lives, Runs
  <2>2. \A e \in Pid \ {d} : ~Runs(e)
    BY <2>1 DEF OneRuns
  <2>3. NoneUnwanted'
    BY <1>n, <1>p, <2>1 DEF NoneUnwanted, Runs
  <2>4. StartedUnderLock'
    BY <1>n, <2>1, <2>2 DEF StartedUnderLock, Runs
  <2>5. OneRuns'
    BY <2>1, <2>2 DEF OneRuns, Runs
  <2> QED
    BY <1>u, <2>3, <2>4, <2>5
<1>2. CASE Disarm(d) \/ Expire(d) \/ ExitDaemon(d) \/ Crash(d)
  <2>1. /\ Pid' = Pid /\ daemon'[d].life \in {"closing", "dead"}
        /\ \A e \in Pid : daemon'[e].version = daemon[e].version
        /\ \A e \in Pid \ {d} : daemon'[e] = daemon[e]
    BY <1>2, LifeWrites DEF Disarm, Expire, ExitDaemon, Crash, Stops, Lives
  <2>2. stateFile' = stateFile \/ (stateFile' = NoPid /\ daemon[d].life = "up")
    <3>1. CASE Expire(d)
      BY <3>1 DEF Expire, Stops
    <3>2. CASE ExitDaemon(d) \/ Crash(d)
      BY <3>2 DEF ExitDaemon, Crash
    <3>3. ~Disarm(d)
      BY DEF Disarm, NoneUnwanted
    <3> QED
      BY <1>2, <3>1, <3>2, <3>3
  <2>3. NoneUnwanted'
    BY <1>n, <1>p, <2>1 DEF NoneUnwanted, Runs
  <2>4. StartedUnderLock'
    BY <1>n, <2>1 DEF StartedUnderLock, Runs
  <2>5. OneRuns'
    <3>1. \A e \in Pid : Runs(e)' => Runs(e) /\ e # d
      BY <2>1 DEF Runs
    <3>2. \A e \in Pid : daemon'[e].life = "up" => stateFile' = e
      BY <2>1, <2>2, <3>1 DEF OneRuns, Runs
    <3>3. stateFile' # NoPid => daemon'[stateFile'].life # "starting"
      BY <1>n, <2>1, <2>2 DEF OneRuns
    <3> QED
      BY <2>1, <3>1, <3>2, <3>3 DEF OneRuns
  <2> QED
    BY <1>u, <2>3, <2>4, <2>5
<1>3. CASE Submit(d)
  <2>1. SameLives /\ UNCHANGED stateFile
    BY <1>3, ActiveWrites DEF Submit, SameLives
  <2>2. NoneUnwanted'
    BY <1>n, <1>p, <2>1 DEF NoneUnwanted, SameLives, Runs
  <2>3. StartedUnderLock' /\ OneRuns'
    BY <1>n, <2>1 DEF StartedUnderLock, OneRuns, SameLives, Runs
  <2> QED
    BY <1>u, <2>2, <2>3
<1> QED
  BY <1>1, <1>2, <1>3

\* Trouble stays, and no invocation changes its version.
LEMMA UntroubledBefore == ClientTypeOK /\ ClientNext /\ Untroubled' => Untroubled
<1> SUFFICES ASSUME ClientTypeOK, ClientNext, Untroubled' PROVE Untroubled
  OBVIOUS
<1>1. trouble \subseteq trouble'
  BY DEF ClientNext, ReadState, Probe, ProbeTimesOut, PostShutdown, KillDaemon, AwaitDeath, Lock,
     WaitEnds, WaitTimesOut, Reread, Spawn, Started, StartTimesOut, PublishBoard, Killed, Up,
     Disarm, Expire, ExitDaemon, Crash, Submit, Meets, NameLock, ReadLock, UnlinkLock
<1>2. \A v \in User : user'[v].version = user[v].version
  <2>t. stateFile \in Pid \cup {NoPid}
    BY DEF ClientTypeOK
  <2>1. ASSUME NEW u \in User,
               \/ \E to \in Steps : Go(u, to)
               \/ \E to \in Steps, d \in Pid \cup {NoPid} : GoWith(u, to, d)
        PROVE  \A v \in User : user'[v].version = user[v].version
    BY <2>1, GoWrites, GoWithWrites
  <2>2. ASSUME NEW u \in User,
               \/ ReadState(u) \/ Probe(u) \/ ProbeTimesOut(u) \/ PostShutdown(u)
               \/ KillDaemon(u) \/ AwaitDeath(u) \/ Lock(u) \/ NameLock(u) \/ ReadLock(u)
               \/ UnlinkLock(u) \/ WaitEnds(u)
        PROVE  \A v \in User : user'[v].version = user[v].version
    BY <2>1, <2>2, <2>t DEF ReadState, Probe, ProbeTimesOut, PostShutdown, KillDaemon, AwaitDeath,
       Lock, NameLock, ReadLock, UnlinkLock, WaitEnds, Judged, Steps
  <2>3. ASSUME NEW u \in User,
               \/ WaitTimesOut(u) \/ Reread(u) \/ Spawn(u) \/ Started(u) \/ StartTimesOut(u)
               \/ PublishBoard(u) \/ Killed(u)
        PROVE  \A v \in User : user'[v].version = user[v].version
    BY <2>1, <2>3, <2>t DEF WaitTimesOut, Reread, Spawn, Started, StartTimesOut, PublishBoard,
       Killed, Steps
  <2> QED
    BY <2>2, <2>3
       DEF ClientNext, Up, Disarm, Expire, ExitDaemon, Crash, Submit
<1> QED
  BY <1>1, <1>2 DEF Untroubled, OneVersion

LEMMA ClientNextInv == ClientInv /\ [ClientNext]_clientVars => ClientInv'
<1> SUFFICES ASSUME ClientInv, [ClientNext]_clientVars PROVE ClientInv'
  OBVIOUS
<1>t. ClientTypeOK /\ PidKnown
  BY DEF ClientInv
<1>1. CASE ClientNext
  <2>1. ClientTypeOK' /\ PidKnown'
    BY <1>1, <1>t, ClientTypeStep, PidKnownStep
  <2>2. ASSUME Untroubled' PROVE OneDaemonCore'
    <3>1. Untroubled /\ OneDaemonCore
      BY <1>1, <1>t, <2>2, UntroubledBefore DEF ClientInv, OneDaemonCore
    <3>2. ASSUME NEW u \in User,
                 \/ ReadState(u) \/ Probe(u) \/ ProbeTimesOut(u) \/ PostShutdown(u)
                 \/ KillDaemon(u) \/ AwaitDeath(u) \/ ReadLock(u) \/ UnlinkLock(u)
                 \/ WaitEnds(u) \/ WaitTimesOut(u) \/ PublishBoard(u) \/ Killed(u)
          PROVE  OneDaemonCore'
      BY <1>t, <2>1, <2>2, <3>1, <3>2, OutsideSteps
    <3>3. ASSUME NEW u \in User,
                 Lock(u) \/ NameLock(u) \/ Reread(u) \/ Started(u) \/ StartTimesOut(u)
          PROVE  OneDaemonCore'
      BY <1>t, <2>1, <2>2, <3>1, <3>3, LockSteps
    <3>4. ASSUME NEW u \in User, Spawn(u) PROVE OneDaemonCore'
      BY <1>t, <3>1, <3>4, SpawnStep DEF Untroubled
    <3>5. ASSUME NEW d \in Pid,
                 Up(d) \/ Disarm(d) \/ Expire(d) \/ ExitDaemon(d) \/ Crash(d) \/ Submit(d)
          PROVE  OneDaemonCore'
      BY <1>t, <3>1, <3>5, DaemonSteps
    <3> QED
      BY <1>1, <3>2, <3>3, <3>4, <3>5 DEF ClientNext
  <2> QED
    BY <2>1, <2>2 DEF ClientInv, OneDaemonCore
<1>2. CASE UNCHANGED clientVars
  BY <1>2 DEF clientVars, ClientInv, ClientTypeOK, PidKnown, Untroubled, OneVersion, NoneUnwanted,
     UnderTheLock, StartedUnderLock, OneRuns, Runs, Pid
<1> QED
  BY <1>1, <1>2

(* The types of the design daemon's client: a state file and an invocation  *)
(* name only daemons that were started.                                     *)
THEOREM ClientTypeCorrect == ClientSpec => []ClientTypeOK
<1>1. ClientInv => ClientTypeOK
  BY DEF ClientInv
<1> QED
  BY <1>1, ClientInitInv, ClientNextInv, PTL DEF ClientSpec

(* However many invocations of one version race and daemons crash, at most  *)
(* one daemon starts or serves, and the one that is up is named by the      *)
(* state file, as long as none is late, no invocation is killed and no      *)
(* lock is unlinked while its holder lives (daemon-state.ts:194-220).       *)
THEOREM OneDesignDaemonRuns == ClientSpec => []OneDesignDaemon
<1>1. ClientInv => OneDesignDaemon
  <2> SUFFICES ASSUME ClientInv, Untroubled PROVE
        /\ Cardinality({d \in Pid : daemon[d].life = "starting" \/ Serves(d)}) <= 1
        /\ \A d \in Pid : daemon[d].life = "up" => stateFile = d
    BY DEF OneDesignDaemon, Untroubled
  <2> DEFINE R == {d \in Pid : daemon[d].life = "starting" \/ Serves(d)}
  <2>1. \A d, e \in R : d = e
    BY DEF ClientInv, NoneUnwanted, OneRuns, Runs, Serves
  <2>2. R = {} \/ \E d \in R : R = {d}
    BY <2>1
  <2>3. Cardinality(R) <= 1
    <3>1. CASE R = {}
      BY <3>1, FS_EmptySet
    <3>2. CASE \E d \in R : R = {d}
      <4>1. PICK d \in R : R = {d}
        BY <3>2
      <4>2. Cardinality({d}) = 1
        BY FS_Singleton
      <4> HIDE DEF R
      <4> QED
        BY <4>1, <4>2
    <3> HIDE DEF R
    <3> QED
      BY <2>2, <3>1, <3>2
  <2> QED
    BY <2>3 DEF ClientInv, OneRuns
<1> QED
  BY <1>1, ClientInitInv, ClientNextInv, PTL DEF ClientSpec

-----------------------------------------------------------------------------
(* The requests of the iOS daemon (IosDaemon).                             *)

BootstrapState == [pc : {"none", "launch", "read", "relaunch", "reread", "rotate", "rotated"},
                   token : Nat, since : Nat]

HandlerState == [pc : {"new", "waiting", "sent", "answered", "done"},
                 attempt : 1..2, via : Nat, to : Nat,
                 answer : {"none", "ok", "unauthorized", "lost", "failed"},
                 safe : BOOLEAN, dispatched : Nat, sound : BOOLEAN, born : Nat]

\* IosTypeOK without its bounds.
Shape ==
    /\ app \in [up : BOOLEAN, instance : Nat, rotated : BOOLEAN]
    /\ bootFile \in Nat /\ tunnel \in Nat
    /\ bootstrap \in BootstrapState
    /\ inbound \in [Inbound -> HandlerState]
    /\ mishaps \in Nat /\ relaunches \in Nat

\* What the handler of a request that is not read-only may be at.
Cautious(q) ==
    /\ q.dispatched <= 1
    /\ q.pc \in {"new", "sent"} => q.dispatched = 0
    /\ q.pc = "waiting" => q.dispatched = 0 \/ (~q.safe /\ q.via # None)
    /\ q.pc \in {"sent", "answered"} => q.via # None
    /\ q.pc = "answered" /\ q.answer = "unauthorized" => q.dispatched = 0

DispatchInv == \A r \in Inbound \ ReadOnly : Cautious(inbound[r])

-----------------------------------------------------------------------------
(* The moves of a handler.                                                  *)

\* A handler that is done.
LEMMA DoneMoves ==
    ASSUME NEW q \in HandlerState, NEW how \in {"none", "ok", "unauthorized", "lost", "failed"}
    PROVE  /\ Done(q, how) \in HandlerState
           /\ Done(q, how).pc = "done" /\ Done(q, how).dispatched = q.dispatched
BY DEF Done, HandlerState, None

\* A handler that goes on is done, or has sent its request over t.
LEMMA ResumedMoves ==
    ASSUME Shape, NEW q \in HandlerState, NEW t \in Nat
    PROVE  /\ Resumed(q, t) \in HandlerState
           /\ Resumed(q, t).dispatched = q.dispatched
           /\ \/ Resumed(q, t).pc = "done"
              \/ /\ Resumed(q, t).pc = "sent" /\ t # None
                 /\ Resumed(q, t).via = t /\ Resumed(q, t).to = app.instance
                 /\ Resumed(q, t).answer = "none"
                 /\ q.via = None \/ q.safe
<1> DEFINE end == Done(q, "failed")
           first == Attempt(q, t, 1)
           second == Attempt(q, t, 2)
<1>1. end \in HandlerState /\ end.pc = "done" /\ end.dispatched = q.dispatched
  BY DoneMoves
<1>2. /\ first \in HandlerState /\ first.pc = "sent" /\ first.dispatched = q.dispatched
      /\ first.via = t /\ first.to = app.instance /\ first.answer = "none"
  BY DEF Attempt, HandlerState, Shape
<1>3. /\ second \in HandlerState /\ second.pc = "sent" /\ second.dispatched = q.dispatched
      /\ second.via = t /\ second.to = app.instance /\ second.answer = "none"
  BY DEF Attempt, HandlerState, Shape
<1>4. \/ Resumed(q, t) = end
      \/ Resumed(q, t) = first /\ q.via = None /\ t # None
      \/ Resumed(q, t) = second /\ q.safe /\ t # None
  BY DEF Resumed, HandlerState
<1> HIDE DEF end, first, second
<1> QED
  BY <1>1, <1>2, <1>3, <1>4

\* A cautious handler that goes on stays so.
LEMMA ResumedCautious ==
    ASSUME Shape, NEW q \in HandlerState, NEW t \in Nat,
           q.dispatched <= 1, q.dispatched = 0 \/ (~q.safe /\ q.via # None)
    PROVE  Cautious(Resumed(q, t))
<1> DEFINE m == Resumed(q, t)
<1>1. /\ m.dispatched = q.dispatched
      /\ \/ m.pc = "done"
         \/ m.pc = "sent" /\ t # None /\ m.via = t /\ (q.via = None \/ q.safe)
  BY ResumedMoves
<1> HIDE DEF m
<1>2. Cautious(m)
  BY <1>1 DEF Cautious
<1> QED
  BY <1>2 DEF m

-----------------------------------------------------------------------------
(* The shape, and the request that is dispatched once.                      *)

\* getTunnel over a tunnel of the cache.
LEMMA GetTunnelMoves ==
    ASSUME Shape, NEW r \in Inbound, NEW q \in HandlerState, NEW t \in Nat,
           getTunnel(r, q, t)
    PROVE  /\ tunnel' = t /\ bootstrap' \in BootstrapState
           /\ bootstrap' = bootstrap
              \/ /\ t = None /\ bootstrap.pc = "none"
                 /\ bootstrap'.pc = "launch" /\ bootstrap'.token = None
           /\ \E m \in HandlerState :
                 /\ inbound' = [inbound EXCEPT ![r] = m]
                 /\ \/ t # None /\ m = Resumed(q, t)
                    \/ t = None /\ m = [q EXCEPT !.pc = "waiting"]
<1>1. [q EXCEPT !.pc = "waiting"] \in HandlerState
  BY DEF HandlerState
<1>2. Resumed(q, t) \in HandlerState
  BY ResumedMoves
<1>3. /\ bootstrap' \in BootstrapState
      /\ bootstrap' = bootstrap
         \/ /\ t = None /\ bootstrap.pc = "none"
            /\ bootstrap'.pc = "launch" /\ bootstrap'.token = None
  BY DEF getTunnel, Shape, BootstrapState, None
<1> QED
  BY <1>1, <1>2, <1>3 DEF getTunnel

\* What the app does with a request.
LEMMA ArrivesMoves ==
    ASSUME Shape, NEW r \in Inbound, Arrives(r)
    PROVE  /\ inbound[r].pc = "sent" /\ app.up
           /\ UNCHANGED <<app, bootFile, tunnel, bootstrap, mishaps, relaunches>>
           /\ \E m \in HandlerState :
                 /\ inbound' = [inbound EXCEPT ![r] = m]
                 /\ m.pc = "answered" /\ m.via = inbound[r].via /\ m.to = app.instance
                 /\ \/ /\ Accepts(inbound[r].via) /\ m.answer = "ok"
                       /\ m.dispatched = inbound[r].dispatched + 1
                    \/ /\ ~Accepts(inbound[r].via) /\ m.answer = "unauthorized"
                       /\ m.dispatched = inbound[r].dispatched
<1> DEFINE m == Delivered(inbound[r])
<1>1. inbound[r] \in HandlerState /\ app.instance \in Nat
  BY DEF Shape
<1>2. /\ m.pc = "answered" /\ m.via = inbound[r].via /\ m.to = app.instance
      /\ m.answer = (IF Accepts(inbound[r].via) THEN "ok" ELSE "unauthorized")
      /\ m.dispatched = inbound[r].dispatched + (IF Accepts(inbound[r].via) THEN 1 ELSE 0)
  BY DEF Delivered
<1>3. m \in HandlerState
  BY <1>1 DEF Delivered, HandlerState
<1>4. inbound' = [inbound EXCEPT ![r] = m]
  BY DEF Arrives
<1>5. inbound[r].dispatched \in Nat
  BY <1>1 DEF HandlerState
<1> HIDE DEF m
<1>6. \/ /\ Accepts(inbound[r].via) /\ m.answer = "ok"
         /\ m.dispatched = inbound[r].dispatched + 1
      \/ /\ ~Accepts(inbound[r].via) /\ m.answer = "unauthorized"
         /\ m.dispatched = inbound[r].dispatched
  BY <1>2, <1>5
<1>7. inbound[r].pc = "sent" /\ app.up
      /\ UNCHANGED <<app, bootFile, tunnel, bootstrap, mishaps, relaunches>>
  BY DEF Arrives
<1> QED
  BY <1>2, <1>3, <1>4, <1>6, <1>7

\* The end of a bootstrap with t, for every handler.
LEMMA OverMoves ==
    ASSUME Shape, NEW t \in Nat, Over(t)
    PROVE  /\ tunnel' \in Nat /\ (t # None => tunnel' = t) /\ (t = None => tunnel' = tunnel)
           /\ bootstrap' \in BootstrapState /\ bootstrap'.pc = "none"
           /\ inbound' \in [Inbound -> HandlerState]
           /\ \A r \in Inbound :
                 inbound'[r] = IF inbound[r].pc = "waiting" THEN Resumed(inbound[r], t)
                               ELSE inbound[r]
<1>1. \A q \in HandlerState : Resumed(q, t) \in HandlerState
  BY ResumedMoves
<1>2. bootstrap' \in BootstrapState /\ bootstrap'.pc = "none"
  BY DEF Over, NoBootstrap, BootstrapState, None
<1> QED
  BY <1>1, <1>2 DEF Over, Shape

LEMMA ShapeInit == IosInit => Shape
<1> SUFFICES ASSUME IosInit PROVE Shape
  OBVIOUS
<1>1. Fresh \in HandlerState /\ NoBootstrap \in BootstrapState
  BY DEF Fresh, HandlerState, NoBootstrap, BootstrapState, None
<1>2. app \in [up : BOOLEAN, instance : Nat, rotated : BOOLEAN] /\ app.instance \in Nat
  <2>1. CASE app = [up |-> FALSE, instance |-> 0, rotated |-> FALSE]
    BY <2>1
  <2>2. CASE app = [up |-> TRUE, instance |-> 1, rotated |-> FALSE]
    BY <2>2
  <2> QED
    BY <2>1, <2>2 DEF IosInit
<1> QED
  BY <1>1, <1>2 DEF IosInit, Shape, None

\* The app is started.
LEMMA StartsMoves ==
    ASSUME Shape, Starts
    PROVE  /\ app' \in [up : BOOLEAN, instance : Nat, rotated : BOOLEAN]
           /\ app'.up /\ app'.instance = app.instance + 1 /\ ~app'.rotated
           /\ bootFile' = app.instance + 1 /\ bootFile' \in Nat
BY DEF Starts, Shape

\* What an answered handler does: it is done, or asks for a tunnel again.
LEMMA AnsweredMoves ==
    ASSUME Shape, NEW r \in Inbound, Answered(r)
    PROVE  /\ inbound[r].pc = "answered"
           /\ UNCHANGED <<app, bootFile, mishaps, relaunches>>
           /\ tunnel' \in {tunnel, invalidateTunnel(inbound[r].via)}
           /\ tunnel' # tunnel => inbound[r].answer \in {"unauthorized", "lost"}
           /\ bootstrap' \in BootstrapState
           /\ bootstrap' = bootstrap
              \/ /\ tunnel' = None /\ bootstrap.pc = "none"
                 /\ bootstrap'.pc = "launch" /\ bootstrap'.token = None
           /\ \E m \in HandlerState :
                 /\ inbound' = [inbound EXCEPT ![r] = m]
                 /\ m.dispatched = inbound[r].dispatched
                 /\ \/ m.pc = "done"
                    \/ /\ m.pc = "waiting" /\ m.via = inbound[r].via
                       /\ m.safe = canReplayAfterRefresh(r, inbound[r].answer)
                    \/ /\ m.pc = "sent" /\ m.via = tunnel' /\ tunnel' # None
                       /\ m.to = app.instance
                       /\ \/ inbound[r].via = None
                          \/ canReplayAfterRefresh(r, inbound[r].answer)
<1> DEFINE q == inbound[r]
           safe == canReplayAfterRefresh(r, q.answer)
           again == [q EXCEPT !.safe = safe]
           t == invalidateTunnel(q.via)
<1>1. q \in HandlerState /\ q.pc = "answered" /\ t \in Nat /\ safe \in BOOLEAN
  BY DEF Answered, Shape, invalidateTunnel, None, canReplayAfterRefresh
<1>2. /\ Done(q, q.answer) \in HandlerState /\ Done(q, "failed") \in HandlerState
      /\ Done(q, q.answer).pc = "done" /\ Done(q, "failed").pc = "done"
      /\ Done(q, q.answer).dispatched = q.dispatched
      /\ Done(q, "failed").dispatched = q.dispatched
  BY <1>1 DEF Done, HandlerState, None
<1>3. /\ again \in HandlerState /\ again.dispatched = q.dispatched
      /\ again.via = q.via /\ again.safe = safe
      /\ [again EXCEPT !.pc = "waiting"].dispatched = q.dispatched
      /\ [again EXCEPT !.pc = "waiting"].pc = "waiting"
      /\ [again EXCEPT !.pc = "waiting"].via = q.via
      /\ [again EXCEPT !.pc = "waiting"].safe = safe
  BY <1>1 DEF HandlerState
<1>4. UNCHANGED <<app, bootFile, mishaps, relaunches>>
  BY DEF Answered
<1>5. CASE inbound' = [inbound EXCEPT ![r] = Done(q, q.answer)] /\ UNCHANGED <<tunnel, bootstrap>>
  BY <1>1, <1>2, <1>4, <1>5 DEF Shape
<1>6. CASE /\ shouldRefreshTunnel(q.answer) /\ tunnel' = t
           /\ inbound' = [inbound EXCEPT ![r] = Done(q, "failed")] /\ UNCHANGED bootstrap
  BY <1>1, <1>2, <1>4, <1>6 DEF Shape, shouldRefreshTunnel
<1>7. CASE shouldRefreshTunnel(q.answer) /\ getTunnel(r, again, t)
  <2> HIDE DEF again, t, safe
  <2>1. q.answer \in {"unauthorized", "lost"}
    BY <1>7 DEF shouldRefreshTunnel
  <2>2. /\ tunnel' = t /\ bootstrap' \in BootstrapState
        /\ bootstrap' = bootstrap
           \/ /\ t = None /\ bootstrap.pc = "none"
              /\ bootstrap'.pc = "launch" /\ bootstrap'.token = None
        /\ \E m \in HandlerState :
              /\ inbound' = [inbound EXCEPT ![r] = m]
              /\ \/ t # None /\ m = Resumed(again, t)
                 \/ t = None /\ m = [again EXCEPT !.pc = "waiting"]
    BY <1>1, <1>3, <1>7, GetTunnelMoves
  <2>3. PICK m \in HandlerState :
              /\ inbound' = [inbound EXCEPT ![r] = m]
              /\ \/ t # None /\ m = Resumed(again, t)
                 \/ t = None /\ m = [again EXCEPT !.pc = "waiting"]
    BY <2>2
  <2>4. /\ m.dispatched = q.dispatched
        /\ \/ m.pc = "done"
           \/ m.pc = "waiting" /\ m.via = q.via /\ m.safe = safe
           \/ /\ m.pc = "sent" /\ m.via = t /\ t # None /\ m.to = app.instance
              /\ q.via = None \/ safe
    <3>1. CASE t # None /\ m = Resumed(again, t)
      BY <1>1, <1>3, <3>1, ResumedMoves
    <3>2. CASE m = [again EXCEPT !.pc = "waiting"]
      BY <1>3, <3>2
    <3> QED
      BY <2>3, <3>1, <3>2
  <2>5. inbound' = [inbound EXCEPT ![r] = m]
    BY <2>3
  <2> QED
    BY <1>1, <1>4, <2>1, <2>2, <2>4, <2>5 DEF t, safe
<1> QED
  BY <1>5, <1>6, <1>7 DEF Answered

\* The shape is kept by every step.
LEMMA ShapeStep == Shape /\ [IosNext]_iosVars => Shape'
<1> SUFFICES ASSUME Shape, [IosNext]_iosVars PROVE Shape'
  OBVIOUS
<1> DEFINE App == [up : BOOLEAN, instance : Nat, rotated : BOOLEAN]
<1>1. CASE UNCHANGED iosVars
  BY <1>1 DEF iosVars, Shape
<1>2. ASSUME NEW r \in Inbound, Asked(r) PROVE Shape'
  <2> DEFINE whole == bootstrap.pc = "none" \/ bootstrap.since = mishaps
  <2> DEFINE q == [inbound[r] EXCEPT !.born = mishaps, !.sound = whole]
  <2>0. whole \in BOOLEAN /\ inbound[r] \in HandlerState /\ mishaps \in Nat
    BY DEF Shape
  <2>1. q \in HandlerState
    <3> HIDE DEF whole
    <3> QED
      BY <2>0, Zenon DEF HandlerState
  <2>2. getTunnel(r, q, tunnel) /\ UNCHANGED <<app, bootFile, mishaps, relaunches>>
    BY <1>2 DEF Asked
  <2> HIDE DEF q
  <2>3. tunnel' \in Nat /\ bootstrap' \in BootstrapState /\ inbound' \in [Inbound -> HandlerState]
    BY <2>1, <2>2, GetTunnelMoves DEF Shape
  <2> QED
    BY <2>2, <2>3 DEF Shape
<1>3. ASSUME NEW r \in Inbound, Arrives(r) PROVE Shape'
  BY <1>3, ArrivesMoves DEF Shape
<1>4. ASSUME NEW r \in Inbound, Reset(r) PROVE Shape'
  BY <1>4 DEF Reset, Shape, HandlerState
<1>5. ASSUME NEW r \in Inbound, Answered(r) PROVE Shape'
  <2>1. tunnel' \in Nat
    BY <1>5, AnsweredMoves DEF Shape, invalidateTunnel, None
  <2> QED
    BY <1>5, <2>1, AnsweredMoves DEF Shape
<1>6. ASSUME NEW r \in Inbound, AnswerLost(r) PROVE Shape'
  BY <1>6 DEF AnswerLost, Mishap, Shape, HandlerState
<1>7. ASSUME NEW t \in Nat, Over(t), app' \in App, bootFile' \in Nat, mishaps' \in Nat,
             relaunches' \in Nat
      PROVE  Shape'
  BY <1>7, OverMoves DEF Shape
<1>8. CASE Launch
  BY <1>8, StartsMoves DEF Launch, Shape, BootstrapState
<1>9. CASE ReadBootToken
  BY <1>9 DEF ReadBootToken, Shape, BootstrapState
<1>10. CASE relaunchApp
  BY <1>10, StartsMoves DEF relaunchApp, Shape, BootstrapState
<1>11. CASE ReadAgain
  BY <1>11 DEF ReadAgain, Shape, BootstrapState
<1>12. CASE Unreachable
  BY <1>7, <1>12 DEF Unreachable, Shape, None
<1>13. CASE Rotate
  <2>1. [app EXCEPT !.rotated = TRUE] \in App
    BY DEF Shape
  <2>2. [bootstrap EXCEPT !.pc = "rotated"] \in BootstrapState
    BY DEF Shape, BootstrapState
  <2>3. CASE /\ app' = [app EXCEPT !.rotated = TRUE] /\ bootFile' = None
             /\ bootstrap' = [bootstrap EXCEPT !.pc = "rotated"]
             /\ UNCHANGED <<tunnel, inbound, mishaps, relaunches>>
    BY <2>1, <2>2, <2>3 DEF Shape, None
  <2>4. CASE Over(None) /\ UNCHANGED <<app, bootFile, mishaps, relaunches>>
    BY <1>7, <2>4 DEF Shape, None
  <2> QED
    BY <1>13, <2>3, <2>4 DEF Rotate
<1>14. CASE Rotated
  <2>1. bootstrap.token \in Nat
    BY DEF Shape, BootstrapState
  <2> QED
    BY <1>7, <1>14, <2>1 DEF Rotated, Shape
<1>15. CASE AppExits
  <2>1. [app EXCEPT !.up = FALSE] \in App
    BY DEF Shape
  <2> QED
    BY <1>15, <2>1 DEF AppExits, Mishap, Shape
<1>16. CASE AppRestarts
  BY <1>16, StartsMoves DEF AppRestarts, Mishap, Shape
<1>17. CASE BootstrapFails
  BY <1>7, <1>17 DEF BootstrapFails, Mishap, Shape, None
<1>18. CASE DaemonRestarts
  <2>1. \A q \in HandlerState : Done(q, "failed") \in HandlerState
    BY DoneMoves
  <2>2. NoBootstrap \in BootstrapState
    BY DEF NoBootstrap, BootstrapState, None
  <2> QED
    BY <1>18, <2>1, <2>2 DEF DaemonRestarts, Mishap, Shape, None
<1> QED
  BY <1>1, <1>2, <1>3, <1>4, <1>5, <1>6, <1>8, <1>9, <1>10, <1>11, <1>12, <1>13, <1>14, <1>15,
     <1>16, <1>17, <1>18 DEF IosNext

\* Every step keeps the handlers cautious: an attempt is repeated only by a
\* handler whose request the app has not dispatched.
LEMMA DispatchStep == Shape /\ DispatchInv /\ [IosNext]_iosVars => DispatchInv'
<1> SUFFICES ASSUME Shape, DispatchInv, [IosNext]_iosVars, NEW r \in Inbound \ ReadOnly
             PROVE  Cautious(inbound'[r])
  BY DEF DispatchInv
<1>0. /\ inbound[r] \in HandlerState /\ Cautious(inbound[r])
      /\ inbound \in [Inbound -> HandlerState]
  BY DEF DispatchInv, Shape
<1>1. CASE UNCHANGED inbound
  BY <1>0, <1>1
<1>2. ASSUME NEW s \in Inbound, Asked(s) PROVE Cautious(inbound'[r])
  <2> DEFINE whole == bootstrap.pc = "none" \/ bootstrap.since = mishaps
  <2> DEFINE q == [inbound[s] EXCEPT !.born = mishaps, !.sound = whole]
  <2>0. whole \in BOOLEAN /\ inbound[s] \in HandlerState /\ mishaps \in Nat
    BY DEF Shape
  <2>1. /\ q \in HandlerState /\ q.dispatched = inbound[s].dispatched
        /\ [q EXCEPT !.pc = "waiting"].dispatched = q.dispatched
        /\ [q EXCEPT !.pc = "waiting"].pc = "waiting"
    <3> HIDE DEF whole
    <3> QED
      BY <2>0, Zenon DEF HandlerState
  <2>2. getTunnel(s, q, tunnel) /\ tunnel \in Nat /\ inbound[s].pc = "new"
    BY <1>2 DEF Asked, Shape
  <2> HIDE DEF q
  <2>3. PICK m \in HandlerState :
            /\ inbound' = [inbound EXCEPT ![s] = m]
            /\ m = Resumed(q, tunnel) \/ m = [q EXCEPT !.pc = "waiting"]
    BY <2>1, <2>2, GetTunnelMoves
  <2>4. CASE s = r
    <3>1. inbound'[r] = m /\ q.dispatched = 0
      BY <1>0, <2>1, <2>2, <2>3, <2>4 DEF Cautious
    <3>2. CASE m = Resumed(q, tunnel)
      BY <2>1, <2>2, <3>1, <3>2, ResumedCautious
    <3>3. CASE m = [q EXCEPT !.pc = "waiting"]
      BY <2>1, <3>1, <3>3 DEF Cautious
    <3> QED
      BY <2>3, <3>2, <3>3
  <2> QED
    BY <1>0, <2>3, <2>4
<1>3. ASSUME NEW s \in Inbound, Arrives(s) PROVE Cautious(inbound'[r])
  BY <1>0, <1>3, ArrivesMoves DEF Cautious, HandlerState
<1>4. ASSUME NEW s \in Inbound, Reset(s) \/ AnswerLost(s) PROVE Cautious(inbound'[r])
  <2>1. CASE s = r
    <3>1. inbound'[r].answer = "lost" /\ inbound'[r].pc = "answered"
          /\ inbound'[r].via = inbound[r].via /\ inbound'[r].dispatched = inbound[r].dispatched
          /\ inbound[r].pc \in {"sent", "answered"}
      BY <1>0, <1>4, <2>1 DEF Reset, AnswerLost, HandlerState
    <3> QED
      BY <1>0, <3>1 DEF Cautious
  <2> QED
    BY <1>0, <1>4, <2>1 DEF Reset, AnswerLost
<1>5. ASSUME NEW s \in Inbound, Answered(s) PROVE Cautious(inbound'[r])
  <2>1. PICK m \in HandlerState :
            /\ inbound' = [inbound EXCEPT ![s] = m]
            /\ m.dispatched = inbound[s].dispatched
            /\ \/ m.pc = "done"
               \/ /\ m.pc = "waiting" /\ m.via = inbound[s].via
                  /\ m.safe = canReplayAfterRefresh(s, inbound[s].answer)
               \/ /\ m.pc = "sent" /\ m.via # None
                  /\ inbound[s].via = None \/ canReplayAfterRefresh(s, inbound[s].answer)
    BY <1>5, AnsweredMoves
  <2>2. CASE s = r
    <3>1. inbound[r].pc = "answered" /\ inbound'[r] = m
      BY <1>0, <1>5, <2>1, <2>2, AnsweredMoves
    <3>2. inbound[r].via # None /\ inbound[r].dispatched <= 1
      BY <1>0, <3>1 DEF Cautious
    <3>3. canReplayAfterRefresh(r, inbound[r].answer) => inbound[r].dispatched = 0
      BY <1>0, <3>1 DEF Cautious, canReplayAfterRefresh
    <3> HIDE DEF canReplayAfterRefresh
    <3> QED
      BY <2>1, <2>2, <3>1, <3>2, <3>3 DEF Cautious
  <2> QED
    BY <1>0, <2>1, <2>2
<1>6. ASSUME NEW t \in Nat, Over(t) PROVE Cautious(inbound'[r])
  <2>1. CASE inbound[r].pc = "waiting"
    <3>1. inbound'[r] = Resumed(inbound[r], t)
      BY <1>6, <2>1, OverMoves
    <3>2. /\ inbound[r].dispatched <= 1
          /\ inbound[r].dispatched = 0 \/ (~inbound[r].safe /\ inbound[r].via # None)
      BY <1>0, <2>1 DEF Cautious
    <3> QED
      BY <1>0, <3>1, <3>2, ResumedCautious
  <2> QED
    BY <1>0, <1>6, <2>1, OverMoves
<1>7. CASE Unreachable \/ Rotate \/ Rotated \/ BootstrapFails
  <2>1. UNCHANGED inbound \/ \E t \in Nat : Over(t)
    BY <1>7 DEF Unreachable, Rotate, Rotated, BootstrapFails, Shape, BootstrapState, None
  <2> QED
    BY <1>1, <1>6, <2>1
<1>8. CASE DaemonRestarts
  <2>1. inbound'[r] \in {inbound[r], Done(inbound[r], "failed")}
    BY <1>0, <1>8 DEF DaemonRestarts
  <2>2. Cautious(Done(inbound[r], "failed"))
    BY <1>0, DoneMoves DEF Cautious
  <2> QED
    BY <1>0, <2>1, <2>2
<1>9. CASE Launch \/ ReadBootToken \/ relaunchApp \/ ReadAgain \/ AppExits \/ AppRestarts
  BY <1>1, <1>9 DEF Launch, ReadBootToken, relaunchApp, ReadAgain, AppExits, AppRestarts
<1> QED
  BY <1>1, <1>2, <1>3, <1>4, <1>5, <1>7, <1>8, <1>9 DEF IosNext, iosVars

(* The state keeps its shape.                                               *)
THEOREM IosShape == IosSpec => []Shape
BY ShapeInit, ShapeStep, PTL DEF IosSpec

(* A request that is not read-only is dispatched by the app at most once,   *)
(* whatever is lost, restarted or killed.                                  *)
THEOREM MutationsOnce == IosSpec => []DispatchedOnce
<1>1. IosInit => DispatchInv
  <2>1. Cautious(Fresh)
    BY DEF Cautious, Fresh, None
  <2> QED
    BY <2>1 DEF IosInit, DispatchInv
<1>2. DispatchInv => DispatchedOnce
  BY DEF DispatchInv, DispatchedOnce, Cautious
<1> QED
  BY <1>1, <1>2, IosShape, DispatchStep, PTL DEF IosSpec

-----------------------------------------------------------------------------
(* One relaunch for each mishap.                                            *)

\* The app can be reached by what the daemon has cached or is about to.
Known == \/ tunnel = app.instance
         \/ bootstrap.pc = "rotated" /\ bootstrap.token = app.instance

\* A live app whose bearer the daemon has lost will be relaunched: a mishap is
\* kept for it.
Debt ==
    /\ relaunches <= mishaps
    /\ app.up => app.instance # None
    /\ tunnel <= app.instance /\ bootFile <= app.instance
    /\ bootstrap.token <= app.instance
    /\ bootstrap.pc # "none" => tunnel = None
    /\ bootstrap.pc \in {"rotate", "rotated"} => bootstrap.token # None
    /\ app.up /\ bootFile = None => app.rotated
    /\ tunnel # None /\ tunnel = app.instance => app.rotated
    /\ bootstrap.pc = "rotated" /\ bootstrap.token = app.instance => app.rotated
    /\ bootstrap.pc = "relaunch" /\ app.up => relaunches < mishaps
    /\ app.up /\ app.rotated /\ ~Known => relaunches < mishaps

\* A handler whose answer makes it drop the bearer of the live app has met a
\* mishap.
Backed(q) ==
    q.pc \in {"sent", "answered"} =>
        /\ q.via # None /\ q.via <= q.to /\ q.to <= app.instance
        /\ q.via = app.instance => app.rotated
        /\ q.pc = "answered" /\ q.answer = "unauthorized" => q.via # app.instance
        /\ q.pc = "answered" /\ q.answer = "lost" /\ q.via = app.instance /\ app.up
              => relaunches < mishaps

AllBacked == \A r \in Inbound : Backed(inbound[r])

LEMMA DebtInit == IosInit => Debt /\ AllBacked
<1> SUFFICES ASSUME IosInit PROVE Debt /\ AllBacked
  OBVIOUS
<1>1. (~app.up /\ app.instance = 0) \/ (app.up /\ app.instance = 1 /\ ~app.rotated)
  <2>1. CASE app = [up |-> FALSE, instance |-> 0, rotated |-> FALSE]
    BY <2>1
  <2>2. CASE app = [up |-> TRUE, instance |-> 1, rotated |-> FALSE]
    BY <2>2
  <2> QED
    BY <2>1, <2>2 DEF IosInit
<1>2. bootstrap.pc = "none" /\ bootstrap.token = 0
  BY DEF IosInit, NoBootstrap, None
<1>3. \A r \in Inbound : inbound[r].pc = "new"
  BY DEF IosInit, Fresh
<1>4. Debt
  BY <1>1, <1>2 DEF IosInit, Debt, Known, None
<1> QED
  BY <1>3, <1>4 DEF AllBacked, Backed

\* What the steps of the app and the mishaps leave as it is.
LEMMA WorldBacked ==
    ASSUME Shape, Debt, NEW q \in HandlerState, Backed(q),
           app'.instance \in Nat, mishaps' \in Nat, relaunches' \in Nat,
           \/ UNCHANGED app /\ relaunches' = relaunches /\ mishaps' >= mishaps
           \/ app'.instance > app.instance
           \/ /\ app'.instance = app.instance /\ app'.rotated
              /\ UNCHANGED <<relaunches, mishaps>> /\ app'.up = app.up
           \/ app'.instance = app.instance /\ app'.rotated = app.rotated /\ ~app'.up
    PROVE  q.pc \in {"sent", "answered"} =>
              /\ q.via # None /\ q.via <= q.to /\ q.to <= app'.instance
              /\ q.via = app'.instance => app'.rotated
              /\ q.pc = "answered" /\ q.answer = "unauthorized" => q.via # app'.instance
              /\ q.pc = "answered" /\ q.answer = "lost" /\ q.via = app'.instance /\ app'.up
                    => relaunches' < mishaps'
BY DEF Shape, HandlerState, Backed

\* The debt is kept by what leaves the app and the history alone, unless it
\* gives up the bearer of a live app that no mishap was met for.
LEMMA QuietDebt ==
    ASSUME Shape, Shape', Debt, UNCHANGED <<app, bootFile, mishaps, relaunches>>,
           tunnel' <= app.instance, bootstrap'.token <= app.instance,
           bootstrap'.pc # "none" => tunnel' = None,
           bootstrap'.pc \in {"rotate", "rotated"} => bootstrap'.token # None,
           tunnel' # None /\ tunnel' = app.instance => app.rotated,
           bootstrap'.pc = "rotated" /\ bootstrap'.token = app.instance => app.rotated,
           bootstrap'.pc = "relaunch" /\ app.up => relaunches < mishaps,
           app.up /\ app.rotated /\ Known => Known' \/ relaunches < mishaps
    PROVE  Debt'
BY DEF Debt, Shape

\* Handlers: no step leaves one whose answer would cost an unpaid relaunch.
LEMMA BackedStep == Shape /\ Shape' /\ Debt /\ AllBacked /\ [IosNext]_iosVars => AllBacked'
<1> SUFFICES ASSUME Shape, Shape', Debt, AllBacked, [IosNext]_iosVars, NEW r \in Inbound
             PROVE  Backed(inbound[r])'
  BY DEF AllBacked
<1>0. /\ inbound[r] \in HandlerState /\ Backed(inbound[r])
      /\ inbound \in [Inbound -> HandlerState] /\ inbound'[r] \in HandlerState
      /\ {app.instance, mishaps, relaunches, tunnel} \subseteq Nat
      /\ {app.instance, mishaps, relaunches}' \subseteq Nat
      /\ bootstrap \in BootstrapState
  BY DEF AllBacked, Shape
<1>1. ASSUME inbound'[r] = inbound[r],
             \/ UNCHANGED app /\ relaunches' = relaunches /\ mishaps' >= mishaps
             \/ app'.instance > app.instance
             \/ /\ app'.instance = app.instance /\ app'.rotated
                /\ UNCHANGED <<relaunches, mishaps>> /\ app'.up = app.up
             \/ app'.instance = app.instance /\ app'.rotated = app.rotated /\ ~app'.up
      PROVE  Backed(inbound[r])'
  BY <1>0, <1>1, WorldBacked DEF Backed
\* A request that is sent over a tunnel within the debt, or not sent at all.
<1>2. ASSUME UNCHANGED app,
             \/ inbound'[r].pc \notin {"sent", "answered"}
             \/ /\ inbound'[r].pc = "sent" /\ inbound'[r].via # None
                /\ inbound'[r].via <= app.instance /\ inbound'[r].to = app.instance
                /\ inbound'[r].via = app.instance => app.rotated
      PROVE  Backed(inbound[r])'
  BY <1>0, <1>2 DEF Backed
<1>3. ASSUME NEW s \in Inbound, Asked(s) PROVE Backed(inbound[r])'
  <2> DEFINE whole == bootstrap.pc = "none" \/ bootstrap.since = mishaps
  <2> DEFINE q == [inbound[s] EXCEPT !.born = mishaps, !.sound = whole]
  <2>0. whole \in BOOLEAN /\ inbound[s] \in HandlerState /\ mishaps \in Nat
    BY DEF Shape
  <2>1. /\ q \in HandlerState /\ [q EXCEPT !.pc = "waiting"].pc = "waiting"
    <3> HIDE DEF whole
    <3> QED
      BY <2>0, Zenon DEF HandlerState
  <2>2. getTunnel(s, q, tunnel) /\ tunnel \in Nat /\ UNCHANGED <<app, mishaps, relaunches>>
    BY <1>3 DEF Asked, Shape
  <2> HIDE DEF q
  <2>3. PICK m \in HandlerState :
            /\ inbound' = [inbound EXCEPT ![s] = m]
            /\ m = Resumed(q, tunnel) \/ m = [q EXCEPT !.pc = "waiting"]
    BY <2>1, <2>2, GetTunnelMoves
  <2>4. \/ m.pc \notin {"sent", "answered"}
        \/ /\ m.pc = "sent" /\ m.via # None /\ m.via <= app.instance /\ m.to = app.instance
           /\ m.via = app.instance => app.rotated
    <3>1. tunnel <= app.instance /\ (tunnel # None /\ tunnel = app.instance => app.rotated)
      BY DEF Debt
    <3>2. CASE m = Resumed(q, tunnel)
      <4>1. \/ m.pc = "done"
            \/ m.pc = "sent" /\ tunnel # None /\ m.via = tunnel /\ m.to = app.instance
        BY <2>1, <2>2, <3>2, ResumedMoves
      <4> QED
        BY <3>1, <4>1
    <3>3. CASE m = [q EXCEPT !.pc = "waiting"]
      BY <2>1, <3>3
    <3> QED
      BY <2>3, <3>2, <3>3
  <2>5. CASE s = r
    BY <1>0, <1>2, <2>2, <2>3, <2>4, <2>5
  <2> QED
    BY <1>0, <1>1, <2>2, <2>3, <2>5
<1>4. ASSUME NEW s \in Inbound, Arrives(s) PROVE Backed(inbound[r])'
  <2>1. PICK m \in HandlerState :
            /\ inbound' = [inbound EXCEPT ![s] = m]
            /\ m.pc = "answered" /\ m.via = inbound[s].via /\ m.to = app.instance
            /\ m.answer = "ok" \/ (~Accepts(inbound[s].via) /\ m.answer = "unauthorized")
    BY <1>4, ArrivesMoves
  <2>2. inbound[s].pc = "sent" /\ app.up /\ UNCHANGED <<app, mishaps, relaunches>>
    BY <1>4, ArrivesMoves
  <2>3. CASE s = r
    <3>1. inbound'[r] = m
      BY <1>0, <2>1, <2>3
    <3>2. /\ inbound[r].via # None /\ inbound[r].via <= app.instance
          /\ inbound[r].via = app.instance => app.rotated
      BY <1>0, <2>2, <2>3 DEF Backed, HandlerState
    <3>3. m.answer = "ok" \/ (m.answer = "unauthorized" /\ m.via # app.instance)
      BY <2>1, <2>2, <2>3, <3>2 DEF Accepts
    <3>4. /\ inbound'[r].pc = "answered" /\ inbound'[r].via = inbound[r].via
          /\ inbound'[r].to = app'.instance /\ app' = app
          /\ inbound'[r].answer = "ok"
             \/ (inbound'[r].answer = "unauthorized" /\ inbound'[r].via # app.instance)
      BY <2>1, <2>2, <2>3, <3>1, <3>3
    <3> QED
      BY <1>0, <3>2, <3>4 DEF Backed
  <2>4. CASE s # r
    <3>1. inbound'[r] = inbound[r]
      BY <1>0, <2>1, <2>4
    <3>2. app' = app /\ relaunches' = relaunches /\ mishaps' >= mishaps
      BY <1>0, <2>2
    <3> QED
      BY <1>1, <3>1, <3>2
  <2> QED
    BY <2>3, <2>4
<1>5. ASSUME NEW s \in Inbound, Reset(s) \/ AnswerLost(s) PROVE Backed(inbound[r])'
  <2>1. UNCHANGED <<app, relaunches>> /\ mishaps' >= mishaps
    BY <1>0, <1>5 DEF Reset, AnswerLost, Mishap
  <2>2. CASE s = r
    <3>1. /\ inbound'[r].answer = "lost" /\ inbound'[r].pc = "answered"
          /\ inbound'[r].via = inbound[r].via /\ inbound'[r].to = inbound[r].to
          /\ inbound[r].pc \in {"sent", "answered"}
          /\ Gone(inbound[r].to) \/ mishaps' = mishaps + 1
      BY <1>0, <1>5, <2>2 DEF Reset, AnswerLost, Mishap, HandlerState
    <3>2. /\ inbound[r].via # None /\ inbound[r].via <= inbound[r].to
          /\ inbound[r].to <= app.instance
          /\ inbound[r].via = app.instance => app.rotated
      BY <1>0, <3>1 DEF Backed
    <3>3. inbound[r].via = app.instance /\ app.up => relaunches' < mishaps'
      BY <1>0, <2>1, <3>1, <3>2 DEF Gone, Debt, HandlerState
    <3> QED
      BY <2>1, <3>1, <3>2, <3>3 DEF Backed
  <2>3. CASE s # r
    <3>1. inbound'[r] = inbound[r]
      BY <1>0, <1>5, <2>3 DEF Reset, AnswerLost
    <3> QED
      BY <1>1, <2>1, <3>1
  <2> QED
    BY <2>2, <2>3
<1>6. ASSUME NEW s \in Inbound, Answered(s) PROVE Backed(inbound[r])'
  <2>1. PICK m \in HandlerState :
            /\ inbound' = [inbound EXCEPT ![s] = m]
            /\ \/ m.pc \in {"done", "waiting"}
               \/ m.pc = "sent" /\ m.via = tunnel' /\ tunnel' # None /\ m.to = app.instance
    BY <1>6, AnsweredMoves
  <2>2. UNCHANGED <<app, mishaps, relaunches>> /\ (tunnel' = None \/ tunnel' = tunnel)
    BY <1>6, AnsweredMoves DEF invalidateTunnel
  <2>3. CASE s = r
    BY <1>0, <1>2, <2>1, <2>2, <2>3 DEF Debt
  <2> QED
    BY <1>0, <1>1, <2>1, <2>2, <2>3
<1>7. ASSUME NEW t \in Nat, Over(t), UNCHANGED <<app, relaunches>>, mishaps' >= mishaps,
             t <= app.instance, t # None /\ t = app.instance => app.rotated
      PROVE  Backed(inbound[r])'
  <2>1. CASE inbound[r].pc = "waiting"
    <3>1. inbound'[r] = Resumed(inbound[r], t)
      BY <1>7, <2>1, OverMoves
    <3>2. \/ inbound'[r].pc = "done"
          \/ /\ inbound'[r].pc = "sent" /\ t # None
             /\ inbound'[r].via = t /\ inbound'[r].to = app.instance
      <4> DEFINE m == Resumed(inbound[r], t)
      <4>1. m.pc = "done" \/ (m.pc = "sent" /\ t # None /\ m.via = t /\ m.to = app.instance)
        BY <1>0, <1>7, ResumedMoves
      <4>2. inbound'[r] = m
        BY <3>1
      <4> HIDE DEF m
      <4> QED
        BY <4>1, <4>2
    <3> QED
      BY <1>2, <1>7, <3>2
  <2> QED
    BY <1>0, <1>1, <1>7, <2>1, OverMoves
<1>8. CASE Unreachable \/ BootstrapFails
  <2>1. Over(None) /\ UNCHANGED <<app, relaunches>> /\ mishaps' >= mishaps
    BY <1>0, <1>8 DEF Unreachable, BootstrapFails, Mishap
  <2> QED
    BY <1>0, <1>7, <2>1 DEF None
<1>9. CASE Rotate
  <2>1. CASE Over(None) /\ UNCHANGED <<app, mishaps, relaunches>>
    BY <1>0, <1>7, <2>1 DEF None
  <2>2. CASE /\ app' = [app EXCEPT !.rotated = TRUE]
             /\ UNCHANGED <<inbound, mishaps, relaunches>>
    <3>1. app'.instance = app.instance /\ app'.rotated /\ app'.up = app.up
      BY <2>2 DEF Shape
    <3> QED
      BY <1>1, <2>2, <3>1
  <2> QED
    BY <1>9, <2>1, <2>2 DEF Rotate
<1>10. CASE Rotated
  <2>1. /\ Over(bootstrap.token) /\ bootstrap.token \in Nat
        /\ UNCHANGED <<app, mishaps, relaunches>> /\ bootstrap.pc = "rotated"
    BY <1>0, <1>10 DEF Rotated, BootstrapState
  <2> QED
    BY <1>0, <1>7, <2>1 DEF Debt
<1>11. CASE DaemonRestarts
  <2>1. UNCHANGED <<app, relaunches>> /\ mishaps' >= mishaps
    BY <1>0, <1>11 DEF DaemonRestarts, Mishap
  <2>2. inbound'[r] = inbound[r] \/ inbound'[r] = Done(inbound[r], "failed")
    BY <1>11 DEF DaemonRestarts
  <2>3. Done(inbound[r], "failed").pc = "done"
    BY <1>0, DoneMoves
  <2> QED
    BY <1>1, <1>2, <2>1, <2>2, <2>3
<1>12. CASE Launch \/ relaunchApp \/ AppRestarts
  <2>1. inbound' = inbound /\ (Starts \/ (UNCHANGED <<app, relaunches, mishaps>>))
    BY <1>12 DEF Launch, relaunchApp, AppRestarts
  <2>2. CASE Starts
    BY <1>0, <1>1, <2>1, <2>2, StartsMoves
  <2> QED
    BY <1>0, <1>1, <2>1, <2>2
<1>13. CASE AppExits
  <2>1. app'.instance = app.instance /\ app'.rotated = app.rotated /\ ~app'.up
    BY <1>13 DEF AppExits, Shape
  <2> QED
    BY <1>1, <1>13, <2>1 DEF AppExits
<1>14. CASE ReadBootToken \/ ReadAgain \/ UNCHANGED iosVars
  BY <1>0, <1>1, <1>14 DEF ReadBootToken, ReadAgain, iosVars
<1> QED
  BY <1>3, <1>4, <1>5, <1>6, <1>8, <1>9, <1>10, <1>11, <1>12, <1>13, <1>14 DEF IosNext

\* Every step keeps the debt.
LEMMA DebtStep == Shape /\ Shape' /\ Debt /\ AllBacked /\ [IosNext]_iosVars => Debt'
<1> SUFFICES ASSUME Shape, Shape', Debt, AllBacked, [IosNext]_iosVars PROVE Debt'
  OBVIOUS
<1>0. /\ {app.instance, mishaps, relaunches, tunnel, bootFile, bootstrap.token} \subseteq Nat
      /\ tunnel <= app.instance /\ bootFile <= app.instance
      /\ bootstrap.token <= app.instance /\ relaunches <= mishaps
      /\ app.up => app.instance # None
      /\ bootstrap.pc # "none" => tunnel = None
      /\ tunnel # None /\ tunnel = app.instance => app.rotated
  BY DEF Shape, BootstrapState, Debt
\* The app is started, and no relaunch goes unpaid.
<1>1. ASSUME Starts, relaunches' <= mishaps', tunnel' = tunnel,
             bootstrap'.token = bootstrap.token,
             bootstrap'.pc \in {"none", "launch", "read", "reread"}
                \/ (bootstrap' = bootstrap /\ relaunches' < mishaps'),
             bootstrap'.pc # "none" => bootstrap.pc # "none"
      PROVE  Debt'
  <2>1. /\ app'.up /\ app'.instance = app.instance + 1 /\ ~app'.rotated
        /\ bootFile' = app.instance + 1
    BY <1>1, StartsMoves
  <2>2. /\ tunnel' < app'.instance /\ bootstrap'.token < app'.instance
        /\ bootFile' = app'.instance /\ app'.instance # None /\ bootFile' # None
    BY <1>0, <1>1, <2>1 DEF None
  <2>3. bootstrap'.pc # "none" => tunnel' = None
    BY <1>0, <1>1
  <2>4. /\ bootstrap'.pc \in {"rotate", "rotated"} => bootstrap'.token # None
        /\ bootstrap'.pc = "relaunch" => relaunches' < mishaps'
    BY <1>1 DEF Debt
  <2>5. {tunnel', bootstrap'.token, app'.instance, bootFile'} \subseteq Nat
    BY DEF Shape, BootstrapState
  <2> QED
    BY <1>1, <2>1, <2>2, <2>3, <2>4, <2>5 DEF Debt
\* A mishap, over which the app and the boot token stay.
<1>2. ASSUME UNCHANGED <<app, bootFile, relaunches>>, mishaps' = mishaps + 1,
             tunnel' \in {tunnel, None}, bootstrap' = bootstrap \/ bootstrap' = NoBootstrap
      PROVE  Debt'
  <2>1. NoBootstrap.pc = "none" /\ NoBootstrap.token = None
    BY DEF NoBootstrap
  <2>2. relaunches' < mishaps' /\ app' = app /\ bootFile' = bootFile
    BY <1>0, <1>2
  <2>3. CASE bootstrap' = bootstrap
    BY <1>0, <1>2, <2>2, <2>3 DEF Debt, None
  <2>4. CASE bootstrap' = NoBootstrap
    BY <1>0, <1>2, <2>1, <2>2, <2>4 DEF Debt, None
  <2> QED
    BY <1>2, <2>3, <2>4
<1>3. ASSUME NEW s \in Inbound, Asked(s) PROVE Debt'
  <2> DEFINE whole == bootstrap.pc = "none" \/ bootstrap.since = mishaps
  <2> DEFINE q == [inbound[s] EXCEPT !.born = mishaps, !.sound = whole]
  <2>0. whole \in BOOLEAN /\ inbound[s] \in HandlerState /\ mishaps \in Nat
    BY DEF Shape
  <2>1. q \in HandlerState
    <3> HIDE DEF whole
    <3> QED
      BY <2>0, Zenon DEF HandlerState
  <2>2. getTunnel(s, q, tunnel) /\ tunnel \in Nat
        /\ UNCHANGED <<app, bootFile, mishaps, relaunches>>
    BY <1>3 DEF Asked, Shape
  <2> HIDE DEF q
  <2>3. /\ tunnel' = tunnel
        /\ bootstrap' = bootstrap
           \/ /\ tunnel = None /\ bootstrap.pc = "none"
              /\ bootstrap'.pc = "launch" /\ bootstrap'.token = None
    BY <2>1, <2>2, GetTunnelMoves
  <2> QED
    BY <1>0, <2>2, <2>3 DEF Debt, Known, None
<1>4. ASSUME NEW s \in Inbound, Answered(s) PROVE Debt'
  <2>1. /\ UNCHANGED <<app, bootFile, mishaps, relaunches>>
        /\ inbound[s].pc = "answered"
        /\ tunnel' \in {tunnel, invalidateTunnel(inbound[s].via)}
        /\ tunnel' # tunnel => inbound[s].answer \in {"unauthorized", "lost"}
        /\ bootstrap' = bootstrap
           \/ /\ tunnel' = None /\ bootstrap.pc = "none"
              /\ bootstrap'.pc = "launch" /\ bootstrap'.token = None
    BY <1>4, AnsweredMoves
  <2>2. tunnel' = tunnel \/ (tunnel' = None /\ tunnel = inbound[s].via)
    BY <2>1 DEF invalidateTunnel
  <2>3. Backed(inbound[s])
    BY DEF AllBacked
  <2>4. tunnel' # tunnel /\ app.up /\ tunnel = app.instance => relaunches < mishaps
    BY <2>1, <2>2, <2>3 DEF Backed
  <2>5. app.up /\ app.rotated /\ Known => Known' \/ relaunches < mishaps
    BY <1>0, <2>1, <2>2, <2>4 DEF Known
  <2>6. /\ bootstrap'.token <= app.instance
        /\ bootstrap'.pc # "none" => tunnel' = None
        /\ bootstrap'.pc \in {"rotate", "rotated"} => bootstrap'.token # None
        /\ bootstrap'.pc = "rotated" /\ bootstrap'.token = app.instance => app.rotated
        /\ bootstrap'.pc = "relaunch" /\ app.up => relaunches < mishaps
    BY <1>0, <2>1, <2>2 DEF Debt, None
  <2> QED
    BY <1>0, <2>1, <2>2, <2>5, <2>6, QuietDebt DEF None
<1>5. ASSUME NEW s \in Inbound, Arrives(s) \/ Reset(s) \/ AnswerLost(s) PROVE Debt'
  <2>1. UNCHANGED <<app, bootFile, tunnel, bootstrap, relaunches>>
        /\ (mishaps' = mishaps \/ mishaps' = mishaps + 1)
    BY <1>5 DEF Arrives, Reset, AnswerLost, Mishap
  <2> QED
    BY <1>0, <1>2, <2>1 DEF Debt, Known
<1>6. CASE Launch
  <2>1. /\ bootstrap.pc = "launch" /\ bootstrap'.pc = "read"
        /\ bootstrap'.token = bootstrap.token /\ UNCHANGED <<tunnel, mishaps, relaunches>>
        /\ Starts \/ UNCHANGED <<app, bootFile>>
    BY <1>6 DEF Launch, Shape, BootstrapState
  <2>2. CASE Starts
    BY <1>0, <1>1, <2>1, <2>2
  <2>3. CASE UNCHANGED <<app, bootFile>>
    BY <1>0, <2>1, <2>3 DEF Debt, Known
  <2> QED
    BY <2>1, <2>2, <2>3
<1>7. CASE ReadBootToken
  <2>1. /\ bootstrap.pc = "read" /\ app.up
        /\ UNCHANGED <<app, bootFile, tunnel, mishaps, relaunches>>
        /\ \/ /\ bootFile = None /\ bootstrap'.pc = "relaunch"
              /\ bootstrap'.token = bootstrap.token
           \/ bootFile # None /\ bootstrap'.pc = "rotate" /\ bootstrap'.token = bootFile
    BY <1>7 DEF ReadBootToken, Shape, BootstrapState
  <2>2. ~Known
    BY <1>0, <2>1 DEF Known
  <2>3. bootFile = None => relaunches < mishaps
    BY <2>1, <2>2 DEF Debt
  <2> QED
    BY <1>0, <2>1, <2>2, <2>3, QuietDebt
<1>8. CASE ReadAgain
  <2>1. /\ bootstrap.pc = "reread" /\ app.up /\ bootFile # None
        /\ UNCHANGED <<app, bootFile, tunnel, mishaps, relaunches>>
        /\ bootstrap'.pc = "rotate" /\ bootstrap'.token = bootFile
    BY <1>8 DEF ReadAgain, Shape, BootstrapState
  <2>2. ~Known
    BY <1>0, <2>1 DEF Known
  <2> QED
    BY <1>0, <2>1, <2>2, QuietDebt
<1>9. CASE relaunchApp
  <2>1. /\ bootstrap.pc = "relaunch" /\ Starts /\ UNCHANGED <<tunnel, mishaps>>
        /\ relaunches' = relaunches + (IF app.up THEN 1 ELSE 0)
        /\ bootstrap'.pc = "reread" /\ bootstrap'.token = bootstrap.token
    BY <1>9 DEF relaunchApp, Shape, BootstrapState
  <2>2. relaunches' <= mishaps'
    BY <1>0, <2>1 DEF Debt
  <2> QED
    BY <1>1, <2>1, <2>2
<1>10. ASSUME Over(None), UNCHANGED <<app, bootFile, mishaps, relaunches>>, ~Known \/ ~app.up
       PROVE  Debt'
  <2>1. tunnel' = tunnel /\ bootstrap'.pc = "none" /\ bootstrap'.token = None
    BY <1>10 DEF Over, NoBootstrap
  <2> QED
    BY <1>0, <1>10, <2>1, QuietDebt DEF None
<1>11. CASE Unreachable
  BY <1>10, <1>11 DEF Unreachable
<1>12. CASE Rotate
  <2>1. bootstrap.pc = "rotate" /\ app.up /\ UNCHANGED <<mishaps, relaunches>> /\ ~Known
    BY <1>0, <1>12 DEF Rotate, Known
  <2>2. CASE /\ app.instance = bootstrap.token
             /\ app' = [app EXCEPT !.rotated = TRUE] /\ bootFile' = None
             /\ bootstrap' = [bootstrap EXCEPT !.pc = "rotated"] /\ UNCHANGED tunnel
    <3>1. /\ app'.instance = app.instance /\ app'.rotated /\ app'.up = app.up
          /\ bootstrap'.pc = "rotated" /\ bootstrap'.token = app'.instance
      BY <2>2 DEF Shape, BootstrapState
    <3> QED
      BY <1>0, <2>1, <2>2, <3>1 DEF Debt, Known, None
  <2>3. CASE Over(None) /\ UNCHANGED <<app, bootFile>>
    BY <1>10, <2>1, <2>3
  <2> QED
    BY <1>12, <2>2, <2>3 DEF Rotate
<1>13. CASE Rotated
  <2>1. /\ bootstrap.pc = "rotated" /\ bootstrap.token # None
        /\ UNCHANGED <<app, bootFile, mishaps, relaunches>>
        /\ tunnel' = bootstrap.token /\ bootstrap'.pc = "none" /\ bootstrap'.token = None
    BY <1>13 DEF Rotated, Over, NoBootstrap, Debt
  <2>2. bootstrap.token = app.instance => app.rotated
    BY <2>1 DEF Debt
  <2> QED
    BY <1>0, <2>1, <2>2, QuietDebt DEF Known, None
<1>14. CASE AppExits
  <2>1. /\ ~app'.up /\ app'.instance = app.instance /\ app'.rotated = app.rotated
        /\ UNCHANGED <<bootFile, tunnel, bootstrap, relaunches>> /\ mishaps' = mishaps + 1
    BY <1>14 DEF AppExits, Mishap, Shape
  <2> QED
    BY <1>0, <2>1 DEF Debt, Known
<1>15. CASE AppRestarts
  <2>1. /\ Starts /\ tunnel' = tunnel /\ bootstrap' = bootstrap
        /\ relaunches' < mishaps' /\ relaunches' <= mishaps'
    BY <1>0, <1>15 DEF AppRestarts, Mishap
  <2> QED
    BY <1>1, <2>1
<1>16. CASE BootstrapFails
  <2>1. /\ UNCHANGED <<app, bootFile, relaunches>> /\ mishaps' = mishaps + 1
        /\ tunnel' = tunnel /\ bootstrap' = NoBootstrap
    BY <1>16 DEF BootstrapFails, Mishap, Over
  <2> QED
    BY <1>2, <2>1
<1>17. CASE DaemonRestarts
  BY <1>2, <1>17 DEF DaemonRestarts, Mishap
<1>18. CASE UNCHANGED iosVars
  BY <1>18 DEF iosVars, Debt, Known
<1> QED
  BY <1>3, <1>4, <1>5, <1>6, <1>7, <1>8, <1>9, <1>11, <1>12, <1>13, <1>14, <1>15, <1>16, <1>17,
     <1>18 DEF IosNext

(* A live app is relaunched at most once for each thing that went wrong.    *)
THEOREM RelaunchesPaid == IosSpec => []OneRelaunchPerMishap
<1>1. Debt => OneRelaunchPerMishap
  BY DEF Debt, OneRelaunchPerMishap
<1> QED
  BY <1>1, IosShape, DebtInit, DebtStep, BackedStep, PTL DEF IosSpec

-----------------------------------------------------------------------------
(* Reads that came after the last mishap.                                   *)

\* The history is no later than now.
Dated == bootstrap.since <= mishaps /\ \A r \in Inbound : inbound[r].born <= mishaps

\* A boot token that is there is good for the app's one rotation.
FileFresh == bootFile # None => bootFile = app.instance /\ ~app.rotated

\* A bootstrap that no mishap met is getting on.
GettingOn ==
    bootstrap.pc # "none" /\ bootstrap.since = mishaps =>
        /\ bootstrap.pc # "launch" => app.up
        /\ bootstrap.pc = "reread" => bootFile = app.instance
        /\ bootstrap.pc = "rotate" => bootstrap.token = app.instance /\ ~app.rotated
        /\ bootstrap.pc = "rotated" => bootstrap.token = app.instance /\ app.rotated

\* A bearer just rotated has not been used.
Unused ==
    bootstrap.pc = "rotated" /\ bootstrap.token = app.instance =>
        \A r \in Inbound : inbound[r].pc \in {"sent", "answered"} => inbound[r].via # app.instance

\* What a handler is at.
Handled(r) ==
    /\ inbound[r].pc = "new" => inbound[r].attempt = 1 /\ inbound[r].via = None
    /\ inbound[r].pc = "waiting" => bootstrap.pc # "none" /\ inbound[r].attempt = 1
    /\ inbound[r].pc = "answered" => inbound[r].answer \in {"ok", "unauthorized", "lost"}
    /\ r \in ReadOnly => inbound[r].safe

\* The cached tunnel works, and nobody who used it has a reason to drop it.
Settled ==
    /\ tunnel # None /\ Accepts(tunnel) /\ bootstrap.pc = "none"
    /\ \A r \in Inbound :
          inbound[r].pc = "answered" /\ inbound[r].via = tunnel => inbound[r].answer = "ok"

\* A read that came after the last mishap will be answered: a bootstrap that is
\* under way began after it too, a first attempt that fails starts another or
\* finds its tunnel replaced, and a second goes over a tunnel that works.
Recovering(r) ==
    inbound[r].sound /\ inbound[r].born = mishaps =>
        /\ bootstrap.pc # "none" => bootstrap.since = mishaps
        /\ inbound[r].pc \in {"sent", "answered"} =>
              \/ inbound[r].attempt = 1 /\ tunnel \in {inbound[r].via, None}
              \/ Settled /\ (inbound[r].attempt = 2 => inbound[r].via = tunnel)
        /\ inbound[r].pc = "done" => inbound[r].answer = "ok"

AllHandled == \A r \in Inbound : Handled(r)
AllRecovering == \A r \in ReadOnly : Recovering(r)
Recovery == Dated /\ FileFresh /\ GettingOn /\ Unused /\ AllHandled /\ AllRecovering

\* Where a handler that goes on with a tunnel is.
LEMMA ResumedFields ==
    ASSUME Shape, NEW q \in HandlerState, NEW t \in Nat
    PROVE  /\ Resumed(q, t).born = q.born /\ Resumed(q, t).sound = q.sound
           /\ Resumed(q, t).safe
           /\ \/ /\ Resumed(q, t).pc = "done"
                 /\ t = None \/ ~q.safe
              \/ /\ Resumed(q, t).pc = "sent" /\ t # None /\ Resumed(q, t).via = t
                 /\ Resumed(q, t).attempt = IF q.attempt = 1 /\ q.via = None THEN 1 ELSE 2
<1> DEFINE end == Done(q, "failed")
           first == Attempt(q, t, 1)
           second == Attempt(q, t, 2)
<1>1. end.born = q.born /\ end.sound = q.sound /\ end.safe /\ end.pc = "done"
  BY DEF Done
<1>2. /\ first.born = q.born /\ first.sound = q.sound /\ first.safe
      /\ first.pc = "sent" /\ first.via = t /\ first.attempt = 1
  BY DEF Attempt
<1>3. /\ second.born = q.born /\ second.sound = q.sound /\ second.safe
      /\ second.pc = "sent" /\ second.via = t /\ second.attempt = 2
  BY DEF Attempt
<1>4. \/ Resumed(q, t) = end /\ (t = None \/ ~q.safe)
      \/ Resumed(q, t) = first /\ q.attempt = 1 /\ q.via = None /\ t # None
      \/ Resumed(q, t) = second /\ ~(q.attempt = 1 /\ q.via = None) /\ t # None
  BY DEF Resumed
<1> HIDE DEF end, first, second
<1> QED
  BY <1>1, <1>2, <1>3, <1>4

\* A request that arrives at the daemon.
LEMMA AskedMoves ==
    ASSUME Shape, NEW s \in Inbound, Asked(s), Handled(s)
    PROVE  /\ UNCHANGED <<app, bootFile, tunnel, mishaps, relaunches>>
           /\ \A r \in Inbound : r # s => inbound'[r] = inbound[r]
           /\ inbound'[s].born = mishaps
           /\ inbound'[s].sound => bootstrap.pc = "none" \/ bootstrap.since = mishaps
           /\ s \in ReadOnly => inbound'[s].safe
           /\ inbound'[s].attempt = 1
           /\ \/ /\ tunnel # None /\ bootstrap' = bootstrap
                 /\ inbound'[s].pc = "sent" /\ inbound'[s].via = tunnel
              \/ /\ tunnel = None /\ inbound'[s].pc = "waiting"
                 /\ \/ bootstrap.pc # "none" /\ bootstrap' = bootstrap
                    \/ /\ bootstrap.pc = "none"
                       /\ bootstrap'.pc = "launch" /\ bootstrap'.since = mishaps
<1> DEFINE whole == bootstrap.pc = "none" \/ bootstrap.since = mishaps
<1> DEFINE q == [inbound[s] EXCEPT !.born = mishaps, !.sound = whole]
           w == [q EXCEPT !.pc = "waiting"]
           m == IF tunnel # None THEN Resumed(q, tunnel) ELSE w
<1>1. whole \in BOOLEAN /\ (whole => bootstrap.pc = "none" \/ bootstrap.since = mishaps)
  OBVIOUS
<1>2. inbound[s] \in HandlerState /\ mishaps \in Nat /\ tunnel \in Nat /\ inbound[s].pc = "new"
      /\ inbound \in [Inbound -> HandlerState]
  BY DEF Shape, Asked
<1>3. /\ q \in HandlerState /\ q.born = mishaps /\ q.sound = whole
      /\ q.attempt = inbound[s].attempt /\ q.via = inbound[s].via /\ q.safe = inbound[s].safe
      /\ w.born = mishaps /\ w.sound = whole /\ w.pc = "waiting"
      /\ w.attempt = inbound[s].attempt /\ w.safe = inbound[s].safe
  <2> HIDE DEF whole
  <2> QED
    BY <1>1, <1>2 DEF HandlerState
<1>4. getTunnel(s, q, tunnel) /\ UNCHANGED <<app, bootFile, mishaps, relaunches>>
  BY DEF Asked
<1>5. /\ inbound' = [inbound EXCEPT ![s] = m] /\ tunnel' = tunnel
      /\ bootstrap' = IF tunnel # None \/ bootstrap.pc # "none" THEN bootstrap
                      ELSE [pc |-> "launch", token |-> None, since |-> mishaps]
  BY <1>4 DEF getTunnel
<1> HIDE DEF q, w, whole
<1>6. inbound'[s] = m /\ \A r \in Inbound : r # s => inbound'[r] = inbound[r]
  BY <1>2, <1>5
<1>7. /\ inbound[s].attempt = 1 /\ inbound[s].via = None
      /\ s \in ReadOnly => inbound[s].safe
  BY <1>2 DEF Handled
<1>8. CASE tunnel # None
  <2>1. m = Resumed(q, tunnel)
    BY <1>8
  <2>2. /\ m.born = q.born /\ m.sound = q.sound /\ m.safe
        /\ m.pc = "sent" /\ m.via = tunnel /\ m.attempt = 1
    <3>1. q.attempt = 1 /\ q.via = None
      BY <1>3, <1>7
    <3>2. Resumed(q, tunnel) = Attempt(q, tunnel, 1)
      BY <1>8, <3>1 DEF Resumed
    <3> QED
      BY <2>1, <3>2 DEF Attempt
  <2> QED
    BY <1>1, <1>3, <1>4, <1>5, <1>6, <1>8, <2>2
<1>9. CASE tunnel = None
  <2>1. m = w
    BY <1>9
  <2> QED
    BY <1>1, <1>3, <1>4, <1>5, <1>6, <1>7, <1>9, <2>1
<1> QED
  BY <1>8, <1>9

\* A handler that has its answer: it is done with it, goes on over another
\* tunnel, waits for one, or gives up.
LEMMA TriedMoves ==
    ASSUME Shape, AllBacked, NEW s \in Inbound, Answered(s)
    PROVE  /\ inbound[s].pc = "answered" /\ UNCHANGED <<app, bootFile, mishaps, relaunches>>
           /\ \A r \in Inbound : r # s => inbound'[r] = inbound[r]
           /\ inbound'[s].born = inbound[s].born /\ inbound'[s].sound = inbound[s].sound
           /\ s \in ReadOnly => inbound'[s].safe
           /\ \/ /\ inbound[s].answer \notin {"unauthorized", "lost"}
                 /\ inbound'[s].pc = "done" /\ inbound'[s].answer = inbound[s].answer
                 /\ UNCHANGED <<tunnel, bootstrap>>
              \/ /\ inbound[s].answer \in {"unauthorized", "lost"} /\ inbound[s].attempt = 1
                 /\ tunnel # inbound[s].via /\ tunnel # None /\ UNCHANGED <<tunnel, bootstrap>>
                 /\ \/ inbound'[s].pc = "done" /\ s \notin ReadOnly
                    \/ inbound'[s].pc = "sent" /\ inbound'[s].via = tunnel
              \/ /\ inbound[s].answer \in {"unauthorized", "lost"} /\ inbound[s].attempt = 1
                 /\ tunnel \in {inbound[s].via, None} /\ tunnel' = None
                 /\ inbound'[s].pc = "waiting" /\ inbound'[s].attempt = 1
                 /\ \/ bootstrap.pc # "none" /\ bootstrap' = bootstrap
                    \/ /\ bootstrap.pc = "none"
                       /\ bootstrap'.pc = "launch" /\ bootstrap'.since = mishaps
              \/ /\ inbound[s].answer \in {"unauthorized", "lost"} /\ inbound[s].attempt = 2
                 /\ tunnel' = tunnel \/ (tunnel = inbound[s].via /\ tunnel' = None)
                 /\ inbound'[s].pc = "done" /\ bootstrap' = bootstrap
<1> DEFINE q == inbound[s]
           safe == canReplayAfterRefresh(s, q.answer)
           again == [q EXCEPT !.safe = safe]
           t == invalidateTunnel(q.via)
           w == [again EXCEPT !.pc = "waiting"]
<1>1. /\ q \in HandlerState /\ q.pc = "answered" /\ t \in Nat /\ safe \in BOOLEAN
      /\ q.via # None /\ tunnel \in Nat /\ (s \in ReadOnly => safe)
      /\ t = (IF tunnel = q.via THEN None ELSE tunnel)
      /\ inbound \in [Inbound -> HandlerState]
  BY DEF Answered, Shape, invalidateTunnel, None, canReplayAfterRefresh, AllBacked, Backed
<1>2. UNCHANGED <<app, bootFile, mishaps, relaunches>>
  BY DEF Answered
<1>3. /\ again \in HandlerState /\ again.via = q.via /\ again.safe = safe
      /\ again.born = q.born /\ again.sound = q.sound
      /\ w.pc = "waiting" /\ w.safe = safe /\ w.attempt = q.attempt
      /\ w.born = q.born /\ w.sound = q.sound
  <2> HIDE DEF safe
  <2> QED
    BY <1>1 DEF HandlerState
<1>4. \A how : /\ Done(q, how).pc = "done" /\ Done(q, how).answer = how /\ Done(q, how).safe
               /\ Done(q, how).born = q.born /\ Done(q, how).sound = q.sound
  BY DEF Done
<1>5. CASE /\ ~shouldRefreshTunnel(q.answer)
           /\ inbound' = [inbound EXCEPT ![s] = Done(q, q.answer)]
           /\ UNCHANGED <<tunnel, bootstrap>>
  BY <1>1, <1>2, <1>4, <1>5 DEF shouldRefreshTunnel
<1>6. CASE /\ shouldRefreshTunnel(q.answer) /\ q.attempt = 2 /\ tunnel' = t
           /\ inbound' = [inbound EXCEPT ![s] = Done(q, "failed")] /\ UNCHANGED bootstrap
  <2> HIDE DEF t
  <2> QED
    BY <1>1, <1>2, <1>4, <1>6 DEF shouldRefreshTunnel
<1>7. CASE shouldRefreshTunnel(q.answer) /\ q.attempt = 1 /\ getTunnel(s, again, t)
  <2> DEFINE m == IF t # None THEN Resumed(again, t) ELSE w
  <2>1. /\ inbound' = [inbound EXCEPT ![s] = m] /\ tunnel' = t
        /\ bootstrap' = IF t # None \/ bootstrap.pc # "none" THEN bootstrap
                        ELSE [pc |-> "launch", token |-> None, since |-> mishaps]
    BY <1>7 DEF getTunnel
  <2>2. q.answer \in {"unauthorized", "lost"}
    BY <1>7 DEF shouldRefreshTunnel
  <2> HIDE DEF again, t, safe, w
  <2>3. inbound'[s] = m /\ \A r \in Inbound : r # s => inbound'[r] = inbound[r]
    BY <1>1, <2>1
  <2>4. CASE t # None
    <3>1. m = Resumed(again, t)
      BY <2>4
    <3>2. /\ m.born = q.born /\ m.sound = q.sound /\ m.safe
          /\ \/ m.pc = "done" /\ ~safe
             \/ m.pc = "sent" /\ m.via = t
      BY <1>1, <1>3, <2>4, <3>1, ResumedFields
    <3>3. t = tunnel /\ tunnel # q.via
      BY <1>1, <2>4
    <3> HIDE DEF m
    <3> QED
      BY <1>1, <1>2, <1>7, <2>1, <2>2, <2>3, <2>4, <3>2, <3>3
  <2>5. CASE t = None
    <3>1. m = w
      BY <2>5
    <3>2. tunnel \in {q.via, None}
      BY <1>1, <2>5
    <3>3. /\ m.pc = "waiting" /\ m.attempt = 1 /\ m.born = q.born /\ m.sound = q.sound
          /\ (s \in ReadOnly => m.safe)
      BY <1>1, <1>3, <1>7, <3>1
    <3>4. \/ bootstrap.pc # "none" /\ bootstrap' = bootstrap
          \/ bootstrap.pc = "none" /\ bootstrap'.pc = "launch" /\ bootstrap'.since = mishaps
      BY <2>1, <2>5
    <3> HIDE DEF m
    <3> QED
      BY <1>1, <1>2, <1>7, <2>1, <2>2, <2>3, <2>5, <3>2, <3>3, <3>4
  <2> QED
    BY <2>4, <2>5
<1> QED
  BY <1>5, <1>6, <1>7 DEF Answered

\* The handlers when the bootstrap is over with t.
LEMMA OverFields ==
    ASSUME Shape, NEW t \in Nat, Over(t), NEW r \in Inbound
    PROVE  /\ bootstrap'.pc = "none" /\ bootstrap'.since = 0
           /\ inbound'[r].born = inbound[r].born /\ inbound'[r].sound = inbound[r].sound
           /\ inbound[r].safe => inbound'[r].safe
           /\ \/ inbound[r].pc # "waiting" /\ inbound'[r] = inbound[r]
              \/ inbound'[r].pc = "done" /\ (t = None \/ ~inbound[r].safe)
              \/ /\ inbound'[r].pc = "sent" /\ t # None /\ inbound'[r].via = t
<1>1. inbound[r] \in HandlerState /\ Resumed(inbound[r], t) \in HandlerState
  BY ResumedMoves DEF Shape
<1>2. bootstrap'.pc = "none" /\ bootstrap'.since = 0
  BY DEF Over, NoBootstrap
<1>3. inbound'[r] = IF inbound[r].pc = "waiting" THEN Resumed(inbound[r], t) ELSE inbound[r]
  BY OverMoves
<1> QED
  BY <1>1, <1>2, <1>3, ResumedFields

LEMMA RecoveryInit == IosInit => Recovery
<1> SUFFICES ASSUME IosInit PROVE Recovery
  OBVIOUS
<1>1. /\ bootFile = app.instance /\ (app.instance = 0 \/ ~app.rotated)
      /\ bootstrap.pc = "none" /\ bootstrap.since = 0 /\ mishaps = 0
  <2>1. CASE app = [up |-> FALSE, instance |-> 0, rotated |-> FALSE]
    BY <2>1 DEF IosInit, NoBootstrap
  <2>2. CASE app = [up |-> TRUE, instance |-> 1, rotated |-> FALSE]
    BY <2>2 DEF IosInit, NoBootstrap
  <2> QED
    BY <2>1, <2>2 DEF IosInit
<1>2. \A r \in Inbound : /\ inbound[r].pc = "new" /\ inbound[r].born = 0 /\ inbound[r].safe
                         /\ inbound[r].attempt = 1 /\ inbound[r].via = None
  BY DEF IosInit, Fresh
<1>3. Dated /\ FileFresh /\ GettingOn /\ Unused
  BY <1>1, <1>2 DEF Dated, FileFresh, GettingOn, Unused, None
<1>4. AllHandled
  BY <1>1, <1>2 DEF AllHandled, Handled
<1>5. AllRecovering
  BY <1>1, <1>2, IosAssumption DEF AllRecovering, Recovering
<1> QED
  BY <1>3, <1>4, <1>5 DEF Recovery

\* After a mishap nothing is promised to those that came before it.
LEMMA AfterMishap ==
    ASSUME Shape, Shape', Dated, mishaps' = mishaps + 1,
           bootstrap'.since \in {bootstrap.since, 0},
           \A r \in Inbound : inbound'[r].born = inbound[r].born
    PROVE  Dated' /\ GettingOn' /\ AllRecovering'
<1>1. /\ mishaps \in Nat /\ bootstrap.since \in Nat
      /\ \A r \in Inbound : inbound[r].born \in Nat
  BY DEF Shape, BootstrapState, HandlerState
<1>2. bootstrap'.since < mishaps' /\ \A r \in Inbound : inbound'[r].born < mishaps'
  BY <1>1 DEF Dated
<1>3. mishaps' \in Nat /\ bootstrap'.since \in Nat /\ \A r \in Inbound : inbound'[r].born \in Nat
  BY DEF Shape, BootstrapState, HandlerState
<1>4. Dated'
  BY <1>2, <1>3 DEF Dated
<1>5. GettingOn'
  BY <1>2, <1>3 DEF GettingOn
<1>6. AllRecovering'
  BY <1>2, <1>3, IosAssumption DEF AllRecovering, Recovering
<1> QED
  BY <1>4, <1>5, <1>6

\* What a mishap leaves as it is.
LEMMA MishapMoves ==
    ASSUME Shape, Debt,
           \/ AppExits \/ AppRestarts \/ BootstrapFails \/ DaemonRestarts
           \/ \E s \in Inbound : AnswerLost(s)
    PROVE  /\ mishaps' = mishaps + 1
           /\ bootstrap'.since \in {bootstrap.since, 0}
           /\ \/ bootstrap' = bootstrap
              \/ bootstrap'.pc = "none" /\ \A r \in Inbound : inbound'[r].pc # "waiting"
           /\ \/ UNCHANGED bootFile /\ app'.instance = app.instance /\ app'.rotated = app.rotated
              \/ Starts /\ UNCHANGED <<bootstrap, inbound>>
           /\ \A r \in Inbound :
                 /\ inbound'[r].born = inbound[r].born
                 /\ inbound[r].safe => inbound'[r].safe
                 /\ \/ inbound'[r] = inbound[r]
                    \/ /\ inbound'[r].pc = "answered" /\ inbound[r].pc = "answered"
                       /\ inbound'[r].via = inbound[r].via /\ inbound'[r].answer = "lost"
                       /\ bootstrap' = bootstrap
                    \/ inbound'[r].pc \in {"done", "sent"} /\ bootstrap'.pc = "none"
<1>1. /\ inbound \in [Inbound -> HandlerState]
      /\ \A r \in Inbound : inbound[r] \in HandlerState
      /\ app \in [up : BOOLEAN, instance : Nat, rotated : BOOLEAN]
      /\ NoBootstrap.pc = "none" /\ NoBootstrap.since = 0
  BY DEF Shape, NoBootstrap
<1>2. CASE AppExits
  BY <1>1, <1>2 DEF AppExits, Mishap
<1>3. CASE AppRestarts
  BY <1>1, <1>3 DEF AppRestarts, Mishap
<1>4. CASE BootstrapFails
  <2>1. Over(None) /\ mishaps' = mishaps + 1 /\ UNCHANGED <<app, bootFile>> /\ None \in Nat
    BY <1>4 DEF BootstrapFails, Mishap, None
  <2>2. \A r \in Inbound :
           /\ bootstrap'.pc = "none" /\ bootstrap'.since = 0
           /\ inbound'[r].born = inbound[r].born
           /\ inbound[r].safe => inbound'[r].safe
           /\ \/ inbound[r].pc # "waiting" /\ inbound'[r] = inbound[r]
              \/ inbound'[r].pc \in {"done", "sent"}
    BY <2>1, OverFields
  <2>3. bootstrap'.pc = "none" /\ bootstrap'.since = 0
    BY <2>1 DEF Over, NoBootstrap
  <2> QED
    BY <2>1, <2>2, <2>3
<1>5. CASE DaemonRestarts
  <2>1. \A r \in Inbound :
           inbound'[r] = IF inbound[r].pc \in {"new", "done"} THEN inbound[r]
                         ELSE Done(inbound[r], "failed")
    BY <1>5 DEF DaemonRestarts
  <2>2. \A r \in Inbound :
           /\ Done(inbound[r], "failed").pc = "done" /\ Done(inbound[r], "failed").safe
           /\ Done(inbound[r], "failed").born = inbound[r].born
    BY DEF Done
  <2>3. mishaps' = mishaps + 1 /\ bootstrap' = NoBootstrap /\ UNCHANGED <<app, bootFile>>
    BY <1>5 DEF DaemonRestarts, Mishap
  <2> QED
    BY <1>1, <2>1, <2>2, <2>3
<1>6. ASSUME NEW s \in Inbound, AnswerLost(s)
      PROVE  /\ mishaps' = mishaps + 1 /\ UNCHANGED <<app, bootFile, bootstrap>>
             /\ \A r \in Inbound : r # s => inbound'[r] = inbound[r]
             /\ inbound'[s].born = inbound[s].born /\ inbound'[s].safe = inbound[s].safe
             /\ inbound'[s].pc = "answered" /\ inbound[s].pc = "answered"
             /\ inbound'[s].via = inbound[s].via /\ inbound'[s].answer = "lost"
  BY <1>1, <1>6 DEF AnswerLost, Mishap, HandlerState
<1>7. CASE \E s \in Inbound : AnswerLost(s)
  BY <1>6, <1>7
<1> QED
  BY <1>2, <1>3, <1>4, <1>5, <1>7

LEMMA MishapRecovery ==
    ASSUME Shape, Shape', Debt, Recovery,
           \/ AppExits \/ AppRestarts \/ BootstrapFails \/ DaemonRestarts
           \/ \E s \in Inbound : AnswerLost(s)
    PROVE  Recovery'
<1>0. /\ Dated /\ FileFresh /\ Unused /\ AllHandled
      /\ app.instance \in Nat /\ bootstrap.token \in Nat /\ bootstrap.token <= app.instance
  BY DEF Recovery, Shape, BootstrapState, Debt
<1>1. /\ mishaps' = mishaps + 1 /\ bootstrap'.since \in {bootstrap.since, 0}
      /\ \A r \in Inbound : inbound'[r].born = inbound[r].born
  BY MishapMoves
<1>2. Dated' /\ GettingOn' /\ AllRecovering'
  BY <1>0, <1>1, AfterMishap
<1>3. \/ UNCHANGED bootFile /\ app'.instance = app.instance /\ app'.rotated = app.rotated
      \/ Starts /\ UNCHANGED <<bootstrap, inbound>>
  BY MishapMoves
<1>4. FileFresh'
  BY <1>0, <1>3, StartsMoves DEF FileFresh
<1>5. Unused'
  <2> SUFFICES ASSUME bootstrap'.pc = "rotated", bootstrap'.token = app'.instance,
                      NEW r \in Inbound, inbound'[r].pc \in {"sent", "answered"}
               PROVE  inbound'[r].via # app'.instance
    BY DEF Unused
  <2>1. bootstrap' = bootstrap
    BY MishapMoves
  <2>2. app'.instance = app.instance
    BY <1>0, <1>3, <2>1, StartsMoves
  <2>3. inbound'[r].via = inbound[r].via /\ inbound[r].pc \in {"sent", "answered"}
    BY MishapMoves
  <2> QED
    BY <1>0, <2>1, <2>2, <2>3 DEF Unused
<1>6. ASSUME NEW r \in Inbound PROVE Handled(r)'
  <2>1. Handled(r)
    BY <1>0 DEF AllHandled
  <2>2. /\ inbound[r].safe => inbound'[r].safe
        /\ \/ bootstrap' = bootstrap
           \/ bootstrap'.pc = "none" /\ inbound'[r].pc # "waiting"
        /\ \/ inbound'[r] = inbound[r]
           \/ inbound'[r].pc = "answered" /\ inbound'[r].answer = "lost"
           \/ inbound'[r].pc \in {"done", "sent"}
    BY MishapMoves
  <2> QED
    BY <2>1, <2>2 DEF Handled
<1> QED
  BY <1>2, <1>4, <1>5, <1>6 DEF Recovery, AllHandled

\* The steps of the bootstrap before its end.
LEMMA BootMoves ==
    ASSUME Shape, Debt, AllBacked, Recovery,
           \/ Launch \/ ReadBootToken \/ relaunchApp \/ ReadAgain
           \/ Rotate /\ bootstrap'.pc = "rotated"
    PROVE  /\ UNCHANGED <<tunnel, inbound, mishaps>> /\ bootstrap'.since = bootstrap.since
           /\ bootstrap.pc # "none" /\ bootstrap'.pc # "none"
           /\ FileFresh' /\ GettingOn' /\ Unused'
<1>0. /\ FileFresh /\ GettingOn /\ bootstrap \in BootstrapState
      /\ app \in [up : BOOLEAN, instance : Nat, rotated : BOOLEAN]
  BY DEF Recovery, Shape
<1>1. CASE Launch
  <2>1. /\ UNCHANGED <<tunnel, inbound, mishaps>> /\ bootstrap.pc = "launch"
        /\ bootstrap'.pc = "read" /\ bootstrap'.since = bootstrap.since
    BY <1>0, <1>1 DEF Launch, BootstrapState
  <2>2. app'.up /\ (Starts \/ UNCHANGED <<app, bootFile>>)
    BY <1>1, StartsMoves DEF Launch
  <2>3. FileFresh'
    BY <1>0, <2>2, StartsMoves DEF FileFresh
  <2> QED
    BY <2>1, <2>2, <2>3 DEF GettingOn, Unused
<1>2. CASE ReadBootToken
  <2>1. /\ UNCHANGED <<app, bootFile, tunnel, inbound, mishaps>>
        /\ bootstrap.pc = "read" /\ app.up /\ bootstrap'.since = bootstrap.since
        /\ \/ bootFile = None /\ bootstrap'.pc = "relaunch"
           \/ bootFile # None /\ bootstrap'.pc = "rotate" /\ bootstrap'.token = bootFile
    BY <1>0, <1>2 DEF ReadBootToken, BootstrapState
  <2> QED
    BY <1>0, <2>1 DEF FileFresh, GettingOn, Unused
<1>3. CASE relaunchApp
  <2>1. /\ UNCHANGED <<tunnel, inbound, mishaps>> /\ bootstrap.pc = "relaunch" /\ Starts
        /\ bootstrap'.pc = "reread" /\ bootstrap'.since = bootstrap.since
    BY <1>0, <1>3 DEF relaunchApp, BootstrapState
  <2> QED
    BY <2>1, StartsMoves DEF FileFresh, GettingOn, Unused
<1>4. CASE ReadAgain
  <2>1. /\ UNCHANGED <<app, bootFile, tunnel, inbound, mishaps>>
        /\ bootstrap.pc = "reread" /\ app.up /\ bootFile # None
        /\ bootstrap'.since = bootstrap.since
        /\ bootstrap'.pc = "rotate" /\ bootstrap'.token = bootFile
    BY <1>0, <1>4 DEF ReadAgain, BootstrapState
  <2> QED
    BY <1>0, <2>1 DEF FileFresh, GettingOn, Unused
<1>5. CASE Rotate /\ bootstrap'.pc = "rotated"
  <2>0. ~Over(None)
    BY <1>5 DEF Over, NoBootstrap
  <2>1. /\ bootstrap.pc = "rotate" /\ app.up /\ app.instance = bootstrap.token /\ ~app.rotated
        /\ app' = [app EXCEPT !.rotated = TRUE] /\ bootFile' = None
        /\ bootstrap' = [bootstrap EXCEPT !.pc = "rotated"]
        /\ UNCHANGED <<tunnel, inbound, mishaps>>
    BY <1>5, <2>0 DEF Rotate
  <2>2. /\ app'.up /\ app'.instance = app.instance /\ app'.rotated
        /\ bootstrap'.token = bootstrap.token /\ bootstrap'.since = bootstrap.since
    BY <1>0, <2>1 DEF BootstrapState
  <2>3. \A r \in Inbound : inbound[r].pc \in {"sent", "answered"} => inbound[r].via # app.instance
    BY <2>1 DEF AllBacked, Backed
  <2>4. FileFresh'
    BY <2>1 DEF FileFresh
  <2>5. GettingOn'
    BY <1>5, <2>1, <2>2 DEF GettingOn
  <2>6. Unused'
    BY <2>1, <2>2, <2>3 DEF Unused
  <2> QED
    BY <1>5, <2>1, <2>2, <2>4, <2>5, <2>6
<1> QED
  BY <1>1, <1>2, <1>3, <1>4, <1>5

LEMMA BootRecovery ==
    ASSUME Shape, Debt, AllBacked, Recovery,
           \/ Launch \/ ReadBootToken \/ relaunchApp \/ ReadAgain
           \/ Rotate /\ bootstrap'.pc = "rotated"
    PROVE  Recovery'
<1>1. /\ UNCHANGED <<tunnel, inbound, mishaps>> /\ bootstrap'.since = bootstrap.since
      /\ bootstrap.pc # "none" /\ bootstrap'.pc # "none"
      /\ FileFresh' /\ GettingOn' /\ Unused'
  BY BootMoves
<1>2. Dated'
  BY <1>1 DEF Recovery, Dated
<1>3. AllHandled'
  BY <1>1 DEF Recovery, AllHandled, Handled
<1>4. ~Settled
  BY <1>1 DEF Settled
<1>5. AllRecovering'
  BY <1>1, <1>4 DEF Recovery, AllRecovering, Recovering
<1> QED
  BY <1>1, <1>2, <1>3, <1>5 DEF Recovery

\* A bootstrap that ends without a tunnel had met a mishap, and no read that
\* came after it waits for it.
LEMMA FailedRecovery ==
    ASSUME Shape, Recovery, Over(None), UNCHANGED <<app, bootFile, mishaps>>,
           bootstrap.pc # "none", bootstrap.since # mishaps
    PROVE  Recovery'
<1>0. /\ None \in Nat /\ bootstrap'.pc = "none" /\ bootstrap'.since = 0 /\ mishaps \in Nat
  BY DEF Over, NoBootstrap, None, Shape
<1>1. ASSUME NEW r \in Inbound
      PROVE  /\ inbound'[r].born = inbound[r].born /\ inbound'[r].sound = inbound[r].sound
             /\ inbound[r].safe => inbound'[r].safe
             /\ \/ inbound[r].pc # "waiting" /\ inbound'[r] = inbound[r]
                \/ inbound'[r].pc = "done"
  BY <1>0, <1>1, OverFields
<1>2. Dated'
  BY <1>0, <1>1 DEF Recovery, Dated
<1>3. FileFresh' /\ GettingOn' /\ Unused'
  BY <1>0 DEF Recovery, FileFresh, GettingOn, Unused
<1>4. AllHandled'
  BY <1>1 DEF Recovery, AllHandled, Handled
<1>5. \A r \in ReadOnly : ~(inbound[r].sound /\ inbound[r].born = mishaps)
  BY DEF Recovery, AllRecovering, Recovering
<1>6. AllRecovering'
  BY <1>1, <1>5, IosAssumption DEF AllRecovering, Recovering
<1> QED
  BY <1>2, <1>3, <1>4, <1>6 DEF Recovery

\* A bootstrap that ends with a tunnel that no mishap met settles it.
LEMMA RotatedRecovery ==
    ASSUME Shape, Shape', Debt, Recovery, Rotated
    PROVE  Recovery'
<1> DEFINE t == bootstrap.token
<1>0. /\ t \in Nat /\ t # None /\ Over(t) /\ UNCHANGED <<app, bootFile, mishaps>>
      /\ bootstrap.pc = "rotated" /\ bootstrap'.pc = "none" /\ bootstrap'.since = 0
      /\ tunnel' = t /\ mishaps \in Nat
  BY DEF Rotated, Over, NoBootstrap, Shape, BootstrapState, Debt
<1>1. ASSUME NEW r \in Inbound
      PROVE  /\ inbound'[r].born = inbound[r].born /\ inbound'[r].sound = inbound[r].sound
             /\ inbound[r].safe => inbound'[r].safe
             /\ \/ inbound[r].pc # "waiting" /\ inbound'[r] = inbound[r]
                \/ inbound'[r].pc = "done" /\ ~inbound[r].safe
                \/ inbound'[r].pc = "sent" /\ inbound'[r].via = t
  <2> HIDE DEF t
  <2> QED
    BY <1>0, OverFields
<1> HIDE DEF t
<1>2. Dated'
  BY <1>0, <1>1 DEF Recovery, Dated
<1>3. FileFresh' /\ GettingOn' /\ Unused'
  BY <1>0 DEF Recovery, FileFresh, GettingOn, Unused
<1>4. AllHandled'
  BY <1>1 DEF Recovery, AllHandled, Handled
<1>5. ASSUME NEW r \in ReadOnly, inbound[r].sound, inbound[r].born = mishaps
      PROVE  Settled'
  <2>1. bootstrap.since = mishaps
    BY <1>0, <1>5 DEF Recovery, AllRecovering, Recovering
  <2>2. t = app.instance /\ app.rotated /\ app.up
    BY <1>0, <2>1 DEF Recovery, GettingOn, t
  <2>3. \A s \in Inbound : inbound'[s].pc = "answered" => inbound'[s].via # t
    BY <1>0, <1>1, <2>2 DEF Recovery, Unused, t
  <2> QED
    BY <1>0, <2>2, <2>3 DEF Settled, Accepts
<1>6. ASSUME NEW r \in ReadOnly PROVE Recovering(r)'
  <2> SUFFICES ASSUME inbound'[r].sound, inbound'[r].born = mishaps'
               PROVE  /\ inbound'[r].pc \in {"sent", "answered"} /\ inbound'[r].attempt = 2
                            => inbound'[r].via = tunnel'
                      /\ inbound'[r].pc = "done" => inbound'[r].answer = "ok"
                      /\ Settled'
    BY <1>0 DEF Recovering
  <2>1. r \in Inbound /\ inbound[r].sound /\ inbound[r].born = mishaps
    BY <1>0, <1>1, IosAssumption
  <2>2. Settled'
    BY <1>5, <2>1
  <2>3. Recovering(r) /\ inbound[r].safe /\ ~Settled
    BY <1>0, <2>1 DEF Recovery, AllRecovering, AllHandled, Handled, Settled
  <2>4. inbound[r].pc \in {"sent", "answered"} => inbound[r].attempt = 1
    BY <2>1, <2>3 DEF Recovering
  <2> QED
    BY <1>0, <1>1, <2>1, <2>2, <2>3, <2>4 DEF Recovering
<1> QED
  BY <1>2, <1>3, <1>4, <1>6 DEF Recovery, AllRecovering

\* A request that arrives at the daemon.
LEMMA AskedRecovery ==
    ASSUME Shape, Shape', Debt, Recovery, NEW s \in Inbound, Asked(s)
    PROVE  Recovery'
<1>0. /\ UNCHANGED <<app, bootFile, tunnel, mishaps>> /\ mishaps \in Nat
      /\ bootstrap' = bootstrap \/ (bootstrap'.pc = "launch" /\ bootstrap'.since = mishaps)
      /\ bootstrap.pc # "none" => tunnel = None /\ bootstrap' = bootstrap
      /\ \A r \in Inbound : r # s => inbound'[r] = inbound[r]
  BY AskedMoves DEF Recovery, AllHandled, Debt, Shape
<1>1. /\ inbound'[s].born = mishaps
      /\ inbound'[s].sound => bootstrap.pc = "none" \/ bootstrap.since = mishaps
      /\ s \in ReadOnly => inbound'[s].safe
      /\ inbound'[s].attempt = 1
      /\ \/ /\ tunnel # None /\ bootstrap' = bootstrap
            /\ inbound'[s].pc = "sent" /\ inbound'[s].via = tunnel
         \/ /\ tunnel = None /\ inbound'[s].pc = "waiting"
            /\ \/ bootstrap.pc # "none" /\ bootstrap' = bootstrap
               \/ /\ bootstrap.pc = "none"
                  /\ bootstrap'.pc = "launch" /\ bootstrap'.since = mishaps
  BY AskedMoves DEF Recovery, AllHandled
<1>2. Dated'
  BY <1>0, <1>1 DEF Recovery, Dated
<1>3. FileFresh' /\ GettingOn'
  BY <1>0 DEF Recovery, FileFresh, GettingOn
<1>4. Unused'
  BY <1>0, <1>1 DEF Recovery, Unused
<1>5. AllHandled'
  <2> SUFFICES ASSUME NEW r \in Inbound PROVE Handled(r)'
    BY DEF AllHandled
  <2>1. CASE r = s
    BY <1>0, <1>1, <2>1 DEF Handled
  <2>2. CASE r # s
    BY <1>0, <2>2 DEF Recovery, AllHandled, Handled
  <2> QED
    BY <2>1, <2>2
<1>6. Settled => Settled' /\ bootstrap' = bootstrap
  BY <1>0, <1>1 DEF Settled, Accepts
<1>7. ASSUME NEW r \in ReadOnly PROVE Recovering(r)'
  <2>1. CASE r = s
    BY <1>0, <1>1, <2>1 DEF Recovering
  <2>2. CASE r # s
    <3>1. r \in Inbound /\ inbound'[r] = inbound[r] /\ Recovering(r)
      BY <1>0, <2>2, IosAssumption DEF Recovery, AllRecovering
    <3> QED
      BY <1>0, <1>6, <3>1 DEF Recovering
  <2> QED
    BY <2>1, <2>2
<1> QED
  BY <1>2, <1>3, <1>4, <1>5, <1>7 DEF Recovery, AllRecovering

\* A request that comes to the app, or is reset with the instance it went to.
LEMMA DeliveredRecovery ==
    ASSUME Shape, Shape', Debt, AllBacked, Recovery, NEW s \in Inbound, Arrives(s) \/ Reset(s)
    PROVE  Recovery'
<1>0. /\ UNCHANGED <<app, bootFile, tunnel, bootstrap, mishaps>>
      /\ \A r \in Inbound : r # s => inbound'[r] = inbound[r]
      /\ inbound'[s].pc = "answered" /\ inbound[s].pc \in {"sent", "answered"}
      /\ inbound'[s].via = inbound[s].via /\ inbound'[s].attempt = inbound[s].attempt
      /\ inbound'[s].born = inbound[s].born /\ inbound'[s].sound = inbound[s].sound
      /\ inbound'[s].safe = inbound[s].safe
      /\ \/ inbound'[s].answer = (IF Accepts(inbound[s].via) THEN "ok" ELSE "unauthorized")
         \/ inbound'[s].answer = "lost" /\ Gone(inbound[s].to)
  <2>0. inbound \in [Inbound -> HandlerState] /\ inbound[s] \in HandlerState
    BY DEF Shape
  <2>1. CASE Arrives(s)
    BY <2>0, <2>1 DEF Arrives, Delivered
  <2>2. CASE Reset(s)
    BY <2>0, <2>2 DEF Reset, HandlerState
  <2> QED
    BY <2>1, <2>2
<1>1. /\ inbound[s].via \in Nat /\ inbound[s].to \in Nat /\ app.instance \in Nat
      /\ inbound[s].via <= inbound[s].to /\ inbound[s].to <= app.instance
  BY <1>0 DEF AllBacked, Backed, Shape, HandlerState
<1>2. Dated' /\ FileFresh' /\ GettingOn' /\ Unused'
  BY <1>0 DEF Recovery, Dated, FileFresh, GettingOn, Unused
<1>3. AllHandled'
  BY <1>0 DEF Recovery, AllHandled, Handled
<1>4. Settled => Settled'
  <2> SUFFICES ASSUME Settled, inbound[s].via = tunnel PROVE inbound'[s].answer = "ok"
    BY <1>0 DEF Settled, Accepts
  <2>1. Accepts(tunnel) /\ ~Gone(inbound[s].to)
    BY <1>1 DEF Settled, Accepts, Gone
  <2> QED
    BY <1>0, <2>1
<1>5. AllRecovering'
  BY <1>0, <1>4, IosAssumption DEF Recovery, AllRecovering, Recovering
<1> QED
  BY <1>2, <1>3, <1>5 DEF Recovery

\* A handler that has its answer: while the tunnel is settled it has no reason
\* to drop it.
LEMMA TriedRecovery ==
    ASSUME Shape, Shape', Debt, AllBacked, Recovery, NEW s \in Inbound, Answered(s)
    PROVE  Recovery'
<1> DEFINE dropped == inbound[s].answer \in {"unauthorized", "lost"}
<1>0. /\ UNCHANGED <<app, bootFile, mishaps>> /\ mishaps \in Nat /\ inbound[s].pc = "answered"
      /\ \A r \in Inbound : r # s => inbound'[r] = inbound[r]
      /\ inbound'[s].born = inbound[s].born /\ inbound'[s].sound = inbound[s].sound
      /\ s \in ReadOnly => inbound'[s].safe
      /\ inbound[s].answer \in {"ok", "unauthorized", "lost"} /\ inbound[s].attempt \in 1..2
      /\ bootstrap.pc # "none" => tunnel = None
      /\ inbound'[s].pc \in {"sent", "waiting", "done"}
  BY TriedMoves DEF Recovery, AllHandled, Handled, Debt, Shape, HandlerState
<1>1. \/ /\ ~dropped /\ inbound'[s].pc = "done" /\ inbound'[s].answer = inbound[s].answer
         /\ UNCHANGED <<tunnel, bootstrap>>
      \/ /\ dropped /\ inbound[s].attempt = 1
         /\ tunnel # inbound[s].via /\ tunnel # None /\ UNCHANGED <<tunnel, bootstrap>>
         /\ \/ inbound'[s].pc = "done" /\ s \notin ReadOnly
            \/ inbound'[s].pc = "sent" /\ inbound'[s].via = tunnel
      \/ /\ dropped /\ inbound[s].attempt = 1
         /\ tunnel \in {inbound[s].via, None} /\ tunnel' = None
         /\ inbound'[s].pc = "waiting" /\ inbound'[s].attempt = 1
         /\ \/ bootstrap.pc # "none" /\ bootstrap' = bootstrap
            \/ /\ bootstrap.pc = "none"
               /\ bootstrap'.pc = "launch" /\ bootstrap'.since = mishaps
      \/ /\ dropped /\ inbound[s].attempt = 2
         /\ tunnel' = tunnel \/ (tunnel = inbound[s].via /\ tunnel' = None)
         /\ inbound'[s].pc = "done" /\ bootstrap' = bootstrap
  BY TriedMoves
<1>2. dropped => inbound[s].answer # "ok"
  OBVIOUS
<1> HIDE DEF dropped
<1>3. bootstrap' = bootstrap \/ (bootstrap'.pc = "launch" /\ bootstrap'.since = mishaps)
  BY <1>1
<1>4. Dated'
  BY <1>0, <1>3 DEF Recovery, Dated
<1>5. FileFresh' /\ GettingOn'
  BY <1>0, <1>3 DEF Recovery, FileFresh, GettingOn
<1>6. Unused'
  BY <1>0, <1>1, <1>3 DEF Recovery, Unused
<1>7. AllHandled'
  <2> SUFFICES ASSUME NEW r \in Inbound PROVE Handled(r)'
    BY DEF AllHandled
  <2>1. CASE r = s
    BY <1>0, <1>1, <2>1 DEF Handled
  <2>2. CASE r # s
    <3>1. inbound'[r] = inbound[r] /\ Handled(r)
      BY <1>0, <2>2 DEF Recovery, AllHandled
    <3>2. bootstrap.pc # "none" => bootstrap'.pc # "none"
      BY <1>3
    <3> QED
      BY <3>1, <3>2 DEF Handled
  <2> QED
    BY <2>1, <2>2
<1>8. Settled => tunnel # inbound[s].via \/ ~dropped
  BY <1>0, <1>2 DEF Settled
<1>9. Settled => Settled' /\ UNCHANGED <<tunnel, bootstrap>>
  <2>1. Settled => UNCHANGED <<tunnel, bootstrap>>
    BY <1>1, <1>8 DEF Settled
  <2> QED
    BY <1>0, <2>1 DEF Settled, Accepts
<1>10. /\ ~Settled => tunnel' \in {tunnel, None}
       /\ bootstrap' = bootstrap \/ bootstrap'.since = mishaps
  BY <1>1
<1>11. ASSUME NEW r \in ReadOnly PROVE Recovering(r)'
  <2>1. r \in Inbound /\ Recovering(r)
    BY IosAssumption DEF Recovery, AllRecovering
  <2>2. CASE r # s
    <3>1. inbound'[r] = inbound[r]
      BY <1>0, <2>1, <2>2
    <3> QED
      BY <1>0, <1>9, <1>10, <2>1, <3>1 DEF Recovering
  <2>3. CASE r = s
    <3> SUFFICES ASSUME inbound[s].sound, inbound[s].born = mishaps
                 PROVE  Recovering(s)'
      BY <1>0, <2>3 DEF Recovering
    <3>1. /\ bootstrap.pc # "none" => bootstrap.since = mishaps
          /\ \/ inbound[s].attempt = 1 /\ tunnel \in {inbound[s].via, None}
             \/ Settled /\ (inbound[s].attempt = 2 => inbound[s].via = tunnel)
      BY <1>0, <2>1, <2>3 DEF Recovering
    <3>2. bootstrap'.pc # "none" => bootstrap'.since = mishaps
      BY <1>3, <3>1
    <3>3. CASE ~dropped
      BY <1>0, <1>1, <3>2, <3>3 DEF Recovering, dropped
    <3>4. CASE dropped /\ Settled
      <4>1. inbound[s].attempt = 1 /\ inbound'[s].pc = "sent" /\ inbound'[s].via = tunnel
        BY <1>0, <1>1, <1>8, <2>3, <3>1, <3>4 DEF Settled
      <4> QED
        BY <1>0, <1>9, <3>2, <3>4, <4>1 DEF Recovering
    <3>5. CASE dropped /\ ~Settled
      <4>1. inbound'[s].pc = "waiting"
        BY <1>0, <1>1, <3>1, <3>5
      <4> QED
        BY <1>0, <3>2, <4>1 DEF Recovering
    <3> QED
      BY <3>3, <3>4, <3>5
  <2> QED
    BY <2>2, <2>3
<1> QED
  BY <1>4, <1>5, <1>6, <1>7, <1>11 DEF Recovery, AllRecovering

LEMMA RecoveryStep ==
    Shape /\ Shape' /\ Debt /\ AllBacked /\ Recovery /\ [IosNext]_iosVars => Recovery'
<1> SUFFICES ASSUME Shape, Shape', Debt, AllBacked, Recovery, [IosNext]_iosVars
             PROVE  Recovery'
  OBVIOUS
<1>1. ASSUME NEW s \in Inbound, Asked(s) \/ Arrives(s) \/ Reset(s) \/ Answered(s) \/ AnswerLost(s)
      PROVE  Recovery'
  BY <1>1, AskedRecovery, DeliveredRecovery, TriedRecovery, MishapRecovery
<1>2. CASE Launch \/ ReadBootToken \/ relaunchApp \/ ReadAgain
  BY <1>2, BootRecovery
<1>3. CASE Unreachable
  <2>1. /\ Over(None) /\ UNCHANGED <<app, bootFile, mishaps>> /\ ~app.up
        /\ bootstrap.pc \in {"read", "reread", "rotate"}
    BY <1>3 DEF Unreachable
  <2>2. bootstrap.pc # "none" /\ bootstrap.since # mishaps
    BY <2>1 DEF Recovery, GettingOn
  <2> QED
    BY <2>1, <2>2, FailedRecovery
<1>4. CASE Rotate
  <2>1. CASE bootstrap'.pc = "rotated"
    BY <1>4, <2>1, BootRecovery
  <2>2. CASE bootstrap'.pc # "rotated"
    <3>1. bootstrap \in BootstrapState
      BY DEF Shape
    <3>2. /\ bootstrap.pc = "rotate" /\ (app.instance # bootstrap.token \/ app.rotated)
          /\ Over(None) /\ UNCHANGED <<app, bootFile, mishaps>>
      BY <1>4, <2>2, <3>1 DEF Rotate, BootstrapState
    <3>3. bootstrap.pc # "none" /\ bootstrap.since # mishaps
      BY <3>2 DEF Recovery, GettingOn
    <3> QED
      BY <3>2, <3>3, FailedRecovery
  <2> QED
    BY <2>1, <2>2
<1>5. CASE Rotated
  BY <1>5, RotatedRecovery
<1>6. CASE AppExits \/ AppRestarts \/ BootstrapFails \/ DaemonRestarts
  BY <1>6, MishapRecovery
<1>7. CASE UNCHANGED iosVars
  BY <1>7 DEF iosVars, Recovery, Dated, FileFresh, GettingOn, Unused, AllHandled, Handled,
     AllRecovering, Recovering, Settled, Accepts
<1> QED
  BY <1>1, <1>2, <1>3, <1>4, <1>5, <1>6, <1>7 DEF IosNext

(* A read that came after the last mishap is answered by the app, however   *)
(* stale the cached tunnel was: the recovery of proxyWithTunnelRecovery     *)
(* (ios-qa/daemon/src/index.ts) needs no second one.                        *)
THEOREM ReadsAreAnswered == IosSpec => []ReadsRecover
<1>1. Recovery => ReadsRecover
  BY DEF Recovery, AllRecovering, Recovering, ReadsRecover
<1> QED
  BY <1>1, IosShape, DebtInit, DebtStep, BackedStep, RecoveryInit, RecoveryStep, PTL DEF IosSpec
=============================================================================
