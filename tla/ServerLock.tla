----------------------------- MODULE ServerLock -----------------------------
(***************************************************************************)
(* The lockfile under which the browse CLI starts the daemon:              *)
(* acquireServerLock and the release it returns (browse/src/cli.ts).       *)
(*                                                                         *)
(* Every CLI invocation is a process, so each system call is one action.   *)
(* The file is known by its creator (a later process may create it anew    *)
(* under the same name) and by whether the creator's pid is in it yet.     *)
(***************************************************************************)
EXTENDS Integers, FiniteSets

CONSTANTS
    Cli,          \* CLI processes, by pid
    DepthCap      \* retries before giving up: 5 in the code

ASSUME DepthAssumption == DepthCap \in Nat

Nobody == "nobody"
ASSUME NobodyAssumption == Nobody \notin Cli

VARIABLES
    creator,  \* who created the lockfile that exists now; Nobody: there is none
    named,    \* its creator's pid has been written to it
    pc,       \* the system call each process makes next
    depth,    \* its retries
    broken    \* history: a lockfile was removed by another while its creator lived

vars == <<creator, named, pc, depth, broken>>

Inside == {"open", "write", "read", "unlink", "held"}
PC == Inside \cup {"out", "refused", "dead", "stranger"}

isProcessAlive(p) == pc[p] # "dead"

Init ==
    /\ creator = Nobody /\ named = FALSE
    /\ pc = [p \in Cli |-> "out"]
    /\ depth = [p \in Cli |-> 0]
    /\ broken = FALSE

\* acquireServerLock is called.
Start(p) ==
    /\ pc[p] = "out"
    /\ pc' = [pc EXCEPT ![p] = "open"]
    /\ depth' = [depth EXCEPT ![p] = 0]
    /\ UNCHANGED <<creator, named, broken>>

\* openSync(lockPath, 'wx').  Slip: opened without the exclusive flag.
Open_shared(p) ==
    /\ pc[p] = "open"
    /\ creator' = p /\ named' = FALSE
    /\ pc' = [pc EXCEPT ![p] = "write"]
    /\ UNCHANGED <<depth, broken>>
Open(p) ==
    /\ pc[p] = "open"
    /\ IF creator = Nobody
       THEN /\ creator' = p /\ named' = FALSE
            /\ pc' = [pc EXCEPT ![p] = "write"]
       ELSE /\ pc' = [pc EXCEPT ![p] = "read"]
            /\ UNCHANGED <<creator, named>>
    /\ UNCHANGED <<depth, broken>>

\* writeSync goes to the file p created, which may have lost its name by now.
Write(p) ==
    /\ pc[p] = "write"
    /\ named' = (named \/ creator = p)
    /\ pc' = [pc EXCEPT ![p] = "held"]
    /\ UNCHANGED <<creator, depth, broken>>

\* The recursive call, up to the depth cap.  Slip: no cap.
Retried_unbounded(p) == pc' = [pc EXCEPT ![p] = "open"] /\ UNCHANGED depth
Retried(p) ==
    IF depth[p] >= DepthCap
    THEN pc' = [pc EXCEPT ![p] = "refused"] /\ UNCHANGED depth
    ELSE /\ pc' = [pc EXCEPT ![p] = "open"]
         /\ depth' = [depth EXCEPT ![p] = @ + 1]

\* readFileSync and the liveness of the pid in it; an empty file names no pid.
Read(p) ==
    /\ pc[p] = "read"
    /\ IF creator = Nobody
       THEN Retried(p)
       ELSE /\ pc' = [pc EXCEPT ![p] = IF named /\ isProcessAlive(creator)
                                       THEN "refused" ELSE "unlink"]
            /\ UNCHANGED depth
    /\ UNCHANGED <<creator, named, broken>>

Removed(p) ==
    /\ creator' = Nobody /\ named' = FALSE
    /\ broken' = (broken \/ (creator \notin {p, Nobody} /\ isProcessAlive(creator)))

\* unlinkSync removes whatever lockfile is there by now.
Unlink(p) ==
    /\ pc[p] = "unlink"
    /\ Removed(p)
    /\ Retried(p)

\* The returned cleanup, in the caller's finally.  Slip: left out.
Release_none(p) ==
    /\ pc[p] = "held"
    /\ pc' = [pc EXCEPT ![p] = "out"]
    /\ UNCHANGED <<creator, named, depth, broken>>
Release(p) ==
    /\ pc[p] = "held"
    /\ Removed(p)
    /\ pc' = [pc EXCEPT ![p] = "out"]
    /\ UNCHANGED depth

\* The caller of a null goes on without the lock.
Leave(p) ==
    /\ pc[p] = "refused"
    /\ pc' = [pc EXCEPT ![p] = "out"]
    /\ UNCHANGED <<creator, named, depth, broken>>

\* The process is killed, or a call fails with an errno that is neither EEXIST
\* nor ENOENT and the ServerLockError ends it: the file stays.
Die(p) ==
    /\ pc[p] \in Inside
    /\ pc' = [pc EXCEPT ![p] = "dead"]
    /\ UNCHANGED <<creator, named, depth, broken>>

\* The pid of a dead process is given to another program.
Recycle(p) ==
    /\ pc[p] = "dead"
    /\ pc' = [pc EXCEPT ![p] = "stranger"]
    /\ UNCHANGED <<creator, named, depth, broken>>

Acquire(p) == Open(p) \/ Write(p) \/ Read(p) \/ Unlink(p)

Next ==
    \E p \in Cli :
        Start(p) \/ Acquire(p) \/ Release(p) \/ Leave(p) \/ Die(p) \/ Recycle(p)

Spec == Init /\ [][Next]_vars

\* A live process makes its next call: nothing in the acquisition waits.
FairSpec == Spec /\ \A p \in Cli : WF_vars(Acquire(p))

-----------------------------------------------------------------------------
(* Properties.                                                             *)

TypeOK ==
    /\ creator \in Cli \cup {Nobody} /\ named \in BOOLEAN
    /\ pc \in [Cli -> PC]
    /\ depth \in [Cli -> 0..DepthCap]
    /\ broken \in BOOLEAN

Holds(p) == pc[p] \in {"write", "held"}

\* "Acquire an exclusive lockfile" (cli.ts:618) is more than the code gives,
\* by the window between the creation of the file and the pid in it: two hold
\* the lock only once some process has removed the lockfile of another that was
\* still alive (cli.ts:627-668).
ExclusionUnlessBroken ==
    ~broken => \A p, q \in Cli : Holds(p) /\ Holds(q) => p = q

\* The lock implements the mutual exclusion of Mutex: a process enters only a
\* lock that nobody holds, until a lockfile is removed under a live holder.
M == INSTANCE Mutex WITH Proc <- Cli, holders <- {p \in Cli : Holds(p)}
ImplementsMutex == M!Spec

\* A lockfile is always that of a process inside or killed inside: whatever
\* the order of opens, stale unlinks and releases, no invocation that came to
\* its end leaves one behind to lock out the next (cli.ts:637, 660-663).
NoLeftover ==
    creator # Nobody => Holds(creator) \/ pc[creator] \in {"dead", "stranger"}

\* The stale-lock unlink and retry ends ("Depth cap 5 bounds the stale-lock
\* unlink/retry livelock", cli.ts:649), however others come and go.
AcquisitionOf(p) == pc[p] = "open" ~> pc[p] \in {"held", "refused", "dead", "stranger"}
AcquisitionEnds == \A p \in Cli : AcquisitionOf(p)
=============================================================================
