--------------------------- MODULE Outbound_proofs ---------------------------
(***************************************************************************)
(* What leaves the machine: the ledger of receipts, for any number of      *)
(* writers and of lines, and the artifacts sync, for every set of runs,    *)
(* files and contents: no secret is committed, nothing but what a run      *)
(* classified, and no enqueued change is forgotten.                        *)
(***************************************************************************)
EXTENDS EgressReceipt, BrainSync, TLAPS

-----------------------------------------------------------------------------
(* The ledger of receipts (EgressReceipt).                                 *)

\* As long as no directory was taken from a living writer, the one between
\* mkdir and rmdir is the one whose directory is there.
HolderOwnsLock == ~stolen => \A w \in Writer : writer[w] \in Inside => lockDir = w

\* So nobody appends between its reading of the last line and its append.
ReadIsCurrent == ~stolen => \A w \in Writer : writer[w] = "append" => prev[w] = LastHash

\* Only a line that was cut off has no newline.
WholeLines == (~torn => ended) /\ (~ended => ledger # <<>>)

IInv == EgressTypeOK /\ HolderOwnsLock /\ ReadIsCurrent /\ WholeLines /\ ChainVerifies

LEMMA EgressInitIInv == EgressInit => IInv
<1> SUFFICES ASSUME EgressInit PROVE IInv
  OBVIOUS
<1>1. EgressTypeOK
  <2>1. writer \in [Writer -> Place] /\ prev \in [Writer -> Hash]
    BY LineAssumption DEF EgressInit, Place, Hash, Genesis
  <2>2. ledger \in Seq(Line)
    BY DEF EgressInit
  <2>3. written \in 0..MaxLine
    BY LineAssumption DEF EgressInit
  <2> QED
    BY <2>1, <2>2, <2>3 DEF EgressInit, EgressTypeOK
<1>2. HolderOwnsLock /\ ReadIsCurrent /\ WholeLines
  BY DEF EgressInit, HolderOwnsLock, ReadIsCurrent, WholeLines, Inside
<1>3. ChainVerifies
  BY DEF EgressInit, ChainVerifies, Verifies
<1> QED
  BY <1>1, <1>2, <1>3 DEF IInv

\* What an append makes of the file.
LEMMA AppendedLine ==
    ASSUME EgressTypeOK, WholeLines, NEW line \in Line
    PROVE  /\ Appended(line) \in Seq(Line)
           /\ Appended(line) # <<>>
           /\ ended => Appended(line) = Append(ledger, line)
<1> USE DEF EgressTypeOK, WholeLines, Appended
<1>1. CASE ended
  BY <1>1
<1>2. CASE ~ended
  <2>1. ledger \in Seq(Line) /\ ledger # <<>> /\ Len(ledger) \in 1..Len(ledger)
    BY <1>2
  <2>2. [line EXCEPT !.parses = FALSE] \in Line
    BY DEF Line
  <2> QED
    BY <1>2, <2>1, <2>2
<1> QED
  BY <1>1, <1>2

\* The shape of the state after each step.
LEMMA EgressTypeStep ==
    ASSUME EgressTypeOK, WholeLines, [EgressNext]_egressVars PROVE EgressTypeOK' /\ WholeLines'
<1> USE WriterAssumption, LineAssumption DEF EgressTypeOK, WholeLines, Place, Inside, Goes
<1>1. CASE UNCHANGED egressVars
  BY <1>1 DEF egressVars
<1>2. CASE LockAges
  BY <1>2 DEF LockAges
<1>3. ASSUME NEW w \in Writer, Begin(w) \/ Mkdir(w) \/ Overdue(w) \/ Stat(w)
      PROVE  EgressTypeOK' /\ WholeLines'
  BY <1>3 DEF Begin, Mkdir, Overdue, Stat
<1>4. ASSUME NEW w \in Writer, Rmdir(w) \/ Unlock(w) PROVE EgressTypeOK' /\ WholeLines'
  BY <1>4 DEF Rmdir, Unlock, Removed
<1>5. LastHash \in Hash
  <2>1. CASE ledger = <<>>
    BY <2>1 DEF LastHash, Genesis, Hash
  <2>2. CASE ledger # <<>>
    <3>1. ledger[Len(ledger)] \in Line
      BY <2>2
    <3> QED
      BY <2>2, <3>1 DEF LastHash, Line, Hash
  <2> QED
    BY <2>1, <2>2
<1>6. ASSUME NEW w \in Writer, Read(w) \/ AppendFails(w) \/ Die(w)
      PROVE  EgressTypeOK' /\ WholeLines'
  BY <1>5, <1>6 DEF Read, AppendFails, Die
<1>7. ASSUME NEW w \in Writer, NEW whole \in BOOLEAN, written < MaxLine
      PROVE  [hash |-> written + 1, prev |-> prev[w], parses |-> whole] \in Line
  BY <1>7 DEF Line
<1>8. ASSUME NEW w \in Writer, WriteLine(w) PROVE EgressTypeOK' /\ WholeLines'
  <2>1. ledger' \in Seq(Line) /\ ledger' # <<>>
    BY <1>7, <1>8, AppendedLine DEF WriteLine
  <2> QED
    BY <1>8, <2>1 DEF WriteLine
<1>9. ASSUME NEW w \in Writer, Tear(w) PROVE EgressTypeOK' /\ WholeLines'
  <2>1. ledger' \in Seq(Line) /\ ledger' # <<>>
    BY <1>7, <1>9, AppendedLine DEF Tear
  <2>2. written' \in 0..MaxLine /\ writer' \in [Writer -> Place]
    BY <1>9 DEF Tear
  <2>3. ended' = FALSE /\ torn' = TRUE /\ UNCHANGED <<lockDir, aged, prev, stolen>>
    BY <1>9 DEF Tear
  <2> QED
    BY <2>1, <2>2, <2>3
<1> QED
  BY <1>1, <1>2, <1>3, <1>4, <1>6, <1>8, <1>9 DEF EgressNext, Step

\* Removing a directory by name: either it was its maker's own or a dead one's,
\* or the history says so.
LEMMA RemovedStep ==
    ASSUME EgressTypeOK, HolderOwnsLock, NEW w \in Writer, Removed(w), ~stolen'
    PROVE  ~stolen /\ \A v \in Writer : writer[v] \in Inside => v = w
BY WriterAssumption DEF EgressTypeOK, HolderOwnsLock, Removed

LEMMA HolderStep ==
    ASSUME EgressTypeOK, HolderOwnsLock, [EgressNext]_egressVars PROVE HolderOwnsLock'
<1> USE WriterAssumption DEF EgressTypeOK, HolderOwnsLock, Inside, Goes
<1>1. CASE UNCHANGED egressVars \/ LockAges
  BY <1>1 DEF egressVars, LockAges
<1>2. ASSUME NEW w \in Writer, Begin(w) \/ Mkdir(w) \/ Overdue(w) \/ Stat(w)
      PROVE  HolderOwnsLock'
  BY <1>2 DEF Begin, Mkdir, Overdue, Stat
<1>3. ASSUME NEW w \in Writer, Rmdir(w) \/ Unlock(w) PROVE HolderOwnsLock'
  <2>1. Removed(w) /\ writer'[w] \notin Inside /\ \A v \in Writer : v # w => writer'[v] = writer[v]
    BY <1>3 DEF Rmdir, Unlock
  <2> QED
    BY <2>1, RemovedStep
<1>4. ASSUME NEW w \in Writer,
             Read(w) \/ WriteLine(w) \/ AppendFails(w) \/ Die(w) \/ Tear(w)
      PROVE  HolderOwnsLock'
  BY <1>4 DEF Read, WriteLine, AppendFails, Die, Tear
<1> QED
  BY <1>1, <1>2, <1>3, <1>4 DEF EgressNext, Step

LEMMA ReadStep ==
    ASSUME EgressTypeOK, HolderOwnsLock, ReadIsCurrent, [EgressNext]_egressVars
    PROVE  ReadIsCurrent'
<1> USE WriterAssumption DEF EgressTypeOK, ReadIsCurrent, Goes
<1>1. CASE UNCHANGED egressVars \/ LockAges
  BY <1>1 DEF egressVars, LockAges, LastHash
<1>2. ASSUME NEW w \in Writer,
             Begin(w) \/ Mkdir(w) \/ Overdue(w) \/ Stat(w) \/ AppendFails(w) \/ Die(w)
      PROVE  ReadIsCurrent'
  BY <1>2 DEF Begin, Mkdir, Overdue, Stat, AppendFails, Die, LastHash
<1>3. ASSUME NEW w \in Writer, Rmdir(w) \/ Unlock(w) PROVE ReadIsCurrent'
  <2>1. stolen => stolen'
    BY <1>3 DEF Rmdir, Unlock, Removed
  <2> QED
    BY <1>3, <2>1 DEF Rmdir, Unlock, LastHash
<1>4. ASSUME NEW w \in Writer, Read(w) PROVE ReadIsCurrent'
  BY <1>4 DEF Read, LastHash
<1>5. ASSUME NEW w \in Writer, WriteLine(w) \/ Tear(w) PROVE ReadIsCurrent'
  <2>1. /\ writer[w] = "append" /\ writer'[w] # "append" /\ UNCHANGED stolen
        /\ \A v \in Writer : v # w => writer'[v] = writer[v]
    BY <1>5 DEF WriteLine, Tear
  <2>2. ~stolen => \A v \in Writer : writer'[v] # "append"
    BY <2>1 DEF HolderOwnsLock, Inside
  <2> QED
    BY <2>1, <2>2
<1> QED
  BY <1>1, <1>2, <1>3, <1>4, <1>5 DEF EgressNext, Step

\* An append by a writer that has read the last line keeps the chain.
LEMMA ChainGrows ==
    ASSUME EgressTypeOK, Verifies, NEW line \in Line, line.parses, line.prev = LastHash,
           ledger' = Append(ledger, line)
    PROVE  Verifies'
<1> SUFFICES ASSUME NEW i \in 1..Len(ledger')
             PROVE  /\ ledger'[i].parses
                    /\ ledger'[i].prev = IF i = 1 THEN Genesis ELSE ledger'[i - 1].hash
  BY DEF Verifies
<1>1. ledger \in Seq(Line) /\ Len(ledger') = Len(ledger) + 1 /\ Len(ledger) \in Nat
  BY DEF EgressTypeOK
<1>2. CASE i \in 1..Len(ledger)
  <2>1. ledger'[i] = ledger[i] /\ (i # 1 => ledger'[i - 1] = ledger[i - 1])
    BY <1>1, <1>2
  <2> QED
    BY <1>2, <2>1 DEF Verifies
<1>3. CASE i = Len(ledger) + 1
  <2>1. ledger'[i] = line
    BY <1>1, <1>3
  <2>2. i = 1 <=> ledger = <<>>
    BY <1>1, <1>3
  <2>3. i # 1 => ledger'[i - 1] = ledger[Len(ledger)]
    BY <1>1, <1>3
  <2> QED
    BY <2>1, <2>2, <2>3 DEF LastHash
<1> QED
  BY <1>1, <1>2, <1>3

LEMMA ChainStep ==
    ASSUME IInv, [EgressNext]_egressVars PROVE ChainVerifies'
<1> USE DEF IInv
<1>1. CASE UNCHANGED <<ledger, torn>> /\ (stolen => stolen')
  BY <1>1 DEF ChainVerifies, Verifies
<1>2. ASSUME NEW w \in Writer, WriteLine(w) PROVE ChainVerifies'
  <2> SUFFICES ASSUME ~stolen', ~torn' PROVE Verifies'
    BY DEF ChainVerifies
  <2>1. ~stolen /\ ~torn /\ ended /\ Verifies
    BY <1>2 DEF WriteLine, WholeLines, ChainVerifies
  <2> DEFINE line == [hash |-> written + 1, prev |-> prev[w], parses |-> TRUE]
  <2>2. line \in Line
    BY <1>2, LineAssumption DEF WriteLine, Line, EgressTypeOK
  <2>3. line.parses /\ line.prev = LastHash
    BY <1>2, <2>1 DEF WriteLine, ReadIsCurrent
  <2>4. ledger' = Append(ledger, line)
    BY <1>2, <2>1 DEF WriteLine, Appended
  <2> HIDE DEF line
  <2> QED
    BY <2>1, <2>2, <2>3, <2>4, ChainGrows
<1>3. ASSUME NEW w \in Writer, Tear(w) PROVE ChainVerifies'
  BY <1>3 DEF Tear, ChainVerifies
<1>4. ASSUME NEW w \in Writer,
             \/ Begin(w) \/ Mkdir(w) \/ Overdue(w) \/ Stat(w) \/ Rmdir(w)
             \/ Read(w) \/ AppendFails(w) \/ Unlock(w) \/ Die(w)
      PROVE  UNCHANGED <<ledger, torn>> /\ (stolen => stolen')
  <2>1. CASE Begin(w) \/ Mkdir(w) \/ Overdue(w) \/ Stat(w)
    BY <2>1 DEF Begin, Mkdir, Overdue, Stat
  <2>2. CASE Rmdir(w) \/ Unlock(w)
    BY <2>2 DEF Rmdir, Unlock, Removed
  <2>3. CASE Read(w) \/ AppendFails(w) \/ Die(w)
    BY <2>3 DEF Read, AppendFails, Die
  <2> QED
    BY <1>4, <2>1, <2>2, <2>3
<1>5. CASE UNCHANGED egressVars \/ LockAges
  BY <1>1, <1>5 DEF egressVars, LockAges
<1> QED
  BY <1>1, <1>2, <1>3, <1>4, <1>5 DEF EgressNext, Step

LEMMA EgressInvariance == EgressSpec => []IInv
<1>1. IInv /\ [EgressNext]_egressVars => IInv'
  BY EgressTypeStep, HolderStep, ReadStep, ChainStep DEF IInv
<1> QED
  BY <1>1, EgressInitIInv, PTL DEF EgressSpec

\* Whatever the writers do, wait for, reclaim and die of, the ledger verifies:
\* unless a lock was taken from a living writer or a line was cut off
\* (egress-receipt.ts:149-175, the append under the lock; verifyLedger).
THEOREM LedgerVerifies == EgressSpec => []ChainVerifies
<1>1. IInv => ChainVerifies
  BY DEF IInv
<1> QED
  BY <1>1, EgressInvariance, PTL

-----------------------------------------------------------------------------
\* The lock directory as an instance of the abstract mutual exclusion.
Inner == {w \in Writer : writer[w] \in Inside}
L == INSTANCE Mutex WITH Proc <- Writer, holders <- Inner, broken <- stolen

LEMMA LedgerLockStep == IInv /\ [EgressNext]_egressVars => [L!Next]_<<Inner, stolen>>
<1> SUFFICES ASSUME IInv, [EgressNext]_egressVars PROVE L!Next \/ UNCHANGED <<Inner, stolen>>
  OBVIOUS
<1> USE WriterAssumption DEF IInv, EgressTypeOK, Inside, Inner, Goes
<1>1. CASE UNCHANGED egressVars \/ LockAges
  BY <1>1 DEF egressVars, LockAges
<1>2. ASSUME NEW w \in Writer,
             \/ Begin(w) \/ Overdue(w) \/ Stat(w) \/ Read(w) \/ WriteLine(w) \/ AppendFails(w)
      PROVE  UNCHANGED <<Inner, stolen>>
  BY <1>2 DEF Begin, Overdue, Stat, Read, WriteLine, AppendFails
<1>3. ASSUME NEW w \in Writer, Mkdir(w) PROVE L!Enter(w)
  <2>1. Inner' = Inner \cup {w} /\ w \notin Inner /\ UNCHANGED stolen
    BY <1>3 DEF Mkdir
  <2>2. Inner = {} \/ stolen
    BY <1>3 DEF Mkdir, HolderOwnsLock
  <2> QED
    BY <2>1, <2>2 DEF L!Enter
<1>4. ASSUME NEW w \in Writer, Rmdir(w) PROVE L!Break \/ UNCHANGED <<Inner, stolen>>
  <2>1. Inner' = Inner /\ stolen' \in {stolen, TRUE}
    BY <1>4 DEF Rmdir, Removed
  <2> QED
    BY <2>1 DEF L!Break
<1>5. ASSUME NEW w \in Writer, Unlock(w) \/ Die(w) \/ Tear(w)
      PROVE  L!Leave(w) \/ UNCHANGED <<Inner, stolen>>
  <2>1. stolen' \in {stolen, TRUE}
    BY <1>5 DEF Unlock, Die, Tear, Removed
  <2>2. CASE w \in Inner
    <3>1. Inner' = Inner \ {w}
      BY <1>5, <2>2 DEF Unlock, Die, Tear
    <3> QED
      BY <2>1, <2>2, <3>1 DEF L!Leave
  <2>3. CASE w \notin Inner
    BY <1>5, <2>3 DEF Unlock, Die, Tear
  <2> QED
    BY <2>2, <2>3
<1> QED
  BY <1>1, <1>2, <1>3, <1>4, <1>5 DEF EgressNext, Step, L!Next

\* The ledger's lock directory implements the mutual exclusion that only the
\* removal of a living writer's directory breaks (egress-receipt.ts:149-175).
THEOREM LedgerLockImplementsMutex == EgressSpec => L!Spec
<1>1. EgressInit => L!Init
  BY DEF EgressInit, L!Init, Inner, Inside
<1> QED
  BY <1>1, LedgerLockStep, EgressInvariance, PTL DEF EgressSpec, L!Spec

-----------------------------------------------------------------------------
(* The artifacts sync (BrainSync).                                         *)

\* From the git add of a run to its git commit.
Staging == {"scan", "reset", "receipt", "commit"}

\* Runs that overlap were seen to: whoever makes the lock directory beside
\* a run that is under way sets together.
OneRunner ==
    \A d, e \in Drainer :
        drain[d].pc \in DrainRunning /\ drain[e].pc \in DrainRunning => d = e

\* Once a scan has passed that did not fail, what it looked at is free of
\* secrets, and so is what was last committed after such a scan.
ScannedIsClean ==
    /\ \A p \in Path : head[p] \in Secret => p \in unscanned
    /\ ~blind => \A d \in Drainer, p \in Path :
          drain[d].pc \in {"receipt", "commit"} /\ index[p] # head[p] => index[p] \notin Secret

\* Without something left over, what is staged is what the one run between
\* its add and its commit has classified.
StagedByItsRun ==
    ~leftover =>
        /\ ~stray
        /\ \A p \in StagedDiff :
              \E d \in Drainer : drain[d].pc \in Staging /\ p \in drain[d].staged

\* A record's number is never used again: a later record is not in a snapshot.
NumbersAreUsed ==
    /\ \A r \in spool : r.id <= enqueued
    /\ \A d \in Drainer : \A r \in drain[d].snapshot : r.id <= enqueued

\* An uninterrupted run still has its files when it stages.
FilesInPlace == \A d \in Drainer : drain[d].pc = "add" => drain[d].files

\* Not in git as it is on the disk.
Behind(p) == head[p] # content[p] \/ index[p] # content[p]
Requeued(d, p) == \E r \in spool \ drain[d].snapshot : r.path = p

\* A path that is behind is queued; one that fell behind after a run staged
\* it is queued by a record the run will not delete.
StillQueued(p) == Behind(p) => p \in QueuedPaths(spool)
QueuedAfresh(d, p) ==
    p \in drain[d].staged =>
        /\ drain[d].pc \in {"scan", "receipt", "commit"} /\ index[p] # content[p]
              => Requeued(d, p)
        /\ drain[d].pc = "finalize" /\ Behind(p) => Requeued(d, p)
NothingLost ==
    ~gitFailed => \A p \in due : StillQueued(p) /\ \A d \in Drainer : QueuedAfresh(d, p)

BrainInv ==
    /\ BrainTypeOK
    /\ ~together => /\ OneRunner /\ ScannedIsClean /\ StagedByItsRun
                    /\ NumbersAreUsed /\ FilesInPlace /\ NothingLost

-----------------------------------------------------------------------------
DrainType ==
    [pc : DrainRunning \cup {"out", "mkdir", "inspect", "clear", "retry", "dead"},
     mode : Mode, snapshot : SUBSET Record, staged : SUBSET Path,
     dropped : SUBSET Path, files : BOOLEAN]

LEMMA BrainInitInv == BrainInit => BrainInv
<1> SUFFICES ASSUME BrainInit PROVE BrainInv
  OBVIOUS
<1> USE BrainAssumption DEF BrainInit, Out, NoLock
<1>1. BrainTypeOK
  <2>1. Out \in DrainType
    BY DEF DrainType, Mode
  <2>2. drain \in [Drainer -> DrainType]
    BY <2>1
  <2>3. 0 \in 0..MaxRecord /\ 0 \in 0..MaxChange /\ 0 \in 0..MaxFault
    OBVIOUS
  <2> QED
    BY <2>2, <2>3 DEF BrainTypeOK, DrainType, Mode
<1>2. OneRunner
  BY DEF OneRunner, DrainRunning
<1>3. ScannedIsClean
  BY DEF ScannedIsClean
<1>4. StagedByItsRun
  BY DEF StagedByItsRun, StagedDiff
<1>5. NumbersAreUsed
  BY DEF NumbersAreUsed
<1>6. FilesInPlace /\ NothingLost
  BY DEF FilesInPlace, NothingLost
<1> QED
  BY <1>1, <1>2, <1>3, <1>4, <1>5, <1>6 DEF BrainInv

DrainPc == DrainRunning \cup {"out", "mkdir", "inspect", "clear", "retry", "dead"}

LEMMA ProceedsTyped ==
    ASSUME drain \in [Drainer -> DrainType], NEW d \in Drainer, NEW to \in DrainPc,
           Proceeds(d, to)
    PROVE  drain' \in [Drainer -> DrainType]
<1> DEFINE run == [drain[d] EXCEPT !.pc = to]
<1>1. run \in DrainType
  BY DEF DrainType, DrainPc
<1>2. drain' = [drain EXCEPT ![d] = run]
  BY DEF Proceeds
<1> QED
  BY <1>1, <1>2

LEMMA BrainTypeStep == BrainTypeOK /\ BrainNext => BrainTypeOK'
<1> SUFFICES ASSUME BrainTypeOK, BrainNext PROVE BrainTypeOK'
  OBVIOUS
<1>0. drain \in [Drainer -> DrainType]
  BY DEF BrainTypeOK, DrainType
<1> USE BrainAssumption DEF BrainTypeOK, git, settings, inputs, history, scans, Fault, Change,
        DrainAt
<1>1. ASSUME NEW d \in Drainer,
             BeginDrain(d) \/ Inspect(d) \/ ClassifyFails(d) \/ Scan(d) \/ Finalize(d)
      PROVE  BrainTypeOK'
  <2>1. \E to \in DrainPc : Proceeds(d, to)
    BY <1>1 DEF BeginDrain, Inspect, ClassifyFails, Scan, ScanOf, Finalize, DrainPc, DrainRunning
  <2>2. drain' \in [Drainer -> DrainType]
    BY <1>0, <2>1, ProceedsTyped
  <2>3. faults' \in 0..MaxFault
    BY <1>1 DEF BeginDrain, Inspect, ClassifyFails, Scan, ScanOf, Finalize
  <2>4. blind' \in BOOLEAN
    BY <1>1 DEF BeginDrain, Inspect, ClassifyFails, Scan, ScanOf, Finalize
  <2> QED
    BY <1>1, <2>2, <2>3, <2>4
       DEF BeginDrain, Inspect, ClassifyFails, Scan, ScanOf, Finalize, DrainType
<1>2. ASSUME NEW d \in Drainer, MkdirLock(d) \/ Clear(d)
      PROVE  BrainTypeOK'
  <2>1. drain' \in [Drainer -> DrainType]
    <3>1. \E to \in DrainPc : Proceeds(d, to)
      BY <1>2 DEF MkdirLock, Clear, DrainPc, DrainRunning
    <3> QED
      BY <1>0, <3>1, ProceedsTyped
  <2>2. syncLock' \in [by : Drainer \cup {Unlocked}, pid : Drainer \cup {Unlocked}]
    BY <1>2 DEF MkdirLock, Clear, NoLock
  <2>3. together' \in BOOLEAN
    BY <1>2 DEF MkdirLock, Clear
  <2> QED
    BY <1>2, <2>1, <2>2, <2>3 DEF MkdirLock, Clear, DrainType
<1>3. ASSUME NEW d \in Drainer, WritePid(d)
      PROVE  BrainTypeOK'
  <2>1. drain' \in [Drainer -> DrainType]
    <3> DEFINE run == [[drain[d] EXCEPT !.pc = "classify"] EXCEPT !.mode = syncMode]
    <3>1. drain[d] \in DrainType
      BY DEF DrainType
    <3>2. run \in DrainType
      BY <3>1 DEF DrainType, DrainRunning
    <3>3. drain' = [drain EXCEPT ![d] = run]
      BY <1>3 DEF WritePid
    <3> QED
      BY <3>2, <3>3 DEF DrainType
  <2>2. syncLock' \in [by : Drainer \cup {Unlocked}, pid : Drainer \cup {Unlocked}]
    BY <1>3 DEF WritePid
  <2> QED
    BY <1>3, <2>1, <2>2 DEF WritePid, DrainType
<1>4. ASSUME NEW d \in Drainer, ExitDrain(d)
      PROVE  BrainTypeOK'
  BY <1>4 DEF ExitDrain, NoLock, Out, Mode
<1>5. ASSUME NEW d \in Drainer, Classify(d)
      PROVE  BrainTypeOK'
  <2> DEFINE staged == (QueuedPaths(spool) \ skip) \cap Allowed(drain[d].mode)
  <2> DEFINE dropped == QueuedPaths(spool) \cap skip
  <2> DEFINE to == IF spool = {} THEN "exit" ELSE IF staged = {} THEN "finalize" ELSE "add"
  <2>1. /\ drain[d] \in DrainType /\ spool \in SUBSET Record
        /\ staged \in SUBSET Path /\ dropped \in SUBSET Path /\ to \in DrainRunning
    BY DEF Allowed, DrainType, DrainRunning
  <2> QED
    <3> DEFINE run == [drain[d] EXCEPT !.snapshot = spool, !.staged = staged,
                           !.dropped = dropped, !.files = TRUE, !.pc = to]
    <3>2. run \in DrainType
      <4> HIDE DEF staged, dropped, to
      <4> QED
        BY <2>1 DEF DrainType
    <3>3. drain' = [drain EXCEPT ![d] = run]
      BY <1>5 DEF Classify
    <3>1. drain' \in [Drainer -> DrainType]
      BY <3>2, <3>3 DEF DrainType
    <3> QED
      BY <1>5, <3>1 DEF Classify, DrainType
<1>7. ASSUME NEW d \in Drainer, Add(d) \/ ResetIndex(d)
      PROVE  BrainTypeOK'
  <2>1. drain' \in [Drainer -> DrainType]
    <3>1. \E to \in DrainPc : Proceeds(d, to)
      BY <1>7 DEF Add, ResetIndex, DrainPc, DrainRunning
    <3> QED
      BY <1>0, <3>1, ProceedsTyped
  <2>2. index' \in [Path -> Content]
    BY <1>7 DEF Add, ResetIndex
  <2>3. faults' \in 0..MaxFault
    BY <1>7 DEF Add, ResetIndex
  <2> QED
    BY <1>7, <2>1, <2>2, <2>3 DEF Add, ResetIndex, DrainType
<1>8. ASSUME NEW d \in Drainer, Receipt(d) \/ Commit(d)
      PROVE  BrainTypeOK'
  <2>1. drain' \in [Drainer -> DrainType]
    <3>1. \E to \in DrainPc : Proceeds(d, to)
      BY <1>8 DEF Receipt, Commit, DrainPc, DrainRunning
    <3> QED
      BY <1>0, <3>1, ProceedsTyped
  <2>2. head' \in [Path -> Content]
    BY <1>8 DEF Receipt, Commit
  <2>3. faults' \in 0..MaxFault
    BY <1>8 DEF Receipt, Commit
  <2>4. stray' \in BOOLEAN
    BY <1>8 DEF Receipt, Commit
  <2>5. unscanned' \subseteq Path
    BY <1>8 DEF Receipt, Commit, StagedDiff
  <2> QED
    BY <1>8, <2>1, <2>2, <2>3, <2>4, <2>5 DEF Receipt, Commit, DrainType
<1>10. ASSUME NEW d \in Drainer, KillDrain(d) \/ Interrupt(d)
      PROVE  BrainTypeOK'
  <2>1. drain' \in [Drainer -> DrainType]
    <3>1. [Out EXCEPT !.pc = "dead"] \in DrainType
      BY DEF Out, Mode, DrainType
    <3>2. [drain[d] EXCEPT !.files = FALSE] \in DrainType
      BY <1>0 DEF DrainType
    <3>3. CASE KillDrain(d)
      BY <1>0, <3>1, <3>3 DEF KillDrain
    <3>4. CASE Interrupt(d)
      <4> DEFINE run == [drain[d] EXCEPT !.files = FALSE]
      <4>1. drain' = [drain EXCEPT ![d] = run]
        BY <3>4 DEF Interrupt
      <4> QED
        BY <1>0, <3>2, <4>1
    <3> QED
      BY <1>10, <3>3, <3>4
  <2>2. faults' \in 0..MaxFault
    BY <1>10 DEF KillDrain, Interrupt
  <2>3. leftover' \in BOOLEAN
    BY <1>10 DEF KillDrain, Interrupt
  <2>4. syncLock' \in [by : Drainer \cup {Unlocked}, pid : Drainer \cup {Unlocked}]
    BY <1>10 DEF KillDrain, Interrupt, NoLock
  <2> QED
    BY <1>10, <2>1, <2>2, <2>3, <2>4 DEF KillDrain, Interrupt, DrainType
<1>11. ASSUME NEW p \in Path, SkipFile(p)
      PROVE  BrainTypeOK'
  BY <1>11 DEF SkipFile
<1>12. ASSUME NEW p \in Path, NEW c \in Content, WriteFile(p, c)
      PROVE  BrainTypeOK'
  BY <1>12 DEF WriteFile, Record
<1>13. ASSUME NEW m \in Mode, SetMode(m)
      PROVE  BrainTypeOK'
  BY <1>13 DEF SetMode
<1>14. ASSUME DropQueue
      PROVE  BrainTypeOK'
  BY <1>14 DEF DropQueue
<1> QED
  BY <1>1, <1>2, <1>3, <1>4, <1>5, <1>7, <1>8, <1>10, <1>11, <1>12, <1>13, <1>14
     DEF BrainNext, Drain

\* What the classifier and the write of the pid leave in the run.
LEMMA ClassifyWrites ==
    ASSUME BrainTypeOK, NEW d \in Drainer, Classify(d)
    PROVE  /\ drain'[d].pc \in {"exit", "finalize", "add"}
           /\ drain'[d].snapshot = spool
           /\ drain'[d].files
           /\ drain'[d].pc = "finalize" => drain'[d].staged = {}
           /\ \A e \in Drainer \ {d} : drain'[e] = drain[e]
  BY DEF BrainTypeOK, Classify

LEMMA WritePidWrites ==
    ASSUME BrainTypeOK, NEW d \in Drainer, WritePid(d)
    PROVE  /\ drain'[d].pc = "classify"
           /\ drain'[d].snapshot = drain[d].snapshot
           /\ drain'[d].staged = drain[d].staged
           /\ \A e \in Drainer \ {d} : drain'[e] = drain[e]
  BY DEF BrainTypeOK, WritePid

LEMMA OneRunnerStep ==
    ASSUME BrainTypeOK, OneRunner, BrainNext, ~together'
    PROVE  OneRunner'
<1> USE DEF BrainTypeOK, OneRunner, Proceeds, DrainAt
<1>1. ASSUME NEW d \in Drainer, MkdirLock(d)
      PROVE  OneRunner'
  <2>1. CASE syncLock.by = Unlocked
    <3>1. \A e \in Drainer \ {d} : drain[e].pc \notin DrainRunning
      BY <1>1, <2>1 DEF MkdirLock, DrainsOverlap
    <3> QED
      BY <1>1, <2>1, <3>1 DEF MkdirLock
  <2>2. CASE syncLock.by # Unlocked
    BY <1>1, <2>2 DEF MkdirLock, DrainRunning
  <2> QED
    BY <2>1, <2>2
<1>2. ASSUME NEW d \in Drainer,
             BeginDrain(d) \/ Inspect(d) \/ Clear(d) \/ ExitDrain(d) \/ KillDrain(d)
      PROVE  OneRunner'
  BY <1>2 DEF BeginDrain, Inspect, Clear, ExitDrain, KillDrain, Out, DrainRunning
<1>3. ASSUME NEW d \in Drainer,
             \/ WritePid(d) \/ Classify(d) \/ ClassifyFails(d) \/ Add(d) \/ Scan(d)
             \/ ResetIndex(d) \/ Receipt(d) \/ Commit(d) \/ Finalize(d)
      PROVE  OneRunner'
  <2>1. drain[d].pc \in DrainRunning
    BY <1>3 DEF WritePid, Classify, ClassifyFails, Add, Scan, ScanOf, ResetIndex, Receipt, Commit,
                Finalize, DrainRunning
  <2>2. \A e \in Drainer \ {d} : drain'[e] = drain[e]
    BY <1>3 DEF WritePid, Classify, ClassifyFails, Add, Scan, ScanOf, ResetIndex, Receipt, Commit,
                Finalize
  <2> QED
    BY <2>1, <2>2
<1>4. ASSUME NEW d \in Drainer, Interrupt(d)
      PROVE  OneRunner'
  BY <1>4 DEF Interrupt
<1>5. CASE UNCHANGED drain
  BY <1>5
<1> QED
  BY <1>1, <1>2, <1>3, <1>4, <1>5
     DEF BrainNext, Drain, SkipFile, WriteFile, SetMode, DropQueue

LEMMA ScannedIsCleanStep ==
    ASSUME BrainTypeOK, OneRunner, ScannedIsClean, BrainNext, ~together'
    PROVE  ScannedIsClean'
<1> USE DEF BrainTypeOK, ScannedIsClean, Proceeds, DrainAt, git, history, scans
<1>1. ASSUME NEW d \in Drainer,
             \/ BeginDrain(d) \/ MkdirLock(d) \/ Inspect(d) \/ Clear(d) \/ WritePid(d)
             \/ ExitDrain(d) \/ Classify(d) \/ ClassifyFails(d) \/ Finalize(d) \/ KillDrain(d)
      PROVE  ScannedIsClean'
  <2>1. UNCHANGED <<index, head, scans>>
    BY <1>1 DEF BeginDrain, MkdirLock, Inspect, Clear, WritePid, ExitDrain, Classify,
                ClassifyFails, Finalize, KillDrain
  <2>2. drain'[d].pc \notin {"receipt", "commit"}
    BY <1>1, ClassifyWrites, WritePidWrites
       DEF BeginDrain, MkdirLock, Inspect, Clear, ExitDrain, ClassifyFails, Finalize, KillDrain,
           Out
  <2>3. \A e \in Drainer \ {d} : drain'[e] = drain[e]
    BY <1>1 DEF BeginDrain, MkdirLock, Inspect, Clear, WritePid, ExitDrain, Classify,
                ClassifyFails, Finalize, KillDrain
  <2> QED
    BY <2>1, <2>2, <2>3
<1>2. ASSUME NEW d \in Drainer, Add(d) \/ ResetIndex(d)
      PROVE  ScannedIsClean'
  <2>1. \A e \in Drainer : drain'[e].pc \notin {"receipt", "commit"}
    BY <1>2 DEF Add, ResetIndex, OneRunner, DrainRunning
  <2> QED
    BY <1>2, <2>1 DEF Add, ResetIndex
<1>3. ASSUME NEW d \in Drainer, Scan(d)
      PROVE  ScannedIsClean'
  <2>1. CASE \E p \in StagedDiff : index[p] \in Secret
    BY <1>3, <2>1 DEF Scan, ScanOf, StagedDiff, OneRunner, DrainRunning
  <2>2. CASE \A p \in StagedDiff : index[p] \notin Secret
    BY <1>3, <2>2 DEF Scan, ScanOf, StagedDiff, OneRunner, DrainRunning
  <2> QED
    BY <2>1, <2>2
<1>4. ASSUME NEW d \in Drainer, Receipt(d) \/ Commit(d)
      PROVE  ScannedIsClean'
  BY <1>4 DEF Receipt, Commit, StagedDiff
<1>5. ASSUME NEW d \in Drainer, Interrupt(d)
      PROVE  ScannedIsClean'
  BY <1>5 DEF Interrupt
<1>6. CASE UNCHANGED <<drain, index, head, scans>>
  BY <1>6
<1> QED
  BY <1>1, <1>2, <1>3, <1>4, <1>5, <1>6
     DEF BrainNext, Drain, SkipFile, WriteFile, SetMode, DropQueue

LEMMA StagedByItsRunStep ==
    ASSUME BrainTypeOK, OneRunner, StagedByItsRun, BrainNext, ~together'
    PROVE  StagedByItsRun'
<1> USE DEF BrainTypeOK, Proceeds, DrainAt, git, history
<1>0. SUFFICES ASSUME ~leftover' PROVE ~stray' /\ \A p \in StagedDiff' :
                   \E d \in Drainer : drain'[d].pc \in Staging /\ p \in drain'[d].staged
  BY DEF StagedByItsRun
<1> DEFINE Kept == ~stray' /\ \A p \in StagedDiff' :
                   \E d \in Drainer : drain'[d].pc \in Staging /\ p \in drain'[d].staged
<1>1. ASSUME NEW d \in Drainer,
             \/ BeginDrain(d) \/ MkdirLock(d) \/ Inspect(d) \/ Clear(d) \/ WritePid(d)
             \/ ExitDrain(d) \/ Classify(d) \/ ClassifyFails(d) \/ Finalize(d) \/ KillDrain(d)
      PROVE  Kept
  <2>1. UNCHANGED <<index, head, stray>> /\ ~leftover
    BY <1>1, <1>0 DEF BeginDrain, MkdirLock, Inspect, Clear, WritePid, ExitDrain, Classify,
                ClassifyFails, Finalize, KillDrain
  <2>2. drain[d].pc \notin Staging
    <3>1. CASE KillDrain(d)
      BY <3>1, <1>0 DEF KillDrain, Staging
    <3>2. CASE ~KillDrain(d)
      BY <1>1, <3>2 DEF BeginDrain, MkdirLock, Inspect, Clear, WritePid, ExitDrain, Classify,
                ClassifyFails, Finalize, Staging
    <3> QED
      BY <3>1, <3>2
  <2>3. \A e \in Drainer \ {d} : drain'[e] = drain[e]
    BY <1>1 DEF BeginDrain, MkdirLock, Inspect, Clear, WritePid, ExitDrain, Classify,
                ClassifyFails, Finalize, KillDrain
  <2> QED
    BY <2>1, <2>2, <2>3 DEF StagedByItsRun, StagedDiff
<1>2. ASSUME NEW d \in Drainer, Add(d)
      PROVE  Kept
  <2>1. ~stray' /\ head' = head /\ drain'[d].pc = "scan" /\ drain'[d].staged = drain[d].staged
    BY <1>2, <1>0 DEF Add, StagedByItsRun
  <2>2. index = head
    <3>1. \A e \in Drainer : drain[e].pc \notin Staging
      BY <1>2 DEF Add, OneRunner, DrainRunning, Staging
    <3> QED
      BY <1>2, <1>0, <3>1 DEF Add, StagedByItsRun, StagedDiff
  <2>3. StagedDiff' \subseteq drain[d].staged
    BY <1>2, <2>1, <2>2 DEF Add, Staged, StagedDiff
  <2> QED
    BY <2>1, <2>3 DEF Staging
<1>3. ASSUME NEW d \in Drainer, Scan(d)
      PROVE  Kept
  <2>1. drain'[d].pc \in Staging /\ \A e \in Drainer : drain'[e].staged = drain[e].staged
    BY <1>3 DEF Scan, ScanOf, Staging
  <2> QED
    BY <1>3, <1>0, <2>1 DEF Scan, ScanOf, StagedByItsRun, StagedDiff
<1>4. ASSUME NEW d \in Drainer, ResetIndex(d)
      PROVE  Kept
  BY <1>4, <1>0 DEF ResetIndex, StagedByItsRun, StagedDiff
<1>5. ASSUME NEW d \in Drainer, Receipt(d)
      PROVE  Kept
  <2>1. drain'[d].pc \in Staging /\ \A e \in Drainer : drain'[e].staged = drain[e].staged
    BY <1>5, <1>0 DEF Receipt, Staging
  <2> QED
    BY <1>5, <1>0, <2>1 DEF Receipt, StagedByItsRun, StagedDiff
<1>6. ASSUME NEW d \in Drainer, Commit(d)
      PROVE  Kept
  <2>1. ~leftover /\ ~stray
    BY <1>6, <1>0 DEF Commit, StagedByItsRun
  <2>2. StagedDiff \subseteq drain[d].staged
    <3>1. \A e \in Drainer : drain[e].pc \in Staging => e = d
      BY <1>6 DEF Commit, OneRunner, DrainRunning, Staging
    <3> QED
      BY <2>1, <3>1 DEF StagedByItsRun
  <2>3. index' = head' /\ ~stray'
    BY <1>6, <1>0, <2>1, <2>2 DEF Commit, StagedDiff
  <2> QED
    BY <2>3 DEF StagedDiff
<1>7. ASSUME NEW d \in Drainer, Interrupt(d)
      PROVE  Kept
  BY <1>7 DEF Interrupt
<1>8. CASE UNCHANGED <<drain, index, head, leftover, stray>>
  BY <1>0, <1>8 DEF StagedByItsRun, StagedDiff
<1> QED
  BY <1>1, <1>2, <1>3, <1>4, <1>5, <1>6, <1>7, <1>8
     DEF BrainNext, Drain, SkipFile, WriteFile, SetMode, DropQueue

LEMMA NumbersAreUsedStep ==
    ASSUME BrainTypeOK, NumbersAreUsed, BrainNext
    PROVE  NumbersAreUsed'
<1> USE DEF BrainTypeOK, NumbersAreUsed, Proceeds, DrainAt, inputs
<1>1. ASSUME NEW d \in Drainer,
             \/ BeginDrain(d) \/ MkdirLock(d) \/ Inspect(d) \/ Clear(d) \/ ClassifyFails(d)
             \/ Add(d) \/ Scan(d) \/ ResetIndex(d) \/ Receipt(d) \/ Commit(d) \/ Interrupt(d)
      PROVE  NumbersAreUsed'
  <2>1. \A e \in Drainer : drain'[e].snapshot = drain[e].snapshot
    BY <1>1 DEF BeginDrain, MkdirLock, Inspect, Clear, ClassifyFails, Add, Scan, ScanOf, ResetIndex,
                Receipt, Commit, Interrupt
  <2>2. UNCHANGED <<spool, enqueued>>
    BY <1>1 DEF BeginDrain, MkdirLock, Inspect, Clear, ClassifyFails, Add, Scan, ScanOf, ResetIndex,
                Receipt, Commit, Interrupt
  <2> QED
    BY <2>1, <2>2
<1>2. ASSUME NEW d \in Drainer, WritePid(d)
      PROVE  NumbersAreUsed'
  BY <1>2, WritePidWrites DEF WritePid
<1>3. ASSUME NEW d \in Drainer, Classify(d)
      PROVE  NumbersAreUsed'
  <2>1. UNCHANGED <<spool, enqueued>> /\ drain'[d].snapshot = spool
    BY <1>3, ClassifyWrites DEF Classify
  <2>2. \A e \in Drainer \ {d} : drain'[e] = drain[e]
    BY <1>3, ClassifyWrites
  <2> QED
    BY <2>1, <2>2
<1>4. ASSUME NEW d \in Drainer, ExitDrain(d) \/ KillDrain(d)
      PROVE  NumbersAreUsed'
  <2>1. UNCHANGED <<spool, enqueued>> /\ drain'[d].snapshot = {}
    BY <1>4 DEF ExitDrain, KillDrain, Out
  <2>2. \A e \in Drainer \ {d} : drain'[e] = drain[e]
    BY <1>4 DEF ExitDrain, KillDrain
  <2> QED
    BY <2>1, <2>2
<1>5. ASSUME NEW d \in Drainer, Finalize(d)
      PROVE  NumbersAreUsed'
  BY <1>5 DEF Finalize
<1>6. ASSUME NEW p \in Path, NEW c \in Content, WriteFile(p, c)
      PROVE  NumbersAreUsed'
  <2>1. enqueued' \in Nat /\ enqueued <= enqueued' /\ \A r \in spool : r.id \in Nat
    BY <1>6, BrainAssumption DEF WriteFile, Record
  <2>2. \A r \in spool' : r.id <= enqueued'
    BY <1>6, <2>1, BrainAssumption DEF WriteFile, Record
  <2>3. \A d \in Drainer : \A r \in drain[d].snapshot : r.id \in Nat /\ r.id <= enqueued'
    BY <2>1, BrainAssumption DEF Record
  <2> QED
    BY <1>6, <2>2, <2>3 DEF WriteFile
<1>7. CASE UNCHANGED <<drain, enqueued>> /\ spool' \subseteq spool
  BY <1>7
<1> QED
  BY <1>1, <1>2, <1>3, <1>4, <1>5, <1>6, <1>7
     DEF BrainNext, Drain, SkipFile, SetMode, DropQueue, settings

LEMMA FilesInPlaceStep ==
    ASSUME BrainTypeOK, FilesInPlace, BrainNext, ~together'
    PROVE  FilesInPlace'
<1> USE DEF BrainTypeOK, FilesInPlace, Proceeds, DrainAt
<1>1. ASSUME NEW d \in Drainer,
             \/ BeginDrain(d) \/ MkdirLock(d) \/ Inspect(d) \/ Clear(d) \/ ClassifyFails(d)
             \/ Add(d) \/ Scan(d) \/ ResetIndex(d) \/ Receipt(d) \/ Commit(d) \/ Finalize(d)
             \/ WritePid(d) \/ ExitDrain(d) \/ KillDrain(d)
      PROVE  FilesInPlace'
  <2>1. drain'[d].pc # "add" /\ \A e \in Drainer \ {d} : drain'[e] = drain[e]
    BY <1>1, WritePidWrites
       DEF BeginDrain, MkdirLock, Inspect, Clear, ClassifyFails, Add, Scan, ScanOf, ResetIndex, Receipt,
           Commit, Finalize, ExitDrain, KillDrain, Out
  <2> QED
    BY <2>1
<1>2. ASSUME NEW d \in Drainer, Classify(d)
      PROVE  FilesInPlace'
  BY <1>2, ClassifyWrites
<1>3. ASSUME NEW d \in Drainer, Interrupt(d)
      PROVE  FilesInPlace'
  BY <1>3 DEF Interrupt
<1>4. CASE UNCHANGED drain
  BY <1>4
<1> QED
  BY <1>1, <1>2, <1>3, <1>4
     DEF BrainNext, Drain, SkipFile, WriteFile, SetMode, DropQueue

LEMMA NothingLostStep ==
    ASSUME BrainTypeOK, OneRunner, NumbersAreUsed, FilesInPlace, NothingLost, BrainNext,
           ~together', ~gitFailed'
    PROVE  \A p \in due' : StillQueued(p)' /\ \A d \in Drainer : QueuedAfresh(d, p)'
<1> USE DEF BrainTypeOK, Proceeds, DrainAt, git, inputs, history
<1> DEFINE Held(p) == StillQueued(p)' /\ \A d \in Drainer : QueuedAfresh(d, p)'
<1> USE DEF StillQueued, QueuedAfresh, Behind, Requeued
<1>1. ASSUME NEW d \in Drainer,
             \/ BeginDrain(d) \/ MkdirLock(d) \/ Inspect(d) \/ Clear(d) \/ WritePid(d)
             \/ ExitDrain(d) \/ Classify(d) \/ ClassifyFails(d) \/ KillDrain(d),
             NEW p \in due'
      PROVE  Held(p)
  <2>1. UNCHANGED <<content, spool, index, head, due, gitFailed>>
    BY <1>1 DEF BeginDrain, MkdirLock, Inspect, Clear, WritePid, ExitDrain, Classify,
                ClassifyFails, KillDrain
  <2>2. /\ drain'[d].pc \notin {"scan", "receipt", "commit"}
        /\ drain'[d].pc = "finalize" => drain'[d].staged = {}
    BY <1>1, ClassifyWrites, WritePidWrites
       DEF BeginDrain, MkdirLock, Inspect, Clear, ExitDrain, ClassifyFails, KillDrain, Out
  <2>3. \A e \in Drainer \ {d} : drain'[e] = drain[e]
    BY <1>1 DEF BeginDrain, MkdirLock, Inspect, Clear, WritePid, ExitDrain, Classify,
                ClassifyFails, KillDrain
  <2> QED
    BY <2>1, <2>2, <2>3 DEF NothingLost
<1>2. ASSUME NEW d \in Drainer, Add(d), NEW p \in due'
      PROVE  Held(p)
  <2>1. /\ \A q \in Path : index'[q] = IF q \in drain[d].staged THEN content[q] ELSE index[q]
        /\ UNCHANGED <<content, spool, head, due>> /\ ~gitFailed
    BY <1>2 DEF Add, Staged, FilesInPlace
  <2>2. /\ drain'[d].pc = "scan" /\ \A e \in Drainer : drain'[e].snapshot = drain[e].snapshot
        /\ \A e \in Drainer : drain'[e].staged = drain[e].staged
        /\ \A e \in Drainer \ {d} : drain'[e].pc \notin {"scan", "receipt", "commit", "finalize"}
    BY <1>2 DEF Add, OneRunner, DrainRunning
  <2> QED
    BY <2>1, <2>2 DEF NothingLost
<1>3. ASSUME NEW d \in Drainer, Scan(d) \/ Receipt(d), NEW p \in due'
      PROVE  Held(p)
  <2>1. UNCHANGED <<content, spool, index, head, due, gitFailed>>
    BY <1>3 DEF Scan, ScanOf, Receipt
  <2>2. /\ \A e \in Drainer : drain'[e].snapshot = drain[e].snapshot
        /\ \A e \in Drainer : drain'[e].staged = drain[e].staged
    BY <1>3 DEF Scan, ScanOf, Receipt
  <2>3. /\ drain[d].pc \in {"scan", "receipt"}
        /\ drain'[d].pc \in {"reset", "receipt", "commit", "exit"}
        /\ \A e \in Drainer \ {d} : drain'[e] = drain[e]
    BY <1>3 DEF Scan, ScanOf, Receipt
  <2> QED
    BY <2>1, <2>2, <2>3 DEF NothingLost
<1>4. ASSUME NEW d \in Drainer, ResetIndex(d), NEW p \in due'
      PROVE  Held(p)
  <2>1. UNCHANGED <<content, spool, head, due, gitFailed>> /\ index' \in {index, head}
    BY <1>4 DEF ResetIndex
  <2>2. \A e \in Drainer : drain'[e].pc \notin {"scan", "receipt", "commit", "finalize"}
    BY <1>4 DEF ResetIndex, OneRunner, DrainRunning
  <2> QED
    BY <2>1, <2>2 DEF NothingLost
<1>5. ASSUME NEW d \in Drainer, Commit(d), NEW p \in due'
      PROVE  Held(p)
  <2>1. UNCHANGED <<content, spool, index, due, gitFailed>> /\ head' = index
    BY <1>5 DEF Commit, StagedDiff
  <2>2. /\ \A e \in Drainer : drain'[e].snapshot = drain[e].snapshot
        /\ \A e \in Drainer : drain'[e].staged = drain[e].staged
        /\ drain[d].pc = "commit" /\ drain'[d].pc = "finalize"
        /\ \A e \in Drainer \ {d} : drain'[e].pc \notin {"scan", "receipt", "commit", "finalize"}
    BY <1>5 DEF Commit, OneRunner, DrainRunning
  <2> QED
    BY <2>1, <2>2 DEF NothingLost
<1>6. ASSUME NEW d \in Drainer, Finalize(d), NEW p \in due'
      PROVE  Held(p)
  <2>1. /\ UNCHANGED <<content, index, head, gitFailed>> /\ p \in due
        /\ spool' = spool \ Consumed(d) /\ p \notin drain[d].dropped
    BY <1>6 DEF Finalize
  <2>2. \A e \in Drainer : drain'[e].pc \notin {"scan", "receipt", "commit", "finalize"}
    BY <1>6 DEF Finalize, OneRunner, DrainRunning
  <2>3. ASSUME Behind(p) PROVE \E r \in spool' : r.path = p
    <3>1. CASE p \in drain[d].staged
      <4>1. Requeued(d, p)
        BY <1>6, <2>1, <2>3, <3>1 DEF Finalize, NothingLost
      <4> QED
        BY <2>1, <4>1 DEF Consumed
    <3>2. CASE p \notin drain[d].staged
      <4>1. \E r \in spool : r.path = p
        BY <2>1, <2>3 DEF NothingLost, QueuedPaths
      <4> QED
        BY <2>1, <3>2, <4>1 DEF Consumed
    <3> QED
      BY <3>1, <3>2
  <2> QED
    BY <2>1, <2>2, <2>3 DEF QueuedPaths
<1>7. ASSUME NEW d \in Drainer, Interrupt(d), NEW p \in due'
      PROVE  Held(p)
  BY <1>7 DEF Interrupt
<1>8. ASSUME NEW q \in Path, NEW c \in Content, WriteFile(q, c), NEW p \in due'
      PROVE  Held(p)
  <2>1. UNCHANGED <<index, head, drain, gitFailed>> /\ spool \subseteq spool'
    BY <1>8 DEF WriteFile
  <2>2. CASE p # q
    <3>1. p \in due /\ content'[p] = content[p]
      BY <1>8, <2>2 DEF WriteFile
    <3> QED
      BY <2>1, <3>1 DEF NothingLost, QueuedPaths
  <2>3. CASE p = q
    <3> DEFINE fresh == [id |-> enqueued + 1, path |-> p]
    <3>1. fresh \in spool'
      BY <1>8, <2>3 DEF WriteFile
    <3>2. \A d \in Drainer : fresh \notin drain[d].snapshot
      BY BrainAssumption DEF NumbersAreUsed
    <3> QED
      BY <2>1, <3>1, <3>2 DEF QueuedPaths
  <2> QED
    BY <2>2, <2>3
<1>9. ASSUME DropQueue, NEW p \in due'
      PROVE  Held(p)
  BY <1>9 DEF DropQueue
<1>10. ASSUME UNCHANGED <<content, spool, index, head, drain, due, gitFailed>>, NEW p \in due'
       PROVE  Held(p)
  BY <1>10 DEF NothingLost, QueuedPaths
<1> QED
  BY <1>1, <1>2, <1>3, <1>4, <1>5, <1>6, <1>7, <1>8, <1>9, <1>10
     DEF BrainNext, Drain, SkipFile, SetMode, settings

LEMMA BrainNextInv == BrainInv /\ [BrainNext]_brainVars => BrainInv'
<1>1. ASSUME BrainInv, BrainNext PROVE BrainInv'
  <2>1. BrainTypeOK' /\ ~together
    BY <1>1, BrainTypeStep DEF BrainInv, BrainNext
  <2> SUFFICES ASSUME ~together'
               PROVE  /\ OneRunner' /\ ScannedIsClean' /\ StagedByItsRun'
                      /\ NumbersAreUsed' /\ FilesInPlace' /\ NothingLost'
    BY <2>1 DEF BrainInv
  <2>2. OneRunner' /\ ScannedIsClean' /\ StagedByItsRun'
    BY <1>1, <2>1, OneRunnerStep, ScannedIsCleanStep, StagedByItsRunStep DEF BrainInv
  <2>3. NumbersAreUsed' /\ FilesInPlace'
    BY <1>1, <2>1, NumbersAreUsedStep, FilesInPlaceStep DEF BrainInv
  <2>4. NothingLost'
    BY <1>1, <2>1, NothingLostStep DEF BrainInv, NothingLost
  <2> QED
    BY <2>2, <2>3, <2>4
<1>2. ASSUME BrainInv, UNCHANGED brainVars PROVE BrainInv'
  BY <1>2 DEF BrainInv, BrainTypeOK, OneRunner, ScannedIsClean, StagedByItsRun, StagedDiff,
              NumbersAreUsed, FilesInPlace, NothingLost, StillQueued, QueuedAfresh, Behind,
              Requeued, QueuedPaths, brainVars, git, settings, inputs, history
<1> QED
  BY <1>1, <1>2

LEMMA BrainAlwaysInv == BrainSpec => []BrainInv
  BY BrainInitInv, BrainNextInv, PTL DEF BrainSpec

-----------------------------------------------------------------------------
(* The artifacts sync keeps the types of its state.                        *)
THEOREM BrainTypeCorrect == BrainSpec => []BrainTypeOK
<1>1. BrainInv => BrainTypeOK
  BY DEF BrainInv
<1> QED
  BY <1>1, BrainAlwaysInv, PTL

(* What a drain has committed holds no secret unless the scan before it     *)
(* failed and passed for clean (gstack-brain-sync:683-694, || true at 685): *)
(* the scan reads all that the commit will take, whoever staged it.         *)
THEOREM NoSecretIsCommitted == BrainSpec => []SecretsStayHome
<1>1. BrainInv => SecretsStayHome
  BY DEF BrainInv, ScannedIsClean, SecretsStayHome
<1> QED
  BY <1>1, BrainAlwaysInv, PTL

(* A commit takes nothing its run has not classified unless an earlier run  *)
(* left something staged (gstack-brain-sync:675-716).                       *)
THEOREM CommitsWhatItClassified == BrainSpec => []OnlyClassifiedIsCommitted
<1>1. BrainInv => OnlyClassifiedIsCommitted
  BY DEF BrainInv, StagedByItsRun, OnlyClassifiedIsCommitted
<1> QED
  BY <1>1, BrainAlwaysInv, PTL

(* A change that was enqueued is committed or still queued, whatever is     *)
(* written during a drain and wherever it is killed                         *)
(* (gstack-brain-sync:407-485).                                             *)
THEOREM EnqueuedIsKept == BrainSpec => []NoChangeIsForgotten
<1>1. BrainInv => NoChangeIsForgotten
  BY DEF BrainInv, NothingLost, StillQueued, Behind, NoChangeIsForgotten
<1> QED
  BY <1>1, BrainAlwaysInv, PTL
=============================================================================
