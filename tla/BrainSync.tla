------------------------------ MODULE BrainSync ------------------------------
(***************************************************************************)
(* The synchronisation of ~/.gstack with the artifacts remote: writers     *)
(* enqueue the path they wrote (bin/gstack-brain-enqueue), and             *)
(* gstack-brain-sync --once, run at every skill boundary, drains the       *)
(* spool: classify, stage, scan for secrets, commit, push, delete.  Two    *)
(* runs are kept apart by a lock directory.  The user changes the mode,    *)
(* the skip list and the queue, and processes die or are interrupted.      *)
(***************************************************************************)
EXTENDS Integers, FiniteSets

CONSTANTS
    Drainer,      \* runs of gstack-brain-sync --once
    Path,         \* allowlisted files under ~/.gstack
    Behavioral,   \* those the privacy map calls behavioral
    Content,      \* what a file may hold; Original at first
    Original,
    Secret,       \* contents with a secret pattern
    MaxRecord,    \* bound on the records enqueued
    MaxChange,    \* bound on the user's changes of mode, skip list and queue
    MaxFault      \* bound on kills, signals, refused receipts and failing git calls

Unlocked == "unlocked"
ASSUME BrainAssumption ==
    /\ Unlocked \notin Drainer /\ Behavioral \subseteq Path
    /\ Original \in Content \ Secret
    /\ {MaxRecord, MaxChange, MaxFault} \subseteq Nat

VARIABLES
    syncMode,     \* artifacts_sync_mode
    skip,         \* .brain-skip.txt
    content,      \* the files
    spool,        \* .brain-queue.d: one file per record
    enqueued,     \* how many records were made
    index, head,  \* git: what is staged, what is committed
    syncLock,     \* .brain-sync.lock.d: who made it and the pid in it
    drain,        \* where each run stands
    changes,      \* how many changes of the user, how many faults
    faults,
    due,          \* history: paths whose last change was enqueued and not given up
    together,     \* history: two runs at once, or one that lost its lock
    gitFailed,    \* history: a git add or a git commit failed
    leftover,     \* history: a run ended between the add and the commit
    stray,        \* history: a commit took a path its run had not classified
    blind,        \* history: the scan of the run under way failed
    unscanned     \* history: paths last committed after such a scan

brainVars == <<syncMode, skip, changes, content, spool, enqueued, index, head, syncLock, drain,
               faults, due, together, gitFailed, leftover, stray, blind, unscanned>>
scans == <<blind, unscanned>>
git == <<index, head>>
settings == <<syncMode, skip, changes>>
inputs == <<settings, content, enqueued>>
history == <<due, together, gitFailed, leftover, stray, scans>>

Record == [id : 1..MaxRecord, path : Path]
NoLock == [by |-> Unlocked, pid |-> Unlocked]
Mode == {"off", "artifacts-only", "full"}
DrainRunning == {"pid", "classify", "add", "scan", "reset", "receipt", "commit", "finalize", "exit"}

\* staged and snapshot stand for the temporary files of the run; files is
\* FALSE once a trap has removed them.
Out == [pc |-> "out", mode |-> "off", snapshot |-> {}, staged |-> {}, dropped |-> {},
        files |-> FALSE]

BrainInit ==
    /\ syncMode = "full" /\ skip = {} /\ changes = 0
    /\ content = [p \in Path |-> Original]
    /\ spool = {} /\ enqueued = 0
    /\ index = content /\ head = content
    /\ syncLock = NoLock
    /\ drain = [d \in Drainer |-> Out]
    /\ faults = 0 /\ due = {}
    /\ together = FALSE /\ gitFailed = FALSE /\ leftover = FALSE /\ stray = FALSE
    /\ blind = FALSE /\ unscanned = {}

DrainAt(d, pc) == drain[d].pc = pc
Proceeds(d, pc) == drain' = [drain EXCEPT ![d].pc = pc]
Fault == faults < MaxFault /\ faults' = faults + 1
Dead(d) == DrainAt(d, "dead")

\* A run that has just entered meets another one, or its lock goes.
DrainsOverlap(d) == \E e \in Drainer \ {d} : drain[e].pc \in DrainRunning

-----------------------------------------------------------------------------
(* The lock: mkdir, the look at the pid in it, the removal of a dead one's. *)

BeginDrain(d) ==
    /\ DrainAt(d, "out") /\ syncMode # "off"
    /\ Proceeds(d, "mkdir")
    /\ UNCHANGED <<inputs, spool, git, syncLock, faults, history>>

MkdirLock(d) ==
    /\ drain[d].pc \in {"mkdir", "retry"}
    /\ IF syncLock.by = Unlocked
       THEN /\ syncLock' = [by |-> d, pid |-> Unlocked]
            /\ together' = (together \/ DrainsOverlap(d))
            /\ Proceeds(d, "pid")
       ELSE /\ Proceeds(d, IF DrainAt(d, "mkdir") THEN "inspect" ELSE "out")
            /\ UNCHANGED <<syncLock, together>>
    /\ UNCHANGED <<inputs, spool, git, faults, due, gitFailed, leftover, stray, scans>>

\* No pid file: treated as held.  An interrupted run's pid is alive.
Inspect(d) ==
    /\ DrainAt(d, "inspect")
    /\ Proceeds(d, IF syncLock.pid \in Drainer /\ Dead(syncLock.pid) THEN "clear" ELSE "out")
    /\ UNCHANGED <<inputs, spool, git, syncLock, faults, history>>

\* rm -rf of whatever is there by now.
Clear(d) ==
    /\ DrainAt(d, "clear")
    /\ syncLock' = NoLock
    /\ Proceeds(d, "retry")
    /\ UNCHANGED <<inputs, spool, git, faults, history>>

\* The pid goes into whoever's directory is there, if any.
WritePid(d) ==
    /\ DrainAt(d, "pid")
    /\ syncLock' = [syncLock EXCEPT !.pid = IF syncLock.by = Unlocked THEN Unlocked ELSE d]
    /\ drain' = [drain EXCEPT ![d].pc = "classify", ![d].mode = syncMode]
    /\ UNCHANGED <<inputs, spool, git, faults, history>>

\* The EXIT trap removes the lock directory, whoever's it is.
ExitDrain(d) ==
    /\ DrainAt(d, "exit")
    /\ syncLock' = NoLock
    /\ drain' = [drain EXCEPT ![d] = Out]
    /\ UNCHANGED <<inputs, spool, git, faults, history>>

-----------------------------------------------------------------------------
(* The drain.                                                              *)

\* compute_paths_to_stage: what is not to be staged is kept or dropped by name.
Allowed(m) == {p \in Path : m = "full" \/ (m = "artifacts-only" /\ p \notin Behavioral)}
QueuedPaths(records) == {r.path : r \in records}

Classify(d) ==
    /\ DrainAt(d, "classify")
    /\ LET staged == (QueuedPaths(spool) \ skip) \cap Allowed(drain[d].mode)
       IN  drain' = [drain EXCEPT ![d] =
               [@ EXCEPT !.snapshot = spool, !.staged = staged,
                         !.dropped = QueuedPaths(spool) \cap skip, !.files = TRUE,
                         !.pc = IF spool = {} THEN "exit"
                                ELSE IF staged = {} THEN "finalize" ELSE "add"]]
    /\ UNCHANGED <<inputs, spool, git, syncLock, faults, history>>

\* The classifier dies: nothing is consumed.
ClassifyFails(d) ==
    /\ DrainAt(d, "classify") /\ spool # {}
    /\ Fault
    /\ Proceeds(d, "exit")
    /\ UNCHANGED <<inputs, spool, git, syncLock, history>>

\* The paths file of the run.  Slip: every file on the disk, as git add -A.
Staged_all(d) == Path
Staged(d) == IF drain[d].files THEN drain[d].staged ELSE {}

\* git add -f of each path; one that fails is passed over.
Add(d) ==
    /\ DrainAt(d, "add")
    /\ \/ /\ index' = [p \in Path |-> IF p \in Staged(d) THEN content[p] ELSE index[p]]
          /\ UNCHANGED <<faults, gitFailed>>
       \/ /\ Fault
          /\ gitFailed' = TRUE /\ UNCHANGED index
    /\ Proceeds(d, "scan")
    /\ UNCHANGED <<inputs, spool, head, syncLock, due, together, leftover, stray, scans>>

\* The scan reads the whole staged diff.  A diff or a scanner that fails
\* prints nothing, which passes for clean.  Slip: only what this run staged.
StagedDiff == {p \in Path : index[p] # head[p]}

ScanOf(d, diff) ==
    /\ DrainAt(d, "scan")
    /\ \/ /\ Proceeds(d, IF \E p \in diff : index[p] \in Secret THEN "reset" ELSE "receipt")
          /\ blind' = FALSE /\ UNCHANGED faults
       \/ /\ Fault /\ blind' = TRUE
          /\ Proceeds(d, "receipt")
    /\ UNCHANGED <<inputs, spool, git, syncLock, due, together, gitFailed, leftover, stray,
                   unscanned>>
Scan_own(d) == ScanOf(d, StagedDiff \cap Staged(d))
Scan(d) == ScanOf(d, StagedDiff)

\* A secret: unstage everything, keep the queue.  A reset that fails is
\* passed over.
ResetIndex(d) ==
    /\ DrainAt(d, "reset")
    /\ \/ index' = head /\ UNCHANGED <<faults, leftover>>
       \/ Fault /\ leftover' = TRUE /\ UNCHANGED index
    /\ Proceeds(d, "exit")
    /\ UNCHANGED <<inputs, spool, head, syncLock, due, together, gitFailed, stray, scans>>

\* The receipt of the push, written before the commit: a refusal ends the run
\* with the queue as it was, and with what was staged.
Receipt(d) ==
    /\ DrainAt(d, "receipt")
    /\ \/ /\ Proceeds(d, "commit")
          /\ UNCHANGED <<faults, leftover>>
       \/ /\ Fault
          /\ leftover' = TRUE
          /\ Proceeds(d, "exit")
    /\ UNCHANGED <<inputs, spool, git, syncLock, due, together, gitFailed, stray, scans>>

\* git commit takes the whole index.  When it does not succeed, for whatever
\* reason, the records are finalized as for "nothing to commit".  After a
\* commit every outcome of the push ends in finalize_queue as well.
Commit(d) ==
    /\ DrainAt(d, "commit")
    /\ \/ /\ StagedDiff # {}
          /\ head' = index
          /\ stray' = (stray \/ ~(StagedDiff \subseteq drain[d].staged))
          /\ unscanned' = IF blind THEN unscanned \cup StagedDiff ELSE unscanned \ StagedDiff
          /\ UNCHANGED <<faults, gitFailed, leftover>>
       \/ /\ StagedDiff = {}
          /\ UNCHANGED <<head, stray, unscanned, faults, gitFailed, leftover>>
       \/ /\ StagedDiff # {} /\ Fault
          /\ gitFailed' = TRUE /\ leftover' = TRUE
          /\ UNCHANGED <<head, stray, unscanned>>
    /\ Proceeds(d, "finalize")
    /\ UNCHANGED <<inputs, spool, index, syncLock, due, together, blind>>

\* finalize_queue: of the records in the manifest, those whose path was staged
\* or dropped; none when a file of the run is gone.  Slip: every record of
\* such a path that is in the spool by now.
Consumed_paths(d) ==
    {r \in spool : drain[d].files /\ r.path \in drain[d].staged \cup drain[d].dropped}
Consumed(d) ==
    {r \in drain[d].snapshot : drain[d].files /\ r.path \in drain[d].staged \cup drain[d].dropped}

Finalize(d) ==
    /\ DrainAt(d, "finalize")
    /\ spool' = spool \ Consumed(d)
    /\ due' = due \ drain[d].dropped
    /\ Proceeds(d, "exit")
    /\ UNCHANGED <<inputs, git, syncLock, faults, together, gitFailed, leftover, stray, scans>>

-----------------------------------------------------------------------------
(* Kills and signals.                                                      *)

KillDrain(d) ==
    /\ drain[d].pc \in DrainRunning \cup {"mkdir", "inspect", "clear", "retry"}
    /\ Fault
    /\ drain' = [drain EXCEPT ![d] = [Out EXCEPT !.pc = "dead"]]
    /\ leftover' = (leftover \/ drain[d].pc \in {"scan", "reset", "receipt", "commit"})
    /\ UNCHANGED <<inputs, spool, git, syncLock, due, together, gitFailed, stray, scans>>

\* TERM or INT once the trap is set: it removes the temporary files and the
\* lock, and the script goes on.
Interrupt(d) ==
    /\ drain[d].pc \in DrainRunning \ {"pid"}
    /\ Fault
    /\ drain' = [drain EXCEPT ![d].files = FALSE]
    /\ syncLock' = NoLock
    /\ together' = TRUE
    /\ UNCHANGED <<inputs, spool, git, due, gitFailed, leftover, stray, scans>>

-----------------------------------------------------------------------------
(* The writers and the user.                                               *)

\* A script writes a file and enqueues it; with the sync off or the path on
\* the skip list gstack-brain-enqueue does nothing.
WriteFile(p, c) ==
    /\ enqueued < MaxRecord
    /\ c # content[p]
    /\ content' = [content EXCEPT ![p] = c]
    /\ IF syncMode # "off" /\ p \notin skip
       THEN /\ enqueued' = enqueued + 1
            /\ spool' = spool \cup {[id |-> enqueued + 1, path |-> p]}
            /\ due' = due \cup {p}
       ELSE /\ due' = due \ {p}
            /\ UNCHANGED <<enqueued, spool>>
    /\ UNCHANGED <<settings, git, syncLock, drain, faults, together, gitFailed,
                   leftover, stray, scans>>

Change == changes < MaxChange /\ changes' = changes + 1

SetMode(m) ==
    /\ m # syncMode /\ Change
    /\ syncMode' = m
    /\ UNCHANGED <<skip, content, enqueued, spool, git, syncLock, drain, faults, history>>

SkipFile(p) ==
    /\ p \notin skip /\ Change
    /\ skip' = skip \cup {p}
    /\ UNCHANGED <<syncMode, content, enqueued, spool, git, syncLock, drain, faults, history>>

DropQueue ==
    /\ spool # {} /\ Change
    /\ spool' = {} /\ due' = {}
    /\ UNCHANGED <<syncMode, skip, content, enqueued, git, syncLock, drain, faults,
                   together, gitFailed, leftover, stray, scans>>

Drain(d) ==
    \/ BeginDrain(d) \/ MkdirLock(d) \/ Inspect(d) \/ Clear(d) \/ WritePid(d) \/ ExitDrain(d)
    \/ Classify(d) \/ ClassifyFails(d) \/ Add(d) \/ Scan(d) \/ ResetIndex(d) \/ Receipt(d)
    \/ Commit(d) \/ Finalize(d)

\* Nothing is asked of runs that overlap, and nothing follows here.
BrainNext ==
    /\ ~together
    /\ \/ \E d \in Drainer : Drain(d) \/ KillDrain(d) \/ Interrupt(d)
       \/ \E p \in Path : SkipFile(p) \/ \E c \in Content : WriteFile(p, c)
       \/ \E m \in Mode : SetMode(m)
       \/ DropQueue

BrainSpec == BrainInit /\ [][BrainNext]_brainVars

-----------------------------------------------------------------------------
BrainTypeOK ==
    /\ syncMode \in Mode /\ skip \subseteq Path
    /\ content \in [Path -> Content]
    /\ spool \subseteq Record /\ enqueued \in 0..MaxRecord
    /\ index \in [Path -> Content] /\ head \in [Path -> Content]
    /\ syncLock \in [by : Drainer \cup {Unlocked}, pid : Drainer \cup {Unlocked}]
    /\ drain \in [Drainer ->
           [pc : DrainRunning \cup {"out", "mkdir", "inspect", "clear", "retry", "dead"},
            mode : Mode, snapshot : SUBSET Record, staged : SUBSET Path,
            dropped : SUBSET Path, files : BOOLEAN]]
    /\ changes \in 0..MaxChange /\ faults \in 0..MaxFault /\ due \subseteq Path
    /\ {together, gitFailed, leftover, stray, blind} \subseteq BOOLEAN
    /\ unscanned \subseteq Path

(* A change that was enqueued is committed or still queued, whatever is     *)
(* written while a drain is between its snapshot and its deletions, and     *)
(* wherever it is killed.  The exceptions are the code's: a git add or      *)
(* commit that fails is taken for nothing to commit                         *)
(* (gstack-brain-sync:688, 716), and an interrupted run goes on unlocked.   *)
NoChangeIsForgotten ==
    ~together /\ ~gitFailed =>
        \A p \in due : head[p] # content[p] => p \in QueuedPaths(spool)

(* What a drain has committed holds no secret, although a commit takes       *)
(* whatever an earlier run left staged (gstack-brain-sync:683-694): unless  *)
(* the scan before that commit failed, which the code takes for a clean     *)
(* one (|| true, 685).                                                      *)
SecretsStayHome ==
    ~together => \A p \in Path : head[p] \in Secret => p \in unscanned

(* A commit holds what its run classified for staging and nothing else, so  *)
(* the skip list and the privacy mode hold: unless an earlier run was ended *)
(* between its add and its commit, by a kill or by a refused receipt.       *)
OnlyClassifiedIsCommitted == ~together /\ ~leftover => ~stray
=============================================================================
