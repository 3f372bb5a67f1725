---------------------------- MODULE MemoryIngest ----------------------------
(***************************************************************************)
(* One ingest pass (bin/gstack-memory-ingest.ts): the changed sources are  *)
(* prepared and staged, `gbrain import` runs over the staging directory,   *)
(* and what landed is recorded so that no later pass sends it again; the   *)
(* checkpoint and the staging directory an interrupted import leaves for   *)
(* the next pass, and the guard on whatever that checkpoint names.         *)
(*                                                                         *)
(* A source is known by the version of its content; a page of it carries   *)
(* the version that was rendered.  gbrain is external: it may fail on a    *)
(* page, crash, answer without its JSON, or find nothing to collect.       *)
(***************************************************************************)
EXTENDS Integers, FiniteSets

CONSTANTS
    Proc,         \* ingest processes
    File,         \* transcripts and artifacts
    MaxVersion,   \* bounds the edits of a source
    MaxEdit,      \* bounds the edits of all sources
    MaxDir,       \* bounds the staging directories there are at once
    MaxTrouble,   \* bounds what goes wrong around the passes
    Mode          \* "incremental", "bulk"; "no-write" is either with --no-write

ASSUME IngestAssumption ==
    /\ {MaxVersion, MaxEdit, MaxDir, MaxTrouble} \subseteq Nat
    /\ File # {} /\ IsFiniteSet(File)

Repo == 0         \* a directory that is not a staging directory
None == -1        \* no directory
Dir == Repo..MaxDir
Version == 0..MaxVersion

VARIABLES
    src,         \* the version of each source; 0: there is none
    denied,      \* the sources whose remote the policy denies
    brain,       \* the version of the page gbrain has
    outbox,      \* the version persisted for the artifacts repository
    state,       \* STATE_PATH: the version recorded as ingested
    dirs,        \* what each directory holds: a page version per source
    checkpoint,  \* ~/.gbrain/import-checkpoint.json
    trouble,     \* how much has gone wrong
    pc,          \* where each pass stands
    loaded,      \* the state it loaded
    prepared,    \* prep.prepared: the sources it prepared
    dir,         \* its staging directory
    failed,      \* the failures logged since its import began
    child,       \* its `gbrain import`
    result,      \* how that import ended
    loose,       \* history: sources recorded last without having been staged so
    lateDenied,  \* history: sources denied when a page of theirs was staged
    mingled      \* history: a pass began beside another or its import

passVars == <<pc, loaded, prepared, dir, failed, child, result>>
histories == <<loose, lateDenied, mingled>>
ingestVars ==
    <<src, denied, brain, outbox, state, dirs, checkpoint, trouble, passVars, histories>>

Nothing == [f \in File |-> 0]
Absent == [f \in File |-> -1]
Idle == [st |-> "none", todo |-> {}, done |-> {}, landed |-> 0]
NoResult == [how |-> "none", landed |-> 0]
NoCheckpoint == [dir |-> None, done |-> {}]

IngestInit ==
    /\ src \in [File -> 0..1] /\ denied = {}
    /\ brain = Nothing /\ outbox = Nothing /\ state = Nothing
    /\ dirs = [d \in Dir |-> IF d = Repo THEN Nothing ELSE Absent]
    /\ checkpoint = NoCheckpoint /\ trouble = 0
    /\ pc = [p \in Proc |-> "off"]
    /\ loaded = [p \in Proc |-> Nothing] /\ prepared = [p \in Proc |-> {}]
    /\ dir = [p \in Proc |-> None] /\ failed = [p \in Proc |-> {}]
    /\ child = [p \in Proc |-> Idle] /\ result = [p \in Proc |-> NoResult]
    /\ loose = {} /\ lateDenied = {} /\ mingled = FALSE

Trouble == trouble < MaxTrouble /\ trouble' = trouble + 1

\* checkOwnedStagingDir.  Slip: that the directory exists.
checkOwnedStagingDir_exists(d) == d \in Dir /\ dirs[d] # Absent
checkOwnedStagingDir(d) == d \in Dir \ {Repo} /\ dirs[d] # Absent

\* decideResume: the directory to resume in, or None.
decideResume == IF checkOwnedStagingDir(checkpoint.dir) THEN checkpoint.dir ELSE None

-----------------------------------------------------------------------------
(* The surroundings.                                                       *)

Busy(p) == pc[p] # "off" \/ child[p] # Idle

\* A page of f is in the directory of a pass, an import or the checkpoint.
Staged(f) ==
    \E d \in Dir \ {Repo} :
        /\ dirs[d] # Absent /\ dirs[d][f] # 0
        /\ checkpoint.dir = d \/ \E p \in Proc : Busy(p) /\ dir[p] = d

Edits == Cardinality({e \in File \X Version : e[2] < src[e[1]]})

Edit(f) ==
    /\ src[f] < MaxVersion /\ Edits < MaxEdit
    /\ src' = [src EXCEPT ![f] = @ + 1]
    /\ UNCHANGED <<denied, brain, outbox, state, dirs, checkpoint, trouble, passVars, histories>>

PolicyChanges(f) ==
    /\ Trouble
    /\ denied' = IF f \in denied THEN denied \ {f} ELSE denied \cup {f}
    /\ lateDenied' = IF f \notin denied /\ Staged(f) THEN lateDenied \cup {f} ELSE lateDenied \ {f}
    /\ UNCHANGED <<src, brain, outbox, state, dirs, checkpoint, passVars, loose, mingled>>

\* Another import, of the repository itself, was interrupted (#1802).
Poisoned ==
    /\ Trouble
    /\ checkpoint' = [dir |-> Repo, done |-> {}]
    /\ UNCHANGED <<src, denied, brain, outbox, state, dirs, passVars, histories>>

-----------------------------------------------------------------------------
(* A pass up to its import.                                                *)

\* The modification time differs and so does the hash.  Slip: no entry yet.
fileChangedSinceState_new(f, s) == s[f] = 0
fileChangedSinceState(f, s) == src[f] # s[f]

\* preparePages: the whole corpus in bulk mode, else what changed.  Slip: the
\* policy filter is left out.
preparePages_unfiltered(mode, s) ==
    {f \in File : src[f] # 0 /\ (mode = "bulk" \/ fileChangedSinceState(f, s))}
preparePages(mode, s) ==
    {f \in File : src[f] # 0 /\ f \notin denied /\ (mode = "bulk" \/ fileChangedSinceState(f, s))}

\* The sources of P get the version they have now.
Stamped(s, P) == [f \in File |-> IF f \in P THEN src[f] ELSE s[f]]

Ready(p) == ~Busy(p)
Mingles(p) == mingled' = (mingled \/ \E q \in Proc \ {p} : Busy(q))

\* Nothing to import, or the policy store or gbrain cannot be reached: the
\* snapshot that was loaded is saved only in the first case.
NothingPrepared(p, mode) ==
    /\ Ready(p) /\ preparePages(mode, state) = {}
    /\ UNCHANGED ingestVars
Unavailable(p) ==
    /\ Ready(p) /\ Trouble
    /\ UNCHANGED <<src, denied, brain, outbox, state, dirs, checkpoint, passVars, histories>>

\* --no-write: what was prepared is recorded, and goes nowhere.
NoWrite(p, mode) ==
    /\ Ready(p) /\ mode = "no-write" /\ Trouble
    /\ \E m \in {"incremental", "bulk"} :
          LET P == preparePages(m, state)
          IN  P # {} /\ state' = Stamped(state, P) /\ loose' = loose \cup P
    /\ Mingles(p)
    /\ UNCHANGED <<src, denied, brain, outbox, dirs, checkpoint, passVars, lateDenied>>

\* remote-http: the pages go to a directory that stays, for the artifacts push.
Persist(p, mode) ==
    /\ Ready(p) /\ mode # "no-write"
    /\ LET P == preparePages(mode, state)
       IN  /\ P # {}
           /\ outbox' = Stamped(outbox, P)
           /\ state' = Stamped(state, P)
           /\ loose' = loose \ P
    /\ Mingles(p)
    /\ UNCHANGED <<src, denied, brain, dirs, checkpoint, trouble, passVars, lateDenied>>

\* The name has the pid and the time in it: no earlier one is in its way.
Unused(d) == dirs[d] = Absent /\ checkpoint.dir # d /\ \A p \in Proc : dir[p] # d

\* A directory of a new name, which some page may fail to be written to, or
\* the one of an interrupted import as it is.
Stage(p, mode, resume) ==
    /\ Ready(p) /\ mode # "no-write" /\ Mingles(p)
    /\ LET P == preparePages(mode, state)
       IN  /\ P # {}
           /\ prepared' = [prepared EXCEPT ![p] = P]
           /\ IF resume # None /\ checkOwnedStagingDir(resume)
              THEN dir' = [dir EXCEPT ![p] = resume] /\ UNCHANGED <<dirs, trouble>>
              ELSE \E d \in 1..MaxDir, lost \in {{}} \cup {{f} : f \in P} :
                      /\ Unused(d) /\ \A e \in 1..(d - 1) : ~Unused(e)
                      /\ IF lost = {} THEN UNCHANGED trouble ELSE Trouble
                      /\ dir' = [dir EXCEPT ![p] = d]
                      /\ dirs' = [dirs EXCEPT ![d] = [f \in File |-> IF f \in P \ lost THEN src[f] ELSE 0]]
    /\ loaded' = [loaded EXCEPT ![p] = state]
    /\ pc' = [pc EXCEPT ![p] = "staged"]
    /\ UNCHANGED <<src, denied, brain, outbox, state, checkpoint, failed, child, result,
                   loose, lateDenied>>

\* The failure log is measured, the receipt written, the import spawned: it
\* collects the pages beyond the checkpoint, or none (.gitignore).
Spawn(p) ==
    /\ pc[p] = "staged"
    /\ failed' = [failed EXCEPT ![p] = {}]
    /\ LET pages == IF dirs[dir[p]] = Absent THEN {} ELSE {f \in File : dirs[dir[p]][f] # 0}
           done == IF checkpoint.dir = dir[p] THEN checkpoint.done ELSE {}
       IN  \/ /\ child' = [child EXCEPT ![p] = [st |-> "running", todo |-> pages \ done, done |-> done, landed |-> 0]]
              /\ UNCHANGED trouble
           \/ /\ Trouble
              /\ child' = [child EXCEPT ![p] = [st |-> "running", todo |-> {}, done |-> done, landed |-> 0]]
    /\ pc' = [pc EXCEPT ![p] = "importing"]
    /\ result' = [result EXCEPT ![p] = NoResult]
    /\ UNCHANGED <<src, denied, brain, outbox, state, dirs, checkpoint, loaded, prepared, dir, histories>>

-----------------------------------------------------------------------------
(* gbrain import, which outlives a pass that is killed.                    *)

Page(p, f) == child[p] # Idle /\ f \in child[p].todo

PageLands(p, f) ==
    /\ Page(p, f) /\ dirs[dir[p]] # Absent
    /\ brain' = [brain EXCEPT ![f] = dirs[dir[p]][f]]
    /\ child' = [child EXCEPT ![p].todo = @ \ {f}, ![p].done = @ \cup {f}, ![p].landed = @ + 1]
    /\ UNCHANGED <<src, denied, outbox, state, dirs, checkpoint, trouble, pc, loaded, prepared, dir, failed, result, histories>>

\* The failure is appended to sync-failures.jsonl, past every mark made so far.
PageFails(p, f) ==
    /\ Page(p, f)
    /\ IF dirs[dir[p]] = Absent THEN UNCHANGED trouble ELSE Trouble
    /\ child' = [child EXCEPT ![p].todo = @ \ {f}, ![p].done = @ \cup {f}]
    /\ failed' = [q \in Proc |-> IF pc[q] = "importing" THEN failed[q] \cup {f} ELSE failed[q]]
    /\ UNCHANGED <<src, denied, brain, outbox, state, dirs, checkpoint, pc, loaded, prepared, dir, result, histories>>

WritesCheckpoint(p) ==
    /\ child[p] # Idle
    /\ checkpoint' = [dir |-> dir[p], done |-> child[p].done]
    /\ checkpoint' # checkpoint
    /\ UNCHANGED <<src, denied, brain, outbox, state, dirs, trouble, passVars, histories>>

\* The pass, if it still waits, sees how its child ended.
Ended(p, how) ==
    /\ child' = [child EXCEPT ![p] = Idle]
    /\ IF pc[p] = "importing"
       THEN /\ result' = [result EXCEPT ![p] = [how |-> how, landed |-> child[p].landed]]
            /\ pc' = [pc EXCEPT ![p] = "ended"]
            /\ UNCHANGED dir
       ELSE dir' = [dir EXCEPT ![p] = None] /\ UNCHANGED <<result, pc>>
    /\ UNCHANGED <<src, denied, brain, outbox, state, dirs, loaded, prepared, failed, histories>>

Succeeds(p) ==
    /\ child[p] # Idle /\ child[p].st = "running" /\ child[p].todo = {}
    /\ Ended(p, "ok")
    /\ checkpoint' = IF checkpoint.dir = dir[p] THEN NoCheckpoint ELSE checkpoint
    /\ UNCHANGED trouble

\* It crashes, or exits 0 without a line of JSON that can be parsed.
Crashes(p) ==
    /\ child[p] # Idle /\ child[p].st = "running" /\ Trouble
    /\ Ended(p, "error")
    /\ UNCHANGED checkpoint

Timeout(p) ==
    /\ pc[p] = "importing" /\ child[p].st = "running" /\ Trouble
    /\ child' = [child EXCEPT ![p].st = "dying"]
    /\ UNCHANGED <<src, denied, brain, outbox, state, dirs, checkpoint, pc, loaded, prepared, dir, failed, result, histories>>

Dies(p) ==
    /\ child[p] # Idle /\ child[p].st = "dying"
    /\ Ended(p, "timeout")
    /\ UNCHANGED <<checkpoint, trouble>>

-----------------------------------------------------------------------------
(* The end of a pass.                                                      *)

\* cleanupStagingDir: what cannot be proved to be a staging directory stays.
Cleaned(d) == IF checkOwnedStagingDir(d) THEN [dirs EXCEPT ![d] = Absent] ELSE dirs

\* stagingDirIsCheckpointed.
Checkpointed(d) == checkpoint.dir = d

\* readNewFailures, of the pages this pass prepared.
FailedSources(p) == failed[p] \cap prepared[p]

\* Slip: only the exit code is looked at.
Accounted_always(p) == TRUE
Accounted(p) == result[p].landed >= Cardinality(prepared[p]) - Cardinality(FailedSources(p))

\* The memory of the pass is gone; its child, if any, still has its directory.
Over(p) ==
    /\ pc' = [pc EXCEPT ![p] = "off"]
    /\ loaded' = [loaded EXCEPT ![p] = Nothing]
    /\ prepared' = [prepared EXCEPT ![p] = {}]
    /\ failed' = [failed EXCEPT ![p] = {}]
    /\ result' = [result EXCEPT ![p] = NoResult]
    /\ dir' = [dir EXCEPT ![p] = IF child[p] = Idle THEN None ELSE @]
    /\ UNCHANGED <<src, denied, brain, outbox, checkpoint, lateDenied, mingled>>

\* Of what p has prepared: what its directory has in another version, and all of
\* it if pages of other sources are there, or if the directory has gone.
Loose(p) ==
    LET pages == dirs[dir[p]] IN
    {f \in prepared[p] : \/ pages = Absent \/ pages[f] \notin {0, src[f]}
                         \/ \E g \in File \ prepared[p] : pages[g] # 0}

Recorded(p) ==
    /\ pc[p] = "ended" /\ result[p].how = "ok" /\ Accounted(p)
    /\ LET P == prepared[p] \ FailedSources(p)
       IN  state' = Stamped(loaded[p], P) /\ loose' = (loose \ P) \cup (Loose(p) \cap P)
    /\ dirs' = Cleaned(dir[p])
    /\ Over(p) /\ UNCHANGED <<trouble, child>>

\* Every other ending, and a receipt that cannot be written, records nothing; a
\* timeout preserves the directory the checkpoint names.
Kept(p) == result[p].how = "timeout" /\ Checkpointed(dir[p])
Refused(p) ==
    /\ \/ pc[p] = "ended" /\ ~(result[p].how = "ok" /\ Accounted(p)) /\ UNCHANGED trouble
       \/ pc[p] = "staged" /\ Trouble
    /\ dirs' = IF Kept(p) THEN dirs ELSE Cleaned(dir[p])
    /\ Over(p) /\ UNCHANGED <<state, child, loose>>

\* SIGTERM or SIGINT.  The forwarder is installed with the import: before it,
\* the default action leaves the directory behind.
Signalled(p) ==
    /\ pc[p] \in {"staged", "importing"} /\ Trouble /\ Over(p)
    /\ IF pc[p] = "importing"
       THEN /\ child' = [child EXCEPT ![p].st = "dying"]
            /\ dirs' = IF Checkpointed(dir[p]) THEN dirs ELSE Cleaned(dir[p])
       ELSE UNCHANGED <<child, dirs>>
    /\ UNCHANGED <<state, loose>>

\* SIGKILL or a power cut of the pass alone.
Killed(p) ==
    /\ pc[p] # "off" /\ Trouble /\ Over(p)
    /\ UNCHANGED <<state, dirs, child, loose>>

PassStep(p) ==
    Spawn(p) \/ Timeout(p) \/ Recorded(p) \/ Refused(p) \/ Signalled(p) \/ Killed(p)
ImportStep(p) ==
    \/ WritesCheckpoint(p) \/ Succeeds(p) \/ Crashes(p) \/ Dies(p)
    \/ \E f \in File : PageLands(p, f) \/ PageFails(p, f)

Ingest(p, mode) ==
    \/ NothingPrepared(p, mode) \/ Unavailable(p) \/ NoWrite(p, mode) \/ Persist(p, mode)
    \/ Stage(p, mode, decideResume)

Around == Poisoned \/ \E f \in File : Edit(f) \/ PolicyChanges(f)

IngestNext ==
    \/ Around
    \/ \E p \in Proc : \/ \E mode \in Mode : Ingest(p, mode)
                       \/ PassStep(p) \/ ImportStep(p)

IngestSpec == IngestInit /\ [][IngestNext]_ingestVars

(* Passes are started again and again; a pass and its import go on.  What   *)
(* can go wrong is bounded, so it goes wrong no more in the end.           *)
Progress(p) ==
    \/ Stage(p, "incremental", decideResume)
    \/ Spawn(p) \/ Succeeds(p) \/ Dies(p) \/ Recorded(p) \/ Refused(p)
    \/ \E f \in File : \/ PageLands(p, f)
                       \/ PageFails(p, f) /\ trouble' = trouble

IngestFairSpec == IngestSpec /\ \A p \in Proc : WF_ingestVars(Progress(p))

-----------------------------------------------------------------------------
IngestTypeOK ==
    /\ {src, brain, outbox, state} \subseteq [File -> Version]
    /\ denied \subseteq File
    /\ dirs \in [Dir -> [File -> Version] \cup {Absent}]
    /\ checkpoint \in [dir : Dir \cup {None}, done : SUBSET File]
    /\ trouble \in 0..MaxTrouble
    /\ pc \in [Proc -> {"off", "staged", "importing", "ended"}]
    /\ loaded \in [Proc -> [File -> Version]]
    /\ prepared \in [Proc -> SUBSET File] /\ failed \in [Proc -> SUBSET File]
    /\ dir \in [Proc -> Dir \cup {None}]
    /\ child \in [Proc -> [st : {"none", "running", "dying"}, todo : SUBSET File,
                           done : SUBSET File, landed : 0..Cardinality(File)]]
    /\ \A p \in Proc : pc[p] = "importing" => child[p] # Idle
    /\ result \in [Proc -> [how : {"none", "ok", "error", "timeout"}, landed : 0..Cardinality(File)]]
    /\ loose \subseteq File /\ lateDenied \subseteq File /\ mingled \in BOOLEAN

(* What is recorded as ingested is in the brain, or in the directory that   *)
(* the artifacts push takes, in that version or a later one: whatever       *)
(* failed, was ignored, crashed, was resumed, edited or denied in between.  *)
(* Not so for a source last recorded by --no-write                          *)
(* (gstack-memory-ingest.ts:1944-1978), or that was edited after it was     *)
(* staged (its hash is taken after the import, 2353-2358), or counted by a  *)
(* page of another source: a resumed directory may hold pages the pass did  *)
(* not prepare, of a pass in bulk or of a remote denied since (2333-2336,   *)
(* gstack-gbrain-sync.ts:1255-1258); nor once passes ran side by side.      *)
RecordedIsIngested ==
    ~mingled => \A f \in File \ loose : state[f] <= brain[f] \/ state[f] <= outbox[f]

(* "Only files that landed in gbrain get their mtime+sha256 stamped"        *)
(* (gstack-memory-ingest.ts:2348-2349).                                     *)
OnlyLandedIsStamped == \A f \in File : state[f] <= brain[f] \/ state[f] <= outbox[f]

(* A directory that no pass made is neither imported from nor removed,      *)
(* whatever the checkpoint names (#1802).                                  *)
RepoSpared == dirs[Repo] # Absent /\ \A p \in Proc : dir[p] # Repo

(* No page of a remote whose policy denies it reaches the brain (#2392),    *)
(* unless the policy came to deny it when the page was staged: the import   *)
(* under way goes on, and a pass that resumes the directory of an           *)
(* interrupted one takes it as it is (gstack-memory-ingest.ts:2064-2082).   *)
PolicyHonoured ==
    [][\A f \in File : brain'[f] # brain[f] => f \notin denied \/ f \in lateDenied]_ingestVars

(* Every source is ingested in the end, or denied: neither a checkpoint of   *)
(* another directory, nor a resumed directory that lacks pages, nor what is *)
(* left of a killed pass holds the passes up for good.                     *)
EveryoneIngested == \A f \in File : (src[f] # 0) ~> (state[f] = src[f] \/ f \in denied)
=============================================================================
