----------------------------- MODULE GbrainSync -----------------------------
(***************************************************************************)
(* /sync-gbrain (bin/gstack-gbrain-sync.ts): under one machine-wide lock   *)
(* the code of the repository is imported, which may replace a source of   *)
(* the old naming, then the memory stage runs a pass of MemoryIngest; the  *)
(* lock is released and the dream cycle runs under a marker of its own.    *)
(* The lock and the marker are files that anybody may take over by age.    *)
(*                                                                         *)
(* Invocations are processes: each call to the file system is a step.      *)
(***************************************************************************)
EXTENDS MemoryIngest

CONSTANTS
    Dreams,     \* whether invocations may ask for a dream cycle
    Ages,       \* whether a lock or marker may reach its age limit while held
    MaxUpset    \* bounds the kills and the changes of autopilot

ASSUME SyncAssumption == {Dreams, Ages} \subseteq BOOLEAN /\ MaxUpset \in Nat

Nobody == 0
ASSUME NobodyAssumption == Nobody \notin Proc

VARIABLES
    file,      \* the lock and the marker: who wrote it
    aged,      \* and whether its age is beyond the limit
    stage,     \* what each invocation does next
    pages,     \* of the sources of the repository in gbrain
    autopilot, \* detectAutopilot
    migration, \* what each invocation planned for the source of the old name
    upset,     \* how many kills and changes of autopilot there were
    broken     \* history: a file was removed from under a live holder

syncOnly == <<file, aged, stage, pages, autopilot, migration, upset, broken>>
vars == <<ingestVars, syncOnly>>

Kind == {"lock", "marker"}
Source == {"slug", "old", "new"}   \* v1 name, path-only hash, current id
Acquiring == {"exists", "stat", "unlink", "create"}
Locked == {"code", "register", "walk", "verify", "memory", "ingesting", "release"}
Dreaming == {"dreaming", "wake"}
Place == (Kind \X (Acquiring \cup {"drop"}))
         \cup ({"main"} \X (Locked \cup Dreaming \cup {"out", "dream", "dead"}))

At(p, s) == stage[p] = <<"main", s>>
In(p, S) == stage[p][1] = "main" /\ stage[p][2] \in S
Calls(p, k, s) == stage' = [stage EXCEPT ![p] = <<k, s>>]
Goes(p, s) == Calls(p, "main", s)
Holds(k, p) == In(p, IF k = "lock" THEN Locked ELSE Dreaming) \/ stage[p] = <<k, "drop">>
Code == <<pages, autopilot, migration, upset>>

Init ==
    /\ IngestInit
    /\ file = [k \in Kind |-> Nobody] /\ aged = [k \in Kind |-> FALSE]
    /\ stage = [p \in Proc |-> <<"main", "out">>]
    /\ pages \in [Source -> {"absent", "full"}] /\ pages["new"] = "absent"
    /\ autopilot = FALSE /\ upset = 0 /\ broken = [k \in Kind |-> FALSE]
    /\ migration = [p \in Proc |-> "none"]

-----------------------------------------------------------------------------
(* acquireLock and acquireDreamMarker are the same four calls.             *)

Exists(k, p) ==
    /\ stage[p] = <<k, "exists">>
    /\ Calls(p, k, IF file[k] = Nobody THEN "create" ELSE "stat")
    /\ UNCHANGED <<ingestVars, file, aged, Code, broken>>

\* Whoever is turned away: the invocation exits, or goes on without the dream.
Stat(k, p) ==
    /\ stage[p] = <<k, "stat">>
    /\ IF file[k] # Nobody /\ aged[k] THEN Calls(p, k, "unlink") ELSE Goes(p, "out")
    /\ UNCHANGED <<ingestVars, file, aged, Code, broken>>

Removed(k, p) ==
    /\ file' = [file EXCEPT ![k] = Nobody]
    /\ aged' = [aged EXCEPT ![k] = FALSE]
    /\ broken' = [broken EXCEPT ![k] = @ \/ (file[k] \in Proc \ {p} /\ Holds(k, file[k]))]

Unlink(k, p) ==
    /\ stage[p] = <<k, "unlink">>
    /\ IF file[k] = Nobody
       THEN Goes(p, "out") /\ UNCHANGED <<file, aged, broken>>
       ELSE Calls(p, k, "create") /\ Removed(k, p)
    /\ UNCHANGED <<ingestVars, Code>>

\* writeFileSync with flag wx.  Slip: without it.
Create_over(k, p) ==
    /\ stage[p] = <<k, "create">>
    /\ file' = [file EXCEPT ![k] = p] /\ aged' = [aged EXCEPT ![k] = FALSE]
    /\ Goes(p, IF k = "lock" THEN "code" ELSE "dreaming")
    /\ UNCHANGED <<ingestVars, Code, broken>>
Create(k, p) ==
    /\ stage[p] = <<k, "create">>
    /\ IF file[k] = Nobody
       THEN /\ file' = [file EXCEPT ![k] = p]
            /\ Goes(p, IF k = "lock" THEN "code" ELSE "dreaming")
       ELSE Goes(p, "out") /\ UNCHANGED file
    /\ UNCHANGED <<ingestVars, aged, Code, broken>>

\* releaseLock and releaseDreamMarker: only one's own file, by the pid in it.
Release(k, p) ==
    /\ At(p, IF k = "lock" THEN "release" ELSE "wake")
    /\ IF file[k] = p THEN Calls(p, k, "drop") ELSE Goes(p, IF k = "lock" THEN "dream" ELSE "out")
    /\ UNCHANGED <<ingestVars, file, aged, Code, broken>>
Drop(k, p) ==
    /\ stage[p] = <<k, "drop">>
    /\ Removed(k, p)
    /\ Goes(p, IF k = "lock" THEN "dream" ELSE "out")
    /\ UNCHANGED <<ingestVars, Code>>

\* The age limit passes: five minutes for the lock, 45 for the marker, and
\* nothing renews a file while its stages run.
Age(k) ==
    /\ file[k] # Nobody /\ ~aged[k]
    /\ Ages \/ ~Holds(k, file[k])
    /\ aged' = [aged EXCEPT ![k] = TRUE]
    /\ UNCHANGED <<ingestVars, file, stage, Code, broken>>

LockStep(k, p) ==
    Exists(k, p) \/ Stat(k, p) \/ Unlink(k, p) \/ Create(k, p) \/ Release(k, p) \/ Drop(k, p)

-----------------------------------------------------------------------------
(* runCodeImport.                                                          *)

Start(p) ==
    /\ At(p, "out") /\ pc[p] = "off" /\ child[p] = Idle
    /\ Calls(p, "lock", "exists")
    /\ UNCHANGED <<ingestVars, file, aged, Code, broken>>

\* The policy, the engine, a missing repository or --no-code: nothing is done.
SkipCode(p) ==
    /\ At(p, "code")
    /\ Goes(p, "memory")
    /\ UNCHANGED <<ingestVars, file, aged, Code, broken>>

\* safeSourcesRemove of the v1 name, then planHostnameFoldMigration.
Plan(p) ==
    /\ At(p, "code")
    /\ LET kept == IF autopilot THEN pages ELSE [pages EXCEPT !["slug"] = "absent"]
       IN  \/ /\ pages["old"] # "absent" /\ pages["new"] = "absent"
              /\ pages' = [kept EXCEPT !["new"] = pages["old"], !["old"] = "absent"]
              /\ migration' = [migration EXCEPT ![p] = "renamed"]
           \/ /\ pages' = kept
              /\ migration' = [migration EXCEPT ![p] = IF pages["old"] = "absent" THEN "none" ELSE "pending-cleanup"]
    /\ Goes(p, "register")
    /\ UNCHANGED <<ingestVars, file, aged, autopilot, upset, broken>>

CodeEnds(p) ==
    /\ Goes(p, "memory")
    /\ migration' = [migration EXCEPT ![p] = "none"]

\* ensureSourceRegistered; it may fail, which ends the stage.
Register(p) ==
    /\ At(p, "register")
    /\ \/ /\ pages' = [pages EXCEPT !["new"] = IF @ = "absent" THEN "empty" ELSE @]
          /\ Goes(p, "walk") /\ UNCHANGED migration
       \/ CodeEnds(p) /\ UNCHANGED pages
    /\ UNCHANGED <<ingestVars, file, aged, autopilot, upset, broken>>

\* A walk may exit 0 and create nothing; refused under autopilot, without a
\* receipt, or failed, the stage ends here.
Walk(p) ==
    /\ At(p, "walk")
    /\ \/ /\ ~autopilot
          /\ \/ pages' = [pages EXCEPT !["new"] = IF @ = "empty" THEN "full" ELSE @]
             \/ UNCHANGED pages
          /\ Goes(p, "verify") /\ UNCHANGED migration
       \/ CodeEnds(p) /\ UNCHANGED pages
    /\ UNCHANGED <<ingestVars, file, aged, autopilot, upset, broken>>

\* Attached or not, the pages are counted and the source of the old name goes.
\* Slip: the count is not looked at.
Cleanup_blind(p) == migration[p] = "pending-cleanup"
Cleanup(p) == migration[p] = "pending-cleanup" /\ pages["new"] = "full"
Verify(p) ==
    /\ At(p, "verify")
    /\ pages' = [pages EXCEPT !["old"] = IF Cleanup(p) /\ ~autopilot THEN "absent" ELSE @]
    /\ CodeEnds(p)
    /\ UNCHANGED <<ingestVars, file, aged, autopilot, upset, broken>>

-----------------------------------------------------------------------------
(* runMemoryIngest, and what follows it.                                   *)

SkipMemory(p) ==
    /\ At(p, "memory")
    /\ Goes(p, "release")
    /\ UNCHANGED <<ingestVars, file, aged, Code, broken>>

BeginMemory(p) ==
    /\ At(p, "memory")
    /\ \E mode \in Mode : Ingest(p, mode)
    /\ Goes(p, "ingesting")
    /\ UNCHANGED <<file, aged, Code, broken>>

\* spawnSync returns; then the artifacts push and saveSyncState.  Slip: the
\* pass is not waited for.
MemoryEnds_early(p) ==
    /\ At(p, "ingesting")
    /\ Goes(p, "release")
    /\ UNCHANGED <<ingestVars, file, aged, Code, broken>>
MemoryEnds(p) ==
    /\ At(p, "ingesting") /\ pc[p] = "off"
    /\ Goes(p, "release")
    /\ UNCHANGED <<ingestVars, file, aged, Code, broken>>

\* shouldRunDream.
Dream(p) ==
    /\ At(p, "dream")
    /\ Goes(p, "out") \/ (Dreams /\ Calls(p, "marker", "exists"))
    /\ UNCHANGED <<ingestVars, file, aged, Code, broken>>
DreamEnds(p) ==
    /\ At(p, "dreaming")
    /\ Goes(p, "wake")
    /\ UNCHANGED <<ingestVars, file, aged, Code, broken>>

\* The process is killed; the pass it spawned goes on by itself.  Signals are
\* not seen while spawnSync waits, and main waits for nothing else.
Upset == upset < MaxUpset /\ upset' = upset + 1
Die(p) ==
    /\ ~In(p, {"out", "dead"}) /\ Upset
    /\ Goes(p, "dead")
    /\ migration' = [migration EXCEPT ![p] = "none"]
    /\ UNCHANGED <<ingestVars, file, aged, pages, autopilot, broken>>

AutopilotChanges ==
    /\ Upset
    /\ autopilot' = ~autopilot
    /\ UNCHANGED <<ingestVars, file, aged, stage, pages, migration, broken>>

SyncStep(p) ==
    \/ Start(p) \/ \E k \in Kind : LockStep(k, p)
    \/ SkipCode(p) \/ Plan(p) \/ Register(p) \/ Walk(p) \/ Verify(p)
    \/ SkipMemory(p) \/ BeginMemory(p) \/ MemoryEnds(p) \/ Dream(p) \/ DreamEnds(p)

IngestStep == (Around \/ \E p \in Proc : PassStep(p) \/ ImportStep(p)) /\ UNCHANGED syncOnly

Next ==
    \/ \E p \in Proc : SyncStep(p) \/ Die(p)
    \/ \E k \in Kind : Age(k)
    \/ IngestStep \/ AutopilotChanges

Spec == Init /\ [][Next]_vars

-----------------------------------------------------------------------------
TypeOK ==
    /\ IngestTypeOK
    /\ file \in [Kind -> Proc \cup {Nobody}]
    /\ upset \in 0..MaxUpset
    /\ aged \in [Kind -> BOOLEAN] /\ broken \in [Kind -> BOOLEAN]
    /\ stage \in [Proc -> Place]
    /\ pages \in [Source -> {"absent", "empty", "full"}]
    /\ autopilot \in BOOLEAN
    /\ migration \in [Proc -> {"none", "renamed", "pending-cleanup"}]
    /\ \A p \in Proc : /\ In(p, {"out", "dead", "dream"}) => migration[p] = "none"
                       /\ pc[p] # "off" => In(p, {"ingesting", "dead"})

(* The lock and the marker implement a mutual exclusion that only the       *)
(* removal of a live holder's file breaks.                                 *)
Lock == INSTANCE Mutex WITH
            holders <- {p \in Proc : Holds("lock", p)}, broken <- broken["lock"]
Marker == INSTANCE Mutex WITH
            holders <- {p \in Proc : Holds("marker", p)}, broken <- broken["marker"]
LocksAreMutexes == Lock!Spec /\ Marker!Spec

(* The pages of the repository under the source of the old name are removed *)
(* only when there are pages under the new one: register, sync, verify,     *)
(* then delete.                                                             *)
NeverWithoutPages ==
    [][pages["old"] = "full" /\ pages'["old"] = "absent" => pages'["new"] = "full"]_vars

(* No two passes share a staging directory while the lock is whole, unless  *)
(* one of them was left behind by an invocation that was killed.           *)
OwnStaging ==
    \A p, q \in Proc :
        p # q /\ dir[p] # None /\ dir[p] = dir[q]
            => broken["lock"] \/ At(p, "dead") \/ At(q, "dead") \/ "off" \in {pc[p], pc[q]}
=============================================================================
