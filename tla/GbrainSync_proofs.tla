------------------------- MODULE GbrainSync_proofs -------------------------
(***************************************************************************)
(* The lock and the dream marker of /sync-gbrain, the sources it replaces  *)
(* and the passes it starts, for any number of invocations; and the passes *)
(* by themselves: the directories they remove, the policy they honour and  *)
(* what they record, for any sources, versions, directories and mishaps.   *)
(***************************************************************************)
EXTENDS GbrainSync, FiniteSetTheorems, TLAPS

LocksOK ==
    /\ file \in [Kind -> Proc \cup {Nobody}]
    /\ broken \in [Kind -> BOOLEAN]
    /\ stage \in [Proc -> Place]

\* While no live holder's file was removed, whoever holds the lock or the
\* marker is the one the file names.
HolderIsNamed == \A k \in Kind : ~broken[k] => \A p \in Proc : Holds(k, p) => file[k] = p

LInv == LocksOK /\ HolderIsNamed

Holders(k) == {p \in Proc : Holds(k, p)}

LEMMA InitLInv == Init => LInv
<1> SUFFICES ASSUME Init PROVE LInv
  OBVIOUS
<1>1. LocksOK
  BY DEF Init, LocksOK, Place
<1>2. HolderIsNamed
  BY DEF Init, HolderIsNamed, Holds, In, Locked, Dreaming, Kind
<1> QED
  BY <1>1, <1>2 DEF LInv

-----------------------------------------------------------------------------
(* What a step of an invocation means for the files: it leaves them, enters, *)
(* or removes one.                                                          *)

Others(p) == stage' \in [Proc -> Place] /\ \A q \in Proc \ {p} : stage'[q] = stage[q]
NotInto(p, K) == \A k \in K : Holds(k, p)' => Holds(k, p)

Passes(p) == UNCHANGED <<file, broken>> /\ Others(p) /\ NotInto(p, Kind)
Enters(k, p) ==
    /\ file[k] = Nobody /\ file' = [file EXCEPT ![k] = p] /\ UNCHANGED broken
    /\ ~Holds(k, p) /\ Holds(k, p)' /\ Others(p) /\ NotInto(p, Kind \ {k})
Removes(k, p) == Removed(k, p) /\ Others(p) /\ NotInto(p, Kind) /\ ~Holds(k, p)'

LEMMA Moved ==
    ASSUME LocksOK, NEW p \in Proc, NEW k, NEW s, <<k, s>> \in Place, Calls(p, k, s)
    PROVE  Others(p) /\ stage'[p] = <<k, s>>
BY DEF LocksOK, Calls, Others

\* Where an invocation that goes to a stage is afterwards.
LEMMA HoldsAfter ==
    ASSUME NEW p \in Proc, NEW k \in Kind, NEW a, NEW s, stage'[p] = <<a, s>>
    PROVE  Holds(k, p)' <=> \/ a = "main" /\ s \in (IF k = "lock" THEN Locked ELSE Dreaming)
                            \/ a = k /\ s = "drop"
BY DEF Holds, In

LEMMA HoldsBefore ==
    ASSUME NEW p \in Proc, NEW k \in Kind, NEW a, NEW s, stage[p] = <<a, s>>
    PROVE  Holds(k, p) <=> \/ a = "main" /\ s \in (IF k = "lock" THEN Locked ELSE Dreaming)
                           \/ a = k /\ s = "drop"
BY DEF Holds, In

\* To a place where nothing is held.
LEMMA MovesOut ==
    ASSUME LocksOK, NEW p \in Proc, NEW a, NEW s, <<a, s>> \in Place, Calls(p, a, s),
           s \notin Locked \cup Dreaming \cup {"drop"}
    PROVE  Others(p) /\ NotInto(p, Kind) /\ \A k \in Kind : ~Holds(k, p)'
BY Moved, HoldsAfter DEF NotInto

\* From one stage under a file to another under the same.
LEMMA MovesOn ==
    ASSUME LocksOK, NEW p \in Proc, NEW S \in {Locked, Dreaming},
           NEW from \in S, NEW to \in S, stage[p] = <<"main", from>>, Calls(p, "main", to)
    PROVE  Others(p) /\ NotInto(p, Kind)
<1>1. <<"main", to>> \in Place
  BY DEF Place
<1>2. Others(p) /\ stage'[p] = <<"main", to>>
  BY <1>1, Moved
<1>3. ASSUME NEW k \in Kind PROVE Holds(k, p)' => Holds(k, p)
  BY <1>2, HoldsAfter, HoldsBefore DEF Kind, Locked, Dreaming
<1> QED
  BY <1>2, <1>3 DEF NotInto

\* From the last stage under a file to the removal of it.
LEMMA MovesToDrop ==
    ASSUME LocksOK, NEW p \in Proc, NEW k \in Kind, Calls(p, k, "drop"),
           stage[p] = <<"main", IF k = "lock" THEN "release" ELSE "wake">>
    PROVE  Others(p) /\ NotInto(p, Kind)
<1>1. <<k, "drop">> \in Place
  BY DEF Place
<1>2. Others(p) /\ stage'[p] = <<k, "drop">>
  BY <1>1, Moved
<1>3. ASSUME NEW j \in Kind PROVE Holds(j, p)' => Holds(j, p)
  BY <1>2, HoldsAfter, HoldsBefore DEF Kind, Locked, Dreaming
<1> QED
  BY <1>2, <1>3 DEF NotInto

\* The calls of acquireLock, releaseLock and their likes.
LEMMA LockSteps ==
    ASSUME LocksOK, NEW p \in Proc, NEW k \in Kind, LockStep(k, p)
    PROVE  Passes(p) \/ Enters(k, p) \/ Removes(k, p)
<1>1. ASSUME NEW a, NEW s, Calls(p, a, s),
             \/ a = k /\ s \in {"stat", "unlink", "create"}
             \/ a = "main" /\ s \in {"out", "dream"}
      PROVE  Others(p) /\ NotInto(p, Kind) /\ ~Holds(k, p)'
  <2>1. <<a, s>> \in Place /\ s \notin Locked \cup Dreaming \cup {"drop"}
    BY <1>1 DEF Place, Kind, Acquiring, Locked, Dreaming
  <2> QED
    BY <1>1, <2>1, MovesOut
<1>2. CASE Exists(k, p)
  BY <1>1, <1>2 DEF Exists, Passes
<1>3. CASE Stat(k, p)
  BY <1>1, <1>3 DEF Stat, Goes, Passes
<1>4. CASE Unlink(k, p)
  BY <1>1, <1>4 DEF Unlink, Goes, Passes, Removes
<1>5. CASE Create(k, p)
  <2>1. stage[p] = <<k, "create">> /\ UNCHANGED broken
    BY <1>5 DEF Create
  <2>2. CASE file[k] = Nobody
    <3> DEFINE s == IF k = "lock" THEN "code" ELSE "dreaming"
    <3>1. Calls(p, "main", s) /\ file' = [file EXCEPT ![k] = p]
      BY <1>5, <2>2 DEF Create, Goes
    <3>2. <<"main", s>> \in Place
      BY DEF Place, Locked, Dreaming
    <3>3. Others(p) /\ stage'[p] = <<"main", s>>
      BY <3>1, <3>2, Moved
    <3>4. Holds(k, p)' /\ ~Holds(k, p)
      BY <2>1, <3>3, HoldsAfter, HoldsBefore DEF Kind, Locked, Dreaming
    <3>5. ASSUME NEW j \in Kind \ {k} PROVE ~Holds(j, p)'
      BY <3>3, HoldsAfter DEF Kind, Locked, Dreaming
    <3> QED
      BY <2>1, <2>2, <3>1, <3>3, <3>4, <3>5 DEF Enters, NotInto
  <2>3. CASE file[k] # Nobody
    BY <1>1, <1>5, <2>3 DEF Create, Goes, Passes
  <2> QED
    BY <2>2, <2>3
<1>6. CASE Release(k, p)
  BY <1>1, <1>6, MovesToDrop DEF Release, At, Goes, Passes
<1>7. CASE Drop(k, p)
  BY <1>1, <1>7 DEF Drop, Goes, Removes
<1> QED
  BY <1>2, <1>3, <1>4, <1>5, <1>6, <1>7 DEF LockStep

\* The stages, and the death of an invocation: none of them touches a file.
LEMMA StageSteps ==
    ASSUME LocksOK, NEW p \in Proc,
           \/ Start(p) \/ SkipCode(p) \/ Plan(p) \/ Register(p) \/ Walk(p) \/ Verify(p)
           \/ SkipMemory(p) \/ BeginMemory(p) \/ MemoryEnds(p) \/ Dream(p) \/ DreamEnds(p) \/ Die(p)
    PROVE  Passes(p)
<1>1. UNCHANGED <<file, broken>>
  BY DEF Start, SkipCode, Plan, Register, Walk, Verify, SkipMemory, BeginMemory, MemoryEnds, Dream, DreamEnds, Die
<1>2. CASE SkipCode(p) \/ Plan(p) \/ Register(p) \/ Walk(p) \/ Verify(p)
           \/ SkipMemory(p) \/ BeginMemory(p) \/ MemoryEnds(p)
  <2>1. /\ \E from \in Locked : stage[p] = <<"main", from>>
        /\ \E to \in Locked : Calls(p, "main", to)
    BY <1>2 DEF SkipCode, Plan, Register, Walk, Verify, CodeEnds, SkipMemory, BeginMemory, MemoryEnds, Locked, At, Goes
  <2> QED
    BY <2>1, <1>1, MovesOn DEF Passes
<1>3. CASE Start(p) \/ Dream(p) \/ Die(p)
  <2>1. \E a, s : /\ <<a, s>> \in Place /\ Calls(p, a, s)
                  /\ s \notin Locked \cup Dreaming \cup {"drop"}
    BY <1>3 DEF Start, Dream, Die, Goes, Place, Kind, Acquiring, Locked, Dreaming
  <2> QED
    BY <2>1, <1>1, MovesOut DEF Passes
<1>4. CASE DreamEnds(p)
  <2>1. stage[p] = <<"main", "dreaming">> /\ Calls(p, "main", "wake")
    BY <1>4 DEF DreamEnds, At, Goes
  <2>2. "dreaming" \in Dreaming /\ "wake" \in Dreaming
    BY DEF Dreaming
  <2> QED
    BY <2>1, <2>2, <1>1, MovesOn DEF Passes
<1> QED
  BY <1>2, <1>3, <1>4

-----------------------------------------------------------------------------
(* The invariant, and the refinement.                                      *)

\* Every step of the system is one of those, or leaves the files and stages.
LEMMA AnyStep ==
    ASSUME LocksOK, [Next]_vars
    PROVE  \/ UNCHANGED <<file, stage, broken>>
           \/ \E p \in Proc : Passes(p) \/ \E k \in Kind : Enters(k, p) \/ Removes(k, p)
<1>1. CASE UNCHANGED vars
  BY <1>1 DEF vars, syncOnly
<1>2. ASSUME NEW p \in Proc, SyncStep(p) \/ Die(p)
      PROVE  Passes(p) \/ \E k \in Kind : Enters(k, p) \/ Removes(k, p)
  BY <1>2, LockSteps, StageSteps DEF SyncStep
<1>3. ASSUME NEW k \in Kind, Age(k) PROVE UNCHANGED <<file, stage, broken>>
  BY <1>3 DEF Age
<1>4. CASE IngestStep \/ AutopilotChanges
  BY <1>4 DEF IngestStep, AutopilotChanges, syncOnly
<1> QED
  BY <1>1, <1>2, <1>3, <1>4 DEF Next

LEMMA OthersHold ==
    ASSUME NEW p \in Proc, Others(p), NEW q \in Proc \ {p}, NEW k
    PROVE  Holds(k, q)' = Holds(k, q)
BY DEF Others, Holds, In

\* A removal without a break leaves no other holder.
LEMMA RemovedNobody ==
    ASSUME LInv, NEW p \in Proc, NEW k \in Kind, Removed(k, p), ~broken'[k],
           NEW q \in Proc \ {p}
    PROVE  ~broken[k] /\ ~Holds(k, q)
BY NobodyAssumption DEF LInv, LocksOK, HolderIsNamed, Removed

LEMMA StepLInv == LInv /\ [Next]_vars => LInv'
<1> SUFFICES ASSUME LInv, [Next]_vars PROVE LInv'
  OBVIOUS
<1> USE NobodyAssumption DEF LInv
<1>1. CASE UNCHANGED <<file, stage, broken>>
  BY <1>1 DEF LocksOK, HolderIsNamed, Holds, In
<1>2. ASSUME NEW p \in Proc, Passes(p) PROVE LInv'
  <2>1. LocksOK'
    BY <1>2 DEF Passes, Others, LocksOK
  <2>2. HolderIsNamed'
    BY <1>2, OthersHold DEF Passes, NotInto, HolderIsNamed
  <2> QED
    BY <2>1, <2>2
<1>3. ASSUME NEW p \in Proc, NEW k \in Kind, Enters(k, p) PROVE LInv'
  <2>1. LocksOK'
    BY <1>3 DEF Enters, Others, LocksOK
  <2>2. ASSUME NEW j \in Kind, ~broken'[j], NEW q \in Proc, Holds(j, q)' PROVE file'[j] = q
    <3>1. CASE j = k
      \* The file was absent, so nobody else held it.
      BY <1>3, <2>2, <3>1, OthersHold DEF Enters, HolderIsNamed, LocksOK
    <3>2. CASE j # k
      BY <1>3, <2>2, <3>2, OthersHold DEF Enters, NotInto, HolderIsNamed, LocksOK
    <3> QED
      BY <3>1, <3>2
  <2> QED
    BY <2>1, <2>2 DEF HolderIsNamed
<1>4. ASSUME NEW p \in Proc, NEW k \in Kind, Removes(k, p) PROVE LInv'
  <2>1. LocksOK'
    <3>1. file' \in [Kind -> Proc \cup {Nobody}] /\ broken' \in [Kind -> BOOLEAN]
      BY <1>4 DEF Removes, Removed, LocksOK
    <3> QED
      BY <1>4, <3>1 DEF Removes, Others, LocksOK
  <2>2. ASSUME NEW j \in Kind, ~broken'[j], NEW q \in Proc, Holds(j, q)' PROVE file'[j] = q
    <3>1. CASE j = k
      \* Whoever else held it would have been broken.
      BY <1>4, <2>2, <3>1, OthersHold, RemovedNobody DEF Removes
    <3>2. CASE j # k
      <4>1. file'[j] = file[j] /\ broken'[j] = broken[j]
        BY <1>4, <3>2 DEF Removes, Removed, LocksOK
      <4>2. Holds(j, q)
        BY <1>4, <2>2, OthersHold DEF Removes, NotInto
      <4> QED
        BY <2>2, <4>1, <4>2 DEF HolderIsNamed
    <3> QED
      BY <3>1, <3>2
  <2> QED
    BY <2>1, <2>2 DEF HolderIsNamed
<1> QED
  BY <1>1, <1>2, <1>3, <1>4, AnyStep

LEMMA Invariance == Spec => []LInv
BY InitLInv, StepLInv, PTL DEF Spec

\* What a step is to those who hold the lock, or the marker.
LEMMA KindStep ==
    ASSUME LInv, [Next]_vars, NEW k \in Kind
    PROVE  \/ Holders(k)' = Holders(k) /\ broken'[k] \in {broken[k], TRUE}
           \/ \E p \in Proc \ Holders(k) :
                 /\ Holders(k) = {} \/ broken[k]
                 /\ Holders(k)' = Holders(k) \cup {p} /\ broken'[k] = broken[k]
           \/ \E p \in Holders(k) :
                 Holders(k)' = Holders(k) \ {p} /\ broken'[k] \in {broken[k], TRUE}
<1> DEFINE Goal == \/ Holders(k)' = Holders(k) /\ broken'[k] \in {broken[k], TRUE}
                   \/ \E p \in Proc \ Holders(k) :
                         /\ Holders(k) = {} \/ broken[k]
                         /\ Holders(k)' = Holders(k) \cup {p} /\ broken'[k] = broken[k]
                   \/ \E p \in Holders(k) :
                         Holders(k)' = Holders(k) \ {p} /\ broken'[k] \in {broken[k], TRUE}
<1>1. CASE UNCHANGED <<file, stage, broken>>
  BY <1>1 DEF Holders, Holds, In
<1>2. ASSUME NEW p \in Proc, Others(p), Holds(k, p)' => Holds(k, p), broken'[k] \in {broken[k], TRUE}
      PROVE  Goal
  <2>1. Holders(k)' = Holders(k) \/ (p \in Holders(k) /\ Holders(k)' = Holders(k) \ {p})
    BY <1>2, OthersHold DEF Holders
  <2> QED
    BY <1>2, <2>1
<1>3. ASSUME NEW p \in Proc, Passes(p) PROVE Goal
  BY <1>2, <1>3 DEF Passes, NotInto
<1>4. ASSUME NEW p \in Proc, NEW j \in Kind, Enters(j, p) PROVE Goal
  <2>1. CASE j = k
    <3>1. p \in Proc \ Holders(k) /\ Holders(k)' = Holders(k) \cup {p}
      BY <1>4, <2>1, OthersHold DEF Enters, Holders
    <3>2. Holders(k) = {} \/ broken[k]
      BY <1>4, <2>1, NobodyAssumption DEF Enters, Holders, LInv, HolderIsNamed
    <3> QED
      BY <1>4, <3>1, <3>2 DEF Enters
  <2>2. CASE j # k
    BY <1>2, <1>4, <2>2 DEF Enters, NotInto
  <2> QED
    BY <2>1, <2>2
<1>5. ASSUME NEW p \in Proc, NEW j \in Kind, Removes(j, p) PROVE Goal
  <2>1. broken'[k] \in {broken[k], TRUE}
    BY <1>5 DEF Removes, Removed, LInv, LocksOK
  <2> QED
    BY <1>2, <1>5, <2>1 DEF Removes, NotInto
<1> QED
  BY <1>1, <1>3, <1>4, <1>5, AnyStep DEF LInv

\* The sync lock and the dream marker are exclusive until the file of a live
\* holder is removed by age, for any number of invocations, and whatever the
\* ingest passes, the kills and the other stages do between the calls.
THEOREM SyncLocksAreMutexes == Spec => LocksAreMutexes
<1>1. Init => Lock!Init /\ Marker!Init
  BY DEF Init, Lock!Init, Marker!Init, Holds, In, Locked, Dreaming, Kind
<1>2. LInv /\ [Next]_vars => [Lock!Next]_<<Holders("lock"), broken["lock"]>>
  BY KindStep DEF Kind, Holders, Lock!Next, Lock!Break, Lock!Enter, Lock!Leave
<1>3. LInv /\ [Next]_vars => [Marker!Next]_<<Holders("marker"), broken["marker"]>>
  BY KindStep DEF Kind, Holders, Marker!Next, Marker!Break, Marker!Enter, Marker!Leave
<1> QED
  BY <1>1, <1>2, <1>3, Invariance, PTL DEF Spec, LocksAreMutexes, Lock!Spec, Marker!Spec, Holders

-----------------------------------------------------------------------------
(* The pages of the repository.                                            *)

PagesOK == pages \in [Source -> {"absent", "empty", "full"}]
SourceKept == pages["old"] = "full" /\ pages'["old"] = "absent" => pages'["new"] = "full"

LEMMA PagesStep == PagesOK /\ [Next]_vars => PagesOK' /\ SourceKept
<1> SUFFICES ASSUME PagesOK, [Next]_vars PROVE PagesOK' /\ SourceKept
  OBVIOUS
<1>1. CASE UNCHANGED pages
  BY <1>1 DEF PagesOK, SourceKept
<1>2. ASSUME NEW p \in Proc, Plan(p) PROVE PagesOK' /\ SourceKept
  <2> DEFINE kept == IF autopilot THEN pages ELSE [pages EXCEPT !["slug"] = "absent"]
  <2>1. kept \in [Source -> {"absent", "empty", "full"}] /\ kept["old"] = pages["old"]
    BY DEF PagesOK, Source
  <2>2. \/ pages' = [kept EXCEPT !["new"] = pages["old"], !["old"] = "absent"]
        \/ pages' = kept
    BY <1>2 DEF Plan
  <2> HIDE DEF kept
  <2> QED
    BY <2>1, <2>2 DEF PagesOK, SourceKept, Source
<1>3. ASSUME NEW p \in Proc, Register(p) \/ Walk(p) PROVE PagesOK' /\ SourceKept
  BY <1>3 DEF Register, Walk, PagesOK, SourceKept, Source
<1>4. ASSUME NEW p \in Proc, Verify(p) PROVE PagesOK' /\ SourceKept
  BY <1>4 DEF Verify, Cleanup, PagesOK, SourceKept, Source
<1>5. ASSUME NEW p \in Proc, SyncStep(p) \/ Die(p), ~(Plan(p) \/ Register(p) \/ Walk(p) \/ Verify(p))
      PROVE  UNCHANGED pages
  BY <1>5 DEF SyncStep, LockStep, Exists, Stat, Unlink, Create, Release, Drop, Start, SkipCode,
              SkipMemory, BeginMemory, MemoryEnds, Dream, DreamEnds, Die, Code
<1>6. ASSUME NEW k \in Kind, Age(k) PROVE UNCHANGED pages
  BY <1>6 DEF Age, Code
<1>7. CASE IngestStep \/ AutopilotChanges \/ UNCHANGED vars
  BY <1>1, <1>7 DEF IngestStep, AutopilotChanges, syncOnly, vars
<1> QED
  BY <1>1, <1>2, <1>3, <1>4, <1>5, <1>6, <1>7 DEF Next

\* However many invocations overlap, whenever they are killed and whatever the
\* locks did: the full source of the old name is removed only when the new one
\* has pages (register, sync, verify, then delete).
THEOREM NeverLeftWithoutPages == Spec => NeverWithoutPages
<1>1. Init => PagesOK
  BY DEF Init, PagesOK
<1>2. PagesOK /\ [Next]_vars => [SourceKept]_vars
  BY PagesStep
<1> QED
  BY <1>1, <1>2, PagesStep, PTL DEF Spec, NeverWithoutPages, SourceKept

-----------------------------------------------------------------------------
(* The staging directories of the passes.                                  *)

PassHeld ==
    /\ pc \in [Proc -> {"off", "staged", "importing", "ended"}]
    /\ \A p \in Proc : pc[p] # "off" => In(p, {"ingesting", "dead"})

\* A pass that is going on goes on, or ends; none starts by itself.
LEMMA PassesByThemselves ==
    ASSUME PassHeld, IngestStep
    PROVE  /\ pc' \in [Proc -> {"off", "staged", "importing", "ended"}]
           /\ \A q \in Proc : pc'[q] # "off" => pc[q] # "off"
<1>1. CASE UNCHANGED pc
  BY <1>1 DEF PassHeld
<1>2. ASSUME NEW p \in Proc, NEW how, Ended(p, how) PROVE
        /\ pc' \in [Proc -> {"off", "staged", "importing", "ended"}]
        /\ \A q \in Proc : pc'[q] # "off" => pc[q] # "off"
  BY <1>2 DEF Ended, PassHeld
<1>3. ASSUME NEW p \in Proc, Over(p) \/ Spawn(p) PROVE
        /\ pc' \in [Proc -> {"off", "staged", "importing", "ended"}]
        /\ \A q \in Proc : pc'[q] # "off" => pc[q] # "off"
  BY <1>3 DEF Over, Spawn, PassHeld
<1>4. CASE Around
  BY <1>1, <1>4 DEF Around, Poisoned, Edit, PolicyChanges, passVars
<1>5. ASSUME NEW p \in Proc, PassStep(p) PROVE Over(p) \/ Spawn(p) \/ UNCHANGED pc
  BY <1>5 DEF PassStep, Timeout, Recorded, Refused, Signalled, Killed
<1>6. ASSUME NEW p \in Proc, ImportStep(p) PROVE (\E how : Ended(p, how)) \/ UNCHANGED pc
  BY <1>6 DEF ImportStep, WritesCheckpoint, Succeeds, Crashes, Dies, PageLands, PageFails, passVars
<1> QED
  BY <1>1, <1>2, <1>3, <1>4, <1>5, <1>6 DEF IngestStep

\* An invocation moves on while it has no pass, or begins one, or dies.
LEMMA InvocationAndItsPass ==
    ASSUME PassHeld, NEW p \in Proc, SyncStep(p) \/ Die(p)
    PROVE  \/ pc[p] = "off" /\ UNCHANGED pc
           \/ /\ Goes(p, "ingesting") \/ Goes(p, "dead")
              /\ pc' \in [Proc -> {"off", "staged", "importing", "ended"}]
              /\ \A q \in Proc \ {p} : pc'[q] = pc[q]
<1>1. CASE Die(p)
  BY <1>1 DEF Die, ingestVars, passVars, PassHeld
<1>2. CASE BeginMemory(p)
  BY <1>2 DEF BeginMemory, Ingest, NothingPrepared, Unavailable, NoWrite, Persist, Stage, Ready,
              Busy, ingestVars, passVars, PassHeld
<1>3. CASE SyncStep(p) /\ ~BeginMemory(p)
  <2>1. UNCHANGED pc
    BY <1>3 DEF SyncStep, LockStep, Exists, Stat, Unlink, Create, Release, Drop, Start, SkipCode,
                Plan, Register, Walk, Verify, SkipMemory, MemoryEnds, Dream, DreamEnds,
                ingestVars, passVars
  <2>2. pc[p] = "off" \/ ~In(p, {"ingesting", "dead"})
    BY <1>3 DEF SyncStep, LockStep, Exists, Stat, Unlink, Create, Release, Drop, Start, SkipCode,
                Plan, Register, Walk, Verify, SkipMemory, MemoryEnds, Dream, DreamEnds,
                At, In, Kind
  <2> QED
    BY <2>1, <2>2 DEF PassHeld
<1> QED
  BY <1>1, <1>2, <1>3

LEMMA PassHeldStep == LocksOK /\ PassHeld /\ [Next]_vars => PassHeld'
<1> SUFFICES ASSUME LocksOK, PassHeld, [Next]_vars PROVE PassHeld'
  OBVIOUS
<1>1. CASE UNCHANGED <<pc, stage>>
  BY <1>1 DEF PassHeld, In
<1>2. ASSUME NEW p \in Proc, SyncStep(p) \/ Die(p) PROVE PassHeld'
  <2>1. Others(p)
    BY <1>2, LockSteps, StageSteps DEF SyncStep, Passes, Enters, Removes
  <2>2. \A q \in Proc \ {p} : stage'[q] = stage[q]
    BY <2>1 DEF Others
  <2>3. Goes(p, "ingesting") \/ Goes(p, "dead") => stage'[p] \in {<<"main", "ingesting">>, <<"main", "dead">>}
    BY DEF Goes, Calls, LocksOK
  <2> QED
    BY <1>2, <2>2, <2>3, InvocationAndItsPass DEF PassHeld, In
<1>3. CASE IngestStep
  <2>1. UNCHANGED stage
    BY <1>3 DEF IngestStep, syncOnly
  <2> QED
    BY <1>3, <2>1, PassesByThemselves DEF PassHeld, In
<1>4. CASE (\E k \in Kind : Age(k)) \/ AutopilotChanges \/ UNCHANGED vars
  BY <1>1, <1>4 DEF Age, AutopilotChanges, vars, syncOnly, ingestVars, passVars
<1> QED
  BY <1>2, <1>3, <1>4 DEF Next

\* While no live holder's lock was removed, two passes that are going on never
\* share a staging directory, but for one that outlived its invocation: of two
\* invocations in their memory stage each would hold the lock.
THEOREM StagingIsOwn == Spec => []OwnStaging
<1>1. Init => PassHeld
  BY DEF Init, IngestInit, PassHeld
<1>2. LInv /\ PassHeld => OwnStaging
  <2> SUFFICES ASSUME LInv, PassHeld, NEW p \in Proc, NEW q \in Proc, p # q, ~broken["lock"],
                      pc[p] # "off", pc[q] # "off", ~At(p, "dead"), ~At(q, "dead")
               PROVE  FALSE
    BY DEF OwnStaging
  <2>1. Holds("lock", p) /\ Holds("lock", q)
    BY DEF PassHeld, LInv, LocksOK, Place, At, In, Holds, Locked
  <2> QED
    BY <2>1 DEF LInv, HolderIsNamed, Kind
<1>3. LInv /\ PassHeld /\ [Next]_vars => PassHeld'
  BY PassHeldStep DEF LInv
<1> QED
  BY <1>1, <1>2, <1>3, Invariance, PTL DEF Spec

-----------------------------------------------------------------------------
(* The passes by themselves (MemoryIngest): the shape of their state.       *)


ChildType ==
    [st : {"none", "running", "dying"}, todo : SUBSET File, done : SUBSET File, landed : Nat]
ResultType == [how : {"none", "ok", "error", "timeout"}, landed : Nat]

\* A pass has its directory as long as it or its import lasts.
PassOK(p) ==
    /\ child[p].st = "none" => child[p] = Idle
    /\ pc[p] = "importing" => child[p] # Idle
    /\ pc[p] \in {"staged", "ended"} => child[p] = Idle
    /\ Busy(p) => dir[p] \in Dir \ {Repo}

StoreShape ==
    /\ src \in [File -> Nat] /\ brain \in [File -> Nat]
    /\ outbox \in [File -> Nat] /\ state \in [File -> Nat]
    /\ denied \subseteq File
    /\ dirs \in [Dir -> [File -> Nat] \cup {Absent}] /\ dirs[Repo] # Absent
    /\ checkpoint \in [dir : Dir \cup {None}, done : SUBSET File]

PassShape ==
    /\ pc \in [Proc -> {"off", "staged", "importing", "ended"}]
    /\ loaded \in [Proc -> [File -> Nat]]
    /\ prepared \in [Proc -> SUBSET File] /\ failed \in [Proc -> SUBSET File]
    /\ dir \in [Proc -> (Dir \ {Repo}) \cup {None}]
    /\ child \in [Proc -> ChildType]
    /\ result \in [Proc -> ResultType]

IngestShape == StoreShape /\ PassShape /\ \A p \in Proc : PassOK(p)

LEMMA Dirs == /\ Repo \in Dir /\ None \notin Dir /\ Dir \ {Repo} = 1..MaxDir
              /\ Nothing \in [File -> Nat] /\ Absent \notin [File -> Nat]
              /\ Idle \in ChildType /\ NoResult \in ResultType
              /\ NoCheckpoint \in [dir : Dir \cup {None}, done : SUBSET File]
<1>1. /\ Repo \in Dir /\ None \notin Dir /\ Dir \ {Repo} = 1..MaxDir
  BY IngestAssumption DEF Repo, Dir, None
<1>2. Nothing \in [File -> Nat] /\ Absent \notin [File -> Nat]
  BY IngestAssumption DEF Nothing, Absent
<1>3. Idle \in ChildType /\ NoResult \in ResultType
  BY DEF Idle, ChildType, NoResult, ResultType
<1>4. NoCheckpoint \in [dir : Dir \cup {None}, done : SUBSET File]
  BY DEF NoCheckpoint
<1> QED
  BY <1>1, <1>2, <1>3, <1>4

LEMMA IngestShapeInit == IngestInit => IngestShape
<1> SUFFICES ASSUME IngestInit PROVE IngestShape
  OBVIOUS
<1>1. src \in [File -> Nat]
  BY DEF IngestInit
<1>2. dirs \in [Dir -> [File -> Nat] \cup {Absent}] /\ dirs[Repo] # Absent
  BY Dirs DEF IngestInit
<1>3. StoreShape
  BY <1>1, <1>2, Dirs DEF IngestInit, StoreShape
<1>4. PassShape
  BY Dirs DEF IngestInit, PassShape
<1>5. \A p \in Proc : PassOK(p)
  BY DEF IngestInit, PassOK, Busy
<1> QED
  BY <1>3, <1>4, <1>5 DEF IngestShape

-----------------------------------------------------------------------------
(* What the steps write.                                                    *)

\* Only the pass p goes on.
OtherPasses(p) ==
    \A q \in Proc \ {p} : /\ pc'[q] = pc[q] /\ loaded'[q] = loaded[q] /\ prepared'[q] = prepared[q]
                          /\ dir'[q] = dir[q] /\ child'[q] = child[q] /\ result'[q] = result[q]

\* The end of a pass.
LEMMA OverWrites ==
    ASSUME IngestShape, NEW p \in Proc, Over(p),
           UNCHANGED child \/ (child[p] # Idle /\ child' = [child EXCEPT ![p].st = "dying"])
    PROVE  /\ PassShape' /\ (\A q \in Proc : PassOK(q)') /\ OtherPasses(p)
           /\ pc'[p] = "off" /\ (Busy(p)' => child[p] # Idle /\ dir'[p] = dir[p])
           /\ child'[p].todo = child[p].todo
           /\ UNCHANGED <<src, denied, brain, outbox, checkpoint>>
<1>t. PassShape /\ PassOK(p) /\ child[p] \in ChildType
  BY DEF IngestShape, PassShape
<1> DEFINE b == IF UNCHANGED child THEN child[p] ELSE [child[p] EXCEPT !.st = "dying"]
<1>1. b \in ChildType /\ b.todo = child[p].todo /\ (b.st = "none" => b = child[p])
  BY <1>t DEF ChildType
<1>2. child' = [child EXCEPT ![p] = b]
  BY <1>t DEF PassShape
<1>3. (b = Idle => child[p] = Idle) /\ (child[p] = Idle => b = Idle) /\ (b.st = "none" => b = Idle)
  BY <1>t, <1>1 DEF PassOK, Idle, ChildType
<1> HIDE DEF b
<1>4. /\ pc' = [pc EXCEPT ![p] = "off"] /\ loaded' = [loaded EXCEPT ![p] = Nothing]
      /\ prepared' = [prepared EXCEPT ![p] = {}] /\ failed' = [failed EXCEPT ![p] = {}]
      /\ result' = [result EXCEPT ![p] = NoResult]
      /\ dir' = [dir EXCEPT ![p] = IF child[p] = Idle THEN None ELSE dir[p]]
  BY DEF Over
<1>5. PassShape'
  BY <1>1, <1>2, <1>4, <1>t, Dirs DEF PassShape
<1>6. OtherPasses(p)
  BY <1>2, <1>4, <1>t DEF PassShape, OtherPasses
<1>7. pc'[p] = "off" /\ child'[p] = b /\ (child[p] # Idle => dir'[p] = dir[p])
  BY <1>2, <1>4, <1>t DEF PassShape
<1>8. PassOK(p)'
  BY <1>3, <1>7, <1>t DEF PassOK, Busy
<1>9. \A q \in Proc \ {p} : PassOK(q)'
  BY <1>6 DEF IngestShape, PassOK, Busy, OtherPasses
<1> QED
  BY <1>1, <1>3, <1>5, <1>6, <1>7, <1>8, <1>9 DEF Over, Busy

\* The child goes on, and so does nothing else of a pass.
ChildMoves(p) ==
    /\ PassShape' /\ (\A q \in Proc : PassOK(q)') /\ OtherPasses(p)
    /\ child[p] # Idle /\ child'[p] # Idle /\ child'[p].todo \subseteq child[p].todo
    /\ UNCHANGED <<src, denied, outbox, state, dirs, checkpoint, pc, loaded, prepared, dir, result>>

LEMMA ChildStep ==
    ASSUME IngestShape, NEW p \in Proc, NEW b \in ChildType, child[p] # Idle,
           b.st # "none", b.todo \subseteq child[p].todo, child' = [child EXCEPT ![p] = b],
           failed' \in [Proc -> SUBSET File],
           UNCHANGED <<src, denied, outbox, state, dirs, checkpoint, pc, loaded, prepared, dir,
                       result>>
    PROVE  ChildMoves(p) /\ child'[p] = b
<1>1. b # Idle
  BY DEF Idle
<1>2. child'[p] = b /\ \A q \in Proc \ {p} : child'[q] = child[q]
  BY DEF IngestShape, PassShape
<1>3. PassShape'
  BY DEF IngestShape, PassShape
<1>4. \A q \in Proc : PassOK(q)'
  BY <1>1, <1>2 DEF IngestShape, PassOK, Busy
<1> QED
  BY <1>1, <1>2, <1>3, <1>4 DEF ChildMoves, OtherPasses

LEMMA TimeoutWrites ==
    ASSUME IngestShape, NEW p \in Proc, Timeout(p)
    PROVE  ChildMoves(p) /\ child'[p].todo = child[p].todo /\ child'[p].landed = child[p].landed
<1> DEFINE b == [child[p] EXCEPT !.st = "dying"]
<1>1. child[p] \in ChildType /\ child[p] # Idle
  BY DEF IngestShape, PassShape, PassOK, Timeout
<1>2. /\ b \in ChildType /\ b.st # "none" /\ b.todo = child[p].todo /\ b.landed = child[p].landed
      /\ child' = [child EXCEPT ![p] = b]
  BY <1>1 DEF ChildType, Timeout
<1>3. failed' \in [Proc -> SUBSET File]
  BY DEF Timeout, IngestShape, PassShape
<1> HIDE DEF b
<1> QED
  BY <1>1, <1>2, <1>3, ChildStep DEF Timeout

LEMMA PageLandsWrites ==
    ASSUME IngestShape, NEW p \in Proc, NEW f \in File, PageLands(p, f)
    PROVE  /\ ChildMoves(p) /\ UNCHANGED failed
           /\ child'[p].todo = child[p].todo \ {f} /\ child'[p].landed = child[p].landed + 1
           /\ dir[p] \in Dir \ {Repo} /\ dirs[dir[p]] # Absent /\ dirs[dir[p]][f] \in Nat
           /\ brain' = [brain EXCEPT ![f] = dirs[dir[p]][f]]
<1> DEFINE b == [child[p] EXCEPT !.todo = @ \ {f}, !.done = @ \cup {f}, !.landed = @ + 1]
<1>1. child[p] \in ChildType /\ child[p] # Idle /\ child[p].st # "none"
  BY DEF IngestShape, PassShape, PassOK, PageLands, Page
<1>2. /\ b \in ChildType /\ b.st # "none" /\ b.todo = child[p].todo \ {f}
      /\ b.landed = child[p].landed + 1
  <2> DEFINE n == child[p].landed + 1
             c == [child[p] EXCEPT !.todo = @ \ {f}, !.done = @ \cup {f}, !.landed = n]
  <2>1. n \in Nat
    BY <1>1 DEF ChildType
  <2> HIDE DEF n
  <2>2. c \in ChildType /\ c.st # "none" /\ c.todo = child[p].todo \ {f} /\ c.landed = n
    BY <1>1, <2>1 DEF ChildType
  <2> QED
    BY <2>2 DEF n
<1>w. child' = [child EXCEPT ![p] = b]
  BY DEF PageLands
<1>3. failed' \in [Proc -> SUBSET File] /\ UNCHANGED failed
  BY DEF PageLands, IngestShape, PassShape
<1> HIDE DEF b
<1>4. ChildMoves(p) /\ child'[p] = b
  BY <1>1, <1>2, <1>3, <1>w, ChildStep DEF PageLands
<1>5. dir[p] \in Dir \ {Repo} /\ dirs[dir[p]] # Absent
  BY <1>1 DEF IngestShape, PassOK, Busy, PageLands
<1>6. dirs[dir[p]] \in [File -> Nat]
  BY <1>5 DEF IngestShape, StoreShape
<1> QED
  BY <1>2, <1>3, <1>4, <1>5, <1>6 DEF PageLands

LEMMA PageFailsWrites ==
    ASSUME IngestShape, NEW p \in Proc, NEW f \in File, PageFails(p, f)
    PROVE  /\ ChildMoves(p) /\ UNCHANGED brain
           /\ child'[p].todo = child[p].todo \ {f} /\ child'[p].landed = child[p].landed
           /\ failed'[p] = IF pc[p] = "importing" THEN failed[p] \cup {f} ELSE failed[p]
<1> DEFINE b == [child[p] EXCEPT !.todo = @ \ {f}, !.done = @ \cup {f}]
<1>1. child[p] \in ChildType /\ child[p] # Idle /\ child[p].st # "none"
  BY DEF IngestShape, PassShape, PassOK, PageFails, Page
<1>2. /\ b \in ChildType /\ b.st # "none" /\ b.todo = child[p].todo \ {f}
      /\ b.landed = child[p].landed /\ child' = [child EXCEPT ![p] = b]
  BY <1>1 DEF ChildType, PageFails
<1>3. failed' \in [Proc -> SUBSET File]
  BY DEF PageFails, IngestShape, PassShape
<1> HIDE DEF b
<1> QED
  BY <1>1, <1>2, <1>3, ChildStep DEF PageFails

\* The import ends.
LEMMA EndedWrites ==
    ASSUME IngestShape, NEW p \in Proc, child[p] # Idle,
           NEW how \in {"ok", "error", "timeout"}, Ended(p, how)
    PROVE  /\ PassShape' /\ (\A q \in Proc : PassOK(q)') /\ OtherPasses(p)
           /\ child'[p] = Idle /\ (Busy(p)' => dir'[p] = dir[p])
           /\ UNCHANGED <<src, denied, brain, outbox, state, dirs, loaded, prepared, failed>>
           /\ pc[p] = "importing" => pc'[p] = "ended" /\ result'[p].landed = child[p].landed
           /\ pc[p] # "importing" => UNCHANGED pc /\ pc[p] = "off"
<1>t. PassShape /\ PassOK(p) /\ child[p] \in ChildType
  BY DEF IngestShape, PassShape
<1> DEFINE r == [how |-> how, landed |-> child[p].landed]
<1>1. r \in ResultType /\ r.landed = child[p].landed
  BY <1>t DEF ResultType, ChildType
<1> HIDE DEF r
<1>2. CASE pc[p] = "importing"
  <2>1. /\ child' = [child EXCEPT ![p] = Idle] /\ result' = [result EXCEPT ![p] = r]
        /\ pc' = [pc EXCEPT ![p] = "ended"] /\ UNCHANGED <<dir, loaded, prepared, failed>>
    BY <1>2 DEF Ended, r
  <2>2. PassShape' /\ OtherPasses(p) /\ child'[p] = Idle /\ result'[p] = r /\ pc'[p] = "ended"
    BY <1>1, <1>t, <2>1, Dirs DEF PassShape, OtherPasses
  <2>3. PassOK(p)'
    BY <1>2, <1>t, <2>1, <2>2 DEF PassOK, Busy
  <2>4. \A q \in Proc \ {p} : PassOK(q)'
    BY <2>2 DEF IngestShape, PassOK, Busy, OtherPasses
  <2> QED
    BY <1>1, <1>2, <2>1, <2>2, <2>3, <2>4 DEF Ended
<1>3. CASE pc[p] # "importing"
  <2>1. /\ child' = [child EXCEPT ![p] = Idle] /\ dir' = [dir EXCEPT ![p] = None]
        /\ UNCHANGED <<pc, result, loaded, prepared, failed>>
    BY <1>3 DEF Ended
  <2>2. PassShape' /\ OtherPasses(p) /\ child'[p] = Idle /\ pc[p] = "off"
    BY <1>3, <1>t, <2>1, Dirs DEF PassShape, OtherPasses, PassOK
  <2>3. PassOK(p)' /\ ~Busy(p)'
    BY <2>1, <2>2 DEF PassOK, Busy
  <2>4. \A q \in Proc \ {p} : PassOK(q)'
    BY <2>2 DEF IngestShape, PassOK, Busy, OtherPasses
  <2> QED
    BY <1>3, <2>1, <2>2, <2>3, <2>4 DEF Ended
<1> QED
  BY <1>2, <1>3

\* The import begins.
LEMMA SpawnWrites ==
    ASSUME IngestShape, NEW p \in Proc, Spawn(p)
    PROVE  /\ PassShape' /\ (\A q \in Proc : PassOK(q)') /\ OtherPasses(p)
           /\ pc[p] = "staged" /\ pc'[p] = "importing" /\ failed'[p] = {}
           /\ child'[p] # Idle /\ child'[p].landed = 0
           /\ dirs[dir[p]] # Absent => \A f \in child'[p].todo : f \in File /\ dirs[dir[p]][f] # 0
           /\ dirs[dir[p]] = Absent => child'[p].todo = {}
           /\ UNCHANGED <<src, denied, brain, outbox, state, dirs, checkpoint, loaded, prepared,
                          dir>>
<1>t. PassShape /\ PassOK(p) /\ checkpoint.done \subseteq File
  BY DEF IngestShape, StoreShape
<1> DEFINE full == IF dirs[dir[p]] = Absent THEN {} ELSE {f \in File : dirs[dir[p]][f] # 0}
           done == IF checkpoint.dir = dir[p] THEN checkpoint.done ELSE {}
           b(T) == [st |-> "running", todo |-> T, done |-> done, landed |-> 0]
<1>1. PICK T \in {full \ done, {}} : child' = [child EXCEPT ![p] = b(T)]
  BY DEF Spawn
<1>2. full \subseteq File /\ T \subseteq full
  OBVIOUS
<1>3. b(T) \in ChildType /\ b(T).todo = T /\ b(T).st = "running" /\ b(T).landed = 0 /\ b(T) # Idle
  BY <1>t, <1>2 DEF ChildType, Idle
<1>4. /\ failed' = [failed EXCEPT ![p] = {}] /\ pc' = [pc EXCEPT ![p] = "importing"]
      /\ result' = [result EXCEPT ![p] = NoResult] /\ UNCHANGED <<loaded, prepared, dir>>
      /\ pc[p] = "staged"
  BY DEF Spawn
<1> HIDE DEF b
<1>5. PassShape' /\ OtherPasses(p) /\ child'[p] = b(T) /\ pc'[p] = "importing" /\ failed'[p] = {}
  BY <1>1, <1>3, <1>4, <1>t, Dirs DEF PassShape, OtherPasses
<1>6. PassOK(p)'
  BY <1>3, <1>4, <1>5, <1>t DEF PassOK, Busy
<1>7. \A q \in Proc \ {p} : PassOK(q)'
  BY <1>5 DEF IngestShape, PassOK, Busy, OtherPasses
<1> QED
  BY <1>2, <1>3, <1>4, <1>5, <1>6, <1>7 DEF Spawn

\* The directory of an interrupted import, or a new one with what was prepared.
Resumes(p) ==
    decideResume # None /\ dir'[p] = decideResume /\ UNCHANGED dirs
Makes(p, P) ==
    /\ decideResume = None
    /\ \E d \in Dir \ {Repo} :
          /\ Unused(d) /\ dir'[p] = d
          /\ dirs'[d] # Absent /\ \A f \in File : dirs'[d][f] # 0 => f \in P /\ dirs'[d][f] = src[f]
          /\ \A e \in Dir \ {d} : dirs'[e] = dirs[e]

LEMMA Resumable == decideResume # None => /\ decideResume = checkpoint.dir
                                          /\ decideResume \in Dir \ {Repo}
                                          /\ dirs[decideResume] # Absent
BY DEF decideResume, checkOwnedStagingDir

LEMMA StageWrites ==
    ASSUME IngestShape, NEW p \in Proc, NEW mode, Stage(p, mode, decideResume)
    PROVE  /\ StoreShape' /\ PassShape' /\ (\A q \in Proc : PassOK(q)') /\ OtherPasses(p)
           /\ pc[p] = "off" /\ child[p] = Idle /\ pc'[p] = "staged"
           /\ preparePages(mode, state) # {}
           /\ prepared'[p] = preparePages(mode, state) /\ loaded'[p] = state
           /\ Resumes(p) \/ Makes(p, preparePages(mode, state))
           /\ UNCHANGED <<src, denied, brain, outbox, state, checkpoint, failed, child, result>>
<1>t. PassShape /\ StoreShape
  BY DEF IngestShape
<1> DEFINE P == preparePages(mode, state)
<1>1. P \subseteq File /\ P # {}
  BY DEF preparePages, Stage
<1>2. /\ pc' = [pc EXCEPT ![p] = "staged"] /\ loaded' = [loaded EXCEPT ![p] = state]
      /\ prepared' = [prepared EXCEPT ![p] = P] /\ UNCHANGED <<failed, child, result>>
      /\ pc[p] = "off" /\ child[p] = Idle
      /\ UNCHANGED <<src, denied, brain, outbox, state, checkpoint>>
  BY DEF Stage, Ready, Busy
<1>3. ASSUME NEW d \in Dir \ {Repo}, dir' = [dir EXCEPT ![p] = d]
      PROVE  /\ PassShape' /\ (\A q \in Proc : PassOK(q)') /\ OtherPasses(p)
             /\ dir'[p] = d /\ pc'[p] = "staged" /\ prepared'[p] = P /\ loaded'[p] = state
  <2> HIDE DEF P
  <2>1. PassShape' /\ OtherPasses(p)
    BY <1>1, <1>2, <1>3, <1>t DEF PassShape, StoreShape, OtherPasses
  <2>2. dir'[p] = d /\ pc'[p] = "staged" /\ prepared'[p] = P /\ loaded'[p] = state
    BY <1>2, <1>3, <1>t DEF PassShape
  <2>3. PassOK(p)'
    BY <1>2, <2>2 DEF PassOK, Busy
  <2>4. \A q \in Proc \ {p} : PassOK(q)'
    BY <2>1 DEF IngestShape, PassOK, Busy, OtherPasses
  <2> QED
    BY <2>1, <2>2, <2>3, <2>4
<1>4. CASE decideResume # None
  <2>1. dir' = [dir EXCEPT ![p] = decideResume] /\ UNCHANGED dirs
    BY <1>4, Resumable DEF Stage, checkOwnedStagingDir
  <2>2. StoreShape'
    BY <1>2, <1>t, <2>1 DEF StoreShape
  <2> HIDE DEF P
  <2>3. Resumes(p) /\ PassShape' /\ (\A q \in Proc : PassOK(q)') /\ OtherPasses(p)
        /\ pc'[p] = "staged" /\ prepared'[p] = P /\ loaded'[p] = state
    BY <1>3, <1>4, <2>1, Resumable DEF Resumes
  <2> QED
    BY <1>1, <1>2, <2>2, <2>3 DEF P
<1>5. CASE decideResume = None
  <2> DEFINE page(L) == [f \in File |-> IF f \in P \ L THEN src[f] ELSE 0]
  <2>1. PICK d \in 1..MaxDir, L \in {{}} \cup {{f} : f \in P} :
          Unused(d) /\ dir' = [dir EXCEPT ![p] = d] /\ dirs' = [dirs EXCEPT ![d] = page(L)]
    BY <1>5 DEF Stage
  <2>2. /\ page(L) \in [File -> Nat]
        /\ \A f \in File : page(L)[f] # 0 => f \in P /\ page(L)[f] = src[f]
    BY <1>t DEF StoreShape
  <2>3. d \in Dir \ {Repo} /\ page(L) # Absent
    BY <2>2, Dirs
  <2> HIDE DEF page, P
  <2>4. /\ dirs' \in [Dir -> [File -> Nat] \cup {Absent}] /\ dirs'[Repo] # Absent
        /\ dirs'[d] = page(L) /\ \A e \in Dir \ {d} : dirs'[e] = dirs[e]
    BY <1>t, <2>1, <2>2, <2>3, Dirs DEF StoreShape
  <2>5. StoreShape'
    BY <1>2, <1>t, <2>4 DEF StoreShape
  <2>6. PassShape' /\ (\A q \in Proc : PassOK(q)') /\ OtherPasses(p) /\ dir'[p] = d
        /\ pc'[p] = "staged" /\ prepared'[p] = P /\ loaded'[p] = state
    BY <1>3, <2>1, <2>3
  <2>7. Makes(p, P)
    BY <1>5, <2>1, <2>2, <2>3, <2>4, <2>6 DEF Makes
  <2> QED
    BY <1>1, <1>2, <2>5, <2>6, <2>7 DEF P
<1> QED
  BY <1>4, <1>5

LEMMA CleanedWrites ==
    ASSUME IngestShape, NEW d
    PROVE  /\ Cleaned(d) \in [Dir -> [File -> Nat] \cup {Absent}] /\ Cleaned(d)[Repo] # Absent
           /\ \A e \in Dir : Cleaned(d)[e] \in {dirs[e], Absent}
           /\ d \in Dir \ {Repo} => Cleaned(d)[d] = Absent
BY Dirs DEF Cleaned, checkOwnedStagingDir, IngestShape, StoreShape

\* A pass is over: what is done with its directory, and what is recorded.
LEMMA PassEnds ==
    ASSUME IngestShape, NEW p \in Proc, Recorded(p) \/ Refused(p) \/ Signalled(p) \/ Killed(p)
    PROVE  /\ PassShape' /\ (\A q \in Proc : PassOK(q)') /\ OtherPasses(p)
           /\ pc'[p] = "off" /\ (Busy(p)' => child[p] # Idle /\ dir'[p] = dir[p])
           /\ child'[p].todo = child[p].todo
           /\ dirs' \in [Dir -> [File -> Nat] \cup {Absent}] /\ dirs'[Repo] # Absent
           /\ \A e \in Dir : dirs'[e] \in {dirs[e], Absent}
           /\ UNCHANGED <<src, denied, brain, outbox, checkpoint, lateDenied, mingled>>
           /\ Recorded(p) \/ UNCHANGED <<state, loose>>
<1>1. /\ Over(p) /\ (UNCHANGED dirs \/ dirs' = Cleaned(dir[p]))
      /\ UNCHANGED child \/ (pc[p] = "importing" /\ child' = [child EXCEPT ![p].st = "dying"])
  BY DEF Recorded, Refused, Signalled, Killed
<1>2. pc[p] = "importing" => child[p] # Idle
  BY DEF IngestShape, PassOK
<1>3. /\ dirs' \in [Dir -> [File -> Nat] \cup {Absent}] /\ dirs'[Repo] # Absent
      /\ \A e \in Dir : dirs'[e] \in {dirs[e], Absent}
  BY <1>1, CleanedWrites DEF IngestShape, StoreShape
<1>4. Recorded(p) \/ UNCHANGED <<state, loose>>
  BY DEF Recorded, Refused, Signalled, Killed
<1>5. UNCHANGED <<lateDenied, mingled>> /\ child'[p].todo = child[p].todo
  BY <1>1, <1>2 DEF Over, IngestShape, PassShape, ChildType
<1> QED
  BY <1>1, <1>2, <1>3, <1>4, <1>5, OverWrites

\* An import under way ends, whatever becomes of the checkpoint.
ImportEnds(p) ==
    /\ child[p] # Idle /\ \E how \in {"ok", "error", "timeout"} : Ended(p, how)
    /\ checkpoint' \in {checkpoint, NoCheckpoint}

\* What was prepared is recorded at once.
Notes(p, mode) == Persist(p, mode) \/ NoWrite(p, mode)

PassIsOver(p) == Recorded(p) \/ Refused(p) \/ Signalled(p) \/ Killed(p)

LEMMA IngestSteps ==
    ASSUME [IngestNext]_ingestVars
    PROVE  \/ UNCHANGED ingestVars
           \/ Around
           \/ \E p \in Proc :
                 \/ \E mode \in Mode : Notes(p, mode) \/ Stage(p, mode, decideResume)
                 \/ UNCHANGED <<src, denied, brain, outbox, state, dirs, checkpoint, passVars, histories>>
                 \/ Spawn(p) \/ Timeout(p) \/ PassIsOver(p) \/ WritesCheckpoint(p) \/ ImportEnds(p)
                 \/ \E f \in File : PageLands(p, f) \/ PageFails(p, f)
<1>1. ASSUME NEW p \in Proc, Succeeds(p) \/ Crashes(p) \/ Dies(p) PROVE ImportEnds(p)
  BY <1>1 DEF Succeeds, Crashes, Dies, ImportEnds
<1>2. ASSUME NEW p \in Proc, NEW mode \in Mode, Ingest(p, mode)
      PROVE  \/ UNCHANGED ingestVars \/ Notes(p, mode) \/ Stage(p, mode, decideResume)
             \/ UNCHANGED <<src, denied, brain, outbox, state, dirs, checkpoint, passVars, histories>>
  BY <1>2 DEF Ingest, NothingPrepared, Unavailable, Notes
<1> QED
  BY <1>1, <1>2 DEF IngestNext, PassStep, ImportStep, PassIsOver

LEMMA StampedType ==
    ASSUME src \in [File -> Nat], NEW s \in [File -> Nat], NEW P
    PROVE  Stamped(s, P) \in [File -> Nat]
BY DEF Stamped

LEMMA CheckpointWrites ==
    ASSUME IngestShape, NEW p \in Proc, WritesCheckpoint(p)
    PROVE  /\ checkpoint' \in [dir : Dir \cup {None}, done : SUBSET File]
           /\ child[p] # Idle /\ checkpoint'.dir = dir[p]
           /\ UNCHANGED <<src, denied, brain, outbox, state, dirs, passVars>>
<1>1. child[p] # Idle /\ child[p] \in ChildType /\ dir[p] \in Dir
  BY DEF IngestShape, PassShape, PassOK, Busy, WritesCheckpoint
<1> QED
  BY <1>1 DEF WritesCheckpoint, ChildType

LEMMA IngestShapeStep ==
    ASSUME IngestShape, [IngestNext]_ingestVars PROVE IngestShape'
<1>t. StoreShape /\ PassShape
  BY DEF IngestShape
<1>a. ASSUME UNCHANGED passVars, StoreShape' PROVE IngestShape'
  BY <1>a DEF passVars, IngestShape, PassShape, PassOK, Busy
<1>b. ASSUME UNCHANGED <<src, denied, outbox, state, dirs, checkpoint>>, brain' \in [File -> Nat]
      PROVE  StoreShape'
  BY <1>b, <1>t DEF StoreShape
<1>1. CASE UNCHANGED ingestVars
  BY <1>1, <1>a, <1>b, <1>t DEF ingestVars, StoreShape
<1>2. CASE Around
  <2>1. UNCHANGED <<passVars, brain, outbox, state, dirs>>
    BY <1>2 DEF Around, Poisoned, Edit, PolicyChanges
  <2>2. src' \in [File -> Nat] /\ denied' \subseteq File
    BY <1>2, <1>t DEF Around, Poisoned, Edit, PolicyChanges, StoreShape
  <2>3. checkpoint' \in [dir : Dir \cup {None}, done : SUBSET File]
    BY <1>2, <1>t, Dirs DEF Around, Poisoned, Edit, PolicyChanges, StoreShape
  <2> QED
    BY <1>a, <1>t, <2>1, <2>2, <2>3 DEF StoreShape
<1>3. ASSUME NEW p \in Proc, NEW mode \in Mode, Notes(p, mode) PROVE IngestShape'
  BY <1>3, <1>a, <1>t, StampedType DEF Notes, Persist, NoWrite, StoreShape
<1>4. ASSUME NEW p \in Proc, NEW mode \in Mode, Stage(p, mode, decideResume) PROVE IngestShape'
  BY <1>4, StageWrites DEF IngestShape
<1>5. ASSUME NEW p \in Proc, Spawn(p) PROVE IngestShape'
  BY <1>5, <1>b, <1>t, SpawnWrites DEF IngestShape, StoreShape
<1>6. ASSUME NEW p \in Proc, Timeout(p) PROVE IngestShape'
  <2>1. UNCHANGED brain
    BY <1>6 DEF Timeout
  <2> QED
    BY <1>6, <1>b, <1>t, <2>1, TimeoutWrites DEF IngestShape, StoreShape, ChildMoves
<1>7. ASSUME NEW p \in Proc, PassIsOver(p) PROVE IngestShape'
  <2>1. CASE UNCHANGED state
    BY <1>7, <1>t, <2>1, PassEnds DEF IngestShape, StoreShape, PassIsOver
  <2>2. CASE Recorded(p)
    <3>1. state' \in [File -> Nat]
      BY <1>t, <2>2, StampedType DEF Recorded, StoreShape, PassShape
    <3> QED
      BY <1>7, <1>t, <3>1, PassEnds DEF IngestShape, StoreShape, PassIsOver
  <2> QED
    BY <1>7, <2>1, <2>2, PassEnds DEF PassIsOver
<1>8. ASSUME NEW p \in Proc, WritesCheckpoint(p) PROVE IngestShape'
  BY <1>8, <1>a, <1>t, CheckpointWrites DEF StoreShape
<1>9. ASSUME NEW p \in Proc, ImportEnds(p) PROVE IngestShape'
  <2>1. PICK how \in {"ok", "error", "timeout"} : Ended(p, how)
    BY <1>9 DEF ImportEnds
  <2>2. child[p] # Idle /\ checkpoint' \in [dir : Dir \cup {None}, done : SUBSET File]
    BY <1>9, <1>t, Dirs DEF ImportEnds, StoreShape
  <2> QED
    BY <1>t, <2>1, <2>2, EndedWrites DEF IngestShape, StoreShape
<1>10. ASSUME NEW p \in Proc, NEW f \in File, PageLands(p, f) PROVE IngestShape'
  <2>1. brain' \in [File -> Nat]
    BY <1>10, <1>t, PageLandsWrites DEF StoreShape
  <2> QED
    BY <1>10, <1>b, <2>1, PageLandsWrites DEF IngestShape, ChildMoves
<1>11. ASSUME NEW p \in Proc, NEW f \in File, PageFails(p, f) PROVE IngestShape'
  BY <1>11, <1>b, <1>t, PageFailsWrites DEF IngestShape, StoreShape, ChildMoves
<1>12. ASSUME UNCHANGED <<src, denied, brain, outbox, state, dirs, checkpoint, passVars, histories>>
       PROVE  IngestShape'
  BY <1>12, <1>a, <1>t DEF StoreShape
<1> QED
  BY <1>1, <1>2, <1>3, <1>4, <1>5, <1>6, <1>7, <1>8, <1>9, <1>10, <1>11, <1>12, IngestSteps

\* A directory no pass made is never imported from nor removed, whatever the
\* checkpoint comes to name (#1802), for any number of passes and files.
THEOREM ForeignDirectorySpared == IngestSpec => []RepoSpared
<1>1. IngestShape => RepoSpared
  BY Dirs DEF IngestShape, StoreShape, PassShape, RepoSpared
<1> QED
  BY <1>1, IngestShapeInit, IngestShapeStep, PTL DEF IngestSpec

-----------------------------------------------------------------------------
(* The directories in use: of a pass, of an import, of the checkpoint.      *)

Used(d) ==
    /\ dirs[d] # Absent
    /\ checkpoint.dir = d \/ \E p \in Proc : Busy(p) /\ dir[p] = d

LEMMA NoneUsed == ASSUME IngestInit, NEW d \in Dir \ {Repo} PROVE ~Used(d)
BY DEF IngestInit, Used

\* It was in use before, as it is, or a pass has just made it.
LEMMA UsedStep ==
    ASSUME IngestShape, [IngestNext]_ingestVars, NEW d \in Dir \ {Repo}, Used(d)'
    PROVE  \/ Used(d) /\ dirs'[d] = dirs[d]
           \/ \E p \in Proc, mode \in Mode :
                 /\ Stage(p, mode, decideResume) /\ dir'[p] = d
                 /\ \A f \in File : dirs'[d][f] # 0 =>
                       f \in preparePages(mode, state) /\ dirs'[d][f] = src[f]
<1>d. d # None /\ d \in Dir
  BY Dirs
<1>1. CASE UNCHANGED <<dirs, passVars>> /\ checkpoint'.dir \in {checkpoint.dir, Repo, None}
  BY <1>1, <1>d DEF Used, Busy, passVars
<1>2. ASSUME NEW p \in Proc, OtherPasses(p), checkpoint'.dir \in {checkpoint.dir, Repo, None},
             dirs'[d] \in {dirs[d], Absent},
             Busy(p)' => Busy(p) /\ dir'[p] = dir[p]
      PROVE  Used(d) /\ dirs'[d] = dirs[d]
  BY <1>2, <1>d DEF Used, Busy, OtherPasses
<1>3. CASE UNCHANGED ingestVars
  BY <1>1, <1>3 DEF ingestVars
<1>4. CASE Around
  BY <1>1, <1>4 DEF Around, Poisoned, Edit, PolicyChanges
<1>5. ASSUME NEW p \in Proc, NEW mode \in Mode, Notes(p, mode) PROVE Used(d) /\ dirs'[d] = dirs[d]
  BY <1>1, <1>5 DEF Notes, Persist, NoWrite, Used, Busy, passVars
<1>6. ASSUME NEW p \in Proc, NEW mode \in Mode, Stage(p, mode, decideResume)
      PROVE  \/ Used(d) /\ dirs'[d] = dirs[d]
             \/ /\ dir'[p] = d
                /\ \A f \in File : dirs'[d][f] # 0 =>
                      f \in preparePages(mode, state) /\ dirs'[d][f] = src[f]
  <2>1. OtherPasses(p) /\ UNCHANGED checkpoint
    BY <1>6, StageWrites
  <2>2. CASE Resumes(p)
    BY <1>d, <2>1, <2>2, Resumable DEF Resumes, Used, OtherPasses, Busy
  <2>3. CASE Makes(p, preparePages(mode, state))
    BY <1>d, <2>1, <2>3 DEF Makes, Used, OtherPasses, Busy
  <2> QED
    BY <1>6, <2>2, <2>3, StageWrites
<1>7. ASSUME NEW p \in Proc, Spawn(p) PROVE Used(d) /\ dirs'[d] = dirs[d]
  BY <1>2, <1>7, SpawnWrites DEF Busy
<1>8. ASSUME NEW p \in Proc, Timeout(p) PROVE Used(d) /\ dirs'[d] = dirs[d]
  BY <1>2, <1>8, TimeoutWrites DEF Busy, ChildMoves
<1>9. ASSUME NEW p \in Proc, PassIsOver(p) PROVE Used(d) /\ dirs'[d] = dirs[d]
  BY <1>2, <1>9, <1>d, PassEnds DEF PassIsOver, Busy
<1>10. ASSUME NEW p \in Proc, WritesCheckpoint(p) PROVE Used(d) /\ dirs'[d] = dirs[d]
  BY <1>10, <1>d, CheckpointWrites DEF Used, Busy, passVars
<1>11. ASSUME NEW p \in Proc, ImportEnds(p) PROVE Used(d) /\ dirs'[d] = dirs[d]
  <2>1. PICK how \in {"ok", "error", "timeout"} : Ended(p, how)
    BY <1>11 DEF ImportEnds
  <2>2. child[p] # Idle /\ checkpoint'.dir \in {checkpoint.dir, None}
    BY <1>11 DEF ImportEnds, NoCheckpoint
  <2> QED
    BY <1>2, <2>1, <2>2, EndedWrites DEF Busy
<1>12. ASSUME NEW p \in Proc, NEW f \in File, PageLands(p, f) \/ PageFails(p, f)
       PROVE  Used(d) /\ dirs'[d] = dirs[d]
  BY <1>2, <1>12, PageLandsWrites, PageFailsWrites DEF Busy, ChildMoves
<1> QED
  BY <1>1, <1>3, <1>4, <1>5, <1>6, <1>7, <1>8, <1>9, <1>10, <1>11, <1>12, IngestSteps

\* An import has only pages of its directory to go, while that is there.
TodoIsStaged ==
    \A p \in Proc : child[p] # Idle /\ dirs[dir[p]] # Absent =>
        \A f \in child[p].todo : dirs[dir[p]][f] # 0

LEMMA TodoStep ==
    ASSUME IngestShape, TodoIsStaged, [IngestNext]_ingestVars PROVE TodoIsStaged'
<1> DEFINE Fine(p) == child[p] # Idle /\ dirs[dir[p]] # Absent =>
                          \A f \in child[p].todo : dirs[dir[p]][f] # 0
<1>t. \A p \in Proc : Fine(p) /\ (child[p] # Idle => dir[p] \in Dir \ {Repo})
  BY DEF TodoIsStaged, IngestShape, PassOK, Busy
<1>o. ASSUME NEW p \in Proc, OtherPasses(p), \A e \in Dir : dirs'[e] \in {dirs[e], Absent}, Fine(p)'
      PROVE  TodoIsStaged'
  BY <1>o, <1>t DEF TodoIsStaged, OtherPasses
<1>1. CASE UNCHANGED <<dirs, passVars>>
  BY <1>1, <1>t DEF TodoIsStaged, passVars
<1>2. CASE UNCHANGED ingestVars \/ Around
  BY <1>1, <1>2 DEF ingestVars, Around, Poisoned, Edit, PolicyChanges
<1>3. ASSUME NEW p \in Proc, NEW mode \in Mode, Notes(p, mode) PROVE TodoIsStaged'
  BY <1>1, <1>3 DEF Notes, Persist, NoWrite
<1>4. ASSUME NEW p \in Proc, NEW mode \in Mode, Stage(p, mode, decideResume) PROVE TodoIsStaged'
  <2>1. /\ child[p] = Idle /\ UNCHANGED child /\ OtherPasses(p)
        /\ Resumes(p) \/ Makes(p, preparePages(mode, state))
    BY <1>4, StageWrites
  <2>2. \A q \in Proc : child[q] # Idle => q # p /\ dir'[q] = dir[q] /\ dirs'[dir[q]] = dirs[dir[q]]
    BY <1>t, <2>1 DEF Resumes, Makes, Unused, OtherPasses
  <2> QED
    BY <1>t, <2>1, <2>2 DEF TodoIsStaged
<1>5. ASSUME NEW p \in Proc, Spawn(p) PROVE TodoIsStaged'
  BY <1>5, <1>o, SpawnWrites
<1>6. ASSUME NEW p \in Proc, ChildMoves(p) PROVE TodoIsStaged'
  BY <1>6, <1>o, <1>t DEF ChildMoves
<1>7. ASSUME NEW p \in Proc, PassIsOver(p) PROVE TodoIsStaged'
  <2>1. /\ OtherPasses(p) /\ (\A e \in Dir : dirs'[e] \in {dirs[e], Absent})
        /\ Busy(p)' => child[p] # Idle /\ dir'[p] = dir[p]
        /\ child'[p].todo = child[p].todo
    BY <1>7, PassEnds DEF PassIsOver
  <2>2. Fine(p)'
    BY <1>t, <2>1 DEF Busy
  <2> QED
    BY <1>o, <2>1, <2>2
<1>8. ASSUME NEW p \in Proc, WritesCheckpoint(p) PROVE TodoIsStaged'
  BY <1>1, <1>8, CheckpointWrites
<1>9. ASSUME NEW p \in Proc, ImportEnds(p) PROVE TodoIsStaged'
  BY <1>9, <1>o, EndedWrites DEF ImportEnds
<1> QED
  BY <1>1, <1>2, <1>3, <1>4, <1>5, <1>6, <1>7, <1>8, <1>9, IngestSteps, TimeoutWrites,
     PageLandsWrites, PageFailsWrites

-----------------------------------------------------------------------------
(* What the histories record, and what does not touch them.                 *)

LEMMA HistorySteps ==
    ASSUME [IngestNext]_ingestVars
    PROVE  /\ UNCHANGED <<denied, lateDenied>> \/ \E f \in File : PolicyChanges(f)
           /\ \/ UNCHANGED <<state, loose>> \/ \E p \in Proc : Recorded(p)
              \/ \E p \in Proc, mode \in Mode : Notes(p, mode)
           /\ \/ UNCHANGED mingled
              \/ \E p \in Proc, mode \in Mode :
                    Mingles(p) /\ (Notes(p, mode) \/ Stage(p, mode, decideResume))
<1>1. ASSUME NEW p \in Proc, NEW mode \in Mode, Ingest(p, mode)
      PROVE  /\ UNCHANGED <<denied, lateDenied>>
             /\ UNCHANGED <<state, loose>> \/ Notes(p, mode)
             /\ \/ UNCHANGED mingled
                \/ Mingles(p) /\ (Notes(p, mode) \/ Stage(p, mode, decideResume))
  BY <1>1 DEF Ingest, NothingPrepared, Unavailable, Notes, Persist, NoWrite, Stage, ingestVars,
              histories
<1>2. ASSUME NEW p \in Proc, PassStep(p)
      PROVE  UNCHANGED <<denied, lateDenied, mingled>> /\ (UNCHANGED <<state, loose>> \/ Recorded(p))
  BY <1>2 DEF PassStep, Spawn, Timeout, Refused, Signalled, Killed, Recorded, Over, histories
<1>3. ASSUME NEW p \in Proc, ImportStep(p) PROVE UNCHANGED <<denied, state, histories>>
  BY <1>3 DEF ImportStep, WritesCheckpoint, Succeeds, Crashes, Dies, Ended, PageLands, PageFails
<1>4. ASSUME Around
      PROVE  /\ UNCHANGED <<state, loose, mingled>>
             /\ UNCHANGED <<denied, lateDenied>> \/ \E f \in File : PolicyChanges(f)
  BY <1>4 DEF Around, Poisoned, Edit, PolicyChanges, histories
<1>5. CASE UNCHANGED ingestVars
  BY <1>5 DEF ingestVars, histories
<1> QED
  BY <1>1, <1>2, <1>3, <1>4, <1>5 DEF IngestNext, histories

-----------------------------------------------------------------------------
(* The policy.                                                              *)

\* A page in a directory in use is of a source the policy allows, or has come to
\* deny since.
UsedIsAllowed ==
    \A d \in Dir \ {Repo} : Used(d) =>
        \A f \in File : dirs[d][f] # 0 => f \notin denied \/ f \in lateDenied

LEMMA AllowedStep ==
    ASSUME IngestShape, UsedIsAllowed, [IngestNext]_ingestVars PROVE UsedIsAllowed'
<1> SUFFICES ASSUME NEW d \in Dir \ {Repo}, Used(d)', NEW f \in File, dirs'[d][f] # 0
             PROVE  f \notin denied' \/ f \in lateDenied'
  BY DEF UsedIsAllowed
<1>1. CASE UNCHANGED <<denied, lateDenied>>
  BY <1>1, UsedStep DEF UsedIsAllowed, preparePages
<1>2. ASSUME NEW g \in File, PolicyChanges(g)
      PROVE  f \notin denied' \/ f \in lateDenied'
  <2>1. Used(d) /\ dirs[d][f] # 0
    BY <1>2 DEF PolicyChanges, Used, Busy, passVars
  <2>2. Staged(f)
    BY <2>1 DEF Staged, Used
  <2>3. f \notin denied \/ f \in lateDenied
    BY <2>1 DEF UsedIsAllowed
  <2> QED
    BY <1>2, <2>2, <2>3 DEF PolicyChanges
<1> QED
  BY <1>1, <1>2, HistorySteps

(* A page of a remote whose policy denies it reaches the brain only if it    *)
(* was staged when the policy did not deny it yet (#2392;                    *)
(* bin/gstack-memory-ingest.ts, preparePages and the branch that resumes):   *)
(* for any number of passes side by side, in bulk or not, whatever the       *)
(* sources and the policy do meanwhile.                                      *)
THEOREM DeniedStaysOut == IngestSpec => PolicyHonoured
<1> DEFINE Inv == IngestShape /\ TodoIsStaged /\ UsedIsAllowed
           Spared == \A f \in File : brain'[f] # brain[f] => f \notin denied \/ f \in lateDenied
<1>1. IngestInit => Inv
  <2> SUFFICES ASSUME IngestInit PROVE Inv
    OBVIOUS
  <2>1. TodoIsStaged
    BY DEF IngestInit, TodoIsStaged
  <2> QED
    BY <2>1, IngestShapeInit, NoneUsed DEF UsedIsAllowed
<1>2. Inv /\ [IngestNext]_ingestVars => Inv'
  BY IngestShapeStep, TodoStep, AllowedStep
<1>3. Inv /\ [IngestNext]_ingestVars => [Spared]_ingestVars
  <2> SUFFICES ASSUME Inv, [IngestNext]_ingestVars, NEW f \in File, brain'[f] # brain[f]
               PROVE  f \notin denied \/ f \in lateDenied
    OBVIOUS
  <2>1. PICK p \in Proc, g \in File : PageLands(p, g)
    <3>1. CASE Around
      BY <3>1 DEF Around, Poisoned, Edit, PolicyChanges
    <3>2. ASSUME NEW p \in Proc, ImportEnds(p) \/ Timeout(p) PROVE UNCHANGED brain
      BY <3>2, EndedWrites DEF ImportEnds, Timeout
    <3> QED
      BY <3>1, <3>2, IngestSteps, StageWrites, SpawnWrites, PassEnds, CheckpointWrites,
         PageFailsWrites DEF PassIsOver, Notes, Persist, NoWrite, ingestVars
  <2>2. /\ dir[p] \in Dir \ {Repo} /\ dirs[dir[p]] # Absent
        /\ brain' = [brain EXCEPT ![g] = dirs[dir[p]][g]]
    BY <2>1, PageLandsWrites
  <2>3. f = g
    BY <2>2 DEF IngestShape, StoreShape
  <2>4. child[p] # Idle /\ g \in child[p].todo
    BY <2>1 DEF PageLands, Page
  <2>5. Used(dir[p]) /\ dirs[dir[p]][g] # 0
    BY <2>2, <2>4 DEF Used, Busy, TodoIsStaged
  <2> QED
    BY <2>2, <2>3, <2>5 DEF UsedIsAllowed
<1> QED
  BY <1>1, <1>2, <1>3, PTL DEF IngestSpec, PolicyHonoured

-----------------------------------------------------------------------------
(* What is recorded, until passes run side by side.                         *)

Alone == \A p, q \in Proc : Busy(p) /\ Busy(q) => p = q

NothingNewer ==
    \A f \in File : brain[f] <= src[f] /\ outbox[f] <= src[f] /\ state[f] <= src[f]

\* What is recorded and not loosely so is nowhere newer than in s.
Covers(f, s) == f \in loose \/ state[f] <= s[f] \/ state[f] <= outbox[f]

\* No page in a directory in use is older than what is recorded.
UsedIsCurrent ==
    \A d \in Dir \ {Repo} : Used(d) =>
        \A f \in File : dirs[d][f] # 0 => dirs[d][f] <= src[f] /\ Covers(f, dirs[d])

OneUsed == \A p \in Proc : Busy(p) => \A d \in Dir \ {Repo} : Used(d) => d = dir[p]

\* The pages of p's directory that are in the brain, but for those of T.
Landed(p, T) ==
    {f \in (File \ failed[p]) \ T : dirs[dir[p]][f] # 0 /\ brain[f] = dirs[dir[p]][f]}

\* The import has reported no more than what landed.
Counted(p) ==
    /\ pc[p] # "off" => loaded[p] = state /\ dirs[dir[p]] # Absent
    /\ pc[p] = "importing" =>
          /\ child[p].todo \cap failed[p] = {}
          /\ child[p].landed <= Cardinality(Landed(p, child[p].todo))
    /\ pc[p] = "ended" => result[p].landed <= Cardinality(Landed(p, {}))

Orderly ==
    /\ Alone /\ OneUsed /\ NothingNewer /\ UsedIsCurrent
    /\ \A p \in Proc : Counted(p)
    /\ \A f \in File : Covers(f, brain)

RecordInv == IngestShape /\ TodoIsStaged /\ (~mingled => Orderly)

LEMMA RecordInitInv == IngestInit => RecordInv
<1> SUFFICES ASSUME IngestInit PROVE RecordInv
  OBVIOUS
<1>1. IngestShape
  BY IngestShapeInit
<1>2. TodoIsStaged /\ Alone /\ OneUsed /\ \A p \in Proc : Counted(p)
  BY DEF IngestInit, TodoIsStaged, Alone, OneUsed, Counted, Busy
<1>3. NothingNewer /\ \A f \in File : Covers(f, brain)
  <2>1. \A f \in File : src[f] \in 0..1 /\ brain[f] = 0 /\ outbox[f] = 0 /\ state[f] = 0
    BY DEF IngestInit, Nothing
  <2> QED
    BY <2>1 DEF NothingNewer, Covers
<1>4. UsedIsCurrent
  BY NoneUsed DEF UsedIsCurrent
<1> QED
  BY <1>1, <1>2, <1>3, <1>4 DEF RecordInv, Orderly

\* A pass begins by itself; whoever else is busy was so before, where it was.
LEMMA BusyStep ==
    ASSUME IngestShape, [IngestNext]_ingestVars, ~mingled', NEW p \in Proc, Busy(p)'
    PROVE  \/ Busy(p) /\ dir'[p] = dir[p]
           \/ /\ \E mode \in Mode : Stage(p, mode, decideResume)
              /\ \A q \in Proc \ {p} : ~Busy(q) /\ ~Busy(q)'
<1> DEFINE Was(q) == Busy(q) /\ dir'[q] = dir[q]
<1>o. ASSUME NEW q \in Proc, OtherPasses(q), Busy(q)' => Was(q) PROVE Was(p)
  BY <1>o DEF OtherPasses, Busy
<1>1. ASSUME NEW q \in Proc, NEW mode \in Mode, Stage(q, mode, decideResume)
      PROVE  \/ Was(p)
             \/ p = q /\ \A r \in Proc \ {p} : ~Busy(r) /\ ~Busy(r)'
  <2>1. OtherPasses(q) /\ Mingles(q)
    BY <1>1, StageWrites DEF Stage
  <2> QED
    BY <2>1 DEF OtherPasses, Busy, Mingles
<1>2. ASSUME UNCHANGED passVars PROVE Was(p)
  BY <1>2 DEF passVars, Busy
<1>3. CASE UNCHANGED ingestVars \/ Around
  BY <1>2, <1>3 DEF ingestVars, Around, Poisoned, Edit, PolicyChanges
<1>4. ASSUME NEW q \in Proc, NEW mode \in Mode, Notes(q, mode) PROVE Was(p)
  BY <1>2, <1>4 DEF Notes, Persist, NoWrite
<1>5. ASSUME NEW q \in Proc, Spawn(q) \/ Timeout(q) \/ PassIsOver(q) PROVE Was(p)
  BY <1>5, <1>o, SpawnWrites, TimeoutWrites, PassEnds DEF Busy, ChildMoves, PassIsOver
<1>6. ASSUME NEW q \in Proc, WritesCheckpoint(q) PROVE Was(p)
  BY <1>2, <1>6, CheckpointWrites
<1>7. ASSUME NEW q \in Proc, ImportEnds(q) PROVE Was(p)
  BY <1>7, <1>o, EndedWrites DEF ImportEnds, Busy
<1>8. ASSUME NEW q \in Proc, NEW f \in File, PageLands(q, f) \/ PageFails(q, f) PROVE Was(p)
  BY <1>8, <1>o, PageLandsWrites, PageFailsWrites DEF Busy, ChildMoves
<1> QED
  BY <1>1, <1>2, <1>3, <1>4, <1>5, <1>6, <1>7, <1>8, IngestSteps

LEMMA AloneStep ==
    ASSUME IngestShape, Alone, [IngestNext]_ingestVars, ~mingled' PROVE Alone'
BY BusyStep DEF Alone

LEMMA OneUsedStep ==
    ASSUME IngestShape, Alone, OneUsed, [IngestNext]_ingestVars, ~mingled' PROVE OneUsed'
<1> SUFFICES ASSUME NEW p \in Proc, Busy(p)', NEW d \in Dir \ {Repo}, Used(d)'
             PROVE  d = dir'[p]
  BY DEF OneUsed
<1>1. CASE Busy(p) /\ dir'[p] = dir[p]
  <2>1. ASSUME NEW q \in Proc, NEW mode \in Mode, Stage(q, mode, decideResume), dir'[q] = d
        PROVE  q = p
    <3>1. Busy(q)'
      BY <2>1, StageWrites DEF Busy
    <3> QED
      BY <3>1, AloneStep DEF Alone
  <2> QED
    BY <1>1, <2>1, UsedStep DEF OneUsed
<1>2. ASSUME NEW mode \in Mode, Stage(p, mode, decideResume), \A q \in Proc \ {p} : ~Busy(q)'
      PROVE  d = dir'[p]
  <2>1. UNCHANGED checkpoint /\ (Resumes(p) \/ Makes(p, preparePages(mode, state)))
    BY <1>2, StageWrites
  <2>2. checkpoint.dir = d /\ dirs'[d] # Absent => d = dir'[p]
    BY <2>1, Resumable, Dirs DEF Resumes, Makes, decideResume, checkOwnedStagingDir
  <2> QED
    BY <1>2, <2>1, <2>2 DEF Used
<1> QED
  BY <1>1, <1>2, BusyStep

\* What is recorded by a pass that ended well, and not loosely, is in the brain.
LEMMA AllLanded ==
    ASSUME IngestShape, Orderly, NEW p \in Proc, Recorded(p),
           NEW f \in (prepared[p] \ FailedSources(p)) \ Loose(p)
    PROVE  brain[f] = src[f]
<1> DEFINE P == prepared[p]
           F == failed[p]
           L == Landed(p, {})
<1>1. /\ P \subseteq File /\ F \subseteq File /\ f \in P \ F
      /\ result[p].landed \in Nat /\ result[p].landed <= Cardinality(L)
      /\ result[p].landed >= Cardinality(P) - Cardinality(F \cap P)
  BY DEF Orderly, IngestShape, PassShape, ResultType, Recorded, Counted, Accounted, FailedSources
<1>2. \A g \in File : dirs[dir[p]][g] # 0 => g \in P
  BY DEF Loose
<1>3. L \subseteq P \ F
  BY <1>2 DEF Landed
<1>4. IsFiniteSet(P) /\ IsFiniteSet(P \ F)
  BY <1>1, FS_Subset, IngestAssumption
<1>5. Cardinality(P \ F) = Cardinality(P) - Cardinality(P \cap F) /\ P \cap F = F \cap P
  BY <1>4, FS_Difference
<1>6. /\ IsFiniteSet(L) /\ Cardinality(L) <= Cardinality(P \ F)
      /\ Cardinality(L) = Cardinality(P \ F) => P \ F = L
  BY <1>3, <1>4, FS_Subset
<1>7. Cardinality(L) \in Nat /\ Cardinality(P \ F) \in Nat
  BY <1>4, <1>6, FS_CardinalityType
<1>8. L = P \ F
  <2>1. P \cap F \subseteq P
    OBVIOUS
  <2>2. Cardinality(P) \in Nat /\ Cardinality(P \cap F) \in Nat
    BY <1>4, <2>1, FS_Subset, FS_CardinalityType
  <2>3. result[p].landed >= Cardinality(P) - Cardinality(P \cap F)
    BY <1>1, <1>5
  <2> QED
    BY <1>1, <1>5, <1>6, <1>7, <2>2, <2>3
<1>9. f \in L
  BY <1>1, <1>8
<1> QED
  BY <1>9 DEF Landed, Loose

\* A pass goes on beside what is recorded and ingested.
LEMMA CountedKept ==
    ASSUME NEW p \in Proc, Counted(p), UNCHANGED <<brain, state>>,
           dirs'[dir'[p]] = dirs[dir[p]],
           pc'[p] = pc[p], loaded'[p] = loaded[p],
           failed'[p] = failed[p], result'[p] = result[p],
           child'[p].todo = child[p].todo, child'[p].landed = child[p].landed
    PROVE  Counted(p)'
<1>1. Landed(p, child[p].todo)' = Landed(p, child[p].todo) /\ Landed(p, {})' = Landed(p, {})
  BY DEF Landed
<1> QED
  BY <1>1 DEF Counted

LEMMA CountedStep ==
    ASSUME IngestShape, TodoIsStaged, Orderly, [IngestNext]_ingestVars, ~mingled', NEW p \in Proc
    PROVE  Counted(p)'
<1>t. /\ Counted(p) /\ PassOK(p) /\ PassShape /\ StoreShape
      /\ failed[p] \subseteq File /\ child[p] \in ChildType
  BY DEF Orderly, IngestShape, PassShape
<1>o. pc'[p] = "off" => Counted(p)'
  BY DEF Counted
<1>a. ASSUME pc'[p] # "off"
      PROVE  \/ \A q \in Proc \ {p} : ~Busy(q)
  <2>1. Busy(p)'
    BY <1>a DEF Busy
  <2> QED
    BY <2>1, BusyStep DEF Orderly, Alone
<1>1. CASE UNCHANGED <<brain, state, dirs, passVars>>
  BY <1>1, <1>t, CountedKept DEF passVars
<1>2. CASE UNCHANGED ingestVars \/ Around
  BY <1>1, <1>2 DEF ingestVars, Around, Poisoned, Edit, PolicyChanges
<1>3. ASSUME NEW q \in Proc, NEW mode \in Mode, Notes(q, mode) PROVE Counted(p)'
  <2>1. UNCHANGED passVars /\ Mingles(q) /\ ~Busy(q)
    BY <1>3 DEF Notes, Persist, NoWrite, Ready
  <2>2. ~Busy(p)
    BY <2>1 DEF Mingles
  <2> QED
    BY <1>o, <2>1, <2>2 DEF Busy, passVars
<1>4. ASSUME NEW q \in Proc, NEW mode \in Mode, Stage(q, mode, decideResume), q # p PROVE Counted(p)'
  <2>1. Mingles(q) /\ pc'[p] = pc[p]
    BY <1>4, StageWrites DEF Stage, OtherPasses
  <2> QED
    BY <1>4, <1>o, <2>1 DEF Mingles, Busy
<1>5. ASSUME NEW mode \in Mode, Stage(p, mode, decideResume) PROVE Counted(p)'
  <2>1. loaded'[p] = state /\ pc'[p] = "staged" /\ UNCHANGED state
    BY <1>5, StageWrites
  <2>2. dirs'[dir'[p]] # Absent
    BY <1>5, StageWrites, Resumable DEF Resumes, Makes
  <2> QED
    BY <2>1, <2>2 DEF Counted
<1>6. CASE Spawn(p)
  <2>1. /\ pc[p] = "staged" /\ pc'[p] = "importing" /\ failed'[p] = {} /\ child'[p].landed = 0
        /\ UNCHANGED <<state, dirs, loaded, dir>>
    BY <1>6, SpawnWrites
  <2>2. Landed(p, child[p].todo)' \subseteq File
    BY DEF Landed
  <2>3. child'[p].landed <= Cardinality(Landed(p, child[p].todo)')
    BY <2>1, <2>2, FS_Subset, FS_CardinalityType, IngestAssumption
  <2> QED
    BY <1>t, <2>1, <2>3 DEF Counted
<1>7. CASE Timeout(p)
  <2>1. UNCHANGED <<brain, failed>>
    BY <1>7 DEF Timeout
  <2> QED
    BY <1>7, <1>t, <2>1, TimeoutWrites, CountedKept DEF ChildMoves
<1>8. CASE PassIsOver(p)
  BY <1>8, <1>o, PassEnds DEF PassIsOver
<1>9. ASSUME NEW q \in Proc, WritesCheckpoint(q) PROVE Counted(p)'
  BY <1>1, <1>9, CheckpointWrites
<1>10. CASE ImportEnds(p)
  <2>1. CASE pc[p] = "importing"
    <3>1. /\ pc'[p] = "ended" /\ result'[p].landed = child[p].landed /\ dir'[p] = dir[p]
          /\ UNCHANGED <<brain, state, dirs, loaded, failed>>
      BY <1>10, <2>1, EndedWrites DEF ImportEnds, Busy
    <3>2. Landed(p, {})' = Landed(p, {})
      BY <3>1 DEF Landed
    <3>3. Landed(p, {}) \subseteq File /\ Landed(p, child[p].todo) \subseteq Landed(p, {})
      BY DEF Landed
    <3>4. IsFiniteSet(Landed(p, {})) /\ IsFiniteSet(Landed(p, child[p].todo))
      BY <3>3, FS_Subset, IngestAssumption
    <3>5. /\ Cardinality(Landed(p, child[p].todo)) <= Cardinality(Landed(p, {}))
          /\ Cardinality(Landed(p, child[p].todo)) \in Nat /\ Cardinality(Landed(p, {})) \in Nat
      BY <3>3, <3>4, FS_Subset, FS_CardinalityType
    <3>6. child[p].landed \in Nat /\ child[p].landed <= Cardinality(Landed(p, child[p].todo))
      BY <1>t, <2>1 DEF Counted, ChildType
    <3>7. result'[p].landed <= Cardinality(Landed(p, {}))
      BY <3>1, <3>5, <3>6
    <3> QED
      BY <1>t, <2>1, <3>1, <3>2, <3>7 DEF Counted
  <2>2. CASE pc[p] # "importing"
    BY <1>10, <1>o, <2>2, EndedWrites DEF ImportEnds
  <2> QED
    BY <2>1, <2>2
<1>11. ASSUME NEW f \in File, PageLands(p, f) PROVE Counted(p)'
  <2>1. /\ UNCHANGED <<state, failed, pc, loaded, dirs, dir, result>>
        /\ child'[p].todo = child[p].todo \ {f} /\ child'[p].landed = child[p].landed + 1
        /\ brain' = [brain EXCEPT ![f] = dirs[dir[p]][f]]
        /\ child[p] # Idle /\ f \in child[p].todo /\ dirs[dir[p]][f] # 0
    BY <1>11, PageLandsWrites DEF ChildMoves, PageLands, Page, TodoIsStaged
  <2>2. brain'[f] = dirs[dir[p]][f] /\ \A g \in File \ {f} : brain'[g] = brain[g]
    BY <1>t, <2>1 DEF StoreShape
  <2>3. CASE pc[p] = "importing"
    <3> DEFINE A == Landed(p, child[p].todo)
               B == Landed(p, child[p].todo)'
    <3>1. child[p].todo \cap failed[p] = {}
      BY <1>t, <2>3 DEF Counted
    <3>2. B = A \cup {f} /\ f \notin A
      BY <2>1, <2>2, <3>1 DEF Landed
    <3>3. IsFiniteSet(A) /\ Cardinality(A) \in Nat
      BY FS_Subset, FS_CardinalityType, IngestAssumption DEF Landed
    <3>4. Cardinality(B) = Cardinality(A) + 1
      BY <3>2, <3>3, FS_AddElement
    <3>5. child[p].landed \in Nat /\ child[p].landed <= Cardinality(A)
      BY <1>t, <2>3 DEF Counted, ChildType
    <3>6. child'[p].landed <= Cardinality(B)
      BY <2>1, <3>3, <3>4, <3>5
    <3> QED
      BY <1>t, <2>1, <2>3, <3>1, <3>6 DEF Counted
  <2>4. CASE pc[p] # "importing"
    <3>1. pc[p] = "off"
      BY <1>t, <2>1, <2>4 DEF PassOK, PassShape
    <3> QED
      BY <1>o, <2>1, <3>1
  <2> QED
    BY <2>3, <2>4
<1>12. ASSUME NEW f \in File, PageFails(p, f) PROVE Counted(p)'
  <2>1. /\ UNCHANGED <<brain, state, pc, loaded, dirs, dir, result>>
        /\ child'[p].todo = child[p].todo \ {f} /\ child'[p].landed = child[p].landed
        /\ failed'[p] = IF pc[p] = "importing" THEN failed[p] \cup {f} ELSE failed[p]
        /\ child[p] # Idle /\ f \in child[p].todo
    BY <1>12, PageFailsWrites DEF ChildMoves, PageFails, Page
  <2>2. CASE pc[p] = "importing"
    <3>1. Landed(p, child[p].todo)' = Landed(p, child[p].todo)
      BY <2>1, <2>2 DEF Landed
    <3> QED
      BY <1>t, <2>1, <2>2, <3>1 DEF Counted
  <2>3. CASE pc[p] # "importing"
    <3>1. pc[p] = "off"
      BY <1>t, <2>1, <2>3 DEF PassOK, PassShape
    <3> QED
      BY <1>o, <2>1, <3>1
  <2> QED
    BY <2>2, <2>3
\* Nobody else is busy, so nobody else takes a step of a pass or an import.
<1>13. ASSUME NEW q \in Proc \ {p}, Spawn(q) \/ Timeout(q) \/ PassIsOver(q) \/ ImportEnds(q)
                 \/ \E f \in File : PageLands(q, f) \/ PageFails(q, f)
       PROVE  Counted(p)'
  <2>1. Busy(q)
    BY <1>13 DEF Busy, Spawn, Timeout, PassIsOver, Recorded, Refused, Signalled, Killed, ImportEnds,
                 PageLands, PageFails, Page
  <2> QED
    BY <1>a, <1>o, <2>1
<1>14. CASE UNCHANGED <<src, denied, brain, outbox, state, dirs, checkpoint, passVars, histories>>
  BY <1>1, <1>14
<1> QED
  BY <1>2, <1>3, <1>4, <1>5, <1>6, <1>7, <1>8, <1>9, <1>10, <1>11, <1>12, <1>13, <1>14, IngestSteps

\* Nothing is newer than its source, no page in use older than what is recorded.
LEMMA StoresStep ==
    ASSUME IngestShape, TodoIsStaged, Orderly, [IngestNext]_ingestVars, ~mingled'
    PROVE  NothingNewer' /\ UsedIsCurrent' /\ \A f \in File : Covers(f, brain)'
<1> DEFINE Good == NothingNewer' /\ UsedIsCurrent' /\ \A f \in File : Covers(f, brain)'
<1>t. /\ StoreShape /\ NothingNewer /\ UsedIsCurrent /\ \A f \in File : Covers(f, brain)
      /\ \A f \in File : src[f] \in Nat /\ brain[f] \in Nat /\ outbox[f] \in Nat /\ state[f] \in Nat
  BY DEF Orderly, IngestShape, StoreShape
\* Nothing is recorded or lands; a source may be edited, a directory made.
<1>k. ASSUME UNCHANGED <<brain, outbox, state, loose>>,
             \A f \in File : src'[f] \in Nat /\ src[f] <= src'[f],
             \A p \in Proc, mode \in Mode : Stage(p, mode, decideResume) => UNCHANGED src
      PROVE  Good
  <2>1. NothingNewer' /\ \A f \in File : Covers(f, brain)'
    BY <1>k, <1>t DEF NothingNewer, Covers
  <2>2. ASSUME NEW d \in Dir \ {Repo}, Used(d)', NEW f \in File, dirs'[d][f] # 0
        PROVE  dirs'[d][f] <= src'[f] /\ Covers(f, dirs[d])'
    <3>1. CASE Used(d) /\ dirs'[d] = dirs[d]
      <4>1. dirs[d][f] \in Nat
        BY <1>t, <3>1 DEF StoreShape, Used
      <4> QED
        BY <1>k, <1>t, <2>2, <3>1, <4>1 DEF UsedIsCurrent, Covers
    <3>2. ASSUME NEW p \in Proc, NEW mode \in Mode, Stage(p, mode, decideResume),
                 dirs'[d][f] = src[f]
          PROVE  dirs'[d][f] <= src'[f] /\ Covers(f, dirs[d])'
      BY <1>k, <1>t, <3>2 DEF NothingNewer, Covers
    <3> QED
      BY <2>2, <3>1, <3>2, UsedStep
  <2> QED
    BY <2>1, <2>2 DEF UsedIsCurrent
<1>1. ASSUME UNCHANGED <<src, brain, outbox, state, loose>> PROVE Good
  BY <1>1, <1>k, <1>t
<1>2. CASE UNCHANGED ingestVars
  BY <1>1, <1>2 DEF ingestVars, histories
<1>3. CASE Around
  <2>1. UNCHANGED <<brain, outbox, state, loose>>
    BY <1>3 DEF Around, Poisoned, Edit, PolicyChanges, histories
  <2>2. \A f \in File : src'[f] \in Nat /\ src[f] <= src'[f]
    BY <1>3, <1>t DEF Around, Poisoned, Edit, PolicyChanges, StoreShape
  <2>3. \A p \in Proc, mode \in Mode : Stage(p, mode, decideResume) => UNCHANGED src
    BY StageWrites
  <2> QED
    BY <1>k, <2>1, <2>2, <2>3
<1>4. ASSUME NEW p \in Proc, NEW mode \in Mode, Notes(p, mode) PROVE Good
  <2>1. PICK P \in SUBSET File :
           /\ UNCHANGED <<src, brain, dirs, checkpoint, passVars>> /\ state' = Stamped(state, P)
           /\ \/ outbox' = Stamped(outbox, P) /\ loose' = loose \ P
              \/ UNCHANGED outbox /\ loose' = loose \cup P
    <3>1. \A m : preparePages(m, state) \in SUBSET File
      BY DEF preparePages
    <3>2. CASE Persist(p, mode)
      BY <3>1, <3>2 DEF Persist
    <3>3. CASE NoWrite(p, mode)
      BY <3>1, <3>3 DEF NoWrite
    <3> QED
      BY <1>4, <3>2, <3>3 DEF Notes
  <2>2. \A f \in File : /\ state'[f] = IF f \in P THEN src[f] ELSE state[f]
                        /\ outbox'[f] = outbox[f] \/ (outbox'[f] = src[f] /\ f \in P)
    BY <2>1, <1>t DEF Stamped
  <2>3. \A f \in File : f \notin loose' => (f \in P => outbox'[f] = src[f]) /\ (f \notin P => f \notin loose)
    BY <2>1 DEF Stamped
  <2>4. \A f \in File : \/ f \in loose' \/ state'[f] <= outbox'[f]
                        \/ f \notin loose /\ state'[f] = state[f] /\ outbox'[f] = outbox[f]
    <3> TAKE f \in File
    <3>1. CASE f \in P
      BY <1>t, <2>2, <2>3, <3>1
    <3>2. CASE f \notin P
      BY <2>2, <2>3, <3>2
    <3> QED
      BY <3>1, <3>2
  <2>5. NothingNewer'
    BY <1>t, <2>1, <2>2 DEF NothingNewer
  <2>6. \A f \in File : Covers(f, brain)'
    BY <1>t, <2>1, <2>4 DEF Covers
  <2>7. UsedIsCurrent'
    BY <1>t, <2>1, <2>4 DEF UsedIsCurrent, Used, Busy, passVars, Covers
  <2> QED
    BY <2>5, <2>6, <2>7
<1>5. ASSUME NEW p \in Proc, NEW mode \in Mode, Stage(p, mode, decideResume)
      PROVE  UNCHANGED <<src, brain, outbox, state, loose>>
  BY <1>5 DEF Stage
<1>6. ASSUME NEW p \in Proc, Spawn(p) \/ WritesCheckpoint(p) \/ Timeout(p)
      PROVE  UNCHANGED <<src, brain, outbox, state, loose>>
  BY <1>6 DEF Spawn, WritesCheckpoint, Timeout, histories
<1>7. ASSUME NEW p \in Proc, Refused(p) \/ Signalled(p) \/ Killed(p)
      PROVE  UNCHANGED <<src, brain, outbox, state, loose>>
  BY <1>7 DEF Refused, Signalled, Killed, Over
<1>8. ASSUME NEW p \in Proc, Recorded(p) PROVE Good
  <2> DEFINE P == prepared[p] \ FailedSources(p)
             X == Loose(p)
  <2>1. /\ state' = Stamped(state, P) /\ loose' = (loose \ P) \cup (X \cap P)
        /\ UNCHANGED <<src, brain, outbox>> /\ dirs' = Cleaned(dir[p]) /\ pc[p] = "ended"
    BY <1>8 DEF Recorded, Over, Orderly, Counted
  <2>2. \A f \in P \ X : f \in File => brain[f] = src[f]
    BY <1>8, AllLanded
  <2> HIDE DEF P, X
  <2>3. \A f \in File : state'[f] = IF f \in P THEN src[f] ELSE state[f]
    BY <2>1 DEF Stamped
  <2>4. NothingNewer'
    BY <1>t, <2>1, <2>3 DEF NothingNewer
  <2>5. ASSUME NEW f \in File PROVE Covers(f, brain)'
    <3>1. CASE f \in P
      <4>1. f \in X => f \in loose'
        BY <2>1, <3>1
      <4>2. f \notin X => state'[f] <= brain'[f]
        BY <1>t, <2>1, <2>2, <2>3, <3>1
      <4> QED
        BY <4>1, <4>2 DEF Covers
    <3>2. CASE f \notin P
      BY <1>t, <2>1, <2>3, <3>2 DEF Covers
    <3> QED
      BY <3>1, <3>2
  <2>6. ASSUME NEW d \in Dir \ {Repo}, Used(d)' PROVE FALSE
    <3>1. Used(d) /\ dirs'[d] = dirs[d]
      BY <1>8, <2>6, UsedStep, StageWrites, PassEnds DEF OtherPasses
    <3>2. d = dir[p]
      BY <2>1, <3>1 DEF Orderly, OneUsed, Busy
    <3> QED
      BY <2>1, <2>6, <3>2, CleanedWrites DEF Used
  <2> QED
    BY <2>4, <2>5, <2>6 DEF UsedIsCurrent
<1>9. ASSUME NEW p \in Proc, ImportEnds(p) PROVE UNCHANGED <<src, brain, outbox, state, loose>>
  BY <1>9 DEF ImportEnds, Ended, histories
<1>10. ASSUME NEW p \in Proc, NEW f \in File, PageFails(p, f)
       PROVE  UNCHANGED <<src, brain, outbox, state, loose>>
  BY <1>10 DEF PageFails, histories
<1>11. ASSUME NEW p \in Proc, NEW f \in File, PageLands(p, f) PROVE Good
  <2>1. /\ UNCHANGED <<src, state, outbox, loose, dirs, checkpoint, dir>>
        /\ dir[p] \in Dir \ {Repo} /\ dirs[dir[p]] # Absent
        /\ brain' = [brain EXCEPT ![f] = dirs[dir[p]][f]]
        /\ child[p] # Idle /\ f \in child[p].todo
    BY <1>11, PageLandsWrites DEF ChildMoves, PageLands, Page, histories
  <2>2. Used(dir[p]) /\ dirs[dir[p]][f] # 0
    BY <2>1 DEF Used, Busy, TodoIsStaged
  <2>3. dirs[dir[p]][f] <= src[f] /\ Covers(f, dirs[dir[p]])
    BY <1>t, <2>1, <2>2 DEF UsedIsCurrent
  <2>4. \A g \in File : brain'[g] = IF g = f THEN dirs[dir[p]][f] ELSE brain[g]
    BY <1>t, <2>1 DEF StoreShape
  <2>5. NothingNewer' /\ \A g \in File : Covers(g, brain)'
    BY <1>t, <2>1, <2>3, <2>4 DEF NothingNewer, Covers
  <2>6. UsedIsCurrent'
    <3> SUFFICES ASSUME NEW d \in Dir \ {Repo}, Used(d)', NEW g \in File, dirs'[d][g] # 0
                 PROVE  dirs'[d][g] <= src'[g] /\ Covers(g, dirs[d])'
      BY DEF UsedIsCurrent
    <3>1. Used(d) /\ dirs'[d] = dirs[d]
      <4>1. child'[p] # Idle /\ OtherPasses(p) /\ UNCHANGED pc
        BY <1>11, PageLandsWrites DEF ChildMoves
      <4> QED
        BY <2>1, <4>1 DEF Used, Busy, OtherPasses
    <3> QED
      BY <1>t, <2>1, <3>1 DEF UsedIsCurrent, Covers
  <2> QED
    BY <2>5, <2>6
<1>12. CASE UNCHANGED <<src, denied, brain, outbox, state, dirs, checkpoint, passVars, histories>>
  BY <1>1, <1>12 DEF histories
<1> QED
  BY <1>1, <1>2, <1>3, <1>4, <1>5, <1>6, <1>7, <1>8, <1>9, <1>10, <1>11, <1>12, IngestSteps
  DEF PassIsOver

(* What is recorded as ingested is in the brain, or in the directory that    *)
(* the artifacts push takes, in that version or a later one, but for the     *)
(* sources last recorded loosely and until passes run side by side: for any  *)
(* number of sources, versions, directories, passes and mishaps, in bulk or  *)
(* not, whatever is edited or denied meanwhile                               *)
(* (bin/gstack-memory-ingest.ts, ingestPass).                                *)
THEOREM OnlyIngestedIsRecorded == IngestSpec => []RecordedIsIngested
<1>1. RecordInv /\ [IngestNext]_ingestVars => RecordInv'
  <2> SUFFICES ASSUME RecordInv, [IngestNext]_ingestVars PROVE RecordInv'
    OBVIOUS
  <2>1. IngestShape' /\ TodoIsStaged'
    BY IngestShapeStep, TodoStep DEF RecordInv
  <2>2. ASSUME ~mingled' PROVE Orderly'
    <3>1. ~mingled
      BY <2>2, HistorySteps DEF Mingles
    <3>2. IngestShape /\ TodoIsStaged /\ Orderly
      BY <3>1 DEF RecordInv
    <3>3. Alone' /\ OneUsed'
      BY <2>2, <3>2, AloneStep, OneUsedStep DEF Orderly
    <3>4. \A p \in Proc : Counted(p)'
      BY <2>2, <3>2, CountedStep
    <3>5. NothingNewer' /\ UsedIsCurrent' /\ \A f \in File : Covers(f, brain)'
      BY <2>2, <3>2, StoresStep
    <3> QED
      BY <3>3, <3>4, <3>5 DEF Orderly
  <2> QED
    BY <2>1, <2>2 DEF RecordInv
<1>2. RecordInv => RecordedIsIngested
  BY DEF RecordInv, Orderly, Covers, RecordedIsIngested
<1> QED
  BY <1>1, <1>2, RecordInitInv, PTL DEF IngestSpec
=============================================================================
