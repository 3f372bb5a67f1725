-------------------------- MODULE BrowseParts_proofs --------------------------
(***************************************************************************)
(* Parts of the browse daemon: the outcome of a scan by the sidecar, for any *)
(* number of scans, children and failures; what a start of the tunnel      *)
(* leaves behind, for any handlers; the tabs and the scale after the       *)
(* context was rebuilt, for any tabs.                                      *)
(***************************************************************************)
EXTENDS SecuritySidecar, Tunnel, ContextRebuild, TLAPS

-----------------------------------------------------------------------------
(* The security sidecar (SecuritySidecar).                                 *)
(*                                                                         *)
(* Numbers identify scans because state.nextId survives every respawn:     *)
(* what a child has read bears the number of the scan it came from, and no *)
(* two scans have the same.  As long as no child emits "error", the        *)
(* current child is the only one that lives, and the child of every scan   *)
(* that waits: the exit that rejects them is their own.                    *)

Reason == {"none", "broken", "write", "spawn", "timeout", "error", "died"}

CallRecord == [pc : {"new", "waiting", "resolved", "rejected"}, id : Nat,
               child : Child \cup {NoChild}, verdict : Caller \cup Reason]

Shape ==
    /\ child \in Child \cup {NoChild}
    /\ life \in [Child -> {"none", "running", "signalled", "gone"}]
    /\ queue \in [Child -> SUBSET [id : Nat, scan : Caller]]
    /\ nextId \in Nat \ {0}
    /\ call \in [Caller -> CallRecord]
    /\ erred \in BOOLEAN

\* A scan's number is of those handed out, and no other scan's; a scan that
\* has one was sent to a child.
Died(s) == call[s].pc = "rejected" /\ call[s].verdict = "died"

Numbered ==
    /\ \A s \in Caller :
          /\ call[s].id < nextId
          /\ call[s].pc = "new" => call[s].id = 0
          /\ call[s].pc = "waiting" \/ Died(s) => call[s].id # 0
          /\ call[s].id # 0 => call[s].child \in Child
    /\ \A s, t \in Caller : call[s].id # 0 /\ call[s].id = call[t].id => s = t

\* What a child has read is known by the number of its scan.
QueuedAsSent ==
    \A k \in Child : \A a \in queue[k] : a.id # 0 /\ a.id = call[a.scan].id

\* The current child is the only one alive, and the one the scans wait for.
SoleChild ==
    /\ \A k \in Child : life[k] \in {"running", "signalled"} => k = child
    /\ \A s \in Caller : call[s].pc = "waiting" => child # NoChild /\ call[s].child = child

IInv ==
    /\ Shape
    /\ Numbered
    /\ QueuedAsSent
    /\ ~erred => SoleChild
    /\ OutcomeIsItsOwn

LEMMA NoChildIsNoneOf == NoChild \notin Child
BY DEF NoChild, Child

\* A child that is gone stays so.
GoneStays == \A k \in Child : life[k] = "gone" => life'[k] = "gone"

LEMMA InitIInv == SidecarInit => IInv
<1> SUFFICES ASSUME SidecarInit PROVE IInv
  OBVIOUS
<1>1. \A s \in Caller : call[s] = NewCall BY DEF SidecarInit
<1>2. Shape
  <2>1. NewCall \in CallRecord BY DEF NewCall, CallRecord, Reason, NoChild
  <2>2. life \in [Child -> {"none", "running", "signalled", "gone"}] BY DEF SidecarInit
  <2>3. queue \in [Child -> SUBSET [id : Nat, scan : Caller]] BY DEF SidecarInit
  <2>4. call \in [Caller -> CallRecord] BY <2>1 DEF SidecarInit
  <2>5. child \in Child \cup {NoChild} /\ erred \in BOOLEAN BY DEF SidecarInit
  <2>6. nextId \in Nat \ {0} BY DEF SidecarInit
  <2> QED BY <2>2, <2>3, <2>4, <2>5, <2>6 DEF Shape
<1>3. Numbered /\ OutcomeIsItsOwn
  BY <1>1 DEF SidecarInit, NewCall, Numbered, Died, OutcomeIsItsOwn
<1>4. QueuedAsSent BY DEF SidecarInit, QueuedAsSent
<1>5. SoleChild BY <1>1 DEF SidecarInit, NewCall, SoleChild
<1> QED BY <1>2, <1>3, <1>4, <1>5 DEF IInv

\* The steps that change no more than how scans stand, from "new" to a
\* rejection or from "waiting" to an outcome of their own, and drop what a
\* child has read.
Settles(s, c) ==
    \/ c = call[s]
    \/ /\ call[s].pc \in {"new", "waiting"}
       /\ \/ \E why \in Reason \ {"died"} : c = Rejected(s, why)
          \/ call[s].pc = "waiting" /\ c = [call[s] EXCEPT !.pc = "resolved", !.verdict = s]

LEMMA SettlingKeepsIInv ==
    ASSUME IInv, NEW c, call' = [s \in Caller |-> c[s]],
           \A s \in Caller : Settles(s, c[s]),
           queue' \in [Child -> SUBSET [id : Nat, scan : Caller]],
           \A k \in Child : queue'[k] \subseteq queue[k],
           UNCHANGED <<child, life, nextId, erred>>
    PROVE  IInv'
<1>1. \A s \in Caller : /\ call'[s] \in CallRecord
                        /\ call'[s].id = call[s].id /\ call'[s].child = call[s].child
                        /\ call'[s].pc \in {"new", "waiting"} => call'[s] = call[s]
                        /\ call'[s] = call[s] \/ call'[s].verdict # "died" \/ call'[s].pc = "resolved"
                        /\ call'[s] = call[s] \/ (call'[s].pc = "resolved" => call'[s].verdict = s)
  <2> TAKE s \in Caller
  <2>1. call'[s] = c[s] /\ call[s] \in CallRecord BY DEF IInv, Shape
  <2>2. CASE c[s] = call[s] BY <2>1, <2>2
  <2>3. ASSUME call[s].pc \in {"new", "waiting"}, NEW why \in Reason \ {"died"},
               c[s] = Rejected(s, why)
        PROVE  /\ c[s] \in CallRecord /\ c[s].pc = "rejected" /\ c[s].verdict # "died"
               /\ c[s].id = call[s].id /\ c[s].child = call[s].child
    BY <2>1, <2>3 DEF CallRecord, Rejected
  <2>4. ASSUME call[s].pc = "waiting",
               c[s] = [call[s] EXCEPT !.pc = "resolved", !.verdict = s]
        PROVE  /\ c[s] \in CallRecord /\ c[s].pc = "resolved" /\ c[s].verdict = s
               /\ c[s].id = call[s].id /\ c[s].child = call[s].child
    BY <2>1, <2>4 DEF CallRecord
  <2> QED BY <2>1, <2>2, <2>3, <2>4 DEF Settles
<1>2. Shape' BY <1>1 DEF IInv, Shape
<1>3. Numbered' BY <1>1 DEF IInv, Numbered, Died
<1>4. QueuedAsSent'
  <2> SUFFICES ASSUME NEW k \in Child, NEW a \in queue'[k] PROVE a.id # 0 /\ a.id = call'[a.scan].id
    BY DEF QueuedAsSent
  <2>1. a \in queue[k] /\ a.scan \in Caller BY DEF IInv, Shape
  <2> QED BY <2>1, <1>1 DEF IInv, QueuedAsSent
<1>5. ~erred' => SoleChild' BY <1>1 DEF IInv, SoleChild
<1>6. OutcomeIsItsOwn' BY <1>1 DEF IInv, OutcomeIsItsOwn
<1> QED BY <1>2, <1>3, <1>4, <1>5, <1>6 DEF IInv

LEMMA RefusalKeepsIInv ==
    ASSUME IInv, NEW s \in Caller, Broken(s) \/ SpawnFails(s) \/ Timeout(s) PROVE IInv'
<1>1. PICK why \in Reason \ {"died"} : call' = [call EXCEPT ![s] = Rejected(s, why)]
  BY DEF Broken, SpawnFails, Timeout, Reason
<1> DEFINE c == call'
<1>2. call' = [t \in Caller |-> c[t]] BY <1>1 DEF IInv, Shape
<1>3. \A t \in Caller : Settles(t, c[t])
  BY <1>1 DEF Settles, IInv, Shape, Broken, SpawnFails, Timeout, Waiting
<1>4. UNCHANGED <<child, life, queue, nextId, erred>> BY DEF Broken, SpawnFails, Timeout
<1> HIDE DEF c
<1> QED BY <1>2, <1>3, <1>4, SettlingKeepsIInv DEF IInv, Shape

\* The numbers tell whose answer it is: no other scan has this one.
LEMMA AnswerKeepsIInv ==
    ASSUME IInv, NEW k \in Child, NEW a \in queue[k], NEW ok \in BOOLEAN, Answer(k, a, ok)
    PROVE  IInv'
<1>1. a.scan \in Caller /\ a.id # 0 /\ a.id = call[a.scan].id
  BY DEF IInv, Shape, QueuedAsSent
<1>2. \A s \in Caller : call[s].id = a.id => s = a.scan BY <1>1 DEF IInv, Numbered
<1>3. queue' = [queue EXCEPT ![k] = @ \ {a}] /\ UNCHANGED <<child, life, nextId, erred>>
  BY DEF Answer
<1>4. queue' \in [Child -> SUBSET [id : Nat, scan : Caller]] BY <1>3 DEF IInv, Shape
<1>5. \A j \in Child : queue'[j] \subseteq queue[j] BY <1>3 DEF IInv, Shape
<1>6. CASE buffer
  <2>1. call' = call BY <1>6 DEF Answer
  <2>2. call' = [s \in Caller |-> call[s]] BY <2>1 DEF IInv, Shape
  <2>3. \A s \in Caller : Settles(s, call[s]) BY DEF Settles
  <2> QED BY <2>2, <2>3, <1>3, <1>4, <1>5, SettlingKeepsIInv
<1>7. CASE ~buffer
  <2> DEFINE asked == {s \in Waiting : call[s].id = a.id}
             c == [s \in Caller |->
                      IF s \notin asked THEN call[s]
                      ELSE IF ok THEN [call[s] EXCEPT !.pc = "resolved", !.verdict = a.scan]
                      ELSE Rejected(s, "error")]
  <2>1. call' = [s \in Caller |-> c[s]] BY <1>7 DEF Answer
  <2>2. \A s \in Caller : Settles(s, c[s])
    <3> TAKE s \in Caller
    <3>1. CASE s \notin asked BY <3>1 DEF Settles
    <3>2. CASE s \in asked
      <4>1. call[s].pc = "waiting" /\ s = a.scan BY <3>2, <1>2 DEF Waiting
      <4>2. c[s] = IF ok THEN [call[s] EXCEPT !.pc = "resolved", !.verdict = s]
                   ELSE Rejected(s, "error")
        BY <3>2, <4>1
      <4> QED BY <4>1, <4>2 DEF Settles, Reason
    <3> QED BY <3>1, <3>2
  <2> HIDE DEF c
  <2> QED BY <2>1, <2>2, <1>3, <1>4, <1>5, SettlingKeepsIInv
<1> QED BY <1>6, <1>7

LEMMA TornKeepsIInv ==
    ASSUME IInv, NEW k \in Child, NEW a \in queue[k], Torn(k, a) PROVE IInv'
<1>1. queue' = [queue EXCEPT ![k] = {}] /\ UNCHANGED <<child, life, nextId, call, erred>>
  BY DEF Torn
<1>2. queue' \in [Child -> SUBSET [id : Nat, scan : Caller]] BY <1>1 DEF IInv, Shape
<1>3. \A j \in Child : queue'[j] \subseteq queue[j] BY <1>1 DEF IInv, Shape
<1>4. call' = [s \in Caller |-> call[s]] BY <1>1 DEF IInv, Shape
<1>5. \A s \in Caller : Settles(s, call[s]) BY DEF Settles
<1> QED BY <1>1, <1>2, <1>3, <1>4, <1>5, SettlingKeepsIInv

\* A scan that is sent gets a number nobody has had, and the current child.
LEMMA SendKeepsIInv == ASSUME IInv, NEW s \in Caller, Send(s) PROVE IInv'
<1> DEFINE Sent(k, pc, verdict) == [pc |-> pc, id |-> nextId, child |-> k, verdict |-> verdict]
<1>1. PICK k \in Spawned :
        /\ child' = k /\ nextId' = nextId + 1
        /\ life' = IF child = NoChild THEN [life EXCEPT ![k] = "running"] ELSE life
        /\ \/ call' = [call EXCEPT ![s] = Sent(k, "waiting", "none")]
           \/ call' = [call EXCEPT ![s] = Sent(k, "rejected", "write")]
        /\ queue' \in {queue, [queue EXCEPT ![k] = @ \cup {[id |-> nextId, scan |-> s]}]}
  BY DEF Send, NumberFor
<1>2. call[s].pc = "new" /\ erred' = erred BY DEF Send
<1>3. k \in Child /\ (child # NoChild => k = child) /\ (child = NoChild => life[k] = "none")
  BY NoChildIsNoneOf DEF Spawned, IInv, Shape
<1>4. PICK new \in CallRecord :
        /\ call' = [call EXCEPT ![s] = new]
        /\ new.id = nextId /\ new.child = k /\ new.pc \in {"waiting", "rejected"}
        /\ new.verdict # "died"
  <2>1. nextId \in Nat BY DEF IInv, Shape
  <2>2. /\ Sent(k, "waiting", "none") \in CallRecord
        /\ Sent(k, "rejected", "write") \in CallRecord
    BY <2>1, <1>3 DEF CallRecord, Reason
  <2> QED BY <2>2, <1>1
<1> HIDE DEF Sent
<1>5. call'[s] = new /\ \A t \in Caller \ {s} : call'[t] = call[t] BY <1>4 DEF IInv, Shape
<1>6. Shape' BY <1>1, <1>2, <1>3, <1>4 DEF IInv, Shape
<1>7. Numbered'
  <2>1. \A t \in Caller : call[t].id < nextId /\ call[t].id \in Nat BY DEF IInv, Shape, Numbered, CallRecord
  <2> QED BY <2>1, <1>1, <1>3, <1>4, <1>5 DEF IInv, Shape, Numbered, Died
<1>8. QueuedAsSent'
  <2> SUFFICES ASSUME NEW j \in Child, NEW a \in queue'[j] PROVE a.id # 0 /\ a.id = call'[a.scan].id
    BY DEF QueuedAsSent
  <2>1. CASE a \in queue[j]
    <3>1. a.id # 0 /\ a.id = call[a.scan].id /\ a.scan \in Caller
      BY <2>1 DEF IInv, Shape, QueuedAsSent
    <3>2. a.scan # s BY <3>1, <1>2 DEF IInv, Numbered
    <3> QED BY <3>1, <3>2, <1>5
  <2>2. CASE a \notin queue[j]
    <3>1. a = [id |-> nextId, scan |-> s] BY <2>2, <1>1 DEF IInv, Shape
    <3> QED BY <3>1, <1>4, <1>5 DEF IInv, Shape
  <2> QED BY <2>1, <2>2
<1>9. ~erred' => SoleChild'
  BY <1>1, <1>2, <1>3, <1>5, <1>4, NoChildIsNoneOf DEF IInv, SoleChild, Shape
<1>10. GoneStays BY <1>1, <1>3 DEF GoneStays, IInv, Shape
<1>11. OutcomeIsItsOwn'
  <2> SUFFICES ASSUME NEW t \in Caller
               PROVE  /\ call'[t].pc = "resolved" => call'[t].verdict = t
                      /\ ~erred' /\ call'[t].pc = "rejected" /\ call'[t].verdict = "died"
                         => life'[call'[t].child] = "gone"
    BY DEF OutcomeIsItsOwn
  <2>1. CASE t = s BY <2>1, <1>4, <1>5
  <2>2. CASE t # s
    <3>1. Died(t) => call[t].child \in Child BY DEF IInv, Numbered, Died
    <3> QED BY <2>2, <3>1, <1>2, <1>5, <1>10 DEF GoneStays, IInv, OutcomeIsItsOwn, Died
  <2> QED BY <2>1, <2>2
<1> QED BY <1>6, <1>7, <1>8, <1>9, <1>11 DEF IInv

\* shutdownChild.  Every scan that waits is rejected, as the current child's.
LEMMA ShutdownKeepsIInv ==
    ASSUME IInv, NEW lives \in [Child -> {"none", "running", "signalled", "gone"}],
           \A j \in Child : /\ life[j] = "gone" => lives[j] = "gone"
                            /\ lives[j] = life[j] \/ lives[j] = "gone",
           shutdownChild(lives), erred' \in BOOLEAN, erred => erred',
           ~erred' => \A j \in Child : j = child => lives[j] = "gone",
           UNCHANGED <<queue, nextId>>
    PROVE  IInv'
<1>1. \A s \in Caller : \/ call'[s] = call[s] /\ (call[s].pc = "waiting" => child = NoChild)
                        \/ /\ call[s].pc = "waiting" /\ child # NoChild
                           /\ call'[s] = [call[s] EXCEPT !.pc = "rejected", !.verdict = "died"]
  BY DEF shutdownChild, Rejected, Waiting, IInv, Shape
<1>2. \A s \in Caller : /\ call'[s] \in CallRecord
                        /\ call'[s].id = call[s].id /\ call'[s].child = call[s].child
                        /\ (call'[s].pc = "new" => call[s].pc = "new")
                        /\ (call'[s].pc = "waiting" \/ Died(s)'
                              => call[s].pc = "waiting" \/ Died(s))
                        /\ (call'[s].pc = "resolved" => call'[s] = call[s])
  <2> TAKE s \in Caller
  <2>1. call[s] \in CallRecord BY DEF IInv, Shape
  <2>2. CASE call'[s] = call[s] BY <2>1, <2>2 DEF Died
  <2>3. ASSUME call[s].pc = "waiting",
               call'[s] = [call[s] EXCEPT !.pc = "rejected", !.verdict = "died"]
        PROVE  /\ call'[s] \in CallRecord /\ call'[s].pc = "rejected"
               /\ call'[s].id = call[s].id /\ call'[s].child = call[s].child
    BY <2>1, <2>3 DEF CallRecord, Reason
  <2> QED BY <1>1, <2>2, <2>3 DEF Died
<1>3. /\ child' = NoChild /\ life' \in [Child -> {"none", "running", "signalled", "gone"}]
      /\ call' \in [Caller -> CallRecord]
  BY <1>2 DEF shutdownChild, IInv, Shape
<1>4. \A j \in Child : /\ lives[j] = "gone" => life'[j] = "gone"
                       /\ life'[j] \in {"running", "signalled"} =>
                             lives[j] \in {"running", "signalled"}
  BY DEF shutdownChild
<1>5. Shape' BY <1>3 DEF IInv, Shape
<1>6. Numbered' BY <1>2 DEF IInv, Numbered
<1>7. QueuedAsSent'
  <2> SUFFICES ASSUME NEW k \in Child, NEW a \in queue[k] PROVE a.id # 0 /\ a.id = call'[a.scan].id
    BY DEF QueuedAsSent
  <2>1. a.scan \in Caller BY DEF IInv, Shape
  <2> QED BY <2>1, <1>2 DEF IInv, QueuedAsSent
<1>8. ASSUME ~erred' PROVE SoleChild'
  <2>1. \A k \in Child : life'[k] \notin {"running", "signalled"}
    BY <1>4, <1>8 DEF IInv, SoleChild
  <2>2. \A s \in Caller : call'[s].pc # "waiting"
    <3> SUFFICES ASSUME NEW s \in Caller, call'[s].pc = "waiting" PROVE FALSE
      OBVIOUS
    <3>1. call[s] \in CallRecord
      BY DEF IInv, Shape
    <3>2. [call[s] EXCEPT !.pc = "rejected", !.verdict = "died"].pc = "rejected"
      BY <3>1 DEF CallRecord
    <3>3. call'[s] = call[s] /\ child = NoChild
      BY <1>1, <3>2
    <3> QED
      BY <1>8, <3>3 DEF IInv, SoleChild
  <2> QED BY <2>1, <2>2 DEF SoleChild
<1>9. OutcomeIsItsOwn'
  <2> SUFFICES ASSUME NEW s \in Caller
               PROVE  /\ call'[s].pc = "resolved" => call'[s].verdict = s
                      /\ ~erred' /\ Died(s)' => life'[call'[s].child] = "gone"
    BY DEF OutcomeIsItsOwn, Died
  <2>1. call'[s].pc = "resolved" => call'[s].verdict = s
    BY <1>2 DEF IInv, OutcomeIsItsOwn
  <2>2. ASSUME ~erred', Died(s)' PROVE life'[call'[s].child] = "gone"
    <3>1. call[s].child \in Child BY <1>2, <2>2 DEF IInv, Numbered
    <3>2. CASE Died(s) BY <3>1, <3>2, <2>2, <1>2, <1>4 DEF IInv, OutcomeIsItsOwn, Died
    <3>3. CASE call[s].pc = "waiting"
      <4>1. call[s].child = child BY <3>3, <2>2 DEF IInv, SoleChild
      <4> QED BY <4>1, <3>1, <2>2, <1>2, <1>4
    <3> QED BY <3>2, <3>3, <2>2, <1>2
  <2> QED BY <2>1, <2>2
<1> QED BY <1>5, <1>6, <1>7, <1>8, <1>9 DEF IInv

LEMMA ExitKeepsIInv == ASSUME IInv, NEW k \in Child, Exit(k) \/ Error(k) PROVE IInv'
<1>1. CASE Exit(k)
  <2> DEFINE lives == [life EXCEPT ![k] = "gone"]
  <2>1. /\ shutdownChild(lives) /\ life[k] \in {"running", "signalled"}
        /\ UNCHANGED <<queue, nextId, erred>>
    BY <1>1 DEF Exit
  <2>2. /\ lives \in [Child -> {"none", "running", "signalled", "gone"}]
        /\ lives[k] = "gone" /\ \A j \in Child \ {k} : lives[j] = life[j]
    BY DEF IInv, Shape
  <2>3. ~erred => child = k BY <2>1 DEF IInv, SoleChild
  <2> HIDE DEF lives
  <2> QED BY <2>1, <2>2, <2>3, ShutdownKeepsIInv DEF IInv, Shape
<1>2. CASE Error(k) BY <1>2, ShutdownKeepsIInv DEF Error, IInv, Shape
<1> QED BY <1>1, <1>2

LEMMA StepKeepsIInv == IInv /\ [SidecarNext]_sidecarVars => IInv'
<1> SUFFICES ASSUME IInv, [SidecarNext]_sidecarVars PROVE IInv'
  OBVIOUS
<1>1. CASE UNCHANGED sidecarVars
  BY <1>1 DEF sidecarVars, IInv, Shape, Numbered, Died, QueuedAsSent, SoleChild, OutcomeIsItsOwn
<1>2. ASSUME NEW s \in Caller, Broken(s) \/ SpawnFails(s) \/ Timeout(s) PROVE IInv'
  BY <1>2, RefusalKeepsIInv
<1>3. ASSUME NEW s \in Caller, Send(s) PROVE IInv'
  BY <1>3, SendKeepsIInv
<1>4. ASSUME NEW k \in Child, Exit(k) \/ Error(k) PROVE IInv'
  BY <1>4, ExitKeepsIInv
<1>5. ASSUME NEW k \in Child, NEW a \in queue[k], Torn(k, a) PROVE IInv'
  BY <1>5, TornKeepsIInv
<1>6. ASSUME NEW k \in Child, NEW a \in queue[k], NEW ok \in BOOLEAN, Answer(k, a, ok) PROVE IInv'
  BY <1>6, AnswerKeepsIInv
<1> QED BY <1>1, <1>2, <1>3, <1>4, <1>5, <1>6 DEF SidecarNext

\* A scan resolves with the verdict on its own text, and is rejected for a
\* child's death only when its own child died (security-sidecar-client.ts:
\* 149), for any number of scans and children.
THEOREM OutcomesAreTheirOwn == SidecarSpec => []OutcomeIsItsOwn
<1>1. IInv => OutcomeIsItsOwn BY DEF IInv
<1> QED BY <1>1, InitIInv, StepKeepsIInv, PTL DEF SidecarSpec

-----------------------------------------------------------------------------
(* The tunnel (Tunnel), as long as no start runs beside another request.   *)

OpenBy(h) == ~IsFree(h) /\ handler[h].route = "start"

\* A start under way is alone.
StartsAlone ==
    \A g, h \in Handler : ~IsFree(g) /\ OpenBy(h) => g = h

NothingRemembered ==
    ~tunnelActive /\ tunnelUrl = Null /\ tunnelListener = Null /\ tunnelServer = Null

\* The module variables are set together; an undone start leaves the session
\* forgotten and the others as they were.
RememberedTogether ==
    \/ NothingRemembered
    \/ /\ tunnelActive /\ tunnelServer # Null /\ tunnelUrl = tunnelServer
       /\ tunnelListener \in {tunnelServer, Null}

\* What exists is what is remembered, except for the listener of the one
\* start whose session is being opened.
Accounted ==
    (\A h \in Handler : ~HandlerAt(h, "opening"))
        => sessions \subseteq {tunnelListener} /\ bound \subseteq {tunnelServer}

\* What a handler kept over its await is still what is remembered.
Underway(h) ==
    /\ HandlerAt(h, "opening") =>
           /\ handler[h].route = "start"
           /\ NothingRemembered /\ sessions = {} /\ bound \subseteq {handler[h].mine}
           /\ handler[h].mine # Null
    /\ HandlerAt(h, "undoing") =>
           /\ handler[h].route = "start"
           /\ handler[h].target = tunnelListener /\ handler[h].mine = tunnelServer
           /\ tunnelListener # Null /\ tunnelListener = tunnelServer
    /\ HandlerAt(h, "closing") => tunnelListener \in {handler[h].target, Null}
    /\ OpenBy(h) /\ HandlerAt(h, "closed") => NothingRemembered

TunnelInv ==
    /\ TunnelTypeOK
    /\ ~overlapped => /\ StartsAlone /\ RememberedTogether /\ Accounted
                      /\ \A h \in Handler : Underway(h)

LEMMA TunnelInitInv == TunnelInit => TunnelInv
<1> SUFFICES ASSUME TunnelInit PROVE TunnelInv
  OBVIOUS
<1> USE TunnelAssumption DEF TunnelInit
<1>1. TunnelTypeOK
  <2>1. handler \in [Handler -> InFlight \cup {Free}]
    OBVIOUS
  <2>2. 0 \in 0..MaxTunnel
    OBVIOUS
  <2> QED
    BY <2>1, <2>2 DEF TunnelTypeOK
<1>2. \A h \in Handler : handler[h].pc = "free"
  BY DEF Free
<1>3. StartsAlone /\ RememberedTogether /\ Accounted
  BY <1>2 DEF StartsAlone, RememberedTogether, NothingRemembered, Accounted, IsFree
<1>4. \A h \in Handler : Underway(h)
  BY <1>2 DEF Underway, OpenBy, HandlerAt, IsFree
<1> QED
  BY <1>1, <1>3, <1>4 DEF TunnelInv

\* What a handler waits with is well formed.
LEMMA AwaitsTyped ==
    ASSUME TunnelTypeOK, NEW h \in Handler,
           NEW pc \in {"probing", "closing", "closed", "opening", "undoing"},
           NEW route \in {"pair", "start"}, NEW target \in TunnelId \cup {Null},
           NEW mine \in TunnelId \cup {Null}, pc = "opening" => mine # Null,
           Awaits(h, pc, route, target, mine)
    PROVE  /\ handler' \in [Handler -> InFlight \cup {Free}]
           /\ handler'[h].pc = pc /\ handler'[h].route = route
           /\ handler'[h].target = target /\ handler'[h].mine = mine
           /\ \A g \in Handler \ {h} : handler'[g] = handler[g]
  BY DEF TunnelTypeOK, Awaits, InFlight

LEMMA RepliesTyped ==
    ASSUME TunnelTypeOK, NEW h \in Handler, Replies(h)
    PROVE  /\ handler' \in [Handler -> InFlight \cup {Free}]
           /\ handler'[h].pc = "free"
           /\ \A g \in Handler \ {h} : handler'[g] = handler[g]
  BY DEF TunnelTypeOK, Replies, Free

LEMMA BusyIsInFlight ==
    ASSUME TunnelTypeOK, NEW h \in Handler, ~IsFree(h)
    PROVE  handler[h] \in InFlight
  BY DEF TunnelTypeOK, IsFree, Free

LEMMA BindTyped ==
    ASSUME TunnelTypeOK, NEW h \in Handler, Bind(h), UNCHANGED sessions, overlapped' \in BOOLEAN
    PROVE  TunnelTypeOK'
<1>1. /\ bindings + 1 \in TunnelId /\ Null \in TunnelId \cup {Null}
      /\ bindings + 1 # Null
  BY TunnelAssumption DEF Bind, TunnelTypeOK, TunnelId, Null
<1>2. handler' \in [Handler -> InFlight \cup {Free}]
  BY <1>1, AwaitsTyped DEF Bind
<1>3. bindings' \in 0..MaxTunnel /\ bound' \subseteq TunnelId
  BY <1>1, TunnelAssumption DEF Bind, TunnelTypeOK
<1> QED
  BY <1>2, <1>3 DEF Bind, TunnelTypeOK, remembered

LEMMA BeginCloseTyped ==
    ASSUME TunnelTypeOK, NEW h \in Handler, ~IsFree(h), BeginClose(h),
           UNCHANGED <<sessions, bindings, overlapped>>
    PROVE  TunnelTypeOK'
<1>1. handler[h].route \in {"pair", "start"} /\ Null \in TunnelId \cup {Null}
  BY BusyIsInFlight DEF InFlight
<1>2. handler' \in [Handler -> InFlight \cup {Free}]
  <2>1. tunnelListener \in TunnelId \cup {Null}
    BY DEF TunnelTypeOK
  <2>2. CASE tunnelListener # Null
    <3>1. Awaits(h, "closing", handler[h].route, tunnelListener, Null)
      BY <2>2 DEF BeginClose
    <3> QED
      BY <1>1, <2>1, <3>1, AwaitsTyped
  <2>3. CASE tunnelListener = Null
    <3>1. Awaits(h, "closed", handler[h].route, Null, Null)
      BY <2>3 DEF BeginClose
    <3> QED
      BY <1>1, <3>1, AwaitsTyped
  <2> QED
    BY <2>2, <2>3
<1> QED
  BY <1>2 DEF BeginClose, TunnelTypeOK, remembered, Forget

LEMMA TunnelTypeStep == TunnelTypeOK /\ TunnelNext => TunnelTypeOK'
<1> SUFFICES ASSUME TunnelTypeOK, TunnelNext PROVE TunnelTypeOK'
  OBVIOUS
<1>n. Null \in TunnelId \cup {Null}
  OBVIOUS
<1>1. ASSUME NEW h \in Handler, Pair(h) PROVE TunnelTypeOK'
  <2>1. handler' \in [Handler -> InFlight \cup {Free}]
    BY <1>1, <1>n, AwaitsTyped DEF Pair, TunnelTypeOK
  <2> QED
    BY <1>1, <2>1 DEF Pair, TunnelTypeOK, remembered, StartOverlaps
<1>2. ASSUME NEW h \in Handler, Start(h) PROVE TunnelTypeOK'
  <2>1. overlapped' \in BOOLEAN
    BY <1>2 DEF Start, TunnelTypeOK, StartOverlaps
  <2>2. CASE Bind(h)
    BY <1>2, <2>1, <2>2, BindTyped DEF Start, Bind
  <2>3. CASE ~Bind(h)
    <3>1. handler' \in [Handler -> InFlight \cup {Free}]
      BY <1>2, <1>n, <2>3, AwaitsTyped DEF Start, TunnelTypeOK
    <3> QED
      BY <1>2, <2>1, <2>3, <3>1 DEF Start, TunnelTypeOK, remembered
  <2> QED
    BY <2>2, <2>3
<1>3. ASSUME NEW h \in Handler, ProbeAnswered(h) \/ Undone(h) PROVE TunnelTypeOK'
  <2>1. handler' \in [Handler -> InFlight \cup {Free}]
    BY <1>3, RepliesTyped DEF ProbeAnswered, Undone
  <2> QED
    BY <1>3, <2>1 DEF ProbeAnswered, Undone, TunnelTypeOK, remembered
<1>4. ASSUME NEW h \in Handler, ProbeFails(h) PROVE TunnelTypeOK'
  BY <1>4, BeginCloseTyped DEF ProbeFails, HandlerAt, IsFree
<1>5. ASSUME NEW h \in Handler, CloseResumes(h) PROVE TunnelTypeOK'
  <2>1. handler[h].route \in {"pair", "start"}
    BY <1>5, BusyIsInFlight DEF CloseResumes, HandlerAt, IsFree, InFlight
  <2>2. handler' \in [Handler -> InFlight \cup {Free}]
    BY <1>5, <1>n, <2>1, AwaitsTyped DEF CloseResumes
  <2> QED
    BY <1>5, <2>2 DEF CloseResumes, TunnelTypeOK, Forget
<1>6. ASSUME NEW h \in Handler, AfterClose(h) PROVE TunnelTypeOK'
  <2>1. CASE Bind(h)
    BY <1>6, <2>1, BindTyped DEF AfterClose, Bind, TunnelTypeOK
  <2>2. CASE ~Bind(h)
    BY <1>6, <2>2, RepliesTyped DEF AfterClose, TunnelTypeOK, remembered
  <2> QED
    BY <2>1, <2>2
<1>7. ASSUME NEW h \in Handler, Opened(h) \/ OpenFails(h) PROVE TunnelTypeOK'
  <2>1. handler[h].mine \in TunnelId
    BY <1>7, BusyIsInFlight DEF Opened, OpenFails, HandlerAt, IsFree, InFlight
  <2>2. handler' \in [Handler -> InFlight \cup {Free}]
    BY <1>7, <2>1, AwaitsTyped, RepliesTyped DEF Opened, OpenFails, TunnelTypeOK
  <2> QED
    BY <1>7, <2>1, <2>2 DEF Opened, OpenFails, TunnelTypeOK, remembered
<1>8. ASSUME NEW n \in TunnelId, SessionDies(n) PROVE TunnelTypeOK'
  BY <1>8 DEF SessionDies, TunnelTypeOK, remembered
<1> QED
  BY <1>1, <1>2, <1>3, <1>4, <1>5, <1>6, <1>7, <1>8 DEF TunnelNext, HandlerStep

\* What holds as long as no start ran beside another request.
TunnelCore ==
    /\ StartsAlone /\ RememberedTogether /\ Accounted
    /\ \A h \in Handler : Underway(h)

\* A request goes from one await to the next, or is answered: it keeps its
\* route, and the others stay where they were.
Moves(h) ==
    /\ ~IsFree(h)
    /\ ~IsFree(h)' => handler'[h].route = handler[h].route
    /\ \A g \in Handler \ {h} : handler'[g] = handler[g]

LEMMA StillAlone ==
    ASSUME StartsAlone, NEW h \in Handler, Moves(h)
    PROVE  StartsAlone'
  BY DEF StartsAlone, Moves, OpenBy, IsFree

\* Beside a start there is nothing but free slots.
LEMMA OthersFree ==
    ASSUME StartsAlone, NEW h \in Handler, OpenBy(h)
    PROVE  \A g \in Handler \ {h} : IsFree(g)
  BY DEF StartsAlone

\* Beside a pairing there is no start.
LEMMA OthersPair ==
    ASSUME StartsAlone, NEW h \in Handler, ~IsFree(h), ~OpenBy(h)
    PROVE  \A g \in Handler : ~OpenBy(g)
  BY DEF StartsAlone, OpenBy

\* A start binds when nothing is remembered and nothing else is under way.
LEMMA BindCore ==
    ASSUME TunnelTypeOK, TunnelCore, NEW h \in Handler, Bind(h),
           NothingRemembered, \A g \in Handler \ {h} : IsFree(g), UNCHANGED sessions,
           ~HandlerAt(h, "opening")
    PROVE  TunnelCore'
<1>1. bindings + 1 \in TunnelId \cup {Null} /\ bindings + 1 # Null
  BY TunnelAssumption DEF TunnelTypeOK, Bind, TunnelId, Null
<1>2. /\ handler'[h].pc = "opening" /\ handler'[h].route = "start"
      /\ handler'[h].mine = bindings + 1
      /\ \A g \in Handler \ {h} : handler'[g] = handler[g]
      /\ UNCHANGED remembered /\ bound' = bound \cup {bindings + 1}
  BY <1>1, AwaitsTyped DEF Bind
<1>3. sessions = {} /\ bound = {}
  <2>1. sessions \subseteq {Null} /\ bound \subseteq {Null}
    BY DEF TunnelCore, Accounted, HandlerAt, IsFree, NothingRemembered
  <2> QED
    BY <2>1, TunnelAssumption DEF TunnelTypeOK, TunnelId, Null
<1>4. StartsAlone' /\ Accounted'
  BY <1>2 DEF StartsAlone, Accounted, OpenBy, IsFree, HandlerAt
<1>5. NothingRemembered'
  BY <1>2 DEF NothingRemembered, remembered
<1>6. \A g \in Handler : Underway(g)'
  BY <1>1, <1>2, <1>3, <1>5 DEF Underway, IsFree, HandlerAt, OpenBy
<1> QED
  BY <1>4, <1>5, <1>6 DEF TunnelCore, RememberedTogether

LEMMA HandlerStepCore ==
    ASSUME TunnelTypeOK, TunnelCore, NEW h \in Handler, HandlerStep(h)
    PROVE  TunnelCore'
<1> USE DEF TunnelCore
<1>0. ~IsFree(h)
  BY DEF HandlerStep, ProbeAnswered, ProbeFails, CloseResumes, AfterClose, Opened, OpenFails,
         Undone, HandlerAt, IsFree
<1>n. Null \in TunnelId \cup {Null} /\ handler[h] \in InFlight
  BY <1>0, BusyIsInFlight
<1>s. sessions \subseteq TunnelId /\ bound \subseteq TunnelId /\ Null \notin TunnelId
  BY TunnelAssumption DEF TunnelTypeOK, TunnelId, Null
<1>1. CASE ProbeAnswered(h)
  <2>1. /\ handler'[h].pc = "free" /\ \A g \in Handler \ {h} : handler'[g] = handler[g]
        /\ UNCHANGED <<remembered, bound, sessions>> /\ handler[h].pc = "probing"
    BY <1>1, RepliesTyped DEF ProbeAnswered, HandlerAt
  <2>2. StartsAlone'
    BY <1>0, <2>1, StillAlone DEF Moves, IsFree
  <2>3. RememberedTogether' /\ Accounted'
    BY <2>1 DEF RememberedTogether, NothingRemembered, Accounted, remembered, HandlerAt
  <2>4. \A g \in Handler : Underway(g)'
    BY <2>1 DEF Underway, NothingRemembered, remembered, HandlerAt, OpenBy, IsFree
  <2> QED
    BY <2>2, <2>3, <2>4
<1>2. CASE ProbeFails(h)
  <2>1. CASE tunnelListener # Null
    <3>1. /\ handler'[h].pc = "closing" /\ handler'[h].target = tunnelListener
          /\ handler'[h].route = handler[h].route
          /\ \A g \in Handler \ {h} : handler'[g] = handler[g]
          /\ UNCHANGED <<remembered, bound, sessions>> /\ handler[h].pc = "probing"
      <4>1. Awaits(h, "closing", handler[h].route, tunnelListener, Null)
        BY <1>2, <2>1 DEF ProbeFails, BeginClose
      <4>2. handler[h].route \in {"pair", "start"} /\ tunnelListener \in TunnelId \cup {Null}
        BY <1>n DEF InFlight, TunnelTypeOK
      <4> QED
        BY <1>2, <2>1, <1>n, <4>1, <4>2, AwaitsTyped DEF ProbeFails, BeginClose, HandlerAt
    <3>2. StartsAlone'
      BY <1>0, <3>1, StillAlone DEF Moves
    <3>3. RememberedTogether' /\ Accounted'
      BY <3>1 DEF RememberedTogether, NothingRemembered, Accounted, remembered, HandlerAt
    <3>4. \A g \in Handler : Underway(g)'
      BY <3>1 DEF Underway, NothingRemembered, remembered, HandlerAt, OpenBy, IsFree
    <3> QED
      BY <3>2, <3>3, <3>4
  <2>2. CASE tunnelListener = Null
    <3>1. /\ handler'[h].pc = "closed" /\ handler'[h].route = handler[h].route
          /\ \A g \in Handler \ {h} : handler'[g] = handler[g]
          /\ Forget /\ bound' = bound \ {tunnelServer} /\ UNCHANGED sessions
          /\ handler[h].pc = "probing"
      <4>1. Awaits(h, "closed", handler[h].route, Null, Null)
        BY <1>2, <2>2 DEF ProbeFails, BeginClose
      <4>2. handler[h].route \in {"pair", "start"}
        BY <1>n DEF InFlight
      <4> QED
        BY <1>2, <2>2, <1>n, <4>1, <4>2, AwaitsTyped DEF ProbeFails, BeginClose, HandlerAt
    <3>2. StartsAlone'
      BY <1>0, <3>1, StillAlone DEF Moves
    <3>3. NothingRemembered'
      BY <3>1 DEF Forget, NothingRemembered
    <3>4. \A g \in Handler : HandlerAt(g, "opening")' => HandlerAt(g, "opening")
      BY <3>1 DEF HandlerAt
    <3>5. Accounted'
      BY <2>2, <3>1, <3>3, <3>4 DEF Accounted, NothingRemembered, HandlerAt
    <3>6. \A g \in Handler \ {h} : ~HandlerAt(g, "undoing")
      BY <2>2 DEF Underway
    <3>7. \A g \in Handler : Underway(g)'
      BY <3>1, <3>3, <3>6 DEF Underway, NothingRemembered, HandlerAt, OpenBy, IsFree
    <3> QED
      BY <3>2, <3>3, <3>5, <3>7 DEF RememberedTogether
  <2> QED
    BY <2>1, <2>2
<1>3. CASE CloseResumes(h)
  <2>1. /\ handler'[h].pc = "closed" /\ handler'[h].route = handler[h].route
        /\ \A g \in Handler \ {h} : handler'[g] = handler[g]
        /\ Forget /\ bound' = bound \ {tunnelServer} /\ sessions' = sessions \ {handler[h].target}
        /\ handler[h].pc = "closing"
    <3>1. handler[h].route \in {"pair", "start"}
      BY <1>n DEF InFlight
    <3> QED
      BY <1>3, <1>n, <3>1, AwaitsTyped DEF CloseResumes, HandlerAt
  <2>2. StartsAlone'
    BY <1>0, <2>1, StillAlone DEF Moves
  <2>3. NothingRemembered'
    BY <2>1 DEF Forget, NothingRemembered
  <2>4. \A g \in Handler \ {h} : ~HandlerAt(g, "opening") /\ ~HandlerAt(g, "undoing")
    BY <1>0, <2>1 DEF StartsAlone, Underway, OpenBy, HandlerAt, IsFree
  <2>5. sessions' = {} /\ bound' = {}
    <3>1. sessions \subseteq {tunnelListener} /\ bound \subseteq {tunnelServer}
      BY <2>1, <2>4 DEF Accounted, HandlerAt
    <3>2. tunnelListener \in {handler[h].target, Null}
      BY <2>1 DEF Underway, HandlerAt
    <3> QED
      BY <1>s, <2>1, <3>1, <3>2
  <2>6. \A g \in Handler : Underway(g)'
    BY <2>1, <2>3, <2>4 DEF Underway, NothingRemembered, HandlerAt, OpenBy, IsFree
  <2> QED
    BY <2>2, <2>3, <2>5, <2>6 DEF RememberedTogether, Accounted
<1>4. CASE AfterClose(h) /\ ~Bind(h)
  <2>1. /\ handler'[h].pc = "free" /\ \A g \in Handler \ {h} : handler'[g] = handler[g]
        /\ UNCHANGED <<remembered, bound, sessions>> /\ handler[h].pc = "closed"
    BY <1>4, RepliesTyped DEF AfterClose, HandlerAt
  <2>2. StartsAlone'
    BY <1>0, <2>1, StillAlone DEF Moves, IsFree
  <2>3. RememberedTogether' /\ Accounted'
    BY <2>1 DEF RememberedTogether, NothingRemembered, Accounted, remembered, HandlerAt
  <2>4. \A g \in Handler : Underway(g)'
    BY <2>1 DEF Underway, NothingRemembered, remembered, HandlerAt, OpenBy, IsFree
  <2> QED
    BY <2>2, <2>3, <2>4
<1>5. CASE AfterClose(h) /\ Bind(h)
  <2>1. handler[h].pc = "closed" /\ OpenBy(h) /\ UNCHANGED sessions
    <3>1. CASE handler[h].route = "start"
      BY <1>0, <1>5, <3>1 DEF AfterClose, HandlerAt, OpenBy, Bind
    <3>2. CASE handler[h].route # "start"
      <4>1. handler'[h].pc = "free"
        BY <1>5, <3>2, RepliesTyped DEF AfterClose
      <4>2. handler'[h].pc = "opening"
        BY <1>5 DEF Bind, Awaits, TunnelTypeOK
      <4> QED
        BY <4>1, <4>2
    <3> QED
      BY <3>1, <3>2
  <2>2. NothingRemembered /\ ~HandlerAt(h, "opening")
    BY <2>1 DEF Underway, HandlerAt
  <2> QED
    BY <1>5, <2>1, <2>2, BindCore, OthersFree DEF TunnelCore
<1>6. CASE Opened(h)
  <2> DEFINE n == handler[h].mine
  <2>1. handler[h].pc = "opening" /\ n \in TunnelId
    BY <1>6, <1>n DEF Opened, HandlerAt, InFlight
  <2>2. /\ handler[h].route = "start" /\ NothingRemembered /\ sessions = {} /\ bound \subseteq {n}
        /\ n # Null
    BY <2>1 DEF Underway, HandlerAt
  <2>3. \A g \in Handler \ {h} : handler[g].pc = "free"
    BY <1>0, <2>2, OthersFree DEF OpenBy, IsFree
  <2>4. /\ \A g \in Handler \ {h} : handler'[g] = handler[g]
        /\ \/ handler'[h].pc = "free"
           \/ /\ handler'[h].pc = "undoing" /\ handler'[h].route = "start"
              /\ handler'[h].target = n /\ handler'[h].mine = n
    BY <1>6, <2>1, AwaitsTyped, RepliesTyped DEF Opened
  <2>5. /\ tunnelActive' /\ tunnelUrl' = n /\ tunnelListener' = n /\ tunnelServer' = n
        /\ sessions' = {n} /\ bound' \subseteq {n}
    BY <1>6, <2>2 DEF Opened
  <2>6. StartsAlone' /\ RememberedTogether' /\ Accounted'
    BY <2>2, <2>3, <2>4, <2>5 DEF StartsAlone, RememberedTogether, Accounted, OpenBy, IsFree, HandlerAt
  <2>7. \A g \in Handler : Underway(g)'
    BY <2>2, <2>3, <2>4, <2>5 DEF Underway, HandlerAt, OpenBy, IsFree
  <2> QED
    BY <2>6, <2>7
<1>7. CASE OpenFails(h)
  <2>1. handler[h].pc = "opening"
    BY <1>7 DEF OpenFails, HandlerAt
  <2>2. /\ handler[h].route = "start" /\ NothingRemembered /\ sessions = {}
        /\ bound \subseteq {handler[h].mine}
    BY <2>1 DEF Underway, HandlerAt
  <2>3. \A g \in Handler \ {h} : handler[g].pc = "free"
    BY <1>0, <2>2, OthersFree DEF OpenBy, IsFree
  <2>4. /\ handler'[h].pc = "free" /\ \A g \in Handler \ {h} : handler'[g] = handler[g]
        /\ UNCHANGED <<remembered, sessions>> /\ bound' = {}
    BY <1>7, <2>2, RepliesTyped DEF OpenFails, NothingRemembered
  <2>5. NothingRemembered' /\ sessions' = {}
    BY <2>2, <2>4 DEF NothingRemembered, remembered
  <2>6. StartsAlone' /\ RememberedTogether' /\ Accounted'
    BY <2>3, <2>4, <2>5 DEF StartsAlone, RememberedTogether, Accounted, IsFree
  <2>7. \A g \in Handler : Underway(g)'
    BY <2>3, <2>4 DEF Underway, HandlerAt, OpenBy, IsFree
  <2> QED
    BY <2>6, <2>7
<1>8. CASE Undone(h)
  <2>1. handler[h].pc = "undoing"
    BY <1>8 DEF Undone, HandlerAt
  <2>2. /\ handler[h].route = "start" /\ handler[h].target = tunnelListener
        /\ handler[h].mine = tunnelServer /\ tunnelListener # Null
        /\ tunnelListener = tunnelServer
    BY <2>1 DEF Underway, HandlerAt
  <2>3. \A g \in Handler \ {h} : handler[g].pc = "free"
    BY <1>0, <2>2, OthersFree DEF OpenBy, IsFree
  <2>4. sessions \subseteq {tunnelListener} /\ bound \subseteq {tunnelServer}
    BY <2>1, <2>3 DEF Accounted, HandlerAt
  <2>5. /\ handler'[h].pc = "free" /\ \A g \in Handler \ {h} : handler'[g] = handler[g]
        /\ tunnelListener' = Null /\ UNCHANGED <<tunnelActive, tunnelUrl, tunnelServer>>
        /\ sessions' = {} /\ bound' = {}
    BY <1>8, <2>2, <2>4, RepliesTyped DEF Undone
  <2>6. StartsAlone' /\ RememberedTogether' /\ Accounted'
    BY <2>2, <2>3, <2>5
       DEF StartsAlone, RememberedTogether, NothingRemembered, Accounted, IsFree
  <2>7. \A g \in Handler : Underway(g)'
    BY <2>3, <2>5 DEF Underway, HandlerAt, OpenBy, IsFree
  <2> QED
    BY <2>6, <2>7
<1> QED
  BY <1>1, <1>2, <1>3, <1>4, <1>5, <1>6, <1>7, <1>8 DEF HandlerStep

\* A request that arrives and is not a start beside another.
LEMMA RequestCore ==
    ASSUME TunnelTypeOK, TunnelCore, NEW h \in Handler, Pair(h) \/ Start(h), ~overlapped'
    PROVE  TunnelCore'
<1> USE DEF TunnelCore
<1>1. CASE Pair(h)
  <2>1. /\ handler'[h].pc = "probing" /\ handler'[h].route = "pair"
        /\ \A g \in Handler \ {h} : handler'[g] = handler[g]
        /\ UNCHANGED <<remembered, bound, sessions>> /\ handler[h].pc = "free"
    BY <1>1, AwaitsTyped DEF Pair, IsFree, TunnelTypeOK
  <2>2. \A g \in Handler \ {h} : IsFree(g) \/ handler[g].route # "start"
    BY <1>1 DEF Pair, StartOverlaps
  <2>3. StartsAlone'
    BY <2>1, <2>2 DEF StartsAlone, OpenBy, IsFree
  <2>4. RememberedTogether' /\ Accounted'
    BY <2>1 DEF RememberedTogether, NothingRemembered, Accounted, remembered, HandlerAt
  <2>5. \A g \in Handler : Underway(g)'
    BY <2>1 DEF Underway, NothingRemembered, remembered, HandlerAt, OpenBy, IsFree
  <2> QED
    BY <2>3, <2>4, <2>5
<1>2. CASE Start(h)
  <2>1. handler[h].pc = "free" /\ \A g \in Handler \ {h} : IsFree(g)
    BY <1>2 DEF Start, IsFree, StartOverlaps
  <2>2. CASE tunnelActive /\ tunnelUrl # Null /\ tunnelServer # Null
    <3>1. /\ handler'[h].pc = "probing"
          /\ \A g \in Handler \ {h} : handler'[g].pc = "free"
          /\ UNCHANGED <<remembered, bound, sessions>>
      BY <1>2, <2>1, <2>2, AwaitsTyped DEF Start, TunnelTypeOK, IsFree
    <3>2. StartsAlone'
      BY <3>1 DEF StartsAlone, OpenBy, IsFree
    <3>3. RememberedTogether' /\ Accounted'
      BY <2>1, <3>1 DEF RememberedTogether, NothingRemembered, Accounted, remembered, HandlerAt,
                        IsFree
    <3>4. \A g \in Handler : Underway(g)'
      BY <3>1 DEF Underway, HandlerAt, OpenBy, IsFree
    <3> QED
      BY <3>2, <3>3, <3>4
  <2>3. CASE ~(tunnelActive /\ tunnelUrl # Null /\ tunnelServer # Null)
    <3>1. NothingRemembered /\ Bind(h) /\ UNCHANGED sessions
      BY <1>2, <2>3 DEF Start, RememberedTogether, Bind
    <3> QED
      BY <2>1, <3>1, BindCore DEF HandlerAt
  <2> QED
    BY <2>2, <2>3
<1> QED
  BY <1>1, <1>2

LEMMA TunnelNextInv == TunnelInv /\ [TunnelNext]_tunnelVars => TunnelInv'
<1>1. ASSUME TunnelInv, TunnelNext PROVE TunnelInv'
  <2>1. TunnelTypeOK'
    BY <1>1, TunnelTypeStep DEF TunnelInv
  <2> SUFFICES ASSUME ~overlapped' PROVE TunnelCore'
    BY <2>1 DEF TunnelInv, TunnelCore
  <2>2. ~overlapped
    BY <1>1 DEF TunnelNext, Pair, Start, StartOverlaps, HandlerStep, ProbeAnswered, ProbeFails,
                CloseResumes, AfterClose, Opened, OpenFails, Undone, SessionDies
  <2>3. TunnelCore
    BY <1>1, <2>2 DEF TunnelInv, TunnelCore
  <2>4. ASSUME NEW n \in TunnelId, SessionDies(n) PROVE TunnelCore'
    BY <2>3, <2>4 DEF SessionDies, TunnelCore, StartsAlone, RememberedTogether, NothingRemembered,
                      Accounted, Underway, OpenBy, HandlerAt, IsFree, remembered
  <2> QED
    BY <1>1, <2>3, <2>4, HandlerStepCore, RequestCore DEF TunnelInv, TunnelNext
<1>2. ASSUME TunnelInv, UNCHANGED tunnelVars PROVE TunnelInv'
  BY <1>2 DEF TunnelInv, TunnelTypeOK, StartsAlone, RememberedTogether, NothingRemembered,
              Accounted, Underway, OpenBy, HandlerAt, IsFree, remembered, tunnelVars
<1> QED
  BY <1>1, <1>2

(* When no start ran beside another request, what is exposed once all are   *)
(* answered is what closeTunnel would close (server.ts:384-392, 422-485,    *)
(* 2494-2560).                                                              *)
THEOREM ExposureIsRemembered == TunnelSpec => []NothingExposedUnremembered
<1>1. TunnelInv => NothingExposedUnremembered
  BY DEF TunnelInv, NothingExposedUnremembered, Accounted, HandlerAt, IsFree
<1> QED
  BY <1>1, TunnelInitInv, TunnelNextInv, PTL DEF TunnelSpec

-----------------------------------------------------------------------------
(* The rebuild of the browser context (ContextRebuild), with any number of  *)
(* commands that rebuild it at a time.                                      *)

\* A page that was saved is owned as its tab was, and an id that was not
\* handed out has no owner.
OwnershipKept ==
    /\ OwnedByItsOpener
    /\ \A t \in TabId : t >= nextTab => owner[t] = NoOwner
    /\ \A r \in Command : ~Idle(r) => \A p \in op[r].left : p.owner \in {NoOwner, p.opener}

\* The scales a rebuild holds are there when they are used, and only a
\* recreateContext closes the old context.
Replacing == {"closing", "creating", "fallback", "blank"}
ScalesHeld ==
    \A r \in Command : ~Idle(r) =>
        /\ op[r].pc \in Replacing => Recreates(r)
        /\ op[r].pc \in {"creating", "blank"} => op[r].given \in Scale
        /\ op[r].why = "scale" => op[r].before \in Scale

\* A recreateContext that has another context still to come.
Pending(r) ==
    Recreates(r) /\ op[r].pc \in {"saving", "closing", "creating", "fallback", "blank"}
Making(r) == Recreates(r) /\ op[r].pc \in {"creating", "blank"}

\* Unless two crossed, one recreateContext at most is under way, nobody else
\* opens a context or sets a scale while it makes one, and a context of
\* another scale than the one reported is still to be replaced by it.
ScaleKept ==
    /\ ~crossed => \A r, q \in Command : Recreates(r) /\ Recreates(q) => r = q
    /\ ~crossed /\ mode = "launched" =>
          /\ \A r \in Command : Making(r) => op[r].given = scale /\ ~context.open
          /\ context.open => context.scale = scale \/ \E r \in Command : Pending(r)

RebuildInv == RebuildTypeOK /\ ScalesHeld /\ OwnershipKept /\ ScaleKept

LEMMA RebuildInitInv == RebuildInit => RebuildInv
<1> SUFFICES ASSUME RebuildInit PROVE RebuildInv
  OBVIOUS
<1> USE RebuildAssumption DEF RebuildInit
<1>1. RebuildTypeOK
  <2>1. context \in [open : BOOLEAN, scale : Scale, by : Command \cup {NoCommand}]
    BY DEF Context
  <2>2. op \in [Command -> Rebuilds \cup {NoOp}]
    OBVIOUS
  <2>3. tabs \subseteq 1..(nextTab - 1) /\ nextTab \in 1..(MaxTab + 1) /\ rebuilds \in 0..MaxRebuild
    OBVIOUS
  <2> QED
    BY <2>1, <2>2, <2>3 DEF RebuildTypeOK, Owner
<1>2. \A r \in Command : Idle(r)
  BY DEF Idle, NoOp
<1>3. ScalesHeld /\ OwnershipKept
  BY <1>2 DEF ScalesHeld, OwnershipKept, OwnedByItsOpener, TabId
<1>4. ScaleKept
  BY <1>2 DEF ScaleKept, Recreates, Making, Context
<1> QED
  BY <1>1, <1>3, <1>4 DEF RebuildInv

\* A rebuild under way is a record of its own; an idle one is not.
LEMMA UnderWayTyped ==
    ASSUME RebuildTypeOK, NEW r \in Command
    PROVE  /\ ~Idle(r) => op[r] \in Rebuilds
           /\ Idle(r) => op[r] = NoOp
  BY DEF RebuildTypeOK, NoOp, Rebuilds, Idle

LEMMA OpenTabTyped ==
    ASSUME RebuildTypeOK, NEW c \in Owner, NEW from \in Owner, OpenTab(c, from)
    PROVE  /\ nextTab \in TabId /\ nextTab' \in 1..(MaxTab + 1) /\ nextTab' = nextTab + 1
           /\ owner' \in [TabId -> Owner] /\ opener' \in [TabId -> Owner]
  BY RebuildAssumption DEF RebuildTypeOK, OpenTab, TabId

LEMMA OpenTabOwned ==
    ASSUME RebuildTypeOK, OwnershipKept, NEW c \in Owner, NEW from \in Owner,
           c \in {NoOwner, from}, OpenTab(c, from)
    PROVE  /\ OwnedByItsOpener'
           /\ \A t \in TabId : t >= nextTab' => owner'[t] = NoOwner
<1>1. nextTab \in TabId /\ nextTab' = nextTab + 1
  BY OpenTabTyped
<1>2. /\ \A t \in TabId \ {nextTab} : owner'[t] = owner[t] /\ opener'[t] = opener[t]
      /\ opener'[nextTab] = from /\ owner'[nextTab] \in {NoOwner, from}
  BY <1>1 DEF RebuildTypeOK, OpenTab, OwnershipKept, TabId
<1> QED
  BY <1>1, <1>2 DEF OwnershipKept, OwnedByItsOpener, TabId

LEMMA PagesTyped == ASSUME RebuildTypeOK PROVE SavedTabs \in SUBSET Page /\ LoadedTabs \in SUBSET Page
<1>1. \A t \in tabs : t \in TabId
  BY RebuildAssumption DEF RebuildTypeOK, TabId
<1>2. \A t \in tabs : [tab |-> t, owner |-> owner[t], opener |-> opener[t]] \in Page
  BY <1>1 DEF RebuildTypeOK, Page
<1>3. [tab |-> 1, owner |-> NoOwner, opener |-> NoOwner] \in Page
  BY RebuildAssumption DEF Page, TabId, Owner
<1> QED
  BY <1>2, <1>3 DEF SavedTabs, LoadedTabs

\* The ways a rebuild goes on while those of other commands stay: to another
\* stage, to its end, or to the roll back of a scale.
Stages == {"saving", "closing", "creating", "fallback", "blank", "launching", "restoring", "pages"}
Others(r) ==
    /\ op' \in [Command -> Rebuilds \cup {NoOp}]
    /\ \A q \in Command \ {r} : op'[q] = op[q]
Moved(r, pc, given, left) ==
    /\ Others(r) /\ op'[r] \in Rebuilds
    /\ op'[r].pc = pc /\ op'[r].given = given /\ op'[r].left = left
    /\ op'[r].why = op[r].why /\ op'[r].before = op[r].before
Ended(r) == Others(r) /\ op'[r] = NoOp
RolledBack(r) ==
    /\ Others(r) /\ op'[r] \in Rebuilds
    /\ op'[r].pc = "saving" /\ op'[r].why = "rollback" /\ op'[r].left = op[r].left

LEMMA GoesMoved ==
    ASSUME RebuildTypeOK, NEW r \in Command, ~Idle(r), NEW pc \in Stages,
           op' = [op EXCEPT ![r].pc = pc]
    PROVE  Moved(r, pc, op[r].given, op[r].left)
<1> DEFINE o == [op[r] EXCEPT !.pc = pc]
<1>1. op[r] \in Rebuilds
  BY UnderWayTyped
<1>2. o \in Rebuilds /\ o.pc = pc /\ o.given = op[r].given /\ o.left = op[r].left
      /\ o.why = op[r].why /\ o.before = op[r].before
  BY <1>1 DEF Rebuilds, Stages
<1>3. op' = [op EXCEPT ![r] = o]
  OBVIOUS
<1> HIDE DEF o
<1> QED
  BY <1>2, <1>3 DEF RebuildTypeOK, Moved, Others

LEMMA GivenMoved ==
    ASSUME RebuildTypeOK, NEW r \in Command, ~Idle(r), NEW pc \in Stages,
           NEW given \in Scale \cup {NoScale},
           op' = [op EXCEPT ![r].pc = pc, ![r].given = given]
    PROVE  Moved(r, pc, given, op[r].left)
<1> DEFINE o == [op[r] EXCEPT !.pc = pc, !.given = given]
<1>1. op[r] \in Rebuilds
  BY UnderWayTyped
<1>2. o \in Rebuilds /\ o.pc = pc /\ o.given = given /\ o.left = op[r].left
      /\ o.why = op[r].why /\ o.before = op[r].before
  BY <1>1 DEF Rebuilds, Stages
<1>3. op' = [op EXCEPT ![r] = o]
  BY DEF RebuildTypeOK
<1> HIDE DEF o
<1> QED
  BY <1>2, <1>3 DEF RebuildTypeOK, Moved, Others

LEMMA EndsEnded ==
    ASSUME RebuildTypeOK, NEW r \in Command, OpEnds(r)
    PROVE  Ended(r)
  BY DEF RebuildTypeOK, OpEnds, Ended, Others

LEMMA SaveMoved ==
    ASSUME RebuildTypeOK, NEW r \in Command, SaveState(r)
    PROVE  /\ ~Idle(r)
           /\ \E left \in {LoadedTabs, SavedTabs}, pc \in {"restoring", "launching", "closing"} :
                 Moved(r, pc, op[r].given, left) /\ (Recreates(r) <=> pc = "closing")
<1> DEFINE left == IF op[r].why = "load" THEN LoadedTabs ELSE SavedTabs
           pc == CASE op[r].why = "load" -> "restoring" [] op[r].why = "handoff" -> "launching"
                   [] OTHER -> "closing"
           o == [op[r] EXCEPT !.left = left, !.pc = pc]
<1>1. ~Idle(r) /\ op[r] \in Rebuilds
  BY UnderWayTyped DEF SaveState, OpAt, Idle
<1>2. op' = [op EXCEPT ![r] = o]
  BY DEF SaveState, RebuildTypeOK
<1>3. left \in SUBSET Page /\ left \in {LoadedTabs, SavedTabs}
  BY PagesTyped
<1>4. pc \in {"restoring", "launching", "closing"} /\ (Recreates(r) <=> pc = "closing")
  BY <1>1 DEF Recreates, Rebuilds
<1>5. o \in Rebuilds /\ o.pc = pc /\ o.given = op[r].given /\ o.left = left
      /\ o.why = op[r].why /\ o.before = op[r].before
  <2> HIDE DEF left, pc
  <2> QED
    BY <1>1, <1>3, <1>4 DEF Rebuilds
<1> HIDE DEF left, pc, o
<1>6. Moved(r, pc, op[r].given, left)
  BY <1>2, <1>5 DEF RebuildTypeOK, Moved, Others
<1> QED
  BY <1>1, <1>3, <1>4, <1>6

LEMMA BeginMoved ==
    ASSUME RebuildTypeOK, NEW r \in Command, NEW why \in Purpose, NEW s \in Scale,
           BeginRebuild(r, why, s)
    PROVE  /\ Others(r) /\ op'[r] \in Rebuilds
           /\ op'[r].pc = "saving" /\ op'[r].why = why /\ op'[r].left = {}
           /\ why = "scale" => op'[r].before \in Scale
<1> DEFINE o == [pc |-> "saving", why |-> why, given |-> NoScale, left |-> {},
                 before |-> IF why = "scale" THEN scale ELSE NoScale]
<1>1. o \in Rebuilds
  BY RebuildAssumption DEF Rebuilds, RebuildTypeOK
<1>2. op' = [op EXCEPT ![r] = o]
  BY DEF BeginRebuild
<1>3. why = "scale" => o.before \in Scale
  BY DEF RebuildTypeOK
<1>4. o.pc = "saving" /\ o.why = why /\ o.left = {}
  OBVIOUS
<1> HIDE DEF o
<1> QED
  BY <1>1, <1>2, <1>3, <1>4 DEF RebuildTypeOK, Others

LEMMA FailedScaleMoved ==
    ASSUME RebuildTypeOK, ScalesHeld, NEW r \in Command, ~Idle(r), FailedScale(r)
    PROVE  /\ scale' \in Scale
           /\ \/ Ended(r) /\ (scale' = scale \/ mode = "headed")
              \/ RolledBack(r) /\ Recreates(r)
<1>1. op[r] \in Rebuilds
  BY UnderWayTyped
<1>2. CASE op[r].why = "scale" /\ mode # "headed"
  <2> DEFINE o == [op[r] EXCEPT !.pc = "saving", !.why = "rollback", !.given = NoScale]
  <2>1. op' = [op EXCEPT ![r] = o] /\ scale' = op[r].before
    BY <1>2 DEF FailedScale, RebuildTypeOK
  <2>2. o \in Rebuilds /\ o.pc = "saving" /\ o.why = "rollback" /\ o.left = op[r].left
    BY <1>1 DEF Rebuilds
  <2>3. scale' \in Scale
    BY <1>2, <2>1 DEF ScalesHeld
  <2> HIDE DEF o
  <2> QED
    BY <1>2, <2>1, <2>2, <2>3 DEF RebuildTypeOK, RolledBack, Others, Recreates
<1>3. CASE op[r].why = "scale" /\ mode = "headed"
  BY <1>3, EndsEnded DEF FailedScale, ScalesHeld
<1>4. CASE op[r].why # "scale"
  BY <1>4, EndsEnded DEF FailedScale, RebuildTypeOK
<1> QED
  BY <1>2, <1>3, <1>4

LEMMA PageMoved ==
    ASSUME RebuildTypeOK, NEW r \in Command, RestorePage(r)
    PROVE  /\ ~Idle(r)
           /\ \E p \in op[r].left : /\ p \in Page /\ OpenTab(p.owner, p.opener)
                                    /\ Moved(r, "pages", op[r].given, op[r].left \ {p})
<1>1. ~Idle(r) /\ op[r] \in Rebuilds /\ op[r].pc = "pages"
  BY UnderWayTyped DEF RestorePage, OpAt, Idle
<1>2. PICK p \in op[r].left : /\ OpenTab(p.owner, p.opener)
                              /\ op' = [op EXCEPT ![r].left = @ \ {p}]
  BY DEF RestorePage, RestoredOwner
<1> DEFINE o == [op[r] EXCEPT !.left = op[r].left \ {p}]
<1>3. o \in Rebuilds /\ o.pc = "pages" /\ o.given = op[r].given /\ o.left = op[r].left \ {p}
      /\ o.why = op[r].why /\ o.before = op[r].before
  BY <1>1 DEF Rebuilds
<1>4. op' = [op EXCEPT ![r] = o]
  BY <1>2 DEF RebuildTypeOK
<1> HIDE DEF o
<1>5. Moved(r, "pages", op[r].given, op[r].left \ {p})
  BY <1>3, <1>4 DEF RebuildTypeOK, Moved, Others
<1> QED
  BY <1>1, <1>2, <1>5 DEF Rebuilds

LEMMA FallbackMoved ==
    ASSUME RebuildTypeOK, NEW r \in Command, Fallback(r)
    PROVE  ~Idle(r) /\ Moved(r, "blank", scale, {})
<1>1. ~Idle(r) /\ op[r] \in Rebuilds
  BY UnderWayTyped DEF Fallback, OpAt, Idle
<1> DEFINE o == [op[r] EXCEPT !.pc = "blank", !.given = scale, !.left = {}]
<1>2. o \in Rebuilds /\ o.pc = "blank" /\ o.given = scale /\ o.left = {}
      /\ o.why = op[r].why /\ o.before = op[r].before
  BY <1>1 DEF Rebuilds, RebuildTypeOK
<1>3. op' = [op EXCEPT ![r] = o]
  BY DEF Fallback, RebuildTypeOK
<1> HIDE DEF o
<1> QED
  BY <1>1, <1>2, <1>3 DEF RebuildTypeOK, Moved, Others

\* Whichever it was, the scales and the pages it holds are of those it held.
KeepsScales(r) ==
    /\ Others(r)
    /\ op'[r].pc # "idle" =>
          /\ op'[r].pc \in Replacing => Recreates(r)
          /\ op'[r].pc \in {"creating", "blank"} => op'[r].given \in Scale
          /\ op'[r].why = "rollback" \/ (op'[r].why = op[r].why /\ op'[r].before = op[r].before)
KeepsPages(r) ==
    /\ Others(r)
    /\ op'[r].pc # "idle" => op'[r].left \subseteq op[r].left

LEMMA RebuildTypeStep ==
    RebuildTypeOK /\ ScalesHeld /\ RebuildNext => RebuildTypeOK' /\ ScalesHeld'
<1> SUFFICES ASSUME RebuildTypeOK, ScalesHeld, RebuildNext PROVE RebuildTypeOK' /\ ScalesHeld'
  OBVIOUS
<1> USE RebuildAssumption
<1>n. NoOwner \in Owner /\ scale \in Scale /\ NoScale \in Scale \cup {NoScale}
  BY DEF Owner, RebuildTypeOK
\* The scales of a rebuild that moved on, ended or rolled back.
<1>s. ASSUME NEW r \in Command, ~Idle(r), KeepsScales(r)
      PROVE  op' \in [Command -> Rebuilds \cup {NoOp}] /\ ScalesHeld'
  <2> SUFFICES ASSUME NEW q \in Command, ~Idle(q)'
               PROVE  /\ op'[q].pc \in Replacing => Recreates(q)'
                      /\ op'[q].pc \in {"creating", "blank"} => op'[q].given \in Scale
                      /\ op'[q].why = "scale" => op'[q].before \in Scale
    BY <1>s DEF ScalesHeld, KeepsScales, Others
  <2>1. CASE q # r
    BY <1>s, <2>1 DEF ScalesHeld, KeepsScales, Others, Idle, Recreates
  <2>2. CASE q = r
    BY <1>s, <2>2 DEF ScalesHeld, KeepsScales, Idle, NoOp, Recreates
  <2> QED
    BY <2>1, <2>2
<1>1. ASSUME NEW r \in Command, NEW why \in Purpose, NEW s \in Scale, BeginRebuild(r, why, s)
      PROVE  RebuildTypeOK' /\ ScalesHeld'
  <2>1. /\ Others(r) /\ op'[r] \in Rebuilds
        /\ op'[r].pc = "saving" /\ op'[r].why = why
        /\ why = "scale" => op'[r].before \in Scale
    BY <1>1, BeginMoved
  <2>2. ScalesHeld'
    BY <2>1 DEF ScalesHeld, Others, Idle, Replacing, Recreates
  <2> QED
    BY <1>1, <2>1, <2>2 DEF BeginRebuild, RebuildTypeOK, Others
<1>2. ASSUME NEW r \in Command, SaveState(r) PROVE RebuildTypeOK' /\ ScalesHeld'
  <2>1. op' \in [Command -> Rebuilds \cup {NoOp}] /\ ScalesHeld'
    BY <1>2, <1>s, SaveMoved DEF KeepsScales, Moved, Replacing
  <2> QED
    BY <1>2, <2>1 DEF SaveState, RebuildTypeOK
<1>3. ASSUME NEW r \in Command, SaveFails(r) PROVE RebuildTypeOK' /\ ScalesHeld'
  <2>1. Moved(r, "fallback", op[r].given, op[r].left) /\ ~Idle(r)
    BY <1>3, GoesMoved DEF SaveFails, OpAt, OpGoes, Idle, Stages
  <2> QED
    BY <1>3, <2>1, <1>s DEF KeepsScales, Moved, Ended, RolledBack, NoOp, Replacing, SaveFails, RebuildTypeOK, Stages
<1>4. ASSUME NEW r \in Command, SaveThrows(r) \/ LaunchFails(r) PROVE RebuildTypeOK' /\ ScalesHeld'
  <2>1. Ended(r) /\ ~Idle(r)
    BY <1>4, EndsEnded DEF SaveThrows, LaunchFails, OpAt, Idle
  <2>2. op' \in [Command -> Rebuilds \cup {NoOp}] /\ ScalesHeld'
    BY <2>1, <1>s DEF KeepsScales, Ended, NoOp
  <2> QED
    BY <1>4, <2>2 DEF SaveThrows, LaunchFails, RebuildTypeOK
<1>5. ASSUME NEW r \in Command, CloseOld(r) PROVE RebuildTypeOK' /\ ScalesHeld'
  <2>1. Moved(r, "creating", scale, op[r].left) /\ ~Idle(r)
    BY <1>5, <1>n, GivenMoved DEF CloseOld, OpAt, Idle, Stages
  <2>r. Recreates(r)
    BY <1>5, <2>1 DEF CloseOld, OpAt, ScalesHeld, Replacing
  <2>2. op' \in [Command -> Rebuilds \cup {NoOp}] /\ ScalesHeld'
    BY <1>n, <2>1, <2>r, <1>s DEF KeepsScales, Moved, Ended, RolledBack, NoOp, Replacing
  <2>3. Closed \in [open : BOOLEAN, scale : Scale, by : Command \cup {NoCommand}]
    BY DEF Closed
  <2> QED
    BY <1>5, <2>2, <2>3 DEF CloseOld, RebuildTypeOK
<1>6. ASSUME NEW r \in Command, CreateContext(r) PROVE RebuildTypeOK' /\ ScalesHeld'
  <2>1. Moved(r, "restoring", NoScale, op[r].left) /\ ~Idle(r)
    BY <1>6, <1>n, GivenMoved DEF CreateContext, OpAt, Idle, Stages
  <2>2. op' \in [Command -> Rebuilds \cup {NoOp}] /\ ScalesHeld'
    BY <2>1, <1>s DEF KeepsScales, Moved, Ended, RolledBack, NoOp, Replacing
  <2>3. op[r].given \in Scale
    BY <1>6, <2>1 DEF CreateContext, OpAt, ScalesHeld
  <2> QED
    BY <1>6, <2>2, <2>3 DEF CreateContext, Context, RebuildTypeOK
<1>7. ASSUME NEW r \in Command, CreateFails(r) PROVE RebuildTypeOK' /\ ScalesHeld'
  <2>1. Moved(r, "fallback", NoScale, op[r].left) /\ ~Idle(r)
    BY <1>7, <1>n, GivenMoved DEF CreateFails, OpAt, Idle, Stages
  <2>r. Recreates(r)
    BY <1>7, <2>1 DEF CreateFails, OpAt, ScalesHeld, Replacing
  <2>2. op' \in [Command -> Rebuilds \cup {NoOp}] /\ ScalesHeld'
    BY <2>1, <2>r, <1>s DEF KeepsScales, Moved
  <2> QED
    BY <1>7, <2>2 DEF CreateFails, RebuildTypeOK
<1>8. ASSUME NEW r \in Command, Fallback(r) PROVE RebuildTypeOK' /\ ScalesHeld'
  <2>1. Moved(r, "blank", scale, {}) /\ ~Idle(r)
    BY <1>8, FallbackMoved
  <2>r. Recreates(r)
    BY <1>8, <2>1 DEF Fallback, OpAt, ScalesHeld, Replacing
  <2>2. op' \in [Command -> Rebuilds \cup {NoOp}] /\ ScalesHeld'
    BY <1>n, <2>1, <2>r, <1>s DEF KeepsScales, Moved, Ended, RolledBack, NoOp, Replacing
  <2>3. Closed \in [open : BOOLEAN, scale : Scale, by : Command \cup {NoCommand}]
    BY DEF Closed
  <2> QED
    BY <1>8, <2>2, <2>3 DEF Fallback, RebuildTypeOK
<1>f. ASSUME NEW r \in Command, BlankTab(r) \/ FallbackFails(r)
      PROVE  /\ scale' \in Scale /\ op' \in [Command -> Rebuilds \cup {NoOp}] /\ ScalesHeld'
             /\ op[r].given \in Scale
  <2>1. ~Idle(r) /\ FailedScale(r) /\ op[r].pc = "blank"
    BY <1>f DEF BlankTab, FallbackFails, OpAt, Idle
  <2>2. scale' \in Scale /\ (Ended(r) \/ RolledBack(r))
    BY <2>1, FailedScaleMoved
  <2>3. op[r].given \in Scale
    BY <2>1 DEF ScalesHeld
  <2> QED
    BY <2>1, <2>2, <2>3, <1>s DEF KeepsScales, Moved, Ended, RolledBack, NoOp, Replacing
<1>9. ASSUME NEW r \in Command, BlankTab(r) PROVE RebuildTypeOK' /\ ScalesHeld'
  <2>1. /\ nextTab \in TabId /\ nextTab' \in 1..(MaxTab + 1) /\ nextTab' = nextTab + 1
        /\ owner' \in [TabId -> Owner] /\ opener' \in [TabId -> Owner]
    BY <1>9, <1>n, OpenTabTyped DEF BlankTab
  <2>2. context' \in [open : BOOLEAN, scale : Scale, by : Command \cup {NoCommand}]
    BY <1>9, <1>f DEF BlankTab, Context
  <2> QED
    BY <1>9, <1>f, <2>1, <2>2 DEF BlankTab, RebuildTypeOK, TabId
<1>10. ASSUME NEW r \in Command, FallbackFails(r) PROVE RebuildTypeOK' /\ ScalesHeld'
  <2>1. context' \in [open : BOOLEAN, scale : Scale, by : Command \cup {NoCommand}]
    <3>1. Context(op[r].given, NoCommand) \in [open : BOOLEAN, scale : Scale, by : Command \cup {NoCommand}]
      BY <1>10, <1>f DEF Context
    <3>2. CASE context' = context
      BY <3>2 DEF RebuildTypeOK
    <3> QED
      BY <1>10, <3>1, <3>2 DEF FallbackFails
  <2> QED
    BY <1>10, <1>f, <2>1 DEF FallbackFails, RebuildTypeOK
<1>11. ASSUME NEW r \in Command, Swap(r) PROVE RebuildTypeOK' /\ ScalesHeld'
  <2>1. Moved(r, "restoring", op[r].given, op[r].left) /\ ~Idle(r)
    BY <1>11, GoesMoved DEF Swap, OpAt, OpGoes, Idle, Stages
  <2>2. op' \in [Command -> Rebuilds \cup {NoOp}] /\ ScalesHeld'
    BY <2>1, <1>s DEF KeepsScales, Moved, Ended, RolledBack, NoOp, Replacing
  <2>3. context' \in [open : BOOLEAN, scale : Scale, by : Command \cup {NoCommand}]
    BY <1>11 DEF Swap, Context
  <2> QED
    BY <1>11, <2>2, <2>3 DEF Swap, RebuildTypeOK
<1>12. ASSUME NEW r \in Command, BeginRestore(r) PROVE RebuildTypeOK' /\ ScalesHeld'
  <2>1. Moved(r, "pages", op[r].given, op[r].left) /\ ~Idle(r)
    BY <1>12, GoesMoved DEF BeginRestore, OpAt, OpGoes, Idle, Stages
  <2>2. op' \in [Command -> Rebuilds \cup {NoOp}] /\ ScalesHeld'
    BY <2>1, <1>s DEF KeepsScales, Moved, Ended, RolledBack, NoOp, Replacing
  <2> QED
    BY <1>12, <1>n, <2>2 DEF BeginRestore, RebuildTypeOK
<1>13. ASSUME NEW r \in Command, RestorePage(r) PROVE RebuildTypeOK' /\ ScalesHeld'
  <2>1. PICK p \in op[r].left : /\ p \in Page /\ OpenTab(p.owner, p.opener)
                                /\ Moved(r, "pages", op[r].given, op[r].left \ {p})
    BY <1>13, PageMoved
  <2>2. ~Idle(r) /\ p.owner \in Owner /\ p.opener \in Owner
    BY <1>13, <2>1, PageMoved DEF Page
  <2>3. op' \in [Command -> Rebuilds \cup {NoOp}] /\ ScalesHeld'
    BY <2>1, <2>2, <1>s DEF KeepsScales, Moved, Ended, RolledBack, NoOp, Replacing
  <2>4. /\ nextTab \in TabId /\ nextTab' \in 1..(MaxTab + 1) /\ nextTab' = nextTab + 1
        /\ owner' \in [TabId -> Owner] /\ opener' \in [TabId -> Owner]
    BY <2>1, <2>2, OpenTabTyped
  <2> QED
    BY <1>13, <2>3, <2>4 DEF RestorePage, RebuildTypeOK, TabId
<1>14. ASSUME NEW r \in Command, EndRestore(r) PROVE RebuildTypeOK' /\ ScalesHeld'
  <2>1. Ended(r) /\ ~Idle(r)
    BY <1>14, EndsEnded DEF EndRestore, OpAt, Idle
  <2>2. op' \in [Command -> Rebuilds \cup {NoOp}] /\ ScalesHeld'
    BY <2>1, <1>s DEF KeepsScales, Moved, Ended, RolledBack, NoOp, Replacing
  <2>3. CASE UNCHANGED <<tabs, nextTab, owner, opener>>
    BY <1>14, <2>2, <2>3 DEF EndRestore, RebuildTypeOK
  <2>4. CASE OpenTab(NoOwner, NoOwner) /\ tabs' = {nextTab}
    BY <1>14, <1>n, <2>2, <2>4, OpenTabTyped DEF EndRestore, RebuildTypeOK, TabId
  <2> QED
    BY <1>14, <2>3, <2>4 DEF EndRestore
<1>15. ASSUME NEW r \in Command, RestoreFails(r) PROVE RebuildTypeOK' /\ ScalesHeld'
  <2>1. ~Idle(r)
    BY <1>15 DEF RestoreFails, Idle
  <2>2. Ended(r) \/ (Recreates(r) /\ Moved(r, "fallback", op[r].given, op[r].left))
    BY <1>15, <2>1, GoesMoved, EndsEnded DEF RestoreFails, OpGoes, Stages
  <2>3. op' \in [Command -> Rebuilds \cup {NoOp}] /\ ScalesHeld'
    <3>1. CASE Ended(r)
      BY <2>1, <3>1, <1>s DEF KeepsScales, Ended, NoOp
    <3>2. CASE Recreates(r) /\ Moved(r, "fallback", op[r].given, op[r].left)
      BY <2>1, <3>2, <1>s DEF KeepsScales, Moved
    <3> QED
      BY <2>2, <3>1, <3>2
  <2>4. Closed \in [open : BOOLEAN, scale : Scale, by : Command \cup {NoCommand}]
    BY DEF Closed
  <2> QED
    BY <1>15, <2>3, <2>4 DEF RestoreFails, RebuildTypeOK
<1>16. ASSUME NEW c \in Client, newTab(c) PROVE RebuildTypeOK' /\ ScalesHeld'
  <2>1. ScalesHeld'
    BY <1>16 DEF newTab, ScalesHeld, Idle, Recreates
  <2> QED
    BY <1>16, <2>1, OpenTabTyped DEF newTab, RebuildTypeOK, Owner, TabId
<1>17. ASSUME NEW c \in Client, Revoke(c) PROVE RebuildTypeOK' /\ ScalesHeld'
  BY <1>17, <1>n DEF Revoke, RebuildTypeOK, ScalesHeld, Idle, Recreates
<1> QED
  BY <1>1, <1>2, <1>3, <1>4, <1>5, <1>6, <1>7, <1>8, <1>9, <1>10, <1>11, <1>12, <1>13, <1>14,
     <1>15, <1>16, <1>17 DEF RebuildNext, Rebuild

LEMMA OwnershipStep ==
    RebuildTypeOK /\ ScalesHeld /\ OwnershipKept /\ RebuildNext => OwnershipKept'
<1> SUFFICES ASSUME RebuildTypeOK, ScalesHeld, OwnershipKept, RebuildNext PROVE OwnershipKept'
  OBVIOUS
<1>n. NoOwner \in Owner
  BY DEF Owner
<1> DEFINE Pages == \A q \in Command : ~Idle(q) => \A p \in op[q].left : p.owner \in {NoOwner, p.opener}
           Kept == /\ OwnedByItsOpener
                   /\ \A t \in TabId : t >= nextTab => owner[t] = NoOwner
\* What is still to be opened is less than it was.
<1>p. ASSUME NEW r \in Command, ~Idle(r), KeepsPages(r)
      PROVE  Pages'
  <2> SUFFICES ASSUME NEW q \in Command, ~Idle(q)', NEW p \in op'[q].left
               PROVE  p.owner \in {NoOwner, p.opener}
    OBVIOUS
  <2>1. ~Idle(q) /\ p \in op[q].left
    BY <1>p DEF KeepsPages, Others, Idle
  <2> QED
    BY <2>1 DEF OwnershipKept
<1>1. ASSUME NEW r \in Command, NEW why \in Purpose, NEW s \in Scale, BeginRebuild(r, why, s)
      PROVE  OwnershipKept'
  <2>1. Pages'
    BY <1>1, BeginMoved DEF OwnershipKept, Others, Idle
  <2> QED
    BY <1>1, <2>1 DEF BeginRebuild, OwnershipKept, OwnedByItsOpener
<1>2. ASSUME NEW r \in Command, SaveState(r) PROVE OwnershipKept'
  <2>1. \A p \in SavedTabs \cup LoadedTabs : p.owner \in {NoOwner, p.opener}
    <3>1. \A t \in tabs : t \in TabId
      BY RebuildAssumption DEF RebuildTypeOK, TabId
    <3> QED
      BY <3>1 DEF SavedTabs, LoadedTabs, OwnershipKept, OwnedByItsOpener
  <2>2. Others(r) /\ op'[r].left \in {LoadedTabs, SavedTabs}
    BY <1>2, SaveMoved DEF Moved
  <2>3. Pages'
    BY <2>1, <2>2 DEF OwnershipKept, Others, Idle
  <2> QED
    BY <1>2, <2>3 DEF SaveState, OwnershipKept, OwnedByItsOpener
<1>3. ASSUME NEW r \in Command,
             \/ SaveFails(r) \/ SaveThrows(r) \/ CreateFails(r) \/ LaunchFails(r) \/ CloseOld(r)
             \/ CreateContext(r) \/ Swap(r) \/ Fallback(r) \/ FallbackFails(r) \/ RestoreFails(r)
      PROVE  OwnershipKept'
  <2> USE DEF OpAt, Stages
  <2>1. ~Idle(r)
    BY <1>3 DEF SaveFails, SaveThrows, CreateFails, LaunchFails, CloseOld, CreateContext, Swap,
         Fallback, FallbackFails, RestoreFails, Idle
  <2>2. KeepsPages(r)
    <3> USE DEF KeepsPages, Moved, Ended, RolledBack, NoOp
    <3>n. scale \in Scale
      BY DEF RebuildTypeOK
    <3>1. CASE SaveFails(r) \/ Swap(r)
      BY <2>1, <3>1, GoesMoved DEF SaveFails, Swap, OpGoes
    <3>2. CASE CreateFails(r) \/ CloseOld(r) \/ CreateContext(r)
      BY <2>1, <3>2, <3>n, GivenMoved DEF CreateFails, CloseOld, CreateContext
    <3>3. CASE SaveThrows(r) \/ LaunchFails(r)
      BY <3>3, EndsEnded DEF SaveThrows, LaunchFails
    <3>4. CASE Fallback(r)
      BY <3>4, FallbackMoved
    <3>5. CASE FallbackFails(r)
      BY <2>1, <3>5, FailedScaleMoved DEF FallbackFails
    <3>6. CASE RestoreFails(r)
      BY <2>1, <3>6, GoesMoved, EndsEnded DEF RestoreFails, OpGoes
    <3> QED
      BY <1>3, <3>1, <3>2, <3>3, <3>4, <3>5, <3>6
  <2>3. UNCHANGED <<owner, opener, nextTab>>
    BY <1>3 DEF SaveFails, SaveThrows, CreateFails, LaunchFails, CloseOld, CreateContext, Swap,
         Fallback, FallbackFails, RestoreFails
  <2>4. Pages'
    BY <2>1, <2>2, <1>p
  <2> QED
    BY <2>3, <2>4 DEF OwnershipKept, OwnedByItsOpener
<1>4. ASSUME NEW r \in Command, BlankTab(r) PROVE OwnershipKept'
  <2>1. ~Idle(r) /\ (Ended(r) \/ RolledBack(r))
    BY <1>4, FailedScaleMoved DEF BlankTab, OpAt, Idle
  <2>2. Pages'
    BY <2>1, <1>p DEF KeepsPages, Ended, RolledBack, NoOp
  <2>3. Kept'
    BY <1>4, <1>n, OpenTabOwned DEF BlankTab
  <2> QED
    BY <2>2, <2>3 DEF OwnershipKept
<1>5. ASSUME NEW r \in Command, BeginRestore(r) PROVE OwnershipKept'
  <2>1. ~Idle(r) /\ Moved(r, "pages", op[r].given, op[r].left)
    BY <1>5, GoesMoved DEF BeginRestore, OpAt, OpGoes, Idle, Stages
  <2>2. Pages'
    BY <2>1, <1>p DEF KeepsPages, Moved
  <2> QED
    BY <1>5, <2>2 DEF BeginRestore, OwnershipKept, OwnedByItsOpener
<1>6. ASSUME NEW r \in Command, RestorePage(r) PROVE OwnershipKept'
  <2>1. PICK p \in op[r].left : /\ p \in Page /\ OpenTab(p.owner, p.opener)
                                /\ Moved(r, "pages", op[r].given, op[r].left \ {p})
    BY <1>6, PageMoved
  <2>2. ~Idle(r) /\ p.owner \in Owner /\ p.opener \in Owner
    BY <1>6, <2>1, PageMoved DEF Page
  <2>3. p.owner \in {NoOwner, p.opener}
    BY <2>2 DEF OwnershipKept
  <2>4. Pages'
    BY <2>1, <2>2, <1>p DEF KeepsPages, Moved
  <2>5. Kept'
    BY <2>1, <2>2, <2>3, OpenTabOwned
  <2> QED
    BY <2>4, <2>5 DEF OwnershipKept
<1>7. ASSUME NEW r \in Command, EndRestore(r) PROVE OwnershipKept'
  <2>1. ~Idle(r) /\ Ended(r)
    BY <1>7, EndsEnded DEF EndRestore, OpAt, Idle
  <2>2. Pages'
    BY <2>1, <1>p DEF KeepsPages, Ended, RolledBack, NoOp
  <2>3. CASE UNCHANGED <<tabs, nextTab, owner, opener>>
    BY <2>2, <2>3 DEF OwnershipKept, OwnedByItsOpener
  <2>4. CASE OpenTab(NoOwner, NoOwner)
    <3>1. Kept'
      BY <1>n, <2>4, OpenTabOwned
    <3> QED
      BY <2>2, <3>1 DEF OwnershipKept
  <2> QED
    BY <1>7, <2>3, <2>4 DEF EndRestore
<1>8. ASSUME NEW c \in Client, newTab(c) PROVE OwnershipKept'
  <2>1. Kept'
    BY <1>8, OpenTabOwned DEF newTab, Owner
  <2> QED
    BY <1>8, <2>1 DEF newTab, OwnershipKept, Idle
<1>9. ASSUME NEW c \in Client, Revoke(c) PROVE OwnershipKept'
  BY <1>9 DEF Revoke, OwnershipKept, OwnedByItsOpener, Idle
<1> QED
  BY <1>1, <1>2, <1>3, <1>4, <1>5, <1>6, <1>7, <1>8, <1>9 DEF RebuildNext, Rebuild

\* While no recreateContext crossed another: what a step leaves to be shown
\* when the command it is of is, or was, at one.
LEMMA ScaleStep ==
    RebuildTypeOK /\ ScalesHeld /\ ScaleKept /\ RebuildNext => ScaleKept'
<1> SUFFICES ASSUME RebuildTypeOK, ScalesHeld, ScaleKept, RebuildNext, ~crossed'
             PROVE  /\ \A r, q \in Command : Recreates(r)' /\ Recreates(q)' => r = q
                    /\ mode' = "launched" =>
                          /\ \A r \in Command : Making(r)' => op'[r].given = scale' /\ ~context'.open
                          /\ context'.open =>
                                context'.scale = scale' \/ \E r \in Command : Pending(r)'
  BY DEF ScaleKept
<1> DEFINE Sole == \A r, q \in Command : Recreates(r) /\ Recreates(q) => r = q
           Careful == \A r \in Command : Making(r) => op[r].given = scale /\ ~context.open
           Right == context.open => context.scale = scale \/ \E r \in Command : Pending(r)
           Kept == Sole /\ (mode = "launched" => Careful /\ Right)
<1> SUFFICES Kept'
  OBVIOUS
<1>k. ~crossed => Kept
  BY DEF ScaleKept
<1> HIDE DEF Kept
\* The others stay as they are.
<1>o. ASSUME NEW r \in Command, Others(r)
      PROVE  \A q \in Command \ {r} : /\ Recreates(q)' <=> Recreates(q)
                                      /\ Making(q)' <=> Making(q)
                                      /\ Pending(q)' <=> Pending(q)
  BY <1>o DEF Others, Recreates, Making, Pending, Idle
<1>1. ASSUME NEW r \in Command, NEW why \in Purpose, NEW s \in Scale, BeginRebuild(r, why, s)
      PROVE  Kept'
  <2>1. /\ Others(r) /\ op'[r].pc = "saving" /\ op'[r].why = why /\ why # "rollback"
    BY <1>1, BeginMoved, RebuildAssumption
  <2>2. ~Recreates(r) /\ ~Making(r) /\ ~Pending(r) /\ ~Making(r)'
    BY <1>1, <2>1 DEF BeginRebuild, Recreates, Making, Pending, Idle
  <2>3. ~crossed /\ (why \in {"agent", "scale"} => Alone(r))
    BY <1>1 DEF BeginRebuild
  <2>4. Sole'
    <3>1. Recreates(r)' <=> why \in {"agent", "scale"}
      BY <2>1 DEF Recreates, Idle
    <3> QED
      BY <1>k, <1>o, <2>1, <2>2, <2>3, <3>1 DEF Kept, Alone
  <2>5. CASE why = "scale"
    <3>1. \A q \in Command : ~Making(q)'
      BY <1>o, <2>1, <2>2, <2>3, <2>5 DEF Alone, Making
    <3>2. Pending(r)'
      BY <2>1, <2>5 DEF Pending, Recreates, Idle
    <3> QED
      BY <2>4, <3>1, <3>2 DEF Kept
  <2>6. CASE why # "scale"
    <3>1. scale' = scale /\ context' = context /\ mode' = mode
      BY <1>1, <2>6 DEF BeginRebuild
    <3> QED
      BY <1>k, <1>o, <2>1, <2>2, <2>3, <2>4, <3>1 DEF Kept, Others
  <2> QED
    BY <2>5, <2>6
\* A step of a rebuild that is no recreateContext, and of one that goes on
\* as it was.
<1>2. ASSUME NEW r \in Command, Others(r), ~crossed, scale' = scale,
             context' = context \/ ~context'.open, mode' = mode,
             Recreates(r)' => Recreates(r), ~Making(r)',
             Pending(r) => Pending(r)' \/ ~context'.open
      PROVE  Kept'
  <2>1. Sole'
    BY <1>k, <1>o, <1>2 DEF Kept
  <2>2. Careful => Careful'
    BY <1>o, <1>2 DEF Others
  <2>3. Right => Right'
    BY <1>o, <1>2
  <2> QED
    BY <1>k, <1>2, <2>1, <2>2, <2>3 DEF Kept
\* Where the old context is closed, the current scale is taken.
<1>3. ASSUME NEW r \in Command, Others(r), Recreates(r), Making(r)', scale' = scale,
             op'[r].given = scale, context' = Closed, crossed' = (crossed /\ ~Alone(r))
      PROVE  Kept'
  <2>1. ~crossed \/ Alone(r)
    BY <1>3
  <2>2. Alone(r)
    BY <1>3, <1>k, <2>1 DEF Kept, Alone
  <2>3. \A q \in Command \ {r} : ~Recreates(q)'
    BY <1>3, <1>o, <2>2 DEF Alone
  <2> QED
    BY <1>3, <2>3 DEF Kept, Closed, Making
\* Where the new one is open, it has that scale.
<1>4. ASSUME NEW r \in Command, Others(r), ~crossed, Making(r), ~Making(r)',
             Recreates(r)' => Recreates(r), mode' = mode,
             \/ context' = Context(op[r].given, NoCommand) /\ scale' = scale
             \/ context' = context /\ scale' = scale
             \/ Pending(r)'
             \/ mode = "headed"
      PROVE  Kept'
  <2>1. Recreates(r) /\ \A q \in Command \ {r} : ~Recreates(q)
    BY <1>4, <1>k DEF Kept, Making
  <2>2. \A q \in Command \ {r} : ~Recreates(q)'
    BY <1>4, <1>o, <2>1
  <2>3. mode = "launched" => op[r].given = scale /\ ~context.open
    BY <1>4, <1>k DEF Kept
  <2> QED
    BY <1>4, <2>2, <2>3 DEF Kept, Making, Context
<1>5. ASSUME NEW r \in Command, SaveState(r) PROVE Kept'
  <2>1. PICK pc \in {"restoring", "launching", "closing"} :
          Others(r) /\ op'[r].pc = pc /\ op'[r].why = op[r].why /\ (Recreates(r) => pc = "closing")
    BY <1>5, SaveMoved DEF Moved
  <2>2. ~Idle(r) /\ ~Making(r)' /\ (Pending(r) => Pending(r)') /\ (Recreates(r)' => Recreates(r))
    BY <1>5, <2>1, SaveMoved DEF Making, Pending, Recreates, Idle
  <2> QED
    BY <1>5, <1>2, <2>1, <2>2 DEF SaveState
<1>6. ASSUME NEW r \in Command, SaveFails(r) PROVE Kept'
  <2>1. Moved(r, "fallback", op[r].given, op[r].left)
    BY <1>6, GoesMoved DEF SaveFails, OpAt, OpGoes, Idle, Stages
  <2>2. ~Making(r)' /\ (Pending(r) => Pending(r)') /\ (Recreates(r)' => Recreates(r))
    BY <1>6, <2>1 DEF SaveFails, Moved, Making, Pending, Recreates, Idle
  <2> QED
    BY <1>6, <1>2, <2>1, <2>2 DEF SaveFails, Moved
<1>7. ASSUME NEW r \in Command, SaveThrows(r) \/ LaunchFails(r) \/ EndRestore(r) PROVE Kept'
  <2>1. Ended(r) /\ ~Pending(r)
    BY <1>7, EndsEnded DEF SaveThrows, LaunchFails, EndRestore, OpAt, Pending
  <2>2. ~Making(r)' /\ ~Recreates(r)'
    BY <2>1 DEF Ended, NoOp, Making, Recreates, Idle
  <2> QED
    BY <1>7, <1>2, <2>1, <2>2 DEF SaveThrows, LaunchFails, EndRestore, Ended
<1>8. ASSUME NEW r \in Command, CloseOld(r) PROVE Kept'
  <2>1. Moved(r, "creating", scale, op[r].left) /\ ~Idle(r) /\ op[r].pc = "closing"
    <3>1. scale \in Scale \cup {NoScale}
      BY DEF RebuildTypeOK
    <3> QED
      BY <1>8, <3>1, GivenMoved DEF CloseOld, OpAt, Idle, Stages
  <2>2. Recreates(r) /\ Making(r)'
    BY <2>1 DEF ScalesHeld, Replacing, Moved, Making, Recreates, Idle
  <2> QED
    BY <1>8, <1>3, <2>1, <2>2 DEF CloseOld, Moved
<1>9. ASSUME NEW r \in Command, Fallback(r) PROVE Kept'
  <2>1. Moved(r, "blank", scale, {}) /\ ~Idle(r) /\ op[r].pc = "fallback"
    <3>1. op[r].pc = "fallback"
      BY <1>9 DEF Fallback, OpAt
    <3> QED
      BY <1>9, <3>1, FallbackMoved
  <2>2. Recreates(r) /\ Making(r)'
    BY <2>1 DEF ScalesHeld, Replacing, Moved, Making, Recreates, Idle
  <2> QED
    BY <1>9, <1>3, <2>1, <2>2 DEF Fallback, Moved
<1>10. ASSUME NEW r \in Command, CreateContext(r) \/ CreateFails(r) PROVE Kept'
  <2>1. ~Idle(r) /\ op[r].pc = "creating"
    BY <1>10 DEF CreateContext, CreateFails, OpAt, Idle
  <2>2. \E pc \in {"restoring", "fallback"} :
           /\ Others(r) /\ op'[r].pc = pc /\ op'[r].why = op[r].why
           /\ CreateFails(r) \/ context' = Context(op[r].given, NoCommand)
           /\ pc = "fallback" \/ context' = Context(op[r].given, NoCommand)
    BY <1>10, <2>1, GivenMoved DEF CreateContext, CreateFails, Stages, Moved
  <2>3. Making(r) /\ ~Making(r)' /\ (Recreates(r)' => Recreates(r))
    BY <2>1, <2>2 DEF ScalesHeld, Replacing, Making, Recreates, Idle
  <2>4. context' = Context(op[r].given, NoCommand) \/ Pending(r)'
    BY <2>2, <2>3 DEF Making, Pending, Recreates, Idle
  <2> QED
    BY <1>10, <1>4, <2>2, <2>3, <2>4 DEF CreateContext, CreateFails
<1>11. ASSUME NEW r \in Command, BlankTab(r) \/ FallbackFails(r) PROVE Kept'
  <2>1. ~Idle(r) /\ FailedScale(r) /\ op[r].pc = "blank" /\ mode' = mode /\ ~crossed
        /\ context' \in {context, Context(op[r].given, NoCommand)}
    BY <1>11 DEF BlankTab, FallbackFails, OpAt, Idle
  <2>2. Making(r)
    BY <2>1 DEF ScalesHeld, Replacing, Making
  <2>3. CASE Ended(r) /\ (scale' = scale \/ mode = "headed")
    <3>1. ~Making(r)' /\ ~Recreates(r)'
      BY <2>3 DEF Ended, NoOp, Making, Recreates, Idle
    <3> QED
      BY <1>4, <2>1, <2>2, <2>3, <3>1 DEF Ended
  <2>4. CASE RolledBack(r)
    <3>1. ~Making(r)' /\ Pending(r)'
      BY <2>4 DEF RolledBack, Making, Pending, Recreates, Idle
    <3> QED
      BY <1>4, <2>1, <2>2, <2>4, <3>1 DEF RolledBack, Making
  <2> QED
    BY <2>1, <2>3, <2>4, FailedScaleMoved
<1>12. ASSUME NEW r \in Command, Swap(r) PROVE Kept'
  <2>1. Moved(r, "restoring", op[r].given, op[r].left) /\ ~Idle(r) /\ ~crossed /\ mode' = "headed"
    BY <1>12, GoesMoved DEF Swap, OpAt, OpGoes, Idle, Stages
  <2>2. Recreates(r)' => Recreates(r)
    BY <2>1 DEF Moved, Recreates
  <2> QED
    BY <1>k, <1>o, <2>1, <2>2 DEF Kept, Moved
<1>13. ASSUME NEW r \in Command, BeginRestore(r) \/ RestorePage(r) PROVE Kept'
  <2>1. \E pc \in {"restoring", "pages"} : op[r].pc = pc
    BY <1>13 DEF BeginRestore, RestorePage, OpAt
  <2>2. Others(r) /\ op'[r].pc = "pages" /\ op'[r].why = op[r].why
    BY <1>13, <2>1, GoesMoved, PageMoved DEF BeginRestore, OpGoes, Idle, Stages, Moved
  <2>3. ~Pending(r) /\ ~Making(r)' /\ (Recreates(r)' => Recreates(r))
    BY <2>1, <2>2 DEF Making, Pending, Recreates, Idle
  <2> QED
    BY <1>13, <1>2, <2>2, <2>3 DEF BeginRestore, RestorePage
<1>14. ASSUME NEW r \in Command, RestoreFails(r) PROVE Kept'
  <2>1. ~Idle(r) /\ ~Pending(r)
    BY <1>14 DEF RestoreFails, Idle, Pending
  <2>2. Ended(r) \/ Moved(r, "fallback", op[r].given, op[r].left)
    BY <1>14, <2>1, GoesMoved, EndsEnded DEF RestoreFails, OpGoes, Stages
  <2>3. Others(r) /\ ~Making(r)' /\ (Recreates(r)' => Recreates(r))
    BY <2>1, <2>2 DEF Ended, Moved, NoOp, Making, Recreates, Idle
  <2> QED
    BY <1>14, <1>2, <2>1, <2>3 DEF RestoreFails, Closed
<1>15. ASSUME NEW c \in Client, newTab(c) \/ Revoke(c) PROVE Kept'
  <2>1. UNCHANGED <<context, mode, scale, op, crossed>>
    BY <1>15 DEF newTab, Revoke
  <2> QED
    BY <1>k, <2>1 DEF Kept, Recreates, Making, Pending, Idle
<1> QED
  BY <1>1, <1>5, <1>6, <1>7, <1>8, <1>9, <1>10, <1>11, <1>12, <1>13, <1>14, <1>15
     DEF RebuildNext, Rebuild

LEMMA RebuildNextInv == RebuildInv /\ [RebuildNext]_rebuildVars => RebuildInv'
<1>1. RebuildInv /\ RebuildNext => RebuildInv'
  BY RebuildTypeStep, OwnershipStep, ScaleStep DEF RebuildInv
<1>2. RebuildInv /\ UNCHANGED rebuildVars => RebuildInv'
  BY DEF RebuildInv, RebuildTypeOK, ScalesHeld, OwnershipKept, OwnedByItsOpener, ScaleKept,
         Recreates, Making, Pending, Idle, rebuildVars
<1> QED
  BY <1>1, <1>2

LEMMA RebuildAlwaysInv == RebuildSpec => []RebuildInv
  BY RebuildInitInv, RebuildNextInv, PTL DEF RebuildSpec

(* A tab is owned by nobody or by the agent that opened it, through every   *)
(* rebuild, roll back and revocation, and with any number of rebuilds at a  *)
(* time (browser-manager.ts:1137-1146, 1491-1609).                          *)
THEOREM RebuiltTabsKeepTheirOwner == RebuildSpec => []OwnedByItsOpener
<1>1. RebuildInv => OwnedByItsOpener
  BY DEF RebuildInv, OwnershipKept
<1> QED
  BY <1>1, RebuildAlwaysInv, PTL

(* Between rebuilds the manager reports the scale the open context has,     *)
(* unless the browser is headed or two recreateContext crossed              *)
(* (browser-manager.ts:1617-1734).                                          *)
THEOREM ScaleIsNotMisreported == RebuildSpec => []ReportedScaleIsReal
<1>1. RebuildInv => ReportedScaleIsReal
  BY DEF RebuildInv, ScaleKept, ReportedScaleIsReal, Quiet, Pending, Recreates
<1> QED
  BY <1>1, RebuildAlwaysInv, PTL
=============================================================================
