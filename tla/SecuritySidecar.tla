--------------------------- MODULE SecuritySidecar ---------------------------
(***************************************************************************)
(* The daemon's side of the classifier subprocess (browse/src/             *)
(* security-sidecar-client.ts): requests by number over a pipe, one table  *)
(* of those that wait, one line buffer, timeouts, respawn and the circuit  *)
(* breaker.  Each action is one turn of the event loop.  A child is told   *)
(* apart from the one that replaced it; the code's handlers do not.        *)
(***************************************************************************)
EXTENDS Integers, FiniteSets

CONSTANTS
    Caller,      \* the calls of scanWithSidecar
    MaxChild,    \* bound on the children spawned
    Limit,       \* RESPAWN_LIMIT
    Errs         \* whether a child may emit "error" before its "exit"

ASSUME SidecarAssumption == {MaxChild, Limit} \subseteq Nat \ {0} /\ Errs \in BOOLEAN

Child == 1..MaxChild
NoChild == 0

VARIABLES
    child,      \* state.child: the one spawned last; NoChild after a shutdown
    life,       \* of each child: "none", "running", "signalled" or "gone"
    queue,      \* what each child has read and not answered: number and scan
    buffer,     \* state.buffer: whether it holds a part of a line
    nextId,     \* state.nextId
    call,       \* each scan: how it stands, its number, its child, its verdict
    failures,   \* recorded and not yet ten minutes old
    broken,     \* brokenCircuit
    erred       \* history: a child emitted "error"

sidecarVars == <<child, life, queue, buffer, nextId, call, failures, broken, erred>>

NewCall == [pc |-> "new", id |-> 0, child |-> NoChild, verdict |-> "none"]
\* A verdict is known by the scan whose text it is about; a rejection by its
\* reason.
Waiting == {s \in Caller : call[s].pc = "waiting"}

SidecarInit ==
    /\ child = NoChild
    /\ life = [k \in Child |-> "none"]
    /\ queue = [k \in Child |-> {}]
    /\ buffer = FALSE /\ nextId = 1
    /\ call = [s \in Caller |-> NewCall]
    /\ failures = 0 /\ broken = FALSE /\ erred = FALSE

\* recordFailure, n times; older ones have left the window by then.
Recorded(n) ==
    \E old \in 0..failures :
        /\ failures' = IF old + n > Limit THEN Limit ELSE old + n
        /\ broken' = (broken \/ (n > 0 /\ old + n >= Limit))

Rejected(s, reason) == [call[s] EXCEPT !.pc = "rejected", !.verdict = reason]

-----------------------------------------------------------------------------
(* scanWithSidecar, up to the write.                                       *)

Broken(s) ==
    /\ call[s].pc = "new" /\ broken
    /\ call' = [call EXCEPT ![s] = Rejected(s, "broken")]
    /\ UNCHANGED <<child, life, queue, buffer, nextId, failures, broken, erred>>

\* spawnSidecar: the one that is there, or the first of those to come.
Spawned == IF child # NoChild THEN {child}
           ELSE {k \in Child : life[k] = "none" /\ \A j \in 1..(k - 1) : life[j] # "none"}
\* Slip: a new child starts the numbers anew.
NumberFor_anew == IF child = NoChild THEN 1 ELSE nextId
NumberFor == nextId

\* The write itself may throw, which is recorded.
Send(s) ==
    /\ call[s].pc = "new" /\ ~broken
    /\ \E k \in Spawned : LET
           n == NumberFor
           sent(pc, verdict) == [pc |-> pc, id |-> n, child |-> k, verdict |-> verdict] IN
         /\ child' = k
         /\ life' = IF child = NoChild THEN [life EXCEPT ![k] = "running"] ELSE life
         /\ nextId' = n + 1
         /\ \/ /\ queue' = [queue EXCEPT ![k] = @ \cup {[id |-> n, scan |-> s]}]
               /\ call' = [call EXCEPT ![s] = sent("waiting", "none")]
               /\ UNCHANGED <<failures, broken>>
            \/ /\ call' = [call EXCEPT ![s] = sent("rejected", "write")]
               /\ Recorded(1)
               /\ UNCHANGED queue
    /\ UNCHANGED <<buffer, erred>>

\* The spawn throws, which is recorded, or there is no node or entry.
SpawnFails(s) ==
    /\ call[s].pc = "new" /\ ~broken /\ child = NoChild
    /\ call' = [call EXCEPT ![s] = Rejected(s, "spawn")]
    /\ \E n \in {0, 1} : Recorded(n)
    /\ UNCHANGED <<child, life, queue, buffer, nextId, erred>>

\* The timer of a scan.
Timeout(s) ==
    /\ s \in Waiting
    /\ call' = [call EXCEPT ![s] = Rejected(s, "timeout")]
    /\ Recorded(1)
    /\ UNCHANGED <<child, life, queue, buffer, nextId, erred>>

-----------------------------------------------------------------------------
(* What the child sends.  Its pipe may be read after it is gone.           *)

\* The line of one answer is complete; behind a part of another line it does
\* not parse, and its scan goes on waiting for the timer.
Answer(k, a, ok) ==
    /\ a \in queue[k]
    /\ queue' = [queue EXCEPT ![k] = @ \ {a}]
    /\ buffer' = FALSE
    /\ LET asked == {s \in Waiting : call[s].id = a.id} IN
         IF buffer
         THEN Recorded(1) /\ UNCHANGED call
         ELSE /\ call' = [s \in Caller |->
                    IF s \notin asked THEN call[s]
                    ELSE IF ok THEN [call[s] EXCEPT !.pc = "resolved", !.verdict = a.scan]
                    ELSE Rejected(s, "error")]
              /\ Recorded(IF asked # {} /\ ~ok THEN 1 ELSE 0)
    /\ UNCHANGED <<child, life, nextId, erred>>

\* A child that ends has answered part of a line, which stays in the buffer.
Torn(k, a) ==
    /\ a \in queue[k] /\ life[k] = "gone"
    /\ queue' = [queue EXCEPT ![k] = {}]
    /\ buffer' = TRUE
    /\ UNCHANGED <<child, life, nextId, call, failures, broken, erred>>

-----------------------------------------------------------------------------
(* shutdownChild: whatever child is the current one by now is signalled     *)
(* and forgotten, and every scan that waits is rejected.                   *)

shutdownChild(lives) ==
    /\ child' = NoChild
    /\ life' = IF child # NoChild /\ lives[child] = "running"
               THEN [lives EXCEPT ![child] = "signalled"] ELSE lives
    /\ call' = IF child = NoChild THEN call
               ELSE [s \in Caller |-> IF s \in Waiting THEN Rejected(s, "died") ELSE call[s]]

Exit(k) ==
    /\ life[k] \in {"running", "signalled"}
    /\ shutdownChild([life EXCEPT ![k] = "gone"])
    /\ UNCHANGED <<queue, buffer, nextId, failures, broken, erred>>

\* "error": it could not be killed or written to; "exit" may follow.
Error(k) ==
    /\ Errs /\ life[k] \in {"running", "signalled"}
    /\ Recorded(1)
    /\ shutdownChild(life)
    /\ erred' = TRUE
    /\ UNCHANGED <<queue, buffer, nextId>>

SidecarNext ==
    \/ \E s \in Caller : Broken(s) \/ Send(s) \/ SpawnFails(s) \/ Timeout(s)
    \/ \E k \in Child :
          \/ Exit(k) \/ Error(k)
          \/ \E a \in queue[k] : Torn(k, a) \/ \E ok \in BOOLEAN : Answer(k, a, ok)

SidecarSpec == SidecarInit /\ [][SidecarNext]_sidecarVars

-----------------------------------------------------------------------------
SidecarTypeOK ==
    /\ child \in Child \cup {NoChild}
    /\ life \in [Child -> {"none", "running", "signalled", "gone"}]
    /\ queue \in [Child -> SUBSET [id : 1..(Cardinality(Caller)), scan : Caller]]
    /\ buffer \in BOOLEAN /\ broken \in BOOLEAN /\ erred \in BOOLEAN
    /\ nextId \in 1..(Cardinality(Caller) + 1) /\ failures \in 0..Limit
    /\ \A s \in Caller : call[s].pc \in {"new", "waiting", "resolved", "rejected"}

(* What a scan gets is its own: a verdict about its text, whichever child   *)
(* answered, however late and into whatever was left in the buffer; and a  *)
(* rejection for a child that died only when that was its child.  The      *)
(* handler of "exit" does not look whose it is (security-sidecar-          *)
(* client.ts:149), and it need not, as long as no child emits "error".      *)
OutcomeIsItsOwn ==
    \A s \in Caller :
        /\ call[s].pc = "resolved" => call[s].verdict = s
        /\ ~erred /\ call[s].pc = "rejected" /\ call[s].verdict = "died" => life[call[s].child] = "gone"
=============================================================================
