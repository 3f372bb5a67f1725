--------------------------- MODULE SidepanelTerminal ---------------------------
(***************************************************************************)
(* The terminal of the side panel (extension/sidepanel-terminal.js) on top *)
(* of TerminalSessions: connect, Restart, the re-attach loop, the socket   *)
(* listeners and pagehide.  The panel's continuations share one state, one *)
(* session id and one "ws" variable, and none of them is cancelled when    *)
(* another begins.                                                         *)
(***************************************************************************)
EXTENDS TerminalSessions

CONSTANTS
    MaxPoll,      \* bound on the ticks scheduled
    MaxCrossing   \* bound on the operations begun while another is under way

ASSUME PanelAssumption == MaxPoll \in Nat \ {0} /\ MaxCrossing \in Nat

VARIABLES
    polls,        \* ticks of tryAutoConnect that are scheduled
    panel,        \* state
    current,      \* currentSessionId
    ws,           \* the variable ws
    inFlight,     \* reattachInFlight
    seen,         \* the sockets as the panel sees them
    crossings,    \* history: operations begun while another was under way
    strayed       \* history: a close listener has cleared ws of another socket

missteps == <<crossings, strayed>>
panelVars == <<polls, panel, current, ws, inFlight, seen, missteps>>
vars == <<terminalVars, panelVars>>

States == {"idle", "connecting", "live", "reconnecting", "ended", "noclaude", "closed"}
Continuation == {"session", "restart", "reattach"}
UnderWay == \E q \in Slot : ~IsFree(q) /\ req[q].kind \in Continuation

Init ==
    /\ TerminalInit
    /\ polls = 1
    /\ panel = "idle" /\ current = None /\ ws = None
    /\ inFlight = FALSE
    /\ seen = [w \in Attach |-> "none"]
    /\ crossings = 0 /\ strayed = FALSE

Posts(q, kind, s) == Becomes(q, [pc |-> "posted", kind |-> kind, sid |-> s])
Begins(kind, s) ==
    /\ IF UnderWay
       THEN /\ "crossing" \in scenario /\ crossings < MaxCrossing
            /\ crossings' = crossings + 1
       ELSE crossings' = crossings
    /\ \E q \in Slot : IsNextFree(q) /\ Posts(q, kind, s)

-----------------------------------------------------------------------------
(* connect and tryAutoConnect.                                             *)

\* A tick in another state drops out; one that knows of no daemon (sidepanel.js
\* has not found it) is scheduled again, which is no step.
tick ==
    /\ polls > 0 /\ panel # "closed"
    /\ polls' = polls - 1
    /\ \/ /\ panel # "idle"
          /\ UNCHANGED <<req, panel, crossings>>
       \/ /\ panel = "idle"
          /\ panel' = "connecting"
          /\ Begins("session", None)
    /\ UNCHANGED <<leases, tokens, agentVars, current, ws, inFlight, seen, strayed>>

-----------------------------------------------------------------------------
(* forceRestart.                                                           *)

\* Slip: the old socket is not closed.
CloseForRestart_open == seen' = seen /\ socket' = socket
CloseForRestart ==
    /\ IF ws # None /\ seen[ws] = "open"
       THEN seen' = [seen EXCEPT ![ws] = "closing"] /\ Closing(ws, "restart")
       ELSE seen' = seen /\ socket' = socket

\* Without a daemon it is tryAutoConnect.
forceRestart ==
    /\ panel # "closed"
    /\ \/ /\ polls < MaxPoll /\ polls' = polls + 1
          /\ req' = req /\ crossings' = crossings
       \/ /\ polls' = polls
          /\ Begins("restart", current)
    /\ panel' = "idle" /\ ws' = None
    /\ CloseForRestart
    /\ UNCHANGED <<leases, tokens, up, record, byId, pty, current, inFlight, strayed>>

-----------------------------------------------------------------------------
(* Answers.  A request is answered in the order in which its sender sees    *)
(* it: with "overtaking", before a close that came first.                   *)

Answered(q) ==
    /\ InPc(q, "answered") /\ panel # "closed"
    /\ "overtaking" \in scenario \/ \A w \in Attach : seen[w] # "closing"

\* new WebSocket with the token of the answer.
Connect(w) ==
    /\ socket' = [socket EXCEPT ![w].state = "offered"]
    /\ seen' = [seen EXCEPT ![w] = "open"]
    /\ ws' = w /\ panel' = "live"

SessionOf(q) == req[q].sid

\* connect and forceRestart: the session is current, then claude is looked for.
NewSession(q) ==
    /\ Answered(q) /\ req[q].result = "ok" /\ req[q].kind # "reattach"
    /\ current' = SessionOf(q)
    /\ Becomes(q, [req[q] EXCEPT !.pc = "checking"])
    /\ UNCHANGED <<leases, tokens, agentVars, polls, panel, ws, inFlight, seen, missteps>>

Checked(q) ==
    /\ InPc(q, "checking") /\ panel # "closed"
    /\ Becomes(q, Free)
    /\ \/ up /\ Connect(req[q].token)
       \/ panel' = "noclaude" /\ UNCHANGED <<socket, seen, ws>>
    /\ UNCHANGED <<leases, tokens, up, record, byId, pty, polls, current, inFlight, missteps>>

\* connect gives up; nothing is scheduled.
ConnectFails(q) ==
    /\ Answered(q) /\ req[q].kind = "session" /\ req[q].result = "fail"
    /\ panel' = "idle"
    /\ Becomes(q, Free)
    /\ UNCHANGED <<leases, tokens, agentVars, polls, current, ws, inFlight, seen, missteps>>

\* forceRestart falls back to a connect.
RestartFails(q) ==
    /\ Answered(q) /\ req[q].kind = "restart" /\ req[q].result = "fail"
    /\ current' = None
    /\ panel' = "connecting"
    /\ Posts(q, "session", None)
    /\ UNCHANGED <<leases, tokens, agentVars, polls, ws, inFlight, seen, missteps>>

installRetry ==
    /\ panel = "noclaude"
    /\ panel' = "connecting"
    /\ Begins("session", None)
    /\ UNCHANGED <<leases, tokens, agentVars, polls, current, ws, inFlight, seen, strayed>>

-----------------------------------------------------------------------------
(* The re-attach loop.                                                     *)

LoopBegins ==
    /\ inFlight' = TRUE /\ panel' = "reconnecting"
    /\ Begins("reattach", current)

Resumed(q) ==
    /\ Answered(q) /\ req[q].kind = "reattach" /\ req[q].result = "ok"
    /\ inFlight' = FALSE /\ current' = req[q].sid
    /\ Connect(req[q].token)
    /\ Becomes(q, Free)
    /\ UNCHANGED <<leases, tokens, up, record, byId, pty, polls, missteps>>

\* 410, or the window has passed.
GivesUp(q) ==
    /\ \/ Answered(q) /\ req[q].result = "gone"
       \/ InPc(q, "waiting") /\ inFlight /\ panel # "closed"
    /\ inFlight' = FALSE /\ panel' = "ended"
    /\ Becomes(q, Free)
    /\ UNCHANGED <<leases, tokens, agentVars, polls, current, ws, seen, missteps>>

NextAttempt(q) ==
    /\ Answered(q) /\ req[q].kind = "reattach" /\ req[q].result = "fail"
    /\ Becomes(q, [req[q] EXCEPT !.pc = "waiting"])
    /\ UNCHANGED <<leases, tokens, agentVars, panelVars>>

Attempt(q) ==
    /\ InPc(q, "waiting") /\ panel # "closed"
    /\ IF inFlight THEN Posts(q, "reattach", req[q].sid) ELSE Becomes(q, Free)
    /\ UNCHANGED <<leases, tokens, agentVars, panelVars>>

-----------------------------------------------------------------------------
(* The close listeners: each clears "ws", whichever socket it holds by now. *)

Noticed(w) ==
    /\ seen[w] \in {"open", "closing"}
    /\ socket[w].code # "none"
    /\ socket[w].state = "closed" \/ ("overtaking" \in scenario /\ socket[w].code = "lost")
    /\ seen' = [seen EXCEPT ![w] = "closed"]
    /\ ws' = None /\ strayed' = (strayed \/ ws \notin {w, None})

Unclean(w) == socket[w].code \notin Intentional /\ current # None

onclose(w) ==
    /\ panel # "closed"
    /\ Noticed(w)
    /\ \/ /\ panel = "live" /\ Unclean(w)
          /\ LoopBegins
       \/ /\ panel = "live" /\ Unclean(w)      \* no daemon is known
          /\ panel' = "ended"
          /\ UNCHANGED <<req, inFlight, crossings>>
       \/ /\ ~(panel = "live" /\ Unclean(w))
          /\ panel' = CASE socket[w].code = "noclaude" -> "noclaude"
                        [] panel = "noclaude" -> "noclaude"
                        [] tokens[w].from = "reattach" /\ panel # "live" -> panel
                        [] OTHER -> "ended"
          /\ UNCHANGED <<req, inFlight, crossings>>
    /\ UNCHANGED <<leases, tokens, agentVars, polls, current>>

\* pagehide: a beacon, and the page goes away with its variables and sockets.
pagehide ==
    /\ panel # "closed" /\ panel' = "closed"
    /\ \/ current = None /\ UNCHANGED req
       \/ current # None /\ \E q \in Slot : IsNextFree(q) /\ Posts(q, "dispose", current)
    /\ socket' = [w \in Attach |->
                    IF socket[w].state = "open" /\ socket[w].code = "none"
                    THEN [socket[w] EXCEPT !.code = "lost"]
                    ELSE IF socket[w].state = "offered"
                    THEN [socket[w] EXCEPT !.state = "closed", !.code = "lost"]
                    ELSE socket[w]]
    /\ polls' = 0 /\ current' = None /\ ws' = None /\ inFlight' = FALSE
    /\ seen' = [w \in Attach |-> "none"]
    /\ UNCHANGED <<leases, tokens, up, record, byId, pty, missteps>>

\* What nobody waits for any more.
Dropped(q) ==
    /\ panel = "closed" /\ req[q].pc \in {"answered", "checking", "waiting"}
    /\ Becomes(q, Free)
    /\ UNCHANGED <<leases, tokens, agentVars, panelVars>>

-----------------------------------------------------------------------------
PanelAnswer(q) ==
    \/ NewSession(q) \/ Checked(q) \/ ConnectFails(q) \/ RestartFails(q)
    \/ Resumed(q) \/ GivesUp(q) \/ NextAttempt(q) \/ Attempt(q) \/ Dropped(q)

Daemon ==
    /\ \/ \E q \in Slot : ServerStep(q)
       \/ \E s \in Session : Expire(s)
       \/ AgentStep
    /\ UNCHANGED panelVars

Next ==
    \/ Daemon
    \/ tick \/ forceRestart \/ installRetry \/ pagehide
    \/ \E q \in Slot : PanelAnswer(q)
    \/ \E w \in Attach : onclose(w)

Spec == Init /\ [][Next]_vars

(* The agent handles the closes of its sockets and its timers.              *)
AgentFairness ==
    WF_vars(/\ \E w \in Attach : close(w) \/ \E p \in Attach : DetachTimer(p, w)
            /\ UNCHANGED panelVars)
FairSpec == Spec /\ AgentFairness

-----------------------------------------------------------------------------
TypeOK ==
    /\ TerminalTypeOK
    /\ req \in [Slot -> {Free} \cup
                  [pc : {"posted", "disposing", "disposed"}, kind : Continuation \cup {"dispose"},
                   sid : Session \cup {None}] \cup
                  [pc : {"granting"}, kind : Continuation, sid : Session, token : Attach] \cup
                  [pc : {"answered", "checking", "waiting"}, kind : Continuation,
                   sid : Session \cup {None}, result : {"ok", "fail", "gone"},
                   token : Attach \cup {None}]]
    /\ {inFlight} \subseteq BOOLEAN /\ polls \in 0..MaxPoll
    /\ panel \in States
    /\ current \in Session \cup {None} /\ ws \in Attach \cup {None}
    /\ seen \in [Attach -> {"none", "open", "closing", "closed"}]
    /\ crossings \in 0..MaxCrossing /\ strayed \in BOOLEAN

(* A live panel has the socket of its current session, one whose end it     *)
(* will hear of, and no panel has two open: keystrokes go to one PTY.  So   *)
(* long as no operation has begun while another was under way (nothing      *)
(* cancels the earlier one, sidepanel-terminal.js:189-258, 531-636 and      *)
(* 678-855), and no late close has cleared the ws of a newer socket: the    *)
(* listeners set it to null whichever socket it holds (352, 637, 843).      *)
LiveHasItsSocket ==
    crossings = 0 /\ ~strayed =>
        /\ panel = "live" => ws # None /\ seen[ws] = "open" /\ tokens[ws].sid = current
        /\ Cardinality({w \in Attach : seen[w] = "open"}) <= 1

(* Every PTY that was not interrupted yet will be: a socket is attached to  *)
(* its session, or a detach timer runs for it.                              *)
NoOrphanPty ==
    \A p \in Attach : pty[p].proc = "running" =>
        \/ pty[p].timers # {} /\ pty[p].detached
        \/ \E w \in Attach : OpenOf(w, p)

(* When the panel is closed, each of its PTYs ends or is interrupted, by    *)
(* the beacon, or by the detach timers if the beacon was lost or came too   *)
(* early, and none is spawned after.  That an interrupted one ends is up to *)
(* it: disposeSession nulls the handle its SIGKILL needs                    *)
(* (terminal-agent.ts:361-374).                                             *)
ClosedPanelInterruptsItsPtys ==
    (panel = "closed") ~> [](\A p \in Attach : pty[p].proc # "running")
=============================================================================
