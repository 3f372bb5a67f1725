--------------------------- MODULE TerminalSessions ---------------------------
(***************************************************************************)
(* The terminal of the side panel, on the daemon's side: the leases and    *)
(* the /pty-* routes (browse/src/server.ts, browse/src/pty-session-        *)
(* lease.ts) and the agent process that owns the sockets and the PTYs      *)
(* (browse/src/terminal-agent.ts).  A request is a process that awaits the *)
(* agent twice at most; between the awaits anything may happen.            *)
(*                                                                         *)
(* An attach token is used for one socket at most, so the n-th token and   *)
(* the socket opened with it have the same name, and so has the PtySession *)
(* that socket creates if it finds none of its session.                    *)
(***************************************************************************)
EXTENDS Integers, Sequences, FiniteSets

CONSTANTS
    MaxSlot,       \* bound on the requests and client continuations in flight
    MaxSession,    \* bound on the leases minted
    MaxAttach,     \* bound on the attach tokens minted
    MaxLease,      \* MAX_LEASES
    MaxDeath,      \* bound on the deaths of the agent
    Mishaps        \* sets of mishaps, one of which a behaviour may meet: "death" of
                   \* the agent, "expiry" of a lease, "crossing" and "overtaking"

ASSUME TerminalAssumption ==
    /\ {MaxSlot, MaxSession, MaxAttach, MaxLease} \subseteq Nat \ {0}
    /\ MaxDeath \in Nat

Slot == 1..MaxSlot
Session == 1..MaxSession
Attach == 1..MaxAttach
None == 0

VARIABLES
    scenario,   \* the mishaps of this behaviour
    leases,     \* leases, in the order of minting: "live" or "gone"
    tokens,     \* attach tokens, in the order of minting: session, origin, status
    req,        \* what is in flight in each slot
    up,         \* the agent runs
    deaths,     \* how often it died
    byId,       \* sessionsById
    pty,        \* the PtySession objects
    socket,     \* the sockets as the agent sees them
    superseded  \* history: sockets whose session another took over before they closed

serverVars == <<leases, tokens, req>>
record == <<scenario, deaths, superseded>>
agentVars == <<up, record, byId, pty, socket>>
terminalVars == <<serverVars, agentVars>>

Free == [pc |-> "free"]
InPc(q, pc) == req[q].pc = pc
IsFree(q) == InPc(q, "free")
IsNextFree(q) == IsFree(q) /\ \A r \in Slot : r < q => ~IsFree(r)
Becomes(q, r) == req' = [req EXCEPT ![q] = r]

NoPty == [sid |-> None, cookie |-> None, live |-> None,
          proc |-> "none", dying |-> 0,
          detached |-> FALSE, timer |-> None, timers |-> {}]
NoSocket == [state |-> "none", of |-> None, code |-> "none"]
Intentional == {"exited", "restart", "noclaude"}

TerminalInit ==
    /\ scenario \in Mishaps /\ superseded = {}
    /\ leases = << >> /\ tokens = << >>
    /\ req = [q \in Slot |-> Free]
    /\ up \in BOOLEAN /\ deaths = 0
    /\ byId = [s \in Session |-> None]
    /\ pty = [p \in Attach |-> NoPty]
    /\ socket = [w \in Attach |-> NoSocket]

-----------------------------------------------------------------------------
(* The routes.                                                             *)

Leased(s) == s \in DOMAIN leases /\ leases[s] = "live"
revokeLease(s) == IF s \in DOMAIN leases THEN [leases EXCEPT ![s] = "gone"] ELSE leases

\* mintLease: at the limit the oldest lease goes, in use or not.
LiveIn(ls) == {s \in DOMAIN ls : ls[s] = "live"}
mintLease(ls) ==
    LET more == Append(ls, "live")
        oldest == CHOOSE s \in LiveIn(more) : \A t \in LiveIn(more) : s <= t
    IN  IF Cardinality(LiveIn(more)) > MaxLease THEN [more EXCEPT ![oldest] = "gone"] ELSE more

\* mintPtySessionToken; the token is the agent's only once it is granted.
MintToken(s, from) == tokens' = Append(tokens, [sid |-> s, from |-> from, status |-> "minted"])
CanMint == Len(tokens) < MaxAttach

Granting(q, kind, s) ==
    Becomes(q, [pc |-> "granting", kind |-> kind, sid |-> s, token |-> Len(tokens) + 1])
Answers(q, r) ==
    Becomes(q, [pc |-> "answered", kind |-> req[q].kind, sid |-> req[q].sid, result |-> r,
                token |-> IF r = "ok" THEN req[q].token ELSE None])

\* A fresh session: lease, token, grant.
Fresh(q, kind, ls) ==
    /\ Len(leases) < MaxSession /\ CanMint
    /\ leases' = mintLease(ls)
    /\ MintToken(Len(leases) + 1, kind)
    /\ Granting(q, kind, Len(leases) + 1)

\* The handlers up to their first await.
Route(q) ==
    /\ InPc(q, "posted")
    /\ LET kind == req[q].kind  s == req[q].sid IN
       \/ kind = "session" /\ Fresh(q, kind, leases)
       \/ kind = "restart" /\ s = None /\ Fresh(q, kind, leases)
       \/ /\ kind = "reattach" /\ Leased(s) /\ CanMint
          /\ MintToken(s, kind) /\ Granting(q, kind, s)
          /\ UNCHANGED leases
       \/ /\ kind = "reattach" /\ ~Leased(s)
          /\ Answers(q, "gone")
          /\ UNCHANGED <<leases, tokens>>
       \/ /\ kind \in {"restart", "dispose"} /\ s # None
          /\ Becomes(q, [req[q] EXCEPT !.pc = "disposing"])
          /\ UNCHANGED <<leases, tokens>>
    /\ UNCHANGED agentVars

\* Past the dispose, whether the agent answered or not.
Disposed(q) ==
    /\ InPc(q, "disposed")
    /\ LET s == req[q].sid IN
       \/ req[q].kind = "restart" /\ Fresh(q, "restart", revokeLease(s))
       \/ /\ req[q].kind = "dispose"
          /\ leases' = revokeLease(s) /\ Becomes(q, Free)
          /\ UNCHANGED tokens
    /\ UNCHANGED agentVars

\* terminal-agent not ready: 503 before anything is minted.
NotReady(q) ==
    /\ InPc(q, "posted") /\ ~up
    /\ req[q].kind # "dispose"
    /\ Answers(q, "fail")
    /\ UNCHANGED <<leases, tokens, agentVars>>

\* The grant is refused, or times out although the agent has taken it.
GrantFails(q) ==
    /\ InPc(q, "granting")
    /\ Answers(q, "fail")
    /\ leases' = IF req[q].kind = "reattach" THEN leases ELSE revokeLease(req[q].sid)
    /\ \/ UNCHANGED tokens
       \/ up /\ tokens' = [tokens EXCEPT ![req[q].token].status = "valid"]
    /\ UNCHANGED agentVars

Expire(s) ==
    /\ "expiry" \in scenario /\ Leased(s)
    /\ leases' = revokeLease(s)
    /\ UNCHANGED <<tokens, req, agentVars>>

-----------------------------------------------------------------------------
(* The agent.                                                              *)

\* /internal/grant, and the server's answer to it.
grant(q) ==
    /\ up /\ InPc(q, "granting")
    /\ tokens' = [tokens EXCEPT ![req[q].token].status = "valid"]
    /\ Answers(q, "ok")
    /\ UNCHANGED <<leases, agentVars>>

\* Slip: the session is forgotten, its process is not interrupted.
disposeSession_unkilled(p) == p
\* The terminal is hung up and the process interrupted: it ends when it heeds that,
\* which it need not.  The SIGKILL meant for 3 s later finds session.proc nulled, or
\* a process the session has spawned since, and ends that one (PtyExits).
disposeSession(p) ==
    [p EXCEPT !.proc = "none", !.dying = IF p.proc = "running" THEN @ + 1 ELSE @]
\* Without a timer or another socket nothing refers to a PtySession any more; an
\* interrupted process that lingers is not followed further.
Unattached(p, w, r) ==
    IF r.timers = {} /\ \A v \in Attach \ {w} : socket[v].state = "open" => socket[v].of # p
    THEN NoPty ELSE r
ClearTimer(p) == [p EXCEPT !.timers = @ \ {p.timer}, !.timer = None]

\* /internal/restart; the socket keeps its session, which is indexed no more.
restart(q) ==
    /\ InPc(q, "disposing")
    /\ Becomes(q, [req[q] EXCEPT !.pc = "disposed"])
    /\ LET p == byId[req[q].sid] IN
       IF up /\ p # None
       THEN /\ pty' = [pty EXCEPT ![p] = disposeSession(ClearTimer(@))]
            /\ byId' = [byId EXCEPT ![req[q].sid] = None]
       ELSE UNCHANGED <<pty, byId>>
    /\ UNCHANGED <<leases, tokens, up, record, socket>>

DisposeTimesOut(q) ==
    /\ InPc(q, "disposing")
    /\ Becomes(q, [req[q] EXCEPT !.pc = "disposed"])
    /\ UNCHANGED <<leases, tokens, agentVars>>

OpenOf(w, p) == socket[w].state = "open" /\ socket[w].of = p

\* /ws and open: the session of the token is taken over, or a new one begins.
Reattached(p, w) ==
    [ClearTimer(p) EXCEPT !.detached = FALSE, !.live = w, !.cookie = w]
open(w) ==
    /\ up /\ socket[w].state = "offered"
    /\ tokens[w].status = "valid"
    /\ LET s == tokens[w].sid  p == byId[s] IN
       /\ socket' = [socket EXCEPT ![w].state = "open", ![w].of = IF p = None THEN w ELSE p]
       /\ IF p # None
          THEN /\ pty' = [pty EXCEPT ![p] = Reattached(@, w)]
               /\ superseded' = superseded \cup {v \in Attach : OpenOf(v, p)}
               /\ UNCHANGED byId
          ELSE /\ pty' = [pty EXCEPT ![w] = [NoPty EXCEPT !.sid = s, !.cookie = w,
                                                          !.live = w]]
               /\ byId' = [byId EXCEPT ![s] = w]
               /\ UNCHANGED superseded
    /\ UNCHANGED <<serverVars, scenario, up, deaths>>

Refused(w) ==
    /\ socket[w].state = "offered"
    /\ ~up \/ tokens[w].status # "valid"
    /\ socket' = [socket EXCEPT ![w].state = "closed", ![w].code = "lost"]
    /\ UNCHANGED <<serverVars, up, record, byId, pty>>

Closing(w, code) ==
    socket' = [socket EXCEPT ![w].code =
                  IF socket[w].state = "open" /\ @ = "none" THEN code ELSE @]

\* A start frame or the first key: maybeSpawnPty.  Without claude on the PATH
\* the session counts as spawned and its socket is closed.
message(w) ==
    /\ up /\ socket[w].state = "open" /\ socket[w].code = "none"
    /\ pty[socket[w].of].proc = "none"
    /\ \/ /\ pty' = [pty EXCEPT ![socket[w].of].proc = "running"]
          /\ UNCHANGED socket
       \/ /\ pty' = [pty EXCEPT ![socket[w].of].proc = "failed"]
          /\ Closing(w, "noclaude")
    /\ UNCHANGED <<serverVars, up, record, byId>>

\* By itself, killed, or interrupted before; whatever socket is attached by now closes.
PtyExits(p) ==
    /\ up
    /\ \/ pty[p].proc = "running" /\ pty' = [pty EXCEPT ![p].proc = "exited"]
       \/ pty[p].dying > 0 /\ pty' = [pty EXCEPT ![p].dying = @ - 1]
    /\ IF pty[p].live # None THEN Closing(pty[p].live, "exited") ELSE UNCHANGED socket
    /\ UNCHANGED <<serverVars, up, record, byId>>

\* The connection breaks.
Lost(w) ==
    /\ socket[w].state = "open" /\ socket[w].code = "none"
    /\ Closing(w, "lost")
    /\ UNCHANGED <<serverVars, up, record, byId, pty>>

\* Slip: the timer is left to a later close.
Detached_untimed(p, w) == [p EXCEPT !.detached = TRUE, !.live = None]
\* close: the session is disposed of, or kept for the detach window.
Detached(p, w) == [p EXCEPT !.detached = TRUE, !.live = None,
                            !.timer = w, !.timers = @ \cup {w}]
\* Slip: the token outlives its socket.
DropToken_kept(t) == tokens
DropToken(t) == [tokens EXCEPT ![t].status = "dead"]
close(w) ==
    /\ up /\ socket[w].state = "open" /\ socket[w].code # "none"
    /\ socket' = [socket EXCEPT ![w].state = "closed"]
    /\ LET p == socket[w].of IN
       /\ tokens' = DropToken(pty[p].cookie)
       /\ IF socket[w].code \in Intentional
          THEN /\ pty' = [pty EXCEPT ![p] = Unattached(p, w, disposeSession(@))]
               /\ byId' = [byId EXCEPT ![pty[p].sid] = None]
          ELSE /\ pty' = [pty EXCEPT ![p] = Detached(@, w)]
               /\ UNCHANGED byId
    /\ UNCHANGED <<leases, req, up, record>>

DetachTimer(p, t) ==
    /\ up /\ t \in pty[p].timers
    /\ LET rest == [pty[p] EXCEPT !.timers = @ \ {t}] IN
       IF rest.detached
       THEN /\ pty' = [pty EXCEPT ![p] = Unattached(p, None, disposeSession(rest))]
            /\ byId' = [byId EXCEPT ![rest.sid] = None]
       ELSE pty' = [pty EXCEPT ![p] = rest] /\ UNCHANGED byId
    /\ UNCHANGED <<serverVars, up, record, socket>>

\* The agent is killed, which hangs up its PTYs.  The watchdog starts another.
AgentDies ==
    /\ "death" \in scenario
    /\ up /\ deaths < MaxDeath
    /\ up' = FALSE /\ deaths' = deaths + 1
    /\ tokens' = [t \in DOMAIN tokens |->
                     IF tokens[t].status = "valid" THEN [tokens[t] EXCEPT !.status = "dead"]
                     ELSE tokens[t]]
    /\ byId' = [s \in Session |-> None]
    /\ pty' = [p \in Attach |-> NoPty]
    /\ socket' = [w \in Attach |->
                     IF socket[w].state \in {"offered", "open"}
                     THEN [state |-> "closed", of |-> None,
                           code |-> IF socket[w].code = "none" THEN "lost" ELSE socket[w].code]
                     ELSE socket[w]]
    /\ UNCHANGED <<leases, req, scenario, superseded>>

AgentStarts ==
    /\ ~up /\ up' = TRUE
    /\ UNCHANGED <<serverVars, record, byId, pty, socket>>

ServerStep(q) == Route(q) \/ Disposed(q) \/ NotReady(q) \/ GrantFails(q)
                     \/ grant(q) \/ restart(q) \/ DisposeTimesOut(q)
AgentStep ==
    \/ \E w \in Attach : open(w) \/ Refused(w) \/ message(w) \/ Lost(w) \/ close(w)
    \/ \E p \in Attach : PtyExits(p) \/ \E t \in Attach : DetachTimer(p, t)
    \/ AgentDies \/ AgentStarts

-----------------------------------------------------------------------------
TerminalTypeOK ==
    /\ scenario \in Mishaps /\ superseded \subseteq Attach
    /\ leases \in Seq({"live", "gone"}) /\ Len(leases) <= MaxSession
    /\ Cardinality(LiveIn(leases)) <= MaxLease
    /\ tokens \in Seq([sid : Session, from : {"session", "restart", "reattach"},
                       status : {"minted", "valid", "dead"}]) /\ Len(tokens) <= MaxAttach
    /\ up \in BOOLEAN /\ deaths \in 0..MaxDeath
    /\ byId \in [Session -> Attach \cup {None}]
    /\ pty \in [Attach -> [sid : Session \cup {None}, cookie : Attach \cup {None},
                           live : Attach \cup {None},
                           proc : {"none", "running", "exited", "failed"},
                           dying : Nat, detached : BOOLEAN, timer : Attach \cup {None},
                           timers : SUBSET Attach]]
    /\ socket \in [Attach -> [state : {"none", "offered", "open", "closed"},
                              of : Attach \cup {None},
                              code : Intentional \cup {"none", "lost"}]]

(* The token of a socket that was attached and has closed opens no other,   *)
(* over re-attaches, restarts and deaths of the agent; unless another       *)
(* socket took its session over before its close was handled: the handler   *)
(* then drops the cookie the session has by now (terminal-agent.ts:815) and *)
(* the older token stays valid.                                             *)
SpentTokens ==
    \A w \in DOMAIN tokens \ superseded :
        socket[w].state = "closed" /\ socket[w].of # None => tokens[w].status # "valid"
=============================================================================
