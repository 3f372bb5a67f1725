-------------------------------- MODULE Tunnel --------------------------------
(***************************************************************************)
(* The tunnel of the browse daemon (browse/src/server.ts): startTunnel,    *)
(* closeTunnel, and the two routes that call them, /tunnel/start and the   *)
(* probe of /pair.  The four module variables of the tunnel are shared by  *)
(* all handlers and no handler excludes another: each action below runs    *)
(* from one await to the next.                                             *)
(*                                                                         *)
(* Tunnel n is the n-th local listener startTunnel binds, together with    *)
(* the ngrok session that forwards to it.  "bound" and "sessions" are what *)
(* exists; the module variables are what the daemon remembers of it.       *)
(***************************************************************************)
EXTENDS Integers, FiniteSets

CONSTANTS
    Handler,       \* slots for requests in flight
    MaxTunnel,     \* bound on the listeners bound
    LateFailure    \* whether the state file update after the session opened may fail

ASSUME TunnelAssumption == MaxTunnel \in Nat \ {0} /\ LateFailure \in BOOLEAN

TunnelId == 1..MaxTunnel
Null == 0

VARIABLES
    tunnelActive, tunnelUrl, tunnelListener, tunnelServer,   \* the module variables
    bound,        \* local listeners that accept connections
    sessions,     \* ngrok sessions that are open
    bindings,     \* how many listeners were bound so far
    handler,      \* where each request stands
    overlapped    \* history: a start ran while another handler was under way

remembered == <<tunnelActive, tunnelUrl, tunnelListener, tunnelServer>>
tunnelVars == <<remembered, bound, sessions, bindings, handler, overlapped>>

Free == [pc |-> "free"]
\* pc: the await.  target: the url probed or the session being closed.
\* mine: the listener a start has bound.
InFlight ==
    {a \in [pc : {"probing", "closing", "closed", "opening", "undoing"},
            route : {"pair", "start"}, target : TunnelId \cup {Null},
            mine : TunnelId \cup {Null}] : a.pc = "opening" => a.mine # Null}

IsFree(h) == handler[h].pc = "free"
HandlerAt(h, pc) == handler[h].pc = pc
Awaits(h, pc, route, target, mine) ==
    handler' = [handler EXCEPT ![h] = [pc |-> pc, route |-> route,
                                       target |-> target, mine |-> mine]]
Replies(h) == handler' = [handler EXCEPT ![h] = Free]

\* A start under way beside any other handler.
StartOverlaps(h, route) ==
    overlapped' = (overlapped \/ \E g \in Handler \ {h} :
                       ~IsFree(g) /\ "start" \in {route, handler[g].route})

TunnelInit ==
    /\ tunnelActive = FALSE /\ tunnelUrl = Null
    /\ tunnelListener = Null /\ tunnelServer = Null
    /\ bound = {} /\ sessions = {} /\ bindings = 0
    /\ handler = [h \in Handler |-> Free]
    /\ overlapped = FALSE

-----------------------------------------------------------------------------
(* closeTunnel: close whatever session is remembered, then, after the await, *)
(* stop whatever listener is remembered by then and forget everything.      *)

Forget ==
    /\ tunnelActive' = FALSE /\ tunnelUrl' = Null
    /\ tunnelListener' = Null /\ tunnelServer' = Null

\* With no session remembered the whole of it runs without an await.
BeginClose(h) ==
    \/ /\ tunnelListener # Null
       /\ Awaits(h, "closing", handler[h].route, tunnelListener, Null)
       /\ UNCHANGED <<remembered, bound>>
    \/ /\ tunnelListener = Null
       /\ Awaits(h, "closed", handler[h].route, Null, Null)
       /\ Forget
       /\ bound' = bound \ {tunnelServer}

CloseResumes(h) ==
    /\ HandlerAt(h, "closing")
    /\ sessions' = sessions \ {handler[h].target}
    /\ bound' = bound \ {tunnelServer}
    /\ Forget
    /\ Awaits(h, "closed", handler[h].route, Null, Null)
    /\ UNCHANGED <<bindings, overlapped>>

-----------------------------------------------------------------------------
(* startTunnel.  A bind that fails changes nothing.                        *)

Bind(h) ==
    /\ bindings < MaxTunnel
    /\ bindings' = bindings + 1
    /\ bound' = bound \cup {bindings + 1}
    /\ Awaits(h, "opening", "start", Null, bindings + 1)
    /\ UNCHANGED <<remembered, sessions>>

\* ngrok.forward resolves: the four variables are set, then the state file is
\* rewritten.  If that fails the session is closed; tunnelActive stays TRUE.
Opened(h) ==
    /\ HandlerAt(h, "opening")
    /\ LET n == handler[h].mine IN
       /\ sessions' = sessions \cup {n}
       /\ tunnelListener' = n /\ tunnelUrl' = n
       /\ tunnelServer' = n /\ tunnelActive' = TRUE
       /\ \/ Replies(h)
          \/ LateFailure /\ Awaits(h, "undoing", "start", n, n)
    /\ UNCHANGED <<bound, bindings, overlapped>>

\* Slip: without a session to close the catch block leaves at once.
OpenFails_listening(h) ==
    /\ HandlerAt(h, "opening")
    /\ \/ tunnelListener = Null /\ Replies(h)
       \/ /\ tunnelListener # Null
          /\ Awaits(h, "undoing", "start", tunnelListener, handler[h].mine)
    /\ UNCHANGED <<remembered, bound, sessions, bindings, overlapped>>

\* The import, the egress receipt or ngrok.forward fails.  The catch block
\* closes the session that is remembered, which may be another start's.
OpenFails(h) ==
    /\ HandlerAt(h, "opening")
    /\ LET n == handler[h].mine IN
       \/ /\ tunnelListener = Null
          /\ bound' = bound \ {n}
          /\ Replies(h)
       \/ /\ tunnelListener # Null
          /\ Awaits(h, "undoing", "start", tunnelListener, n)
          /\ UNCHANGED bound
    /\ UNCHANGED <<remembered, sessions, bindings, overlapped>>

Undone(h) ==
    /\ HandlerAt(h, "undoing")
    /\ sessions' = sessions \ {handler[h].target}
    /\ bound' = bound \ {handler[h].mine}
    /\ tunnelListener' = Null
    /\ Replies(h)
    /\ UNCHANGED <<tunnelActive, tunnelUrl, tunnelServer, bindings, overlapped>>

-----------------------------------------------------------------------------
(* The routes.  A /pair that finds no tunnel, and a start that cannot bind  *)
(* or has no authtoken, change nothing here.                               *)

Pair(h) ==
    /\ IsFree(h)
    /\ tunnelActive /\ tunnelUrl # Null
    /\ Awaits(h, "probing", "pair", tunnelUrl, Null)
    /\ StartOverlaps(h, "pair")
    /\ UNCHANGED <<remembered, bound, sessions, bindings>>

Start(h) ==
    /\ IsFree(h)
    /\ StartOverlaps(h, "start")
    /\ \/ /\ tunnelActive /\ tunnelUrl # Null /\ tunnelServer # Null
          /\ Awaits(h, "probing", "start", tunnelUrl, Null)
          /\ UNCHANGED <<remembered, bound, sessions, bindings>>
       \/ /\ ~(tunnelActive /\ tunnelUrl # Null /\ tunnelServer # Null)
          /\ Bind(h)

\* The probe is answered only by an open session in front of its listener.
ProbeAnswered(h) ==
    /\ HandlerAt(h, "probing")
    /\ handler[h].target \in sessions \cap bound
    /\ Replies(h)
    /\ UNCHANGED <<remembered, bound, sessions, bindings, overlapped>>

\* It may fail whatever the state of the tunnel: five seconds may pass.
ProbeFails(h) ==
    /\ HandlerAt(h, "probing")
    /\ BeginClose(h)
    /\ UNCHANGED <<sessions, bindings, overlapped>>

\* After closeTunnel /pair replies; /tunnel/start opens a new tunnel, or
\* replies if the authtoken is gone or the bind fails.
AfterClose(h) ==
    /\ HandlerAt(h, "closed")
    /\ \/ /\ Replies(h)
          /\ UNCHANGED <<remembered, bound, sessions, bindings>>
       \/ /\ handler[h].route = "start"
          /\ Bind(h)
    /\ UNCHANGED overlapped

\* ngrok, or the network, ends a session.
SessionDies(n) ==
    /\ n \in sessions
    /\ sessions' = sessions \ {n}
    /\ UNCHANGED <<remembered, bound, bindings, handler, overlapped>>

HandlerStep(h) ==
    \/ ProbeAnswered(h) \/ ProbeFails(h) \/ CloseResumes(h) \/ AfterClose(h)
    \/ Opened(h) \/ OpenFails(h) \/ Undone(h)

TunnelNext ==
    \/ \E h \in Handler : Pair(h) \/ Start(h) \/ HandlerStep(h)
    \/ \E n \in TunnelId : SessionDies(n)

TunnelSpec == TunnelInit /\ [][TunnelNext]_tunnelVars

-----------------------------------------------------------------------------
TunnelTypeOK ==
    /\ tunnelActive \in BOOLEAN
    /\ {tunnelUrl, tunnelListener, tunnelServer} \subseteq TunnelId \cup {Null}
    /\ bound \subseteq TunnelId /\ sessions \subseteq TunnelId
    /\ bindings \in 0..MaxTunnel
    /\ handler \in [Handler -> InFlight \cup {Free}]
    /\ overlapped \in BOOLEAN

(* When no handler is under way and no start ever ran beside another, every *)
(* open session is the one remembered and so is every listener: nothing is  *)
(* exposed that closeTunnel would not reach.                                *)
NothingExposedUnremembered ==
    ~overlapped /\ (\A h \in Handler : IsFree(h))
        => sessions \subseteq {tunnelListener} /\ bound \subseteq {tunnelServer}
=============================================================================
