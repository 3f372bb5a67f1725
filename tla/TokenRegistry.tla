---------------------------- MODULE TokenRegistry ----------------------------
(***************************************************************************)
(* Scoped tokens of the browse daemon: the registry of                     *)
(* browse/src/token-registry.ts, the routes of browse/src/server.ts that   *)
(* mint, exchange, supersede and revoke tokens (/pair, /token, /connect,   *)
(* /agents, DELETE /token/:clientId), and the scoped requests that hold a  *)
(* token across an await (/command, /batch, newtab).                       *)
(*                                                                         *)
(* Every handler up to its first await is one action.  Time is abstract:   *)
(* a token expires by an action of its own, in any order the lifetimes of  *)
(* the code allow.  A request the scope, domain or rate check turns away   *)
(* is Deny; the limiter itself is not part of this module.                 *)
(***************************************************************************)
EXTENDS Grants, FiniteSets

CONSTANTS
    Client,          \* client ids, "root" excluded (assertValidClientId)
    GeneratedClient, \* the ids "remote-<ms>" that createSetupKey makes up
    Asked,           \* grants the operator asks for
    MaxTokens,       \* bound on the tokens ever minted
    MaxTabs,         \* bound on the tabs ever opened by scoped tokens
    Request,         \* slots for HTTP requests in flight
    BatchReachable   \* /batch exists on the local listener, not on the tunnel

ASSUME ClientAssumption == GeneratedClient \subseteq Client
ASSUME AskedAssumption == Asked \subseteq Grant
ASSUME BoundsAssumption == MaxTokens \in Nat /\ MaxTabs \in Nat
ASSUME BatchAssumption == BatchReachable \in BOOLEAN

TokenId == 1..MaxTokens    \* in the order of minting, which is the Map's order
NoToken == 0
None == "none"             \* no owner

\* commandCount: 0, or 1 for "at least one".
TokenInfo == [clientId : Client, type : {"session", "setup"}, grant : Grant,
              usesRemaining : {0, 1}, issuedSessionToken : TokenId \cup {NoToken},
              commandCount : {0, 1}, expired : BOOLEAN]

VARIABLES
    tokens,     \* the Map: token id -> TokenInfo
    nextToken,  \* the next id generateToken returns
    tabs,       \* tabs opened by scoped newtab: their entry in tabOwnership
    req,        \* what each request in flight has captured
    authorised  \* history, for properties: client -> grants the operator stands by

registry == <<tokens, nextToken>>
vars == <<tokens, nextToken, tabs, req, authorised>>

-----------------------------------------------------------------------------
(* The Map.                                                                *)

Without(T, S) == [t \in DOMAIN T \ S |-> T[t]]
TokensOf(T, c) == {t \in DOMAIN T : T[t].clientId = c}
SessionsOf(T, c) == {t \in TokensOf(T, c) : T[t].type = "session"}
First(S) == {t \in S : \A u \in S : t <= u}

PendingKey(info) == info.type = "setup" /\ info.usesRemaining # 0

\* The live session of a client, as a set of at most one token.
getClientSession(T, c) == First({t \in SessionsOf(T, c) : ~T[t].expired})

\* Slips: the keys are left; the sessions go with them.
revokeSetupKeys_none(T, c) == T
revokeSetupKeys_all(T, c) == Without(T, TokensOf(T, c))
revokeSetupKeys(T, c) == Without(T, {t \in TokensOf(T, c) : PendingKey(T[t])})
revokeToken(T, c) == Without(T, TokensOf(T, c))

NewInfo(c, type, g, uses) ==
    [clientId |-> c, type |-> type, grant |-> g, usesRemaining |-> uses,
     issuedSessionToken |-> NoToken, commandCount |-> 0, expired |-> FALSE]

Put(T, t, info) == [u \in DOMAIN T \cup {t} |-> IF u = t THEN info ELSE T[u]]

\* The loop that overwrites the client's session stops at the first one.
\* Slip: it looks for the live session, and an expired one stays.
createToken_live(T, t, c, g) ==
    Put(Without(T, getClientSession(T, c)), t, NewInfo(c, "session", g, 0))
createToken(T, t, c, g) ==
    Put(Without(T, First(SessionsOf(T, c))), t, NewInfo(c, "session", g, 0))
createSetupKey(T, t, c, g) == Put(T, t, NewInfo(c, "setup", g, 1))

recordCommand(T, t) ==
    IF t \in DOMAIN T THEN [T EXCEPT ![t].commandCount = 1] ELSE T

-----------------------------------------------------------------------------
(* Tabs and requests.                                                      *)

TabId == DOMAIN tabs
Tab == [owner : Client \cup {None},
        torn : BOOLEAN]  \* history: its owner was torn down since it asked for the tab

IdleRequest == [pc |-> "idle"]
HeldRequest == [pc : {"authenticated", "newtab"}, token : TokenId, clientId : Client,
                grant : Grant, batch : BOOLEAN, torn : BOOLEAN]
Held(r) == req[r].pc # "idle"

releaseClientTabs(c) ==
    [i \in TabId |-> IF tabs[i].owner = c
                     THEN [tabs[i] EXCEPT !.owner = None, !.torn = TRUE] ELSE tabs[i]]

\* History: the requests of c in flight when the operator ends what c had.
Torn(c) == [r \in Request |-> IF Held(r) /\ req[r].clientId = c
                              THEN [req[r] EXCEPT !.torn = TRUE] ELSE req[r]]

-----------------------------------------------------------------------------
(* Operator routes.                                                        *)

Init ==
    /\ tokens = [t \in {} |-> {}]
    /\ nextToken = 1
    /\ tabs = << >>
    /\ req = [r \in Request |-> IdleRequest]
    /\ authorised = [c \in Client |-> {}]

Mint == nextToken <= MaxTokens /\ nextToken' = nextToken + 1

\* POST /pair for a client that has a live session the new grant narrows.
PairSupersede(c, g) ==
    /\ Mint
    /\ \E s \in getClientSession(tokens, c) : grantReducesAccess(tokens[s].grant, g)
    /\ tokens' = createSetupKey(revokeToken(tokens, c), nextToken, c, g)
    /\ tabs' = releaseClientTabs(c)
    /\ req' = Torn(c)
    /\ authorised' = [authorised EXCEPT ![c] = {g}]

\* POST /pair for a client whose live session loses nothing, or that has none.
PairRefresh(c, g) ==
    /\ Mint
    /\ \A s \in getClientSession(tokens, c) : ~grantReducesAccess(tokens[s].grant, g)
    /\ tokens' = createSetupKey(revokeSetupKeys(tokens, c), nextToken, c, g)
    /\ authorised' = [authorised EXCEPT ![c] = {g}]
    /\ IF getClientSession(tokens, c) = {}
       THEN tabs' = releaseClientTabs(c) /\ req' = Torn(c)
       ELSE UNCHANGED <<tabs, req>>

\* POST /pair without a client id: nothing is superseded.
PairUnnamed(c, g) ==
    /\ Mint
    /\ tokens' = createSetupKey(tokens, nextToken, c, g)
    /\ authorised' = [authorised EXCEPT ![c] = @ \cup {g}]
    /\ UNCHANGED <<tabs, req>>

\* POST /token
MintSession(c, g) ==
    /\ Mint
    /\ tokens' = createToken(tokens, nextToken, c, g)
    /\ authorised' = [authorised EXCEPT ![c] = @ \cup {g}]
    /\ UNCHANGED <<tabs, req>>

\* DELETE /token/:clientId
Revoke(c) ==
    /\ tokens' = revokeToken(tokens, c)
    /\ tabs' = releaseClientTabs(c)
    /\ req' = Torn(c)
    /\ authorised' = [authorised EXCEPT ![c] = {}]
    /\ UNCHANGED <<nextToken>>

\* GET /agents: listTokens drops what has expired.
ListAgents ==
    /\ tokens' = Without(tokens, {t \in DOMAIN tokens : tokens[t].expired})
    /\ UNCHANGED <<nextToken, tabs, req, authorised>>

\* A lifetime ends.  A key lives 5 minutes and the session it issues 24 hours
\* from the exchange, so that session outlives its key.
Expire(t) ==
    /\ t \in DOMAIN tokens
    /\ ~tokens[t].expired
    /\ \A k \in DOMAIN tokens :
          tokens[k].issuedSessionToken = t => tokens[k].expired
    /\ tokens' = [tokens EXCEPT ![t].expired = TRUE]
    /\ UNCHANGED <<nextToken, tabs, req, authorised>>

-----------------------------------------------------------------------------
(* POST /connect: exchangeSetupKey.                                        *)

ExchangeExpired(k) ==
    /\ k \in DOMAIN tokens /\ tokens[k].type = "setup" /\ tokens[k].expired
    /\ tokens' = Without(tokens, {k})
    /\ UNCHANGED <<nextToken, tabs, req, authorised>>

Exchange(k) ==
    /\ k \in DOMAIN tokens /\ tokens[k].type = "setup" /\ ~tokens[k].expired
    /\ tokens[k].usesRemaining # 0
    /\ Mint
    /\ tokens' = [createToken(tokens, nextToken, tokens[k].clientId, tokens[k].grant)
                    EXCEPT ![k].usesRemaining = 0, ![k].issuedSessionToken = nextToken]
    /\ UNCHANGED <<tabs, req, authorised>>

\* The same key again: the same session, if it has run nothing.  Nothing changes.
ReExchange(k) ==
    /\ k \in DOMAIN tokens /\ tokens[k].type = "setup" /\ ~tokens[k].expired
    /\ tokens[k].usesRemaining = 0
    /\ LET s == tokens[k].issuedSessionToken IN
         s \in DOMAIN tokens /\ tokens[s].commandCount = 0
    /\ UNCHANGED vars

-----------------------------------------------------------------------------
(* Scoped requests.  The token is looked up before "await req.json()" and  *)
(* the captured TokenInfo is all the handler consults after it.            *)

AuthExpired(t) ==
    /\ t \in DOMAIN tokens /\ tokens[t].expired
    /\ tokens' = Without(tokens, {t})
    /\ UNCHANGED <<nextToken, tabs, req, authorised>>

Authenticate(r, t, batch) ==
    /\ ~Held(r)
    /\ t \in DOMAIN tokens /\ ~tokens[t].expired
    /\ batch => BatchReachable
    /\ req' = [req EXCEPT ![r] = [pc |-> "authenticated", token |-> t,
                                  clientId |-> tokens[t].clientId,
                                  grant |-> tokens[t].grant,
                                  batch |-> batch, torn |-> FALSE]]
    /\ UNCHANGED <<registry, tabs, authorised>>

\* Commands of a batch skip the rate check and recordCommand with it.
Record(r) ==
    tokens' = IF req[r].batch THEN tokens ELSE recordCommand(tokens, req[r].token)

AfterCommand(r) == IF req[r].batch THEN [req[r] EXCEPT !.pc = "authenticated"]
                                   ELSE IdleRequest

\* A command other than newtab, run to its end.
RunCommand(r, command) ==
    /\ req[r].pc = "authenticated"
    /\ command # "newtab" /\ checkScope(req[r].grant, command)
    /\ Record(r)
    /\ req' = [req EXCEPT ![r] = AfterCommand(r)]
    /\ UNCHANGED <<nextToken, tabs, authorised>>

\* newtab, up to the await of the page.
OpenTab(r) ==
    /\ req[r].pc = "authenticated"
    /\ checkScope(req[r].grant, "newtab")
    /\ Record(r)
    /\ req' = [req EXCEPT ![r].pc = "newtab"]
    /\ UNCHANGED <<nextToken, tabs, authorised>>

\* newtab, from the page to the entry in tabOwnership.
TabOpened(r) ==
    /\ req[r].pc = "newtab"
    /\ Len(tabs) < MaxTabs
    /\ tabs' = Append(tabs, [owner |-> req[r].clientId,
                             torn |-> req[r].torn])
    /\ req' = [req EXCEPT ![r] = AfterCommand(r)]
    /\ UNCHANGED <<registry, authorised>>

TabFailed(r) ==
    /\ req[r].pc = "newtab"
    /\ req' = [req EXCEPT ![r] = AfterCommand(r)]
    /\ UNCHANGED <<registry, tabs, authorised>>

\* 403 or 429 for a command; the end of a batch.
Deny(r) ==
    /\ req[r].pc = "authenticated"
    /\ req' = [req EXCEPT ![r] = IdleRequest]
    /\ UNCHANGED <<registry, tabs, authorised>>

-----------------------------------------------------------------------------
Operator ==
    \/ \E c \in Client, g \in Asked :
          g.tabPolicy = "own-only" /\ (PairSupersede(c, g) \/ PairRefresh(c, g))
    \/ \E c \in GeneratedClient, g \in Asked :
          g.tabPolicy = "own-only" /\ PairUnnamed(c, g)
    \/ \E c \in Client, g \in Asked : MintSession(c, g)
    \/ \E c \in Client : Revoke(c)
    \/ ListAgents

Connect == \E k \in TokenId : ExchangeExpired(k) \/ Exchange(k) \/ ReExchange(k)

Serve ==
    \/ \E t \in TokenId : AuthExpired(t)
    \/ \E r \in Request :
          \/ \E t \in TokenId, batch \in BOOLEAN : Authenticate(r, t, batch)
          \/ \E command \in Command : RunCommand(r, command)
          \/ OpenTab(r) \/ TabOpened(r) \/ TabFailed(r) \/ Deny(r)

Next == Operator \/ Connect \/ Serve \/ \E t \in TokenId : Expire(t)

Spec == Init /\ [][Next]_vars

-----------------------------------------------------------------------------
(* Properties.                                                             *)

\* The Map holds well-formed tokens that were minted; requests and tabs are
\* records of the shape the handlers give them (token-registry.ts:141-154).
TypeOK ==
    /\ nextToken \in 1..(MaxTokens + 1)
    /\ DOMAIN tokens \subseteq 1..(nextToken - 1)
    /\ \A t \in DOMAIN tokens : tokens[t] \in TokenInfo
    /\ tabs \in Seq(Tab)
    /\ req \in [Request -> {IdleRequest} \cup HeldRequest]
    /\ authorised \in [Client -> SUBSET Asked]

\* createToken deletes the first session it meets and stops
\* (token-registry.ts:282-289): enough, because a client never has two.
OneSessionPerClient ==
    \A t, u \in DOMAIN tokens :
        /\ tokens[t].type = "session" /\ tokens[u].type = "session"
        /\ tokens[t].clientId = tokens[u].clientId
        => t = u

\* What a token still opens: a live session, or a key that can be exchanged.
Credential(t) ==
    /\ t \in DOMAIN tokens /\ ~tokens[t].expired
    /\ tokens[t].type = "session" \/ PendingKey(tokens[t])

WithinAuthority(info) == \E g \in authorised[info.clientId] : Covers(g, info.grant)

\* "A re-pair supersedes prior grants" (server.ts:2431-2440): after any
\* sequence of pairings, mints, exchanges, re-exchanges and revokes, every
\* live session and every exchangeable key of a client is within a grant the
\* operator stands by, and a revoked client holds none.
CredentialsAuthorised ==
    \A t \in DOMAIN tokens : Credential(t) => WithinAuthority(tokens[t])

\* "A broaden/refresh never strands a working agent" (server.ts:2435-2436): a live
\* session disappears only if no grant the operator still stands by contains
\* it, or because another session of the client takes its place.
NeverStranded ==
    [][\A t \in DOMAIN tokens :
          /\ tokens[t].type = "session" /\ ~tokens[t].expired
          /\ t \notin DOMAIN tokens'
          => \/ \A g \in authorised'[tokens[t].clientId] :
                    grantReducesAccess(tokens[t].grant, g)
             \/ SessionsOf(tokens', tokens[t].clientId) # {}]_vars

\* A re-paired client never owns a tab of its earlier incarnation
\* (server.ts:2365-2368, "let a same-name re-pair inherit an authenticated
\* tab").  A newtab under way during the revoke breaks it.
NoInheritedTab ==
    \A i \in TabId :
        tabs[i].owner # None /\ tabs[i].torn => SessionsOf(tokens, tabs[i].owner) = {}
=============================================================================
