------------------------ MODULE TokenRegistry_proofs ------------------------
(***************************************************************************)
(* For every set of clients, of grants and of requests: the registry is    *)
(* well formed, a client never has two sessions, and no live credential    *)
(* exceeds what the operator stands by; and no live session is dropped     *)
(* that the operator still stands by.                                      *)
(*                                                                         *)
(* The first three are one inductive invariant: that /pair meets every     *)
(* session of the client (CredentialsAuthorised) needs that it has at most *)
(* one, and both need the types.                                           *)
(***************************************************************************)
EXTENDS TokenRegistry, TLAPS

-----------------------------------------------------------------------------
(* Lemmas about the comparison of grants, for all scopes, hosts and patterns. *)

\* A host that ends with s, where s ends with w, ends with w.
LEMMA EndsWithTransitive ==
    ASSUME NEW h \in Seq(Label), NEW s \in Seq(Label), NEW w \in Seq(Label),
           EndsWith(h, s), EndsWith(s, w)
    PROVE  EndsWith(h, w)
<1>1. Len(h) \in Nat /\ Len(s) \in Nat /\ Len(w) \in Nat
  OBVIOUS
<1>2. Len(w) <= Len(h)
  BY <1>1 DEF EndsWith
<1>3. ASSUME NEW i \in 1..Len(w)
      PROVE  w[i] = h[i + (Len(h) - Len(w))]
  <2> DEFINE j == i + (Len(s) - Len(w))
  <2>1. w[i] = s[j]
    BY DEF EndsWith
  <2>2. j \in 1..Len(s)
    BY <1>1 DEF EndsWith
  <2>3. s[j] = h[j + (Len(h) - Len(s))]
    BY <2>2 DEF EndsWith
  <2>4. j + (Len(h) - Len(s)) = i + (Len(h) - Len(w))
    BY <1>1
  <2> QED
    BY <2>1, <2>3, <2>4
<1> QED
  BY <1>2, <1>3 DEF EndsWith

\* domainGlobCovers is sound: the wide pattern admits every host the narrow one
\* admits.
LEMMA GlobCoversSound ==
    ASSUME NEW wide \in Pattern, NEW narrow \in Pattern, NEW h \in Host,
           domainGlobCovers(wide, narrow), matchDomainGlob(h, narrow)
    PROVE  matchDomainGlob(h, wide)
<1>1. /\ h \in Seq(Label)
      /\ wide.labels \in Seq(Label) /\ narrow.labels \in Seq(Label)
  BY HostAssumption, PatternAssumption
<1>2. CASE wide = narrow
  BY <1>2
<1>3. CASE wide.glob /\ EndsWith(narrow.labels, wide.labels)
  <2>1. CASE narrow.glob
    BY <1>1, <1>3, <2>1, EndsWithTransitive DEF matchDomainGlob
  <2>2. CASE ~narrow.glob
    BY <1>3, <2>2 DEF matchDomainGlob
  <2> QED
    BY <2>1, <2>2
<1> QED
  BY <1>2, <1>3 DEF domainGlobCovers

\* The decision /pair rests on (token-registry.ts:538-545): when
\* grantReducesAccess answers no, the new grant permits everything the live
\* session may do, so keeping that session hands out nothing the new grant
\* withholds.
THEOREM NoReductionCovers ==
    ASSUME NEW prior \in Grant, NEW next \in Grant, ~grantReducesAccess(prior, next)
    PROVE  Covers(next, prior)
<1>1. \A c \in Command : checkScope(prior, c) => checkScope(next, c)
  BY DEF grantReducesAccess, scopesReduced, checkScope
<1>2. ASSUME NEW h \in Host, checkDomain(prior, h)
      PROVE  checkDomain(next, h)
  <2>1. CASE next.domains = {}
    BY <2>1 DEF checkDomain
  <2>2. CASE next.domains # {}
    <3>1. prior.domains # {}
      BY <2>2 DEF grantReducesAccess, domainsReduced
    <3>2. PICK p \in prior.domains : matchDomainGlob(h, p)
      BY <1>2, <3>1 DEF checkDomain
    <3>3. PICK n \in next.domains : domainGlobCovers(n, p)
      BY <2>2, <3>1 DEF grantReducesAccess, domainsReduced
    <3>4. p \in Pattern /\ n \in Pattern
      BY DEF Grant
    <3>5. matchDomainGlob(h, n)
      BY <3>2, <3>3, <3>4, GlobCoversSound
    <3> QED
      BY <3>5 DEF checkDomain
  <2> QED
    BY <2>1, <2>2
<1>3. \A n \in RateLimit : rateAllows(prior, n) => rateAllows(next, n)
  <2>1. prior.rateLimit \in Nat /\ next.rateLimit \in Nat
    BY RateAssumption DEF Grant
  <2> QED
    BY <2>1, RateAssumption DEF grantReducesAccess, rateReduced, rateAllows
<1>4. \A own \in BOOLEAN : tabAllows(prior, own) => tabAllows(next, own)
  <2>1. prior.tabPolicy \in TabPolicy
    BY DEF Grant
  <2> QED
    BY <2>1 DEF grantReducesAccess, tabPolicyReduced, tabAllows, TabPolicy
<1> QED
  BY <1>1, <1>2, <1>3, <1>4 DEF Covers

-----------------------------------------------------------------------------
IInv == TypeOK /\ OneSessionPerClient /\ CredentialsAuthorised

-----------------------------------------------------------------------------
(* The Map's operators.                                                    *)

\* A map of well-formed tokens minted before "next".
WellFormed(T, next) ==
    /\ DOMAIN T \subseteq 1..(next - 1)
    /\ \A t \in DOMAIN T : T[t] \in TokenInfo

SingleSession(T) ==
    \A t, u \in DOMAIN T :
        T[t].type = "session" /\ T[u].type = "session" /\ T[t].clientId = T[u].clientId
        => t = u

\* Deleting tokens changes none of the others.
LEMMA WithoutLemma ==
    ASSUME NEW T, NEW S
    PROVE  /\ DOMAIN Without(T, S) = DOMAIN T \ S
           /\ \A t \in DOMAIN T \ S : Without(T, S)[t] = T[t]
BY DEF Without

\* A new token joins the ones that are there.
LEMMA PutLemma ==
    ASSUME NEW T, NEW t, NEW info
    PROVE  /\ DOMAIN Put(T, t, info) = DOMAIN T \cup {t}
           /\ Put(T, t, info)[t] = info
           /\ \A u \in DOMAIN T \ {t} : Put(T, t, info)[u] = T[u]
BY DEF Put

\* NewInfo builds a well-formed, unexpired token.
LEMMA NewInfoLemma ==
    ASSUME NEW c \in Client, NEW type \in {"session", "setup"}, NEW g \in Grant,
           NEW uses \in {0, 1}
    PROVE  /\ NewInfo(c, type, g, uses) \in TokenInfo
           /\ NewInfo(c, type, g, uses).clientId = c
           /\ NewInfo(c, type, g, uses).type = type
           /\ NewInfo(c, type, g, uses).grant = g
           /\ NewInfo(c, type, g, uses).usesRemaining = uses
           /\ ~NewInfo(c, type, g, uses).expired
BY DEF NewInfo, TokenInfo, NoToken

\* The live session of a client, if there is one, is what getClientSession finds.
LEMMA LiveSessionFound ==
    ASSUME NEW T, NEW next \in Nat, WellFormed(T, next), SingleSession(T),
           NEW t \in DOMAIN T, T[t].type = "session", ~T[t].expired
    PROVE  t \in getClientSession(T, T[t].clientId)
<1> DEFINE L == {s \in SessionsOf(T, T[t].clientId) : ~T[s].expired}
<1>1. t \in L
  BY DEF SessionsOf, TokensOf
<1>2. \A u \in L : u = t
  BY DEF SessionsOf, TokensOf, SingleSession
<1>3. t \in Int
  BY DEF WellFormed
<1> QED
  BY <1>1, <1>2, <1>3 DEF getClientSession, First

\* Dropping some tokens and minting one keeps the map well formed.
LEMMA MintWellFormed ==
    ASSUME NEW T, NEW next \in TokenId, WellFormed(T, next), NEW S, NEW info \in TokenInfo
    PROVE  WellFormed(Put(Without(T, S), next, info), next + 1)
<1> next \in Nat /\ next >= 1
  BY BoundsAssumption DEF TokenId
<1> DEFINE U == Put(Without(T, S), next, info)
<1>1. DOMAIN U = (DOMAIN T \ S) \cup {next}
  BY DEF Put, Without
<1>2. \A t \in DOMAIN U : U[t] = IF t = next THEN info ELSE T[t]
  BY DEF Put, Without
<1>3. DOMAIN U \subseteq 1..next
  BY <1>1 DEF WellFormed
<1>4. \A t \in DOMAIN U : U[t] \in TokenInfo
  BY <1>1, <1>2 DEF WellFormed
<1>5. (next + 1) - 1 = next
  OBVIOUS
<1> QED
  BY <1>3, <1>4, <1>5 DEF WellFormed

-----------------------------------------------------------------------------
(* Type correctness.                                                       *)

LEMMA TypeInit == Init => TypeOK
BY BoundsAssumption DEF Init, TypeOK, IdleRequest, TokenId

\* Releasing a client's tabs, and marking its requests, keeps their types.
LEMMA TeardownTypes ==
    ASSUME TypeOK, NEW c \in Client
    PROVE  releaseClientTabs(c) \in Seq(Tab)
           /\ Torn(c) \in [Request -> {IdleRequest} \cup HeldRequest]
<1>1. releaseClientTabs(c) \in Seq(Tab)
  <2>1. Len(tabs) \in Nat /\ DOMAIN tabs = 1..Len(tabs) /\ \A i \in 1..Len(tabs) : tabs[i] \in Tab
    BY DEF TypeOK
  <2>2. releaseClientTabs(c) \in [1..Len(tabs) -> Tab]
    BY <2>1 DEF releaseClientTabs, TabId, Tab
  <2> QED
    BY <2>1, <2>2
<1>2. Torn(c) \in [Request -> {IdleRequest} \cup HeldRequest]
  BY DEF Torn, TypeOK, Held, IdleRequest, HeldRequest
<1> QED
  BY <1>1, <1>2

\* The operator's routes keep the types.
LEMMA TypeOperator ==
    ASSUME TypeOK, Operator
    PROVE  TypeOK'
<1> USE DEF TypeOK
<1>1. nextToken \in Nat /\ WellFormed(tokens, nextToken)
  BY BoundsAssumption DEF WellFormed
<1>2. nextToken <= MaxTokens => nextToken \in TokenId
  BY BoundsAssumption DEF TokenId
<1>3. ASSUME NEW c \in Client, NEW g \in Asked, NEW S, Mint,
             \/ tokens' = createSetupKey(Without(tokens, S), nextToken, c, g)
             \/ tokens' = Put(Without(tokens, S), nextToken, NewInfo(c, "session", g, 0))
      PROVE  /\ nextToken' \in 1..(MaxTokens + 1)
             /\ DOMAIN tokens' \subseteq 1..(nextToken' - 1)
             /\ \A t \in DOMAIN tokens' : tokens'[t] \in TokenInfo
  <2>1. g \in Grant
    BY AskedAssumption
  <2>2. PICK info \in TokenInfo : tokens' = Put(Without(tokens, S), nextToken, info)
    BY <1>3, <2>1, NewInfoLemma DEF createSetupKey
  <2>3. WellFormed(tokens', nextToken + 1)
    BY <1>1, <1>2, <1>3, <2>2, MintWellFormed DEF Mint
  <2> QED
    BY <1>1, <1>3, <2>3, BoundsAssumption DEF Mint, WellFormed
<1>4. \A c, g : createSetupKey(tokens, nextToken, c, g)
                 = createSetupKey(Without(tokens, {}), nextToken, c, g)
  BY DEF createSetupKey, Put, Without
<1>5. CASE \E c \in Client, g \in Asked : PairSupersede(c, g)
  <2> PICK c \in Client, g \in Asked : PairSupersede(c, g)
    BY <1>5
  <2> QED
    BY <1>3, TeardownTypes DEF PairSupersede, revokeToken
<1>6. CASE \E c \in Client, g \in Asked : PairRefresh(c, g)
  <2> PICK c \in Client, g \in Asked : PairRefresh(c, g)
    BY <1>6
  <2> QED
    BY <1>3, TeardownTypes DEF PairRefresh, revokeSetupKeys
<1>7. CASE \E c \in GeneratedClient, g \in Asked : PairUnnamed(c, g)
  <2> PICK c \in GeneratedClient, g \in Asked : PairUnnamed(c, g)
    BY <1>7
  <2> c \in Client
    BY ClientAssumption
  <2> QED
    BY <1>3, <1>4 DEF PairUnnamed
<1>8. CASE \E c \in Client, g \in Asked : MintSession(c, g)
  <2> PICK c \in Client, g \in Asked : MintSession(c, g)
    BY <1>8
  <2> QED
    BY <1>3 DEF MintSession, createToken
<1>9. CASE \E c \in Client : Revoke(c)
  <2> PICK c \in Client : Revoke(c)
    BY <1>9
  <2> QED
    BY TeardownTypes DEF Revoke, revokeToken, Without
<1>10. CASE ListAgents
  BY <1>10 DEF ListAgents, Without
<1> QED
  BY <1>5, <1>6, <1>7, <1>8, <1>9, <1>10 DEF Operator

\* /connect keeps the types.
LEMMA TypeConnect ==
    ASSUME TypeOK, Connect
    PROVE  TypeOK'
<1> USE DEF TypeOK
<1> PICK k \in TokenId : ExchangeExpired(k) \/ Exchange(k) \/ ReExchange(k)
  BY DEF Connect
<1>1. CASE ExchangeExpired(k)
  BY <1>1 DEF ExchangeExpired, Without
<1>2. CASE Exchange(k)
  <2> DEFINE c == tokens[k].clientId
             g == tokens[k].grant
             T == createToken(tokens, nextToken, c, g)
  <2>1. nextToken \in TokenId /\ nextToken \in Nat /\ WellFormed(tokens, nextToken)
    BY <1>2, BoundsAssumption DEF Exchange, Mint, TokenId, WellFormed
  <2>2. c \in Client /\ g \in Grant
    BY <1>2 DEF Exchange, TokenInfo
  <2>3. WellFormed(T, nextToken + 1)
    BY <2>1, <2>2, NewInfoLemma, MintWellFormed DEF createToken
  <2>4. tokens' = [T EXCEPT ![k].usesRemaining = 0, ![k].issuedSessionToken = nextToken]
    BY <1>2 DEF Exchange
  <2>5. DOMAIN tokens' = DOMAIN T
    BY <2>4
  <2>6. \A t \in DOMAIN T : T[t] \in TokenInfo
    BY <2>3 DEF WellFormed
  <2> HIDE DEF T
  <2>7. \A info \in TokenInfo :
           [info EXCEPT !.usesRemaining = 0, !.issuedSessionToken = nextToken] \in TokenInfo
    BY <2>1 DEF TokenInfo
  <2>8. \A t \in DOMAIN tokens' :
           tokens'[t] = IF t = k
                        THEN [T[t] EXCEPT !.usesRemaining = 0, !.issuedSessionToken = nextToken]
                        ELSE T[t]
    BY <2>4, <2>5
  <2>9. \A t \in DOMAIN tokens' : tokens'[t] \in TokenInfo
    BY <2>5, <2>6, <2>7, <2>8
  <2>10. nextToken' = nextToken + 1 /\ nextToken <= MaxTokens
    BY <1>2 DEF Exchange, Mint
  <2>11. DOMAIN tokens' \subseteq 1..(nextToken' - 1)
    BY <2>3, <2>5, <2>10 DEF WellFormed
  <2>12. nextToken' \in 1..(MaxTokens + 1)
    BY <2>1, <2>10, BoundsAssumption
  <2>13. UNCHANGED <<tabs, req, authorised>>
    BY <1>2 DEF Exchange
  <2> QED
    BY <2>9, <2>11, <2>12, <2>13
<1>3. CASE ReExchange(k)
  BY <1>3 DEF ReExchange, vars
<1> QED
  BY <1>1, <1>2, <1>3

\* Serving requests keeps the types.
LEMMA TypeServe ==
    ASSUME TypeOK, Serve
    PROVE  TypeOK'
<1> USE DEF TypeOK
<1>1. ASSUME NEW t \in TokenId, AuthExpired(t)
      PROVE  TypeOK'
  BY <1>1 DEF AuthExpired, Without
<1>2. ASSUME NEW r \in Request, NEW t \in TokenId, NEW batch \in BOOLEAN,
             Authenticate(r, t, batch)
      PROVE  TypeOK'
  <2>1. tokens[t] \in TokenInfo
    BY <1>2 DEF Authenticate
  <2>2. req' \in [Request -> {IdleRequest} \cup HeldRequest]
    BY <1>2, <2>1 DEF Authenticate, TokenInfo, HeldRequest
  <2> QED
    BY <1>2, <2>2 DEF Authenticate, registry
<1>3. ASSUME NEW r \in Request, req[r].pc # "idle"
      PROVE  /\ req[r] \in HeldRequest /\ AfterCommand(r) \in {IdleRequest} \cup HeldRequest
             /\ [req[r] EXCEPT !.pc = "newtab"] \in HeldRequest
  <2>1. req[r] \in HeldRequest
    BY <1>3 DEF IdleRequest
  <2>2. \A h \in HeldRequest : [h EXCEPT !.pc = "newtab"] \in HeldRequest
                               /\ [h EXCEPT !.pc = "authenticated"] \in HeldRequest
    BY DEF HeldRequest
  <2> QED
    BY <2>1, <2>2 DEF AfterCommand
<1>4. ASSUME NEW r \in Request, Record(r), req[r].pc # "idle", UNCHANGED nextToken
      PROVE  /\ DOMAIN tokens' \subseteq 1..(nextToken' - 1)
             /\ \A t \in DOMAIN tokens' : tokens'[t] \in TokenInfo
  <2>1. req[r].token \in TokenId
    BY <1>3, <1>4 DEF HeldRequest
  <2>2. DOMAIN tokens' = DOMAIN tokens
    BY <1>4 DEF Record, recordCommand
  <2>3. \A t \in DOMAIN tokens' : tokens'[t] \in TokenInfo
    <3>1. \A info \in TokenInfo : [info EXCEPT !.commandCount = 1] \in TokenInfo
      BY DEF TokenInfo
    <3>2. ASSUME NEW t \in DOMAIN tokens
          PROVE  tokens'[t] \in {tokens[t], [tokens[t] EXCEPT !.commandCount = 1]}
      BY <1>4 DEF Record, recordCommand
    <3> QED
      BY <2>2, <3>1, <3>2
  <2> QED
    BY <1>4, <2>1, <2>2, <2>3 DEF Record
<1>5. ASSUME NEW r \in Request, NEW command \in Command, RunCommand(r, command)
      PROVE  TypeOK'
  BY <1>3, <1>4, <1>5 DEF RunCommand
<1>6. ASSUME NEW r \in Request, OpenTab(r)
      PROVE  TypeOK'
  BY <1>3, <1>4, <1>6 DEF OpenTab
<1>7. ASSUME NEW r \in Request, TabOpened(r)
      PROVE  TypeOK'
  <2>1. tabs' \in Seq(Tab)
    <3>1. req[r].clientId \in Client /\ req[r].torn \in BOOLEAN
      BY <1>3, <1>7 DEF TabOpened, HeldRequest
    <3>2. [owner |-> req[r].clientId, torn |-> req[r].torn] \in Tab
      BY <3>1 DEF Tab
    <3> QED
      BY <1>7, <3>2 DEF TabOpened
  <2> QED
    BY <1>3, <1>7, <2>1 DEF TabOpened, registry
<1>8. ASSUME NEW r \in Request, TabFailed(r) \/ Deny(r)
      PROVE  TypeOK'
  BY <1>3, <1>8 DEF TabFailed, Deny, registry
<1> QED
  BY <1>1, <1>2, <1>5, <1>6, <1>7, <1>8 DEF Serve

\* A lifetime that ends keeps the types.
LEMMA TypeExpire ==
    ASSUME TypeOK, NEW t \in TokenId, Expire(t)
    PROVE  TypeOK'
<1>1. [tokens[t] EXCEPT !.expired = TRUE] \in TokenInfo
  BY DEF TypeOK, Expire, TokenInfo
<1>2. DOMAIN tokens' = DOMAIN tokens
  BY DEF Expire
<1>3. \A u \in DOMAIN tokens' : tokens'[u] \in TokenInfo
  BY <1>1, <1>2 DEF Expire, TypeOK
<1> QED
  BY <1>2, <1>3 DEF TypeOK, Expire

\* Every step keeps the types.
LEMMA TypeNext == TypeOK /\ [Next]_vars => TypeOK'
<1> SUFFICES ASSUME TypeOK, [Next]_vars PROVE TypeOK'
  OBVIOUS
<1>1. CASE UNCHANGED vars
  BY <1>1 DEF vars, TypeOK, TabId, Tab
<1> QED
  BY <1>1, TypeOperator, TypeConnect, TypeServe, TypeExpire DEF Next

\* The Map, the tabs and the requests keep their shape in every behaviour of
\* the registry (token-registry.ts:141-154).
THEOREM TypeCorrect == Spec => []TypeOK
BY TypeInit, TypeNext, PTL DEF Spec

-----------------------------------------------------------------------------
(* One session per client, and credentials within the operator's grants.   *)

\* What is left after minting: the new token, and old ones unchanged.
LEMMA MintedMap ==
    ASSUME NEW T, NEW S, NEW n, NEW info
    PROVE  LET U == Put(Without(T, S), n, info)
           IN  /\ n \in DOMAIN U /\ U[n] = info
               /\ \A t \in DOMAIN U : t # n => t \in DOMAIN T /\ t \notin S /\ U[t] = T[t]
BY DEF Put, Without

\* createToken removes every session of the client when there is at most one.
LEMMA SessionReplaced ==
    ASSUME NEW T, NEW n \in Nat, WellFormed(T, n), SingleSession(T), NEW c
    PROVE  First(SessionsOf(T, c)) = SessionsOf(T, c)
<1>1. \A t, u \in SessionsOf(T, c) : t = u
  BY DEF SessionsOf, TokensOf, SingleSession
<1>2. \A t \in SessionsOf(T, c) : t \in Int
  BY DEF SessionsOf, TokensOf, WellFormed
<1> QED
  BY <1>1, <1>2 DEF First

\* A grant contains itself.
LEMMA CoversReflexive == \A g : Covers(g, g)
BY DEF Covers

LEMMA IInvInit == Init => IInv
<1> SUFFICES ASSUME Init PROVE IInv
  OBVIOUS
<1>1. DOMAIN tokens = {}
  BY DEF Init
<1> QED
  BY <1>1, TypeInit DEF IInv, OneSessionPerClient, CredentialsAuthorised

\* A new setup key for c, after some tokens were dropped.
LEMMA SafeKey ==
    ASSUME IInv, NEW c \in Client, NEW g \in Asked, NEW S,
           tokens' = createSetupKey(Without(tokens, S), nextToken, c, g),
           g \in authorised'[c],
           \A d \in Client : d # c => authorised'[d] = authorised[d],
           \A t \in DOMAIN tokens \ S :
              Credential(t) /\ tokens[t].clientId = c
              => \E h \in authorised'[c] : Covers(h, tokens[t].grant)
    PROVE  OneSessionPerClient' /\ CredentialsAuthorised'
<1> DEFINE info == NewInfo(c, "setup", g, 1)
<1> g \in Grant
  BY AskedAssumption
<1>1. /\ info.clientId = c /\ info.type = "setup" /\ info.grant = g
  BY NewInfoLemma
<1>2. /\ nextToken \in DOMAIN tokens' /\ tokens'[nextToken] = info
      /\ \A t \in DOMAIN tokens' : t # nextToken =>
            t \in DOMAIN tokens /\ t \notin S /\ tokens'[t] = tokens[t]
  BY MintedMap DEF createSetupKey
<1> HIDE DEF info
<1>3. OneSessionPerClient'
  BY <1>1, <1>2 DEF IInv, OneSessionPerClient
<1>4. ASSUME NEW t \in DOMAIN tokens', Credential(t)'
      PROVE  WithinAuthority(tokens[t])'
  <2>1. CASE t = nextToken
    BY <1>1, <1>2, <2>1, CoversReflexive DEF WithinAuthority
  <2>2. CASE t # nextToken
    <3>1. t \in DOMAIN tokens /\ t \notin S /\ tokens'[t] = tokens[t]
      BY <1>2, <2>2
    <3>2. Credential(t) /\ tokens[t].clientId \in Client
      BY <1>4, <3>1 DEF Credential, PendingKey, IInv, TypeOK, TokenInfo
    <3>3. WithinAuthority(tokens[t])
      BY <3>1, <3>2 DEF IInv, CredentialsAuthorised
    <3> QED
      BY <3>1, <3>2, <3>3 DEF WithinAuthority
  <2> QED
    BY <2>1, <2>2
<1> QED
  BY <1>3, <1>4 DEF CredentialsAuthorised

\* A new session for c in place of the one it had.
LEMMA SafeSession ==
    ASSUME IInv, NEW c \in Client, NEW g \in Grant, NEW T,
           T = createToken(tokens, nextToken, c, g)
    PROVE  /\ nextToken \in DOMAIN T /\ T[nextToken] = NewInfo(c, "session", g, 0)
           /\ \A t \in DOMAIN T : t # nextToken => t \in DOMAIN tokens /\ T[t] = tokens[t]
           /\ SingleSession(T)
<1>1. nextToken \in Nat /\ WellFormed(tokens, nextToken) /\ SingleSession(tokens)
  BY BoundsAssumption DEF IInv, TypeOK, WellFormed, OneSessionPerClient, SingleSession
<1>2. T = Put(Without(tokens, SessionsOf(tokens, c)), nextToken, NewInfo(c, "session", g, 0))
  BY <1>1, SessionReplaced DEF createToken
<1>3. /\ nextToken \in DOMAIN T /\ T[nextToken] = NewInfo(c, "session", g, 0)
      /\ \A t \in DOMAIN T : t # nextToken =>
            t \in DOMAIN tokens /\ t \notin SessionsOf(tokens, c) /\ T[t] = tokens[t]
  BY <1>2, MintedMap
<1>4. NewInfo(c, "session", g, 0).clientId = c /\ NewInfo(c, "session", g, 0).type = "session"
  BY NewInfoLemma
<1>5. \A t \in DOMAIN T : t # nextToken /\ T[t].type = "session" => T[t].clientId # c
  BY <1>3 DEF SessionsOf, TokensOf
<1>6. SingleSession(T)
  BY <1>1, <1>3, <1>4, <1>5 DEF SingleSession
<1> QED
  BY <1>3, <1>6

\* The operator's routes preserve both.
LEMMA SafeOperator ==
    ASSUME IInv, Operator
    PROVE  OneSessionPerClient' /\ CredentialsAuthorised'
<1>1. nextToken \in Nat /\ WellFormed(tokens, nextToken) /\ SingleSession(tokens)
  BY BoundsAssumption DEF IInv, TypeOK, WellFormed, OneSessionPerClient, SingleSession
<1>2. authorised \in [Client -> SUBSET Asked]
  BY DEF IInv, TypeOK
<1>3. ASSUME NEW c \in Client, NEW g \in Asked, PairSupersede(c, g)
      PROVE  OneSessionPerClient' /\ CredentialsAuthorised'
  <2>1. tokens' = createSetupKey(Without(tokens, TokensOf(tokens, c)), nextToken, c, g)
    BY <1>3 DEF PairSupersede, revokeToken
  <2>2. \A t \in DOMAIN tokens \ TokensOf(tokens, c) : tokens[t].clientId # c
    BY DEF TokensOf
  <2>3. authorised'[c] = {g} /\ \A d \in Client : d # c => authorised'[d] = authorised[d]
    BY <1>2, <1>3 DEF PairSupersede
  <2> QED
    BY <2>1, <2>2, <2>3, SafeKey
<1>4. ASSUME NEW c \in Client, NEW g \in Asked, PairRefresh(c, g)
      PROVE  OneSessionPerClient' /\ CredentialsAuthorised'
  <2> DEFINE S == {t \in TokensOf(tokens, c) : PendingKey(tokens[t])}
  <2>1. tokens' = createSetupKey(Without(tokens, S), nextToken, c, g)
    BY <1>4 DEF PairRefresh, revokeSetupKeys
  <2>2. authorised'[c] = {g} /\ \A d \in Client : d # c => authorised'[d] = authorised[d]
    BY <1>2, <1>4 DEF PairRefresh
  <2>3. ASSUME NEW t \in DOMAIN tokens \ S, Credential(t), tokens[t].clientId = c
        PROVE  Covers(g, tokens[t].grant)
    <3>1. tokens[t].type = "session" /\ ~tokens[t].expired
      BY <2>3 DEF Credential, TokensOf
    <3>2. t \in getClientSession(tokens, c)
      BY <1>1, <2>3, <3>1, LiveSessionFound
    <3>3. ~grantReducesAccess(tokens[t].grant, g)
      BY <1>4, <3>2 DEF PairRefresh
    <3>4. tokens[t].grant \in Grant /\ g \in Grant
      BY AskedAssumption DEF IInv, TypeOK, TokenInfo
    <3> QED
      BY <3>3, <3>4, NoReductionCovers
  <2> HIDE DEF S
  <2> QED
    BY <2>1, <2>2, <2>3, SafeKey
<1>5. ASSUME NEW c \in GeneratedClient, NEW g \in Asked, PairUnnamed(c, g)
      PROVE  OneSessionPerClient' /\ CredentialsAuthorised'
  <2>1. c \in Client
    BY ClientAssumption
  <2>2. tokens' = createSetupKey(Without(tokens, {}), nextToken, c, g)
    BY <1>5 DEF PairUnnamed, createSetupKey, Put, Without
  <2>3. authorised'[c] = authorised[c] \cup {g}
        /\ \A d \in Client : d # c => authorised'[d] = authorised[d]
    BY <1>2, <1>5, <2>1 DEF PairUnnamed
  <2>4. ASSUME NEW t \in DOMAIN tokens, Credential(t), tokens[t].clientId = c
        PROVE  \E h \in authorised'[c] : Covers(h, tokens[t].grant)
    BY <2>3, <2>4 DEF IInv, CredentialsAuthorised, WithinAuthority
  <2> QED
    BY <2>1, <2>2, <2>3, <2>4, SafeKey
<1>6. ASSUME NEW c \in Client, NEW g \in Asked, MintSession(c, g)
      PROVE  OneSessionPerClient' /\ CredentialsAuthorised'
  <2>1. g \in Grant
    BY AskedAssumption
  <2>2. tokens' = createToken(tokens, nextToken, c, g)
    BY <1>6 DEF MintSession
  <2>3. authorised'[c] = authorised[c] \cup {g}
        /\ \A d \in Client : d # c => authorised'[d] = authorised[d]
    BY <1>2, <1>6 DEF MintSession
  <2>4. /\ nextToken \in DOMAIN tokens' /\ tokens'[nextToken] = NewInfo(c, "session", g, 0)
        /\ \A t \in DOMAIN tokens' : t # nextToken =>
              t \in DOMAIN tokens /\ tokens'[t] = tokens[t]
        /\ SingleSession(tokens')
    BY <2>1, <2>2, SafeSession
  <2>5. NewInfo(c, "session", g, 0).clientId = c /\ NewInfo(c, "session", g, 0).grant = g
    BY <2>1, NewInfoLemma
  <2>6. ASSUME NEW t \in DOMAIN tokens', Credential(t)'
        PROVE  WithinAuthority(tokens[t])'
    <3>1. CASE t = nextToken
      BY <2>3, <2>4, <2>5, <3>1, CoversReflexive DEF WithinAuthority
    <3>2. CASE t # nextToken
      <4>1. t \in DOMAIN tokens /\ tokens'[t] = tokens[t]
        BY <2>4, <3>2
      <4>2. Credential(t) /\ tokens[t].clientId \in Client
        BY <2>6, <4>1 DEF Credential, PendingKey, IInv, TypeOK, TokenInfo
      <4>3. WithinAuthority(tokens[t])
        BY <4>1, <4>2 DEF IInv, CredentialsAuthorised
      <4> QED
        BY <2>3, <4>1, <4>2, <4>3 DEF WithinAuthority
    <3> QED
      BY <3>1, <3>2
  <2> QED
    BY <2>4, <2>6 DEF SingleSession, OneSessionPerClient, CredentialsAuthorised
<1>7. ASSUME NEW c \in Client, Revoke(c)
      PROVE  OneSessionPerClient' /\ CredentialsAuthorised'
  <2>1. \A t \in DOMAIN tokens' :
           t \in DOMAIN tokens /\ tokens'[t] = tokens[t] /\ tokens[t].clientId # c
    BY <1>7 DEF Revoke, revokeToken, Without, TokensOf
  <2>2. \A d \in Client : d # c => authorised'[d] = authorised[d]
    BY <1>2, <1>7 DEF Revoke
  <2>3. \A t \in DOMAIN tokens : tokens[t].clientId \in Client
    BY DEF IInv, TypeOK, TokenInfo
  <2> QED
    BY <2>1, <2>2, <2>3 DEF IInv, OneSessionPerClient, CredentialsAuthorised,
       Credential, PendingKey, WithinAuthority
<1>8. CASE ListAgents
  <2>1. \A t \in DOMAIN tokens' : t \in DOMAIN tokens /\ tokens'[t] = tokens[t]
    BY <1>8 DEF ListAgents, Without
  <2>2. authorised' = authorised
    BY <1>8 DEF ListAgents
  <2> QED
    BY <2>1, <2>2 DEF IInv, OneSessionPerClient, CredentialsAuthorised,
       Credential, PendingKey, WithinAuthority
<1> QED
  BY <1>3, <1>4, <1>5, <1>6, <1>7, <1>8 DEF Operator

\* A step that mints nothing, keeps who a token is for and what it grants,
\* and makes no token a credential again preserves both.
LEMMA SafeWeakening ==
    ASSUME IInv, authorised' = authorised,
           \A t \in DOMAIN tokens' :
              /\ t \in DOMAIN tokens
              /\ tokens'[t].clientId = tokens[t].clientId
              /\ tokens'[t].type = tokens[t].type
              /\ tokens'[t].grant = tokens[t].grant
              /\ tokens'[t].usesRemaining = tokens[t].usesRemaining
              /\ tokens[t].expired => tokens'[t].expired
    PROVE  OneSessionPerClient' /\ CredentialsAuthorised'
<1>1. OneSessionPerClient'
  BY DEF IInv, OneSessionPerClient
<1>2. ASSUME NEW t \in DOMAIN tokens', Credential(t)'
      PROVE  WithinAuthority(tokens[t])'
  <2>1. Credential(t)
    BY <1>2 DEF Credential, PendingKey
  <2> QED
    BY <2>1 DEF IInv, CredentialsAuthorised, WithinAuthority
<1> QED
  BY <1>1, <1>2 DEF CredentialsAuthorised

\* /connect preserves both.
LEMMA SafeConnect ==
    ASSUME IInv, Connect
    PROVE  OneSessionPerClient' /\ CredentialsAuthorised'
<1> PICK k \in TokenId : ExchangeExpired(k) \/ Exchange(k) \/ ReExchange(k)
  BY DEF Connect
<1>1. CASE ExchangeExpired(k)
  <2>1. authorised' = authorised
        /\ \A t \in DOMAIN tokens' : t \in DOMAIN tokens /\ tokens'[t] = tokens[t]
    BY <1>1 DEF ExchangeExpired, Without
  <2> QED
    BY <2>1, SafeWeakening
<1>2. CASE Exchange(k)
  <2> DEFINE c == tokens[k].clientId
             g == tokens[k].grant
             T == createToken(tokens, nextToken, c, g)
             new == NewInfo(c, "session", g, 0)
  <2>1. k \in DOMAIN tokens /\ k # nextToken /\ tokens[k] \in TokenInfo
    BY <1>2, BoundsAssumption DEF Exchange, IInv, TypeOK, TokenId
  <2>2. c \in Client /\ g \in Grant /\ tokens[k].type = "setup" /\ Credential(k)
    BY <1>2, <2>1 DEF Exchange, TokenInfo, Credential, PendingKey
  <2>3. WithinAuthority(tokens[k])
    BY <2>1, <2>2 DEF IInv, CredentialsAuthorised
  <2>4. /\ nextToken \in DOMAIN T /\ T[nextToken] = new
        /\ \A t \in DOMAIN T : t # nextToken => t \in DOMAIN tokens /\ T[t] = tokens[t]
        /\ SingleSession(T)
    BY <2>2, SafeSession
  <2>5. new.clientId = c /\ new.type = "session" /\ new.grant = g
    BY <2>2, NewInfoLemma
  <2>6. tokens' = [T EXCEPT ![k].usesRemaining = 0, ![k].issuedSessionToken = nextToken]
        /\ authorised' = authorised
    BY <1>2 DEF Exchange
  <2> HIDE DEF T, new
  <2>7. DOMAIN tokens' = DOMAIN T
        /\ \A t \in DOMAIN T : t # k => tokens'[t] = T[t]
    BY <2>6
  <2>8. k \in DOMAIN T =>
            tokens'[k] = [tokens[k] EXCEPT !.usesRemaining = 0, !.issuedSessionToken = nextToken]
    BY <2>1, <2>4, <2>6
  <2>9. k \in DOMAIN T => /\ tokens'[k].clientId = c /\ tokens'[k].type = "setup"
                          /\ tokens'[k].usesRemaining = 0
    BY <2>1, <2>2, <2>8 DEF TokenInfo
  <2>10. \A t \in DOMAIN T : tokens'[t].type = T[t].type /\ tokens'[t].clientId = T[t].clientId
    BY <2>1, <2>2, <2>4, <2>7, <2>9
  <2>11. OneSessionPerClient'
    BY <2>4, <2>7, <2>10 DEF SingleSession, OneSessionPerClient
  <2>12. ASSUME NEW t \in DOMAIN tokens', Credential(t)'
         PROVE  WithinAuthority(tokens[t])'
    <3>1. CASE t = nextToken
      BY <2>1, <2>3, <2>4, <2>5, <2>6, <2>7, <3>1 DEF WithinAuthority
    <3>2. CASE t = k
      <4> tokens'[k].type = "setup" /\ tokens'[k].usesRemaining = 0
        BY <2>7, <2>9, <3>2
      <4> QED
        BY <2>12, <3>2 DEF Credential, PendingKey
    <3>3. CASE t # nextToken /\ t # k
      <4>1. t \in DOMAIN tokens /\ tokens'[t] = tokens[t]
        BY <2>4, <2>7, <3>3
      <4>2. Credential(t)
        BY <2>12, <4>1 DEF Credential, PendingKey
      <4> QED
        BY <2>6, <4>1, <4>2 DEF IInv, CredentialsAuthorised, WithinAuthority
    <3> QED
      BY <3>1, <3>2, <3>3
  <2> QED
    BY <2>11, <2>12 DEF CredentialsAuthorised
<1>3. CASE ReExchange(k)
  BY <1>3, SafeWeakening DEF ReExchange, vars
<1> QED
  BY <1>1, <1>2, <1>3

\* Serving requests preserves both.
LEMMA SafeServe ==
    ASSUME IInv, Serve
    PROVE  OneSessionPerClient' /\ CredentialsAuthorised'
<1>1. ASSUME NEW t \in TokenId, AuthExpired(t)
      PROVE  OneSessionPerClient' /\ CredentialsAuthorised'
  <2>1. authorised' = authorised
        /\ \A u \in DOMAIN tokens' : u \in DOMAIN tokens /\ tokens'[u] = tokens[u]
    BY <1>1 DEF AuthExpired, Without
  <2> QED
    BY <2>1, SafeWeakening
<1>2. ASSUME NEW r \in Request, Record(r), authorised' = authorised
      PROVE  OneSessionPerClient' /\ CredentialsAuthorised'
  <2>1. DOMAIN tokens' = DOMAIN tokens
    BY <1>2 DEF Record, recordCommand
  <2>2. ASSUME NEW t \in DOMAIN tokens
        PROVE  tokens'[t] \in {tokens[t], [tokens[t] EXCEPT !.commandCount = 1]}
    BY <1>2 DEF Record, recordCommand
  <2>3. \A t \in DOMAIN tokens : tokens[t] \in TokenInfo
    BY DEF IInv, TypeOK
  <2>4. \A t \in DOMAIN tokens' :
           /\ tokens'[t].clientId = tokens[t].clientId
           /\ tokens'[t].type = tokens[t].type
           /\ tokens'[t].grant = tokens[t].grant
           /\ tokens'[t].usesRemaining = tokens[t].usesRemaining
           /\ tokens'[t].expired = tokens[t].expired
    BY <2>1, <2>2, <2>3 DEF TokenInfo
  <2> QED
    BY <1>2, <2>1, <2>4, SafeWeakening
<1>3. ASSUME NEW r \in Request, NEW t \in TokenId, NEW batch \in BOOLEAN,
             Authenticate(r, t, batch)
      PROVE  OneSessionPerClient' /\ CredentialsAuthorised'
  <2> UNCHANGED <<tokens, authorised>>
    BY <1>3 DEF Authenticate, registry
  <2> QED
    BY SafeWeakening
<1>4. ASSUME NEW r \in Request, TabOpened(r) \/ TabFailed(r) \/ Deny(r)
      PROVE  OneSessionPerClient' /\ CredentialsAuthorised'
  <2> UNCHANGED <<tokens, authorised>>
    BY <1>4 DEF TabOpened, TabFailed, Deny, registry
  <2> QED
    BY SafeWeakening
<1> QED
  BY <1>1, <1>2, <1>3, <1>4 DEF Serve, RunCommand, OpenTab

\* A lifetime that ends preserves both.
LEMMA SafeExpire ==
    ASSUME IInv, NEW t \in TokenId, Expire(t)
    PROVE  OneSessionPerClient' /\ CredentialsAuthorised'
<1>1. DOMAIN tokens' = DOMAIN tokens /\ authorised' = authorised
  BY DEF Expire
<1>2. \A u \in DOMAIN tokens : tokens[u] \in TokenInfo
  BY DEF IInv, TypeOK
<1>3. \A u \in DOMAIN tokens :
         tokens'[u] = IF u = t THEN [tokens[u] EXCEPT !.expired = TRUE] ELSE tokens[u]
  BY DEF Expire
<1> QED
  BY <1>1, <1>2, <1>3, SafeWeakening DEF TokenInfo

LEMMA IInvNext == IInv /\ [Next]_vars => IInv'
<1> SUFFICES ASSUME IInv, [Next]_vars PROVE IInv'
  OBVIOUS
<1>1. TypeOK'
  BY TypeNext DEF IInv
<1>2. OneSessionPerClient' /\ CredentialsAuthorised'
  <2>1. CASE UNCHANGED vars
    BY <2>1, SafeWeakening DEF vars
  <2> QED
    BY <2>1, SafeOperator, SafeConnect, SafeServe, SafeExpire DEF Next
<1> QED
  BY <1>1, <1>2 DEF IInv

LEMMA Invariance == Spec => []IInv
BY IInvInit, IInvNext, PTL DEF Spec

\* createToken's loop may stop at the first session it meets: no sequence of
\* pairings, mints and exchanges gives a client a second one.
THEOREM AtMostOneSession == Spec => []OneSessionPerClient
BY Invariance, PTL DEF IInv

\* A re-pair supersedes prior grants, for every set of clients, scopes, domain
\* patterns and limits: no live session and no exchangeable key exceeds what
\* the operator stands by.
THEOREM CredentialsStayAuthorised == Spec => []CredentialsAuthorised
BY Invariance, PTL DEF IInv

-----------------------------------------------------------------------------
(* No working agent is stranded.                                           *)

\* What NeverStranded asks of a step that drops a live session.
Replaced(t) ==
    \/ \A g \in authorised'[tokens[t].clientId] : grantReducesAccess(tokens[t].grant, g)
    \/ SessionsOf(tokens', tokens[t].clientId) # {}

\* A session minted in place of another one.
LEMMA SessionInPlace ==
    ASSUME IInv, NEW c \in Client, NEW g \in Grant, NEW t \in DOMAIN tokens,
           t \notin DOMAIN createToken(tokens, nextToken, c, g)
    PROVE  /\ tokens[t].clientId = c
           /\ nextToken \in SessionsOf(createToken(tokens, nextToken, c, g), c)
<1>1. t \in SessionsOf(tokens, c)
  BY DEF createToken, Put, Without, First
<1>2. LET T == createToken(tokens, nextToken, c, g)
      IN  nextToken \in DOMAIN T /\ T[nextToken] = NewInfo(c, "session", g, 0)
  BY SafeSession
<1>3. NewInfo(c, "session", g, 0).clientId = c /\ NewInfo(c, "session", g, 0).type = "session"
  BY NewInfoLemma
<1> QED
  BY <1>1, <1>2, <1>3 DEF SessionsOf, TokensOf

LEMMA StrandedByOperator ==
    ASSUME IInv, Operator, NEW t \in DOMAIN tokens, t \notin DOMAIN tokens',
           tokens[t].type = "session", ~tokens[t].expired
    PROVE  Replaced(t)
<1>1. ASSUME NEW c \in Client, NEW g \in Asked, PairSupersede(c, g) PROVE Replaced(t)
  <2>1. t \in TokensOf(tokens, c)
    BY <1>1 DEF PairSupersede, createSetupKey, revokeToken, Put, Without
  <2>2. PICK s \in getClientSession(tokens, c) : grantReducesAccess(tokens[s].grant, g)
    BY <1>1 DEF PairSupersede
  \* The session /pair compared is the one that goes.
  <2>3. s = t
    BY <2>1, <2>2 DEF getClientSession, First, SessionsOf, TokensOf, IInv, OneSessionPerClient
  <2>4. authorised'[c] = {g}
    BY <1>1 DEF PairSupersede, IInv, TypeOK
  <2> QED
    BY <2>1, <2>2, <2>3, <2>4 DEF Replaced, TokensOf
<1>2. ASSUME NEW c \in Client, NEW g \in Asked, PairRefresh(c, g) \/ PairUnnamed(c, g) PROVE FALSE
  BY <1>2 DEF PairRefresh, PairUnnamed, createSetupKey, revokeSetupKeys, PendingKey, Put, Without
<1>3. ASSUME NEW c \in Client, NEW g \in Asked, MintSession(c, g) PROVE Replaced(t)
  <2>1. g \in Grant /\ tokens' = createToken(tokens, nextToken, c, g)
    BY <1>3, AskedAssumption DEF MintSession
  <2> QED
    BY <2>1, SessionInPlace DEF Replaced
<1>4. ASSUME NEW c \in Client, Revoke(c) PROVE Replaced(t)
  <2>1. tokens[t].clientId = c
    BY <1>4 DEF Revoke, revokeToken, Without, TokensOf
  <2>2. authorised'[c] = {}
    BY <1>4 DEF Revoke, IInv, TypeOK
  <2> QED
    BY <2>1, <2>2 DEF Replaced
<1>5. ASSUME ListAgents PROVE FALSE
  BY <1>5 DEF ListAgents, Without
<1> QED
  BY <1>1, <1>2, <1>3, <1>4, <1>5, ClientAssumption DEF Operator

LEMMA StrandedByConnect ==
    ASSUME IInv, NEW k, Exchange(k), NEW t \in DOMAIN tokens, t \notin DOMAIN tokens'
    PROVE  Replaced(t)
<1> DEFINE c == tokens[k].clientId
           T == createToken(tokens, nextToken, c, tokens[k].grant)
<1>1. k \in DOMAIN tokens /\ c \in Client /\ tokens[k].grant \in Grant
  BY DEF Exchange, IInv, TypeOK, TokenInfo
<1>2. DOMAIN tokens' = DOMAIN T
  BY DEF Exchange
<1>3. tokens[t].clientId = c /\ nextToken \in SessionsOf(T, c)
  BY <1>1, <1>2, SessionInPlace
<1>4. k # nextToken
  BY <1>1, BoundsAssumption DEF IInv, TypeOK
<1>5. nextToken \in DOMAIN T => tokens'[nextToken] = T[nextToken]
  BY <1>4 DEF Exchange
<1> HIDE DEF T
<1>6. nextToken \in SessionsOf(tokens', c)
  BY <1>2, <1>3, <1>5 DEF SessionsOf, TokensOf
<1> QED
  BY <1>3, <1>6 DEF Replaced

LEMMA StrandedNext ==
    ASSUME IInv, [Next]_vars, NEW t \in DOMAIN tokens, t \notin DOMAIN tokens',
           tokens[t].type = "session", ~tokens[t].expired
    PROVE  Replaced(t)
<1>1. CASE UNCHANGED vars
  BY <1>1 DEF vars
<1>2. ASSUME NEW k \in TokenId, ExchangeExpired(k) \/ ReExchange(k) PROVE FALSE
  BY <1>2 DEF ExchangeExpired, ReExchange, Without, vars
<1>3. ASSUME Serve PROVE FALSE
  BY <1>3 DEF Serve, AuthExpired, Without, Authenticate, registry, RunCommand, OpenTab, Record,
              recordCommand, TabOpened, TabFailed, Deny
<1>4. ASSUME NEW u \in TokenId, Expire(u) PROVE FALSE
  BY <1>4 DEF Expire
<1> QED
  BY <1>1, <1>2, <1>3, <1>4, StrandedByOperator, StrandedByConnect DEF Next, Connect

\* "A broaden/refresh never strands a working agent" (server.ts:2435-2436), for
\* every set of clients, scopes, domain patterns and limits.
THEOREM NobodyStranded == Spec => NeverStranded
<1>1. IInv /\ [Next]_vars =>
        [\A t \in DOMAIN tokens :
            /\ tokens[t].type = "session" /\ ~tokens[t].expired
            /\ t \notin DOMAIN tokens'
            => \/ \A g \in authorised'[tokens[t].clientId] :
                      grantReducesAccess(tokens[t].grant, g)
               \/ SessionsOf(tokens', tokens[t].clientId) # {}]_vars
  BY StrandedNext DEF Replaced
<1> QED
  BY <1>1, Invariance, PTL DEF Spec, NeverStranded
=============================================================================
