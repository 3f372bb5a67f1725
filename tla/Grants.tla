------------------------------- MODULE Grants -------------------------------
(***************************************************************************)
(* What a scoped token of the browse daemon may do, and the decision /pair *)
(* takes when a client is paired again: does the new grant take anything   *)
(* away from the live session?  (browse/src/token-registry.ts)             *)
(*                                                                         *)
(* A host name is its sequence of labels: "x.example.com" is               *)
(* <<"x", "example", "com">>.  The code compares strings, but every suffix *)
(* it looks for begins with a dot, hence at a label boundary.              *)
(***************************************************************************)
EXTENDS Integers, Sequences

CONSTANTS
    Scope,      \* the scope categories
    Command,    \* command names
    SCOPE_MAP,  \* scope category -> the commands it opens; "chain" is one of meta's
    Label,      \* labels of host names
    Host,       \* host names
    Pattern,    \* domain patterns, "*.labels" (glob) or "labels"
    RateLimit   \* requests per second, 0 = unlimited

ASSUME ScopeMapAssumption == SCOPE_MAP \in [Scope -> SUBSET Command]
ASSUME HostAssumption == Host \subseteq Seq(Label)
ASSUME PatternAssumption == Pattern \subseteq [glob : BOOLEAN, labels : Seq(Label)]
ASSUME RateAssumption == RateLimit \subseteq Nat

TabPolicy == {"own-only", "shared"}

\* The empty set of domains stands for "undefined" and for "[]": no restriction.
Grant == [scopes : SUBSET Scope, domains : SUBSET Pattern,
          rateLimit : RateLimit, tabPolicy : TabPolicy]

-----------------------------------------------------------------------------
(* What a grant permits.                                                   *)

EndsWith(host, suffix) ==
    /\ Len(suffix) <= Len(host)
    /\ \A i \in 1..Len(suffix) : suffix[i] = host[i + (Len(host) - Len(suffix))]

matchDomainGlob(host, p) ==
    IF p.glob THEN EndsWith(host, p.labels) ELSE host = p.labels

checkScope(g, command) == \E s \in g.scopes : command \in SCOPE_MAP[s]

checkDomain(g, host) ==
    g.domains = {} \/ \E p \in g.domains : matchDomainGlob(host, p)

\* checkRateLimit lets a request through when "count" came before it in the window.
rateAllows(g, count) == g.rateLimit <= 0 \/ count < g.rateLimit

\* checkTabAccess: an own-only token drives the tabs of its own client only.
tabAllows(g, own) == g.tabPolicy = "own-only" => own

-----------------------------------------------------------------------------
(* grantReducesAccess and the four comparisons it is made of.              *)

scopesReduced(prior, next) == \E s \in prior.scopes : s \notin next.scopes

domainGlobCovers(wide, narrow) ==
    \/ wide = narrow
    \/ wide.glob /\ EndsWith(narrow.labels, wide.labels)

domainsReduced(prior, next) ==
    IF prior.domains = {} THEN next.domains # {}
    ELSE /\ next.domains # {}
         /\ \E p \in prior.domains : \A n \in next.domains : ~domainGlobCovers(n, p)

rateReduced(prior, next) ==
    IF prior.rateLimit <= 0 THEN next.rateLimit > 0
    ELSE next.rateLimit > 0 /\ next.rateLimit < prior.rateLimit

tabPolicyReduced(prior, next) ==
    prior.tabPolicy = "shared" /\ next.tabPolicy = "own-only"

grantReducesAccess(prior, next) ==
    \/ scopesReduced(prior, next)
    \/ domainsReduced(prior, next)
    \/ rateReduced(prior, next)
    \/ tabPolicyReduced(prior, next)

-----------------------------------------------------------------------------
(* The reference definition: everything "prior" permits, "next" permits.   *)
(* (The counts at which one limit stops before another are limits.)        *)

Covers(next, prior) ==
    /\ \A c \in Command : checkScope(prior, c) => checkScope(next, c)
    /\ \A h \in Host : checkDomain(prior, h) => checkDomain(next, h)
    /\ \A n \in RateLimit : rateAllows(prior, n) => rateAllows(next, n)
    /\ \A own \in BOOLEAN : tabAllows(prior, own) => tabAllows(next, own)
=============================================================================
