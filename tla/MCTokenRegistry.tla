--------------------------- MODULE MCTokenRegistry ---------------------------
(* A small instance of TokenRegistry: two scopes, four hosts, and grants     *)
(* that compare in every way grantReducesAccess distinguishes.               *)
EXTENDS TokenRegistry

MCScope == {"read", "write"}
MCCommand == {"text", "newtab"}
MCScopeMap == [s \in MCScope |-> IF s = "read" THEN {"text"} ELSE {"newtab"}]
MCLabel == {"a", "x"}
MCHost == {<<"a">>, <<"x", "a">>, <<"x">>}
MCPattern == [glob : BOOLEAN, labels : MCHost]
MCRateLimit == {0, 10}

Full == [scopes |-> MCScope, domains |-> {}, rateLimit |-> 10, tabPolicy |-> "own-only"]
OneSite == [Full EXCEPT !.domains = {[glob |-> TRUE, labels |-> <<"a">>]}]
OneHost == [Full EXCEPT !.domains = {[glob |-> FALSE, labels |-> <<"x", "a">>]}]
ReadOnly == [Full EXCEPT !.scopes = {"read"}]
Skill == [Full EXCEPT !.rateLimit = 0, !.tabPolicy = "shared"]

MCAskedScopes == {Full, ReadOnly}
MCAskedMixed == {OneSite, OneHost, Skill}
==============================================================================
