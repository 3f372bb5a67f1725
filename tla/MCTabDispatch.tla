---------------------------- MODULE MCTabDispatch ----------------------------
(* Instances of TabDispatch: which callers and commands meet.                *)
EXTENDS TabDispatch

\* Two own-only clients and the root, two commands at a time.
Agents == [clients |-> Client, requests |-> Request, pagesFail |-> TRUE, pagesClose |-> FALSE,
           kinds |-> {"page", "tab", "newtab", "refused"}]

\* One and the root, which close tabs, as the pages do themselves.
Closers == [clients |-> {"a"}, requests |-> Request, pagesFail |-> FALSE, pagesClose |-> TRUE,
            kinds |-> {"page", "newtab", "closetab"}]

\* One own-only client and the root, whose chains may be under way together.
Chains == [clients |-> {"a"}, requests |-> Request, pagesFail |-> FALSE, pagesClose |-> FALSE,
           kinds |-> {"page", "newtab", "chain"}]

\* One command of any kind after the other, chains of them included.
Sole == [clients : {{"a"}}, requests : {{"r1"}}, pagesFail : BOOLEAN, pagesClose : BOOLEAN,
         kinds : {{"page", "tab", "newtab", "closetab", "chain", "refused"}}]

Callers == {Agents, Closers, Chains} \cup Sole
==============================================================================
