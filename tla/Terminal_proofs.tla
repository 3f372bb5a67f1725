---------------------------- MODULE Terminal_proofs ----------------------------
(***************************************************************************)
(* The terminal of the side panel, for any number of requests, sessions,   *)
(* attach tokens, deaths of the agent, scheduled ticks and overlapping     *)
(* operations: no PTY is orphaned, a used attach token opens nothing       *)
(* unless its session was taken over before its close, and a live panel    *)
(* has the socket of its session until operations cross or a late close    *)
(* clears it.                                                              *)
(***************************************************************************)
EXTENDS SidepanelTerminal, FiniteSetTheorems, SequenceTheorems, WellFoundedInduction, TLAPS

-----------------------------------------------------------------------------
(* Types, by who keeps them.                                               *)

\* What is in flight in a slot.
Posted == [pc : {"posted"}, kind : Continuation \cup {"dispose"}, sid : Session \cup {None}]
Disposal == [pc : {"disposing", "disposed"}, kind : {"restart", "dispose"}, sid : Session]
Granted == [pc : {"granting"}, kind : Continuation, sid : Session, token : Attach]
Success == [pc : {"answered", "checking"}, kind : Continuation, sid : Session,
            result : {"ok"}, token : Attach]
Failure == [pc : {"answered", "waiting"}, kind : Continuation, sid : Session \cup {None},
            result : {"fail", "gone"}, token : {None}]
RequestOK(r) == r = Free \/ r \in Posted \/ r \in Disposal \/ r \in Granted
                         \/ r \in Success \/ r \in Failure

Token == [sid : Session, from : Continuation, status : {"minted", "valid", "dead"}]
Pty == [sid : Session \cup {None}, cookie : Attach \cup {None}, live : Attach \cup {None},
        proc : {"none", "running", "exited", "failed"}, dying : Nat, detached : BOOLEAN,
        timer : Attach \cup {None}, timers : SUBSET Attach]
Socket == [state : {"none", "offered", "open", "closed"}, of : Attach \cup {None},
           code : Intentional \cup {"none", "lost"}]

ServerShape ==
    /\ leases \in Seq({"live", "gone"}) /\ Len(leases) <= MaxSession
    /\ tokens \in Seq(Token) /\ Len(tokens) <= MaxAttach
    /\ DOMAIN req = Slot /\ \A q \in Slot : RequestOK(req[q])
AgentShape ==
    /\ up \in BOOLEAN
    /\ byId \in [Session -> Attach \cup {None}]
    /\ pty \in [Attach -> Pty]
    /\ socket \in [Attach -> Socket]
    /\ \A w \in Attach : socket[w].state = "open" => socket[w].of # None
PanelShape ==
    /\ panel \in States /\ polls \in Nat /\ inFlight \in BOOLEAN
    /\ current \in Session \cup {None} /\ ws \in Attach \cup {None}
    /\ seen \in [Attach -> {"none", "open", "closing", "closed"}]
    /\ crossings \in Nat /\ strayed \in BOOLEAN
Shape == ServerShape /\ AgentShape /\ PanelShape

Busy(r) == r.pc # "free" /\ r.kind \in Continuation
Spends(r) == r.pc = "granting" \/ (r.pc \in {"answered", "checking"} /\ r.result = "ok")
Continuing(q) == Busy(req[q])
HasToken(q) == Spends(req[q])

OneAtATime == \A q, r \in Slot : Continuing(q) /\ Continuing(r) => q = r

Live ==
    /\ ws # None /\ seen[ws] = "open"
    /\ ws \in DOMAIN tokens /\ tokens[ws].sid = current
    /\ \A q \in Slot : ~Continuing(q)

PanelKept ==
    /\ IF panel = "live" THEN Live ELSE ws = None
    /\ \A w \in Attach : seen[w] = "open" => w = ws
    /\ \A q \in Slot : InPc(q, "checking") /\ panel # "closed" => req[q].sid = current

\* No operation has crossed another, no late close cleared another's socket.
Orderly == crossings = 0 /\ ~strayed
PanelOrderly == Orderly => OneAtATime /\ PanelKept

Attached(w) == socket[w].state \in {"offered", "open"}
Opened(w) == socket[w].state \in {"open", "closed"}

TokensKept ==
    /\ \A w \in Attach : socket[w].state # "none" => w \in DOMAIN tokens
    /\ \A w \in Attach : socket[w].state \in {"none", "offered"} => socket[w].of = None
    /\ \A q \in Slot : HasToken(q) =>
          /\ req[q].token \in DOMAIN tokens /\ tokens[req[q].token].sid = req[q].sid
          /\ socket[req[q].token].state = "none"
    /\ \A q, r \in Slot : HasToken(q) /\ HasToken(r) /\ req[q].token = req[r].token => q = r

CookieKept ==
    \A w \in Attach \ superseded : socket[w].state = "open" => pty[socket[w].of].cookie = w
\* A session has the name of a socket that was opened.
SessionsKept ==
    /\ \A w \in Attach : socket[w].state = "open" => Opened(socket[w].of)
    /\ \A s \in Session : byId[s] # None => Opened(byId[s])

-----------------------------------------------------------------------------
(* Data.                                                                   *)

LEMMA NoneIsNobody == None \notin Attach /\ None \notin Session
BY TerminalAssumption DEF None, Attach, Session

LEMMA SeqExcept ==
    ASSUME NEW S, NEW s \in Seq(S), NEW i, NEW e \in S
    PROVE  /\ [s EXCEPT ![i] = e] \in Seq(S) /\ Len([s EXCEPT ![i] = e]) = Len(s)
           /\ \A j \in 1..Len(s) : [s EXCEPT ![i] = e][j] = IF j = i THEN e ELSE s[j]
<1>1. CASE i \in 1..Len(s)
  BY <1>1, ExceptSeq
<1>2. CASE i \notin 1..Len(s)
  <2>1. DOMAIN s = 1..Len(s) /\ s \in [1..Len(s) -> S]
    BY LenProperties
  <2>2. [s EXCEPT ![i] = e] = s
    BY <1>2, <2>1
  <2> QED
    BY <1>2, <2>2
<1> QED
  BY <1>1, <1>2

\* A token whose status changes keeps its session and its place.
SameTokens ==
    /\ tokens' \in Seq(Token) /\ Len(tokens') = Len(tokens)
    /\ \A t \in 1..Len(tokens) : tokens'[t].sid = tokens[t].sid

LEMMA StatusChanges ==
    ASSUME ServerShape, NEW t, NEW x \in {"minted", "valid", "dead"},
           tokens' = [tokens EXCEPT ![t].status = x]
    PROVE  /\ SameTokens
           /\ \A i \in 1..Len(tokens) :
                 tokens'[i].status = IF i = t THEN x ELSE tokens[i].status
<1>1. CASE t \in 1..Len(tokens)
  <2> DEFINE e == [tokens[t] EXCEPT !.status = x]
  <2>1. tokens \in Seq(Token) /\ tokens[t] \in Token
    BY <1>1, ElementOfSeq DEF ServerShape
  <2>2. e \in Token /\ e.sid = tokens[t].sid /\ e.status = x
    BY <2>1 DEF Token
  <2>3. tokens' = [tokens EXCEPT ![t] = e]
    OBVIOUS
  <2> HIDE DEF e
  <2>4. /\ tokens' \in Seq(Token) /\ Len(tokens') = Len(tokens)
        /\ \A i \in 1..Len(tokens) : tokens'[i] = IF i = t THEN e ELSE tokens[i]
    <3> DEFINE f == [tokens EXCEPT ![t] = e]
    <3>1. /\ f \in Seq(Token) /\ Len(f) = Len(tokens)
          /\ \A j \in 1..Len(tokens) : f[j] = IF j = t THEN e ELSE tokens[j]
      BY <2>1, <2>2, SeqExcept
    <3>2. tokens' = f
      BY <2>3
    <3> HIDE DEF f
    <3> QED
      BY <3>1, <3>2
  <2> QED
    BY <2>2, <2>4 DEF SameTokens
<1>2. CASE t \notin 1..Len(tokens)
  <2>1. tokens \in Seq(Token) /\ DOMAIN tokens = 1..Len(tokens)
    BY LenProperties DEF ServerShape
  <2>2. tokens \in [1..Len(tokens) -> Token]
    BY <2>1, LenProperties
  <2>3. tokens' = tokens
    BY <1>2, <2>1, <2>2
  <2> QED
    BY <1>2, <2>1, <2>3 DEF SameTokens
<1> QED
  BY <1>1, <1>2

LEMMA MintAppends ==
    ASSUME ServerShape, CanMint, NEW s \in Session, NEW from \in Continuation,
           MintToken(s, from)
    PROVE  /\ tokens' \in Seq(Token) /\ Len(tokens') = Len(tokens) + 1
           /\ Len(tokens) + 1 \in Attach
           /\ \A t \in 1..Len(tokens) : tokens'[t] = tokens[t]
           /\ tokens'[Len(tokens) + 1].sid = s
           /\ tokens'[Len(tokens) + 1].status = "minted"
<1> DEFINE e == [sid |-> s, from |-> from, status |-> "minted"]
<1>1. e \in Token /\ e.sid = s /\ e.status = "minted" /\ tokens \in Seq(Token)
  BY DEF Token, ServerShape
<1>2. tokens' = Append(tokens, e)
  BY DEF MintToken
<1> HIDE DEF e
<1>3. Len(tokens) \in Nat /\ Len(tokens) < MaxAttach /\ MaxAttach \in Nat
  BY <1>1, LenProperties, TerminalAssumption DEF CanMint
<1>4. tokens' \in Seq(Token) /\ Len(tokens') = Len(tokens) + 1
      /\ (\A t \in 1..Len(tokens) : tokens'[t] = tokens[t]) /\ tokens'[Len(tokens) + 1] = e
  BY <1>1, <1>2, AppendProperties
<1> QED
  BY <1>1, <1>3, <1>4 DEF Attach

\* Leases are only told apart by their place.
Leases == Seq({"live", "gone"})

LEMMA RevokeTyped ==
    ASSUME NEW s, leases \in Leases
    PROVE  revokeLease(s) \in Leases /\ Len(revokeLease(s)) = Len(leases)
BY SeqExcept DEF revokeLease, Leases

LEMMA MintTyped ==
    ASSUME NEW ls \in Leases
    PROVE  mintLease(ls) \in Leases /\ Len(mintLease(ls)) = Len(ls) + 1
<1> DEFINE more == Append(ls, "live")
<1>1. more \in Leases /\ Len(more) = Len(ls) + 1
  BY AppendProperties DEF Leases
<1>2. \A i : [more EXCEPT ![i] = "gone"] \in Leases
               /\ Len([more EXCEPT ![i] = "gone"]) = Len(ls) + 1
  <2> HIDE DEF more
  <2> TAKE i
  <2>1. more \in Seq({"live", "gone"})
    BY <1>1 DEF Leases
  <2>2. /\ [more EXCEPT ![i] = "gone"] \in Seq({"live", "gone"})
        /\ Len([more EXCEPT ![i] = "gone"]) = Len(more)
    BY <2>1, SeqExcept
  <2> QED
    BY <1>1, <2>2 DEF Leases
<1> QED
  BY <1>1, <1>2 DEF mintLease

\* What has been done to a record of the agent.
LEMMA PtyRecords ==
    ASSUME NEW r \in Pty
    PROVE  /\ disposeSession(r) \in Pty /\ disposeSession(r).proc = "none"
           /\ disposeSession(r).cookie = r.cookie
           /\ ClearTimer(r) \in Pty /\ ClearTimer(r).cookie = r.cookie
           /\ \A w \in Attach :
                 /\ Detached(r, w) \in Pty /\ Detached(r, w).cookie = r.cookie
                 /\ Detached(r, w).detached /\ w \in Detached(r, w).timers
                 /\ Reattached(r, w) \in Pty /\ Reattached(r, w).cookie = w
                 /\ [NoPty EXCEPT !.cookie = w].cookie = w
           /\ NoPty \in Pty /\ NoPty.proc = "none"
<1>1. ClearTimer(r) \in Pty /\ ClearTimer(r).cookie = r.cookie
  BY DEF ClearTimer, Pty
<1>2. disposeSession(r) \in Pty /\ disposeSession(r).proc = "none"
      /\ disposeSession(r).cookie = r.cookie
  <2>1. r.dying \in Nat
    BY DEF Pty
  <2>2. PICK n \in Nat : disposeSession(r) = [r EXCEPT !.proc = "none", !.dying = n]
    <3>1. r.dying + 1 \in Nat
      BY <2>1
    <3>2. \/ disposeSession(r) = [r EXCEPT !.proc = "none", !.dying = r.dying + 1]
          \/ disposeSession(r) = [r EXCEPT !.proc = "none", !.dying = r.dying]
      BY DEF disposeSession, Pty
    <3> QED
      BY <2>1, <3>1, <3>2
  <2> QED
    BY <2>2 DEF Pty
<1>3. ASSUME NEW w \in Attach
      PROVE  /\ Detached(r, w) \in Pty /\ Detached(r, w).cookie = r.cookie
             /\ Detached(r, w).detached /\ w \in Detached(r, w).timers
             /\ Reattached(r, w) \in Pty /\ Reattached(r, w).cookie = w
             /\ [NoPty EXCEPT !.cookie = w].cookie = w
  <2> DEFINE c == ClearTimer(r)
  <2>1. Detached(r, w) \in Pty /\ Detached(r, w).cookie = r.cookie
        /\ Detached(r, w).detached /\ w \in Detached(r, w).timers
    BY DEF Detached, Pty
  <2>2. c \in Pty
    BY <1>1
  <2> HIDE DEF c
  <2>3. [c EXCEPT !.detached = FALSE, !.live = w, !.cookie = w] \in Pty
        /\ [c EXCEPT !.detached = FALSE, !.live = w, !.cookie = w].cookie = w
    BY <2>2 DEF Pty
  <2> QED
    BY <2>1, <2>3 DEF Reattached, NoPty, c
<1>4. NoPty \in Pty /\ NoPty.proc = "none"
  BY DEF NoPty, Pty
<1> QED
  BY <1>1, <1>2, <1>3, <1>4

-----------------------------------------------------------------------------
(* The routes.                                                             *)

LEMMA PcTells ==
    ASSUME NEW r, RequestOK(r)
    PROVE  /\ r.pc = "free" => r = Free
           /\ r.pc = "posted" => r \in Posted
           /\ r.pc \in {"disposing", "disposed"} => r \in Disposal
           /\ r.pc = "granting" => r \in Granted
           /\ r.pc = "checking" => r \in Success
           /\ r.pc = "waiting" => r \in Failure
           /\ r.pc = "answered" => r \in Success \/ r \in Failure
BY DEF RequestOK, Free, Posted, Disposal, Granted, Success, Failure

LEMMA BecomesTyped ==
    ASSUME ServerShape, NEW q \in Slot, NEW r, RequestOK(r), Becomes(q, r)
    PROVE  /\ DOMAIN req' = Slot /\ \A s \in Slot : RequestOK(req'[s])
           /\ req'[q] = r /\ \A s \in Slot \ {q} : req'[s] = req[s]
BY DEF ServerShape, Becomes

\* The request keeps what token it has, or has just been given a new one.
KeepsToken(q, r) ==
    /\ SameTokens
    /\ Spends(r) => Spends(req[q]) /\ r.token = req[q].token /\ r.sid = req[q].sid
Mints(r) ==
    /\ tokens' \in Seq(Token) /\ Len(tokens') = Len(tokens) + 1
    /\ Len(tokens) + 1 \in Attach
    /\ \A t \in 1..Len(tokens) : tokens'[t] = tokens[t]
    /\ r.token = Len(tokens) + 1 /\ tokens'[Len(tokens) + 1].sid = r.sid
    /\ tokens'[Len(tokens) + 1].status = "minted"
Serves(q, r) ==
    /\ RequestOK(r) /\ Becomes(q, r)
    /\ Busy(r) => Busy(req[q])
    /\ r.pc # "checking"
    /\ KeepsToken(q, r) \/ Mints(r)
LeasesTyped == leases' \in Leases /\ Len(leases') <= MaxSession

LEMMA GrantingServes ==
    ASSUME ServerShape, NEW q \in Slot, Busy(req[q]), CanMint, NEW s \in Session,
           NEW kind \in Continuation, MintToken(s, kind), Granting(q, kind, s)
    PROVE  \E r : Serves(q, r)
<1> DEFINE r == [pc |-> "granting", kind |-> kind, sid |-> s, token |-> Len(tokens) + 1]
<1>1. /\ tokens' \in Seq(Token) /\ Len(tokens') = Len(tokens) + 1
      /\ Len(tokens) + 1 \in Attach
      /\ \A t \in 1..Len(tokens) : tokens'[t] = tokens[t]
      /\ tokens'[Len(tokens) + 1].sid = s /\ tokens'[Len(tokens) + 1].status = "minted"
  BY MintAppends
<1>2. RequestOK(r)
  BY <1>1 DEF RequestOK, Granted
<1>3. Becomes(q, r)
  BY DEF Granting
<1>4. Mints(r) /\ r.pc # "checking"
  BY <1>1 DEF Mints
<1> QED
  BY <1>2, <1>3, <1>4 DEF Serves

LEMMA FreshServes ==
    ASSUME ServerShape, NEW q \in Slot, Busy(req[q]), NEW kind \in Continuation,
           NEW ls \in Leases, Len(ls) = Len(leases), Fresh(q, kind, ls)
    PROVE  (\E r : Serves(q, r)) /\ LeasesTyped
<1>1. leases' \in Leases /\ Len(leases') = Len(leases) + 1
  BY MintTyped DEF Fresh
<1>2. Len(leases) \in Nat /\ Len(leases) < MaxSession /\ MaxSession \in Nat
  BY LenProperties, TerminalAssumption DEF ServerShape, Fresh
<1>3. Len(leases) + 1 \in Session
  BY <1>2 DEF Session
<1>4. \E r : Serves(q, r)
  BY <1>3, GrantingServes DEF Fresh
<1> QED
  BY <1>1, <1>2, <1>4 DEF LeasesTyped

LEMMA SameTokensStay == ASSUME ServerShape, UNCHANGED tokens PROVE SameTokens
BY DEF ServerShape, SameTokens

LEMMA LeasesStay == ASSUME ServerShape, UNCHANGED leases PROVE LeasesTyped
BY DEF ServerShape, LeasesTyped, Leases

LEMMA RevokedTyped ==
    ASSUME ServerShape, NEW s, leases' = revokeLease(s) PROVE LeasesTyped
BY RevokeTyped DEF ServerShape, LeasesTyped, Leases

\* Answers without a token.
LEMMA RefusalServes ==
    ASSUME ServerShape, NEW q \in Slot, NEW x \in {"fail", "gone"}, Answers(q, x),
           req[q].kind \in Continuation, req[q].sid \in Session \cup {None},
           req[q].pc # "free", SameTokens
    PROVE  \E r : Serves(q, r)
<1> DEFINE r == [pc |-> "answered", kind |-> req[q].kind, sid |-> req[q].sid, result |-> x,
                 token |-> None]
<1>1. Becomes(q, r)
  BY DEF Answers
<1>2. RequestOK(r)
  BY DEF RequestOK, Failure
<1>3. Busy(req[q]) /\ r.pc = "answered" /\ ~Spends(r)
  BY DEF Busy, Spends
<1> QED
  BY <1>1, <1>2, <1>3 DEF Serves, KeepsToken

LEMMA ServerServes ==
    ASSUME ServerShape, NEW q \in Slot, ServerStep(q)
    PROVE  (\E r : Serves(q, r)) /\ LeasesTyped
<1>0. RequestOK(req[q])
  BY DEF ServerShape
<1>1. CASE Route(q)
  <2>1. req[q] \in Posted
    BY <1>0, <1>1, PcTells DEF Route, InPc
  <2>2. CASE req[q].kind \in {"session", "restart"} /\ Fresh(q, req[q].kind, leases)
    <3>1. Busy(req[q]) /\ req[q].kind \in Continuation
      BY <2>1, <2>2 DEF Posted, Busy, Continuation
    <3> QED
      BY <2>2, <3>1, FreshServes DEF ServerShape, Leases
  <2>3. CASE /\ req[q].kind = "reattach" /\ Leased(req[q].sid) /\ CanMint
             /\ MintToken(req[q].sid, req[q].kind) /\ Granting(q, req[q].kind, req[q].sid)
             /\ UNCHANGED leases
    <3>1. Busy(req[q]) /\ req[q].kind \in Continuation /\ req[q].sid \in Session
      <4>1. DOMAIN leases = 1..Len(leases) /\ None \notin DOMAIN leases
        BY LenProperties DEF ServerShape, None
      <4> QED
        BY <2>1, <2>3, <4>1 DEF Posted, Busy, Continuation, Leased
    <3> QED
      BY <2>3, <3>1, GrantingServes, LeasesStay
  <2>4. CASE Answers(q, "gone") /\ req[q].kind = "reattach" /\ UNCHANGED <<leases, tokens>>
    <3>1. req[q].kind \in Continuation /\ req[q].sid \in Session \cup {None} /\ req[q].pc # "free"
      BY <2>1, <2>4 DEF Posted, Continuation
    <3> QED
      BY <2>4, <3>1, RefusalServes, SameTokensStay, LeasesStay
  <2>5. CASE /\ req[q].kind \in {"restart", "dispose"} /\ req[q].sid # None
             /\ Becomes(q, [req[q] EXCEPT !.pc = "disposing"])
             /\ UNCHANGED <<leases, tokens>>
    <3> DEFINE r == [req[q] EXCEPT !.pc = "disposing"]
    <3>1. r \in Disposal /\ (Busy(r) => Busy(req[q])) /\ r.pc = "disposing"
      BY <2>1, <2>5 DEF Posted, Disposal, Busy
    <3>2. RequestOK(r) /\ ~Spends(r) /\ Becomes(q, r)
      BY <2>5, <3>1 DEF RequestOK, Spends
    <3> HIDE DEF r
    <3> QED
      BY <2>5, <3>1, <3>2, SameTokensStay, LeasesStay DEF Serves, KeepsToken
  <2> QED
    BY <1>1, <2>2, <2>3, <2>4, <2>5 DEF Route
<1>2. CASE Disposed(q)
  <2>1. req[q] \in Disposal
    BY <1>0, <1>2, PcTells DEF Disposed, InPc
  <2>2. CASE req[q].kind = "restart" /\ Fresh(q, "restart", revokeLease(req[q].sid))
    <3>1. Busy(req[q]) /\ "restart" \in Continuation
      BY <2>1, <2>2 DEF Disposal, Busy, Continuation
    <3>2. revokeLease(req[q].sid) \in Leases /\ Len(revokeLease(req[q].sid)) = Len(leases)
      BY RevokeTyped DEF ServerShape, Leases
    <3> QED
      BY <2>2, <3>1, <3>2, FreshServes
  <2>3. CASE leases' = revokeLease(req[q].sid) /\ Becomes(q, Free) /\ UNCHANGED tokens
    <3>1. RequestOK(Free) /\ ~Busy(Free) /\ ~Spends(Free) /\ Free.pc # "checking"
      BY DEF RequestOK, Busy, Spends, Free
    <3> QED
      BY <2>3, <3>1, RevokedTyped, SameTokensStay DEF Serves, KeepsToken
  <2> QED
    BY <1>2, <2>2, <2>3 DEF Disposed
<1>3. CASE NotReady(q)
  <2>1. /\ req[q].kind \in Continuation /\ req[q].sid \in Session \cup {None}
        /\ req[q].pc # "free"
    BY <1>0, <1>3, PcTells DEF NotReady, InPc, Posted
  <2> QED
    BY <1>3, <2>1, RefusalServes, SameTokensStay, LeasesStay DEF NotReady
<1>4. CASE GrantFails(q)
  <2>1. req[q] \in Granted
    BY <1>0, <1>4, PcTells DEF GrantFails, InPc
  <2>2. SameTokens
    BY <1>4, SameTokensStay, StatusChanges DEF GrantFails
  <2>3. LeasesTyped
    BY <1>4, LeasesStay, RevokedTyped DEF GrantFails
  <2> QED
    BY <1>4, <2>1, <2>2, <2>3, RefusalServes DEF GrantFails, Granted
<1>5. CASE grant(q)
  <2>1. req[q] \in Granted
    BY <1>0, <1>5, PcTells DEF grant, InPc
  <2>2. SameTokens /\ LeasesTyped
    BY <1>5, StatusChanges, LeasesStay DEF grant
  <2> DEFINE r == [pc |-> "answered", kind |-> req[q].kind, sid |-> req[q].sid, result |-> "ok",
                   token |-> req[q].token]
  <2>3. Becomes(q, r)
    BY <1>5 DEF grant, Answers
  <2>4. r \in Success /\ r.pc = "answered" /\ r.token = req[q].token /\ r.sid = req[q].sid
        /\ Spends(req[q]) /\ Busy(req[q])
    BY <2>1 DEF Granted, Success, Spends, Busy
  <2> HIDE DEF r
  <2> QED
    BY <2>2, <2>3, <2>4 DEF Serves, KeepsToken, RequestOK
<1>6. CASE restart(q) \/ DisposeTimesOut(q)
  <2>1. req[q] \in Disposal
    BY <1>0, <1>6, PcTells DEF restart, DisposeTimesOut, InPc
  <2> DEFINE r == [req[q] EXCEPT !.pc = "disposed"]
  <2>2. r \in Disposal /\ (Busy(r) => Busy(req[q])) /\ r.pc = "disposed"
    BY <2>1 DEF Disposal, Busy
  <2>3. RequestOK(r) /\ ~Spends(r) /\ Becomes(q, r)
    BY <1>6, <2>2 DEF RequestOK, Spends, restart, DisposeTimesOut
  <2>4. UNCHANGED <<leases, tokens>>
    BY <1>6 DEF restart, DisposeTimesOut
  <2> HIDE DEF r
  <2> QED
    BY <2>2, <2>3, <2>4, SameTokensStay, LeasesStay DEF Serves, KeepsToken
<1> QED
  BY <1>1, <1>2, <1>3, <1>4, <1>5, <1>6 DEF ServerStep

-----------------------------------------------------------------------------
(* The agent.                                                              *)

SameSockets ==
    /\ socket' \in [Attach -> Socket]
    /\ \A v \in Attach : socket'[v].state = socket[v].state /\ socket'[v].of = socket[v].of
\* Only the socket w moves, to state x.
SocketMoves(w, x) ==
    /\ socket' \in [Attach -> Socket]
    /\ socket'[w].state = x
    /\ \A v \in Attach \ {w} : socket'[v].state = socket[v].state /\ socket'[v].of = socket[v].of
\* Only the session p changes.
OnlyPty(p) == pty' \in [Attach -> Pty] /\ \A x \in Attach \ {p} : pty'[x] = pty[x]
ByIdTyped == byId' \in [Session -> Attach \cup {None}]

LEMMA ClosingMoves ==
    ASSUME AgentShape, NEW w \in Attach, NEW code \in Intentional \cup {"lost"}, Closing(w, code)
    PROVE  SameSockets
<1>1. socket[w] \in Socket /\ socket \in [Attach -> Socket]
  BY DEF AgentShape
<1> DEFINE c == IF socket[w].state = "open" /\ socket[w].code = "none" THEN code ELSE socket[w].code
<1> DEFINE s == [socket[w] EXCEPT !.code = c]
<1>2. socket' = [socket EXCEPT ![w] = s]
  BY <1>1 DEF Closing
<1>3. c \in Intentional \cup {"none", "lost"}
  BY <1>1 DEF Socket
<1> HIDE DEF c
<1>4. s \in Socket /\ s.state = socket[w].state /\ s.of = socket[w].of
  BY <1>1, <1>3 DEF Socket
<1> HIDE DEF s
<1> QED
  BY <1>1, <1>2, <1>4 DEF SameSockets

LEMMA SocketsStay == ASSUME AgentShape, UNCHANGED socket PROVE SameSockets
BY DEF AgentShape, SameSockets

LEMMA OfOpen ==
    ASSUME AgentShape, NEW w \in Attach, socket[w].state = "open"
    PROVE  socket[w].of \in Attach
BY DEF AgentShape, Socket

LEMMA OpenMoves ==
    ASSUME Shape, TokensKept, NEW w \in Attach, open(w)
    PROVE  /\ SocketMoves(w, "open") /\ socket'[w].of \in Attach
           /\ OnlyPty(socket'[w].of) /\ pty'[socket'[w].of].cookie = w
           /\ ByIdTyped
<1> DEFINE s == tokens[w].sid
<1> DEFINE p == byId[s]
<1> DEFINE of == IF p = None THEN w ELSE p
<1>1. w \in 1..Len(tokens) /\ tokens \in Seq(Token)
  BY LenProperties DEF TokensKept, open, Shape, ServerShape
<1>2. s \in Session
  <2>1. tokens[w] \in Token
    BY <1>1, ElementOfSeq
  <2> QED
    BY <2>1 DEF Token
<1>3. p \in Attach \cup {None} /\ of \in Attach
  BY <1>2 DEF Shape, AgentShape
<1> HIDE DEF s
<1>4. socket[w] \in Socket /\ socket \in [Attach -> Socket] /\ pty \in [Attach -> Pty]
      /\ byId \in [Session -> Attach \cup {None}]
  BY DEF Shape, AgentShape
<1>5. SocketMoves(w, "open") /\ socket'[w].of = of
  <2> DEFINE n == [socket[w] EXCEPT !.state = "open", !.of = of]
  <2>1. socket' = [socket EXCEPT ![w] = n]
    BY <1>4 DEF open, s
  <2> HIDE DEF of
  <2>2. n \in Socket /\ n.state = "open" /\ n.of = of
    BY <1>3, <1>4 DEF Socket
  <2> HIDE DEF n
  <2> QED
    BY <1>4, <2>1, <2>2 DEF SocketMoves
<1>6. CASE p = None
  <2> DEFINE n == [NoPty EXCEPT !.sid = s, !.cookie = w, !.live = w]
  <2>1. n \in Pty /\ n.cookie = w
    BY <1>2 DEF NoPty, Pty
  <2>2. pty' = [pty EXCEPT ![w] = n] /\ byId' = [byId EXCEPT ![s] = w]
    BY <1>6 DEF open, s
  <2> HIDE DEF n
  <2> QED
    BY <1>4, <1>5, <1>6, <2>1, <2>2 DEF OnlyPty, ByIdTyped
<1>7. CASE p # None
  <2> DEFINE n == Reattached(pty[p], w)
  <2>1. n \in Pty /\ n.cookie = w
    <3>1. p \in Attach /\ pty[p] \in Pty
      BY <1>3, <1>4, <1>7
    <3> QED
      BY <3>1, PtyRecords
  <2>2. pty' = [pty EXCEPT ![p] = n] /\ byId' = byId
    BY <1>7 DEF open, s
  <2> HIDE DEF n, p
  <2> QED
    BY <1>3, <1>4, <1>5, <1>7, <2>1, <2>2 DEF OnlyPty, ByIdTyped
<1> QED
  BY <1>3, <1>5, <1>6, <1>7

LEMMA RefusedMoves ==
    ASSUME AgentShape, NEW w \in Attach, Refused(w)
    PROVE  SocketMoves(w, "closed") /\ socket'[w].of = socket[w].of
<1>1. socket[w] \in Socket /\ socket \in [Attach -> Socket]
  BY DEF AgentShape
<1> DEFINE n == [socket[w] EXCEPT !.state = "closed", !.code = "lost"]
<1>2. socket' = [socket EXCEPT ![w] = n]
  BY <1>1 DEF Refused
<1>3. n \in Socket /\ n.state = "closed" /\ n.of = socket[w].of
  BY <1>1 DEF Socket
<1> HIDE DEF n
<1> QED
  BY <1>1, <1>2, <1>3 DEF SocketMoves

LEMMA MessageMoves ==
    ASSUME AgentShape, NEW w \in Attach, message(w)
    PROVE  /\ SameSockets /\ OnlyPty(socket[w].of)
           /\ pty'[socket[w].of].cookie = pty[socket[w].of].cookie
<1> DEFINE p == socket[w].of
<1>1. p \in Attach /\ pty[p] \in Pty /\ pty \in [Attach -> Pty]
  BY OfOpen DEF message, AgentShape
<1>2. SameSockets
  BY ClosingMoves, SocketsStay DEF message, Intentional
<1>3. PICK x \in {"running", "failed"} : pty' = [pty EXCEPT ![p].proc = x]
  BY DEF message
<1> DEFINE n == [pty[p] EXCEPT !.proc = x]
<1>4. pty' = [pty EXCEPT ![p] = n]
  BY <1>1, <1>3
<1>5. n \in Pty /\ n.cookie = pty[p].cookie
  BY <1>1 DEF Pty
<1> HIDE DEF n, p
<1> QED
  BY <1>1, <1>2, <1>4, <1>5 DEF OnlyPty, p

LEMMA ExitMoves ==
    ASSUME AgentShape, NEW p \in Attach, PtyExits(p)
    PROVE  /\ SameSockets /\ OnlyPty(p) /\ pty'[p].cookie = pty[p].cookie
           /\ pty'[p].proc = "running" =>
                 /\ pty[p].proc = "running"
                 /\ pty'[p].timers = pty[p].timers /\ pty'[p].detached = pty[p].detached
<1>1. pty[p] \in Pty /\ pty \in [Attach -> Pty]
  BY DEF AgentShape
<1>2. SameSockets
  <2>1. pty[p].live \in Attach \cup {None}
    BY <1>1 DEF Pty
  <2> QED
    BY <2>1, ClosingMoves, SocketsStay DEF PtyExits, Intentional
<1>3. CASE pty[p].proc = "running" /\ pty' = [pty EXCEPT ![p].proc = "exited"]
  <2> DEFINE n == [pty[p] EXCEPT !.proc = "exited"]
  <2>1. n \in Pty /\ n.cookie = pty[p].cookie /\ n.proc = "exited"
    BY <1>1 DEF Pty
  <2>2. pty' = [pty EXCEPT ![p] = n]
    BY <1>1, <1>3
  <2> HIDE DEF n
  <2> QED
    BY <1>1, <1>2, <2>1, <2>2 DEF OnlyPty
<1>4. CASE pty' = [pty EXCEPT ![p].dying = @ - 1] /\ pty[p].dying > 0
  <2> DEFINE n == [pty[p] EXCEPT !.dying = pty[p].dying - 1]
  <2>1. n \in Pty /\ n.cookie = pty[p].cookie /\ n.proc = pty[p].proc
        /\ n.timers = pty[p].timers /\ n.detached = pty[p].detached
    <3>1. pty[p].dying - 1 \in Nat
      BY <1>1, <1>4 DEF Pty
    <3> QED
      BY <1>1, <3>1 DEF Pty
  <2>2. pty' = [pty EXCEPT ![p] = n]
    BY <1>1, <1>4
  <2> HIDE DEF n
  <2> QED
    BY <1>1, <1>2, <2>1, <2>2 DEF OnlyPty
<1> QED
  BY <1>3, <1>4 DEF PtyExits

LEMMA LostMoves == ASSUME AgentShape, NEW w \in Attach, Lost(w) PROVE SameSockets
BY ClosingMoves DEF Lost

LEMMA UnattachedTyped ==
    ASSUME AgentShape, NEW p, NEW w, NEW r \in Pty
    PROVE  /\ Unattached(p, w, r) \in Pty
           /\ r.proc = "none" => Unattached(p, w, r).proc = "none"
           /\ (\E v \in Attach \ {w} : socket[v].state = "open" /\ socket[v].of = p)
                 => Unattached(p, w, r) = r
BY PtyRecords DEF Unattached

LEMMA CloseMoves ==
    ASSUME AgentShape, NEW w \in Attach, close(w)
    PROVE  /\ SocketMoves(w, "closed") /\ socket'[w].of = socket[w].of
           /\ socket[w].state = "open" /\ socket[w].of \in Attach
           /\ OnlyPty(socket[w].of) /\ ByIdTyped
           /\ \/ pty'[socket[w].of].proc = "none"
              \/ pty'[socket[w].of].detached /\ pty'[socket[w].of].timers # {}
           /\ tokens' = DropToken(pty[socket[w].of].cookie)
<1> DEFINE p == socket[w].of
<1>1. p \in Attach /\ pty[p] \in Pty /\ pty \in [Attach -> Pty] /\ socket[w].state = "open"
  BY OfOpen DEF close, AgentShape
<1>2. SocketMoves(w, "closed") /\ socket'[w].of = socket[w].of
  <2>1. socket[w] \in Socket /\ socket \in [Attach -> Socket]
    BY DEF AgentShape
  <2> DEFINE n == [socket[w] EXCEPT !.state = "closed"]
  <2>2. socket' = [socket EXCEPT ![w] = n]
    BY <2>1 DEF close
  <2>3. n \in Socket /\ n.state = "closed" /\ n.of = socket[w].of
    BY <2>1 DEF Socket
  <2> HIDE DEF n
  <2> QED
    BY <2>1, <2>2, <2>3 DEF SocketMoves
<1>3. ByIdTyped /\ tokens' = DropToken(pty[p].cookie)
  BY DEF close, ByIdTyped, AgentShape
<1>4. CASE socket[w].code \in Intentional
  <2> DEFINE n == Unattached(p, w, disposeSession(pty[p]))
  <2>1. disposeSession(pty[p]) \in Pty /\ disposeSession(pty[p]).proc = "none"
    BY <1>1, PtyRecords
  <2>2. n \in Pty /\ n.proc = "none"
    BY <2>1, UnattachedTyped
  <2>3. pty' = [pty EXCEPT ![p] = n]
    BY <1>4 DEF close
  <2> HIDE DEF n, p
  <2> QED
    BY <1>1, <1>2, <1>3, <2>2, <2>3 DEF OnlyPty, p
<1>5. CASE socket[w].code \notin Intentional
  <2> DEFINE n == Detached(pty[p], w)
  <2>1. n \in Pty /\ n.detached /\ w \in n.timers
    BY <1>1, PtyRecords
  <2>2. pty' = [pty EXCEPT ![p] = n]
    BY <1>5 DEF close
  <2> HIDE DEF n, p
  <2>3. pty'[p].detached /\ pty'[p].timers # {}
    BY <1>1, <2>1, <2>2
  <2> QED
    BY <1>1, <1>2, <1>3, <2>1, <2>2, <2>3 DEF OnlyPty, p
<1> QED
  BY <1>4, <1>5

LEMMA TimerMoves ==
    ASSUME AgentShape, NEW p \in Attach, NEW t \in Attach, DetachTimer(p, t)
    PROVE  /\ OnlyPty(p) /\ ByIdTyped /\ UNCHANGED socket
           /\ pty'[p].proc = "running" => pty[p].proc = "running" /\ ~pty[p].detached
           /\ (\E v \in Attach : socket[v].state = "open" /\ socket[v].of = p)
                 => pty'[p].cookie = pty[p].cookie
<1>1. pty[p] \in Pty /\ pty \in [Attach -> Pty] /\ None \notin Attach
      /\ byId \in [Session -> Attach \cup {None}]
  BY NoneIsNobody DEF AgentShape
<1> DEFINE rest == [pty[p] EXCEPT !.timers = @ \ {t}]
<1>2. /\ rest \in Pty /\ rest.detached = pty[p].detached /\ rest.cookie = pty[p].cookie
      /\ rest.proc = pty[p].proc
  BY <1>1 DEF Pty
<1>3. CASE rest.detached
  <2> DEFINE n == Unattached(p, None, disposeSession(rest))
  <2>1. pty' = [pty EXCEPT ![p] = n] /\ byId' = [byId EXCEPT ![rest.sid] = None]
    BY <1>3 DEF DetachTimer
  <2> HIDE DEF rest
  <2>2. disposeSession(rest) \in Pty /\ disposeSession(rest).proc = "none"
        /\ disposeSession(rest).cookie = rest.cookie
    BY <1>2, PtyRecords
  <2>3. n \in Pty /\ n.proc = "none"
        /\ ((\E v \in Attach : socket[v].state = "open" /\ socket[v].of = p)
              => n.cookie = rest.cookie)
    BY <1>1, <2>2, UnattachedTyped
  <2> HIDE DEF n
  <2> QED
    BY <1>1, <1>2, <2>1, <2>3 DEF OnlyPty, ByIdTyped, DetachTimer
<1>4. CASE ~rest.detached
  <2>1. pty' = [pty EXCEPT ![p] = rest] /\ byId' = byId
    BY <1>4 DEF DetachTimer
  <2> HIDE DEF rest
  <2> QED
    BY <1>1, <1>2, <1>4, <2>1 DEF OnlyPty, ByIdTyped, DetachTimer
<1> QED
  BY <1>3, <1>4

LEMMA DeathMoves ==
    ASSUME Shape, AgentDies
    PROVE  /\ socket' \in [Attach -> Socket] /\ pty' \in [Attach -> Pty] /\ ByIdTyped
           /\ \A w \in Attach :
                 IF Attached(w) THEN socket'[w].state = "closed" /\ socket'[w].of = None
                 ELSE socket'[w] = socket[w]
           /\ \A p \in Attach : pty'[p].proc = "none"
           /\ SameTokens
           /\ \A t \in 1..Len(tokens) : tokens'[t].status = "valid" => tokens[t].status = "valid"
<1>1. ASSUME NEW w \in Attach
      PROVE  /\ socket'[w] \in Socket
             /\ IF Attached(w) THEN socket'[w].state = "closed" /\ socket'[w].of = None
                ELSE socket'[w] = socket[w]
  <2>1. socket[w] \in Socket
    BY DEF Shape, AgentShape
  <2> DEFINE c == IF socket[w].code = "none" THEN "lost" ELSE socket[w].code
  <2>2. c \in Intentional \cup {"none", "lost"}
    BY <2>1 DEF Socket
  <2>3. socket'[w] = IF Attached(w) THEN [state |-> "closed", of |-> None, code |-> c]
                     ELSE socket[w]
    BY DEF AgentDies, Attached
  <2> HIDE DEF c
  <2> QED
    BY <2>1, <2>2, <2>3 DEF Socket
<1>2. socket' \in [Attach -> Socket]
  <2>1. \E f : socket' = [w \in Attach |-> f[w]]
    <3>1. socket' = [w \in Attach |-> socket'[w]]
      BY DEF AgentDies
    <3> QED
      BY <3>1
  <2> QED
    BY <1>1, <2>1
<1>3. pty' \in [Attach -> Pty] /\ ByIdTyped /\ \A p \in Attach : pty'[p].proc = "none"
  BY DEF AgentDies, NoPty, Pty, ByIdTyped
<1>4. tokens \in Seq(Token) /\ DOMAIN tokens = 1..Len(tokens) /\ Len(tokens) \in Nat
  BY LenProperties DEF Shape, ServerShape
<1>5. ASSUME NEW t \in 1..Len(tokens)
      PROVE  /\ tokens'[t] \in Token /\ tokens'[t].sid = tokens[t].sid
             /\ tokens'[t].status = "valid" => tokens[t].status = "valid"
  <2>1. tokens[t] \in Token
    BY <1>4, ElementOfSeq
  <2>2. tokens'[t] = IF tokens[t].status = "valid" THEN [tokens[t] EXCEPT !.status = "dead"]
                     ELSE tokens[t]
    BY <1>4 DEF AgentDies
  <2> QED
    BY <2>1, <2>2 DEF Token
<1>6. tokens' \in Seq(Token) /\ Len(tokens') = Len(tokens)
  <2>1. tokens' = [t \in 1..Len(tokens) |-> tokens'[t]]
    BY <1>4 DEF AgentDies
  <2>2. tokens' \in [1..Len(tokens) -> Token]
    BY <1>5, <2>1
  <2>3. tokens' \in Seq(Token)
    BY <1>4, <2>2, SeqDef
  <2>4. DOMAIN tokens' = 1..Len(tokens') /\ Len(tokens') \in Nat
    BY <2>3, LenProperties
  <2> QED
    BY <1>4, <2>2, <2>3, <2>4
<1> QED
  BY <1>1, <1>2, <1>3, <1>5, <1>6 DEF SameTokens

-----------------------------------------------------------------------------
(* The panel.                                                              *)

Follows(q, r) ==
    /\ RequestOK(r) /\ Becomes(q, r)
    /\ Busy(r) => Busy(req[q])
    /\ Spends(r) => Spends(req[q]) /\ r.token = req[q].token /\ r.sid = req[q].sid

LEMMA FreeFollows == ASSUME NEW q \in Slot, Becomes(q, Free) PROVE Follows(q, Free)
BY DEF Follows, RequestOK, Free, Busy, Spends

LEMMA PostFollows ==
    ASSUME NEW q \in Slot, NEW kind \in Continuation, NEW s \in Session \cup {None},
           Posts(q, kind, s), Busy(req[q])
    PROVE  \E r : Follows(q, r) /\ r.pc = "posted"
<1> DEFINE r == [pc |-> "posted", kind |-> kind, sid |-> s]
<1>1. Becomes(q, r) /\ r \in Posted /\ r.pc = "posted"
  BY DEF Posts, Posted
<1> HIDE DEF r
<1> QED
  BY <1>1 DEF Follows, RequestOK, Spends

LEMMA AnswerFollows ==
    ASSUME ServerShape, NEW q \in Slot, PanelAnswer(q)
    PROVE  \E r : Follows(q, r) /\ (r.pc = "checking" => NewSession(q) /\ r.sid = req[q].sid)
<1>0. RequestOK(req[q])
  BY DEF ServerShape
<1>1. CASE NewSession(q)
  <2> DEFINE r == [req[q] EXCEPT !.pc = "checking"]
  <2>1. req[q] \in Success
    BY <1>0, <1>1, PcTells DEF NewSession, Answered, InPc, Failure
  <2>2. /\ r \in Success /\ r.token = req[q].token /\ r.sid = req[q].sid
        /\ Spends(req[q]) /\ Busy(req[q])
    BY <2>1 DEF Success, Spends, Busy
  <2>3. Becomes(q, r)
    BY <1>1 DEF NewSession
  <2> HIDE DEF r
  <2> QED
    BY <1>1, <2>2, <2>3 DEF Follows, RequestOK
<1>2. CASE Becomes(q, Free)
  <2>1. Free.pc # "checking"
    BY DEF Free
  <2> QED
    BY <1>2, <2>1, FreeFollows
<1>3. CASE RestartFails(q)
  <2>1. Busy(req[q]) /\ "session" \in Continuation
    BY <1>3 DEF RestartFails, Answered, InPc, Busy, Continuation
  <2>2. Posts(q, "session", None)
    BY <1>3 DEF RestartFails
  <2> QED
    BY <2>1, <2>2, PostFollows
<1>4. CASE NextAttempt(q)
  <2> DEFINE r == [req[q] EXCEPT !.pc = "waiting"]
  <2>1. req[q] \in Failure
    BY <1>0, <1>4, PcTells DEF NextAttempt, Answered, InPc, Success
  <2>2. r \in Failure /\ r.pc = "waiting" /\ Busy(req[q])
    BY <2>1 DEF Failure, Busy
  <2>3. Becomes(q, r)
    BY <1>4 DEF NextAttempt
  <2> HIDE DEF r
  <2> QED
    BY <2>2, <2>3 DEF Follows, RequestOK, Spends
<1>5. CASE Posts(q, "reattach", req[q].sid) /\ InPc(q, "waiting")
  <2>1. req[q] \in Failure
    BY <1>0, <1>5, PcTells DEF InPc
  <2>2. Busy(req[q]) /\ "reattach" \in Continuation /\ req[q].sid \in Session \cup {None}
    BY <2>1 DEF Failure, Busy, Continuation
  <2> QED
    BY <1>5, <2>2, PostFollows
<1> QED
  BY <1>1, <1>2, <1>3, <1>4, <1>5
     DEF PanelAnswer, Checked, ConnectFails, Resumed, GivesUp, Attempt, Dropped

\* A slot that was free is taken.
Takes(q, r) ==
    /\ RequestOK(r) /\ Becomes(q, r) /\ IsFree(q) /\ r.pc = "posted"
    /\ Busy(r) => crossings' # 0 \/ ~UnderWay

LEMMA BeginTakes ==
    ASSUME NEW kind \in Continuation, NEW s \in Session \cup {None}, Begins(kind, s),
           crossings \in Nat
    PROVE  \E q \in Slot : \E r : Takes(q, r)
<1>0. crossings' # 0 \/ ~UnderWay
  BY DEF Begins
<1>1. PICK q \in Slot : IsNextFree(q) /\ Posts(q, kind, s)
  BY DEF Begins
<1> DEFINE r == [pc |-> "posted", kind |-> kind, sid |-> s]
<1>2. Becomes(q, r) /\ r \in Posted /\ r.pc = "posted"
  BY <1>1 DEF Posts, Posted
<1> HIDE DEF r
<1> QED
  BY <1>0, <1>1, <1>2 DEF Takes, RequestOK, IsNextFree

Opens == tick \/ forceRestart \/ installRetry \/ pagehide \/ \E w \in Attach : onclose(w)

LEMMA OpensTakes ==
    ASSUME Shape, Opens
    PROVE  UNCHANGED req \/ \E q \in Slot : \E r : Takes(q, r)
<1> USE DEF Shape, PanelShape
<1>1. {"session", "restart", "reattach"} \subseteq Continuation /\ None \in Session \cup {None}
  BY DEF Continuation
<1>2. CASE tick \/ installRetry
  BY <1>1, <1>2, BeginTakes DEF tick, installRetry, Begins
<1>3. CASE forceRestart
  BY <1>1, <1>3, BeginTakes DEF forceRestart, Begins
<1>4. CASE pagehide
  <2>1. ASSUME NEW q \in Slot, IsNextFree(q), Posts(q, "dispose", current), current # None
        PROVE  \E r : Takes(q, r)
    <3> DEFINE r == [pc |-> "posted", kind |-> "dispose", sid |-> current]
    <3>1. Becomes(q, r) /\ r \in Posted /\ r.pc = "posted" /\ ~Busy(r)
      BY <2>1 DEF Posts, Posted, Busy, Continuation
    <3> HIDE DEF r
    <3> QED
      BY <2>1, <3>1 DEF Takes, RequestOK, IsNextFree
  <2> QED
    BY <1>4, <2>1 DEF pagehide
<1>5. CASE \E w \in Attach : onclose(w)
  BY <1>1, <1>5, BeginTakes DEF onclose, LoopBegins, Begins
<1> QED
  BY <1>2, <1>3, <1>4, <1>5 DEF Opens

\* What is recorded of a behaviour, by who records it.
LEMMA RecordFrame ==
    ASSUME Next
    PROVE  /\ UNCHANGED record \/ AgentDies \/ \E w \in Attach : open(w)
           /\ UNCHANGED missteps \/ Opens
           /\ UNCHANGED polls \/ Opens
<1>1. ASSUME NEW q \in Slot, ServerStep(q) PROVE UNCHANGED record
  BY <1>1 DEF ServerStep, Route, Disposed, NotReady, GrantFails, grant, restart, DisposeTimesOut,
              agentVars
<1>2. ASSUME NEW s \in Session, Expire(s) PROVE UNCHANGED record
  BY <1>2 DEF Expire, agentVars
<1>3. ASSUME NEW w \in Attach, Refused(w) \/ message(w) \/ Lost(w) \/ close(w) \/ PtyExits(w)
      PROVE  UNCHANGED record
  BY <1>3 DEF Refused, message, Lost, close, PtyExits
<1>4. ASSUME NEW p \in Attach, NEW x \in Attach, DetachTimer(p, x) PROVE UNCHANGED record
  BY <1>4 DEF DetachTimer
<1>5. ASSUME AgentStarts PROVE UNCHANGED record
  BY <1>5 DEF AgentStarts
<1>6. CASE Daemon
  BY <1>1, <1>2, <1>3, <1>4, <1>5, <1>6 DEF Daemon, AgentStep, panelVars
<1>7. ASSUME NEW q \in Slot, PanelAnswer(q) PROVE UNCHANGED <<record, missteps, polls>>
  BY <1>7 DEF PanelAnswer, NewSession, Checked, ConnectFails, RestartFails, Resumed, GivesUp,
              NextAttempt, Attempt, Dropped, agentVars, panelVars
<1>8. CASE pagehide
  <2>1. record' = record
    BY <1>8, Zenon DEF pagehide
  <2> QED
    BY <1>8, <2>1 DEF Opens
<1>9. ASSUME tick \/ forceRestart \/ installRetry \/ (\E w \in Attach : onclose(w))
      PROVE  UNCHANGED record /\ Opens
  BY <1>9 DEF tick, forceRestart, installRetry, onclose, agentVars, Opens
<1> QED
  BY <1>6, <1>7, <1>8, <1>9 DEF Next

\* Crossings are counted, and what has strayed stays so.
LEMMA MisstepsGrow ==
    ASSUME PanelShape, Next
    PROVE  /\ crossings' = crossings \/ (crossings < MaxCrossing /\ crossings' = crossings + 1)
           /\ strayed => strayed'
           /\ strayed' \in BOOLEAN
<1> USE DEF PanelShape
<1>1. CASE tick \/ installRetry
  BY <1>1 DEF tick, installRetry, Begins, missteps
<1>2. CASE forceRestart
  BY <1>2 DEF forceRestart, Begins
<1>3. ASSUME pagehide PROVE UNCHANGED missteps
  BY <1>3, Zenon DEF pagehide
<1>4. ASSUME NEW w \in Attach, onclose(w)
      PROVE  /\ crossings' = crossings \/ (crossings < MaxCrossing /\ crossings' = crossings + 1)
             /\ (strayed => strayed') /\ strayed' \in BOOLEAN
  BY <1>4 DEF onclose, Noticed, LoopBegins, Begins
<1> QED
  BY <1>1, <1>2, <1>3, <1>4, RecordFrame DEF Opens, missteps

LEMMA PanelTypeStep == Shape /\ Next => PanelShape'
<1> SUFFICES ASSUME Shape, Next PROVE PanelShape'
  OBVIOUS
<1> USE DEF Shape, PanelShape
<1>0. \A q \in Slot : RequestOK(req[q])
  BY DEF ServerShape
<1>a. crossings' \in Nat /\ strayed' \in BOOLEAN
  BY MisstepsGrow
<1>1. CASE Daemon
  BY <1>1 DEF Daemon, panelVars, missteps
<1>2. CASE tick \/ installRetry
  BY <1>a, <1>2 DEF tick, installRetry, States
<1>3. CASE forceRestart
  BY <1>a, <1>3 DEF forceRestart, CloseForRestart, States
<1>4. CASE pagehide
  BY <1>a, <1>4 DEF pagehide, States
<1>5. ASSUME NEW w \in Attach, onclose(w) PROVE PanelShape'
  BY <1>a, <1>5 DEF onclose, Noticed, LoopBegins, States
<1>6. ASSUME NEW q \in Slot, Checked(q) \/ Resumed(q) PROVE PanelShape'
  <2>1. req[q].token \in Attach \/ UNCHANGED <<seen, ws>>
    <3>1. req[q] \in Success
      BY <1>0, <1>6, PcTells DEF Checked, Resumed, Answered, InPc, Failure
    <3> QED
      BY <3>1 DEF Success
  <2>2. req[q].sid \in Session
    <3>1. req[q] \in Success
      BY <1>0, <1>6, PcTells DEF Checked, Resumed, Answered, InPc, Failure
    <3> QED
      BY <3>1 DEF Success
  <2> QED
    BY <1>a, <1>6, <2>1, <2>2 DEF Checked, Resumed, Connect, States
<1>7. ASSUME NEW q \in Slot, NewSession(q) PROVE PanelShape'
  <2>1. req[q] \in Success
    BY <1>0, <1>7, PcTells DEF NewSession, Answered, InPc, Failure
  <2> QED
    BY <1>a, <1>7, <2>1 DEF NewSession, SessionOf, Success
<1>8. ASSUME NEW q \in Slot, ConnectFails(q) \/ RestartFails(q) \/ GivesUp(q) PROVE PanelShape'
  BY <1>a, <1>8 DEF ConnectFails, RestartFails, GivesUp, States
<1>9. ASSUME NEW q \in Slot, NextAttempt(q) \/ Attempt(q) \/ Dropped(q) PROVE PanelShape'
  BY <1>9 DEF NextAttempt, Attempt, Dropped, panelVars, missteps
<1> QED
  BY <1>1, <1>2, <1>3, <1>4, <1>5, <1>6, <1>7, <1>8, <1>9 DEF Next, PanelAnswer

LEMMA ConnectMoves ==
    ASSUME AgentShape, NEW w \in Attach, Connect(w)
    PROVE  SocketMoves(w, "offered") /\ socket'[w].of = socket[w].of
<1>1. socket[w] \in Socket /\ socket \in [Attach -> Socket]
  BY DEF AgentShape
<1> DEFINE n == [socket[w] EXCEPT !.state = "offered"]
<1>2. socket' = [socket EXCEPT ![w] = n]
  BY <1>1 DEF Connect
<1>3. n \in Socket /\ n.state = "offered" /\ n.of = socket[w].of
  BY <1>1 DEF Socket
<1> HIDE DEF n
<1> QED
  BY <1>1, <1>2, <1>3 DEF SocketMoves

LEMMA PageMoves ==
    ASSUME AgentShape, pagehide
    PROVE  /\ socket' \in [Attach -> Socket]
           /\ \A w \in Attach :
                 /\ socket'[w].of = socket[w].of
                 /\ socket'[w].state = IF socket[w].state = "offered" THEN "closed"
                                       ELSE socket[w].state
<1>1. ASSUME NEW w \in Attach
      PROVE  /\ socket'[w] \in Socket /\ socket'[w].of = socket[w].of
             /\ socket'[w].state = IF socket[w].state = "offered" THEN "closed"
                                   ELSE socket[w].state
  <2>1. socket[w] \in Socket
    BY DEF AgentShape
  <2>2. \/ socket'[w] = socket[w] /\ socket[w].state # "offered"
        \/ socket'[w] = [socket[w] EXCEPT !.code = "lost"] /\ socket[w].state # "offered"
        \/ /\ socket'[w] = [socket[w] EXCEPT !.state = "closed", !.code = "lost"]
           /\ socket[w].state = "offered"
    BY DEF pagehide
  <2> QED
    BY <2>1, <2>2 DEF Socket
<1>2. socket' = [w \in Attach |-> socket'[w]]
  BY DEF pagehide
<1> QED
  BY <1>1, <1>2

\* Who connects holds an unused token.
Connects(w) ==
    /\ socket[w].state = "none"
    /\ \E q \in Slot : (Checked(q) \/ Resumed(q)) /\ HasToken(q) /\ req[q].token = w
                       /\ Becomes(q, Free) /\ Connect(w)

LEMMA ConnectsOrNot ==
    ASSUME Shape, TokensKept, NEW q \in Slot, Checked(q) \/ Resumed(q)
    PROVE  UNCHANGED socket \/ (Connects(req[q].token) /\ req[q].token \in Attach)
<1>1. req[q] \in Success
  BY PcTells DEF Shape, ServerShape, Checked, Resumed, Answered, InPc, Failure
<1>2. HasToken(q) /\ req[q].token \in Attach
  BY <1>1 DEF HasToken, Spends, Success
<1>3. socket[req[q].token].state = "none"
  BY <1>2 DEF TokensKept
<1>4. Becomes(q, Free) /\ (Connect(req[q].token) \/ UNCHANGED socket)
  BY DEF Checked, Resumed
<1> QED
  BY <1>2, <1>3, <1>4 DEF Connects

LEMMA SocketFrame ==
    ASSUME Shape, TokensKept, Next
    PROVE  /\ socket' \in [Attach -> Socket]
           /\ \A w \in Attach :
                 \/ socket'[w].state = socket[w].state /\ socket'[w].of = socket[w].of
                 \/ /\ Connects(w) /\ socket[w].state = "none" /\ socket'[w].state = "offered"
                    /\ socket'[w].of = socket[w].of
                 \/ /\ open(w) /\ socket[w].state = "offered" /\ socket'[w].state = "open"
                    /\ socket'[w].of \in Attach
                 \/ /\ socket[w].state = "offered" /\ socket'[w].state = "closed"
                    /\ socket'[w].of = socket[w].of
                 \/ /\ close(w) /\ socket[w].state = "open" /\ socket'[w].state = "closed"
                    /\ socket'[w].of = socket[w].of
                 \/ /\ AgentDies /\ socket[w].state = "open" /\ socket'[w].state = "closed"
                    /\ socket'[w].of = None
<1> USE DEF Shape
<1>1. ASSUME SameSockets
      PROVE  /\ socket' \in [Attach -> Socket]
             /\ \A w \in Attach :
                   socket'[w].state = socket[w].state /\ socket'[w].of = socket[w].of
  BY <1>1 DEF SameSockets
<1>2. CASE UNCHANGED socket
  BY <1>1, <1>2, SocketsStay
<1>4. CASE \E w \in Attach : open(w) \/ Refused(w) \/ close(w)
  <2>1. PICK w \in Attach : open(w) \/ Refused(w) \/ close(w)
    BY <1>4
  <2>2. CASE open(w)
    <3>1. socket[w].state = "offered"
      BY <2>2 DEF open
    <3> QED
      BY <2>2, <3>1, OpenMoves DEF SocketMoves
  <2>3. CASE Refused(w)
    BY <2>3, RefusedMoves DEF SocketMoves, Refused
  <2>4. CASE close(w)
    BY <2>4, CloseMoves DEF SocketMoves
  <2> QED
    BY <2>1, <2>2, <2>3, <2>4
<1>5. ASSUME NEW w \in Attach, message(w) \/ Lost(w) \/ PtyExits(w)
      PROVE  SameSockets
  BY <1>5, MessageMoves, LostMoves, ExitMoves
<1>6. CASE AgentDies
  BY <1>6, DeathMoves DEF TokensKept, Attached
<1>7. CASE AgentStep
  <2>1. ASSUME NEW p \in Attach, NEW t \in Attach, DetachTimer(p, t) PROVE UNCHANGED socket
    BY <2>1, TimerMoves
  <2>2. CASE AgentStarts
    BY <1>2, <2>2 DEF AgentStarts
  <2> QED
    BY <1>1, <1>2, <1>4, <1>5, <1>6, <1>7, <2>1, <2>2 DEF AgentStep
<1>8. ASSUME NEW q \in Slot, ServerStep(q) PROVE UNCHANGED socket
  BY <1>8 DEF ServerStep, Route, Disposed, NotReady, GrantFails, grant, restart, DisposeTimesOut,
              agentVars, record
<1>9. CASE Daemon
  <2>1. ASSUME NEW s \in Session, Expire(s) PROVE UNCHANGED socket
    BY <2>1 DEF Expire, agentVars, record
  <2> QED
    BY <1>2, <1>7, <1>8, <1>9, <2>1 DEF Daemon
<1>10. CASE pagehide
  BY <1>10, PageMoves DEF Attached
<1>11. CASE forceRestart
  <2>1. SameSockets
    BY <1>11, ClosingMoves, SocketsStay
       DEF forceRestart, CloseForRestart, Intentional, PanelShape
  <2> QED
    BY <1>1, <2>1
<1>12. CASE tick \/ installRetry \/ \E w \in Attach : onclose(w)
  BY <1>2, <1>12 DEF tick, installRetry, onclose, agentVars, record
<1>13. ASSUME NEW q \in Slot, Checked(q) \/ Resumed(q), Connects(req[q].token),
              req[q].token \in Attach
       PROVE  /\ socket' \in [Attach -> Socket]
              /\ \A w \in Attach :
                 \/ socket'[w].state = socket[w].state /\ socket'[w].of = socket[w].of
                 \/ /\ Connects(w) /\ socket[w].state = "none" /\ socket'[w].state = "offered"
                    /\ socket'[w].of = socket[w].of
  <2>1. Connect(req[q].token)
    BY <1>13 DEF Connects
  <2>2. SocketMoves(req[q].token, "offered")
        /\ socket'[req[q].token].of = socket[req[q].token].of
    BY <1>13, <2>1, ConnectMoves
  <2> QED
    BY <1>13, <2>2 DEF SocketMoves, Connects
<1>14. ASSUME NEW q \in Slot, PanelAnswer(q)
       PROVE  Checked(q) \/ Resumed(q) \/ UNCHANGED socket
  BY <1>14 DEF PanelAnswer, NewSession, ConnectFails, RestartFails, GivesUp, NextAttempt, Attempt,
               Dropped, agentVars, record
<1> QED
  BY <1>2, <1>9, <1>10, <1>11, <1>12, <1>13, <1>14, ConnectsOrNot DEF Next

-----------------------------------------------------------------------------
(* The steps, by what they do to requests and tokens.                      *)

LEMMA DaemonSteps ==
    ASSUME Shape, Daemon
    PROVE  /\ LeasesTyped
           /\ \/ UNCHANGED <<socket, panel>> /\ \E q \in Slot : \E r : Serves(q, r)
              \/ UNCHANGED req /\ SameTokens
<1> USE DEF Shape
<1>1. ASSUME NEW q \in Slot, ServerStep(q), UNCHANGED panelVars
      PROVE  LeasesTyped /\ UNCHANGED <<socket, panel>> /\ \E r : Serves(q, r)
  <2>1. UNCHANGED socket
    BY <1>1 DEF ServerStep, Route, Disposed, NotReady, GrantFails, grant, restart,
                DisposeTimesOut, agentVars, record
  <2> QED
    BY <1>1, <2>1, ServerServes DEF panelVars, missteps
<1>2. ASSUME NEW s \in Session, Expire(s)
      PROVE  LeasesTyped /\ UNCHANGED req /\ SameTokens
  BY <1>2, RevokedTyped, SameTokensStay DEF Expire
<1>3. CASE AgentStep
  <2>1. UNCHANGED <<leases, req>>
    BY <1>3 DEF AgentStep, open, Refused, message, Lost, close, PtyExits, DetachTimer, AgentDies,
                AgentStarts, serverVars
  <2>2. SameTokens
    <3>1. ASSUME NEW w \in Attach, close(w) PROVE SameTokens
      <4>1. tokens' = DropToken(pty[socket[w].of].cookie)
        BY <3>1, CloseMoves
      <4> QED
        BY <4>1, StatusChanges DEF DropToken
    <3>2. CASE AgentDies
      BY <3>2, DeathMoves
    <3>3. ASSUME UNCHANGED tokens PROVE SameTokens
      BY <3>3, SameTokensStay
    <3> QED
      BY <1>3, <3>1, <3>2, <3>3
         DEF AgentStep, open, Refused, message, Lost, PtyExits, DetachTimer, AgentStarts, serverVars
  <2> QED
    BY <2>1, <2>2, LeasesStay
<1> QED
  BY <1>1, <1>2, <1>3 DEF Daemon

LEMMA RequestSteps ==
    ASSUME Shape, Next
    PROVE  /\ LeasesTyped
           /\ \/ UNCHANGED <<socket, panel>> /\ \E q \in Slot : \E r : Serves(q, r)
              \/ UNCHANGED req /\ SameTokens
              \/ UNCHANGED tokens /\ \E q \in Slot : PanelAnswer(q)
              \/ /\ UNCHANGED tokens /\ Opens
                 /\ \E q \in Slot : \E r : Takes(q, r)
<1> USE DEF Shape
<1>1. ASSUME NEW q \in Slot, PanelAnswer(q)
      PROVE  UNCHANGED <<leases, tokens>>
  BY <1>1 DEF PanelAnswer, NewSession, Checked, ConnectFails, RestartFails, Resumed, GivesUp,
              NextAttempt, Attempt, Dropped
<1>2. CASE Opens
  <2>1. ASSUME tick \/ installRetry PROVE UNCHANGED <<leases, tokens>>
    BY <2>1 DEF tick, installRetry
  <2>2. ASSUME forceRestart PROVE UNCHANGED <<leases, tokens>>
    BY <2>2 DEF forceRestart
  <2>3. ASSUME NEW w \in Attach, onclose(w) PROVE UNCHANGED <<leases, tokens>>
    BY <2>3 DEF onclose
  <2>4. ASSUME pagehide PROVE leases' = leases /\ tokens' = tokens
    BY <2>4, Zenon DEF pagehide
  <2>5. UNCHANGED <<leases, tokens>>
    BY <1>2, <2>1, <2>2, <2>3, <2>4 DEF Opens
  <2> QED
    BY <1>2, <2>5, OpensTakes, LeasesStay, SameTokensStay
<1> QED
  BY <1>1, <1>2, DaemonSteps, LeasesStay DEF Next, Opens

LEMMA ServerTypeStep == Shape /\ Next => ServerShape'
<1> SUFFICES ASSUME Shape, Next PROVE ServerShape'
  OBVIOUS
<1> USE DEF Shape
<1>1. leases' \in Leases /\ Len(leases') <= MaxSession
  BY RequestSteps DEF LeasesTyped
<1>2. Len(tokens) \in Nat /\ MaxAttach \in Nat /\ tokens \in Seq(Token) /\ Len(tokens) <= MaxAttach
  BY LenProperties, TerminalAssumption DEF ServerShape
<1>3. tokens' \in Seq(Token) /\ Len(tokens') <= MaxAttach
  <2>1. ASSUME NEW q \in Slot, NEW r, Serves(q, r)
        PROVE  tokens' \in Seq(Token) /\ Len(tokens') <= MaxAttach
    BY <1>2, <2>1 DEF Serves, KeepsToken, Mints, SameTokens, Attach
  <2> QED
    BY <1>2, <2>1, RequestSteps DEF SameTokens
<1>4. DOMAIN req' = Slot /\ \A q \in Slot : RequestOK(req'[q])
  <2>1. ASSUME NEW q \in Slot, NEW r, Serves(q, r) \/ Follows(q, r) \/ Takes(q, r)
        PROVE  DOMAIN req' = Slot /\ \A s \in Slot : RequestOK(req'[s])
    BY <2>1, BecomesTyped DEF Serves, Follows, Takes
  <2>2. CASE UNCHANGED req
    BY <2>2 DEF ServerShape
  <2>3. ASSUME NEW q \in Slot, PanelAnswer(q) PROVE \E r : Follows(q, r)
    BY <2>3, AnswerFollows
  <2> QED
    BY <2>1, <2>2, <2>3, RequestSteps
<1> QED
  BY <1>1, <1>3, <1>4 DEF ServerShape, Leases

LEMMA AgentTypeStep == Shape /\ TokensKept /\ Next => AgentShape'
<1> SUFFICES ASSUME Shape, TokensKept, Next PROVE AgentShape'
  OBVIOUS
<1> USE DEF Shape
<1>1. socket' \in [Attach -> Socket] /\ \A w \in Attach : socket'[w].state = "open" => socket'[w].of # None
  BY SocketFrame, NoneIsNobody DEF AgentShape
<1>2. up' \in BOOLEAN
  <2>1. UNCHANGED up \/ up' \in BOOLEAN
    BY DEF Next, Daemon, ServerStep, Route, Disposed, NotReady, GrantFails, grant, restart,
           DisposeTimesOut, Expire, AgentStep, open, Refused, message, Lost, close, PtyExits,
           DetachTimer, AgentDies, AgentStarts, tick, forceRestart, installRetry, pagehide,
           PanelAnswer, NewSession, Checked, ConnectFails, RestartFails, Resumed, GivesUp,
           NextAttempt, Attempt, Dropped, onclose, agentVars, record
  <2> QED
    BY <2>1 DEF AgentShape
<1>3. pty' \in [Attach -> Pty] /\ ByIdTyped
  <2>1. CASE UNCHANGED <<pty, byId>>
    BY <2>1 DEF AgentShape, ByIdTyped
  <2>2. ASSUME NEW q \in Slot, restart(q) PROVE pty' \in [Attach -> Pty] /\ ByIdTyped
    <3> DEFINE p == byId[req[q].sid]
    <3>1. CASE UNCHANGED <<pty, byId>>
      BY <2>1, <3>1
    <3>2. CASE /\ p # None
               /\ pty' = [pty EXCEPT ![p] = disposeSession(ClearTimer(@))]
               /\ byId' = [byId EXCEPT ![req[q].sid] = None]
      <4>1. req[q].sid \in Session
        BY <2>2, PcTells DEF ServerShape, restart, InPc, Disposal
      <4>2. p \in Attach /\ pty[p] \in Pty
        BY <3>2, <4>1 DEF AgentShape
      <4> DEFINE n == disposeSession(ClearTimer(pty[p]))
      <4>3. n \in Pty
        BY <4>2, PtyRecords
      <4>4. pty' = [pty EXCEPT ![p] = n]
        BY <3>2, <4>2
      <4> HIDE DEF n
      <4> QED
        BY <3>2, <4>3, <4>4 DEF AgentShape, ByIdTyped
    <3> QED
      BY <2>2, <3>1, <3>2 DEF restart
  <2>3. ASSUME NEW w \in Attach, open(w) \/ message(w) \/ PtyExits(w) \/ close(w)
        PROVE  pty' \in [Attach -> Pty] /\ ByIdTyped
    <3>1. pty' \in [Attach -> Pty]
      BY <2>3, OpenMoves, MessageMoves, ExitMoves, CloseMoves DEF OnlyPty
    <3>2. ByIdTyped
      BY <2>3, OpenMoves, CloseMoves DEF message, PtyExits, ByIdTyped, AgentShape
    <3> QED
      BY <3>1, <3>2
  <2>4. ASSUME NEW p \in Attach, NEW t \in Attach, DetachTimer(p, t)
        PROVE  pty' \in [Attach -> Pty] /\ ByIdTyped
    BY <2>4, TimerMoves DEF OnlyPty
  <2>5. CASE AgentDies
    BY <2>5, DeathMoves
  <2>6. \/ UNCHANGED <<pty, byId>>
        \/ \E q \in Slot : restart(q)
        \/ \E w \in Attach : open(w) \/ message(w) \/ PtyExits(w) \/ close(w)
        \/ \E p, t \in Attach : DetachTimer(p, t)
        \/ AgentDies
    BY DEF Next, Daemon, ServerStep, Route, Disposed, NotReady, GrantFails, grant,
           DisposeTimesOut, Expire, AgentStep, Refused, Lost,
           AgentStarts, tick, forceRestart, installRetry, pagehide,
           PanelAnswer, NewSession, Checked, ConnectFails, RestartFails, Resumed, GivesUp,
           NextAttempt, Attempt, Dropped, onclose, agentVars, record
  <2> QED
    BY <2>1, <2>2, <2>3, <2>4, <2>5, <2>6
<1> QED
  BY <1>1, <1>2, <1>3 DEF AgentShape, ByIdTyped

LEMMA TokensKeptStep == Shape /\ TokensKept /\ Next => TokensKept'
<1> SUFFICES ASSUME Shape, TokensKept, Next PROVE TokensKept'
  OBVIOUS
<1>0. /\ tokens \in Seq(Token) /\ DOMAIN tokens = 1..Len(tokens) /\ Len(tokens) \in Nat
      /\ ServerShape
  BY LenProperties DEF Shape, ServerShape
<1>1. \A w \in Attach : socket'[w].state # "none" => w \in DOMAIN tokens
  BY SocketFrame DEF TokensKept, Connects
<1>2. \A w \in Attach : socket'[w].state \in {"none", "offered"} => socket'[w].of = None
  BY SocketFrame DEF TokensKept
<1>3. CASE UNCHANGED <<socket, panel>> /\ \E q \in Slot : \E r : Serves(q, r)
  <2>0. PICK q \in Slot : \E r : Serves(q, r)
    BY <1>3
  <2>1. PICK r : Serves(q, r)
    BY <2>0
  <2>2. req'[q] = r /\ \A s \in Slot \ {q} : req'[s] = req[s]
    BY <1>0, <2>1, BecomesTyped DEF Serves
  <2>3. CASE KeepsToken(q, r)
    <3>1. DOMAIN tokens' = DOMAIN tokens /\ \A t \in DOMAIN tokens : tokens'[t].sid = tokens[t].sid
      BY <1>0, <2>3, LenProperties DEF KeepsToken, SameTokens
    <3>2. \A s \in Slot : HasToken(s)' => HasToken(s) /\ req'[s].token = req[s].token
                                          /\ req'[s].sid = req[s].sid
      BY <2>2, <2>3 DEF KeepsToken, HasToken
    <3> QED
      BY <1>1, <1>2, <1>3, <3>1, <3>2 DEF TokensKept
  <2>4. CASE Mints(r)
    <3>1. /\ DOMAIN tokens' = 1..(Len(tokens) + 1)
          /\ \A t \in DOMAIN tokens : tokens'[t] = tokens[t]
          /\ r.token = Len(tokens) + 1 /\ tokens'[r.token].sid = r.sid
          /\ r.token \notin DOMAIN tokens /\ r.token \in Attach
          /\ DOMAIN tokens \subseteq DOMAIN tokens' /\ r.token \in DOMAIN tokens'
      BY <1>0, <2>4, LenProperties DEF Mints
    <3>2. socket[r.token].state = "none"
      BY <3>1 DEF TokensKept
    <3>3. \A s \in Slot \ {q} : HasToken(s)' => HasToken(s) /\ req'[s] = req[s]
      BY <2>2 DEF HasToken
    <3>4. \A s \in Slot : HasToken(s)' =>
             /\ req'[s].token \in DOMAIN tokens' /\ tokens'[req'[s].token].sid = req'[s].sid
             /\ socket'[req'[s].token].state = "none"
      BY <1>3, <2>2, <3>1, <3>2, <3>3 DEF TokensKept
    <3>5. \A s, u \in Slot : HasToken(s)' /\ HasToken(u)' /\ req'[s].token = req'[u].token => s = u
      BY <2>2, <3>1, <3>3 DEF TokensKept
    <3> QED
      BY <1>1, <1>2, <3>1, <3>4, <3>5 DEF TokensKept
  <2> QED
    BY <2>1, <2>3, <2>4 DEF Serves
<1>4. ASSUME DOMAIN tokens' = DOMAIN tokens, \A t \in DOMAIN tokens : tokens'[t].sid = tokens[t].sid,
             \A s \in Slot : HasToken(s)' =>
                 /\ HasToken(s) /\ req'[s].token = req[s].token /\ req'[s].sid = req[s].sid
                 /\ ~Connects(req[s].token)
      PROVE  TokensKept'
  <2>1. \A s \in Slot : HasToken(s)' => socket'[req'[s].token].state = "none"
    <3> SUFFICES ASSUME NEW s \in Slot, HasToken(s)' PROVE socket'[req'[s].token].state = "none"
      OBVIOUS
    <3> DEFINE t == req[s].token
    <3>1. t \in DOMAIN tokens /\ socket[t].state = "none" /\ req'[s].token = t /\ ~Connects(t)
      BY <1>4 DEF TokensKept
    <3>2. t \in Attach
      BY <1>0, <3>1, TerminalAssumption DEF Shape, ServerShape, Attach
    <3> HIDE DEF t
    <3> QED
      BY <3>1, <3>2, SocketFrame
  <2> QED
    BY <1>1, <1>2, <1>4, <2>1 DEF TokensKept
<1>5. CASE UNCHANGED req /\ SameTokens
  <2>1. DOMAIN tokens' = DOMAIN tokens /\ \A t \in DOMAIN tokens : tokens'[t].sid = tokens[t].sid
    BY <1>0, <1>5, LenProperties DEF SameTokens
  <2>2. \A w : ~Connects(w)
    <3> SUFFICES ASSUME NEW q \in Slot, HasToken(q), Becomes(q, Free) PROVE FALSE
      BY DEF Connects
    <3>1. req'[q] = Free
      BY <1>0 DEF Becomes, ServerShape
    <3> QED
      BY <1>5, <3>1 DEF HasToken, Spends, Free
  <2> QED
    BY <1>4, <1>5, <2>1, <2>2 DEF HasToken
<1>6. CASE UNCHANGED tokens /\ \E q \in Slot : PanelAnswer(q)
  <2>1. PICK q \in Slot : PanelAnswer(q)
    BY <1>6
  <2>2. PICK r : Follows(q, r)
    BY <1>0, <2>1, AnswerFollows
  <2>3. req'[q] = r /\ \A s \in Slot \ {q} : req'[s] = req[s]
    BY <1>0, <2>2, BecomesTyped DEF Follows
  <2>4. \A s \in Slot : HasToken(s)' => HasToken(s) /\ req'[s].token = req[s].token
                                        /\ req'[s].sid = req[s].sid
    BY <2>2, <2>3 DEF Follows, HasToken
  <2>5. ASSUME NEW s \in Slot, HasToken(s)', Connects(req[s].token) PROVE FALSE
    <3>1. PICK u \in Slot : HasToken(u) /\ req[u].token = req[s].token /\ Becomes(u, Free)
      BY <2>5 DEF Connects
    <3>2. u = s
      BY <2>4, <2>5, <3>1 DEF TokensKept
    <3>3. req'[u] = Free
      BY <1>0, <3>1 DEF Becomes, ServerShape
    <3> QED
      BY <2>5, <3>2, <3>3 DEF HasToken, Spends, Free
  <2> QED
    BY <1>4, <1>6, <2>4, <2>5
<1>7. CASE UNCHANGED tokens /\ Opens /\ \E q \in Slot : \E r : Takes(q, r)
  <2>0. PICK q \in Slot : \E r : Takes(q, r)
    BY <1>7
  <2>1. PICK r : Takes(q, r)
    BY <2>0
  <2>2. req'[q] = r /\ (\A s \in Slot \ {q} : req'[s] = req[s]) /\ r.pc = "posted" /\ IsFree(q)
    BY <1>0, <2>1, BecomesTyped DEF Takes
  <2>3. \A s \in Slot : HasToken(s)' => HasToken(s) /\ req'[s] = req[s]
    BY <2>2 DEF HasToken, Spends
  <2>4. \A w : ~Connects(w)
    <3> SUFFICES ASSUME NEW u \in Slot, HasToken(u), Becomes(u, Free) PROVE FALSE
      BY DEF Connects
    <3>1. req'[u] = Free
      BY <1>0 DEF Becomes, ServerShape
    <3>2. u # q
      BY <2>2, <3>1 DEF Free
    <3> QED
      BY <2>2, <3>1, <3>2 DEF HasToken, Spends, Free
  <2> QED
    BY <1>4, <1>7, <2>3, <2>4
<1> QED
  BY <1>3, <1>5, <1>6, <1>7, RequestSteps

-----------------------------------------------------------------------------
(* No PTY is orphaned.                                                     *)

LEMMA EmptyTokens == ASSUME tokens = << >> PROVE DOMAIN tokens = {}
OBVIOUS

LEMMA ShapeInit == Init => Shape /\ TokensKept
<1> SUFFICES ASSUME Init PROVE Shape /\ TokensKept
  OBVIOUS
<1>1. /\ leases = << >> /\ tokens = << >> /\ req = [q \in Slot |-> Free]
      /\ byId = [s \in Session |-> None] /\ pty = [p \in Attach |-> NoPty]
      /\ socket = [w \in Attach |-> NoSocket] /\ up \in BOOLEAN
  BY DEF Init, TerminalInit
<1>2. ServerShape
  <2>1. leases \in Seq({"live", "gone"}) /\ Len(leases) = 0 /\ tokens \in Seq(Token) /\ Len(tokens) = 0
    BY <1>1
  <2> QED
    BY <1>1, <2>1, TerminalAssumption DEF ServerShape, RequestOK
<1>3. AgentShape
  BY <1>1 DEF AgentShape, NoPty, NoSocket, Pty, Socket
<1>4. PanelShape
  BY DEF Init, PanelShape, States
<1>5. TokensKept
  BY <1>1 DEF TokensKept, NoSocket, HasToken, Spends, Free
<1> QED
  BY <1>2, <1>3, <1>4, <1>5 DEF Shape

LEMMA ShapeStep == Shape /\ TokensKept /\ [Next]_vars => (Shape /\ TokensKept)'
<1> SUFFICES ASSUME Shape, TokensKept, [Next]_vars PROVE (Shape /\ TokensKept)'
  OBVIOUS
<1>1. CASE Next
  BY <1>1, ServerTypeStep, AgentTypeStep, PanelTypeStep, TokensKeptStep DEF Shape
<1>2. CASE UNCHANGED vars
  <2>1. Shape'
    BY <1>2 DEF Shape, ServerShape, AgentShape, PanelShape, vars, terminalVars, serverVars,
                agentVars, record, panelVars, missteps
  <2>2. TokensKept'
    BY <1>2 DEF TokensKept, HasToken, vars, terminalVars, serverVars, agentVars, record
  <2> QED
    BY <2>1, <2>2
<1> QED
  BY <1>1, <1>2

\* The steps that touch a session.
LEMMA PtySteps ==
    ASSUME Next
    PROVE  \/ UNCHANGED pty
           \/ \E q \in Slot : restart(q)
           \/ \E w \in Attach : open(w) \/ message(w) \/ PtyExits(w) \/ close(w)
           \/ \E p, t \in Attach : DetachTimer(p, t)
           \/ AgentDies
<1>1. ASSUME NEW q \in Slot, ServerStep(q) PROVE UNCHANGED pty \/ restart(q)
  BY <1>1 DEF ServerStep, Route, Disposed, NotReady, GrantFails, grant, DisposeTimesOut, agentVars, record
<1>2. ASSUME NEW s \in Session, Expire(s) PROVE UNCHANGED pty
  BY <1>2 DEF Expire, agentVars, record
<1>3. ASSUME NEW w \in Attach, Refused(w) \/ Lost(w) PROVE UNCHANGED pty
  BY <1>3 DEF Refused, Lost
<1>4. ASSUME AgentStarts PROVE UNCHANGED pty
  BY <1>4 DEF AgentStarts
<1>5. ASSUME NEW q \in Slot, PanelAnswer(q) PROVE UNCHANGED pty
  BY <1>5 DEF PanelAnswer, NewSession, Checked, ConnectFails, RestartFails, Resumed, GivesUp,
              NextAttempt, Attempt, Dropped, agentVars, record
<1>6. ASSUME pagehide PROVE pty' = pty
  BY <1>6, Zenon DEF pagehide
<1>7. ASSUME tick \/ forceRestart \/ installRetry \/ (\E w \in Attach : onclose(w))
      PROVE  UNCHANGED pty
  BY <1>7 DEF tick, forceRestart, installRetry, onclose, agentVars, record
<1> QED
  BY <1>1, <1>2, <1>3, <1>4, <1>5, <1>6, <1>7 DEF Next, Daemon, AgentStep

\* Where a PTY that runs after a step comes from.
LEMMA RunningFrame ==
    ASSUME Shape, TokensKept, Next, NEW p \in Attach, pty'[p].proc = "running"
    PROVE  \/ /\ pty[p].proc = "running"
              /\ pty'[p].timers = pty[p].timers /\ pty'[p].detached = pty[p].detached
              /\ \A w \in Attach : close(w) => socket[w].of # p
           \/ pty[p].proc = "running" /\ ~pty[p].detached /\ UNCHANGED socket
           \/ pty'[p].detached /\ pty'[p].timers # {}
           \/ \E w \in Attach : socket'[w].state = "open" /\ socket'[w].of = p
<1> USE DEF Shape
<1>1. CASE UNCHANGED pty
  <2>1. ASSUME NEW w \in Attach, close(w), socket[w].of = p
        PROVE  pty'[p].detached /\ pty'[p].timers # {}
    BY <2>1, CloseMoves
  <2> QED
    BY <1>1, <2>1
<1>2. ASSUME NEW w \in Attach, open(w)
      PROVE  pty'[p] = pty[p] \/ (socket'[w].state = "open" /\ socket'[w].of = p)
  BY <1>2, OpenMoves DEF OnlyPty, SocketMoves
<1>3. ASSUME NEW w \in Attach, message(w)
      PROVE  pty'[p] = pty[p] \/ (socket'[w].state = "open" /\ socket'[w].of = p)
  BY <1>3, MessageMoves DEF OnlyPty, SameSockets, message
<1>4. ASSUME NEW w \in Attach, PtyExits(w)
      PROVE  /\ pty[p].proc = "running"
             /\ pty'[p].timers = pty[p].timers /\ pty'[p].detached = pty[p].detached
  BY <1>4, ExitMoves DEF OnlyPty
<1>5. ASSUME NEW w \in Attach, close(w)
      PROVE  (pty'[p] = pty[p] /\ socket[w].of # p) \/ (pty'[p].detached /\ pty'[p].timers # {})
  BY <1>5, CloseMoves DEF OnlyPty
<1>6. ASSUME NEW q \in Attach, NEW t \in Attach, DetachTimer(q, t)
      PROVE  UNCHANGED socket /\ (pty'[p] = pty[p] \/ (pty[p].proc = "running" /\ ~pty[p].detached))
  BY <1>6, TimerMoves DEF OnlyPty
<1>7. ~AgentDies
  BY DeathMoves
<1>8. ASSUME NEW q \in Slot, restart(q)
      PROVE  pty'[p] = pty[p]
  <2> DEFINE o == byId[req[q].sid]
  <2> DEFINE n == disposeSession(ClearTimer(pty[o]))
  <2>1. n.proc = "none" \/ o = None
    <3>1. req[q].sid \in Session
      BY <1>8, PcTells DEF ServerShape, restart, InPc, Disposal
    <3>2. o = None \/ (o \in Attach /\ pty[o] \in Pty)
      BY <3>1 DEF AgentShape
    <3> QED
      BY <3>2, PtyRecords
  <2>2. UNCHANGED pty \/ (o # None /\ pty' = [pty EXCEPT ![o] = n])
    BY <1>8 DEF restart
  <2> HIDE DEF n, o
  <2>3. pty \in [Attach -> Pty]
    BY DEF AgentShape
  <2> QED
    BY <2>1, <2>2, <2>3
<1>9. ASSUME pty'[p] = pty[p]
       PROVE  \/ /\ pty[p].proc = "running"
                 /\ pty'[p].timers = pty[p].timers /\ pty'[p].detached = pty[p].detached
                 /\ \A w \in Attach : close(w) => socket[w].of # p
              \/ pty'[p].detached /\ pty'[p].timers # {}
  BY <1>5, <1>9
<1>10. ASSUME NEW v \in Attach, PtyExits(v), NEW w \in Attach, close(w)
       PROVE  FALSE
  <2>1. socket'[w].state = "closed" /\ socket[w].state = "open"
    BY <1>10, CloseMoves DEF SocketMoves
  <2>2. socket'[w].state = socket[w].state
    BY <1>10, ExitMoves DEF SameSockets
  <2> QED
    BY <2>1, <2>2
<1> QED
  BY <1>1, <1>2, <1>3, <1>4, <1>5, <1>6, <1>7, <1>8, <1>9, <1>10, PtySteps

LEMMA NoOrphanStep == Shape /\ TokensKept /\ NoOrphanPty /\ [Next]_vars => NoOrphanPty'
<1> SUFFICES ASSUME Shape, TokensKept, NoOrphanPty, [Next]_vars PROVE NoOrphanPty'
  OBVIOUS
<1>1. CASE UNCHANGED vars
  BY <1>1 DEF NoOrphanPty, OpenOf, vars, terminalVars, agentVars, record
<1>2. ASSUME Next, NEW p \in Attach, pty'[p].proc = "running"
      PROVE  \/ pty'[p].timers # {} /\ pty'[p].detached
             \/ \E w \in Attach : OpenOf(w, p)'
  <2>1. CASE /\ pty[p].proc = "running"
             /\ pty'[p].timers = pty[p].timers /\ pty'[p].detached = pty[p].detached
             /\ \A w \in Attach : close(w) => socket[w].of # p
    <3>1. ~AgentDies
      BY <1>2, DeathMoves
    <3>2. ASSUME NEW w \in Attach, OpenOf(w, p) PROVE OpenOf(w, p)'
      BY <1>2, <2>1, <3>1, <3>2, SocketFrame DEF OpenOf
    <3> QED
      BY <2>1, <3>2 DEF NoOrphanPty
  <2>2. CASE pty[p].proc = "running" /\ ~pty[p].detached /\ UNCHANGED socket
    BY <2>2 DEF NoOrphanPty, OpenOf
  <2> QED
    BY <1>2, <2>1, <2>2, RunningFrame DEF OpenOf
<1> QED
  BY <1>1, <1>2 DEF NoOrphanPty

\* A PTY that runs has a socket attached or a detach timer to interrupt it:
\* whatever requests, restarts, reattachments, timers, exits and deaths of the
\* agent overlap (browse/src/terminal-agent.ts: the close handler arms a timer
\* for a session it keeps, /ws takes a session over, disposeSession).
THEOREM NoOrphan == Spec => []NoOrphanPty
<1>1. Init => NoOrphanPty
  BY DEF Init, TerminalInit, NoOrphanPty, NoPty
<1> QED
  BY <1>1, ShapeInit, ShapeStep, NoOrphanStep, PTL DEF Spec

-----------------------------------------------------------------------------
(* Types, and the number of leases.                                        *)

Less == {p \in Nat \X Nat : p[1] < p[2]}

LEMMA LessIsWellFounded == IsWellFoundedOn(Less, Nat)
<1>1. OpToRel(<, Nat) = Less
  BY DEF OpToRel, Less
<1> QED
  BY <1>1, NatLessThanWellFounded, Zenon

LiveAtMost(ls) == Cardinality(LiveIn(ls)) <= MaxLease

LEMMA LiveIsFinite ==
    ASSUME NEW ls \in Leases
    PROVE  /\ LiveIn(ls) \subseteq 1..Len(ls) /\ DOMAIN ls = 1..Len(ls) /\ Len(ls) \in Nat
           /\ IsFiniteSet(LiveIn(ls)) /\ Cardinality(LiveIn(ls)) \in Nat
<1>1. DOMAIN ls = 1..Len(ls) /\ Len(ls) \in Nat
  BY LenProperties DEF Leases
<1>2. LiveIn(ls) \subseteq 1..Len(ls)
  BY <1>1 DEF LiveIn
<1>3. IsFiniteSet(1..Len(ls))
  BY <1>1, FS_Interval
<1>4. IsFiniteSet(LiveIn(ls))
  BY <1>2, <1>3, FS_Subset
<1> QED
  BY <1>1, <1>2, <1>4, FS_CardinalityType

\* A lease that goes is one live lease less.
LEMMA GoneIsRemoved ==
    ASSUME NEW ls \in Leases, NEW s
    PROVE  LiveIn([ls EXCEPT ![s] = "gone"]) = LiveIn(ls) \ {s}
<1> DEFINE g == [ls EXCEPT ![s] = "gone"]
<1>1. /\ g \in Leases /\ Len(g) = Len(ls)
      /\ \A j \in 1..Len(ls) : g[j] = IF j = s THEN "gone" ELSE ls[j]
  BY SeqExcept DEF Leases
<1>2. DOMAIN g = 1..Len(ls) /\ DOMAIN ls = 1..Len(ls)
  BY <1>1, LiveIsFinite
<1> HIDE DEF g
<1>3. LiveIn(g) = LiveIn(ls) \ {s}
  BY <1>1, <1>2 DEF LiveIn
<1> QED
  BY <1>3 DEF g

LEMMA RevokeBounded ==
    ASSUME leases \in Leases, LiveAtMost(leases), NEW s
    PROVE  LiveAtMost(revokeLease(s))
<1>1. LiveIn(revokeLease(s)) \subseteq LiveIn(leases)
  BY GoneIsRemoved DEF revokeLease
<1>2. Cardinality(LiveIn(revokeLease(s))) <= Cardinality(LiveIn(leases))
  BY <1>1, LiveIsFinite, FS_Subset
<1>3. Cardinality(LiveIn(leases)) \in Nat /\ Cardinality(LiveIn(revokeLease(s))) \in Nat
      /\ MaxLease \in Nat
  BY RevokeTyped, LiveIsFinite, TerminalAssumption
<1> QED
  BY <1>2, <1>3 DEF LiveAtMost

\* The lease minted is one too many at most, and then the oldest goes.
LEMMA MintBounded ==
    ASSUME NEW ls \in Leases, LiveAtMost(ls)
    PROVE  LiveAtMost(mintLease(ls))
<1> DEFINE more == Append(ls, "live")
<1> DEFINE oldest == CHOOSE s \in LiveIn(more) : \A t \in LiveIn(more) : s <= t
<1>1. more \in Leases /\ Len(more) = Len(ls) + 1
      /\ (\A i \in 1..Len(ls) : more[i] = ls[i]) /\ more[Len(ls) + 1] = "live"
  BY AppendProperties DEF Leases
<1>2. mintLease(ls) = IF Cardinality(LiveIn(more)) > MaxLease
                      THEN [more EXCEPT ![oldest] = "gone"] ELSE more
  BY DEF mintLease
<1> HIDE DEF more
<1>3. LiveIn(more) = LiveIn(ls) \cup {Len(ls) + 1} /\ Len(ls) + 1 \notin LiveIn(ls)
  <2>1. DOMAIN ls = 1..Len(ls) /\ Len(ls) \in Nat /\ DOMAIN more = 1..(Len(ls) + 1)
    BY <1>1, LiveIsFinite
  <2> QED
    BY <1>1, <2>1 DEF LiveIn
<1>4. /\ Cardinality(LiveIn(more)) = Cardinality(LiveIn(ls)) + 1
      /\ Cardinality(LiveIn(ls)) \in Nat /\ Cardinality(LiveIn(ls)) <= MaxLease /\ MaxLease \in Nat
      /\ IsFiniteSet(LiveIn(more))
  <2>1. IsFiniteSet(LiveIn(ls)) /\ Cardinality(LiveIn(ls)) \in Nat /\ MaxLease \in Nat
    BY LiveIsFinite, TerminalAssumption
  <2> DEFINE S == LiveIn(ls)
  <2> DEFINE n == Len(ls) + 1
  <2>2. IsFiniteSet(S) /\ LiveIn(more) = S \cup {n} /\ n \notin S
    BY <1>3, <2>1
  <2> HIDE DEF S, n
  <2>3. IsFiniteSet(S \cup {n}) /\ Cardinality(S \cup {n}) = Cardinality(S) + 1
    BY <2>2, FS_AddElement
  <2>4. Cardinality(LiveIn(more)) = Cardinality(LiveIn(ls)) + 1 /\ IsFiniteSet(LiveIn(more))
    BY <2>2, <2>3 DEF S
  <2> QED
    BY <2>1, <2>4 DEF LiveAtMost
<1>5. oldest \in LiveIn(more)
  <2> DEFINE S == LiveIn(more)
  <2>1. S \subseteq Nat /\ S # {}
    BY <1>1, <1>3, LiveIsFinite
  <2> HIDE DEF S
  <2>2. PICK x \in S : \A y \in S : <<y, x>> \notin Less
    BY <2>1, LessIsWellFounded, WFMin
  <2>3. \A t \in S : x <= t
    <3> TAKE t \in S
    <3>1. t \in Nat /\ x \in Nat /\ <<t, x>> \notin Less
      BY <2>1, <2>2
    <3>2. ~(t < x)
      BY <3>1 DEF Less
    <3> QED
      BY <3>1, <3>2
  <2>4. \E y \in S : \A t \in S : y <= t
    BY <2>3
  <2> QED
    BY <2>4 DEF S, oldest
<1> HIDE DEF oldest
<1>6. Cardinality(LiveIn([more EXCEPT ![oldest] = "gone"])) = Cardinality(LiveIn(more)) - 1
  BY <1>1, <1>4, <1>5, GoneIsRemoved, FS_RemoveElement
<1> QED
  BY <1>2, <1>4, <1>6 DEF LiveAtMost

LEMMA LeasesBoundedStep ==
    ASSUME Shape, LiveAtMost(leases), Next
    PROVE  LiveAtMost(leases')
<1>0. leases \in Leases
  BY DEF Shape, ServerShape, Leases
<1>1. ASSUME NEW s PROVE revokeLease(s) \in Leases /\ LiveAtMost(revokeLease(s))
  BY <1>0, RevokeTyped, RevokeBounded
<1>2. ASSUME NEW q \in Slot, NEW kind, NEW ls \in Leases, LiveAtMost(ls), Fresh(q, kind, ls)
      PROVE  LiveAtMost(leases')
  BY <1>2, MintBounded DEF Fresh
<1>3. ASSUME NEW q \in Slot, ServerStep(q) PROVE LiveAtMost(leases')
  <2>1. CASE Route(q)
    BY <1>0, <1>2, <2>1 DEF Route
  <2>2. CASE Disposed(q)
    BY <1>1, <1>2, <2>2 DEF Disposed
  <2>3. CASE GrantFails(q)
    BY <1>1, <2>3 DEF GrantFails
  <2> QED
    BY <1>3, <2>1, <2>2, <2>3 DEF ServerStep, NotReady, grant, restart, DisposeTimesOut
<1>4. ASSUME NEW s \in Session, Expire(s) PROVE LiveAtMost(leases')
  BY <1>1, <1>4 DEF Expire
<1>5. ASSUME AgentStep PROVE UNCHANGED leases
  <2>1. ASSUME NEW w \in Attach, open(w) \/ Refused(w) \/ message(w) \/ Lost(w) \/ PtyExits(w)
        PROVE  UNCHANGED leases
    BY <2>1 DEF open, Refused, message, Lost, PtyExits, serverVars
  <2>2. ASSUME NEW w \in Attach, close(w) PROVE UNCHANGED leases
    BY <2>2 DEF close
  <2>3. ASSUME NEW p \in Attach, NEW x \in Attach, DetachTimer(p, x) PROVE UNCHANGED leases
    BY <2>3 DEF DetachTimer, serverVars
  <2>4. ASSUME AgentDies \/ AgentStarts PROVE UNCHANGED leases
    BY <2>4 DEF AgentDies, AgentStarts, serverVars
  <2> QED
    BY <1>5, <2>1, <2>2, <2>3, <2>4 DEF AgentStep
<1>6. ASSUME NEW q \in Slot, PanelAnswer(q) PROVE UNCHANGED leases
  BY <1>6 DEF PanelAnswer, NewSession, Checked, ConnectFails, RestartFails, Resumed, GivesUp,
              NextAttempt, Attempt, Dropped
<1>7. ASSUME pagehide PROVE leases' = leases
  BY <1>7, Zenon DEF pagehide
<1>8. ASSUME tick \/ forceRestart \/ installRetry \/ (\E w \in Attach : onclose(w))
      PROVE  UNCHANGED leases
  BY <1>8 DEF tick, forceRestart, installRetry, onclose
<1> QED
  BY <1>3, <1>4, <1>5, <1>6, <1>7, <1>8 DEF Next, Daemon

Counters ==
    /\ deaths \in 0..MaxDeath /\ polls \in 0..MaxPoll /\ crossings \in 0..MaxCrossing
    /\ scenario \in Mishaps /\ superseded \subseteq Attach

LEMMA CountersStep == Counters /\ PanelShape /\ Next => Counters'
<1> SUFFICES ASSUME Counters, PanelShape, Next PROVE Counters'
  OBVIOUS
<1> USE TerminalAssumption, PanelAssumption DEF Counters
<1>1. deaths' \in 0..MaxDeath /\ scenario' \in Mishaps /\ superseded' \subseteq Attach
  <2>1. CASE UNCHANGED record
    BY <2>1 DEF record
  <2>2. CASE AgentDies
    BY <2>2 DEF AgentDies
  <2>3. ASSUME NEW w \in Attach, open(w)
        PROVE  UNCHANGED <<deaths, scenario>> /\ superseded' \subseteq Attach
    BY <2>3 DEF open
  <2> QED
    BY <2>1, <2>2, <2>3, RecordFrame
<1>2. crossings' \in 0..MaxCrossing
  BY MisstepsGrow
<1>3. polls' \in 0..MaxPoll
  <2>1. ASSUME pagehide PROVE polls' = 0
    BY <2>1, Zenon DEF pagehide
  <2> QED
    BY <2>1, RecordFrame DEF Opens, tick, forceRestart, installRetry, onclose
<1> QED
  BY <1>1, <1>2, <1>3

IsMap == req = [q \in Slot |-> req[q]]

LEMMA IsMapStep == Shape /\ IsMap /\ Next => IsMap'
<1> SUFFICES ASSUME Shape, IsMap, Next PROVE IsMap'
  OBVIOUS
<1>1. ASSUME NEW q \in Slot, NEW r, Becomes(q, r) PROVE IsMap'
  BY <1>1 DEF Becomes, IsMap
<1>2. ASSUME NEW q \in Slot, NEW r, Serves(q, r) \/ Follows(q, r) \/ Takes(q, r) PROVE IsMap'
  BY <1>1, <1>2 DEF Serves, Follows, Takes
<1>3. ASSUME NEW q \in Slot, PanelAnswer(q) PROVE IsMap'
  BY <1>2, <1>3, AnswerFollows DEF Shape
<1>4. ASSUME UNCHANGED req PROVE IsMap'
  BY <1>4 DEF IsMap
<1> QED
  BY <1>2, <1>3, <1>4, RequestSteps

Typed == Shape /\ TokensKept /\ LiveAtMost(leases) /\ Counters /\ IsMap

LEMMA TypedIsTypeOK == Typed => TypeOK
<1> SUFFICES ASSUME Typed PROVE TypeOK
  OBVIOUS
<1>1. TerminalTypeOK
  BY DEF Typed, TerminalTypeOK, Shape, ServerShape, AgentShape, LiveAtMost, Counters, Token, Pty,
         Socket, Continuation
<1>2. req \in [Slot -> {Free} \cup
                  [pc : {"posted", "disposing", "disposed"}, kind : Continuation \cup {"dispose"},
                   sid : Session \cup {None}] \cup
                  [pc : {"granting"}, kind : Continuation, sid : Session, token : Attach] \cup
                  [pc : {"answered", "checking", "waiting"}, kind : Continuation,
                   sid : Session \cup {None}, result : {"ok", "fail", "gone"},
                   token : Attach \cup {None}]]
  <2> DEFINE R == {Free} \cup
                  [pc : {"posted", "disposing", "disposed"}, kind : Continuation \cup {"dispose"},
                   sid : Session \cup {None}] \cup
                  [pc : {"granting"}, kind : Continuation, sid : Session, token : Attach] \cup
                  [pc : {"answered", "checking", "waiting"}, kind : Continuation,
                   sid : Session \cup {None}, result : {"ok", "fail", "gone"},
                   token : Attach \cup {None}]
  <2>1. ASSUME NEW r, RequestOK(r) PROVE r \in R
    <3>1. CASE r = Free
      BY <3>1
    <3>2. CASE r \in Posted \/ r \in Disposal
      BY <3>2 DEF Posted, Disposal, Continuation
    <3>3. CASE r \in Granted
      BY <3>3 DEF Granted
    <3>4. CASE r \in Success \/ r \in Failure
      BY <3>4 DEF Success, Failure
    <3> QED
      BY <2>1, <3>1, <3>2, <3>3, <3>4 DEF RequestOK
  <2>2. \A q \in Slot : req[q] \in R
    BY <2>1 DEF Typed, Shape, ServerShape
  <2> HIDE DEF R
  <2>3. req = [q \in Slot |-> req[q]]
    BY DEF Typed, IsMap
  <2>4. req \in [Slot -> R]
    BY <2>2, <2>3
  <2> QED
    BY <2>4 DEF R
<1>3. PanelShape /\ Counters
  BY DEF Typed, Shape
<1> QED
  BY <1>1, <1>2, <1>3 DEF TypeOK, PanelShape, Counters

\* Every variable has its type; in particular no more than MAX_LEASES leases are
\* live, however sessions, restarts, expiries and refused grants interleave
\* (mintLease, browse/src/pty-session-lease.ts).
THEOREM TerminalTypeCorrect == Spec => []TypeOK
<1>1. Init => Typed
  <2> SUFFICES ASSUME Init PROVE Typed
    OBVIOUS
  <2>1. /\ leases = << >> /\ deaths = 0 /\ polls = 1 /\ crossings = 0 /\ IsMap
        /\ scenario \in Mishaps /\ superseded = {}
    BY DEF Init, TerminalInit, IsMap
  <2>2. LiveIn(leases) = {}
    BY <2>1 DEF LiveIn
  <2>3. Cardinality(LiveIn(leases)) = 0
    BY <2>2, FS_EmptySet
  <2> QED
    BY <2>1, <2>3, ShapeInit, TerminalAssumption, PanelAssumption DEF Typed, LiveAtMost, Counters
<1>2. Typed /\ [Next]_vars => Typed'
  <2> SUFFICES ASSUME Typed, [Next]_vars PROVE Typed'
    OBVIOUS
  <2>1. CASE Next
    BY <2>1, ShapeStep, LeasesBoundedStep, CountersStep, IsMapStep DEF Typed, Shape, LiveAtMost, LiveIn
  <2>2. CASE UNCHANGED vars
    <3>1. (Shape /\ TokensKept)'
      BY <2>2, ShapeStep DEF Typed
    <3>2. UNCHANGED <<leases, deaths, polls, req, crossings, scenario, superseded>>
      BY <2>2 DEF vars, terminalVars, serverVars, agentVars, record, panelVars, missteps
    <3> QED
      BY <3>1, <3>2 DEF Typed, LiveAtMost, LiveIn, Counters, IsMap
  <2> QED
    BY <2>1, <2>2
<1> QED
  BY <1>1, <1>2, TypedIsTypeOK, PTL DEF Spec

-----------------------------------------------------------------------------
(* One operation of the panel after the other, until one crosses another.   *)

LEMMA AnswerContinues ==
    ASSUME Shape, NEW q \in Slot, PanelAnswer(q)
    PROVE  Continuing(q)
<1>1. RequestOK(req[q]) /\ req[q].pc \in {"answered", "checking", "waiting"}
  BY DEF Shape, ServerShape, PanelAnswer, NewSession, Checked, ConnectFails, RestartFails, Resumed,
         GivesUp, NextAttempt, Attempt, Dropped, Answered, InPc
<1> QED
  BY <1>1, PcTells DEF Continuing, Busy, Success, Failure

\* The requests after a step: at most as much is under way, or the first of all.
LEMMA RequestFrame ==
    ASSUME crossings' = 0, Shape, Next
    PROVE  /\ \A q \in Slot : Continuing(q)' => Continuing(q) \/ \A s \in Slot : ~Continuing(s)
           /\ \A q, r \in Slot : Continuing(q)' /\ Continuing(r)' /\ ~Continuing(q) => q = r
           /\ \A q \in Slot : InPc(q, "checking")' /\ ~InPc(q, "checking") =>
                 NewSession(q) /\ req'[q].sid = req[q].sid
           /\ \A q \in Slot : InPc(q, "checking")' /\ InPc(q, "checking") => req'[q].sid = req[q].sid
<1>0. ServerShape
  BY DEF Shape
<1>1. ASSUME NEW q \in Slot, NEW r, Serves(q, r)
      PROVE  /\ \A s \in Slot : Continuing(s)' => Continuing(s)
             /\ \A s \in Slot : InPc(s, "checking")' => req'[s] = req[s]
  <2>1. req'[q] = r /\ \A s \in Slot \ {q} : req'[s] = req[s]
    BY <1>0, <1>1, BecomesTyped DEF Serves
  <2> QED
    BY <1>1, <2>1 DEF Serves, Continuing, InPc
<1>2. ASSUME NEW q \in Slot, PanelAnswer(q)
      PROVE  /\ \A s \in Slot : Continuing(s)' => Continuing(s)
             /\ \A s \in Slot : InPc(s, "checking")' =>
                   req'[s] = req[s] \/ (NewSession(s) /\ req'[s].sid = req[s].sid)
  <2>0. PICK r : Follows(q, r) /\ (r.pc = "checking" => NewSession(q) /\ r.sid = req[q].sid)
    BY <1>0, <1>2, AnswerFollows
  <2>1. req'[q] = r /\ \A s \in Slot \ {q} : req'[s] = req[s]
    BY <1>0, <2>0, BecomesTyped DEF Follows
  <2> QED
    BY <2>0, <2>1 DEF Follows, Continuing, InPc
<1>3. ASSUME NEW q \in Slot, NEW r, Takes(q, r)
      PROVE  /\ \A s \in Slot : Continuing(s)' => Continuing(s) \/ (s = q /\ ~UnderWay)
             /\ \A s \in Slot : InPc(s, "checking")' => req'[s] = req[s]
  <2>1. req'[q] = r /\ \A s \in Slot \ {q} : req'[s] = req[s]
    BY <1>0, <1>3, BecomesTyped DEF Takes
  <2> QED
    BY <1>3, <2>1 DEF Takes, Continuing, InPc
<1>4. UnderWay <=> \E s \in Slot : Continuing(s)
  BY DEF UnderWay, Continuing, Busy, IsFree, InPc
<1>5. CASE UNCHANGED req
  BY <1>5 DEF Continuing, InPc
<1>6. CASE \E q \in Slot : \E r : Takes(q, r)
  <2>1. PICK q \in Slot : \E r : Takes(q, r)
    BY <1>6
  <2> QED
    BY <1>3, <1>4, <2>1 DEF InPc
<1>7. CASE \E q \in Slot : PanelAnswer(q)
  BY <1>2, <1>7 DEF InPc
<1>8. CASE \E q \in Slot : \E r : Serves(q, r)
  BY <1>1, <1>8 DEF InPc
<1> QED
  BY <1>5, <1>6, <1>7, <1>8, RequestSteps

LEMMA OneAtATimeStep == crossings' = 0 /\ Shape /\ OneAtATime /\ Next => OneAtATime'
<1> SUFFICES ASSUME crossings' = 0, Shape, OneAtATime, Next,
                    NEW q \in Slot, NEW r \in Slot, Continuing(q)', Continuing(r)'
             PROVE  q = r
  BY DEF OneAtATime
<1> QED
  BY RequestFrame DEF OneAtATime

\* While an operation is under way the panel is not live and has no open socket.
LEMMA ContinuingIsNotLive ==
    ASSUME PanelKept, NEW q \in Slot, Continuing(q)
    PROVE  panel # "live" /\ ws = None /\ \A w \in Attach : seen[w] # "open"
BY NoneIsNobody DEF PanelKept, Live

LEMMA CheckingKept ==
    ASSUME crossings' = 0, Shape, PanelKept, Next, UNCHANGED current,
           panel' # "closed" => panel # "closed",
           \A q \in Slot : ~NewSession(q)
    PROVE  \A q \in Slot : InPc(q, "checking")' /\ panel' # "closed" => req'[q].sid = current'
BY RequestFrame DEF PanelKept

LEMMA PanelKeptStep ==
    Orderly' /\ Shape /\ TokensKept /\ OneAtATime /\ PanelKept /\ Next => PanelKept'
<1> SUFFICES ASSUME Orderly', Shape, TokensKept, OneAtATime, PanelKept, Next PROVE PanelKept'
  OBVIOUS
<1>0. /\ \A q \in Slot : PanelAnswer(q) => Continuing(q)
      /\ \A q, r \in Slot : Continuing(q) /\ Continuing(r) => q = r
      /\ \A q \in Slot : InPc(q, "checking") => Continuing(q)
      /\ seen \in [Attach -> {"none", "open", "closing", "closed"}]
      /\ None \notin Attach /\ crossings' = 0
  <2>1. ASSUME NEW q \in Slot, InPc(q, "checking") PROVE Continuing(q)
    BY <2>1, PcTells DEF InPc, Shape, ServerShape, Success, Continuing, Busy
  <2> QED
    BY <2>1, AnswerContinues, NoneIsNobody DEF OneAtATime, Shape, PanelShape, Orderly
\* Where the panel keeps its view, what it relies on is kept.
<1>1. CASE Daemon
  <2>1. UNCHANGED <<panel, current, ws, seen>>
    BY <1>1 DEF Daemon, panelVars, missteps
  <2>2. \A q \in Slot : Continuing(q)' => Continuing(q)
    <3>1. ASSUME NEW q \in Slot, NEW r, Serves(q, r), NEW s \in Slot, Continuing(s)'
          PROVE  Continuing(s)
      <4>1. req'[q] = r /\ \A u \in Slot \ {q} : req'[u] = req[u]
        BY <3>1, BecomesTyped DEF Serves, Shape
      <4> QED
        BY <3>1, <4>1 DEF Serves, Continuing
    <3> QED
      BY <1>1, <3>1, DaemonSteps DEF Continuing
  <2>3. DOMAIN tokens \subseteq DOMAIN tokens' /\ \A t \in DOMAIN tokens : tokens'[t].sid = tokens[t].sid
    <3>1. tokens \in Seq(Token) /\ DOMAIN tokens = 1..Len(tokens) /\ Len(tokens) \in Nat
      BY LenProperties DEF Shape, ServerShape
    <3>2. ASSUME SameTokens
          PROVE  DOMAIN tokens' = DOMAIN tokens /\ \A t \in DOMAIN tokens : tokens'[t].sid = tokens[t].sid
      BY <3>1, <3>2, LenProperties DEF SameTokens
    <3>3. ASSUME NEW r, Mints(r)
          PROVE  DOMAIN tokens \subseteq DOMAIN tokens'
                 /\ \A t \in DOMAIN tokens : tokens'[t].sid = tokens[t].sid
      BY <3>1, <3>3, LenProperties DEF Mints
    <3> QED
      BY <1>1, <3>2, <3>3, DaemonSteps DEF Serves, KeepsToken
  <2>4. \A q \in Slot : ~NewSession(q)
    <3>1. ASSUME NEW q \in Slot, NewSession(q) PROVE FALSE
      <4>1. InPc(q, "checking")' /\ req[q].pc = "answered"
        BY <3>1 DEF NewSession, Answered, Becomes, InPc, Shape, ServerShape
      <4>2. ASSUME NEW x \in Slot, NEW r, Serves(x, r) PROVE FALSE
        <5>1. req'[x] = r /\ \A u \in Slot \ {x} : req'[u] = req[u]
          BY <4>2, BecomesTyped DEF Serves, Shape
        <5> QED
          BY <4>1, <4>2, <5>1 DEF Serves, InPc
      <4> QED
        BY <1>1, <4>1, <4>2, DaemonSteps DEF InPc
    <3> QED
      BY <3>1
  <2>5. Live => Live'
    BY <2>1, <2>2, <2>3 DEF Live
  <2> QED
    BY <1>0, <2>1, <2>4, <2>5, CheckingKept DEF PanelKept
<1>2. ASSUME NEW q \in Slot, NewSession(q) PROVE PanelKept'
  <2>1. Continuing(q) /\ UNCHANGED <<panel, ws, seen>> /\ current' = req[q].sid
    BY <1>0, <1>2 DEF PanelAnswer, NewSession, Answered, SessionOf
  <2>2. panel # "live" /\ ws = None /\ \A w \in Attach : seen[w] # "open"
    BY <2>1, ContinuingIsNotLive
  <2>3. ASSUME NEW s \in Slot, InPc(s, "checking")' PROVE req'[s].sid = current'
    <3>1. s = q
      <4>1. InPc(s, "checking") \/ NewSession(s)
        BY <1>0, <2>3, RequestFrame
      <4> QED
        BY <1>0, <2>1, <4>1 DEF PanelAnswer
    <3>2. req[q].pc # "checking"
      BY <1>2 DEF NewSession, Answered, InPc
    <3> QED
      BY <1>0, <2>1, <2>3, <3>1, <3>2, RequestFrame DEF InPc
  <2> QED
    BY <2>1, <2>2, <2>3 DEF PanelKept
<1>3. ASSUME NEW q \in Slot, Checked(q) \/ Resumed(q), Connect(req[q].token) PROVE PanelKept'
  <2> DEFINE t == req[q].token
  <2>1. Continuing(q) /\ HasToken(q) /\ t \in Attach
    <3>1. req[q] \in Success
      BY <1>3, PcTells DEF Shape, ServerShape, Checked, Resumed, Answered, InPc, Failure
    <3> QED
      BY <3>1 DEF HasToken, Spends, Success, Continuing, Busy
  <2>2. panel # "live" /\ ws = None /\ \A w \in Attach : seen[w] # "open"
    BY <2>1, ContinuingIsNotLive
  <2>4. t \in DOMAIN tokens /\ tokens[t].sid = current' /\ UNCHANGED tokens
    <3>1. t \in DOMAIN tokens /\ tokens[t].sid = req[q].sid
      BY <2>1 DEF TokensKept
    <3>2. current' = req[q].sid /\ UNCHANGED tokens
      BY <1>3 DEF PanelKept, Checked, Resumed
    <3> QED
      BY <3>1, <3>2
  <2>5. ws' = t /\ panel' = "live" /\ seen'[t] = "open"
        /\ \A w \in Attach \ {t} : seen'[w] = seen[w]
    BY <1>0, <1>3, <2>1 DEF Connect
  <2>6. \A s \in Slot : ~Continuing(s)'
    <3>1. req' = [req EXCEPT ![q] = Free] /\ DOMAIN req = Slot
      BY <1>3 DEF Checked, Resumed, Becomes, Shape, ServerShape
    <3> QED
      BY <1>0, <2>1, <3>1 DEF Continuing, Busy, Free
  <2>7. \A s \in Slot : ~InPc(s, "checking")'
    <3>1. \A s \in Slot : InPc(s, "checking")' => Continuing(s)'
      <4>1. \A s \in Slot : InPc(s, "checking")' => InPc(s, "checking") \/ NewSession(s)
        BY <1>0, RequestFrame
      <4>2. ~NewSession(q) /\ req'[q] = Free
        BY <1>3 DEF NewSession, Checked, Resumed, Answered, InPc, Becomes, Shape, ServerShape
      <4>3. \A s \in Slot : InPc(s, "checking")' => s = q
        BY <1>0, <2>1, <4>1 DEF PanelAnswer
      <4> QED
        BY <4>2, <4>3 DEF InPc, Free
    <3> QED
      BY <2>6, <3>1
  <2> HIDE DEF t
  <2>8. Live'
    BY <1>0, <2>1, <2>4, <2>5, <2>6 DEF Live
  <2> QED
    BY <2>2, <2>5, <2>7, <2>8 DEF PanelKept
\* The answers that end without a socket.
<1>4. ASSUME NEW q \in Slot, PanelAnswer(q), ~NewSession(q),
             ~((Checked(q) \/ Resumed(q)) /\ Connect(req[q].token))
      PROVE  PanelKept'
  <2>1. panel # "live" /\ ws = None /\ \A w \in Attach : seen[w] # "open"
    BY <1>0, <1>4, ContinuingIsNotLive
  <2>2. UNCHANGED <<ws, seen>> /\ panel' # "live" /\ (panel' # "closed" => panel # "closed")
    BY <1>4, <2>1 DEF PanelAnswer, Checked, ConnectFails, RestartFails, Resumed, GivesUp, NextAttempt,
                      Attempt, Dropped, Answered, panelVars, missteps
  <2>3. \A s \in Slot : InPc(s, "checking")' =>
           InPc(s, "checking") /\ req'[s].sid = req[s].sid
    <3>1. \A s \in Slot : ~NewSession(s)
      <4>1. ASSUME NEW s \in Slot, NewSession(s) PROVE s = q
        BY <1>0, <1>4, <4>1 DEF PanelAnswer
      <4> QED
        BY <1>4, <4>1
    <3> QED
      BY <1>0, <3>1, RequestFrame
  <2>4. CASE UNCHANGED current
    BY <2>1, <2>2, <2>3, <2>4 DEF PanelKept
  <2>5. CASE RestartFails(q)
    <3>1. \A s \in Slot : ~InPc(s, "checking")
      BY <1>0, <1>4, <2>5 DEF RestartFails, Answered, InPc
    <3> QED
      BY <2>1, <2>2, <2>3, <3>1 DEF PanelKept
  <2>6. UNCHANGED current \/ RestartFails(q)
    BY <1>4 DEF PanelAnswer, Checked, ConnectFails, Resumed, GivesUp, NextAttempt, Attempt, Dropped,
                panelVars, missteps
  <2> QED
    BY <2>4, <2>5, <2>6
<1>5. ASSUME Opens PROVE \A q \in Slot : ~NewSession(q)
  <2>1. ASSUME NEW q \in Slot, NewSession(q) PROVE FALSE
    <3>1. req[q].pc = "answered" /\ req'[q].pc = "checking"
      BY <2>1, PcTells DEF NewSession, Answered, InPc, Becomes, Shape, ServerShape, Success
    <3>2. ASSUME NEW s \in Slot, NEW r, Takes(s, r) PROVE FALSE
      <4>1. req'[s] = r /\ \A u \in Slot \ {s} : req'[u] = req[u]
        BY <3>2, BecomesTyped DEF Takes, Shape
      <4> QED
        BY <3>1, <3>2, <4>1 DEF Takes
    <3> QED
      BY <1>5, <3>1, <3>2, OpensTakes
  <2> QED
    BY <2>1
<1>6. CASE tick \/ installRetry
  <2>1. UNCHANGED <<current, ws, seen>> /\ panel # "closed"
    BY <1>6 DEF tick, installRetry
  <2>2. CASE panel' = panel /\ UNCHANGED req
    BY <1>6, <2>1, <2>2 DEF PanelKept, Live, Continuing, InPc, tick, installRetry
  <2>3. CASE panel' = "connecting" /\ panel # "live"
    BY <1>0, <1>5, <1>6, <2>1, <2>3, CheckingKept DEF PanelKept, Opens
  <2> QED
    BY <1>6, <2>2, <2>3 DEF tick, installRetry
<1>7. CASE forceRestart
  <2>1. panel # "closed" /\ panel' = "idle" /\ ws' = None /\ UNCHANGED current
    BY <1>7 DEF forceRestart
  <2>2. \A w \in Attach : seen'[w] # "open"
    BY <1>0, <1>7 DEF forceRestart, CloseForRestart, PanelKept
  <2>3. CASE UNCHANGED seen
    BY <1>0, <1>5, <1>7, <2>1, <2>2, <2>3, CheckingKept DEF PanelKept, Opens
  <2>4. CASE ws # None
    <3>1. \A q \in Slot : ~InPc(q, "checking")'
      <4>1. \A q \in Slot : ~Continuing(q)
        BY <2>4 DEF PanelKept, Live
      <4> QED
        BY <1>0, <1>5, <1>7, <4>1, RequestFrame DEF Opens
    <3> QED
      BY <2>1, <2>2, <3>1 DEF PanelKept
  <2> QED
    BY <1>7, <2>3, <2>4 DEF forceRestart, CloseForRestart
<1>8. CASE pagehide
  BY <1>8, Zenon DEF pagehide, PanelKept
<1>9. ASSUME NEW w \in Attach, onclose(w) PROVE PanelKept'
  <2>1. /\ panel # "closed" /\ ws' = None /\ UNCHANGED current
        /\ seen' = [seen EXCEPT ![w] = "closed"] /\ seen[w] \in {"open", "closing"}
    BY <1>9 DEF onclose, Noticed
  <2>2. panel' # "live"
    BY <1>9 DEF onclose, LoopBegins
  <2>3. \A v \in Attach : seen'[v] # "open"
    <3>1. ws \in {w, None}
      BY <1>9 DEF onclose, Noticed, Orderly, Shape, PanelShape
    <3> QED
      BY <1>0, <2>1, <3>1 DEF PanelKept
  <2> QED
    BY <1>0, <1>5, <1>9, <2>1, <2>2, <2>3, CheckingKept DEF PanelKept, Opens
<1> QED
  BY <1>1, <1>2, <1>3, <1>4, <1>6, <1>7, <1>8, <1>9 DEF Next

LEMMA PanelOrderlyStep ==
    Shape /\ TokensKept /\ PanelOrderly /\ Next => PanelOrderly'
<1> SUFFICES ASSUME Shape, TokensKept, PanelOrderly, Next, Orderly' PROVE (OneAtATime /\ PanelKept)'
  BY DEF PanelOrderly
<1>1. Orderly
  BY MisstepsGrow DEF Shape, PanelShape, Orderly
<1> QED
  BY <1>1, OneAtATimeStep, PanelKeptStep DEF PanelOrderly, Orderly

-----------------------------------------------------------------------------
(* The cookie of a session is the token of the socket that has it.          *)

\* A session that has an open socket keeps its cookie until a socket opens or closes.
LEMMA CookieFrame ==
    ASSUME Shape, TokensKept, Next, NEW w \in Attach, socket[w].state = "open",
           \A v \in Attach : ~open(v) /\ ~close(v), ~AgentDies
    PROVE  pty'[socket[w].of].cookie = pty[socket[w].of].cookie
<1> USE DEF Shape
<1> DEFINE p == socket[w].of
<1>0. p \in Attach /\ pty \in [Attach -> Pty]
  BY OfOpen DEF AgentShape
<1>1. CASE UNCHANGED pty
  BY <1>1
<1>2. ASSUME NEW v \in Attach, message(v) \/ PtyExits(v) PROVE pty'[p].cookie = pty[p].cookie
  BY <1>0, <1>2, MessageMoves, ExitMoves DEF OnlyPty
<1>3. ASSUME NEW v \in Attach, NEW t \in Attach, DetachTimer(v, t)
      PROVE  pty'[p].cookie = pty[p].cookie
  BY <1>0, <1>3, TimerMoves DEF OnlyPty
<1>4. ASSUME NEW q \in Slot, restart(q) PROVE pty'[p].cookie = pty[p].cookie
  <2> DEFINE o == byId[req[q].sid]
  <2> DEFINE n == disposeSession(ClearTimer(pty[o]))
  <2>1. o = None \/ n.cookie = pty[o].cookie
    <3>1. req[q].sid \in Session
      BY <1>4, PcTells DEF ServerShape, restart, InPc, Disposal
    <3>2. o = None \/ (o \in Attach /\ pty[o] \in Pty)
      BY <3>1 DEF AgentShape
    <3>3. o # None => ClearTimer(pty[o]) \in Pty /\ ClearTimer(pty[o]).cookie = pty[o].cookie
      BY <3>2, PtyRecords
    <3> QED
      BY <3>3, PtyRecords
  <2>2. UNCHANGED pty \/ (o # None /\ pty' = [pty EXCEPT ![o] = n])
    BY <1>4 DEF restart
  <2> HIDE DEF n, o, p
  <2> QED
    BY <1>0, <2>1, <2>2
<1> QED
  BY <1>1, <1>2, <1>3, <1>4, PtySteps

\* One socket's close leaves the cookie of a session another one has open.
LEMMA CloseKeepsCookie ==
    ASSUME AgentShape, NEW v \in Attach, close(v), NEW w \in Attach, w # v, socket[w].state = "open"
    PROVE  pty'[socket[w].of].cookie = pty[socket[w].of].cookie
<1> DEFINE p == socket[v].of
<1>1. p \in Attach /\ pty[p] \in Pty /\ pty \in [Attach -> Pty] /\ socket[w].of \in Attach
  BY OfOpen DEF close, AgentShape
<1>2. CASE socket[w].of # p
  BY <1>1, <1>2, CloseMoves DEF OnlyPty
<1>3. CASE socket[w].of = p
  <2> DEFINE n == disposeSession(pty[p])
  <2> DEFINE d == Detached(pty[p], v)
  <2>1. n \in Pty /\ n.cookie = pty[p].cookie /\ d.cookie = pty[p].cookie
    BY <1>1, PtyRecords
  <2>2. pty' = [pty EXCEPT ![p] = Unattached(p, v, n)] \/ pty' = [pty EXCEPT ![p] = d]
    BY DEF close
  <2> HIDE DEF n, d
  <2>3. Unattached(p, v, n) = n
    BY <1>3, <2>1, UnattachedTyped
  <2> QED
    BY <1>1, <1>3, <2>1, <2>2, <2>3
<1> QED
  BY <1>2, <1>3

LEMMA SupersededGrows == ASSUME Next PROVE superseded \subseteq superseded'
<1>1. ASSUME NEW w \in Attach, open(w) PROVE superseded \subseteq superseded'
  BY <1>1 DEF open
<1>2. AgentDies => UNCHANGED superseded
  BY DEF AgentDies
<1> QED
  BY <1>1, <1>2, RecordFrame DEF record

LEMMA CookieKeptStep ==
    Shape /\ TokensKept /\ SessionsKept /\ CookieKept /\ Next => CookieKept'
<1> SUFFICES ASSUME Shape, TokensKept, SessionsKept, CookieKept, Next,
                    NEW w \in Attach, w \notin superseded', socket'[w].state = "open"
             PROVE  pty'[socket'[w].of].cookie = w
  BY DEF CookieKept
<1>1. CASE open(w)
  BY <1>1, OpenMoves
<1>2. CASE socket[w].state = "open" /\ socket'[w].of = socket[w].of
  <2> DEFINE p == socket[w].of
  <2>0. p \in Attach /\ pty[p].cookie = w /\ w \notin superseded /\ Opened(p)
    BY <1>2, OfOpen, SupersededGrows DEF CookieKept, SessionsKept, Shape
  <2>1. ~close(w) /\ ~AgentDies /\ ~open(w)
    <3>1. close(w) => socket'[w].state = "closed"
      BY CloseMoves DEF Shape, SocketMoves
    <3>2. AgentDies => socket'[w].state = "closed"
      BY <1>2, DeathMoves DEF Attached
    <3> QED
      BY <1>2, <3>1, <3>2 DEF open
  <2>2. ASSUME NEW v \in Attach, open(v) PROVE pty'[p].cookie = w
    <3>1. OnlyPty(socket'[v].of)
      BY <2>2, OpenMoves
    <3>2. socket'[v].of # p
      <4> DEFINE o == byId[tokens[v].sid]
      <4>1. socket'[v].of = IF o = None THEN v ELSE o
        BY <2>2 DEF open, Shape, AgentShape, Socket
      <4>2. o # None => superseded' = superseded \cup {x \in Attach : OpenOf(x, o)}
        BY <2>2 DEF open
      <4>3. v # p
        BY <2>0, <2>2 DEF open, Opened
      <4> HIDE DEF o
      <4> QED
        BY <1>2, <4>1, <4>2, <4>3 DEF OpenOf
    <3> QED
      BY <2>0, <3>1, <3>2 DEF OnlyPty
  <2>3. ASSUME NEW v \in Attach, close(v) PROVE pty'[p].cookie = w
    BY <1>2, <2>0, <2>1, <2>3, CloseKeepsCookie DEF Shape
  <2>4. CASE \A v \in Attach : ~open(v) /\ ~close(v)
    BY <1>2, <2>0, <2>1, <2>4, CookieFrame
  <2> QED
    BY <1>2, <2>2, <2>3, <2>4
<1> QED
  BY <1>1, <1>2, SocketFrame

\* Who a session identifier names after a step was named before, or opens now.
LEMMA ByIdFrame ==
    ASSUME Shape, TokensKept, Next, NEW s \in Session, byId'[s] # None
    PROVE  byId'[s] = byId[s] \/ \E w \in Attach : open(w) /\ byId'[s] = w
<1> USE DEF Shape
<1>0. byId \in [Session -> Attach \cup {None}]
  BY DEF AgentShape
<1>1. ASSUME NEW q \in Slot, ServerStep(q) PROVE byId'[s] = byId[s]
  BY <1>0, <1>1 DEF ServerStep, Route, Disposed, NotReady, GrantFails, grant, restart,
                    DisposeTimesOut, agentVars
<1>2. ASSUME NEW x \in Session, Expire(x) PROVE byId'[s] = byId[s]
  BY <1>2 DEF Expire, agentVars
<1>3. ASSUME NEW w \in Attach, Refused(w) \/ message(w) \/ Lost(w) \/ close(w) \/ PtyExits(w)
      PROVE  byId'[s] = byId[s]
  BY <1>0, <1>3 DEF Refused, message, Lost, close, PtyExits
<1>4. ASSUME NEW w \in Attach, open(w) PROVE byId'[s] = byId[s] \/ byId'[s] = w
  BY <1>0, <1>4 DEF open
<1>5. ASSUME NEW p \in Attach, NEW x \in Attach, DetachTimer(p, x) PROVE byId'[s] = byId[s]
  BY <1>0, <1>5 DEF DetachTimer
<1>6. AgentDies \/ AgentStarts => byId'[s] = byId[s]
  BY DEF AgentDies, AgentStarts
<1>7. CASE Daemon
  BY <1>1, <1>2, <1>3, <1>4, <1>5, <1>6, <1>7 DEF Daemon, AgentStep
<1>8. ASSUME NEW q \in Slot, PanelAnswer(q) PROVE byId'[s] = byId[s]
  BY <1>8 DEF PanelAnswer, NewSession, Checked, ConnectFails, RestartFails, Resumed, GivesUp,
              NextAttempt, Attempt, Dropped, agentVars
<1>9. ASSUME pagehide PROVE byId' = byId
  BY <1>9, Zenon DEF pagehide
<1>10. ASSUME tick \/ forceRestart \/ installRetry \/ (\E w \in Attach : onclose(w))
       PROVE  byId'[s] = byId[s]
  BY <1>10 DEF tick, forceRestart, installRetry, onclose, agentVars
<1> QED
  BY <1>7, <1>8, <1>9, <1>10 DEF Next

LEMMA SessionsKeptStep == Shape /\ TokensKept /\ SessionsKept /\ Next => SessionsKept'
<1> SUFFICES ASSUME Shape, TokensKept, SessionsKept, Next PROVE SessionsKept'
  OBVIOUS
<1> DEFINE Ever(x) == socket'[x].state \in {"open", "closed"}
<1>1. ASSUME NEW w \in Attach, Opened(w) PROVE Ever(w)
  BY <1>1, SocketFrame DEF Opened
<1>2. ASSUME NEW w \in Attach, open(w) PROVE Ever(w)
  BY <1>2, OpenMoves DEF SocketMoves
<1>3. ASSUME NEW s \in Session, byId'[s] # None PROVE Ever(byId'[s])
  <2>1. byId[s] \in Attach \cup {None}
    BY DEF Shape, AgentShape
  <2> QED
    BY <1>1, <1>2, <1>3, <2>1, ByIdFrame DEF SessionsKept
<1>4. ASSUME NEW w \in Attach, socket'[w].state = "open" PROVE Ever(socket'[w].of)
  <2>1. CASE socket[w].state = "open" /\ socket'[w].of = socket[w].of
    BY <1>1, <2>1, OfOpen DEF SessionsKept, Shape
  <2>2. CASE open(w)
    <3> DEFINE o == byId[tokens[w].sid]
    <3>1. tokens[w].sid \in Session
      <4>1. w \in 1..Len(tokens) /\ tokens \in Seq(Token)
        BY <2>2, LenProperties DEF TokensKept, open, Shape, ServerShape
      <4>2. tokens[w] \in Token
        BY <4>1, ElementOfSeq
      <4> QED
        BY <4>2 DEF Token
    <3>2. o \in Attach \cup {None} /\ (o # None => Opened(o))
      BY <3>1 DEF SessionsKept, Shape, AgentShape
    <3>3. socket'[w].of = IF o = None THEN w ELSE o
      BY <2>2 DEF open, Shape, AgentShape, Socket
    <3> HIDE DEF o
    <3> QED
      BY <1>1, <1>2, <2>2, <3>2, <3>3
  <2> QED
    BY <1>4, <2>1, <2>2, SocketFrame
<1> QED
  BY <1>3, <1>4 DEF SessionsKept, Opened

-----------------------------------------------------------------------------
(* Used attach tokens.                                                     *)

\* What is valid after a step was valid, or is being granted.
LEMMA ValidFrame ==
    ASSUME Shape, Next, NEW t \in DOMAIN tokens', tokens'[t].status = "valid"
    PROVE  \/ t \in DOMAIN tokens /\ tokens[t].status = "valid"
           \/ \E q \in Slot : InPc(q, "granting") /\ req[q].token = t
<1>0. tokens \in Seq(Token) /\ DOMAIN tokens = 1..Len(tokens) /\ Len(tokens) \in Nat /\ ServerShape
  BY LenProperties DEF Shape, ServerShape
<1>1. ASSUME SameTokens PROVE t \in DOMAIN tokens
  BY <1>0, <1>1, LenProperties DEF SameTokens
<1>2. CASE UNCHANGED tokens
  BY <1>2
<1>3. ASSUME NEW q \in Slot, InPc(q, "granting"),
             tokens' = [tokens EXCEPT ![req[q].token].status = "valid"]
      PROVE  (t \in DOMAIN tokens /\ tokens[t].status = "valid") \/ req[q].token = t
  BY <1>0, <1>1, <1>3, StatusChanges
<1>4. ASSUME NEW s \in Session, NEW from \in Continuation, MintToken(s, from), CanMint
      PROVE  t \in DOMAIN tokens /\ tokens[t].status = "valid"
  <2>1. /\ tokens' \in Seq(Token) /\ Len(tokens') = Len(tokens) + 1
        /\ \A j \in 1..Len(tokens) : tokens'[j] = tokens[j]
        /\ tokens'[Len(tokens) + 1].status = "minted"
    BY <1>0, <1>4, MintAppends
  <2>2. DOMAIN tokens' = 1..(Len(tokens) + 1)
    BY <2>1, LenProperties
  <2> QED
    BY <1>0, <2>1, <2>2
<1>5. ASSUME NEW w \in Attach, close(w)
      PROVE  t \in DOMAIN tokens /\ tokens[t].status = "valid"
  <2> DEFINE c == pty[socket[w].of].cookie
  <2>1. tokens' = DropToken(c)
    BY <1>5, CloseMoves DEF Shape
  <2> HIDE DEF c
  <2>2. /\ SameTokens
        /\ \A j \in 1..Len(tokens) : tokens'[j].status = IF j = c THEN "dead" ELSE tokens[j].status
    BY <1>0, <2>1, StatusChanges DEF DropToken
  <2> QED
    BY <1>0, <1>1, <2>2
<1>6. CASE AgentDies
  <2>1. SameTokens /\ \A i \in 1..Len(tokens) : tokens'[i].status = "valid" => tokens[i].status = "valid"
    BY <1>6, DeathMoves
  <2> QED
    BY <1>0, <1>1, <2>1
<1>7. ASSUME NEW q \in Slot, ServerStep(q)
      PROVE  \/ UNCHANGED tokens
             \/ InPc(q, "granting") /\ tokens' = [tokens EXCEPT ![req[q].token].status = "valid"]
             \/ \E s \in Session : \E from \in Continuation : MintToken(s, from) /\ CanMint
  <2>0. RequestOK(req[q])
    BY <1>0 DEF ServerShape
  <2>1. ASSUME NEW ls, NEW kind \in Continuation, Fresh(q, kind, ls)
        PROVE  \E s \in Session : \E from \in Continuation : MintToken(s, from) /\ CanMint
    <3>1. Len(leases) \in Nat /\ MaxSession \in Nat
      BY <1>0, LenProperties, TerminalAssumption DEF ServerShape
    <3>2. Len(leases) + 1 \in Session
      BY <2>1, <3>1 DEF Fresh, Session
    <3> QED
      BY <2>1, <3>2 DEF Fresh
  <2>2. CASE Route(q)
    <3>1. req[q] \in Posted
      BY <2>0, <2>2, PcTells DEF Route, InPc
    <3>2. CASE req[q].kind = "session" /\ Fresh(q, req[q].kind, leases)
      BY <2>1, <3>2 DEF Continuation
    <3>3. CASE req[q].kind = "restart" /\ Fresh(q, req[q].kind, leases)
      BY <2>1, <3>3 DEF Continuation
    <3>4. CASE /\ req[q].kind = "reattach" /\ Leased(req[q].sid) /\ CanMint
               /\ MintToken(req[q].sid, req[q].kind)
      <4>1. req[q].sid \in Session
        BY <1>0, <3>1, <3>4, TerminalAssumption, LenProperties
           DEF Leased, Posted, ServerShape, Session, None
      <4> QED
        BY <3>4, <4>1 DEF Continuation
    <3> QED
      BY <2>2, <3>2, <3>3, <3>4 DEF Route
  <2>3. CASE Disposed(q)
    BY <2>1, <2>3 DEF Disposed, Continuation
  <2> QED
    BY <1>7, <2>2, <2>3 DEF ServerStep, NotReady, GrantFails, grant, restart, DisposeTimesOut
<1>8. \/ UNCHANGED tokens \/ AgentDies
      \/ \E q \in Slot : ServerStep(q)
      \/ \E w \in Attach : close(w)
  <2>1. ASSUME AgentStep PROVE UNCHANGED tokens \/ AgentDies \/ \E w \in Attach : close(w)
    <3>1. ASSUME NEW w \in Attach, open(w) \/ Refused(w) \/ message(w) \/ Lost(w) \/ PtyExits(w)
          PROVE  UNCHANGED tokens
      BY <3>1 DEF open, Refused, message, Lost, PtyExits, serverVars
    <3>2. ASSUME NEW p \in Attach, NEW x \in Attach, DetachTimer(p, x) PROVE UNCHANGED tokens
      BY <3>2 DEF DetachTimer, serverVars
    <3>3. ASSUME AgentStarts PROVE UNCHANGED tokens
      BY <3>3 DEF AgentStarts, serverVars
    <3> QED
      BY <2>1, <3>1, <3>2, <3>3 DEF AgentStep
  <2>2. ASSUME NEW q \in Slot, PanelAnswer(q) PROVE UNCHANGED tokens
    BY <2>2 DEF PanelAnswer, NewSession, Checked, ConnectFails, RestartFails, Resumed, GivesUp,
                NextAttempt, Attempt, Dropped
  <2>3. ASSUME pagehide PROVE tokens' = tokens
    BY <2>3, Zenon DEF pagehide
  <2>4. ASSUME tick \/ forceRestart \/ installRetry \/ (\E w \in Attach : onclose(w))
        PROVE  UNCHANGED tokens
    BY <2>4 DEF tick, forceRestart, installRetry, onclose
  <2>5. ASSUME NEW s \in Session, Expire(s) PROVE UNCHANGED tokens
    BY <2>5 DEF Expire
  <2> QED
    BY <2>1, <2>2, <2>3, <2>4, <2>5 DEF Next, Daemon
<1> QED
  BY <1>2, <1>3, <1>4, <1>5, <1>6, <1>7, <1>8

LEMMA SpentTokensStep ==
    Shape /\ TokensKept /\ CookieKept /\ SpentTokens /\ Next => SpentTokens'
<1> SUFFICES ASSUME Shape, TokensKept, CookieKept, SpentTokens, Next, NEW w \in DOMAIN tokens',
                    w \notin superseded', socket'[w].state = "closed", socket'[w].of # None,
                    tokens'[w].status = "valid"
             PROVE  FALSE
  BY DEF SpentTokens
<1>0. /\ tokens \in Seq(Token) /\ DOMAIN tokens = 1..Len(tokens) /\ Len(tokens) \in Nat
      /\ Len(tokens) <= MaxAttach /\ MaxAttach \in Nat
  BY LenProperties, TerminalAssumption DEF Shape, ServerShape
<1>1. w \in Attach
  <2>1. tokens' \in Seq(Token) /\ Len(tokens') <= MaxAttach
    BY ServerTypeStep DEF ServerShape
  <2>2. DOMAIN tokens' = 1..Len(tokens') /\ Len(tokens') \in Nat
    BY <2>1, LenProperties
  <2> QED
    BY <1>0, <2>1, <2>2 DEF Attach
<1>2. ASSUME NEW q \in Slot, InPc(q, "granting"), req[q].token = w PROVE FALSE
  <2>1. socket[w].state = "none"
    BY <1>2 DEF TokensKept, HasToken, Spends, InPc
  <2> QED
    BY <1>1, <2>1, SocketFrame
<1>3. CASE w \in DOMAIN tokens /\ tokens[w].status = "valid"
  <2>0. w \notin superseded
    BY SupersededGrows
  <2>1. ~(socket[w].state = "closed" /\ socket[w].of # None)
    BY <1>3, <2>0 DEF SpentTokens
  <2>2. CASE close(w) /\ socket[w].state = "open"
    <3>1. tokens' = DropToken(w)
      BY <1>1, <2>0, <2>2, CloseMoves DEF CookieKept, Shape
    <3>2. tokens'[w].status = "dead"
      BY <1>0, <1>3, <3>1, StatusChanges DEF DropToken, Shape
    <3> QED
      BY <3>2
  <2>3. CASE socket[w].state = "offered"
    BY <1>1, <2>3, SocketFrame DEF TokensKept
  <2> QED
    BY <1>1, <2>1, <2>2, <2>3, SocketFrame
<1> QED
  BY <1>2, <1>3, ValidFrame

-----------------------------------------------------------------------------
IInv == Shape /\ TokensKept /\ SessionsKept /\ CookieKept /\ SpentTokens /\ PanelOrderly

LEMMA InvInit == Init => IInv
<1> SUFFICES ASSUME Init PROVE IInv
  OBVIOUS
<1>1. /\ tokens = << >> /\ req = [q \in Slot |-> Free] /\ socket = [w \in Attach |-> NoSocket]
      /\ panel = "idle" /\ ws = None /\ seen = [w \in Attach |-> "none"]
      /\ byId = [s \in Session |-> None]
  BY DEF Init, TerminalInit
<1>2. PanelOrderly
  BY <1>1 DEF PanelOrderly, OneAtATime, Continuing, Busy, Free, PanelKept, InPc
<1>3. SessionsKept /\ CookieKept
  BY <1>1 DEF SessionsKept, CookieKept, NoSocket
<1>4. SpentTokens
  BY <1>1 DEF SpentTokens
<1> QED
  BY <1>2, <1>3, <1>4, ShapeInit DEF IInv

LEMMA InvStep == IInv /\ [Next]_vars => IInv'
<1> SUFFICES ASSUME IInv, [Next]_vars PROVE IInv'
  OBVIOUS
<1>1. CASE Next
  BY <1>1, ShapeStep, SessionsKeptStep, CookieKeptStep, SpentTokensStep, PanelOrderlyStep DEF IInv
<1>2. CASE UNCHANGED vars
  <2>1. UNCHANGED <<tokens, req, byId, pty, socket, superseded>>
    BY <1>2 DEF vars, terminalVars, serverVars, agentVars, record
  <2>2. UNCHANGED <<panel, current, ws, seen, crossings, strayed>>
    BY <1>2 DEF vars, panelVars, missteps
  <2>3. (Shape /\ TokensKept)'
    BY <1>2, ShapeStep DEF IInv
  <2>4. PanelOrderly'
    BY <2>1, <2>2 DEF IInv, PanelOrderly, Orderly, OneAtATime, PanelKept, Live, Continuing, InPc
  <2>5. SessionsKept' /\ CookieKept' /\ SpentTokens'
    BY <2>1 DEF IInv, SessionsKept, Opened, CookieKept, SpentTokens
  <2> QED
    BY <2>3, <2>4, <2>5 DEF IInv
<1> QED
  BY <1>1, <1>2

\* The token of a socket that was attached and has closed is good for no other,
\* whatever overlaps: the close handler drops the cookie the session has, which is
\* the token this very socket came with unless another socket took the session
\* over before (browse/src/terminal-agent.ts, the close handler and /ws).
THEOREM SpentTokensStaySpent == Spec => []SpentTokens
<1>1. IInv => SpentTokens
  BY DEF IInv
<1> QED
  BY <1>1, InvInit, InvStep, PTL DEF Spec

\* Until one operation of the panel has begun while another was under way, or a
\* late close has cleared the socket of a newer one, a live panel has an open
\* socket of its current session and never two (extension/sidepanel-terminal.js,
\* connect, forceRestart, openReattachWebSocket and their close listeners).
THEOREM LivePanelHasItsSocket == Spec => []LiveHasItsSocket
<1>1. IInv => LiveHasItsSocket
  <2> SUFFICES ASSUME IInv, crossings = 0, ~strayed
               PROVE  /\ panel = "live" => ws # None /\ seen[ws] = "open" /\ tokens[ws].sid = current
                      /\ Cardinality({w \in Attach : seen[w] = "open"}) <= 1
    BY DEF LiveHasItsSocket
  <2>0. PanelKept
    BY DEF IInv, PanelOrderly, Orderly
  <2>1. panel = "live" => ws # None /\ seen[ws] = "open" /\ tokens[ws].sid = current
    BY <2>0 DEF PanelKept, Live
  <2> DEFINE O == {w \in Attach : seen[w] = "open"}
  <2>2. O \subseteq {ws}
    BY <2>0 DEF PanelKept
  <2> HIDE DEF O
  <2>3. Cardinality(O) <= 1
    <3>1. IsFiniteSet({ws}) /\ Cardinality({ws}) = 1
      BY FS_Singleton
    <3>2. Cardinality(O) <= Cardinality({ws})
      BY <2>2, <3>1, FS_Subset
    <3> QED
      BY <3>1, <3>2
  <2> QED
    BY <2>1, <2>3 DEF O
<1> QED
  BY <1>1, InvInit, InvStep, PTL DEF Spec
=============================================================================
