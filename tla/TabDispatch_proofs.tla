-------------------------- MODULE TabDispatch_proofs --------------------------
(* What the tab maps and the pins give for any number of clients, requests  *)
(* and tabs.                                                                *)
EXTENDS TabDispatch, FiniteSetTheorems, WellFoundedInduction, TLAPS

-----------------------------------------------------------------------------
(* The last tab of a set is one of it.                                      *)

Less == {p \in Nat \X Nat : p[1] < p[2]}

LEMMA LessIsWellFounded == IsWellFoundedOn(Less, Nat)
<1>1. OpToRel(<, Nat) = Less
  BY DEF OpToRel, Less
<1> QED
  BY <1>1, NatLessThanWellFounded

LEMMA Greatest ==
    ASSUME NEW N \in Nat, NEW S \in SUBSET (0..N), S # {}
    PROVE  \E t \in S : \A u \in S : u <= t
<1> DEFINE T == {n \in Nat : \E s \in S : n = N - s}
<1>1. T \subseteq Nat
  OBVIOUS
<1>2. \A s \in S : s \in 0..N /\ N - s \in T
  OBVIOUS
<1>3. T # {}
  BY <1>2
<1>4. PICK x \in T : \A y \in T : <<y, x>> \notin Less
  BY <1>1, <1>3, LessIsWellFounded, WFMin
<1>5. PICK t \in S : x = N - t
  BY <1>4
<1>6. ASSUME NEW u \in S PROVE u <= t
  <2>1. <<N - u, N - t>> \notin Less
    BY <1>2, <1>4, <1>5
  <2>2. N - u \in Nat /\ N - t \in Nat
    BY <1>2
  <2>3. ~(N - u < N - t)
    BY <2>1, <2>2 DEF Less
  <2> QED
    BY <1>2, <2>3
<1> QED
  BY <1>6

LEMMA LastIsOne ==
    ASSUME NEW N \in Nat, NEW S \in SUBSET (0..N), S # {}
    PROVE  Last(S) \in S
BY Greatest DEF Last

-----------------------------------------------------------------------------
(* What the steps write.                                                    *)

CmdType == {Idle} \cup Running

\* A request that is answered or begins; one that goes on.
Asks(f, who, pin) == (\E kind \in Kind : Refuse(f, who, kind, pin)) \/ Serve(f, who, pin)
Moves(f) == Resume(f) \/ Filtered(f)

LEMMA BeginRuns ==
    ASSUME TypeOK, NEW who \in Caller, NEW pin \in TabId \cup {NoTab},
           NEW pc \in {"page", "chain", "newpage", "closing"}
    PROVE  /\ Begin(pc, who, pin) \in Running
           /\ \A t \in TabId, b \in BOOLEAN :
                 [Begin(pc, who, pin) EXCEPT !.session = t, !.wasActive = b] \in Running
BY DEF TypeOK, Begin, Running, Saved, Pinned

\* A command that begins: refused, over at once, or under way.
Refusal(f, who, pin) ==
    /\ UNCHANGED cmd /\ active' = Pinned(pin)
    /\ who \in Client \/ "refused" \in Kind \/ Depth(f) > 0
AtOnce(pin) ==
    UNCHANGED cmd /\ \E x \in tabs \cup {Pinned(pin)} : active' = Restored(tabs, Saved(pin), x)
UnderWay(f, who, pin) ==
    /\ active' = Pinned(pin)
    /\ cmd'[f] \in Running
    /\ cmd'[f].who = who /\ cmd'[f].pin = pin /\ cmd'[f].saved = Saved(pin)
    /\ cmd'[f].pc \in {"page", "chain", "newpage", "closing"}
    /\ cmd'[f].pc = "chain" => Depth(f) = 0
    /\ cmd'[f].pc = "closing" =>
          /\ "closetab" \in Kind /\ cmd'[f].session \in tabs
          /\ cmd'[f].wasActive <=> cmd'[f].session = Pinned(pin)
    /\ cmd'[f].pc = "page" =>
          cmd'[f].session = Pinned(pin) /\ Pinned(pin) \in tabs /\ MayUse(who, pin)

LEMMA RefuseWrites ==
    ASSUME TypeOK, NEW f \in Frame, NEW who \in Caller, NEW pin \in TabId \cup {NoTab},
           NEW kind \in Kind, Refuse(f, who, kind, pin)
    PROVE  Refusal(f, who, pin) /\ ~Busy(f) /\ UNCHANGED <<tabs, nextTab, owner, cmd>>
BY DEF Refuse, Refusal, MayUse

LEMMA ServeWrites ==
    ASSUME TypeOK, NEW f \in Frame, NEW who \in Caller, NEW pin \in TabId \cup {NoTab},
           Serve(f, who, pin)
    PROVE  /\ ~Busy(f) /\ UNCHANGED <<tabs, nextTab, owner>>
           /\ cmd' \in [Frame -> CmdType]
           /\ \A g \in Frame \ {f} : cmd'[g] = cmd[g]
           /\ AtOnce(pin) \/ UnderWay(f, who, pin)
<1>t. cmd \in [Frame -> CmdType] /\ tabs \subseteq TabId
  BY BoundAssumption DEF TypeOK, CmdType, TabId
<1>2. ASSUME NEW kind \in Kind, NEW arg \in TabId \cup {NoTab}, Throw(f, who, kind, pin, arg)
      PROVE  AtOnce(pin) /\ ~Busy(f) /\ UNCHANGED <<tabs, nextTab, owner, cmd>>
  BY <1>2 DEF Throw, AtOnce
<1>3. ASSUME NEW arg \in TabId, SwitchTab(f, who, pin, arg)
      PROVE  AtOnce(pin) /\ ~Busy(f) /\ UNCHANGED <<tabs, nextTab, owner, cmd>>
  BY <1>3 DEF SwitchTab, Start, AtOnce
<1>4. ASSUME NEW pc \in {"page", "chain", "newpage"}, NEW kind,
             StartAwaiting(f, who, kind, pc, pin), pc = "page" => kind = "page",
             pc = "chain" => Depth(f) = 0
      PROVE  /\ ~Busy(f) /\ UNCHANGED <<tabs, nextTab, owner>>
             /\ cmd' \in [Frame -> CmdType]
             /\ \A g \in Frame \ {f} : cmd'[g] = cmd[g]
             /\ UnderWay(f, who, pin)
  <2> DEFINE b == Begin(pc, who, pin)
  <2>1. b \in Running
    BY BeginRuns
  <2>2. /\ b.pc = pc /\ b.who = who /\ b.pin = pin /\ b.saved = Saved(pin)
        /\ b.session = Pinned(pin)
    BY DEF Begin
  <2>3. cmd' = [cmd EXCEPT ![f] = b] /\ active' = Pinned(pin) /\ ~Busy(f)
        /\ UNCHANGED <<tabs, nextTab, owner>>
        /\ (pc = "page" => MayUse(who, pin) /\ Pinned(pin) \in tabs)
    BY <1>4 DEF StartAwaiting, Start
  <2> HIDE DEF b
  <2> QED
    BY <1>t, <1>4, <2>1, <2>2, <2>3 DEF UnderWay, CmdType
<1>5. ASSUME NEW arg \in TabId \cup {NoTab}, "closetab" \in Kind, StartClose(f, who, pin, arg)
      PROVE  /\ ~Busy(f) /\ UNCHANGED <<tabs, nextTab, owner>>
             /\ cmd' \in [Frame -> CmdType]
             /\ \A g \in Frame \ {f} : cmd'[g] = cmd[g]
             /\ UnderWay(f, who, pin)
  <2> DEFINE t == IF arg = NoTab THEN Pinned(pin) ELSE arg
             b == [Begin("closing", who, pin) EXCEPT !.session = t, !.wasActive = (t = Pinned(pin))]
  <2>1. t \in tabs /\ t \in TabId
    BY <1>t, <1>5 DEF StartClose
  <2>2. b \in Running
    BY <2>1, BeginRuns
  <2>3. /\ b.pc = "closing" /\ b.who = who /\ b.pin = pin /\ b.saved = Saved(pin)
        /\ b.session = t /\ b.wasActive = (t = Pinned(pin))
    BY DEF Begin
  <2>4. cmd' = [cmd EXCEPT ![f] = b] /\ active' = Pinned(pin) /\ ~Busy(f)
        /\ UNCHANGED <<tabs, nextTab, owner>>
    BY <1>5 DEF StartClose, Start
  <2> HIDE DEF b, t
  <2> QED
    BY <1>t, <1>5, <2>1, <2>2, <2>3, <2>4 DEF UnderWay, CmdType
<1>6. CASE \/ \E kind \in Kind, arg \in TabId \cup {NoTab} : Throw(f, who, kind, pin, arg)
           \/ \E arg \in TabId : SwitchTab(f, who, pin, arg)
  BY <1>t, <1>2, <1>3, <1>6
<1>7. CASE StartPage(f, who, pin) \/ StartChain(f, who, pin) \/ StartNewTab(f, who, pin)
  BY <1>4, <1>7 DEF StartPage, StartChain, StartNewTab
<1>8. CASE "closetab" \in Kind /\ \E arg \in TabId \cup {NoTab} : StartClose(f, who, pin, arg)
  BY <1>5, <1>8
<1> QED
  BY <1>6, <1>7, <1>8 DEF Serve

LEMMA IssueWrites ==
    ASSUME TypeOK, NEW f \in Frame, NEW who \in Caller, NEW pin \in TabId \cup {NoTab},
           Asks(f, who, pin)
    PROVE  /\ ~Busy(f) /\ UNCHANGED <<tabs, nextTab, owner>>
           /\ cmd' \in [Frame -> CmdType]
           /\ \A g \in Frame \ {f} : cmd'[g] = cmd[g]
           /\ Refusal(f, who, pin) \/ AtOnce(pin) \/ UnderWay(f, who, pin)
BY RefuseWrites, ServeWrites DEF Asks, TypeOK, CmdType

\* A command that goes on: at another await, at its end, or left by the early
\* returns of a scoped caller.
GoesOn(f) ==
    /\ cmd'[f] \in Running /\ cmd'[f].pc \in {"goto", "replacing", "closing"}
    /\ cmd'[f].who = cmd[f].who /\ cmd'[f].pin = cmd[f].pin /\ cmd'[f].saved = cmd[f].saved
Ends(f) == cmd'[f] = Idle /\ \E x : active' = Restored(tabs', cmd[f].saved, x)
Leaves(f) == cmd'[f] = Idle /\ cmd[f].who \in Client

LEMMA AtAnother ==
    ASSUME TypeOK, NEW f \in Frame, Busy(f), NEW pc \in {"goto", "replacing"},
           cmd' = [cmd EXCEPT ![f].pc = pc]
    PROVE  /\ GoesOn(f) /\ cmd' \in [Frame -> CmdType] /\ cmd'[f].pc = pc
           /\ \A g \in Frame \ {f} : cmd'[g] = cmd[g]
<1> DEFINE b == [cmd[f] EXCEPT !.pc = pc]
<1>1. cmd[f] \in Running /\ cmd \in [Frame -> CmdType]
  BY DEF TypeOK, Busy, Idle, CmdType
<1>2. /\ b \in Running /\ b.pc = pc /\ b.who = cmd[f].who /\ b.pin = cmd[f].pin
      /\ b.saved = cmd[f].saved
  BY <1>1 DEF Running
<1>3. cmd' = [cmd EXCEPT ![f] = b]
  OBVIOUS
<1> HIDE DEF b
<1> QED
  BY <1>1, <1>2, <1>3 DEF GoesOn, CmdType

LEMMA AtItsEnd ==
    ASSUME TypeOK, NEW f \in Frame, cmd' = [cmd EXCEPT ![f] = Idle]
    PROVE  /\ cmd'[f] = Idle /\ cmd' \in [Frame -> CmdType]
           /\ \A g \in Frame \ {f} : cmd'[g] = cmd[g]
BY DEF TypeOK, CmdType

LEMMA ResumeWrites ==
    ASSUME TypeOK, NEW f \in Frame, Moves(f)
    PROVE  /\ Busy(f) /\ cmd' \in [Frame -> CmdType]
           /\ \A g \in Frame \ {f} : cmd'[g] = cmd[g]
           /\ GoesOn(f) \/ Ends(f) \/ Leaves(f)
           /\ Resume(f) => GoesOn(f) \/ Ends(f) \/ EndsOutside(f)
           /\ cmd'[f].pc \in {"closing", "replacing"} => cmd[f].pc = "closing"
<1>0. \A b : b = Idle => b.pc = "idle"
  BY DEF Idle
<1>1. CASE PageCreated(f) \/ PageFailed(f)
  <2>1. Busy(f) /\ cmd[f].pc \in {"newpage", "replacing"}
    BY <1>1 DEF PageCreated, PageFailed, Busy
  <2>2. CASE cmd' = [cmd EXCEPT ![f] = Idle] /\ (EndsOutside(f) \/ \E x : Done(f, x))
    BY <1>0, <2>1, <2>2, AtItsEnd DEF Ends, Leaves, Done, EndsOutside
  <2>3. CASE cmd' = [cmd EXCEPT ![f].pc = "goto"]
    BY <2>1, <2>3, AtAnother
  <2> QED
    BY <1>1, <2>2, <2>3 DEF PageCreated, PageFailed, Done, EndsOutside
<1>2. CASE CloseEvent(f)
  <2>1. Busy(f) /\ cmd[f] \in Running
    BY <1>2 DEF CloseEvent, Busy, TypeOK, Idle
  <2> QED
    BY <1>2, <2>1 DEF CloseEvent, Closed, GoesOn, TypeOK, CmdType
<1>3. CASE CloseResume(f)
  <2>1. Busy(f) /\ cmd[f].pc = "closing"
    BY <1>3 DEF CloseResume, Busy
  <2>2. CASE cmd' = [cmd EXCEPT ![f] = Idle] /\ \E x : Done(f, x)
    BY <1>0, <2>1, <2>2, AtItsEnd DEF Ends, Done
  <2>3. CASE cmd' = [cmd EXCEPT ![f].pc = "replacing"]
    BY <2>1, <2>3, AtAnother
  <2> QED
    BY <1>3, <2>2, <2>3 DEF CloseResume, Done
<1>4. CASE Finish(f) \/ Filtered(f)
  <2>1. Busy(f) /\ cmd' = [cmd EXCEPT ![f] = Idle]
    BY <1>4 DEF Finish, Filtered, Done, Busy
  <2>2. /\ Finish(f) => Ends(f)
        /\ Filtered(f) => Leaves(f)
    BY <1>4, <2>1, AtItsEnd DEF Finish, Filtered, Done, Ends, Leaves
  <2>3. Resume(f) => Ends(f) \/ EndsOutside(f)
    <3>1. ASSUME Filtered(f), Resume(f) PROVE Finish(f)
      BY <1>0, <2>1, <3>1, AtItsEnd DEF Filtered, Resume, PageCreated, PageFailed, CloseEvent, Closed,
         CloseResume
    <3> QED
      BY <1>4, <2>2, <3>1
  <2> QED
    BY <1>0, <1>4, <2>1, <2>2, <2>3, AtItsEnd
<1> QED
  BY <1>1, <1>2, <1>3, <1>4 DEF Moves, Resume

-----------------------------------------------------------------------------
(* The types, and which frames are under way.                               *)

LEMMA History ==
    ASSUME TypeOK, active' \in TabId \cup {NoTab}, NEW unpinned \in BOOLEAN,
           NEW early \in BOOLEAN, Chosen(unpinned, early)
    PROVE  selected' \in TabId \cup {NoTab} /\ pinLeft' \in BOOLEAN
BY DEF Chosen, TypeOK

\* A chained command runs while its chain does.
Nested == \A r \in Request : Busy(<<r, 1>>) => cmd[<<r, 0>>].pc = "chain"
Served ==
    \A f \in Frame : Busy(f) =>
        f[1] \in scenario.requests /\ cmd[f].who \in scenario.clients \cup {Root}
Closing(f) == cmd[f].pc \in {"closing", "replacing"}
ClosesByKind == \A f \in Frame : Closing(f) => "closetab" \in Kind

FrameInv == TypeOK /\ Nested /\ Served /\ ClosesByKind

\* The ways a step is taken.
Called(r, who, pin) == Issue(<<r, 0>>, who, pin, pin = NoTab)
Away(r) == \E t \in TabId : PageCloses(t) /\ Chosen(\E q \in r : Unpinned(q), FALSE)

LEMMA StepCases ==
    ASSUME FrameInv, Next
    PROVE  /\ UNCHANGED scenario
           /\ \/ \E r \in scenario.requests :
                   \/ \E who \in scenario.clients \cup {Root}, pin \in TabId \cup {NoTab} :
                         Called(r, who, pin)
                   \/ IssueChained(r)
                   \/ \E depth \in {0, 1} : GoOn(<<r, depth>>, Unpinned(r))
              \/ Away(scenario.requests)
BY DEF Next, Called, Away

\* What a step is, apart from the histories.
LEMMA AsksOrMoves ==
    ASSUME NEW f, NEW unpinned
    PROVE  /\ \A who, pin : Issue(f, who, pin, unpinned) => Asks(f, who, pin)
           /\ GoOn(f, unpinned) => Moves(f)
BY DEF Issue, Asks, GoOn, Moves

LEMMA Callers ==
    ASSUME FrameInv, NEW r \in scenario.requests
    PROVE  /\ r \in Request /\ <<r, 0>> \in Frame /\ <<r, 1>> \in Frame
           /\ scenario.clients \cup {Root} \subseteq Caller
           /\ cmd[<<r, 0>>].pc = "chain" => cmd[<<r, 0>>].who \in scenario.clients \cup {Root}
BY ScenarioAssumption DEF FrameInv, TypeOK, Frame, Caller, Served, Busy

LEMMA LastTypes ==
    ASSUME TypeOK, NEW t
    PROVE  Last(tabs \ {t}) \in TabId \cup {NoTab}
<1>t. tabs \ {t} \subseteq 0..MaxTab /\ tabs \subseteq TabId /\ MaxTab \in Nat
  <2>1. tabs \subseteq 1..(nextTab - 1) /\ nextTab \in 1..(MaxTab + 1) /\ MaxTab \in Nat
    BY BoundAssumption DEF TypeOK
  <2>2. 1..(nextTab - 1) \subseteq TabId /\ TabId \subseteq 0..MaxTab
    BY <2>1 DEF TabId
  <2> QED
    BY <2>1, <2>2
<1>1. CASE tabs \ {t} = {}
  BY <1>1 DEF Last
<1>2. CASE tabs \ {t} # {}
  BY <1>t, <1>2, LastIsOne
<1> QED
  BY <1>1, <1>2

LEMMA ClosedTypes ==
    ASSUME TypeOK, NEW t, Closed(t)
    PROVE  /\ tabs' \subseteq 1..(nextTab' - 1) /\ active' \in TabId \cup {NoTab}
           /\ nextTab' = nextTab /\ owner' = owner /\ cmd' = cmd
BY LastTypes DEF Closed, TypeOK

LEMMA ResumeTypes ==
    ASSUME TypeOK, NEW f \in Frame, Moves(f)
    PROVE  /\ tabs' \subseteq 1..(nextTab' - 1) /\ active' \in TabId \cup {NoTab}
           /\ nextTab' \in 1..(MaxTab + 1) /\ owner' \in [TabId -> Client \cup {None}]
<1>t. /\ cmd[f] \in CmdType /\ tabs \subseteq 1..(nextTab - 1) /\ nextTab \in 1..(MaxTab + 1)
      /\ tabs \subseteq TabId /\ active \in TabId \cup {NoTab} /\ MaxTab \in Nat
      /\ owner \in [TabId -> Client \cup {None}]
  BY BoundAssumption DEF TypeOK, CmdType, TabId
<1>r. \A open, x : x \in TabId \cup {NoTab} /\ open \subseteq TabId
          => \A s : Restored(open, s, x) \in TabId \cup {NoTab}
  BY DEF Restored
<1>l. \A t : Last(tabs \ {t}) \in TabId \cup {NoTab}
  BY LastTypes
<1>1. CASE PageCreated(f)
  <2>1. /\ nextTab \in TabId /\ nextTab' = nextTab + 1 /\ tabs' = tabs \cup {nextTab}
        /\ tabs' \subseteq TabId
    BY <1>1, <1>t DEF PageCreated, TabId
  <2>2. active' \in TabId \cup {NoTab}
    BY <1>1, <1>r, <2>1 DEF PageCreated, Done
  <2>3. owner' \in [TabId -> Client \cup {None}]
    BY <1>1, <1>t, <2>1 DEF PageCreated, Owned
  <2> QED
    BY <1>t, <2>1, <2>2, <2>3 DEF TabId
<1>2. CASE PageFailed(f) \/ Finish(f) \/ Filtered(f)
  <2>1. UNCHANGED <<tabs, nextTab, owner>>
    BY <1>2 DEF PageFailed, Finish, Filtered
  <2>2. active' = active \/ active' = Restored(tabs', cmd[f].saved, active)
    BY <1>2 DEF PageFailed, Finish, Filtered, Done
  <2> QED
    BY <1>t, <1>r, <2>1, <2>2
<1>3. CASE CloseEvent(f)
  BY <1>3, <1>t, ClosedTypes DEF CloseEvent
<1>4. CASE CloseResume(f)
  <2>1. /\ tabs' = tabs \ {cmd[f].session} /\ UNCHANGED nextTab
        /\ owner' = [owner EXCEPT ![cmd[f].session] = None]
    BY <1>4 DEF CloseResume
  <2>2. active' \in TabId \cup {NoTab}
    <3>1. tabs' \subseteq TabId
      BY <1>t, <2>1
    <3>2. UNCHANGED active
          \/ \E x \in {Last(tabs \ {cmd[f].session}), active} :
                active' = Restored(tabs', cmd[f].saved, x)
      BY <1>4 DEF CloseResume, Done
    <3> QED
      BY <1>t, <1>l, <1>r, <3>1, <3>2
  <2> QED
    BY <1>t, <2>1, <2>2
<1> QED
  BY <1>1, <1>2, <1>3, <1>4 DEF Moves, Resume

LEMMA FrameNext == FrameInv /\ [Next]_vars => FrameInv'
<1> SUFFICES ASSUME FrameInv, [Next]_vars PROVE FrameInv'
  OBVIOUS
<1>0. TypeOK
  BY DEF FrameInv
<1>1. CASE UNCHANGED vars
  BY <1>1 DEF vars, FrameInv, TypeOK, Nested, Served, Busy, Closing, ClosesByKind, Kind
<1>2. ASSUME NEW r \in scenario.requests, UNCHANGED scenario, NEW depth \in {0, 1},
             NEW f, f = <<r, depth>>,
             NEW who \in scenario.clients \cup {Root}, NEW pin \in TabId \cup {NoTab},
             NEW unpinned \in BOOLEAN, Issue(f, who, pin, unpinned),
             depth = 0 \/ cmd[<<r, 0>>].pc = "chain"
      PROVE  FrameInv'
  <2>1. f \in Frame /\ who \in Caller /\ f[1] = r /\ r \in Request /\ Asks(f, who, pin)
    BY <1>2, Callers, AsksOrMoves DEF Frame
  <2>2. /\ ~Busy(f) /\ UNCHANGED <<tabs, nextTab, owner>>
        /\ cmd' \in [Frame -> CmdType]
        /\ \A g \in Frame \ {f} : cmd'[g] = cmd[g]
        /\ Refusal(f, who, pin) \/ AtOnce(pin) \/ UnderWay(f, who, pin)
    BY <1>0, <1>2, <2>1, IssueWrites
  <2>3. active' \in TabId \cup {NoTab}
    <3>1. tabs \subseteq TabId /\ active \in TabId \cup {NoTab}
      BY <1>0, BoundAssumption DEF TypeOK, TabId
    <3>2. Pinned(pin) \in TabId \cup {NoTab}
      BY <3>1 DEF Pinned
    <3> QED
      BY <2>2, <3>1, <3>2 DEF Refusal, AtOnce, UnderWay, Restored
  <2>h. selected' \in TabId \cup {NoTab} /\ pinLeft' \in BOOLEAN
    BY <1>0, <1>2, <2>3, History DEF Issue
  <2>4. TypeOK'
    BY <1>0, <1>2, <2>2, <2>3, <2>h DEF TypeOK, CmdType
  <2>5. cmd'[f] = cmd[f] \/ UnderWay(f, who, pin)
    BY <2>2 DEF Refusal, AtOnce
  <2>6. Nested'
    <3>1. ASSUME NEW q \in Request, cmd'[<<q, 1>>].pc # "idle"
          PROVE  cmd'[<<q, 0>>].pc = "chain"
      <4>1. <<q, 0>> \in Frame /\ <<q, 1>> \in Frame
        BY DEF Frame
      <4>2. CASE q # r
        BY <1>2, <2>2, <3>1, <4>1, <4>2 DEF FrameInv, Nested, Busy
      <4>3. CASE q = r /\ depth = 1
        BY <1>2, <2>2, <4>1, <4>3
      <4>4. CASE q = r /\ depth = 0
        BY <1>2, <2>2, <3>1, <4>1, <4>4 DEF FrameInv, Nested, Busy
      <4> QED
        BY <4>2, <4>3, <4>4
    <3> QED
      BY <3>1 DEF Nested, Busy
  <2>7. Served'
    BY <1>2, <2>1, <2>2, <2>5 DEF FrameInv, Served, Busy, UnderWay
  <2>8. ClosesByKind'
    BY <1>2, <2>1, <2>2, <2>5 DEF FrameInv, ClosesByKind, Closing, UnderWay, Kind
  <2> QED
    BY <2>4, <2>6, <2>7, <2>8 DEF FrameInv
<1>3. ASSUME NEW r \in scenario.requests, UNCHANGED scenario, NEW depth \in {0, 1},
             NEW f, f = <<r, depth>>, NEW unpinned \in BOOLEAN, GoOn(f, unpinned)
      PROVE  FrameInv'
  <2>1. f \in Frame /\ f[1] = r /\ Moves(f)
    BY <1>3, Callers, AsksOrMoves DEF Frame
  <2>2. /\ Busy(f) /\ cmd' \in [Frame -> CmdType]
        /\ \A g \in Frame \ {f} : cmd'[g] = cmd[g]
        /\ GoesOn(f) \/ Ends(f) \/ Leaves(f)
        /\ cmd'[f].pc \in {"closing", "replacing"} => cmd[f].pc = "closing"
    BY <1>0, <1>3, <2>1, ResumeWrites
  <2>h. selected' \in TabId \cup {NoTab} /\ pinLeft' \in BOOLEAN
    <3>1. active' \in TabId \cup {NoTab}
      BY <1>0, <2>1, ResumeTypes
    <3>2. (EndsOutside(f) /\ cmd[f].pin # NoTab) \in BOOLEAN /\ (cmd[f].pin # NoTab) \in BOOLEAN
      OBVIOUS
    <3> QED
      BY <1>0, <1>3, <3>1, <3>2, History DEF GoOn
  <2>4. TypeOK'
    BY <1>0, <1>3, <2>1, <2>2, <2>h, ResumeTypes DEF TypeOK, CmdType
  <2>5. Idle.pc = "idle"
    BY DEF Idle
  <2>6. Nested'
    <3>1. ASSUME NEW q \in Request, cmd'[<<q, 1>>].pc # "idle"
          PROVE  cmd'[<<q, 0>>].pc = "chain"
      <4>1. <<q, 0>> \in Frame /\ <<q, 1>> \in Frame
        BY DEF Frame
      <4>2. CASE q # r
        BY <1>3, <2>2, <3>1, <4>1, <4>2 DEF FrameInv, Nested, Busy
      <4>3. CASE q = r /\ depth = 1
        BY <1>3, <2>2, <4>1, <4>3 DEF FrameInv, Nested
      \* The chain itself goes on or ends only when what it runs is over.
      <4>4. CASE q = r /\ depth = 0
        <5>1. cmd[<<q, 0>>].pc = "chain" /\ Busy(<<q, 1>>)
          BY <1>3, <2>2, <3>1, <4>1, <4>4 DEF FrameInv, Nested, Busy
        <5> QED
          BY <2>1, <1>3, <4>4, <5>1 DEF Moves, Resume, PageCreated, PageFailed, CloseEvent,
             CloseResume, Finish, Filtered
      <4> QED
        BY <4>2, <4>3, <4>4
    <3> QED
      BY <3>1 DEF Nested, Busy
  <2>7. Served'
    BY <1>3, <2>1, <2>2, <2>5 DEF FrameInv, Served, Busy, GoesOn, Ends, Leaves
  <2>8. ClosesByKind'
    BY <1>3, <2>1, <2>2, <2>5 DEF FrameInv, ClosesByKind, Closing, Kind
  <2> QED
    BY <2>4, <2>6, <2>7, <2>8 DEF FrameInv
<1>4. ASSUME NEW t \in TabId, PageCloses(t), NEW unpinned \in BOOLEAN, Chosen(unpinned, FALSE),
             UNCHANGED scenario
      PROVE  FrameInv'
  <2>1. /\ tabs' \subseteq 1..(nextTab' - 1) /\ active' \in TabId \cup {NoTab}
        /\ nextTab' = nextTab /\ owner' = owner /\ cmd' = cmd
    BY <1>0, <1>4, ClosedTypes DEF PageCloses
  <2>2. TypeOK'
    BY <1>0, <1>4, <2>1, History DEF TypeOK
  <2> QED
    BY <1>4, <2>1, <2>2 DEF FrameInv, Nested, Served, ClosesByKind, Closing, Busy, Kind
<1>5. CASE Next
  <2>1. UNCHANGED scenario
    BY <1>5, StepCases
  <2>2. CASE \E r \in scenario.requests :
              \/ \E who \in scenario.clients \cup {Root}, pin \in TabId \cup {NoTab} :
                    Called(r, who, pin)
              \/ IssueChained(r)
              \/ \E depth \in {0, 1} : GoOn(<<r, depth>>, Unpinned(r))
    <3>1. PICK r \in scenario.requests :
              \/ \E who \in scenario.clients \cup {Root}, pin \in TabId \cup {NoTab} :
                    Called(r, who, pin)
              \/ IssueChained(r)
              \/ \E depth \in {0, 1} : GoOn(<<r, depth>>, Unpinned(r))
      BY <2>2
    <3>2. Unpinned(r) \in BOOLEAN
      BY DEF Unpinned
    <3>3. ASSUME NEW who \in scenario.clients \cup {Root}, NEW pin \in TabId \cup {NoTab},
                 Called(r, who, pin)
          PROVE  FrameInv'
      BY <1>2, <2>1, <3>3 DEF Called
    <3>4. CASE IssueChained(r)
      BY <1>2, <2>1, <3>2, <3>4, Callers DEF IssueChained
    <3>5. ASSUME NEW depth \in {0, 1}, GoOn(<<r, depth>>, Unpinned(r))
          PROVE  FrameInv'
      BY <1>3, <2>1, <3>2, <3>5
    <3> QED
      BY <3>1, <3>3, <3>4, <3>5
  <2>3. CASE Away(scenario.requests)
    BY <1>4, <2>1, <2>3 DEF Away
  <2> QED
    BY <1>5, <2>2, <2>3, StepCases
<1> QED
  BY <1>1, <1>5

LEMMA FrameInit == Init => FrameInv
<1> SUFFICES ASSUME Init PROVE FrameInv
  OBVIOUS
<1>1. \A f \in Frame : cmd[f] = Idle /\ cmd[f].pc = "idle"
  BY DEF Init, Idle
<1>2. TypeOK
  <2>1. pinLeft \in BOOLEAN
    BY DEF Init
  <2>2. 1 \in TabId /\ tabs \subseteq 1..(nextTab - 1) /\ nextTab \in 1..(MaxTab + 1)
    BY BoundAssumption DEF Init, TabId
  <2>3. owner \in [TabId -> Client \cup {None}] /\ cmd \in [Frame -> {Idle} \cup Running]
    BY DEF Init
  <2> QED
    BY <2>1, <2>2, <2>3 DEF Init, TypeOK
<1>3. \A r \in Request : <<r, 1>> \in Frame
  BY DEF Frame
<1> QED
  BY <1>1, <1>2, <1>3 DEF FrameInv, Nested, Served, ClosesByKind, Closing, Busy

-----------------------------------------------------------------------------
(* Where commands do not overlap, and pages close by closetab only.          *)

\* The frame whose turn it is.
Acts(f) ==
    /\ f[1] \in scenario.requests
    /\ Busy(f) /\ cmd[f].pc = "chain" => ~Busy(<<f[1], 1>>)
    /\ ~Busy(f) => f[2] = 0 \/ cmd[<<f[1], 0>>].pc = "chain"

LEMMA StepsAct ==
    ASSUME FrameInv, Next
    PROVE  \/ \E f \in Frame :
                 /\ Acts(f)
                 /\ \/ \E who \in Caller, pin \in TabId \cup {NoTab} : Asks(f, who, pin)
                    \/ Moves(f)
           \/ \E t \in TabId : PageCloses(t)
<1> SUFFICES ASSUME ~\E t \in TabId : PageCloses(t)
             PROVE  \E f \in Frame :
                       /\ Acts(f)
                       /\ \/ \E who \in Caller, pin \in TabId \cup {NoTab} : Asks(f, who, pin)
                          \/ Moves(f)
  OBVIOUS
<1>1. PICK r \in scenario.requests :
         \/ \E f : \E who \in scenario.clients \cup {Root}, pin \in TabId \cup {NoTab} :
               f = <<r, 0>> /\ Asks(f, who, pin)
         \/ \E f : /\ f = <<r, 1>> /\ Asks(f, cmd[<<r, 0>>].who, NoTab)
                   /\ cmd[<<r, 0>>].pc = "chain"
         \/ \E f : \E depth \in {0, 1} : f = <<r, depth>> /\ Moves(f)
  <2>1. \A r, who, pin : Called(r, who, pin) => Asks(<<r, 0>>, who, pin)
    BY AsksOrMoves DEF Called
  <2>2. \A r : IssueChained(r) => /\ cmd[<<r, 0>>].pc = "chain"
                                  /\ Asks(<<r, 1>>, cmd[<<r, 0>>].who, NoTab)
    BY AsksOrMoves DEF IssueChained
  <2>3. \A r, depth : GoOn(<<r, depth>>, Unpinned(r)) => Moves(<<r, depth>>)
    BY AsksOrMoves
  <2>4. ~Away(scenario.requests)
    BY DEF Away
  <2> QED
    BY <2>1, <2>2, <2>3, <2>4, StepCases
<1>r. r \in Request
  BY Callers
<1>t. TypeOK /\ NoTab \in TabId \cup {NoTab}
  BY DEF FrameInv
<1>2. ASSUME NEW f, NEW who \in scenario.clients \cup {Root}, NEW pin \in TabId \cup {NoTab},
             f = <<r, 0>>, Asks(f, who, pin)
      PROVE  f \in Frame /\ Acts(f) /\ who \in Caller
  <2>1. f \in Frame /\ f[1] = r /\ f[2] = 0 /\ who \in Caller
    BY <1>2, <1>r, Callers DEF Frame
  <2>2. ~Busy(f)
    BY <1>2, <1>t, <2>1, IssueWrites
  <2> QED
    BY <2>1, <2>2 DEF Acts
<1>3. ASSUME NEW f, f = <<r, 1>>, Asks(f, cmd[<<r, 0>>].who, NoTab),
             cmd[<<r, 0>>].pc = "chain"
      PROVE  f \in Frame /\ Acts(f) /\ cmd[<<r, 0>>].who \in Caller
  <2>1. f \in Frame /\ f[1] = r /\ cmd[<<r, 0>>].who \in Caller
    BY <1>3, <1>r, Callers DEF Frame
  <2>2. ~Busy(f)
    BY <1>3, <1>t, <2>1, IssueWrites
  <2> QED
    BY <1>3, <2>1, <2>2 DEF Acts
<1>4. ASSUME NEW f, NEW depth \in {0, 1}, f = <<r, depth>>, Moves(f)
      PROVE  f \in Frame /\ Acts(f)
  <2>1. f \in Frame /\ f[1] = r
    BY <1>4, <1>r DEF Frame
  <2>2. Busy(f)
    BY <1>4, <1>t, <2>1, ResumeWrites
  <2>3. cmd[f].pc = "chain" => ~Busy(<<f[1], 1>>)
    BY <1>4 DEF Moves, Resume, PageCreated, PageFailed, CloseEvent, CloseResume, Finish, Filtered
  <2> QED
    BY <2>1, <2>2, <2>3 DEF Acts
<1> QED
  BY <1>1, <1>t, <1>2, <1>3, <1>4

LEMMA NobodyElseCloses ==
    ASSUME FrameInv, Single, NEW f \in Frame, Acts(f), NEW g \in Frame \ {f}
    PROVE  ~Closing(g)
<1> SUFFICES ASSUME Closing(g) PROVE FALSE
  OBVIOUS
<1>1. Busy(g) /\ cmd[g].pc # "chain" /\ "closetab" \in Kind
  BY DEF Closing, Busy, FrameInv, ClosesByKind
<1>2. scenario \in Scenario /\ scenario.requests \subseteq Request /\ IsFiniteSet(Request)
  BY ScenarioAssumption DEF FrameInv, TypeOK
<1>3. PICK r : scenario.requests = {r}
  <2>1. IsFiniteSet(scenario.requests) /\ Cardinality(scenario.requests) = 1
    BY <1>2, FS_Subset DEF Single
  <2> QED
    BY <2>1, FS_Singleton
<1>4. f[1] = r /\ g[1] = r /\ r \in Request
  BY <1>1, <1>2, <1>3 DEF Acts, FrameInv, Served
<1>5. \/ f = <<r, 0>> /\ g = <<r, 1>> /\ f[2] = 0
      \/ f = <<r, 1>> /\ g = <<r, 0>> /\ f[2] = 1
  BY <1>4 DEF Frame
<1>6. CASE f = <<r, 0>> /\ g = <<r, 1>>
  BY <1>1, <1>4, <1>6 DEF Acts, FrameInv, Nested, Busy
<1>7. CASE f = <<r, 1>> /\ g = <<r, 0>> /\ f[2] = 1
  BY <1>1, <1>4, <1>7 DEF Acts, FrameInv, Nested, Busy
<1> QED
  BY <1>5, <1>6, <1>7

\* The active tab is open, but where the last tab is closed and is replaced.
IsOpen == active \in tabs \/ (tabs = {} /\ scenario.pagesFail)
OpenTab ==
    Single /\ ~scenario.pagesClose =>
       /\ (\A f \in Frame : ~Closing(f)) => IsOpen
       /\ \A f \in Frame : cmd[f].pc = "closing" =>
             IF cmd[f].session \in tabs
             THEN active \in tabs /\ (cmd[f].wasActive <=> active = cmd[f].session)
             ELSE active \in tabs \/ (tabs = {} /\ cmd[f].wasActive)
       /\ \A f \in Frame : cmd[f].pc = "replacing" => tabs = {}

LEMMA OpenTabStep ==
    ASSUME FrameInv, OpenTab, Next
    PROVE  OpenTab'
<1>u. UNCHANGED scenario
  BY StepCases
<1> SUFFICES ASSUME Single, ~scenario.pagesClose PROVE OpenTab'
  BY <1>u DEF OpenTab, Single
<1>t. TypeOK /\ tabs \subseteq TabId /\ Idle.pc = "idle" /\ MaxTab \in Nat
  <2>1. tabs \subseteq 1..(nextTab - 1) /\ nextTab \in 1..(MaxTab + 1) /\ MaxTab \in Nat
    BY BoundAssumption DEF FrameInv, TypeOK
  <2> QED
    <3>1. tabs \subseteq TabId
      BY <2>1 DEF TabId
    <3>2. Idle.pc = "idle"
      BY DEF Idle
    <3> QED
      BY <2>1, <3>1, <3>2 DEF FrameInv
<1>0. PICK f \in Frame :
         /\ Acts(f)
         /\ \/ \E who \in Caller, pin \in TabId \cup {NoTab} : Asks(f, who, pin)
            \/ Moves(f)
  BY StepsAct DEF PageCloses
<1>1. \A g \in Frame \ {f} : ~Closing(g)
  BY <1>0, NobodyElseCloses
<1>l. ASSUME NEW t, tabs \ {t} # {} PROVE Last(tabs \ {t}) \in tabs \ {t}
  <2>1. TabId \subseteq 0..MaxTab
    BY <1>t DEF TabId
  <2> QED
    BY <1>t, <1>l, <2>1, LastIsOne
\* What is left to show of the frame that acts.
<1>s. ASSUME \A g \in Frame \ {f} : cmd'[g] = cmd[g],
             ~Closing(f)' => IsOpen',
             cmd'[f].pc = "replacing" => tabs' = {},
             cmd'[f].pc = "closing" =>
                IF cmd'[f].session \in tabs'
                THEN active' \in tabs' /\ (cmd'[f].wasActive <=> active' = cmd'[f].session)
                ELSE active' \in tabs' \/ (tabs' = {} /\ cmd'[f].wasActive)
      PROVE  OpenTab'
  BY <1>1, <1>s DEF OpenTab, Closing
<1>2. ASSUME NEW who \in Caller, NEW pin \in TabId \cup {NoTab}, Asks(f, who, pin)
      PROVE  OpenTab'
  <2>1. /\ ~Busy(f) /\ UNCHANGED tabs /\ \A g \in Frame \ {f} : cmd'[g] = cmd[g]
        /\ Refusal(f, who, pin) \/ AtOnce(pin) \/ UnderWay(f, who, pin)
    BY <1>t, <1>2, IssueWrites
  <2>2. IsOpen /\ (tabs # {} => active \in tabs /\ Pinned(pin) \in tabs)
    BY <1>1, <2>1 DEF OpenTab, IsOpen, Closing, Busy, Pinned
  <2>3. IsOpen' /\ (tabs # {} => active' \in tabs)
    BY <1>u, <2>1, <2>2 DEF Refusal, AtOnce, UnderWay, Restored, IsOpen
  <2>4. cmd'[f] = cmd[f] \/ UnderWay(f, who, pin)
    BY <2>1 DEF Refusal, AtOnce
  <2> QED
    BY <1>s, <2>1, <2>2, <2>3, <2>4 DEF UnderWay, Busy, Closing
<1>3. CASE PageCreated(f)
  <2>1. cmd[f].pc \in {"newpage", "replacing"} /\ tabs' = tabs \cup {nextTab}
    BY <1>3 DEF PageCreated
  <2>2. active' \in tabs'
    BY <1>3, <2>1 DEF PageCreated, Done, Restored
  <2>3. /\ \A g \in Frame \ {f} : cmd'[g] = cmd[g]
        /\ cmd'[f].pc \notin {"closing", "replacing"}
    BY <1>t, <1>3, <2>1, ResumeWrites DEF Moves, Resume
  <2> QED
    BY <1>s, <2>2, <2>3 DEF IsOpen
<1>4. CASE PageFailed(f) \/ Finish(f) \/ Filtered(f)
  <2>1. /\ UNCHANGED tabs /\ cmd[f].pc # "closing"
        /\ Closing(f) => cmd[f].pc = "replacing" /\ scenario.pagesFail
    BY <1>4 DEF PageFailed, Finish, Filtered, Closing
  <2>2. IsOpen
    BY <1>1, <2>1 DEF OpenTab, IsOpen
  <2>3. IsOpen'
    BY <1>u, <1>4, <2>1, <2>2 DEF PageFailed, Finish, Filtered, Done, Restored, IsOpen
  <2>4. (\A g \in Frame \ {f} : cmd'[g] = cmd[g]) /\ ~Closing(f)'
    BY <1>t, <1>4, <2>1, ResumeWrites DEF Moves, Resume, Closing
  <2> QED
    BY <1>s, <2>3, <2>4 DEF Closing
<1>5. CASE CloseEvent(f)
  <2>1. /\ cmd[f].pc = "closing" /\ cmd[f].session \in tabs /\ UNCHANGED cmd
        /\ tabs' = tabs \ {cmd[f].session}
        /\ active' = IF active = cmd[f].session THEN Last(tabs') ELSE active
    BY <1>5 DEF CloseEvent, Closed
  <2>2. active \in tabs /\ (cmd[f].wasActive <=> active = cmd[f].session)
    BY <2>1 DEF OpenTab
  <2>3. active' \in tabs' \/ (tabs' = {} /\ cmd[f].wasActive)
    <3>1. CASE active # cmd[f].session
      BY <2>1, <2>2, <3>1
    <3>2. CASE active = cmd[f].session /\ tabs \ {cmd[f].session} = {}
      BY <2>1, <2>2, <3>2
    <3>3. CASE active = cmd[f].session /\ tabs \ {cmd[f].session} # {}
      BY <1>l, <2>1, <3>3
    <3> QED
      BY <3>1, <3>2, <3>3
  <2> QED
    BY <1>s, <2>1, <2>3 DEF Closing
<1>6. CASE CloseResume(f)
  <2> DEFINE t == cmd[f].session
             next == IF WasActive(f) /\ active \notin tabs \ {t}
                     THEN Last(tabs \ {t}) ELSE active
  <2>1. cmd[f].pc = "closing" /\ tabs' = tabs \ {t}
    BY <1>6 DEF CloseResume
  <2>2. \A g \in Frame \ {f} : cmd'[g] = cmd[g]
    BY <1>t, <1>6, ResumeWrites DEF Moves, Resume
  <2>3. CASE WasActive(f) /\ tabs \ {t} = {}
    <3>1. cmd' = [cmd EXCEPT ![f].pc = "replacing"]
      BY <1>6, <2>3 DEF CloseResume
    <3>2. cmd'[f].pc = "replacing"
      BY <1>t, <2>1, <3>1, AtAnother DEF Busy
    <3> QED
      BY <1>s, <2>1, <2>2, <2>3, <3>2 DEF Closing
  <2>4. CASE ~(WasActive(f) /\ tabs \ {t} = {})
    <3>1. Done(f, next)
      BY <1>6, <2>4 DEF CloseResume
    <3>2. next \in tabs \ {t}
      BY <1>l, <2>1, <2>4 DEF OpenTab, WasActive
    <3>3. active' \in tabs' /\ cmd'[f] = Idle
      BY <1>t, <2>1, <3>1, <3>2, AtItsEnd DEF Done, Restored
    <3> QED
      BY <1>s, <1>t, <2>2, <3>3 DEF IsOpen
  <2> QED
    BY <2>3, <2>4
<1> QED
  BY <1>0, <1>2, <1>3, <1>4, <1>5, <1>6 DEF Moves, Resume

-----------------------------------------------------------------------------
(* What an own-only client works on.                                         *)

\* An owned tab has been handed out, and so have a page's session and its pin.
Handed == \A t \in TabId : owner[t] \in Client => t < nextTab
Keeps(f) ==
    cmd[f].pc = "page" /\ cmd[f].who \in Client =>
       /\ cmd[f].session \in 1..(nextTab - 1)
       /\ IF cmd[f].pin \in {NoTab, cmd[f].session}
          THEN owner[cmd[f].session] = cmd[f].who \/ cmd[f].session \notin tabs
          ELSE cmd[f].pin \in 1..(nextTab - 1) /\ cmd[f].pin \notin tabs
KeepsToItsTabs == Handed /\ \A f \in Frame : Keeps(f)

LEMMA KeepsStep ==
    ASSUME FrameInv, KeepsToItsTabs, Next
    PROVE  KeepsToItsTabs'
<1>t. /\ TypeOK /\ None \notin Client /\ nextTab \in Nat /\ tabs \subseteq 1..(nextTab - 1)
      /\ owner \in [TabId -> Client \cup {None}] /\ cmd \in [Frame -> CmdType]
      /\ 1..(nextTab - 1) \subseteq TabId /\ active \in TabId \cup {NoTab}
  BY RootAssumption, BoundAssumption DEF FrameInv, TypeOK, CmdType, TabId
\* A command that goes on keeps to its tabs while none is opened over them.
<1>o. ASSUME NEW g \in Frame, cmd'[g] = cmd[g], nextTab <= nextTab',
             nextTab' \in Nat,
             \A t \in 1..(nextTab - 1) :
                /\ t \in tabs' => t \in tabs
                /\ owner'[t] = owner[t] \/ t \notin tabs'
      PROVE  Keeps(g)'
  BY <1>o, <1>t DEF KeepsToItsTabs, Keeps
<1>p. ASSUME NEW g \in Frame, cmd'[g].pc # "page" PROVE Keeps(g)'
  BY <1>p DEF Keeps
<1>1. ASSUME NEW f \in Frame, NEW who \in Caller, NEW pin \in TabId \cup {NoTab}, Asks(f, who, pin)
      PROVE  KeepsToItsTabs'
  <2>1. /\ ~Busy(f) /\ UNCHANGED <<tabs, nextTab, owner>>
        /\ \A g \in Frame \ {f} : cmd'[g] = cmd[g]
        /\ Refusal(f, who, pin) \/ AtOnce(pin) \/ UnderWay(f, who, pin)
    BY <1>t, <1>1, IssueWrites
  <2>2. Handed'
    BY <2>1 DEF KeepsToItsTabs, Handed
  <2>3. \A g \in Frame \ {f} : Keeps(g)'
    BY <1>o, <1>t, <2>1
  <2>4. CASE cmd'[f] = cmd[f]
    BY <1>o, <1>t, <2>1, <2>2, <2>3, <2>4 DEF KeepsToItsTabs
  <2>5. CASE UnderWay(f, who, pin) /\ cmd'[f].pc = "page" /\ who \in Client
    <3>1. /\ cmd'[f].session = Pinned(pin) /\ Pinned(pin) \in tabs /\ MayUse(who, pin)
          /\ cmd'[f].pin = pin /\ cmd'[f].who = who
      BY <2>5 DEF UnderWay
    <3>2. CASE pin = NoTab \/ pin = Pinned(pin)
      <4>1. owner[Pinned(pin)] = who
        BY <1>t, <2>5, <3>1, <3>2 DEF MayUse, Pinned, NoTab
      <4> QED
        BY <1>t, <2>1, <2>2, <2>3, <3>1, <3>2, <4>1 DEF KeepsToItsTabs, Keeps
    <3>3. CASE pin # NoTab /\ pin # Pinned(pin)
      <4>1. pin \notin tabs /\ owner[pin] = who /\ pin \in TabId
        BY <2>5, <3>1, <3>3 DEF MayUse, Pinned
      <4>2. pin < nextTab /\ pin \in 1..(nextTab - 1)
        BY <1>t, <2>5, <4>1 DEF KeepsToItsTabs, Handed, TabId
      <4> QED
        BY <1>t, <2>1, <2>2, <2>3, <3>1, <3>3, <4>1, <4>2 DEF KeepsToItsTabs, Keeps
    <3> QED
      BY <3>2, <3>3
  <2>6. CASE UnderWay(f, who, pin) /\ ~(cmd'[f].pc = "page" /\ who \in Client)
    BY <2>2, <2>3, <2>6 DEF KeepsToItsTabs, Keeps, UnderWay
  <2> QED
    BY <2>1, <2>4, <2>5, <2>6 DEF Refusal, AtOnce
<1>2. ASSUME NEW f \in Frame, Moves(f)
      PROVE  KeepsToItsTabs'
  <2>1. /\ \A g \in Frame \ {f} : cmd'[g] = cmd[g]
        /\ cmd'[f].pc # "page"
    <3>1. Idle.pc = "idle"
      BY DEF Idle
    <3> QED
      BY <1>t, <1>2, <3>1, ResumeWrites DEF GoesOn, Ends, Leaves
  <2>2. CASE PageCreated(f)
    <3>1. /\ nextTab' = nextTab + 1 /\ tabs' = tabs \cup {nextTab}
          /\ \A t \in TabId : owner'[t] = owner[t] \/ t = nextTab
      BY <1>t, <2>2 DEF PageCreated, Owned
    <3>2. Handed'
      BY <1>t, <3>1 DEF KeepsToItsTabs, Handed, TabId
    <3> QED
      BY <1>o, <1>p, <1>t, <2>1, <3>1, <3>2 DEF KeepsToItsTabs
  <2>3. CASE PageFailed(f) \/ Finish(f) \/ Filtered(f)
    <3>1. UNCHANGED <<tabs, nextTab, owner>>
      BY <2>3 DEF PageFailed, Finish, Filtered
    <3> QED
      BY <1>o, <1>p, <1>t, <2>1, <3>1 DEF KeepsToItsTabs, Handed
  <2>4. CASE CloseEvent(f)
    <3>1. UNCHANGED <<nextTab, owner>> /\ tabs' \subseteq tabs
      BY <2>4 DEF CloseEvent, Closed
    <3> QED
      BY <1>o, <1>p, <1>t, <2>1, <3>1 DEF KeepsToItsTabs, Handed
  <2>5. CASE CloseResume(f)
    <3>1. /\ tabs' = tabs \ {cmd[f].session} /\ owner' = [owner EXCEPT ![cmd[f].session] = None]
          /\ UNCHANGED nextTab
      BY <2>5 DEF CloseResume
    <3>2. Handed'
      BY <1>t, <3>1 DEF KeepsToItsTabs, Handed
    <3> QED
      BY <1>o, <1>p, <1>t, <2>1, <3>1, <3>2 DEF KeepsToItsTabs
  <2> QED
    BY <1>2, <2>2, <2>3, <2>4, <2>5 DEF Moves, Resume
<1>3. ASSUME NEW t \in TabId, PageCloses(t) PROVE KeepsToItsTabs'
  <2>1. UNCHANGED <<nextTab, owner, cmd>> /\ tabs' \subseteq tabs
    BY <1>3 DEF PageCloses, Closed
  <2> QED
    BY <1>o, <1>t, <2>1 DEF KeepsToItsTabs, Handed
<1> QED
  BY <1>1, <1>2, <1>3, StepsAct

-----------------------------------------------------------------------------
(* Where commands do not overlap: a pinned command that does not return     *)
(* early.                                                                    *)

\* A pinned command has saved the tab that was chosen.
SavedIs(r) ==
    IF Busy(<<r, 0>>) /\ cmd[<<r, 0>>].pin # NoTab
    THEN cmd[<<r, 0>>].saved = selected ELSE active = selected
PinKept == Single /\ ~pinLeft => \A r \in scenario.requests : SavedIs(r)

LEMMA QuietNow ==
    ASSUME FrameInv, NEW r, scenario.requests = {r}
    PROVE  Quiet <=> ~Busy(<<r, 0>>)
<1>1. r \in Request /\ <<r, 0>> \in Frame
  BY Callers
<1>2. ASSUME ~Busy(<<r, 0>>), NEW f \in Frame PROVE ~Busy(f)
  BY <1>1, <1>2 DEF FrameInv, Served, Nested, Busy, Frame
<1> QED
  BY <1>1, <1>2 DEF Quiet

LEMMA PinKeptStep ==
    ASSUME FrameInv, FrameInv', PinKept, Next
    PROVE  PinKept'
<1>s. UNCHANGED scenario
  BY StepCases
<1> SUFFICES ASSUME Single, ~pinLeft', NEW q \in scenario.requests PROVE SavedIs(q)'
  BY <1>s DEF PinKept, Single
<1> DEFINE outer == <<q, 0>>
<1>1. scenario.requests = {q}
  <2>1. scenario \in Scenario /\ IsFiniteSet(scenario.requests)
    BY ScenarioAssumption, FS_Subset DEF FrameInv, TypeOK
  <2> QED
    BY <2>1, FS_Singleton DEF Single
<1>2. /\ TypeOK /\ outer \in Frame /\ <<q, 1>> \in Frame /\ NoTab \in TabId \cup {NoTab}
      /\ scenario.clients \cup {Root} \subseteq Caller
  BY Callers DEF FrameInv
<1>3. (Quiet <=> ~Busy(outer)) /\ (Quiet' <=> ~Busy(outer)')
  <2>1. Quiet <=> ~Busy(outer)
    BY <1>1, QuietNow
  <2>2. scenario'.requests = {q}
    BY <1>s, <1>1
  <2>3. \A f \in Frame : Busy(f)' => f[1] = q
    BY <2>2 DEF FrameInv, Served
  <2>4. q \in Request
    BY Callers
  <2>5. Busy(<<q, 1>>)' => Busy(outer)'
    BY <2>4 DEF FrameInv, Nested, Busy
  <2>6. \A f \in Frame : f[1] = q => f = outer \/ f = <<q, 1>>
    BY DEF Frame
  <2>7. (\A f \in Frame : ~Busy(f)') <=> ~Busy(outer)'
    BY <1>2, <2>3, <2>5, <2>6
  <2> QED
    BY <2>1, <2>7 DEF Quiet
\* What the histories take down.
<1>c. ASSUME NEW unpinned, NEW early, Chosen(unpinned, early)
      PROVE  /\ unpinned => selected' = active'
             /\ ~unpinned => /\ ~early /\ SavedIs(q)
                             /\ IF Quiet' /\ selected \notin tabs' THEN selected' = active'
                                ELSE selected' = selected
  BY <1>c DEF Chosen, PinKept
<1>4. ASSUME NEW who \in Caller, NEW pin \in TabId \cup {NoTab},
             Issue(outer, who, pin, pin = NoTab)
      PROVE  SavedIs(q)'
  <2>1. /\ ~Busy(outer) /\ UNCHANGED tabs
        /\ Refusal(outer, who, pin) \/ AtOnce(pin) \/ UnderWay(outer, who, pin)
    <3>1. Asks(outer, who, pin)
      BY <1>4, AsksOrMoves
    <3> QED
      BY <1>2, <3>1, IssueWrites
  <2>2. CASE pin = NoTab
    <3>1. selected' = active'
      BY <1>4, <1>c, <2>2 DEF Issue
    <3> QED
      BY <2>1, <2>2, <3>1 DEF Refusal, AtOnce, UnderWay, Busy, SavedIs
  <2>3. CASE pin # NoTab
    <3>1. Serve(outer, who, pin) /\ Chosen(FALSE, FALSE)
      BY <1>4, <1>c, <2>3 DEF Issue
    <3>2. AtOnce(pin) \/ UnderWay(outer, who, pin)
      BY <1>2, <3>1, ServeWrites
    <3>3. /\ active = selected
          /\ IF Quiet' /\ selected \notin tabs' THEN selected' = active' ELSE selected' = selected
      BY <1>c, <2>1, <3>1 DEF SavedIs
    <3>4. CASE AtOnce(pin)
      <4>1. UNCHANGED cmd /\ Quiet' /\ ~Busy(outer)'
        BY <1>3, <2>1, <3>4 DEF AtOnce, Busy
      <4>2. active \in tabs => active' = active
        BY <2>3, <3>4 DEF AtOnce, Saved, Restored
      <4> QED
        BY <2>1, <3>3, <4>1, <4>2 DEF SavedIs
    <3>5. CASE UnderWay(outer, who, pin)
      <4>1. Busy(outer)' /\ cmd'[outer].saved = active /\ cmd'[outer].pin = pin
        BY <2>3, <3>5 DEF UnderWay, Busy, Saved
      <4> QED
        BY <1>3, <2>3, <3>3, <4>1 DEF SavedIs
    <3> QED
      BY <3>2, <3>4, <3>5
  <2> QED
    BY <2>2, <2>3
\* A step under way, of the outer command or of what it chains.
<1>5. ASSUME Busy(outer), NEW early, Chosen(Unpinned(q), early),
             \/ /\ Busy(outer)' /\ cmd'[outer].pin = cmd[outer].pin
                /\ cmd'[outer].saved = cmd[outer].saved
             \/ ~Busy(outer)' /\ (cmd[outer].pin = NoTab
                                \/ \E x : active' = Restored(tabs', cmd[outer].saved, x))
      PROVE  SavedIs(q)'
  <2>1. CASE cmd[outer].pin = NoTab
    <3>1. selected' = active'
      BY <1>5, <1>c, <2>1 DEF Unpinned, Busy
    <3> QED
      BY <1>5, <2>1, <3>1 DEF SavedIs
  <2>2. CASE cmd[outer].pin # NoTab
    <3>1. /\ SavedIs(q)
          /\ IF Quiet' /\ selected \notin tabs' THEN selected' = active' ELSE selected' = selected
      BY <1>5, <1>c, <2>2 DEF Unpinned
    <3>2. cmd[outer].saved = selected
      BY <1>5, <2>2, <3>1 DEF SavedIs
    <3> QED
      BY <1>3, <1>5, <2>2, <3>1, <3>2 DEF Restored, SavedIs
  <2> QED
    BY <2>1, <2>2
<1>6. ASSUME NEW f \in {outer, <<q, 1>>}, GoOn(f, Unpinned(q))
      PROVE  SavedIs(q)'
  <2>1. /\ Busy(f) /\ \A g \in Frame \ {f} : cmd'[g] = cmd[g]
        /\ GoesOn(f) \/ Ends(f) \/ Leaves(f)
        /\ Resume(f) => GoesOn(f) \/ Ends(f) \/ EndsOutside(f)
    BY <1>2, <1>6, ResumeWrites, AsksOrMoves
  <2>2. PICK early : Chosen(Unpinned(q), early)
                     /\ (GoesOn(f) \/ Ends(f) \/ (cmd[f].pin # NoTab => early))
    <3>1. CASE Filtered(f) /\ Chosen(Unpinned(q), cmd[f].pin # NoTab)
      BY <3>1
    <3>2. CASE Resume(f) /\ Chosen(Unpinned(q), EndsOutside(f) /\ cmd[f].pin # NoTab)
      BY <2>1, <3>2
    <3> QED
      BY <1>6, <3>1, <3>2 DEF GoOn
  <2>3. CASE f = outer
    <3>1. CASE GoesOn(f) \/ Ends(f)
      BY <1>5, <2>1, <2>2, <2>3, <3>1 DEF GoesOn, Ends, Busy, Idle
    <3>2. CASE ~(GoesOn(f) \/ Ends(f))
      <4>1. cmd[f].pin # NoTab => early
        BY <2>1, <2>2, <3>2
      <4>2. cmd[f].pin = NoTab
        BY <1>c, <2>2, <2>3, <4>1 DEF Unpinned
      <4> QED
        BY <1>5, <2>1, <2>2, <2>3, <3>2, <4>2 DEF Leaves, Busy, Idle
    <3> QED
      BY <3>1, <3>2
  <2>4. CASE f = <<q, 1>>
    <3>1. Busy(outer) /\ cmd'[outer] = cmd[outer]
      BY <1>2, <2>1, <2>4, Callers DEF FrameInv, Nested, Busy
    <3> QED
      BY <1>5, <2>2, <3>1 DEF Busy
  <2> QED
    BY <1>6, <2>3, <2>4
<1>7. ASSUME NEW who \in Caller, Issue(<<q, 1>>, who, NoTab, Unpinned(q)),
             cmd[outer].pc = "chain"
      PROVE  SavedIs(q)'
  <2>1. cmd'[outer] = cmd[outer]
    <3>1. Asks(<<q, 1>>, who, NoTab)
      BY <1>7, AsksOrMoves
    <3>2. \A g \in Frame \ {<<q, 1>>} : cmd'[g] = cmd[g]
      BY <1>2, <3>1, IssueWrites
    <3> QED
      BY <1>2, <3>2
  <2>2. PICK early : Chosen(Unpinned(q), early)
    BY <1>7 DEF Issue
  <2> QED
    BY <1>5, <1>7, <2>1, <2>2 DEF Busy
<1>8. CASE \E who \in scenario.clients \cup {Root}, pin \in TabId \cup {NoTab} :
              Called(q, who, pin)
  BY <1>2, <1>4, <1>8 DEF Called
<1>9. CASE IssueChained(q)
  <2>1. cmd[outer].who \in Caller
    BY <1>9, Callers DEF IssueChained
  <2> QED
    BY <1>7, <1>9, <2>1 DEF IssueChained
<1>10. CASE \E depth \in {0, 1} : GoOn(<<q, depth>>, Unpinned(q))
  <2>1. PICK f \in {outer, <<q, 1>>} : GoOn(f, Unpinned(q))
    BY <1>10
  <2> QED
    BY <1>6, <2>1
<1>11. CASE Away(scenario.requests)
  <2>1. PICK t \in TabId : Closed(t) /\ Chosen(Unpinned(q), FALSE)
    <3>1. (\E r \in scenario.requests : Unpinned(r)) = Unpinned(q)
      BY <1>1 DEF Unpinned
    <3> QED
      BY <1>11, <3>1 DEF Away, PageCloses
  <2>2. UNCHANGED cmd /\ tabs' = tabs \ {t} /\ (active # t => active' = active)
    BY <2>1 DEF Closed
  <2>3. CASE Busy(outer)
    BY <1>5, <2>1, <2>2, <2>3 DEF Busy
  <2>4. CASE ~Busy(outer)
    <3>1. ~Unpinned(q) /\ ~Busy(outer)' /\ Quiet'
      BY <1>3, <2>2, <2>4 DEF Unpinned, Busy
    <3>2. /\ active = selected
          /\ IF selected \notin tabs' THEN selected' = active' ELSE selected' = selected
      <4>1. SavedIs(q) /\ IF Quiet' /\ selected \notin tabs' THEN selected' = active'
                          ELSE selected' = selected
        <5>1. Chosen(Unpinned(q), FALSE)
          BY <2>1
        <5>2. ~Unpinned(q) /\ Quiet'
          BY <3>1
        <5>3. ~pinLeft
          BY <5>1, <5>2 DEF Chosen
        <5>4. SavedIs(q)
          BY <5>3 DEF PinKept
        <5> QED
          BY <5>1, <5>2, <5>4 DEF Chosen
      <4> QED
        BY <2>4, <3>1, <4>1 DEF SavedIs
    <3> QED
      BY <2>2, <3>1, <3>2 DEF SavedIs
  <2> QED
    BY <2>3, <2>4
<1> QED
  BY <1>1, <1>8, <1>9, <1>10, <1>11, StepCases

-----------------------------------------------------------------------------
(* The tab maps and the frames keep their types, nested calls included      *)
(* (browser-manager.ts:282-313).                                            *)
THEOREM TabTypeCorrect == Spec => []TypeOK
<1>1. FrameInv => TypeOK
  BY DEF FrameInv
<1> QED
  BY <1>1, FrameInit, FrameNext, PTL DEF Spec

(* However requests, chains, closes and page events interleave, an own-only *)
(* client's command works on a tab of the client's, or on one that has      *)
(* closed, unless it named a tab that had closed before: for any number of  *)
(* clients, requests and tabs.                                              *)
THEOREM OwnOnly == Spec => []OwnOnlyWorksOnItsTabs
<1> DEFINE Inv == FrameInv /\ KeepsToItsTabs
<1>1. Init => Inv
  <2>1. ASSUME Init PROVE KeepsToItsTabs
    <3>1. \A f \in Frame : cmd[f].pc = "idle"
      BY <2>1 DEF Init, Idle
    <3> QED
      BY <2>1, <3>1, RootAssumption DEF Init, KeepsToItsTabs, Keeps, Handed
  <2> QED
    BY <2>1, FrameInit
<1>2. Inv /\ [Next]_vars => Inv'
  <2>1. ASSUME KeepsToItsTabs, UNCHANGED vars PROVE KeepsToItsTabs'
    BY <2>1 DEF KeepsToItsTabs, Keeps, Handed, vars
  <2> QED
    BY <2>1, FrameNext, KeepsStep
<1>3. Inv => OwnOnlyWorksOnItsTabs
  BY DEF KeepsToItsTabs, Keeps, OwnOnlyWorksOnItsTabs
<1> QED
  BY <1>1, <1>2, <1>3, PTL DEF Spec

(* Where commands do not overlap, the active tab is open between them, for  *)
(* any order of switches, closes, close events and chains; none is left     *)
(* only where the browser refused the page that replaces the last one.      *)
THEOREM ActiveStaysOpen == Spec => []ActiveIsOpen
<1> DEFINE Inv == FrameInv /\ OpenTab
<1>1. Init => Inv
  <2>1. ASSUME Init PROVE OpenTab
    <3>1. \A f \in Frame : cmd[f].pc = "idle"
      BY <2>1 DEF Init, Idle
    <3> QED
      BY <2>1, <3>1 DEF Init, OpenTab, IsOpen
  <2> QED
    BY <2>1, FrameInit
<1>2. Inv /\ [Next]_vars => Inv'
  <2>1. ASSUME OpenTab, UNCHANGED vars PROVE OpenTab'
    BY <2>1 DEF OpenTab, IsOpen, Single, Closing, vars
  <2> QED
    BY <2>1, FrameNext, OpenTabStep
<1>3. Inv => ActiveIsOpen
  BY DEF OpenTab, IsOpen, Closing, ActiveIsOpen, Quiet, Busy
<1> QED
  BY <1>1, <1>2, <1>3, PTL DEF Spec

(* Where commands do not overlap, the active tab between them is the one    *)
(* last chosen without a pin, unless a pinned command has returned early    *)
(* since: commands of every kind, refused ones, own-only callers and pages  *)
(* that close of themselves included.                                       *)
THEOREM PinsUndone == Spec => []PinsAreUndone
<1> DEFINE Inv == FrameInv /\ PinKept
<1>1. Init => Inv
  <2>1. ASSUME Init PROVE PinKept
    <3>1. \A f \in Frame : cmd[f].pc = "idle"
      BY <2>1 DEF Init, Idle
    <3>2. \A r \in scenario.requests : <<r, 0>> \in Frame
      BY <2>1, FrameInit, Callers
    <3> QED
      BY <2>1, <3>1, <3>2 DEF Init, PinKept, SavedIs, Busy
  <2> QED
    BY <2>1, FrameInit
<1>2. Inv /\ [Next]_vars => Inv'
  <2>1. ASSUME PinKept, UNCHANGED vars PROVE PinKept'
    BY <2>1 DEF PinKept, SavedIs, Single, Busy, vars
  <2> QED
    BY <2>1, FrameNext, PinKeptStep
<1>3. Inv => PinsAreUndone
  <2> SUFFICES ASSUME Inv, Single, Quiet, ~pinLeft PROVE active = selected
    BY DEF PinsAreUndone
  <2>1. IsFiniteSet(scenario.requests)
    BY ScenarioAssumption, FS_Subset DEF FrameInv, TypeOK
  <2>2. PICK r : scenario.requests = {r}
    BY <2>1, FS_Singleton DEF Single
  <2>3. ~Busy(<<r, 0>>)
    BY <2>2, Callers DEF Quiet
  <2> QED
    BY <2>2, <2>3 DEF PinKept, SavedIs
<1> QED
  BY <1>1, <1>2, <1>3, PTL DEF Spec
=============================================================================
