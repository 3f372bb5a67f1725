---------------------------- MODULE DesignBoards ----------------------------
(* One design daemon (design/src/daemon.ts): its boards, the requests on     *)
(* them that wait for their turn and their bodies, the eviction at the cap,  *)
(* and the ways the daemon ends.  The unit of time is IDLE_EXTENSION_MS.     *)
(***************************************************************************)
EXTENDS Integers, FiniteSets

CONSTANTS
    Post,            \* requests on a board
    SourceDir,       \* directories that boards are published from
    MaxBoards,       \* MAX_BOARDS
    IdleTime,        \* IDLE_MS
    MaxExtensions,   \* MAX_EXTENSIONS
    MaxPublished     \* bound on the boards published

ASSUME BoardsAssumption ==
    /\ {MaxBoards, IdleTime} \subseteq Nat \ {0}
    /\ {MaxExtensions, MaxPublished} \subseteq Nat

VARIABLES
    boards,       \* boards: what is hosted, by id
    published,    \* the ids given out
    post,         \* the handlers of feedback and reload
    idle,         \* the time since lastMeaningfulActivity
    extensions,   \* idleExtensions
    phase,        \* up, armed by /shutdown, down, or expired by the idle timer
    quiet         \* history: the time since a board was last worked on

boardsVars == <<boards, published, post, idle, extensions, phase, quiet>>

Running == phase \in {"up", "armed"}
Request == {"submit", "regenerate", "comment", "reload"}

\* boardMutex: the requests on a board take turns in the order they came.
NoPost == [pc |-> "new", board |-> 0, of |-> "none", turn |-> 0]
Queued == {p \in Post : post[p].pc = "queued"}

BoardsInit ==
    /\ boards = <<>> /\ published = 0
    /\ post = [p \in Post |-> NoPost]
    /\ idle = 0 /\ extensions = 0 /\ quiet = 0
    /\ phase = "up"

Active(bs) == {b \in DOMAIN bs : bs[b].state # "done"}

-----------------------------------------------------------------------------
(* Activity, publishing and eviction.                                       *)

markMeaningfulActivity_only == idle' = 0 /\ extensions' = extensions
markMeaningfulActivity == idle' = 0 /\ extensions' = 0

\* The boards that evictOne may choose from; which of them was touched least
\* recently is left open.
Victims(bs) == IF Active(bs) # DOMAIN bs THEN DOMAIN bs \ Active(bs) ELSE DOMAIN bs

Without(bs, b) == [c \in DOMAIN bs \ {b} |-> bs[c]]

\* evictUntilUnderCap, after one board was added.
Evicted(bs) == IF Cardinality(DOMAIN bs) <= MaxBoards THEN {bs}
               ELSE {Without(bs, b) : b \in Victims(bs)}

\* Whether handlePublish takes a board from d.
Full_past == Cardinality(Active(boards)) > MaxBoards
Full == Cardinality(Active(boards)) >= MaxBoards

Publish(d) ==
    /\ Running /\ published < MaxPublished
    /\ \A b \in Active(boards) : boards[b].dir # d
    /\ ~Full
    /\ published' = published + 1
    /\ boards' \in Evicted([b \in DOMAIN boards \cup {published + 1} |->
                              IF b = published + 1 THEN [dir |-> d, state |-> "serving"]
                              ELSE boards[b]])
    /\ markMeaningfulActivity /\ quiet' = 0
    /\ UNCHANGED <<post, phase>>

-----------------------------------------------------------------------------
(* Feedback and reload.                                                     *)

\* The router finds the board; the handler keeps it over its awaits.
Requested(p, b, r) ==
    /\ Running /\ post[p].pc = "new"
    /\ post' = [post EXCEPT ![p] = [pc |-> "queued", board |-> b, of |-> r,
                                    turn |-> Cardinality(Queued)]]
    /\ UNCHANGED <<boards, published, idle, extensions, phase, quiet>>

Served(p) ==
    [q \in Post |->
        IF q = p THEN [NoPost EXCEPT !.pc = "done"]
        ELSE IF q \in Queued /\ post[q].turn > post[p].turn
               THEN [post[q] EXCEPT !.turn = @ - 1]
        ELSE post[q]]

Turn(p) ==
    /\ Running /\ p \in Queued
    /\ \A q \in Queued : post[q].board = post[p].board => post[p].turn <= post[q].turn

StateAfter(r, state) ==
    CASE r = "submit" -> "done"
      [] r = "regenerate" -> "regenerating"
      [] r = "reload" -> "serving"
      [] r = "comment" -> state

\* handleBoardFeedback and handleBoardReload, once the body is there.  A board
\* that was evicted meanwhile is still written to and counts as activity.
Apply(p) ==
    /\ Turn(p)
    /\ boards' = [b \in DOMAIN boards |->
                    IF b = post[p].board
                      THEN [boards[b] EXCEPT !.state = StateAfter(post[p].of, @)]
                      ELSE boards[b]]
    /\ post' = Served(p)
    /\ markMeaningfulActivity /\ quiet' = 0
    /\ UNCHANGED <<published, phase>>

\* The body is not JSON, the feedback file is not writable, the page not there.
Refused(p) ==
    /\ Turn(p)
    /\ post' = Served(p)
    /\ UNCHANGED <<boards, published, idle, extensions, phase, quiet>>

-----------------------------------------------------------------------------
(* The end of the daemon.                                                   *)

\* /shutdown answers, and shuts down 50 ms later.
Shutdown ==
    /\ phase = "up" /\ Active(boards) = {}
    /\ phase' = "armed"
    /\ UNCHANGED <<boards, published, post, idle, extensions, quiet>>

\* gracefulShutdown, by that timer or by a signal.
gracefulShutdown ==
    /\ Running
    /\ phase' = "down"
    /\ UNCHANGED <<boards, published, post, idle, extensions, quiet>>

\* An extension's time passes, and the timer looks.
idleCheckTick ==
    /\ phase = "up"
    /\ quiet' = quiet + 1
    /\ \/ /\ idle + 1 < IdleTime
          /\ idle' = idle + 1
          /\ UNCHANGED <<extensions, phase>>
       \/ /\ idle + 1 >= IdleTime
          /\ Active(boards) # {} /\ extensions < MaxExtensions
          /\ extensions' = extensions + 1
          /\ idle' = IdleTime - 1
          /\ UNCHANGED phase
       \/ /\ idle + 1 >= IdleTime
          /\ Active(boards) = {} \/ extensions >= MaxExtensions
          /\ phase' = "expired"
          /\ idle' = idle + 1
          /\ UNCHANGED extensions
    /\ UNCHANGED <<boards, published, post>>

BoardsNext ==
    \/ \E d \in SourceDir : Publish(d)
    \/ \E p \in Post, b \in DOMAIN boards, r \in Request : Requested(p, b, r)
    \/ \E p \in Post : Apply(p) \/ Refused(p)
    \/ Shutdown \/ gracefulShutdown \/ idleCheckTick

BoardsSpec == BoardsInit /\ [][BoardsNext]_boardsVars

-----------------------------------------------------------------------------
BoardsTypeOK ==
    /\ DOMAIN boards \subseteq 1..published /\ published \in 0..MaxPublished
    /\ \A b \in DOMAIN boards :
          boards[b] \in [dir : SourceDir, state : {"serving", "regenerating", "done"}]
    /\ post \in [Post -> [pc : {"new", "queued", "done"}, board : 0..published,
                          of : Request \cup {"none"}, turn : Nat]]
    /\ idle \in 0..IdleTime /\ extensions \in 0..MaxExtensions /\ quiet \in Nat
    /\ phase \in {"up", "armed", "down", "expired"}

(* "Prefers `done` boards as victims so an active regen doesn't vanish      *)
(* mid-flight" (daemon.ts:153-154): no board that is not done is evicted,   *)
(* whichever are resubmitted, reloaded or published around the cap.         *)
EvictedAreDone ==
    [][\A b \in DOMAIN boards \ DOMAIN boards' : boards[b].state = "done"]_boardsVars

(* "The idle timer extends rather than killing in that case (up to a 28h    *)
(* hard ceiling)" (daemon.ts:23-24): a daemon with boards that are not done *)
(* is spared until the ceiling after the last work on a board, and no       *)
(* daemon lives on beyond it.                                               *)
IdleWithinBounds ==
    /\ phase = "up" => quiet < IdleTime + MaxExtensions
    /\ phase = "expired" =>
          quiet >= (IF Active(boards) = {} THEN IdleTime ELSE IdleTime + MaxExtensions)
=============================================================================
