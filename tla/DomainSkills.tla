---------------------------- MODULE DomainSkills ----------------------------
(***************************************************************************)
(* The notes an agent keeps for one host: rows appended to the project's   *)
(* learnings.jsonl and to the global file, deleted by tombstones, read as  *)
(* "latest version wins" (browse/src/domain-skills.ts).                    *)
(*                                                                         *)
(* A command reads the rows, awaits, and appends the row it made of them.  *)
(* Other hosts' rows never meet this host's, and are left out.             *)
(***************************************************************************)
EXTENDS Integers, Sequences, FiniteSetsExt

CONSTANTS
    Request,     \* commands in flight, each the next once it has answered
    Body,        \* the text of a skill
    Score,       \* classifier scores below 0.85; handleSave and handleEdit give 0
    MaxRow       \* bound on the rows of a file

Scope == {"project", "global"}
PromoteThreshold == 3

Row == [state : {"quarantined", "active", "global"}, body : Body, version : Nat,
        score : Score, uses : Nat, flags : Nat, tombstone : BOOLEAN]

VARIABLES
    file,        \* the rows of each scope, in the order of their appends
    request,     \* the scope and the row that a request is about to append
    saved,       \* history: the body, if any, the last command left in the project
    overlapped   \* history: a command read rows while another was to append

skillVars == <<file, request, saved, overlapped>>

Idle == [scope |-> "project", row |-> <<>>]

SkillInit ==
    /\ file = [s \in Scope |-> <<>>]
    /\ request = [r \in Request |-> Idle]
    /\ saved = {}
    /\ overlapped = FALSE

-----------------------------------------------------------------------------
(* Latest wins.                                                            *)

\* i was put in the map of resolveLatest after j, or in j's place.
Wins(rows, i, j) ==
    \/ rows[i].version > rows[j].version
    \/ rows[i].version = rows[j].version /\ i >= j

\* resolveLatest, without the tombstones: no row or one.
resolveLatest(rows) ==
    {rows[i] : i \in {k \in DOMAIN rows :
        (\A j \in DOMAIN rows : Wins(rows, k, j)) /\ ~rows[k].tombstone}}

\* rollbackSkill's matching, sorted by version: the places of its rows, and
\* those before a place.  The sort is stable.
Matching(rows) == {i \in DOMAIN rows : ~rows[i].tombstone}
Before(rows, i) ==
    {j \in Matching(rows) : \/ rows[j].version > rows[i].version
                            \/ rows[j].version = rows[i].version /\ j < i}

-----------------------------------------------------------------------------
(* The commands, up to the append.                                         *)

Reads(r, scope, row) ==
    /\ request[r] = Idle
    /\ request' = [request EXCEPT ![r] = [scope |-> scope, row |-> row]]
    /\ overlapped' = (overlapped \/ \E q \in Request : request[q] # Idle)
    /\ UNCHANGED <<file, saved>>

writeSkill(r, body, score) ==
    LET prior == resolveLatest(file["project"])
    IN  Reads(r, "project",
              [state |-> "quarantined", body |-> body,
               version |-> IF prior = {} THEN 1 ELSE 1 + (CHOOSE p \in prior : TRUE).version,
               score |-> score, uses |-> 0, flags |-> 0, tombstone |-> FALSE])

\* It has no caller but the tests.
recordSkillUse(r, flagged) ==
    \E current \in resolveLatest(file["project"]) :
        LET uses == current.uses + 1
            flags == current.flags + (IF flagged THEN 1 ELSE 0)
            earned == /\ current.state = "quarantined" /\ uses >= PromoteThreshold
                      /\ flags = 0 /\ current.score > 0
        IN  Reads(r, "project",
                  [current EXCEPT !.state = IF earned THEN "active" ELSE @,
                                  !.uses = uses, !.flags = flags, !.version = @ + 1])

promoteToGlobal(r) ==
    \E current \in resolveLatest(file["project"]) :
        /\ current.state = "active"
        /\ Reads(r, "global", [current EXCEPT !.state = "global", !.version = 1,
                                              !.uses = 0, !.flags = 0])

rollbackSkill(r, scope) ==
    LET rows == file[scope]
    IN  \E first, second \in Matching(rows) :
           /\ Before(rows, first) = {} /\ Before(rows, second) = {first}
           /\ Reads(r, scope, [rows[second] EXCEPT !.version = rows[first].version + 1])

deleteSkill(r, scope) ==
    \E current \in resolveLatest(file[scope]) :
        Reads(r, scope, [current EXCEPT !.version = @ + 1, !.tombstone = TRUE])

\* appendRow, and the answer of the command.
appendRow(r) ==
    LET scope == request[r].scope
        row == request[r].row
    IN  /\ request[r] # Idle
        /\ Len(file[scope]) < MaxRow
        /\ file' = [file EXCEPT ![scope] = Append(@, row)]
        /\ saved' = IF scope = "global" THEN saved ELSE IF row.tombstone THEN {} ELSE {row.body}
        /\ request' = [request EXCEPT ![r] = Idle]
        /\ UNCHANGED overlapped

SkillNext ==
    \E r \in Request :
        \/ \E body \in Body, score \in Score : writeSkill(r, body, score)
        \/ \E flagged \in BOOLEAN : recordSkillUse(r, flagged)
        \/ promoteToGlobal(r)
        \/ \E scope \in Scope : rollbackSkill(r, scope) \/ deleteSkill(r, scope)
        \/ appendRow(r)

SkillSpec == SkillInit /\ [][SkillNext]_skillVars

-----------------------------------------------------------------------------
(* Properties.                                                             *)

SkillTypeOK ==
    /\ DOMAIN file = Scope
    /\ \A s \in Scope : \A i \in DOMAIN file[s] : file[s][i] \in Row
    /\ \A r \in Request : request[r] = Idle \/ request[r].row \in Row
    /\ saved \subseteq Body
    /\ overlapped \in BOOLEAN

\* "Saved ... Run $B domain-skill list to see state"
\* (domain-skill-commands.ts:74-82): the project's listing shows what the last
\* command left, as long as commands did not overlap (domain-skills.ts:192-207).
SavedIsListed ==
    ~overlapped =>
        {row.body : row \in resolveLatest(file["project"])} = saved
=============================================================================
