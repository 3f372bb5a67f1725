------------------------------- MODULE Mutex -------------------------------
(***************************************************************************)
(* What a lockfile that may be taken over promises: one holder at a time   *)
(* until it is broken, that is, removed from under a holder that lives.    *)
(***************************************************************************)
CONSTANT Proc

VARIABLES
    holders,  \* those who believe they hold it
    broken    \* it was removed from under one of them

Init == holders = {} /\ broken = FALSE

Enter(p) ==
    /\ p \notin holders
    /\ holders = {} \/ broken
    /\ holders' = holders \cup {p}
    /\ UNCHANGED broken

\* A holder that leaves may itself remove what another holds by now.
Leave(p) ==
    /\ p \in holders
    /\ holders' = holders \ {p}
    /\ broken' \in {broken, TRUE}

Break ==
    /\ broken' = TRUE
    /\ UNCHANGED holders

Next == Break \/ \E p \in Proc : Enter(p) \/ Leave(p)

Spec == Init /\ [][Next]_<<holders, broken>>
=============================================================================
