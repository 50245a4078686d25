---------------------------- MODULE SerialDriver ----------------------------
(***************************************************************************)
(* What the CUDA context's resource lifecycle promises to everything built *)
(* on it: driver operations run one at a time, an operation that leaves    *)
(* the completion of submitted work in doubt ends with the context in      *)
(* quarantine, and no operation begins in quarantine.                      *)
(***************************************************************************)
CONSTANTS Threads, NoThread

VARIABLES
    running,      \* the thread whose driver operation is under way
    certain,      \* "yes" while all failed work is known to have completed
    quarantined   \* "yes" once the context is given up for good

vars == <<running, certain, quarantined>>

Init == running = NoThread /\ certain = "yes" /\ quarantined = "no"

Begin(t) ==
    /\ running = NoThread /\ quarantined = "no"
    /\ running' = t
    /\ UNCHANGED <<certain, quarantined>>

\* The operation fails, or recovers, and may quarantine the context early.
Trouble ==
    /\ running # NoThread
    /\ certain' \in {"yes", "no"}
    /\ quarantined' \in {quarantined, "yes"}
    /\ UNCHANGED running

End ==
    /\ running # NoThread
    /\ running' = NoThread
    /\ certain' \in {"yes", "no"}
    /\ quarantined' \in {quarantined, "yes"}
    /\ certain' = "yes" \/ quarantined' = "yes"

\* A thread that could not even begin gives the context up.
GiveUp ==
    /\ running = NoThread
    /\ quarantined' = "yes"
    /\ UNCHANGED <<running, certain>>

Next == (\E t \in Threads : Begin(t)) \/ Trouble \/ End \/ GiveUp

Spec == Init /\ [][Next]_vars
=============================================================================
