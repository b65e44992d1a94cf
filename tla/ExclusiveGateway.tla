--------------------------- MODULE ExclusiveGateway ---------------------------
(***************************************************************************)
(* What the gateway lock and the rest promise to the gateway: it is spoken *)
(* to by one task at a time, from the first request of that task's cycle   *)
(* or plan to its last, and by nobody while it rests.                      *)
(***************************************************************************)
CONSTANTS Task, None

VARIABLES
    talker,     \* the task in the middle of its cycle or plan
    quiet       \* the gateway rests

vars == <<talker, quiet>>

Init == talker = None /\ quiet = FALSE

\* A task begins its cycle or plan.
Start(t) ==
    /\ talker = None /\ ~quiet
    /\ talker' = t
    /\ UNCHANGED quiet

\* It ends, and the rest may begin with that.
Stop ==
    /\ talker # None
    /\ talker' = None
    /\ quiet' \in {quiet, TRUE}

\* The rest begins while the failed session is still being closed.
GoQuiet ==
    /\ talker = None /\ ~quiet
    /\ quiet' = TRUE
    /\ UNCHANGED talker

Wake ==
    /\ quiet
    /\ quiet' = FALSE
    /\ UNCHANGED talker

Next == (\E t \in Task : Start(t)) \/ Stop \/ GoQuiet \/ Wake

Spec == Init /\ [][Next]_vars
=============================================================================
