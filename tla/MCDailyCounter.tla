---------------------------- MODULE MCDailyCounter ----------------------------
(***************************************************************************)
(* Two mornings of a counter that makes at most one unit in a tick: the    *)
(* configurations give every constant its value.                           *)
(***************************************************************************)
EXTENDS DailyCounterProperties, TLC
=============================================================================
