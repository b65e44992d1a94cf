----------------------------- MODULE MCBatteryPlan -----------------------------
(***************************************************************************)
(* A day of three ticks, a battery of one percent and a device with a      *)
(* revert timer: a window over midnight and one of a full day.             *)
(***************************************************************************)
EXTENDS BatteryPlanProperties, TLC

SomePlans ==
    {[direction |-> "discharge", start |-> 2, end |-> 1, target |-> 0, capacity |-> 2],
     [direction |-> "charge", start |-> 1, end |-> 1, target |-> 1, capacity |-> 3]}
=============================================================================
