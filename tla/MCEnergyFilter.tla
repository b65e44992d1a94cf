---------------------------- MODULE MCEnergyFilter ----------------------------
(***************************************************************************)
(* An inverter that makes a few units in ticks of at most one: the         *)
(* configurations give every constant its value.                           *)
(***************************************************************************)
EXTENDS EnergyFilterProperties, TLC
=============================================================================
