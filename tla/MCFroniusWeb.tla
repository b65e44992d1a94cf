------------------------------ MODULE MCFroniusWeb ------------------------------
(* Two presses at a time, and a setup of the owner's beside the default one.     *)
EXTENDS FroniusWebProperties
=============================================================================
