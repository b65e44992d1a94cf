----------------------------- MODULE MCPollHealth -----------------------------
(***************************************************************************)
(* A device with optional models that come and go.                         *)
(***************************************************************************)
EXTENDS PollHealthProperties, TLC

CONSTANTS m1, m2
=============================================================================
