----------------------------- MODULE VendorProfiles -----------------------------
(***************************************************************************)
(* The raw blocks of three vendor profiles (vendors/solaredge.py,          *)
(* vendors/kostal.py, vendors/sma.py), as far as their kinds differ: one   *)
(* block says whether a battery is there, one is read only then, and one   *)
(* is written. Blocks that are read like one of these are left out.        *)
(***************************************************************************)
Ungated == "ungated"        \* RawBlock.gate is None
Inverter == {}              \* the blocks the inverter's own device needs

RawBlocks == {"info", "battery", "command"}
CommandFields == {"control", "setpoint"}

\* A battery slot's data block is gated on the rated energy, and says with the info block that
\* there is a battery; the storage command is read back, and rewritten in remote control.
SolarEdge ==
    [gate   |-> [b \in RawBlocks |-> IF b = "battery" THEN "info" ELSE Ungated],
     needs  |-> [b \in RawBlocks |-> IF b = "command" THEN Inverter ELSE {"info", "battery"}],
     writeOnly |-> {}, keep |-> <<"setpoint">>, conditional |-> TRUE]

\* All of the battery is gated on its type and needs its identity and its limits, the
\* limitation registers with it; these are rewritten as long as the switch is on.
Kostal ==
    [gate   |-> [b \in RawBlocks |-> IF b = "info" THEN Ungated ELSE "info"],
     needs  |-> [b \in RawBlocks |-> {"info", "battery"}],
     writeOnly |-> {}, keep |-> <<"setpoint">>, conditional |-> FALSE]

\* The battery's power is gated on its voltage; the setpoint is never read, and
\* is rewritten behind its control flag while that is active.
Sma ==
    [gate   |-> [b \in RawBlocks |-> IF b = "battery" THEN "info" ELSE Ungated],
     needs  |-> [b \in RawBlocks |-> Inverter],
     writeOnly |-> {"command"}, keep |-> <<"control", "setpoint">>, conditional |-> TRUE]
=============================================================================
