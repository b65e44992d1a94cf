----------------------------- MODULE StorageModes -----------------------------
(***************************************************************************)
(* The battery modes of a vendor profile (vendors/profile.py,              *)
(* vendors/fronius.py, storage_modes.py): what a mode writes to            *)
(* StorCtl_Mod, InWRte and OutWRte, and the mode read back from them.      *)
(*                                                                         *)
(* Rates are percentages of WChaMax; here they are counted in watts, so    *)
(* that 100 % is WChaMax.                                                  *)
(***************************************************************************)
EXTENDS Integers

CONSTANT WChaMax        \* the battery's maximum power

ASSUME BatteryIsThere == WChaMax \in Nat \ {0}

Mode == {"auto", "pv_charge_limit", "discharge_limit", "charge_and_discharge_limit",
         "charge_from_grid", "discharge_to_grid", "block_discharging", "block_charging"}
\* The modes that force power against what the house would do.
ForcedMode == {"charge_from_grid", "discharge_to_grid"}

\* The rates that take a setpoint in watts.
SetpointRate == {"charge_limit", "discharge_limit", "grid_charge", "grid_discharge"}
Rate == SetpointRate \cup {"full", "zero"}
ForcedRate == {"grid_charge", "grid_discharge"}

Recipe(mode) ==
    CASE mode = "auto"                       -> [ctl |-> 0, in |-> "full", out |-> "full"]
      [] mode = "pv_charge_limit"            -> [ctl |-> 1, in |-> "charge_limit", out |-> "full"]
      [] mode = "discharge_limit"            -> [ctl |-> 2, in |-> "full", out |-> "discharge_limit"]
      [] mode = "charge_and_discharge_limit" -> [ctl |-> 3, in |-> "charge_limit", out |-> "discharge_limit"]
      [] mode = "charge_from_grid"           -> [ctl |-> 2, in |-> "full", out |-> "grid_charge"]
      [] mode = "discharge_to_grid"          -> [ctl |-> 1, in |-> "grid_discharge", out |-> "full"]
      [] mode = "block_discharging"          -> [ctl |-> 3, in |-> "charge_limit", out |-> "zero"]
      [] mode = "block_charging"             -> [ctl |-> 3, in |-> "zero", out |-> "discharge_limit"]

\* The setpoints a mode writes.
RatesOf(mode) == {Recipe(mode).in, Recipe(mode).out} \cap SetpointRate

\* The register a setpoint lands in.
PointOfRate(rate) == IF rate \in {"charge_limit", "grid_discharge"} THEN "in" ELSE "out"

Clamped(watts) ==
    IF watts < 0 THEN 0 ELSE IF watts > WChaMax THEN WChaMax ELSE watts

\* A limit is written as it is, a forced power negative.
ResolveRate(rate, setpoints) ==
    CASE rate = "full"       -> WChaMax
      [] rate = "zero"       -> 0
      [] rate \in ForcedRate -> -Clamped(setpoints[rate])
      [] OTHER               -> Clamped(setpoints[rate])

\* The mode the registers of the device stand for.
InferMode(ctl, in, out) ==
    LET charge == ctl \in {1, 3}  discharge == ctl \in {2, 3} IN
    IF ~charge /\ ~discharge THEN "auto"
    ELSE IF discharge /\ out < 0 THEN "charge_from_grid"
    ELSE IF charge /\ in < 0 THEN "discharge_to_grid"
    ELSE IF charge /\ in = 0 THEN "block_charging"
    ELSE IF discharge /\ out = 0 THEN "block_discharging"
    ELSE IF charge /\ discharge THEN "charge_and_discharge_limit"
    ELSE IF charge THEN "pv_charge_limit" ELSE "discharge_limit"
=============================================================================
