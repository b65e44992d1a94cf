-------------------------- MODULE FroniusWebProperties --------------------------
(***************************************************************************)
(* What the switches of the web interface do, and show.                    *)
(***************************************************************************)
EXTENDS FroniusWeb

\* The types of the state.
Shown == [grid : Flags, ac : Flags, ctr : Flags]
Press ==
    [step : {"none", "reading", "sending", "answering"},
     kind : {"none", "battery", "control", "reset"},
     fields : [grid : Flags, ac : Flags], allowed : Flags, config : Setups \cup {Unknown}]
WebTypeOK ==
    /\ inverter \in [grid : BOOLEAN, ac : BOOLEAN, ctr : BOOLEAN, setup : Setups]
    /\ login \in BOOLEAN /\ events \in 0 .. WebEvents
    /\ poll \in [next : {"none", "config", "modbus", "meters"}, debounced : BOOLEAN, got : Shown]
    /\ data \in [ok : BOOLEAN, flags : Shown]
    /\ press \in [Callers -> Press]
    /\ cooling \in [on : BOOLEAN, again : BOOLEAN]

\* "Charging from the grid needs the AC flag too": however presses of both switches, the polls
\* and lost answers fall together, neither the inverter nor the switches Home Assistant shows
\* ever have grid charging on with AC charging off (_set_grid, _set_ac, _async_update_data).
GridChargingNeedsAc ==
    /\ inverter.grid => inverter.ac
    /\ data.flags.grid = TRUE => data.flags.ac = TRUE

\* A switch never keeps showing what was: a refresh that was dropped because a poll was under
\* way, or a write that was carried out although its answer was lost, is made good by a later
\* poll, unless the login is rejected (async_request_refresh, FroniusWebCoordinator).
ShowsTheInverter ==
    /\ data.ok
    /\ data.flags = [grid |-> inverter.grid, ac |-> inverter.ac, ctr |-> inverter.ctr]
SwitchesCatchUp == []<>(ShowsTheInverter \/ ~login)
-----------------------------------------------------------------------------
\* "leaving the rest of the Modbus setup as it is": the switch for Modbus control changes
\* nothing else (allow_modbus_control). The code does not keep this when the setup is edited or
\* reset between its read and its write: see the README.
ControlLeavesTheSetup ==
    [][\A c \in Callers :
           press[c].kind = "control" /\ press[c].step = "sending"
             /\ press'[c].step = "answering" => inverter'.setup = inverter.setup]_webVars
-----------------------------------------------------------------------------
(***************************************************************************)
(* The invariant behind the proof of GridChargingNeedsAc: nothing that is  *)
(* on its way to the inverter, or from it, has the one flag without the    *)
(* other.                                                                  *)
(***************************************************************************)
Consistent(flags) == flags.grid = TRUE => flags.ac = TRUE
\* Sent to any inverter that is consistent, the request of p leaves it consistent.
KeepsConsistent(p) ==
    /\ p.kind = "battery" => \E on \in BOOLEAN : p.fields \in {GridFields(on), AcFields(on)}
    /\ p.kind = "control" => /\ p.allowed \in BOOLEAN
                             /\ p.step # "reading" => p.config \in Setups
WebIInv ==
    /\ WebTypeOK
    /\ GridChargingNeedsAc
    /\ Consistent(poll.got)
    /\ \A c \in Callers : KeepsConsistent(press[c])
=============================================================================
