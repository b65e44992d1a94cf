------------------------------ MODULE FroniusWeb ------------------------------
(***************************************************************************)
(* The Fronius web interface (fronius_web.py): a poll a minute, the        *)
(* switches and the button that write while it runs                        *)
(* (fronius_web_entities.py), and the refresh behind every write, which    *)
(* Home Assistant's coordinator debounces.                                 *)
(*                                                                         *)
(* A request is challenged and answered; only the answer counts, so one    *)
(* request is one step of the inverter and one of the caller.              *)
(***************************************************************************)
EXTENDS Naturals

CONSTANTS
    Callers,        \* presses of a switch or the button under way at a time
    Setups,         \* the Modbus setup, control flag aside
    Default,        \* the one a reset brings back
    Unknown,           \* unknown, or left alone
    WebEvents          \* bound: presses, lost and refused requests, edits

ASSUME DefaultIsASetup == Default \in Setups /\ Unknown \notin Setups \cup BOOLEAN
ASSUME BoundsAreBounds == WebEvents \in Nat

VARIABLES
    inverter,     \* the flags and the Modbus setup the inverter holds
    login,      \* the stored secret is accepted
    poll,       \* the poll under way: what it has read, and what it reads next
    data,       \* the last data of the coordinator, and last_update_success
    press,      \* the presses under way
    cooling,    \* the debouncer's timer runs; a request came meanwhile
    events      \* bound

webVars == <<inverter, login, poll, data, press, cooling, events>>
-----------------------------------------------------------------------------
Flags == BOOLEAN \cup {Unknown}
NotRead == [grid |-> Unknown, ac |-> Unknown, ctr |-> Unknown]
NoPoll == [next |-> "none", debounced |-> FALSE, got |-> NotRead]
NoPress == [step |-> "none", kind |-> "none", fields |-> [grid |-> Unknown, ac |-> Unknown],
            allowed |-> Unknown, config |-> Unknown]

WebInit ==
    /\ inverter \in {[grid |-> g, ac |-> a, ctr |-> c, setup |-> s] :
                       g \in BOOLEAN, a \in BOOLEAN, c \in BOOLEAN, s \in Setups}
    /\ inverter.grid => inverter.ac         \* the inverter's own page sets them so
    /\ login = TRUE /\ poll = [NoPoll EXCEPT !.next = "config"]
    /\ data = [ok |-> FALSE, flags |-> NotRead]
    /\ press = [c \in Callers |-> NoPress]
    /\ cooling = [on |-> FALSE, again |-> FALSE] /\ events = 0

WebEvent == events < WebEvents /\ events' = events + 1
Quiet == UNCHANGED events
NotCooling == [on |-> FALSE, again |-> FALSE]
Polling == poll.next # "none"
-----------------------------------------------------------------------------
(***************************************************************************)
(* The poll: DataUpdateCoordinator and _async_update_data. The three reads *)
(* that carry no flag only take time.                                      *)
(***************************************************************************)
\* A refresh cancels the debouncer's timer.
Starts(debounced) ==
    /\ poll' = [NoPoll EXCEPT !.next = "config", !.debounced = debounced]
    /\ cooling' = NotCooling
\* A request during a poll is dropped, one during the cool-down waits for its end.
RequestRefresh ==
    IF cooling.on THEN cooling' = [cooling EXCEPT !.again = TRUE] /\ UNCHANGED poll
    ELSE IF Polling THEN UNCHANGED <<poll, cooling>> ELSE Starts(TRUE)

MinutePassed ==
    /\ ~Polling /\ Starts(FALSE) /\ Quiet /\ UNCHANGED <<inverter, login, data, press>>
CooledDown ==
    /\ cooling.on
    /\ IF cooling.again /\ ~Polling THEN Starts(TRUE)
       ELSE cooling' = NotCooling /\ UNCHANGED poll
    /\ Quiet /\ UNCHANGED <<inverter, login, data, press>>

\* _optional: an endpoint that fails leaves its part unknown.
Read(got) ==
    /\ poll' = [poll EXCEPT !.got = got, !.next = IF @ = "config" THEN "modbus" ELSE "meters"]
    /\ UNCHANGED <<inverter, login, data, press, cooling>>
\* A bug: what is known is not read again.
ConfigReadOnce ==
    /\ poll.next = "config" /\ login /\ Quiet
    /\ Read(IF data.flags.ac # Unknown
              THEN [poll.got EXCEPT !.grid = data.flags.grid, !.ac = data.flags.ac]
              ELSE [poll.got EXCEPT !.grid = inverter.grid, !.ac = inverter.ac])
ConfigRead ==
    /\ poll.next = "config" /\ login /\ Quiet
    /\ Read([poll.got EXCEPT !.grid = inverter.grid, !.ac = inverter.ac])
ModbusRead ==
    /\ poll.next = "modbus" /\ login /\ Quiet
    /\ Read([poll.got EXCEPT !.ctr = inverter.ctr])
ReadLost ==
    /\ poll.next \in {"config", "modbus"} /\ login /\ WebEvent /\ Read(poll.got)
\* The debouncer cools down after the poll it ran.
Ends(new) ==
    /\ data' = new /\ poll' = NoPoll
    /\ cooling' = IF poll.debounced THEN [on |-> TRUE, again |-> FALSE] ELSE cooling
    /\ Quiet /\ UNCHANGED <<inverter, login, press>>
PollEnds == poll.next = "meters" /\ login /\ Ends([ok |-> TRUE, flags |-> poll.got])
\* A rejected login fails the poll; the old data stays behind entities that are unavailable.
PollRejected == Polling /\ ~login /\ Ends([data EXCEPT !.ok = FALSE])
-----------------------------------------------------------------------------
(***************************************************************************)
(* The writes. Nothing orders two of them, nor a write and a poll.         *)
(***************************************************************************)
Step(c, p) == press' = [press EXCEPT ![c] = p]
Pressed(c, p) ==
    /\ press[c] = NoPress /\ WebEvent /\ Step(c, p)
    /\ UNCHANGED <<inverter, login, poll, data, cooling>>
WriteOf(kind) == [NoPress EXCEPT !.kind = kind, !.step = "sending"]

\* _set_grid: charging from the grid needs the AC flag too.
GridFields(on) == [grid |-> on, ac |-> IF on THEN TRUE ELSE Unknown]
\* A bug: AC charging goes off alone.
AcFieldsAlone(on) == [grid |-> Unknown, ac |-> on]
\* _set_ac: without AC charging there is no grid charging either.
AcFields(on) == [grid |-> IF on THEN Unknown ELSE FALSE, ac |-> on]
\* The switches. The storage mode "charge from grid" presses the first one too.
SetGrid(c, on) == Pressed(c, [WriteOf("battery") EXCEPT !.fields = GridFields(on)])
SetAc(c, on) == Pressed(c, [WriteOf("battery") EXCEPT !.fields = AcFields(on)])
AllowModbusControl(c, on) ==
    Pressed(c, [WriteOf("control") EXCEPT !.step = "reading", !.allowed = on])
ResetModbus(c) == Pressed(c, WriteOf("reset"))

\* allow_modbus_control: read, patch one flag, write back the whole setup.
SetupRead(c) ==
    /\ press[c].step = "reading" /\ login /\ Quiet
    /\ Step(c, [press[c] EXCEPT !.config = inverter.setup, !.step = "sending"])
    /\ UNCHANGED <<inverter, login, poll, data, cooling>>
\* What the inverter holds after the request of c.
Set(old, new) == IF new = Unknown THEN old ELSE new
Applied(p) ==
    CASE p.kind = "battery" -> [inverter EXCEPT !.grid = Set(@, p.fields.grid),
                                              !.ac = Set(@, p.fields.ac)]
      [] p.kind = "control" -> [inverter EXCEPT !.ctr = p.allowed, !.setup = p.config]
      [] OTHER -> [inverter EXCEPT !.setup = Default]
RequestServed(c) ==
    /\ press[c].step = "sending" /\ login /\ Quiet
    /\ inverter' = Applied(press[c]) /\ Step(c, [press[c] EXCEPT !.step = "answering"])
    /\ UNCHANGED <<login, poll, data, cooling>>
\* The write is done: the caller asks for a refresh, and waits for it if it is its own.
Answered(c) ==
    /\ press[c].step = "answering" /\ Quiet
    /\ RequestRefresh /\ Step(c, NoPress) /\ UNCHANGED <<inverter, login, data>>
\* Lost, timed out or rejected: HomeAssistantError and no refresh, whatever the inverter did.
Refused(c) ==
    /\ press[c].step # "none" /\ IF login \/ press[c].step = "answering" THEN WebEvent ELSE Quiet
    /\ Step(c, NoPress) /\ UNCHANGED <<inverter, login, poll, data, cooling>>
-----------------------------------------------------------------------------
\* The inverter's own page: the setup is edited, the password changed or entered anew.
EditSetup(s) ==
    /\ WebEvent /\ inverter' = [inverter EXCEPT !.setup = s]
    /\ UNCHANGED <<login, poll, data, press, cooling>>
ChangeLogin ==
    WebEvent /\ login' = ~login /\ UNCHANGED <<inverter, poll, data, press, cooling>>

PollStep == ConfigRead \/ ModbusRead \/ PollEnds \/ PollRejected
WebNext ==
    \/ MinutePassed \/ CooledDown \/ PollStep \/ ReadLost \/ ChangeLogin
    \/ \E c \in Callers :
           \/ SetupRead(c) \/ RequestServed(c) \/ Answered(c) \/ Refused(c) \/ ResetModbus(c)
           \/ \E on \in BOOLEAN : SetGrid(c, on) \/ SetAc(c, on) \/ AllowModbusControl(c, on)
    \/ \E s \in Setups : EditSetup(s)

WebSpec == WebInit /\ [][WebNext]_webVars
\* The coordinator polls every minute, and a poll comes to its end.
WebFairSpec == WebSpec /\ WF_webVars(MinutePassed) /\ WF_webVars(PollStep)
=============================================================================
