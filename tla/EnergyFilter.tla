----------------------------- MODULE EnergyFilter -----------------------------
(***************************************************************************)
(* The plausibility filter of a lifetime energy sensor (sensor.py,         *)
(* SunSpecEnergySensor), between the register and the statistics of Home   *)
(* Assistant. A tick is a poll. Energy is counted in what the peak power   *)
(* makes in a tick, times Peak.                                            *)
(***************************************************************************)
EXTENDS Integers

CONSTANTS
    Peak,               \* the most the inverter makes in a tick
    SafetyFactor,       \* ENERGY_DELTA_SAFETY_FACTOR
    RecoveryCount,      \* ENERGY_DELTA_REJECT_RECOVERY_COUNT
    First, Second,      \* what the counter, and that of a replaced inverter, start at
    Low, High,          \* misread values: a wrong scale factor, either way
    Misreads,           \* polls in a row that may be misread
    RereadsHeld,        \* whether a value that is held back is evaluated again before the next poll
    MaxAge,             \* bound: ticks told apart since the counter moved
    MaxMade, Stops      \* bounds: energy made, stops of Home Assistant

ASSUME MisreadsAreFar ==
    /\ {Peak, SafetyFactor, RecoveryCount, MaxMade, MaxAge} \subseteq Nat \ {0}
    /\ {First, Second, Low, High, Misreads, Stops} \subseteq Nat
    /\ 0 < Low /\ Low < Second /\ Second < First
    /\ High > First + MaxMade + Peak * SafetyFactor * MaxAge
\* All that is made fits in the longest window that is told apart.
ASSUME WindowsAreLong == MaxMade <= Peak * SafetyFactor * MaxAge

None == -1              \* no value; a state that is unknown
Gone == -2              \* a state that is unavailable

VARIABLES
    counter,    \* the register
    made,       \* energy made, by all inverters, up to now
    pending,    \* energy made that the register does not show yet
    replaced,   \* the inverter was replaced
    on,         \* the entity is there
    failing,    \* the last poll failed
    peak,       \* _peak_power_kw is known: configured, or the nameplate was read
    data,       \* the reading of the last good poll, and whether it is a misread
    sensor,     \* lastKnown, _rejected_delta_count, ticks since _counter_last_moved;
                \* history: at that time the counter was ahead already, see Late
    disk,       \* what the restore state holds of lastKnown, and the last change of
                \* the state, which a restart takes for the last move
    shown,      \* the state of the entity
    changed,    \* ticks since it last changed; history: whether the counter was ahead
    stats,      \* the statistics: energy booked, the last state they saw
    wrong,      \* misread polls since the last true one
    stops       \* stops so far

world == <<counter, made, pending, replaced>>
vars == <<counter, made, pending, replaced, on, failing, peak, data, sensor, disk, shown, changed,
          stats, wrong, stops>>
-----------------------------------------------------------------------------
Nothing == [value |-> None, misread |-> FALSE]
NewSensor == [known |-> None, rejected |-> 0, age |-> MaxAge, late |-> FALSE]

Init ==
    /\ counter = First /\ made = 0 /\ pending = 0 /\ replaced = FALSE
    /\ on = FALSE /\ failing = FALSE /\ peak \in BOOLEAN
    /\ data = Nothing /\ sensor = NewSensor /\ disk = NewSensor
    /\ shown = Gone /\ changed = [age |-> 0, late |-> FALSE]
    /\ stats = [booked |-> 0, last |-> None]
    /\ wrong = 0 /\ stops = 0

AgeCapped(a) == IF a < MaxAge THEN a ELSE MaxAge
-----------------------------------------------------------------------------
(***************************************************************************)
(* The filter: what evaluating native_value makes of the sensor, and what  *)
(* it returns.                                                             *)
(***************************************************************************)
\* A bug: a jump is measured against the peak power, as if steps were never coarse.
MaxDeltaWithoutFactor(s) == Peak * (IF s.age > 1 THEN s.age ELSE 1)
\* _max_native_delta: the window is never shorter than the scan interval.
MaxDelta(s) == Peak * SafetyFactor * (IF s.age > 1 THEN s.age ELSE 1)

\* A bug: only a jump is implausible.
ImplausibleJump(s, value) == s.known # None /\ peak /\ value - s.known > MaxDelta(s)
Implausible(s, value) ==
    s.known # None /\ (value < s.known \/ (peak /\ value - s.known > MaxDelta(s)))

\* _counter_moved_to
MovedTo(s, value) ==
    [s EXCEPT !.known = value, !.age = IF value = s.known THEN @ ELSE 0]

\* A bug: the count starts again with every value that is held.
HeldForEver(s) == [s EXCEPT !.rejected = 0]
Held(s) == [s EXCEPT !.rejected = @ + 1]

Evaluated(s, value) ==
    CASE value = None -> s
      [] value # None /\ peak /\ s.known = None -> MovedTo(s, value)
      [] value # None /\ ~(peak /\ s.known = None) /\ Implausible(s, value)
            /\ s.rejected + 1 < RecoveryCount -> Held(s)
      [] OTHER -> [MovedTo(s, value) EXCEPT !.rejected = 0]
\* The first reading is the baseline and is not shown.
Returned(s, value) ==
    IF value # None /\ peak /\ s.known = None THEN None ELSE Evaluated(s, value).known
-----------------------------------------------------------------------------
(***************************************************************************)
(* Home Assistant writes the state and books it. A fall of more than a     *)
(* tenth of a total_increasing sensor is a meter that starts again at zero.*)
(***************************************************************************)
Booked(st, value) ==
    IF value = None THEN st
    ELSE [last |-> value,
          booked |-> st.booked + (IF st.last = None THEN 0
                                  ELSE IF 10 * value < 9 * st.last THEN value
                                  ELSE value - st.last)]
\* More was made than a baseline holds when its window begins than the safety factor
\* makes up for: the register stood still, polls failed, or the window began anew.
Late(known) == counter' + pending' - known > Peak * (SafetyFactor - 1)
Aged(w, ticks) == [w EXCEPT !.age = AgeCapped(@ + ticks)]

Shows(state, moved) ==
    /\ shown' = state
    /\ changed' = [age  |-> IF state = shown THEN AgeCapped(changed.age + 1) ELSE 0,
                   late |-> IF state = shown /\ ~moved THEN changed.late ELSE Late(sensor'.known)]
\* What evaluating native_value makes of the sensor.
Reviewed(s, value) ==
    LET e == Evaluated(s, value) IN
    [e EXCEPT !.late = IF e.known = s.known THEN @ ELSE Late(e.known)]
\* The entity writes its state when the coordinator tells its listeners.
Updated(s, value) ==
    /\ sensor' = Reviewed(s, value)
    /\ Shows(Returned(s, value), sensor'.known # s.known)
    /\ stats' = Booked(stats, Returned(s, value))
MayReread == RereadsHeld \/ sensor.rejected = 0 \/ data = Nothing

\* The inverter makes some energy and now and then updates its register.
Makes(most) ==
    \E e \in 0..most :
        /\ made + e <= MaxMade + (IF replaced THEN Second ELSE 0) /\ made' = made + e
        /\ \/ counter' = counter + pending + e /\ pending' = 0
           \/ counter' = counter /\ pending' = pending + e
        /\ UNCHANGED replaced

\* A poll reads the register as it is, or nothing (no model, or a zero), or misreads it.
Read(s, reading) == data' = reading /\ failing' = FALSE /\ Updated(s, reading.value)
ReadsTrue(s) ==
    /\ Read(s, [value |-> counter', misread |-> FALSE])
    /\ wrong' = 0 /\ peak' \in {peak, TRUE}
ReadsNothing(s) == Read(s, Nothing) /\ UNCHANGED <<wrong, peak>>
\* A misread comes alone: not as a baseline, nor while a true reading is held.
Misread(s) ==
    /\ wrong < Misreads /\ s.known # None /\ s.rejected <= wrong
    /\ \E value \in {Low} \cup (IF peak THEN {High} ELSE {}) :
           Read(s, [value |-> value, misread |-> TRUE])
    /\ wrong' = wrong + 1 /\ UNCHANGED peak

\* What the disk holds grows old while Home Assistant runs.
Passes == on /\ Makes(Peak) /\ disk' = Aged(disk, 1) /\ UNCHANGED <<on, stops>>
PollTrue == Passes /\ ReadsTrue(Aged(sensor, 1))
PollNothing == Passes /\ ReadsNothing(Aged(sensor, 1))
PollMisread == Passes /\ Misread(Aged(sensor, 1))
\* The first failed poll after a good one tells the listeners; the data stay. After some
\* more the entity is unavailable.
PollFails ==
    /\ Passes /\ failing' = TRUE
    /\ \/ ~failing /\ MayReread /\ Updated(Aged(sensor, 1), data.value)
       \/ /\ failing /\ sensor' = Aged(sensor, 1) /\ UNCHANGED stats
          /\ \E state \in {shown, Gone} : Shows(state, FALSE)
    /\ UNCHANGED <<peak, data, wrong>>

\* Home Assistant stores its states, every quarter of an hour and when it stops: the value
\* of a RestoreSensor is native_value, evaluated again, with the state and its last change.
Stores ==
    /\ MayReread /\ UNCHANGED world
    /\ disk' = [known |-> Returned(sensor, data.value), rejected |-> 0,
                age |-> changed.age, late |-> changed.late]
Dump ==
    /\ on /\ Stores /\ sensor' = Reviewed(sensor, data.value)
    /\ UNCHANGED <<on, failing, peak, data, shown, changed, stats, wrong, stops>>
\* What is known is of the inverter that was replaced.
Outdated(s) == replaced /\ s.known >= First
\* It stops, or crashes without storing anything; no crash forgets that a replaced
\* inverter was accepted just before.
Stop ==
    /\ on /\ stops < Stops /\ on' = FALSE /\ stops' = stops + 1
    /\ \/ Stores
       \/ (Outdated(disk) => Outdated(sensor)) /\ UNCHANGED <<world, disk>>
    /\ shown' = Gone
    /\ UNCHANGED <<failing, peak, data, sensor, changed, stats, wrong>>
\* async_added_to_hass, after the first good poll of a setup: the value, and the time its
\* state last changed.
Restored(ticks) == IF disk.known = None THEN NewSensor ELSE Aged(disk, ticks)
Start ==
    /\ ~on /\ on' = TRUE
    /\ \E ticks \in 1..2 :
        /\ Makes(Peak * ticks) /\ disk' = Aged(disk, ticks)
        /\ \/ ReadsTrue(Restored(ticks)) \/ ReadsNothing(Restored(ticks))
           \/ Misread(Restored(ticks))
    /\ UNCHANGED stops

Replace ==
    /\ ~replaced /\ replaced' = TRUE
    /\ counter' = Second /\ pending' = 0 /\ made' = made + Second
    /\ UNCHANGED <<on, failing, peak, data, sensor, disk, shown, changed, stats, wrong, stops>>

Next ==
    \/ PollTrue \/ PollNothing \/ PollMisread \/ PollFails
    \/ Dump \/ Stop \/ Start \/ Replace

Spec == Init /\ [][Next]_vars
\* Home Assistant polls for as long as it runs, it is started again, and the inverter
\* answers with its register again and again.
FairSpec == Spec /\ WF_vars(PollTrue) /\ WF_vars(Start)
=============================================================================
