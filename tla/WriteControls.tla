----------------------------- MODULE WriteControls -----------------------------
(***************************************************************************)
(* The write controls: which points become entities (write_controls.py,    *)
(* number.py), and how a value and its enable flag are written, in one     *)
(* batch, as an off/on cycle (vendors/profile.py, plan_write), or as the   *)
(* verified dispatch of a FranklinWH battery (franklinwh_controls.py).     *)
(* "edge" is a device whose cycle the user has switched on (rearm); with   *)
(* the cycle off its writes are planned like those of a plain one.         *)
(*                                                                         *)
(* One value with its flag is modelled: the export limit of models 123 and *)
(* 704, or the battery power of a FranklinWH. A write or a poll holds the  *)
(* gateway lock from its first step to its last; they get it in the order  *)
(* they ask for it.                                                        *)
(***************************************************************************)
EXTENDS Integers, Sequences, FiniteSets

CONSTANTS
    Devices,            \* what a device does with a new value, and who writes it
    Values,             \* what the user sets: percents, or signed watts
    Rating,             \* the battery's power, both ways (power_limits)
    ModelSets,          \* sets of models a device may have
    Unsupported,        \* VendorProfile.unsupported_controls
    Waiting,            \* bound: tasks that wait for the lock at a time
    Events              \* bound: what the user asks for and what fails

ASSUME DevicesAreKnown == Devices \subseteq {"plain", "edge", "franklin"}
ASSUME ValuesAreNumbers == 0 \in Values /\ Values \subseteq Int /\ Rating \in Nat
ASSUME BoundsAreNumbers == Waiting \in Nat /\ Events \in Nat

Nothing == 1000         \* no limit or command is in force
Unset == 1001           \* a point a step leaves alone, a command not given
ASSUME MarkersAreNoValues == {Nothing, Unset} \cap Values = {}
-----------------------------------------------------------------------------
(***************************************************************************)
(* Which points become controls.                                           *)
(***************************************************************************)
Of(model, names) == {<<model, name>> : name \in names}
Model123Points ==
    Of(123, {"WMaxLimPct", "WMaxLim_Ena", "WMaxLimPct_RvrtTms", "OutPFSet", "OutPFSet_Ena", "Conn"})
Model704Points ==
    Of(704, {"WMaxLimPct", "WMaxLimPctEna", "WMaxLimPctRvrtTms", "WMaxLimPctRvrt",
             "WMaxLimPctEnaRvrt", "WSet", "WSetPct", "WSetEna", "WSetMod"})
Model124Points ==
    Of(124, {"InWRte", "OutWRte", "WChaMax", "StorCtl_Mod", "InOutWRte_RvrtTms", "MinRsvPct",
             "ChaGriSet"})

\* Model 704 wins over 123; storage is added whenever it is there.
ActiveSpecs(models) ==
    ((IF 704 \in models THEN Model704Points ELSE IF 123 \in models THEN Model123Points ELSE {})
     \cup (IF 124 \in models THEN Model124Points ELSE {})) \ Unsupported

\* The pair the service writes, resolved on its own.
ExportLimitPoints(models) ==
    IF 704 \in models THEN <<<<704, "WMaxLimPct">>, <<704, "WMaxLimPctEna">>>>
    ELSE IF 123 \in models THEN <<<<123, "WMaxLimPct">>, <<123, "WMaxLim_Ena">>>> ELSE <<>>
-----------------------------------------------------------------------------
VARIABLES
    kind,       \* the device
    models,     \* coordinator.detected_models
    dev,        \* the registers, and the value in force
    seen,       \* coordinator.data: the flag as last read
    queue,      \* polls and writes that wait for the gateway lock
    turn,       \* the write that holds it, with the steps it has still to do
    wanted,     \* history: the value and the flag of the writes that succeeded
    stale,      \* history: a plan went by a flag the device no longer had
    lost,       \* history: a write failed, or the device changed something itself
    left        \* what is left of Events

vars == <<kind, models, dev, seen, queue, turn, wanted, stale, lost, left>>

Step == [op : {"write", "read", "verify"}, value : Values \cup {Unset}, ena : {0, 1, Unset}]
Write(value, ena) == [op |-> "write", value |-> value, ena |-> ena]
Do(op) == [op |-> op, value |-> Unset, ena |-> Unset]
Free == [value |-> Unset, ena |-> Unset, todo |-> <<>>]
Quiet == queue = <<>> /\ turn = Free

\* A step that takes one of the Events.
Event == left > 0 /\ left' = left - 1

\* The device: a new value is in force at once while the flag is on, but with
\* "edge" only when the flag goes on.
Applied(d, step) ==
    LET value == IF step.value = Unset THEN d.value ELSE step.value
        ena == IF step.ena = Unset THEN d.ena ELSE step.ena
        held == d.ena = 1 /\ kind = "edge"
    IN [value |-> value, ena |-> ena,
        force |-> IF ena = 0 THEN Nothing ELSE IF held THEN d.force ELSE value]

\* A bug: the flag is lowered, and never raised again.
PlanHalf(value, ena) ==
    IF kind = "edge" /\ value # Unset /\ ena # 0 /\ seen = 1
    THEN <<Write(Unset, 0), Write(value, Unset)>> ELSE <<Write(value, ena)>>
\* A bug: the value goes out while the flag is still on.
PlanLate(value, ena) ==
    IF kind = "edge" /\ value # Unset /\ ena # 0 /\ seen = 1
    THEN <<Write(value, Unset), Write(Unset, 0), Write(Unset, 1)>> ELSE <<Write(value, ena)>>
\* plan_write: where the device takes a value only when the flag goes on, the
\* flag off, the value, the flag on; it goes by what the last poll read.
PlanWrite(value, ena) ==
    IF kind = "edge" /\ value # Unset /\ ena # 0 /\ seen = 1
    THEN <<Write(Unset, 0), Write(value, Unset), Write(Unset, 1)>>
    ELSE <<Write(value, ena)>>

\* async_set_power: released in one batch, or from the reading of the flag on.
Dispatch(watts) ==
    IF watts = Unset THEN <<Do("read"), Write(0, 0), Do("verify")>>
    ELSE <<Do("read"), Write(watts, Unset), Do("verify")>>
-----------------------------------------------------------------------------
(***************************************************************************)
(* Asking for the lock.                                                    *)
(***************************************************************************)
Queued(job) == /\ Len(queue) < Waiting
               /\ queue' = Append(queue, job)
               /\ UNCHANGED <<kind, models, dev, seen, turn, wanted, stale, lost>>

Job(value, ena) == [kind |-> "write", value |-> value, ena |-> ena]

\* The export limit: its number, its switch and the service.
Limits == kind # "franklin" /\ ExportLimitPoints(models) # <<>> /\ Event
SetNumber == Limits /\ \E v \in Values \cap Nat : Queued(Job(v, Unset))
SetSwitch == Limits /\ \E ena \in {0, 1} : Queued(Job(Unset, ena))
SetExportLimit == Limits /\ \E v \in Values \cap Nat : Queued(Job(v, 1))

\* The power target, standby and release of a FranklinWH.
SetPower ==
    /\ kind = "franklin" /\ Event
    /\ \/ \E v \in Values : Queued(Job(v, 1))
       \/ Queued(Job(Unset, 0))

\* A poll is due, or a write asked for a refresh.
PollDue ==
    /\ \A i \in DOMAIN queue : queue[i].kind # "poll"
    /\ Queued([kind |-> "poll", value |-> Unset, ena |-> Unset])
    /\ UNCHANGED left
-----------------------------------------------------------------------------
(***************************************************************************)
(* Holding it.                                                             *)
(***************************************************************************)
\* A poll reads the registers, or fails.
Poll ==
    /\ turn = Free /\ queue # <<>> /\ Head(queue).kind = "poll"
    /\ queue' = Tail(queue)
    /\ \/ seen' = dev.ena /\ left' = left
       \/ Event /\ seen' = seen
    /\ UNCHANGED <<kind, models, dev, turn, wanted, stale, lost>>

\* A write plans its steps under the lock (async_write_points_locked).
Begin ==
    /\ turn = Free /\ queue # <<>> /\ Head(queue).kind = "write"
    /\ queue' = Tail(queue)
    /\ LET job == Head(queue) IN
        /\ turn' = [value |-> job.value, ena |-> job.ena,
                    todo |-> IF kind = "franklin" THEN Dispatch(job.value)
                             ELSE PlanWrite(job.value, job.ena)]
        /\ stale' = (stale \/ (kind = "edge" /\ job.value # Unset /\ seen # dev.ena))
    /\ UNCHANGED <<kind, models, dev, seen, wanted, lost, left>>

\* What a write that has done all its steps has brought about.
Done ==
    /\ turn' = Free
    /\ wanted' = [value |-> IF turn.value = Unset THEN wanted.value ELSE turn.value,
                  ena |-> IF turn.ena = Unset THEN wanted.ena ELSE turn.ena]

\* One batch of a write.
WriteStep ==
    /\ turn.todo # <<>> /\ Head(turn.todo).op = "write"
    /\ dev' = Applied(dev, Head(turn.todo))
    /\ IF Len(turn.todo) = 1 THEN Done
       ELSE turn' = [turn EXCEPT !.todo = Tail(@)] /\ UNCHANGED wanted
    /\ UNCHANGED <<kind, models, seen, queue, stale, lost, left>>

InRange(watts) == -Rating <= watts /\ watts <= Rating

\* The FranklinWH reads the flag under the lock, so that it is raised only when
\* it is down, and refuses a power beyond the ratings.
ReadStep ==
    /\ turn.todo # <<>> /\ Head(turn.todo).op = "read"
    /\ IF turn.value # Unset /\ turn.value # 0 /\ ~InRange(turn.value)
       THEN turn' = Free
       ELSE turn' = [turn EXCEPT !.todo =
                IF turn.value = Unset \/ dev.ena = 1 THEN Tail(@)
                ELSE <<@[2], Write(Unset, 1), @[3]>>]
    /\ UNCHANGED <<kind, models, dev, seen, queue, wanted, stale, lost, left>>

\* It reads the settings back, and publishes them.
VerifyStep ==
    /\ turn.todo # <<>> /\ Head(turn.todo).op = "verify"
    /\ LET value == IF turn.value = Unset THEN 0 ELSE turn.value IN
        IF dev.ena = turn.ena /\ dev.value = value
        THEN /\ Done /\ seen' = dev.ena /\ UNCHANGED lost
        ELSE /\ turn' = Free /\ lost' = TRUE /\ UNCHANGED <<wanted, seen>>
    /\ UNCHANGED <<kind, models, dev, queue, stale, left>>

\* A batch goes out in frames of adjacent points (async_write_points): of model
\* 123 the value before the flag, of a FranklinWH the flag before the power, of
\* model 704 value and flag in one.
FirstFrame(step) ==
    IF kind = "franklin" THEN Write(Unset, step.ena)
    ELSE IF 704 \in models THEN step ELSE Write(step.value, Unset)

\* A step fails, and the write with it: refused, or without an answer although
\* it arrived, whole or in its first frame. The steps behind it are never done.
StepFails ==
    /\ Event /\ turn.todo # <<>>
    /\ \/ dev' = dev
       \/ /\ Head(turn.todo).op = "write"
          /\ \E step \in {Head(turn.todo), FirstFrame(Head(turn.todo))} : dev' = Applied(dev, step)
    /\ turn' = Free /\ lost' = TRUE
    /\ UNCHANGED <<kind, models, seen, queue, wanted, stale>>

\* The revert timer runs out, or the battery's owner takes it back: the flag
\* falls.
DeviceReverts ==
    /\ Event
    /\ dev' = [dev EXCEPT !.ena = 0, !.force = Nothing] /\ lost' = TRUE
    /\ UNCHANGED <<kind, models, seen, queue, turn, wanted, stale>>

\* Home Assistant stops in the middle of a write, and starts with a first poll.
Restart ==
    /\ Event
    /\ queue' = <<>> /\ turn' = Free /\ seen' = dev.ena
    /\ lost' = (lost \/ turn # Free)
    /\ UNCHANGED <<kind, models, dev, wanted, stale>>

Init ==
    /\ kind \in Devices
    /\ models \in (IF kind = "franklin" THEN {{704}} ELSE ModelSets)
    /\ kind = "edge" => 704 \notin models      \* enable_edge is of model 123
    /\ dev = [value |-> 0, ena |-> 0, force |-> Nothing]
    /\ seen = 0 /\ wanted = [value |-> 0, ena |-> 0]
    /\ queue = <<>> /\ turn = Free
    /\ stale = FALSE /\ lost = FALSE /\ left = Events

Next ==
    \/ SetNumber \/ SetSwitch \/ SetExportLimit \/ SetPower \/ PollDue
    \/ Poll \/ Begin \/ WriteStep \/ ReadStep \/ VerifyStep \/ StepFails
    \/ DeviceReverts \/ Restart

Spec == Init /\ [][Next]_vars
=============================================================================
