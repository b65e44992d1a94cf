------------------------ MODULE WriteControlsProperties ------------------------
(***************************************************************************)
(* What the write controls promise.                                        *)
(***************************************************************************)
EXTENDS WriteControls

\* What the user can ask of a device.
Asked(value, ena) ==
    \/ value \in Values /\ ena \in (IF kind = "franklin" THEN {1} ELSE {1, Unset})
    \/ value = Unset /\ ena \in (IF kind = "franklin" THEN {0} ELSE {0, 1})

\* The types; at most one poll waits, and what holds the lock has steps to do.
Jobs == [kind : {"poll", "write"}, value : Values \cup {Unset}, ena : {0, 1, Unset}]
QueueOK ==
    /\ queue \in Seq(Jobs)
    /\ \A i \in DOMAIN queue : queue[i].kind = "write" => Asked(queue[i].value, queue[i].ena)
    /\ \A i, j \in DOMAIN queue : queue[i].kind = "poll" /\ queue[j].kind = "poll" => i = j
TurnOK ==
    /\ turn \in [value : Values \cup {Unset}, ena : {0, 1, Unset}, todo : Seq(Step)]
    /\ turn # Free => turn.todo # <<>> /\ Asked(turn.value, turn.ena)
TypeOK ==
    /\ kind \in {"plain", "edge", "franklin"}
    /\ dev \in [value : Values, ena : {0, 1}, force : Values \cup {Nothing}]
    /\ seen \in {0, 1} /\ wanted \in [value : Values, ena : {0, 1}]
    /\ QueueOK /\ TurnOK
    /\ stale \in BOOLEAN /\ lost \in BOOLEAN /\ left \in 0 .. Events

\* "Takes a new value only on the rising edge" (plan_write), "configures, enables
\* and verifies the dispatch" (FranklinPowerNumber): when all writes have
\* succeeded, the device runs on the value and the flag written last, unless a
\* plan went by a flag the device no longer had.
CommandInForce ==
    Quiet /\ ~lost /\ ~stale =>
        /\ dev.ena = wanted.ena
        /\ dev.force = IF wanted.ena = 1 THEN wanted.value ELSE Nothing

\* Whatever step fails, the device is left with the value its register shows in
\* force, or with none: never with an old one behind a new one (plan_write).
NoOldValueInForce == Quiet /\ ~stale => dev.force \in {Nothing, dev.value}

\* "So the service and the UI cannot end up driving different registers"
\* (set_export_limit): on a device with these models the service writes points that are entities.
ServiceMatchesEntities(ms) ==
    LET points == ExportLimitPoints(ms) IN
    \A i \in DOMAIN points : points[i] \in ActiveSpecs(ms) \cup Unsupported

\* "The cycle is for an enable that is on after this write, whether the write
\* says so or it is on already and the write leaves it alone" (plan_write): a
\* limit the user has switched off is not switched on by a new value.
SwitchedOffStaysOff == Quiet /\ ~lost /\ wanted.ena = 0 => dev.ena = 0
-----------------------------------------------------------------------------
(***************************************************************************)
(* The invariant behind the proofs of WriteControlsProofs: what is in      *)
(* force, how far the write that holds the lock has come, and what the     *)
(* registers hold as long as it has changed nothing.                       *)
(***************************************************************************)
\* Unless a plan went by a flag the device no longer had, the value in force is
\* the one in the register, also between two steps of a write.
RegisterInForce == ~stale => dev.force = IF dev.ena = 1 THEN dev.value ELSE Nothing

Cycle(value) == <<Write(Unset, 0), Write(value, Unset), Write(Unset, 1)>>

\* Everything in one batch: a value for a device that needs the edge finds the flag down.
AtOnce ==
    /\ kind # "franklin" /\ turn.todo = <<Write(turn.value, turn.ena)>>
    /\ kind = "edge" /\ ~stale /\ turn.value # Unset => dev.ena = 0
\* Off, value, on: the flag is to be on after the write.
Cycling ==
    /\ kind = "edge" /\ turn.value # Unset
    /\ \/ turn.todo = Cycle(turn.value)
       \/ turn.todo = <<Write(turn.value, Unset), Write(Unset, 1)>> /\ dev.ena = 0
       \/ turn.todo = <<Write(Unset, 1)>> /\ dev.ena = 0 /\ dev.value = turn.value
    /\ ~stale /\ ~lost => wanted.ena = 1 \/ turn.ena = 1
\* The dispatch ends with its verification, whatever it has to write.
Setting == <<Write(turn.value, Unset), Do("verify")>>
Raising == <<Write(turn.value, Unset), Write(Unset, 1), Do("verify")>>
Releasing == <<Write(0, 0), Do("verify")>>
Dispatching ==
    /\ kind = "franklin"
    /\ \/ turn.todo \in {Dispatch(turn.value), <<Do("verify")>>}
       \/ turn.value # Unset
          /\ turn.todo \in {Setting, Raising, <<Write(Unset, 1), Do("verify")>>}
       \/ turn.value = Unset /\ turn.todo = Releasing
UnderWay == turn # Free => AtOnce \/ Cycling \/ Dispatching

\* The registers hold what was written last, as long as the next write has changed nothing. A
\* battery that is released keeps no power.
Settled ==
    /\ dev.ena = wanted.ena
    /\ kind # "franklin" \/ wanted.ena = 1 => dev.value = wanted.value
NothingDone ==
    \/ turn = Free
    \/ turn.todo \in {<<Write(turn.value, turn.ena)>>, Cycle(turn.value), Dispatch(turn.value)}

IInv ==
    /\ TypeOK
    /\ RegisterInForce
    /\ UnderWay
    /\ ~stale /\ ~lost /\ NothingDone => Settled
=============================================================================
