------------------------------ MODULE VendorBlocks ------------------------------
(***************************************************************************)
(* The registers a vendor keeps outside the SunSpec models: reading them   *)
(* each cycle (raw_blocks.py), the entities over them, the user's writes   *)
(* and the timed rewrites (vendor_blocks.py, async_write_raw_locked).      *)
(*                                                                         *)
(* One block holds the fields that are written; of the others only whether *)
(* they answer and whether they open the gate of another block matters.    *)
(* The counter of the writes is left out: nothing goes by it.              *)
(* A cycle here is a poll that gets as far as the blocks; one that fails   *)
(* before leaves everything here as it is.                                 *)
(***************************************************************************)
EXTENDS VendorProfiles, Integers, Sequences, FiniteSets

CONSTANTS
    Block,
    Written,            \* the block whose fields are written
    Field,              \* its fields
    Control,            \* the field a conditional rewrite goes by
    Active,             \* and the value it wants there
    Value,              \* what a field can hold
    Profiles,           \* the vendor profiles: gates, devices, what is rewritten
    Reprobe,            \* REPROBE_CYCLES
    Retry,              \* RETRY_CYCLES
    Rewrites,           \* bound: rewrites under way at a time
    Events              \* bound: what the user does, what fails, restarts

None == -1          \* nothing written, nothing read
Profile == [gate : [Block -> Block \cup {Ungated}], needs : [Block -> SUBSET Block],
            writeOnly : SUBSET {Written}, keep : Seq(Field), conditional : BOOLEAN]

ASSUME CyclesAreCounted == Reprobe \in Nat \ {0} /\ Retry \in Nat \ {0}
ASSUME RewritesAreCounted == Rewrites \in Nat \ {0}
ASSUME BlocksAreNamed == Written \in Block /\ Control \in Field /\ Active \in Value
ASSUME ProfilesAreProfiles ==
    \A p \in Profiles : p \in Profile /\ \A b \in Block :
        p.gate[b] # Ungated => p.gate[p.gate[b]] = Ungated

VARIABLES
    profile,    \* the device's vendor profile
    serves,     \* blocks the device answers
    positive,   \* blocks whose gate field holds a number above zero
    regs,       \* the registers of Written
    probe,      \* RawBlockReader._probes
    shown,      \* coordinator.raw_blocks
    setpoints,  \* coordinator.raw_setpoints
    queue,      \* writes that wait for the gateway lock, in the order they came, each with
                \* what its _write or _rewrite has still to do
    settling,   \* runs of RawKeepAliveSwitch._rewrite that let the device settle
    on,         \* the keep-alive switch runs its timer
    saved,      \* whether the switch was on when Home Assistant last saved it
    up,         \* the platforms are set up
    sensors,    \* blocks whose sensors exist
    controls,   \* Written, once its numbers and its switch exist
    left        \* what is left of Events

device == <<serves, positive>>
reader == <<probe, shown, sensors>>
vars == <<profile, serves, positive, regs, probe, shown, setpoints, queue, settling, on, saved,
          up, sensors, controls, left>>

Readable == Block \ profile.writeOnly
Keep == profile.keep
Unread == [age |-> None, opens |-> FALSE, fields |-> [f \in Field |-> None]]
Fresh == [skip |-> 0, misses |-> 0, last |-> Unread]
There(reading) == reading # Unread
\* What a block holds; ages are counted in cycles, up to Retry + 1.
Reading(b) ==
    [age |-> 0, opens |-> b \in positive,
     fields |-> IF b = Written THEN regs ELSE Unread.fields]
Older(reading) ==
    IF There(reading) /\ reading.age <= Retry
    THEN [reading EXCEPT !.age = @ + 1] ELSE reading

\* A step that takes one of the Events.
Event == left > 0 /\ left' = left - 1
-----------------------------------------------------------------------------
(***************************************************************************)
(* Reading.                                                                *)
(***************************************************************************)
\* RawBlockReader._mark_absent
MarkAbsent(p) == [skip |-> Reprobe, misses |-> 0, last |-> Unread]

\* A bug: the misses are not counted.
FailedForgets(p) == IF There(p.last) /\ p.misses + 1 < Retry THEN p ELSE MarkAbsent(p)
\* RawBlockReader._fail: a recent reading is kept through isolated failures.
Failed(p) ==
    IF There(p.last) /\ p.misses + 1 < Retry THEN [p EXCEPT !.misses = @ + 1]
    ELSE MarkAbsent(p)

Waiting(p) == p.skip > 1
\* The probe of block b after a cycle that gets this outcome from the device,
\* if it is asked at all.
Probed(b, asked, outcome) ==
    LET p == [probe[b] EXCEPT !.last = Older(@), !.skip = IF @ > 0 THEN @ - 1 ELSE 0] IN
    IF ~asked \/ Waiting(probe[b]) THEN p
    ELSE CASE outcome = "answer" -> [skip |-> 0, misses |-> 0, last |-> Reading(b)]
           [] outcome = "miss"   -> Failed(p)
           [] outcome = "link"   -> [p EXCEPT !.last = probe[b].last]

\* What the cycle puts into its result for a block.
Result(b, asked, p) == IF asked /\ ~Waiting(probe[b]) THEN p.last ELSE Unread

\* The gate of a block, by what this cycle has of the gating block.
GateOpen(b, result) ==
    profile.gate[b] = Ungated \/ (There(result[profile.gate[b]]) /\ result[profile.gate[b]].opens)

\* A block the device does not serve is refused or not answered; any other may
\* be so once, and the connection may fail under each.
Outcome(missed, broken) ==
    [b \in Block |-> IF b \in broken THEN "link"
                     ELSE IF b \in missed \/ b \notin serves THEN "miss" ELSE "answer"]

\* RawBlockReader.async_read, the ungated blocks before those they gate.
AfterCycle(outcome) ==
    LET ask1 == {b \in Readable : profile.gate[b] = Ungated}
        p1 == [b \in Block |-> Probed(b, b \in ask1, outcome[b])]
        r1 == [b \in Block |-> Result(b, b \in ask1, p1[b])]
        ask == {b \in Readable : GateOpen(b, r1)}
        p2 == [b \in Block |-> Probed(b, b \in ask, outcome[b])]
    IN [probe |-> p2, shown |-> [b \in Block |-> Result(b, b \in ask, p2[b])]]

\* _device_for: a device is there only when its info_block and the block it requires both
\* answered; the inverter's own needs none.
DeviceThere(b, raw) == \A d \in profile.needs[b] : There(raw[d])
\* A bug: sensors are built at setup only.
BuildableAtSetup(raw) == {b \in Block : ~up /\ There(raw[b]) /\ DeviceThere(b, raw)}
\* raw_block_sensors
Buildable(raw) == {b \in Block : There(raw[b]) /\ DeviceThere(b, raw)}

\* The numbers, the selects and the switch are built once, over a block that
\* answered (_block_answers); the switch is on again if it was.
Platforms ==
    /\ controls' = IF /\ Written \in profile.writeOnly \/ There(shown'[Written])
                      /\ DeviceThere(Written, shown')
                    THEN {Written} ELSE {}
    /\ on' = (saved /\ Written \in controls')

\* One poll reads the blocks, and the sensor platform adds the sensors of the
\* blocks that answer for the first time.
Cycle ==
    \E trouble \in {s \in SUBSET Readable : Cardinality(s) <= left} :
    \E missed \in SUBSET trouble :
        LET result == AfterCycle(Outcome(missed, trouble \ missed)) IN
        /\ missed \subseteq serves
        /\ left' = left - Cardinality(trouble)
        /\ probe' = result.probe
        /\ shown' = result.shown
        /\ sensors' = sensors \cup Buildable(shown')
        /\ IF up THEN UNCHANGED <<controls, on>> ELSE Platforms
        /\ up' = TRUE
        /\ UNCHANGED <<profile, serves, positive, regs, setpoints, queue, settling, saved>>
-----------------------------------------------------------------------------
(***************************************************************************)
(* Writing.                                                                *)
(***************************************************************************)
\* RawBlockEntity.available, for the numbers, the selects and the switch.
Available == Written \in controls /\ (Written \in profile.writeOnly \/ There(shown[Written]))

\* A number or a select: RawBlockEntity._write, up to the lock.
UserSets ==
    \E f \in Field, v \in Value :
        /\ Event /\ Available
        /\ queue' = Append(queue, [who |-> "user", todo |-> <<[field |-> f, value |-> v]>>])
        /\ UNCHANGED <<profile, device, regs, reader, setpoints, settling, on, saved, up,
                       controls>>

\* The device's view with Home Assistant's own writes on top.
View ==
    [f \in Field |->
        IF f \in {Keep[i] : i \in DOMAIN Keep} /\ setpoints[f] # None THEN setpoints[f]
        ELSE shown[Written].fields[f]]

\* What a rewrite writes: the fields that have a value, as they are at this moment.
Renewed == LET known == SelectSeq(Keep, LAMBDA f : View[f] # None) IN
    [i \in DOMAIN known |-> [field |-> known[i], value |-> View[known[i]]]]
Queues(todo) == queue' = Append(queue, [who |-> "rewrite", todo |-> todo])

\* A bug: a block that is never read has nothing to write again.
RewritingWhatIsRead ==
    IF \/ ~There(shown[Written])
       \/ profile.conditional /\ View[Control] # Active
       \/ Renewed = <<>>
    THEN UNCHANGED queue ELSE Queues(Renewed)
\* _rewrite up to its first wait.
Rewriting ==
    IF \/ Written \in Readable /\ ~There(shown[Written])
       \/ profile.conditional /\ View[Control] # Active
       \/ Renewed = <<>>
    THEN UNCHANGED queue ELSE Queues(Renewed)

\* Nothing keeps a rewrite from beginning while others wait for the lock or the device.
UnderWay == Cardinality({i \in DOMAIN queue : queue[i].who = "rewrite"}) + Len(settling)
RewriteFires ==
    /\ on /\ UnderWay < Rewrites /\ Rewriting
    /\ UNCHANGED <<profile, device, regs, reader, setpoints, settling, on, saved, up, controls,
                   left>>

TurnOn ==
    /\ Event /\ Available /\ UnderWay < Rewrites
    /\ on' = TRUE /\ Rewriting
    /\ UNCHANGED <<profile, device, regs, reader, setpoints, settling, saved, up, controls>>

\* A rewrite under way goes on.
TurnOff ==
    /\ Event /\ Available /\ on
    /\ on' = FALSE
    /\ UNCHANGED <<profile, device, regs, reader, setpoints, queue, settling, saved, up, controls>>

\* settle_seconds later, the next field; they settle equally long.
SettleOver ==
    /\ settling # <<>>
    /\ Queues(Head(settling)) /\ settling' = Tail(settling)
    /\ UNCHANGED <<profile, device, regs, reader, setpoints, on, saved, up, controls, left>>

\* async_write_raw_locked after the device confirmed the write.
Confirmed(w) ==
    /\ regs' = [regs EXCEPT ![w.todo[1].field] = w.todo[1].value]
    /\ setpoints' = [setpoints EXCEPT ![w.todo[1].field] = w.todo[1].value]
    /\ settling' = IF Len(w.todo) = 1 THEN settling ELSE Append(settling, Tail(w.todo))

\* It failed: refused, no lock in time, or no answer although it arrived; a rewrite ends there.
NotWritten(w, arrived) ==
    /\ regs' = IF arrived THEN [regs EXCEPT ![w.todo[1].field] = w.todo[1].value] ELSE regs
    /\ UNCHANGED <<setpoints, settling>>

\* The next write gets the gateway lock.
Write ==
    /\ queue # <<>>
    /\ queue' = Tail(queue)
    /\ \/ Written \in serves /\ left' = left /\ Confirmed(Head(queue))
       \/ Written \notin serves /\ left' = left /\ NotWritten(Head(queue), FALSE)
       \/ Written \in serves /\ Event /\ \E arrived \in BOOLEAN : NotWritten(Head(queue), arrived)
    /\ UNCHANGED <<profile, device, reader, on, saved, up, controls>>
-----------------------------------------------------------------------------
(***************************************************************************)
(* The device, and Home Assistant around it.                               *)
(***************************************************************************)
\* The vendor's support switches a block on or off, a battery is fitted.
DeviceChanges ==
    /\ Event
    /\ \E b \in Block :
        \/ /\ serves' = (serves \ {b}) \cup ({b} \ serves) /\ positive' = positive
        \/ /\ \E c \in Block : profile.gate[c] = b
           /\ positive' = (positive \ {b}) \cup ({b} \ positive) /\ serves' = serves
    /\ UNCHANGED <<profile, regs, reader, setpoints, queue, settling, on, saved, up, controls>>

\* A command times out, a limit reverts, or somebody else sets a field.
DeviceForgets ==
    /\ Event
    /\ \E f \in Field, v \in Value : regs' = [regs EXCEPT ![f] = v]
    /\ UNCHANGED <<profile, device, reader, setpoints, queue, settling, on, saved, up, controls>>

\* Home Assistant saves what it restores, every quarter of an hour.
Saves ==
    /\ up /\ saved # on
    /\ saved' = on
    /\ UNCHANGED <<profile, device, regs, reader, setpoints, queue, settling, on, up, controls,
                   left>>

\* Home Assistant starts again, after a crash with what it saved last. The next
\* poll sets the entry up.
Restart ==
    /\ Event /\ up
    /\ saved' \in {saved, on}
    /\ up' = FALSE /\ on' = FALSE
    /\ probe' = [b \in Block |-> Fresh] /\ shown' = [b \in Block |-> Unread]
    /\ setpoints' = [f \in Field |-> None]
    /\ queue' = <<>> /\ settling' = <<>>
    /\ sensors' = {} /\ controls' = {}
    /\ UNCHANGED <<profile, device, regs>>

Init ==
    /\ profile \in Profiles
    /\ serves = Block /\ positive \in {{}, {b \in Block : \E c \in Block : profile.gate[c] = b}}
    /\ \E v \in Value : regs = [f \in Field |-> v]
    /\ up = FALSE /\ on = FALSE /\ saved = FALSE
    /\ probe = [b \in Block |-> Fresh] /\ shown = [b \in Block |-> Unread]
    /\ setpoints = [f \in Field |-> None]
    /\ queue = <<>> /\ settling = <<>>
    /\ sensors = {} /\ controls = {}
    /\ left = Events

Next ==
    \/ Cycle \/ UserSets \/ RewriteFires \/ TurnOn \/ TurnOff \/ SettleOver \/ Write
    \/ DeviceChanges \/ DeviceForgets \/ Saves \/ Restart

Spec == Init /\ [][Next]_vars

\* Polls come again, the timer of the switch too, and the lock is handed on.
FairSpec ==
    Spec /\ WF_vars(Cycle) /\ WF_vars(RewriteFires) /\ WF_vars(SettleOver) /\ WF_vars(Write)
=============================================================================
