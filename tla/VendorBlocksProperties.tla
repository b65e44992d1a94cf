------------------------- MODULE VendorBlocksProperties -------------------------
(***************************************************************************)
(* What the raw blocks promise.                                            *)
(***************************************************************************)
EXTENDS VendorBlocks

\* The types; what waits for the lock or settles has something to write.
TypeOK ==
    /\ profile \in Profiles /\ serves \subseteq Block
    /\ \A b \in Block : /\ probe[b].skip \in 0..Reprobe /\ probe[b].misses \in 0..(Retry - 1)
                        /\ probe[b].skip > 0 => ~There(probe[b].last)
    /\ \A f \in Field : regs[f] \in Value /\ setpoints[f] \in Value \cup {None}
    /\ UnderWay \in 0..Rewrites
    /\ \A i \in DOMAIN queue : queue[i].todo # <<>>
    /\ \A i \in DOMAIN settling : settling[i] # <<>>

\* "Such a block keeps its last reading and is asked again the next cycle; only
\* when it fails RETRY_CYCLES cycles in a row is it taken for absent"
\* (raw_blocks.py): what an ungated block shows is younger than that, cycles
\* whose connection failed under it aside.
ReadingsAreRecent ==
    \A b \in Block :
        profile.gate[b] = Ungated /\ There(shown[b]) => shown[b].age < Retry

\* A probe as the reader keeps it: its waits and misses are within their
\* limits, and while the reader waits to ask again it keeps no reading.
ProbeOK(p) ==
    /\ DOMAIN p = {"skip", "misses", "last"} /\ DOMAIN p.last = DOMAIN Unread
    /\ p.skip \in 0..Reprobe /\ p.misses \in 0..(Retry - 1) /\ p.last.age \in Int
    /\ p.skip > 0 => ~There(p.last)

\* The reading a probe keeps is not older than its misses in a row: a failed
\* connection ages it as little as it counts.
NoOlderThanItsMisses(p) == There(p.last) => p.last.age <= p.misses

\* Why the readings are recent, as an inductive invariant. A gated block also
\* ages while its gate is closed, when it is not asked and misses nothing.
IInv ==
    /\ \A b \in Block : ProbeOK(probe[b])
    /\ \A b \in Readable : profile.gate[b] = Ungated => NoOlderThanItsMisses(probe[b])
    /\ ReadingsAreRecent

\* "A feature can be switched on by the vendor's support without a reconnect"
\* (raw_blocks.py), and "gets its sensors then" (raw_block_sensors): a block the
\* device serves is shown again and has its sensors, however it was lost.
Served(b) ==
    /\ b \in serves \cap Readable
    /\ profile.gate[b] # Ungated => profile.gate[b] \in serves \cap positive
AnswersAgain ==
    \A b \in Block :
        <>[](Served(b) /\ \A d \in profile.needs[b] : Served(d))
            => <>[](There(shown[b]) /\ b \in sensors)

\* "A device that forgets its command" (RawKeepAliveSwitch) gets it again: with
\* the switch on, what Home Assistant last wrote is in the registers again and
\* again, whatever the device does with it and whatever fails in between.
KeptAlive ==
    \A f \in Field :
        <>[](/\ on /\ Written \in serves /\ (Written \in Readable => Served(Written))
             /\ f \in {Keep[i] : i \in DOMAIN Keep}
             /\ profile.conditional => View[Control] = Active)
            => []<>(setpoints[f] \in {None, regs[f]})

\* "The values written are what Home Assistant last wrote to each field"
\* (RawKeepAliveSwitch): a rewrite that gets the lock writes what was written
\* last, also when the user's write was ahead of it in the queue.
LastWriteStands ==
    queue # <<>> /\ Head(queue).who = "rewrite" =>
        LET write == Head(queue).todo[1] IN setpoints[write.field] \in {None, write.value}
=============================================================================
