------------------------ MODULE EnergyFilterProperties ------------------------
(***************************************************************************)
(* What the filter keeps out of the statistics, and what it lets through.  *)
(***************************************************************************)
EXTENDS EnergyFilter

\* The types: the filter counts below its limit, the register shows no more than was made.
TypeOK ==
    /\ {made, pending} \subseteq Nat /\ counter \in Second..(First + MaxMade)
    /\ {replaced, on, failing, peak} \subseteq BOOLEAN
    /\ data \in [value : Nat \cup {None}, misread : BOOLEAN]
    /\ shown \in Nat \cup {None, Gone} /\ stats \in [booked : Int, last : Nat \cup {None}]
    /\ wrong \in 0..Misreads /\ stops \in 0..Stops
    /\ {sensor, disk} \subseteq [known : Nat \cup {None}, rejected : 0..(RecoveryCount - 1),
                                 age : 0..MaxAge, late : BOOLEAN]
    /\ changed \in [age : 0..MaxAge, late : BOOLEAN]

\* The statistics never hold more energy than was made, through missed polls, restarts and
\* replacements, as long as fewer polls in a row are misread than it takes to accept a fall,
\* no held value is evaluated again, and the counters stay apart. A total a thousand times
\* too small that came through would be booked as a meter that starts again, and the whole
\* lifetime total with it (the comment in native_value).
BooksOnlyWhatWasMade == stats.booked <= made

\* What the filter holds back is an outlier: a true reading that is no fall is taken at
\* once, however long the register stood still, polls failed or Home Assistant was down
\* (_max_native_delta), if the baseline was not far behind when its window began.
HoldsOnlyOutliers ==
    (on /\ data.value = counter /\ wrong = 0 /\ data.value >= sensor.known /\ ~sensor.late)
        => sensor.rejected = 0

\* The filter never freezes: the sensor comes back to what the inverter counts, after
\* misreads, a replaced inverter or a restart with an old value.
NeverFrozen == []<>(on /\ shown = counter)

\* A counter that goes down is taken for a real reset only after three polls in a row
\* (docs/troubleshooting.md: "If the counter stays low for three polls in a row, the
\* integration takes it as a real reset and accepts it"): two misread polls never move it.
MisreadsAreNeverShown == shown \notin {Low, High}

\* "A log line `Dropping implausible energy delta` is therefore a real outlier, not just a
\* slow counter" (docs/troubleshooting.md): a true reading that is no fall is never held.
SlowCountersAreTaken ==
    (on /\ data.value = counter /\ wrong = 0 /\ data.value >= sensor.known)
        => sensor.rejected = 0
-----------------------------------------------------------------------------
(***************************************************************************)
(* The inductive invariant, for misreads that stay below the count, values *)
(* that are not evaluated again while they are held, and counters that     *)
(* make less than a ninth of what they show.                               *)
(***************************************************************************)
\* Each counter starts where it does, and what both made adds up.
CountersAddUp ==
    /\ IF replaced THEN counter >= Second /\ counter + pending <= made
                   ELSE counter >= First /\ counter + pending = First + made
    /\ made <= MaxMade + (IF replaced THEN Second ELSE 0)

\* A value of the register that is there, and of the one that was replaced.
Current(value) ==
    value \in Nat /\ value <= counter /\ value >= (IF replaced THEN Second ELSE First)
Past(value) ==
    /\ replaced /\ value \in Nat
    /\ value >= First /\ value <= First + made - (counter + pending)

\* What is known was read from a register, and what was made since the window began is
\* within what the window allows.
WithinWindow(known, window) ==
    window.late \/ window.age = MaxAge
        \/ counter + pending - known <= Peak * (SafetyFactor - 1) + Peak * window.age
Knows(s, window) ==
    \/ s.known = None
    \/ Past(s.known)
    \/ Current(s.known) /\ WithinWindow(s.known, window)
KnowsARegister == Knows(sensor, sensor) /\ Knows(sensor, changed) /\ Knows(disk, disk)

\* Without a baseline there is none to store and no reading that could be one; a reading
\* that is not taken is counted, and only a misread or one the window is too short for.
ReadingsAreCounted ==
    /\ sensor.known = None => sensor.rejected = 0 /\ data.value = None /\ disk.known = None
    /\ disk.rejected = 0
    /\ data.value \notin {None, sensor.known} => sensor.rejected > 0
    /\ sensor.rejected > wrong => sensor.late \/ Outdated(sensor)
    /\ IF on THEN shown \in {None, Gone, sensor.known} ELSE shown = Gone

\* The statistics hold what one counter rose by, or what both did; once they have seen
\* the new one nothing goes back to the old.
Books(st, s) ==
    \/ st.last = None /\ st.booked = 0
    \/ Past(st.last) /\ st.booked <= st.last - First
    \/ /\ Current(st.last)
       /\ IF replaced
            THEN st.booked <= made - (counter + pending) + st.last /\ ~Outdated(s)
            ELSE st.booked <= st.last - First
BookedSoFar == Books(stats, IF on THEN sensor ELSE disk)

\* Polls are misread fewer times in a row than it takes to accept a value, and a value that is
\* held is not evaluated again before the next poll.
MisreadsAreFew == Misreads < RecoveryCount /\ RereadsHeld = FALSE
\* What is made does not bring the new counter to where the old one started, and is no
\* more than a ninth of what a counter shows: no state that a restart restores is so old
\* that Home Assistant takes it for a meter that starts again.
CountersStayApart == Second + MaxMade < First /\ 9 * MaxMade <= Second

IInv == TypeOK /\ CountersAddUp /\ KnowsARegister /\ ReadingsAreCounted /\ BookedSoFar
=============================================================================
