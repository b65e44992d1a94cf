------------------------ MODULE DailyCounterProperties ------------------------
(***************************************************************************)
(* What the ledger promises of the counter it reads.                       *)
(***************************************************************************)
EXTENDS DailyCounter

VARIABLE told       \* history: what true readings told of the counters

\* What the ledger took of the counters that ended (past) and of this one (top).
\* While it has taken none of this one: the first true reading, the time of the
\* last, and whether they came tick by tick (steady). And whether every one of
\* them showed the restart (plain), and no crash forgot a reading (kept).
Taken(past, top, plain, kept) ==
    [past |-> past, top |-> top, taken |-> TRUE, plain |-> plain, kept |-> kept,
     first |-> None, at |-> None, steady |-> TRUE]
ShowsRestart(w) == w * ShareOf < ShareOver * ledger.last

TellCounter ==
    told' = [told EXCEPT !.past = @ + told.top, !.top = 0, !.taken = FALSE,
                         !.first = None, !.at = now', !.steady = TRUE]
TellReading(w) ==
    LET plain == told.plain /\ (told.taken \/ ShowsRestart(w)) IN
    told' = IF ledger'.last = w THEN Taken(told.past, w, plain, told.kept)
            ELSE IF told.taken THEN told
            ELSE [told EXCEPT !.first = IF @ = None THEN w ELSE @, !.at = now,
                              !.plain = plain, !.steady = @ /\ now - told.at <= 1]
Tell ==
    IF woke' # woke THEN TellCounter
    ELSE IF on /\ ~on' THEN told' = [told EXCEPT !.kept = @ /\ stored' = Stored(ledger)]
    ELSE IF now' = now /\ served = counter /\ ledger'.seenAt = now THEN TellReading(counter)
    ELSE UNCHANGED told

ToldInit == Init /\ told = Taken(0, counter, TRUE, TRUE)
ToldNext == Next /\ Tell
ToldSpec == ToldInit /\ [][ToldNext]_<<vars, told>>
-----------------------------------------------------------------------------
\* The types: a time, a day or a value is None or a number; what is held back
\* was seen at some time.
TypeOK ==
    /\ now \in Start..End /\ counter \in Nat /\ finished \in Nat
    /\ ledger.base \in Nat /\ ledger.last \in 0..MaxDaily
    /\ ledger.lastDay \in 0..Date(now) /\ ledger.seenAt \in Start..now
    /\ ledger.pending \in {None} \cup 0..MaxDaily
    /\ (ledger.pending = None) = (ledger.pendingAt = None)

\* The lifetime total is never more than the inverter made: no day is booked
\* twice and no drop that is a stray starts a day, whatever polls, outages and
\* restarts come between (the branches of _take, lifetime_energy.py:250-314).
BooksNoMoreThanMade == Total(ledger) <= finished + counter

\* What the ledger once took of a counter stays booked when the counter starts
\* again, if the readings show the restart ("it keeps the energy of all
\* finished days", lifetime_energy.py:6-7).
NothingTakenIsLost ==
    told.plain /\ told.kept /\ told.taken => ledger.base >= told.past

\* "A restart at zero is therefore booked once the counter climbs"
\* (lifetime_energy.py:36-37): with a true reading in every tick since the
\* restart, a reading above the first one is never held back.
ClimbIsBooked ==
    /\ told.plain /\ told.kept /\ told.steady /\ told.first # None
    /\ told.at = now /\ counter > told.first
    => told.taken

\* The total never falls, nor does a clean stop or a crash that forgot nothing
\* take any of it (TOTAL_INCREASING, as_dict and from_dict).
TotalNeverFalls ==
    [][on \/ stored = Stored(ledger) => Total(ledger') >= Total(ledger)]_vars

\* What Home Assistant's statistics add for a new state of a total_increasing
\* sensor: a state under 90 % of the one before has started again from zero.
StatisticsAdd(old, new) == IF new * 10 < 9 * old THEN new ELSE new - old

\* "The sensor can book nothing that the total does not book"
\* (lifetime_energy.py:21), over midnight, strays and restarts.
TodayBooksWhatTheTotalBooks ==
    [][on \/ stored = Stored(ledger) =>
        StatisticsAdd(Today(ledger), Today(ledger')) <= Total(ledger') - Total(ledger)]_vars

\* "A bad high reading of one round does not stick" (lifetime_energy.py:44-45):
\* what the ledger takes is never above what the inverter counted.
HighReadingNeverSticks ==
    [][ledger'.last # ledger.last => ledger'.last <= counter']_vars

\* "Or a confirmed jump would book ``last`` a second time"
\* (lifetime_energy.py:222-225): once the ledger has taken a reading of the
\* counter, it books no finished day before that counter starts again.
LastIsBookedOnce == [][ledger'.base # ledger.base => ~told.taken]_<<vars, told>>
-----------------------------------------------------------------------------
(***************************************************************************)
(* Why no day is booked twice, as long as the ECU serves no stray and no   *)
(* cloud dims the morning.                                                 *)
(***************************************************************************)
\* The last reading is of the counter that runs now, on its day, and so is what
\* is held back: the counter went on since.
OfThisCounter(l) ==
    /\ l.base <= finished /\ l.last <= counter
    /\ l.lastDay <= woke /\ (l.lastDay = woke \/ l.last = 0)
    /\ l.pending # None => /\ l.last < l.pending /\ l.pending <= counter
                           /\ l.pendingDay \in {None, woke}

\* Held back since the counter started again, or before: that counter has ended
\* with no less, which the ledger has not booked yet.
HeldOfThis(l) ==
    /\ l.pending <= counter /\ (l.pending > 0 => l.pendingDay \in {None, woke})
    /\ l.pendingDay # None => l.pendingDay <= woke
HeldOfBefore(l) ==
    /\ l.base + l.pending <= finished
    /\ l.pendingDay # None => /\ l.pendingDay < woke
                              /\ \/ l.pendingDay = l.lastDay
                                 \/ l.base + l.last + l.pending <= finished

\* The last reading is of a counter that has ended: it may be booked.
OfAnEndedOne(l) ==
    /\ l.base + l.last <= finished /\ l.lastDay < woke
    /\ l.pending # None => HeldOfThis(l) \/ HeldOfBefore(l)

\* The ECU shows the counter, which has reported today or will by noon, and
\* whose power is low in the morning only before its first energy.
NoStrayNoCloud ==
    /\ served = counter /\ strays = 0
    /\ \/ woke = Date(now) /\ (sun \/ Hour(now) >= Noon \/ counter = 0)
       \/ woke = Date(now) - 1 /\ Hour(now) < Noon /\ ~sun

Sound(l) == OfThisCounter(l) \/ OfAnEndedOne(l)
BothSound == Sound(ledger) /\ Sound(stored)

BooksInv == NoStrayNoCloud /\ BothSound /\ finished \in Nat /\ woke \in Int
-----------------------------------------------------------------------------
(***************************************************************************)
(* Why nothing that was taken is lost, and what the counter climbs is      *)
(* booked, whatever strays and clouds come between.                        *)
(***************************************************************************)
ToldOK ==
    /\ told \in [past : Nat, top : Nat, taken : BOOLEAN, plain : BOOLEAN, kept : BOOLEAN,
                 first : Int, at : Int, steady : BOOLEAN]
    /\ ~told.taken => /\ told.top = 0 /\ told.at <= now
                      /\ told.first # None /\ told.at = now => served = counter

\* What is held since this tick is what the ECU shows in it.
HoldsTheRound(l) ==
    l.pending # None =>
        l.pendingAt <= now /\ (l.pendingAt = now => l.pending = served)

\* A true reading of this tick has been told, if it was not taken.
ReadingsAreTold(l) ==
    /\ l.seenAt <= now
    /\ l.seenAt = now /\ served = counter /\ ~told.taken =>
         told.first # None /\ told.at = now

\* The total covers what was taken; once this counter is, the base does.
TotalCoversTheTold ==
    told.plain /\ told.kept => /\ ledger.base + ledger.last >= told.past + told.top
                               /\ told.taken => ledger.base >= told.past

\* True readings that came tick by tick and were not taken were all the same
\* low one, and until the next tick, or a stray in it, that is held back, if a
\* tick is all that a confirmation waits for.
FirstIsHeld ==
    /\ Confirm = 1 /\ told.plain /\ told.kept /\ told.steady /\ ~told.taken /\ told.first # None
    /\ told.at = now \/ (told.at = now - 1 /\ served = counter)
    => /\ ledger.pending = told.first /\ ledger.pendingAt <= told.at
       /\ told.first <= counter /\ (told.at = now => counter = told.first)

ToldInv ==
    /\ ToldOK /\ TotalCoversTheTold /\ FirstIsHeld
    /\ \A l \in {ledger, stored} : /\ HoldsTheRound(l) /\ ReadingsAreTold(l)
                                   /\ l.pendingAt \in Int /\ l.seenAt \in Int
    /\ told.kept /\ ~on => stored = Stored(ledger)
=============================================================================
