----------------------------- MODULE DailyCounter -----------------------------
(***************************************************************************)
(* The ledger that makes a lifetime total of a counter that starts again   *)
(* every day (lifetime_energy.py), next to the counter it reads: the       *)
(* inverter wakes, produces and rests, the ECU serves one reading per      *)
(* round and now and then a stray one, polls fail or stop, and Home        *)
(* Assistant stops, crashes and comes back with what it stored.            *)
(*                                                                         *)
(* A tick is longer than CONFIRM_SECONDS: what is read in one tick is one  *)
(* ECU round, what is read in the next is a later one.                     *)
(***************************************************************************)
EXTENDS Integers

CONSTANTS
    DayTicks,           \* ticks of a day
    Noon,               \* COUNTER_DAY_HOUR
    Daylight,           \* the ticks of a day in which the inverter may report
    Confirm,            \* CONFIRM_SECONDS
    Settled,            \* SETTLED_SECONDS
    Outage,             \* OUTAGE_SECONDS
    MaxDaily,           \* MAX_DAILY_WH
    MaxStep,            \* MAX_STEP_WH
    ShareOver, ShareOf, \* RESTART_SHARE = ShareOver / ShareOf
    Yield,              \* what the inverter may make in a tick
    StrayReading,       \* what a stray round may show
    Yesterday,          \* what the counter may hold at first
    Start, End,         \* bound: the first and the last tick
    Clouds,             \* the power may be low in a morning that has made energy
    Jumps,              \* a stray may be a jump, not only a drop
    Strays, Restarts    \* bounds: stray rounds, restarts of Home Assistant

ASSUME TimesAreOrdered ==
    /\ {DayTicks, Noon, Confirm, Settled, Outage} \subseteq Nat \ {0}
    /\ Confirm <= Settled /\ Settled < Outage /\ Noon < DayTicks
    /\ Daylight \subseteq 0..(DayTicks - 1)
ASSUME ReadingsAreWattHours ==
    /\ MaxDaily \in Nat /\ MaxStep \in Nat
    /\ ShareOver \in Nat /\ ShareOf \in Nat /\ ShareOver <= ShareOf
    /\ Yield \subseteq Nat /\ Yesterday \subseteq 0..MaxDaily
    /\ StrayReading \subseteq Nat
ASSUME BoundsAreNumbers ==
    {Start, End, Strays, Restarts} \subseteq Nat /\ Start <= End
\* On the first day the inverter has not reported yet.
ASSUME StartsInTheMorning == Start % DayTicks < Noon

None == -1              \* the ledger's None, for values, days and times

VARIABLES
    now,        \* the time, in ticks
    counter,    \* the inverter's counter of the day
    woke,       \* the date on which the counter last started again
    finished,   \* energy of the counters that ended
    sun,        \* the inverter reports more than PRODUCING_MIN_W
    served,     \* what the ECU shows in this round
    strays,     \* stray rounds so far
    restarts,   \* restarts of Home Assistant so far
    on,         \* Home Assistant runs
    data,       \* what the coordinator holds: a reading and the power with it
    ledger,     \* DailyCounterLedger
    stored      \* its stored form, as Home Assistant last wrote it

deviceVars == <<counter, woke, finished, sun, served, strays>>
hostVars == <<restarts, on, stored>>
vars == <<now, deviceVars, hostVars, data, ledger>>

Date(t) == t \div DayTicks
Hour(t) == t % DayTicks

Fresh == [base |-> 0, last |-> None, lastDay |-> None, seenAt |-> None, seenDay |-> None,
          outage |-> FALSE, flatSince |-> None, pending |-> None, pendingDay |-> None,
          pendingAt |-> None, date |-> None, midnight |-> None]
-----------------------------------------------------------------------------
\* What the sensors show: the lifetime energy and the energy since midnight.
Total(l) == IF l.last = None THEN None ELSE l.base + l.last
Today(l) == IF None \in {Total(l), l.midnight} THEN None ELSE Total(l) - l.midnight

CounterDay(t, producing) ==
    IF ~producing /\ Hour(t) < Noon THEN Date(t) - 1 ELSE Date(t)

Accept(l, w, day) ==
    [l EXCEPT !.last = w, !.lastDay = day, !.outage = FALSE, !.flatSince = None]
Release(l) == [l EXCEPT !.pending = None, !.pendingDay = None, !.pendingAt = None]
\* Variant: the finished day is forgotten.
ForgetLast(l) == l
BookLast(l) == [l EXCEPT !.base = @ + l.last]

OutageOver(l, day) == l.outage /\ day # l.lastDay
\* Variant: a fall within a step is taken at once.
RisesOrFalls(l, w) == w <= l.last + MaxStep
Rises(l, w) == l.last < w /\ w <= l.last + MaxStep
IsDrop(l, w, day) == w * ShareOf < ShareOver * l.last \/ OutageOver(l, day)
Fits(l, w, day, producing) ==
    \/ w = l.last
    \/ producing /\ Rises(l, w) /\ ~OutageOver(l, day)

Hold(l, w, day, at) ==
    IF w > l.last \/ IsDrop(l, w, day)
    THEN [l EXCEPT !.pending = w, !.pendingDay = day, !.pendingAt = at]
    ELSE l

Waited(l, at) == IF l.pending = None THEN 0 ELSE at - l.pendingAt

\* The restart was seen, and the next reading has climbed past yesterday's value.
ClimbedUnseen(l, w, day, at, producing) ==
    /\ l.pending # None /\ l.pending < l.last /\ Rises(l, w)
    /\ producing /\ day # l.lastDay
    /\ Waited(l, at) >= Settled

\* A jump is confirmed by a reading at least as high. The day it was seen on
\* counts, unless the counter went on since.
JumpDay(l, w, day) ==
    IF l.pendingDay # None /\ (w = l.pending \/ l.pendingDay > day)
    THEN l.pendingDay ELSE day
ConfirmJump(l, w, day) ==
    LET d == JumpDay(l, w, day) IN
    Accept(Release(IF l.lastDay # d THEN BookLast(l) ELSE l), w, d)

\* Variant: only a reading that rests confirms.
RestConfirms(l, w, at) ==
    w = l.pending /\ l.flatSince # None /\ at - l.flatSince >= Settled
\* A low reading is the new day's once the counter runs up from it, or rests
\* at it since an outage.
RestartConfirmed(l, w, at) ==
    \/ w > l.pending
    \/ w = l.pending /\ l.flatSince # None /\ at - l.flatSince >= Settled

Decide(l, w, day, at) ==
    IF l.pending > l.last
    THEN IF w < l.pending THEN Hold(Release(l), w, day, at) ELSE ConfirmJump(l, w, day)
    ELSE IF w > l.last \/ ~IsDrop(l, w, day) THEN Hold(Release(l), w, day, at)
    ELSE IF RestartConfirmed(l, w, at) THEN Accept(Release(BookLast(l)), w, day)
    ELSE IF w < l.pending THEN Hold(Release(l), w, day, at)
    ELSE l

Take(l, w, day, at, producing) ==
    IF l.last = None THEN Accept(l, w, day)
    ELSE IF ClimbedUnseen(l, w, day, at, producing) THEN Accept(Release(BookLast(l)), w, day)
    ELSE IF Fits(l, w, day, producing) THEN Accept(Release(l), w, day)
    ELSE IF l.pending = None THEN Hold(l, w, day, at)
    ELSE IF Waited(l, at) < Confirm THEN l
    ELSE Decide(l, w, day, at)

\* The day of a reading; a cloud does not take it back.
ReadingDay(l, t, producing) ==
    LET day == CounterDay(t, producing) IN
    IF l.lastDay # None /\ day < l.lastDay THEN l.lastDay ELSE day

\* Variant: the energy since midnight starts from the finished days.
NewDateFromBase(l, t) ==
    IF l.date = Date(t) THEN l ELSE [l EXCEPT !.date = Date(t), !.midnight = l.base]
NewDate(l, t) ==
    IF l.date = Date(t) THEN l ELSE [l EXCEPT !.date = Date(t), !.midnight = Total(l)]

\* An outage that may have hidden the counter's restart.
RestartWaits(l) == l.pending # None /\ l.pending < l.last
OutageSeen(l, t) ==
    /\ l.seenAt # None /\ t - l.seenAt >= Outage
    /\ l.seenDay # Date(t) \/ RestartWaits(l)
NoteOutage(l, t, day) ==
    IF ~OutageSeen(l, t) THEN l
    ELSE [l EXCEPT !.outage = TRUE, !.flatSince = IF day # l.lastDay THEN t ELSE @]

FirstToday(l, t, day) ==
    IF l.midnight # None THEN l
    ELSE [l EXCEPT !.midnight = IF day = Date(t) THEN l.base ELSE Total(l)]

Record(l, w, t, producing) ==
    LET day == ReadingDay(l, t, producing)
        noted == NoteOutage(NewDate(l, t), t, day)
        read == [noted EXCEPT !.seenAt = t, !.seenDay = day]
    IN  IF w > MaxDaily THEN l ELSE FirstToday(Take(read, w, day, t, producing), t, day)
-----------------------------------------------------------------------------
\* The stored form keeps all but the day of the held reading.
Stored(l) == [l EXCEPT !.pendingDay = None]

Init ==
    /\ now = Start
    /\ counter \in Yesterday /\ woke = Date(Start) - 1
    /\ finished = 0 /\ sun = FALSE /\ served = counter /\ strays = 0
    /\ restarts = 0 /\ on = TRUE
    /\ data = [reading |-> counter, producing |-> FALSE]
    /\ ledger = Record(Fresh, counter, Start, FALSE) /\ stored = Stored(ledger)

\* The ECU's next round shows the counter or a stray: a drop, or a jump no step
\* explains. A stray a little above the counter is a reading like any other.
Serve ==
    \/ served' = counter' /\ UNCHANGED strays
    \/ /\ strays < Strays /\ strays' = strays + 1
       /\ served' \in {r \in StrayReading :
              \/ r < counter' \/ r > MaxDaily
              \/ Jumps /\ r > counter' + MaxStep}

\* "By noon it has reported", and with no clouds the power is not low in the
\* morning from the first energy on.
ReportedByNoon == Hour(now') < Noon \/ woke' = Date(now')
LowPower == Hour(now') >= Noon \/ woke' # Date(now') \/ counter' = 0 \/ Clouds
Shine == sun' \in IF LowPower THEN BOOLEAN ELSE {TRUE}

Rest == UNCHANGED <<counter, woke, finished>> /\ LowPower /\ sun' = FALSE
\* The first report of the day starts the counter again.
Wake ==
    /\ Hour(now') \in Daylight /\ woke # Date(now')
    /\ finished' = finished + counter /\ counter' \in Yield /\ woke' = Date(now')
    /\ Shine
Produce ==
    /\ Hour(now') \in Daylight /\ woke = Date(now')
    /\ counter' \in {counter + y : y \in Yield}
    /\ UNCHANGED <<finished, woke>> /\ Shine

\* A tick is longer than the 15 minutes in which Home Assistant writes the
\* stored forms.
Round ==
    /\ now < End /\ now' = now + 1
    /\ Rest \/ Wake \/ Produce
    /\ ReportedByNoon
    /\ Serve
    /\ stored' = IF on THEN Stored(ledger) ELSE stored
    /\ UNCHANGED <<restarts, on, data, ledger>>

\* Variant: the values kept over a failed poll are read again.
UpdateAnyway(failed, reading, producing) ==
    ledger' = Record(ledger, reading, now, producing)
\* A coordinator update: the sensor reads the point unless the poll failed.
Update(failed, reading, producing) ==
    ledger' = IF failed THEN ledger ELSE Record(ledger, reading, now, producing)

Poll ==
    /\ on
    /\ data' = [reading |-> served, producing |-> sun]
    /\ Update(FALSE, served, sun)
    /\ UNCHANGED <<now, deviceVars, hostVars>>
\* After a failed poll the coordinator still holds the last values.
PollFails ==
    /\ on
    /\ Update(TRUE, data.reading, data.producing)
    /\ UNCHANGED <<now, deviceVars, hostVars, data>>

\* Home Assistant also writes the stored forms when it stops, not when it crashes.
Stop ==
    /\ on /\ restarts < Restarts
    /\ on' = FALSE /\ restarts' = restarts + 1
    /\ stored' \in {Stored(ledger), stored}
    /\ UNCHANGED <<now, deviceVars, data, ledger>>
\* The sensor restores its ledger and takes the reading of the first poll.
Restore ==
    /\ ~on /\ on' = TRUE
    /\ data' = [reading |-> served, producing |-> sun]
    /\ ledger' = Record(stored, served, now, sun)
    /\ UNCHANGED <<now, deviceVars, restarts, stored>>

Next == Round \/ Poll \/ PollFails \/ Stop \/ Restore

Spec == Init /\ [][Next]_vars
=============================================================================
