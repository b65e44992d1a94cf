-------------------------- MODULE DailyCounterProofs --------------------------
(***************************************************************************)
(* The total never falls, and energy produced today books no more than the *)
(* total; no day is booked twice; nothing that was taken is lost, and what *)
(* the counter climbs is booked: for every length of a day, every          *)
(* threshold, every yield and every stray reading.                         *)
(***************************************************************************)
EXTENDS DailyCounterProperties, TLAPS

Fields ==
    {"base", "last", "lastDay", "seenAt", "seenDay", "outage", "flatSince",
     "pending", "pendingDay", "pendingAt", "date", "midnight"}

\* A ledger that has taken a reading.
Counting(l) ==
    /\ DOMAIN l = Fields
    /\ l.base \in Nat /\ l.last \in Nat /\ l.lastDay \in Int
    /\ l.pending \in Int /\ l.pendingDay \in Int

\* What _take may do to a ledger: the total does not fall, midnight stays.
Grown(l, m) ==
    /\ Counting(m)
    /\ m.base + m.last >= l.base + l.last
    /\ m.midnight = l.midnight

\* A counting ledger that has its midnight, not above its total.
Kept(l) == Counting(l) /\ l.midnight \in 0..(l.base + l.last)

\* Holding a reading, or releasing one and holding another, changes no total
\* (_hold and _release).
LEMMA HoldGrows ==
    ASSUME NEW l, Counting(l), NEW w \in Nat, NEW day \in Int, NEW at \in Int
    PROVE  Grown(l, Hold(l, w, day, at)) /\ Grown(l, Hold(Release(l), w, day, at))
<1>1. Grown(l, [l EXCEPT !.pending = w, !.pendingDay = day, !.pendingAt = at])
  BY DEF Grown, Counting, Fields
<1>2. Grown(l, l) /\ Grown(l, Release(l))
  BY DEF Grown, Counting, Fields, Release, None
<1>3. Grown(l, Hold(l, w, day, at))
  BY <1>1, <1>2 DEF Hold
<1>4. Grown(l, [Release(l) EXCEPT !.pending = w, !.pendingDay = day, !.pendingAt = at])
  BY DEF Grown, Counting, Fields, Release, None
<1>5. Grown(l, Hold(Release(l), w, day, at))
  BY <1>2, <1>4 DEF Hold
<1> QED BY <1>3, <1>5

\* Taking a reading that is no lower, or any reading once the last one is
\* booked, lowers no total (_accept).
LEMMA AcceptGrows ==
    ASSUME NEW l, Counting(l), NEW w \in Nat, NEW day \in Int
    PROVE  /\ w >= l.last => Grown(l, Accept(Release(l), w, day))
           /\ Grown(l, Accept(Release(BookLast(l)), w, day))
<1>1. ASSUME w >= l.last PROVE Grown(l, Accept(Release(l), w, day))
  BY <1>1 DEF Grown, Counting, Fields, Accept, Release, None
<1>2. Grown(l, Accept(Release(BookLast(l)), w, day))
  BY DEF Grown, Counting, Fields, Accept, Release, BookLast, None
<1> QED BY <1>1, <1>2

\* Every branch of _take leaves a counting ledger with no lower total.
LEMMA TakeGrows ==
    ASSUME NEW l, Counting(l), NEW w \in Nat, NEW day \in Int, NEW at \in Int,
           NEW producing \in BOOLEAN
    PROVE  Grown(l, Take(l, w, day, at, producing))
<1>1. Grown(l, l)
  BY DEF Grown, Counting, Fields
<1>2. l.last # None
  BY DEF Counting, None
<1>3. Fits(l, w, day, producing) => w >= l.last
  BY DEF Fits, Rises, Counting, Fields
<1>4. ASSUME l.pending > l.last, ~(w < l.pending) PROVE Grown(l, ConfirmJump(l, w, day))
  <2>1. w >= l.last /\ l.pending \in Int /\ l.pendingDay \in Int
    BY <1>4 DEF Counting, Fields
  <2>2. JumpDay(l, w, day) \in Int
    BY <2>1 DEF JumpDay
  <2> QED BY <2>1, <2>2, AcceptGrows DEF ConfirmJump
<1>5. Grown(l, Decide(l, w, day, at))
  BY <1>1, <1>4, HoldGrows, AcceptGrows DEF Decide
<1> QED BY <1>1, <1>2, <1>3, <1>5, HoldGrows, AcceptGrows DEF Take

\* What a reading may do to a ledger: it may also start a new date, from the
\* total before it.
Recorded(l, m) ==
    /\ Kept(m)
    /\ m.base + m.last >= l.base + l.last
    /\ m.midnight \in {l.midnight, l.base + l.last}

LEMMA DaysAreNumbers ==
    ASSUME NEW l, Counting(l), NEW t \in Nat, NEW producing \in BOOLEAN
    PROVE  ReadingDay(l, t, producing) \in Int
<1>1. Date(t) \in Int
  BY TimesAreOrdered DEF Date
<1> QED BY <1>1 DEF ReadingDay, CounterDay, Counting

\* One reading of a ledger that counts (record).
LEMMA RecordGrows ==
    ASSUME NEW l, Kept(l), NEW w \in Nat, NEW t \in Nat, NEW producing \in BOOLEAN
    PROVE  Recorded(l, Record(l, w, t, producing))
<1> DEFINE day == ReadingDay(l, t, producing)
           dated == NewDate(l, t)
           noted == NoteOutage(dated, t, day)
           read == [noted EXCEPT !.seenAt = t, !.seenDay = day]
           taken == Take(read, w, day, t, producing)
<1>1. Counting(l) /\ day \in Int
  BY DaysAreNumbers DEF Kept
<1>2. /\ Counting(dated) /\ dated.base = l.base /\ dated.last = l.last
      /\ dated.midnight \in {l.midnight, l.base + l.last}
  BY <1>1 DEF NewDate, Total, Counting, Fields, None
<1>3. /\ Counting(noted) /\ noted.base = dated.base /\ noted.last = dated.last
      /\ noted.midnight = dated.midnight
  BY <1>2 DEF NoteOutage, Counting, Fields
<1>4. /\ Counting(read) /\ read.base = noted.base /\ read.last = noted.last
      /\ read.midnight = noted.midnight
  BY <1>3 DEF Counting, Fields
<1>5. Grown(read, taken)
  BY <1>1, <1>4, TakeGrows
<1>6. Recorded(l, taken)
  BY <1>1, <1>2, <1>3, <1>4, <1>5 DEF Recorded, Kept, Grown, Counting
<1>7. FirstToday(taken, t, day) = taken
  BY <1>6 DEF FirstToday, Recorded, Kept, None
<1>8. Recorded(l, l)
  BY DEF Recorded, Kept, Counting
<1> QED BY <1>6, <1>7, <1>8 DEF Record

\* The very first reading is taken as it is.
LEMMA FirstReading ==
    ASSUME NEW w \in 0..MaxDaily, NEW t \in Nat
    PROVE  LET first == Record(Fresh, w, t, FALSE) IN
           /\ Kept(first) /\ first.base = 0 /\ first.last = w
           /\ first.lastDay = ReadingDay(Fresh, t, FALSE)
           /\ first.pending = None /\ first.pendingDay = None /\ first.pendingAt = None
           /\ first.seenAt = t
<1> DEFINE day == ReadingDay(Fresh, t, FALSE)
           dated == NewDate(Fresh, t)
           read == [dated EXCEPT !.seenAt = t, !.seenDay = day]
           taken == Accept(read, w, day)
           m == FirstToday(taken, t, day)
<1>1. Date(t) \in Nat /\ day \in Int
  <2>1. Date(t) \in Nat
    BY TimesAreOrdered DEF Date
  <2> QED BY <2>1 DEF ReadingDay, CounterDay, Fresh, None
<1>2. dated = [Fresh EXCEPT !.date = Date(t), !.midnight = None]
  BY <1>1 DEF NewDate, Total, Fresh, None
<1>3. /\ DOMAIN dated = Fields /\ dated.base = 0 /\ dated.last = None
      /\ dated.pending = None /\ dated.pendingDay = None /\ dated.pendingAt = None
      /\ dated.seenAt = None /\ dated.midnight = None
  BY <1>2 DEF Fresh, Fields
<1>4. NoteOutage(dated, t, day) = dated
  BY <1>3 DEF NoteOutage, OutageSeen
<1>5. Take(read, w, day, t, FALSE) = taken
  BY <1>3 DEF Take, Fields
<1>6. /\ DOMAIN taken = Fields /\ taken.base = 0 /\ taken.last = w /\ taken.lastDay = day
      /\ taken.pending = None /\ taken.pendingDay = None /\ taken.pendingAt = None
      /\ taken.midnight = None /\ taken.seenAt = t
  BY <1>3 DEF Accept, Fields
<1>7. /\ Kept(m) /\ m.base = 0 /\ m.last = w /\ m.lastDay = day
      /\ m.pending = None /\ m.pendingDay = None /\ m.pendingAt = None /\ m.seenAt = t
  <2> HIDE DEF day, taken
  <2>1. CASE day = Date(t)
    <3>1. m = [taken EXCEPT !.midnight = 0]
      BY <1>6, <2>1 DEF FirstToday
    <3> QED BY <1>1, <1>6, <3>1 DEF Kept, Counting, Fields, None
  <2>2. CASE day # Date(t)
    <3>1. Total(taken) = w
      BY <1>6 DEF Total, None
    <3>2. m = [taken EXCEPT !.midnight = w]
      BY <1>6, <2>2, <3>1 DEF FirstToday
    <3> QED BY <1>1, <1>6, <3>2 DEF Kept, Counting, Fields, None
  <2> QED BY <2>1, <2>2
<1>8. Record(Fresh, w, t, FALSE) = m
  <2>1. ~(w > MaxDaily)
    BY ReadingsAreWattHours
  <2> QED BY <1>4, <1>5, <2>1 DEF Record
<1> QED BY <1>7, <1>8

\* The stored form keeps the total and midnight (as_dict, from_dict).
LEMMA StoredKeeps ==
    ASSUME NEW l, Kept(l)
    PROVE  /\ Kept(Stored(l)) /\ Stored(l).base = l.base
           /\ Stored(l).last = l.last /\ Stored(l).midnight = l.midnight
BY DEF Kept, Counting, Fields, Stored, None
-----------------------------------------------------------------------------
\* What every reachable state satisfies: both ledgers count, and what the
\* inverter and the ECU show are numbers.
Inv ==
    /\ Kept(ledger) /\ Kept(stored)
    /\ now \in Nat /\ counter \in Nat /\ served \in Nat /\ sun \in BOOLEAN

LEMMA Initially == Init => Inv
<1> SUFFICES ASSUME Init PROVE Inv
  OBVIOUS
<1>1. counter \in 0..MaxDaily /\ Start \in Nat /\ MaxDaily \in Nat
  BY ReadingsAreWattHours, BoundsAreNumbers DEF Init
<1>2. Kept(ledger)
  <2>1. ledger = Record(Fresh, counter, Start, FALSE)
    BY DEF Init
  <2> QED BY <1>1, <2>1, FirstReading
<1>3. Kept(stored)
  <2>1. stored = Stored(ledger)
    BY DEF Init
  <2> QED BY <1>2, <2>1, StoredKeeps
<1>4. now \in Nat /\ served \in Nat
  BY <1>1 DEF Init
<1>5. sun \in BOOLEAN
  BY DEF Init
<1> QED BY <1>1, <1>2, <1>3, <1>4, <1>5 DEF Inv

\* A round changes what the ECU shows, and stores the ledger.
LEMMA RoundKeeps == ASSUME Inv, Round PROVE Inv'
<1>1. now' \in Nat
  BY DEF Inv, Round
<1>2. counter' \in Nat
  <2>1. counter \in Nat /\ \A y \in Yield : y \in Nat
    BY ReadingsAreWattHours DEF Inv
  <2>2. counter' = counter \/ counter' \in Yield \/ \E y \in Yield : counter' = counter + y
    BY DEF Round, Rest, Wake, Produce
  <2> QED BY <2>1, <2>2
<1>3. served' \in Nat
  BY <1>2, ReadingsAreWattHours DEF Round, Serve
<1>4. sun' \in BOOLEAN
  BY DEF Round, Rest, Wake, Produce, Shine
<1>5. Kept(ledger)' /\ Kept(stored)'
  BY StoredKeeps DEF Inv, Round
<1> QED BY <1>1, <1>2, <1>3, <1>4, <1>5 DEF Inv

LEMMA StepKeeps == Inv /\ [Next]_vars => Inv'
<1> SUFFICES ASSUME Inv, [Next]_vars PROVE Inv'
  OBVIOUS
<1>1. CASE Round
  BY <1>1, RoundKeeps
<1>2. CASE Poll
  <2>1. Kept(ledger')
    BY <1>2, RecordGrows DEF Inv, Poll, Update, Recorded
  <2> QED BY <1>2, <2>1 DEF Inv, Poll, deviceVars, hostVars
<1>3. CASE PollFails
  BY <1>3 DEF Inv, PollFails, Update, deviceVars, hostVars
<1>4. CASE Stop
  BY <1>4, StoredKeeps DEF Inv, Stop, deviceVars
<1>5. CASE Restore
  <2>1. Kept(ledger')
    BY <1>5, RecordGrows DEF Inv, Restore, Recorded
  <2> QED BY <1>5, <2>1 DEF Inv, Restore, deviceVars
<1>6. CASE UNCHANGED vars
  BY <1>6 DEF Inv, vars, deviceVars, hostVars
<1> QED BY <1>1, <1>2, <1>3, <1>4, <1>5, <1>6 DEF Next

\* Both ledgers count in every reachable state.
THEOREM InvariantHolds == Spec => []Inv
<1> QED BY Initially, StepKeeps, PTL DEF Spec

\* A step changes the ledger by recording a reading, or not at all.
LEMMA StepRecords ==
    ASSUME Inv, [Next]_vars
    PROVE  \/ ledger' = ledger
           \/ on /\ Recorded(ledger, ledger')
           \/ ~on /\ Recorded(stored, ledger')
<1>1. ASSUME Poll PROVE on /\ Recorded(ledger, ledger')
  BY <1>1, RecordGrows DEF Inv, Poll, Update
<1>2. ASSUME Restore PROVE ~on /\ Recorded(stored, ledger')
  BY <1>2, RecordGrows DEF Inv, Restore
<1>3. ASSUME Round \/ PollFails \/ Stop \/ UNCHANGED vars PROVE ledger' = ledger
  BY <1>3 DEF Round, PollFails, Update, Stop, vars
<1> QED BY <1>1, <1>2, <1>3 DEF Next

\* Unless a crash forgot something, the ledger that goes on is the one shown.
LEMMA StepGrows ==
    ASSUME Inv, [Next]_vars, on \/ stored = Stored(ledger)
    PROVE  \/ ledger' = ledger
           \/ Recorded(ledger, ledger')
<1>1. CASE on
  BY <1>1, StepRecords
<1>2. CASE ~on
  <2>1. /\ Kept(ledger) /\ stored.base = ledger.base /\ stored.last = ledger.last
        /\ stored.midnight = ledger.midnight
    BY <1>2, StoredKeeps DEF Inv
  <2> QED BY <1>2, <2>1, StepRecords DEF Recorded
<1> QED BY <1>1, <1>2

\* The total never falls, whatever the ECU serves and however polls, outages,
\* clean stops and restarts come between (_take, as_dict, from_dict).
THEOREM TotalNeverFallsHolds == Spec => TotalNeverFalls
<1>1. ASSUME Inv, [Next]_vars, on \/ stored = Stored(ledger)
      PROVE  Total(ledger') >= Total(ledger)
  <2>1. Counting(ledger)
    BY <1>1 DEF Inv, Kept
  <2>2. Total(ledger) = ledger.base + ledger.last
    BY <2>1 DEF Total, Counting, None
  <2>3. CASE ledger' = ledger
    BY <2>1, <2>2, <2>3 DEF Counting
  <2>4. CASE Recorded(ledger, ledger')
    BY <2>2, <2>4 DEF Recorded, Kept, Counting, Total, None
  <2> QED BY <1>1, <2>3, <2>4, StepGrows
<1> QED BY <1>1, InvariantHolds, PTL DEF Spec, TotalNeverFalls

\* Energy produced today never makes the statistics book more than the total
\* rose, over midnight, restarts of the counter and of Home Assistant
\* (record, today).
THEOREM TodayBooksWhatTheTotalBooksHolds == Spec => TodayBooksWhatTheTotalBooks
<1>1. ASSUME Inv, [Next]_vars, on \/ stored = Stored(ledger)
      PROVE  StatisticsAdd(Today(ledger), Today(ledger')) <= Total(ledger') - Total(ledger)
  <2>1. Kept(ledger)
    BY <1>1 DEF Inv
  <2>2. ASSUME NEW l, Kept(l)
        PROVE  /\ Total(l) = l.base + l.last /\ Total(l) \in Nat
               /\ Today(l) = Total(l) - l.midnight /\ Today(l) \in Nat
    <3>1. Total(l) = l.base + l.last /\ Total(l) \in Nat /\ l.midnight \in 0..Total(l)
      BY <2>2 DEF Total, Kept, Counting, None
    <3> QED BY <3>1 DEF Today, None
  <2>3. CASE ledger' = ledger
    BY <2>1, <2>2, <2>3 DEF StatisticsAdd
  <2>4. CASE Recorded(ledger, ledger')
    <3>1. Kept(ledger') /\ ledger'.midnight \in {ledger.midnight, Total(ledger)}
          /\ Total(ledger') >= Total(ledger)
      BY <2>1, <2>2, <2>4 DEF Recorded
    <3>2. ledger.midnight \in Nat /\ ledger'.midnight \in Nat
      BY <2>1, <3>1 DEF Kept, Counting
    <3> QED BY <2>1, <2>2, <3>1, <3>2 DEF StatisticsAdd
  <2> QED BY <1>1, <2>3, <2>4, StepGrows
<1> QED BY <1>1, InvariantHolds, PTL DEF Spec, TodayBooksWhatTheTotalBooks
-----------------------------------------------------------------------------
(***************************************************************************)
(* No day is booked twice, as long as the ECU serves no stray and no cloud *)
(* dims the morning.                                                       *)
(***************************************************************************)
\* The day of a reading of the counter: its own, or the one before as long as
\* it has made nothing.
DayOK(day) == day \in Int /\ day <= woke /\ (day = woke \/ counter = 0)

\* What a ledger is sound by.
LEMMA SoundBy ==
    ASSUME NEW l, NEW m, Sound(l), m.base = l.base, m.last = l.last, m.lastDay = l.lastDay,
           m.pending = l.pending, m.pendingDay \in {l.pendingDay, None}
    PROVE  Sound(m)
<1>1. ASSUME OfThisCounter(l) PROVE OfThisCounter(m)
  BY <1>1 DEF OfThisCounter
<1>2. ASSUME OfAnEndedOne(l) PROVE OfAnEndedOne(m)
  BY <1>2 DEF OfAnEndedOne, HeldOfThis, HeldOfBefore
<1> QED BY <1>1, <1>2 DEF Sound

LEMMA StoredIsSound ==
    ASSUME NEW l, Kept(l), Sound(l) PROVE Sound(Stored(l))
<1>1. /\ Stored(l).base = l.base /\ Stored(l).last = l.last /\ Stored(l).lastDay = l.lastDay
      /\ Stored(l).pending = l.pending /\ Stored(l).pendingDay = None
  BY DEF Kept, Counting, Fields, Stored
<1> QED BY <1>1, SoundBy

\* The fields that Release, Accept and BookLast set.
LEMMA AcceptSets ==
    ASSUME NEW l, Counting(l), NEW w, NEW day
    PROVE  /\ LET m == Accept(Release(l), w, day) IN
                /\ m.base = l.base /\ m.last = w /\ m.lastDay = day
                /\ m.pending = None /\ m.pendingDay = None
           /\ LET m == Accept(Release(BookLast(l)), w, day) IN
                /\ m.base = l.base + l.last /\ m.last = w /\ m.lastDay = day
                /\ m.pending = None /\ m.pendingDay = None
BY DEF Accept, Release, BookLast, Counting, Fields

LEMMA HoldSets ==
    ASSUME NEW l, Counting(l), NEW w, NEW day, NEW at
    PROVE  /\ LET m == Hold(l, w, day, at) IN
                /\ m.base = l.base /\ m.last = l.last /\ m.lastDay = l.lastDay
                /\ \/ m.pending = w /\ m.pendingDay = day
                   \/ m.pending = l.pending /\ m.pendingDay = l.pendingDay
           /\ LET m == Hold(Release(l), w, day, at) IN
                /\ m.base = l.base /\ m.last = l.last /\ m.lastDay = l.lastDay
                /\ \/ m.pending = w /\ m.pendingDay = day
                   \/ m.pending = None /\ m.pendingDay = None
<1>1. /\ DOMAIN Release(l) = Fields /\ Release(l).base = l.base /\ Release(l).last = l.last
      /\ Release(l).lastDay = l.lastDay /\ Release(l).pending = None
      /\ Release(l).pendingDay = None
  BY DEF Release, Counting, Fields
<1>2. ASSUME NEW r, DOMAIN r = Fields
      PROVE  LET m == Hold(r, w, day, at) IN
                /\ m.base = r.base /\ m.last = r.last /\ m.lastDay = r.lastDay
                /\ \/ m.pending = w /\ m.pendingDay = day
                   \/ m.pending = r.pending /\ m.pendingDay = r.pendingDay
  <2>1. CASE w > r.last \/ IsDrop(r, w, day)
    BY <1>2, <2>1 DEF Hold, Fields
  <2>2. CASE ~(w > r.last \/ IsDrop(r, w, day))
    BY <2>2 DEF Hold
  <2> QED BY <2>1, <2>2
<1>3. DOMAIN l = Fields
  BY DEF Counting
<1> QED BY <1>1, <1>2, <1>3

\* A reading that is taken is of this counter.
LEMMA TakenIsSound ==
    ASSUME NEW l, Counting(l), counter \in Nat, finished \in Nat, woke \in Int,
           NEW day, DayOK(day)
    PROVE  /\ l.base <= finished => Sound(Accept(Release(l), counter, day))
           /\ l.base + l.last <= finished => Sound(Accept(Release(BookLast(l)), counter, day))
<1>1. ASSUME NEW m, m.base <= finished, m.last = counter, m.lastDay = day, m.pending = None
      PROVE  Sound(m)
  BY <1>1 DEF Sound, OfThisCounter, DayOK
<1> QED BY <1>1, AcceptSets

\* What is held back of this counter.
LEMMA HeldIsSound ==
    ASSUME NEW l, Counting(l), counter \in Nat, finished \in Nat, woke \in Int,
           NEW day, DayOK(day), NEW at,
           (OfThisCounter(l) /\ counter > l.last) \/ OfAnEndedOne(l)
    PROVE  /\ l.pending = None => Sound(Hold(l, counter, day, at))
           /\ Sound(Hold(Release(l), counter, day, at))
<1> SUFFICES ASSUME NEW m, m.base = l.base, m.last = l.last, m.lastDay = l.lastDay,
                    \/ m.pending = counter /\ m.pendingDay = day
                    \/ m.pending = None
             PROVE  Sound(m)
  BY HoldSets
<1>1. l.last \in Nat
  BY DEF Counting
<1>2. ASSUME OfThisCounter(l), counter > l.last PROVE OfThisCounter(m)
  BY <1>1, <1>2 DEF OfThisCounter, DayOK
<1>3. ASSUME OfAnEndedOne(l) PROVE OfAnEndedOne(m)
  BY <1>3 DEF OfAnEndedOne, HeldOfThis, DayOK
<1> QED BY <1>2, <1>3 DEF Sound

\* A jump that is confirmed: what it books has ended, and the reading is either
\* of this counter, or of the one it was first seen on.
LEMMA JumpIsSound ==
    ASSUME NEW l, Counting(l), counter \in Nat, finished \in Nat, woke \in Int,
           NEW day, DayOK(day), Sound(l), l.pending > l.last, counter >= l.pending
    PROVE  Sound(ConfirmJump(l, counter, day))
<1> DEFINE d == JumpDay(l, counter, day)
<1>1. /\ l.base \in Nat /\ l.last \in Nat /\ l.lastDay \in Int
      /\ l.pending \in Nat /\ l.pendingDay \in Int /\ l.pending > 0 /\ l.pending # None
  BY DEF Counting, None
<1>2. day = woke
  BY <1>1 DEF DayOK
<1>3. DayOK(woke)
  BY DEF DayOK
<1>4. ConfirmJump(l, counter, day) =
        IF l.lastDay # d THEN Accept(Release(BookLast(l)), counter, d)
        ELSE Accept(Release(l), counter, d)
  BY DEF ConfirmJump
<1> HIDE DEF d
<1>5. CASE OfThisCounter(l)
  <2>1. d = woke
    BY <1>1, <1>2, <1>5 DEF d, JumpDay, OfThisCounter
  <2>2. l.base <= finished /\ (l.lastDay # d => l.base + l.last <= finished)
    BY <1>1, <1>5, <2>1 DEF OfThisCounter
  <2> QED BY <1>3, <1>4, <2>1, <2>2, TakenIsSound
<1>6. CASE OfAnEndedOne(l) /\ d = woke
  <2>1. l.lastDay # d /\ l.base + l.last <= finished
    BY <1>1, <1>6 DEF OfAnEndedOne
  <2> QED BY <1>3, <1>4, <1>6, <2>1, TakenIsSound
<1>7. CASE OfAnEndedOne(l) /\ d # woke
  <2>1. HeldOfBefore(l) /\ l.pendingDay # None /\ counter = l.pending /\ d = l.pendingDay
    BY <1>1, <1>2, <1>7 DEF d, JumpDay, OfAnEndedOne, HeldOfThis, HeldOfBefore
  <2>2. /\ d < woke /\ l.base + counter <= finished
        /\ l.lastDay # d => l.base + l.last + counter <= finished
    BY <1>1, <2>1 DEF HeldOfBefore
  <2>3. ASSUME NEW m, m.base + m.last <= finished, m.lastDay = d, m.pending = None
        PROVE  Sound(m)
    BY <2>2, <2>3 DEF Sound, OfAnEndedOne
  <2> QED BY <1>1, <1>4, <2>2, <2>3, AcceptSets
<1> QED BY <1>5, <1>6, <1>7 DEF Sound

\* Every branch of _take books only what has ended.
LEMMA TakeIsSound ==
    ASSUME NEW l, Counting(l), counter \in Nat, finished \in Nat, woke \in Int,
           NEW day, DayOK(day), Sound(l), NEW at, NEW producing
    PROVE  Sound(Take(l, counter, day, at, producing))
<1>1. l.base \in Nat /\ l.last \in Nat /\ l.last # None /\ l.base <= finished
  BY DEF Counting, None, Sound, OfThisCounter, OfAnEndedOne
<1>2. Sound(Accept(Release(l), counter, day))
  BY <1>1, TakenIsSound
<1>3. CASE OfThisCounter(l)
  <2>1. counter >= l.last /\ (l.pending # None => l.last < l.pending /\ counter >= l.pending)
    BY <1>1, <1>3 DEF OfThisCounter, Counting
  <2>2. ~ClimbedUnseen(l, counter, day, at, producing)
    BY <1>1, <2>1 DEF ClimbedUnseen, Counting
  <2>3. ASSUME ~Fits(l, counter, day, producing) PROVE counter > l.last
    BY <1>1, <2>1, <2>3 DEF Fits
  <2>4. ASSUME counter > l.last, l.pending = None PROVE Sound(Hold(l, counter, day, at))
    BY <1>3, <2>4, HeldIsSound
  <2>5. ASSUME l.pending # None PROVE Sound(Decide(l, counter, day, at))
    <3>1. l.pending > l.last /\ counter >= l.pending /\ ~(counter < l.pending)
      BY <1>1, <2>1, <2>5 DEF Counting
    <3> QED BY <3>1, JumpIsSound DEF Decide
  <2> QED BY <1>1, <1>2, <2>2, <2>3, <2>4, <2>5 DEF Take
<1>4. CASE OfAnEndedOne(l)
  <2>1. Sound(Accept(Release(BookLast(l)), counter, day))
    BY <1>1, <1>4, TakenIsSound DEF OfAnEndedOne
  <2>2. /\ l.pending = None => Sound(Hold(l, counter, day, at))
        /\ Sound(Hold(Release(l), counter, day, at))
    BY <1>4, HeldIsSound
  <2>3. Sound(Decide(l, counter, day, at))
    <3>1. ASSUME l.pending > l.last, ~(counter < l.pending)
          PROVE  Sound(ConfirmJump(l, counter, day))
      BY <3>1, JumpIsSound DEF Counting
    <3> QED BY <2>1, <2>2, <3>1 DEF Decide
  <2> QED BY <1>1, <1>2, <2>1, <2>2, <2>3 DEF Take
<1> QED BY <1>3, <1>4 DEF Sound

\* The day of a reading of the counter, or of the ledger's last one.
LEMMA ReadingsHaveTheirDay ==
    ASSUME NEW l, l.lastDay \in Int, l.lastDay <= woke, NoStrayNoCloud,
           now \in Nat, counter \in Nat, woke \in Int
    PROVE  DayOK(ReadingDay(l, now, sun))
<1> DEFINE day == CounterDay(now, sun)
<1>1. Date(now) \in Int
  BY TimesAreOrdered DEF Date
<1>2. DayOK(day)
  <2>1. CASE woke = Date(now) /\ (sun \/ Hour(now) >= Noon)
    <3>1. day = woke
      <4>1. CASE sun
        BY <2>1, <4>1 DEF CounterDay
      <4>2. CASE Hour(now) >= Noon
        <5>1. ~(Hour(now) < Noon)
          BY <4>2, TimesAreOrdered DEF Hour
        <5> QED BY <2>1, <5>1 DEF CounterDay
      <4> QED BY <2>1, <4>1, <4>2
    <3> QED BY <3>1 DEF DayOK
  <2>2. CASE woke = Date(now) /\ counter = 0
    <3>1. day \in {woke, woke - 1}
      BY <2>2 DEF CounterDay
    <3> QED BY <2>2, <3>1 DEF DayOK
  <2>3. CASE woke = Date(now) - 1 /\ Hour(now) < Noon /\ ~sun
    <3>1. day = woke
      BY <2>3 DEF CounterDay
    <3> QED BY <3>1 DEF DayOK
  <2> QED BY <2>1, <2>2, <2>3 DEF NoStrayNoCloud
<1>3. ReadingDay(l, now, sun) = IF l.lastDay # None /\ day < l.lastDay THEN l.lastDay ELSE day
  BY DEF ReadingDay
<1> HIDE DEF day
<1> QED BY <1>2, <1>3 DEF DayOK

\* A reading of the counter leaves a sound ledger (record).
LEMMA RecordIsSound ==
    ASSUME NEW l, Kept(l), Sound(l), NoStrayNoCloud, Inv, finished \in Nat, woke \in Int
    PROVE  Sound(Record(l, served, now, sun))
<1> DEFINE day == ReadingDay(l, now, sun)
           dated == NewDate(l, now)
           noted == NoteOutage(dated, now, day)
           read == [noted EXCEPT !.seenAt = now, !.seenDay = day]
           taken == Take(read, counter, day, now, sun)
<1>1. Counting(l) /\ counter \in Nat /\ now \in Nat /\ served = counter
  BY DEF Kept, Inv, NoStrayNoCloud
<1>2. l.lastDay <= woke
  BY <1>1 DEF Sound, OfThisCounter, OfAnEndedOne, Counting
<1>3. DayOK(day)
  BY <1>1, <1>2, ReadingsHaveTheirDay DEF Counting
<1> HIDE DEF day
<1>4. /\ Counting(dated) /\ dated.base = l.base /\ dated.last = l.last
      /\ dated.lastDay = l.lastDay /\ dated.pending = l.pending
      /\ dated.pendingDay = l.pendingDay
  BY <1>1 DEF NewDate, Counting, Fields
<1> HIDE DEF dated
<1>5. /\ Counting(noted) /\ noted.base = l.base /\ noted.last = l.last
      /\ noted.lastDay = l.lastDay /\ noted.pending = l.pending
      /\ noted.pendingDay = l.pendingDay
  BY <1>4 DEF NoteOutage, Counting, Fields
<1> HIDE DEF noted
<1>6. /\ Counting(read) /\ read.base = l.base /\ read.last = l.last
      /\ read.lastDay = l.lastDay /\ read.pending = l.pending
      /\ read.pendingDay = l.pendingDay
  BY <1>5 DEF Counting, Fields
<1> HIDE DEF read
<1>7. Sound(taken)
  <2>1. Sound(read)
    BY <1>6, SoundBy
  <2> QED BY <1>1, <1>3, <1>6, <2>1, TakeIsSound
<1>8. Counting(taken)
  <2>1. day \in Int /\ sun \in BOOLEAN
    BY <1>3 DEF DayOK, Inv
  <2> QED BY <1>1, <1>6, <2>1, TakeGrows DEF Grown
<1> HIDE DEF taken
<1>9. Sound(FirstToday(taken, now, day))
  <2>1. CASE taken.midnight # None
    BY <1>7, <2>1 DEF FirstToday
  <2>2. ASSUME NEW v PROVE Sound([taken EXCEPT !.midnight = v])
    <3> DEFINE m == [taken EXCEPT !.midnight = v]
    <3>1. /\ m.base = taken.base /\ m.last = taken.last /\ m.lastDay = taken.lastDay
          /\ m.pending = taken.pending /\ m.pendingDay = taken.pendingDay
      BY <1>8 DEF Counting, Fields
    <3> HIDE DEF m
    <3>2. Sound(m)
      BY <1>7, <3>1, SoundBy
    <3> QED BY <3>2 DEF m
  <2>3. CASE taken.midnight = None
    BY <2>2, <2>3 DEF FirstToday
  <2> QED BY <2>1, <2>3
<1>10. Record(l, counter, now, sun) = IF counter > MaxDaily THEN l ELSE FirstToday(taken, now, day)
  BY DEF Record, taken, read, noted, dated, day
<1> QED BY <1>1, <1>9, <1>10
-----------------------------------------------------------------------------
\* The dates of a tick and of the next.
LEMMA TickAfterTick ==
    ASSUME NEW t \in Nat
    PROVE  /\ Date(t) \in Nat /\ Hour(t) \in 0..(DayTicks - 1)
           /\ \/ Date(t + 1) = Date(t)
              \/ Date(t + 1) = Date(t) + 1 /\ Hour(t) = DayTicks - 1
<1> DEFINE D == DayTicks
           q == t \div D
           r == t % D
           u == (t + 1) \div D
           s == (t + 1) % D
<1>1. D \in Nat /\ D > 0
  BY TimesAreOrdered
<1> HIDE DEF D
<1>2. /\ q \in Nat /\ u \in Nat /\ r \in 0..(D - 1) /\ s \in 0..(D - 1)
      /\ t = D * q + r /\ t + 1 = D * u + s
  BY <1>1
<1> HIDE DEF q, r, u, s
<1>3. D * (u - q) = r + 1 - s
  BY <1>1, <1>2
<1>4. CASE u = q
  BY <1>1, <1>2, <1>4 DEF Date, Hour, D, q, r, u
<1>5. CASE u = q + 1
  <2>1. r = D - 1 + s
    BY <1>1, <1>2, <1>3, <1>5
  <2>2. r = D - 1
    BY <1>1, <1>2, <2>1
  <2> QED BY <1>1, <1>2, <1>5, <2>2 DEF Date, Hour, D, q, r, u
<1>6. CASE u < q
  <2>1. D * (u - q) <= -D
    BY <1>1, <1>2, <1>6
  <2> QED BY <1>1, <1>2, <1>3, <2>1
<1>7. CASE u > q + 1
  <2>1. D * (u - q) >= 2 * D
    BY <1>1, <1>2, <1>7
  <2> QED BY <1>1, <1>2, <1>3, <2>1
<1> QED BY <1>2, <1>4, <1>5, <1>6, <1>7

\* While the counter goes on, or starts again, every ledger stays sound.
LEMMA CounterGoesOn ==
    ASSUME NEW l, Counting(l), Sound(l), counter \in Nat, finished \in Nat, woke \in Int,
           \/ counter' >= counter /\ woke' = woke /\ finished' = finished
           \/ woke' > woke /\ finished' = finished + counter,
           counter' \in Nat, woke' \in Int
    PROVE  Sound(l)'
<1>1. /\ l.base \in Nat /\ l.last \in Nat /\ l.lastDay \in Int
      /\ l.pending \in Int /\ l.pendingDay \in Int
  BY DEF Counting
<1>2. CASE counter' >= counter /\ woke' = woke /\ finished' = finished
  <2>1. CASE OfThisCounter(l)
    BY <1>1, <1>2, <2>1 DEF Sound, OfThisCounter
  <2>2. CASE OfAnEndedOne(l)
    BY <1>1, <1>2, <2>2 DEF Sound, OfAnEndedOne, HeldOfThis, HeldOfBefore
  <2> QED BY <2>1, <2>2 DEF Sound
<1>3. CASE woke' > woke /\ finished' = finished + counter
  <2>1. CASE OfThisCounter(l)
    <3>1. l.base + l.last <= finished' /\ l.lastDay < woke'
      BY <1>1, <1>3, <2>1 DEF OfThisCounter
    <3>2. ASSUME l.pending # None
          PROVE  /\ l.base + l.pending <= finished'
                 /\ l.pendingDay # None =>
                      /\ l.pendingDay < woke'
                      /\ \/ l.pendingDay = l.lastDay
                         \/ l.base + l.last + l.pending <= finished'
      BY <1>1, <1>3, <2>1, <3>2 DEF OfThisCounter
    <3> QED BY <3>1, <3>2 DEF Sound, OfAnEndedOne, HeldOfBefore
  <2>2. CASE OfAnEndedOne(l)
    <3>1. l.base + l.last <= finished' /\ l.lastDay < woke'
      BY <1>1, <1>3, <2>2 DEF OfAnEndedOne
    <3>2. ASSUME l.pending # None
          PROVE  /\ l.base + l.pending <= finished'
                 /\ l.pendingDay # None =>
                      /\ l.pendingDay < woke'
                      /\ \/ l.pendingDay = l.lastDay
                         \/ l.base + l.last + l.pending <= finished'
      <4>1. CASE HeldOfThis(l)
        BY <1>1, <1>3, <2>2, <3>2, <4>1 DEF OfAnEndedOne, HeldOfThis
      <4>2. CASE HeldOfBefore(l)
        BY <1>1, <1>3, <2>2, <3>2, <4>2 DEF OfAnEndedOne, HeldOfBefore
      <4> QED BY <2>2, <3>2, <4>1, <4>2 DEF OfAnEndedOne
    <3> QED BY <3>1, <3>2 DEF Sound, OfAnEndedOne, HeldOfBefore
  <2> QED BY <2>1, <2>2 DEF Sound
<1> QED BY <1>2, <1>3

\* A tick of the inverter: its counter goes on or starts again on a later date.
LEMMA TickOfTheInverter ==
    ASSUME Inv, NoStrayNoCloud, Round, Strays = 0, ~Clouds, finished \in Nat, woke \in Int
    PROVE  /\ NoStrayNoCloud' /\ finished' \in Nat /\ woke' \in Int /\ counter' \in Nat
           /\ \/ counter' >= counter /\ woke' = woke /\ finished' = finished
              \/ woke' > woke /\ finished' = finished + counter
<1>1. now \in Nat /\ now' = now + 1 /\ counter \in Nat /\ strays = 0
  BY DEF Inv, Round, NoStrayNoCloud
<1>2. counter' \in Nat
  BY RoundKeeps DEF Inv
<1>3. served' = counter' /\ strays' = 0
  BY <1>1 DEF Round, Serve
<1>4. /\ Date(now) \in Nat /\ Hour(now) \in 0..(DayTicks - 1)
      /\ Date(now') \in Nat /\ Hour(now') \in 0..(DayTicks - 1)
      /\ \/ Date(now') = Date(now)
         \/ Date(now') = Date(now) + 1 /\ Hour(now) = DayTicks - 1
  BY <1>1, TickAfterTick
<1>5. Noon \in Nat /\ DayTicks \in Nat /\ Noon <= DayTicks - 1
  BY TimesAreOrdered
<1>6. woke = Date(now) \/ (woke = Date(now) - 1 /\ Hour(now) < Noon)
  BY DEF NoStrayNoCloud
<1>7. woke = Date(now') \/ woke = Date(now') - 1
  BY <1>4, <1>5, <1>6
<1>8. ReportedByNoon /\ (Rest \/ Wake \/ Produce)
  BY DEF Round
<1>9. LowPower => Hour(now') >= Noon \/ woke' # Date(now') \/ counter' = 0
  BY DEF LowPower
<1> HIDE DEF LowPower
<1>10. CASE Rest
  <2>1. LowPower /\ sun' = FALSE /\ UNCHANGED <<counter, woke, finished>>
    BY <1>10 DEF Rest
  <2>2. CASE woke = Date(now')
    <3>1. Hour(now') >= Noon \/ counter' = 0
      BY <1>9, <2>1, <2>2
    <3> QED BY <1>1, <1>2, <1>3, <2>1, <2>2, <3>1 DEF NoStrayNoCloud, Date, Hour
  <2>3. CASE woke # Date(now')
    <3>1. woke = Date(now') - 1 /\ Hour(now') < Noon
      BY <1>7, <1>8, <2>1, <2>3 DEF ReportedByNoon
    <3> QED BY <1>1, <1>2, <1>3, <2>1, <3>1 DEF NoStrayNoCloud, Date, Hour
  <2> QED BY <2>2, <2>3
<1>11. CASE Wake \/ Produce
  <2>1. woke' = Date(now') /\ (sun' \/ LowPower)
    <3>1. Shine => sun' \/ LowPower
      BY DEF Shine
    <3> QED BY <1>11, <3>1 DEF Wake, Produce
  <2>2. sun' \/ Hour(now') >= Noon \/ counter' = 0
    BY <1>9, <2>1
  <2>3. NoStrayNoCloud'
    BY <1>3, <2>1, <2>2 DEF NoStrayNoCloud, Date, Hour
  <2>4. CASE Wake
    <3>1. woke # Date(now') /\ finished' = finished + counter
      BY <2>4 DEF Wake
    <3> QED BY <1>1, <1>2, <1>4, <1>7, <2>1, <2>3, <3>1
  <2>5. CASE Produce
    <3>1. UNCHANGED <<finished, woke>> /\ \E y \in Yield : counter' = counter + y
      BY <2>5 DEF Produce
    <3>2. counter' >= counter
      BY <1>1, <3>1, ReadingsAreWattHours
    <3> QED BY <1>2, <2>3, <3>1, <3>2
  <2> QED BY <1>11, <2>4, <2>5
<1> QED BY <1>8, <1>10, <1>11

LEMMA BooksInitially == ASSUME Init PROVE BooksInv
<1>1. /\ Date(now) \in Nat /\ woke = Date(now) - 1 /\ Hour(now) < Noon /\ finished = 0
      /\ now = Start /\ now \in Nat /\ counter \in 0..MaxDaily /\ MaxDaily \in Nat
  BY StartsInTheMorning, TickAfterTick, BoundsAreNumbers, ReadingsAreWattHours DEF Init, Hour
<1>2. NoStrayNoCloud
  BY <1>1 DEF Init, NoStrayNoCloud
<1>3. ReadingDay(Fresh, now, FALSE) = woke
  BY <1>1 DEF ReadingDay, CounterDay, Fresh
<1>4. /\ ledger.base = 0 /\ ledger.last = counter /\ ledger.lastDay = woke
      /\ ledger.pending = None /\ ledger.pendingDay = None /\ Kept(ledger)
  <2>1. ledger = Record(Fresh, counter, now, FALSE)
    BY <1>1 DEF Init
  <2> QED BY <1>1, <1>3, <2>1, FirstReading
<1>5. Sound(ledger)
  BY <1>1, <1>4 DEF Sound, OfThisCounter
<1>6. Sound(stored)
  <2>1. stored = Stored(ledger)
    BY DEF Init
  <2> QED BY <1>4, <1>5, <2>1, StoredIsSound
<1> QED BY <1>1, <1>2, <1>5, <1>6 DEF BooksInv, BothSound

LEMMA StepKeepsBooks ==
    ASSUME Strays = 0, ~Clouds, Inv, BooksInv, [Next]_vars
    PROVE  BooksInv'
<1>1. CASE Round
  <2>1. /\ NoStrayNoCloud' /\ finished' \in Nat /\ woke' \in Int /\ counter' \in Nat
        /\ \/ counter' >= counter /\ woke' = woke /\ finished' = finished
           \/ woke' > woke /\ finished' = finished + counter
    BY <1>1, TickOfTheInverter DEF BooksInv
  <2>2. ledger' = ledger /\ stored' \in {Stored(ledger), stored}
    BY <1>1 DEF Round
  <2>3. /\ Kept(ledger) /\ Sound(ledger) /\ Kept(Stored(ledger)) /\ Sound(Stored(ledger))
        /\ Kept(stored) /\ Sound(stored)
    BY StoredIsSound, StoredKeeps DEF Inv, BooksInv, BothSound
  <2>4. \A l : Counting(l) /\ Sound(l) => Sound(l)'
    BY <2>1, CounterGoesOn DEF Inv, BooksInv
  <2>5. BothSound'
    BY <2>2, <2>3, <2>4 DEF BothSound, Sound, OfThisCounter, OfAnEndedOne, HeldOfThis,
                            HeldOfBefore, Kept
  <2> QED BY <2>1, <2>5 DEF BooksInv
<1>2. ASSUME UNCHANGED <<now, deviceVars>>, Sound(ledger'), Sound(stored')
      PROVE  BooksInv'
  BY <1>2 DEF BooksInv, BothSound, NoStrayNoCloud, Sound, OfThisCounter, OfAnEndedOne,
              HeldOfThis, HeldOfBefore, deviceVars, Date, Hour
<1>3. CASE Poll
  <2>1. Sound(ledger')
    BY <1>3, RecordIsSound DEF Poll, Update, Inv, BooksInv, BothSound
  <2> QED BY <1>2, <1>3, <2>1 DEF Poll, hostVars, BooksInv, BothSound
<1>4. CASE PollFails
  BY <1>2, <1>4 DEF PollFails, Update, hostVars, BooksInv, BothSound
<1>5. CASE Stop
  <2>1. Sound(stored')
    BY <1>5, StoredIsSound DEF Stop, Inv, BooksInv, BothSound
  <2> QED BY <1>2, <1>5, <2>1 DEF Stop, BooksInv, BothSound
<1>6. CASE Restore
  <2>1. Sound(ledger')
    BY <1>6, RecordIsSound DEF Restore, Inv, BooksInv, BothSound
  <2> QED BY <1>2, <1>6, <2>1 DEF Restore, BooksInv, BothSound
<1>7. CASE UNCHANGED vars
  BY <1>2, <1>7 DEF vars, hostVars, BooksInv, BothSound
<1> QED BY <1>1, <1>3, <1>4, <1>5, <1>6, <1>7 DEF Next

\* Without a stray and without clouds, the lifetime total is never more than
\* the inverter made, whatever it makes, however many days pass, polls fail and
\* Home Assistant crashes: no day is booked twice (_take, _decide, counter_day).
THEOREM NoDayIsBookedTwice ==
    ASSUME Strays = 0, ~Clouds
    PROVE  Spec => []BooksNoMoreThanMade
<1>1. Init => BooksInv
  BY BooksInitially
<1>2. Inv /\ BooksInv /\ [Next]_vars => BooksInv'
  BY StepKeepsBooks
<1>3. Inv /\ BooksInv => BooksNoMoreThanMade
  <2> SUFFICES ASSUME Inv, BooksInv PROVE BooksNoMoreThanMade
    OBVIOUS
  <2>1. /\ Total(ledger) = ledger.base + ledger.last /\ ledger.base \in Nat /\ ledger.last \in Nat
        /\ counter \in Nat /\ finished \in Nat
    BY DEF Inv, Kept, Counting, Total, None, BooksInv
  <2> QED BY <2>1 DEF BooksInv, BothSound, Sound, OfThisCounter, OfAnEndedOne,
                      BooksNoMoreThanMade
<1> QED BY <1>1, <1>2, <1>3, InvariantHolds, PTL DEF Spec
-----------------------------------------------------------------------------
(***************************************************************************)
(* Nothing that was taken is lost, and what the counter climbs is booked:  *)
(* whatever strays, clouds, failed polls and restarts come between.        *)
(***************************************************************************)
\* What is held back after a reading: nothing, the reading, or what was.
HeldOf(l, m, w, at) ==
    \/ m.pending = None /\ m.pendingAt = None
    \/ m.pending = w /\ m.pendingAt = at
    \/ m.pending = l.pending /\ m.pendingAt = l.pendingAt

Goes(l, m, w, at) == m.base >= l.base /\ m.seenAt = l.seenAt /\ HeldOf(l, m, w, at)

LEMMA HoldGoes ==
    ASSUME NEW l, Counting(l), NEW w, NEW day, NEW at
    PROVE  Goes(l, Hold(l, w, day, at), w, at) /\ Goes(l, Hold(Release(l), w, day, at), w, at)
<1>1. DOMAIN l = Fields /\ l.base \in Nat
  BY DEF Counting
<1>2. /\ DOMAIN Release(l) = Fields /\ Release(l).base = l.base /\ Release(l).seenAt = l.seenAt
      /\ Release(l).pending = None /\ Release(l).pendingAt = None
  BY <1>1 DEF Release, Fields
<1>3. ASSUME NEW r, DOMAIN r = Fields
      PROVE  LET m == Hold(r, w, day, at) IN
             /\ m.base = r.base /\ m.seenAt = r.seenAt
             /\ \/ m.pending = w /\ m.pendingAt = at
                \/ m.pending = r.pending /\ m.pendingAt = r.pendingAt
  <2>1. CASE w > r.last \/ IsDrop(r, w, day)
    BY <1>3, <2>1 DEF Hold, Fields
  <2>2. CASE ~(w > r.last \/ IsDrop(r, w, day))
    BY <2>2 DEF Hold
  <2> QED BY <2>1, <2>2
<1> QED BY <1>1, <1>2, <1>3 DEF Goes, HeldOf

LEMMA AcceptGoes ==
    ASSUME NEW l, Counting(l), NEW w, NEW day, NEW at
    PROVE  /\ Goes(l, Accept(Release(l), w, day), w, at)
           /\ Goes(l, Accept(Release(BookLast(l)), w, day), w, at)
<1>1. LET m == Accept(Release(l), w, day) IN
      m.base = l.base /\ m.seenAt = l.seenAt /\ m.pending = None /\ m.pendingAt = None
  BY DEF Counting, Fields, Accept, Release
<1>2. LET m == Accept(Release(BookLast(l)), w, day) IN
      /\ m.base = l.base + l.last /\ m.seenAt = l.seenAt
      /\ m.pending = None /\ m.pendingAt = None
  BY DEF Counting, Fields, Accept, Release, BookLast
<1>3. l.base \in Nat /\ l.last \in Nat
  BY DEF Counting
<1> QED BY <1>1, <1>2, <1>3 DEF Goes, HeldOf

\* Every branch of _take keeps what is booked, and holds back the reading, what
\* it held before, or nothing.
LEMMA TakeGoes ==
    ASSUME NEW l, Counting(l), NEW w, NEW day, NEW at, NEW producing
    PROVE  Goes(l, Take(l, w, day, at, producing), w, at)
<1>1. Goes(l, l, w, at)
  BY DEF Goes, HeldOf, Counting
<1>2. l.last # None
  BY DEF Counting, None
<1>3. Goes(l, ConfirmJump(l, w, day), w, at)
  BY AcceptGoes DEF ConfirmJump
<1>4. Goes(l, Decide(l, w, day, at), w, at)
  BY <1>1, <1>3, HoldGoes, AcceptGoes DEF Decide
<1> QED BY <1>1, <1>2, <1>4, HoldGoes, AcceptGoes DEF Take

\* A reading that shows the restart is below the last one.
LEMMA ADropIsLower ==
    ASSUME NEW w \in Nat, NEW v \in Nat, w * ShareOf < ShareOver * v
    PROVE  w < v
<1> SUFFICES ASSUME w >= v PROVE FALSE
  OBVIOUS
<1>1. ShareOf \in Nat /\ ShareOver \in Nat /\ ShareOver <= ShareOf
  BY ReadingsAreWattHours
<1>2. ASSUME NEW a \in Nat, NEW b \in Nat, NEW c \in Nat, a <= b PROVE a * c <= b * c
  BY <1>2
<1>3. ShareOver * v <= ShareOf * v
  BY <1>1, <1>2
<1>4. v * ShareOf <= w * ShareOf
  BY <1>1, <1>2
<1> QED BY <1>1, <1>3, <1>4

\* A reading that shows the restart: taken, it books the finished day; otherwise
\* it is held back, unless another one of this round is; and one above what is
\* held since an earlier round is taken.
LowReading(l, m, w, at) ==
    /\ m.last = w => m.base = l.base + l.last
    /\ m.last # w =>
          /\ \/ m.pending = w /\ m.pendingAt = at
             \/ m.pending = w /\ l.pending = w /\ m.pendingAt = l.pendingAt
             \/ /\ l.pending # None /\ at - l.pendingAt < Confirm
                /\ m.pending = l.pending /\ m.pendingAt = l.pendingAt
          /\ ~(l.pending # None /\ l.pending < w /\ at - l.pendingAt >= Confirm)

LEMMA LowIsTakenOrHeld ==
    ASSUME NEW l, Counting(l), l.pendingAt \in Int, NEW w \in Nat, NEW day, NEW at \in Int,
           NEW producing, w * ShareOf < ShareOver * l.last
    PROVE  LowReading(l, Take(l, w, day, at, producing), w, at)
<1> DEFINE m == Take(l, w, day, at, producing)
<1>1. l.base \in Nat /\ l.last \in Nat /\ l.last # None /\ l.pending \in Int /\ DOMAIN l = Fields
  BY DEF Counting, None
<1>2. w < l.last /\ IsDrop(l, w, day)
  BY <1>1, ADropIsLower DEF IsDrop
<1>3. ~ClimbedUnseen(l, w, day, at, producing) /\ ~Fits(l, w, day, producing)
  BY <1>1, <1>2 DEF ClimbedUnseen, Fits, Rises
<1>4. LET h == Hold(l, w, day, at) IN
      h.last = l.last /\ h.pending = w /\ h.pendingAt = at
  BY <1>1, <1>2 DEF Hold, Fields
<1>5. LET h == Hold(Release(l), w, day, at) IN
      h.last = l.last /\ h.pending = w /\ h.pendingAt = at
  <2>1. DOMAIN Release(l) = Fields /\ Release(l).last = l.last /\ Release(l).outage = l.outage
        /\ Release(l).lastDay = l.lastDay
    BY <1>1 DEF Release, Fields
  <2>2. IsDrop(Release(l), w, day)
    BY <1>2, <2>1 DEF IsDrop, OutageOver
  <2> QED BY <2>1, <2>2 DEF Hold, Fields
<1>6. LET a == Accept(Release(BookLast(l)), w, day) IN
      a.last = w /\ a.base = l.base + l.last
  BY <1>1 DEF Accept, Release, BookLast, Fields
<1>7. CASE l.pending = None
  <2>1. m = Hold(l, w, day, at)
    BY <1>1, <1>3, <1>7 DEF Take
  <2> QED BY <1>1, <1>2, <1>4, <1>7, <2>1 DEF LowReading
<1>8. CASE l.pending # None /\ at - l.pendingAt < Confirm
  <2>1. m = l
    BY <1>1, <1>3, <1>8 DEF Take, Waited
  <2> QED BY <1>1, <1>2, <1>8, <2>1, TimesAreOrdered DEF LowReading
<1>9. CASE l.pending # None /\ ~(at - l.pendingAt < Confirm)
  <2>1. m = Decide(l, w, day, at)
    BY <1>1, <1>3, <1>9 DEF Take, Waited
  <2>2. CASE l.pending > l.last
    <3>1. m = Hold(Release(l), w, day, at)
      BY <1>1, <1>2, <2>1, <2>2 DEF Decide
    <3> QED BY <1>1, <1>2, <1>5, <2>2, <3>1 DEF LowReading
  <2>3. CASE l.pending <= l.last /\ RestartConfirmed(l, w, at)
    <3>1. m = Accept(Release(BookLast(l)), w, day)
      BY <1>1, <1>2, <2>1, <2>3 DEF Decide
    <3> QED BY <1>6, <3>1 DEF LowReading
  <2>4. CASE l.pending <= l.last /\ ~RestartConfirmed(l, w, at)
    <3>1. w <= l.pending
      BY <1>1, <2>4 DEF RestartConfirmed
    <3>2. CASE w < l.pending
      <4>1. m = Hold(Release(l), w, day, at)
        BY <1>1, <1>2, <2>1, <2>4, <3>2 DEF Decide
      <4> QED BY <1>1, <1>2, <1>5, <3>2, <4>1 DEF LowReading
    <3>3. CASE w = l.pending
      <4>1. m = l
        BY <1>1, <1>2, <2>1, <2>4, <3>3 DEF Decide
      <4> QED BY <1>1, <1>2, <3>3, <4>1 DEF LowReading
    <3> QED BY <1>1, <3>1, <3>2, <3>3
  <2> QED BY <1>1, <2>2, <2>3, <2>4
<1> QED BY <1>7, <1>8, <1>9

\* What a reading does to a ledger (record).
LEMMA RecordTells ==
    ASSUME NEW l, Kept(l), l.pendingAt \in Int, l.seenAt \in Int, NEW w \in Nat, NEW t \in Nat,
           NEW producing \in BOOLEAN
    PROVE  LET m == Record(l, w, t, producing) IN
           /\ Kept(m) /\ m.pendingAt \in Int /\ m.seenAt \in Int
           /\ m.base >= l.base /\ m.base + m.last >= l.base + l.last
           /\ \/ m = l
              \/ /\ m.seenAt = t /\ HeldOf(l, m, w, t)
                 /\ w * ShareOf < ShareOver * l.last => LowReading(l, m, w, t)
<1> DEFINE day == ReadingDay(l, t, producing)
           dated == NewDate(l, t)
           noted == NoteOutage(dated, t, day)
           read == [noted EXCEPT !.seenAt = t, !.seenDay = day]
           taken == Take(read, w, day, t, producing)
           m == Record(l, w, t, producing)
<1>1. Counting(l) /\ l.base \in Nat /\ l.last \in Nat
  BY DEF Kept, Counting
<1>2. Recorded(l, m)
  BY RecordGrows
<1>3. CASE w > MaxDaily
  <2>1. m = l
    BY <1>3 DEF Record
  <2> QED BY <1>1, <1>2, <2>1 DEF Recorded
<1>4. CASE ~(w > MaxDaily)
  <2>1. m = FirstToday(taken, t, day)
    BY <1>4 DEF Record
  <2>2. /\ DOMAIN dated = Fields /\ dated.base = l.base /\ dated.last = l.last
        /\ dated.lastDay = l.lastDay /\ dated.pending = l.pending
        /\ dated.pendingDay = l.pendingDay /\ dated.pendingAt = l.pendingAt
        /\ dated.midnight \in {l.midnight, l.base + l.last}
    BY <1>1 DEF NewDate, Total, Counting, Fields, None
  <2> HIDE DEF dated, day
  <2>3. /\ DOMAIN noted = Fields /\ noted.base = l.base /\ noted.last = l.last
        /\ noted.lastDay = l.lastDay /\ noted.pending = l.pending
        /\ noted.pendingDay = l.pendingDay /\ noted.pendingAt = l.pendingAt
        /\ noted.midnight = dated.midnight
    BY <2>2 DEF NoteOutage, Fields
  <2> HIDE DEF noted
  <2>4. /\ DOMAIN read = Fields /\ read.base = l.base /\ read.last = l.last
        /\ read.lastDay = l.lastDay /\ read.pending = l.pending
        /\ read.pendingDay = l.pendingDay /\ read.pendingAt = l.pendingAt
        /\ read.midnight = dated.midnight /\ read.seenAt = t
    BY <2>3 DEF Fields
  <2> HIDE DEF read
  <2>5. Counting(read)
    BY <1>1, <2>4 DEF Counting
  <2>6. Goes(read, taken, w, t)
    BY <2>5, TakeGoes
  <2>7. w * ShareOf < ShareOver * l.last => LowReading(read, taken, w, t)
    BY <2>4, <2>5, LowIsTakenOrHeld
  <2>8. taken.midnight # None
    <3>1. Grown(read, taken)
      BY <2>5, TakeGrows, DaysAreNumbers, <1>1 DEF day
    <3> QED BY <1>1, <2>2, <2>4, <3>1 DEF Grown, Kept, None
  <2>9. m = taken
    BY <2>1, <2>8 DEF FirstToday
  <2> HIDE DEF taken, m
  <2>10. m.base >= l.base /\ m.seenAt = t /\ HeldOf(l, m, w, t)
    BY <2>4, <2>6, <2>9 DEF Goes, HeldOf
  <2>11. w * ShareOf < ShareOver * l.last => LowReading(l, m, w, t)
    BY <2>4, <2>7, <2>9 DEF LowReading
  <2>12. m.pendingAt \in Int
    BY <2>10 DEF HeldOf, None
  <2> QED BY <1>2, <2>10, <2>11, <2>12 DEF Recorded, m
<1> QED BY <1>3, <1>4

\* A reading of what the ECU serves, taken by a ledger that is as good as the
\* one shown, unless a crash forgot one.
LEMMA ReadingKeepsTold ==
    ASSUME Inv, ToldInv, NEW l \in {ledger, stored},
           told.kept => /\ l.base = ledger.base /\ l.last = ledger.last
                        /\ l.pending = ledger.pending /\ l.pendingAt = ledger.pendingAt,
           ledger' \in {l, Record(l, served, now, sun)}, on',
           UNCHANGED <<now, counter, served, stored>>,
           IF served = counter /\ ledger'.seenAt = now THEN TellReading(counter) ELSE UNCHANGED told
    PROVE  ToldInv'
<1> DEFINE m == ledger'
           Low == counter * ShareOf < ShareOver * ledger.last
<1>1. /\ Kept(l) /\ Kept(ledger) /\ counter \in Nat /\ served \in Nat /\ now \in Nat
      /\ sun \in BOOLEAN
  BY DEF Inv
<1>2. /\ HoldsTheRound(l) /\ ReadingsAreTold(l) /\ l.pendingAt \in Int /\ l.seenAt \in Int
      /\ ToldOK /\ TotalCoversTheTold /\ FirstIsHeld
  BY DEF ToldInv
<1>3. /\ Kept(m) /\ m.pendingAt \in Int /\ m.seenAt \in Int
      /\ m.base >= l.base /\ m.base + m.last >= l.base + l.last
      /\ \/ m = l
         \/ /\ m.seenAt = now /\ HeldOf(l, m, served, now)
            /\ served * ShareOf < ShareOver * l.last => LowReading(l, m, served, now)
  <2>1. CASE m = l
    <3>1. l.base \in Nat /\ l.last \in Nat
      BY <1>1 DEF Kept, Counting
    <3> QED BY <1>1, <1>2, <2>1, <3>1
  <2>2. CASE m = Record(l, served, now, sun)
    BY <1>1, <1>2, <2>2, RecordTells
  <2> QED BY <2>1, <2>2
<1>4. /\ l.base \in Nat /\ l.last \in Nat /\ m.base \in Nat /\ m.last \in Nat
      /\ l.pending \in Int /\ m.pending \in Int
      /\ ledger.base \in Nat /\ ledger.last \in Nat /\ ledger.pending \in Int
  BY <1>1, <1>3 DEF Kept, Counting
<1>5. HoldsTheRound(ledger)' /\ (m.seenAt <= now) /\ HoldsTheRound(stored)'
  BY <1>1, <1>2, <1>3 DEF HoldsTheRound, HeldOf, ReadingsAreTold, ToldInv
<1> HIDE DEF m
<1>6. /\ told.past \in Nat /\ told.top \in Nat /\ told.first \in Int /\ told.at \in Int
      /\ told.taken \in BOOLEAN /\ told.plain \in BOOLEAN /\ told.steady \in BOOLEAN
      /\ told.kept \in BOOLEAN /\ (~told.taken => told.top = 0 /\ told.at <= now)
      /\ (~told.taken /\ told.first # None /\ told.at = now => served = counter)
  BY <1>2 DEF ToldOK
<1>7. told.plain /\ told.kept => /\ l.base + l.last >= told.past + told.top
                                 /\ told.taken => l.base >= told.past
  BY <1>2 DEF TotalCoversTheTold
<1>8. ASSUME ToldOK', TotalCoversTheTold', FirstIsHeld',
             served = counter /\ ~told'.taken /\ (m.seenAt = now \/ stored.seenAt = now)
               => told'.first # None /\ told'.at = now
      PROVE  ToldInv'
  <2>1. ReadingsAreTold(ledger)' /\ ReadingsAreTold(stored)'
    <3>1. ReadingsAreTold(stored) /\ UNCHANGED <<now, served, counter, stored>>
      BY DEF ToldInv
    <3> QED BY <1>5, <1>8, <3>1 DEF ReadingsAreTold, m
  <2>2. stored.pendingAt \in Int /\ stored.seenAt \in Int
    BY DEF ToldInv
  <2> QED BY <1>3, <1>5, <1>8, <2>1, <2>2 DEF ToldInv, m
<1>9. CASE told' = told /\ (told.taken \/ ~(served = counter /\ m.seenAt = now))
  <2>1. ToldOK'
    BY <1>2, <1>9 DEF ToldOK
  <2>2. TotalCoversTheTold'
    BY <1>3, <1>4, <1>6, <1>7, <1>9 DEF TotalCoversTheTold, m
  <2>3. FirstIsHeld'
    <3>1. SUFFICES ASSUME Confirm = 1, told.plain, told.kept, told.steady, ~told.taken,
                          told.first # None, told.at = now \/ (told.at = now - 1 /\ served = counter)
                   PROVE  /\ m.pending = told.first /\ m.pendingAt <= told.at
                          /\ told.first <= counter /\ (told.at = now => counter = told.first)
      BY <1>9 DEF FirstIsHeld, m
    <3>2. served = counter /\ m = l
      BY <1>3, <1>6, <1>9, <3>1
    <3> QED BY <1>2, <3>1, <3>2 DEF FirstIsHeld
  <2>4. served = counter /\ ~told'.taken /\ (m.seenAt = now \/ stored.seenAt = now)
          => told'.first # None /\ told'.at = now
    <3>1. ReadingsAreTold(stored)
      BY DEF ToldInv
    <3> QED BY <1>9, <3>1 DEF ReadingsAreTold
  <2> QED BY <1>8, <2>1, <2>2, <2>3, <2>4
<1>10. CASE served = counter /\ m.seenAt = now /\ m.last = counter
  <2> DEFINE plain == told.plain /\ (told.taken \/ Low)
  <2>1. told' = Taken(told.past, counter, plain, told.kept)
    BY <1>10 DEF TellReading, ShowsRestart, m
  <2>2. /\ told'.past = told.past /\ told'.top = counter /\ told'.taken /\ told'.plain = plain
        /\ told'.kept = told.kept
    BY <2>1 DEF Taken
  <2>3. ToldOK'
    BY <1>1, <1>6, <2>1 DEF ToldOK, Taken, None
  <2>4. TotalCoversTheTold'
    <3>1. SUFFICES ASSUME told.plain, told.kept, told.taken \/ Low PROVE m.base >= told.past
      BY <1>1, <1>4, <1>6, <1>10, <2>2 DEF TotalCoversTheTold, m
    <3>2. CASE told.taken
      BY <1>3, <1>4, <1>6, <1>7, <3>1, <3>2
    <3>3. CASE ~told.taken
      <4>1. counter * ShareOf < ShareOver * l.last
        BY <3>1, <3>3
      <4>2. counter < l.last
        BY <1>1, <1>4, <4>1, ADropIsLower
      <4>3. m # l
        BY <1>1, <1>4, <1>10, <4>2
      <4>4. m.base = l.base + l.last
        BY <1>3, <1>10, <4>1, <4>3 DEF LowReading
      <4> QED BY <1>4, <1>6, <1>7, <3>1, <4>4
    <3> QED BY <3>2, <3>3
  <2>5. FirstIsHeld'
    BY <2>2 DEF FirstIsHeld
  <2> QED BY <1>8, <2>2, <2>3, <2>4, <2>5
<1>11. CASE served = counter /\ m.seenAt = now /\ m.last # counter /\ ~told.taken
  <2> DEFINE plain == told.plain /\ Low
             first == IF told.first = None THEN counter ELSE told.first
             steady == told.steady /\ now - told.at <= 1
  <2>1. told' = [told EXCEPT !.first = first, !.at = now, !.plain = plain, !.steady = steady]
    BY <1>11, <1>2 DEF TellReading, ShowsRestart, m, ToldOK
  <2>2. /\ told'.past = told.past /\ told'.top = told.top /\ told'.taken = told.taken
        /\ told'.plain = plain /\ told'.kept = told.kept
        /\ told'.first = first /\ told'.at = now /\ told'.steady = steady
    BY <1>2, <2>1 DEF ToldOK
  <2>3. first \in Int /\ first # None
    BY <1>1, <1>6 DEF None
  <2>4. ToldOK'
    <3>1. plain \in BOOLEAN /\ steady \in BOOLEAN
      OBVIOUS
    <3> HIDE DEF plain, steady, first
    <3>2. told' \in [past : Nat, top : Nat, taken : BOOLEAN, plain : BOOLEAN, kept : BOOLEAN,
                     first : Int, at : Int, steady : BOOLEAN]
      <4>1. ASSUME NEW f \in Int, NEW a \in Int, NEW p \in BOOLEAN, NEW q \in BOOLEAN,
                   told' = [told EXCEPT !.first = f, !.at = a, !.plain = p, !.steady = q]
            PROVE  told' \in [past : Nat, top : Nat, taken : BOOLEAN, plain : BOOLEAN,
                              kept : BOOLEAN, first : Int, at : Int, steady : BOOLEAN]
        BY <1>2, <4>1 DEF ToldOK
      <4>2. now \in Int
        BY <1>1
      <4> QED BY <2>1, <2>3, <3>1, <4>1, <4>2, Zenon
    <3> QED BY <1>1, <1>6, <1>11, <2>2, <3>2 DEF ToldOK
  <2>5. TotalCoversTheTold'
    BY <1>3, <1>4, <1>6, <1>7, <1>11, <2>2 DEF TotalCoversTheTold, m
  <2>6. FirstIsHeld'
    <3>1. SUFFICES ASSUME Confirm = 1, told.plain, Low, told.kept, steady
                   PROVE  m.pending = first /\ m.pendingAt <= now /\ counter = first
      <4>1. (told'.plain => told.plain /\ Low) /\ (told'.steady => steady)
        BY <2>2, Zenon
      <4> HIDE DEF steady, first, plain
      <4> QED BY <1>1, <2>2, <4>1 DEF FirstIsHeld, m
    <3>2. told.first # None /\ (told.at = now \/ told.at = now - 1) =>
            /\ l.pending = told.first /\ l.pendingAt <= told.at
            /\ told.first <= counter /\ (told.at = now => counter = told.first)
      BY <1>2, <1>11, <3>1 DEF FirstIsHeld
    <3>3. told.first # None => told.at = now \/ told.at = now - 1
      BY <1>1, <1>6, <1>11, <3>1
    <3>4. l.pending # None => l.pendingAt <= now /\ (l.pendingAt = now => l.pending = counter)
      BY <1>2, <1>11 DEF HoldsTheRound
    <3>5. CASE m = l
      <4>1. told.first # None /\ told.at = now
        BY <1>2, <1>11, <3>5 DEF ReadingsAreTold
      <4> QED BY <1>2, <3>2, <3>5, <4>1
    <3>6. CASE m # l
      <4>1. LowReading(l, m, counter, now)
        BY <1>3, <1>11, <3>1, <3>6
      <4>2. /\ \/ m.pending = counter /\ m.pendingAt = now
               \/ m.pending = counter /\ l.pending = counter /\ m.pendingAt = l.pendingAt
               \/ /\ l.pending # None /\ now - l.pendingAt < 1
                  /\ m.pending = l.pending /\ m.pendingAt = l.pendingAt
            /\ ~(l.pending # None /\ l.pending < counter /\ now - l.pendingAt >= 1)
        BY <1>11, <3>1, <4>1 DEF LowReading
      <4>3. m.pending = counter /\ m.pendingAt <= now
        BY <1>1, <1>2, <1>3, <3>4, <4>2 DEF None
      <4>4. counter = first
        BY <1>1, <1>2, <1>4, <1>6, <3>2, <3>3, <4>2
      <4> QED BY <4>3, <4>4
    <3> QED BY <3>5, <3>6
  <2> QED BY <1>8, <2>2, <2>3, <2>4, <2>5, <2>6
<1>12. told.taken /\ served = counter /\ m.seenAt = now /\ m.last # counter => told' = told
  BY DEF TellReading, m
<1>13. ~(served = counter /\ m.seenAt = now) => told' = told
  BY DEF m
<1> QED BY <1>6, <1>9, <1>10, <1>11, <1>12, <1>13

LEMMA ToldInitially == ASSUME ToldInit PROVE ToldInv
<1>1. Init /\ told = Taken(0, counter, TRUE, TRUE)
  BY DEF ToldInit
<1>2. counter \in 0..MaxDaily /\ Start \in Nat /\ now = Start /\ counter \in Nat
  BY <1>1, ReadingsAreWattHours, BoundsAreNumbers DEF Init
<1>3. /\ Kept(ledger) /\ ledger.base = 0 /\ ledger.last = counter
      /\ ledger.pending = None /\ ledger.pendingAt = None /\ ledger.seenAt = now
  BY <1>1, <1>2, FirstReading DEF Init
<1>4. /\ stored = Stored(ledger) /\ stored.pending = None /\ stored.pendingAt = None
      /\ stored.seenAt = now
  <2>1. stored = Stored(ledger)
    BY <1>1 DEF Init
  <2> QED BY <1>3, <2>1 DEF Stored, Kept, Counting, Fields
<1>5. /\ told.past = 0 /\ told.top = counter /\ told.taken /\ told.plain /\ told.kept
      /\ told.first = None /\ told.at = None
  BY <1>1 DEF Taken
<1>6. ToldOK
  BY <1>1, <1>2 DEF ToldOK, Taken, None
<1>7. TotalCoversTheTold /\ FirstIsHeld
  BY <1>2, <1>3, <1>5 DEF TotalCoversTheTold, FirstIsHeld
<1>8. \A l \in {ledger, stored} : /\ HoldsTheRound(l) /\ ReadingsAreTold(l)
                                  /\ l.pendingAt \in Int /\ l.seenAt \in Int
  BY <1>2, <1>3, <1>4, <1>5 DEF HoldsTheRound, ReadingsAreTold, None
<1> QED BY <1>4, <1>6, <1>7, <1>8 DEF ToldInv

\* A round: what was held or told in the ticks before is of an earlier one.
LEMMA RoundKeepsTold == ASSUME Inv, ToldInv, Round, Tell PROVE ToldInv'
<1>1. /\ now' = now + 1 /\ now \in Nat /\ on' = on /\ ledger' = ledger
      /\ stored' = (IF on THEN Stored(ledger) ELSE stored)
      /\ counter \in Nat /\ counter' \in Nat
  BY RoundKeeps DEF Round, Inv
<1>2. Kept(ledger) /\ ledger.base \in Nat /\ ledger.last \in Nat
  BY DEF Inv, Kept, Counting
<1>3. /\ stored'.pending \in {ledger.pending, stored.pending}
      /\ stored'.pendingAt \in Int /\ stored'.pendingAt \in {ledger.pendingAt, stored.pendingAt}
      /\ stored'.seenAt \in Int /\ stored'.seenAt \in {ledger.seenAt, stored.seenAt}
      /\ stored'.pending # None => stored'.pendingAt <= now
  BY <1>1, <1>2 DEF Stored, Kept, Counting, Fields, ToldInv, HoldsTheRound
<1>4. \A l \in {ledger, stored'} : /\ l.pendingAt \in Int /\ l.seenAt \in Int /\ l.seenAt <= now
                                   /\ l.pending # None => l.pendingAt <= now
  BY <1>1, <1>3 DEF ToldInv, HoldsTheRound, ReadingsAreTold
<1>5. \A l \in {ledger', stored'} : /\ l.pendingAt \in Int /\ l.seenAt \in Int
                                    /\ l.seenAt <= now' /\ l.seenAt # now'
                                    /\ l.pending # None => l.pendingAt <= now' /\ l.pendingAt # now'
  BY <1>1, <1>4
<1>6. \A l \in {ledger', stored'} :
         /\ l.pendingAt \in Int /\ l.seenAt \in Int
         /\ l.pending # None =>
              l.pendingAt <= now' /\ (l.pendingAt = now' => l.pending = served')
         /\ l.seenAt <= now'
         /\ l.seenAt = now' /\ served' = counter' /\ ~told'.taken =>
              told'.first # None /\ told'.at = now'
  BY <1>5
<1>7. (\A l \in {ledger, stored} : /\ HoldsTheRound(l) /\ ReadingsAreTold(l)
                                   /\ l.pendingAt \in Int /\ l.seenAt \in Int)'
  BY <1>6 DEF HoldsTheRound, ReadingsAreTold
<1>8. /\ told.past \in Nat /\ told.top \in Nat /\ told.at \in Int /\ told.first \in Int
      /\ (~told.taken => told.top = 0 /\ told.at <= now)
  BY DEF ToldInv, ToldOK
<1>9. CASE woke' # woke
  <2>1. told' = [told EXCEPT !.past = told.past + told.top, !.top = 0, !.taken = FALSE,
                             !.first = None, !.at = now', !.steady = TRUE]
    BY <1>9 DEF Tell, TellCounter, ToldInv, ToldOK
  <2>2. /\ told'.past = told.past + told.top /\ told'.top = 0 /\ ~told'.taken
        /\ told'.first = None /\ told'.at = now' /\ told'.plain = told.plain
        /\ told'.kept = told.kept
    BY <2>1 DEF ToldInv, ToldOK
  <2>3. ToldOK'
    <3>1. ASSUME NEW p \in Nat, NEW a \in Int,
                 told' = [told EXCEPT !.past = p, !.top = 0, !.taken = FALSE,
                                      !.first = None, !.at = a, !.steady = TRUE]
          PROVE  told' \in [past : Nat, top : Nat, taken : BOOLEAN, plain : BOOLEAN,
                            kept : BOOLEAN, first : Int, at : Int, steady : BOOLEAN]
      <4>1. told \in [past : Nat, top : Nat, taken : BOOLEAN, plain : BOOLEAN,
                      kept : BOOLEAN, first : Int, at : Int, steady : BOOLEAN]
        BY DEF ToldInv, ToldOK
      <4>2. told.plain \in BOOLEAN /\ told.kept \in BOOLEAN
        BY <4>1
      <4>3. told' = [past |-> p, top |-> 0, taken |-> FALSE, plain |-> told.plain,
                     kept |-> told.kept, first |-> None, at |-> a, steady |-> TRUE]
        BY <3>1, <4>1
      <4>4. p \in Nat /\ a \in Int /\ None \in Int
        BY <3>1 DEF None
      <4> QED BY <4>2, <4>3, <4>4
    <3>2. told.past + told.top \in Nat /\ now' \in Int
      BY <1>1, <1>8
    <3>3. told' \in [past : Nat, top : Nat, taken : BOOLEAN, plain : BOOLEAN,
                     kept : BOOLEAN, first : Int, at : Int, steady : BOOLEAN]
      BY <2>1, <3>1, <3>2, Zenon
    <3> QED BY <1>1, <2>2, <3>3 DEF ToldOK
  <2>4. TotalCoversTheTold' /\ FirstIsHeld'
    BY <1>1, <1>2, <1>8, <2>2 DEF TotalCoversTheTold, FirstIsHeld, ToldInv
  <2>5. (told.kept /\ ~on => stored = Stored(ledger))'
    BY <1>1, <2>2 DEF ToldInv
  <2> QED BY <1>7, <2>3, <2>4, <2>5 DEF ToldInv
<1>10. CASE woke' = woke
  <2>1. told' = told
    BY <1>1, <1>10 DEF Tell
  <2>2. counter' >= counter
    <3>1. ~Wake
      BY <1>10 DEF Wake
    <3>2. counter' = counter \/ \E y \in Yield : counter' = counter + y
      BY <3>1 DEF Round, Rest, Produce
    <3>3. \A y \in Yield : y \in Nat
      BY ReadingsAreWattHours
    <3> QED BY <1>1, <3>2, <3>3
  <2>3. ToldOK'
    BY <1>1, <1>8, <2>1 DEF ToldOK, ToldInv
  <2>4. TotalCoversTheTold'
    BY <1>1, <2>1 DEF TotalCoversTheTold, ToldInv
  <2>5. FirstIsHeld'
    <3>1. SUFFICES ASSUME Confirm = 1, told.plain, told.kept, told.steady, ~told.taken,
                          told.first # None, told.at = now' \/ told.at = now' - 1
                   PROVE  /\ ledger.pending = told.first /\ ledger.pendingAt <= told.at
                          /\ told.first <= counter' /\ told.at # now'
      BY <1>1, <2>1 DEF FirstIsHeld
    <3>2. told.at = now
      BY <1>1, <1>8, <3>1
    <3>3. /\ ledger.pending = told.first /\ ledger.pendingAt <= told.at
          /\ told.first <= counter
      BY <3>1, <3>2 DEF ToldInv, FirstIsHeld
    <3> QED BY <1>1, <1>8, <2>2, <3>2, <3>3
  <2>6. (told.kept /\ ~on => stored = Stored(ledger))'
    BY <1>1, <2>1 DEF ToldInv
  <2> QED BY <1>7, <2>3, <2>4, <2>5, <2>6 DEF ToldInv
<1> QED BY <1>9, <1>10

\* A stop, with or without a last write of the stored forms.
LEMMA StopKeepsTold == ASSUME Inv, ToldInv, Stop, Tell PROVE ToldInv'
<1>1. /\ on /\ ~on' /\ UNCHANGED <<now, counter, served, ledger, woke>>
      /\ stored' \in {Stored(ledger), stored}
  BY DEF Stop, deviceVars
<1>2. told' = [told EXCEPT !.kept = told.kept /\ stored' = Stored(ledger)]
  BY <1>1 DEF Tell, ToldInv, ToldOK
<1>3. /\ UNCHANGED <<told.past, told.top, told.taken, told.plain, told.first, told.at, told.steady>>
      /\ told'.kept = (told.kept /\ stored' = Stored(ledger))
  BY <1>2 DEF ToldInv, ToldOK
<1>4. told'.kept => told.kept /\ stored' = Stored(ledger)
  BY <1>3, Zenon
<1>5. ToldOK'
  <2>1. (told.kept /\ stored' = Stored(ledger)) \in BOOLEAN
    OBVIOUS
  <2>2. ASSUME NEW k \in BOOLEAN, told' = [told EXCEPT !.kept = k]
        PROVE  ToldOK'
    BY <1>1, <1>3, <2>2 DEF ToldOK, ToldInv
  <2> QED BY <1>2, <2>1, <2>2, Zenon
<1>6. TotalCoversTheTold' /\ FirstIsHeld'
  <2>1. TotalCoversTheTold /\ FirstIsHeld
    BY DEF ToldInv
  <2> QED BY <1>1, <1>3, <1>4, <2>1 DEF TotalCoversTheTold, FirstIsHeld
<1>7. (\A l \in {ledger, stored} : /\ HoldsTheRound(l) /\ ReadingsAreTold(l)
                                   /\ l.pendingAt \in Int /\ l.seenAt \in Int)'
  <2>1. \A l \in {ledger, stored} : /\ HoldsTheRound(l) /\ ReadingsAreTold(l)
                                    /\ l.pendingAt \in Int /\ l.seenAt \in Int
    BY DEF ToldInv
  <2>2. /\ Stored(ledger).pending = ledger.pending /\ Stored(ledger).seenAt = ledger.seenAt
        /\ Stored(ledger).pendingAt = ledger.pendingAt
    BY DEF Stored, Inv, Kept, Counting, Fields
  <2> QED BY <1>1, <1>3, <2>1, <2>2 DEF HoldsTheRound, ReadingsAreTold
<1> QED BY <1>1, <1>4, <1>5, <1>6, <1>7 DEF ToldInv

LEMMA StepKeepsTold ==
    ASSUME Inv, ToldInv, [ToldNext]_<<vars, told>>
    PROVE  ToldInv'
<1>1. CASE Round /\ Tell
  BY <1>1, RoundKeepsTold
<1>2. CASE Stop /\ Tell
  BY <1>2, StopKeepsTold
<1>3. CASE (Poll \/ PollFails) /\ Tell
  <2>1. /\ ledger' \in {ledger, Record(ledger, served, now, sun)} /\ on' /\ on
        /\ UNCHANGED <<now, counter, served, stored, woke>>
    BY <1>3 DEF Poll, PollFails, Update, deviceVars, hostVars
  <2>2. IF served = counter /\ ledger'.seenAt = now THEN TellReading(counter) ELSE UNCHANGED told
    BY <1>3, <2>1 DEF Tell
  <2> QED BY <2>1, <2>2, ReadingKeepsTold
<1>4. CASE Restore /\ Tell
  <2>1. /\ ledger' = Record(stored, served, now, sun) /\ on' /\ ~on
        /\ UNCHANGED <<now, counter, served, stored, woke>>
    BY <1>4 DEF Restore, deviceVars
  <2>2. IF served = counter /\ ledger'.seenAt = now THEN TellReading(counter) ELSE UNCHANGED told
    BY <1>4, <2>1 DEF Tell
  <2>3. told.kept => /\ stored.base = ledger.base /\ stored.last = ledger.last
                     /\ stored.pending = ledger.pending /\ stored.pendingAt = ledger.pendingAt
    <3>1. told.kept => stored = Stored(ledger)
      BY <2>1 DEF ToldInv
    <3> QED BY <3>1 DEF Stored, Inv, Kept, Counting, Fields
  <2> QED BY <2>1, <2>2, <2>3, ReadingKeepsTold
<1>5. CASE UNCHANGED <<vars, told>>
  <2>1. UNCHANGED <<now, counter, served, on, ledger, stored, told>>
    BY <1>5 DEF vars, deviceVars, hostVars
  <2> QED BY <2>1 DEF ToldInv, ToldOK, TotalCoversTheTold, FirstIsHeld, HoldsTheRound,
                      ReadingsAreTold
<1> QED BY <1>1, <1>2, <1>3, <1>4, <1>5 DEF ToldNext, Next

LEMMA ToldInvHolds == ToldSpec => [](Inv /\ ToldInv)
<1>1. ToldInit => Inv /\ ToldInv
  BY Initially, ToldInitially DEF ToldInit
<1>2. Inv /\ ToldInv /\ [ToldNext]_<<vars, told>> => (Inv /\ ToldInv)'
  <2>1. [ToldNext]_<<vars, told>> => [Next]_vars
    BY DEF ToldNext
  <2> QED BY <2>1, StepKeeps, StepKeepsTold
<1> QED BY <1>1, <1>2, PTL DEF ToldSpec

\* What the ledger once took of a counter stays booked when the counter starts
\* again and its readings show it: for every length of a day, threshold and
\* yield, over strays, failed polls, clean stops and clouds (_take, as_dict).
THEOREM NoFinishedDayIsLost == ToldSpec => []NothingTakenIsLost
<1>1. Inv /\ ToldInv => NothingTakenIsLost
  BY DEF ToldInv, TotalCoversTheTold, NothingTakenIsLost
<1> QED BY <1>1, ToldInvHolds, PTL

\* With readings in every tick since the restart, one above the first of them is
\* taken, whatever strays come between: the confirmation waits for no more than
\* a tick (_take, CONFIRM_SECONDS).
THEOREM TheClimbConfirmsTheRestart ==
    ASSUME Confirm = 1
    PROVE  ToldSpec => []ClimbIsBooked
<1>1. ASSUME Inv, ToldInv PROVE ClimbIsBooked
  <2>1. SUFFICES ASSUME told.plain, told.kept, told.steady, told.first # None,
                        told.at = now, counter > told.first, ~told.taken
                 PROVE  FALSE
    BY DEF ClimbIsBooked
  <2>2. counter = told.first /\ counter \in Nat
    BY <1>1, <2>1 DEF ToldInv, FirstIsHeld, Inv
  <2> QED BY <2>1, <2>2
<1> QED BY <1>1, ToldInvHolds, PTL
=============================================================================
