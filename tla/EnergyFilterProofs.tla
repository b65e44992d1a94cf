-------------------------- MODULE EnergyFilterProofs --------------------------
(***************************************************************************)
(* Proofs about the filter of the lifetime energy sensor.                  *)
(***************************************************************************)
EXTENDS EnergyFilterProperties, TLAPS

Values == Nat \cup {None}
Sensors == [known : Values, rejected : 0..(RecoveryCount - 1), age : 0..MaxAge, late : BOOLEAN]
Windows == [age : 0..MaxAge, late : BOOLEAN]

LEMMA ConstantsAreNumbers ==
    /\ Peak \in Nat /\ SafetyFactor \in Nat /\ RecoveryCount \in Nat
    /\ MaxMade \in Nat /\ MaxAge \in Nat /\ Misreads \in Nat /\ Stops \in Nat
    /\ Peak > 0 /\ SafetyFactor > 0 /\ RecoveryCount > 0 /\ MaxMade > 0 /\ MaxAge > 0
    /\ First \in Nat /\ Second \in Nat /\ Low \in Nat /\ High \in Nat
    /\ 0 < Low /\ Low < Second /\ Second < First
PROOF
  BY MisreadsAreFar

\* A window of some ticks allows what is made in them and what the safety factor makes up
\* for; a longer one allows no less.
LEMMA WindowsGrow ==
    ASSUME NEW a \in 1..MaxAge
    PROVE  /\ Peak * (SafetyFactor - 1) \in Nat /\ Peak * a \in Nat /\ Peak * SafetyFactor * a \in Nat
           /\ Peak * (SafetyFactor - 1) + Peak * a <= Peak * SafetyFactor * a
           /\ Peak * SafetyFactor * a <= Peak * SafetyFactor * MaxAge
PROOF
  <1> DEFINE x == Peak * (SafetyFactor - 1)
  <1>1. a \in Nat /\ a >= 1 /\ a <= MaxAge /\ MaxAge \in Nat /\ Peak \in Nat
        /\ SafetyFactor \in Nat /\ SafetyFactor - 1 \in Nat
    BY ConstantsAreNumbers
  <1>2. x \in Nat /\ Peak * a \in Nat /\ Peak * SafetyFactor \in Nat
    BY <1>1
  <1>3. x * a >= x
    <2> HIDE DEF x
    <2>1. x * (a - 1) \in Nat
      BY <1>1, <1>2
    <2>2. x * a = x * (a - 1) + x
      BY <1>1, <1>2
    <2> QED BY <1>1, <1>2, <2>1, <2>2
  <1>4. Peak * SafetyFactor * a = x * a + Peak * a
    BY <1>1
  <1>5. Peak * SafetyFactor * a <= Peak * SafetyFactor * MaxAge
    <2>1. PICK y \in Nat : y = Peak * SafetyFactor
      BY <1>2
    <2>2. y * (MaxAge - a) \in Nat
      BY <1>1
    <2>3. y * MaxAge = y * a + y * (MaxAge - a)
      BY <1>1
    <2>4. y * a \in Nat
      BY <1>1
    <2> QED BY <2>1, <2>2, <2>3, <2>4
  <1>6. x * a \in Nat
    BY <1>1, <1>2
  <1> QED BY <1>2, <1>3, <1>4, <1>5, <1>6

-----------------------------------------------------------------------------
(***************************************************************************)
(* The inverter goes on.                                                   *)
(***************************************************************************)
LEMMA Making ==
    ASSUME TypeOK, CountersAddUp, NEW most \in Nat, Makes(most)
    PROVE  /\ {made', pending', counter'} \subseteq Nat /\ counter' >= Second /\ counter' <= First + MaxMade
           /\ replaced' = replaced /\ CountersAddUp'
           /\ counter' >= counter
           /\ counter' + pending' >= counter + pending
           /\ counter' + pending' <= counter + pending + most
           /\ made' - (counter' + pending') = made - (counter + pending)
PROOF
  <1>1. PICK e \in 0..most :
            /\ made + e <= MaxMade + (IF replaced THEN Second ELSE 0) /\ made' = made + e
            /\ \/ counter' = counter + pending + e /\ pending' = 0
               \/ counter' = counter /\ pending' = pending + e
            /\ UNCHANGED replaced
    BY DEF Makes
  <1>2. made \in Nat /\ pending \in Nat /\ counter \in Nat /\ e \in Nat /\ e <= most
    BY <1>1, ConstantsAreNumbers DEF TypeOK
  <1>3. {made', pending', counter'} \subseteq Nat /\ counter' >= counter
        /\ counter' + pending' = counter + pending + e /\ made' = made + e
    BY <1>1, <1>2
  <1>4. /\ counter' + pending' >= counter + pending
        /\ counter' + pending' <= counter + pending + most
        /\ made' - (counter' + pending') = made - (counter + pending)
    BY <1>2, <1>3
  <1>5. replaced' = replaced
    BY <1>1
  <1>6. counter' >= Second /\ counter' <= First + MaxMade /\ CountersAddUp'
    <2>1. CASE replaced
      <3>1. /\ counter >= Second /\ counter + pending <= made
            /\ made + e <= MaxMade + Second
        BY <1>1, <2>1 DEF CountersAddUp
      <3>2. /\ counter' >= Second /\ counter' + pending' <= made'
            /\ made' <= MaxMade + Second /\ counter' <= First + MaxMade
        BY <1>2, <1>3, <3>1, ConstantsAreNumbers
      <3> QED BY <1>3, <1>5, <2>1, <3>2, ConstantsAreNumbers DEF CountersAddUp
    <2>2. CASE ~replaced
      <3>1. /\ counter >= First /\ counter + pending = First + made
            /\ made + e <= MaxMade + 0
        BY <1>1, <2>2 DEF CountersAddUp
      <3>2. /\ counter' >= First /\ counter' + pending' = First + made'
            /\ made' <= MaxMade + 0 /\ counter' <= First + MaxMade /\ counter' >= Second
        BY <1>2, <1>3, <3>1, ConstantsAreNumbers
      <3> QED BY <1>3, <1>5, <2>2, <3>2, ConstantsAreNumbers DEF CountersAddUp
    <2> QED BY <2>1, <2>2
  <1> QED BY <1>3, <1>4, <1>5, <1>6

\* What is known stays within a window that ages with what is made.
LEMMA KnowsWhileMaking ==
    ASSUME TypeOK, CountersAddUp, NEW t \in 1..2, Makes(Peak * t),
           NEW s, s.known \in Values,
           NEW w, w.age \in 0..MaxAge, NEW x, x.age = AgeCapped(w.age + t), x.late = w.late,
           Knows(s, w)
    PROVE  Knows(s, x)'
PROOF
  <1> DEFINE most == Peak * t
  <1>1. most \in Nat /\ Peak * w.age \in Nat /\ Peak * (w.age + t) = Peak * w.age + most
        /\ w.age + t \in Nat /\ Peak * (SafetyFactor - 1) \in Nat
    BY ConstantsAreNumbers
  <1>2. Makes(most)
    OBVIOUS
  <1> HIDE DEF most
  <1>3. /\ {made', pending', counter'} \subseteq Nat /\ counter' >= counter
        /\ replaced' = replaced
        /\ counter' + pending' <= counter + pending + most
        /\ made' - (counter' + pending') = made - (counter + pending)
    BY <1>1, <1>2, Making, ConstantsAreNumbers
  <1>4. made \in Nat /\ pending \in Nat /\ counter \in Nat
    BY ConstantsAreNumbers DEF TypeOK
  <1>5. CASE s.known = None
    BY <1>5 DEF Knows
  <1>6. CASE Past(s.known)
    BY <1>3, <1>4, <1>6, ConstantsAreNumbers DEF Knows, Past
  <1>7. CASE Current(s.known) /\ WithinWindow(s.known, w)
    <2>1. Current(s.known)'
      BY <1>3, <1>4, <1>7, ConstantsAreNumbers DEF Current
    <2>2. CASE w.late \/ x.age = MaxAge
      BY <2>1, <2>2 DEF Knows, WithinWindow
    <2>3. CASE ~w.late /\ x.age # MaxAge
      <3>1. x.age = w.age + t /\ w.age # MaxAge
        BY <2>3, ConstantsAreNumbers DEF AgeCapped
      <3>2. counter + pending - s.known <= Peak * (SafetyFactor - 1) + Peak * w.age
        BY <1>7, <2>3, <3>1 DEF WithinWindow
      <3>3. counter' + pending' - s.known <= Peak * (SafetyFactor - 1) + Peak * x.age
        BY <1>1, <1>3, <1>4, <1>7, <3>1, <3>2 DEF Current
      <3> QED BY <2>1, <3>3 DEF Knows, WithinWindow
    <2> QED BY <2>2, <2>3
  <1> QED BY <1>5, <1>6, <1>7 DEF Knows

-----------------------------------------------------------------------------
(***************************************************************************)
(* What evaluating the value comes to: nothing new, a baseline, a value    *)
(* that is held, or one that is taken.                                     *)
(***************************************************************************)
NothingNew(s, value) ==
    value = None /\ Evaluated(s, value) = s /\ Returned(s, value) = s.known
Baseline(s, value) ==
    /\ value # None /\ peak /\ s.known = None
    /\ Evaluated(s, value) = [s EXCEPT !.known = value, !.age = 0] /\ Returned(s, value) = None
Holds(s, value) ==
    /\ value # None /\ s.known # None /\ Implausible(s, value) /\ s.rejected + 1 < RecoveryCount
    /\ Evaluated(s, value) = [s EXCEPT !.rejected = s.rejected + 1]
    /\ Returned(s, value) = s.known
Takes(s, value) ==
    /\ value # None /\ (s.known = None => ~peak)
    /\ Implausible(s, value) => s.rejected + 1 >= RecoveryCount
    /\ Evaluated(s, value) = [s EXCEPT !.known = value, !.rejected = 0,
                                       !.age = IF value = s.known THEN s.age ELSE 0]
    /\ Returned(s, value) = value

LEMMA FourOutcomes ==
    ASSUME NEW s \in Sensors, NEW value \in Values, peak \in BOOLEAN
    PROVE  NothingNew(s, value) \/ Baseline(s, value) \/ Holds(s, value) \/ Takes(s, value)
PROOF
  <1>1. CASE value = None
    BY <1>1 DEF NothingNew, Evaluated, Returned
  <1>2. CASE value # None /\ peak /\ s.known = None
    BY <1>2 DEF Baseline, Evaluated, Returned, MovedTo, Sensors
  <1>3. CASE /\ value # None /\ ~(peak /\ s.known = None)
             /\ Implausible(s, value) /\ s.rejected + 1 < RecoveryCount
    <2>1. Evaluated(s, value) = [s EXCEPT !.rejected = s.rejected + 1]
      BY <1>3 DEF Evaluated, Held
    <2>2. s.known # None
      BY <1>3 DEF Implausible
    <2>3. Returned(s, value) = s.known
      BY <1>3, <2>1 DEF Returned, Sensors
    <2> QED BY <1>3, <2>1, <2>2, <2>3 DEF Holds
  <1>4. CASE /\ value # None /\ ~(peak /\ s.known = None)
             /\ ~(Implausible(s, value) /\ s.rejected + 1 < RecoveryCount)
    <2>1. Evaluated(s, value) = [MovedTo(s, value) EXCEPT !.rejected = 0]
      BY <1>4 DEF Evaluated
    <2>2. Evaluated(s, value) = [s EXCEPT !.known = value, !.rejected = 0,
                                          !.age = IF value = s.known THEN s.age ELSE 0]
      BY <2>1 DEF MovedTo, Sensors
    <2>3. Returned(s, value) = value
      BY <1>4, <2>2 DEF Returned, Sensors
    <2>4. Implausible(s, value) => s.rejected + 1 >= RecoveryCount
      BY <1>4, ConstantsAreNumbers DEF Sensors
    <2> QED BY <1>4, <2>2, <2>3, <2>4 DEF Takes
  <1> QED BY <1>1, <1>2, <1>3, <1>4

-----------------------------------------------------------------------------
(***************************************************************************)
(* What a reading does to the sensor and to the window of its state.       *)
(***************************************************************************)
LEMMA NewWindowsAreWideEnough ==
    ASSUME {made', pending', counter'} \subseteq Nat,
           NEW k \in Values, k = None \/ Past(k)' \/ Current(k)',
           NEW x, x.known = k, NEW w, w.age \in 0..MaxAge, w.late = Late(k)
    PROVE  Knows(x, w)'
PROOF
  <1>1. CASE k = None \/ Past(k)'
    BY <1>1 DEF Knows
  <1>2. CASE Current(k)'
    <2>1. WithinWindow(k, w)'
      <3>1. CASE Late(k)
        BY <3>1 DEF WithinWindow
      <3>2. CASE ~Late(k)
        <4>1. w.age \in Nat /\ Peak * (SafetyFactor - 1) \in Nat /\ Peak * w.age \in Nat /\ k \in Nat
          BY <1>2, ConstantsAreNumbers DEF Current
        <4>2. ~(counter' + pending' - k > Peak * (SafetyFactor - 1))
          BY <3>2 DEF Late
        <4>3. counter' + pending' - k <= Peak * (SafetyFactor - 1) + Peak * w.age
          BY <4>1, <4>2
        <4> QED BY <4>3 DEF WithinWindow
      <3> QED BY <3>1, <3>2
    <2> QED BY <1>2, <2>1 DEF Knows
  <1> QED BY <1>1, <1>2

\* Fields that do not change what is known of a register.
LEMMA KnowsTheSame ==
    ASSUME NEW s, NEW w, Knows(s, w)', NEW x, x.known = s.known,
           NEW y, y.age = w.age, y.late = w.late
    PROVE  Knows(x, y)'
PROOF
  BY DEF Knows, WithinWindow

\* What a poll may bring: nothing, what is known, what the register shows, or a misread.
Readable(s, value) == value \in {None, s.known} \/ Current(value)' \/ Holds(s, value)

\* The sensor goes on knowing a register.
LEMMA ReviewKnows ==
    ASSUME {made', pending', counter'} \subseteq Nat, peak \in BOOLEAN,
           NEW s \in Sensors, NEW value \in Values, Readable(s, value), Knows(s, s)',
           NEW e, e = Reviewed(s, value)
    PROVE  /\ e \in Sensors /\ Knows(e, e)'
           /\ e.known # s.known => Current(e.known)' /\ e.known = value /\ e.late = Late(e.known)
           /\ e.known = s.known => e.late = s.late
           /\ e.known = Evaluated(s, value).known /\ e.rejected = Evaluated(s, value).rejected
PROOF
  <1> DEFINE v == Evaluated(s, value)
  <1>0. 0 \in 0..MaxAge /\ 0 \in 0..(RecoveryCount - 1)
    BY ConstantsAreNumbers
  <1>1. e = [v EXCEPT !.late = IF v.known = s.known THEN v.late ELSE Late(v.known)]
    BY DEF Reviewed
  <1>2. CASE v.known = s.known /\ v.late = s.late /\ v.age = s.age /\ v \in Sensors
    <2>1. e.known = s.known /\ e.age = s.age /\ e.late = s.late /\ e.rejected = v.rejected
          /\ e \in Sensors
      BY <1>1, <1>2 DEF Sensors
    <2> QED BY <1>2, <2>1, KnowsTheSame
  <1>3. CASE v.known = value /\ v.known # s.known /\ v.age = 0 /\ v \in Sensors /\ Current(value)'
    <2>1. Late(value) \in BOOLEAN
      BY DEF Late
    <2>2. e.known = value /\ e.age = 0 /\ e.late = Late(value) /\ e.rejected = v.rejected
          /\ e \in Sensors
      BY <1>1, <1>3, <2>1 DEF Sensors
    <2>3. Knows(e, e)'
      BY <1>3, <2>2, NewWindowsAreWideEnough, ConstantsAreNumbers
    <2> QED BY <1>3, <2>2, <2>3
  <1>4. CASE NothingNew(s, value)
    BY <1>2, <1>4 DEF NothingNew
  <1>5. CASE Baseline(s, value)
    <2>1. Current(value)'
      BY <1>5 DEF Readable, Baseline, Holds
    <2>2. v = [s EXCEPT !.known = value, !.age = 0] /\ value # None /\ s.known = None
      BY <1>5 DEF Baseline
    <2>3. v.known = value /\ v.age = 0 /\ v \in Sensors
      BY <1>0, <2>2 DEF Sensors
    <2> QED BY <1>3, <2>1, <2>2, <2>3
  <1>6. CASE Holds(s, value)
    <2>1. v.known = s.known /\ v.late = s.late /\ v.age = s.age /\ v \in Sensors
      BY <1>6, ConstantsAreNumbers DEF Holds, Sensors
    <2> QED BY <1>2, <2>1
  <1>7. CASE Takes(s, value)
    <2>1. v = [s EXCEPT !.known = value, !.rejected = 0, !.age = IF value = s.known THEN s.age ELSE 0]
      BY <1>7 DEF Takes
    <2>2. v.known = value /\ v.late = s.late /\ v \in Sensors
          /\ v.age = IF value = s.known THEN s.age ELSE 0
      BY <1>0, <2>1 DEF Sensors
    <2>3. value # None /\ ~Holds(s, value)
      BY <1>7, ConstantsAreNumbers DEF Takes, Holds, Sensors
    <2>4. value # s.known => Current(value)'
      BY <2>3 DEF Readable
    <2> QED BY <1>2, <1>3, <2>2, <2>4
  <1> QED BY <1>4, <1>5, <1>6, <1>7, FourOutcomes

\* The state, and the window a restart would take from it.
LEMMA UpdateKnows ==
    ASSUME {made', pending', counter'} \subseteq Nat, peak \in BOOLEAN, changed \in Windows,
           shown \in {None, Gone} \cup Nat,
           NEW s \in Sensors, NEW value \in Values, Readable(s, value), Knows(s, s)',
           NEW ca \in Windows, ca = Aged(changed, 1), shown # Gone => Knows(s, ca)',
           Updated(s, value),
           NEW e, e = sensor'
    PROVE  /\ e \in Sensors /\ Knows(sensor, sensor)' /\ Knows(sensor, changed)'
           /\ changed' \in Windows /\ shown' \in Values /\ shown' \in {None, e.known}
           /\ e.known # s.known => Current(e.known)' /\ e.known = value
           /\ e.known = s.known => e.late = s.late
           /\ e.known = Evaluated(s, value).known /\ e.rejected = Evaluated(s, value).rejected
           /\ Knows(e, e)'
PROOF
  <1> DEFINE state == Returned(s, value)
  <1>1. e = Reviewed(s, value) /\ Shows(state, e.known # s.known)
    BY DEF Updated
  <1>2. /\ e \in Sensors /\ Knows(e, e)'
        /\ e.known # s.known => Current(e.known)' /\ e.known = value /\ e.late = Late(e.known)
        /\ e.known = s.known => e.late = s.late
        /\ e.known = Evaluated(s, value).known /\ e.rejected = Evaluated(s, value).rejected
    BY <1>1, ReviewKnows
  <1>3. state \in Values /\ state \in {None, e.known}
    <2>1. state = None \/ state = e.known
      BY <1>2 DEF Returned
    <2>2. e.known \in Values
      BY <1>2 DEF Sensors
    <2> QED BY <2>1, <2>2 DEF Values
  <1>4. Knows(sensor, sensor)'
    BY <1>2 DEF Knows, WithinWindow
  <1>5. PICK w : w = changed'
    OBVIOUS
  <1>6. w = [age  |-> IF state = shown THEN AgeCapped(changed.age + 1) ELSE 0,
             late |-> IF state = shown /\ ~(e.known # s.known) THEN changed.late ELSE Late(e.known)]
    BY <1>1, <1>5 DEF Shows
  <1>7. Late(e.known) \in BOOLEAN
    BY DEF Late
  <1>8. AgeCapped(changed.age + 1) \in 0..MaxAge /\ 0 \in 0..MaxAge
    BY ConstantsAreNumbers DEF AgeCapped, Windows
  <1>9. w \in Windows
    BY <1>6, <1>7, <1>8 DEF Windows
  <1>10. Knows(e, w)'
    <2>1. CASE state = shown /\ e.known = s.known
      <3>1. shown # Gone
        BY <1>3, <2>1 DEF Values, None, Gone
      <3>2. ca.age = AgeCapped(changed.age + 1) /\ ca.late = changed.late
        BY DEF Aged, Windows
      <3>3. w.age = ca.age /\ w.late = ca.late
        BY <1>6, <2>1, <3>2
      <3> QED BY <2>1, <3>1, <3>3, KnowsTheSame
    <2>2. CASE ~(state = shown /\ e.known = s.known)
      <3>1. w.late = Late(e.known) /\ w.age \in 0..MaxAge
        BY <1>6, <1>9, <2>2 DEF Windows
      <3>2. e.known = None \/ Past(e.known)' \/ Current(e.known)'
        BY <1>2 DEF Knows
      <3>3. e.known \in Values
        BY <1>2 DEF Sensors
      <3> QED BY <3>1, <3>2, <3>3, NewWindowsAreWideEnough
    <2> QED BY <2>1, <2>2
  <1>11. Knows(sensor, changed)'
    BY <1>5, <1>10 DEF Knows, WithinWindow
  <1>12. shown' = state
    BY <1>1 DEF Shows
  <1> QED BY <1>2, <1>3, <1>4, <1>5, <1>9, <1>11, <1>12

-----------------------------------------------------------------------------
(***************************************************************************)
(* What the statistics book.                                               *)
(***************************************************************************)
Stats == [booked : Int, last : Values]

\* The register of a replaced inverter is above that of the new one.
LEMMA RegistersStayApart ==
    ASSUME CountersStayApart, CountersAddUp', {made', pending', counter'} \subseteq Nat
    PROVE  /\ replaced' => counter' <= Second + MaxMade /\ counter' + pending' <= made'
           /\ ~replaced' => counter' <= First + MaxMade
PROOF
  BY ConstantsAreNumbers DEF CountersStayApart, CountersAddUp

LEMMA BookingGoesOn ==
    ASSUME CountersStayApart, CountersAddUp', {made', pending', counter'} \subseteq Nat,
           NEW s, NEW e \in Sensors, e.known = s.known \/ Current(e.known)',
           Knows(e, e)', NEW st \in Stats, Books(st, s)', NEW v \in {None, e.known}
    PROVE  Booked(st, v) \in Stats /\ Books(Booked(st, v), e)'
PROOF
  <1>1. PICK c \in Nat, p \in Nat, m \in Nat : counter' = c /\ pending' = p /\ made' = m
    OBVIOUS
  <1>2. First \in Nat /\ Second \in Nat /\ MaxMade \in Nat /\ Second < First
        /\ Second + MaxMade < First /\ 9 * MaxMade <= Second
    BY ConstantsAreNumbers DEF CountersStayApart
  <1>3. Past(v)' => v \in Nat /\ v >= First /\ v <= First + m - (c + p) /\ replaced'
    BY <1>1 DEF Past
  <1>4. Current(v)' => v \in Nat /\ v <= c /\ (replaced' => v >= Second) /\ (~replaced' => v >= First)
    BY <1>1 DEF Current
  <1>5. (replaced' => c <= Second + MaxMade /\ c + p <= m) /\ (~replaced' => c <= First + MaxMade)
    BY <1>1, RegistersStayApart
  <1>6. ASSUME replaced', st.last # None, Current(st.last)' PROVE ~Outdated(e)'
    <2>1. ~Outdated(s)' \/ Past(st.last)'
      BY <1>6 DEF Books
    <2>2. st.last <= c /\ st.last \in Nat
      BY <1>1, <1>6 DEF Current
    <2>3. ~Past(st.last)'
      BY <1>1, <1>2, <1>5, <1>6, <2>2 DEF Past
    <2>4. CASE e.known = s.known
      BY <2>1, <2>3, <2>4 DEF Outdated
    <2>5. CASE Current(e.known)'
      <3>1. e.known \in Nat /\ e.known <= c
        BY <1>1, <2>5 DEF Current
      <3> QED BY <1>2, <1>5, <1>6, <3>1 DEF Outdated
    <2> QED BY <2>4, <2>5
  <1>7. CASE v = None
    <2>1. Booked(st, v) = st
      BY <1>7 DEF Booked
    <2>2. Books(st, e)'
      <3>1. CASE Current(st.last)' /\ replaced' /\ st.last # None
        BY <1>6, <3>1 DEF Books
      <3>2. CASE ~(Current(st.last)' /\ replaced' /\ st.last # None)
        BY <3>2 DEF Books, Current, None
      <3> QED BY <3>1, <3>2
    <2> QED BY <2>1, <2>2
  <1>8. CASE v # None
    <2> DEFINE b == Booked(st, v)
    <2>1. v = e.known /\ (Past(v)' \/ Current(v)')
      BY <1>8 DEF Knows
    <2>2. v \in Nat
      BY <1>3, <1>4, <2>1
    <2>3. /\ b.last = v
          /\ b.booked = st.booked + (IF st.last = None THEN 0
                                    ELSE IF 10 * v < 9 * st.last THEN v ELSE v - st.last)
          /\ b = [last |-> b.last, booked |-> b.booked]
      BY <1>8 DEF Booked
    <2>4. st.booked \in Int /\ (st.last # None => st.last \in Nat)
      BY DEF Stats, Values
    <2>5. b.booked \in Int /\ b \in Stats
      <3>1. b.booked \in Int
        BY <2>2, <2>3, <2>4
      <3>2. v \in Values
        BY <2>2 DEF Values
      <3> QED BY <2>3, <3>1, <3>2 DEF Stats
    <2>6. v >= First => 10 * v >= 9 * (First + MaxMade)
      BY <1>2, <2>2
    <2>7. v >= Second => 10 * v >= 9 * (Second + MaxMade)
      BY <1>2, <2>2
    <2>8. Current(v)' /\ replaced' => ~Outdated(e)'
      <3>1. Current(v)' /\ replaced' => v <= c /\ v < First
        BY <1>2, <1>4, <1>5, <1>1, <2>2
      <3> QED BY <2>1, <2>2, <3>1, <1>2 DEF Outdated
    <2>9. Past(v)' => v >= First /\ v <= First + m - (c + p)
      BY <1>3
    <2>10. replaced' => m - (c + p) <= MaxMade /\ m - (c + p) >= 0
      <3>1. replaced' => m <= MaxMade + Second /\ c >= Second
        BY <1>1 DEF CountersAddUp
      <3> QED BY <1>1, <1>2, <1>5, <3>1
    <2>11. CASE st.last = None /\ st.booked = 0
      <3>1. b.booked = 0
        BY <2>3, <2>11
      <3>2. CASE Past(v)'
        BY <2>2, <2>3, <2>5, <2>9, <3>1, <3>2, <1>2 DEF Books
      <3>3. CASE Current(v)' /\ replaced'
        <4>1. b.booked <= m - (c + p) + v
          BY <1>1, <2>2, <2>10, <3>1, <3>3
        <4> QED BY <1>1, <2>3, <2>5, <2>8, <3>3, <4>1 DEF Books
      <3>4. CASE Current(v)' /\ ~replaced'
        <4>1. b.booked <= v - First
          BY <1>2, <1>4, <2>2, <3>1, <3>4
        <4> QED BY <2>3, <2>5, <3>4, <4>1 DEF Books
      <3> QED BY <2>1, <2>5, <3>2, <3>3, <3>4
    <2>12. CASE Past(st.last)' /\ st.booked <= st.last - First
      <3>1. st.last \in Nat /\ st.last >= First /\ st.last <= First + m - (c + p) /\ replaced'
        BY <1>1, <2>12 DEF Past
      <3>2. st.last # None
        BY <3>1 DEF None
      <3>3. CASE Past(v)'
        <4>1. b.booked = st.booked + (v - st.last)
          BY <1>1, <1>2, <2>2, <2>3, <2>6, <2>9, <2>10, <3>1, <3>2, <3>3
        <4>2. b.booked <= v - First
          BY <1>2, <2>2, <2>4, <2>12, <3>1, <4>1
        <4> QED BY <2>3, <3>3, <2>5, <4>2 DEF Books
      <3>4. CASE Current(v)'
        <4>1. b.booked = st.booked + v \/ b.booked = st.booked + (v - st.last)
          BY <2>3, <3>2
        <4>2. b.booked <= m - (c + p) + v
          BY <1>1, <1>2, <2>2, <2>4, <2>12, <3>1, <4>1
        <4> QED BY <1>1, <2>3, <2>5, <2>8, <3>1, <3>4, <4>2 DEF Books
      <3> QED BY <2>1, <2>5, <3>3, <3>4
    <2>13. CASE /\ Current(st.last)'
                /\ (IF replaced
                       THEN st.booked <= made - (counter + pending) + st.last /\ ~Outdated(s)
                       ELSE st.booked <= st.last - First)'
      <3>1. st.last \in Nat /\ st.last <= c /\ st.last # None
        BY <1>1, <2>13 DEF Current, None
      <3>2. CASE replaced'
        <4>1. Current(v)'
          <5>1. ~Outdated(e)'
            BY <1>6, <2>13, <3>1, <3>2
          <5> QED BY <1>3, <2>1, <3>2, <5>1 DEF Outdated
        <4>2. v >= Second /\ st.last <= Second + MaxMade
          BY <1>1, <1>2, <1>4, <1>5, <3>1, <3>2, <4>1
        <4>3. b.booked = st.booked + (v - st.last)
          BY <1>2, <2>2, <2>3, <2>7, <3>1, <4>2
        <4>4. st.booked <= m - (c + p) + st.last
          BY <1>1, <2>13, <3>2
        <4>5. b.booked <= m - (c + p) + v
          BY <1>1, <2>2, <2>4, <3>1, <4>3, <4>4
        <4> QED BY <1>1, <2>3, <2>5, <2>8, <3>2, <4>1, <4>5 DEF Books
      <3>3. CASE ~replaced'
        <4>1. Current(v)'
          BY <1>3, <2>1, <3>3
        <4>2. v >= First /\ st.last <= First + MaxMade
          BY <1>1, <1>2, <1>4, <1>5, <3>1, <3>3, <4>1
        <4>3. b.booked = st.booked + (v - st.last)
          BY <1>2, <2>2, <2>3, <2>6, <3>1, <4>2
        <4>4. st.booked <= st.last - First
          BY <2>13, <3>3
        <4>5. b.booked <= v - First
          BY <1>2, <2>2, <2>4, <3>1, <4>3, <4>4
        <4> QED BY <2>3, <2>5, <3>3, <4>1, <4>5 DEF Books
      <3> QED BY <3>2, <3>3
    <2> QED BY <2>11, <2>12, <2>13 DEF Books
  <1> QED BY <1>7, <1>8

-----------------------------------------------------------------------------
(***************************************************************************)
(* What is held, and what is not.                                          *)
(***************************************************************************)
\* The register is held only if the window began late, or the inverter was replaced.
LEMMA OnlyOutliersAreHeld ==
    ASSUME {made', pending', counter'} \subseteq Nat, CountersAddUp',
           NEW s \in Sensors, s.age >= 1, Knows(s, s)', Holds(s, counter')
    PROVE  s.late \/ Outdated(s)'
PROOF
  <1> SUFFICES ASSUME ~s.late PROVE Outdated(s)'
    OBVIOUS
  <1>1. PICK c \in Nat, p \in Nat, m \in Nat : counter' = c /\ pending' = p /\ made' = m
    OBVIOUS
  <1>2. s.known # None /\ (c < s.known \/ c - s.known > MaxDelta(s))
    BY <1>1 DEF Holds, Implausible
  <1>3. CASE Past(s.known)'
    BY <1>3 DEF Past, Outdated
  <1>4. CASE Current(s.known)' /\ WithinWindow(s.known, s)'
    <2>1. s.known \in Nat /\ s.known <= c /\ (replaced' => s.known >= Second)
          /\ (~replaced' => s.known >= First)
      BY <1>1, <1>4 DEF Current
    <2>2. s.age \in 1..MaxAge
      BY ConstantsAreNumbers DEF Sensors
    <2>3. MaxDelta(s) = Peak * SafetyFactor * s.age
      BY <2>2, ConstantsAreNumbers DEF MaxDelta
    <2>4. CASE s.age = MaxAge
      <3>1. c - s.known <= MaxMade
        <4>1. CASE replaced'
          <5>1. c + p <= m /\ m <= MaxMade + Second
            BY <1>1, <4>1 DEF CountersAddUp
          <5> QED BY <1>1, <2>1, <4>1, <5>1, ConstantsAreNumbers
        <4>2. CASE ~replaced'
          <5>1. c + p = First + m /\ m <= MaxMade + 0
            BY <1>1, <4>2 DEF CountersAddUp
          <5> QED BY <1>1, <2>1, <4>2, <5>1, ConstantsAreNumbers
        <4> QED BY <4>1, <4>2
      <3>2. MaxMade <= MaxDelta(s)
        BY <2>3, <2>4, WindowsAreLong
      <3>3. MaxDelta(s) \in Nat
        BY <2>2, <2>3, WindowsGrow
      <3> QED BY <1>1, <1>2, <2>1, <3>1, <3>2, <3>3, ConstantsAreNumbers
    <2>5. CASE s.age # MaxAge
      <3>1. c + p - s.known <= Peak * (SafetyFactor - 1) + Peak * s.age
        BY <1>1, <1>4, <2>5 DEF WithinWindow
      <3>2. PICK w \in Nat, x \in Nat, y \in Nat :
                w = Peak * (SafetyFactor - 1) /\ x = Peak * s.age /\ y = MaxDelta(s) /\ w + x <= y
        BY <2>2, <2>3, WindowsGrow
      <3>3. c - s.known <= y
        BY <1>1, <2>1, <3>1, <3>2
      <3> QED BY <1>1, <1>2, <2>1, <3>2, <3>3
    <2> QED BY <2>4, <2>5
  <1> QED BY <1>2, <1>3, <1>4 DEF Knows

\* A misread is held as long as there are no more than Misreads in a row.
LEMMA MisreadsAreHeld ==
    ASSUME MisreadsAreFew, {made', pending', counter'} \subseteq Nat, CountersAddUp',
           NEW s \in Sensors, s.age >= 1, Knows(s, s)', s.known # None,
           wrong \in 0..Misreads, wrong < Misreads, s.rejected <= wrong, peak \in BOOLEAN,
           NEW value \in {Low} \cup (IF peak THEN {High} ELSE {})
    PROVE  Holds(s, value) /\ value # s.known /\ value \in Nat
PROOF
  <1>1. PICK c \in Nat, p \in Nat, m \in Nat : counter' = c /\ pending' = p /\ made' = m
    OBVIOUS
  <1>2. s.known \in Nat /\ s.known >= Second /\ s.known <= First + MaxMade
    <2>1. CASE Past(s.known)'
      <3>1. /\ s.known \in Nat /\ s.known >= First /\ s.known <= First + m - (c + p)
            /\ c >= Second /\ m <= MaxMade + Second
        BY <1>1, <2>1 DEF Past, CountersAddUp
      <3> QED BY <1>1, <3>1, ConstantsAreNumbers
    <2>2. CASE Current(s.known)' /\ replaced'
      <3>1. /\ s.known \in Nat /\ s.known >= Second /\ s.known <= c
            /\ c + p <= m /\ m <= MaxMade + Second
        BY <1>1, <2>2 DEF Current, CountersAddUp
      <3> QED BY <1>1, <3>1, ConstantsAreNumbers
    <2>3. CASE Current(s.known)' /\ ~replaced'
      <3>1. /\ s.known \in Nat /\ s.known >= First /\ s.known <= c
            /\ c + p = First + m /\ m <= MaxMade + 0
        BY <1>1, <2>3 DEF Current, CountersAddUp
      <3> QED BY <1>1, <3>1, ConstantsAreNumbers
    <2> QED BY <2>1, <2>2, <2>3 DEF Knows
  <1>3. s.rejected + 1 < RecoveryCount
    BY ConstantsAreNumbers DEF MisreadsAreFew, Sensors
  <1>4. Implausible(s, value) /\ value # s.known /\ value \in Nat
    <2>1. CASE value = Low
      BY <1>2, <2>1, ConstantsAreNumbers DEF Implausible
    <2>2. CASE value = High /\ peak
      <3>1. s.age \in 1..MaxAge
        BY ConstantsAreNumbers DEF Sensors
      <3>2. MaxDelta(s) = Peak * SafetyFactor * s.age
        BY <3>1, ConstantsAreNumbers DEF MaxDelta
      <3>3. PICK x \in Nat, y \in Nat : /\ x = MaxDelta(s) /\ y = Peak * SafetyFactor * MaxAge
                                        /\ x <= y /\ High > First + MaxMade + y
        <4>1. High > First + MaxMade + Peak * SafetyFactor * MaxAge
          BY MisreadsAreFar
        <4>2. MaxAge \in 1..MaxAge
          BY ConstantsAreNumbers
        <4>3. Peak * SafetyFactor * MaxAge \in Nat
          BY <4>2, WindowsGrow
        <4> QED BY <3>1, <3>2, <4>1, <4>3, WindowsGrow
      <3>4. value - s.known > x /\ value # s.known
        BY <1>2, <2>2, <3>3, ConstantsAreNumbers
      <3> QED BY <2>2, <3>3, <3>4, ConstantsAreNumbers DEF Implausible
    <2> QED BY <2>1, <2>2
  <1>5. Holds(s, value)
    <2>1. NothingNew(s, value) \/ Baseline(s, value) \/ Holds(s, value) \/ Takes(s, value)
      BY <1>4, FourOutcomes DEF Values
    <2>2. value # None
      BY <1>4 DEF None
    <2> QED BY <1>3, <1>4, <2>1, <2>2, ConstantsAreNumbers DEF NothingNew, Baseline, Takes, Sensors
  <1> QED BY <1>4, <1>5

-----------------------------------------------------------------------------
(***************************************************************************)
(* Every step keeps the invariant: first what all updates have in common.  *)
(***************************************************************************)
\* What the sensor has before a reading: the counters went on, and the windows with them.
Poised(s, ca, d, st) ==
    /\ {made', pending', counter'} \subseteq Nat
    /\ counter' \in Second..(First + MaxMade) /\ replaced' \in BOOLEAN
    /\ CountersAddUp'
    /\ s \in Sensors /\ s.age >= 1 /\ Knows(s, s)' /\ st = stats /\ Books(st, s)'
    /\ ca \in Windows /\ ca = Aged(changed, 1) /\ (shown # Gone => Knows(s, ca)')
    /\ d \in Sensors /\ disk' = d /\ Knows(d, d)' /\ d.rejected = 0
    /\ s.known = None => s.rejected = 0 /\ d.known = None
    /\ s.rejected > wrong => s.late \/ Outdated(s)'
    /\ on' = TRUE /\ stops' \in 0..Stops

LEMMA KnownIsNotHeld ==
    ASSUME NEW s \in Sensors, NEW value, value \in {None, s.known}
    PROVE  ~Holds(s, value)
PROOF
  <1> SUFFICES ASSUME value = s.known, value # None PROVE ~Implausible(s, value)
    BY DEF Holds
  <1>1. value \in Nat
    BY DEF Sensors, Values
  <1>2. PICK a \in 1..MaxAge : a = IF s.age > 1 THEN s.age ELSE 1
    BY ConstantsAreNumbers DEF Sensors
  <1>3. MaxDelta(s) = Peak * SafetyFactor * a
    BY <1>2 DEF MaxDelta
  <1>4. MaxDelta(s) \in Nat
    BY <1>3, WindowsGrow
  <1> QED BY <1>1, <1>4 DEF Implausible

LEMMA UpdateKeeps ==
    ASSUME CountersStayApart, TypeOK, NEW s, NEW ca, NEW d, NEW st, Poised(s, ca, d, st),
           NEW value \in Values, Readable(s, value), Updated(s, value),
           data' \in [value : Values, misread : BOOLEAN], data'.value = value,
           failing' \in BOOLEAN, peak' \in BOOLEAN, wrong' \in 0..Misreads,
           Holds(s, value) /\ s.rejected + 1 > wrong' => s.late \/ Outdated(s)',
           value = None => wrong' = wrong
    PROVE  IInv'
PROOF
  <1> USE DEF Poised
  <1>1. peak \in BOOLEAN /\ changed \in Windows /\ shown \in {None, Gone} \cup Nat /\ stats \in Stats
        /\ wrong \in 0..Misreads
    BY DEF TypeOK, Windows, Stats, Values
  <1>2. PICK e : e = sensor'
    OBVIOUS
  <1>3. /\ e \in Sensors /\ Knows(sensor, sensor)' /\ Knows(sensor, changed)' /\ Knows(e, e)'
        /\ changed' \in Windows /\ shown' \in Values /\ shown' \in {None, e.known}
        /\ e.known # s.known => Current(e.known)' /\ e.known = value
        /\ e.known = s.known => e.late = s.late
        /\ e.known = Evaluated(s, value).known /\ e.rejected = Evaluated(s, value).rejected
    BY <1>1, <1>2, UpdateKnows
  <1>4. /\ e.known = None => e.rejected = 0 /\ value = None /\ d.known = None
        /\ value \notin {None, e.known} => e.rejected > 0
        /\ e.rejected > wrong' => e.late \/ Outdated(e)'
    <2>1. CASE NothingNew(s, value)
      <3>1. value = None /\ e.known = s.known /\ e.rejected = s.rejected
        BY <1>3, <2>1 DEF NothingNew
      <3> QED BY <1>3, <3>1 DEF Outdated
    <2>2. CASE Baseline(s, value)
      <3>1. value # None /\ s.known = None /\ e.known = value /\ e.rejected = s.rejected
        BY <1>3, <2>2 DEF Baseline, Sensors
      <3>2. e.rejected = 0
        BY <3>1
      <3> QED BY <3>1, <3>2
    <2>3. CASE Holds(s, value)
      <3>1. value # None /\ s.known # None /\ e.known = s.known /\ e.rejected = s.rejected + 1
        BY <1>3, <2>3 DEF Holds, Sensors
      <3>2. e.rejected > 0
        BY <3>1, ConstantsAreNumbers DEF Sensors
      <3>3. e.rejected > wrong' => e.late \/ Outdated(e)'
        BY <1>3, <2>3, <3>1 DEF Outdated
      <3> QED BY <3>1, <3>2, <3>3
    <2>4. CASE Takes(s, value)
      <3>1. value # None /\ e.known = value /\ e.rejected = 0
        BY <1>3, <2>4 DEF Takes, Sensors
      <3> QED BY <3>1, ConstantsAreNumbers
    <2> QED BY <1>1, <2>1, <2>2, <2>3, <2>4, FourOutcomes
  <1>5. stats' \in Stats /\ Books(stats, e)'
    <2>1. PICK v \in {None, e.known} : v = Returned(s, value)
      BY <1>3 DEF Returned
    <2>2. stats' = Booked(stats, v)
      BY <2>1 DEF Updated
    <2>3. Booked(st, v) \in Stats /\ Books(Booked(st, v), e)'
      BY <1>1, <1>3, BookingGoesOn
    <2> QED BY <2>2, <2>3 DEF Books
  <1>6. TypeOK'
    BY <1>2, <1>3, <1>5 DEF TypeOK, Sensors, Windows, Values, Stats
  <1>7. KnowsARegister'
    BY <1>3 DEF KnowsARegister
  <1>8. ReadingsAreCounted'
    BY <1>2, <1>3, <1>4 DEF ReadingsAreCounted, Outdated
  <1>9. BookedSoFar'
    BY <1>2, <1>5 DEF BookedSoFar, Books, Outdated
  <1> QED BY <1>6, <1>7, <1>8, <1>9 DEF IInv

LEMMA ReadingKeeps ==
    ASSUME MisreadsAreFew, CountersStayApart, TypeOK, NEW s, NEW ca, NEW d, NEW st, Poised(s, ca, d, st),
           ReadsTrue(s) \/ ReadsNothing(s) \/ Misread(s)
    PROVE  IInv'
PROOF
  <1>1. /\ s \in Sensors /\ s.age >= 1 /\ Knows(s, s)' /\ {made', pending', counter'} \subseteq Nat
        /\ CountersAddUp' /\ counter' \in Second..(First + MaxMade)
        /\ wrong \in 0..Misreads /\ peak \in BOOLEAN
    BY DEF Poised, TypeOK
  <1>2. CASE ReadsTrue(s)
    <2>1. PICK value \in Values : value = counter'
      BY <1>1 DEF Values
    <2>2. value # None
      BY <1>1, <2>1, ConstantsAreNumbers DEF None
    <2>3. wrong' = 0 /\ peak' \in {peak, TRUE}
      BY <1>2 DEF ReadsTrue
    <2>4. Read(s, [value |-> value, misread |-> FALSE])
      BY <1>2, <2>1 DEF ReadsTrue
    <2>5. Updated(s, value) /\ data' = [value |-> value, misread |-> FALSE] /\ failing' = FALSE
      BY <2>4 DEF Read
    <2>6. Readable(s, value)
      <3>1. Current(value)'
        BY <1>1, <2>1, ConstantsAreNumbers DEF Current, CountersAddUp
      <3> QED BY <3>1 DEF Readable
    <2>7. Holds(s, value) => s.late \/ Outdated(s)'
      BY <1>1, <2>1, OnlyOutliersAreHeld
    <2>8. data' \in [value : Values, misread : BOOLEAN] /\ data'.value = value
      BY <2>5
    <2>9. failing' \in BOOLEAN /\ peak' \in BOOLEAN
      BY <1>1, <2>3, <2>5
    <2>10. wrong' \in 0..Misreads
      BY <2>3, ConstantsAreNumbers
    <2> QED BY <2>2, <2>5, <2>6, <2>7, <2>8, <2>9, <2>10, UpdateKeeps
  <1>3. CASE ReadsNothing(s)
    <2>1. Updated(s, None) /\ data' = [value |-> None, misread |-> FALSE] /\ failing' = FALSE
          /\ wrong' = wrong /\ peak' = peak
      BY <1>3 DEF ReadsNothing, Read, Nothing
    <2>2. Readable(s, None) /\ ~Holds(s, None) /\ None \in Values
      BY DEF Readable, Holds, Values
    <2>3. data' \in [value : Values, misread : BOOLEAN] /\ data'.value = None
          /\ failing' \in BOOLEAN /\ peak' \in BOOLEAN /\ wrong' \in 0..Misreads
      BY <1>1, <2>1, <2>2
    <2> QED BY <2>1, <2>2, <2>3, UpdateKeeps
  <1>4. CASE Misread(s)
    <2>1. PICK value \in {Low} \cup (IF peak THEN {High} ELSE {}) :
              Read(s, [value |-> value, misread |-> TRUE])
      BY <1>4 DEF Misread
    <2>2. wrong < Misreads /\ s.known # None /\ s.rejected <= wrong /\ wrong' = wrong + 1
          /\ peak' = peak
      BY <1>4 DEF Misread
    <2>3. Holds(s, value) /\ value \in Nat
      BY <1>1, <2>2, MisreadsAreHeld
    <2>4. Updated(s, value) /\ data' = [value |-> value, misread |-> TRUE] /\ failing' = FALSE
      BY <2>1 DEF Read
    <2>5. Readable(s, value) /\ value \in Values /\ value # None
      BY <2>3 DEF Readable, Values, None
    <2>6. data' \in [value : Values, misread : BOOLEAN] /\ data'.value = value
          /\ failing' \in BOOLEAN /\ peak' \in BOOLEAN
      BY <1>1, <2>2, <2>4, <2>5
    <2>7. wrong' \in 0..Misreads /\ ~(s.rejected + 1 > wrong')
      BY <1>1, <2>2, ConstantsAreNumbers DEF Sensors
    <2> QED BY <2>3, <2>4, <2>5, <2>6, <2>7, UpdateKeeps
  <1> QED BY <1>2, <1>3, <1>4

-----------------------------------------------------------------------------
(***************************************************************************)
(* The polls, and the start of Home Assistant.                             *)
(***************************************************************************)
LEMMA BooksWhileMaking ==
    ASSUME TypeOK, CountersAddUp, NEW most \in Nat, Makes(most),
           NEW st \in Stats, NEW s, Books(st, s), NEW x, x.known = s.known
    PROVE  Books(st, x)'
PROOF
  <1>1. /\ {made', pending', counter'} \subseteq Nat /\ counter' >= counter
        /\ replaced' = replaced
        /\ made' - (counter' + pending') = made - (counter + pending)
    BY Making
  <1>2. {made, pending, counter} \subseteq Nat
    BY ConstantsAreNumbers DEF TypeOK
  <1>3. PICK r \in Int : r = made - (counter + pending) /\ r = made' - (counter' + pending')
    BY <1>1, <1>2
  <1>4. Past(st.last) => Past(st.last)'
    <2>1. First + made - (counter + pending) = First + r
          /\ First + made' - (counter' + pending') = First + r
      BY <1>1, <1>2, <1>3, ConstantsAreNumbers
    <2> QED BY <1>1, <2>1 DEF Past
  <1>5. Current(st.last) => Current(st.last)'
    BY <1>1, <1>2 DEF Current
  <1>6. Outdated(x)' <=> Outdated(s)
    BY <1>1 DEF Outdated
  <1>7. CASE st.last = None /\ st.booked = 0
    BY <1>7 DEF Books
  <1>8. CASE Past(st.last) /\ st.booked <= st.last - First
    BY <1>4, <1>8 DEF Books
  <1>9. CASE /\ Current(st.last)
             /\ IF replaced
                  THEN st.booked <= made - (counter + pending) + st.last /\ ~Outdated(s)
                  ELSE st.booked <= st.last - First
    <2>1. CASE replaced
      <3>1. st.booked <= r + st.last
        BY <1>3, <1>9, <2>1
      <3>2. st.booked <= made' - (counter' + pending') + st.last
        BY <1>3, <3>1
      <3> QED BY <1>1, <1>5, <1>6, <1>9, <2>1, <3>2 DEF Books
    <2>2. CASE ~replaced
      BY <1>1, <1>5, <1>9, <2>2 DEF Books
    <2> QED BY <2>1, <2>2
  <1> QED BY <1>7, <1>8, <1>9 DEF Books

\* A sensor, or a window, that grows older.
LEMMA AgeingKeeps ==
    ASSUME NEW t \in 1..2,
           NEW s \in Sensors, NEW a, a = Aged(s, t)
    PROVE  /\ a \in Sensors /\ a.age = AgeCapped(s.age + t) /\ a.age >= 1
           /\ a.known = s.known /\ a.rejected = s.rejected /\ a.late = s.late
PROOF
  <1>1. AgeCapped(s.age + t) \in 1..MaxAge
    BY ConstantsAreNumbers DEF AgeCapped, Sensors
  <1> QED BY <1>1, ConstantsAreNumbers DEF Aged, Sensors

LEMMA PassingPoises ==
    ASSUME IInv, Passes, NEW s, s = Aged(sensor, 1), NEW ca, ca = Aged(changed, 1),
           NEW d, d = Aged(disk, 1), NEW st, st = stats
    PROVE  Poised(s, ca, d, st)
PROOF
  <1>1. PICK s0 \in Sensors, d0 \in Sensors, w0 \in Windows : s0 = sensor /\ d0 = disk /\ w0 = changed
    BY DEF IInv, TypeOK, Sensors, Windows, Values
  <1>2. on /\ Makes(Peak * 1) /\ Makes(Peak) /\ disk' = d /\ on' = on /\ stops' = stops
        /\ Peak \in Nat /\ 1 \in 1..2
    BY ConstantsAreNumbers DEF Passes
  <1>3. TypeOK /\ CountersAddUp
    BY DEF IInv
  <1>4. /\ {made', pending', counter'} \subseteq Nat /\ counter' \in Second..(First + MaxMade)
        /\ replaced' \in BOOLEAN /\ replaced' = replaced /\ CountersAddUp'
    BY <1>2, <1>3, Making, ConstantsAreNumbers DEF TypeOK
  <1>5. /\ s \in Sensors /\ s.age = AgeCapped(s0.age + 1) /\ s.age >= 1
        /\ s.known = s0.known /\ s.rejected = s0.rejected /\ s.late = s0.late
    BY <1>1, <1>2, AgeingKeeps
  <1>6. /\ d \in Sensors /\ d.age = AgeCapped(d0.age + 1)
        /\ d.known = d0.known /\ d.rejected = d0.rejected /\ d.late = d0.late
    BY <1>1, <1>2, AgeingKeeps
  <1>7. ca \in Windows /\ ca.age = AgeCapped(w0.age + 1) /\ ca.late = w0.late
    <2>1. AgeCapped(w0.age + 1) \in 0..MaxAge
      BY ConstantsAreNumbers DEF AgeCapped, Windows
    <2> QED BY <1>1, <2>1 DEF Aged, Windows
  <1>8. Knows(s0, s0) /\ Knows(s0, w0) /\ Knows(d0, d0)
    BY <1>1 DEF IInv, KnowsARegister
  <1>9. Knows(s, s)' /\ Knows(s, ca)' /\ Knows(d, d)'
    <2>1. Knows(s0, s)' /\ Knows(s0, ca)' /\ Knows(d0, d)'
      BY <1>2, <1>3, <1>5, <1>6, <1>7, <1>8, KnowsWhileMaking DEF Sensors, Windows
    <2> QED BY <1>5, <1>6, <1>7, <2>1, KnowsTheSame
  <1>10. Books(st, s)'
    <2>1. st \in Stats /\ Books(st, s0)
      BY <1>1, <1>2, <1>3 DEF IInv, BookedSoFar, Books, Outdated, TypeOK, Stats, Values
    <2> QED BY <1>2, <1>3, <1>5, <2>1, BooksWhileMaking
  <1>11. /\ s.known = None => s.rejected = 0 /\ d.known = None
         /\ s.rejected > wrong => s.late \/ Outdated(s)'
         /\ d.rejected = 0
    BY <1>1, <1>4, <1>5, <1>6 DEF IInv, ReadingsAreCounted, Outdated
  <1>12. on' = TRUE
    BY <1>2, <1>3 DEF TypeOK
  <1>13. stops' \in 0..Stops
    BY <1>2, <1>3 DEF TypeOK
  <1> QED BY <1>2, <1>4, <1>5, <1>6, <1>7, <1>9, <1>10, <1>11, <1>12, <1>13 DEF Poised

LEMMA StartingPoises ==
    ASSUME IInv, NEW t \in 1..2, ~on, on' = TRUE, stops' = stops, Makes(Peak * t),
           disk' = Aged(disk, t), NEW s, s = Restored(t), NEW ca, ca = Aged(changed, 1),
           NEW d, d = disk', NEW st, st = stats
    PROVE  Poised(s, ca, d, st)
PROOF
  <1>1. PICK d0 \in Sensors, w0 \in Windows : d0 = disk /\ w0 = changed
    BY DEF IInv, TypeOK, Sensors, Windows, Values
  <1>2. Peak * t \in Nat
    BY ConstantsAreNumbers
  <1>3. TypeOK /\ CountersAddUp
    BY DEF IInv
  <1>4. /\ {made', pending', counter'} \subseteq Nat /\ counter' \in Second..(First + MaxMade)
        /\ replaced' \in BOOLEAN /\ CountersAddUp'
    <2>1. PICK most \in Nat : most = Peak * t /\ Makes(most)
      BY <1>2
    <2> QED BY <1>3, <2>1, Making, ConstantsAreNumbers DEF TypeOK
  <1>5. /\ d \in Sensors /\ d.age = AgeCapped(d0.age + t) /\ d.age >= 1
        /\ d.known = d0.known /\ d.rejected = d0.rejected /\ d.late = d0.late
    BY <1>1, AgeingKeeps
  <1>6. Knows(d, d)'
    <2>1. Knows(d0, d0)
      BY <1>1 DEF IInv, KnowsARegister
    <2>2. Knows(d0, d)'
      BY <1>3, <1>5, <2>1, KnowsWhileMaking DEF Sensors
    <2> QED BY <1>5, <2>2, KnowsTheSame
  <1>7. d.rejected = 0
    BY <1>1, <1>5 DEF IInv, ReadingsAreCounted
  <1>8. s \in Sensors /\ s.age >= 1 /\ Knows(s, s)' /\ s.known = d0.known /\ s.rejected = 0
    <2>1. CASE d0.known = None
      <3>1. s = [known |-> None, rejected |-> 0, age |-> MaxAge, late |-> FALSE]
        BY <1>1, <2>1 DEF Restored, NewSensor
      <3>2. s \in Sensors
        BY <3>1, ConstantsAreNumbers DEF Sensors, Values
      <3> QED BY <2>1, <3>1, <3>2, ConstantsAreNumbers DEF Knows
    <2>2. CASE d0.known # None
      <3>1. s = d
        BY <1>1, <2>2 DEF Restored
      <3> QED BY <1>5, <1>6, <1>7, <3>1
    <2> QED BY <2>1, <2>2
  <1>9. Books(st, s)'
    <2>1. st \in Stats /\ Books(st, d0)
      BY <1>1, <1>3 DEF IInv, BookedSoFar, Books, Outdated, TypeOK, Stats, Values
    <2>2. PICK most \in Nat : most = Peak * t /\ Makes(most)
      BY <1>2
    <2> QED BY <1>3, <1>8, <2>1, <2>2, BooksWhileMaking
  <1>10. ca \in Windows
    <2>1. AgeCapped(w0.age + 1) \in 0..MaxAge
      BY ConstantsAreNumbers DEF AgeCapped, Windows
    <2> QED BY <1>1, <2>1 DEF Aged, Windows
  <1>11. shown = Gone /\ wrong \in 0..Misreads /\ stops' \in 0..Stops
    BY <1>3 DEF IInv, ReadingsAreCounted, TypeOK
  <1> QED BY <1>4, <1>5, <1>6, <1>7, <1>8, <1>9, <1>10, <1>11, ConstantsAreNumbers DEF Poised

LEMMA PollsKeep ==
    ASSUME MisreadsAreFew, CountersStayApart, IInv, PollTrue \/ PollNothing \/ PollMisread
    PROVE  IInv'
PROOF
  <1>1. PICK s, ca, d, st : s = Aged(sensor, 1) /\ ca = Aged(changed, 1) /\ d = Aged(disk, 1) /\ st = stats
    OBVIOUS
  <1>2. Passes /\ (ReadsTrue(s) \/ ReadsNothing(s) \/ Misread(s))
    BY <1>1 DEF PollTrue, PollNothing, PollMisread
  <1>3. Poised(s, ca, d, st)
    BY <1>1, <1>2, PassingPoises
  <1> QED BY <1>2, <1>3, ReadingKeeps DEF IInv

LEMMA StartKeeps ==
    ASSUME MisreadsAreFew, CountersStayApart, IInv, Start
    PROVE  IInv'
PROOF
  <1>1. PICK t \in 1..2 :
            /\ Makes(Peak * t) /\ disk' = Aged(disk, t)
            /\ ReadsTrue(Restored(t)) \/ ReadsNothing(Restored(t)) \/ Misread(Restored(t))
    BY DEF Start
  <1>2. PICK s, ca, d, st : s = Restored(t) /\ ca = Aged(changed, 1) /\ d = disk' /\ st = stats
    OBVIOUS
  <1>3. ~on /\ on' = TRUE /\ stops' = stops
    BY DEF Start
  <1>4. Poised(s, ca, d, st)
    BY <1>1, <1>2, <1>3, StartingPoises
  <1>5. ReadsTrue(s) \/ ReadsNothing(s) \/ Misread(s)
    BY <1>1, <1>2
  <1> QED BY <1>4, <1>5, ReadingKeeps DEF IInv

\* A value that is evaluated again changes nothing: it is what is known, or there is none.
LEMMA RereadingIsIdle ==
    ASSUME MisreadsAreFew, IInv, MayReread
    PROVE  /\ data.value \in {None, sensor.known}
           /\ Returned(sensor, data.value) = sensor.known
           /\ Reviewed(sensor, data.value) = sensor
PROOF
  <1>1. PICK s \in Sensors, value \in Values : s = sensor /\ value = data.value
    BY DEF IInv, TypeOK, Sensors, Values
  <1>2. value \in {None, s.known} /\ (s.known = None => value = None)
    <2>1. sensor.rejected = 0 \/ data = Nothing
      BY DEF MayReread, MisreadsAreFew
    <2> QED BY <1>1, <2>1 DEF IInv, ReadingsAreCounted, Nothing
  <1>3. ~Holds(s, value) /\ peak \in BOOLEAN
    BY <1>2, KnownIsNotHeld DEF IInv, TypeOK
  <1>4. CASE NothingNew(s, value)
    <2>1. Reviewed(s, value) = s
      BY <1>4 DEF NothingNew, Reviewed, Sensors
    <2> QED BY <1>1, <1>2, <1>4, <2>1 DEF NothingNew
  <1>5. CASE Takes(s, value)
    <2>1. value # None /\ value = s.known /\ s.rejected = 0
      <3>1. value # None
        BY <1>5 DEF Takes
      <3>2. data # Nothing
        BY <1>1, <3>1 DEF Nothing
      <3> QED BY <1>1, <1>2, <3>1, <3>2 DEF MayReread, MisreadsAreFew
    <2>2. Evaluated(s, value) = s
      BY <1>5, <2>1 DEF Takes, Sensors
    <2>3. Reviewed(s, value) = s
      BY <2>2 DEF Reviewed, Sensors
    <2> QED BY <1>1, <1>2, <1>5, <2>1, <2>3 DEF Takes
  <1>6. ~Baseline(s, value)
    BY <1>2 DEF Baseline
  <1> QED BY <1>3, <1>4, <1>5, <1>6, FourOutcomes

LEMMA PollFailsKeeps ==
    ASSUME MisreadsAreFew, CountersStayApart, IInv, PollFails
    PROVE  IInv'
PROOF
  <1>1. PICK s, ca, d, st : s = Aged(sensor, 1) /\ ca = Aged(changed, 1) /\ d = Aged(disk, 1) /\ st = stats
    OBVIOUS
  <1>2. Passes /\ failing' = TRUE /\ peak' = peak /\ data' = data /\ wrong' = wrong
    BY DEF PollFails
  <1>3. Poised(s, ca, d, st)
    BY <1>1, <1>2, PassingPoises
  <1>4. PICK s0 \in Sensors : s0 = sensor
    BY DEF IInv, TypeOK, Sensors, Values
  <1>5. s \in Sensors /\ s.known = s0.known /\ s.rejected = s0.rejected /\ s.late = s0.late
    BY <1>1, <1>4, AgeingKeeps
  <1>6. peak' \in BOOLEAN /\ wrong' \in 0..Misreads /\ failing' \in BOOLEAN
        /\ data' \in [value : Values, misread : BOOLEAN]
    BY <1>2 DEF IInv, TypeOK, Values
  <1>7. CASE ~failing /\ MayReread /\ Updated(Aged(sensor, 1), data.value)
    <2>1. PICK value \in Values : value = data.value /\ value \in {None, s.known}
      BY <1>4, <1>5, <1>7, RereadingIsIdle DEF IInv, TypeOK, Values
    <2>2. Updated(s, value) /\ data'.value = value
      BY <1>1, <1>2, <1>7, <2>1
    <2>3. ~Holds(s, value) /\ Readable(s, value)
      BY <1>5, <2>1, KnownIsNotHeld DEF Readable
    <2>4. TypeOK
      BY DEF IInv
    <2> QED BY <1>2, <1>3, <1>6, <2>2, <2>3, <2>4, UpdateKeeps
  <1>8. CASE /\ failing /\ sensor' = Aged(sensor, 1) /\ UNCHANGED stats
             /\ \E state \in {shown, Gone} : Shows(state, FALSE)
    <2>1. PICK state \in {shown, Gone} : Shows(state, FALSE)
      BY <1>8
    <2>2. sensor' = s /\ stats' = stats /\ shown' = state
      BY <1>1, <1>8, <2>1 DEF Shows
    <2>3. PICK w : w = changed'
      OBVIOUS
    <2>4. w = [age  |-> IF state = shown THEN AgeCapped(changed.age + 1) ELSE 0,
               late |-> IF state = shown THEN changed.late ELSE Late(s.known)]
      BY <2>1, <2>2, <2>3 DEF Shows
    <2>5. PICK w0 \in Windows : w0 = changed
      BY DEF IInv, TypeOK, Windows
    <2>6. AgeCapped(w0.age + 1) \in 0..MaxAge /\ 0 \in 0..MaxAge /\ Late(s.known) \in BOOLEAN
      BY ConstantsAreNumbers DEF AgeCapped, Windows, Late
    <2>7. w \in Windows
      BY <2>4, <2>5, <2>6 DEF Windows
    <2>8. Knows(s, w)'
      <3>1. CASE state = shown
        <4>1. w.age = AgeCapped(w0.age + 1) /\ w.late = w0.late
          BY <2>4, <2>5, <3>1
        <4>2. Knows(s0, w0) /\ TypeOK /\ CountersAddUp
          BY <1>4, <2>5 DEF IInv, KnowsARegister
        <4>3. Makes(Peak * 1) /\ 1 \in 1..2
          BY <1>2, ConstantsAreNumbers DEF Passes
        <4>4. s0.known \in Values /\ w0.age \in 0..MaxAge
          BY DEF Sensors, Windows
        <4>5. Knows(s0, w)'
          BY <4>1, <4>2, <4>3, <4>4, KnowsWhileMaking
        <4> QED BY <1>5, <4>5, KnowsTheSame
      <3>2. CASE state # shown
        <4>1. w.late = Late(s.known) /\ w.age \in 0..MaxAge
          BY <2>4, <2>6, <3>2
        <4>2. s.known \in Values /\ {made', pending', counter'} \subseteq Nat
          BY <1>3, <1>5 DEF Sensors, Poised
        <4>3. s.known = None \/ Past(s.known)' \/ Current(s.known)'
          BY <1>3 DEF Poised, Knows
        <4> QED BY <4>1, <4>2, <4>3, NewWindowsAreWideEnough
      <3> QED BY <3>1, <3>2
    <2>9. KnowsARegister'
      BY <1>3, <2>2, <2>3, <2>8 DEF KnowsARegister, Poised, Knows, WithinWindow
    <2>10. TypeOK'
      <3>1. shown' \in Nat \cup {None, Gone} /\ stats' \in [booked : Int, last : Nat \cup {None}]
        BY <2>1, <2>2 DEF IInv, TypeOK
      <3> QED BY <1>3, <1>5, <1>6, <2>2, <2>3, <2>7, <3>1 DEF TypeOK, Poised, Sensors, Windows, Values
    <2>11. ReadingsAreCounted'
      <3>1. shown' \in {None, Gone, s.known}
        <4>1. on
          BY <1>2 DEF Passes
        <4> QED BY <1>4, <1>5, <2>1, <2>2, <4>1 DEF IInv, ReadingsAreCounted
      <3>2. s.known = None => data'.value = None
        BY <1>2, <1>4, <1>5 DEF IInv, ReadingsAreCounted
      <3>3. data'.value \notin {None, s.known} => s.rejected > 0
        BY <1>2, <1>4, <1>5 DEF IInv, ReadingsAreCounted
      <3> QED BY <1>2, <1>3, <2>2, <3>1, <3>2, <3>3 DEF ReadingsAreCounted, Poised, Outdated
    <2>12. BookedSoFar'
      BY <1>1, <1>3, <2>2 DEF BookedSoFar, Books, Outdated, Poised
    <2> QED BY <1>3, <2>9, <2>10, <2>11, <2>12 DEF IInv, Poised
  <1> QED BY <1>7, <1>8 DEF PollFails

-----------------------------------------------------------------------------
(***************************************************************************)
(* What stores, stops and replaces.                                        *)
(***************************************************************************)
\* What is stored is what is known, with the window of the state.
LEMMA StoresKnows ==
    ASSUME MisreadsAreFew, IInv, Stores, NEW d, d = disk'
    PROVE  /\ d \in Sensors /\ d.known = sensor.known /\ d.rejected = 0 /\ Knows(d, d)
PROOF
  <1>1. PICK s \in Sensors, w \in Windows : s = sensor /\ w = changed
    BY DEF IInv, TypeOK, Sensors, Windows, Values
  <1>2. d = [known |-> s.known, rejected |-> 0, age |-> w.age, late |-> w.late]
    BY <1>1, RereadingIsIdle DEF Stores
  <1>3. d \in Sensors
    BY <1>2, ConstantsAreNumbers DEF Sensors, Windows
  <1>4. Knows(s, w)
    BY <1>1 DEF IInv, KnowsARegister
  <1> QED BY <1>1, <1>2, <1>3, <1>4 DEF Knows, WithinWindow

LEMMA DumpKeeps ==
    ASSUME MisreadsAreFew, IInv, Dump
    PROVE  IInv'
PROOF
  <1>1. PICK d : d = disk'
    OBVIOUS
  <1>2. /\ Stores /\ on /\ sensor' = sensor
        /\ UNCHANGED world
        /\ UNCHANGED <<on, failing, peak, data, shown, changed, stats, wrong, stops>>
    BY RereadingIsIdle DEF Dump, Stores
  <1>3. d \in Sensors /\ d.known = sensor.known /\ d.rejected = 0 /\ Knows(d, d)
    BY <1>1, <1>2, StoresKnows
  <1>4. Knows(d, d)'
    BY <1>2, <1>3 DEF world, Knows, Past, Current, WithinWindow
  <1>5. TypeOK'
    BY <1>1, <1>2, <1>3 DEF IInv, TypeOK, world, Sensors, Values
  <1>6. CountersAddUp'
    BY <1>2 DEF IInv, CountersAddUp, world
  <1>7. KnowsARegister'
    BY <1>1, <1>2, <1>4 DEF IInv, KnowsARegister, world, Knows, Past, Current, WithinWindow
  <1>8. ReadingsAreCounted'
    BY <1>1, <1>2, <1>3 DEF IInv, ReadingsAreCounted, Outdated, world
  <1>9. BookedSoFar'
    BY <1>2 DEF IInv, BookedSoFar, Books, Past, Current, Outdated, world
  <1> QED BY <1>5, <1>6, <1>7, <1>8, <1>9 DEF IInv

LEMMA StopKeeps ==
    ASSUME MisreadsAreFew, IInv, Stop
    PROVE  IInv'
PROOF
  <1>1. PICK d : d = disk'
    OBVIOUS
  <1>2. /\ on /\ on' = FALSE /\ stops' \in 0..Stops /\ shown' = Gone
        /\ UNCHANGED <<failing, peak, data, sensor, changed, stats, wrong>>
    BY ConstantsAreNumbers DEF Stop, IInv, TypeOK
  <1>3. UNCHANGED world
    BY DEF Stop, Stores, world
  <1>4. /\ d \in Sensors /\ d.rejected = 0 /\ Knows(d, d)
        /\ sensor.known = None => d.known = None
        /\ Outdated(d) => Outdated(sensor)
    <2>1. CASE Stores
      BY <1>1, <2>1, StoresKnows DEF Outdated
    <2>2. CASE (Outdated(disk) => Outdated(sensor)) /\ UNCHANGED <<world, disk>>
      <3>1. d = disk
        BY <1>1, <2>2
      <3> QED BY <2>2, <3>1 DEF IInv, TypeOK, KnowsARegister, ReadingsAreCounted, Sensors, Values
    <2> QED BY <2>1, <2>2 DEF Stop
  <1>5. Knows(d, d)'
    BY <1>3, <1>4 DEF world, Knows, Past, Current, WithinWindow
  <1>6. TypeOK'
    BY <1>1, <1>2, <1>3, <1>4 DEF IInv, TypeOK, world, Sensors, Values
  <1>7. CountersAddUp'
    BY <1>3 DEF IInv, CountersAddUp, world
  <1>8. KnowsARegister'
    BY <1>1, <1>2, <1>3, <1>5 DEF IInv, KnowsARegister, world, Knows, Past, Current, WithinWindow
  <1>9. ReadingsAreCounted'
    BY <1>1, <1>2, <1>3, <1>4 DEF IInv, ReadingsAreCounted, Outdated, world
  <1>10. BookedSoFar'
    <2>1. PICK st \in Stats : st = stats /\ Books(st, sensor)
      BY <1>2 DEF IInv, TypeOK, Stats, Values, BookedSoFar
    <2>2. Books(st, d)
      BY <1>4, <2>1 DEF Books
    <2>3. Books(st, d)'
      BY <1>3, <2>2 DEF Books, Past, Current, Outdated, world
    <2> QED BY <1>1, <1>2, <2>1, <2>3 DEF BookedSoFar, Books, Outdated
  <1> QED BY <1>6, <1>7, <1>8, <1>9, <1>10 DEF IInv

LEMMA ReplaceKeeps ==
    ASSUME IInv, Replace
    PROVE  IInv'
PROOF
  <1>1. /\ ~replaced /\ replaced' = TRUE /\ counter' = Second /\ pending' = 0
        /\ made' = made + Second
        /\ UNCHANGED <<on, failing, peak, data, sensor, disk, shown, changed, stats, wrong, stops>>
    BY DEF Replace
  <1>2. /\ made \in Nat /\ pending \in Nat /\ counter \in Nat
        /\ counter >= First /\ counter + pending = First + made /\ made <= MaxMade + 0
    BY <1>1, ConstantsAreNumbers DEF IInv, TypeOK, CountersAddUp
  <1>3. ASSUME NEW v, Current(v) PROVE Past(v)'
    BY <1>1, <1>2, <1>3, ConstantsAreNumbers DEF Current, Past
  <1>4. ASSUME NEW v PROVE ~Past(v)
    BY <1>1 DEF Past
  <1>5. TypeOK'
    BY <1>1, <1>2, ConstantsAreNumbers DEF IInv, TypeOK
  <1>6. CountersAddUp'
    BY <1>1, <1>2, ConstantsAreNumbers DEF CountersAddUp
  <1>7. ASSUME NEW k, NEW w, Knows(k, w) PROVE Knows(k, w)'
    BY <1>3, <1>4, <1>7 DEF Knows
  <1>8. KnowsARegister'
    <2>1. PICK s, d, w : s = sensor /\ d = disk /\ w = changed
      OBVIOUS
    <2>2. Knows(s, s)' /\ Knows(s, w)' /\ Knows(d, d)'
      BY <1>7, <2>1 DEF IInv, KnowsARegister
    <2> QED BY <1>1, <2>1, <2>2 DEF KnowsARegister, Knows, WithinWindow
  <1>9. ReadingsAreCounted'
    BY <1>1 DEF IInv, ReadingsAreCounted, Outdated
  <1>10. BookedSoFar'
    <2>1. PICK st \in Stats : st = stats
      BY DEF IInv, TypeOK, Stats, Values
    <2>2. \/ st.last = None /\ st.booked = 0
          \/ Current(st.last) /\ st.booked <= st.last - First
      BY <1>1, <1>4, <2>1 DEF IInv, BookedSoFar, Books
    <2>3. \/ st.last = None /\ st.booked = 0
          \/ Past(st.last)' /\ st.booked <= st.last - First
      BY <1>3, <2>2
    <2> QED BY <1>1, <2>1, <2>3 DEF BookedSoFar, Books
  <1> QED BY <1>5, <1>6, <1>8, <1>9, <1>10 DEF IInv

-----------------------------------------------------------------------------
(***************************************************************************)
(* The theorems.                                                           *)
(***************************************************************************)
LEMMA IInvAtStart ==
    ASSUME Init
    PROVE  IInv
PROOF
  <1>1. /\ counter = First /\ made = 0 /\ pending = 0 /\ replaced = FALSE
        /\ on = FALSE /\ failing = FALSE /\ peak \in BOOLEAN
        /\ data = Nothing /\ sensor = NewSensor /\ disk = NewSensor
        /\ shown = Gone /\ changed = [age |-> 0, late |-> FALSE]
        /\ stats = [booked |-> 0, last |-> None]
        /\ wrong = 0 /\ stops = 0
    BY DEF Init
  <1>2. TypeOK
    <2>1. NewSensor \in [known : Nat \cup {None}, rejected : 0..(RecoveryCount - 1),
                         age : 0..MaxAge, late : BOOLEAN]
      BY ConstantsAreNumbers DEF NewSensor
    <2>2. changed \in [age : 0..MaxAge, late : BOOLEAN]
      BY <1>1, ConstantsAreNumbers
    <2>3. data \in [value : Nat \cup {None}, misread : BOOLEAN]
      BY <1>1 DEF Nothing
    <2>4. stats \in [booked : Int, last : Nat \cup {None}]
      BY <1>1
    <2>5. counter \in Second..(First + MaxMade) /\ wrong \in 0..Misreads /\ stops \in 0..Stops
          /\ {made, pending} \subseteq Nat
      BY <1>1, ConstantsAreNumbers
    <2>6. {replaced, on, failing, peak} \subseteq BOOLEAN
      BY <1>1
    <2>7. shown \in Nat \cup {None, Gone} /\ sensor = NewSensor /\ disk = NewSensor
      BY <1>1
    <2> QED BY <2>1, <2>2, <2>3, <2>4, <2>5, <2>6, <2>7 DEF TypeOK
  <1>3. CountersAddUp
    BY <1>1, ConstantsAreNumbers DEF CountersAddUp
  <1>4. KnowsARegister
    BY <1>1 DEF KnowsARegister, Knows, NewSensor
  <1>5. ReadingsAreCounted
    BY <1>1 DEF ReadingsAreCounted, NewSensor, Nothing
  <1>6. BookedSoFar
    BY <1>1 DEF BookedSoFar, Books
  <1> QED BY <1>2, <1>3, <1>4, <1>5, <1>6 DEF IInv

\* The inductive invariant: what the sensor, the disk and the state know is of a register and
\* within its window, and what the statistics hold is what the registers rose by.
THEOREM InductiveInvariant ==
    ASSUME MisreadsAreFew, CountersStayApart
    PROVE  Spec => []IInv
PROOF
  <1>1. Init => IInv
    BY IInvAtStart
  <1>2. IInv /\ [Next]_vars => IInv'
    <2> SUFFICES ASSUME IInv, [Next]_vars PROVE IInv'
      OBVIOUS
    <2>1. CASE PollTrue \/ PollNothing \/ PollMisread
      BY <2>1, PollsKeep
    <2>2. CASE PollFails
      BY <2>2, PollFailsKeeps
    <2>3. CASE Dump
      BY <2>3, DumpKeeps
    <2>4. CASE Stop
      BY <2>4, StopKeeps
    <2>5. CASE Start
      BY <2>5, StartKeeps
    <2>6. CASE Replace
      BY <2>6, ReplaceKeeps
    <2>7. CASE UNCHANGED vars
      <3>1. TypeOK'
        BY <2>7 DEF vars, IInv, TypeOK
      <3>2. KnowsARegister'
        BY <2>7 DEF vars, IInv, KnowsARegister, Knows, Past, Current, WithinWindow
      <3>3. CountersAddUp' /\ ReadingsAreCounted'
        BY <2>7 DEF vars, IInv, CountersAddUp, ReadingsAreCounted, Outdated
      <3>4. BookedSoFar'
        BY <2>7 DEF vars, IInv, BookedSoFar, Books, Past, Current, Outdated
      <3> QED BY <3>1, <3>2, <3>3, <3>4 DEF IInv
    <2> QED BY <2>1, <2>2, <2>3, <2>4, <2>5, <2>6, <2>7 DEF Next
  <1> QED BY <1>1, <1>2, PTL DEF Spec

\* The types, among them the filter's count below its limit and the register within what was
\* made.
THEOREM TypesHold ==
    ASSUME MisreadsAreFew, CountersStayApart
    PROVE  Spec => []TypeOK
PROOF
  <1>1. IInv => TypeOK
    BY DEF IInv
  <1> QED BY <1>1, InductiveInvariant, PTL

\* Home Assistant never books more energy than was made, for every number of polls, misreads,
\* restarts and failures: _energy_native_value lets no value through that would be booked as
\* a meter that starts again.
THEOREM OnlyWhatWasMadeIsBooked ==
    ASSUME MisreadsAreFew, CountersStayApart
    PROVE  Spec => []BooksOnlyWhatWasMade
PROOF
  <1>1. IInv => BooksOnlyWhatWasMade
    <2> SUFFICES ASSUME IInv PROVE stats.booked <= made
      BY DEF BooksOnlyWhatWasMade
    <2>1. PICK st \in Stats : st = stats
      BY DEF IInv, TypeOK, Stats, Values
    <2>2. PICK s : Books(st, s)
      BY <2>1 DEF IInv, BookedSoFar
    <2>3. made \in Nat /\ pending \in Nat /\ counter \in Nat /\ st.booked \in Int
      BY ConstantsAreNumbers DEF IInv, TypeOK, Stats
    <2>4. CASE st.last = None /\ st.booked = 0
      BY <2>1, <2>3, <2>4
    <2>5. CASE Past(st.last) /\ st.booked <= st.last - First
      BY <2>1, <2>3, <2>5, ConstantsAreNumbers DEF Past
    <2>6. CASE /\ Current(st.last)
               /\ IF replaced
                    THEN st.booked <= made - (counter + pending) + st.last /\ ~Outdated(s)
                    ELSE st.booked <= st.last - First
      <3>1. st.last \in Nat /\ st.last <= counter
        BY <2>6 DEF Current
      <3>2. CASE replaced
        BY <2>1, <2>3, <2>6, <3>1, <3>2
      <3>3. CASE ~replaced
        <4>1. counter + pending = First + made /\ st.booked <= st.last - First
          BY <2>6, <3>3 DEF IInv, CountersAddUp
        <4> QED BY <2>1, <2>3, <3>1, <4>1, ConstantsAreNumbers
      <3> QED BY <3>2, <3>3
    <2> QED BY <2>2, <2>4, <2>5, <2>6 DEF Books
  <1> QED BY <1>1, InductiveInvariant, PTL

\* The filter holds back only outliers: a true reading that is no fall is taken at once, for
\* every window, safety factor and pause in which _max_native_delta grows with the time since
\* the counter moved.
THEOREM OnlyOutliersAreHeldBack ==
    ASSUME MisreadsAreFew, CountersStayApart
    PROVE  Spec => []HoldsOnlyOutliers
PROOF
  <1>1. IInv => HoldsOnlyOutliers
    <2> SUFFICES ASSUME IInv, on, data.value = counter, wrong = 0, data.value >= sensor.known,
                        ~sensor.late
                 PROVE  sensor.rejected = 0
      BY DEF HoldsOnlyOutliers
    <2>1. sensor \in Sensors /\ {made, pending, counter} \subseteq Nat
      BY ConstantsAreNumbers DEF IInv, TypeOK, Sensors, Values
    <2>2. ~Outdated(sensor)
      <3> SUFFICES ASSUME replaced, sensor.known >= First PROVE FALSE
        BY DEF Outdated
      <3>1. counter + pending <= made /\ made <= MaxMade + Second
        BY DEF IInv, CountersAddUp
      <3>2. sensor.known \in Values /\ counter >= sensor.known
        BY <2>1 DEF Sensors
      <3> QED BY <2>1, <3>1, <3>2, ConstantsAreNumbers DEF CountersStayApart, Values, None
    <2>3. ~(sensor.rejected > 0)
      BY <2>2 DEF IInv, ReadingsAreCounted
    <2> QED BY <2>1, <2>3, ConstantsAreNumbers DEF Sensors
  <1> QED BY <1>1, InductiveInvariant, PTL
=============================================================================
