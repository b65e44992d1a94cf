----------------------------- MODULE VendorProofs -----------------------------
(***************************************************************************)
(* Proofs about what single vendors add. First the web interface of        *)
(* Fronius: grid charging and AC charging, for any number of presses at a  *)
(* time, any setups and any number of lost answers. Then the raw register  *)
(* blocks: what is shown of an ungated block is recent, for every vendor   *)
(* profile, every limit of misses, and however often blocks fail, come and *)
(* go.                                                                     *)
(***************************************************************************)
EXTENDS FroniusWebProperties, VendorBlocksProperties, TLAPS

\* None is told apart from every flag and every setup.
LEMMA NoneIsNoValue == Unknown \notin BOOLEAN /\ Unknown \notin Setups /\ Default \in Setups
PROOF
  BY DefaultIsASetup

\* Nothing that has not been read or pressed has a flag on.
LEMMA NothingYet ==
    /\ NotRead \in Shown /\ Consistent(NotRead)
    /\ NoPress \in Press /\ KeepsConsistent(NoPress)
    /\ NoPoll \in [next : {"none", "config", "modbus", "meters"}, debounced : BOOLEAN, got : Shown]
    /\ NoPoll.got = NotRead
PROOF
  <1>1. NotRead \in Shown
    BY DEF NotRead, Shown, Flags
  <1>2. Consistent(NotRead)
    BY NoneIsNoValue DEF NotRead, Consistent
  <1>3. NoPress \in Press
    BY DEF NoPress, Press, Flags
  <1>4. KeepsConsistent(NoPress)
    BY DEF NoPress, KeepsConsistent
  <1> QED BY <1>1, <1>2, <1>3, <1>4 DEF NoPoll

\* The first poll is under way.
LEMMA Initially == WebInit => WebIInv
PROOF
  <1> SUFFICES ASSUME WebInit PROVE WebIInv
    OBVIOUS
  <1>1. inverter \in [grid : BOOLEAN, ac : BOOLEAN, ctr : BOOLEAN, setup : Setups]
    BY DEF WebInit
  <1>2. /\ login = TRUE /\ poll = [NoPoll EXCEPT !.next = "config"]
        /\ data = [ok |-> FALSE, flags |-> NotRead]
        /\ press = [c \in Callers |-> NoPress]
        /\ cooling = [on |-> FALSE, again |-> FALSE] /\ events = 0
        /\ (inverter.grid => inverter.ac)
    BY DEF WebInit
  <1>3. /\ poll \in [next : {"none", "config", "modbus", "meters"}, debounced : BOOLEAN, got : Shown]
        /\ poll.got = NotRead
    BY <1>2, NothingYet
  <1>4. data \in [ok : BOOLEAN, flags : Shown] /\ data.flags = NotRead
    BY <1>2, NothingYet
  <1>5. press \in [Callers -> Press] /\ \A c \in Callers : press[c] = NoPress
    BY <1>2, NothingYet
  <1>6. events \in 0 .. WebEvents
    BY <1>2, BoundsAreBounds
  <1>7. WebTypeOK
    BY <1>1, <1>2, <1>3, <1>4, <1>5, <1>6 DEF WebTypeOK
  <1>8. GridChargingNeedsAc
    BY <1>2, <1>4, NothingYet DEF GridChargingNeedsAc, Consistent
  <1> QED BY <1>3, <1>5, <1>7, <1>8, NothingYet DEF WebIInv

\* The bound counts up to Events.
LEMMA EventsAreBounded ==
    ASSUME WebTypeOK, WebEvent \/ Quiet PROVE events' \in 0 .. WebEvents
PROOF
  BY BoundsAreBounds DEF WebTypeOK, WebEvent, Quiet

-----------------------------------------------------------------------------
\* A poll that starts, or a refresh that waits or is dropped, has read nothing.
LEMMA PollAndTimerKeepIInv ==
    ASSUME WebIInv, events' \in 0 .. WebEvents, UNCHANGED <<inverter, login, data>>,
           press' \in [Callers -> Press], \A c \in Callers : KeepsConsistent(press'[c]),
           \/ \E debounced \in BOOLEAN : Starts(debounced)
           \/ RequestRefresh
           \/ cooling' = NotCooling /\ UNCHANGED poll
    PROVE  WebIInv'
PROOF
  <1>1. ASSUME NEW debounced \in BOOLEAN, Starts(debounced)
        PROVE  /\ poll' \in [next : {"none", "config", "modbus", "meters"}, debounced : BOOLEAN,
                             got : Shown]
               /\ poll'.got = NotRead /\ cooling' \in [on : BOOLEAN, again : BOOLEAN]
    BY <1>1, NothingYet DEF Starts, NotCooling, NoPoll
  <1>2. /\ poll' \in [next : {"none", "config", "modbus", "meters"}, debounced : BOOLEAN,
                      got : Shown]
        /\ poll'.got \in {poll.got, NotRead} /\ cooling' \in [on : BOOLEAN, again : BOOLEAN]
    <2>1. \/ cooling' = [cooling EXCEPT !.again = TRUE] /\ UNCHANGED poll
          \/ cooling' = cooling /\ UNCHANGED poll
          \/ cooling' = NotCooling /\ UNCHANGED poll
          \/ \E debounced \in BOOLEAN : Starts(debounced)
      BY DEF RequestRefresh
    <2>2. NotCooling \in [on : BOOLEAN, again : BOOLEAN]
      BY DEF NotCooling
    <2> QED BY <1>1, <2>1, <2>2 DEF WebIInv, WebTypeOK
  <1>3. WebTypeOK'
    BY <1>2 DEF WebIInv, WebTypeOK
  <1>4. Consistent(poll'.got)
    BY <1>2, NothingYet DEF WebIInv
  <1> QED BY <1>3, <1>4 DEF WebIInv, GridChargingNeedsAc, KeepsConsistent

\* What a poll reads comes from an inverter that is consistent.
LEMMA ReadKeepsIInv ==
    ASSUME WebIInv, NEW got \in Shown, Consistent(got), Read(got), events' \in 0 .. WebEvents
    PROVE  WebIInv'
PROOF
  <1>1. /\ poll' \in [next : {"none", "config", "modbus", "meters"}, debounced : BOOLEAN,
                      got : Shown]
        /\ poll'.got = got
    BY DEF Read, WebIInv, WebTypeOK
  <1> QED BY <1>1 DEF Read, WebIInv, WebTypeOK, GridChargingNeedsAc, KeepsConsistent

\* The four reads of a poll.
LEMMA ReadingKeepsIInv ==
    ASSUME WebIInv, ConfigRead \/ ModbusRead \/ ReadLost PROVE WebIInv'
PROOF
  <1>1. poll.got \in Shown /\ Consistent(poll.got) /\ WebTypeOK
    BY DEF WebIInv, WebTypeOK
  <1>2. CASE ConfigRead
    <2> DEFINE got == [poll.got EXCEPT !.grid = inverter.grid, !.ac = inverter.ac]
    <2>1. got \in Shown /\ got.grid = inverter.grid /\ got.ac = inverter.ac
      BY <1>1 DEF WebIInv, WebTypeOK, Shown, Flags
    <2>2. Consistent(got)
      BY <1>1, <2>1 DEF WebIInv, WebTypeOK, GridChargingNeedsAc, Consistent
    <2>3. Read(got) /\ events' \in 0 .. WebEvents
      BY <1>1, <1>2, EventsAreBounded DEF ConfigRead
    <2> QED BY <2>1, <2>2, <2>3, ReadKeepsIInv
  <1>3. CASE ModbusRead
    <2> DEFINE got == [poll.got EXCEPT !.ctr = inverter.ctr]
    <2>1. got \in Shown /\ got.grid = poll.got.grid /\ got.ac = poll.got.ac
      BY <1>1 DEF WebIInv, WebTypeOK, Shown, Flags
    <2>2. Consistent(got)
      BY <1>1, <2>1 DEF Consistent
    <2>3. Read(got) /\ events' \in 0 .. WebEvents
      BY <1>1, <1>3, EventsAreBounded DEF ModbusRead
    <2> QED BY <2>1, <2>2, <2>3, ReadKeepsIInv
  <1>4. CASE ReadLost
    BY <1>1, <1>4, ReadKeepsIInv, EventsAreBounded DEF ReadLost
  <1> QED BY <1>2, <1>3, <1>4

\* What a poll shows at its end is what it read.
LEMMA EndOfAPollKeepsIInv ==
    ASSUME WebIInv, PollEnds \/ PollRejected PROVE WebIInv'
PROOF
  <1>1. PICK new : Ends(new) /\ new \in {[ok |-> TRUE, flags |-> poll.got], [data EXCEPT !.ok = FALSE]}
    BY DEF PollEnds, PollRejected
  <1>2. new \in [ok : BOOLEAN, flags : Shown] /\ new.flags \in {poll.got, data.flags}
    <2>1. poll.got \in Shown /\ data \in [ok : BOOLEAN, flags : Shown]
      BY DEF WebIInv, WebTypeOK
    <2>2. /\ [ok |-> TRUE, flags |-> poll.got] \in [ok : BOOLEAN, flags : Shown]
          /\ [ok |-> TRUE, flags |-> poll.got].flags = poll.got
      BY <2>1
    <2>3. /\ [data EXCEPT !.ok = FALSE] \in [ok : BOOLEAN, flags : Shown]
          /\ [data EXCEPT !.ok = FALSE].flags = data.flags
      BY <2>1
    <2>4. CASE new = [ok |-> TRUE, flags |-> poll.got]
      BY <2>2, <2>4, Zenon
    <2>5. CASE new = [data EXCEPT !.ok = FALSE]
      BY <2>3, <2>5, Zenon
    <2> QED BY <1>1, <2>4, <2>5
  <1>3. /\ poll' \in [next : {"none", "config", "modbus", "meters"}, debounced : BOOLEAN,
                      got : Shown]
        /\ poll'.got = NotRead /\ cooling' \in [on : BOOLEAN, again : BOOLEAN]
    BY <1>1, NothingYet DEF Ends, WebIInv, WebTypeOK
  <1>4. events' \in 0 .. WebEvents
    BY <1>1, EventsAreBounded DEF Ends, WebIInv
  <1>5. WebTypeOK'
    BY <1>1, <1>2, <1>3, <1>4 DEF Ends, WebIInv, WebTypeOK
  <1>6. GridChargingNeedsAc'
    BY <1>1, <1>2 DEF Ends, WebIInv, GridChargingNeedsAc, Consistent
  <1>7. Consistent(poll'.got)
    BY <1>3, NothingYet
  <1> QED BY <1>1, <1>5, <1>6, <1>7 DEF Ends, WebIInv, KeepsConsistent

-----------------------------------------------------------------------------
\* A press that goes on, or ends, without the inverter.
LEMMA PressStepKeepsIInv ==
    ASSUME WebIInv, NEW c \in Callers, NEW p \in Press, KeepsConsistent(p), Step(c, p),
           UNCHANGED <<inverter, login, poll, data, cooling>>, events' \in 0 .. WebEvents
    PROVE  WebIInv'
PROOF
  <1>1. press' \in [Callers -> Press] /\ \A d \in Callers : KeepsConsistent(press'[d])
    BY DEF Step, WebIInv, WebTypeOK
  <1>2. WebTypeOK'
    BY <1>1 DEF WebIInv, WebTypeOK
  <1> QED BY <1>1, <1>2 DEF WebIInv, GridChargingNeedsAc, KeepsConsistent

\* The fields a switch of the battery sends.
LEMMA FieldsAreFlags ==
    ASSUME NEW wanted \in BOOLEAN
    PROVE  {GridFields(wanted), AcFields(wanted)} \subseteq [grid : Flags, ac : Flags]
PROOF
  BY DEF GridFields, AcFields, Flags

\* The switches and the button.
LEMMA PressingKeepsIInv ==
    ASSUME WebIInv, NEW c \in Callers,
           \/ ResetModbus(c)
           \/ \E wanted \in BOOLEAN : SetGrid(c, wanted) \/ SetAc(c, wanted) \/ AllowModbusControl(c, wanted)
    PROVE  WebIInv'
PROOF
  <1>1. ASSUME NEW p \in Press, KeepsConsistent(p), Pressed(c, p) PROVE WebIInv'
    BY <1>1, PressStepKeepsIInv, EventsAreBounded DEF Pressed, WebIInv
  <1>2. CASE ResetModbus(c)
    <2>1. WriteOf("reset") \in Press /\ KeepsConsistent(WriteOf("reset"))
      BY DEF WriteOf, NoPress, Press, Flags, KeepsConsistent
    <2> QED BY <1>1, <1>2, <2>1 DEF ResetModbus
  <1>3. ASSUME NEW wanted \in BOOLEAN, NEW fields \in {GridFields(wanted), AcFields(wanted)},
               Pressed(c, [WriteOf("battery") EXCEPT !.fields = fields])
        PROVE  WebIInv'
    <2> DEFINE p == [WriteOf("battery") EXCEPT !.fields = fields]
    <2>1. p \in Press /\ p.kind = "battery" /\ p.fields = fields
      BY FieldsAreFlags DEF WriteOf, NoPress, Press, Flags
    <2>2. KeepsConsistent(p)
      BY <2>1 DEF KeepsConsistent
    <2> QED BY <1>1, <1>3, <2>1, <2>2
  <1>4. ASSUME NEW wanted \in BOOLEAN, AllowModbusControl(c, wanted) PROVE WebIInv'
    <2> DEFINE p == [WriteOf("control") EXCEPT !.step = "reading", !.allowed = wanted]
    <2>1. p \in Press /\ p.kind = "control" /\ p.step = "reading" /\ p.allowed = wanted
      BY DEF WriteOf, NoPress, Press, Flags
    <2>2. KeepsConsistent(p)
      BY <2>1 DEF KeepsConsistent
    <2> QED BY <1>1, <1>4, <2>1, <2>2 DEF AllowModbusControl
  <1> QED BY <1>2, <1>3, <1>4 DEF SetGrid, SetAc

\* The inverter stays consistent when it carries a request out.
LEMMA AppliedIsConsistent ==
    ASSUME NEW p \in Press, KeepsConsistent(p), p.step = "sending",
           inverter \in [grid : BOOLEAN, ac : BOOLEAN, ctr : BOOLEAN, setup : Setups],
           inverter.grid => inverter.ac
    PROVE  /\ Applied(p) \in [grid : BOOLEAN, ac : BOOLEAN, ctr : BOOLEAN, setup : Setups]
           /\ Applied(p).grid => Applied(p).ac
PROOF
  <1>1. CASE p.kind = "battery"
    <2> DEFINE new == [inverter EXCEPT !.grid = Set(inverter.grid, p.fields.grid),
                                     !.ac = Set(inverter.ac, p.fields.ac)]
    <2>1. Applied(p) = new
      BY <1>1 DEF Applied
    <2>2. PICK wanted \in BOOLEAN : p.fields \in {GridFields(wanted), AcFields(wanted)}
      BY <1>1 DEF KeepsConsistent
    <2>3. CASE p.fields = GridFields(wanted)
      <3>1. p.fields.grid = wanted /\ p.fields.ac = IF wanted THEN TRUE ELSE Unknown
        BY <2>3 DEF GridFields
      <3>2. Set(inverter.grid, p.fields.grid) = wanted /\ Set(inverter.ac, p.fields.ac) \in BOOLEAN
        BY <3>1, NoneIsNoValue DEF Set
      <3>3. wanted => Set(inverter.ac, p.fields.ac)
        BY <3>1, NoneIsNoValue DEF Set
      <3> QED BY <2>1, <3>2, <3>3
    <2>4. CASE p.fields = AcFields(wanted)
      <3>1. p.fields.ac = wanted /\ p.fields.grid = IF wanted THEN Unknown ELSE FALSE
        BY <2>4 DEF AcFields
      <3>2. Set(inverter.ac, p.fields.ac) = wanted /\ Set(inverter.grid, p.fields.grid) \in BOOLEAN
        BY <3>1, NoneIsNoValue DEF Set
      <3>3. ~wanted => ~Set(inverter.grid, p.fields.grid)
        BY <3>1, NoneIsNoValue DEF Set
      <3> QED BY <2>1, <3>2, <3>3
    <2> QED BY <2>2, <2>3, <2>4
  <1>2. CASE p.kind = "control"
    <2>1. Applied(p) = [inverter EXCEPT !.ctr = p.allowed, !.setup = p.config]
      BY <1>2 DEF Applied
    <2>2. p.allowed \in BOOLEAN /\ p.config \in Setups
      BY <1>2 DEF KeepsConsistent
    <2> QED BY <2>1, <2>2
  <1>3. CASE p.kind \in {"none", "reset"}
    <2>1. Applied(p) = [inverter EXCEPT !.setup = Default]
      BY <1>3 DEF Applied
    <2> QED BY <2>1, NoneIsNoValue
  <1> QED BY <1>1, <1>2, <1>3 DEF Press

\* The steps of a write.
LEMMA WriteStepKeepsIInv ==
    ASSUME WebIInv, NEW c \in Callers,
           SetupRead(c) \/ RequestServed(c) \/ Answered(c) \/ Refused(c)
    PROVE  WebIInv'
PROOF
  <1> DEFINE p == press[c]
  <1>1. p \in Press /\ KeepsConsistent(p) /\ WebTypeOK
    BY DEF WebIInv, WebTypeOK
  <1>2. CASE SetupRead(c)
    <2> DEFINE q == [p EXCEPT !.config = inverter.setup, !.step = "sending"]
    <2>1. /\ q \in Press /\ q.kind = p.kind /\ q.fields = p.fields /\ q.allowed = p.allowed
          /\ q.config = inverter.setup
      BY <1>1 DEF Press, WebTypeOK
    <2>2. KeepsConsistent(q)
      BY <1>1, <2>1 DEF KeepsConsistent, WebTypeOK
    <2> QED BY <1>1, <1>2, <2>1, <2>2, PressStepKeepsIInv, EventsAreBounded DEF SetupRead
  <1>3. CASE RequestServed(c)
    <2> DEFINE q == [p EXCEPT !.step = "answering"]
    <2>1. p.step = "sending" /\ inverter' = Applied(p) /\ Step(c, q)
      BY <1>3 DEF RequestServed
    <2>2. /\ q \in Press /\ q.kind = p.kind /\ q.fields = p.fields /\ q.allowed = p.allowed
          /\ q.config = p.config
      BY <1>1 DEF Press
    <2>3. KeepsConsistent(q)
      BY <1>1, <2>1, <2>2 DEF KeepsConsistent
    <2>4. press' \in [Callers -> Press] /\ \A d \in Callers : KeepsConsistent(press'[d])
      BY <2>1, <2>2, <2>3 DEF Step, WebIInv, WebTypeOK
    <2>5. /\ inverter' \in [grid : BOOLEAN, ac : BOOLEAN, ctr : BOOLEAN, setup : Setups]
          /\ inverter'.grid => inverter'.ac
      BY <1>1, <2>1, AppliedIsConsistent DEF WebIInv, WebTypeOK, GridChargingNeedsAc
    <2>6. WebTypeOK'
      BY <1>1, <1>3, <2>4, <2>5, EventsAreBounded DEF RequestServed, WebTypeOK
    <2> QED BY <1>3, <2>4, <2>5, <2>6 DEF RequestServed, WebIInv, GridChargingNeedsAc, KeepsConsistent
  <1>4. CASE Answered(c)
    <2>1. press' \in [Callers -> Press] /\ \A d \in Callers : KeepsConsistent(press'[d])
      BY <1>4, NothingYet DEF Answered, Step, WebIInv, WebTypeOK
    <2> QED BY <1>1, <1>4, <2>1, PollAndTimerKeepIInv, EventsAreBounded DEF Answered
  <1>5. CASE Refused(c)
    BY <1>1, <1>5, NothingYet, PressStepKeepsIInv, EventsAreBounded DEF Refused
  <1> QED BY <1>2, <1>3, <1>4, <1>5

-----------------------------------------------------------------------------
\* Every step keeps the invariant.
LEMMA StepKeepsIInv == WebIInv /\ [WebNext]_webVars => WebIInv'
PROOF
  <1> SUFFICES ASSUME WebIInv, [WebNext]_webVars PROVE WebIInv'
    OBVIOUS
  <1>1. /\ WebTypeOK /\ press \in [Callers -> Press]
        /\ \A c \in Callers : KeepsConsistent(press[c])
    BY DEF WebIInv, WebTypeOK
  <1>2. CASE MinutePassed \/ CooledDown
    <2>1. /\ events' \in 0 .. WebEvents /\ UNCHANGED <<inverter, login, data, press>>
          /\ \/ \E debounced \in BOOLEAN : Starts(debounced)
             \/ cooling' = NotCooling /\ UNCHANGED poll
      BY <1>1, <1>2, EventsAreBounded DEF MinutePassed, CooledDown
    <2>2. press' \in [Callers -> Press] /\ \A c \in Callers : KeepsConsistent(press'[c])
      BY <1>1, <2>1
    <2> QED BY <2>1, <2>2, PollAndTimerKeepIInv
  <1>3. CASE PollStep \/ ReadLost
    BY <1>3, ReadingKeepsIInv, EndOfAPollKeepsIInv DEF PollStep
  <1>4. ASSUME NEW c \in Callers,
               \/ SetupRead(c) \/ RequestServed(c) \/ Answered(c) \/ Refused(c) \/ ResetModbus(c)
               \/ \E wanted \in BOOLEAN : SetGrid(c, wanted) \/ SetAc(c, wanted) \/ AllowModbusControl(c, wanted)
        PROVE  WebIInv'
    BY <1>4, WriteStepKeepsIInv, PressingKeepsIInv
  <1>5. CASE ChangeLogin
    <2>1. events' \in 0 .. WebEvents /\ login' \in BOOLEAN
      BY <1>1, <1>5, EventsAreBounded DEF ChangeLogin
    <2>2. WebTypeOK'
      BY <1>1, <1>5, <2>1 DEF ChangeLogin, WebTypeOK
    <2> QED BY <1>5, <2>2 DEF ChangeLogin, WebIInv, GridChargingNeedsAc, KeepsConsistent
  <1>6. ASSUME NEW s \in Setups, EditSetup(s) PROVE WebIInv'
    <2>1. events' \in 0 .. WebEvents
      BY <1>1, <1>6, EventsAreBounded DEF EditSetup
    <2>2. /\ inverter' \in [grid : BOOLEAN, ac : BOOLEAN, ctr : BOOLEAN, setup : Setups]
          /\ inverter'.grid = inverter.grid /\ inverter'.ac = inverter.ac
      BY <1>1, <1>6 DEF EditSetup, WebTypeOK
    <2>3. WebTypeOK'
      BY <1>1, <1>6, <2>1, <2>2 DEF EditSetup, WebTypeOK
    <2> QED BY <1>6, <2>2, <2>3 DEF EditSetup, WebIInv, GridChargingNeedsAc, KeepsConsistent
  <1>7. CASE UNCHANGED webVars
    BY <1>7 DEF webVars, WebIInv, WebTypeOK, GridChargingNeedsAc, KeepsConsistent
  <1> QED BY <1>2, <1>3, <1>4, <1>5, <1>6, <1>7 DEF WebNext

\* The invariant holds in every state of every run.
THEOREM WebInductiveInvariant == WebSpec => []WebIInv
PROOF
  <1> QED BY Initially, StepKeepsIInv, PTL DEF WebSpec

\* Flags are flags and setups are setups, read or not, in every reachable state.
THEOREM WebTypesHold == WebSpec => []WebTypeOK
PROOF
  <1>1. WebIInv => WebTypeOK
    BY DEF WebIInv
  <1> QED BY <1>1, WebInductiveInvariant, PTL

\* Neither the inverter nor the switches ever have grid charging on with AC
\* charging off (_set_grid, _set_ac, _async_update_data).
THEOREM GridChargingHasAc == WebSpec => []GridChargingNeedsAc
PROOF
  <1>1. WebIInv => GridChargingNeedsAc
    BY DEF WebIInv
  <1> QED BY <1>1, WebInductiveInvariant, PTL

-----------------------------------------------------------------------------
(***************************************************************************)
(* The raw blocks, which share nothing with the web interface.             *)
(***************************************************************************)
\* Ageing a reading makes it at most one cycle older, and makes none of nothing.
LEMMA OlderByOne ==
    ASSUME NEW r, DOMAIN r = DOMAIN Unread, r.age \in Int
    PROVE  /\ DOMAIN Older(r) = DOMAIN Unread /\ Older(r).age \in Int
           /\ Older(r).age <= r.age + 1
           /\ ~There(r) => ~There(Older(r))
<1>1. DOMAIN Unread = {"age", "opens", "fields"}
  BY DEF Unread
<1>2. CASE There(r) /\ r.age <= Retry
  BY <1>1, <1>2 DEF Older
<1>3. CASE ~(There(r) /\ r.age <= Retry)
  BY <1>3 DEF Older
<1> QED BY <1>2, <1>3

\* A block taken for absent keeps no reading (_mark_absent).
LEMMA AbsentIsOK ==
    ASSUME NEW p
    PROVE  ProbeOK(MarkAbsent(p)) /\ NoOlderThanItsMisses(MarkAbsent(p))
<1>1. Unread.age \in Int
  BY DEF Unread, None
<1> QED BY <1>1, CyclesAreCounted DEF MarkAbsent, ProbeOK, NoOlderThanItsMisses, There

\* A cycle keeps a probe within its limits, whatever it gets from the device
\* (RawBlockReader.async_read).
LEMMA ProbedIsOK ==
    ASSUME NEW b \in Block, NEW asked \in BOOLEAN, NEW outcome \in {"answer", "miss", "link"},
           ProbeOK(probe[b])
    PROVE  ProbeOK(Probed(b, asked, outcome))
<1> DEFINE p == [probe[b] EXCEPT !.last = Older(@), !.skip = IF @ > 0 THEN @ - 1 ELSE 0]
<1>1. /\ DOMAIN p = {"skip", "misses", "last"}
      /\ p.skip = IF probe[b].skip > 0 THEN probe[b].skip - 1 ELSE 0
      /\ p.misses = probe[b].misses /\ p.last = Older(probe[b].last)
  BY DEF ProbeOK
<1>2. /\ DOMAIN p.last = DOMAIN Unread /\ p.last.age \in Int
      /\ ~There(probe[b].last) => ~There(p.last)
  BY <1>1, OlderByOne DEF ProbeOK
<1>3. ProbeOK(p)
  BY <1>1, <1>2, CyclesAreCounted DEF ProbeOK
<1>4. ProbeOK([skip |-> 0, misses |-> 0, last |-> Reading(b)])
  <2>1. DOMAIN Reading(b) = DOMAIN Unread /\ Reading(b).age \in Int
    BY DEF Reading, Unread
  <2> QED BY <2>1, CyclesAreCounted DEF ProbeOK
<1>5. ProbeOK(Failed(p))
  <2>1. CASE There(p.last) /\ p.misses + 1 < Retry
    BY <1>3, <2>1, CyclesAreCounted DEF Failed, ProbeOK
  <2>2. CASE ~(There(p.last) /\ p.misses + 1 < Retry)
    BY <2>2, AbsentIsOK DEF Failed
  <2> QED BY <2>1, <2>2
<1>6. ProbeOK([p EXCEPT !.last = probe[b].last])
  BY <1>1, CyclesAreCounted DEF ProbeOK
<1> QED BY <1>3, <1>4, <1>5, <1>6 DEF Probed

\* A block that is asked in every cycle ages by its misses only.
LEMMA AskedStaysRecent ==
    ASSUME NEW b \in Block, NEW outcome \in {"answer", "miss", "link"},
           ProbeOK(probe[b]), NoOlderThanItsMisses(probe[b])
    PROVE  NoOlderThanItsMisses(Probed(b, TRUE, outcome))
<1> DEFINE p == [probe[b] EXCEPT !.last = Older(@), !.skip = IF @ > 0 THEN @ - 1 ELSE 0]
<1>1. /\ DOMAIN p = {"skip", "misses", "last"}
      /\ p.misses = probe[b].misses /\ p.last = Older(probe[b].last)
  BY DEF ProbeOK
<1>2. /\ p.last.age \in Int /\ p.last.age <= probe[b].last.age + 1
      /\ There(p.last) => There(probe[b].last)
  BY <1>1, OlderByOne DEF ProbeOK
<1>3. There(p.last) => p.last.age <= p.misses + 1
  BY <1>1, <1>2 DEF NoOlderThanItsMisses, ProbeOK
<1>4. CASE Waiting(probe[b])
  <2>1. ~There(p.last)
    BY <1>2, <1>4 DEF Waiting, ProbeOK
  <2> QED BY <1>4, <2>1 DEF Probed, NoOlderThanItsMisses
<1>5. NoOlderThanItsMisses([skip |-> 0, misses |-> 0, last |-> Reading(b)])
  BY DEF NoOlderThanItsMisses, Reading
<1>6. NoOlderThanItsMisses(Failed(p))
  <2>1. CASE There(p.last) /\ p.misses + 1 < Retry
    BY <1>1, <1>3, <2>1 DEF Failed, NoOlderThanItsMisses
  <2>2. CASE ~(There(p.last) /\ p.misses + 1 < Retry)
    BY <2>2, AbsentIsOK DEF Failed
  <2> QED BY <2>1, <2>2
<1>7. NoOlderThanItsMisses([p EXCEPT !.last = probe[b].last])
  BY <1>1 DEF NoOlderThanItsMisses
<1> QED BY <1>4, <1>5, <1>6, <1>7 DEF Probed
-----------------------------------------------------------------------------
LEMMA BlocksInitially == Init => IInv
<1> SUFFICES ASSUME Init PROVE IInv
  OBVIOUS
<1>1. \A b \in Block : probe[b] = Fresh /\ shown[b] = Unread
  BY DEF Init
<1>2. ProbeOK(Fresh) /\ NoOlderThanItsMisses(Fresh)
  <2>1. Unread.age \in Int
    BY DEF Unread, None
  <2> QED BY <2>1, CyclesAreCounted DEF Fresh, ProbeOK, NoOlderThanItsMisses, There
<1> QED BY <1>1, <1>2 DEF IInv, ReadingsAreRecent, Readable, There

\* A poll asks every ungated block that is read, unless it waits with nothing
\* to show.
LEMMA CycleKeeps == ASSUME IInv, Cycle PROVE IInv'
<1>0. PICK trouble \in SUBSET Readable : \E missed \in SUBSET trouble :
        LET result == AfterCycle(Outcome(missed, trouble \ missed)) IN
        probe' = result.probe /\ shown' = result.shown /\ profile' = profile
  BY DEF Cycle
<1>1. PICK missed \in SUBSET trouble :
        LET result == AfterCycle(Outcome(missed, trouble \ missed)) IN
        probe' = result.probe /\ shown' = result.shown /\ profile' = profile
  BY <1>0
<1> DEFINE outcome == Outcome(missed, trouble \ missed)
           ask1 == {b \in Readable : profile.gate[b] = Ungated}
           p1 == [b \in Block |-> Probed(b, b \in ask1, outcome[b])]
           r1 == [b \in Block |-> Result(b, b \in ask1, p1[b])]
           ask == {b \in Readable : GateOpen(b, r1)}
<1>2. \A b \in Block : outcome[b] \in {"answer", "miss", "link"}
  BY DEF Outcome
<1>3. /\ probe' = [b \in Block |-> Probed(b, b \in ask, outcome[b])]
      /\ shown' = [b \in Block |-> Result(b, b \in ask, Probed(b, b \in ask, outcome[b]))]
  BY <1>1 DEF AfterCycle
<1>4. ASSUME NEW b \in Block PROVE profile.gate[b] = Ungated => (b \in ask) = (b \in Readable)
  BY DEF GateOpen
<1> HIDE DEF ask, outcome
<1>5. ASSUME NEW b \in Block PROVE ProbeOK(probe'[b])
  <2>1. ProbeOK(probe[b]) /\ outcome[b] \in {"answer", "miss", "link"} /\ (b \in ask) \in BOOLEAN
    BY <1>2 DEF IInv
  <2>2. ProbeOK(Probed(b, b \in ask, outcome[b]))
    BY <2>1, ProbedIsOK
  <2> QED BY <1>3, <2>2
<1>6. ASSUME NEW b \in Readable, profile.gate[b] = Ungated
      PROVE  NoOlderThanItsMisses(probe'[b])
  <2>1. b \in Block /\ ProbeOK(probe[b]) /\ NoOlderThanItsMisses(probe[b])
    BY <1>6 DEF IInv, Readable
  <2>2. (b \in ask) = TRUE
    BY <1>4, <1>6, <2>1
  <2>3. probe'[b] = Probed(b, TRUE, outcome[b])
    BY <1>3, <2>1, <2>2
  <2> QED BY <1>2, <2>1, <2>3, AskedStaysRecent
<1>7. ASSUME NEW b \in Block, profile.gate[b] = Ungated, There(shown'[b])
      PROVE  shown'[b].age < Retry
  <2>1. b \in ask /\ shown'[b] = probe'[b].last
    BY <1>3, <1>7 DEF Result, There
  <2>2. ProbeOK(probe'[b]) /\ NoOlderThanItsMisses(probe'[b])
    BY <1>4, <1>5, <1>6, <1>7, <2>1
  <2> QED BY <1>7, <2>1, <2>2, CyclesAreCounted DEF ProbeOK, NoOlderThanItsMisses
<1> QED BY <1>1, <1>5, <1>6, <1>7 DEF IInv, ReadingsAreRecent, Readable

\* Nothing else touches what is read, but a restart, which forgets all of it.
LEMMA BlocksStepKeeps == IInv /\ [Next]_vars => IInv'
<1> SUFFICES ASSUME IInv, [Next]_vars PROVE IInv'
  OBVIOUS
<1>1. CASE Cycle
  BY <1>1, CycleKeeps
<1>2. CASE Restart
  <2>1. \A b \in Block : probe'[b] = Fresh /\ shown'[b] = Unread
    BY <1>2 DEF Restart
  <2>2. ProbeOK(Fresh) /\ NoOlderThanItsMisses(Fresh)
    <3>1. Unread.age \in Int
      BY DEF Unread, None
    <3> QED BY <3>1, CyclesAreCounted DEF Fresh, ProbeOK, NoOlderThanItsMisses, There
  <2>3. profile' = profile
    BY <1>2 DEF Restart
  <2> QED BY <2>1, <2>2, <2>3 DEF IInv, ReadingsAreRecent, Readable, There
<1>3. ASSUME UNCHANGED <<profile, probe, shown>> PROVE IInv'
  BY <1>3 DEF IInv, ReadingsAreRecent, Readable
<1>4. ASSUME \/ UserSets \/ RewriteFires \/ TurnOn \/ TurnOff \/ SettleOver \/ Write
             \/ DeviceChanges \/ DeviceForgets \/ Saves \/ UNCHANGED vars
      PROVE  UNCHANGED <<profile, probe, shown>>
  BY <1>4 DEF UserSets, RewriteFires, TurnOn, TurnOff, SettleOver, Write, DeviceChanges,
              DeviceForgets, Saves, vars, reader
<1> QED BY <1>1, <1>2, <1>3, <1>4 DEF Next

\* The inductive invariant of the reader of raw blocks.
THEOREM BlocksInductiveInvariant == Spec => []IInv
<1> QED BY BlocksInitially, BlocksStepKeeps, PTL DEF Spec

\* What an ungated block shows was read within the last RETRY_CYCLES polls that
\* got as far as the block: isolated failures are bridged, a row of them is not
\* (_fail, _mark_absent).
THEOREM ReadingsStayRecent == Spec => []ReadingsAreRecent
<1>1. IInv => ReadingsAreRecent
  BY DEF IInv
<1> QED BY <1>1, BlocksInductiveInvariant, PTL
=============================================================================
