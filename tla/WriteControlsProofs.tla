-------------------------- MODULE WriteControlsProofs --------------------------
(***************************************************************************)
(* What is in force after the writes, proved for every set of values, any  *)
(* rating of the battery, any number of writes waiting and any failures.   *)
(***************************************************************************)
EXTENDS WriteControlsProperties, TLAPS

\* The markers are told apart from values and flags.
LEMMA MarkersAreApart ==
    /\ Nothing \notin Values /\ Unset \notin Values /\ 0 \in Values
    /\ Unset \notin {0, 1}
PROOF
  BY ValuesAreNumbers, MarkersAreNoValues DEF Unset, Nothing

\* Short sequences of steps.
LEMMA OneStep == ASSUME NEW a PROVE <<a>> # <<>> /\ Head(<<a>>) = a /\ Len(<<a>>) = 1
PROOF
  OBVIOUS

LEMMA TwoSteps ==
    ASSUME NEW a, NEW b
    PROVE  <<a, b>> # <<>> /\ Head(<<a, b>>) = a /\ Len(<<a, b>>) = 2 /\ Tail(<<a, b>>) = <<b>>
PROOF
  OBVIOUS

LEMMA ThreeSteps ==
    ASSUME NEW a, NEW b, NEW c
    PROVE  /\ <<a, b, c>> # <<>> /\ Head(<<a, b, c>>) = a /\ Len(<<a, b, c>>) = 3
           /\ Tail(<<a, b, c>>) = <<b, c>>
PROOF
  OBVIOUS

\* The head and the tail of a sequence that is not empty.
LEMMA HeadAndTail ==
    ASSUME NEW S, NEW q \in Seq(S), q # <<>>
    PROVE  /\ Head(q) \in S /\ 1 \in DOMAIN q /\ q[1] = Head(q)
           /\ Tail(q) \in Seq(S) /\ Len(Tail(q)) = Len(q) - 1 /\ Len(q) \in Nat
           /\ \A i \in DOMAIN Tail(q) : i \in Nat /\ i + 1 \in DOMAIN q /\ Tail(q)[i] = q[i + 1]
PROOF
  OBVIOUS

\* The steps of a write.
LEMMA StepFields ==
    ASSUME NEW v \in Values \cup {Unset}, NEW e \in {0, 1, Unset}
    PROVE  /\ Write(v, e) \in Step /\ Write(v, e).op = "write"
           /\ Write(v, e).value = v /\ Write(v, e).ena = e
           /\ Do("read") \in Step /\ Do("read").op = "read"
           /\ Do("verify") \in Step /\ Do("verify").op = "verify"
PROOF
  <1>1. /\ Write(v, e) \in Step /\ Write(v, e).op = "write"
        /\ Write(v, e).value = v /\ Write(v, e).ena = e
    BY DEF Write, Step
  <1>2. ASSUME NEW op \in {"read", "verify"} PROVE Do(op) \in Step /\ Do(op).op = op
    BY DEF Do, Step
  <1> QED BY <1>1, <1>2

\* What can be planned.
LEMMA PlansAreSteps ==
    ASSUME NEW v \in Values \cup {Unset}, NEW e \in {0, 1, Unset}
    PROVE  /\ <<Write(v, e)>> \in Seq(Step) /\ Cycle(v) \in Seq(Step)
           /\ Dispatch(v) \in Seq(Step)
           /\ Cycle(v) # <<>> /\ Dispatch(v) # <<>>
PROOF
  <1>1. /\ Write(v, e) \in Step /\ Write(Unset, 0) \in Step /\ Write(v, Unset) \in Step
        /\ Write(Unset, 1) \in Step /\ Write(0, 0) \in Step
        /\ Do("read") \in Step /\ Do("verify") \in Step
    BY StepFields, MarkersAreApart
  <1> QED BY <1>1 DEF Cycle, Dispatch

\* A batch takes a value and a flag over, each unless it leaves it alone; what
\* is in force is in the register, if a device that needs the edge is not given
\* a new value under a flag that stays on.
LEMMA WhatABatchDoes ==
    ASSUME IInv, NEW step \in Step,
           ~stale /\ kind = "edge" /\ step.value # Unset /\ step.ena # 0 => dev.ena = 0
    PROVE  LET d == Applied(dev, step) IN
           /\ d \in [value : Values, ena : {0, 1}, force : Values \cup {Nothing}]
           /\ d.value = IF step.value = Unset THEN dev.value ELSE step.value
           /\ d.ena = IF step.ena = Unset THEN dev.ena ELSE step.ena
           /\ ~stale => d.force = IF d.ena = 1 THEN d.value ELSE Nothing
PROOF
  <1> DEFINE value == IF step.value = Unset THEN dev.value ELSE step.value
             ena == IF step.ena = Unset THEN dev.ena ELSE step.ena
             held == dev.ena = 1 /\ kind = "edge"
             force == IF ena = 0 THEN Nothing ELSE IF held THEN dev.force ELSE value
  <1>1. /\ dev.value \in Values /\ dev.ena \in {0, 1} /\ dev.force \in Values \cup {Nothing}
        /\ step.value \in Values \cup {Unset} /\ step.ena \in {0, 1, Unset}
    BY DEF IInv, TypeOK, Step
  <1>2. value \in Values /\ ena \in {0, 1} /\ force \in Values \cup {Nothing}
    BY <1>1
  <1>3. Applied(dev, step) = [value |-> value, ena |-> ena, force |-> force]
    BY DEF Applied
  <1>4. ~stale => force = IF ena = 1 THEN value ELSE Nothing
    BY <1>1, MarkersAreApart DEF IInv, RegisterInForce
  <1> QED BY <1>2, <1>3, <1>4

\* A flag that falls by itself leaves nothing in force.
LEMMA WhatARevertDoes ==
    ASSUME IInv
    PROVE  LET d == [dev EXCEPT !.ena = 0, !.force = Nothing] IN
           /\ d \in [value : Values, ena : {0, 1}, force : Values \cup {Nothing}]
           /\ d.value = dev.value /\ d.ena = 0 /\ d.force = Nothing
PROOF
  BY DEF IInv, TypeOK

-----------------------------------------------------------------------------
\* The queue without its head.
LEMMA TailKeepsTheQueue ==
    ASSUME QueueOK, queue # <<>>, queue' = Tail(queue), kind' = kind
    PROVE  QueueOK' /\ Head(queue) \in Jobs
           /\ (Head(queue).kind = "write" => Asked(Head(queue).value, Head(queue).ena))
PROOF
  <1>1. queue \in Seq(Jobs)
    BY DEF QueueOK
  <1>2. /\ Head(queue) \in Jobs /\ 1 \in DOMAIN queue /\ queue[1] = Head(queue)
        /\ queue' \in Seq(Jobs)
        /\ \A i \in DOMAIN queue' : i \in Nat /\ i + 1 \in DOMAIN queue /\ queue'[i] = queue[i + 1]
    BY <1>1, HeadAndTail
  <1>3. \A i, j \in DOMAIN queue' : queue'[i].kind = "poll" /\ queue'[j].kind = "poll" => i = j
    <2> SUFFICES ASSUME NEW i \in DOMAIN queue', NEW j \in DOMAIN queue',
                        queue'[i].kind = "poll", queue'[j].kind = "poll"
                 PROVE  i = j
      OBVIOUS
    <2>1. i + 1 = j + 1
      BY <1>2 DEF QueueOK
    <2> QED BY <1>2, <2>1
  <1>4. \A i \in DOMAIN queue' :
           queue'[i].kind = "write" => Asked(queue'[i].value, queue'[i].ena)
    BY <1>2 DEF QueueOK
  <1> QED BY <1>2, <1>3, <1>4 DEF QueueOK, Asked

\* A job that is added at the end.
LEMMA QueueingKeepsIInv ==
    ASSUME IInv, NEW job \in Jobs, Queued(job), left' \in 0 .. Events,
           job.kind = "write" => Asked(job.value, job.ena),
           job.kind = "poll" => \A i \in DOMAIN queue : queue[i].kind # "poll"
    PROVE  IInv'
PROOF
  <1>1. queue \in Seq(Jobs) /\ queue' = Append(queue, job)
    BY DEF IInv, TypeOK, QueueOK, Queued
  <1>2. /\ queue' \in Seq(Jobs)
        /\ \A i \in DOMAIN queue' : \/ i = Len(queue) + 1 /\ queue'[i] = job
                                    \/ i \in DOMAIN queue /\ queue'[i] = queue[i]
    BY <1>1
  <1>3. \A i, j \in DOMAIN queue' : queue'[i].kind = "poll" /\ queue'[j].kind = "poll" => i = j
    BY <1>2 DEF IInv, TypeOK, QueueOK
  <1>4. \A i \in DOMAIN queue' :
           queue'[i].kind = "write" => Asked(queue'[i].value, queue'[i].ena)
    BY <1>2 DEF IInv, TypeOK, QueueOK
  <1>5. QueueOK'
    BY <1>2, <1>3, <1>4 DEF QueueOK, Queued, Asked
  <1>6. TypeOK'
    BY <1>5 DEF IInv, TypeOK, TurnOK, Queued, Asked
  <1> QED
    BY <1>6 DEF IInv, Queued, RegisterInForce, UnderWay, AtOnce, Cycling, Dispatching, Setting,
                Raising, Releasing, Settled, NothingDone

\* What the user sets, and a poll that is due.
LEMMA AskingKeepsIInv ==
    ASSUME IInv, SetNumber \/ SetSwitch \/ SetExportLimit \/ SetPower \/ PollDue PROVE IInv'
PROOF
  <1>1. ASSUME NEW v \in Values \cup {Unset}, NEW e \in {0, 1, Unset}, Asked(v, e),
               Queued(Job(v, e)), Event
        PROVE  IInv'
    <2>1. Job(v, e) \in Jobs /\ Job(v, e).kind = "write" /\ Job(v, e).value = v /\ Job(v, e).ena = e
      BY DEF Job, Jobs
    <2>2. left' \in 0 .. Events
      BY <1>1, BoundsAreNumbers DEF Event, IInv, TypeOK
    <2> QED BY <1>1, <2>1, <2>2, QueueingKeepsIInv
  <1>2. CASE SetNumber \/ SetExportLimit
    BY <1>1, <1>2, MarkersAreApart DEF SetNumber, SetExportLimit, Limits, Asked
  <1>3. CASE SetSwitch
    BY <1>1, <1>3, MarkersAreApart DEF SetSwitch, Limits, Asked
  <1>4. CASE SetPower
    BY <1>1, <1>4, MarkersAreApart DEF SetPower, Asked
  <1>5. CASE PollDue
    <2> DEFINE job == [kind |-> "poll", value |-> Unset, ena |-> Unset]
    <2>1. job \in Jobs /\ job.kind = "poll"
      BY DEF Jobs
    <2>2. left' \in 0 .. Events
      BY <1>5 DEF PollDue, IInv, TypeOK
    <2> QED BY <1>5, <2>1, <2>2, QueueingKeepsIInv DEF PollDue
  <1> QED BY <1>2, <1>3, <1>4, <1>5
-----------------------------------------------------------------------------
\* A turn that is over, or one that has come further.
LEMMA TurnMovesOn ==
    ASSUME IInv, NEW todo \in Seq(Step), todo # <<>>, turn # Free
    PROVE  LET t == [turn EXCEPT !.todo = todo] IN
           /\ t \in [value : Values \cup {Unset}, ena : {0, 1, Unset}, todo : Seq(Step)]
           /\ t.todo = todo /\ t.value = turn.value /\ t.ena = turn.ena
           /\ t # Free /\ Asked(turn.value, turn.ena)
PROOF
  BY DEF IInv, TypeOK, TurnOK, Free

LEMMA FreeIsATurn ==
    /\ Free \in [value : Values \cup {Unset}, ena : {0, 1, Unset}, todo : Seq(Step)]
    /\ Free.todo = <<>>
PROOF
  BY DEF Free

\* A write without steps is none.
LEMMA WorkIsATurn == ASSUME turn.todo # <<>> PROVE turn # Free
PROOF
  BY FreeIsATurn

\* What every turn has planned.
LEMMA ATurn ==
    ASSUME IInv, turn # Free
    PROVE  /\ turn.value \in Values \cup {Unset} /\ turn.ena \in {0, 1, Unset}
           /\ turn.todo \in Seq(Step) /\ turn.todo # <<>>
           /\ Asked(turn.value, turn.ena)
           /\ AtOnce \/ Cycling \/ Dispatching
PROOF
  BY DEF IInv, TypeOK, TurnOK, UnderWay

\* A failure ends the turn and is remembered, whatever it did to the device.
LEMMA FailureKeepsIInv ==
    ASSUME IInv, turn' = Free, lost' = TRUE, UNCHANGED <<kind, wanted, stale>>,
           QueueOK', seen' \in {0, 1}, left' \in 0 .. Events,
           dev' \in [value : Values, ena : {0, 1}, force : Values \cup {Nothing}],
           ~stale => dev'.force = IF dev'.ena = 1 THEN dev'.value ELSE Nothing
    PROVE  IInv'
PROOF
  <1>1. TurnOK'
    BY FreeIsATurn DEF TurnOK
  <1>2. TypeOK'
    BY <1>1 DEF IInv, TypeOK
  <1> QED BY <1>2 DEF IInv, RegisterInForce, UnderWay

\* The queue is the same.
LEMMA SameQueue == ASSUME IInv, UNCHANGED <<queue, kind>> PROVE QueueOK'
PROOF
  BY DEF IInv, TypeOK, QueueOK, Asked

\* A batch is safe for what is in force: a device that needs the edge is given a
\* new value with the flag down, or together with its fall.
LEMMA BatchesAreSafe ==
    ASSUME IInv, turn.todo # <<>>, Head(turn.todo).op = "write"
    PROVE  LET step == Head(turn.todo) IN
           /\ step \in Step
           /\ ~stale /\ kind = "edge" /\ step.value # Unset => dev.ena = 0
PROOF
  <1> DEFINE step == Head(turn.todo)
  <1>1. /\ turn.value \in Values \cup {Unset} /\ turn.ena \in {0, 1, Unset}
        /\ turn.todo \in Seq(Step) /\ (AtOnce \/ Cycling \/ Dispatching)
    BY WorkIsATurn, ATurn
  <1>2. step \in Step
    BY <1>1, HeadAndTail
  <1>3. CASE AtOnce
    <2>1. step = Write(turn.value, turn.ena)
      BY <1>3, OneStep DEF AtOnce
    <2>2. step.value = turn.value
      BY <1>1, <2>1, StepFields
    <2> QED BY <1>2, <1>3, <2>2 DEF AtOnce
  <1>4. CASE Cycling
    <2>1. step \in {Write(Unset, 0), Write(Unset, 1)} \/ dev.ena = 0
      BY <1>4, OneStep, TwoSteps, ThreeSteps DEF Cycling, Cycle
    <2>2. Write(Unset, 0).value = Unset /\ Write(Unset, 1).value = Unset
      BY StepFields
    <2> QED BY <1>2, <2>1, <2>2
  <1>5. CASE Dispatching
    BY <1>2, <1>5 DEF Dispatching
  <1> QED BY <1>1, <1>3, <1>4, <1>5

\* The only batch of a write, or its last: what it wrote is what is wanted.
LEMMA LastBatchSettles ==
    ASSUME IInv, turn.todo # <<>>, Len(turn.todo) = 1, Head(turn.todo).op = "write", WriteStep
    PROVE  /\ turn' = Free /\ wanted' \in [value : Values, ena : {0, 1}]
           /\ ~stale' /\ ~lost' => Settled'
PROOF
  <1> DEFINE step == Head(turn.todo)
  <1>1. /\ turn.value \in Values \cup {Unset} /\ turn.ena \in {0, 1, Unset}
        /\ turn.todo \in Seq(Step) /\ (AtOnce \/ Cycling \/ Dispatching)
        /\ Asked(turn.value, turn.ena)
    BY WorkIsATurn, ATurn
  <1>2. Done /\ dev' = Applied(dev, step) /\ UNCHANGED <<kind, stale, lost>>
    BY DEF WriteStep
  <1>3. /\ dev'.value = IF step.value = Unset THEN dev.value ELSE step.value
        /\ dev'.ena = IF step.ena = Unset THEN dev.ena ELSE step.ena
    BY <1>2, BatchesAreSafe, WhatABatchDoes
  <1>4. /\ wanted.value \in Values /\ wanted.ena \in {0, 1}
    BY DEF IInv, TypeOK
  <1>5. /\ wanted'.value = IF turn.value = Unset THEN wanted.value ELSE turn.value
        /\ wanted'.ena = IF turn.ena = Unset THEN wanted.ena ELSE turn.ena
        /\ wanted' \in [value : Values, ena : {0, 1}]
    BY <1>1, <1>2, <1>4 DEF Done
  <1>6. CASE AtOnce
    <2>1. step = Write(turn.value, turn.ena)
      BY <1>6, OneStep DEF AtOnce
    <2>2. step.value = turn.value /\ step.ena = turn.ena
      BY <1>1, <2>1, StepFields
    <2>3. ~stale /\ ~lost => dev.ena = wanted.ena /\ dev.value = wanted.value
      BY <1>6 DEF AtOnce, IInv, NothingDone, Settled
    <2> QED BY <1>2, <1>3, <1>5, <2>2, <2>3 DEF Done, Settled
  <1>7. CASE Cycling
    <2>1. turn.todo = <<Write(Unset, 1)>> /\ dev.value = turn.value /\ turn.value # Unset
      <3>1. Len(Cycle(turn.value)) = 3 /\ Len(<<Write(turn.value, Unset), Write(Unset, 1)>>) = 2
        BY TwoSteps, ThreeSteps DEF Cycle
      <3> QED BY <1>7, <3>1 DEF Cycling
    <2>2. step.value = Unset /\ step.ena = 1
      BY <2>1, StepFields, OneStep, TwoSteps, ThreeSteps
    <2>3. dev'.value = turn.value /\ dev'.ena = 1 /\ wanted'.value = turn.value
      BY <1>3, <1>5, <2>1, <2>2, MarkersAreApart
    <2>4. turn.ena \in {1, Unset}
      BY <1>1, <1>7, <2>1 DEF Asked, Cycling
    <2>5. ~stale /\ ~lost => wanted'.ena = 1
      BY <1>5, <1>7, <2>4, MarkersAreApart DEF Cycling
    <2> QED BY <1>2, <1>5, <2>3, <2>5 DEF Done, Settled
  <1>8. CASE Dispatching
    <2>1. turn.todo = <<Do("verify")>>
      BY <1>8, OneStep, TwoSteps, ThreeSteps DEF Dispatching, Dispatch, Setting, Raising, Releasing
    <2> QED BY <2>1, StepFields, OneStep, TwoSteps, ThreeSteps
  <1> QED BY <1>1, <1>6, <1>7, <1>8

\* A turn that is none of the plans has done something.
LEMMA SomethingDone ==
    ASSUME turn' # Free,
           \/ Len(turn'.todo) = 2
           \/ Len(turn'.todo) = 1 /\ Head(turn'.todo) # Write(turn'.value, turn'.ena)
    PROVE  ~NothingDone'
PROOF
  <1>1. Len(Cycle(turn'.value)) = 3 /\ Len(Dispatch(turn'.value)) = 3
    BY ThreeSteps DEF Cycle, Dispatch
  <1>2. /\ Len(<<Write(turn'.value, turn'.ena)>>) = 1
        /\ Head(<<Write(turn'.value, turn'.ena)>>) = Write(turn'.value, turn'.ena)
    BY OneStep
  <1> QED BY <1>1, <1>2 DEF NothingDone

\* A batch that is not the last leaves the turn with less to do.
LEMMA AnotherBatchIsUnderWay ==
    ASSUME IInv, turn.todo # <<>>, Len(turn.todo) # 1, Head(turn.todo).op = "write", WriteStep
    PROVE  /\ turn' = [turn EXCEPT !.todo = Tail(turn.todo)]
           /\ Tail(turn.todo) \in Seq(Step) /\ Tail(turn.todo) # <<>>
           /\ (Cycling \/ Dispatching)' /\ ~NothingDone'
           /\ wanted' = wanted
PROOF
  <1> DEFINE step == Head(turn.todo)
  <1>1. /\ turn.value \in Values \cup {Unset} /\ turn.ena \in {0, 1, Unset}
        /\ turn.todo \in Seq(Step) /\ (AtOnce \/ Cycling \/ Dispatching)
        /\ turn # Free
    BY WorkIsATurn, ATurn
  <1>2. /\ turn' = [turn EXCEPT !.todo = Tail(turn.todo)] /\ wanted' = wanted
        /\ dev' = Applied(dev, step) /\ UNCHANGED <<kind, stale, lost>>
    BY DEF WriteStep
  <1>3. Tail(turn.todo) \in Seq(Step)
    BY <1>1, HeadAndTail
  <1>4. /\ dev'.value = IF step.value = Unset THEN dev.value ELSE step.value
        /\ dev'.ena = IF step.ena = Unset THEN dev.ena ELSE step.ena
    BY <1>2, BatchesAreSafe, WhatABatchDoes
  <1>5. ASSUME Tail(turn.todo) # <<>>
        PROVE  /\ turn'.todo = Tail(turn.todo) /\ turn'.value = turn.value
               /\ turn'.ena = turn.ena /\ turn' # Free
    BY <1>1, <1>2, <1>3, <1>5, TurnMovesOn
  <1>6. CASE AtOnce
    BY <1>6, OneStep DEF AtOnce
  <1>7. CASE Cycling
    <2>1. kind = "edge" /\ turn.value # Unset /\ (~stale /\ ~lost => wanted.ena = 1 \/ turn.ena = 1)
      BY <1>7 DEF Cycling
    <2>2. CASE turn.todo = Cycle(turn.value)
      <3>1. /\ step = Write(Unset, 0)
            /\ Tail(turn.todo) = <<Write(turn.value, Unset), Write(Unset, 1)>>
        BY <2>2, OneStep, TwoSteps, ThreeSteps DEF Cycle
      <3>2. dev'.ena = 0
        BY <1>4, <3>1, StepFields, MarkersAreApart
      <3>3. /\ Tail(turn.todo) # <<>> /\ Len(Tail(turn.todo)) = 2
        BY <3>1, OneStep, TwoSteps, ThreeSteps
      <3>4. Cycling'
        BY <1>2, <1>5, <2>1, <3>1, <3>2, <3>3 DEF Cycling
      <3>5. ~NothingDone'
        BY <1>5, <3>3, SomethingDone
      <3> QED BY <1>2, <1>3, <3>3, <3>4, <3>5
    <2>3. CASE turn.todo = <<Write(turn.value, Unset), Write(Unset, 1)>> /\ dev.ena = 0
      <3>1. step = Write(turn.value, Unset) /\ Tail(turn.todo) = <<Write(Unset, 1)>>
        BY <2>3, OneStep, TwoSteps, ThreeSteps
      <3>2. dev'.ena = 0 /\ dev'.value = turn.value
        BY <1>1, <1>4, <2>1, <2>3, <3>1, StepFields
      <3>3. Tail(turn.todo) # <<>>
        BY <3>1, OneStep, TwoSteps, ThreeSteps
      <3>4. Cycling'
        BY <1>2, <1>5, <2>1, <3>1, <3>2, <3>3 DEF Cycling
      <3>5. ~NothingDone'
        <4>1. turn' # Free /\ Len(turn'.todo) = 1 /\ Head(turn'.todo) = Write(Unset, 1)
          BY <1>5, <3>1, <3>3, OneStep
        <4>2. Write(Unset, 1) # Write(turn'.value, turn'.ena)
          BY <1>1, <1>5, <2>1, <3>3 DEF Write
        <4> QED BY <4>1, <4>2, SomethingDone
      <3> QED BY <1>2, <1>3, <3>3, <3>4, <3>5
    <2>4. CASE turn.todo = <<Write(Unset, 1)>>
      BY <2>4, OneStep, TwoSteps, ThreeSteps
    <2> QED BY <1>7, <2>2, <2>3, <2>4 DEF Cycling
  <1>8. CASE Dispatching
    <2>1. Write(Unset, 1).op = "write" /\ Write(turn.value, Unset).op = "write"
          /\ Do("read").op = "read" /\ Do("verify").op = "verify"
      BY <1>1, StepFields
    <2>2. turn.todo # Dispatch(turn.value)
      BY <2>1, ThreeSteps DEF Dispatch
    <2>3. /\ Tail(turn.todo) \in {<<Do("verify")>>, <<Write(Unset, 1), Do("verify")>>}
          /\ Tail(turn.todo) = <<Write(Unset, 1), Do("verify")>> => turn.value # Unset
      <3>1. turn.todo # <<Do("verify")>>
        BY OneStep
      <3>2. CASE turn.value # Unset /\ turn.todo \in {Setting, Raising, <<Write(Unset, 1), Do("verify")>>}
        <4>1. /\ Tail(Setting) = <<Do("verify")>>
              /\ Tail(Raising) = <<Write(Unset, 1), Do("verify")>>
              /\ Tail(<<Write(Unset, 1), Do("verify")>>) = <<Do("verify")>>
          BY TwoSteps, ThreeSteps DEF Setting, Raising
        <4> QED BY <3>2, <4>1
      <3>3. CASE turn.todo = Releasing
        <4>1. Tail(turn.todo) = <<Do("verify")>>
          BY <3>3, TwoSteps DEF Releasing
        <4>2. <<Do("verify")>> # <<Write(Unset, 1), Do("verify")>>
          BY OneStep, TwoSteps
        <4> QED BY <4>1, <4>2
      <3> QED BY <1>8, <2>2, <3>1, <3>2, <3>3 DEF Dispatching
    <2>4. Tail(turn.todo) # <<>>
      BY <2>3, OneStep, TwoSteps, ThreeSteps
    <2>5. /\ turn'.todo = Tail(turn.todo) /\ turn'.value = turn.value
          /\ turn'.ena = turn.ena /\ turn' # Free
      BY <1>5, <2>4
    <2>6. Dispatching'
      BY <1>2, <1>8, <2>3, <2>5 DEF Dispatching
    <2>7. ~NothingDone'
      <3>1. CASE Tail(turn.todo) = <<Do("verify")>>
        <4>1. Head(turn'.todo) = Do("verify") /\ Len(turn'.todo) = 1
          BY <2>5, <3>1, OneStep
        <4>2. Do("verify") # Write(turn'.value, turn'.ena)
          BY DEF Do, Write
        <4> QED BY <2>5, <4>1, <4>2, SomethingDone
      <3>2. CASE Tail(turn.todo) = <<Write(Unset, 1), Do("verify")>>
        BY <2>5, <3>2, TwoSteps, SomethingDone
      <3> QED BY <2>3, <3>1, <3>2
    <2> QED BY <1>2, <1>3, <2>4, <2>6, <2>7
  <1> QED BY <1>1, <1>6, <1>7, <1>8

\* One batch of a write.
LEMMA WriteStepKeepsIInv == ASSUME IInv, WriteStep PROVE IInv'
PROOF
  <1> DEFINE step == Head(turn.todo)
  <1>1. /\ turn.todo # <<>> /\ step.op = "write" /\ dev' = Applied(dev, step)
        /\ UNCHANGED <<kind, seen, queue, stale, lost, left>>
    BY DEF WriteStep
  <1>2. /\ dev' \in [value : Values, ena : {0, 1}, force : Values \cup {Nothing}]
        /\ RegisterInForce'
    BY <1>1, BatchesAreSafe, WhatABatchDoes DEF RegisterInForce
  <1>3. QueueOK'
    BY <1>1, SameQueue
  <1>4. CASE Len(turn.todo) = 1
    <2>1. /\ turn' = Free /\ wanted' \in [value : Values, ena : {0, 1}]
          /\ ~stale' /\ ~lost' => Settled'
      BY <1>1, <1>4, LastBatchSettles
    <2>2. TurnOK' /\ UnderWay'
      BY <2>1, FreeIsATurn DEF TurnOK, UnderWay
    <2>3. TypeOK'
      BY <1>1, <1>2, <1>3, <2>1, <2>2 DEF IInv, TypeOK
    <2> QED BY <1>2, <2>1, <2>2, <2>3 DEF IInv
  <1>5. CASE Len(turn.todo) # 1
    <2>1. /\ turn' = [turn EXCEPT !.todo = Tail(turn.todo)]
          /\ Tail(turn.todo) \in Seq(Step) /\ Tail(turn.todo) # <<>>
          /\ (Cycling \/ Dispatching)' /\ ~NothingDone' /\ wanted' = wanted
      BY <1>1, <1>5, AnotherBatchIsUnderWay
    <2>2. TurnOK'
      BY <1>1, <2>1, WorkIsATurn, TurnMovesOn DEF TurnOK, Asked
    <2>3. TypeOK'
      BY <1>1, <1>2, <1>3, <2>1, <2>2 DEF IInv, TypeOK
    <2> QED BY <1>2, <2>1, <2>3 DEF IInv, UnderWay
  <1> QED BY <1>4, <1>5
-----------------------------------------------------------------------------
\* The turns of a FranklinWH are the only ones that read and verify.
LEMMA OnlyDispatchesLook ==
    ASSUME IInv, turn.todo # <<>>, Head(turn.todo).op # "write"
    PROVE  /\ Dispatching
           /\ \/ Head(turn.todo).op = "read" /\ turn.todo = Dispatch(turn.value)
              \/ Head(turn.todo).op = "verify" /\ turn.todo = <<Do("verify")>>
PROOF
  <1>1. /\ turn.value \in Values \cup {Unset} /\ turn.ena \in {0, 1, Unset}
        /\ AtOnce \/ Cycling \/ Dispatching
    BY WorkIsATurn, ATurn
  <1>2. \A v \in Values \cup {Unset}, e \in {0, 1, Unset} : Write(v, e).op = "write"
    BY StepFields
  <1>3. /\ Write(turn.value, turn.ena).op = "write" /\ Write(Unset, 0).op = "write"
        /\ Write(turn.value, Unset).op = "write" /\ Write(Unset, 1).op = "write"
        /\ Write(0, 0).op = "write"
    BY <1>1, <1>2, MarkersAreApart
  <1>4. ~AtOnce
    BY <1>3, OneStep DEF AtOnce
  <1>5. ~Cycling
    BY <1>3, OneStep, TwoSteps, ThreeSteps DEF Cycling, Cycle
  <1>6. Do("read").op = "read" /\ Do("verify").op = "verify"
    BY DEF Do
  <1>7. /\ Head(Setting).op = "write" /\ Head(Raising).op = "write" /\ Head(Releasing).op = "write"
        /\ Head(<<Write(Unset, 1), Do("verify")>>).op = "write"
    BY <1>3, TwoSteps, ThreeSteps DEF Setting, Raising, Releasing
  <1>8. turn.todo \in {Dispatch(turn.value), <<Do("verify")>>}
    BY <1>1, <1>4, <1>5, <1>7 DEF Dispatching
  <1>9. Head(Dispatch(turn.value)) = Do("read")
    BY ThreeSteps DEF Dispatch
  <1>10. Head(<<Do("verify")>>) = Do("verify")
    BY OneStep
  <1> QED BY <1>1, <1>4, <1>5, <1>6, <1>8, <1>9, <1>10

\* A FranklinWH reads its flag, or refuses.
LEMMA ReadStepKeepsIInv == ASSUME IInv, ReadStep PROVE IInv'
PROOF
  <1>1. /\ turn.todo # <<>> /\ Head(turn.todo).op = "read"
        /\ UNCHANGED <<kind, models, dev, seen, queue, wanted, stale, lost, left>>
    BY DEF ReadStep
  <1>2. Dispatching /\ turn.todo = Dispatch(turn.value)
    BY <1>1, OnlyDispatchesLook
  <1>3. ~stale /\ ~lost => Settled
    BY <1>2 DEF IInv, NothingDone
  <1>4. turn # Free /\ turn.value \in Values \cup {Unset} /\ turn.ena \in {0, 1, Unset}
    BY <1>1, WorkIsATurn, ATurn
  <1>5. QueueOK'
    BY <1>1, SameQueue
  <1>6. CASE turn' = Free
    <2>1. TurnOK' /\ UnderWay'
      BY <1>6, FreeIsATurn DEF TurnOK, UnderWay
    <2>2. TypeOK'
      BY <1>1, <1>5, <2>1 DEF IInv, TypeOK
    <2> QED BY <1>1, <1>3, <2>1, <2>2 DEF IInv, RegisterInForce, Settled
  <1>7. ASSUME NEW todo, turn' = [turn EXCEPT !.todo = todo],
               \/ turn.value = Unset /\ todo = Releasing
               \/ turn.value # Unset /\ todo \in {Setting, Raising}
        PROVE  IInv'
    <2>1. todo \in Seq(Step) /\ todo # <<>>
      <3>1. /\ Write(turn.value, Unset) \in Step /\ Write(Unset, 1) \in Step /\ Write(0, 0) \in Step
            /\ Do("verify") \in Step
        BY <1>4, StepFields, MarkersAreApart
      <3>2. /\ Setting \in Seq(Step) /\ Raising \in Seq(Step) /\ Releasing \in Seq(Step)
            /\ Setting # <<>> /\ Raising # <<>> /\ Releasing # <<>>
        BY <3>1 DEF Setting, Raising, Releasing
      <3> QED BY <1>7, <3>2
    <2>2. /\ turn' \in [value : Values \cup {Unset}, ena : {0, 1, Unset}, todo : Seq(Step)]
          /\ turn'.todo = todo /\ turn'.value = turn.value /\ turn'.ena = turn.ena
          /\ turn' # Free /\ Asked(turn.value, turn.ena)
      BY <1>4, <1>7, <2>1, TurnMovesOn
    <2>3. TurnOK'
      BY <1>1, <2>1, <2>2 DEF TurnOK, Asked
    <2>4. Dispatching'
      BY <1>1, <1>2, <1>7, <2>2 DEF Dispatching, Setting, Raising, Releasing
    <2>5. ~NothingDone'
      <3>1. Len(Setting) = 2 /\ Len(Releasing) = 2 /\ Len(Raising) = 3
        BY TwoSteps, ThreeSteps DEF Setting, Raising, Releasing
      <3>2. Head(Raising) = Write(turn.value, Unset)
        BY ThreeSteps DEF Raising
      <3>3. CASE todo \in {Setting, Releasing}
        BY <2>2, <3>1, <3>3, SomethingDone
      <3>4. CASE todo = Raising /\ turn.value # Unset
        <4>1. /\ Head(Cycle(turn.value)) = Write(Unset, 0)
              /\ Head(Dispatch(turn.value)) = Do("read")
              /\ Len(<<Write(turn.value, turn.ena)>>) = 1
          BY OneStep, ThreeSteps DEF Cycle, Dispatch
        <4>2. Write(turn.value, Unset) # Write(Unset, 0) /\ Write(turn.value, Unset) # Do("read")
          BY <3>4 DEF Write, Do
        <4>3. Raising \notin {<<Write(turn.value, turn.ena)>>, Cycle(turn.value), Dispatch(turn.value)}
          BY <3>1, <3>2, <4>1, <4>2
        <4> QED BY <2>2, <3>4, <4>3 DEF NothingDone
      <3> QED BY <1>7, <3>3, <3>4
    <2>6. TypeOK'
      BY <1>1, <1>5, <2>3 DEF IInv, TypeOK
    <2> QED BY <1>1, <2>4, <2>5, <2>6 DEF IInv, RegisterInForce, UnderWay
  <1>8. CASE turn' # Free
    <2>1. turn' = [turn EXCEPT !.todo =
                      IF turn.value = Unset \/ dev.ena = 1 THEN Tail(turn.todo)
                      ELSE <<turn.todo[2], Write(Unset, 1), turn.todo[3]>>]
      BY <1>8 DEF ReadStep
    <2>2. CASE turn.value = Unset
      <3>1. Tail(turn.todo) = Releasing
        BY <1>2, <2>2, ThreeSteps DEF Dispatch, Releasing
      <3> QED BY <1>7, <2>1, <2>2, <3>1
    <2>3. CASE turn.value # Unset
      <3>1. turn.todo = <<Do("read"), Write(turn.value, Unset), Do("verify")>>
        BY <1>2, <2>3 DEF Dispatch
      <3>2. Tail(turn.todo) = Setting
        BY <3>1, ThreeSteps DEF Setting
      <3>3. <<turn.todo[2], Write(Unset, 1), turn.todo[3]>> = Raising
        BY <3>1 DEF Raising
      <3>4. CASE dev.ena = 1
        BY <1>7, <2>1, <2>3, <3>2, <3>4
      <3>5. CASE dev.ena # 1
        BY <1>7, <2>1, <2>3, <3>3, <3>5
      <3> QED BY <3>4, <3>5
    <2> QED BY <2>2, <2>3
  <1> QED BY <1>6, <1>8

\* The dispatch is verified, or has failed.
LEMMA VerifyStepKeepsIInv == ASSUME IInv, VerifyStep PROVE IInv'
PROOF
  <1>1. /\ turn.todo # <<>> /\ Head(turn.todo).op = "verify"
        /\ UNCHANGED <<kind, models, dev, queue, stale, left>>
    BY DEF VerifyStep
  <1>2. Dispatching
    BY <1>1, OnlyDispatchesLook
  <1>3. /\ turn.value \in Values \cup {Unset} /\ turn.ena \in {0, 1, Unset}
        /\ Asked(turn.value, turn.ena)
    BY <1>1, WorkIsATurn, ATurn
  <1>4. QueueOK'
    BY <1>1, SameQueue
  <1>5. /\ dev \in [value : Values, ena : {0, 1}, force : Values \cup {Nothing}]
        /\ wanted \in [value : Values, ena : {0, 1}] /\ seen \in {0, 1} /\ left \in 0 .. Events
        /\ ~stale => dev.force = IF dev.ena = 1 THEN dev.value ELSE Nothing
    BY DEF IInv, TypeOK, RegisterInForce
  <1>6. CASE dev.ena = turn.ena /\ dev.value = (IF turn.value = Unset THEN 0 ELSE turn.value)
    <2>1. Done /\ seen' = dev.ena /\ lost' = lost
      BY <1>6 DEF VerifyStep
    <2>2. kind = "franklin" /\ turn.ena \in {0, 1} /\ (turn.ena = 1 => turn.value # Unset)
      BY <1>2, <1>3, MarkersAreApart DEF Dispatching, Asked
    <2>3. turn.ena # Unset
      BY <2>2, MarkersAreApart
    <2>4. wanted' = [value |-> IF turn.value = Unset THEN wanted.value ELSE turn.value,
                     ena |-> turn.ena]
      BY <2>1, <2>3 DEF Done
    <2>5. wanted' \in [value : Values, ena : {0, 1}]
      BY <1>3, <1>5, <2>2, <2>4
    <2>6. Settled'
      BY <1>1, <1>6, <2>2, <2>4 DEF Settled
    <2>7. turn' = Free
      BY <2>1 DEF Done
    <2>8. TurnOK' /\ UnderWay'
      BY <2>7, FreeIsATurn DEF TurnOK, UnderWay
    <2>9. TypeOK'
      BY <1>1, <1>4, <1>5, <2>1, <2>5, <2>8 DEF IInv, TypeOK
    <2> QED BY <1>1, <2>6, <2>8, <2>9 DEF IInv, RegisterInForce
  <1>7. CASE ~(dev.ena = turn.ena /\ dev.value = (IF turn.value = Unset THEN 0 ELSE turn.value))
    <2>1. turn' = Free /\ lost' = TRUE /\ UNCHANGED <<wanted, seen>>
      BY <1>7 DEF VerifyStep
    <2> QED BY <1>1, <1>4, <1>5, <2>1, FailureKeepsIInv
  <1> QED BY <1>6, <1>7
-----------------------------------------------------------------------------
\* So is the first frame of a batch, when only that arrives.
LEMMA FirstFramesAreSafe ==
    ASSUME IInv, turn.todo # <<>>, Head(turn.todo).op = "write"
    PROVE  LET step == FirstFrame(Head(turn.todo)) IN
           /\ step \in Step
           /\ ~stale /\ kind = "edge" /\ step.value # Unset /\ step.ena # 0 => dev.ena = 0
PROOF
  <1> DEFINE step == Head(turn.todo)
  <1>1. /\ step \in Step /\ step.value \in Values \cup {Unset} /\ step.ena \in {0, 1, Unset}
        /\ ~stale /\ kind = "edge" /\ step.value # Unset => dev.ena = 0
    BY BatchesAreSafe DEF Step
  <1>2. CASE kind = "franklin"
    <2>1. FirstFrame(step) = Write(Unset, step.ena)
      BY <1>2 DEF FirstFrame
    <2> QED BY <1>1, <1>2, <2>1, StepFields
  <1>3. CASE kind # "franklin" /\ 704 \in models
    BY <1>1, <1>3 DEF FirstFrame
  <1>4. CASE kind # "franklin" /\ 704 \notin models
    <2>1. FirstFrame(step) = Write(step.value, Unset)
      BY <1>4 DEF FirstFrame
    <2> QED BY <1>1, <1>4, <2>1, StepFields
  <1> QED BY <1>2, <1>3, <1>4

\* A step that fails may have arrived, or a part of it.
LEMMA StepFailsKeepsIInv == ASSUME IInv, StepFails PROVE IInv'
PROOF
  <1>1. /\ turn.todo # <<>> /\ turn' = Free /\ lost' = TRUE /\ Event
        /\ UNCHANGED <<kind, seen, queue, wanted, stale>>
        /\ \/ dev' = dev
           \/ /\ Head(turn.todo).op = "write"
              /\ \E step \in {Head(turn.todo), FirstFrame(Head(turn.todo))} :
                    dev' = Applied(dev, step)
    BY DEF StepFails
  <1>2. /\ dev' \in [value : Values, ena : {0, 1}, force : Values \cup {Nothing}]
        /\ ~stale => dev'.force = IF dev'.ena = 1 THEN dev'.value ELSE Nothing
    <2>1. CASE dev' = dev
      BY <2>1 DEF IInv, TypeOK, RegisterInForce
    <2>2. CASE Head(turn.todo).op = "write" /\ dev' = Applied(dev, Head(turn.todo))
      BY <1>1, <2>2, BatchesAreSafe, WhatABatchDoes
    <2>3. CASE Head(turn.todo).op = "write" /\ dev' = Applied(dev, FirstFrame(Head(turn.todo)))
      BY <1>1, <2>3, FirstFramesAreSafe, WhatABatchDoes
    <2> QED BY <1>1, <2>1, <2>2, <2>3
  <1>3. QueueOK'
    BY <1>1, SameQueue
  <1>4. left' \in 0 .. Events /\ seen' \in {0, 1}
    BY <1>1, BoundsAreNumbers DEF Event, IInv, TypeOK
  <1> QED BY <1>1, <1>2, <1>3, <1>4, FailureKeepsIInv

\* The flag falls by itself, between two steps of a write or between two writes.
LEMMA RevertKeepsIInv == ASSUME IInv, DeviceReverts PROVE IInv'
PROOF
  <1>1. /\ dev' = [dev EXCEPT !.ena = 0, !.force = Nothing] /\ lost' = TRUE /\ Event
        /\ UNCHANGED <<kind, models, seen, queue, turn, wanted, stale>>
    BY DEF DeviceReverts
  <1>2. /\ dev' \in [value : Values, ena : {0, 1}, force : Values \cup {Nothing}]
        /\ dev'.value = dev.value /\ dev'.ena = 0 /\ dev'.force = Nothing
    BY <1>1, WhatARevertDoes
  <1>3. QueueOK' /\ left' \in 0 .. Events
    BY <1>1, SameQueue, BoundsAreNumbers DEF Event, IInv, TypeOK
  <1>4. TurnOK'
    BY <1>1 DEF IInv, TypeOK, TurnOK, Asked
  <1>5. TypeOK'
    BY <1>1, <1>2, <1>3, <1>4 DEF IInv, TypeOK
  <1>6. UnderWay'
    BY <1>1, <1>2 DEF IInv, UnderWay, AtOnce, Cycling, Dispatching, Setting, Raising, Releasing
  <1>7. RegisterInForce'
    BY <1>2 DEF RegisterInForce
  <1> QED BY <1>1, <1>5, <1>6, <1>7 DEF IInv

\* A stop in the middle of a write is a failure of it.
LEMMA RestartKeepsIInv == ASSUME IInv, Restart PROVE IInv'
PROOF
  <1>1. /\ queue' = <<>> /\ turn' = Free /\ seen' = dev.ena /\ Event
        /\ lost' = (lost \/ turn # Free)
        /\ UNCHANGED <<kind, models, dev, wanted, stale>>
    BY DEF Restart
  <1>2. QueueOK'
    BY <1>1 DEF QueueOK
  <1>3. TurnOK' /\ UnderWay'
    BY <1>1, FreeIsATurn DEF TurnOK, UnderWay
  <1>4. left' \in 0 .. Events
    BY <1>1, BoundsAreNumbers DEF Event, IInv, TypeOK
  <1>5. lost' \in BOOLEAN /\ seen' \in {0, 1}
    BY <1>1 DEF IInv, TypeOK
  <1>6. TypeOK'
    BY <1>1, <1>2, <1>3, <1>4, <1>5 DEF IInv, TypeOK
  <1>7. ~stale' /\ ~lost' => Settled'
    BY <1>1 DEF IInv, NothingDone, Settled
  <1> QED BY <1>1, <1>3, <1>6, <1>7 DEF IInv, RegisterInForce

\* A poll changes what was last read, not what is in force.
LEMMA PollKeepsIInv == ASSUME IInv, Poll PROVE IInv'
PROOF
  <1>1. /\ queue # <<>> /\ queue' = Tail(queue) /\ UNCHANGED <<kind, dev, turn, wanted, stale, lost>>
        /\ turn = Free
        /\ seen' \in {seen, dev.ena} /\ (left' = left \/ Event)
    BY DEF Poll
  <1>2. QueueOK'
    BY <1>1, TailKeepsTheQueue DEF IInv, TypeOK
  <1>3. left' \in 0 .. Events /\ seen' \in {0, 1}
    BY <1>1, BoundsAreNumbers DEF Event, IInv, TypeOK
  <1>4. TurnOK' /\ UnderWay'
    BY <1>1, FreeIsATurn DEF TurnOK, UnderWay
  <1>5. TypeOK'
    BY <1>1, <1>2, <1>3, <1>4 DEF IInv, TypeOK
  <1> QED BY <1>1, <1>4, <1>5 DEF IInv, RegisterInForce, Settled, NothingDone

\* A write is planned by the flag as the last poll read it.
LEMMA BeginKeepsIInv == ASSUME IInv, Begin PROVE IInv'
PROOF
  <1> DEFINE job == Head(queue)
             todo == IF kind = "franklin" THEN Dispatch(job.value)
                     ELSE PlanWrite(job.value, job.ena)
  <1>1. /\ turn = Free /\ queue # <<>> /\ job.kind = "write" /\ queue' = Tail(queue)
        /\ turn' = [value |-> job.value, ena |-> job.ena, todo |-> todo]
        /\ stale' = (stale \/ (kind = "edge" /\ job.value # Unset /\ seen # dev.ena))
        /\ UNCHANGED <<kind, models, dev, seen, wanted, lost, left>>
    BY DEF Begin
  <1>2. QueueOK' /\ job \in Jobs /\ Asked(job.value, job.ena)
    BY <1>1, TailKeepsTheQueue DEF IInv, TypeOK
  <1>3. job.value \in Values \cup {Unset} /\ job.ena \in {0, 1, Unset}
    BY <1>2 DEF Jobs
  <1>4. todo \in Seq(Step) /\ todo # <<>>
    <2>1. /\ <<Write(job.value, job.ena)>> \in Seq(Step) /\ Cycle(job.value) \in Seq(Step)
          /\ Dispatch(job.value) \in Seq(Step)
          /\ Cycle(job.value) # <<>> /\ Dispatch(job.value) # <<>>
          /\ <<Write(job.value, job.ena)>> # <<>>
      BY <1>3, PlansAreSteps, OneStep
    <2>2. todo \in {<<Write(job.value, job.ena)>>, Cycle(job.value), Dispatch(job.value)}
      BY DEF PlanWrite, Cycle
    <2> QED BY <2>1, <2>2
  <1>5. turn'.value = job.value /\ turn'.ena = job.ena /\ turn'.todo = todo
    BY <1>1
  <1>6. TurnOK'
    <2>1. turn' \in [value : Values \cup {Unset}, ena : {0, 1, Unset}, todo : Seq(Step)]
      BY <1>1, <1>3, <1>4
    <2> QED BY <1>1, <1>2, <1>4, <1>5, <2>1 DEF TurnOK, Asked
  <1>7. TypeOK'
    BY <1>1, <1>2, <1>6 DEF IInv, TypeOK
  <1>8. ~stale /\ ~lost => Settled
    BY <1>1 DEF IInv, NothingDone
  <1>9. UnderWay'
    <2>1. CASE kind = "franklin"
      BY <1>1, <1>5, <2>1 DEF UnderWay, Dispatching
    <2>2. CASE kind # "franklin"
      <3>1. seen \in {0, 1} /\ dev.ena \in {0, 1} /\ kind \in {"plain", "edge", "franklin"}
        BY DEF IInv, TypeOK
      <3>2. job.value # Unset => job.ena \in {1, Unset}
        BY <1>2, <2>2, MarkersAreApart DEF Asked
      <3>3. CASE kind = "edge" /\ job.value # Unset /\ job.ena # 0 /\ seen = 1
        <4>1. todo = Cycle(job.value)
          BY <3>3 DEF PlanWrite, Cycle
        <4>2. ~stale' /\ ~lost' => wanted.ena = 1
          BY <1>1, <1>8, <3>3 DEF Settled
        <4>3. Cycling'
          BY <1>1, <1>5, <3>3, <4>1, <4>2 DEF Cycling
        <4> QED BY <4>3 DEF UnderWay
      <3>4. CASE ~(kind = "edge" /\ job.value # Unset /\ job.ena # 0 /\ seen = 1)
        <4>1. todo = <<Write(job.value, job.ena)>>
          BY <2>2, <3>4 DEF PlanWrite
        <4>2. kind = "edge" /\ ~stale' /\ job.value # Unset => dev.ena = 0
          BY <1>1, <3>1, <3>2, <3>4, MarkersAreApart
        <4>3. AtOnce'
          BY <1>1, <1>5, <2>2, <4>1, <4>2 DEF AtOnce
        <4> QED BY <4>3 DEF UnderWay
      <3> QED BY <3>3, <3>4
    <2> QED BY <2>1, <2>2
  <1>10. ~stale' => ~stale
    BY <1>1
  <1> QED BY <1>1, <1>7, <1>8, <1>9, <1>10 DEF IInv, RegisterInForce, Settled

\* Every step keeps the invariant.
LEMMA StepKeepsIInv == IInv /\ [Next]_vars => IInv'
PROOF
  <1>1. ASSUME IInv, UNCHANGED vars PROVE IInv'
    BY <1>1 DEF vars, IInv, TypeOK, QueueOK, TurnOK, Asked, RegisterInForce, UnderWay, AtOnce,
                Cycling, Dispatching, Setting, Raising, Releasing, Settled, NothingDone
  <1> QED BY <1>1, AskingKeepsIInv, PollKeepsIInv, BeginKeepsIInv, WriteStepKeepsIInv,
             ReadStepKeepsIInv, VerifyStepKeepsIInv, StepFailsKeepsIInv, RevertKeepsIInv,
             RestartKeepsIInv DEF Next

\* Nothing has been asked for yet.
LEMMA Initially == Init => IInv
PROOF
  <1> SUFFICES ASSUME Init PROVE IInv
    OBVIOUS
  <1>1. /\ kind \in Devices /\ dev = [value |-> 0, ena |-> 0, force |-> Nothing]
        /\ seen = 0 /\ wanted = [value |-> 0, ena |-> 0]
        /\ queue = <<>> /\ turn = Free
        /\ stale = FALSE /\ lost = FALSE /\ left = Events
    BY DEF Init
  <1>2. QueueOK /\ TurnOK
    BY <1>1, FreeIsATurn DEF QueueOK, TurnOK
  <1>3. TypeOK
    <2>1. left \in 0 .. Events
      BY <1>1, BoundsAreNumbers
    <2>2. /\ dev \in [value : Values, ena : {0, 1}, force : Values \cup {Nothing}]
          /\ wanted \in [value : Values, ena : {0, 1}]
      BY <1>1, MarkersAreApart
    <2> QED BY <1>1, <1>2, <2>1, <2>2, DevicesAreKnown DEF TypeOK
  <1> QED BY <1>1, <1>3 DEF IInv, RegisterInForce, UnderWay, Settled

\* The invariant holds in every state of every run.
THEOREM InductiveInvariant == Spec => []IInv
PROOF
  <1> QED BY Initially, StepKeepsIInv, PTL DEF Spec

\* Registers, queue, plans and wishes have their types in every reachable state.
THEOREM TypesHold == Spec => []TypeOK
PROOF
  <1>1. IInv => TypeOK
    BY DEF IInv
  <1> QED BY <1>1, InductiveInvariant, PTL

-----------------------------------------------------------------------------
\* When all writes have succeeded, the device runs on the value and the flag
\* written last, unless a plan went by a flag the device no longer had
\* (plan_write, async_set_power).
THEOREM CommandsComeIntoForce == Spec => []CommandInForce
PROOF
  <1>1. IInv => CommandInForce
    <2> SUFFICES ASSUME IInv, Quiet, ~lost, ~stale
                 PROVE  /\ dev.ena = wanted.ena
                        /\ dev.force = IF wanted.ena = 1 THEN wanted.value ELSE Nothing
      BY DEF CommandInForce
    <2>1. Settled
      BY DEF IInv, NothingDone, Quiet
    <2> QED BY <2>1 DEF IInv, RegisterInForce, Settled
  <1> QED BY <1>1, InductiveInvariant, PTL

\* Whatever step fails, the device is left with the value its register shows in
\* force, or with none (plan_write).
THEOREM OldValuesAreNotInForce == Spec => []NoOldValueInForce
PROOF
  <1>1. IInv => NoOldValueInForce
    BY DEF IInv, RegisterInForce, NoOldValueInForce
  <1> QED BY <1>1, InductiveInvariant, PTL
=============================================================================
