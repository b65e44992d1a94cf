---------------------------- MODULE GatewayProofs ----------------------------
(***************************************************************************)
(* Proofs about Gateway, for any set of coordinators, refreshes and writes *)
(* and any length of a cycle or a plan.                                    *)
(***************************************************************************)
EXTENDS GatewayProperties, TLAPS

\* The constants have the shape the module assumes.
LEMMA ConstantTypes ==
    /\ \A t \in Task : EntryOf[t] \in Entry /\ Work(t) \in Nat \ {0}
    /\ None \notin Task
    /\ Poll \subseteq Task /\ Write \subseteq Task
PROOF
  BY NobodyIsNoTask, TasksOwned, WorkIsPositive DEF Task, Work

\* The program starts with the lock free and nothing on the wire.
LEMMA Initially == Init => IInv
PROOF
  <1> SUFFICES ASSUME Init PROVE IInv
    OBVIOUS
  <1>1. TypeOK
    BY DEF Init, TypeOK
  <1>2. \A t \in Task : pc[t] = "idle" /\ wire[t] = "none" /\ req[t] = "none" /\ err[t] = "none"
    BY DEF Init
  <1>3. LockNotLeaked
    BY <1>2 DEF Init, LockNotLeaked, Holds
  <1>4. RequestsOfTheHold /\ NobodyRunsInTheRest /\ WriteRestsAtOnce
    BY <1>2, ConstantTypes DEF RequestsOfTheHold, NobodyRunsInTheRest, WriteRestsAtOnce
  <1> QED BY <1>1, <1>3, <1>4 DEF IInv

\* A hold that fails, or swallows its failure, keeps the invariant: the error
\* goes with the close, and the rest of a write with the error.
LEMMA RaiseKeepsIInv ==
    ASSUME IInv, NEW t \in Task, NEW request, NEW transient,
           NEW error \in {"unanswered", "answered"},
           pc[t] = "run",
           Raise(t, request, error, transient),
           UNCHANGED <<attempt, holder, ahead, data, shut>>,
           owed' \in BOOLEAN,
           link' \in {"down", "up", "suspect"},
           client' \in [Entry -> BOOLEAN],
           reconnect' \in [Entry -> BOOLEAN],
           info' \in [Entry -> BOOLEAN],
           probed' \in [Entry -> BOOLEAN],
           error = "unanswered" => info' = info
    PROVE  IInv'
PROOF
  <1>1. TypeOK'
    BY DEF IInv, TypeOK, Raise, Fail, RestsAfter, LinkProfileKnown
  <1>2. holder = t /\ holder' = t /\ \A u \in Task : Holds(u) => u = t
    BY DEF IInv, LockNotLeaked, Holds
  <1>3. pc' \in [Task -> {"idle", "wait", "run", "close", "sleep"}]
        /\ pc'[t] \in {"run", "close"} /\ \A u \in Task \ {t} : pc'[u] = pc[u]
    BY DEF IInv, TypeOK, Raise, Fail
  <1>4. LockNotLeaked'
    BY <1>2, <1>3, ConstantTypes DEF LockNotLeaked, Holds
  <1>5. RequestsOfTheHold'
    BY <1>2 DEF IInv, TypeOK, RequestsOfTheHold, Raise, Fail, Holds
  <1>6. NobodyRunsInTheRest'
    BY <1>2 DEF IInv, TypeOK, NobodyRunsInTheRest, Raise, Fail, Holds
  <1>7. WriteRestsAtOnce'
    <2> SUFFICES ASSUME NEW u \in Write, pc'[u] = "close", RestsAfter(EntryOf[u], err[u])'
                 PROVE  rest'
      BY DEF WriteRestsAtOnce
    <2>1. u = t
      BY <1>2, <1>3, ConstantTypes DEF Holds
    <2>2. CASE Swallowed(request, transient)
      BY <2>1, <2>2, <1>3 DEF Raise
    <2>3. CASE ~Swallowed(request, transient)
      BY <2>1, <2>3 DEF Raise, Fail, RestsAfter, LinkProfileKnown, IInv, TypeOK
    <2> QED BY <2>2, <2>3
  <1> QED BY <1>1, <1>4, <1>5, <1>6, <1>7 DEF IInv

\* A task that is in no hold before and after a step of its own, and changes
\* nothing but its place in the queue, keeps the invariant.
LEMMA OutsideHoldKeepsIInv ==
    ASSUME IInv, NEW t \in Task,
           pc[t] \in {"idle", "wait", "sleep"},
           NEW p \in {"idle", "wait", "sleep"}, pc' = [pc EXCEPT ![t] = p],
           attempt' \in [Task -> {1, 2}],
           ahead' \in [Task -> SUBSET Task],
           link' \in {"down", "up", "suspect"},
           client' \in [Entry -> BOOLEAN],
           reconnect' \in [Entry -> BOOLEAN],
           UNCHANGED <<left, req, wire, again, err, holder, entryVars, restVars>>
    PROVE  IInv'
PROOF
  <1>1. TypeOK'
    BY DEF IInv, TypeOK, entryVars, restVars
  <1>2. \A u \in Task : pc'[u] = IF u = t THEN p ELSE pc[u]
    BY DEF IInv, TypeOK
  <1>3. holder # None => holder \in Task
    BY DEF IInv, TypeOK
  <1>4. LockNotLeaked'
    BY <1>2, <1>3 DEF IInv, LockNotLeaked, Holds
  <1>5. RequestsOfTheHold'
    BY <1>2 DEF IInv, RequestsOfTheHold
  <1>6. NobodyRunsInTheRest'
    BY <1>2 DEF IInv, NobodyRunsInTheRest, restVars
  <1>7. WriteRestsAtOnce'
    BY <1>2, ConstantTypes
       DEF IInv, WriteRestsAtOnce, RestsAfter, LinkProfileKnown, entryVars, restVars
  <1> QED BY <1>1, <1>4, <1>5, <1>6, <1>7 DEF IInv

\* A task that stays in the middle of its hold, whatever it does to its request
\* and to the session, keeps the invariant.
LEMMA InsideHoldKeepsIInv ==
    ASSUME IInv, NEW t \in Task, pc[t] = "run",
           req' \in [Task -> Request \cup {"none"}],
           wire' \in [Task -> {"none", "connect", "request"}],
           left' \in [Task -> Nat],
           again' \in [Task -> BOOLEAN],
           \A u \in Task \ {t} : req'[u] = req[u] /\ wire'[u] = wire[u] /\ left'[u] = left[u],
           req'[t] # "none" => left'[t] > 0,
           wire'[t] # "none" => req'[t] # "none",
           link' \in {"down", "up", "suspect"},
           client' \in [Entry -> BOOLEAN],
           reconnect' \in [Entry -> BOOLEAN],
           info' \in [Entry -> BOOLEAN],
           probed' \in [Entry -> BOOLEAN],
           UNCHANGED <<pc, attempt, err, holder, ahead, data, shut, restVars>>
    PROVE  IInv'
PROOF
  <1>1. TypeOK'
    BY DEF IInv, TypeOK, restVars
  <1>2. LockNotLeaked' /\ NobodyRunsInTheRest'
    BY DEF IInv, LockNotLeaked, NobodyRunsInTheRest, Holds, restVars
  <1>3. RequestsOfTheHold'
    BY DEF IInv, RequestsOfTheHold
  <1>4. \A u \in Write : pc[u] # "close"
    BY ConstantTypes DEF IInv, LockNotLeaked, Holds
  <1>5. WriteRestsAtOnce'
    BY <1>4 DEF WriteRestsAtOnce
  <1> QED BY <1>1, <1>2, <1>3, <1>5 DEF IInv

\* A task that ends its hold and lets go of the lock keeps the invariant.
LEMMA EndOfHoldKeepsIInv ==
    ASSUME IInv, NEW t \in Task, Holds(t), wire[t] = "none",
           NEW p \in {"idle", "sleep"}, pc' = [pc EXCEPT ![t] = p],
           holder' = None,
           err' = [err EXCEPT ![t] = "none"],
           attempt' \in [Task -> {1, 2}],
           rest' \in BOOLEAN,
           link' \in {"down", "up", "suspect"},
           client' \in [Entry -> BOOLEAN],
           reconnect' \in [Entry -> BOOLEAN],
           info' \in [Entry -> BOOLEAN],
           probed' \in [Entry -> BOOLEAN],
           data' \in [Entry -> BOOLEAN],
           UNCHANGED <<left, req, wire, again, ahead, shut, owed>>
    PROVE  IInv'
PROOF
  <1>1. TypeOK'
    BY DEF IInv, TypeOK
  <1>2. \A u \in Task : pc'[u] \notin {"run", "close"}
    BY DEF IInv, TypeOK, LockNotLeaked, Holds
  <1>3. LockNotLeaked' /\ NobodyRunsInTheRest' /\ WriteRestsAtOnce'
    BY <1>2, ConstantTypes DEF LockNotLeaked, NobodyRunsInTheRest, WriteRestsAtOnce, Holds
  <1>4. \A u \in Task : wire[u] = "none" /\ (u # t => err[u] = "none")
    BY DEF IInv, LockNotLeaked, RequestsOfTheHold, Holds
  <1>5. RequestsOfTheHold'
    BY <1>2, <1>4 DEF IInv, TypeOK, RequestsOfTheHold
  <1> QED BY <1>1, <1>3, <1>5 DEF IInv

-----------------------------------------------------------------------------
\* Every action keeps the invariant: those of a task by what they do to its
\* hold, the others because they do nothing to any.
LEMMA StepKeepsIInv == IInv /\ [Next]_vars => IInv'
PROOF
  <1> SUFFICES ASSUME IInv, [Next]_vars PROVE IInv'
    OBVIOUS
  <1> USE DEF lockVars, sessionVars, entryVars, restVars
  <1>1. ASSUME NEW t \in Task, Refresh(t) \/ StartWrite(t) \/ Retry(t) PROVE IInv'
    <2>1. ahead' \in [Task -> SUBSET Task] /\ attempt' \in [Task -> {1, 2}]
      BY <1>1 DEF Refresh, StartWrite, Retry, Enqueue, Waiting, IInv, TypeOK
    <2> QED BY <1>1, <2>1, OutsideHoldKeepsIInv
            DEF Refresh, StartWrite, Retry, IInv, TypeOK, taskVars
  <1>2. ASSUME NEW t \in Task, WriteLockTimeout(t) \/ RefusedByRest(t) \/ RetryRefusedByRest(t)
        PROVE  IInv'
    <2>1. ahead' \in [Task -> SUBSET Task] /\ attempt' \in [Task -> {1, 2}]
      BY <1>2 DEF WriteLockTimeout, RefusedByRest, RetryRefusedByRest, Dequeue, ToIdle, IInv, TypeOK
    <2>2. /\ client' \in [Entry -> BOOLEAN] /\ reconnect' \in [Entry -> BOOLEAN]
          /\ link' \in {"down", "up", "suspect"}
      BY <1>2 DEF WriteLockTimeout, RefusedByRest, RetryRefusedByRest, CloseClient, IInv, TypeOK
    <2>3. pc[t] = "wait" /\ pc' = [pc EXCEPT ![t] = "idle"]
      BY <1>2 DEF WriteLockTimeout, RefusedByRest, RetryRefusedByRest, FirstInLine, ToIdle
    <2> QED BY <1>2, <2>1, <2>2, <2>3, OutsideHoldKeepsIInv
            DEF WriteLockTimeout, RefusedByRest, RetryRefusedByRest
  <1>3. ASSUME NEW t \in Task, Acquire(t) PROVE IInv'
    <2>1. TypeOK'
      BY <1>3, ConstantTypes DEF Acquire, Dequeue, IInv, TypeOK
    <2>2. /\ holder' = t
          /\ \A u \in Task : ~Holds(u) /\ pc'[u] = IF u = t THEN "run" ELSE pc[u]
      BY <1>3, ConstantTypes DEF Acquire, FirstInLine, IInv, TypeOK, LockNotLeaked
    <2>3. LockNotLeaked'
      BY <2>2 DEF LockNotLeaked, Holds
    <2>4. \A u \in Task : left'[u] = (IF u = t THEN Work(t) ELSE left[u])
      BY <1>3 DEF Acquire, IInv, TypeOK
    <2>5. \A u \in Task : err[u] = "none"
      BY <2>2 DEF IInv, RequestsOfTheHold, Holds
    <2>6. RequestsOfTheHold'
      BY <1>3, <2>2, <2>4, <2>5, ConstantTypes DEF Acquire, IInv, RequestsOfTheHold, Holds
    <2>7. NobodyRunsInTheRest' /\ WriteRestsAtOnce'
      BY <1>3, <2>2, ConstantTypes DEF Acquire, NobodyRunsInTheRest, WriteRestsAtOnce, Holds
    <2> QED BY <2>1, <2>3, <2>6, <2>7 DEF IInv
  <1>4. ASSUME NEW t \in Task, BeginOnShutClient(t) PROVE IInv'
    BY <1>4, RaiseKeepsIInv DEF BeginOnShutClient, HasNext, IInv, TypeOK
  <1>5. ASSUME NEW t \in Task, Begin(t) PROVE IInv'
    <2>1. NextRequest(t) \in Request
      BY DEF NextRequest, Request, Reading
    <2>2. pc[t] = "run" /\ left[t] > 0
      BY <1>5 DEF Begin, HasNext
    <2>3. /\ req' \in [Task -> Request \cup {"none"}]
          /\ wire' \in [Task -> {"none", "connect", "request"}]
          /\ link' \in {"down", "up", "suspect"}
          /\ client' \in [Entry -> BOOLEAN] /\ reconnect' \in [Entry -> BOOLEAN]
          /\ probed' \in [Entry -> BOOLEAN]
      BY <1>5, <2>1 DEF Begin, OnWire, IInv, TypeOK
    <2>4. \A u \in Task \ {t} : req'[u] = req[u] /\ wire'[u] = wire[u] /\ left'[u] = left[u]
      BY <1>5 DEF Begin, IInv, TypeOK
    <2>5. req'[t] # "none" /\ left'[t] > 0
      BY <1>5, <2>1, <2>2 DEF Begin, IInv, TypeOK, Request, Reading
    <2>6. /\ left' \in [Task -> Nat] /\ again' \in [Task -> BOOLEAN]
          /\ info' \in [Entry -> BOOLEAN]
          /\ UNCHANGED <<pc, attempt, err, holder, ahead, data, shut, restVars>>
      BY <1>5 DEF Begin, IInv, TypeOK
    <2> QED BY <2>2, <2>3, <2>4, <2>5, <2>6, InsideHoldKeepsIInv
  <1>6. ASSUME NEW t \in Task, SkipRawBlock(t) PROVE IInv'
    <2>1. pc[t] = "run" /\ req[t] = "none" /\ wire[t] = "none"
      BY <1>6 DEF SkipRawBlock, HasNext, IInv, TypeOK, RequestsOfTheHold
    <2>2. left' \in [Task -> Nat] /\ \A u \in Task \ {t} : left'[u] = left[u]
      BY <1>6 DEF SkipRawBlock, IInv, TypeOK
    <2>3. UNCHANGED <<pc, attempt, req, wire, again, err, lockVars, sessionVars, entryVars, restVars>>
      BY <1>6 DEF SkipRawBlock
    <2> QED BY <2>1, <2>2, <2>3, InsideHoldKeepsIInv DEF IInv, TypeOK
  <1>7. ASSUME NEW t \in Task, LinkReopens(t) PROVE IInv'
    BY <1>7, InsideHoldKeepsIInv
       DEF LinkReopens, taskVars, IInv, TypeOK, RequestsOfTheHold
  <1>8. ASSUME NEW t \in Task, Connected(t) \/ HangUp(t) PROVE IInv'
    <2>1. pc[t] = "run"
      BY <1>8 DEF Connected, HangUp, IInv, RequestsOfTheHold
    <2>2. /\ wire' \in [Task -> {"none", "connect", "request"}]
          /\ again' \in [Task -> BOOLEAN]
          /\ client' \in [Entry -> BOOLEAN] /\ reconnect' \in [Entry -> BOOLEAN]
          /\ link' \in {"down", "up", "suspect"}
      <3>1. CASE Connected(t)
        BY <3>1 DEF Connected, IInv, TypeOK
      <3>2. CASE HangUp(t)
        BY <3>2 DEF HangUp, IInv, TypeOK
      <3> QED BY <1>8, <3>1, <3>2
    <2>3. \A u \in Task \ {t} : wire'[u] = wire[u]
      BY <1>8 DEF Connected, HangUp, IInv, TypeOK
    <2>4. UNCHANGED <<pc, attempt, left, req, err, holder, ahead, entryVars, restVars>>
      BY <1>8 DEF Connected, HangUp
    <2>5. req[t] # "none" /\ left[t] > 0
      BY <1>8 DEF Connected, HangUp, IInv, RequestsOfTheHold
    <2> QED BY <2>1, <2>2, <2>3, <2>4, <2>5, InsideHoldKeepsIInv DEF IInv, TypeOK
  <1>9. ASSUME NEW t \in Task, ConnectFails(t) PROVE IInv'
    <2>1. PICK error \in {"unanswered", "answered"} :
             Raise(t, req[t], error, FALSE) /\ owed' = (owed \/ RestsAfter(EntryOf[t], error))
      BY <1>9 DEF ConnectFails
    <2>2. pc[t] = "run" /\ owed' \in BOOLEAN
      BY <1>9, <2>1 DEF ConnectFails, IInv, RequestsOfTheHold, TypeOK, RestsAfter, LinkProfileKnown
    <2> QED BY <1>9, <2>1, <2>2, RaiseKeepsIInv DEF ConnectFails, IInv, TypeOK
  <1>10. ASSUME NEW t \in Task, Answered(t) PROVE IInv'
    <2>1. pc[t] = "run" /\ left[t] \in Nat /\ left[t] > 0
      BY <1>10 DEF Answered, IInv, RequestsOfTheHold, TypeOK
    <2>2. left' \in [Task -> Nat]
      BY <1>10, <2>1 DEF Answered, IInv, TypeOK
    <2>3. /\ req' \in [Task -> Request \cup {"none"}] /\ req'[t] = "none"
          /\ wire' \in [Task -> {"none", "connect", "request"}]
          /\ again' \in [Task -> BOOLEAN] /\ info' \in [Entry -> BOOLEAN]
      BY <1>10 DEF Answered, IInv, TypeOK
    <2>4. \A u \in Task \ {t} : req'[u] = req[u] /\ wire'[u] = wire[u] /\ left'[u] = left[u]
      BY <1>10 DEF Answered, IInv, TypeOK
    <2> QED BY <1>10, <2>1, <2>2, <2>3, <2>4, InsideHoldKeepsIInv DEF Answered, IInv, TypeOK
  <1>11. ASSUME NEW t \in Task, Refused(t) \/ LinkLost(t) \/ AnswerRejected(t) PROVE IInv'
    <2>1. pc[t] = "run"
      BY <1>11 DEF Refused, LinkLost, AnswerRejected, IInv, RequestsOfTheHold
    <2>2. \E transient \in BOOLEAN : Raise(t, req[t], "answered", transient)
      BY <1>11 DEF Refused, LinkLost, AnswerRejected
    <2>3. /\ client' \in [Entry -> BOOLEAN] /\ reconnect' \in [Entry -> BOOLEAN]
          /\ info' \in [Entry -> BOOLEAN] /\ probed' \in [Entry -> BOOLEAN]
          /\ link' \in {"down", "up", "suspect"} /\ owed' \in BOOLEAN
      BY <1>11 DEF Refused, LinkLost, AnswerRejected, IInv, TypeOK
    <2>4. UNCHANGED <<attempt, holder, ahead, data, shut>>
      BY <1>11 DEF Refused, LinkLost, AnswerRejected
    <2> QED BY <2>1, <2>2, <2>3, <2>4, RaiseKeepsIInv
  <1>12. ASSUME NEW t \in Task, Unanswered(t) PROVE IInv'
    <2>1. pc[t] = "run" /\ owed' \in BOOLEAN
      BY <1>12 DEF Unanswered, IInv, RequestsOfTheHold, TypeOK, RestsAfter, LinkProfileKnown
    <2> QED BY <1>12, <2>1, RaiseKeepsIInv DEF Unanswered, IInv, TypeOK
  <1>13. ASSUME NEW t \in Task,
                Finish(t) \/ CloseWrite(t) \/ CloseAndSleep(t) \/ CloseAndFail(t)
         PROVE  IInv'
    <2>1. Holds(t) /\ wire[t] = "none"
      BY <1>13 DEF Finish, CloseWrite, CloseAndSleep, CloseAndFail, Holds,
                   IInv, RequestsOfTheHold, TypeOK
    <2>2. \E p \in {"idle", "sleep"} : pc' = [pc EXCEPT ![t] = p]
      BY <1>13 DEF Finish, CloseWrite, CloseAndSleep, CloseAndFail, ToIdle
    <2>3. holder' = None /\ attempt' \in [Task -> {1, 2}]
      BY <1>13 DEF Finish, CloseWrite, CloseAndSleep, CloseAndFail, ToIdle, IInv, TypeOK
    <2>4. err' = [err EXCEPT ![t] = "none"]
      <3>1. Finish(t) => err[t] = "none"
        BY DEF Finish, IInv, RequestsOfTheHold
      <3> QED BY <1>13, <3>1 DEF Finish, CloseWrite, CloseAndSleep, CloseAndFail, IInv, TypeOK
    <2>5. /\ link' \in {"down", "up", "suspect"}
          /\ client' \in [Entry -> BOOLEAN] /\ reconnect' \in [Entry -> BOOLEAN]
      BY <1>13 DEF Finish, CloseWrite, CloseAndSleep, CloseAndFail, CloseClient, IInv, TypeOK
    <2>6. /\ info' \in [Entry -> BOOLEAN] /\ probed' \in [Entry -> BOOLEAN]
          /\ data' \in [Entry -> BOOLEAN] /\ rest' \in BOOLEAN
      BY <1>13 DEF Finish, CloseWrite, CloseAndSleep, CloseAndFail, IInv, TypeOK,
                   RestsAfter, LinkProfileKnown
    <2>7. UNCHANGED <<left, req, wire, again, ahead, shut, owed>>
      BY <1>13 DEF Finish, CloseWrite, CloseAndSleep, CloseAndFail
    <2> QED BY <2>1, <2>2, <2>3, <2>4, <2>5, <2>6, <2>7, EndOfHoldKeepsIInv
  <1>14. ASSUME NEW e \in Entry, Unload(e) PROVE IInv'
    <2>1. TypeOK'
      BY <1>14 DEF Unload, CloseClient, taskVars, IInv, TypeOK
    <2> QED BY <1>14, <2>1
            DEF Unload, taskVars, IInv, LockNotLeaked, Holds, RequestsOfTheHold,
                NobodyRunsInTheRest, WriteRestsAtOnce, RestsAfter, LinkProfileKnown
  <1>15. ASSUME RestEnds \/ GatewayDone PROVE IInv'
    <2>1. TypeOK'
      BY <1>15 DEF RestEnds, GatewayDone, taskVars, IInv, TypeOK
    <2> QED BY <1>15, <2>1, ConstantTypes
            DEF RestEnds, GatewayDone, taskVars, IInv, LockNotLeaked, Holds, RequestsOfTheHold,
                NobodyRunsInTheRest, WriteRestsAtOnce, RestsAfter, LinkProfileKnown
  <1>16. CASE UNCHANGED vars
    BY <1>16 DEF vars, taskVars, IInv, TypeOK, LockNotLeaked, Holds, RequestsOfTheHold,
                 NobodyRunsInTheRest, WriteRestsAtOnce, RestsAfter, LinkProfileKnown
  <1> QED
    BY <1>1, <1>2, <1>3, <1>4, <1>5, <1>6, <1>7, <1>8, <1>9, <1>10, <1>11, <1>12, <1>13,
       <1>14, <1>15, <1>16 DEF Next, Progress

\* The invariant holds in every state of every run.
THEOREM InductiveInvariant == Spec => []IInv
PROOF
  <1> QED BY Initially, StepKeepsIInv, PTL DEF Spec

-----------------------------------------------------------------------------
\* Every variable keeps its type (the state of coordinator, lock and client).
THEOREM TypesHold == Spec => []TypeOK
PROOF
  <1>1. IInv => TypeOK
    BY DEF IInv
  <1> QED BY <1>1, InductiveInvariant, PTL

\* No path out of a poll, a retry or a write leaves the gateway lock taken.
THEOREM LockIsNeverLeaked == Spec => []LockNotLeaked
PROOF
  <1>1. IInv => LockNotLeaked
    BY DEF IInv
  <1> QED BY <1>1, InductiveInvariant, PTL

\* A cycle and a plan are one piece on the wire, for any number of entries.
THEOREM OneConversationAtATime == Spec => []OneConversation
PROOF
  <1>1. IInv => OneConversation
    BY DEF IInv, LockNotLeaked, RequestsOfTheHold, OneConversation, Holds
  <1> QED BY <1>1, InductiveInvariant, PTL

\* Nothing is on the wire to a gateway that rests, whichever entry asks.
THEOREM NothingSentInTheRest == Spec => []QuietWhileResting
PROOF
  <1>1. IInv => QuietWhileResting
    BY DEF IInv, TypeOK, NobodyRunsInTheRest, RequestsOfTheHold, QuietWhileResting
  <1> QED BY <1>1, InductiveInvariant, PTL

-----------------------------------------------------------------------------
\* A hold that ends on an unanswered request has started the rest before the
\* lock is free. Only four actions give the lock back: the one that succeeds
\* has no error, the one that sleeps and retries is not taken after such an
\* error, a write started the rest with the error, a failed cycle starts it
\* in the same step.
THEOREM RestBeginsUnderTheLock == Spec => RestBeforeTheLockIsFree
PROOF
  <1> DEFINE Rested(t) ==
        /\ holder = t /\ holder' # t
        /\ RestsAfter(EntryOf[t], err[t]) /\ ~shut[EntryOf[t]]
        => rest'
  <1>1. IInv /\ [Next]_vars => [\A t \in Task : Rested(t)]_vars
    <2> SUFFICES ASSUME IInv, [Next]_vars, NEW t \in Task,
                        holder = t, holder' # t,
                        RestsAfter(EntryOf[t], err[t]), ~shut[EntryOf[t]]
                 PROVE  rest'
      OBVIOUS
    <2>1. PICK u \in Task : Finish(u) \/ CloseWrite(u) \/ CloseAndSleep(u) \/ CloseAndFail(u)
                            \/ Acquire(u)
      <3> USE DEF lockVars
      <3>1. Next
        BY DEF vars
      <3>2. \A v \in Task :
               Refresh(v) \/ StartWrite(v) \/ WriteLockTimeout(v) \/ RefusedByRest(v)
               \/ RetryRefusedByRest(v) \/ Retry(v) => holder' = holder
        BY DEF Refresh, StartWrite, WriteLockTimeout, RefusedByRest, RetryRefusedByRest, Retry
      <3>3. \A v \in Task :
               BeginOnShutClient(v) \/ Begin(v) \/ SkipRawBlock(v) \/ LinkReopens(v)
               \/ Connected(v) \/ ConnectFails(v) \/ Answered(v) \/ Refused(v)
               \/ AnswerRejected(v) \/ Unanswered(v) \/ HangUp(v) \/ LinkLost(v)
               => holder' = holder
        BY DEF BeginOnShutClient, Begin, SkipRawBlock, LinkReopens, Connected, ConnectFails,
               Answered, Refused, AnswerRejected, Unanswered, HangUp, LinkLost
      <3>4. (\E e \in Entry : Unload(e)) \/ RestEnds \/ GatewayDone => holder' = holder
        BY DEF Unload, RestEnds, GatewayDone
      <3> QED BY <3>1, <3>2, <3>3, <3>4 DEF Next, Progress
    <2>2. err[t] # "none" /\ pc[t] = "close"
      BY DEF RestsAfter, IInv, RequestsOfTheHold
    <2>3. u = t
      BY <2>1, ConstantTypes
         DEF Finish, CloseWrite, CloseAndSleep, CloseAndFail, Acquire, FirstInLine,
             IInv, LockNotLeaked, Holds
    <2>4. ~Finish(u) /\ ~Acquire(u) /\ ~CloseAndSleep(u)
      BY <2>2, <2>3 DEF Finish, Acquire, FirstInLine, CloseAndSleep
    <2>5. CASE CloseWrite(u)
      BY <2>5, <2>2, <2>3 DEF CloseWrite, IInv, WriteRestsAtOnce, restVars
    <2>6. CASE CloseAndFail(u)
      BY <2>6, <2>3 DEF CloseAndFail, IInv, TypeOK
    <2> QED BY <2>1, <2>4, <2>5, <2>6
  <1> QED BY <1>1, InductiveInvariant, PTL DEF Spec, RestBeforeTheLockIsFree

-----------------------------------------------------------------------------
\* A step that touches neither the lock nor the rest, nor who runs, is a
\* stutter for the gateway.
LEMMA SameConversation ==
    ASSUME IInv, UNCHANGED <<holder, rest>>,
           \A t \in Task : pc'[t] = "run" <=> pc[t] = "run"
    PROVE  UNCHANGED Conversation!vars
PROOF
  BY DEF IInv, TypeOK, Conversation!vars, Talker

\* A hold that fails or swallows an exception is the end of the conversation,
\* with or without a rest, or goes on with it.
LEMMA RaiseEndsConversation ==
    ASSUME IInv, NEW t \in Task, NEW request, NEW error, NEW transient,
           pc[t] = "run", Raise(t, request, error, transient), holder' = holder
    PROVE  Conversation!Stop \/ UNCHANGED Conversation!vars
PROOF
  <1>1. holder = t /\ Talker = t /\ t # None
    BY ConstantTypes DEF IInv, LockNotLeaked, Holds, Talker
  <1>2. CASE Swallowed(request, transient)
    BY <1>2, SameConversation DEF Raise
  <1>3. CASE ~Swallowed(request, transient)
    <2>1. pc'[t] = "close" /\ rest' \in {rest, TRUE}
      BY <1>3 DEF Raise, Fail, RestsAfter, LinkProfileKnown, IInv, TypeOK
    <2>2. Talker' = None
      BY <1>1, <2>1 DEF Talker
    <2> QED BY <1>1, <2>1, <2>2 DEF Conversation!Stop
  <1> QED BY <1>2, <1>3

\* Closing a failed session happens after the conversation.
LEMMA CloseIsAfterConversation ==
    ASSUME IInv, NEW t \in Task, pc[t] = "close", holder' = None, rest' \in {rest, TRUE}
    PROVE  [Conversation!Next]_(Conversation!vars)
PROOF
  <1>1. Talker = None /\ Talker' = None
    BY DEF IInv, LockNotLeaked, Holds, Talker
  <1>2. rest \in BOOLEAN
    BY DEF IInv, TypeOK
  <1>3. CASE rest' = rest
    BY <1>1, <1>3 DEF Conversation!vars
  <1>4. CASE ~rest /\ rest' = TRUE
    BY <1>1, <1>4 DEF Conversation!Next, Conversation!GoQuiet
  <1> QED BY <1>2, <1>3, <1>4

\* Every entry, poll and write together behave towards the gateway as one
\* talker at a time that falls silent for the rest.
THEOREM ImplementsExclusiveGateway == Spec => OneTalkerAndRest
PROOF
  <1>1. Init => Conversation!Init
    BY DEF Init, Conversation!Init, Talker
  <1>2. IInv /\ [Next]_vars => [Conversation!Next]_(Conversation!vars)
    <2> SUFFICES ASSUME IInv, [Next]_vars PROVE [Conversation!Next]_(Conversation!vars)
      OBVIOUS
    <2> USE DEF lockVars, sessionVars, entryVars, restVars
    <2>1. ASSUME NEW t \in Task,
                 Refresh(t) \/ StartWrite(t) \/ WriteLockTimeout(t) \/ RefusedByRest(t)
                 \/ RetryRefusedByRest(t) \/ Retry(t)
          PROVE  UNCHANGED Conversation!vars
      <3>1. UNCHANGED <<holder, rest>>
        BY <2>1 DEF Refresh, StartWrite, WriteLockTimeout, RefusedByRest, RetryRefusedByRest, Retry
      <3>2. pc[t] # "run" /\ \E p \in {"idle", "wait"} : pc' = [pc EXCEPT ![t] = p]
        BY <2>1 DEF Refresh, StartWrite, WriteLockTimeout, RefusedByRest, RetryRefusedByRest,
                    Retry, FirstInLine, ToIdle
      <3>3. \A u \in Task : pc'[u] = "run" <=> pc[u] = "run"
        BY <3>2 DEF IInv, TypeOK
      <3> QED BY <3>1, <3>3, SameConversation
    <2>2. ASSUME NEW t \in Task, Acquire(t) PROVE Conversation!Next
      <3>1. Talker = None /\ ~rest /\ rest' = rest
        BY <2>2 DEF Acquire, FirstInLine, Talker
      <3>2. Talker' = t
        BY <2>2, ConstantTypes DEF Acquire, Talker, IInv, TypeOK
      <3> QED BY <3>1, <3>2 DEF Conversation!Next, Conversation!Start
    <2>3. ASSUME NEW t \in Task,
                 Begin(t) \/ SkipRawBlock(t) \/ LinkReopens(t) \/ Connected(t) \/ Answered(t)
                 \/ HangUp(t)
          PROVE  UNCHANGED Conversation!vars
      <3>1. UNCHANGED <<pc, holder, rest>>
        BY <2>3 DEF Begin, SkipRawBlock, LinkReopens, Connected, Answered, HangUp, taskVars
      <3> QED BY <3>1, SameConversation
    <2>4. ASSUME NEW t \in Task,
                 BeginOnShutClient(t) \/ ConnectFails(t) \/ Refused(t) \/ AnswerRejected(t)
                 \/ Unanswered(t) \/ LinkLost(t)
          PROVE  Conversation!Stop \/ UNCHANGED Conversation!vars
      <3>1. pc[t] = "run" /\ holder' = holder
        BY <2>4 DEF BeginOnShutClient, HasNext, ConnectFails, Refused, AnswerRejected,
                    Unanswered, LinkLost, IInv, RequestsOfTheHold
      <3>2. \E request, error, transient : Raise(t, request, error, transient)
        BY <2>4 DEF BeginOnShutClient, ConnectFails, Refused, AnswerRejected, Unanswered, LinkLost
      <3> QED BY <3>1, <3>2, RaiseEndsConversation
    <2>5. ASSUME NEW t \in Task, Finish(t) PROVE Conversation!Stop
      <3>1. Talker = t /\ t # None /\ Talker' = None /\ rest' = rest
        BY <2>5, ConstantTypes DEF Finish, Talker, IInv, LockNotLeaked, Holds
      <3> QED BY <3>1 DEF Conversation!Stop
    <2>6. ASSUME NEW t \in Task, CloseWrite(t) \/ CloseAndSleep(t) \/ CloseAndFail(t)
          PROVE  [Conversation!Next]_(Conversation!vars)
      <3>1. pc[t] = "close" /\ holder' = None /\ rest' \in {rest, TRUE}
        BY <2>6 DEF CloseWrite, CloseAndSleep, CloseAndFail, RestsAfter, LinkProfileKnown,
                    IInv, TypeOK
      <3> QED BY <3>1, CloseIsAfterConversation
    <2>7. ASSUME NEW e \in Entry, Unload(e) PROVE UNCHANGED Conversation!vars
      BY <2>7, SameConversation DEF Unload, taskVars
    <2>8. ASSUME RestEnds PROVE Conversation!Next
      <3>1. rest /\ rest' = FALSE /\ Talker' = Talker
        BY <2>8 DEF RestEnds, taskVars, Talker
      <3> QED BY <3>1 DEF Conversation!Next, Conversation!Wake
    <2>9. ASSUME GatewayDone \/ UNCHANGED vars PROVE UNCHANGED Conversation!vars
      BY <2>9, SameConversation DEF GatewayDone, vars, taskVars
    <2> QED
      BY <2>1, <2>2, <2>3, <2>4, <2>5, <2>6, <2>7, <2>8, <2>9
         DEF Next, Progress, Conversation!Next
  <1> QED BY <1>1, <1>2, InductiveInvariant, PTL DEF Spec, OneTalkerAndRest, Conversation!Spec

-----------------------------------------------------------------------------
(***************************************************************************)
(* Sessions. SessionInv is inductive under IInv: a request is made on a    *)
(* client, and what is left of it when the hold fails can be closed.       *)
(***************************************************************************)
\* While a task is in its hold no other one has a request or a close.
LEMMA OthersAreOutside ==
    ASSUME IInv, NEW t \in Task, Holds(t)
    PROVE  \A u \in Task \ {t} : pc[u] \notin {"run", "close"} /\ wire[u] = "none"
PROOF
  BY DEF IInv, LockNotLeaked, RequestsOfTheHold, Holds

\* A task in the middle of its hold that goes on with it keeps the sessions
\* right when its own request has a client.
LEMMA RunningKeepsSessionInv ==
    ASSUME IInv, NEW t \in Task, pc[t] = "run",
           \A u \in Task \ {t} : wire'[u] = wire[u],
           UNCHANGED <<pc, shut>>,
           wire'[t] = "request" /\ ~shut[EntryOf[t]] => client'[EntryOf[t]]
    PROVE  SessionInv'
PROOF
  <1>1. \A u \in Task \ {t} : pc[u] \notin {"run", "close"} /\ wire[u] = "none"
    BY OthersAreOutside DEF Holds
  <1> QED BY <1>1 DEF SessionInv, RequestsHaveAClient, SuspectLinkCanBeClosed

\* A hold that fails keeps them when an unanswered request leaves a client.
LEMMA RaiseKeepsSessionInv ==
    ASSUME IInv, NEW t \in Task, NEW request, NEW error, NEW transient,
           pc[t] = "run", Raise(t, request, error, transient), shut' = shut,
           error = "unanswered" /\ ~shut[EntryOf[t]]
           => client'[EntryOf[t]] \/ link' # "suspect"
    PROVE  SessionInv'
PROOF
  <1>1. \A u \in Task \ {t} : pc[u] \notin {"run", "close"} /\ wire[u] = "none"
    BY OthersAreOutside DEF Holds
  <1>2. \A u \in Task : wire'[u] = "none"
    BY <1>1 DEF Raise, IInv, TypeOK
  <1>3. \A u \in Task \ {t} : pc'[u] # "close"
    BY <1>1 DEF Raise, Fail, IInv, TypeOK
  <1>4. pc'[t] = "close" => err'[t] = error
    BY DEF Raise, Fail, IInv, TypeOK
  <1> QED BY <1>2, <1>3, <1>4 DEF SessionInv, RequestsHaveAClient, SuspectLinkCanBeClosed

\* Every action keeps the sessions right.
LEMMA StepKeepsSessionInv == IInv /\ SessionInv /\ [Next]_vars => SessionInv'
PROOF
  <1> SUFFICES ASSUME IInv, SessionInv, [Next]_vars PROVE SessionInv'
    OBVIOUS
  <1> USE DEF lockVars, sessionVars, entryVars, restVars
  <1>1. ASSUME NEW t \in Task,
               Refresh(t) \/ StartWrite(t) \/ Retry(t) \/ WriteLockTimeout(t)
               \/ RefusedByRest(t) \/ Acquire(t)
        PROVE  SessionInv'
    <2>1. \E p \in {"wait", "idle", "run"} : pc' = [pc EXCEPT ![t] = p]
      BY <1>1 DEF Refresh, StartWrite, Retry, WriteLockTimeout, RefusedByRest, Acquire, ToIdle
    <2>2. UNCHANGED <<wire, err, link, client, shut>>
      BY <1>1 DEF Refresh, StartWrite, Retry, WriteLockTimeout, RefusedByRest, Acquire
    <2>3. \A u \in Task : pc'[u] = "close" => pc[u] = "close"
      BY <2>1 DEF IInv, TypeOK
    <2> QED BY <2>2, <2>3 DEF SessionInv, RequestsHaveAClient, SuspectLinkCanBeClosed
  <1>2. ASSUME NEW t \in Task, RetryRefusedByRest(t) PROVE SessionInv'
    <2>1. \A u \in Task : wire[u] = "none"
      BY <1>2 DEF RetryRefusedByRest, IInv, TypeOK, NobodyRunsInTheRest, RequestsOfTheHold
    <2>2. UNCHANGED <<wire, err, shut>>
      BY <1>2 DEF RetryRefusedByRest
    <2>3. \A u \in Task : pc'[u] = "close" => pc[u] = "close"
      BY <1>2 DEF RetryRefusedByRest, ToIdle, IInv, TypeOK
    <2>4. \A u \in Task : client[EntryOf[u]] \/ link # "suspect"
                          => client'[EntryOf[u]] \/ link' # "suspect"
      BY <1>2, ConstantTypes DEF RetryRefusedByRest, CloseClient, IInv, TypeOK
    <2> QED BY <2>1, <2>2, <2>3, <2>4
            DEF SessionInv, RequestsHaveAClient, SuspectLinkCanBeClosed
  <1>3. ASSUME NEW t \in Task, Begin(t) PROVE SessionInv'
    <2>1. pc[t] = "run" /\ UNCHANGED <<pc, shut>>
      BY <1>3 DEF Begin, HasNext
    <2>2. \A u \in Task \ {t} : wire'[u] = wire[u]
      BY <1>3 DEF Begin, IInv, TypeOK
    <2>3. wire[t] = "none"
      BY <1>3 DEF Begin, HasNext, IInv, TypeOK, RequestsOfTheHold
    <2>4. wire'[t] = "request" => client'[EntryOf[t]]
      BY <1>3, <2>3, ConstantTypes DEF Begin, IInv, TypeOK
    <2> QED BY <2>1, <2>2, <2>4, RunningKeepsSessionInv
  <1>4. ASSUME NEW t \in Task,
               SkipRawBlock(t) \/ LinkReopens(t) \/ Connected(t) \/ Answered(t) \/ HangUp(t)
        PROVE  SessionInv'
    <2>1. pc[t] = "run" /\ UNCHANGED <<pc, shut>>
      BY <1>4 DEF SkipRawBlock, HasNext, LinkReopens, Connected, Answered, HangUp, taskVars,
                  IInv, RequestsOfTheHold
    <2>2. \A u \in Task \ {t} : wire'[u] = wire[u]
      BY <1>4 DEF SkipRawBlock, LinkReopens, Connected, Answered, HangUp, taskVars, IInv, TypeOK
    <2>3. CASE Connected(t)
      <3>1. client'[EntryOf[t]]
        BY <2>3, ConstantTypes DEF Connected, IInv, TypeOK
      <3> QED BY <2>1, <2>2, <3>1, RunningKeepsSessionInv
    <2>4. CASE Answered(t) \/ HangUp(t)
      <3>1. wire'[t] # "request"
        BY <2>4 DEF Answered, HangUp, IInv, TypeOK
      <3> QED BY <2>1, <2>2, <3>1, RunningKeepsSessionInv
    <2>5. CASE SkipRawBlock(t) \/ LinkReopens(t)
      <3>1. UNCHANGED <<wire, client>>
        BY <2>5 DEF SkipRawBlock, LinkReopens, taskVars
      <3> QED BY <2>1, <3>1, RunningKeepsSessionInv DEF SessionInv, RequestsHaveAClient
    <2> QED BY <1>4, <2>3, <2>4, <2>5
  <1>5. ASSUME NEW t \in Task,
               BeginOnShutClient(t) \/ Refused(t) \/ AnswerRejected(t) \/ LinkLost(t)
        PROVE  SessionInv'
    <2>1. pc[t] = "run" /\ shut' = shut
      BY <1>5 DEF BeginOnShutClient, HasNext, Refused, AnswerRejected, LinkLost,
                  IInv, RequestsOfTheHold
    <2>2. \E request, transient : Raise(t, request, "answered", transient)
      BY <1>5 DEF BeginOnShutClient, Refused, AnswerRejected, LinkLost
    <2> QED BY <2>1, <2>2, RaiseKeepsSessionInv
  <1>6. ASSUME NEW t \in Task, ConnectFails(t) PROVE SessionInv'
    <2>1. pc[t] = "run" /\ shut' = shut /\ link' = "down"
      BY <1>6 DEF ConnectFails, IInv, RequestsOfTheHold
    <2>2. \E error : Raise(t, req[t], error, FALSE)
      BY <1>6 DEF ConnectFails
    <2> QED BY <2>1, <2>2, RaiseKeepsSessionInv
  <1>7. ASSUME NEW t \in Task, Unanswered(t) PROVE SessionInv'
    <2>1. pc[t] = "run" /\ UNCHANGED <<shut, client>>
      BY <1>7 DEF Unanswered, IInv, RequestsOfTheHold
    <2>2. ~shut[EntryOf[t]] => client[EntryOf[t]]
      BY <1>7 DEF Unanswered, SessionInv, RequestsHaveAClient
    <2>3. Raise(t, req[t], "unanswered", TRUE)
      BY <1>7 DEF Unanswered
    <2> QED BY <2>1, <2>2, <2>3, RaiseKeepsSessionInv
  <1>8. ASSUME NEW t \in Task,
               Finish(t) \/ CloseWrite(t) \/ CloseAndSleep(t) \/ CloseAndFail(t)
        PROVE  SessionInv'
    <2>1. Holds(t) /\ wire[t] = "none" /\ wire' = wire
      BY <1>8 DEF Finish, CloseWrite, CloseAndSleep, CloseAndFail, Holds,
                  IInv, TypeOK, RequestsOfTheHold
    <2>2. \E p \in {"idle", "sleep"} : pc' = [pc EXCEPT ![t] = p]
      BY <1>8 DEF Finish, CloseWrite, CloseAndSleep, CloseAndFail, ToIdle
    <2>3. \A u \in Task : pc'[u] # "close" /\ wire'[u] = "none"
      BY <2>1, <2>2, OthersAreOutside DEF IInv, TypeOK
    <2> QED BY <2>3 DEF SessionInv, RequestsHaveAClient, SuspectLinkCanBeClosed
  <1>9. ASSUME NEW e \in Entry, Unload(e) PROVE SessionInv'
    <2>1. UNCHANGED <<pc, wire, err>>
      BY <1>9 DEF Unload, taskVars
    <2>2. \A u \in Task : ~shut'[EntryOf[u]]
             => ~shut[EntryOf[u]] /\ client'[EntryOf[u]] = client[EntryOf[u]]
      BY <1>9, ConstantTypes DEF Unload, CloseClient, IInv, TypeOK
    <2>3. link' = "suspect" => link = "suspect"
      BY <1>9 DEF Unload, CloseClient
    <2> QED BY <2>1, <2>2, <2>3 DEF SessionInv, RequestsHaveAClient, SuspectLinkCanBeClosed
  <1>10. ASSUME RestEnds \/ GatewayDone \/ UNCHANGED vars PROVE SessionInv'
    BY <1>10 DEF RestEnds, GatewayDone, vars, taskVars,
                 SessionInv, RequestsHaveAClient, SuspectLinkCanBeClosed
  <1> QED
    BY <1>1, <1>2, <1>3, <1>4, <1>5, <1>6, <1>7, <1>8, <1>9, <1>10 DEF Next, Progress

\* In every state a request has its client, and a session that an unanswered
\* request spoilt can still be closed by the hold it failed.
THEOREM SessionsCanBeClosed == Spec => []SessionInv
PROOF
  <1>1. Init => SessionInv
    BY DEF Init, SessionInv, RequestsHaveAClient, SuspectLinkCanBeClosed
  <1> QED BY <1>1, StepKeepsSessionInv, InductiveInvariant, PTL DEF Spec

\* The late answer to a request never meets the next hold: the three actions
\* that end a close all close the client, and there is one.
THEOREM FailedSessionIsDropped == Spec => FailedSessionDropped
PROOF
  <1> DEFINE Dropped(t) ==
        pc[t] = "close" /\ pc'[t] # "close" /\ err[t] = "unanswered" /\ ~shut[EntryOf[t]]
        => link' # "suspect"
  <1>1. IInv /\ SessionInv /\ [Next]_vars => [\A t \in Task : Dropped(t)]_vars
    <2> SUFFICES ASSUME IInv, SessionInv, Next, NEW t \in Task,
                        pc[t] = "close", pc'[t] # "close", err[t] = "unanswered",
                        ~shut[EntryOf[t]]
                 PROVE  link' # "suspect"
      OBVIOUS
    <2> USE DEF lockVars, sessionVars, entryVars, restVars
    <2>1. CloseWrite(t) \/ CloseAndSleep(t) \/ CloseAndFail(t)
      <3>1. ASSUME NEW u \in Task,
                   Refresh(u) \/ StartWrite(u) \/ Retry(u) \/ WriteLockTimeout(u)
                   \/ RefusedByRest(u) \/ RetryRefusedByRest(u) \/ Acquire(u)
            PROVE  pc'[t] = pc[t]
        BY <3>1 DEF Refresh, StartWrite, Retry, WriteLockTimeout, RefusedByRest,
                    RetryRefusedByRest, Acquire, FirstInLine, ToIdle, IInv, TypeOK
      <3>2. ASSUME NEW u \in Task, pc[u] = "run" PROVE FALSE
        BY <3>2, OthersAreOutside DEF Holds
      <3>3. ASSUME NEW u \in Task,
                   BeginOnShutClient(u) \/ Begin(u) \/ SkipRawBlock(u) \/ LinkReopens(u)
                   \/ Connected(u) \/ ConnectFails(u) \/ Answered(u) \/ Refused(u)
                   \/ AnswerRejected(u) \/ Unanswered(u) \/ HangUp(u) \/ LinkLost(u)
                   \/ Finish(u)
            PROVE  pc[u] = "run"
        BY <3>3 DEF BeginOnShutClient, Begin, HasNext, SkipRawBlock, LinkReopens, Connected,
                    ConnectFails, Answered, Refused, AnswerRejected, Unanswered, HangUp,
                    LinkLost, Finish, IInv, RequestsOfTheHold
      <3>4. ASSUME NEW u \in Task, CloseWrite(u) \/ CloseAndSleep(u) \/ CloseAndFail(u)
            PROVE  u = t
        BY <3>4, OthersAreOutside DEF CloseWrite, CloseAndSleep, CloseAndFail, Holds
      <3>5. (\E e \in Entry : Unload(e)) \/ RestEnds \/ GatewayDone => pc' = pc
        BY DEF Unload, RestEnds, GatewayDone, taskVars
      <3> QED BY <3>1, <3>2, <3>3, <3>4, <3>5 DEF Next, Progress
    <2>2. CloseClient(EntryOf[t])
      BY <2>1 DEF CloseWrite, CloseAndSleep, CloseAndFail
    <2>3. client[EntryOf[t]] \/ link # "suspect"
      BY DEF SessionInv, SuspectLinkCanBeClosed
    <2> QED BY <2>2, <2>3 DEF CloseClient
  <1> QED BY <1>1, InductiveInvariant, SessionsCanBeClosed, PTL
          DEF Spec, FailedSessionDropped

\* No poll, retry or write takes the link from under another task's request:
\* who drops it has the lock, or knows from the rest that nobody runs.
THEOREM OthersAreCutByUnloadsOnly == Spec => OnlyAnUnloadCutsOthers
PROOF
  <1> DEFINE Cut(t) ==
        /\ wire[t] = "request" /\ wire'[t] = "request"
        /\ link # "down" /\ link' = "down"
        => \E e \in Entry : ~shut[e] /\ shut'[e]
  <1>1. IInv /\ [Next]_vars => [\A t \in Task : Cut(t)]_vars
    <2> SUFFICES ASSUME IInv, Next, NEW t \in Task,
                        wire[t] = "request", wire'[t] = "request",
                        link # "down", link' = "down"
                 PROVE  \E e \in Entry : ~shut[e] /\ shut'[e]
      OBVIOUS
    <2> USE DEF lockVars, sessionVars, entryVars, restVars
    <2>1. pc[t] = "run" /\ \A u \in Task \ {t} : pc[u] \notin {"run", "close"}
      BY OthersAreOutside DEF Holds, IInv, RequestsOfTheHold
    <2>2. ASSUME NEW u \in Task, RetryRefusedByRest(u) PROVE FALSE
      BY <2>1, <2>2 DEF RetryRefusedByRest, IInv, NobodyRunsInTheRest
    <2>3. ASSUME NEW u \in Task,
                 CloseWrite(u) \/ CloseAndSleep(u) \/ CloseAndFail(u) \/ ConnectFails(u)
                 \/ LinkLost(u) \/ Begin(u)
          PROVE  FALSE
      <3>1. CloseWrite(u) \/ CloseAndSleep(u) \/ CloseAndFail(u) => FALSE
        BY <2>1 DEF CloseWrite, CloseAndSleep, CloseAndFail
      <3>2. ConnectFails(u) \/ LinkLost(u) \/ Begin(u) => u = t
        BY <2>1 DEF ConnectFails, LinkLost, Begin, HasNext, IInv, RequestsOfTheHold
      <3>3. ConnectFails(t) \/ LinkLost(t) => wire'[t] = "none"
        BY DEF ConnectFails, LinkLost, Raise, IInv, TypeOK
      <3>4. ~Begin(t)
        BY DEF Begin, HasNext, IInv, RequestsOfTheHold
      <3> QED BY <2>3, <3>1, <3>2, <3>3, <3>4
    <2>4. ASSUME NEW u \in Task,
                 Refresh(u) \/ StartWrite(u) \/ Retry(u) \/ WriteLockTimeout(u)
                 \/ RefusedByRest(u) \/ Acquire(u) \/ BeginOnShutClient(u) \/ SkipRawBlock(u)
                 \/ LinkReopens(u) \/ Connected(u) \/ Answered(u) \/ Refused(u)
                 \/ AnswerRejected(u) \/ Unanswered(u) \/ HangUp(u) \/ Finish(u)
          PROVE  FALSE
      <3>1. link' = link \/ link' \in {"up", "suspect"}
        BY <2>4 DEF Refresh, StartWrite, Retry, WriteLockTimeout, RefusedByRest, Acquire,
                    BeginOnShutClient, SkipRawBlock, LinkReopens, Connected, Answered, Refused,
                    AnswerRejected, Unanswered, HangUp, Finish
      <3> QED BY <3>1
    <2>5. RestEnds \/ GatewayDone => FALSE
      BY DEF RestEnds, GatewayDone
    <2>6. PICK e \in Entry : Unload(e)
      BY <2>2, <2>3, <2>4, <2>5 DEF Next, Progress
    <2> QED BY <2>6 DEF Unload, IInv, TypeOK
  <1> QED BY <1>1, InductiveInvariant, PTL DEF Spec, OnlyAnUnloadCutsOthers
=============================================================================
