------------------------------- MODULE Gateway -------------------------------
(***************************************************************************)
(* The Modbus gateway as the coordinators of several config entries share  *)
(* it: the per-gateway lock, the gateway's rest after an unanswered        *)
(* request, the poll with its in-cycle retry, the write transaction, the   *)
(* one link every entry's client talks over, and the unload of an entry.   *)
(*                                                                         *)
(* One step is what the event loop runs between two suspension points. A   *)
(* reload of an entry builds a new coordinator and a new client, so an     *)
(* element of Entry stands for one coordinator from setup to unload, and   *)
(* the reloaded entry is another element.                                  *)
(***************************************************************************)
EXTENDS Integers, FiniteSets

CONSTANTS
    Entry,      \* the coordinators behind one (host, port)
    Poll,       \* refreshes: the scheduled one, the one a write asks for
    Write,      \* write transactions started by entities and services
    EntryOf,    \* the coordinator each of them belongs to
    Round,      \* coordinators whose profile names a collection round
    Raw,        \* coordinators whose profile has a raw block to read
    Stored,     \* coordinators that start with a persisted identity
    Unloads,    \* bound: coordinators that an instance lets be unloaded
    Reads,      \* bound: model reads of one cycle
    Steps,      \* bound: steps of one write plan
    None        \* nobody holds the lock

Task == Poll \cup Write

ASSUME NobodyIsNoTask == None \notin Task
ASSUME TasksApart == Poll \cap Write = {}
ASSUME TasksOwned == EntryOf \in [Task -> Entry]
ASSUME ProfilesOfEntries == Round \cup Raw \cup Stored \cup Unloads \subseteq Entry
ASSUME WorkIsPositive == Reads \in Nat \ {0} /\ Steps \in Nat \ {0}

VARIABLES
    pc,         \* where each task is
    attempt,    \* 1, or 2 for the in-cycle retry
    left,       \* reads or plan steps the hold still has to do
    req,        \* the read or write a task is in the middle of
    wire,       \* what of it is on the wire: nothing, a connect, a request
    again,      \* this read already reconnected after a hang-up
    err,        \* what ended the hold
    holder,     \* who holds the gateway lock
    ahead,      \* the tasks queued for the lock before each waiting task
    rest,       \* the gateway rests
    link,       \* the shared link: down, up, or suspect: a late answer is due
    client,     \* whether each entry's API client holds a client
    reconnect,  \* api._reconnect
    info,       \* model 1 has been read by this coordinator
    probed,     \* the nameplate has been probed
    data,       \* a cycle of this coordinator has succeeded
    shut,       \* the entry was unloaded
    owed        \* the gateway still works on a request it left unanswered

lockVars == <<holder, ahead>>
taskVars == <<pc, attempt, left, req, wire, again, err>>
sessionVars == <<link, client, reconnect>>
entryVars == <<info, probed, data, shut>>
restVars == <<rest, owed>>
vars == <<taskVars, lockVars, sessionVars, entryVars, restVars>>

\* The requests: listing the models (none of its own on the wire), the SunSpec
\* model reads, the vendor's registers outside the models, a step of a plan.
Reading == {"common", "nameplate", "model"}
Request == Reading \cup {"models", "raw", "write"}

TypeOK ==
    /\ pc \in [Task -> {"idle", "wait", "run", "close", "sleep"}]
    /\ attempt \in [Task -> {1, 2}]
    /\ left \in [Task -> Nat]
    /\ req \in [Task -> Request \cup {"none"}]
    /\ wire \in [Task -> {"none", "connect", "request"}]
    /\ again \in [Task -> BOOLEAN]
    /\ err \in [Task -> {"none", "unanswered", "answered"}]
    /\ holder \in Task \cup {None}
    /\ ahead \in [Task -> SUBSET Task]
    /\ rest \in BOOLEAN /\ owed \in BOOLEAN
    /\ link \in {"down", "up", "suspect"}
    /\ client \in [Entry -> BOOLEAN]
    /\ reconnect \in [Entry -> BOOLEAN]
    /\ info \in [Entry -> BOOLEAN]
    /\ probed \in [Entry -> BOOLEAN]
    /\ data \in [Entry -> BOOLEAN]
    /\ shut \in [Entry -> BOOLEAN]

Init ==
    /\ pc = [t \in Task |-> "idle"]
    /\ attempt = [t \in Task |-> 1]
    /\ left = [t \in Task |-> 0]
    /\ req = [t \in Task |-> "none"]
    /\ wire = [t \in Task |-> "none"]
    /\ again = [t \in Task |-> FALSE]
    /\ err = [t \in Task |-> "none"]
    /\ holder = None
    /\ ahead = [t \in Task |-> {}]
    /\ rest = FALSE /\ owed = FALSE
    /\ link = "down"
    /\ client = [e \in Entry |-> FALSE]
    /\ reconnect = [e \in Entry |-> FALSE]
    /\ info = [e \in Entry |-> FALSE]
    /\ probed = [e \in Entry |-> FALSE]
    /\ data = [e \in Entry |-> FALSE]
    /\ shut = [e \in Entry |-> FALSE]
-----------------------------------------------------------------------------
(***************************************************************************)
(* Helpers.                                                                *)
(***************************************************************************)
Waiting == {t \in Task : pc[t] = "wait"}

\* asyncio.Lock serves its waiters in the order they came.
Enqueue(t) == ahead' = [ahead EXCEPT ![t] = Waiting]

\* A task that stops waiting leaves the queue.
Dequeue(t) == ahead' = [u \in Task |-> IF u = t THEN {} ELSE ahead[u] \ {t}]

\* Variant: every coordinator has a lock of its own.
FirstInLineOfEntry(t) ==
    /\ pc[t] = "wait" /\ ahead[t] = {}
    /\ \A u \in Task : holder = u => EntryOf[u] # EntryOf[t]

\* The lock is free and t is the first of the queue.
FirstInLine(t) == pc[t] = "wait" /\ holder = None /\ ahead[t] = {}

\* The profile is known from model 1, or before that from the store.
LinkProfileKnown(e) == info[e] \/ e \in Stored

\* Whether an error of e, left unanswered or not, sends the gateway to rest.
RestsAfter(e, error) == error = "unanswered" /\ LinkProfileKnown(e) /\ e \in Round

\* async_close: without a client it does nothing, else it drops the link.
CloseClient(e) ==
    /\ client' = [client EXCEPT ![e] = FALSE]
    /\ link' = IF client[e] THEN "down" ELSE link

\* Task t is back at rest; its attempt counter belongs to one refresh.
ToIdle(t) ==
    /\ pc' = [pc EXCEPT ![t] = "idle"]
    /\ attempt' = [attempt EXCEPT ![t] = 1]

\* What a hold has to do: a plan its steps, a cycle the list of the models,
\* the polled models and the raw block.
Work(t) ==
    IF t \in Write THEN Steps
    ELSE Reads + 1 + (IF EntryOf[t] \in Raw THEN 1 ELSE 0)

\* The next thing a hold does: a cycle asks for the models, reads model 1
\* and the nameplate once, then every polled model, then the raw block.
NextRequest(t) ==
    LET e == EntryOf[t] IN
    IF t \in Write THEN "write"
    ELSE IF left[t] = Work(t) THEN "models"
    ELSE IF ~info[e] THEN "common"
    ELSE IF ~probed[e] THEN "nameplate"
    ELSE IF e \in Raw /\ left[t] = 1 THEN "raw"
    ELSE "model"

\* The session of a hold: the link connects on the next request if it is down.
OnWire == IF link = "down" THEN "up" ELSE link
-----------------------------------------------------------------------------
(***************************************************************************)
(* Taking the lock.                                                        *)
(***************************************************************************)
\* A refresh starts. The first one of a coordinator is driven by its setup,
\* before anything else of the entry runs.
Refresh(t) ==
    LET e == EntryOf[t] IN
    /\ t \in Poll /\ pc[t] = "idle" /\ ~shut[e]
    /\ data[e] \/ \A u \in Task : EntryOf[u] = e => pc[u] = "idle"
    /\ Enqueue(t)
    /\ pc' = [pc EXCEPT ![t] = "wait"]
    /\ UNCHANGED <<attempt, left, req, wire, again, err, holder>>
    /\ UNCHANGED <<sessionVars, entryVars, restVars>>

\* An entity or service starts a write; entities exist after the first data.
StartWrite(t) ==
    LET e == EntryOf[t] IN
    /\ t \in Write /\ pc[t] = "idle" /\ data[e] /\ ~shut[e]
    /\ Enqueue(t)
    /\ pc' = [pc EXCEPT ![t] = "wait"]
    /\ UNCHANGED <<attempt, left, req, wire, again, err, holder>>
    /\ UNCHANGED <<sessionVars, entryVars, restVars>>

\* The wait for the lock is the only part of a write that has a timeout.
WriteLockTimeout(t) ==
    /\ t \in Write /\ pc[t] = "wait"
    /\ ToIdle(t) /\ Dequeue(t)
    /\ UNCHANGED <<left, req, wire, again, err, holder>>
    /\ UNCHANGED <<sessionVars, entryVars, restVars>>

\* Variant: only the first attempt of a poll looks whether the gateway rests.
AcquireWithoutSecondLook(t) ==
    /\ FirstInLine(t) /\ (rest => attempt[t] = 2)
    /\ holder' = t /\ Dequeue(t)
    /\ pc' = [pc EXCEPT ![t] = "run"]
    /\ left' = [left EXCEPT ![t] = Work(t)]
    /\ UNCHANGED <<attempt, req, wire, again, err>>
    /\ UNCHANGED <<sessionVars, entryVars, restVars>>

\* The lock is taken and the gateway may be asked.
Acquire(t) ==
    /\ FirstInLine(t) /\ ~rest
    /\ holder' = t /\ Dequeue(t)
    /\ pc' = [pc EXCEPT ![t] = "run"]
    /\ left' = [left EXCEPT ![t] = Work(t)]
    /\ UNCHANGED <<attempt, req, wire, again, err>>
    /\ UNCHANGED <<sessionVars, entryVars, restVars>>

\* Variant: the refusal returns without releasing the lock.
RefusedByRestKeepsLock(t) ==
    /\ FirstInLine(t) /\ rest
    /\ t \in Write \/ attempt[t] = 1
    /\ Dequeue(t) /\ ToIdle(t)
    /\ holder' = t
    /\ UNCHANGED <<left, req, wire, again, err>>
    /\ UNCHANGED <<sessionVars, entryVars, restVars>>

\* The gateway rests: a write fails, a poll is skipped. Taking the lock,
\* the check and the release are one step.
RefusedByRest(t) ==
    /\ FirstInLine(t) /\ rest
    /\ t \in Write \/ attempt[t] = 1
    /\ Dequeue(t) /\ ToIdle(t)
    /\ UNCHANGED <<left, req, wire, again, err, holder>>
    /\ UNCHANGED <<sessionVars, entryVars, restVars>>

\* The rest began during the retry's sleep: the cycle fails with its first
\* error, and _after_failed_cycle closes the session without the lock.
RetryRefusedByRest(t) ==
    LET e == EntryOf[t] IN
    /\ FirstInLine(t) /\ rest
    /\ t \in Poll /\ attempt[t] = 2
    /\ Dequeue(t) /\ ToIdle(t)
    /\ IF shut[e]
       THEN UNCHANGED sessionVars
       ELSE CloseClient(e) /\ reconnect' = [reconnect EXCEPT ![e] = TRUE]
    /\ UNCHANGED <<left, req, wire, again, err, holder>>
    /\ UNCHANGED <<entryVars, restVars>>
-----------------------------------------------------------------------------
(***************************************************************************)
(* Under the lock.                                                         *)
(***************************************************************************)
\* The error of a read or write reaches the end of the hold. The rest of a
\* write starts at once, that of a poll after the session is closed.
Fail(t, error) ==
    LET e == EntryOf[t] IN
    /\ pc' = [pc EXCEPT ![t] = "close"]
    /\ err' = [err EXCEPT ![t] = error]
    /\ rest' = (rest \/ (t \in Write /\ RestsAfter(e, error)))

\* What an exception may end: the nameplate probe swallows every one but
\* TransientError, the raw block reader every one there is.
Swallowed(request, transient) ==
    \/ request = "nameplate" /\ ~transient
    \/ request = "raw"

\* An exception out of a read or write. A raw block that failed is done with.
Raise(t, request, error, transient) ==
    /\ req' = [req EXCEPT ![t] = "none"]
    /\ wire' = [wire EXCEPT ![t] = "none"]
    /\ again' = [again EXCEPT ![t] = FALSE]
    /\ left' = [left EXCEPT ![t] = IF request = "raw" THEN 0 ELSE @]
    /\ IF Swallowed(request, transient)
       THEN UNCHANGED <<pc, err, rest>>
       ELSE Fail(t, error)

\* Whether t is between two requests and has another one to make.
HasNext(t) == pc[t] = "run" /\ req[t] = "none" /\ left[t] > 0

\* get_client of an entry that was unloaded raises.
BeginOnShutClient(t) ==
    LET e == EntryOf[t] IN
    /\ HasNext(t) /\ shut[e]
    /\ probed' = [probed EXCEPT ![e] = @ \/ NextRequest(t) = "nameplate"]
    /\ Raise(t, NextRequest(t), "answered", FALSE)
    /\ UNCHANGED <<attempt, owed, info, data, shut>>
    /\ UNCHANGED <<lockVars, sessionVars>>

\* The next read or write begins with get_client: a client that is there is
\* handed back, otherwise, or after reconnect_next, a new one connects.
Begin(t) ==
    LET e == EntryOf[t] IN
    /\ HasNext(t) /\ ~shut[e]
    /\ req' = [req EXCEPT ![t] = NextRequest(t)]
    /\ probed' = [probed EXCEPT ![e] = @ \/ NextRequest(t) = "nameplate"]
    /\ reconnect' = [reconnect EXCEPT ![e] = FALSE]
    /\ client' = [client EXCEPT ![e] = @ /\ ~reconnect[e]]
    /\ IF client'[e]
       THEN IF NextRequest(t) = "models"
            THEN UNCHANGED <<wire, link>>
            ELSE wire' = [wire EXCEPT ![t] = "request"] /\ link' = OnWire
       ELSE /\ wire' = [wire EXCEPT ![t] = "connect"]
            /\ link' = IF client[e] THEN "up" ELSE OnWire
    /\ UNCHANGED <<pc, attempt, left, again, err, info, data, shut>>
    /\ UNCHANGED <<lockVars, restVars>>

\* The raw block is gated off or backing off this cycle.
SkipRawBlock(t) ==
    /\ HasNext(t) /\ NextRequest(t) = "raw"
    /\ left' = [left EXCEPT ![t] = 0]
    /\ UNCHANGED <<pc, attempt, req, wire, again, err>>
    /\ UNCHANGED <<lockVars, sessionVars, entryVars, restVars>>

\* The link went between two frames of a request or a connect: the next
\* frame connects again.
LinkReopens(t) ==
    /\ wire[t] # "none" /\ link = "down"
    /\ link' = "up"
    /\ UNCHANGED <<client, reconnect, taskVars>>
    /\ UNCHANGED <<lockVars, entryVars, restVars>>

\* The connect and the scan or validation succeeded; the client is adopted.
\* Listing the models needs nothing else on the wire.
Connected(t) ==
    /\ wire[t] = "connect" /\ link # "down"
    /\ client' = [client EXCEPT ![EntryOf[t]] = TRUE]
    /\ wire' = [wire EXCEPT ![t] = IF req[t] = "models" THEN "none" ELSE "request"]
    /\ UNCHANGED <<pc, attempt, left, req, again, err, link, reconnect>>
    /\ UNCHANGED <<lockVars, entryVars, restVars>>

\* A connect failed. Every failure path of modbus_connect drops the link.
ConnectFails(t) ==
    /\ wire[t] = "connect"
    /\ \E error \in {"unanswered", "answered"} :
         /\ error = "unanswered" => link # "down"
         /\ Raise(t, req[t], error, FALSE)
         /\ owed' = (owed \/ RestsAfter(EntryOf[t], error))
    /\ link' = "down"
    /\ UNCHANGED <<attempt, client, reconnect>>
    /\ UNCHANGED <<lockVars, entryVars>>

\* The read or write is done, or a model that is polled only for its
\* controls was refused for the second time and is left out from now on.
Answered(t) ==
    LET e == EntryOf[t] IN
    /\ pc[t] = "run" /\ req[t] # "none"
    /\ \/ req[t] = "models" /\ wire[t] = "none"
       \/ wire[t] = "request" /\ link # "down"
    /\ left' = [left EXCEPT ![t] = IF req[t] \in {"common", "nameplate"} THEN @ ELSE @ - 1]
    /\ info' = [info EXCEPT ![e] = @ \/ req[t] = "common"]
    /\ req' = [req EXCEPT ![t] = "none"]
    /\ wire' = [wire EXCEPT ![t] = "none"]
    /\ again' = [again EXCEPT ![t] = FALSE]
    /\ UNCHANGED <<pc, attempt, err, probed, data, shut>>
    /\ UNCHANGED <<lockVars, sessionVars, restVars>>

\* The request was refused with a Modbus exception.
Refused(t) ==
    /\ wire[t] = "request" /\ link # "down"
    /\ Raise(t, req[t], "answered", FALSE)
    /\ UNCHANGED <<attempt, owed>>
    /\ UNCHANGED <<lockVars, sessionVars, entryVars>>

\* An answer ends the cycle: the list of the models is short after a partial
\* scan, or model 1 names another device than the stored layout is for.
AnswerRejected(t) ==
    LET e == EntryOf[t] IN
    /\ pc[t] = "run"
    /\ \/ req[t] = "models" /\ wire[t] = "none"
       \/ /\ req[t] = "common" /\ wire[t] = "request" /\ link # "down"
          /\ e \in Stored /\ ~data[e]
    /\ Raise(t, req[t], "answered", TRUE)
    /\ info' = [info EXCEPT ![e] = @ \/ req[t] = "common"]
    /\ reconnect' = [reconnect EXCEPT ![e] = @ \/ req[t] = "common"]
    /\ UNCHANGED <<attempt, owed, link, client, probed, data, shut>>
    /\ UNCHANGED lockVars

\* No answer within the timeout. One may still arrive on this session.
Unanswered(t) ==
    /\ wire[t] = "request" /\ link # "down"
    /\ Raise(t, req[t], "unanswered", TRUE)
    /\ link' = "suspect"
    /\ owed' = (owed \/ RestsAfter(EntryOf[t], "unanswered"))
    /\ UNCHANGED <<attempt, client, reconnect>>
    /\ UNCHANGED <<lockVars, entryVars>>

\* The device, or the close of another entry, dropped the link under a read:
\* async_read_model connects again, once.
HangUp(t) ==
    LET e == EntryOf[t] IN
    /\ wire[t] = "request" /\ req[t] \in Reading /\ ~again[t] /\ ~shut[e]
    /\ again' = [again EXCEPT ![t] = TRUE]
    /\ client' = [client EXCEPT ![e] = FALSE]
    /\ reconnect' = [reconnect EXCEPT ![e] = FALSE]
    /\ wire' = [wire EXCEPT ![t] = "connect"]
    /\ link' = "up"
    /\ UNCHANGED <<pc, attempt, left, req, err>>
    /\ UNCHANGED <<lockVars, entryVars, restVars>>

\* The link dropped under a write, under a read for the second time, or
\* under a read of an entry that was unloaded: the operation fails.
LinkLost(t) ==
    LET e == EntryOf[t] IN
    /\ wire[t] = "request"
    /\ req[t] \notin Reading \/ again[t] \/ shut[e]
    /\ Raise(t, req[t], "answered", FALSE)
    /\ link' = "down"
    /\ client' = [client EXCEPT ![e] = @ /\ ~(req[t] \in Reading /\ ~again[t])]
    /\ UNCHANGED <<attempt, reconnect, owed>>
    /\ UNCHANGED <<lockVars, entryVars>>
-----------------------------------------------------------------------------
(***************************************************************************)
(* Ending a hold.                                                          *)
(***************************************************************************)
\* Everything was read or written; the session stays open. A coordinator that
\* found a new firmware version on its first cycle asks for a rescan here.
Finish(t) ==
    LET e == EntryOf[t] IN
    /\ pc[t] = "run" /\ req[t] = "none" /\ left[t] = 0
    /\ ToIdle(t) /\ holder' = None
    /\ data' = [data EXCEPT ![e] = @ \/ t \in Poll]
    /\ \E newFirmware \in BOOLEAN :
         /\ newFirmware => t \in Poll /\ e \in Stored /\ ~data[e]
         /\ reconnect' = [reconnect EXCEPT ![e] = @ \/ newFirmware]
    /\ UNCHANGED <<left, req, wire, again, err, ahead, info, probed, shut>>
    /\ UNCHANGED <<link, client, restVars>>

\* Variant: a failed write leaves its session open.
CloseWriteKeepsSession(t) ==
    /\ t \in Write /\ pc[t] = "close"
    /\ ToIdle(t) /\ holder' = None
    /\ err' = [err EXCEPT ![t] = "none"]
    /\ UNCHANGED <<left, req, wire, again, ahead, sessionVars>>
    /\ UNCHANGED <<entryVars, restVars>>

\* A failed write closes its session and lets go of the lock.
CloseWrite(t) ==
    /\ t \in Write /\ pc[t] = "close"
    /\ CloseClient(EntryOf[t])
    /\ ToIdle(t) /\ holder' = None
    /\ err' = [err EXCEPT ![t] = "none"]
    /\ UNCHANGED <<left, req, wire, again, ahead, reconnect>>
    /\ UNCHANGED <<entryVars, restVars>>

\* Variant: the retry is not left out after an unanswered request.
CloseAndSleepAlways(t) ==
    LET e == EntryOf[t] IN
    /\ t \in Poll /\ pc[t] = "close"
    /\ attempt[t] = 1 /\ data[e]
    /\ CloseClient(e)
    /\ holder' = None
    /\ pc' = [pc EXCEPT ![t] = "sleep"]
    /\ err' = [err EXCEPT ![t] = "none"]
    /\ reconnect' = [reconnect EXCEPT ![e] = TRUE]
    /\ UNCHANGED <<attempt, left, req, wire, again, ahead>>
    /\ UNCHANGED <<entryVars, restVars>>

\* A failed first attempt closes its session, lets go of the lock, and
\* sleeps without it before the second.
CloseAndSleep(t) ==
    LET e == EntryOf[t] IN
    /\ t \in Poll /\ pc[t] = "close"
    /\ attempt[t] = 1 /\ data[e] /\ ~RestsAfter(e, err[t])
    /\ CloseClient(e)
    /\ holder' = None
    /\ pc' = [pc EXCEPT ![t] = "sleep"]
    /\ err' = [err EXCEPT ![t] = "none"]
    /\ reconnect' = [reconnect EXCEPT ![e] = TRUE]
    /\ UNCHANGED <<attempt, left, req, wire, again, ahead>>
    /\ UNCHANGED <<entryVars, restVars>>

\* Variant: the retry drops the session again before it has the lock.
RetryClosesUnlocked(t) ==
    /\ pc[t] = "sleep"
    /\ Enqueue(t) /\ CloseClient(EntryOf[t])
    /\ pc' = [pc EXCEPT ![t] = "wait"]
    /\ attempt' = [attempt EXCEPT ![t] = 2]
    /\ UNCHANGED <<left, req, wire, again, err, holder, reconnect>>
    /\ UNCHANGED <<entryVars, restVars>>

\* The retry queues for the lock again.
Retry(t) ==
    /\ pc[t] = "sleep"
    /\ Enqueue(t)
    /\ pc' = [pc EXCEPT ![t] = "wait"]
    /\ attempt' = [attempt EXCEPT ![t] = 2]
    /\ UNCHANGED <<left, req, wire, again, err, holder>>
    /\ UNCHANGED <<sessionVars, entryVars, restVars>>

\* The cycle failed for good: the session is closed, the lock released and
\* the rest started before anything else runs. An unloaded entry stops in
\* front of the rest. A failed first refresh ends the coordinator; the next
\* setup attempt starts a new one from the store.
CloseAndFail(t) ==
    LET e == EntryOf[t] IN
    /\ t \in Poll /\ pc[t] = "close"
    /\ attempt[t] = 2 \/ ~data[e] \/ RestsAfter(e, err[t])
    /\ CloseClient(e)
    /\ ToIdle(t) /\ holder' = None
    /\ err' = [err EXCEPT ![t] = "none"]
    /\ rest' = (rest \/ (~shut[e] /\ RestsAfter(e, err[t])))
    /\ reconnect' = [reconnect EXCEPT ![e] = data[e] /\ (@ \/ ~shut[e])]
    /\ info' = [info EXCEPT ![e] = @ /\ data[e]]
    /\ probed' = [probed EXCEPT ![e] = @ /\ data[e]]
    /\ UNCHANGED <<left, req, wire, again, ahead, data, shut, owed>>
-----------------------------------------------------------------------------
(***************************************************************************)
(* Around the tasks.                                                       *)
(***************************************************************************)
\* The entry is unloaded. Its client is closed without the lock.
Unload(e) ==
    /\ e \in Unloads /\ data[e] /\ ~shut[e]
    /\ shut' = [shut EXCEPT ![e] = TRUE]
    /\ CloseClient(e)
    /\ UNCHANGED <<reconnect, info, probed, data>>
    /\ UNCHANGED <<taskVars, lockVars, restVars>>

\* The rest is over; by then the gateway has finished or dropped the request.
\* It lasts a minute at the least, the close of a session a moment.
RestEnds ==
    /\ rest /\ \A t \in Task : pc[t] # "close"
    /\ rest' = FALSE /\ owed' = FALSE
    /\ UNCHANGED <<taskVars, lockVars, sessionVars, entryVars>>

\* Without a rest, too, the gateway gets done with the request some time.
GatewayDone ==
    /\ owed /\ ~rest
    /\ owed' = FALSE
    /\ UNCHANGED <<rest, taskVars, lockVars, sessionVars, entryVars>>

\* What a task does once it has begun, until it is done.
Progress(t) ==
    \/ Acquire(t) \/ RefusedByRest(t) \/ RetryRefusedByRest(t)
    \/ BeginOnShutClient(t) \/ Begin(t) \/ SkipRawBlock(t) \/ LinkReopens(t)
    \/ Connected(t) \/ ConnectFails(t)
    \/ Answered(t) \/ Refused(t) \/ AnswerRejected(t) \/ Unanswered(t)
    \/ HangUp(t) \/ LinkLost(t)
    \/ Finish(t) \/ CloseWrite(t) \/ CloseAndSleep(t) \/ Retry(t) \/ CloseAndFail(t)

Next ==
    \/ \E t \in Task : Refresh(t) \/ StartWrite(t) \/ WriteLockTimeout(t) \/ Progress(t)
    \/ \E e \in Entry : Unload(e)
    \/ RestEnds \/ GatewayDone

\* A running task goes on: every request is answered, refused or times out,
\* every sleep ends, and the event loop runs what is ready. Nobody has to
\* start a refresh or a write, unload an entry or hang up.
Fairness == \A t \in Task : WF_vars(Progress(t))

Spec == Init /\ [][Next]_vars
FairSpec == Spec /\ Fairness
=============================================================================
