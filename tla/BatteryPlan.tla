------------------------------ MODULE BatteryPlan ------------------------------
(***************************************************************************)
(* The battery plan (battery_plan.py) with the writes of the storage modes *)
(* it uses (storage_modes.py), the mode and power entities of the user,    *)
(* and the battery with its revert timer.                                  *)
(*                                                                         *)
(* A tick is much longer than a write. The coroutines of the planner share *)
(* its update lock; what stands between two awaits of one is one step.     *)
(***************************************************************************)
EXTENDS StorageModes

CONSTANTS
    Day,                \* ticks of a day
    Plans,              \* what the user sets: direction, start, end, target, capacity
    Full,               \* the battery's full charge
    PowerStep,          \* grid_power_step_w
    FactoryRevert,      \* InOutWRte_RvrtTms as the device came
    LongestRevert,      \* MAX_REVERT_SECONDS
    DeviceRevert,       \* the longest revert timer the device takes
    MinRefresh,         \* MIN_REFRESH_SECONDS
    UserModes,          \* what the user selects as a mode
    UserPowers,         \* what the user sets as a grid power
    Events              \* bound: what the user does, what fails, and restarts

ASSUME DayHasTicks == Day \in Nat \ {0, 1} /\ Full \in Nat
ASSUME TimersAreTicks ==
    FactoryRevert \in Nat /\ {LongestRevert, DeviceRevert, MinRefresh} \subseteq Nat \ {0}
ASSUME PowersAreWatts == PowerStep \in Nat \ {0} /\ UserPowers \subseteq Nat
ASSUME ModesAreModes == UserModes \subseteq Mode /\ Events \in Nat

None == -1          \* a capacity that is not set, a value that was not read
Nobody == "nobody"
Direction == {"charge", "discharge"}
Settings == [direction : Direction, start : 0..(Day - 1), end : 0..(Day - 1),
             target : 0..Full, capacity : Nat \cup {None}]
ASSUME PlansAreSettings == Plans \subseteq Settings
\* The coroutines that may be under way, each at most once.
Task == {"start", "end", "refresh", "startup", "enable", "disable", "poll", "user"}

VARIABLES
    clock,      \* the time of day
    due,        \* window triggers that fire now
    dev,        \* the battery's registers, their age and its charge
    seen,       \* coordinator.data: what the last successful poll read
    ok,         \* last_update_success and no failed cycles
    set,        \* BatteryPlanSettings
    enabled,    \* and whether the plan is switched on
    plan,       \* the planner's own state
    setpoints,  \* coordinator.storage_setpoints
    task,       \* where each coroutine is and what it captured
    busy,       \* who holds _update_lock
    stopped,    \* the entry is unloaded
    left,       \* what is left of Events
    applied,    \* history: the plan was made from the settings as they are, or
                \* dropped: the last poll found no battery, or the hand-back
                \* they asked for failed and is not tried again
    lost        \* history: a request or a poll failed, Home Assistant
                \* restarted, or the user chose a mode

devVars == <<dev, clock, due>>
planVars == <<clock, due, dev, seen, ok, set, enabled, plan, setpoints, task, busy, stopped, left,
          applied, lost>>

Idle == [at |-> "idle", job |-> "none", mode |-> "auto", again |-> FALSE,
         revert |-> 0, in |-> WChaMax, out |-> WChaMax]
AllIdle == \A t \in Task : task[t] = Idle
-----------------------------------------------------------------------------
(***************************************************************************)
(* Times and powers.                                                       *)
(***************************************************************************)
\* Ticks from a time to the next occurrence of another.
TicksUntil(from, to) == IF to > from THEN to - from ELSE to - from + Day
WindowHours == TicksUntil(set.start, set.end)
HoursLeft == TicksUntil(clock, set.end)

InWindow(t, start, end) ==
    \/ start = end
    \/ start < end /\ start <= t /\ t < end
    \/ start > end /\ (t >= start \/ t < end)
Inside == InWindow(clock, set.start, set.end)

Lower(a, b) == IF a < b THEN a ELSE b

\* The steady power towards the target, in steps.
PlannedPower(hours) ==
    LET gap == IF set.direction = "charge" THEN set.target - seen.soc ELSE seen.soc - set.target
        energy == IF gap > 0 THEN gap * set.capacity ELSE 0
    IN  (Lower(energy \div hours, WChaMax) \div PowerStep) * PowerStep

Reached(soc) == IF set.direction = "charge" THEN soc >= set.target ELSE soc <= set.target

PlanMode == IF set.direction = "charge" THEN "charge_from_grid" ELSE "discharge_to_grid"
PlanRate == IF set.direction = "charge" THEN "grid_charge" ELSE "grid_discharge"

\* Variant: a window of less than one tick rounds to a timer that never ends.
RevertRounded(hours) == Lower(LongestRevert, hours - 1)
\* The device's timer for a window, at least one second.
RevertTime(hours) == IF hours < 1 THEN 1 ELSE Lower(LongestRevert, hours)

\* Variant: the rate is written when the timer lapses, not before.
RefreshLate(timeout) == IF timeout = 0 THEN None ELSE timeout
\* REFRESH_FRACTION of the timer the device reported; a timer of zero holds.
RefreshIn(timeout) ==
    IF timeout = 0 THEN None
    ELSE IF (timeout * 9) \div 10 > MinRefresh THEN (timeout * 9) \div 10 ELSE MinRefresh
-----------------------------------------------------------------------------
NoPlan == [planned |-> 0, changed |-> FALSE, prior |-> None, owned |-> FALSE,
           refresh |-> None, startup |-> FALSE]

\* What a setup of the entry starts from: the settings are restored, which
\* counts as a change, and the window is looked at after a while.
Restored(on) == [NoPlan EXCEPT !.changed = TRUE, !.startup = on]

PlanInit ==
    /\ clock = 0 /\ due = {}
    /\ dev = [ctl |-> 0, in |-> WChaMax, out |-> WChaMax, revert |-> FactoryRevert,
              age |-> 0, soc |-> Full]
    /\ seen = [soc |-> Full, revert |-> FactoryRevert, mode |-> "auto", there |-> TRUE]
    /\ ok = TRUE
    /\ enabled \in BOOLEAN /\ set \in Plans
    /\ plan = Restored(enabled)
    /\ setpoints = [r \in SetpointRate |-> IF r \in ForcedRate THEN 0 ELSE WChaMax]
    /\ task = [t \in Task |-> Idle] /\ busy = Nobody /\ stopped = FALSE
    /\ left = Events
    /\ applied = FALSE /\ lost = FALSE
-----------------------------------------------------------------------------
(***************************************************************************)
(* What a coroutine does up to its next await. A write it is about to make *)
(* is its phase: the revert timer, the rates, the mode; then it waits for  *)
(* the refresh it asked for, or gives the timer back.                      *)
(***************************************************************************)
Go(t, phase) ==
    /\ task' = [task EXCEPT ![t] = phase]
    /\ busy' = IF t = "user" THEN busy ELSE t
Done(t) ==
    /\ task' = [task EXCEPT ![t] = Idle]
    /\ busy' = IF t = "user" THEN busy ELSE Nobody

\* async_apply_storage_mode resolves the rates when it begins.
ModePhase(job, mode, again) ==
    [Idle EXCEPT !.at = "rates", !.job = job, !.mode = mode, !.again = again,
                 !.in = ResolveRate(Recipe(mode).in, setpoints),
                 !.out = ResolveRate(Recipe(mode).out, setpoints)]

\* _set_automatic from a plan p; again: the plan is tried again afterwards.
SetAutomatic(t, p, again) ==
    /\ plan' = [p EXCEPT !.refresh = None, !.changed = @ \/ (again /\ ~seen.there)]
    /\ IF seen.there THEN Go(t, ModePhase("plan", "auto", again)) ELSE Done(t)
    /\ applied' = (applied \/ ~seen.there) /\ UNCHANGED setpoints
Nothing(t, p) == plan' = p /\ Done(t) /\ UNCHANGED <<setpoints, applied>>

\* A trigger or a resume takes the pending changes up first.
Fresh == [plan EXCEPT !.changed = FALSE]
Later == [plan EXCEPT !.changed = TRUE]

\* A power below the step: nothing planned, and what runs is handed back.
PlanNothing(t) ==
    /\ IF plan.planned > 0
       THEN /\ plan' = [Fresh EXCEPT !.planned = 0, !.refresh = None]
            /\ Go(t, ModePhase("plan", "auto", FALSE))
       ELSE plan' = Fresh /\ Done(t)
    /\ applied' = TRUE /\ UNCHANGED setpoints

\* The plan takes the revert timer over and writes it first.
PlanPower(t, power, hours) ==
    /\ plan' = [Fresh EXCEPT !.planned = power, !.owned = TRUE,
                             !.prior = IF plan.owned THEN @ ELSE seen.revert]
    /\ setpoints' = [setpoints EXCEPT ![PlanRate] = power]
    /\ Go(t, [Idle EXCEPT !.at = "timer", !.job = "plan", !.mode = PlanMode,
                          !.revert = RevertTime(hours)])
    /\ applied' = TRUE

Apply(t, hours) ==
    IF ~ok THEN Nothing(t, Later)
    ELSE IF ~seen.there
         THEN plan' = Fresh /\ Done(t) /\ applied' = TRUE /\ UNCHANGED setpoints
    ELSE IF None \in {set.capacity, seen.soc}
         THEN IF plan.owned THEN SetAutomatic(t, Fresh, TRUE) ELSE Nothing(t, Later)
    ELSE LET power == PlannedPower(hours) IN
         IF power < PowerStep THEN PlanNothing(t) ELSE PlanPower(t, power, hours)

Resume(t) ==
    IF stopped \/ ~enabled THEN Nothing(t, plan)
    ELSE IF Inside THEN Apply(t, HoursLeft)
    ELSE IF plan.owned THEN SetAutomatic(t, Fresh, FALSE) ELSE Nothing(t, Fresh)
AtStart(t) ==
    IF stopped \/ ~enabled THEN Nothing(t, plan) ELSE Apply(t, WindowHours)
AtEnd(t) ==
    IF stopped \/ ~enabled \/ set.start = set.end THEN Nothing(t, plan)
    ELSE SetAutomatic(t, plan, FALSE)
Disable(t) ==
    LET p == [plan EXCEPT !.refresh = None] IN
    IF plan.owned \/ Inside THEN SetAutomatic(t, p, FALSE) ELSE Nothing(t, p)
StopAtTarget(t) == IF stopped THEN Nothing(t, plan) ELSE SetAutomatic(t, plan, FALSE)

\* The update lock is free: the next coroutine runs to its first write.
Run(t) ==
    /\ task[t].at = "wait" /\ busy = Nobody
    /\ CASE t = "start"   -> AtStart(t)
         [] t = "end"     -> AtEnd(t)
         [] t = "disable" -> Disable(t)
         [] t = "poll" /\ task[t].job = "stop" -> StopAtTarget(t)
         [] OTHER         -> Resume(t)
    /\ UNCHANGED <<devVars, seen, ok, set, enabled, stopped, left, lost>>
-----------------------------------------------------------------------------
(***************************************************************************)
(* The writes, and what follows them.                                      *)
(***************************************************************************)
\* Variant: the changes count as done when the plan is written.
WatchedForgets(p) ==
    [p EXCEPT !.refresh = IF seen.there THEN RefreshIn(seen.revert) ELSE None, !.changed = FALSE]
\* The rate is written again before the timer the device last reported lapses.
Watched(p) ==
    [p EXCEPT !.refresh = IF seen.there THEN RefreshIn(seen.revert) ELSE None]

\* The end of _set_automatic, or of the plan or the selection.
Handed(t) == plan' = [plan EXCEPT !.planned = 0, !.changed = @ \/ task[t].again] /\ Done(t)
\* A write of the rates or the mode failed.
GivesUp(t) ==
    /\ Done(t)
    /\ plan' = IF t = "user" THEN plan
               ELSE IF task[t].mode = "auto" THEN [plan EXCEPT !.changed = @ \/ task[t].again]
               ELSE Watched(Later)
    /\ applied' = (applied \/ (t # "user" /\ task[t].mode = "auto"))
GoesOn(t, phase) == Go(t, phase) /\ UNCHANGED <<plan, applied>>

Event == left > 0 /\ left' = left - 1
Trouble == Event /\ lost' = TRUE
NoTrouble == UNCHANGED <<left, lost>>

\* A refused timer is logged, one the device cuts short is not noticed; the
\* mode is written all the same.
WriteTimer(t) ==
    /\ task[t].at = "timer"
    /\ \/ dev' = [dev EXCEPT !.revert = Lower(DeviceRevert, task[t].revert)] /\ NoTrouble
       \/ UNCHANGED dev /\ Trouble
    /\ IF seen.there
       THEN GoesOn(t, ModePhase("plan", task[t].mode, FALSE))
       ELSE GivesUp(t)
    /\ UNCHANGED <<clock, due, seen, ok, set, enabled, setpoints, stopped>>

WriteRates(t) ==
    /\ task[t].at = "rates"
    /\ \/ /\ dev' = [dev EXCEPT !.in = task[t].in, !.out = task[t].out, !.age = 0]
          /\ GoesOn(t, [task[t] EXCEPT !.at = "mode", !.in = WChaMax, !.out = WChaMax])
          /\ NoTrouble
       \/ UNCHANGED dev /\ GivesUp(t) /\ Trouble
    /\ UNCHANGED <<clock, due, seen, ok, set, enabled, setpoints, stopped>>

WriteMode(t) ==
    /\ task[t].at = "mode"
    /\ \/ /\ dev' = [dev EXCEPT !.ctl = Recipe(task[t].mode).ctl, !.age = 0]
          /\ GoesOn(t, IF t = "user" THEN Idle ELSE [task[t] EXCEPT !.at = "refresh"])
          /\ NoTrouble
       \/ UNCHANGED dev /\ GivesUp(t) /\ Trouble
    /\ UNCHANGED <<clock, due, seen, ok, set, enabled, setpoints, stopped>>

Released(p) == [p EXCEPT !.owned = FALSE, !.prior = None]

\* async_request_refresh returns, with or without a poll of its own.
Refreshed(t) ==
    /\ task[t].at = "refresh"
    /\ IF task[t].mode # "auto" THEN plan' = Watched(plan) /\ Done(t)
       ELSE IF plan.owned /\ plan.prior # None
       THEN /\ plan' = Released(plan)
            /\ Go(t, [task[t] EXCEPT !.at = "release", !.revert = plan.prior])
       ELSE Handed(t)
    /\ UNCHANGED <<devVars, seen, ok, set, enabled, setpoints, stopped, left, applied, lost>>

\* The timer gets back what it held before the plan.
WriteRelease(t) ==
    /\ task[t].at = "release"
    /\ \/ dev' = [dev EXCEPT !.revert = task[t].revert] /\ NoTrouble
       \/ UNCHANGED dev /\ Trouble
    /\ Handed(t)
    /\ UNCHANGED <<clock, due, seen, ok, set, enabled, setpoints, stopped, applied>>

\* A power entity in use writes its own register.
WritePoint ==
    /\ task["user"].at = "point"
    /\ \/ /\ dev' = [dev EXCEPT ![task["user"].job] = task["user"].in, !.age = 0]
          /\ NoTrouble
       \/ UNCHANGED dev /\ Trouble
    /\ Done("user")
    /\ UNCHANGED <<clock, due, seen, ok, set, enabled, plan, setpoints, stopped, applied>>
-----------------------------------------------------------------------------
(***************************************************************************)
(* Polls and timers.                                                       *)
(***************************************************************************)
Queued(t, job) == [task EXCEPT ![t] = [Idle EXCEPT !.at = "wait", !.job = job]]

\* The planner's poll listener: pending changes first, then the target.
OnPoll(new) ==
    IF ~enabled \/ plan.startup \/ busy # Nobody \/ task["poll"] # Idle
    THEN UNCHANGED <<plan, task>>
    ELSE IF plan.changed THEN task' = Queued("poll", "resume") /\ UNCHANGED plan
    ELSE IF plan.planned > 0 /\ new.there /\ new.soc # None /\ Reached(new.soc)
    THEN /\ plan' = [plan EXCEPT !.planned = 0, !.refresh = None]
         /\ task' = Queued("poll", "stop")
    ELSE UNCHANGED <<plan, task>>

Read == [soc |-> dev.soc, revert |-> dev.revert, there |-> TRUE,
         mode |-> InferMode(dev.ctl, dev.in, dev.out)]
Poll ==
    /\ ~stopped
    /\ seen' = Read /\ ok' = TRUE /\ OnPoll(Read)
    /\ UNCHANGED <<devVars, set, enabled, setpoints, busy, stopped, left, applied, lost>>
\* The battery is not there, or reports no charge.
PollReadsLess ==
    /\ ~stopped
    /\ \E new \in {[Read EXCEPT !.there = FALSE], [Read EXCEPT !.soc = None]} :
          seen' = new /\ OnPoll(new)
    /\ ok' = TRUE /\ Trouble
    /\ UNCHANGED <<devVars, set, enabled, setpoints, busy, stopped, applied>>
PollFails ==
    /\ ~stopped /\ ok' = FALSE /\ Trouble
    /\ UNCHANGED <<devVars, seen, set, enabled, plan, setpoints, task, busy, stopped, applied>>

\* A trigger of the window, or a timer, queues its coroutine.
Trigger(t) ==
    /\ t \in due /\ task[t] = Idle
    /\ due' = due \ {t} /\ task' = Queued(t, "plan")
    /\ UNCHANGED <<clock, dev, seen, ok, set, enabled, plan, setpoints, busy, stopped, left, applied, lost>>
TimerFires(t) ==
    /\ task[t] = Idle
    /\ IF t = "refresh" THEN plan.refresh = 0 ELSE plan.startup
    /\ plan' = IF t = "refresh" THEN [plan EXCEPT !.refresh = None]
               ELSE [plan EXCEPT !.startup = FALSE]
    /\ task' = Queued(t, "plan")
    /\ UNCHANGED <<devVars, seen, ok, set, enabled, setpoints, busy, stopped, left, applied, lost>>

\* The battery drops its rates when they are as old as its timer says.
Lapses == dev.ctl # 0 /\ dev.revert > 0 /\ dev.age + 1 >= dev.revert
Aged ==
    IF dev.ctl = 0 \/ Lapses
    THEN [dev EXCEPT !.ctl = 0, !.in = WChaMax, !.out = WChaMax, !.age = 0]
    ELSE [dev EXCEPT !.age = Lower(@ + 1, FactoryRevert + LongestRevert)]

\* A forced battery moves or stays; in any other mode the sun may charge it.
Flows ==
    LET way == IF dev.ctl # 0 /\ dev.in < 0 THEN -1 ELSE 1 IN
    {flow \in {0, way} : dev.soc + flow \in 0..Full}

\* Time goes on when nothing is under way and everything that was due has run.
Tick ==
    /\ AllIdle /\ due = {} /\ plan.refresh # 0 /\ ~plan.startup
    /\ clock' = (clock + 1) % Day
    /\ due' = IF stopped THEN {}
              ELSE {t \in {"start", "end"} : clock' = IF t = "start" THEN set.start ELSE set.end}
    /\ \E flow \in Flows : dev' = [Aged EXCEPT !.soc = @ + flow]
    /\ plan' = [plan EXCEPT !.refresh = IF @ > 0 THEN @ - 1 ELSE @]
    /\ UNCHANGED <<seen, ok, set, enabled, setpoints, task, busy, stopped, left, applied, lost>>
-----------------------------------------------------------------------------
(***************************************************************************)
(* The user, and Home Assistant.                                           *)
(***************************************************************************)
Change == ~stopped /\ Event

\* Settings change: at once, and for the plan with the next poll.
NewPlan ==
    /\ Change
    /\ set' \in Plans \ {set} /\ plan' = Later /\ applied' = FALSE
    /\ UNCHANGED <<clock, dev, seen, ok, setpoints, task, busy, stopped, lost>>
\* The entities: direction, times, target and capacity. A new window sets the
\* triggers anew.
ChangeSettings ==
    /\ NewPlan /\ UNCHANGED enabled
    /\ due' = IF set'.start = set.start /\ set'.end = set.end THEN due ELSE {}
\* The service always does, and may switch the plan on.
Configure == NewPlan /\ enabled' \in {enabled, TRUE} /\ due' = {}
SwitchOn ==
    /\ Change /\ task["enable"] = Idle
    /\ enabled' = TRUE /\ task' = Queued("enable", "plan")
    /\ UNCHANGED <<devVars, seen, ok, set, plan, setpoints, busy, stopped, applied, lost>>
SwitchOff ==
    /\ Change /\ task["disable"] = Idle
    /\ enabled' = FALSE /\ task' = Queued("disable", "plan")
    /\ UNCHANGED <<devVars, seen, ok, set, plan, setpoints, busy, stopped, applied, lost>>

Select ==
    ~stopped /\ task["user"] = Idle /\ Trouble
\* The mode entity.
SelectMode(mode) ==
    /\ Select /\ seen.there
    /\ Go("user", ModePhase("select", mode, FALSE))
    /\ UNCHANGED <<devVars, seen, ok, set, enabled, plan, setpoints, stopped, applied>>
\* A power entity: written at once while the mode of the device uses it.
SetPower(rate, watts) ==
    LET used == seen.there /\ rate \in RatesOf(seen.mode) IN
    /\ Select
    /\ setpoints' = [setpoints EXCEPT ![rate] = (watts \div PowerStep) * PowerStep]
    /\ IF used
       THEN Go("user", [Idle EXCEPT !.at = "point", !.job = PointOfRate(rate),
                                    !.in = ResolveRate(rate, setpoints')])
       ELSE UNCHANGED <<task, busy>>
    /\ UNCHANGED <<devVars, seen, ok, set, enabled, plan, stopped, applied>>

\* Home Assistant crashes, or unloads the entry: then what is under way goes
\* on, but for the task of a poll.
Stop(crash) ==
    LET ends == IF crash THEN Task ELSE {"poll"} IN
    /\ ~stopped /\ Trouble
    /\ stopped' = TRUE /\ due' = {}
    /\ plan' = [plan EXCEPT !.refresh = None, !.startup = FALSE]
    /\ task' = [t \in Task |-> IF t \in ends THEN Idle ELSE task[t]]
    /\ busy' = IF busy \in ends THEN Nobody ELSE busy
    /\ UNCHANGED <<clock, dev, seen, ok, set, enabled, setpoints, applied>>
PlanSetup ==
    /\ stopped /\ AllIdle
    /\ stopped' = FALSE /\ ok' = TRUE /\ seen' = Read
    /\ plan' = Restored(enabled)
    /\ applied' = FALSE
    /\ UNCHANGED <<devVars, set, enabled, setpoints, task, busy, left, lost>>

Step(t) ==
    Run(t) \/ WriteTimer(t) \/ WriteRates(t) \/ WriteMode(t) \/ Refreshed(t) \/ WriteRelease(t)
Timers == \E t \in Task :
    \/ t \in {"start", "end"} /\ Trigger(t)
    \/ t \in {"refresh", "startup"} /\ TimerFires(t)
User ==
    \/ ChangeSettings \/ Configure \/ SwitchOn \/ SwitchOff
    \/ \E mode \in UserModes : SelectMode(mode)
    \/ \E rate \in ForcedRate, watts \in UserPowers : SetPower(rate, watts)

PlanNext ==
    \/ \E t \in Task : Step(t)
    \/ WritePoint
    \/ Timers \/ Poll \/ PollReadsLess \/ PollFails \/ Tick
    \/ User
    \/ \E crash \in BOOLEAN : Stop(crash)
    \/ PlanSetup

\* Writes end, timers fire, polls succeed now and then, and time passes.
Fairness ==
    /\ \A t \in Task : WF_planVars(Step(t))
    /\ WF_planVars(WritePoint) /\ WF_planVars(Timers) /\ WF_planVars(Poll) /\ SF_planVars(Tick)

PlanSpec == PlanInit /\ [][PlanNext]_planVars
PlanFairSpec == PlanSpec /\ Fairness
=============================================================================
