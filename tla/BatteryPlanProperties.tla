------------------------- MODULE BatteryPlanProperties -------------------------
(***************************************************************************)
(* What the battery plan promises.                                         *)
(***************************************************************************)
EXTENDS BatteryPlan

Forced == InferMode(dev.ctl, dev.in, dev.out) \in ForcedMode
\* No coroutine of the planner is under way.
Quiet == \A t \in Task \ {"user"} : task[t] = Idle

\* The types: the lock is held by the coroutine that has begun to write, the plan's power
\* is one the battery can give, and a plan that owns the timer knows what it held.
Percent == 0..Full
Watts == -WChaMax..WChaMax
Registers == [ctl : 0..3, in : Watts, out : Watts, revert : Nat, age : Nat, soc : Percent]
Reading == [soc : Percent \cup {None}, revert : Nat, mode : Mode, there : BOOLEAN]
PlannerState == [planned : 0..WChaMax, changed : BOOLEAN, prior : Nat \cup {None},
                 owned : BOOLEAN, refresh : Nat \cup {None}, startup : BOOLEAN]
Phase == [at : {"idle", "wait", "timer", "rates", "mode", "refresh", "release", "point"},
          job : {"none", "plan", "resume", "stop", "select", "in", "out"}, mode : Mode,
          again : BOOLEAN, revert : Nat, in : Watts, out : Watts]
\* It has begun: it holds the update lock, unless it is the user's.
Writing(t) == task[t].at \notin {"idle", "wait"}
PlanTypeOK ==
    /\ clock \in 0..(Day - 1) /\ due \subseteq {"start", "end"} /\ left \in Nat
    /\ dev \in Registers /\ seen \in Reading /\ set \in Settings
    /\ {ok, enabled, stopped, applied, lost} \subseteq BOOLEAN
    /\ plan \in PlannerState /\ plan.owned = (plan.prior # None)
    /\ setpoints \in [SetpointRate -> Nat]
    /\ task \in [Task -> Phase] /\ busy \in (Task \ {"user"}) \cup {Nobody}
    /\ \A t \in Task \ {"user"} : (busy = t) <=> Writing(t)

\* "Writes the mode again before it lapses" (docs/fronius.md): with polls and
\* writes that work, the battery does not drop the rate while the plan is on,
\* its window is open and it has a power planned (_watch_plan, _arm_revert_timer).
RateStaysInForce ==
    [][Tick /\ Lapses =>
         ~enabled \/ plan.planned = 0 \/ lost \/ plan.changed
         \/ clock' = set.end \/ ~Inside]_planVars

\* "All changes take effect together on the next successful read", "switching it off ends the
\* active plan" (docs/fronius.md): no change made while a plan is being written is forgotten;
\* what is in force was planned from the settings as they are, or the next poll plans again.
\* A plan that was switched off is out of force, also when its window had been moved away
\* under it, or it was switched on and off in one go.
SettingsTakeEffect ==
    Quiet =>
        /\ ~stopped /\ enabled /\ plan.planned > 0 => applied \/ plan.changed
        /\ ~enabled /\ ~lost => ~Forced

\* Whatever fails, however often the window moves, and also when Home Assistant
\* never comes back: a battery that has a revert timer is not left in a forced
\* mode, unless a plan for the full day is on.
NotForcedForEver ==
    []<>(~Forced \/ (~stopped /\ enabled /\ set.start = set.end))

\* "Hand it back rather than leave it in a forced mode that nothing writes
\* again" (battery_plan.py:456-457): a forced battery has a plan that watches
\* it, or changes that the next poll takes up.
ForcedModeIsWatched ==
    Quiet /\ ~stopped /\ enabled /\ Forced =>
        plan.planned > 0 \/ plan.changed \/ plan.startup

\* "If you move the window so that it no longer contains the current time, the active plan
\* stops" (docs/fronius.md:155-157): a plan without pending changes runs inside its window.
PlanKeepsToItsWindow ==
    Quiet /\ ~stopped /\ enabled /\ ~lost /\ due = {} /\ plan.planned > 0 =>
        Inside \/ plan.changed
-----------------------------------------------------------------------------
(***************************************************************************)
(* The inductive invariant behind SettingsTakeEffect.                      *)
(***************************************************************************)
\* It hands the battery back; at the end it gives the revert timer back.
HandsBack(t) == t # "user" /\ Writing(t) /\ task[t].mode = "auto"
Releases(t) == HandsBack(t) /\ task[t].at = "release"

\* The coroutines of the planner: a mode that is not automatic is the plan's, which owns the
\* revert timer until it hands the battery back, at full rates; "disable" does nothing else.
PlannerPhase(t) ==
    /\ task[t].at # "point"
    /\ task[t].at = "timer" => task[t].mode \in ForcedMode
    /\ task[t].mode # "auto" => Writing(t) /\ plan.owned
    /\ task[t].mode = "auto" => task[t].in = WChaMax /\ task[t].out = WChaMax
    /\ task[t].at = "release" => ~plan.owned /\ task[t].mode = "auto"
    /\ t = "disable" => task[t].mode = "auto"
PhasesOK ==
    /\ \A t \in Task \ {"user"} : PlannerPhase(t)
    /\ task["user"].at \in {"idle", "rates", "mode", "point"}
    /\ task["user"].at = "point" => task["user"].job \in {"in", "out"}

\* What is planned and not applied is taken up again, or is being handed back; a plan that
\* does not own the timer has no power, or has just given the timer back.
PlannedIsApplied ==
    ~stopped /\ plan.planned > 0 =>
        /\ applied \/ plan.changed \/ \E t \in Task : HandsBack(t)
        /\ plan.owned \/ \E t \in Task : Releases(t)

\* The rates force nothing, whatever the mode.
Tame == dev.ctl = 0 \/ (dev.in = WChaMax /\ dev.out = WChaMax)
NothingFailed == ~stopped /\ ok /\ seen.there /\ seen.soc # None /\ task["user"] = Idle
OnTheWayBack == task["disable"].at \in {"wait", "rates"}
AllBack == Tame /\ \A t \in Task : Writing(t) => task[t].mode = "auto"
\* While nothing has failed, only the plan forces the battery, and a plan that is off is
\* about to let go of it, or has.
LetGo ==
    ~lost =>
        /\ NothingFailed
        /\ Tame \/ plan.owned
        /\ \A t \in Task : HandsBack(t) /\ task[t].at # "rates" => Tame
        /\ enabled \/ OnTheWayBack \/ AllBack

PlanIInv == PlanTypeOK /\ PhasesOK /\ PlannedIsApplied /\ LetGo
-----------------------------------------------------------------------------
(***************************************************************************)
(* The inductive invariant behind RateStaysInForce.                        *)
(***************************************************************************)
\* The longest timer the plan gets, and timers whose refresh comes before it lapses: a
\* device that has no timer, or a far longer one than it takes from the plan, is left out.
Longest == Lower(LongestRevert, DeviceRevert)
Fits(n) == n \in Nat \ {0} /\ RefreshIn(n) < Longest
TimersFit == Fits(FactoryRevert) /\ MinRefresh < Longest

\* The timers the device has had, and those about to be written.
TimersOK ==
    /\ Fits(dev.revert) /\ Fits(seen.revert)
    /\ plan.owned => Fits(plan.prior)
    /\ \A t \in Task : task[t].at = "release" => Fits(task[t].revert)
    /\ \A t \in Task : task[t].at = "timer" => task[t].revert \in 1..LongestRevert

\* A plan that runs: nothing is about to plan anew, or to hand the battery back.
AboutToPlan ==
    "start" \in due \/ \E t \in Task \ {"user", "end"} : task[t].at = "wait"
InForce ==
    /\ enabled /\ plan.planned > 0 /\ ~plan.changed /\ Inside
    /\ ~AboutToPlan /\ ~\E t \in Task : HandsBack(t)

\* A timer of n that has run for so long reaches the end of the window, or is the longest.
Lasts(n, age) == n >= Longest \/ n >= age + HoursLeft
WrittenInTime(t) ==
    /\ task[t].at = "timer" => Lasts(Lower(DeviceRevert, task[t].revert), 0)
    /\ task[t].at \in {"rates", "mode", "refresh"} => Lasts(dev.revert, 0)
    /\ task[t].at = "refresh" => dev.age = 0
Armed == plan.refresh # None /\ dev.age + plan.refresh < Longest /\ Lasts(dev.revert, dev.age)
KeptInTime ==
    ~lost =>
        /\ TimersOK
        /\ InForce =>
             /\ \A t \in Task \ {"user"} : WrittenInTime(t)
             /\ (\A t \in Task \ {"user"} : ~Writing(t)) => Armed
=============================================================================
