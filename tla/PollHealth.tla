------------------------------ MODULE PollHealth ------------------------------
(***************************************************************************)
(* What one coordinator makes of the outcome of its polls: the failure     *)
(* counters, the availability of the entities, the expected standby, the   *)
(* Repairs issues, and the models that went missing, through the unload    *)
(* and the next setup of the entry.                                        *)
(*                                                                         *)
(* One poll is under way at a time: a second refresh waits for the gateway *)
(* lock (module Gateway), and what is counted is counted between two       *)
(* suspensions.                                                            *)
(***************************************************************************)
EXTENDS Integers

CONSTANTS
    Model,              \* the optional models of the device
    Tolerance,          \* STALE_DATA_TOLERANCE_CYCLES
    Persistent,         \* failures of the transport or the device that make an issue
    StandbyWhenIdle,    \* the option of the same name
    Failures            \* bound: failed cycles in a row

\* The categories that may raise an issue; "transient" never does.
Category == {"transport", "protocol", "device"}
Threshold == [c \in Category |-> IF c = "protocol" THEN 1 ELSE Persistent]

ASSUME ModelsAreNoCategories == Model \cap Category = {}
ASSUME CountsArePositive == Tolerance \in Nat /\ Persistent \in Nat \ {0}
ASSUME BoundPassesTheTolerance == Failures \in Nat /\ Failures > Tolerance
ASSUME StandbyIsAnOption == StandbyWhenIdle \in BOOLEAN

VARIABLES
    run,        \* the entry: loaded, unloading, gone
    phase,      \* of the poll: idle, connect, listed
    retried,    \* the poll is in its second attempt
    data,       \* a cycle has succeeded
    counts,     \* coordinator._consecutive_failures
    failed,     \* coordinator.consecutive_failed_cycles
    asleep,     \* the last good cycle read a standby state
    success,    \* last_update_success of Home Assistant's coordinator
    shown,      \* whether the entities' state on the screen is available
    issue,      \* the Repairs issues: none, shown or ignored
    present,    \* the models the device shows now
    detected,   \* coordinator.detected_models
    new,        \* coordinator._new_this_cycle
    missing,    \* coordinator._missing_this_cycle
    stamp       \* coordinator._model_missing_since: none, young or old

pollVars == <<phase, retried>>
countVars == <<data, counts, failed, asleep>>
screenVars == <<success, shown>>
modelVars == <<detected, new, missing, stamp>>
vars == <<run, pollVars, countVars, screenVars, issue, present, modelVars>>

NoFailures == [c \in Category |-> 0]
NoStamps == [m \in Model |-> "none"]

TypeOK ==
    /\ run \in {"loaded", "unloading", "gone"}
    /\ phase \in {"idle", "connect", "listed"} /\ retried \in BOOLEAN
    /\ data \in BOOLEAN /\ asleep \in BOOLEAN
    /\ failed \in Nat /\ counts \in [Category -> 0..failed]
    /\ success \in BOOLEAN /\ shown \in BOOLEAN
    /\ issue \in [Category \cup Model -> {"none", "shown", "ignored"}]
    /\ present \subseteq Model /\ detected \subseteq Model
    /\ new \subseteq Model /\ missing \subseteq Model
    /\ stamp \in [Model -> {"none", "young", "old"}]

Init ==
    /\ run = "loaded" /\ phase = "idle" /\ retried = FALSE
    /\ data = FALSE /\ counts = NoFailures /\ failed = 0 /\ asleep = FALSE
    /\ success = TRUE /\ shown = FALSE
    /\ issue = [i \in Category \cup Model |-> "none"]
    /\ present = Model
    /\ detected = {} /\ new = {} /\ missing = {} /\ stamp = NoStamps
-----------------------------------------------------------------------------
\* Another coordinator begins; the issues are Home Assistant's.
NewCoordinator ==
    /\ data' = FALSE /\ counts' = NoFailures /\ failed' = 0 /\ asleep' = FALSE
    /\ success' = TRUE /\ shown' = FALSE
    /\ detected' = {} /\ new' = {} /\ missing' = {} /\ stamp' = NoStamps

\* SunSpecEntity.available with so many failed cycles.
Available(cycles) == data /\ cycles <= Tolerance

\* Variant: an ignored issue is deleted like any other.
DeletedAnyway(i) == "none"

\* An issue that is raised again stays ignored; one that is deleted does not,
\* which is why _delete_issue leaves an ignored one alone.
Raised(i) == IF issue[i] = "ignored" THEN "ignored" ELSE "shown"
Deleted(i) == IF issue[i] = "ignored" THEN "ignored" ELSE "none"

\* Variant: what the device said before it went silent is not looked at.
DowntimeIsOptional == StandbyWhenIdle

\* Whether a silent device has announced it.
DowntimeIsExpected == StandbyWhenIdle \/ asleep

\* Variant: the push comes a cycle early.
CountFailedCycleEarly ==
    /\ failed' = failed + 1
    /\ success' = FALSE
    /\ shown' = IF failed + 1 = Tolerance \/ success
                THEN Available(failed + 1) ELSE shown

\* Home Assistant redraws the entities after the first failure in a row, and
\* the coordinator itself when the tolerance is used up.
CountFailedCycle ==
    /\ failed' = failed + 1
    /\ success' = FALSE
    /\ shown' = IF failed + 1 = Tolerance + 1 \/ success
                THEN Available(failed + 1) ELSE shown

\* _record_error: the category's counter, and its issue from the threshold on.
CountsAfter(category) ==
    IF category = "transient" THEN counts ELSE [counts EXCEPT ![category] = @ + 1]

IssueAfter(category) ==
    IF \/ category = "transient"
       \/ category = "transport" /\ DowntimeIsExpected
       \/ CountsAfter(category)[category] < Threshold[category]
    THEN issue
    ELSE [issue EXCEPT ![category] = Raised(category)]
-----------------------------------------------------------------------------
\* A poll, the first of which is the entry's setup.
Begin ==
    /\ run = "loaded" /\ phase = "idle"
    /\ phase' = "connect" /\ retried' = FALSE
    /\ UNCHANGED <<run, countVars, screenVars, issue, present, modelVars>>

\* The gateway rests: nothing is sent, but the cycle counts.
Skip ==
    /\ phase = "connect" /\ ~retried /\ failed < Failures
    /\ phase' = "idle"
    /\ IF run # "loaded"
       THEN UNCHANGED <<countVars, screenVars, modelVars>>
       ELSE IF ~data THEN NewCoordinator
       ELSE CountFailedCycle /\ UNCHANGED <<data, counts, asleep, modelVars>>
    /\ UNCHANGED <<run, retried, issue, present>>

\* The client is there and has its models.
ListModels ==
    /\ phase = "connect" /\ run = "loaded"
    /\ phase' = "listed"
    /\ detected' = present
    /\ missing' = detected \ present /\ new' = present \ detected
    /\ UNCHANGED <<run, retried, countVars, screenVars, issue, present, stamp>>

\* The first attempt of a poll failed; nobody else is told.
AttemptFails ==
    /\ phase # "idle" /\ data /\ ~retried
    /\ phase' = "connect" /\ retried' = TRUE
    /\ UNCHANGED <<run, countVars, screenVars, issue, present, modelVars>>

\* Variant: the end of a cycle does not ask whether the entry was unloaded.
CycleFailsAnyway ==
    /\ phase # "idle" /\ failed < Failures
    /\ phase' = "idle"
    /\ \E category \in Category \cup {"transient"} :
         /\ issue' = IssueAfter(category)
         /\ IF data
            THEN /\ counts' = CountsAfter(category)
                 /\ CountFailedCycle
                 /\ UNCHANGED <<data, asleep, modelVars>>
            ELSE NewCoordinator
    /\ UNCHANGED <<run, retried, present>>

\* The cycle failed for good: in its second attempt, or without one because
\* the gateway rests or nothing had succeeded yet. An unloaded entry's poll
\* just stops.
CycleFails ==
    /\ phase # "idle" /\ failed < Failures
    /\ phase' = "idle"
    /\ IF run # "loaded"
       THEN UNCHANGED <<countVars, screenVars, issue, modelVars>>
       ELSE \E category \in Category \cup {"transient"} :
              /\ issue' = IssueAfter(category)
              /\ IF data
                 THEN /\ counts' = CountsAfter(category)
                      /\ CountFailedCycle
                      /\ UNCHANGED <<data, asleep, modelVars>>
                 ELSE NewCoordinator
    /\ UNCHANGED <<run, retried, present>>

\* Variant: the stamps of the models that came back go before the issues do.
ClearedOfStillMissing ==
    [i \in Category \cup Model |->
        IF i \in Category \/ (stamp[i] # "none" /\ i \notin new)
        THEN Deleted(i) ELSE issue[i]]

\* _clear_repair_issues: the categories' issues, and those of the models that
\* are stamped.
Cleared ==
    [i \in Category \cup Model |->
        IF i \in Category \/ stamp[i] # "none" THEN Deleted(i) ELSE issue[i]]

\* What _update_stale_model_tracking makes of a model: a stamp for one that
\* went missing, none for one that is there.
Restamped(m) ==
    IF m \in detected \cup new THEN "none"
    ELSE IF m \in missing /\ stamp[m] = "none" THEN "young"
    ELSE stamp[m]

\* The issues behind both: those of the models gone for long are raised
\* again, that of a model that is back and still had its stamp is deleted.
IssuesAfterSuccess ==
    [i \in Category \cup Model |->
        IF i \in Category THEN Cleared[i]
        ELSE IF stamp[i] = "old" /\ Restamped(i) = "old"
             THEN IF Cleared[i] = "ignored" THEN "ignored" ELSE "shown"
        ELSE IF stamp[i] # "none" /\ i \in detected \ new THEN "none"
        ELSE Cleared[i]]

\* Every model was read: the answers were there before the unload closed the
\* connection, or what it took from the poll was a raw block, which may fail.
\* The end of the cycle does not ask whether the entry was unloaded.
CycleSucceeds ==
    /\ phase = "listed"
    /\ phase' = "idle"
    /\ data' = TRUE /\ failed' = 0 /\ counts' = NoFailures
    /\ asleep' \in BOOLEAN
    /\ issue' = IssuesAfterSuccess
    /\ stamp' = [m \in Model |-> Restamped(m)]
    /\ missing' = {} /\ new' = {}
    /\ success' = TRUE /\ shown' = TRUE
    /\ UNCHANGED <<run, retried, present, detected>>
-----------------------------------------------------------------------------
\* A loaded entry is unloaded: its polls are told to stop, and its issues are
\* deleted, ignored or not. Closing the connection takes its time.
UnloadBegins ==
    /\ run = "loaded" /\ data
    /\ run' = "unloading"
    /\ issue' = [i \in Category \cup Model |->
                   IF i \in Category \/ stamp[i] # "none" THEN "none" ELSE issue[i]]
    /\ UNCHANGED <<pollVars, countVars, screenVars, present, modelVars>>

\* Then Home Assistant cancels what is left of the polls.
UnloadEnds ==
    /\ run = "unloading"
    /\ run' = "gone" /\ phase' = "idle"
    /\ UNCHANGED <<retried, countVars, screenVars, issue, present, modelVars>>

\* The entry is set up again.
Setup ==
    /\ run = "gone" /\ run' = "loaded"
    /\ NewCoordinator
    /\ UNCHANGED <<pollVars, issue, present>>

\* The user ignores an issue.
Ignore ==
    /\ \E i \in Category \cup Model :
         issue[i] = "shown" /\ issue' = [issue EXCEPT ![i] = "ignored"]
    /\ UNCHANGED <<run, pollVars, countVars, screenVars, present, modelVars>>

\* STALE_MODEL_TOLERANCE_SECONDS pass for a stamp.
StampAges ==
    /\ \E m \in Model : stamp[m] = "young" /\ stamp' = [stamp EXCEPT ![m] = "old"]
    /\ UNCHANGED <<run, pollVars, countVars, screenVars, issue, present,
                   detected, new, missing>>

\* The device shows other models than before.
DeviceChanges ==
    /\ present' \in SUBSET Model /\ present' # present
    /\ UNCHANGED <<run, pollVars, countVars, screenVars, issue, modelVars>>

Next ==
    \/ Begin \/ Skip \/ ListModels \/ AttemptFails \/ CycleFails \/ CycleSucceeds
    \/ UnloadBegins \/ UnloadEnds \/ Setup
    \/ Ignore \/ StampAges \/ DeviceChanges

Spec == Init /\ [][Next]_vars
=============================================================================
