------------------------- MODULE PollHealthProperties -------------------------
(***************************************************************************)
(* What the bookkeeping of PollHealth promises to somebody who looks at    *)
(* the entities and at the Repairs panel.                                  *)
(***************************************************************************)
EXTENDS PollHealth

\* The entities of an entry that has data show an outage exactly from the
\* cycle on that uses up the tolerance, although Home Assistant redraws them
\* only after the first failure in a row (_count_failed_cycle: "it would just
\* freeze on the last good value forever").
EntitiesTellTheOutage ==
    run = "loaded" /\ data => (shown <=> failed <= Tolerance)

\* The shown issue of a loaded entry's category stands for failures since the
\* last success: none outlives the recovery or the unload (_after_failed_cycle,
\* _clear_repair_issues). One raised during setup waits for the first success.
IssuesStandForFailures ==
    \A c \in Category :
        issue[c] = "shown" /\ (data \/ run # "loaded")
        => run = "loaded" /\ counts[c] >= Threshold[c]

\* An inverter that announced its shutdown, or may always be off, raises no
\* issue for not being reachable, however long it stays away and whatever
\* else fails meanwhile (_downtime_is_expected, issue #52).
StandbyIsNoFault == asleep \/ StandbyWhenIdle => issue["transport"] # "shown"

\* While the entry is loaded, a model never loses its stamp and keeps its
\* issue on the screen: by the stamp alone the next success and the unload
\* find the issue (_clear_repair_issues, _update_stale_model_tracking).
ShownIssueKeepsItsStamp ==
    [][\A m \in Model :
         run = "loaded" /\ stamp[m] # "none" /\ stamp'[m] = "none"
         => issue'[m] # "shown"]_vars

\* Until the entry is unloaded, a category's issue that the user ignored
\* stays ignored, through recoveries and new failures (_delete_issue, #52).
IgnoredStaysIgnored ==
    [][\A c \in Category :
         issue[c] = "ignored" /\ issue'[c] # "ignored" => run' # "loaded"]_vars
-----------------------------------------------------------------------------
\* "An entry that is being unloaded or removed should not leave anything at
\* all behind" (_clear_repair_issues). The code leaves something: see the
\* README.
NothingLeftBehind ==
    run = "gone" => \A i \in Category \cup Model : issue[i] = "none"
-----------------------------------------------------------------------------
(***************************************************************************)
(* The invariant behind the proofs of PollHealthProofs. The screen agrees  *)
(* with the tolerance also in the middle of an unload, and a coordinator   *)
(* without data has stamped no model, so that a retried setup forgets none.*)
(***************************************************************************)
ScreenFollowsTolerance == data => (shown <=> failed <= Tolerance)

StampsComeWithData == ~data => stamp = NoStamps

IInv ==
    /\ TypeOK
    /\ ScreenFollowsTolerance
    /\ IssuesStandForFailures
    /\ StandbyIsNoFault
    /\ StampsComeWithData
=============================================================================
