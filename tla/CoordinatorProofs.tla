--------------------------- MODULE CoordinatorProofs ---------------------------
(***************************************************************************)
(* Proofs about what goes by the polls of a coordinator: first the failure *)
(* counters, availability and Repairs issues of PollHealth, for any        *)
(* optional models, tolerance, thresholds and number of failures in a row; *)
(* then the battery plan, for any length of the day, windows, battery and  *)
(* timers, and any number of changes, failures and restarts.               *)
(***************************************************************************)
EXTENDS PollHealthProperties, BatteryPlanProperties, TLAPS

\* Numbers of failures and the issue of a category are what they look like.
LEMMA ConstantTypes ==
    /\ Tolerance \in Nat
    /\ \A c \in Category : Threshold[c] \in Nat \ {0}
    /\ \A m \in Model : m \notin Category
    /\ "transport" \in Category /\ "transient" \notin Category
PROOF
  BY CountsArePositive, ModelsAreNoCategories DEF Threshold, Category

\* What a coordinator starts with.
LEMMA FreshTypes ==
    /\ NoFailures \in [Category -> 0..0]
    /\ NoStamps \in [Model -> {"none", "young", "old"}]
PROOF
  BY DEF NoFailures, NoStamps

\* The program starts with nothing counted, stamped or raised.
LEMMA Initially == Init => IInv
PROOF
  <1> SUFFICES ASSUME Init PROVE IInv
    OBVIOUS
  <1>1. TypeOK
    BY FreshTypes DEF Init, TypeOK
  <1>2. \A i \in Category \cup Model : issue[i] = "none"
    BY DEF Init
  <1>3. ScreenFollowsTolerance /\ IssuesStandForFailures /\ StandbyIsNoFault /\ StampsComeWithData
    <2>1. ~data /\ stamp = NoStamps
      BY DEF Init
    <2>2. \A c \in Category : issue[c] # "shown"
      BY <1>2
    <2> QED BY <2>1, <2>2, ConstantTypes
            DEF ScreenFollowsTolerance, IssuesStandForFailures, StandbyIsNoFault, StampsComeWithData
  <1> QED BY <1>1, <1>3 DEF IInv

\* What a raised and a deleted issue may be.
LEMMA IssueOutcomes ==
    ASSUME NEW i
    PROVE  /\ Raised(i) \in {"shown", "ignored"}
           /\ Deleted(i) \in {"none", "ignored"}
           /\ issue[i] = "ignored" => Raised(i) = "ignored" /\ Deleted(i) = "ignored"
PROOF
  BY DEF Raised, Deleted

\* Counting a failed cycle leaves the screen in step with the tolerance: it is
\* redrawn after the first failure and at the one that uses the tolerance up,
\* and in between the answer does not change.
LEMMA CountKeepsScreen ==
    ASSUME TypeOK, ScreenFollowsTolerance, data, CountFailedCycle, data' = data
    PROVE  /\ ScreenFollowsTolerance'
           /\ failed' = failed + 1 /\ failed' \in Nat
           /\ success' \in BOOLEAN /\ shown' \in BOOLEAN
PROOF
  <1>1. /\ failed \in Nat /\ failed' = failed + 1 /\ failed' \in Nat
        /\ success' \in BOOLEAN /\ Tolerance \in Nat
    <2>1. failed \in Nat /\ failed' = failed + 1 /\ success' = FALSE
      BY DEF TypeOK, CountFailedCycle
    <2>2. success' \in BOOLEAN
      BY <2>1, Zenon
    <2> QED BY <2>1, <2>2, CountsArePositive
  <1>2. CASE failed + 1 = Tolerance + 1 \/ success
    <2>1. shown' = (data /\ failed' <= Tolerance)
      BY <1>2 DEF CountFailedCycle, Available
    <2>2. ScreenFollowsTolerance' /\ shown' \in BOOLEAN
      BY <2>1 DEF ScreenFollowsTolerance
    <2> QED BY <1>1, <2>2
  <1>3. CASE ~(failed + 1 = Tolerance + 1 \/ success)
    <2>1. shown' = shown /\ shown \in BOOLEAN
      BY <1>3 DEF CountFailedCycle, TypeOK
    <2>2. failed <= Tolerance <=> failed' <= Tolerance
      BY <1>1, <1>3
    <2>3. ScreenFollowsTolerance'
      BY <2>1, <2>2 DEF ScreenFollowsTolerance
    <2> QED BY <1>1, <2>1, <2>3
  <1> QED BY <1>2, <1>3

\* An error counts for its category alone, and never downwards.
LEMMA CountsGrow ==
    ASSUME TypeOK, NEW category \in Category \cup {"transient"}
    PROVE  /\ CountsAfter(category) \in [Category -> 0..(failed + 1)]
           /\ \A c \in Category : CountsAfter(category)[c] >= counts[c]
PROOF
  BY DEF TypeOK, CountsAfter

\* The issue of an error is that of its category, raised from the threshold
\* on, and for a silent device only when the silence was not announced.
LEMMA IssueAfterAnError ==
    ASSUME TypeOK, NEW category \in Category \cup {"transient"}
    PROVE  /\ IssueAfter(category) \in [Category \cup Model -> {"none", "shown", "ignored"}]
           /\ \A i \in Category \cup Model :
                \/ IssueAfter(category)[i] = issue[i]
                \/ /\ i = category /\ category \in Category
                   /\ IssueAfter(category)[i] = Raised(i)
                   /\ CountsAfter(category)[category] >= Threshold[category]
                   /\ category = "transport" => ~StandbyWhenIdle /\ ~asleep
PROOF
  <1>1. Raised(category) \in {"shown", "ignored"}
    BY IssueOutcomes
  <1>2. CASE IssueAfter(category) = issue
    BY <1>2 DEF TypeOK
  <1>3. CASE IssueAfter(category) # issue
    <2>1. /\ category \in Category
          /\ category = "transport" => ~StandbyWhenIdle /\ ~asleep
          /\ ~(CountsAfter(category)[category] < Threshold[category])
          /\ IssueAfter(category) = [issue EXCEPT ![category] = Raised(category)]
      BY <1>3 DEF IssueAfter, DowntimeIsExpected
    <2>2. CountsAfter(category)[category] \in Nat /\ Threshold[category] \in Nat
      BY <2>1, CountsGrow, ConstantTypes DEF TypeOK
    <2>3. CountsAfter(category)[category] >= Threshold[category]
      BY <2>1, <2>2
    <2> QED BY <1>1, <2>1, <2>3 DEF TypeOK
  <1> QED BY <1>2, <1>3

\* A cycle that succeeded leaves no issue of a category on the screen, and
\* that of a model only if it is still gone or has no stamp.
LEMMA IssuesOfASuccess ==
    ASSUME TypeOK
    PROVE  /\ IssuesAfterSuccess \in [Category \cup Model -> {"none", "shown", "ignored"}]
           /\ \A c \in Category : IssuesAfterSuccess[c] = Deleted(c)
           /\ \A m \in Model : stamp[m] # "none" /\ Restamped(m) = "none"
                               => IssuesAfterSuccess[m] \in {"none", "ignored"}
PROOF
  <1>1. \A i \in Category \cup Model : Cleared[i] \in {"none", "shown", "ignored"}
    BY IssueOutcomes DEF TypeOK, Cleared
  <1>2. IssuesAfterSuccess \in [Category \cup Model -> {"none", "shown", "ignored"}]
    BY <1>1 DEF IssuesAfterSuccess
  <1>3. \A c \in Category : IssuesAfterSuccess[c] = Deleted(c)
    BY DEF IssuesAfterSuccess, Cleared
  <1>4. ASSUME NEW m \in Model, stamp[m] # "none", Restamped(m) = "none"
        PROVE  IssuesAfterSuccess[m] \in {"none", "ignored"}
    <2>1. m \notin Category /\ Cleared[m] = Deleted(m)
      BY <1>4, ConstantTypes DEF Cleared
    <2> QED BY <1>4, <2>1, IssueOutcomes DEF IssuesAfterSuccess
  <1> QED BY <1>2, <1>3, <1>4

\* A coordinator that begins has nothing on the screen, and the standby it
\* may have announced is forgotten.
LEMMA NewCoordinatorKeepsIInv ==
    ASSUME IInv, NewCoordinator,
           run' = "loaded", phase' \in {"idle", "connect", "listed"}, retried' \in BOOLEAN,
           present' = present,
           issue' \in [Category \cup Model -> {"none", "shown", "ignored"}],
           issue'["transport"] = "shown" => issue["transport"] = "shown" \/ ~StandbyWhenIdle
    PROVE  IInv'
PROOF
  <1>1. TypeOK'
    BY FreshTypes DEF IInv, TypeOK, NewCoordinator
  <1>2. ScreenFollowsTolerance' /\ IssuesStandForFailures'
    BY DEF NewCoordinator, ScreenFollowsTolerance, IssuesStandForFailures
  <1>3. StandbyIsNoFault'
    <2>1. asleep' = FALSE
      BY DEF NewCoordinator
    <2>2. StandbyWhenIdle => issue["transport"] # "shown"
      BY DEF IInv, StandbyIsNoFault
    <2> QED BY <2>1, <2>2 DEF StandbyIsNoFault
  <1>4. StampsComeWithData'
    BY DEF StampsComeWithData, NewCoordinator, NoStamps
  <1> QED BY <1>1, <1>2, <1>3, <1>4 DEF IInv

-----------------------------------------------------------------------------
\* Every action keeps the invariant.
LEMMA StepKeepsIInv == IInv /\ [Next]_vars => IInv'
PROOF
  <1> SUFFICES ASSUME IInv, [Next]_vars PROVE IInv'
    OBVIOUS
  <1> USE DEF pollVars, countVars, screenVars, modelVars
  <1>1. CASE Begin \/ ListModels \/ AttemptFails \/ DeviceChanges
    <2>1. TypeOK'
      BY <1>1 DEF Begin, ListModels, AttemptFails, DeviceChanges, IInv, TypeOK
    <2> QED BY <1>1, <2>1
            DEF Begin, ListModels, AttemptFails, DeviceChanges, IInv, ScreenFollowsTolerance,
                IssuesStandForFailures, StandbyIsNoFault, StampsComeWithData
  <1>2. CASE Skip
    <2>1. CASE run # "loaded"
      <3>1. TypeOK'
        BY <1>2, <2>1 DEF Skip, IInv, TypeOK
      <3> QED BY <1>2, <2>1, <3>1
              DEF Skip, IInv, ScreenFollowsTolerance, IssuesStandForFailures,
                  StandbyIsNoFault, StampsComeWithData
    <2>2. CASE run = "loaded" /\ ~data
      BY <1>2, <2>2, NewCoordinatorKeepsIInv DEF Skip, IInv, TypeOK
    <2>3. CASE run = "loaded" /\ data
      <3>1. CountFailedCycle /\ UNCHANGED <<run, data, counts, asleep, modelVars, issue, present, retried>>
            /\ phase' = "idle"
        BY <1>2, <2>3 DEF Skip
      <3>2. /\ ScreenFollowsTolerance' /\ failed' = failed + 1 /\ failed' \in Nat
            /\ success' \in BOOLEAN /\ shown' \in BOOLEAN
        BY <2>3, <3>1, CountKeepsScreen DEF IInv
      <3>3. TypeOK'
        BY <3>1, <3>2 DEF IInv, TypeOK
      <3> QED BY <2>3, <3>1, <3>2, <3>3
              DEF IInv, IssuesStandForFailures, StandbyIsNoFault, StampsComeWithData
    <2> QED BY <2>1, <2>2, <2>3
  <1>3. CASE CycleFails
    <2>1. CASE run # "loaded"
      <3>1. TypeOK'
        BY <1>3, <2>1 DEF CycleFails, IInv, TypeOK
      <3> QED BY <1>3, <2>1, <3>1
              DEF CycleFails, IInv, ScreenFollowsTolerance, IssuesStandForFailures,
                  StandbyIsNoFault, StampsComeWithData
    <2>2. CASE run = "loaded"
      <3>1. PICK category \in Category \cup {"transient"} :
              /\ issue' = IssueAfter(category)
              /\ IF data
                 THEN /\ counts' = CountsAfter(category)
                      /\ CountFailedCycle
                      /\ UNCHANGED <<data, asleep, modelVars>>
                 ELSE NewCoordinator
        BY <1>3, <2>2 DEF CycleFails
      <3>2. phase' = "idle" /\ UNCHANGED <<run, retried, present>>
        BY <1>3 DEF CycleFails
      <3>3. issue' \in [Category \cup Model -> {"none", "shown", "ignored"}]
        BY <3>1, IssueAfterAnError DEF IInv
      <3>4. issue'["transport"] = "shown"
            => issue["transport"] = "shown" \/ (~StandbyWhenIdle /\ ~asleep)
        BY <3>1, IssueAfterAnError, ConstantTypes DEF IInv
      <3>5. CASE ~data
        BY <2>2, <3>1, <3>2, <3>3, <3>4, <3>5, NewCoordinatorKeepsIInv DEF IInv, TypeOK
      <3>6. CASE data
        <4>1. /\ ScreenFollowsTolerance' /\ failed' = failed + 1 /\ failed' \in Nat
              /\ success' \in BOOLEAN /\ shown' \in BOOLEAN
          BY <3>1, <3>6, CountKeepsScreen DEF IInv
        <4>2. /\ counts' \in [Category -> 0..failed']
              /\ \A c \in Category : counts'[c] >= counts[c]
          BY <3>1, <3>6, <4>1, CountsGrow DEF IInv
        <4>3. TypeOK'
          BY <2>2, <3>1, <3>2, <3>3, <3>6, <4>1, <4>2 DEF IInv, TypeOK
        <4>4. IssuesStandForFailures'
          <5> SUFFICES ASSUME NEW c \in Category, issue'[c] = "shown"
                       PROVE  counts'[c] >= Threshold[c]
            BY <2>2, <3>2 DEF IssuesStandForFailures
          <5>1. counts[c] \in Nat /\ counts'[c] \in Nat /\ Threshold[c] \in Nat
            BY <4>2, ConstantTypes, <4>1 DEF IInv, TypeOK
          <5>2. CASE issue[c] = "shown"
            <6>1. counts[c] >= Threshold[c]
              BY <3>6, <5>2 DEF IInv, IssuesStandForFailures
            <6> QED BY <4>2, <5>1, <6>1
          <5>3. CASE issue[c] # "shown"
            BY <3>1, <3>6, <5>3, IssueAfterAnError DEF IInv
          <5> QED BY <5>2, <5>3
        <4>5. StandbyIsNoFault' /\ StampsComeWithData'
          BY <3>1, <3>4, <3>6 DEF IInv, StandbyIsNoFault, StampsComeWithData
        <4> QED BY <4>1, <4>3, <4>4, <4>5 DEF IInv
      <3> QED BY <3>5, <3>6
    <2> QED BY <2>1, <2>2
  <1>4. CASE CycleSucceeds
    <2>1. issue' \in [Category \cup Model -> {"none", "shown", "ignored"}]
      BY <1>4, IssuesOfASuccess DEF CycleSucceeds, IInv
    <2>2. \A c \in Category : issue'[c] # "shown"
      BY <1>4, IssuesOfASuccess, IssueOutcomes DEF CycleSucceeds, IInv
    <2>3. stamp' \in [Model -> {"none", "young", "old"}]
      BY <1>4 DEF CycleSucceeds, Restamped, IInv, TypeOK
    <2>4. TypeOK'
      BY <1>4, <2>1, <2>3 DEF CycleSucceeds, IInv, TypeOK, NoFailures
    <2>5. IssuesStandForFailures' /\ StandbyIsNoFault'
      BY <2>2, ConstantTypes DEF IssuesStandForFailures, StandbyIsNoFault
    <2>6. ScreenFollowsTolerance' /\ StampsComeWithData'
      BY <1>4, ConstantTypes DEF CycleSucceeds, ScreenFollowsTolerance, StampsComeWithData
    <2> QED BY <2>4, <2>5, <2>6 DEF IInv
  <1>5. CASE UnloadBegins
    <2>1. TypeOK'
      BY <1>5 DEF UnloadBegins, IInv, TypeOK
    <2>2. \A c \in Category : issue'[c] # "shown"
      BY <1>5 DEF UnloadBegins
    <2> QED BY <1>5, <2>1, <2>2, ConstantTypes
            DEF UnloadBegins, IInv, ScreenFollowsTolerance, IssuesStandForFailures,
                StandbyIsNoFault, StampsComeWithData
  <1>6. CASE UnloadEnds
    <2>1. TypeOK'
      BY <1>6 DEF UnloadEnds, IInv, TypeOK
    <2> QED BY <1>6, <2>1
            DEF UnloadEnds, IInv, ScreenFollowsTolerance, IssuesStandForFailures,
                StandbyIsNoFault, StampsComeWithData
  <1>7. CASE Setup
    BY <1>7, NewCoordinatorKeepsIInv DEF Setup, IInv, TypeOK
  <1>8. CASE Ignore
    <2>1. PICK i \in Category \cup Model :
             issue[i] = "shown" /\ issue' = [issue EXCEPT ![i] = "ignored"]
      BY <1>8 DEF Ignore
    <2>2. \A j \in Category \cup Model : issue'[j] = "shown" => issue[j] = "shown"
      BY <2>1 DEF IInv, TypeOK
    <2>3. TypeOK'
      BY <1>8, <2>1 DEF Ignore, IInv, TypeOK
    <2> QED BY <1>8, <2>2, <2>3, ConstantTypes
            DEF Ignore, IInv, ScreenFollowsTolerance, IssuesStandForFailures,
                StandbyIsNoFault, StampsComeWithData
  <1>9. CASE StampAges
    <2>1. PICK m \in Model : stamp[m] = "young" /\ stamp' = [stamp EXCEPT ![m] = "old"]
      BY <1>9 DEF StampAges
    <2>2. TypeOK'
      BY <1>9, <2>1 DEF StampAges, IInv, TypeOK
    <2>3. data
      BY <2>1 DEF IInv, StampsComeWithData, NoStamps
    <2> QED BY <1>9, <2>2, <2>3
            DEF StampAges, IInv, ScreenFollowsTolerance, IssuesStandForFailures,
                StandbyIsNoFault, StampsComeWithData
  <1>10. CASE UNCHANGED vars
    BY <1>10 DEF vars, IInv, TypeOK, ScreenFollowsTolerance, IssuesStandForFailures,
                 StandbyIsNoFault, StampsComeWithData
  <1> QED
    BY <1>1, <1>2, <1>3, <1>4, <1>5, <1>6, <1>7, <1>8, <1>9, <1>10 DEF Next

\* The invariant holds in every state of every run.
THEOREM InductiveInvariant == Spec => []IInv
PROOF
  <1> QED BY Initially, StepKeepsIInv, PTL DEF Spec

-----------------------------------------------------------------------------
\* Every variable keeps its type, and no category counts more failures than
\* there were failed cycles.
THEOREM TypesHold == Spec => []TypeOK
PROOF
  <1>1. IInv => TypeOK
    BY DEF IInv
  <1> QED BY <1>1, InductiveInvariant, PTL

\* The entities of a loaded entry show an outage exactly from the cycle on
\* that uses up the tolerance (_count_failed_cycle).
THEOREM OutageIsShownInTime == Spec => []EntitiesTellTheOutage
PROOF
  <1>1. IInv => EntitiesTellTheOutage
    BY DEF IInv, ScreenFollowsTolerance, EntitiesTellTheOutage
  <1> QED BY <1>1, InductiveInvariant, PTL

\* A category's issue on the screen stands for as many failures since the last
\* success as its threshold asks for (_record_error, _clear_repair_issues).
THEOREM ShownIssuesStandForFailures == Spec => []IssuesStandForFailures
PROOF
  <1>1. IInv => IssuesStandForFailures
    BY DEF IInv
  <1> QED BY <1>1, InductiveInvariant, PTL

\* An announced standby never raises the issue of an unreachable inverter
\* (_downtime_is_expected, #52).
THEOREM AnnouncedStandbyIsNoFault == Spec => []StandbyIsNoFault
PROOF
  <1>1. IInv => StandbyIsNoFault
    BY DEF IInv
  <1> QED BY <1>1, InductiveInvariant, PTL

\* A model of a loaded entry never loses its stamp and keeps its issue on the
\* screen (_update_stale_model_tracking): only a success takes the stamp of a
\* model that is back, and it deletes the issue; a setup attempt has none.
THEOREM StampGoesWithItsIssue == Spec => ShownIssueKeepsItsStamp
PROOF
  <1> DEFINE Kept(m) ==
        run = "loaded" /\ stamp[m] # "none" /\ stamp'[m] = "none" => issue'[m] # "shown"
  <1>1. IInv /\ [Next]_vars => [\A m \in Model : Kept(m)]_vars
    <2> SUFFICES ASSUME IInv, Next, NEW m \in Model,
                        run = "loaded", stamp[m] # "none", stamp'[m] = "none"
                 PROVE  issue'[m] # "shown"
      OBVIOUS
    <2> USE DEF pollVars, countVars, screenVars, modelVars
    <2>1. data
      BY DEF IInv, StampsComeWithData, NoStamps
    <2>2. CASE CycleSucceeds
      <3>1. Restamped(m) = "none" /\ issue' = IssuesAfterSuccess
        BY <2>2 DEF CycleSucceeds
      <3> QED BY <3>1, IssuesOfASuccess DEF IInv
    <2>3. CASE StampAges
      BY <2>3 DEF StampAges, IInv, TypeOK
    <2>4. CASE Begin \/ Skip \/ ListModels \/ AttemptFails \/ CycleFails
               \/ UnloadBegins \/ UnloadEnds \/ Setup \/ Ignore \/ DeviceChanges
      <3>1. stamp' = stamp
        BY <2>1, <2>4 DEF Begin, Skip, ListModels, AttemptFails, CycleFails, UnloadBegins,
                          UnloadEnds, Setup, Ignore, DeviceChanges
      <3> QED BY <3>1
    <2> QED BY <2>2, <2>3, <2>4 DEF Next
  <1> QED BY <1>1, InductiveInvariant, PTL DEF Spec, ShownIssueKeepsItsStamp

\* An issue that the user ignored stays ignored until the unload, through
\* every recovery and failure (_delete_issue, #52).
THEOREM IgnoredIssueStaysIgnored == Spec => IgnoredStaysIgnored
PROOF
  <1> DEFINE Stays(c) == issue[c] = "ignored" /\ issue'[c] # "ignored" => run' # "loaded"
  <1>1. IInv /\ [Next]_vars => [\A c \in Category : Stays(c)]_vars
    <2> SUFFICES ASSUME IInv, Next, NEW c \in Category,
                        issue[c] = "ignored", issue'[c] # "ignored"
                 PROVE  run' # "loaded"
      OBVIOUS
    <2> USE DEF pollVars, countVars, screenVars, modelVars
    <2>1. CASE CycleSucceeds
      BY <2>1, IssuesOfASuccess, IssueOutcomes DEF CycleSucceeds, IInv
    <2>2. CASE CycleFails
      <3>1. issue' = issue \/ \E category \in Category \cup {"transient"} :
                                 issue' = IssueAfter(category)
        BY <2>2 DEF CycleFails
      <3> QED BY <3>1, IssueAfterAnError, IssueOutcomes DEF IInv
    <2>3. CASE UnloadBegins
      BY <2>3 DEF UnloadBegins
    <2>4. CASE Ignore
      BY <2>4 DEF Ignore, IInv, TypeOK
    <2>5. CASE Begin \/ Skip \/ ListModels \/ AttemptFails \/ UnloadEnds \/ Setup
               \/ StampAges \/ DeviceChanges
      BY <2>5 DEF Begin, Skip, ListModels, AttemptFails, UnloadEnds, Setup, StampAges,
                  DeviceChanges
    <2> QED BY <2>1, <2>2, <2>3, <2>4, <2>5 DEF Next
  <1> QED BY <1>1, InductiveInvariant, PTL DEF Spec, IgnoredStaysIgnored
-----------------------------------------------------------------------------
(***************************************************************************)
(* The battery plan, which shares no state with the failure counters here: *)
(* of those it sees only whether the last poll failed.                     *)
(***************************************************************************)
\* A power rounded down to steps is a power, and no larger.
LEMMA RoundedDown ==
    ASSUME NEW x \in Nat, NEW s \in Nat \ {0}
    PROVE  (x \div s) * s \in 0..x
<1> QED OBVIOUS

\* What a mode writes is what the battery takes.
LEMMA RecipeTypes ==
    ASSUME NEW mode \in Mode
    PROVE  /\ Recipe(mode).ctl \in 0..3
           /\ {Recipe(mode).in, Recipe(mode).out} \subseteq Rate
<1>1. \/ Recipe(mode) = [ctl |-> 0, in |-> "full", out |-> "full"]
      \/ Recipe(mode) = [ctl |-> 1, in |-> "charge_limit", out |-> "full"]
      \/ Recipe(mode) = [ctl |-> 2, in |-> "full", out |-> "discharge_limit"]
      \/ Recipe(mode) = [ctl |-> 3, in |-> "charge_limit", out |-> "discharge_limit"]
      \/ Recipe(mode) = [ctl |-> 2, in |-> "full", out |-> "grid_charge"]
      \/ Recipe(mode) = [ctl |-> 1, in |-> "grid_discharge", out |-> "full"]
      \/ Recipe(mode) = [ctl |-> 3, in |-> "charge_limit", out |-> "zero"]
      \/ Recipe(mode) = [ctl |-> 3, in |-> "zero", out |-> "discharge_limit"]
  BY Zenon DEF Mode, Recipe
<1>2. Recipe(mode).ctl \in {0, 1, 2, 3}
  BY <1>1
<1>3. {Recipe(mode).in, Recipe(mode).out} \subseteq Rate
  BY <1>1 DEF Rate, SetpointRate
<1> QED BY <1>2, <1>3

LEMMA RatesInWatts ==
    ASSUME NEW sp \in [SetpointRate -> Nat], NEW rate \in Rate
    PROVE  ResolveRate(rate, sp) \in Watts
<1>1. WChaMax \in Nat
  BY BatteryIsThere
<1>2. \A w \in Nat : Clamped(w) \in 0..WChaMax
  BY <1>1 DEF Clamped
<1>3. CASE rate \in {"full", "zero"}
  <2>1. ResolveRate("full", sp) = WChaMax
    BY DEF ResolveRate, ForcedRate
  <2>2. ResolveRate("zero", sp) = 0
    BY DEF ResolveRate, ForcedRate
  <2> QED BY <1>1, <1>3, <2>1, <2>2 DEF Watts
<1>4. CASE rate \in SetpointRate
  <2>1. sp[rate] \in Nat
    BY <1>4
  <2>2. Clamped(sp[rate]) \in 0..WChaMax
    BY <1>2, <2>1
  <2>3. ResolveRate(rate, sp) \in {-Clamped(sp[rate]), Clamped(sp[rate])}
    BY <1>4 DEF ResolveRate, SetpointRate, ForcedRate
  <2> QED BY <1>1, <2>2, <2>3 DEF Watts
<1> QED BY <1>3, <1>4 DEF Rate

LEMMA InferredModes == \A ctl, in, out : InferMode(ctl, in, out) \in Mode
<1> QED BY DEF InferMode, Mode

\* A phase that writes a mode begins with the rates of the mode.
LEMMA ModePhases ==
    ASSUME setpoints \in [SetpointRate -> Nat], NEW mode \in Mode,
           NEW job \in {"plan", "select"}, NEW again \in BOOLEAN
    PROVE  LET p == ModePhase(job, mode, again) IN
           /\ p \in Phase /\ p.at = "rates" /\ p.mode = mode
           /\ mode = "auto" => p.in = WChaMax /\ p.out = WChaMax
<1> DEFINE p == ModePhase(job, mode, again)
<1>1. /\ ResolveRate(Recipe(mode).in, setpoints) \in Watts
      /\ ResolveRate(Recipe(mode).out, setpoints) \in Watts
  BY RecipeTypes, RatesInWatts
<1>2. p = [at |-> "rates", job |-> job, mode |-> mode, again |-> again, revert |-> 0,
           in |-> ResolveRate(Recipe(mode).in, setpoints),
           out |-> ResolveRate(Recipe(mode).out, setpoints)]
  <2> DEFINE rin == ResolveRate(Recipe(mode).in, setpoints)
             rout == ResolveRate(Recipe(mode).out, setpoints)
  <2>1. p = [Idle EXCEPT !.at = "rates", !.job = job, !.mode = mode, !.again = again,
                         !.in = rin, !.out = rout]
    BY DEF ModePhase
  <2>2. p = [at |-> "rates", job |-> job, mode |-> mode, again |-> again, revert |-> 0,
             in |-> rin, out |-> rout]
    <3> HIDE DEF p, rin, rout
    <3> QED BY <2>1 DEF Idle
  <2> QED BY <2>2
<1>3. p \in Phase
  BY <1>1, <1>2 DEF Phase
<1>4. mode = "auto" => p.in = WChaMax /\ p.out = WChaMax
  BY <1>2 DEF ResolveRate, Recipe, ForcedRate
<1> QED BY <1>2, <1>3, <1>4

LEMMA IdlePhase ==
    /\ Idle \in Phase /\ Idle.at = "idle" /\ Idle.mode = "auto"
    /\ Idle.in = WChaMax /\ Idle.out = WChaMax
<1>1. WChaMax \in Watts
  BY BatteryIsThere DEF Watts
<1> QED BY <1>1 DEF Idle, Phase, Mode

\* A coroutine that waits for the lock.
LEMMA WaitPhases ==
    ASSUME NEW job \in {"plan", "resume", "stop"}
    PROVE  LET p == [Idle EXCEPT !.at = "wait", !.job = job] IN
           /\ p \in Phase /\ p.at = "wait" /\ p.mode = "auto"
           /\ p.in = WChaMax /\ p.out = WChaMax /\ p.job = job
<1> QED BY IdlePhase DEF Phase, Idle

\* The power that is planned is one the battery has.
LEMMA PlannedPowers ==
    ASSUME PlanTypeOK, set.capacity # None, seen.soc # None, NEW hours \in Nat \ {0}
    PROVE  PlannedPower(hours) \in 0..WChaMax
<1> DEFINE gap == IF set.direction = "charge" THEN set.target - seen.soc
                                              ELSE seen.soc - set.target
           energy == IF gap > 0 THEN gap * set.capacity ELSE 0
           rate == Lower(energy \div hours, WChaMax)
<1>1. WChaMax \in Nat /\ PowerStep \in Nat \ {0} /\ Full \in Nat
  BY BatteryIsThere, PowersAreWatts, DayHasTicks
<1>2. set.target \in Nat /\ seen.soc \in Nat /\ set.capacity \in Nat
  BY <1>1 DEF PlanTypeOK, Settings, Reading, Percent, None
<1>3. gap \in Int
  BY <1>2
<1>4. energy \in Nat
  <2> HIDE DEF gap
  <2> QED BY <1>2, <1>3
<1>5. energy \div hours \in Nat
  <2> HIDE DEF energy
  <2> QED BY <1>4
<1>6. rate \in 0..WChaMax
  <2> HIDE DEF energy
  <2> QED BY <1>1, <1>5 DEF Lower
<1>7. (rate \div PowerStep) * PowerStep \in 0..rate
  <2> HIDE DEF rate
  <2> QED BY <1>1, <1>6, RoundedDown
<1>8. (rate \div PowerStep) * PowerStep \in 0..WChaMax
  <2> HIDE DEF rate
  <2> QED BY <1>1, <1>6, <1>7
<1> QED BY <1>8 DEF PlannedPower

LEMMA Hours ==
    ASSUME PlanTypeOK
    PROVE  WindowHours \in Nat \ {0} /\ HoursLeft \in Nat \ {0}
<1>1. Day \in Nat \ {0} /\ {set.start, set.end, clock} \subseteq 0..(Day - 1)
  BY DayHasTicks DEF PlanTypeOK, Settings
<1> QED BY <1>1 DEF WindowHours, HoursLeft, TicksUntil

LEMMA TimersInTicks ==
    ASSUME NEW n \in Nat
    PROVE  RevertTime(n) \in Nat /\ RefreshIn(n) \in Nat \cup {None}
<1>1. LongestRevert \in Nat /\ MinRefresh \in Nat
  BY TimersAreTicks
<1> QED BY <1>1 DEF RevertTime, RefreshIn, Lower

-----------------------------------------------------------------------------
(***************************************************************************)
(* A coroutine gets the update lock and runs to its first write: it ends,  *)
(* it hands the battery back, or it takes the battery over.                *)
(***************************************************************************)
BackPhase(p) ==
    p \in Phase /\ p.at = "rates" /\ p.mode = "auto" /\ p.in = WChaMax /\ p.out = WChaMax
OverPhase(p) == p \in Phase /\ p.at = "timer" /\ p.mode \in ForcedMode
PlannerTyped ==
    /\ plan' \in PlannerState /\ plan'.owned = (plan'.prior # None)
    /\ setpoints' \in [SetpointRate -> Nat] /\ applied' \in BOOLEAN
SamePlan(p) == plan.owned = p.owned /\ p.planned \in {0, plan.planned}

EndsRun(t) ==
    /\ task' = [task EXCEPT ![t] = Idle] /\ busy' = Nobody /\ SamePlan(plan')
    /\ plan.owned /\ (applied \/ plan.changed) => applied' \/ plan'.changed
    /\ t = "disable" /\ seen.there => ~plan.owned
BacksRun(t) ==
    \E p : BackPhase(p) /\ task' = [task EXCEPT ![t] = p] /\ busy' = t /\ SamePlan(plan')
OversRun(t) ==
    \E p : /\ OverPhase(p) /\ task' = [task EXCEPT ![t] = p] /\ busy' = t
           /\ plan'.owned /\ applied' /\ enabled /\ t # "disable"
RunsOn(t) == PlannerTyped /\ (EndsRun(t) \/ BacksRun(t) \/ OversRun(t))

LEMMA BackPhases ==
    ASSUME PlanTypeOK, NEW again \in BOOLEAN
    PROVE  BackPhase(ModePhase("plan", "auto", again))
<1>1. setpoints \in [SetpointRate -> Nat] /\ "auto" \in Mode
  BY DEF PlanTypeOK, Mode
<1> QED BY <1>1, ModePhases DEF BackPhase

LEMMA NothingRuns ==
    ASSUME PlanTypeOK, NEW t \in Task \ {"user"}, NEW p \in PlannerState,
           p.owned = (p.prior # None), SamePlan(p), Nothing(t, p),
           plan.owned /\ plan.changed => p.changed,
           t = "disable" /\ seen.there => ~plan.owned
    PROVE  RunsOn(t)
<1>1. plan' = p /\ setpoints' = setpoints /\ applied' = applied
  BY DEF Nothing
<1>2. task' = [task EXCEPT ![t] = Idle] /\ busy' = Nobody
  BY DEF Nothing, Done
<1>3. PlannerTyped
  BY <1>1 DEF PlannerTyped, PlanTypeOK
<1>4. EndsRun(t)
  BY <1>1, <1>2 DEF EndsRun
<1> QED BY <1>3, <1>4 DEF RunsOn

LEMMA SetAutomaticRuns ==
    ASSUME PlanTypeOK, NEW t \in Task \ {"user"}, NEW p \in PlannerState,
           p.owned = (p.prior # None), SamePlan(p), NEW again \in BOOLEAN,
           SetAutomatic(t, p, again)
    PROVE  RunsOn(t)
<1> DEFINE q == [p EXCEPT !.refresh = None, !.changed = @ \/ (again /\ ~seen.there)]
<1>1. seen.there \in BOOLEAN /\ applied \in BOOLEAN
  BY DEF PlanTypeOK, Reading
<1>2. /\ q \in PlannerState /\ q.owned = p.owned /\ q.prior = p.prior
      /\ q.planned = p.planned
  BY <1>1 DEF PlannerState
<1>3. plan' = q /\ setpoints' = setpoints /\ applied' = (applied \/ ~seen.there)
  BY DEF SetAutomatic
<1>4. PlannerTyped
  <2> HIDE DEF q
  <2> QED BY <1>1, <1>2, <1>3 DEF PlannerTyped, PlanTypeOK
<1>5. SamePlan(plan')
  <2> HIDE DEF q
  <2> QED BY <1>2, <1>3 DEF SamePlan
<1>6. CASE seen.there
  <2>1. Go(t, ModePhase("plan", "auto", again))
    BY <1>6 DEF SetAutomatic
  <2>2. BacksRun(t)
    BY <1>5, <2>1, BackPhases DEF BacksRun, Go
  <2> QED BY <1>4, <2>2 DEF RunsOn
<1>7. CASE ~seen.there
  <2>1. Done(t) /\ applied'
    BY <1>3, <1>7 DEF SetAutomatic
  <2>2. EndsRun(t)
    BY <1>5, <1>7, <2>1 DEF EndsRun, Done
  <2> QED BY <1>4, <2>2 DEF RunsOn
<1> QED BY <1>6, <1>7

\* The changes are taken up, or left for later: nothing else of the plan changes.
LEMMA Adopted ==
    ASSUME PlanTypeOK
    PROVE  /\ {Fresh, Later} \subseteq PlannerState
           /\ \A p \in {Fresh, Later} :
                  p.owned = plan.owned /\ p.prior = plan.prior /\ p.planned = plan.planned
           /\ Later.changed
<1> QED BY DEF PlanTypeOK, PlannerState, Fresh, Later

LEMMA PlanNothingRuns ==
    ASSUME PlanTypeOK, NEW t \in Task \ {"user", "disable"}, PlanNothing(t)
    PROVE  RunsOn(t)
<1>1. applied' = TRUE /\ setpoints' = setpoints
  BY DEF PlanNothing
<1>2. CASE plan.planned > 0
  <2> DEFINE q == [Fresh EXCEPT !.planned = 0, !.refresh = None]
  <2>1. q \in PlannerState /\ q.owned = plan.owned /\ q.prior = plan.prior /\ q.planned = 0
    <3>1. 0 \in 0..WChaMax
      BY BatteryIsThere
    <3>2. /\ Fresh \in PlannerState
          /\ Fresh.owned = plan.owned /\ Fresh.prior = plan.prior
      BY Adopted
    <3> QED BY <3>1, <3>2 DEF PlannerState
  <2>2. plan' = q /\ Go(t, ModePhase("plan", "auto", FALSE))
    BY <1>2 DEF PlanNothing
  <2>3. PlannerTyped /\ SamePlan(plan')
    <3> HIDE DEF q
    <3> QED BY <1>1, <2>1, <2>2 DEF PlannerTyped, PlanTypeOK, SamePlan
  <2>4. BacksRun(t)
    BY <2>2, <2>3, BackPhases DEF BacksRun, Go
  <2> QED BY <2>3, <2>4 DEF RunsOn
<1>3. CASE ~(plan.planned > 0)
  <2>1. plan' = Fresh /\ Done(t)
    BY <1>3 DEF PlanNothing
  <2>2. PlannerTyped /\ SamePlan(plan')
    BY <1>1, <2>1, Adopted DEF PlannerTyped, PlanTypeOK, SamePlan
  <2>3. EndsRun(t)
    BY <1>1, <2>1, <2>2 DEF EndsRun, Done
  <2> QED BY <2>2, <2>3 DEF RunsOn
<1> QED BY <1>2, <1>3

LEMMA PlanPowerRuns ==
    ASSUME PlanTypeOK, NEW t \in Task \ {"user", "disable"}, enabled,
           NEW power \in 0..WChaMax, NEW hours \in Nat \ {0}, PlanPower(t, power, hours)
    PROVE  RunsOn(t)
<1> DEFINE prior == IF plan.owned THEN plan.prior ELSE seen.revert
           q == [Fresh EXCEPT !.planned = power, !.owned = TRUE, !.prior = prior]
           p == [Idle EXCEPT !.at = "timer", !.job = "plan", !.mode = PlanMode,
                             !.revert = RevertTime(hours)]
<1>1. prior \in Nat
  BY DEF PlanTypeOK, Reading, PlannerState
<1>2. q \in PlannerState /\ q.owned = TRUE /\ q.prior = prior
  <2> HIDE DEF prior
  <2> QED BY <1>1, Adopted DEF PlannerState
<1>3. Fresh.prior = plan.prior
  BY Adopted
<1>4. plan' = q /\ applied' = TRUE /\ Go(t, p)
  BY <1>3 DEF PlanPower
<1>5. setpoints' \in [SetpointRate -> Nat]
  <2>1. PlanRate \in SetpointRate /\ power \in Nat
    BY DEF PlanRate, SetpointRate
  <2>2. setpoints' = [setpoints EXCEPT ![PlanRate] = power]
    BY DEF PlanPower
  <2> QED BY <2>1, <2>2 DEF PlanTypeOK
<1>6. OverPhase(p)
  <2>1. PlanMode \in ForcedMode /\ PlanMode \in Mode
    BY DEF PlanMode, ForcedMode, Mode
  <2>2. RevertTime(hours) \in Nat
    BY TimersInTicks
  <2> QED BY <2>1, <2>2, IdlePhase DEF OverPhase, Phase, Idle
<1>7. PlannerTyped
  <2>1. prior # None
    BY <1>1 DEF None
  <2> HIDE DEF q, prior
  <2> QED BY <1>2, <1>4, <1>5, <2>1 DEF PlannerTyped
<1>8. OversRun(t)
  <2> HIDE DEF q, p
  <2> QED BY <1>2, <1>4, <1>6 DEF OversRun, Go
<1> QED BY <1>7, <1>8 DEF RunsOn

LEMMA ApplyRuns ==
    ASSUME PlanTypeOK, NEW t \in Task \ {"user", "disable"}, enabled,
           NEW hours \in Nat \ {0}, Apply(t, hours)
    PROVE  RunsOn(t)
<1>1. /\ Later \in PlannerState /\ Later.owned = (Later.prior # None) /\ SamePlan(Later)
      /\ Fresh \in PlannerState /\ Fresh.owned = (Fresh.prior # None) /\ SamePlan(Fresh)
      /\ Later.changed
  BY Adopted DEF PlanTypeOK, SamePlan
<1>2. CASE Nothing(t, Later)
  BY <1>1, <1>2, NothingRuns
<1>3. CASE ~seen.there /\ plan' = Fresh /\ Done(t) /\ applied' = TRUE /\ UNCHANGED setpoints
  <2>1. PlannerTyped /\ SamePlan(plan')
    BY <1>1, <1>3 DEF PlannerTyped, PlanTypeOK
  <2>2. EndsRun(t)
    BY <1>3, <2>1 DEF EndsRun, Done
  <2> QED BY <2>1, <2>2 DEF RunsOn
<1>4. CASE SetAutomatic(t, Fresh, TRUE)
  BY <1>1, <1>4, SetAutomaticRuns
<1>5. CASE None \notin {set.capacity, seen.soc} /\ PlannedPower(hours) < PowerStep
             /\ PlanNothing(t)
  BY <1>5, PlanNothingRuns
<1>6. CASE None \notin {set.capacity, seen.soc} /\ PlanPower(t, PlannedPower(hours), hours)
  <2>1. PlannedPower(hours) \in 0..WChaMax
    BY <1>6, PlannedPowers
  <2> QED BY <1>6, <2>1, PlanPowerRuns
<1> QED BY <1>2, <1>3, <1>4, <1>5, <1>6, Zenon DEF Apply

LEMMA ResumeRuns ==
    ASSUME PlanTypeOK, NEW t \in Task \ {"user", "disable"}, Resume(t)
    PROVE  RunsOn(t)
<1>1. /\ Fresh \in PlannerState /\ Fresh.owned = (Fresh.prior # None) /\ SamePlan(Fresh)
      /\ plan \in PlannerState /\ plan.owned = (plan.prior # None) /\ SamePlan(plan)
  BY Adopted DEF PlanTypeOK, SamePlan
<1>2. CASE Nothing(t, plan)
  BY <1>1, <1>2, NothingRuns
<1>3. CASE enabled /\ Apply(t, HoursLeft)
  BY <1>3, Hours, ApplyRuns
<1>4. CASE SetAutomatic(t, Fresh, FALSE)
  BY <1>1, <1>4, SetAutomaticRuns
<1>5. CASE ~plan.owned /\ Nothing(t, Fresh)
  BY <1>1, <1>5, NothingRuns
<1> QED BY <1>2, <1>3, <1>4, <1>5, Zenon DEF Resume

\* What a coroutine does with the lock, for each of them.
LEMMA RunOutcome ==
    ASSUME PlanIInv, NEW t \in Task, Run(t)
    PROVE  t # "user" /\ RunsOn(t)
<1>1. PlanTypeOK /\ t # "user"
  BY DEF PlanIInv, PhasesOK, Run
<1>2. plan \in PlannerState /\ plan.owned = (plan.prior # None) /\ SamePlan(plan)
  BY <1>1, Adopted DEF PlanTypeOK, SamePlan
<1>3. CASE t = "start" /\ AtStart(t)
  <2>1. CASE Nothing(t, plan)
    BY <1>1, <1>2, <1>3, <2>1, NothingRuns
  <2>2. CASE enabled /\ Apply(t, WindowHours)
    BY <1>1, <1>3, <2>2, Hours, ApplyRuns
  <2> QED BY <1>1, <1>3, <2>1, <2>2, Zenon DEF AtStart
<1>4. CASE t = "end" /\ AtEnd(t)
  <2>1. CASE Nothing(t, plan)
    BY <1>1, <1>2, <1>4, <2>1, NothingRuns
  <2>2. CASE SetAutomatic(t, plan, FALSE)
    BY <1>1, <1>2, <1>4, <2>2, SetAutomaticRuns
  <2> QED BY <1>1, <1>4, <2>1, <2>2, Zenon DEF AtEnd
<1>5. CASE t = "disable" /\ Disable(t)
  <2> DEFINE p == [plan EXCEPT !.refresh = None]
  <2>1. /\ p \in PlannerState /\ p.owned = (p.prior # None) /\ SamePlan(p)
        /\ p.changed = plan.changed
    BY <1>2 DEF PlannerState, SamePlan
  <2>2. CASE SetAutomatic(t, p, FALSE)
    <3> HIDE DEF p
    <3> QED BY <1>1, <1>5, <2>1, <2>2, SetAutomaticRuns
  <2>3. CASE ~plan.owned /\ Nothing(t, p)
    <3> HIDE DEF p
    <3> QED BY <1>1, <1>5, <2>1, <2>3, NothingRuns
  <2> QED BY <1>1, <1>5, <2>2, <2>3, Zenon DEF Disable
<1>6. CASE t = "poll" /\ StopAtTarget(t)
  <2>1. CASE Nothing(t, plan)
    BY <1>1, <1>2, <1>6, <2>1, NothingRuns
  <2>2. CASE SetAutomatic(t, plan, FALSE)
    BY <1>1, <1>2, <1>6, <2>2, SetAutomaticRuns
  <2> QED BY <1>1, <1>6, <2>1, <2>2, Zenon DEF StopAtTarget
<1>7. CASE t # "disable" /\ Resume(t)
  BY <1>1, <1>7, ResumeRuns
<1>8. \/ t = "start" /\ AtStart(t)
      \/ t = "end" /\ AtEnd(t)
      \/ t = "disable" /\ Disable(t)
      \/ t = "poll" /\ StopAtTarget(t)
      \/ t # "disable" /\ Resume(t)
  BY DEF Run
<1> QED BY <1>1, <1>3, <1>4, <1>5, <1>6, <1>7, <1>8

-----------------------------------------------------------------------------
(***************************************************************************)
(* A step of a coroutine of the planner leaves every other one alone, and  *)
(* none of them has begun.                                                 *)
(***************************************************************************)
\* The phase that t gets, next to the plan that the step leaves.
PhaseFor(t, p) ==
    /\ p \in Phase /\ p.at # "point"
    /\ p.at = "timer" => p.mode \in ForcedMode
    /\ p.mode # "auto" => p.at \notin {"idle", "wait"} /\ plan'.owned
    /\ p.mode = "auto" => p.in = WChaMax /\ p.out = WChaMax
    /\ p.at = "release" => ~plan'.owned /\ p.mode = "auto"
    /\ t = "disable" => p.mode = "auto"
Turns(t, p) ==
    /\ task' = [task EXCEPT ![t] = p] /\ PhaseFor(t, p)
    /\ busy \in {t, Nobody} /\ busy' = IF p.at \in {"idle", "wait"} THEN Nobody ELSE t

LEMMA Turn ==
    ASSUME PlanTypeOK, PhasesOK, NEW t \in Task \ {"user"}, NEW p, Turns(t, p)
    PROVE  /\ task' \in [Task -> Phase] /\ busy' \in (Task \ {"user"}) \cup {Nobody}
           /\ \A u \in Task \ {"user"} : (busy' = u) <=> Writing(u)'
           /\ PhasesOK'
           /\ task'[t] = p /\ \A u \in Task \ {t} : task'[u] = task[u]
           /\ \A u \in Task \ {t, "user"} : ~Writing(u) /\ task[u].mode = "auto"
<1>1. task \in [Task -> Phase] /\ "user" \in Task
  BY DEF PlanTypeOK, Task
<1>2. /\ task' \in [Task -> Phase]
      /\ task'[t] = p /\ \A u \in Task \ {t} : task'[u] = task[u]
  BY <1>1 DEF Turns, PhaseFor
<1>3. Nobody \notin Task
  BY DEF Nobody, Task
<1>4. \A u \in Task \ {t, "user"} : ~Writing(u)
  BY <1>3 DEF PlanTypeOK, Turns
<1>5. \A u \in Task \ {t, "user"} : task[u].mode = "auto"
  BY <1>4 DEF PhasesOK, PlannerPhase
<1>6. busy' \in (Task \ {"user"}) \cup {Nobody}
  BY DEF Turns
<1>7. \A u \in Task \ {"user"} : (busy' = u) <=> Writing(u)'
  <2>1. (busy' = t) <=> Writing(t)'
    BY <1>2, <1>3 DEF Turns, Writing
  <2>2. \A u \in Task \ {t, "user"} : busy' # u /\ ~Writing(u)'
    BY <1>2, <1>3, <1>4 DEF Turns, Writing
  <2> QED BY <2>1, <2>2
<1>8. PhasesOK'
  <2>1. PlannerPhase(t)'
    BY <1>2 DEF Turns, PhaseFor, PlannerPhase, Writing
  <2>2. ASSUME NEW u \in Task \ {t, "user"} PROVE PlannerPhase(u)'
    <3>1. PlannerPhase(u) /\ ~Writing(u) /\ task[u].mode = "auto" /\ task'[u] = task[u]
      BY <1>2, <1>4, <1>5 DEF PhasesOK
    <3> QED BY <3>1 DEF PlannerPhase, Writing
  <2>3. task'["user"] = task["user"]
    BY <1>1, <1>2
  <2> QED BY <2>1, <2>2, <2>3 DEF PhasesOK
<1> QED BY <1>2, <1>4, <1>5, <1>6, <1>7, <1>8

LEMMA RunKeeps == ASSUME PlanIInv, NEW t \in Task, Run(t) PROVE PlanIInv'
<1>1. /\ t \in Task \ {"user"} /\ PlannerTyped
      /\ EndsRun(t) \/ BacksRun(t) \/ OversRun(t)
  BY RunOutcome DEF RunsOn
<1>2. PlanTypeOK /\ PhasesOK /\ PlannedIsApplied /\ LetGo
  BY DEF PlanIInv
<1>3. /\ busy = Nobody /\ dev' = dev /\ seen' = seen /\ ok' = ok /\ set' = set
      /\ enabled' = enabled /\ stopped' = stopped /\ left' = left /\ lost' = lost
      /\ clock' = clock /\ due' = due /\ task[t].at = "wait"
  BY DEF Run, devVars
<1>4. PICK p : Turns(t, p) /\ p.at \in {"idle", "rates", "timer"}
               /\ \/ EndsRun(t) /\ p = Idle
                  \/ BackPhase(p) /\ SamePlan(plan')
                  \/ OverPhase(p) /\ plan'.owned /\ applied' /\ enabled /\ t # "disable"
  <2>1. CASE EndsRun(t)
    <3>1. Turns(t, Idle)
      BY <1>3, <2>1, IdlePhase DEF EndsRun, Turns, PhaseFor
    <3> QED BY <2>1, <3>1, IdlePhase
  <2>2. CASE BacksRun(t)
    <3>1. PICK p : BackPhase(p) /\ task' = [task EXCEPT ![t] = p] /\ busy' = t /\ SamePlan(plan')
      BY <2>2 DEF BacksRun
    <3>2. Turns(t, p) /\ p.at = "rates"
      BY <1>3, <3>1 DEF BackPhase, Turns, PhaseFor
    <3> QED BY <3>1, <3>2
  <2>3. CASE OversRun(t)
    <3>1. PICK p : /\ OverPhase(p) /\ task' = [task EXCEPT ![t] = p] /\ busy' = t
                   /\ plan'.owned /\ applied' /\ enabled /\ t # "disable"
      BY <2>3 DEF OversRun
    <3>2. p.mode # "auto"
      BY <3>1 DEF OverPhase, ForcedMode
    <3>3. Turns(t, p) /\ p.at = "timer"
      BY <1>3, <3>1, <3>2 DEF OverPhase, Turns, PhaseFor
    <3> QED BY <3>1, <3>3
  <2> QED BY <1>1, <2>1, <2>2, <2>3
<1>5. /\ task' \in [Task -> Phase] /\ busy' \in (Task \ {"user"}) \cup {Nobody}
      /\ \A u \in Task \ {"user"} : (busy' = u) <=> Writing(u)'
      /\ PhasesOK' /\ task'[t] = p /\ \A u \in Task \ {t} : task'[u] = task[u]
      /\ \A u \in Task \ {t, "user"} : ~Writing(u) /\ task[u].mode = "auto"
  BY <1>1, <1>2, <1>4, Turn
<1>6. PlanTypeOK'
  BY <1>1, <1>2, <1>3, <1>5 DEF PlanTypeOK, PlannerTyped
<1>7. \A u \in Task : ~HandsBack(u) /\ ~Releases(u)
  BY <1>3, <1>5 DEF HandsBack, Releases, Writing
<1>8. PlannedIsApplied'
  <2>1. plan.planned > 0 /\ ~stopped => plan.owned /\ (applied \/ plan.changed)
    BY <1>2, <1>7 DEF PlannedIsApplied
  <2>2. CASE EndsRun(t)
    <3>1. /\ plan'.owned = plan.owned /\ plan'.planned \in {0, plan.planned}
          /\ plan.owned /\ (applied \/ plan.changed) => applied' \/ plan'.changed
      BY <2>2 DEF EndsRun, SamePlan
    <3> QED BY <1>3, <2>1, <3>1 DEF PlannedIsApplied
  <2>3. CASE BackPhase(p) /\ SamePlan(plan')
    <3>1. plan'.owned = plan.owned /\ plan'.planned \in {0, plan.planned}
      BY <2>3 DEF SamePlan
    <3>2. HandsBack(t)'
      BY <1>1, <1>5, <2>3 DEF BackPhase, HandsBack, Writing
    <3> QED BY <1>1, <1>3, <2>1, <3>1, <3>2 DEF PlannedIsApplied
  <2>4. CASE plan'.owned /\ applied'
    BY <2>4 DEF PlannedIsApplied
  <2> QED BY <1>4, <2>2, <2>3, <2>4
<1>9. LetGo'
  <2> SUFFICES ASSUME ~lost PROVE LetGo'
    BY <1>3 DEF LetGo
  <2>1. /\ NothingFailed
        /\ Tame \/ plan.owned
        /\ enabled \/ OnTheWayBack \/ AllBack
    BY <1>2 DEF LetGo
  <2>2. NothingFailed'
    BY <1>1, <1>3, <1>5, <2>1 DEF NothingFailed, Task
  <2>3. Tame' = Tame
    BY <1>3 DEF Tame
  <2>4. plan.owned => plan'.owned
    BY <1>4 DEF EndsRun, SamePlan
  <2>5. \A u \in Task : HandsBack(u)' => task'[u].at = "rates"
    <3>1. HandsBack(t)' => task'[t].at = "rates"
      BY <1>4, <1>5, IdlePhase DEF HandsBack, Writing, BackPhase, OverPhase, ForcedMode
    <3>2. \A u \in Task \ {t} : ~HandsBack(u)'
      BY <1>5 DEF HandsBack, Writing
    <3> QED BY <3>1, <3>2
  <2>6. task["user"] = Idle /\ "user" \in Task /\ "disable" \in Task
    BY <2>1 DEF NothingFailed, Task
  <2>7. \A u \in Task \ {t} : ~Writing(u)'
    BY <1>5, <2>6, IdlePhase DEF Writing
  <2>8. ~enabled => OnTheWayBack' \/ AllBack'
    <3> SUFFICES ASSUME ~enabled PROVE OnTheWayBack' \/ AllBack'
      OBVIOUS
    <3>1. p.mode = "auto"
      BY <1>4, IdlePhase DEF BackPhase
    <3>2. CASE t # "disable"
      <4>1. OnTheWayBack => OnTheWayBack'
        BY <1>5, <2>6, <3>2 DEF OnTheWayBack
      <4>2. AllBack => AllBack'
        BY <1>5, <2>3, <2>7, <3>1 DEF AllBack
      <4> QED BY <2>1, <4>1, <4>2
    <3>3. CASE t = "disable"
      <4>1. CASE EndsRun(t)
        <5>1. Tame
          BY <2>1, <3>3, <4>1 DEF EndsRun, NothingFailed
        <5> QED BY <1>5, <2>3, <2>7, <3>1, <5>1 DEF AllBack
      <4>2. CASE BackPhase(p)
        BY <1>5, <3>3, <4>2 DEF BackPhase, OnTheWayBack
      <4> QED BY <1>4, <3>3, <4>1, <4>2
    <3> QED BY <3>2, <3>3
  <2> QED BY <1>3, <2>1, <2>2, <2>3, <2>4, <2>5, <2>8 DEF LetGo
<1> QED BY <1>5, <1>6, <1>8, <1>9 DEF PlanIInv

-----------------------------------------------------------------------------
(***************************************************************************)
(* The writes of the planner.                                              *)
(***************************************************************************)
LEMMA Troubles ==
    ASSUME PlanTypeOK, Trouble \/ NoTrouble
    PROVE  left' \in Nat /\ lost' \in BOOLEAN /\ (lost => lost') /\ (Trouble => lost')
<1>1. left \in Nat /\ lost \in BOOLEAN
  BY DEF PlanTypeOK
<1>2. left' \in Nat
  BY <1>1 DEF Trouble, NoTrouble, Event
<1>3. (Trouble => lost') /\ (lost => lost') /\ lost' \in BOOLEAN
  BY <1>1 DEF Trouble, NoTrouble
<1> QED BY <1>2, <1>3

\* The writer holds the lock, and what it writes is of the device's types.
LEMMA Writers ==
    ASSUME PlanIInv, NEW t \in Task \ {"user"}, Writing(t)
    PROVE  /\ busy = t /\ task[t] \in Phase /\ PlannerPhase(t)
           /\ \A u \in Task \ {t, "user"} : ~Writing(u) /\ task[u].mode = "auto"
           /\ \A u \in Task \ {t} : ~HandsBack(u) /\ ~Releases(u)
           /\ dev \in Registers /\ setpoints \in [SetpointRate -> Nat]
           /\ plan \in PlannerState /\ plan.owned = (plan.prior # None)
<1>1. PlanTypeOK /\ PhasesOK
  BY DEF PlanIInv
<1>2. busy = t /\ task[t] \in Phase /\ PlannerPhase(t)
  BY <1>1 DEF PlanTypeOK, PhasesOK
<1>3. \A u \in Task \ {t, "user"} : ~Writing(u)
  BY <1>1, <1>2 DEF PlanTypeOK
<1>4. \A u \in Task \ {t, "user"} : PlannerPhase(u)
  BY <1>1 DEF PhasesOK
<1>5. \A u \in Task \ {t, "user"} : task[u].mode = "auto"
  BY <1>3, <1>4 DEF PlannerPhase
<1>6. \A u \in Task \ {t} : ~HandsBack(u) /\ ~Releases(u)
  BY <1>3 DEF HandsBack, Releases
<1> QED BY <1>1, <1>2, <1>3, <1>5, <1>6 DEF PlanTypeOK

LEMMA WriterTypes ==
    ASSUME PlanIInv, NEW t \in Task \ {"user"}, Writing(t), NEW p, Turns(t, p),
           PlannerTyped, dev' \in Registers, Trouble \/ NoTrouble,
           UNCHANGED <<clock, due, seen, ok, set, enabled, stopped>>
    PROVE  PlanTypeOK' /\ PhasesOK'
<1>1. PlanTypeOK /\ PhasesOK
  BY DEF PlanIInv
<1>2. left' \in Nat /\ lost' \in BOOLEAN
  BY <1>1, Troubles
<1>3. /\ task' \in [Task -> Phase] /\ busy' \in (Task \ {"user"}) \cup {Nobody}
      /\ \A u \in Task \ {"user"} : (busy' = u) <=> Writing(u)'
      /\ PhasesOK'
  BY <1>1, Turn
<1> QED BY <1>1, <1>2, <1>3 DEF PlanTypeOK, PlannerTyped

\* One that has not failed: it hands back what it wrote, and hands nothing back that it did not.
LEMMA WriterLetsGo ==
    ASSUME PlanIInv, NEW t \in Task \ {"user"}, Writing(t), NEW p, Turns(t, p),
           Trouble \/ NoTrouble, UNCHANGED <<ok, seen, enabled, stopped>>,
           ~lost' => Tame' \/ plan'.owned,
           ~lost' /\ task[t].mode = "auto" => Tame' /\ p.mode = "auto",
           task[t].mode # "auto" => p.mode # "auto" \/ p.at = "idle"
    PROVE  LetGo'
<1> SUFFICES ASSUME ~lost' PROVE LetGo'
  BY DEF LetGo
<1>1. PlanTypeOK /\ PhasesOK /\ LetGo
  BY DEF PlanIInv
<1>2. ~lost
  BY <1>1, Troubles
<1>3. /\ NothingFailed
      /\ enabled \/ OnTheWayBack \/ AllBack
  BY <1>1, <1>2 DEF LetGo
<1>4. /\ task'[t] = p /\ \A u \in Task \ {t} : task'[u] = task[u]
      /\ \A u \in Task \ {t, "user"} : ~Writing(u)
  BY <1>1, Turn
<1>5. task["user"] = Idle /\ "user" \in Task /\ "disable" \in Task
  BY <1>3 DEF NothingFailed, Task
<1>6. NothingFailed'
  BY <1>3, <1>4, <1>5 DEF NothingFailed
<1>7. \A u \in Task \ {t} : ~Writing(u)'
  BY <1>4, <1>5, IdlePhase DEF Writing
<1>8. \A u \in Task : HandsBack(u)' /\ task'[u].at # "rates" => Tame'
  BY <1>4, <1>7 DEF HandsBack, Writing
<1>9. CASE task[t].mode = "auto"
  <2>1. AllBack'
    BY <1>4, <1>7, <1>9 DEF AllBack
  <2> QED BY <1>6, <1>8, <2>1 DEF LetGo
<1>10. CASE task[t].mode # "auto"
  <2>1. t # "disable"
    BY <1>1, <1>10 DEF PhasesOK, PlannerPhase
  <2>2. enabled \/ OnTheWayBack
    BY <1>3, <1>10 DEF AllBack
  <2>3. OnTheWayBack => OnTheWayBack'
    BY <1>4, <1>5, <2>1 DEF OnTheWayBack
  <2> QED BY <1>6, <1>8, <2>2, <2>3 DEF LetGo
<1> QED BY <1>9, <1>10

LEMMA WatchedPlans ==
    ASSUME PlanTypeOK, NEW p \in PlannerState
    PROVE  /\ Watched(p) \in PlannerState /\ Watched(p).planned = p.planned
           /\ Watched(p).owned = p.owned /\ Watched(p).prior = p.prior
           /\ Watched(p).changed = p.changed
<1> DEFINE wait == IF seen.there THEN RefreshIn(seen.revert) ELSE None
<1>1. wait \in Nat \cup {None}
  <2>1. seen.revert \in Nat
    BY DEF PlanTypeOK, Reading
  <2> QED BY <2>1, TimersInTicks
<1>2. Watched(p) = [p EXCEPT !.refresh = wait]
  BY DEF Watched
<1> HIDE DEF wait
<1> QED BY <1>1, <1>2 DEF PlannerState

\* A write that fails ends its coroutine: a plan is left to the next poll, a hand-back is not.
LEMMA GivingUp ==
    ASSUME PlanIInv, NEW t \in Task \ {"user"}, Writing(t), GivesUp(t),
           UNCHANGED setpoints
    PROVE  /\ Turns(t, Idle) /\ PlannerTyped
           /\ plan'.planned = plan.planned /\ plan'.owned = plan.owned
           /\ applied' \/ plan'.changed
<1>1. /\ busy = t /\ plan \in PlannerState /\ plan.owned = (plan.prior # None)
      /\ setpoints \in [SetpointRate -> Nat] /\ task[t].again \in BOOLEAN
  BY Writers DEF Phase
<1>2. PlanTypeOK /\ applied \in BOOLEAN
  BY DEF PlanIInv, PlanTypeOK
<1>3. Turns(t, Idle)
  BY <1>1, IdlePhase DEF GivesUp, Done, Turns, PhaseFor
<1>4. CASE task[t].mode = "auto"
  <2>1. plan' = [plan EXCEPT !.changed = @ \/ task[t].again] /\ applied' = TRUE
    BY <1>2, <1>4 DEF GivesUp
  <2>2. /\ plan' \in PlannerState /\ plan'.planned = plan.planned
        /\ plan'.owned = plan.owned /\ plan'.prior = plan.prior
    BY <1>1, <2>1 DEF PlannerState
  <2> QED BY <1>1, <1>3, <2>1, <2>2 DEF PlannerTyped
<1>5. CASE task[t].mode # "auto"
  <2>1. plan' = Watched(Later) /\ applied' = applied
    BY <1>2, <1>5 DEF GivesUp
  <2>2. /\ plan' \in PlannerState /\ plan'.planned = plan.planned
        /\ plan'.owned = plan.owned /\ plan'.prior = plan.prior /\ plan'.changed
    BY <1>2, <2>1, Adopted, WatchedPlans
  <2> QED BY <1>1, <1>2, <1>3, <2>1, <2>2 DEF PlannerTyped
<1> QED BY <1>4, <1>5

LEMMA GivingUpKeeps ==
    ASSUME PlanIInv, NEW t \in Task \ {"user"}, Writing(t), GivesUp(t), Trouble,
           task[t].at # "release", dev' \in Registers,
           UNCHANGED <<clock, due, seen, ok, set, enabled, setpoints, stopped>>
    PROVE  PlanIInv'
<1>1. /\ Turns(t, Idle) /\ PlannerTyped
      /\ plan'.planned = plan.planned /\ plan'.owned = plan.owned
      /\ applied' \/ plan'.changed
  BY GivingUp
<1>2. PlanTypeOK' /\ PhasesOK'
  BY <1>1, WriterTypes
<1>3. lost'
  BY DEF Trouble
<1>4. PlannedIsApplied'
  <2>1. ~Releases(t)
    BY DEF Releases
  <2>2. plan.planned > 0 /\ ~stopped => plan.owned
    BY <2>1, Writers DEF PlanIInv, PlannedIsApplied
  <2> QED BY <1>1, <2>2 DEF PlannedIsApplied
<1> QED BY <1>2, <1>3, <1>4 DEF PlanIInv, LetGo

LEMMA WriteTimerKeeps == ASSUME PlanIInv, NEW t \in Task, WriteTimer(t) PROVE PlanIInv'
<1>1. t # "user" /\ task[t].at = "timer" /\ Writing(t)
  BY DEF PlanIInv, PhasesOK, WriteTimer, Writing
<1>2. /\ busy = t /\ task[t] \in Phase /\ dev \in Registers
      /\ setpoints \in [SetpointRate -> Nat]
      /\ plan \in PlannerState /\ plan.owned = (plan.prior # None)
      /\ \A u \in Task \ {t, "user"} : ~Writing(u) /\ task[u].mode = "auto"
      /\ \A u \in Task \ {t} : ~HandsBack(u) /\ ~Releases(u)
      /\ task[t].mode \in ForcedMode /\ plan.owned
  BY <1>1, Writers DEF PlannerPhase, ForcedMode
<1>3. task[t].mode # "auto" /\ task[t].mode \in Mode
  BY <1>2 DEF ForcedMode, Phase
<1>4. /\ Trouble \/ NoTrouble
      /\ UNCHANGED <<clock, due, seen, ok, set, enabled, setpoints, stopped>>
  BY DEF WriteTimer
<1>5. dev' \in Registers /\ Tame' = Tame
  <2>1. Lower(DeviceRevert, task[t].revert) \in Nat
    BY <1>2, TimersAreTicks DEF Lower, Phase
  <2>2. \/ dev' = [dev EXCEPT !.revert = Lower(DeviceRevert, task[t].revert)]
        \/ dev' = dev
    BY DEF WriteTimer
  <2> QED BY <1>2, <2>1, <2>2 DEF Registers, Tame
<1>6. CASE ~seen.there
  <2>1. GivesUp(t)
    BY <1>6 DEF WriteTimer
  <2>2. CASE Trouble
    BY <1>1, <1>4, <1>5, <2>1, <2>2, GivingUpKeeps
  <2>3. CASE NoTrouble
    <3>1. lost'
      BY <1>6, <2>3 DEF NoTrouble, PlanIInv, LetGo, NothingFailed
    <3>2. /\ Turns(t, Idle) /\ PlannerTyped
          /\ plan'.planned = plan.planned /\ plan'.owned = plan.owned
          /\ applied' \/ plan'.changed
      BY <1>1, <1>4, <2>1, GivingUp
    <3>3. PlanTypeOK' /\ PhasesOK'
      BY <1>1, <1>4, <1>5, <3>2, WriterTypes
    <3>4. PlannedIsApplied'
      BY <1>2, <3>2 DEF PlannedIsApplied
    <3> QED BY <3>1, <3>3, <3>4 DEF PlanIInv, LetGo
  <2> QED BY <1>4, <2>2, <2>3
<1>7. CASE seen.there
  <2> DEFINE p == ModePhase("plan", task[t].mode, FALSE)
  <2>1. Go(t, p) /\ UNCHANGED <<plan, applied>>
    BY <1>7 DEF WriteTimer, GoesOn
  <2>2. p \in Phase /\ p.at = "rates" /\ p.mode = task[t].mode
    BY <1>2, <1>3, ModePhases
  <2> HIDE DEF p
  <2>3. Turns(t, p) /\ PlannerTyped
    <3>1. applied \in BOOLEAN
      BY DEF PlanIInv, PlanTypeOK
    <3>2. PlannerTyped
      BY <1>2, <1>4, <2>1, <3>1 DEF PlannerTyped
    <3>3. Turns(t, p)
      <4>1. t # "disable"
        BY <1>1, <1>3, Writers DEF PlannerPhase
      <4> QED BY <1>1, <1>2, <1>3, <2>1, <2>2, <4>1 DEF Turns, PhaseFor, Go
    <3> QED BY <3>2, <3>3
  <2>4. PlanTypeOK' /\ PhasesOK'
    BY <1>1, <1>4, <1>5, <2>3, WriterTypes
  <2>5. PlannedIsApplied'
    <3>1. ~HandsBack(t)
      BY <1>3 DEF HandsBack
    <3> QED BY <1>2, <1>4, <2>1, <3>1 DEF PlanIInv, PlannedIsApplied
  <2>6. LetGo'
    <3>1. ~lost' => Tame' \/ plan'.owned
      BY <1>2, <2>1
    <3> QED BY <1>1, <1>3, <1>4, <2>2, <2>3, <3>1, WriterLetsGo
  <2> QED BY <2>4, <2>5, <2>6 DEF PlanIInv
<1> QED BY <1>6, <1>7

\* A step of the user's own writes, which hold no lock.
LEMMA UserTurn ==
    ASSUME PlanIInv, NEW p \in Phase, p.at \in {"idle", "rates", "mode", "point"},
           p.at = "point" => p.job \in {"in", "out"},
           task' = [task EXCEPT !["user"] = p], dev' \in Registers,
           setpoints' \in [SetpointRate -> Nat], Trouble \/ NoTrouble, lost',
           UNCHANGED <<clock, due, seen, ok, set, enabled, plan, busy, stopped, applied>>
    PROVE  PlanIInv'
<1>1. PlanTypeOK /\ PhasesOK /\ PlannedIsApplied
  BY DEF PlanIInv
<1>2. /\ task' \in [Task -> Phase]
      /\ task'["user"] = p /\ \A u \in Task \ {"user"} : task'[u] = task[u]
  BY <1>1 DEF PlanTypeOK, Task
<1>3. \A u \in Task \ {"user"} : Writing(u)' = Writing(u)
  BY <1>2 DEF Writing
<1>4. PlanTypeOK'
  <2>1. \A u \in Task \ {"user"} : (busy' = u) <=> Writing(u)'
    BY <1>1, <1>3 DEF PlanTypeOK
  <2>2. left' \in Nat /\ lost' \in BOOLEAN
    BY <1>1, Troubles
  <2> QED BY <1>1, <1>2, <2>1, <2>2 DEF PlanTypeOK
<1>5. PhasesOK'
  <2>1. ASSUME NEW u \in Task \ {"user"} PROVE PlannerPhase(u)'
    BY <1>1, <1>2, <2>1 DEF PhasesOK, PlannerPhase, Writing
  <2> QED BY <1>2, <2>1 DEF PhasesOK
<1>6. PlannedIsApplied'
  <2>1. \A u \in Task : HandsBack(u)' = HandsBack(u) /\ Releases(u)' = Releases(u)
    BY <1>2 DEF HandsBack, Releases, Writing
  <2> QED BY <1>1, <2>1 DEF PlannedIsApplied
<1> QED BY <1>4, <1>5, <1>6 DEF PlanIInv, LetGo

\* Whoever the user has kept busy, something was lost.
LEMMA UserIsLost ==
    ASSUME PlanIInv, task["user"] # Idle
    PROVE  lost
<1> QED BY DEF PlanIInv, LetGo, NothingFailed

LEMMA WriteRatesKeeps == ASSUME PlanIInv, NEW t \in Task, WriteRates(t) PROVE PlanIInv'
<1> DEFINE p == [task[t] EXCEPT !.at = "mode", !.in = WChaMax, !.out = WChaMax]
           d == [dev EXCEPT !.in = task[t].in, !.out = task[t].out, !.age = 0]
<1>1. /\ task[t].at = "rates" /\ Writing(t)
      /\ UNCHANGED <<clock, due, seen, ok, set, enabled, setpoints, stopped>>
  BY DEF WriteRates, Writing
<1>2. /\ PlanTypeOK /\ task[t] \in Phase /\ dev \in Registers
      /\ setpoints \in [SetpointRate -> Nat] /\ plan \in PlannerState
      /\ plan.owned = (plan.prior # None) /\ applied \in BOOLEAN
  BY DEF PlanIInv, PlanTypeOK
<1>3. /\ p \in Phase /\ p.at = "mode" /\ p.mode = task[t].mode
      /\ p.in = WChaMax /\ p.out = WChaMax
  BY <1>2, IdlePhase DEF Phase
<1>4. d \in Registers /\ d.in = task[t].in /\ d.out = task[t].out /\ d.ctl = dev.ctl
  BY <1>2 DEF Registers, Phase
<1>5. \/ dev' = d /\ GoesOn(t, p) /\ NoTrouble
      \/ dev' = dev /\ GivesUp(t) /\ Trouble
  BY DEF WriteRates
<1> HIDE DEF p, d
<1>6. CASE t = "user"
  <2>1. /\ plan' = plan /\ applied' = applied /\ busy' = busy
        /\ task' = [task EXCEPT !["user"] = p] \/ task' = [task EXCEPT !["user"] = Idle]
    BY <1>2, <1>5, <1>6 DEF GoesOn, GivesUp, Go, Done
  <2>2. lost /\ lost'
    <3>1. lost
      BY <1>1, <1>6, IdlePhase, UserIsLost
    <3> QED BY <1>2, <1>5, <3>1, Troubles
  <2> QED BY <1>1, <1>2, <1>3, <1>4, <1>5, <2>1, <2>2, IdlePhase, UserTurn
<1>7. CASE t # "user" /\ GivesUp(t) /\ Trouble /\ dev' = dev
  BY <1>1, <1>2, <1>7, GivingUpKeeps
<1>8. CASE t # "user" /\ dev' = d /\ GoesOn(t, p) /\ NoTrouble
  <2>1. /\ Go(t, p) /\ plan' = plan /\ applied' = applied
    BY <1>8 DEF GoesOn
  <2>2. /\ busy = t /\ PlannerPhase(t)
        /\ \A u \in Task \ {t} : ~HandsBack(u) /\ ~Releases(u)
    BY <1>1, <1>8, Writers
  <2>3. Turns(t, p) /\ PlannerTyped
    BY <1>1, <1>2, <1>3, <1>8, <2>1, <2>2 DEF Turns, PhaseFor, PlannerPhase, PlannerTyped, Go
  <2>4. PlanTypeOK' /\ PhasesOK'
    BY <1>1, <1>4, <1>8, <2>3, WriterTypes
  <2>5. HandsBack(t) => HandsBack(t)'
    <3>1. task'[t] = p
      BY <1>2, <2>1 DEF Go, PlanTypeOK
    <3> QED BY <1>3, <3>1 DEF HandsBack, Writing
  <2>6. PlannedIsApplied'
    <3>1. ~Releases(t)
      BY <1>1 DEF Releases
    <3> QED BY <1>1, <2>1, <2>2, <2>5, <3>1 DEF PlanIInv, PlannedIsApplied
  <2>7. LetGo'
    <3>1. task[t].mode = "auto" => Tame'
      BY <1>4, <1>8, <2>2 DEF PlannerPhase, Tame
    <3>2. task[t].mode # "auto" => plan'.owned
      BY <2>1, <2>2 DEF PlannerPhase
    <3> QED BY <1>1, <1>3, <1>8, <2>3, <3>1, <3>2, WriterLetsGo
  <2> QED BY <2>4, <2>6, <2>7 DEF PlanIInv
<1> QED BY <1>5, <1>6, <1>7, <1>8

LEMMA WriteModeKeeps == ASSUME PlanIInv, NEW t \in Task, WriteMode(t) PROVE PlanIInv'
<1> DEFINE p == IF t = "user" THEN Idle ELSE [task[t] EXCEPT !.at = "refresh"]
           d == [dev EXCEPT !.ctl = Recipe(task[t].mode).ctl, !.age = 0]
<1>1. /\ task[t].at = "mode" /\ Writing(t)
      /\ UNCHANGED <<clock, due, seen, ok, set, enabled, setpoints, stopped>>
  BY DEF WriteMode, Writing
<1>2. /\ PlanTypeOK /\ task[t] \in Phase /\ dev \in Registers
      /\ setpoints \in [SetpointRate -> Nat] /\ plan \in PlannerState
      /\ plan.owned = (plan.prior # None) /\ applied \in BOOLEAN
  BY DEF PlanIInv, PlanTypeOK
<1>3. CASE t = "user"
  <2>1. d \in Registers
    <3>1. Recipe(task[t].mode).ctl \in 0..3
      BY <1>2, RecipeTypes DEF Phase
    <3> QED BY <1>2, <3>1 DEF Registers
  <2>2. \/ dev' = d /\ GoesOn(t, Idle) /\ NoTrouble
        \/ dev' = dev /\ GivesUp(t) /\ Trouble
    BY <1>3 DEF WriteMode
  <2> HIDE DEF d
  <2>3. /\ plan' = plan /\ applied' = applied /\ busy' = busy
        /\ task' = [task EXCEPT !["user"] = Idle]
    BY <1>2, <1>3, <2>2 DEF GoesOn, GivesUp, Go, Done
  <2>4. lost'
    <3>1. lost
      BY <1>1, <1>3, IdlePhase, UserIsLost
    <3> QED BY <1>2, <2>2, <3>1, Troubles
  <2> QED BY <1>1, <1>2, <2>1, <2>2, <2>3, <2>4, IdlePhase, UserTurn
<1>4. CASE t # "user" /\ GivesUp(t) /\ Trouble /\ dev' = dev
  BY <1>1, <1>2, <1>4, GivingUpKeeps
<1>5. CASE t # "user" /\ dev' = d /\ GoesOn(t, p) /\ NoTrouble
  <2>1. /\ Go(t, p) /\ plan' = plan /\ applied' = applied
    BY <1>5 DEF GoesOn
  <2>2. /\ busy = t /\ PlannerPhase(t)
        /\ \A u \in Task \ {t} : ~HandsBack(u) /\ ~Releases(u)
    BY <1>1, <1>5, Writers
  <2>3. /\ p \in Phase /\ p.at = "refresh" /\ p.mode = task[t].mode
        /\ p.in = task[t].in /\ p.out = task[t].out
    BY <1>2, <1>5 DEF Phase
  <2>4. d \in Registers /\ (task[t].mode = "auto" => d.ctl = 0)
    <3>1. Recipe(task[t].mode).ctl \in 0..3
      BY <1>2, RecipeTypes DEF Phase
    <3>2. Recipe("auto").ctl = 0
      BY DEF Recipe
    <3> QED BY <1>2, <3>1, <3>2 DEF Registers
  <2> HIDE DEF p, d
  <2>5. Turns(t, p) /\ PlannerTyped
    BY <1>1, <1>2, <1>5, <2>1, <2>2, <2>3 DEF Turns, PhaseFor, PlannerPhase, PlannerTyped, Go
  <2>6. PlanTypeOK' /\ PhasesOK'
    BY <1>1, <1>5, <2>4, <2>5, WriterTypes
  <2>7. HandsBack(t) => HandsBack(t)'
    <3>1. task'[t] = p
      BY <1>2, <2>1 DEF Go, PlanTypeOK
    <3> QED BY <2>3, <3>1 DEF HandsBack, Writing
  <2>8. PlannedIsApplied'
    <3>1. ~Releases(t)
      BY <1>1 DEF Releases
    <3> QED BY <1>1, <2>1, <2>2, <2>7, <3>1 DEF PlanIInv, PlannedIsApplied
  <2>9. LetGo'
    <3>1. task[t].mode = "auto" => Tame'
      BY <1>5, <2>4 DEF Tame
    <3>2. task[t].mode # "auto" => plan'.owned
      BY <2>1, <2>2 DEF PlannerPhase
    <3> QED BY <1>1, <1>5, <2>3, <2>5, <3>1, <3>2, WriterLetsGo
  <2> QED BY <2>6, <2>8, <2>9 DEF PlanIInv
<1>6. \/ dev' = d /\ GoesOn(t, p) /\ NoTrouble
      \/ dev' = dev /\ GivesUp(t) /\ Trouble
  BY DEF WriteMode
<1> QED BY <1>3, <1>4, <1>5, <1>6

\* The end of a hand-back: nothing is planned any more.
LEMMA HandedKeeps ==
    ASSUME PlanIInv, NEW t \in Task \ {"user"}, task[t].at \in {"refresh", "release"},
           task[t].mode = "auto", Handed(t), dev' \in Registers, Tame' = Tame,
           Trouble \/ NoTrouble,
           UNCHANGED <<clock, due, seen, ok, set, enabled, setpoints, stopped, applied>>
    PROVE  PlanIInv'
<1>1. Writing(t)
  BY DEF Writing
<1>2. /\ busy = t /\ task[t] \in Phase /\ setpoints \in [SetpointRate -> Nat]
      /\ plan \in PlannerState /\ plan.owned = (plan.prior # None)
      /\ applied \in BOOLEAN /\ 0 \in 0..WChaMax
  BY <1>1, Writers, BatteryIsThere DEF PlanIInv, PlanTypeOK
<1>3. /\ plan' \in PlannerState /\ plan'.planned = 0 /\ plan'.owned = plan.owned
      /\ plan'.prior = plan.prior
  BY <1>2 DEF Handed, PlannerState, Phase
<1>4. Turns(t, Idle) /\ PlannerTyped
  <2>1. Turns(t, Idle)
    BY <1>2, IdlePhase DEF Handed, Done, Turns, PhaseFor
  <2> QED BY <1>2, <1>3, <2>1 DEF PlannerTyped
<1>5. PlanTypeOK' /\ PhasesOK'
  BY <1>1, <1>4, WriterTypes
<1>6. PlannedIsApplied'
  BY <1>3 DEF PlannedIsApplied
<1>7. LetGo'
  <2>1. ~lost' => Tame'
    <3>1. HandsBack(t)
      BY <1>1 DEF HandsBack
    <3>2. lost => lost'
      BY Troubles DEF PlanIInv
    <3> QED BY <3>1, <3>2 DEF PlanIInv, LetGo
  <2> QED BY <1>1, <1>4, <2>1, IdlePhase, WriterLetsGo
<1> QED BY <1>5, <1>6, <1>7 DEF PlanIInv

LEMMA RefreshedKeeps == ASSUME PlanIInv, NEW t \in Task, Refreshed(t) PROVE PlanIInv'
<1>1. /\ t # "user" /\ task[t].at = "refresh" /\ Writing(t)
      /\ UNCHANGED <<clock, due, seen, ok, set, enabled, setpoints, stopped>>
      /\ dev' = dev /\ NoTrouble /\ applied' = applied
  BY DEF PlanIInv, PhasesOK, Refreshed, Writing, devVars, NoTrouble
<1>2. /\ busy = t /\ task[t] \in Phase /\ PlannerPhase(t) /\ dev \in Registers
      /\ setpoints \in [SetpointRate -> Nat]
      /\ plan \in PlannerState /\ plan.owned = (plan.prior # None)
      /\ \A u \in Task \ {t} : ~HandsBack(u) /\ ~Releases(u)
      /\ applied \in BOOLEAN
  BY <1>1, Writers DEF PlanIInv, PlanTypeOK
<1>3. Tame' = Tame
  BY <1>1 DEF Tame
<1>4. CASE task[t].mode # "auto"
  <2>1. plan' = Watched(plan) /\ Done(t) /\ plan.owned
    BY <1>2, <1>4 DEF Refreshed, PlannerPhase
  <2>2. /\ plan' \in PlannerState /\ plan'.owned = plan.owned /\ plan'.prior = plan.prior
        /\ plan'.planned = plan.planned /\ plan'.changed = plan.changed
    BY <1>2, <2>1, WatchedPlans DEF PlanIInv
  <2>3. Turns(t, Idle) /\ PlannerTyped
    <3>1. Turns(t, Idle)
      BY <1>1, <1>2, <2>1, IdlePhase DEF Done, Turns, PhaseFor
    <3> QED BY <1>1, <1>2, <2>2, <3>1 DEF PlannerTyped
  <2>4. PlanTypeOK' /\ PhasesOK'
    BY <1>1, <1>2, <2>3, WriterTypes
  <2>5. PlannedIsApplied'
    <3>1. ~HandsBack(t)
      BY <1>4 DEF HandsBack
    <3> QED BY <1>1, <1>2, <2>1, <2>2, <3>1 DEF PlanIInv, PlannedIsApplied
  <2>6. LetGo'
    BY <1>1, <1>4, <2>1, <2>2, <2>3, IdlePhase, WriterLetsGo
  <2> QED BY <2>4, <2>5, <2>6 DEF PlanIInv
<1>5. CASE task[t].mode = "auto" /\ plan.owned
  <2> DEFINE p == [task[t] EXCEPT !.at = "release", !.revert = plan.prior]
  <2>1. plan' = Released(plan) /\ Go(t, p)
    BY <1>2, <1>5 DEF Refreshed
  <2>2. plan' \in PlannerState /\ plan'.owned = FALSE /\ plan'.prior = None
    BY <1>2, <2>1 DEF Released, PlannerState
  <2>3. /\ p \in Phase /\ p.at = "release" /\ p.mode = "auto"
        /\ p.in = WChaMax /\ p.out = WChaMax
    <3>1. plan.prior \in Nat
      BY <1>2, <1>5 DEF PlannerState
    <3> QED BY <1>2, <1>5, <3>1 DEF PlannerPhase, Phase
  <2> HIDE DEF p
  <2>4. Turns(t, p) /\ PlannerTyped
    <3>1. Turns(t, p)
      BY <1>1, <1>2, <2>1, <2>2, <2>3 DEF Go, Turns, PhaseFor
    <3> QED BY <1>1, <1>2, <2>2, <3>1 DEF PlannerTyped
  <2>5. PlanTypeOK' /\ PhasesOK'
    BY <1>1, <1>2, <2>4, WriterTypes
  <2>6. HandsBack(t)' /\ Releases(t)'
    <3>1. task'[t] = p
      BY <2>1 DEF Go, PlanIInv, PlanTypeOK
    <3> QED BY <1>1, <2>3, <3>1 DEF HandsBack, Releases, Writing
  <2>7. PlannedIsApplied'
    BY <2>6 DEF PlannedIsApplied
  <2>8. LetGo'
    <3>1. ~lost' => Tame'
      <4>1. HandsBack(t)
        BY <1>1, <1>5 DEF HandsBack
      <4> QED BY <1>1, <1>3, <4>1 DEF PlanIInv, LetGo, NoTrouble
    <3> QED BY <1>1, <1>5, <2>3, <2>4, <3>1, WriterLetsGo
  <2> QED BY <2>5, <2>7, <2>8 DEF PlanIInv
<1>6. CASE task[t].mode = "auto" /\ ~plan.owned
  <2>1. Handed(t)
    BY <1>6 DEF Refreshed
  <2> QED BY <1>1, <1>2, <1>3, <1>6, <2>1, HandedKeeps
<1> QED BY <1>4, <1>5, <1>6

LEMMA WriteReleaseKeeps == ASSUME PlanIInv, NEW t \in Task, WriteRelease(t) PROVE PlanIInv'
<1>1. /\ t # "user" /\ task[t].at = "release" /\ Writing(t) /\ Handed(t)
      /\ UNCHANGED <<clock, due, seen, ok, set, enabled, setpoints, stopped, applied>>
      /\ \/ dev' = [dev EXCEPT !.revert = task[t].revert] /\ NoTrouble
         \/ dev' = dev /\ Trouble
  BY DEF PlanIInv, PhasesOK, WriteRelease, Writing
<1>2. task[t] \in Phase /\ PlannerPhase(t) /\ dev \in Registers
  BY <1>1, Writers
<1>3. dev' \in Registers /\ Tame' = Tame
  BY <1>1, <1>2 DEF Registers, Phase, Tame
<1>4. task[t].mode = "auto"
  BY <1>1, <1>2 DEF PlannerPhase
<1> QED BY <1>1, <1>3, <1>4, HandedKeeps

LEMMA WritePointKeeps == ASSUME PlanIInv, WritePoint PROVE PlanIInv'
<1>1. /\ task["user"].at = "point" /\ task["user"].job \in {"in", "out"}
      /\ task["user"] \in Phase /\ dev \in Registers
      /\ setpoints \in [SetpointRate -> Nat]
  BY DEF PlanIInv, PlanTypeOK, PhasesOK, WritePoint, Task
<1>2. /\ \/ dev' = [dev EXCEPT ![task["user"].job] = task["user"].in, !.age = 0]
         \/ dev' = dev
      /\ Trouble \/ NoTrouble
      /\ task' = [task EXCEPT !["user"] = Idle]
      /\ UNCHANGED <<clock, due, seen, ok, set, enabled, plan, setpoints, busy, stopped, applied>>
  BY DEF WritePoint, Done
<1>3. dev' \in Registers
  <2>1. \/ dev' = [dev EXCEPT !.in = task["user"].in, !.age = 0]
        \/ dev' = [dev EXCEPT !.out = task["user"].in, !.age = 0]
        \/ dev' = dev
    <3>1. CASE task["user"].job = "in"
      BY <1>2, <3>1
    <3>2. CASE task["user"].job = "out"
      BY <1>2, <3>2
    <3> QED BY <1>1, <3>1, <3>2
  <2>2. task["user"].in \in Watts
    BY <1>1 DEF Phase
  <2>3. CASE dev' = [dev EXCEPT !.in = task["user"].in, !.age = 0]
    BY <1>1, <2>2, <2>3 DEF Registers
  <2>4. CASE dev' = [dev EXCEPT !.out = task["user"].in, !.age = 0]
    BY <1>1, <2>2, <2>4 DEF Registers
  <2> QED BY <1>1, <2>1, <2>3, <2>4
<1>4. lost'
  <2>1. lost
    BY <1>1, IdlePhase, UserIsLost
  <2> QED BY <1>2, <2>1, Troubles DEF PlanIInv
<1> QED BY <1>1, <1>2, <1>3, <1>4, IdlePhase, UserTurn

-----------------------------------------------------------------------------
(***************************************************************************)
(* The steps of the rest of the world: no write of the planner begins or   *)
(* ends.                                                                   *)
(***************************************************************************)
WaitPhase(p) ==
    p \in Phase /\ p.at = "wait" /\ p.mode = "auto" /\ p.in = WChaMax /\ p.out = WChaMax
QueuesOnly ==
    /\ task' \in [Task -> Phase] /\ busy' = busy /\ task'["user"] = task["user"]
    /\ \A u \in Task \ {"user"} : task'[u] = task[u] \/ (task[u] = Idle /\ WaitPhase(task'[u]))
KeepsPlan ==
    /\ plan' \in PlannerState /\ plan'.owned = plan.owned /\ plan'.prior = plan.prior
    /\ plan'.planned \in {0, plan.planned}
    /\ plan'.planned > 0 /\ (applied \/ plan.changed) => applied' \/ plan'.changed

LEMMA Queues ==
    ASSUME PlanTypeOK, NEW t \in Task \ {"user"}, task[t] = Idle,
           NEW job \in {"plan", "resume", "stop"},
           task' = Queued(t, job), busy' = busy
    PROVE  QueuesOnly /\ task'[t].at = "wait"
<1> DEFINE p == [Idle EXCEPT !.at = "wait", !.job = job]
<1>1. WaitPhase(p)
  BY WaitPhases DEF WaitPhase
<1>2. task' = [task EXCEPT ![t] = p]
  BY DEF Queued
<1> HIDE DEF p
<1>3. /\ task' \in [Task -> Phase] /\ task'[t] = p
      /\ \A u \in Task \ {t} : task'[u] = task[u]
  BY <1>1, <1>2 DEF PlanTypeOK, WaitPhase
<1>4. "user" \in Task \ {t}
  BY DEF Task
<1> QED BY <1>1, <1>3, <1>4 DEF QueuesOnly, WaitPhase

LEMMA NothingQueued ==
    ASSUME PlanTypeOK, task' = task, busy' = busy
    PROVE  QueuesOnly
<1> QED BY DEF PlanTypeOK, QueuesOnly

\* Whatever the world does beside the planner's writes keeps the invariant.
LEMMA WorldKeeps ==
    ASSUME PlanIInv, QueuesOnly, KeepsPlan, UNCHANGED <<setpoints, stopped>>,
           clock' \in 0..(Day - 1), due' \subseteq {"start", "end"}, left' \in Nat,
           dev' \in Registers, seen' \in Reading, set' \in Settings,
           {ok', enabled', applied', lost'} \subseteq BOOLEAN,
           lost => lost', ~lost' => ok' /\ seen'.there /\ seen'.soc # None,
           Tame => Tame', ~lost' /\ enabled /\ ~enabled' => task'["disable"].at = "wait"
    PROVE  PlanIInv'
<1>1. PlanTypeOK /\ PhasesOK /\ PlannedIsApplied /\ LetGo
  BY DEF PlanIInv
<1>2. \A u \in Task \ {"user"} : Writing(u)' = Writing(u) /\ (Writing(u) => task'[u] = task[u])
  BY IdlePhase DEF QueuesOnly, Writing, WaitPhase
<1>3. \A u \in Task : HandsBack(u)' = HandsBack(u) /\ Releases(u)' = Releases(u)
                      /\ (HandsBack(u) => task'[u] = task[u])
  BY <1>2 DEF HandsBack, Releases
<1>4. PlanTypeOK'
  <2>1. \A u \in Task \ {"user"} : (busy' = u) <=> Writing(u)'
    BY <1>1, <1>2 DEF PlanTypeOK, QueuesOnly
  <2>2. plan'.owned = (plan'.prior # None)
    BY <1>1 DEF PlanTypeOK, KeepsPlan
  <2>3. busy' \in (Task \ {"user"}) \cup {Nobody} /\ setpoints' \in [SetpointRate -> Nat]
    BY <1>1 DEF PlanTypeOK, QueuesOnly
  <2>4. stopped' \in BOOLEAN
    BY <1>1 DEF PlanTypeOK
  <2> QED BY <2>1, <2>2, <2>3, <2>4 DEF PlanTypeOK, QueuesOnly, KeepsPlan
<1>5. PhasesOK'
  <2>1. ASSUME NEW u \in Task \ {"user"} PROVE PlannerPhase(u)'
    <3>1. CASE task'[u] = task[u]
      BY <1>1, <3>1 DEF PhasesOK, PlannerPhase, Writing, KeepsPlan
    <3>2. CASE WaitPhase(task'[u])
      BY <3>2 DEF WaitPhase, PlannerPhase
    <3> QED BY <3>1, <3>2 DEF QueuesOnly
  <2> QED BY <1>1, <2>1 DEF PhasesOK, QueuesOnly
<1>6. PlannedIsApplied'
  BY <1>1, <1>3 DEF PlannedIsApplied, KeepsPlan
<1>7. LetGo'
  <2> SUFFICES ASSUME ~lost' PROVE LetGo'
    BY DEF LetGo
  <2>1. /\ NothingFailed
        /\ Tame \/ plan.owned
        /\ \A t \in Task : HandsBack(t) /\ task[t].at # "rates" => Tame
        /\ enabled \/ OnTheWayBack \/ AllBack
    BY <1>1 DEF LetGo
  <2>2. NothingFailed' /\ (Tame' \/ plan'.owned)
    BY <2>1 DEF NothingFailed, QueuesOnly, KeepsPlan
  <2>3. \A t \in Task : HandsBack(t)' /\ task'[t].at # "rates" => Tame'
    BY <1>3, <2>1
  <2>4. OnTheWayBack => OnTheWayBack'
    BY IdlePhase DEF OnTheWayBack, QueuesOnly, Task
  <2>5. AllBack => AllBack'
    <3>1. ~Writing("user") /\ ~Writing("user")'
      BY <2>1, IdlePhase DEF NothingFailed, QueuesOnly, Writing
    <3> QED BY <1>2, <3>1 DEF AllBack
  <2>6. enabled' \/ OnTheWayBack' \/ AllBack'
    BY <2>1, <2>4, <2>5 DEF OnTheWayBack
  <2> QED BY <2>2, <2>3, <2>6 DEF LetGo
<1> QED BY <1>4, <1>5, <1>6, <1>7 DEF PlanIInv

\* The state that the steps above start from.
LEMMA WorldTypes ==
    ASSUME PlanIInv
    PROVE  /\ PlanTypeOK
           /\ clock \in 0..(Day - 1) /\ due \subseteq {"start", "end"} /\ left \in Nat
           /\ dev \in Registers /\ seen \in Reading /\ set \in Settings
           /\ {ok, enabled, stopped, applied, lost} \subseteq BOOLEAN
           /\ plan \in PlannerState
           /\ ~lost => ok /\ seen.there /\ seen.soc # None /\ ~stopped
<1> QED BY DEF PlanIInv, PlanTypeOK, LetGo, NothingFailed

LEMMA TriggerKeeps == ASSUME PlanIInv, NEW t \in {"start", "end"}, Trigger(t) PROVE PlanIInv'
<1>1. t \in Task \ {"user"}
  BY DEF Task
<1>2. QueuesOnly
  BY <1>1, WorldTypes, Queues DEF Trigger
<1>3. KeepsPlan
  BY WorldTypes DEF Trigger, KeepsPlan
<1>4. Tame' = Tame
  BY DEF Trigger, Tame
<1>5. due' \subseteq {"start", "end"}
  BY WorldTypes DEF Trigger
<1> QED BY <1>2, <1>3, <1>4, <1>5, WorldTypes, WorldKeeps DEF Trigger

LEMMA TimerKeeps ==
    ASSUME PlanIInv, NEW t \in {"refresh", "startup"}, TimerFires(t) PROVE PlanIInv'
<1>1. t \in Task \ {"user"}
  BY DEF Task
<1>2. QueuesOnly
  BY <1>1, WorldTypes, Queues DEF TimerFires
<1>3. KeepsPlan
  BY WorldTypes DEF TimerFires, KeepsPlan, PlannerState
<1>4. Tame' = Tame
  BY DEF TimerFires, Tame, devVars
<1> QED BY <1>2, <1>3, <1>4, WorldTypes, WorldKeeps DEF TimerFires, devVars

\* What a poll reads, and what it asks of the planner.
LEMMA PollReads == ASSUME PlanIInv PROVE Read \in Reading /\ Read.there /\ Read.soc # None
<1> QED BY WorldTypes, InferredModes, DayHasTicks DEF Read, Reading, Registers, Percent, None

LEMMA PollAsks ==
    ASSUME PlanIInv, NEW read, OnPoll(read), busy' = busy, applied' = applied
    PROVE  QueuesOnly /\ KeepsPlan
<1>1. "poll" \in Task \ {"user"} /\ PlanTypeOK /\ plan \in PlannerState /\ 0 \in 0..WChaMax
  BY WorldTypes, BatteryIsThere DEF Task
<1>2. CASE UNCHANGED <<plan, task>>
  BY <1>1, <1>2, NothingQueued DEF KeepsPlan
<1>3. CASE task["poll"] = Idle /\ task' = Queued("poll", "resume") /\ plan' = plan
  BY <1>1, <1>3, Queues DEF KeepsPlan
<1>4. CASE /\ task["poll"] = Idle /\ task' = Queued("poll", "stop")
           /\ plan' = [plan EXCEPT !.planned = 0, !.refresh = None]
  <2>1. QueuesOnly
    BY <1>1, <1>4, Queues
  <2>2. /\ plan' \in PlannerState /\ plan'.owned = plan.owned /\ plan'.prior = plan.prior
        /\ plan'.planned = 0
    BY <1>1, <1>4 DEF PlannerState
  <2> QED BY <2>1, <2>2 DEF KeepsPlan
<1> QED BY <1>2, <1>3, <1>4 DEF OnPoll

LEMMA PollKeeps == ASSUME PlanIInv, Poll \/ PollReadsLess \/ PollFails PROVE PlanIInv'
<1>1. /\ UNCHANGED <<devVars, set, enabled, setpoints, busy, stopped, applied>>
      /\ Trouble \/ NoTrouble
  BY DEF Poll, PollReadsLess, PollFails, NoTrouble
<1>2. left' \in Nat /\ lost' \in BOOLEAN /\ (lost => lost') /\ (Trouble => lost')
  BY <1>1, WorldTypes, Troubles
<1>3. ok' \in BOOLEAN
  BY DEF Poll, PollReadsLess, PollFails
<1>4. Tame' = Tame
  BY <1>1 DEF Tame, devVars
<1>5. QueuesOnly /\ KeepsPlan
  <2>1. CASE \E read : OnPoll(read)
    BY <1>1, <2>1, PollAsks
  <2>2. CASE UNCHANGED <<plan, task>>
    BY <1>1, <2>2, WorldTypes, NothingQueued DEF KeepsPlan
  <2> QED BY <2>1, <2>2 DEF Poll, PollReadsLess, PollFails
<1>6. seen' \in Reading /\ (~lost' => ok' /\ seen'.there /\ seen'.soc # None)
  <2>1. CASE Poll
    BY <2>1, PollReads DEF Poll
  <2>2. CASE PollReadsLess
    <3>1. seen' \in {[Read EXCEPT !.there = FALSE], [Read EXCEPT !.soc = None]}
      BY <2>2 DEF PollReadsLess
    <3>2. seen' \in Reading
      BY <3>1, PollReads DEF Reading
    <3> QED BY <1>2, <2>2, <3>2 DEF PollReadsLess
  <2>3. CASE PollFails
    BY <1>2, <2>3, WorldTypes DEF PollFails
  <2> QED BY <2>1, <2>2, <2>3
<1> QED BY <1>1, <1>2, <1>3, <1>4, <1>5, <1>6, WorldTypes, WorldKeeps DEF devVars

LEMMA TickKeeps == ASSUME PlanIInv, Tick PROVE PlanIInv'
<1>1. /\ plan' = [plan EXCEPT !.refresh = IF @ > 0 THEN @ - 1 ELSE @]
      /\ clock' = (clock + 1) % Day /\ task' = task
      /\ UNCHANGED <<seen, ok, set, enabled, setpoints, busy, stopped, left, applied, lost>>
  BY DEF Tick
<1>2. KeepsPlan
  <2> DEFINE wait == IF plan.refresh > 0 THEN plan.refresh - 1 ELSE plan.refresh
  <2>1. wait \in Nat \cup {None}
    BY WorldTypes DEF PlannerState, None
  <2>2. plan' = [plan EXCEPT !.refresh = wait]
    BY <1>1
  <2> HIDE DEF wait
  <2> QED BY <2>1, <2>2, <1>1, WorldTypes DEF KeepsPlan, PlannerState
<1>3. clock' \in 0..(Day - 1)
  BY <1>1, WorldTypes, DayHasTicks
<1>4. due' \subseteq {"start", "end"}
  BY DEF Tick
<1>5. PICK flow \in Flows : dev' = [Aged EXCEPT !.soc = @ + flow]
  BY DEF Tick
<1>6. /\ Aged \in Registers /\ Aged.soc = dev.soc
      /\ Tame => Aged.ctl = 0 \/ (Aged.in = WChaMax /\ Aged.out = WChaMax)
  <2>1. dev \in Registers /\ WChaMax \in Watts
    BY WorldTypes, IdlePhase, BatteryIsThere DEF Watts
  <2>2. CASE dev.ctl = 0 \/ Lapses
    <3>1. Aged = [dev EXCEPT !.ctl = 0, !.in = WChaMax, !.out = WChaMax, !.age = 0]
      BY <2>2 DEF Aged
    <3>2. Aged = [ctl |-> 0, in |-> WChaMax, out |-> WChaMax, revert |-> dev.revert,
                  age |-> 0, soc |-> dev.soc]
      BY <2>1, <3>1, Zenon DEF Registers
    <3> QED BY <2>1, <3>2 DEF Registers
  <2>3. CASE ~(dev.ctl = 0 \/ Lapses)
    <3> DEFINE age == Lower(dev.age + 1, FactoryRevert + LongestRevert)
    <3>1. age \in Nat
      BY <2>1, TimersAreTicks DEF Registers, Lower
    <3>2. Aged = [dev EXCEPT !.age = age]
      BY <2>3 DEF Aged
    <3> HIDE DEF age
    <3> QED BY <2>1, <3>1, <3>2 DEF Registers, Tame
  <2> QED BY <2>2, <2>3
<1>7. dev.soc + flow \in Percent
  BY DEF Flows, Percent
<1>8. dev' \in Registers /\ (Tame => Tame')
  <2> DEFINE charge == dev.soc + flow
  <2>1. dev' = [Aged EXCEPT !.soc = charge]
    BY <1>5, <1>6
  <2> HIDE DEF charge
  <2>2. charge \in Percent
    BY <1>7 DEF charge
  <2> QED BY <1>6, <2>1, <2>2 DEF Registers, Tame
<1>9. QueuesOnly
  BY <1>1, WorldTypes, NothingQueued
<1> QED BY <1>1, <1>2, <1>3, <1>4, <1>8, <1>9, WorldTypes, WorldKeeps

\* What the user changes, the plan takes up at once or with the next poll.
LEMMA ChangeKeeps ==
    ASSUME PlanIInv, ChangeSettings \/ Configure \/ SwitchOn \/ SwitchOff PROVE PlanIInv'
<1>1. /\ Change /\ {"enable", "disable"} \subseteq Task \ {"user"}
      /\ UNCHANGED <<clock, dev, seen, ok, setpoints, busy, stopped, lost>>
  BY DEF ChangeSettings, Configure, NewPlan, SwitchOn, SwitchOff, devVars, Task
<1>2. left' \in Nat
  BY <1>1, WorldTypes DEF Change, Event
<1>3. Tame' = Tame
  BY <1>1 DEF Tame
<1>4. CASE ChangeSettings \/ Configure
  <2>1. NewPlan /\ enabled' \in {enabled, TRUE} /\ due' \subseteq {"start", "end"}
    BY <1>4, WorldTypes DEF ChangeSettings, Configure, NewPlan
  <2>2. /\ set' \in Settings /\ plan' = Later /\ applied' = FALSE /\ task' = task
    BY <2>1, PlansAreSettings DEF NewPlan
  <2>3. QueuesOnly
    BY <1>1, <2>2, WorldTypes, NothingQueued
  <2>4. KeepsPlan
    BY <2>2, WorldTypes, Adopted DEF KeepsPlan
  <2>5. /\ {ok', enabled', applied', lost'} \subseteq BOOLEAN /\ lost' = lost
        /\ enabled => enabled'
    <3>1. enabled \in BOOLEAN /\ ok' = ok /\ ok \in BOOLEAN /\ lost \in BOOLEAN /\ lost' = lost
      BY <1>1, WorldTypes
    <3>2. enabled' \in BOOLEAN /\ (enabled => enabled')
      <4>1. CASE enabled' = enabled
        BY <3>1, <4>1
      <4>2. CASE enabled' = TRUE
        BY <4>2
      <4> QED BY <2>1, <4>1, <4>2
    <3>3. applied' \in BOOLEAN
      BY <2>2
    <3> QED BY <3>1, <3>2, <3>3
  <2> QED BY <1>1, <1>2, <1>3, <2>1, <2>2, <2>3, <2>4, <2>5, WorldTypes, WorldKeeps
<1>5. CASE SwitchOn \/ SwitchOff
  <2>1. PICK t \in {"enable", "disable"} :
           task[t] = Idle /\ task' = Queued(t, "plan") /\ enabled' = (t = "enable")
    BY <1>5 DEF SwitchOn, SwitchOff
  <2>2. QueuesOnly /\ task'[t].at = "wait"
    BY <1>1, <2>1, WorldTypes, Queues
  <2>3. /\ UNCHANGED <<plan, due, set, applied>> /\ enabled' \in BOOLEAN
        /\ enabled /\ ~enabled' => t = "disable"
    BY <1>5, <2>1 DEF SwitchOn, SwitchOff, devVars
  <2>4. KeepsPlan
    BY <2>3, WorldTypes DEF KeepsPlan
  <2> QED BY <1>1, <1>2, <1>3, <2>2, <2>3, <2>4, WorldTypes, WorldKeeps
<1> QED BY <1>4, <1>5

LEMMA SelectKeeps ==
    ASSUME PlanIInv, NEW mode \in UserModes, SelectMode(mode) PROVE PlanIInv'
<1> DEFINE p == ModePhase("select", mode, FALSE)
<1>1. mode \in Mode /\ setpoints \in [SetpointRate -> Nat] /\ dev \in Registers
  BY ModesAreModes DEF PlanIInv, PlanTypeOK
<1>2. p \in Phase /\ p.at = "rates"
  BY <1>1, ModePhases
<1> HIDE DEF p
<1>3. /\ task' = [task EXCEPT !["user"] = p] /\ Trouble
      /\ UNCHANGED <<clock, due, dev, seen, ok, set, enabled, plan, setpoints, busy, stopped, applied>>
  BY DEF SelectMode, Go, Select, p, devVars
<1> QED BY <1>1, <1>2, <1>3, UserTurn DEF Trouble

LEMMA SetPowerKeeps ==
    ASSUME PlanIInv, NEW rate \in ForcedRate, NEW watts \in UserPowers, SetPower(rate, watts)
    PROVE  PlanIInv'
<1> DEFINE power == (watts \div PowerStep) * PowerStep
<1>1. /\ setpoints \in [SetpointRate -> Nat] /\ dev \in Registers /\ task \in [Task -> Phase]
      /\ rate \in SetpointRate /\ rate \in Rate
  BY DEF PlanIInv, PlanTypeOK, ForcedRate, SetpointRate, Rate
<1>2. power \in Nat
  <2>1. watts \in Nat /\ PowerStep \in Nat \ {0}
    BY PowersAreWatts
  <2> QED BY <2>1, RoundedDown
<1> HIDE DEF power
<1>3. setpoints' = [setpoints EXCEPT ![rate] = power]
  BY DEF SetPower, power
<1>4. setpoints' \in [SetpointRate -> Nat]
  BY <1>1, <1>2, <1>3
<1>5. /\ task["user"] = Idle /\ Trouble /\ "user" \in Task
      /\ UNCHANGED <<clock, due, dev, seen, ok, set, enabled, plan, stopped, applied>>
  BY DEF SetPower, Select, devVars, Task
<1>6. PICK p \in Phase : /\ p.at \in {"idle", "point"} /\ (p.at = "point" => p.job \in {"in", "out"})
                         /\ task' = [task EXCEPT !["user"] = p] /\ busy' = busy
  <2>1. CASE UNCHANGED <<task, busy>>
    <3>1. task' = [task EXCEPT !["user"] = Idle]
      BY <1>1, <1>5, <2>1
    <3> QED BY <2>1, <3>1, IdlePhase
  <2>2. CASE Go("user", [Idle EXCEPT !.at = "point", !.job = PointOfRate(rate),
                                     !.in = ResolveRate(rate, setpoints')])
    <3> DEFINE in == ResolveRate(rate, setpoints')
               p == [Idle EXCEPT !.at = "point", !.job = PointOfRate(rate), !.in = in]
    <3>1. in \in Watts /\ PointOfRate(rate) \in {"in", "out"}
      BY <1>1, <1>4, RatesInWatts DEF PointOfRate
    <3>2. Go("user", p)
      BY <2>2
    <3> HIDE DEF in
    <3>3. p \in Phase /\ p.at = "point" /\ p.job \in {"in", "out"}
      BY <3>1, IdlePhase DEF Phase, Idle
    <3> QED BY <3>2, <3>3 DEF Go
  <2> QED BY <2>1, <2>2 DEF SetPower
<1> QED BY <1>1, <1>4, <1>5, <1>6, UserTurn DEF Trouble

LEMMA StopKeeps == ASSUME PlanIInv, NEW crash \in BOOLEAN, Stop(crash) PROVE PlanIInv'
<1> DEFINE ends == IF crash THEN Task ELSE {"poll"}
<1>1. /\ PlanTypeOK /\ PhasesOK /\ ends \subseteq Task /\ Nobody \notin Task
      /\ {"user", "disable"} \subseteq Task
  BY DEF PlanIInv, Task, Nobody
<1>2. /\ Trouble /\ stopped' = TRUE /\ due' = {}
      /\ plan' = [plan EXCEPT !.refresh = None, !.startup = FALSE]
      /\ task' = [t \in Task |-> IF t \in ends THEN Idle ELSE task[t]]
      /\ busy' = IF busy \in ends THEN Nobody ELSE busy
      /\ UNCHANGED <<clock, dev, seen, ok, set, enabled, setpoints, applied>>
  BY DEF Stop
<1> HIDE DEF ends
<1>3. /\ task' \in [Task -> Phase]
      /\ \A u \in Task : task'[u] = IF u \in ends THEN Idle ELSE task[u]
  BY <1>1, <1>2, IdlePhase DEF PlanTypeOK
<1>4. /\ plan' \in PlannerState /\ plan'.owned = plan.owned /\ plan'.prior = plan.prior
  BY <1>1, <1>2 DEF PlanTypeOK, PlannerState
<1>5. PlanTypeOK'
  <2>1. ASSUME NEW u \in Task \ {"user"} PROVE (busy' = u) <=> Writing(u)'
    <3>1. (busy = u) <=> Writing(u)
      BY <1>1 DEF PlanTypeOK
    <3>2. CASE u \in ends
      BY <1>1, <1>2, <1>3, <3>2, IdlePhase DEF Writing
    <3>3. CASE u \notin ends
      <4>1. Writing(u)' = Writing(u)
        BY <1>3, <3>3 DEF Writing
      <4> QED BY <1>1, <1>2, <3>1, <3>3, <4>1
    <3> QED BY <3>2, <3>3
  <2>2. left' \in Nat /\ lost' \in BOOLEAN
    BY <1>1, <1>2, Troubles
  <2>3. plan'.owned = (plan'.prior # None)
    BY <1>1, <1>4 DEF PlanTypeOK
  <2> QED BY <1>1, <1>2, <1>3, <1>4, <2>1, <2>2, <2>3 DEF PlanTypeOK
<1>6. PhasesOK'
  <2>1. ASSUME NEW u \in Task \ {"user"} PROVE PlannerPhase(u)'
    <3>1. CASE u \in ends
      BY <1>3, <3>1, IdlePhase DEF PlannerPhase
    <3>2. CASE u \notin ends
      BY <1>1, <1>3, <1>4, <3>2 DEF PhasesOK, PlannerPhase, Writing
    <3> QED BY <3>1, <3>2
  <2> QED BY <1>1, <1>3, <2>1, IdlePhase DEF PhasesOK
<1> QED BY <1>2, <1>5, <1>6 DEF PlanIInv, PlannedIsApplied, LetGo, Trouble

\* A setup starts from the settings and whether the plan was on.
LEMMA RestoredPlan ==
    ASSUME NEW on \in BOOLEAN
    PROVE  /\ Restored(on) \in PlannerState /\ Restored(on).planned = 0
           /\ Restored(on).owned = FALSE /\ Restored(on).prior = None
<1>1. 0 \in 0..WChaMax
  BY BatteryIsThere
<1> QED BY <1>1 DEF Restored, NoPlan, PlannerState

LEMMA PlanSetupKeeps == ASSUME PlanIInv, PlanSetup PROVE PlanIInv'
<1>1. PlanTypeOK /\ PhasesOK /\ lost /\ AllIdle
  BY DEF PlanSetup, PlanIInv, LetGo, NothingFailed
<1>2. /\ plan' = Restored(enabled) /\ seen' = Read /\ ok' = TRUE /\ stopped' = FALSE
      /\ applied' = FALSE
      /\ UNCHANGED <<clock, due, dev, set, enabled, setpoints, task, busy, left, lost>>
  BY DEF PlanSetup, devVars
<1>3. /\ plan' \in PlannerState /\ plan'.planned = 0 /\ plan'.owned = FALSE
      /\ plan'.prior = None
  BY <1>1, <1>2, RestoredPlan DEF PlanTypeOK
<1>4. \A u \in Task : Writing(u)' = Writing(u)
  BY <1>2 DEF Writing
<1>5. PlanTypeOK'
  BY <1>1, <1>2, <1>3, <1>4, PollReads DEF PlanTypeOK
<1>6. PhasesOK'
  <2>1. ASSUME NEW u \in Task \ {"user"} PROVE PlannerPhase(u)'
    BY <1>1, <1>2, IdlePhase DEF AllIdle, PlannerPhase
  <2> QED BY <1>1, <1>2, <2>1 DEF PhasesOK
<1> QED BY <1>1, <1>2, <1>3, <1>5, <1>6 DEF PlanIInv, PlannedIsApplied, LetGo

LEMMA PlanInitially == PlanInit => PlanIInv
<1> SUFFICES ASSUME PlanInit PROVE PlanIInv
  OBVIOUS
<1>1. /\ Day \in Nat \ {0} /\ Full \in Nat /\ Events \in Nat /\ FactoryRevert \in Nat
      /\ WChaMax \in Nat /\ WChaMax \in Watts
  BY DayHasTicks, ModesAreModes, TimersAreTicks, BatteryIsThere DEF Watts
<1>2. \A t \in Task : task[t] = Idle /\ ~Writing(t)
  BY IdlePhase DEF PlanInit, Writing
<1>3. PlanTypeOK
  <2>1. clock \in 0..(Day - 1) /\ due \subseteq {"start", "end"} /\ left \in Nat
    BY <1>1 DEF PlanInit
  <2>2. dev \in Registers
    BY <1>1 DEF PlanInit, Registers, Percent
  <2>3. seen \in Reading
    BY <1>1 DEF PlanInit, Reading, Percent, Mode
  <2>4. set \in Settings /\ {ok, enabled, stopped, applied, lost} \subseteq BOOLEAN
    BY PlansAreSettings DEF PlanInit
  <2>5. plan \in PlannerState /\ plan.owned = (plan.prior # None)
    <3>1. /\ plan \in PlannerState /\ plan.owned = FALSE /\ plan.prior = None
      BY RestoredPlan DEF PlanInit
    <3> QED BY <3>1
  <2>6. setpoints \in [SetpointRate -> Nat]
    BY <1>1 DEF PlanInit
  <2>7. task \in [Task -> Phase] /\ busy \in (Task \ {"user"}) \cup {Nobody}
    BY IdlePhase DEF PlanInit
  <2>8. \A t \in Task \ {"user"} : (busy = t) <=> Writing(t)
    BY <1>2 DEF PlanInit, Task, Nobody
  <2> QED BY <2>1, <2>2, <2>3, <2>4, <2>5, <2>6, <2>7, <2>8 DEF PlanTypeOK
<1>4. PhasesOK
  BY <1>2, IdlePhase DEF PhasesOK, PlannerPhase, Task
<1>5. PlannedIsApplied
  <2>1. plan.planned = 0
    BY RestoredPlan DEF PlanInit
  <2> QED BY <2>1 DEF PlannedIsApplied
<1>6. LetGo
  <2>1. Tame
    BY DEF PlanInit, Tame
  <2>2. NothingFailed
    BY <1>1, <1>2 DEF PlanInit, NothingFailed, None, Task
  <2> QED BY <1>2, <2>1, <2>2 DEF LetGo, AllBack
<1> QED BY <1>3, <1>4, <1>5, <1>6 DEF PlanIInv

LEMMA PlanStepKeeps == PlanIInv /\ [PlanNext]_planVars => PlanIInv'
<1> SUFFICES ASSUME PlanIInv, [PlanNext]_planVars PROVE PlanIInv'
  OBVIOUS
<1>1. CASE UNCHANGED planVars
  BY <1>1 DEF planVars, PlanIInv, PlanTypeOK, PhasesOK, PlannerPhase, Writing, PlannedIsApplied,
              HandsBack, Releases, LetGo, NothingFailed, Tame, OnTheWayBack, AllBack
<1>2. ASSUME NEW t \in Task, Step(t) PROVE PlanIInv'
  BY <1>2, RunKeeps, WriteTimerKeeps, WriteRatesKeeps, WriteModeKeeps, RefreshedKeeps,
     WriteReleaseKeeps DEF Step
<1>3. CASE Timers
  BY <1>3, TriggerKeeps, TimerKeeps DEF Timers
<1>4. CASE User
  BY <1>4, ChangeKeeps, SelectKeeps, SetPowerKeeps DEF User
<1> QED BY <1>1, <1>2, <1>3, <1>4, WritePointKeeps, PollKeeps, TickKeeps, StopKeeps,
           PlanSetupKeeps DEF PlanNext
-----------------------------------------------------------------------------
\* The coroutines of the planner, each with the lock it holds and the phase it is in, the plan
\* that owns the revert timer, and what of it is applied: for every day, plan, battery, timer
\* and number of failures (async_apply_plan, _set_automatic, _async_disable).
THEOREM PlanInductiveInvariant == PlanSpec => []PlanIInv
<1>1. PlanInit => PlanIInv
  BY PlanInitially
<1>2. PlanIInv /\ [PlanNext]_planVars => PlanIInv'
  BY PlanStepKeeps
<1> QED BY <1>1, <1>2, PTL DEF PlanSpec

\* The planner, its settings, the readings and the battery keep their types, and _update_lock
\* is held by exactly the coroutine that has begun to write.
THEOREM PlanTypesHold == PlanSpec => []PlanTypeOK
<1>1. PlanIInv => PlanTypeOK
  BY DEF PlanIInv
<1> QED BY <1>1, PlanInductiveInvariant, PTL

\* No change made while a plan is written is forgotten, and a plan that is switched off lets go
\* of the battery, however the writes, the polls and the user's changes come between each other
\* (_async_settings_changed, _set_automatic, the poll listener).
THEOREM SettingsAlwaysTakeEffect == PlanSpec => []SettingsTakeEffect
<1>1. PlanIInv => SettingsTakeEffect
  <2> SUFFICES ASSUME PlanIInv, Quiet PROVE SettingsTakeEffect
    BY DEF SettingsTakeEffect
  <2>1. PlanTypeOK /\ PlannedIsApplied /\ LetGo
    BY DEF PlanIInv
  <2>2. \A t \in Task \ {"user"} : task[t] = Idle /\ ~Writing(t)
    BY IdlePhase DEF Quiet, Writing
  <2>3. ~stopped /\ plan.planned > 0 => applied \/ plan.changed
    BY <2>1, <2>2 DEF PlannedIsApplied, HandsBack
  <2>4. ~enabled /\ ~lost => ~Forced
    <3> SUFFICES ASSUME ~enabled, ~lost PROVE ~Forced
      OBVIOUS
    <3>1. ~OnTheWayBack
      BY <2>2, IdlePhase DEF OnTheWayBack, Task
    <3>2. Tame
      BY <2>1, <3>1 DEF LetGo, AllBack
    <3>3. WChaMax > 0
      BY BatteryIsThere
    <3>4. CASE dev.ctl = 0
      <4>1. dev.ctl \notin {1, 2, 3}
        BY <3>4
      <4>2. InferMode(dev.ctl, dev.in, dev.out) = "auto"
        BY <4>1 DEF InferMode
      <4> QED BY <4>2 DEF Forced, ForcedMode
    <3>5. CASE dev.in = WChaMax /\ dev.out = WChaMax
      <4>1. ~(dev.in < 0) /\ ~(dev.out < 0)
        BY <3>3, <3>5, BatteryIsThere
      <4> QED BY <4>1 DEF Forced, InferMode, ForcedMode
    <3> QED BY <3>2, <3>4, <3>5 DEF Tame
  <2> QED BY <2>3, <2>4 DEF SettingsTakeEffect
<1> QED BY <1>1, PlanInductiveInvariant, PTL

-----------------------------------------------------------------------------
(***************************************************************************)
(* The rate that is written again in time.                                 *)
(***************************************************************************)
LEMMA LongestTimer ==
    /\ Longest \in Nat \ {0} /\ Longest <= LongestRevert
    /\ \A n \in Int : n > 0 => Lower(DeviceRevert, Lower(LongestRevert, n)) >= Lower(Longest, n)
    /\ \A n \in 1..LongestRevert : Lower(DeviceRevert, n) \in 1..Longest
<1>1. DeviceRevert \in Nat \ {0} /\ LongestRevert \in Nat \ {0}
  BY TimersAreTicks
<1> QED BY <1>1 DEF Longest, Lower

LEMMA FittingTimers ==
    ASSUME TimersFit, NEW n \in 1..Longest
    PROVE  Fits(n)
<1>1. Longest \in Nat /\ MinRefresh \in Nat \ {0} /\ MinRefresh < Longest
  BY LongestTimer, TimersAreTicks DEF TimersFit
<1>2. n \in Nat \ {0} /\ n <= Longest
  BY <1>1
<1>3. (n * 9) \div 10 < n
  BY <1>2
<1>4. RefreshIn(n) \in {(n * 9) \div 10, MinRefresh}
  BY <1>2 DEF RefreshIn
<1> QED BY <1>1, <1>2, <1>3, <1>4 DEF Fits

\* The refresh of a timer that fits comes after some time, and before the longest timer ends.
LEMMA FittingRefresh ==
    ASSUME NEW n, Fits(n)
    PROVE  RefreshIn(n) \in Nat /\ RefreshIn(n) # None /\ RefreshIn(n) < Longest
<1>1. n \in Nat \ {0} /\ MinRefresh \in Nat
  BY TimersAreTicks DEF Fits
<1> QED BY <1>1 DEF Fits, RefreshIn, None

\* The window is at least as long as what is left of it.
LEMMA HoursInside ==
    ASSUME PlanTypeOK, Inside
    PROVE  WindowHours >= HoursLeft
<1>1. Day \in Nat \ {0} /\ {set.start, set.end, clock} \subseteq 0..(Day - 1)
  BY DayHasTicks DEF PlanTypeOK, Settings
<1> QED BY <1>1 DEF Inside, InWindow, WindowHours, HoursLeft, TicksUntil

LEMMA LastingTimers ==
    ASSUME PlanTypeOK, NEW hours \in Nat \ {0}, hours >= HoursLeft
    PROVE  Lasts(Lower(DeviceRevert, RevertTime(hours)), 0)
<1>1. HoursLeft \in Nat \ {0}
  BY Hours
<1>2. RevertTime(hours) = Lower(LongestRevert, hours)
  BY DEF RevertTime
<1>3. Lower(DeviceRevert, RevertTime(hours)) >= Lower(Longest, hours)
  BY <1>2, LongestTimer
<1>4. Lower(Longest, hours) \in {Longest, hours}
  BY DEF Lower
<1>5. Lower(DeviceRevert, RevertTime(hours)) \in Nat
  BY <1>2, TimersAreTicks DEF Lower
<1> QED BY <1>1, <1>3, <1>4, <1>5, LongestTimer DEF Lasts

\* What a coroutine does with the lock while nothing has failed: it hands the battery back,
\* it plans for at least the rest of the window, or there is nothing to do.
BacksInTime(t) ==
    task'[t].at = "rates" /\ task'[t].mode = "auto" /\ plan'.prior = plan.prior
OversInTime(t) ==
    /\ task'[t].at = "timer" /\ plan'.prior \in {plan.prior, seen.revert}
    /\ plan.owned => plan'.prior = plan.prior
    /\ \E hours \in {WindowHours, HoursLeft} : task'[t].revert = RevertTime(hours)
EndsInTime(t) ==
    /\ task'[t] = Idle /\ plan'.prior = plan.prior
    /\ \/ plan' = plan /\ (t = "end" \/ ~enabled)
       \/ ~(plan'.planned > 0)
       \/ plan'.changed
RunsInTime(t) == BacksInTime(t) \/ OversInTime(t) \/ EndsInTime(t)

LEMMA BackInTime ==
    ASSUME PlanTypeOK, NEW t \in Task \ {"user"}, NEW p, p.prior = plan.prior,
           p \in PlannerState, seen.there, NEW again \in BOOLEAN, SetAutomatic(t, p, again)
    PROVE  BacksInTime(t)
<1>1. BackPhase(ModePhase("plan", "auto", again))
  BY BackPhases
<1>2. Go(t, ModePhase("plan", "auto", again))
  BY DEF SetAutomatic
<1>3. plan'.prior = plan.prior
  BY DEF SetAutomatic, PlannerState
<1>4. task'[t] = ModePhase("plan", "auto", again)
  BY <1>2 DEF Go, PlanTypeOK
<1> QED BY <1>1, <1>3, <1>4 DEF BackPhase, BacksInTime

LEMMA EndInTime ==
    ASSUME PlanTypeOK, NEW t \in Task \ {"user"}, NEW p, p.prior = plan.prior, Nothing(t, p),
           (p = plan /\ (t = "end" \/ ~enabled)) \/ ~(p.planned > 0) \/ p.changed
    PROVE  EndsInTime(t)
<1>1. plan' = p /\ task' = [task EXCEPT ![t] = Idle]
  BY DEF Nothing, Done
<1>2. task'[t] = Idle
  BY <1>1 DEF PlanTypeOK
<1> QED BY <1>1, <1>2 DEF EndsInTime

LEMMA ApplyInTime ==
    ASSUME PlanTypeOK, NEW t \in Task \ {"user", "disable"}, ok, seen.there, seen.soc # None,
           ~plan.owned => ~(plan.planned > 0),
           NEW hours \in {WindowHours, HoursLeft}, Apply(t, hours)
    PROVE  RunsInTime(t)
<1>1. /\ Later \in PlannerState /\ Later.prior = plan.prior /\ Later.changed
      /\ Fresh \in PlannerState /\ Fresh.prior = plan.prior /\ Fresh.planned = plan.planned
  BY Adopted
<1>2. CASE Nothing(t, Later)
  BY <1>1, <1>2, EndInTime DEF RunsInTime
<1>3. CASE SetAutomatic(t, Fresh, TRUE)
  BY <1>1, <1>3, BackInTime DEF RunsInTime
<1>4. CASE PlanNothing(t)
  <2>1. CASE plan.planned > 0
    <3>1. plan' = [Fresh EXCEPT !.planned = 0, !.refresh = None]
      BY <1>4, <2>1 DEF PlanNothing
    <3>2. Go(t, ModePhase("plan", "auto", FALSE))
      BY <1>4, <2>1 DEF PlanNothing
    <3>3. task'[t] = ModePhase("plan", "auto", FALSE)
      BY <3>2 DEF Go, PlanTypeOK
    <3>4. plan'.prior = plan.prior
      BY <1>1, <3>1 DEF PlannerState
    <3> QED BY <3>3, <3>4, BackPhases DEF BackPhase, BacksInTime, RunsInTime
  <2>2. CASE ~(plan.planned > 0)
    <3>1. plan' = Fresh /\ Done(t)
      BY <1>4, <2>2 DEF PlanNothing
    <3>2. task'[t] = Idle
      BY <3>1 DEF Done, PlanTypeOK
    <3> QED BY <1>1, <2>2, <3>1, <3>2 DEF EndsInTime, RunsInTime
  <2> QED BY <2>1, <2>2
<1>5. CASE PlanPower(t, PlannedPower(hours), hours)
  <2> DEFINE p == [Idle EXCEPT !.at = "timer", !.job = "plan", !.mode = PlanMode,
                               !.revert = RevertTime(hours)]
             prior == IF plan.owned THEN plan.prior ELSE seen.revert
             power == PlannedPower(hours)
  <2>1. Go(t, p) /\ plan' = [Fresh EXCEPT !.planned = power, !.owned = TRUE, !.prior = prior]
    BY <1>1, <1>5 DEF PlanPower
  <2>2. plan'.prior = prior
    <3> HIDE DEF prior, power
    <3> QED BY <1>1, <2>1 DEF PlannerState
  <2>3. p.at = "timer" /\ p.revert = RevertTime(hours)
    BY DEF Idle
  <2>4. task'[t] = p
    BY <2>1 DEF Go, PlanTypeOK
  <2> HIDE DEF p
  <2> QED BY <2>2, <2>3, <2>4 DEF OversInTime, RunsInTime
<1> QED BY <1>2, <1>3, <1>4, <1>5, Zenon DEF Apply

LEMMA ResumeInTime ==
    ASSUME PlanTypeOK, NEW t \in Task \ {"user", "disable"}, NothingFailed,
           ~plan.owned => ~(plan.planned > 0), Resume(t)
    PROVE  RunsInTime(t)
<1>1. /\ Fresh \in PlannerState /\ Fresh.prior = plan.prior /\ Fresh.planned = plan.planned
      /\ ~stopped /\ ok /\ seen.there /\ seen.soc # None
  BY Adopted DEF NothingFailed
<1>2. CASE ~enabled /\ Nothing(t, plan)
  BY <1>2, EndInTime DEF RunsInTime
<1>3. CASE Apply(t, HoursLeft)
  BY <1>1, <1>3, ApplyInTime
<1>4. CASE SetAutomatic(t, Fresh, FALSE)
  BY <1>1, <1>4, BackInTime DEF RunsInTime
<1>5. CASE ~plan.owned /\ Nothing(t, Fresh)
  BY <1>1, <1>5, EndInTime DEF RunsInTime
<1> QED BY <1>1, <1>2, <1>3, <1>4, <1>5, Zenon DEF Resume

LEMMA RunInTime ==
    ASSUME PlanIInv, ~lost, NEW t \in Task, Run(t)
    PROVE  t # "user" /\ RunsInTime(t)
<1>1. /\ PlanTypeOK /\ t # "user" /\ NothingFailed /\ plan \in PlannerState
      /\ ~stopped /\ seen.there /\ ok /\ seen.soc # None
  BY WorldTypes DEF PlanIInv, PhasesOK, Run, LetGo, NothingFailed
<1>2. ~plan.owned => ~(plan.planned > 0)
  <2>1. \A u \in Task : ~Releases(u)
    <3>1. Nobody \notin Task /\ busy = Nobody
      BY DEF Run, Nobody, Task
    <3> QED BY <1>1, <3>1 DEF PlanTypeOK, Releases, HandsBack
  <2> QED BY <1>1, <2>1 DEF PlanIInv, PlannedIsApplied
<1>3. CASE t = "start" /\ AtStart(t)
  <2>1. CASE ~enabled /\ Nothing(t, plan)
    BY <1>1, <2>1, EndInTime DEF RunsInTime
  <2>2. CASE Apply(t, WindowHours)
    BY <1>1, <1>2, <1>3, <2>2, ApplyInTime
  <2> QED BY <1>1, <1>3, <2>1, <2>2, Zenon DEF AtStart
<1>4. CASE t = "end" /\ AtEnd(t)
  <2>1. CASE Nothing(t, plan)
    BY <1>1, <1>4, <2>1, EndInTime DEF RunsInTime
  <2>2. CASE SetAutomatic(t, plan, FALSE)
    BY <1>1, <2>2, BackInTime DEF RunsInTime
  <2> QED BY <1>1, <1>4, <2>1, <2>2, Zenon DEF AtEnd
<1>5. CASE t = "disable" /\ Disable(t)
  <2> DEFINE p == [plan EXCEPT !.refresh = None]
  <2>1. p \in PlannerState /\ p.prior = plan.prior /\ p.planned = plan.planned
    BY <1>1 DEF PlannerState
  <2>2. CASE SetAutomatic(t, p, FALSE)
    <3> HIDE DEF p
    <3> QED BY <1>1, <2>1, <2>2, BackInTime DEF RunsInTime
  <2>3. CASE ~plan.owned /\ Nothing(t, p)
    <3> HIDE DEF p
    <3> QED BY <1>1, <1>2, <2>1, <2>3, EndInTime DEF RunsInTime
  <2> QED BY <1>1, <1>5, <2>2, <2>3, Zenon DEF Disable
<1>6. CASE t = "poll" /\ StopAtTarget(t)
  <2>1. SetAutomatic(t, plan, FALSE)
    BY <1>1, <1>6 DEF StopAtTarget
  <2> QED BY <1>1, <2>1, BackInTime DEF RunsInTime
<1>7. CASE t # "disable" /\ Resume(t)
  BY <1>1, <1>2, <1>7, ResumeInTime
<1>8. \/ t = "start" /\ AtStart(t)
      \/ t = "end" /\ AtEnd(t)
      \/ t = "disable" /\ Disable(t)
      \/ t = "poll" /\ StopAtTarget(t)
      \/ t # "disable" /\ Resume(t)
  BY DEF Run
<1> QED BY <1>1, <1>3, <1>4, <1>5, <1>6, <1>7, <1>8

LEMMA RunIsInTime ==
    ASSUME TimersFit, PlanIInv, KeptInTime, NEW t \in Task, Run(t)
    PROVE  KeptInTime'
<1> SUFFICES ASSUME ~lost PROVE TimersOK' /\ (InForce' => /\ \A u \in Task \ {"user"} : WrittenInTime(u)'
                                                          /\ (\A u \in Task \ {"user"} : ~Writing(u)') => Armed')
  BY DEF KeptInTime, Run
<1>1. t # "user" /\ RunsInTime(t) /\ RunsOn(t) /\ PlanIInv'
  BY RunOutcome, RunInTime, RunKeeps
<1>2. /\ PlanTypeOK /\ PlanTypeOK' /\ TimersOK /\ NothingFailed
      /\ UNCHANGED <<dev, clock, due, seen, set, enabled>> /\ busy = Nobody
  BY <1>1 DEF PlanIInv, LetGo, KeptInTime, Run, devVars
<1>3. \A u \in Task \ {t} : task'[u] = task[u]
  BY <1>1, <1>2 DEF RunsOn, EndsRun, BacksRun, OversRun, PlanTypeOK
<1>4. \A u \in Task \ {"user"} : ~Writing(u)
  BY <1>2 DEF PlanTypeOK, Nobody, Task
<1>5. task["user"] = Idle
  BY <1>2 DEF NothingFailed
<1>6. TimersOK'
  <2>1. Fits(dev.revert)' /\ Fits(seen.revert)'
    BY <1>2 DEF TimersOK
  <2>2. plan'.owned => Fits(plan'.prior)
    <3>1. plan'.prior \in {plan.prior, seen.revert}
      BY <1>1 DEF RunsInTime, BacksInTime, OversInTime, EndsInTime
    <3> QED BY <1>2, <3>1 DEF PlanTypeOK, TimersOK
  <2>3. ASSUME NEW u \in Task, task'[u].at = "release" PROVE Fits(task'[u].revert)
    <3>1. u # t
      BY <1>1, <2>3, IdlePhase DEF RunsInTime, BacksInTime, OversInTime, EndsInTime
    <3> QED BY <1>2, <1>3, <2>3, <3>1 DEF TimersOK
  <2>4. ASSUME NEW u \in Task, task'[u].at = "timer" PROVE task'[u].revert \in 1..LongestRevert
    <3>1. CASE u # t
      BY <1>2, <1>3, <2>4, <3>1 DEF TimersOK
    <3>2. CASE u = t
      <4>1. OversInTime(t)
        BY <1>1, <2>4, <3>2, IdlePhase DEF RunsInTime, BacksInTime, EndsInTime
      <4>2. PICK hours \in Nat \ {0} : task'[t].revert = RevertTime(hours)
        BY <1>2, <4>1, Hours DEF OversInTime
      <4>3. RevertTime(hours) \in 1..LongestRevert
        BY TimersAreTicks DEF RevertTime, Lower
      <4> QED BY <3>2, <4>2, <4>3
    <3> QED BY <3>1, <3>2
  <2> QED BY <2>1, <2>2, <2>3, <2>4 DEF TimersOK
<1>7. ASSUME InForce'
      PROVE  /\ \A u \in Task \ {"user"} : WrittenInTime(u)'
             /\ (\A u \in Task \ {"user"} : ~Writing(u)') => Armed'
  <2>1. Inside /\ enabled /\ plan'.planned > 0 /\ ~plan'.changed /\ ~HandsBack(t)'
    BY <1>2, <1>7 DEF InForce, Inside
  <2>2. \A u \in Task \ {t, "user"} : WrittenInTime(u)'
    BY <1>3, <1>4 DEF WrittenInTime, Writing
  <2>3. CASE BacksInTime(t)
    BY <1>1, <2>1, <2>3 DEF BacksInTime, HandsBack, Writing
  <2>4. CASE OversInTime(t)
    <3>1. PICK hours \in {WindowHours, HoursLeft} : task'[t].revert = RevertTime(hours)
      BY <2>4 DEF OversInTime
    <3>2. hours \in Nat \ {0} /\ hours >= HoursLeft
      BY <1>2, <2>1, <3>1, Hours, HoursInside
    <3>3. Lasts(Lower(DeviceRevert, RevertTime(hours)), 0)
      BY <1>2, <3>2, LastingTimers
    <3>4. HoursLeft' = HoursLeft
      BY <1>2 DEF HoursLeft
    <3>5. WrittenInTime(t)' /\ Writing(t)'
      BY <2>4, <3>1, <3>3, <3>4 DEF OversInTime, WrittenInTime, Lasts, Writing
    <3> QED BY <1>1, <2>2, <3>5
  <2>5. CASE EndsInTime(t)
    <3>1. plan' = plan /\ t = "end" /\ task'[t] = Idle
      BY <2>1, <2>5 DEF EndsInTime
    <3>2. InForce
      <4>1. ~AboutToPlan
        BY <1>2, <1>3, <1>7, <3>1 DEF InForce, AboutToPlan
      <4>2. ~\E u \in Task : HandsBack(u)
        BY <1>4 DEF HandsBack
      <4> QED BY <2>1, <3>1, <4>1, <4>2 DEF InForce
    <3>3. Armed
      BY <1>4, <3>2 DEF KeptInTime
    <3>4. Armed'
      BY <1>2, <3>1, <3>3 DEF Armed, Lasts, HoursLeft
    <3>5. WrittenInTime(t)'
      BY <3>1, IdlePhase DEF WrittenInTime
    <3> QED BY <2>2, <3>4, <3>5
  <2> QED BY <1>1, <2>3, <2>4, <2>5 DEF RunsInTime
<1> QED BY <1>6, <1>7

\* A step of the writer t that has not failed and leaves the plan as it was: the plan is in
\* force after it only if it was before.
LEMMA WriterInForce ==
    ASSUME PlanIInv, NEW t \in Task \ {"user"}, Writing(t), ~lost,
           NEW p, task' = [task EXCEPT ![t] = p], p.at # "wait",
           HandsBack(t) => p.at \notin {"idle", "wait"} /\ p.mode = "auto",
           UNCHANGED <<clock, due, set, enabled>>,
           plan'.planned = plan.planned, plan'.changed = plan.changed
    PROVE  /\ InForce' => InForce
           /\ task'[t] = p /\ \A u \in Task \ {t} : task'[u] = task[u]
           /\ \A u \in Task \ {t} : ~Writing(u) /\ ~Writing(u)'
<1>1. PlanTypeOK /\ task["user"] = Idle
  BY DEF PlanIInv, LetGo, NothingFailed
<1>2. task'[t] = p /\ \A u \in Task \ {t} : task'[u] = task[u]
  BY <1>1 DEF PlanTypeOK
<1>3. \A u \in Task \ {t} : ~Writing(u)
  BY <1>1, Writers, IdlePhase DEF Writing
<1>4. \A u \in Task \ {t} : ~Writing(u)'
  BY <1>2, <1>3 DEF Writing
<1>5. ASSUME InForce' PROVE InForce
  <2>1. ~AboutToPlan
    <3>1. \A u \in Task \ {"user", "end"} : task[u].at # "wait"
      BY <1>2, <1>5 DEF InForce, AboutToPlan, Writing
    <3> QED BY <1>5, <3>1 DEF InForce, AboutToPlan
  <2>2. \A u \in Task \ {t} : ~HandsBack(u)
    BY <1>3 DEF HandsBack
  <2>3. ~HandsBack(t)
    <3>1. ~HandsBack(t)'
      BY <1>5 DEF InForce
    <3> QED BY <1>2, <3>1 DEF HandsBack, Writing
  <2>4. Inside
    BY <1>5 DEF InForce, Inside
  <2> QED BY <1>5, <2>1, <2>2, <2>3, <2>4 DEF InForce
<1> QED BY <1>2, <1>3, <1>4, <1>5

\* The timers after a step that writes none of the plan's: those of the phases that end go.
LEMMA TimersStay ==
    ASSUME TimersOK, Fits(dev'.revert), seen' = seen,
           plan'.owned => plan.owned /\ plan'.prior = plan.prior,
           NEW t \in Task, task'[t].at = "release" => Fits(task'[t].revert),
           task'[t].at # "timer", \A u \in Task \ {t} : task'[u] = task[u]
    PROVE  TimersOK'
<1> QED BY DEF TimersOK

LEMMA WriteTimerInTime ==
    ASSUME TimersFit, PlanIInv, KeptInTime, NEW t \in Task, WriteTimer(t)
    PROVE  KeptInTime'
<1> SUFFICES ASSUME ~lost' PROVE KeptInTime'
  BY DEF KeptInTime
<1> DEFINE p == ModePhase("plan", task[t].mode, FALSE)
           n == Lower(DeviceRevert, task[t].revert)
<1>1. /\ t \in Task \ {"user"} /\ task[t].at = "timer" /\ Writing(t) /\ ~lost
      /\ dev' = [dev EXCEPT !.revert = n]
      /\ UNCHANGED <<clock, due, seen, ok, set, enabled, setpoints, stopped>>
  BY DEF PlanIInv, PhasesOK, WriteTimer, Writing, Trouble, NoTrouble
<1>2. /\ TimersOK /\ PlanTypeOK /\ seen.there /\ dev \in Registers
      /\ task[t] \in Phase /\ task[t].mode \in ForcedMode
  BY <1>1, Writers DEF PlanIInv, LetGo, NothingFailed, KeptInTime, PlannerPhase
<1>3. task' = [task EXCEPT ![t] = p] /\ plan' = plan
  BY <1>1, <1>2 DEF WriteTimer, GoesOn, Go
<1>4. p \in Phase /\ p.at = "rates" /\ p.mode = task[t].mode
  BY <1>2, ModePhases DEF PlanTypeOK, Phase
<1> HIDE DEF p
<1>5. n \in 1..Longest /\ dev'.revert = n /\ Fits(n)
  <2>1. n \in 1..Longest
    BY <1>1, <1>2, LongestTimer DEF TimersOK
  <2> HIDE DEF n
  <2> QED BY <1>1, <1>2, <2>1, FittingTimers DEF Registers
<1> HIDE DEF n
<1>6. /\ InForce' => InForce
      /\ task'[t] = p /\ \A u \in Task \ {t} : task'[u] = task[u]
      /\ \A u \in Task \ {t} : ~Writing(u) /\ ~Writing(u)'
  <2>1. ~HandsBack(t)
    BY <1>2 DEF HandsBack, ForcedMode
  <2> QED BY <1>1, <1>3, <1>4, <2>1, WriterInForce
<1>7. TimersOK'
  BY <1>1, <1>2, <1>3, <1>4, <1>5, <1>6, TimersStay
<1>8. ASSUME InForce'
      PROVE  /\ \A u \in Task \ {"user"} : WrittenInTime(u)'
             /\ Writing(t)'
  <2>1. Lasts(n, 0)
    BY <1>1, <1>6, <1>8 DEF KeptInTime, WrittenInTime, n
  <2>2. Lasts(dev.revert, 0)'
    BY <1>1, <1>5, <2>1 DEF Lasts, HoursLeft
  <2>3. WrittenInTime(t)' /\ Writing(t)'
    BY <1>4, <1>6, <2>2 DEF WrittenInTime, Writing
  <2>4. \A u \in Task \ {t, "user"} : WrittenInTime(u)'
    BY <1>6 DEF WrittenInTime, Writing
  <2> QED BY <1>1, <2>3, <2>4
<1> QED BY <1>1, <1>7, <1>8 DEF KeptInTime

\* One that gives up has failed.
LEMMA WritesGoOn ==
    ASSUME PlanIInv, NEW t \in Task, task[t].at \notin {"idle", "wait", "timer", "point"},
           Trouble \/ NoTrouble, ~lost'
    PROVE  /\ t \in Task \ {"user"} /\ Writing(t) /\ ~lost /\ NoTrouble /\ ~Trouble
           /\ task[t] \in Phase /\ dev \in Registers /\ plan \in PlannerState
<1>1. PlanTypeOK /\ ~lost /\ task["user"] = Idle
  <2>1. PlanTypeOK /\ ~lost
    BY Troubles DEF PlanIInv
  <2> QED BY <2>1 DEF PlanIInv, LetGo, NothingFailed
<1>2. t # "user" /\ Writing(t)
  BY <1>1, IdlePhase DEF Writing
<1> QED BY <1>1, <1>2 DEF Trouble, PlanTypeOK

LEMMA WriteRatesInTime ==
    ASSUME PlanIInv, KeptInTime, NEW t \in Task, WriteRates(t)
    PROVE  KeptInTime'
<1> SUFFICES ASSUME ~lost' PROVE KeptInTime'
  BY DEF KeptInTime
<1> DEFINE p == [task[t] EXCEPT !.at = "mode", !.in = WChaMax, !.out = WChaMax]
           d == [dev EXCEPT !.in = task[t].in, !.out = task[t].out, !.age = 0]
<1>1. /\ task[t].at = "rates"
      /\ Trouble \/ NoTrouble
      /\ UNCHANGED <<clock, due, seen, set, enabled>>
  BY DEF WriteRates
<1>2. /\ t \in Task \ {"user"} /\ Writing(t) /\ ~lost /\ ~Trouble
      /\ task[t] \in Phase /\ dev \in Registers
  BY <1>1, WritesGoOn DEF WriteRates
<1>3. task' = [task EXCEPT ![t] = p] /\ plan' = plan /\ dev' = d
  BY <1>2 DEF WriteRates, GoesOn, Go
<1>4. p.at = "mode" /\ p.mode = task[t].mode /\ d.revert = dev.revert
  BY <1>2 DEF Phase, Registers
<1> HIDE DEF p, d
<1>5. /\ InForce' => InForce
      /\ task'[t] = p /\ \A u \in Task \ {t} : task'[u] = task[u]
      /\ \A u \in Task \ {t} : ~Writing(u) /\ ~Writing(u)'
  <2>1. HandsBack(t) => p.mode = "auto"
    BY <1>4 DEF HandsBack
  <2> QED BY <1>1, <1>2, <1>3, <1>4, <2>1, WriterInForce
<1>6. TimersOK'
  BY <1>1, <1>2, <1>3, <1>4, <1>5, TimersStay DEF KeptInTime, TimersOK
<1>7. ASSUME InForce'
      PROVE  (\A u \in Task \ {"user"} : WrittenInTime(u)') /\ Writing(t)'
  <2>1. Lasts(dev.revert, 0)
    BY <1>1, <1>2, <1>5, <1>7 DEF KeptInTime, WrittenInTime
  <2>2. Lasts(dev.revert, 0)'
    BY <1>1, <1>3, <1>4, <2>1 DEF Lasts, HoursLeft
  <2>3. WrittenInTime(t)' /\ Writing(t)'
    BY <1>4, <1>5, <2>2 DEF WrittenInTime, Writing
  <2>4. \A u \in Task \ {t, "user"} : WrittenInTime(u)'
    BY <1>5 DEF WrittenInTime, Writing
  <2> QED BY <1>2, <2>3, <2>4
<1> QED BY <1>2, <1>6, <1>7 DEF KeptInTime

LEMMA WriteModeInTime ==
    ASSUME PlanIInv, KeptInTime, NEW t \in Task, WriteMode(t)
    PROVE  KeptInTime'
<1> SUFFICES ASSUME ~lost' PROVE KeptInTime'
  BY DEF KeptInTime
<1> DEFINE p == [task[t] EXCEPT !.at = "refresh"]
           d == [dev EXCEPT !.ctl = Recipe(task[t].mode).ctl, !.age = 0]
<1>1. /\ task[t].at = "mode"
      /\ Trouble \/ NoTrouble
      /\ UNCHANGED <<clock, due, seen, set, enabled>>
  BY DEF WriteMode
<1>2. /\ t \in Task \ {"user"} /\ Writing(t) /\ ~lost /\ ~Trouble
      /\ task[t] \in Phase /\ dev \in Registers
  BY <1>1, WritesGoOn DEF WriteMode
<1>3. task' = [task EXCEPT ![t] = p] /\ plan' = plan /\ dev' = d
  BY <1>2 DEF WriteMode, GoesOn, Go
<1>4. p.at = "refresh" /\ p.mode = task[t].mode /\ d.revert = dev.revert /\ d.age = 0
  BY <1>2 DEF Phase, Registers
<1> HIDE DEF p, d
<1>5. /\ InForce' => InForce
      /\ task'[t] = p /\ \A u \in Task \ {t} : task'[u] = task[u]
      /\ \A u \in Task \ {t} : ~Writing(u) /\ ~Writing(u)'
  <2>1. HandsBack(t) => p.mode = "auto"
    BY <1>4 DEF HandsBack
  <2> QED BY <1>1, <1>2, <1>3, <1>4, <2>1, WriterInForce
<1>6. TimersOK'
  BY <1>1, <1>2, <1>3, <1>4, <1>5, TimersStay DEF KeptInTime, TimersOK
<1>7. ASSUME InForce'
      PROVE  (\A u \in Task \ {"user"} : WrittenInTime(u)') /\ Writing(t)'
  <2>1. Lasts(dev.revert, 0)
    BY <1>1, <1>2, <1>5, <1>7 DEF KeptInTime, WrittenInTime
  <2>2. Lasts(dev.revert, 0)'
    BY <1>1, <1>3, <1>4, <2>1 DEF Lasts, HoursLeft
  <2>3. WrittenInTime(t)' /\ Writing(t)'
    BY <1>3, <1>4, <1>5, <2>2 DEF WrittenInTime, Writing
  <2>4. \A u \in Task \ {t, "user"} : WrittenInTime(u)'
    BY <1>5 DEF WrittenInTime, Writing
  <2> QED BY <1>2, <2>3, <2>4
<1> QED BY <1>2, <1>6, <1>7 DEF KeptInTime

LEMMA HandedInTime ==
    ASSUME PlanIInv, TimersOK, NEW t \in Task \ {"user"}, Handed(t), Fits(dev'.revert),
           seen' = seen
    PROVE  KeptInTime'
<1>1. PlanTypeOK /\ plan \in PlannerState
  BY WorldTypes
<1>2. plan'.planned = 0 /\ plan'.owned = plan.owned /\ plan'.prior = plan.prior
  BY <1>1 DEF Handed, PlannerState
<1>3. task'[t] = Idle /\ \A u \in Task \ {t} : task'[u] = task[u]
  BY <1>1 DEF Handed, Done, PlanTypeOK
<1>4. TimersOK'
  BY <1>2, <1>3, IdlePhase, TimersStay
<1>5. ~InForce'
  <2>1. ~(plan'.planned > 0)
    BY <1>2
  <2> QED BY <2>1 DEF InForce
<1> QED BY <1>4, <1>5 DEF KeptInTime

LEMMA RefreshedInTime ==
    ASSUME PlanIInv, KeptInTime, NEW t \in Task, Refreshed(t)
    PROVE  KeptInTime'
<1> SUFFICES ASSUME ~lost' PROVE KeptInTime'
  BY DEF KeptInTime
<1>1. /\ task[t].at = "refresh" /\ NoTrouble /\ ~lost
      /\ UNCHANGED <<clock, due, dev, seen, set, enabled>>
  BY DEF Refreshed, NoTrouble, devVars
<1>2. /\ t \in Task \ {"user"} /\ Writing(t) /\ task[t] \in Phase /\ dev \in Registers
      /\ plan \in PlannerState /\ PlanTypeOK /\ TimersOK /\ seen.there
  BY <1>1, WritesGoOn DEF PlanIInv, KeptInTime, LetGo, NothingFailed
<1>3. CASE task[t].mode # "auto"
  <2>1. plan' = Watched(plan) /\ task' = [task EXCEPT ![t] = Idle]
    BY <1>3 DEF Refreshed, Done
  <2>2. /\ plan'.owned = plan.owned /\ plan'.prior = plan.prior
        /\ plan'.planned = plan.planned /\ plan'.changed = plan.changed
    BY <1>2, <2>1, WatchedPlans
  <2>3. plan'.refresh = RefreshIn(seen.revert)
    BY <1>2, <2>1 DEF Watched, PlannerState
  <2>4. /\ InForce' => InForce
        /\ task'[t] = Idle /\ \A u \in Task \ {t} : task'[u] = task[u]
        /\ \A u \in Task \ {t} : ~Writing(u) /\ ~Writing(u)'
    <3>1. ~HandsBack(t)
      BY <1>3 DEF HandsBack
    <3> QED BY <1>1, <1>2, <2>1, <2>2, <3>1, IdlePhase, WriterInForce
  <2>5. TimersOK'
    BY <1>1, <1>2, <2>2, <2>4, IdlePhase, TimersStay DEF TimersOK
  <2>6. ASSUME InForce'
        PROVE  (\A u \in Task \ {"user"} : WrittenInTime(u)') /\ Armed'
    <3>1. \A u \in Task \ {"user"} : WrittenInTime(u)'
      BY <2>4, IdlePhase DEF WrittenInTime, Writing
    <3>2. dev.age = 0 /\ Lasts(dev.revert, 0)
      BY <1>1, <1>2, <2>4, <2>6 DEF KeptInTime, WrittenInTime
    <3>3. /\ RefreshIn(seen.revert) \in Nat /\ RefreshIn(seen.revert) # None
          /\ RefreshIn(seen.revert) < Longest
      BY <1>2, FittingRefresh DEF TimersOK
    <3>4. dev.age + plan'.refresh < Longest
      BY <2>3, <3>2, <3>3
    <3>5. Lasts(dev.revert, dev.age)'
      BY <1>1, <3>2 DEF Lasts, HoursLeft
    <3>6. plan'.refresh # None
      BY <2>3, <3>3
    <3>7. Armed'
      BY <1>1, <3>4, <3>5, <3>6 DEF Armed
    <3> QED BY <3>1, <3>7
  <2> QED BY <2>5, <2>6 DEF KeptInTime
<1>4. CASE task[t].mode = "auto" /\ plan.owned
  <2> DEFINE p == [task[t] EXCEPT !.at = "release", !.revert = plan.prior]
  <2>1. plan.prior # None
    BY <1>2, <1>4 DEF PlanTypeOK
  <2>2. plan' = Released(plan) /\ task' = [task EXCEPT ![t] = p]
    BY <1>4, <2>1 DEF Refreshed, Go
  <2>3. plan'.owned = FALSE
    BY <1>2, <2>2 DEF Released, PlannerState
  <2>4. p.at = "release" /\ p.mode = "auto" /\ p.revert = plan.prior
    BY <1>2, <1>4 DEF Phase
  <2> HIDE DEF p
  <2>5. task'[t] = p /\ \A u \in Task \ {t} : task'[u] = task[u]
    BY <1>2, <2>2 DEF PlanTypeOK
  <2>6. TimersOK'
    BY <1>1, <1>2, <1>4, <2>3, <2>4, <2>5, TimersStay DEF TimersOK
  <2>7. ~InForce'
    BY <1>2, <2>4, <2>5 DEF InForce, HandsBack, Writing
  <2> QED BY <2>6, <2>7 DEF KeptInTime
<1>5. CASE task[t].mode = "auto" /\ ~plan.owned
  <2>1. Handed(t) /\ Fits(dev'.revert)
    BY <1>1, <1>2, <1>5 DEF Refreshed, TimersOK
  <2> QED BY <1>1, <1>2, <2>1, HandedInTime
<1> QED BY <1>3, <1>4, <1>5

LEMMA WriteReleaseInTime ==
    ASSUME PlanIInv, KeptInTime, NEW t \in Task, WriteRelease(t)
    PROVE  KeptInTime'
<1> SUFFICES ASSUME ~lost' PROVE KeptInTime'
  BY DEF KeptInTime
<1>1. task[t].at = "release" /\ (Trouble \/ NoTrouble) /\ Handed(t) /\ seen' = seen
  BY DEF WriteRelease
<1>2. /\ t \in Task \ {"user"} /\ ~lost /\ ~Trouble /\ dev \in Registers
  BY <1>1, WritesGoOn
<1>3. dev' = [dev EXCEPT !.revert = task[t].revert] /\ TimersOK
  BY <1>2 DEF WriteRelease, KeptInTime
<1>4. Fits(dev'.revert)
  BY <1>1, <1>2, <1>3 DEF TimersOK, Registers
<1> QED BY <1>1, <1>2, <1>3, <1>4, HandedInTime

\* What the world does to a plan in force, beside the passing of time, leaves it as it is.
LEMMA WorldInTime ==
    ASSUME PlanIInv, KeptInTime, QueuesOnly, KeepsPlan, ~lost, UNCHANGED <<clock, dev>>,
           seen'.revert \in {seen.revert, dev.revert},
           InForce' => /\ UNCHANGED <<set, enabled, plan>>
                       /\ "start" \in due => "start" \in due'
                       /\ \A u \in Task \ {"end"} : task'[u] = task[u]
    PROVE  KeptInTime'
<1>1. PlanTypeOK /\ TimersOK
  BY DEF PlanIInv, KeptInTime
<1>2. \A u \in Task : task'[u] = task[u] \/ (task[u] = Idle /\ task'[u].at = "wait")
  BY DEF QueuesOnly, WaitPhase
<1>3. TimersOK'
  <2>1. Fits(dev.revert)' /\ Fits(seen.revert)'
    BY <1>1 DEF TimersOK
  <2>2. plan'.owned => Fits(plan'.prior)
    BY <1>1 DEF TimersOK, KeepsPlan
  <2>3. \A u \in Task : task'[u].at \in {"release", "timer"} => task'[u] = task[u]
    BY <1>2
  <2> QED BY <1>1, <2>1, <2>2, <2>3 DEF TimersOK
<1>4. \A u \in Task : Writing(u)' = Writing(u) /\ (Writing(u) => task'[u] = task[u])
  BY <1>2, IdlePhase DEF Writing
<1>5. ASSUME InForce'
      PROVE  /\ \A u \in Task \ {"user"} : WrittenInTime(u)'
             /\ (\A u \in Task \ {"user"} : ~Writing(u)') => Armed'
  <2>1. UNCHANGED <<clock, set, enabled, plan, dev>>
    BY <1>5
  <2>2. InForce
    <3>1. ~AboutToPlan
      BY <1>5 DEF InForce, AboutToPlan
    <3>2. \A u \in Task : ~HandsBack(u)
      BY <1>4, <1>5 DEF InForce, HandsBack
    <3>3. Inside
      BY <1>5, <2>1 DEF InForce, Inside
    <3> QED BY <1>5, <2>1, <3>1, <3>2, <3>3 DEF InForce
  <2>3. /\ \A u \in Task \ {"user"} : WrittenInTime(u)
        /\ (\A u \in Task \ {"user"} : ~Writing(u)) => Armed
    BY <2>2 DEF KeptInTime
  <2>4. \A u \in Task \ {"user"} : WrittenInTime(u)'
    <3> SUFFICES ASSUME NEW u \in Task \ {"user"} PROVE WrittenInTime(u)'
      OBVIOUS
    <3>1. CASE ~Writing(u)'
      BY <3>1 DEF WrittenInTime, Writing
    <3>2. CASE Writing(u)'
      <4>1. task'[u] = task[u]
        BY <1>4, <3>2
      <4> QED BY <2>1, <2>3, <4>1 DEF WrittenInTime, Lasts, HoursLeft
    <3> QED BY <3>1, <3>2
  <2>5. Armed => Armed'
    BY <2>1 DEF Armed, Lasts, HoursLeft
  <2> QED BY <1>4, <2>3, <2>4, <2>5
<1> QED BY <1>3, <1>5 DEF KeptInTime

\* A tick within the window, or to its end.
LEMMA ClockTicks ==
    ASSUME PlanTypeOK, clock' = (clock + 1) % Day
    PROVE  clock' = IF clock = Day - 1 THEN 0 ELSE clock + 1
<1>1. Day \in Nat \ {0} /\ clock \in 0..(Day - 1)
  BY DayHasTicks DEF PlanTypeOK
<1> QED BY <1>1

LEMMA WithinWindow ==
    ASSUME PlanTypeOK, clock' = (clock + 1) % Day, set' = set, Inside', clock' # set.start
    PROVE  Inside /\ HoursLeft' = HoursLeft - 1
<1>1. /\ Day \in Nat \ {0} /\ {set.start, set.end, clock} \subseteq 0..(Day - 1)
      /\ clock' = IF clock = Day - 1 THEN 0 ELSE clock + 1
  BY DayHasTicks, ClockTicks DEF PlanTypeOK, Settings
<1>2. InWindow(clock', set.start, set.end)
  BY DEF Inside
<1>3. InWindow(clock, set.start, set.end) /\ clock' # set.end
  BY <1>1, <1>2 DEF InWindow
<1>4. TicksUntil(clock', set.end) = TicksUntil(clock, set.end) - 1
  <2> DEFINE end == set.end
             now == clock
             next == clock'
  <2>1. /\ {end, now} \subseteq 0..(Day - 1) /\ Day \in Nat \ {0} /\ next # end
        /\ next = IF now = Day - 1 THEN 0 ELSE now + 1
    BY <1>1, <1>3
  <2> HIDE DEF end, now, next
  <2>2. (IF end > next THEN end - next ELSE end - next + Day)
        = (IF end > now THEN end - now ELSE end - now + Day) - 1
    BY <2>1
  <2> QED BY <2>2 DEF TicksUntil, end, now, next
<1> QED BY <1>3, <1>4 DEF Inside, HoursLeft

LEMMA LastTick ==
    ASSUME PlanTypeOK, clock' = (clock + 1) % Day, HoursLeft <= 1
    PROVE  clock' = set.end
<1>1. /\ Day \in Nat \ {0} /\ {set.start, set.end, clock} \subseteq 0..(Day - 1)
      /\ clock' = IF clock = Day - 1 THEN 0 ELSE clock + 1
  BY DayHasTicks, ClockTicks DEF PlanTypeOK, Settings
<1> QED BY <1>1 DEF HoursLeft, TicksUntil

\* When time passes and a plan is in force, it has been armed.
LEMMA TickIsArmed ==
    ASSUME PlanIInv, KeptInTime, ~lost, Tick,
           enabled, plan.planned > 0, ~plan.changed, Inside
    PROVE  Armed /\ plan.refresh \in Nat \ {0}
<1>1. AllIdle /\ due = {} /\ plan.refresh # 0 /\ plan \in PlannerState
  BY WorldTypes DEF Tick
<1>2. \A u \in Task : task[u].at = "idle" /\ ~Writing(u)
  BY <1>1, IdlePhase DEF AllIdle, Writing
<1>3. InForce
  BY <1>1, <1>2 DEF InForce, AboutToPlan, HandsBack
<1>4. Armed
  BY <1>2, <1>3 DEF KeptInTime
<1> QED BY <1>1, <1>4 DEF Armed, PlannerState

LEMMA TickInTime == ASSUME PlanIInv, KeptInTime, Tick PROVE KeptInTime'
<1> SUFFICES ASSUME ~lost PROVE KeptInTime'
  BY DEF KeptInTime, Tick
<1>1. /\ PlanTypeOK /\ TimersOK /\ ~stopped /\ plan \in PlannerState
      /\ clock' = (clock + 1) % Day
      /\ plan' = [plan EXCEPT !.refresh = IF @ > 0 THEN @ - 1 ELSE @]
      /\ UNCHANGED <<seen, set, enabled, task>>
      /\ dev \in Registers
  BY WorldTypes DEF KeptInTime, Tick
<1>2. dev'.revert = dev.revert /\ dev'.age \in Nat /\ dev'.age <= dev.age + 1
  <2>1. dev.age \in Nat
    BY <1>1 DEF Registers
  <2>2. /\ Aged.revert = dev.revert /\ Aged.age \in Nat /\ Aged.age <= dev.age + 1
        /\ Aged \in Registers
    <3>1. CASE dev.ctl = 0 \/ Lapses
      <4>1. Aged = [dev EXCEPT !.ctl = 0, !.in = WChaMax, !.out = WChaMax, !.age = 0]
        BY <3>1 DEF Aged
      <4>2. Aged = [ctl |-> 0, in |-> WChaMax, out |-> WChaMax, revert |-> dev.revert,
                    age |-> 0, soc |-> dev.soc]
        BY <1>1, <4>1, Zenon DEF Registers
      <4>3. WChaMax \in Watts
        BY BatteryIsThere DEF Watts
      <4> QED BY <1>1, <2>1, <4>2, <4>3 DEF Registers
    <3>2. CASE ~(dev.ctl = 0 \/ Lapses)
      <4> DEFINE age == Lower(dev.age + 1, FactoryRevert + LongestRevert)
      <4>1. age \in Nat /\ age <= dev.age + 1
        BY <2>1, TimersAreTicks DEF Lower
      <4>2. Aged = [dev EXCEPT !.age = age]
        BY <3>2 DEF Aged
      <4> HIDE DEF age
      <4> QED BY <1>1, <4>1, <4>2 DEF Registers
    <3> QED BY <3>1, <3>2
  <2>3. PICK flow \in Flows : dev' = [Aged EXCEPT !.soc = @ + flow]
    BY DEF Tick
  <2>4. dev'.revert = Aged.revert /\ dev'.age = Aged.age
    BY <2>2, <2>3 DEF Registers
  <2> QED BY <2>2, <2>4
<1>3. /\ plan'.planned = plan.planned /\ plan'.changed = plan.changed
      /\ plan'.owned = plan.owned /\ plan'.prior = plan.prior
      /\ plan'.refresh = IF plan.refresh > 0 THEN plan.refresh - 1 ELSE plan.refresh
  BY <1>1 DEF PlannerState
<1>4. TimersOK'
  BY <1>1, <1>2, <1>3 DEF TimersOK
<1>5. ASSUME InForce'
      PROVE  (\A u \in Task \ {"user"} : WrittenInTime(u)') /\ Armed'
  <2>1. Inside' /\ enabled /\ plan.planned > 0 /\ ~plan.changed
    BY <1>1, <1>3, <1>5 DEF InForce
  <2>2. clock' # set.start
    BY <1>1, <1>5 DEF Tick, InForce, AboutToPlan
  <2>3. Inside /\ HoursLeft' = HoursLeft - 1
    BY <1>1, <2>1, <2>2, WithinWindow
  <2>4. Armed /\ plan.refresh \in Nat \ {0}
    BY <2>1, <2>3, TickIsArmed
  <2>5. /\ dev.age \in Nat /\ dev.revert \in Nat /\ Longest \in Nat
        /\ HoursLeft \in Nat \ {0}
    BY <1>1, LongestTimer, Hours DEF Registers
  <2>6. /\ dev.age + plan.refresh < Longest
        /\ dev.revert >= Longest \/ dev.revert >= dev.age + HoursLeft
    BY <2>4 DEF Armed, Lasts
  <2>7. plan'.refresh \in Nat /\ plan'.refresh = plan.refresh - 1
    BY <1>3, <2>4
  <2>8. dev'.age + plan'.refresh < Longest
    BY <1>2, <2>4, <2>5, <2>6, <2>7
  <2>9. dev'.revert >= Longest \/ dev'.revert >= dev'.age + HoursLeft'
    BY <1>2, <2>3, <2>5, <2>6
  <2>10. Armed'
    BY <2>7, <2>8, <2>9 DEF Armed, Lasts, None
  <2>11. \A u \in Task : task'[u].at = "idle"
    BY <1>1, IdlePhase DEF Tick, AllIdle
  <2> QED BY <2>10, <2>11 DEF WrittenInTime
<1> QED BY <1>4, <1>5 DEF KeptInTime

LEMMA TriggerInTime ==
    ASSUME PlanIInv, KeptInTime, NEW t \in {"start", "end"}, Trigger(t) PROVE KeptInTime'
<1> SUFFICES ASSUME ~lost PROVE KeptInTime'
  BY DEF KeptInTime, Trigger
<1>1. QueuesOnly /\ task'[t].at = "wait" /\ PlanTypeOK
  <2>1. t \in Task \ {"user"}
    BY DEF Task
  <2> QED BY <2>1, WorldTypes, Queues DEF Trigger
<1>2. KeepsPlan
  BY WorldTypes DEF Trigger, KeepsPlan
<1>3. InForce' => t = "end"
  BY <1>1 DEF InForce, AboutToPlan, Task
<1>4. \A u \in Task \ {t} : task'[u] = task[u]
  BY <1>1 DEF Trigger, Queued, PlanTypeOK
<1> QED BY <1>1, <1>2, <1>3, <1>4, WorldInTime DEF Trigger

\* A coroutine that waits plans anew.
LEMMA QueuedInTime ==
    ASSUME PlanIInv, KeptInTime, NEW t \in Task \ {"user", "end"}, QueuesOnly,
           task'[t].at = "wait", KeepsPlan, ~lost, UNCHANGED <<clock, dev>>,
           seen'.revert \in {seen.revert, dev.revert}
    PROVE  KeptInTime'
<1>1. ~InForce'
  BY DEF InForce, AboutToPlan
<1> QED BY <1>1, WorldInTime

LEMMA TimerInTime ==
    ASSUME PlanIInv, KeptInTime, NEW t \in {"refresh", "startup"}, TimerFires(t)
    PROVE  KeptInTime'
<1> SUFFICES ASSUME ~lost PROVE KeptInTime'
  BY DEF KeptInTime, TimerFires
<1>1. t \in Task \ {"user", "end"}
  BY DEF Task
<1>2. QueuesOnly /\ task'[t].at = "wait"
  BY <1>1, WorldTypes, Queues DEF TimerFires
<1>3. KeepsPlan
  BY WorldTypes DEF TimerFires, KeepsPlan, PlannerState
<1> QED BY <1>1, <1>2, <1>3, QueuedInTime DEF TimerFires, devVars

LEMMA PollInTime ==
    ASSUME PlanIInv, KeptInTime, Poll \/ PollReadsLess \/ PollFails PROVE KeptInTime'
<1> SUFFICES ASSUME ~lost' PROVE KeptInTime'
  BY DEF KeptInTime
<1>1. /\ OnPoll(Read) /\ ~lost /\ seen' = Read
      /\ UNCHANGED <<clock, dev, due, set, enabled, busy, applied>>
  BY DEF Poll, PollReadsLess, PollFails, Trouble, devVars
<1>2. QueuesOnly /\ KeepsPlan
  BY <1>1, PollAsks
<1>3. seen'.revert = dev.revert
  BY <1>1 DEF Read
<1>4. CASE UNCHANGED <<plan, task>>
  BY <1>1, <1>2, <1>3, <1>4, WorldInTime
<1>5. CASE \E job : task' = Queued("poll", job)
  <2>1. "poll" \in Task \ {"user", "end"} /\ PlanTypeOK
    BY WorldTypes DEF Task
  <2>2. task'["poll"].at = "wait"
    BY <1>5, <2>1 DEF Queued, PlanTypeOK, Idle
  <2> QED BY <1>1, <1>2, <1>3, <2>1, <2>2, QueuedInTime
<1> QED BY <1>1, <1>4, <1>5 DEF OnPoll

LEMMA ChangeInTime ==
    ASSUME PlanIInv, KeptInTime, ChangeSettings \/ Configure \/ SwitchOn \/ SwitchOff
    PROVE  KeptInTime'
<1> SUFFICES ASSUME ~lost PROVE KeptInTime'
  <2>1. lost' = lost
    BY DEF ChangeSettings, Configure, NewPlan, SwitchOn, SwitchOff
  <2> QED BY <2>1 DEF KeptInTime
<1>1. /\ UNCHANGED <<clock, dev, seen, busy>> /\ PlanTypeOK
      /\ {"enable", "disable"} \subseteq Task \ {"user", "end"}
  BY WorldTypes DEF ChangeSettings, Configure, NewPlan, SwitchOn, SwitchOff, devVars, Task
<1>2. CASE ChangeSettings \/ Configure
  <2>1. plan' = Later /\ task' = task
    BY <1>2 DEF ChangeSettings, Configure, NewPlan
  <2>2. QueuesOnly
    BY <1>1, <2>1, NothingQueued
  <2>3. KeepsPlan /\ plan'.changed
    BY <1>1, <2>1, Adopted DEF KeepsPlan
  <2>4. ~InForce'
    BY <2>3 DEF InForce
  <2> QED BY <1>1, <2>2, <2>3, <2>4, WorldInTime
<1>3. CASE SwitchOn \/ SwitchOff
  <2>1. PICK t \in {"enable", "disable"} : task[t] = Idle /\ task' = Queued(t, "plan")
    BY <1>3 DEF SwitchOn, SwitchOff
  <2>2. QueuesOnly /\ task'[t].at = "wait"
    BY <1>1, <2>1, Queues
  <2>3. KeepsPlan
    <3>1. plan' = plan /\ applied' = applied
      BY <1>3 DEF SwitchOn, SwitchOff
    <3> QED BY <3>1, WorldTypes DEF KeepsPlan
  <2> QED BY <1>1, <2>1, <2>2, <2>3, QueuedInTime
<1> QED BY <1>2, <1>3

LEMMA TimersInitially == TimersFit /\ PlanInit => KeptInTime
<1> SUFFICES ASSUME TimersFit, PlanInit PROVE KeptInTime
  OBVIOUS
<1>1. /\ dev.revert = FactoryRevert /\ seen.revert = FactoryRevert
      /\ \A t \in Task : task[t].at = "idle"
  BY IdlePhase DEF PlanInit
<1>2. plan.owned = FALSE /\ plan.planned = 0
  BY RestoredPlan DEF PlanInit
<1>3. TimersOK
  BY <1>1, <1>2 DEF TimersOK, TimersFit
<1>4. ~InForce
  <2>1. ~(plan.planned > 0)
    BY <1>2
  <2> QED BY <2>1 DEF InForce
<1> QED BY <1>3, <1>4 DEF KeptInTime

LEMMA StepInTime == TimersFit /\ PlanIInv /\ KeptInTime /\ [PlanNext]_planVars => KeptInTime'
<1> SUFFICES ASSUME TimersFit, PlanIInv, KeptInTime, [PlanNext]_planVars PROVE KeptInTime'
  OBVIOUS
<1>1. CASE UNCHANGED planVars
  BY <1>1 DEF planVars, KeptInTime, TimersOK, InForce, AboutToPlan, Inside, HandsBack, Writing,
              WrittenInTime, Lasts, HoursLeft, Armed
<1>2. ASSUME NEW t \in Task, Step(t) PROVE KeptInTime'
  BY <1>2, RunIsInTime, WriteTimerInTime, WriteRatesInTime, WriteModeInTime,
     RefreshedInTime, WriteReleaseInTime DEF Step
<1>3. CASE Timers
  BY <1>3, TriggerInTime, TimerInTime DEF Timers
<1>4. CASE ChangeSettings \/ Configure \/ SwitchOn \/ SwitchOff
  BY <1>4, ChangeInTime
<1>5. CASE Poll \/ PollReadsLess \/ PollFails
  BY <1>5, PollInTime
<1>6. ASSUME lost' PROVE KeptInTime'
  BY <1>6 DEF KeptInTime
<1>7. ASSUME NEW mode, SelectMode(mode) PROVE lost'
  BY <1>7 DEF SelectMode, Select, Trouble
<1>8. ASSUME NEW rate, NEW watts, SetPower(rate, watts) PROVE lost'
  BY <1>8 DEF SetPower, Select, Trouble
<1>9. ASSUME NEW crash, Stop(crash) PROVE lost'
  BY <1>9 DEF Stop, Trouble
<1>10. CASE WritePoint
  <2>1. lost
    BY <1>10, IdlePhase, UserIsLost DEF WritePoint
  <2> QED BY <1>6, <1>10, <2>1 DEF WritePoint, Trouble, NoTrouble
<1>11. CASE PlanSetup
  <2>1. lost' = lost /\ lost
    BY <1>11 DEF PlanSetup, PlanIInv, LetGo, NothingFailed
  <2> QED BY <1>6, <2>1
<1> QED BY <1>1, <1>2, <1>3, <1>4, <1>5, <1>6, <1>7, <1>8, <1>9, <1>10, <1>11, TickInTime
        DEF PlanNext, User

\* "Writes the mode again before it lapses": with timers that are refreshed before they lapse,
\* and while nothing fails, the battery does not drop the rate while the plan is on and its
\* window is open, for every window, plan and interleaving (_watch_plan, _arm_revert_timer).
THEOREM RateIsWrittenInTime == ASSUME TimersFit PROVE PlanSpec => RateStaysInForce
<1>1. PlanInit => PlanIInv /\ KeptInTime
  BY PlanInitially, TimersInitially
<1>2. PlanIInv /\ KeptInTime /\ [PlanNext]_planVars => (PlanIInv /\ KeptInTime)'
  BY PlanStepKeeps, StepInTime
<1>3. ASSUME PlanIInv, KeptInTime, Tick, Lapses, ~lost, enabled, plan.planned > 0,
             ~plan.changed, Inside
      PROVE  clock' = set.end
  <2>1. Armed /\ plan.refresh \in Nat \ {0}
    BY <1>3, TickIsArmed
  <2>2. /\ PlanTypeOK /\ dev \in Registers
    BY <1>3, WorldTypes
  <2>3. /\ dev.age \in Nat /\ dev.revert \in Nat /\ Longest \in Nat
        /\ HoursLeft \in Nat \ {0}
    BY <2>2, LongestTimer, Hours DEF Registers
  <2>4. /\ dev.age + plan.refresh < Longest
        /\ dev.revert >= Longest \/ dev.revert >= dev.age + HoursLeft
        /\ dev.age + 1 >= dev.revert
    BY <1>3, <2>1 DEF Armed, Lasts, Lapses
  <2>5. HoursLeft <= 1
    BY <2>1, <2>3, <2>4
  <2> QED BY <1>3, <2>2, <2>5, LastTick DEF Tick
<1>4. PlanIInv /\ KeptInTime =>
        [Tick /\ Lapses =>
           ~enabled \/ plan.planned = 0 \/ lost \/ plan.changed
           \/ clock' = set.end \/ ~Inside]_planVars
  <2> SUFFICES ASSUME PlanIInv, KeptInTime, Tick, Lapses, ~lost, enabled,
                      ~(plan.planned = 0), ~plan.changed, Inside
               PROVE  clock' = set.end
    OBVIOUS
  <2>1. plan.planned \in 0..WChaMax /\ WChaMax \in Nat
    BY WorldTypes, BatteryIsThere DEF PlannerState
  <2>2. plan.planned > 0
    BY <2>1
  <2> QED BY <2>2, <1>3
<1> QED BY <1>1, <1>2, <1>4, PTL DEF PlanSpec, RateStaysInForce
=============================================================================
