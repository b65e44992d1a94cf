--------------------------- MODULE EntryFlowsProofs ---------------------------
(***************************************************************************)
(* Proofs about EntryFlows, for any places, inverters, entries and dialogs *)
(* and any number of events.                                               *)
(***************************************************************************)
EXTENDS EntryFlowsProperties, TLAPS

\* A unique id is a serial number or a place, and tells inverters at
\* different places apart (_get_unique_id).
LEMMA UidsTellApart ==
    /\ \A i \in Inverters, p \in Places : UidOf(i, p) \in Places \cup Inverters
    /\ \A i, j \in Inverters, p, q \in Places :
          UidOf(i, p) = UidOf(j, q) => i = j \/ p = q
    /\ Nobody \notin Places \cup Inverters
PROOF
  BY SerialsAreTheirs, SerialsAreNoPlaces DEF UidOf

\* An unused place of a dialog is sound and fits anywhere.
LEMMA NoFlowIsSound ==
    NoFlow \in Dialog /\ Sound(NoFlow) /\ \A f \in Flows : Fits(f, NoFlow)
PROOF
  <1>1. NoFlow \in Dialog
    BY DEF NoFlow, Dialog, Uids, PlaceOrNone, InverterOrNone
  <1> QED BY <1>1 DEF NoFlow, Sound, Fits, Reserves

\* A dialog that went on with no more than its step, and reserves no unique id
\* it did not reserve before, fits as it did.
LEMMA FitsAsBefore ==
    ASSUME NEW f \in Flows, NEW q, NEW r, Fits(f, q),
           r.kind = q.kind, r.target = q.target,
           r.kind = "reconfigure" /\ r.step = "handing"
           => q.step = "handing" /\ r.answer = q.answer /\ r.place = q.place,
           Reserves(r) => Reserves(q) /\ r.uid = q.uid
    PROVE  Fits(f, r)
PROOF
  BY DEF Fits

\* What was removed is over when nothing of it runs or is open.
LEMMA OverOrStill == \A r : Over(r) = NoFlow \/ Over(r) = r
PROOF
  BY DEF Over

\* A running step that ends leaves a form, or nothing but the task that closes
\* the probe.
LEMMA EndedIsSound ==
    ASSUME NEW r \in Dialog, NEW form \in Idle \cup {"none"}, r.kind # "none", r.spare = Nobody,
           r.gone /\ r.client # Nobody => CancelWhileClosing \/ r.closer,
           form \in {"host", "models"} => r.kind = "options",
           form = "settings" => r.kind = "setup",
           r.gone \/ form # "none"
    PROVE  /\ Ended(r, form) \in Dialog /\ Sound(Ended(r, form))
           /\ \/ Ended(r, form) = NoFlow
              \/ /\ Ended(r, form).step = IF r.gone THEN "none" ELSE form
                 /\ Ended(r, form).kind = r.kind /\ Ended(r, form).target = r.target
                 /\ Ended(r, form).uid = r.uid /\ Ended(r, form).gone = r.gone
PROOF
  <1>1. CASE r.gone
    <2> DEFINE s == [r EXCEPT !.step = "none"]
    <2>1. /\ s \in Dialog /\ Sound(s) /\ s.step = "none"
          /\ s.kind = r.kind /\ s.target = r.target /\ s.uid = r.uid /\ s.gone = r.gone
      BY <1>1 DEF Dialog, Sound
    <2>2. Ended(r, form) = Over(s)
      BY <1>1 DEF Ended
    <2>3. Over(s) = NoFlow \/ Over(s) = s
      BY OverOrStill
    <2> QED BY <1>1, <2>1, <2>2, <2>3, NoFlowIsSound
  <1>2. CASE ~r.gone
    <2> DEFINE s == [r EXCEPT !.step = form]
    <2>1. /\ s \in Dialog /\ Sound(s) /\ s.step = form
          /\ s.kind = r.kind /\ s.target = r.target /\ s.uid = r.uid /\ s.gone = r.gone
      BY <1>2 DEF Dialog, Sound, Idle
    <2>2. Ended(r, form) = s
      BY <1>2 DEF Ended
    <2> QED BY <1>2, <2>1, <2>2
  <1> QED BY <1>1, <1>2

\* A dialog that is removed has left somebody behind to close its probe.
LEMMA RemovedIsSound ==
    ASSUME NEW r \in Dialog, Sound(r), r.kind # "none",
           r.step = "closing" => CancelWhileClosing
    PROVE  /\ Removed(r) \in Dialog /\ Sound(Removed(r))
           /\ \/ Removed(r) = NoFlow
              \/ /\ Removed(r).gone /\ Removed(r).step \in {r.step, "none"}
                 /\ Removed(r).kind = r.kind /\ Removed(r).target = r.target
                 /\ Removed(r).answer = r.answer /\ Removed(r).place = r.place
PROOF
  <1> DEFINE step == IF r.step \in Running THEN r.step ELSE "none"
             s == [r EXCEPT !.gone = TRUE, !.step = step,
                            !.closer = r.closer \/ r.client # Nobody]
  <1>1. Removed(r) = Over(s)
    BY DEF Removed, StepStopped, Dialog
  <1>2. /\ s \in Dialog /\ s.gone /\ s.step = step /\ s.closer = (r.closer \/ r.client # Nobody)
        /\ s.kind = r.kind /\ s.target = r.target /\ s.answer = r.answer /\ s.place = r.place
        /\ s.client = r.client /\ s.spare = r.spare
    BY DEF Dialog
  <1>3. step \in {r.step, "none"} /\ (step = "none" => r.step # "sma")
    BY DEF Running
  <1>4. Sound(s)
    BY <1>2, <1>3 DEF Sound
  <1>5. Over(s) = NoFlow \/ Over(s) = s
    BY OverOrStill
  <1> QED BY <1>1, <1>2, <1>3, <1>4, <1>5, NoFlowIsSound

\* A dialog whose step aborted it or created the entry is gone too.
LEMMA FinishedIsSound ==
    ASSUME NEW r \in Dialog, r.kind # "none", r.spare = Nobody,
           r.gone /\ r.client # Nobody => CancelWhileClosing \/ r.closer
    PROVE  /\ Finished(r) \in Dialog /\ Sound(Finished(r))
           /\ \/ Finished(r) = NoFlow
              \/ /\ Finished(r).gone /\ Finished(r).step = "none"
                 /\ Finished(r).kind = r.kind /\ Finished(r).target = r.target
PROOF
  <1>1. CASE r.gone
    <2>1. Finished(r) = Ended(r, "none")
      BY <1>1 DEF Finished
    <2> QED BY <1>1, <2>1, EndedIsSound
  <1>2. CASE ~r.gone
    <2> DEFINE s == [r EXCEPT !.step = "none"]
    <2>1. /\ s \in Dialog /\ Sound(s) /\ s.kind = r.kind /\ s.target = r.target
          /\ s.step = "none"
      BY <1>2 DEF Dialog, Sound
    <2>2. Finished(r) = Removed(s)
      BY <1>2 DEF Finished
    <2> QED BY <2>1, <2>2, RemovedIsSound
  <1> QED BY <1>1, <1>2

\* The form for the place comes back empty.
LEMMA AskAgainIsSound ==
    ASSUME NEW r \in Dialog, r.kind # "none", r.spare = Nobody,
           r.gone /\ r.client # Nobody => CancelWhileClosing \/ r.closer
    PROVE  /\ AskAgain(r) \in Dialog /\ Sound(AskAgain(r))
           /\ \/ AskAgain(r) = NoFlow
              \/ /\ AskAgain(r).kind = r.kind /\ AskAgain(r).target = r.target
                 /\ AskAgain(r).step \in {"none", "form"}
PROOF
  <1>1. PICK s \in Dialog :
          /\ AskAgain(r) = Ended(s, "form")
          /\ s.kind = r.kind /\ s.target = r.target /\ s.spare = Nobody
          /\ s.gone = r.gone /\ s.client = r.client /\ s.closer = r.closer
    <2> DEFINE s == [r EXCEPT !.place = Nobody, !.answer = Nobody]
    <2>1. s \in Dialog
      BY DEF Dialog, PlaceOrNone, InverterOrNone
    <2>2. AskAgain(r) = Ended(s, "form")
      BY DEF AskAgain
    <2>3. /\ s.kind = r.kind /\ s.target = r.target /\ s.spare = Nobody
          /\ s.gone = r.gone /\ s.client = r.client /\ s.closer = r.closer
      BY DEF Dialog
    <2> QED BY <2>1, <2>2, <2>3
  <1> QED BY <1>1, EndedIsSound DEF Idle

\* The form for models and settings is one of a setup.
LEMMA SettingsFormIsSound ==
    ASSUME NEW r \in Dialog, r.kind = "setup", r.spare = Nobody,
           r.gone /\ r.client # Nobody => CancelWhileClosing \/ r.closer
    PROVE  /\ SettingsForm(r) \in Dialog /\ Sound(SettingsForm(r))
           /\ \/ SettingsForm(r) = NoFlow
              \/ SettingsForm(r).kind = "setup" /\ SettingsForm(r).uid = r.uid
PROOF
  BY EndedIsSound DEF SettingsForm, Idle

\* What has gone fits wherever the entry it was about is.
LEMMA GoneFits ==
    ASSUME NEW f \in Flows, NEW q, NEW r, Fits(f, q),
           \/ r = NoFlow
           \/ r.gone /\ r.step = "none" /\ r.kind = q.kind /\ r.target = q.target
    PROVE  Fits(f, r)
PROOF
  BY NoFlowIsSound DEF Fits, Reserves

-----------------------------------------------------------------------------
\* A step of a dialog that leaves every entry its unique id, wherever it moves
\* one, keeps the invariant when the dialog fits afterwards.
LEMMA DialogStepKeepsIInv ==
    ASSUME IInv, NEW f \in Flows, NEW r \in Dialog, Sound(r), Fits(f, r), Becomes(f, r),
           UNCHANGED <<at, password, run>>, reload' \subseteq Entries, events' \in 0 .. Events,
           entry' \in [Entries -> [uid : Uids, place : PlaceOrNone, token : InverterOrNone]],
           Used' = Used, \A e \in Used : entry'[e].uid = entry[e].uid
    PROVE  IInv'
PROOF
  <1>1. /\ flow' \in [Flows -> Dialog] /\ held' \in [Flows -> {"live", "good", "bad"}]
        /\ \A g \in Flows : flow'[g] = IF g = f THEN r ELSE flow[g]
    BY DEF IInv, TypeOK, Becomes
  <1>2. TypeOK'
    BY <1>1 DEF IInv, TypeOK
  <1>3. EntriesHaveUids' /\ OneEntryPerUid'
    BY DEF IInv, EntriesHaveUids, OneEntryPerUid
  <1>4. \A u : EntriesOf(u)' = EntriesOf(u)
    BY DEF EntriesOf
  <1>5. ASSUME NEW g \in Flows PROVE Sound(flow'[g]) /\ Fits(g, flow[g])'
    <2>1. Sound(flow'[g])
      BY <1>1 DEF IInv
    <2>2. CASE g = f
      <3>1. flow'[g] = r /\ \A h \in Flows \ {f} : flow'[h] = flow[h]
        BY <1>1, <2>2
      <3>2. r.kind \in {"reconfigure", "options"} => r.target \in Used
        BY DEF Fits
      <3> QED BY <1>4, <2>1, <2>2, <3>1, <3>2 DEF Fits
    <2>3. CASE g # f
      <3>1. flow'[g] = flow[g] /\ flow'[f] = r
        BY <1>1, <2>3
      <3>2. Fits(g, flow[g])
        BY DEF IInv
      <3>3. Reserves(r) /\ Reserves(flow[g]) => flow[g].uid # r.uid
        BY <2>3 DEF Fits
      <3>4. \A h \in Flows \ {g} : Reserves(flow'[h]) /\ Reserves(flow[g])
                                   => flow'[h].uid # flow[g].uid
        BY <1>1, <3>2, <3>3 DEF Fits
      <3> QED BY <1>4, <2>1, <3>1, <3>2, <3>4 DEF Fits
    <2> QED BY <2>2, <2>3
  <1> QED BY <1>2, <1>3, <1>5 DEF IInv, Sound

\* Moving an entry, or giving it another token, leaves it in use and leaves it
\* its unique id.
LEMMA ChangeKeepsUids ==
    ASSUME IInv, NEW e \in Used, NEW new, Changed(e, new),
           new \in [uid : Uids, place : PlaceOrNone, token : InverterOrNone],
           new.uid = entry[e].uid
    PROVE  /\ entry' \in [Entries -> [uid : Uids, place : PlaceOrNone, token : InverterOrNone]]
           /\ reload' \subseteq Entries
           /\ Used' = Used /\ \A d \in Used : entry'[d].uid = entry[d].uid
PROOF
  <1>1. e \in Entries /\ entry[e].uid \in Places \cup Inverters
    BY DEF IInv, EntriesHaveUids, Used
  <1>2. new # Absent
    BY <1>1, UidsTellApart DEF Absent
  <1>3. \A d \in Entries : entry'[d] = IF d = e THEN new ELSE entry[d]
    BY DEF IInv, TypeOK, Changed
  <1>4. Used' = Used
    BY <1>1, <1>2, <1>3 DEF Used
  <1>5. \A d \in Used : entry'[d].uid = entry[d].uid
    BY <1>3 DEF Used
  <1>6. /\ entry' \in [Entries -> [uid : Uids, place : PlaceOrNone, token : InverterOrNone]]
        /\ reload' \subseteq Entries
    BY <1>1 DEF IInv, TypeOK, Changed
  <1> QED BY <1>4, <1>5, <1>6

\* The entry that a setup creates has the unique id that the dialog reserved.
LEMMA CreationKeepsIInv ==
    ASSUME IInv, NEW f \in Flows, Reserves(flow[f]), NEW r \in Dialog, Sound(r),
           Becomes(f, r), r = NoFlow \/ (r.gone /\ r.step = "none" /\ r.kind = "setup"),
           NEW e \in Entries \ Used, NEW new, Changed(e, new),
           new \in [uid : Uids, place : PlaceOrNone, token : InverterOrNone],
           new.uid = flow[f].uid,
           UNCHANGED <<at, password, run, events>>
    PROVE  IInv'
PROOF
  <1>1. /\ flow' \in [Flows -> Dialog] /\ held' \in [Flows -> {"live", "good", "bad"}]
        /\ \A g \in Flows : flow'[g] = IF g = f THEN r ELSE flow[g]
    BY DEF IInv, TypeOK, Becomes
  <1>2. \A d \in Entries : entry'[d] = IF d = e THEN new ELSE entry[d]
    BY DEF IInv, TypeOK, Changed
  <1>3. TypeOK'
    BY <1>1 DEF IInv, TypeOK, Changed
  <1>4. Fits(f, flow[f])
    BY DEF IInv
  <1>5. new.uid \in Places \cup Inverters /\ EntriesOf(new.uid) = {}
    BY <1>4 DEF Fits
  <1>6. new # Absent
    BY <1>5, UidsTellApart DEF Absent
  <1>7. Used' = Used \cup {e} /\ e \notin Used
    BY <1>2, <1>6 DEF Used
  <1>8. EntriesHaveUids'
    BY <1>2, <1>5, <1>7 DEF IInv, EntriesHaveUids, Used
  <1>9. OneEntryPerUid'
    <2>1. \A d \in Used : entry[d].uid # new.uid
      BY <1>5 DEF EntriesOf
    <2> QED BY <1>2, <1>7, <2>1 DEF IInv, OneEntryPerUid, Used
  <1>10. \A u : u # new.uid => EntriesOf(u)' = EntriesOf(u)
    BY <1>2, <1>7 DEF EntriesOf, Used
  <1>11. ASSUME NEW g \in Flows PROVE Sound(flow'[g]) /\ Fits(g, flow[g])'
    <2>1. Sound(flow'[g])
      BY <1>1 DEF IInv
    <2>2. CASE g = f
      <3>1. flow'[g] = r /\ r.kind \notin {"reconfigure", "options"} /\ ~Reserves(r)
        BY <1>1, <2>2 DEF NoFlow, Reserves
      <3> QED BY <2>1, <3>1 DEF Fits
    <2>3. CASE g # f
      <3>1. flow'[g] = flow[g] /\ flow'[f] = r /\ ~Reserves(r)
        BY <1>1, <2>3 DEF NoFlow, Reserves
      <3>2. Fits(g, flow[g])
        BY DEF IInv
      <3>3. flow[g].kind \in {"reconfigure", "options"}
            => flow[g].target \in Used' /\ entry'[flow[g].target].uid = entry[flow[g].target].uid
        BY <1>2, <1>7, <3>2 DEF Fits, Used
      <3>4. Reserves(flow[g]) => flow[g].uid # new.uid
        BY <1>4, <2>3 DEF Fits
      <3>5. Reserves(flow[g]) =>
               EntriesOf(flow[g].uid)' = {} /\ flow[g].uid \in Places \cup Inverters
        <4>1. Reserves(flow[g]) =>
                 EntriesOf(flow[g].uid) = {} /\ flow[g].uid \in Places \cup Inverters
          BY <3>2 DEF Fits
        <4>2. Reserves(flow[g]) => \A d \in Used' : entry'[d].uid # flow[g].uid
          BY <1>2, <1>7, <3>4, <4>1 DEF EntriesOf, Used
        <4> QED BY <3>1, <4>1, <4>2 DEF EntriesOf
      <3>6. \A h \in Flows \ {g} : Reserves(flow'[h]) /\ Reserves(flow[g])
                                   => flow'[h].uid # flow[g].uid
        BY <1>1, <3>1, <3>2 DEF Fits
      <3> QED BY <2>1, <3>1, <3>2, <3>3, <3>5, <3>6 DEF Fits
    <2> QED BY <2>2, <2>3
  <1> QED BY <1>3, <1>8, <1>9, <1>11 DEF IInv, Sound

\* A step of a dialog that changes no entry keeps the invariant when the
\* dialog fits afterwards.
LEMMA QuietStepKeepsIInv ==
    ASSUME IInv, NEW f \in Flows, NEW r \in Dialog, Sound(r), Fits(f, r), Becomes(f, r),
           NoEntryChanges, Still, events' \in 0 .. Events
    PROVE  IInv'
PROOF
  <1>1. /\ entry' \in [Entries -> [uid : Uids, place : PlaceOrNone, token : InverterOrNone]]
        /\ reload' \subseteq Entries
        /\ Used' = Used /\ \A d \in Used : entry'[d].uid = entry[d].uid
    BY DEF IInv, TypeOK, NoEntryChanges, Used
  <1>2. UNCHANGED <<at, password, run>>
    BY DEF Still
  <1> QED BY <1>1, <1>2, DialogStepKeepsIInv

\* What is counted as an event stays within the bound.
LEMMA EventsAreBounded ==
    ASSUME IInv, Event \/ UNCHANGED events PROVE events' \in 0 .. Events
PROOF
  BY SerialsAreTheirs DEF IInv, TypeOK, Event

\* What is known of a dialog that is at a step.
LEMMA AtAStep ==
    ASSUME IInv, NEW f \in Flows, flow[f].step # "none" \/ flow[f].closer
    PROVE  /\ flow[f] \in Dialog /\ Sound(flow[f]) /\ Fits(f, flow[f])
           /\ flow[f].kind \in {"setup", "reconfigure", "options"}
PROOF
  <1>1. flow[f] \in Dialog /\ Sound(flow[f]) /\ Fits(f, flow[f])
    BY DEF IInv, TypeOK
  <1>2. flow[f].kind # "none"
    BY <1>1 DEF Sound, NoFlow
  <1>3. flow[f].kind \in {"none", "setup", "reconfigure", "options"}
    BY <1>1 DEF Dialog
  <1> QED BY <1>1, <1>2, <1>3

-----------------------------------------------------------------------------
\* Opening a dialog.
LEMMA OpeningKeepsIInv ==
    ASSUME IInv, NEW f \in Flows,
           \/ StartUser(f) \/ StartScan(f) \/ \E p \in Places : StartDhcp(f, p)
           \/ \E e \in Entries : StartReconfigure(f, e) \/ StartOptions(f, e)
    PROVE  IInv'
PROOF
  <1>1. ASSUME NEW r, Begins(f, r), r \in Dialog, Sound(r), Fits(f, r) PROVE IInv'
    BY <1>1, QuietStepKeepsIInv, EventsAreBounded DEF Begins
  <1>2. CASE StartUser(f) \/ StartScan(f)
    <2>1. Opened("setup", "form") \in Dialog /\ Sound(Opened("setup", "form"))
      BY NoFlowIsSound DEF Opened, NoFlow, Dialog, Sound, Idle
    <2>2. Fits(f, Opened("setup", "form"))
      BY DEF Fits, Reserves, Opened, NoFlow
    <2> QED BY <1>1, <1>2, <2>1, <2>2 DEF StartUser, StartScan
  <1>3. ASSUME NEW p \in Places, StartDhcp(f, p) PROVE IInv'
    <2> DEFINE r == [Opened("setup", "form") EXCEPT !.uid = <<"dhcp", p>>]
    <2>1. <<"dhcp", p>> \in Uids
      BY DEF Uids
    <2>2. r \in Dialog /\ Sound(r)
      BY <2>1, NoFlowIsSound DEF Opened, NoFlow, Dialog, Sound, Idle
    <2>3. Fits(f, r)
      BY DEF Fits, Reserves, Opened, NoFlow
    <2> QED BY <1>1, <1>3, <2>2, <2>3 DEF StartDhcp
  <1>4. ASSUME NEW e \in Entries, StartReconfigure(f, e) PROVE IInv'
    <2> DEFINE r == [Opened("reconfigure", "form") EXCEPT !.target = e]
    <2>1. r \in Dialog /\ Sound(r)
      BY NoFlowIsSound DEF Opened, NoFlow, Dialog, Sound, Idle
    <2>2. Fits(f, r)
      BY <1>4 DEF StartReconfigure, Fits, Reserves, Opened, NoFlow
    <2> QED BY <1>1, <1>4, <2>1, <2>2 DEF StartReconfigure
  <1>5. ASSUME NEW e \in Entries, StartOptions(f, e) PROVE IInv'
    <2> DEFINE r == [Opened("options", "host") EXCEPT !.target = e, !.draft = entry[e].token]
    <2>1. entry[e].token \in InverterOrNone
      BY DEF IInv, TypeOK
    <2>2. r \in Dialog /\ Sound(r)
      BY <2>1, NoFlowIsSound DEF Opened, NoFlow, Dialog, Sound, Idle
    <2>3. Fits(f, r)
      BY <1>5 DEF StartOptions, Fits, Reserves, Opened, NoFlow
    <2> QED BY <1>1, <1>5, <2>2, <2>3 DEF StartOptions
  <1> QED BY <1>2, <1>3, <1>4, <1>5

\* Removing one, and closing what it left.
LEMMA RemovingKeepsIInv ==
    ASSUME IInv, NEW f \in Flows, Cancel(f) \/ CloserRuns(f) PROVE IInv'
PROOF
  <1> DEFINE q == flow[f]
  <1>1. CASE Cancel(f)
    <2>1. /\ q \in Dialog /\ Sound(q) /\ Fits(f, q)
          /\ q.kind \in {"setup", "reconfigure", "options"}
      BY <1>1, AtAStep DEF Cancel, Idle, Running
    <2>2. /\ Removed(q) \in Dialog /\ Sound(Removed(q))
          /\ \/ Removed(q) = NoFlow
             \/ /\ Removed(q).gone /\ Removed(q).step \in {q.step, "none"}
                /\ Removed(q).kind = q.kind /\ Removed(q).target = q.target
                /\ Removed(q).answer = q.answer /\ Removed(q).place = q.place
      BY <1>1, <2>1, RemovedIsSound DEF Cancel
    <2>3. Fits(f, Removed(q))
      BY <2>1, <2>2, NoFlowIsSound DEF Fits, Reserves
    <2> QED BY <1>1, <2>2, <2>3, QuietStepKeepsIInv, EventsAreBounded DEF Cancel
  <1>2. CASE CloserRuns(f)
    <2> DEFINE s == [q EXCEPT !.client = Nobody, !.closer = FALSE]
    <2>1. q \in Dialog /\ Sound(q) /\ Fits(f, q) /\ q.kind \in {"setup", "reconfigure", "options"}
      BY <1>2, AtAStep DEF CloserRuns
    <2>2. /\ s \in Dialog /\ s.client = Nobody
          /\ s.kind = q.kind /\ s.step = q.step /\ s.uid = q.uid /\ s.place = q.place
          /\ s.answer = q.answer /\ s.target = q.target /\ s.gone = q.gone /\ s.spare = q.spare
      BY <2>1 DEF Dialog, PlaceOrNone
    <2>3. Sound(s)
      BY <2>1, <2>2 DEF Sound
    <2>4. Fits(f, s)
      BY <2>1, <2>2, FitsAsBefore DEF Reserves
    <2>5. Over(s) \in Dialog /\ Sound(Over(s)) /\ Fits(f, Over(s))
      BY <2>2, <2>3, <2>4, OverOrStill, NoFlowIsSound
    <2> QED BY <1>2, <2>5, QuietStepKeepsIInv, EventsAreBounded DEF CloserRuns
  <1> QED BY <1>1, <1>2

\* Submitting a place, and the probe until it answers or fails.
LEMMA ProbingKeepsIInv ==
    ASSUME IInv, NEW f \in Flows,
           \/ \E p \in Places : Submit(f, p)
           \/ OldProbeClosed(f) \/ ProbeFails(f) \/ FailedProbeClosed(f) \/ SmaAsked(f)
    PROVE  IInv'
PROOF
  <1> DEFINE q == flow[f]
  <1>1. /\ q \in Dialog /\ Sound(q) /\ Fits(f, q)
        /\ q.kind \in {"setup", "reconfigure", "options"}
    BY AtAStep DEF Submit, OldProbeClosed, ProbeFails, FailedProbeClosed, SmaAsked
  <1>2. ASSUME NEW r \in Dialog, Sound(r), Becomes(f, r),
               r.kind = q.kind, r.target = q.target, r.step \notin {"settings", "handing"},
               NoEntryChanges, Still, Event \/ UNCHANGED events
        PROVE  IInv'
    <2>1. Fits(f, r)
      BY <1>1, <1>2 DEF Fits, Reserves
    <2> QED BY <1>2, <2>1, QuietStepKeepsIInv, EventsAreBounded
  <1>3. ASSUME NEW r \in Dialog, r.kind = q.kind, r.target = q.target, r.spare = Nobody,
               r.gone /\ r.client # Nobody => CancelWhileClosing \/ r.closer,
               Becomes(f, AskAgain(r)), NoEntryChanges, Still, Event \/ UNCHANGED events
        PROVE  IInv'
    <2>1. /\ AskAgain(r) \in Dialog /\ Sound(AskAgain(r))
          /\ \/ AskAgain(r) = NoFlow
             \/ /\ AskAgain(r).kind = r.kind /\ AskAgain(r).target = r.target
                /\ AskAgain(r).step \in {"none", "form"}
      BY <1>1, <1>3, AskAgainIsSound
    <2>2. \A t : t.kind = q.kind /\ t.target = q.target /\ t.step \in {"none", "form"}
                => Fits(f, t)
      BY <1>1 DEF Fits, Reserves
    <2>3. Fits(f, AskAgain(r))
      BY <1>3, <2>1, <2>2, NoFlowIsSound
    <2> QED BY <1>3, <2>1, <2>3, QuietStepKeepsIInv, EventsAreBounded
  <1>4. ASSUME NEW p \in Places, Submit(f, p) PROVE IInv'
    <2> DEFINE r == [q EXCEPT !.place = p]
               s == IF r.client = Nobody THEN Probing(r) ELSE [r EXCEPT !.step = "closing"]
    <2>1. ~q.gone /\ q.step = "form" /\ Becomes(f, s) /\ NoEntryChanges /\ Still
          /\ UNCHANGED events
      BY <1>4 DEF Submit, InProgress
    <2>2. /\ s \in Dialog /\ s.kind = q.kind /\ s.target = q.target /\ s.gone = q.gone
          /\ s.spare = q.spare /\ s.step \in {"probing", "closing"} /\ s.place = p
      BY <1>1 DEF Probing, Dialog, PlaceOrNone, Running
    <2>3. Sound(s)
      BY <1>1, <2>1, <2>2 DEF Sound
    <2> QED BY <1>2, <2>1, <2>2, <2>3
  <1>5. CASE OldProbeClosed(f)
    <2>1. /\ Probing(q) \in Dialog /\ Probing(q).kind = q.kind /\ Probing(q).target = q.target
          /\ Probing(q).gone = q.gone /\ Probing(q).spare = q.spare
          /\ Probing(q).step = "probing" /\ Probing(q).place = q.place
      BY <1>1 DEF Probing, Dialog, Running
    <2>2. Sound(Probing(q))
      BY <1>1, <1>5, <2>1 DEF Sound, OldProbeClosed
    <2> QED BY <1>2, <1>5, <2>1, <2>2 DEF OldProbeClosed
  <1>6. CASE ProbeFails(f)
    <2> DEFINE r == [q EXCEPT !.step = "failing"]
    <2>1. /\ r \in Dialog /\ r.kind = q.kind /\ r.target = q.target /\ r.step = "failing"
          /\ r.gone = q.gone /\ r.spare = q.spare /\ r.place = q.place
          /\ r.client = q.client /\ r.closer = q.closer
      BY <1>1 DEF Dialog, Running
    <2>2. Sound(r)
      BY <1>1, <1>6, <2>1 DEF Sound, ProbeFails
    <2> QED BY <1>2, <1>6, <2>1, <2>2 DEF ProbeFails
  <1>7. CASE FailedProbeClosed(f)
    <2> DEFINE r == [q EXCEPT !.client = Nobody]
               s == [r EXCEPT !.spare = r.place, !.step = "sma"]
    <2>1. /\ r \in Dialog /\ r.kind = q.kind /\ r.target = q.target /\ r.client = Nobody
          /\ r.spare = q.spare /\ r.gone = q.gone /\ r.place = q.place
      BY <1>1 DEF Dialog, PlaceOrNone
    <2>2. q.step = "failing" /\ q.spare = Nobody
      BY <1>1, <1>7 DEF FailedProbeClosed, Sound
    <2>3. /\ s \in Dialog /\ s.kind = q.kind /\ s.target = q.target /\ s.client = Nobody
          /\ s.step = "sma" /\ s.gone = q.gone
      BY <1>1, <2>1 DEF Dialog, Running
    <2>4. Sound(s)
      BY <1>1, <2>3 DEF Sound
    <2>5. CASE Becomes(f, AskAgain(r))
      BY <1>3, <1>7, <2>1, <2>2, <2>5 DEF FailedProbeClosed
    <2>6. CASE Becomes(f, s)
      BY <1>2, <1>7, <2>3, <2>4, <2>6 DEF FailedProbeClosed
    <2> QED BY <1>7, <2>5, <2>6 DEF FailedProbeClosed
  <1>8. CASE SmaAsked(f)
    <2> DEFINE r == [q EXCEPT !.spare = Nobody]
    <2>1. /\ r \in Dialog /\ r.kind = q.kind /\ r.target = q.target /\ r.spare = Nobody
          /\ r.gone = q.gone /\ r.client = q.client /\ r.closer = q.closer
      BY <1>1 DEF Dialog, PlaceOrNone
    <2>2. r.gone /\ r.client # Nobody => CancelWhileClosing \/ r.closer
      BY <1>1, <2>1 DEF Sound
    <2> QED BY <1>3, <1>8, <2>1, <2>2 DEF SmaAsked
  <1> QED BY <1>4, <1>5, <1>6, <1>7, <1>8

-----------------------------------------------------------------------------
\* The probe answers: a setup reserves the unique id, or finds it taken and
\* moves the entry that has it; a reconfigure compares.
LEMMA AnswerKeepsIInv ==
    ASSUME IInv, NEW f \in Flows, ProbeAnswers(f) PROVE IInv'
PROOF
  <1> DEFINE q == flow[f]
             i == at[q.place]
             uid == UidOf(i, q.place)
  <1>1. /\ q \in Dialog /\ Sound(q) /\ Fits(f, q)
        /\ q.kind \in {"setup", "reconfigure", "options"}
    BY AtAStep DEF ProbeAnswers
  <1>2. /\ q.step = "probing" /\ q.place \in Places /\ q.spare = Nobody
        /\ (q.gone /\ q.client # Nobody => CancelWhileClosing \/ q.closer)
    BY <1>1 DEF ProbeAnswers, Sound
  <1>3. i \in Inverters /\ i # Nobody
    BY <1>2 DEF ProbeAnswers, IInv, TypeOK, InverterOrNone
  <1>4. uid \in Places \cup Inverters /\ uid \in Uids
    BY <1>2, <1>3, UidsTellApart DEF Uids, InverterOrNone
  <1>5. Still /\ UNCHANGED events /\ events' \in 0 .. Events
    BY EventsAreBounded DEF ProbeAnswers
  <1>6. CASE q.kind = "setup"
    <2> DEFINE s == [q EXCEPT !.uid = uid]
    <2>1. Identified(f, q, uid)
      BY <1>6 DEF ProbeAnswers
    <2>2. /\ s \in Dialog /\ s.kind = "setup" /\ s.uid = uid /\ s.spare = Nobody
          /\ s.gone = q.gone /\ s.client = q.client /\ s.closer = q.closer
          /\ s.target = q.target
      BY <1>1, <1>2, <1>4, <1>6 DEF Dialog
    <2>3. \A t : t = NoFlow \/ (t.gone /\ t.step = "none" /\ t.kind = q.kind /\ t.target = q.target)
                 => Fits(f, t)
      BY <1>1, GoneFits
    <2>4. /\ Finished(q) \in Dialog /\ Sound(Finished(q)) /\ Fits(f, Finished(q))
          /\ Finished(s) \in Dialog /\ Sound(Finished(s)) /\ Fits(f, Finished(s))
      <3>1. /\ Finished(q) \in Dialog /\ Sound(Finished(q))
            /\ \/ Finished(q) = NoFlow
               \/ /\ Finished(q).gone /\ Finished(q).step = "none"
                  /\ Finished(q).kind = q.kind /\ Finished(q).target = q.target
        BY <1>1, <1>2, FinishedIsSound
      <3>2. /\ Finished(s) \in Dialog /\ Sound(Finished(s))
            /\ \/ Finished(s) = NoFlow
               \/ /\ Finished(s).gone /\ Finished(s).step = "none"
                  /\ Finished(s).kind = s.kind /\ Finished(s).target = s.target
        BY <1>2, <2>2, FinishedIsSound
      <3> QED BY <1>6, <2>2, <2>3, <3>1, <3>2
    <2>5. CASE Becomes(f, Finished(q)) /\ NoEntryChanges
      BY <1>5, <2>4, <2>5, QuietStepKeepsIInv
    <2>6. ASSUME NEW e \in EntriesOf(uid), Becomes(f, Finished(s)),
                 Changed(e, [entry[e] EXCEPT !.place = q.place])
          PROVE  IInv'
      <3> DEFINE new == [entry[e] EXCEPT !.place = q.place]
      <3>1. e \in Used /\ entry[e] \in [uid : Uids, place : PlaceOrNone, token : InverterOrNone]
        BY <2>6 DEF EntriesOf, Used, IInv, TypeOK
      <3>2. /\ new \in [uid : Uids, place : PlaceOrNone, token : InverterOrNone]
            /\ new.uid = entry[e].uid
        BY <1>2, <3>1 DEF PlaceOrNone
      <3>3. /\ entry' \in [Entries -> [uid : Uids, place : PlaceOrNone, token : InverterOrNone]]
            /\ reload' \subseteq Entries
            /\ Used' = Used /\ \A d \in Used : entry'[d].uid = entry[d].uid
        BY <2>6, <3>1, <3>2, ChangeKeepsUids
      <3> QED BY <1>5, <2>4, <2>6, <3>3, DialogStepKeepsIInv DEF Still
    <2>7. ASSUME Becomes(f, SettingsForm(s)), NoEntryChanges, EntriesOf(uid) = {},
                 ~ \E g \in InProgress \ {f} : flow[g].uid = uid
          PROVE  IInv'
      <3> DEFINE t == SettingsForm(s)
      <3>1. /\ t \in Dialog /\ Sound(t)
            /\ \/ t = NoFlow
               \/ t.kind = s.kind /\ t.uid = s.uid
        BY <1>2, <2>2, SettingsFormIsSound
      <3>2. \A g \in Flows \ {f} : Reserves(flow[g]) => flow[g].uid # uid
        BY <2>7 DEF InProgress, Reserves
      <3>3. CASE t.kind = s.kind /\ t.uid = s.uid
        <4>1. t.kind = "setup" /\ t.uid = uid
          BY <2>2, <3>3
        <4>2. \A x : x.kind = "setup" /\ x.uid = uid => Fits(f, x)
          BY <1>4, <2>7, <3>2 DEF Fits
        <4> QED BY <4>1, <4>2, <3>1, <1>5, <2>7, QuietStepKeepsIInv
      <3>4. CASE t = NoFlow
        BY <3>1, <3>4, NoFlowIsSound, <1>5, <2>7, QuietStepKeepsIInv
      <3> QED BY <3>1, <3>3, <3>4
    <2> QED BY <2>1, <2>5, <2>6, <2>7 DEF Identified
  <1>7. CASE q.kind # "setup"
    <2> DEFINE s == [q EXCEPT !.answer = i]
               handing == [s EXCEPT !.step = "handing"]
    <2>1. Matched(f, s, uid)
      BY <1>7 DEF ProbeAnswers
    <2>2. /\ s \in Dialog /\ s.kind = q.kind /\ s.target = q.target /\ s.spare = Nobody
          /\ s.gone = q.gone /\ s.client = q.client /\ s.closer = q.closer
          /\ s.answer = i /\ s.place = q.place
      BY <1>1, <1>2, <1>3 DEF Dialog, InverterOrNone
    <2>3. CASE uid = entry[s.target].uid
      <3>1. /\ handing \in Dialog /\ handing.kind = q.kind /\ handing.target = q.target
            /\ handing.step = "handing" /\ handing.answer = i /\ handing.place = q.place
            /\ handing.gone = q.gone /\ handing.client = q.client /\ handing.closer = q.closer
            /\ handing.spare = Nobody
        BY <2>2 DEF Dialog, Running
      <3>2. Sound(handing)
        BY <1>1, <1>2, <3>1 DEF Sound
      <3>3. Fits(f, handing)
        BY <1>1, <1>3, <1>7, <2>2, <2>3, <3>1 DEF Fits, Reserves
      <3> QED BY <1>5, <2>1, <2>3, <3>1, <3>2, <3>3, QuietStepKeepsIInv DEF Matched
    <2>4. CASE uid # entry[s.target].uid
      <3>1. /\ AskAgain(s) \in Dialog /\ Sound(AskAgain(s))
            /\ \/ AskAgain(s) = NoFlow
               \/ /\ AskAgain(s).kind = s.kind /\ AskAgain(s).target = s.target
                  /\ AskAgain(s).step \in {"none", "form"}
        BY <1>1, <1>2, <2>2, AskAgainIsSound
      <3>2. \A x : x.kind = q.kind /\ x.target = q.target /\ x.step \in {"none", "form"}
                   => Fits(f, x)
        BY <1>1 DEF Fits, Reserves
      <3>3. Fits(f, AskAgain(s))
        BY <2>2, <3>1, <3>2, NoFlowIsSound
      <3>4. Becomes(f, AskAgain(s)) /\ NoEntryChanges
        BY <2>1, <2>4 DEF Matched
      <3> QED BY <1>5, <3>1, <3>3, <3>4, QuietStepKeepsIInv
    <2> QED BY <2>3, <2>4
  <1> QED BY <1>6, <1>7

-----------------------------------------------------------------------------
\* The dialog hands over: a setup creates the entry it reserved the unique id
\* for, a reconfigure moves the one it compared with.
LEMMA HandingKeepsIInv ==
    ASSUME IInv, NEW f \in Flows, SubmitSettings(f) \/ HandedOver(f) PROVE IInv'
PROOF
  <1> DEFINE q == flow[f]
  <1>1. /\ q \in Dialog /\ Sound(q) /\ Fits(f, q)
        /\ q.kind \in {"setup", "reconfigure", "options"}
    BY AtAStep DEF SubmitSettings, HandedOver
  <1>2. CASE SubmitSettings(f)
    <2> DEFINE r == [q EXCEPT !.step = "handing"]
    <2>1. ~q.gone /\ q.step = "settings" /\ q.kind = "setup"
      BY <1>1, <1>2 DEF SubmitSettings, InProgress, Sound
    <2>2. /\ r \in Dialog /\ r.kind = q.kind /\ r.target = q.target /\ r.step = "handing"
          /\ r.uid = q.uid /\ r.gone = q.gone /\ r.spare = q.spare
      BY <1>1 DEF Dialog, Running
    <2>3. Sound(r)
      BY <1>1, <2>1, <2>2 DEF Sound
    <2>4. Fits(f, r)
      BY <1>1, <2>1, <2>2, FitsAsBefore DEF Reserves
    <2> QED BY <1>2, <2>2, <2>3, <2>4, QuietStepKeepsIInv, EventsAreBounded DEF SubmitSettings
  <1>3. CASE HandedOver(f)
    <2> DEFINE r == [q EXCEPT !.client = Nobody]
    <2>1. /\ r \in Dialog /\ r.kind = q.kind /\ r.target = q.target /\ r.client = Nobody
          /\ r.uid = q.uid /\ r.gone = q.gone /\ r.spare = q.spare /\ r.place = q.place
      BY <1>1 DEF Dialog, PlaceOrNone
    <2>2. q.step = "handing" /\ q.spare = Nobody
      BY <1>1, <1>3 DEF HandedOver, Sound
    <2>3. /\ Finished(r) \in Dialog /\ Sound(Finished(r))
          /\ \/ Finished(r) = NoFlow
             \/ /\ Finished(r).gone /\ Finished(r).step = "none"
                /\ Finished(r).kind = q.kind /\ Finished(r).target = q.target
      BY <1>1, <2>1, <2>2, FinishedIsSound
    <2>4. Fits(f, Finished(r))
      BY <1>1, <2>3, GoneFits
    <2>5. Still /\ UNCHANGED events /\ events' \in 0 .. Events
      BY <1>3, EventsAreBounded DEF HandedOver
    <2>6. CASE q.kind = "setup" /\ r.gone
      <3>1. Becomes(f, Finished(r)) /\ NoEntryChanges
        BY <1>3, <2>6 DEF HandedOver, Created
      <3> QED BY <2>3, <2>4, <2>5, <3>1, QuietStepKeepsIInv
    <2>7. CASE q.kind = "setup" /\ ~r.gone
      <3>1. PICK e \in Entries \ Used :
               /\ Becomes(f, Finished(r))
               /\ Changed(e, [uid |-> r.uid, place |-> r.place, token |-> Nobody])
        BY <1>3, <2>7 DEF HandedOver, Created
      <3> DEFINE new == [uid |-> r.uid, place |-> r.place, token |-> Nobody]
      <3>2. /\ new \in [uid : Uids, place : PlaceOrNone, token : InverterOrNone]
            /\ new.uid = q.uid
        BY <2>1 DEF Dialog, InverterOrNone
      <3>3. Reserves(q)
        BY <2>1, <2>2, <2>7 DEF Reserves
      <3> QED BY <2>3, <2>5, <2>7, <3>1, <3>2, <3>3, CreationKeepsIInv DEF Still
    <2>8. CASE q.kind # "setup"
      <3> DEFINE new == [entry[q.target] EXCEPT !.place = q.place]
      <3>1. Becomes(f, Finished(r)) /\ Changed(q.target, new)
        BY <1>3, <2>1, <2>8 DEF HandedOver
      <3>2. q.target \in Used
        BY <1>1, <2>8 DEF Fits
      <3>3. entry[q.target] \in [uid : Uids, place : PlaceOrNone, token : InverterOrNone]
        BY <3>2 DEF Used, IInv, TypeOK
      <3>4. /\ new \in [uid : Uids, place : PlaceOrNone, token : InverterOrNone]
            /\ new.uid = entry[q.target].uid
        BY <1>1, <3>3 DEF Dialog
      <3>5. /\ entry' \in [Entries -> [uid : Uids, place : PlaceOrNone, token : InverterOrNone]]
            /\ reload' \subseteq Entries
            /\ Used' = Used /\ \A d \in Used : entry'[d].uid = entry[d].uid
        BY <3>1, <3>2, <3>4, ChangeKeepsUids
      <3> QED BY <2>3, <2>4, <2>5, <3>1, <3>5, DialogStepKeepsIInv DEF Still
    <2> QED BY <1>1, <2>6, <2>7, <2>8
  <1> QED BY <1>2, <1>3

\* The options dialog changes place and token of its entry and nothing else.
LEMMA OptionsKeepIInv ==
    ASSUME IInv, NEW f \in Flows,
           \/ \E p \in Places : SubmitHost(f, p)
           \/ \E forget, with \in BOOLEAN : SubmitModels(f, forget, with)
           \/ Minting(f)
    PROVE  IInv'
PROOF
  <1> DEFINE q == flow[f]
  <1>1. /\ q \in Dialog /\ Sound(q) /\ Fits(f, q) /\ q.kind = "options" /\ q.spare = Nobody
        /\ q.step \in {"host", "models", "minting"}
    BY AtAStep DEF SubmitHost, SubmitModels, Minting, Sound
  <1>2. \A e : OptionsForm(e) \in {"host", "models"}
    BY DEF OptionsForm
  <1>3. Still /\ UNCHANGED events /\ events' \in 0 .. Events
    BY EventsAreBounded DEF SubmitHost, SubmitModels, Minting
  <1>4. \A x : x = NoFlow \/ (x.kind = "options" /\ x.target = q.target) => Fits(f, x)
    BY <1>1, NoFlowIsSound DEF Fits, Reserves
  <1>5. q.gone /\ q.client # Nobody => CancelWhileClosing \/ q.closer
    BY <1>1 DEF Sound
  <1>6. ASSUME NEW r \in Dialog, r.kind = "options", r.target = q.target, r.gone = q.gone,
               r.client = q.client, r.closer = q.closer, r.spare = Nobody, Saved(f, r)
        PROVE  IInv'
    <2> DEFINE new == [entry[r.target] EXCEPT !.place = r.place,
                                              !.token = IF r.gone THEN @ ELSE r.draft]
    <2>1. Becomes(f, Finished(r)) /\ Changed(r.target, new)
      BY <1>6 DEF Saved
    <2>2. r.target \in Used
      BY <1>1, <1>6 DEF Fits
    <2>3. entry[r.target] \in [uid : Uids, place : PlaceOrNone, token : InverterOrNone]
      BY <2>2 DEF Used, IInv, TypeOK
    <2>4. /\ new \in [uid : Uids, place : PlaceOrNone, token : InverterOrNone]
          /\ new.uid = entry[r.target].uid
      BY <1>6, <2>3 DEF Dialog
    <2>5. /\ entry' \in [Entries -> [uid : Uids, place : PlaceOrNone, token : InverterOrNone]]
          /\ reload' \subseteq Entries
          /\ Used' = Used /\ \A d \in Used : entry'[d].uid = entry[d].uid
      BY <2>1, <2>2, <2>4, ChangeKeepsUids
    <2>6. /\ Finished(r) \in Dialog /\ Sound(Finished(r))
          /\ \/ Finished(r) = NoFlow
             \/ Finished(r).kind = "options" /\ Finished(r).target = q.target
      BY <1>5, <1>6, FinishedIsSound
    <2>7. Fits(f, Finished(r))
      BY <1>4, <2>6
    <2> QED BY <1>3, <2>1, <2>5, <2>6, <2>7, DialogStepKeepsIInv DEF Still
  <1>7. ASSUME NEW p \in Places, SubmitHost(f, p) PROVE IInv'
    <2> DEFINE r == [q EXCEPT !.place = p, !.step = OptionsForm(f)]
    <2>1. /\ r \in Dialog /\ r.kind = q.kind /\ r.target = q.target /\ r.gone = q.gone
          /\ r.spare = q.spare /\ r.step = OptionsForm(f)
      BY <1>1, <1>2 DEF Dialog, PlaceOrNone, Idle
    <2>2. ~q.gone /\ Becomes(f, r) /\ NoEntryChanges
      BY <1>7 DEF SubmitHost, InProgress
    <2>3. Sound(r)
      BY <1>1, <1>2, <2>1, <2>2 DEF Sound
    <2> QED BY <1>1, <1>3, <1>4, <2>1, <2>2, <2>3, QuietStepKeepsIInv
  <1>8. ASSUME NEW forget \in BOOLEAN, NEW with \in BOOLEAN, SubmitModels(f, forget, with)
        PROVE  IInv'
    <2> DEFINE r == [q EXCEPT !.draft = IF forget THEN Nobody ELSE @]
               s == [r EXCEPT !.step = "minting"]
    <2>1. /\ r \in Dialog /\ r.kind = q.kind /\ r.target = q.target /\ r.gone = q.gone
          /\ r.client = q.client /\ r.closer = q.closer /\ r.spare = q.spare
      BY <1>1 DEF Dialog, InverterOrNone
    <2>2. /\ s \in Dialog /\ s.kind = q.kind /\ s.target = q.target /\ s.gone = q.gone
          /\ s.spare = q.spare /\ s.step = "minting"
      BY <2>1 DEF Dialog, Running
    <2>3. ~q.gone
      BY <1>8 DEF SubmitModels, InProgress
    <2>4. Sound(s)
      BY <1>1, <2>2, <2>3 DEF Sound
    <2>5. CASE with
      <3>1. Becomes(f, s) /\ NoEntryChanges
        BY <1>8, <2>5 DEF SubmitModels
      <3> QED BY <1>1, <1>3, <1>4, <2>2, <2>4, <3>1, QuietStepKeepsIInv
    <2>6. CASE ~with
      <3>1. Saved(f, r)
        BY <1>8, <2>6 DEF SubmitModels
      <3> QED BY <1>1, <1>6, <2>1, <3>1
    <2> QED BY <2>5, <2>6
  <1>9. CASE Minting(f)
    <2> DEFINE i == at[q.place]
               r == [q EXCEPT !.draft = i]
               form == OptionsForm(f)
    <2>1. CASE i # Nobody /\ i \in password
      <3>1. /\ r \in Dialog /\ r.kind = q.kind /\ r.target = q.target /\ r.gone = q.gone
            /\ r.client = q.client /\ r.closer = q.closer /\ r.spare = q.spare
        BY <1>1, <2>1 DEF Dialog, InverterOrNone, IInv, TypeOK
      <3>2. Saved(f, r)
        BY <1>9, <2>1 DEF Minting
      <3> QED BY <1>1, <1>6, <3>1, <3>2
    <2>2. CASE ~(i # Nobody /\ i \in password)
      <3>1. Becomes(f, Ended(q, form)) /\ NoEntryChanges
        BY <1>9, <2>2 DEF Minting
      <3>2. /\ Ended(q, form) \in Dialog /\ Sound(Ended(q, form))
            /\ \/ Ended(q, form) = NoFlow
               \/ Ended(q, form).kind = q.kind /\ Ended(q, form).target = q.target
        BY <1>1, <1>2, <1>5, EndedIsSound DEF Idle
      <3> QED BY <1>1, <1>3, <1>4, <3>1, <3>2, QuietStepKeepsIInv
    <2> QED BY <2>1, <2>2
  <1> QED BY <1>7, <1>8, <1>9

-----------------------------------------------------------------------------
\* What an entry runs and where the inverters are is nothing to the dialogs.
LEMMA SurroundingsKeepIInv ==
    ASSUME IInv, UNCHANGED <<entry, flow>>, TypeOK' PROVE IInv'
PROOF
  BY DEF IInv, EntriesHaveUids, OneEntryPerUid, Sound, Fits, Reserves, Used, EntriesOf

\* Setup, reload and poll of an entry.
LEMMA EntryKeepsIInv ==
    ASSUME IInv, NEW e \in Entries, EntryNext(e) PROVE IInv'
PROOF
  <1> DEFINE RunRecords == [state : {"off", "setup", "retry", "loaded", "stuck"},
                            place : PlaceOrNone, token : InverterOrNone, answers : BOOLEAN]
  <1>1. run[e] \in RunRecords
    BY DEF IInv, TypeOK
  <1>2. SettingUp(e) \in RunRecords
    <2>1. entry[e].place \in PlaceOrNone /\ entry[e].token \in InverterOrNone
      BY DEF IInv, TypeOK
    <2> QED BY <2>1 DEF SettingUp, NotRunning
  <1>3. ASSUME NEW r \in RunRecords, Runs(e, r), reload' \subseteq Entries,
               held' \in [Flows -> {"live", "good", "bad"}], Event \/ UNCHANGED events
        PROVE  IInv'
    <2>1. TypeOK' /\ UNCHANGED <<entry, flow>>
      BY <1>3, EventsAreBounded DEF IInv, TypeOK, Runs
    <2> QED BY <2>1, SurroundingsKeepIInv
  <1>4. reload \subseteq Entries /\ held \in [Flows -> {"live", "good", "bad"}]
    BY DEF IInv, TypeOK
  <1>5. CASE Reload(e) \/ SetupAgain(e)
    <2>1. Runs(e, SettingUp(e)) /\ held' \in [Flows -> {"live", "good", "bad"}]
      BY <1>4, <1>5 DEF Reload, SetupAgain, SetsUp
    <2> QED BY <1>2, <1>3, <1>4, <1>5, <2>1 DEF Reload, SetupAgain
  <1>9. CASE UnloadFails(e) \/ ReloadRefused(e)
    <2>1. [run[e] EXCEPT !.state = "stuck"] \in RunRecords
      BY <1>1
    <2> QED BY <1>1, <1>3, <1>4, <1>9, <2>1 DEF UnloadFails, ReloadRefused
  <1>6. CASE SetupSucceeds(e)
    <2>1. [run[e] EXCEPT !.state = "loaded", !.answers = TRUE] \in RunRecords
      BY <1>1
    <2> QED BY <1>3, <1>4, <1>6, <2>1 DEF SetupSucceeds
  <1>7. CASE SetupFindsNobody(e) \/ SetupTimesOut(e)
    <2>1. [run[e] EXCEPT !.state = "retry", !.answers = FALSE] \in RunRecords
      BY <1>1
    <2> QED BY <1>3, <1>4, <1>7, <2>1 DEF SetupFindsNobody, SetupTimesOut, SetupFails
  <1>8. CASE Poll(e)
    <2>1. [run[e] EXCEPT !.answers = ~@] \in RunRecords
      BY <1>1
    <2> QED BY <1>3, <1>4, <1>8, <2>1 DEF Poll
  <1> QED BY <1>5, <1>6, <1>7, <1>8, <1>9 DEF EntryNext

\* Every action keeps the invariant.
LEMMA StepKeepsIInv == IInv /\ [Next]_vars => IInv'
PROOF
  <1> SUFFICES ASSUME IInv, [Next]_vars PROVE IInv'
    OBVIOUS
  <1>1. ASSUME NEW f \in Flows, FlowNext(f) PROVE IInv'
    BY <1>1, OpeningKeepsIInv, RemovingKeepsIInv, ProbingKeepsIInv, AnswerKeepsIInv,
       HandingKeepsIInv, OptionsKeepIInv
       DEF FlowNext, FlowEnds
  <1>2. ASSUME NEW e \in Entries, EntryNext(e) PROVE IInv'
    BY <1>2, EntryKeepsIInv
  <1>3. ASSUME NEW p \in Places, NEW q \in Places, Move(p, q) PROVE IInv'
    <2>1. TypeOK' /\ UNCHANGED <<entry, flow>>
      BY <1>3, EventsAreBounded DEF Move, IInv, TypeOK, InverterOrNone
    <2> QED BY <2>1, SurroundingsKeepIInv
  <1>4. ASSUME NEW p \in Places, NEW i \in Inverters, Comes(p, i) PROVE IInv'
    <2>1. TypeOK' /\ UNCHANGED <<entry, flow>>
      BY <1>4, EventsAreBounded DEF Comes, IInv, TypeOK, InverterOrNone
    <2> QED BY <2>1, SurroundingsKeepIInv
  <1>5. CASE UNCHANGED vars
    <2>1. TypeOK' /\ UNCHANGED <<entry, flow>>
      BY <1>5 DEF vars, IInv, TypeOK
    <2> QED BY <2>1, SurroundingsKeepIInv
  <1> QED BY <1>1, <1>2, <1>3, <1>4, <1>5 DEF Next

\* Entries that were set up earlier are of different inverters.
LEMMA Initially == Init => IInv
PROOF
  <1> SUFFICES ASSUME Init PROVE IInv
    OBVIOUS
  <1> DEFINE Stored == {[uid |-> UidOf(at[p], p), place |-> p, token |-> Nobody] :
                            p \in {q \in Places : at[q] # Nobody}}
  <1>1. at \in [Places -> InverterOrNone] /\ \A p \in Places : at[p] # Nobody => at[p] \in Inverters
    BY DEF Init, InverterOrNone
  <1>0. entry \in [Entries -> {Absent} \cup Stored]
    BY DEF Init
  <1>2. \A e \in Used : \E p \in Places :
           /\ at[p] \in Inverters
           /\ entry[e] = [uid |-> UidOf(at[p], p), place |-> p, token |-> Nobody]
    <2> SUFFICES ASSUME NEW e \in Used
                 PROVE  \E p \in Places :
                           /\ at[p] \in Inverters
                           /\ entry[e] = [uid |-> UidOf(at[p], p), place |-> p, token |-> Nobody]
      OBVIOUS
    <2>1. e \in Entries /\ entry[e] # Absent
      BY DEF Used
    <2>2. entry[e] \in Stored
      BY <1>0, <2>1
    <2> QED BY <1>1, <2>2
  <1>3. EntriesHaveUids
    <2> SUFFICES ASSUME NEW e \in Used PROVE entry[e].uid \in Places \cup Inverters
      BY DEF EntriesHaveUids
    <2>1. PICK p \in Places :
             /\ at[p] \in Inverters
             /\ entry[e] = [uid |-> UidOf(at[p], p), place |-> p, token |-> Nobody]
      BY <1>2
    <2> QED BY <2>1, UidsTellApart
  <1>4. OneEntryPerUid
    <2> SUFFICES ASSUME NEW d \in Used, NEW e \in Used, d # e, entry[d].uid = entry[e].uid
                 PROVE  FALSE
      BY DEF OneEntryPerUid
    <2>1. PICK p \in Places :
             /\ at[p] \in Inverters
             /\ entry[d] = [uid |-> UidOf(at[p], p), place |-> p, token |-> Nobody]
      BY <1>2
    <2>2. PICK q \in Places :
             /\ at[q] \in Inverters
             /\ entry[e] = [uid |-> UidOf(at[q], q), place |-> q, token |-> Nobody]
      BY <1>2
    <2>3. at[p] = at[q] \/ p = q
      BY <2>1, <2>2, UidsTellApart
    <2>4. p = q
      BY <2>1, <2>3, UidsTellApart DEF Init
    <2>5. entry[d] = entry[e] /\ entry[d] # Absent
      BY <2>1, <2>2, <2>4 DEF Used
    <2> QED BY <2>5 DEF Init, Used
  <1>5. TypeOK
    <2>1. entry \in [Entries -> [uid : Uids, place : PlaceOrNone, token : InverterOrNone]]
      <3>1. \A p \in Places : at[p] # Nobody => UidOf(at[p], p) \in Uids
        BY <1>1, UidsTellApart DEF Uids, InverterOrNone
      <3>2. Stored \subseteq [uid : Uids, place : PlaceOrNone, token : InverterOrNone]
        BY <3>1 DEF PlaceOrNone, InverterOrNone
      <3>3. Absent \in [uid : Uids, place : PlaceOrNone, token : InverterOrNone]
        BY DEF Absent, Uids, PlaceOrNone, InverterOrNone
      <3>4. entry \in [Entries -> {Absent} \cup Stored]
        BY DEF Init
      <3> QED BY <3>2, <3>3, <3>4
    <2>2. run \in [Entries -> [state : {"off", "setup", "retry", "loaded", "stuck"},
                               place : PlaceOrNone, token : InverterOrNone, answers : BOOLEAN]]
      <3>1. \A e \in Entries : entry[e].place \in PlaceOrNone
        BY <2>1
      <3> QED BY <3>1 DEF Init, NotRunning, PlaceOrNone, InverterOrNone
    <2>3. flow \in [Flows -> Dialog] /\ held \in [Flows -> {"live", "good", "bad"}]
      BY NoFlowIsSound DEF Init
    <2>4. password \subseteq Inverters /\ reload \subseteq Entries /\ events = 0
      BY DEF Init
    <2>5. events \in 0 .. Events
      BY <2>4, SerialsAreTheirs
    <2> QED BY <1>1, <2>1, <2>2, <2>3, <2>4, <2>5 DEF TypeOK
  <1>6. \A f \in Flows : Sound(flow[f]) /\ Fits(f, flow[f])
    BY NoFlowIsSound DEF Init
  <1> QED BY <1>3, <1>4, <1>5, <1>6 DEF IInv

\* The invariant holds in every state of every run.
THEOREM InductiveInvariant == Spec => []IInv
PROOF
  <1> QED BY Initially, StepKeepsIInv, PTL DEF Spec

-----------------------------------------------------------------------------
\* Every variable keeps its type.
THEOREM TypesHold == Spec => []TypeOK
PROOF
  <1>1. IInv => TypeOK
    BY DEF IInv
  <1> QED BY <1>1, InductiveInvariant, PTL

\* An inverter is set up once, whatever dialogs are open side by side
\* (async_set_unique_id and the abort that goes with it).
THEOREM InvertersAreSetUpOnce == Spec => []OneEntryPerUid
PROOF
  <1>1. IInv => OneEntryPerUid
    BY DEF IInv
  <1> QED BY <1>1, InductiveInvariant, PTL

\* A dialog that is gone has closed its probes (async_remove), unless it may be
\* removed while its step awaits the end of the old probe.
THEOREM ProbesAreClosed == ASSUME ~CancelWhileClosing PROVE Spec => []NoProbeLeftOpen
PROOF
  <1>1. IInv => NoProbeLeftOpen
    <2> SUFFICES ASSUME IInv, NEW f \in Flows,
                        \/ flow[f].kind = "none"
                        \/ flow[f].gone /\ flow[f].step = "none" /\ ~flow[f].closer
                 PROVE  flow[f].client = Nobody /\ flow[f].spare = Nobody
      BY DEF NoProbeLeftOpen
    <2>1. flow[f] \in Dialog /\ Sound(flow[f])
      BY DEF IInv, TypeOK
    <2>2. CASE flow[f].kind = "none"
      BY <2>1, <2>2 DEF Sound, NoFlow
    <2>3. CASE flow[f].gone /\ flow[f].step = "none" /\ ~flow[f].closer
      BY <2>1, <2>3 DEF Sound
    <2> QED BY <2>2, <2>3
  <1> QED BY <1>1, InductiveInvariant, PTL

-----------------------------------------------------------------------------
\* What the change of one entry, if it was in use, moves.
LEMMA ChangeMovesOne ==
    ASSUME IInv, NEW e \in Entries, NEW new, Changed(e, new),
           NEW d \in Used, entry'[d].place # entry[d].place
    PROVE  d = e /\ entry'[d] = new
PROOF
  BY DEF IInv, TypeOK, Changed, Used

\* An entry moves to where its inverter answered the probe, unless the options
\* dialog moves it (async_step_reconfigure).
THEOREM EntriesMoveWithTheirInverters == Spec => MovedOnlyWithItsInverter
PROOF
  <1> DEFINE Moved(e) == entry'[e].place # entry[e].place => MovedWithItsInverter(e)
  <1>1. IInv /\ [Next]_vars => [\A e \in Used : Moved(e)]_vars
    <2> SUFFICES ASSUME IInv, Next, NEW d \in Used, entry'[d].place # entry[d].place
                 PROVE  MovedWithItsInverter(d)
      OBVIOUS
    <2>1. entry' # entry /\ d \in Entries
      BY DEF Used
    <2>2. PICK f \in Flows :
             \/ ProbeAnswers(f) \/ HandedOver(f) \/ Minting(f)
             \/ \E forget, with \in BOOLEAN : SubmitModels(f, forget, with)
      BY <2>1 DEF Next, FlowNext, FlowEnds, EntryNext, NoEntryChanges, CloserRuns,
                  OldProbeClosed, ProbeFails, FailedProbeClosed, SmaAsked, StartUser, StartScan,
                  Cancel, SubmitSettings, StartDhcp, Submit, SubmitHost, StartReconfigure,
                  StartOptions, Begins, Runs, SetsUp, Reload, UnloadFails, ReloadRefused, SetupSucceeds, SetupFindsNobody,
                  SetupTimesOut, SetupFails, SetupAgain, Poll, Move, Comes
    <2> DEFINE q == flow[f]
    <2>3. q.step # "none"
      BY <2>2 DEF ProbeAnswers, HandedOver, Minting, SubmitModels
    <2>4. /\ q \in Dialog /\ Sound(q) /\ Fits(f, q)
          /\ q.kind \in {"setup", "reconfigure", "options"}
      BY <2>3, AtAStep
    <2>5. CASE ProbeAnswers(f)
      <3> DEFINE uid == UidOf(at[q.place], q.place)
      <3>1. q.step = "probing" /\ at[q.place] # Nobody
        BY <2>5 DEF ProbeAnswers
      <3>2. q.kind = "setup" /\ Identified(f, q, uid)
        BY <2>1, <2>5 DEF ProbeAnswers, Matched, NoEntryChanges
      <3>3. PICK e \in EntriesOf(uid) : Changed(e, [entry[e] EXCEPT !.place = q.place])
        BY <2>1, <3>2 DEF Identified, NoEntryChanges
      <3>4. e \in Entries /\ entry[e].uid = uid
        BY <3>3 DEF EntriesOf, Used
      <3>5. d = e /\ entry'[d] = [entry[e] EXCEPT !.place = q.place]
        BY <3>3, <3>4, ChangeMovesOne
      <3>6. entry'[d].place = q.place
        BY <3>4, <3>5 DEF IInv, TypeOK
      <3> QED BY <3>1, <3>2, <3>4, <3>5, <3>6 DEF MovedWithItsInverter
    <2>6. CASE HandedOver(f)
      <3> DEFINE r == [q EXCEPT !.client = Nobody]
      <3>1. q.step = "handing" /\ q.kind # "setup" /\ r.target = q.target /\ r.place = q.place
        <4>1. r.kind = q.kind /\ r.target = q.target /\ r.place = q.place /\ r.uid = q.uid
          BY <2>4 DEF Dialog
        <4>2. CASE q.kind = "setup"
          <5>1. Created(f, r)
            BY <2>6, <4>1, <4>2 DEF HandedOver
          <5>2. PICK e \in Entries \ Used :
                   Changed(e, [uid |-> r.uid, place |-> r.place, token |-> Nobody])
            BY <2>1, <5>1 DEF Created, NoEntryChanges
          <5> QED BY <5>2, ChangeMovesOne
        <4> QED BY <2>6, <4>1, <4>2 DEF HandedOver
      <3>2. q.target \in Used
        BY <2>4, <3>1 DEF Fits
      <3>3. q.target \in Entries
        BY <3>2 DEF Used
      <3>4. Changed(q.target, [entry[q.target] EXCEPT !.place = q.place])
        BY <2>4, <2>6, <3>1 DEF HandedOver, Dialog
      <3>5. d = q.target /\ entry'[d] = [entry[q.target] EXCEPT !.place = q.place]
        BY <3>3, <3>4, ChangeMovesOne
      <3>6. entry'[d].place = q.place
        BY <2>1, <3>5 DEF IInv, TypeOK
      <3> QED BY <2>4, <3>1, <3>5, <3>6 DEF Fits, MovedWithItsInverter
    <2>7. CASE Minting(f) \/ \E forget, with \in BOOLEAN : SubmitModels(f, forget, with)
      <3>1. q.step \in {"models", "minting"}
        BY <2>7 DEF Minting, SubmitModels
      <3>2. q.kind = "options" /\ q.target \in Used
        BY <2>4, <3>1 DEF Sound, Fits
      <3>3. PICK r : Saved(f, r) /\ r.target = q.target
        <4>1. CASE Minting(f)
          BY <2>1, <2>4, <4>1 DEF Minting, NoEntryChanges, Dialog
        <4>2. ASSUME NEW forget \in BOOLEAN, NEW with \in BOOLEAN,
                     SubmitModels(f, forget, with)
              PROVE  \E r : Saved(f, r) /\ r.target = q.target
          BY <2>1, <2>4, <4>2 DEF SubmitModels, NoEntryChanges, Dialog
        <4> QED BY <2>7, <4>1, <4>2
      <3>4. PICK new : Changed(q.target, new)
        BY <3>3 DEF Saved
      <3>5. d = q.target
        BY <3>2, <3>4, ChangeMovesOne DEF Used
      <3> QED BY <3>2, <3>5 DEF MovedWithItsInverter
    <2> QED BY <2>2, <2>5, <2>6, <2>7
  <1> QED BY <1>1, InductiveInvariant, PTL DEF Spec, MovedOnlyWithItsInverter
=============================================================================
