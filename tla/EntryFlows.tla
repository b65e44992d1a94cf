------------------------------ MODULE EntryFlows ------------------------------
(***************************************************************************)
(* The dialogs that set an entry up, move it and change its options        *)
(* (config_flow.py, discovery.py), the probes they open on the inverter,   *)
(* and the reload behind every change of an entry (__init__.py).           *)
(*                                                                         *)
(* A place is what a form asks for: host, port and unit id, or a serial    *)
(* port and its settings.                                                  *)
(***************************************************************************)
EXTENDS Naturals, FiniteSets

CONSTANTS
    Places, Inverters,
    Serials,            \* the serial number of each inverter, NoSerial where it tells none
    Entries, Flows,     \* config entries, dialogs open at a time
    Nobody, NoSerial,   \* an unused place, a missing serial number
    CancelWhileClosing, \* a dialog may be closed while its old probe is being closed
    Events              \* bound: dialogs begun and closed, probes lost, inverters moved

ASSUME SerialsAreTheirs ==
    /\ Serials \in [Inverters -> Inverters \cup {NoSerial}]
    /\ \A i \in Inverters : Serials[i] \in {i, NoSerial}
    /\ Nobody \notin Inverters \cup Places /\ NoSerial \notin Inverters
    /\ CancelWhileClosing \in BOOLEAN /\ Events \in Nat
\* A serial number does not read like a place, host:port:unit.
ASSUME SerialsAreNoPlaces == Places \cap Inverters = {}

VARIABLES
    at,         \* the inverter at each place
    password,   \* the web password the user knows is that of these inverters
    entry,      \* unique_id, place and web token of each entry, Absent or not
    run,        \* what Home Assistant runs of it: state, place, token, last_update_success
    reload,     \* the entries with a reload to come
    flow,       \* the dialogs
    held,       \* the coordinator an options dialog goes by: "live", or one that has been
                \* replaced, whose last update was "good" or "bad"
    events      \* bound

vars == <<at, password, entry, run, reload, flow, held, events>>
-----------------------------------------------------------------------------
Absent == [uid |-> Nobody, place |-> Nobody, token |-> Nobody]
NotRunning == [state |-> "off", place |-> Nobody, token |-> Nobody, answers |-> TRUE]
NoFlow ==
    [kind |-> "none", step |-> "none", uid |-> Nobody, place |-> Nobody, answer |-> Nobody,
     client |-> Nobody, spare |-> Nobody, target |-> Nobody, draft |-> Nobody,
     gone |-> FALSE, closer |-> FALSE]

Idle == {"form", "settings", "host", "models"}         \* a form is shown
Running == {"closing", "probing", "failing", "sma", "handing", "minting"}

\* _get_unique_id: the serial number, or the place when there is none.
UidOf(inverter, place) == IF Serials[inverter] = NoSerial THEN place ELSE Serials[inverter]
Used == {e \in Entries : entry[e] # Absent}

Init ==
    /\ at \in [Places -> Inverters \cup {Nobody}]
    /\ \A p, q \in Places : at[p] = at[q] /\ p # q => at[p] = Nobody
    /\ password \in {{}, Inverters}
    \* Some entries were set up earlier and run.
    /\ entry \in [Entries -> {Absent} \cup
                      {[uid |-> UidOf(at[p], p), place |-> p, token |-> Nobody] :
                           p \in {q \in Places : at[q] # Nobody}}]
    /\ \A d, e \in Entries : d # e /\ entry[d] = entry[e] => entry[d] = Absent
    /\ run = [e \in Entries |->
                  IF e \in Used THEN [NotRunning EXCEPT !.state = "loaded", !.place = entry[e].place]
                  ELSE NotRunning]
    /\ reload = {} /\ flow = [f \in Flows |-> NoFlow] /\ held = [f \in Flows |-> "live"]
    /\ events = 0

Event == events < Events /\ events' = events + 1
InProgress == {f \in Flows : flow[f].kind # "none" /\ ~flow[f].gone}

EntriesOf(uid) == {e \in Used : entry[e].uid = uid}

\* A bug: nothing listens to the entry.
ChangedQuietly(e, new) == entry' = [entry EXCEPT ![e] = new] /\ UNCHANGED reload
\* The update listener: a change of the entry reloads it. A new entry is set up.
Changed(e, new) ==
    /\ entry' = [entry EXCEPT ![e] = new]
    /\ reload' = reload \cup (IF new # entry[e] THEN {e} ELSE {})
NoEntryChanges == UNCHANGED <<entry, reload>>
-----------------------------------------------------------------------------
(***************************************************************************)
(* What the flow manager of Home Assistant does with a dialog: a removed   *)
(* one is gone at once, its running step goes on to its end, and           *)
(* async_remove leaves a task behind that closes the probe.                *)
(***************************************************************************)
Over(r) == IF r.step = "none" /\ ~r.closer /\ r.client = Nobody THEN NoFlow ELSE r
StepStopped(r) == [r EXCEPT !.gone = TRUE, !.step = IF @ \in Running THEN @ ELSE "none"]
\* A bug: no async_remove.
RemovedOnly(r) == Over(StepStopped(r))
Removed(r) == Over([StepStopped(r) EXCEPT !.closer = @ \/ r.client # Nobody])
\* A running step that ended: a form, unless the dialog was removed meanwhile.
Ended(r, form) ==
    IF r.gone THEN Over([r EXCEPT !.step = "none"]) ELSE [r EXCEPT !.step = form]
\* The form of models and settings reads on from the same probe, which stays open.
SettingsForm(r) == Ended(r, "settings")
\* The form for the place once more, empty.
AskAgain(r) == Ended([r EXCEPT !.place = Nobody, !.answer = Nobody], "form")
\* The step aborted the dialog, or created its entry.
Finished(r) == IF r.gone THEN Ended(r, "none") ELSE Removed([r EXCEPT !.step = "none"])

Becomes(f, r) ==
    /\ flow' = [flow EXCEPT ![f] = r]
    /\ held' = [held EXCEPT ![f] = IF r.kind = "options" THEN @ ELSE "live"]
Still == UNCHANGED <<at, password, run>>

Cancel(f) ==
    /\ f \in InProgress /\ flow[f].step \in Idle \cup Running
    /\ flow[f].step = "closing" => CancelWhileClosing
    /\ Event /\ Becomes(f, Removed(flow[f])) /\ NoEntryChanges /\ Still
\* _close_probe_client in the task async_remove left.
CloserRuns(f) ==
    /\ flow[f].closer
    /\ Becomes(f, Over([flow[f] EXCEPT !.client = Nobody, !.closer = FALSE]))
    /\ NoEntryChanges /\ Still /\ UNCHANGED events
-----------------------------------------------------------------------------
Opened(kind, step) == [NoFlow EXCEPT !.kind = kind, !.step = step]
Begins(f, r) == flow[f] = NoFlow /\ Event /\ Becomes(f, r) /\ NoEntryChanges /\ Still

\* The menu leads to the manual or the serial form, or scans the network first: the form
\* then names one of the hosts that answered.
StartUser(f) == Begins(f, Opened("setup", "form"))
Answering == {p \in Places : at[p] # Nobody}
StartScan(f) == Answering # {} /\ Begins(f, Opened("setup", "form"))
\* A lease of a known vendor: not for a host that is set up, nor twice at a time.
StartDhcp(f, p) ==
    /\ at[p] # Nobody /\ \A e \in Used : entry[e].place # p
    /\ \A g \in InProgress : flow[g].uid # <<"dhcp", p>>
    /\ Begins(f, [Opened("setup", "form") EXCEPT !.uid = <<"dhcp", p>>])
StartReconfigure(f, e) ==
    e \in Used /\ Begins(f, [Opened("reconfigure", "form") EXCEPT !.target = e])
StartOptions(f, e) ==
    /\ e \in Used
    /\ Begins(f, [Opened("options", "host") EXCEPT !.target = e, !.draft = entry[e].token])
-----------------------------------------------------------------------------
(***************************************************************************)
(* The probe: _test_connection_tcp and _test_connection_rtu.               *)
(***************************************************************************)
Probing(r) == [r EXCEPT !.client = r.place, !.step = "probing"]
Submit(f, p) ==
    /\ f \in InProgress /\ flow[f].step = "form" /\ UNCHANGED events
    /\ LET r == [flow[f] EXCEPT !.place = p] IN
       Becomes(f, IF r.client = Nobody THEN Probing(r) ELSE [r EXCEPT !.step = "closing"])
    /\ NoEntryChanges /\ Still
OldProbeClosed(f) ==
    /\ flow[f].step = "closing" /\ Becomes(f, Probing(flow[f]))
    /\ NoEntryChanges /\ Still /\ UNCHANGED events

\* A bug: dialogs do not look at each other.
IdentifiedAlone(f, r, uid) ==
    IF EntriesOf(uid) # {}
      THEN \E e \in EntriesOf(uid) :
               /\ Becomes(f, Finished([r EXCEPT !.uid = uid]))
               /\ Changed(e, [entry[e] EXCEPT !.place = r.place])
      ELSE Becomes(f, SettingsForm([r EXCEPT !.uid = uid])) /\ NoEntryChanges
\* A serial number that another dialog or an entry has ends the dialog; the entry then
\* moves to where its inverter answered.
Identified(f, r, uid) ==
    IF \E g \in InProgress \ {f} : flow[g].uid = uid
      THEN Becomes(f, Finished(r)) /\ NoEntryChanges
      ELSE IF EntriesOf(uid) # {}
             THEN \E e \in EntriesOf(uid) :
                      /\ Becomes(f, Finished([r EXCEPT !.uid = uid]))
                      /\ Changed(e, [entry[e] EXCEPT !.place = r.place])
             ELSE Becomes(f, SettingsForm([r EXCEPT !.uid = uid])) /\ NoEntryChanges
\* A bug: the serial number is not compared.
MatchedAnyway(f, r, uid) == Becomes(f, [r EXCEPT !.step = "handing"]) /\ NoEntryChanges
\* Another inverter is refused, and its probe stays open behind the form.
Matched(f, r, uid) ==
    /\ Becomes(f, IF uid = entry[r.target].uid THEN [r EXCEPT !.step = "handing"]
                  ELSE AskAgain(r))
    /\ NoEntryChanges
ProbeAnswers(f) ==
    /\ flow[f].step = "probing" /\ at[flow[f].place] # Nobody
    /\ LET r == flow[f]
           uid == UidOf(at[r.place], r.place)
       IN  IF r.kind = "setup" THEN Identified(f, r, uid)
           ELSE Matched(f, [r EXCEPT !.answer = at[r.place]], uid)
    /\ Still /\ UNCHANGED events

\* It times out or is refused.
ProbeFails(f) ==
    /\ flow[f].step = "probing" /\ Event
    /\ Becomes(f, [flow[f] EXCEPT !.step = "failing"]) /\ NoEntryChanges /\ Still
\* The failed client is closed; unless the answer was a timeout, a setup asks the same host
\* once more under the unit id of an SMA, with a client of its own.
FailedProbeClosed(f) ==
    /\ flow[f].step = "failing"
    /\ LET r == [flow[f] EXCEPT !.client = Nobody] IN
       \/ Becomes(f, AskAgain(r))
       \/ r.kind = "setup" /\ Becomes(f, [r EXCEPT !.spare = r.place, !.step = "sma"])
    /\ NoEntryChanges /\ Still /\ UNCHANGED events
SmaAsked(f) ==
    /\ flow[f].step = "sma" /\ Becomes(f, AskAgain([flow[f] EXCEPT !.spare = Nobody]))
    /\ NoEntryChanges /\ Still /\ UNCHANGED events
-----------------------------------------------------------------------------
\* The settings form, which takes no empty selection of models, and then the entry.
SubmitSettings(f) ==
    /\ f \in InProgress /\ flow[f].step = "settings" /\ UNCHANGED events
    /\ Becomes(f, [flow[f] EXCEPT !.step = "handing"]) /\ NoEntryChanges /\ Still
\* The probe hands the slot of the inverter back before the entry is set up.
Created(f, r) ==
    IF r.gone THEN Becomes(f, Finished(r)) /\ NoEntryChanges
    ELSE \E e \in Entries \ Used :
             /\ Becomes(f, Finished(r))
             /\ Changed(e, [uid |-> r.uid, place |-> r.place, token |-> Nobody])
HandedOver(f) ==
    /\ flow[f].step = "handing"
    /\ LET r == [flow[f] EXCEPT !.client = Nobody] IN
       IF r.kind = "setup" THEN Created(f, r)
       ELSE /\ Becomes(f, Finished(r))
            /\ Changed(r.target, [entry[r.target] EXCEPT !.place = r.place])
    /\ Still /\ UNCHANGED events
-----------------------------------------------------------------------------
(***************************************************************************)
(* The options dialog. It goes by the coordinator the entry had when it    *)
(* began (async_step_init), and comes back to the host while that fails.   *)
(***************************************************************************)
Failing(f) == held[f] = "bad" \/ (held[f] = "live" /\ ~run[flow[f].target].answers)
OptionsForm(f) == IF Failing(f) THEN "host" ELSE "models"
SubmitHost(f, p) ==
    /\ f \in InProgress /\ flow[f].step = "host" /\ UNCHANGED events
    /\ Becomes(f, [flow[f] EXCEPT !.place = p, !.step = OptionsForm(f)])
    /\ NoEntryChanges /\ Still
\* _update_options writes the place, and the end of the dialog the options: not when the
\* dialog was removed meanwhile.
Saved(f, r) ==
    /\ Becomes(f, Finished(r))
    /\ Changed(r.target, [entry[r.target] EXCEPT !.place = r.place,
                                                 !.token = IF r.gone THEN @ ELSE r.draft])
\* A password is traded for a token before anything is saved; the password and the wish to
\* forget the login come from the same form.
SubmitModels(f, forget, withPassword) ==
    /\ f \in InProgress /\ flow[f].step = "models" /\ UNCHANGED events
    /\ LET r == [flow[f] EXCEPT !.draft = IF forget THEN Nobody ELSE @] IN
       IF withPassword THEN Becomes(f, [r EXCEPT !.step = "minting"]) /\ NoEntryChanges
       ELSE Saved(f, r)
    /\ Still
Minting(f) ==
    /\ flow[f].step = "minting"
    /\ LET i == at[flow[f].place] IN
       IF i # Nobody /\ i \in password
         THEN Saved(f, [flow[f] EXCEPT !.draft = i])
         ELSE Becomes(f, Ended(flow[f], OptionsForm(f)))
              /\ NoEntryChanges
    /\ Still /\ UNCHANGED events
-----------------------------------------------------------------------------
(***************************************************************************)
(* The entry: async_setup_entry, async_unload_entry and the reload.        *)
(***************************************************************************)
Runs(e, r) == run' = [run EXCEPT ![e] = r] /\ UNCHANGED <<at, password, entry, flow>>
SettingUp(e) ==
    [NotRunning EXCEPT !.state = "setup", !.place = entry[e].place, !.token = entry[e].token]
\* A setup builds a new coordinator; an options dialog keeps the one it has.
SetsUp(e) ==
    /\ Runs(e, SettingUp(e))
    /\ held' = [f \in Flows |->
                   IF flow[f].kind = "options" /\ flow[f].target = e /\ held[f] = "live"
                   THEN IF run[e].answers THEN "good" ELSE "bad" ELSE held[f]]
\* A reload unloads what runs and sets up what the entry holds now.
Reload(e) ==
    /\ e \in reload /\ run[e].state \notin {"setup", "stuck"} /\ reload' = reload \ {e}
    /\ SetsUp(e) /\ UNCHANGED events
\* A platform fails to unload: the coordinator goes on with what it has, and Home Assistant
\* refuses every further reload until it is restarted.
UnloadFails(e) ==
    /\ e \in reload /\ run[e].state = "loaded" /\ Event /\ reload' = reload \ {e}
    /\ Runs(e, [run[e] EXCEPT !.state = "stuck"]) /\ UNCHANGED held
ReloadRefused(e) ==
    /\ e \in reload /\ run[e].state = "stuck" /\ reload' = reload \ {e}
    /\ Runs(e, run[e]) /\ UNCHANGED <<held, events>>
SetupSucceeds(e) ==
    /\ run[e].state = "setup" /\ at[run[e].place] # Nobody
    /\ Runs(e, [run[e] EXCEPT !.state = "loaded", !.answers = TRUE])
    /\ UNCHANGED <<reload, held, events>>
\* ConfigEntryNotReady: Home Assistant tries again, with what the entry holds then.
SetupFails(e) ==
    /\ run[e].state = "setup"
    /\ Runs(e, [run[e] EXCEPT !.state = "retry", !.answers = FALSE])
    /\ UNCHANGED <<reload, held>>
SetupFindsNobody(e) == SetupFails(e) /\ at[run[e].place] = Nobody /\ UNCHANGED events
SetupTimesOut(e) == SetupFails(e) /\ at[run[e].place] # Nobody /\ Event
SetupAgain(e) ==
    /\ run[e].state = "retry" /\ SetsUp(e) /\ UNCHANGED <<reload, events>>
\* A poll tells whether the inverter answers.
Poll(e) ==
    /\ run[e].state \in {"loaded", "stuck"} /\ run[e].answers # (at[run[e].place] # Nobody)
    /\ Runs(e, [run[e] EXCEPT !.answers = ~@]) /\ UNCHANGED <<reload, held, events>>
-----------------------------------------------------------------------------
\* The network: an inverter moves to a free place, or leaves.
Move(p, q) ==
    /\ Event /\ at[p] # Nobody /\ (q = p \/ at[q] = Nobody)
    /\ at' = [at EXCEPT ![p] = Nobody, ![q] = IF q = p THEN Nobody ELSE at[p]]
    /\ UNCHANGED <<password, entry, run, reload, flow, held>>
Comes(p, i) ==
    /\ Event /\ at[p] = Nobody /\ \A q \in Places : at[q] # i
    /\ at' = [at EXCEPT ![p] = i] /\ UNCHANGED <<password, entry, run, reload, flow, held>>

FlowEnds(f) ==
    \/ CloserRuns(f) \/ OldProbeClosed(f) \/ ProbeAnswers(f) \/ ProbeFails(f)
    \/ FailedProbeClosed(f) \/ SmaAsked(f) \/ HandedOver(f) \/ Minting(f)
FlowNext(f) ==
    \/ FlowEnds(f) \/ StartUser(f) \/ StartScan(f) \/ Cancel(f) \/ SubmitSettings(f)
    \/ \E p \in Places : StartDhcp(f, p) \/ Submit(f, p) \/ SubmitHost(f, p)
    \/ \E e \in Entries : StartReconfigure(f, e) \/ StartOptions(f, e)
    \/ \E forget, with \in BOOLEAN : SubmitModels(f, forget, with)
EntryNext(e) ==
    \/ Reload(e) \/ UnloadFails(e) \/ ReloadRefused(e) \/ SetupSucceeds(e) \/ SetupFindsNobody(e) \/ SetupTimesOut(e)
    \/ SetupAgain(e) \/ Poll(e)
Next ==
    \/ \E f \in Flows : FlowNext(f)
    \/ \E e \in Entries : EntryNext(e)
    \/ \E p, q \in Places : Move(p, q)
    \/ \E p \in Places, i \in Inverters : Comes(p, i)

Spec == Init /\ [][Next]_vars
\* The tasks of Home Assistant run to their end, it retries a setup for ever, and an inverter
\* that is there answers a setup in the end.
FairSpec ==
    /\ Spec
    /\ \A e \in Entries :
           /\ WF_vars(Reload(e)) /\ WF_vars(SetupAgain(e))
           /\ WF_vars(SetupSucceeds(e)) /\ WF_vars(SetupFindsNobody(e))
=============================================================================
