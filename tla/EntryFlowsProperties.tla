------------------------- MODULE EntryFlowsProperties -------------------------
(***************************************************************************)
(* What the dialogs promise about entries, inverters and sessions.         *)
(***************************************************************************)
EXTENDS EntryFlows

\* The types of the state.
PlaceOrNone == Places \cup {Nobody}
InverterOrNone == Inverters \cup {Nobody}
Uids == Places \cup InverterOrNone \cup {<<"dhcp", p>> : p \in Places}
Dialog ==
    [kind : {"none", "setup", "reconfigure", "options"}, step : {"none"} \cup Idle \cup Running,
     uid : Uids, place : PlaceOrNone, answer : InverterOrNone, client : PlaceOrNone,
     spare : PlaceOrNone, target : Entries \cup {Nobody}, draft : InverterOrNone,
     gone : BOOLEAN, closer : BOOLEAN]
TypeOK ==
    /\ at \in [Places -> InverterOrNone] /\ password \subseteq Inverters
    /\ entry \in [Entries -> [uid : Uids, place : PlaceOrNone, token : InverterOrNone]]
    /\ run \in [Entries -> [state : {"off", "setup", "retry", "loaded", "stuck"},
                            place : PlaceOrNone, token : InverterOrNone, answers : BOOLEAN]]
    /\ reload \subseteq Entries /\ events \in 0 .. Events
    /\ flow \in [Flows -> Dialog] /\ held \in [Flows -> {"live", "good", "bad"}]

\* An inverter is set up once: dialogs open side by side, removed in the middle of a probe or
\* begun from a lease never leave two entries with one unique id (async_step_manual).
OneEntryPerUid == \A d, e \in Used : d # e => entry[d].uid # entry[e].uid

\* The history of an inverter is never moved onto another one: unless the user types a place
\* into the options, an entry moves only to where an inverter with its unique id answered the
\* probe (async_step_reconfigure: "refuse the change to avoid silently swapping a user's device
\* history onto a stranger's hardware").
MovedWithItsInverter(e) ==
    \E f \in Flows :
        LET r == flow[f] IN
        \/ r.kind = "options" /\ r.target = e
        \/ /\ r.kind = "reconfigure" /\ r.target = e
           /\ r.answer # Nobody /\ entry[e].uid = UidOf(r.answer, r.place)
           /\ entry'[e].place = r.place
        \/ /\ r.kind = "setup" /\ r.step = "probing"
           /\ at[r.place] # Nobody /\ entry[e].uid = UidOf(at[r.place], r.place)
           /\ entry'[e].place = r.place
MovedOnlyWithItsInverter ==
    [][\A e \in Used : entry'[e].place # entry[e].place => MovedWithItsInverter(e)]_vars

\* No dialog leaves a session behind on the one Modbus slot an inverter has: once it is gone,
\* its last step has ended and the task of async_remove has run, its probes are closed.
NoProbeLeftOpen ==
    \A f \in Flows :
        flow[f].kind = "none" \/ (flow[f].gone /\ flow[f].step = "none" /\ ~flow[f].closer)
            => flow[f].client = Nobody /\ flow[f].spare = Nobody

\* A change of an entry reaches what runs: again and again every entry runs with the place and
\* the web token it holds, and is loaded when an inverter is there (async_reload_entry), unless
\* a platform of it failed to unload (async_unload_entry), which only a restart repairs.
Current(e) ==
    /\ run[e].place = entry[e].place /\ run[e].token = entry[e].token
    /\ at[entry[e].place] # Nobody => run[e].state = "loaded"
EventuallyCurrent == []<>(\A e \in Used : run[e].state = "stuck" \/ Current(e))
-----------------------------------------------------------------------------
(***************************************************************************)
(* The invariant behind the proofs of EntryFlowsProofs: what a dialog is   *)
(* at each of its steps, by itself and next to the entries and the others. *)
(***************************************************************************)
\* By itself: which steps its kind has, where its probes are, and that one that was removed
\* has left somebody behind to close its probe. The one exception is known: see the README.
Sound(r) ==
    /\ r.kind = "none" => r = NoFlow
    /\ r.step \in {"host", "models", "minting"} => r.kind = "options"
    /\ r.step = "settings" => r.kind = "setup"
    /\ r.step \in {"closing", "probing", "failing"} => r.place \in Places
    /\ r.spare # Nobody => r.step = "sma"
    /\ r.gone => \/ CancelWhileClosing
                 \/ r.step # "closing" /\ (r.client # Nobody => r.closer)

\* A setup that has identified its inverter keeps the unique id for itself until it creates
\* the entry; that of a removed dialog is free again.
Reserves(r) == r.kind = "setup" /\ ~r.gone /\ r.step \in {"settings", "handing"}

\* Next to the others: the entry it is about is there, what it is about to move answered with
\* the entry's unique id, and what it is about to create nobody has.
Fits(f, r) ==
    /\ r.kind \in {"reconfigure", "options"} => r.target \in Used
    /\ r.kind = "reconfigure" /\ r.step = "handing"
       => r.answer # Nobody /\ entry[r.target].uid = UidOf(r.answer, r.place)
    /\ Reserves(r) => /\ r.uid \in Places \cup Inverters /\ EntriesOf(r.uid) = {}
                      /\ \A g \in Flows \ {f} : Reserves(flow[g]) => flow[g].uid # r.uid

EntriesHaveUids == \A e \in Used : entry[e].uid \in Places \cup Inverters

IInv ==
    /\ TypeOK
    /\ EntriesHaveUids
    /\ OneEntryPerUid
    /\ \A f \in Flows : Sound(flow[f]) /\ Fits(f, flow[f])
=============================================================================
