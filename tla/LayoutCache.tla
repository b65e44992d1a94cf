----------------------------- MODULE LayoutCache -----------------------------
(***************************************************************************)
(* The cached SunSpec layout of one config entry: how a fresh client gets  *)
(* its models (validate and rebuild from the cache, or walk the device's   *)
(* chain), what is kept in memory, in the store file and across restarts,  *)
(* and how a replaced or updated device is noticed.                        *)
(*                                                                         *)
(* A chain is the sequence of model blocks a device lays out, each an id   *)
(* and a length. The device goes through generations: a firmware update    *)
(* or a replacement moves it to a later one. It is away for at least one   *)
(* poll meanwhile, so it changes only while no session is open. The        *)
(* in-cycle retry is one more cycle here: it differs in nothing that       *)
(* touches the layout. A register inside a block is never mistaken for a   *)
(* header, and a relabelled model keeps the id the device gives it.        *)
(***************************************************************************)
EXTENDS Integers, Sequences

CONSTANTS
    Generations,    \* how many generations the device goes through
    ChainOf,        \* the chain of each
    IdOf,           \* what model 1 says of each: who it is, its firmware
    Faults,         \* bound: failed requests, failed saves and restarts
    None

Block == [id : Nat, len : Nat]
Gen == 1..Generations
Identity == {IdOf[g] : g \in Gen}

ASSUME GenerationsExist == Generations \in Nat \ {0}
ASSUME ChainsOfGenerations ==
    ChainOf \in [Gen -> Seq(Block)] /\ \A g \in Gen : ChainOf[g] # <<>>
ASSUME EveryGenerationSaysWhoItIs == \A g \in Gen : DOMAIN IdOf[g] = {"who", "fw"}
ASSUME FaultsAreCounted == Faults \in Nat
ASSUME NoneIsNothing ==
    /\ None \notin Identity /\ \A g \in Gen : None # ChainOf[g]
    /\ None \notin [chain : Seq(Block), open : BOOLEAN]

VARIABLES
    gen,        \* the generation the device is in
    faults,     \* the faults left
    store,      \* the store file: a chain and the identity it was saved with
    pc,         \* where the entry is in its setup, its connect or its cycle
    cache,      \* api._model_structure
    unsaved,    \* api.structure_revision differs from the persisted one
    pid,        \* coordinator._persisted_identity
    session,    \* the models of the live client, None without one
    reconnect,  \* api._reconnect
    partial,    \* api._partial_scan
    info,       \* the identity in coordinator.device_info
    rescan,     \* this cycle found a new firmware version
    detected,   \* coordinator.detected_models
    missing,    \* coordinator._missing_this_cycle
    stamped,    \* the models in coordinator._model_missing_since
    data,       \* a cycle has succeeded in this run
    known,      \* the models some successful cycle of this run had
    silent      \* a request of this connect went unanswered

deviceVars == <<gen, faults>>
layoutVars == <<cache, unsaved, session, reconnect, partial>>
identityVars == <<pid, info, rescan>>
modelVars == <<detected, missing, stamped, known>>
vars == <<deviceVars, store, pc, layoutVars, identityVars, modelVars, data, silent>>

Ids(chain) == {chain[i].id : i \in DOMAIN chain}
Prefix(chain, k) == SubSeq(chain, 1, k)
PartOfChain == UNION {{Prefix(ChainOf[g], k) : k \in DOMAIN ChainOf[g]} : g \in Gen}
Chain == {ChainOf[g] : g \in Gen}
ModelId == UNION {Ids(ChainOf[g]) : g \in Gen}

TypeOK ==
    /\ gen \in Gen /\ faults \in 0..Faults
    /\ store \in [chain : PartOfChain, id : Identity] \cup {None}
    /\ pc \in {"off", "idle", "validate", "rebuild", "scan", "validateAgain",
               "rebuildAgain", "handOff", "list", "common", "reads", "save"}
    /\ cache \in PartOfChain \cup {None}
    /\ session \in [chain : PartOfChain, open : BOOLEAN] \cup {None}
    /\ unsaved \in BOOLEAN /\ reconnect \in BOOLEAN /\ partial \in BOOLEAN
    /\ pid \in Identity \cup {None} /\ info \in Identity \cup {None}
    /\ rescan \in BOOLEAN /\ data \in BOOLEAN /\ silent \in BOOLEAN
    /\ detected \subseteq ModelId /\ missing \subseteq ModelId
    /\ stamped \subseteq ModelId /\ known \subseteq ModelId
-----------------------------------------------------------------------------
(***************************************************************************)
(* What is read of the device's chain. Behind the last block stands the    *)
(* end marker.                                                             *)
(***************************************************************************)
\* The address of every block of a chain, counted from the first, and of the
\* end marker: a block is its id, its length and that many registers.
Addresses(chain) ==
    LET at[i \in 1..Len(chain) + 1] ==
            IF i = 1 THEN 0 ELSE at[i - 1] + 2 + chain[i - 1].len
    IN at

\* The block whose header is at an address of the device, if there is one.
HeaderAt(address, block) ==
    LET chain == ChainOf[gen] IN
    \E i \in DOMAIN chain : Addresses(chain)[i] = address /\ chain[i] = block

EndMarkerAt(address) ==
    Addresses(ChainOf[gen])[Len(ChainOf[gen]) + 1] = address

\* Validation, in its three reads: the first id, the header of the last
\* block, the marker behind it.
HeadMatches == cache[1].id = ChainOf[gen][1].id
\* Variant: the tail is not looked at.
TailUnread == TRUE
TailMatches == HeaderAt(Addresses(cache)[Len(cache)], cache[Len(cache)])
\* Variant: the marker is not looked for.
EndUnread == TRUE
EndMatches == EndMarkerAt(Addresses(cache)[Len(cache) + 1])
-----------------------------------------------------------------------------
Init ==
    /\ gen = 1 /\ faults = Faults /\ store = None
    /\ pc = "off"
    /\ cache = None /\ unsaved = TRUE /\ session = None
    /\ reconnect = FALSE /\ partial = FALSE
    /\ pid = None /\ info = None /\ rescan = FALSE
    /\ detected = {} /\ missing = {} /\ stamped = {} /\ known = {}
    /\ data = FALSE /\ silent = FALSE

\* One request or file operation goes wrong.
Fault == faults > 0 /\ faults' = faults - 1

\* Nothing is left of the run but the store: the next has a coordinator and
\* an API client of its own.
RunEnds ==
    /\ pc' = "off"
    /\ cache' = None /\ unsaved' = TRUE /\ session' = None
    /\ reconnect' = FALSE /\ partial' = FALSE
    /\ pid' = None /\ info' = None /\ rescan' = FALSE
    /\ detected' = {} /\ missing' = {} /\ stamped' = {} /\ known' = {}
    /\ data' = FALSE /\ silent' = FALSE

\* reconnect_next: the next client is a new one, after a rescan if asked for.
ReconnectNext(rescanned) ==
    /\ reconnect' = TRUE
    /\ cache' = IF rescanned THEN None ELSE cache
    /\ unsaved' = (unsaved \/ (rescanned /\ cache # None))

\* A cycle or its connect failed: the session is dropped. The first one ends
\* the coordinator, and the next setup attempt builds another.
CycleFails(rescanned) ==
    IF data
    THEN /\ pc' = "idle" /\ session' = None /\ rescan' = FALSE /\ silent' = FALSE
         /\ ReconnectNext(rescanned)
         /\ UNCHANGED <<partial, pid, info, modelVars, data>>
    ELSE RunEnds

-----------------------------------------------------------------------------
(***************************************************************************)
(* Setup and connect.                                                      *)
(***************************************************************************)
\* async_load_model_structure. A store that cannot be read is no error.
Setup ==
    /\ pc = "off"
    /\ pc' = "idle"
    /\ \/ /\ store # None
          /\ cache' = store.chain /\ pid' = store.id /\ unsaved' = FALSE
          /\ UNCHANGED faults
       \/ /\ IF store = None THEN UNCHANGED faults ELSE Fault
          /\ UNCHANGED <<cache, pid, unsaved>>
    /\ UNCHANGED <<gen, store, session, reconnect, partial, info, rescan, modelVars, data, silent>>

\* A cycle starts: the live client is used, or a new one connects and gets
\* its models from the cache or from a scan.
StartCycle ==
    /\ pc = "idle"
    /\ IF session # None /\ ~reconnect
       THEN pc' = "list" /\ UNCHANGED <<session, reconnect>>
       ELSE /\ pc' = IF cache # None THEN "validate" ELSE "scan"
            /\ session' = None /\ reconnect' = FALSE
    /\ UNCHANGED <<deviceVars, store, cache, unsaved, partial, identityVars, modelVars, data, silent>>

\* A restore that fails is followed by a scan, unless a scan came before it.
BeforeTheScan == pc \in {"validate", "rebuild"}

\* The scan stopped early and there is no layout to fall back on: the models
\* in front of the refused block are kept, or all of them when it was the
\* header behind the last. Without any there is no device.
EndOfShortScan ==
    \/ /\ \E k \in DOMAIN ChainOf[gen] :
             session' = [chain |-> Prefix(ChainOf[gen], k), open |-> FALSE]
       /\ partial' = TRUE
       /\ pc' = "handOff" /\ silent' = FALSE
       /\ UNCHANGED <<cache, unsaved, reconnect, identityVars, modelVars, data>>
    \/ \E rescanned \in BOOLEAN : CycleFails(rescanned)

\* The cache does not describe this device, or one of the two header reads
\* was refused. The cache is kept: only a complete scan replaces it.
ValidationFails ==
    /\ pc \in {"validate", "validateAgain"}
    /\ IF HeadMatches /\ TailMatches /\ EndMatches THEN Fault ELSE UNCHANGED faults
    /\ IF BeforeTheScan
       THEN /\ pc' = "scan"
            /\ UNCHANGED <<layoutVars, identityVars, modelVars, data, silent>>
       ELSE EndOfShortScan
    /\ UNCHANGED <<gen, store>>

\* Both ends are where the cache says. A refused read of the end marker
\* counts as one.
ValidationSucceeds ==
    /\ pc \in {"validate", "validateAgain"}
    /\ HeadMatches /\ TailMatches
    /\ IF EndMatches THEN UNCHANGED faults ELSE Fault
    /\ session' = [chain |-> cache, open |-> ~EndMatches]
    /\ pc' = IF pc = "validate" THEN "rebuild" ELSE "rebuildAgain"
    /\ UNCHANGED <<gen, store, cache, unsaved, reconnect, partial, identityVars, modelVars, data, silent>>

\* The models are built from the cache; those with repeating groups read
\* their group counts on the way.
RebuildSucceeds ==
    /\ pc \in {"rebuild", "rebuildAgain"}
    /\ pc' = "handOff" /\ silent' = FALSE
    /\ UNCHANGED <<deviceVars, store, layoutVars, identityVars, modelVars, data>>

\* One of these reads fails, for whatever reason: the cache is given up and
\* the chain scanned, unless that is what was tried before.
RebuildFails ==
    /\ pc \in {"rebuild", "rebuildAgain"}
    /\ Fault
    /\ \E timedOut \in BOOLEAN :
         IF BeforeTheScan
         THEN /\ cache' = None /\ unsaved' = TRUE /\ session' = None
              /\ pc' = "scan" /\ silent' = timedOut
              /\ UNCHANGED <<reconnect, partial, identityVars, modelVars, data>>
         ELSE CycleFails(TRUE)
    /\ UNCHANGED <<gen, store>>

\* The whole chain was walked and is what the cache is from now on.
ScanCompletes ==
    /\ pc = "scan"
    /\ session' = [chain |-> ChainOf[gen], open |-> FALSE]
    /\ partial' = FALSE
    /\ cache' = ChainOf[gen]
    /\ unsaved' = (unsaved \/ cache # ChainOf[gen])
    /\ pc' = "handOff" /\ silent' = FALSE
    /\ UNCHANGED <<deviceVars, store, reconnect, identityVars, modelVars, data>>

\* The device refused a block on the way. The last good layout is tried once
\* more before what was found so far.
ScanStopsEarly ==
    /\ pc = "scan" /\ Fault
    /\ IF cache # None
       THEN /\ pc' = "validateAgain"
            /\ UNCHANGED <<layoutVars, identityVars, modelVars, data, silent>>
       ELSE EndOfShortScan
    /\ UNCHANGED <<gen, store>>

\* The link is still up and a header the vendor labels wrongly was relabelled:
\* the client is adopted.
Adopt ==
    /\ pc = "handOff" /\ pc' = "list"
    /\ UNCHANGED <<deviceVars, store, layoutVars, identityVars, modelVars, data, silent>>

\* A request of the connect was not answered, or the device hung up.
ConnectTimesOut ==
    /\ pc \in {"validate", "scan", "validateAgain", "handOff"} /\ Fault
    /\ CycleFails(FALSE)
    /\ UNCHANGED <<gen, store>>
-----------------------------------------------------------------------------
(***************************************************************************)
(* The cycle.                                                              *)
(***************************************************************************)
\* A list that lacks models because the scan stopped early fails the cycle.
ListTooShort ==
    /\ pc = "list" /\ partial
    /\ detected \ Ids(session.chain) # {}
    /\ CycleFails(FALSE)
    /\ UNCHANGED <<deviceVars, store>>

\* Variant: a short list is no error.
ListModelsAnyway ==
    /\ pc = "list"
    /\ missing' = detected \ Ids(session.chain)
    /\ detected' = Ids(session.chain)
    /\ pc' = IF info = None THEN "common" ELSE "reads"
    /\ UNCHANGED <<deviceVars, store, layoutVars, identityVars, stamped, known, data, silent>>

\* The models of the client are what the device has from now on; what it had
\* before and has no more is missing.
ListModels ==
    /\ pc = "list"
    /\ ~(partial /\ detected \ Ids(session.chain) # {})
    /\ missing' = detected \ Ids(session.chain)
    /\ detected' = Ids(session.chain)
    /\ pc' = IF info = None THEN "common" ELSE "reads"
    /\ UNCHANGED <<deviceVars, store, layoutVars, identityVars, stamped, known, data, silent>>

\* The store was written for another device: _check_device_identity compares
\* maker, model and serial number.
StoredForAnother == pid # None /\ pid.who # IdOf[gen].who

\* Model 1 is read, once per run, and says who answers.
ReadCommon ==
    /\ pc = "common" /\ info' = IdOf[gen]
    /\ ~StoredForAnother
    /\ rescan' = (pid \notin {None, IdOf[gen]})
    /\ pid' = IF rescan' THEN None ELSE pid
    /\ pc' = "reads"
    /\ UNCHANGED <<deviceVars, store, layoutVars, modelVars, data, silent>>

\* Variant: the store is left to the next setup attempt.
OtherDeviceKeepsStore ==
    /\ pc = "common"
    /\ StoredForAnother
    /\ CycleFails(TRUE)
    /\ UNCHANGED <<deviceVars, store>>

\* Another device answers: its store is deleted before the cycle fails, so
\* the next setup attempt, which reads it again, does not fail the same way.
OtherDevice ==
    /\ pc = "common"
    /\ StoredForAnother
    /\ \/ store' = None /\ UNCHANGED faults
       \/ UNCHANGED store /\ Fault
    /\ CycleFails(TRUE)
    /\ UNCHANGED gen

\* Variant: new firmware does not ask for a rescan.
CycleSucceedsWithoutRescan ==
    /\ pc = "reads"
    /\ pc' = "save" /\ data' = TRUE
    /\ rescan' = FALSE
    /\ stamped' = (stamped \cup missing) \ detected
    /\ missing' = {}
    /\ known' = known \cup detected
    /\ UNCHANGED <<deviceVars, store, layoutVars, pid, info, detected, silent>>

\* Every model is read. What went missing is stamped only now.
CycleSucceeds ==
    /\ pc = "reads"
    /\ pc' = "save" /\ data' = TRUE
    /\ IF rescan
       THEN ReconnectNext(TRUE)
       ELSE UNCHANGED <<reconnect, cache, unsaved>>
    /\ rescan' = FALSE
    /\ stamped' = (stamped \cup missing) \ detected
    /\ missing' = {}
    /\ known' = known \cup detected
    /\ UNCHANGED <<deviceVars, store, session, partial, pid, info, detected, silent>>

\* A read failed. Silence and a lost link keep the layout, a refusal or an
\* answer that makes no sense does not.
ReadFails ==
    /\ pc \in {"common", "reads"} /\ Fault
    /\ \E refused \in BOOLEAN : CycleFails(refused)
    /\ UNCHANGED <<gen, store>>

\* _async_save_model_structure, after the lock was let go.
Save ==
    /\ pc = "save"
    /\ pc' = "idle"
    /\ \/ /\ cache # None /\ (unsaved \/ info # pid)
          /\ store' = [chain |-> cache, id |-> info]
          /\ unsaved' = FALSE /\ pid' = info
          /\ UNCHANGED faults
       \/ /\ IF cache # None /\ (unsaved \/ info # pid) THEN Fault ELSE UNCHANGED faults
          /\ UNCHANGED <<store, unsaved, pid>>
    /\ UNCHANGED <<gen, cache, session, reconnect, partial, info, rescan, modelVars, data, silent>>
-----------------------------------------------------------------------------
(***************************************************************************)
(* Around it.                                                              *)
(***************************************************************************)
\* Home Assistant stops or dies, or the entry is reloaded.
Restart ==
    /\ pc # "off" /\ Fault
    /\ RunEnds
    /\ UNCHANGED <<gen, store>>

\* The device is updated or replaced.
DeviceChanges ==
    /\ pc \in {"off", "idle"} /\ session = None
    /\ gen' \in {g \in Gen : g > gen}
    /\ UNCHANGED <<faults, store, pc, layoutVars, identityVars, modelVars, data, silent>>

Connect ==
    \/ ValidationFails \/ ValidationSucceeds \/ RebuildSucceeds \/ RebuildFails
    \/ ScanCompletes \/ ScanStopsEarly \/ Adopt \/ ConnectTimesOut

Cycle ==
    \/ ListTooShort \/ ListModels \/ ReadCommon \/ OtherDevice
    \/ CycleSucceeds \/ ReadFails \/ Save

Next == Setup \/ StartCycle \/ Connect \/ Cycle \/ Restart \/ DeviceChanges

\* Polls and setup attempts go on for ever, and what has begun goes on.
Fairness == WF_vars(Setup \/ StartCycle \/ Connect \/ Cycle)

Spec == Init /\ [][Next]_vars
FairSpec == Spec /\ Fairness
=============================================================================
