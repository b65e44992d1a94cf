------------------------ MODULE LayoutCacheProperties ------------------------
(***************************************************************************)
(* What the layout cache of LayoutCache has to get right: models are read  *)
(* at the offsets the device has now, a truncated layout is never taken    *)
(* for a whole one, and a layout that is stale is found out some time.     *)
(***************************************************************************)
EXTENDS LayoutCache

\* The client is in use: models are listed and read through it.
Serving == pc \in {"list", "common", "reads", "save"} /\ session # None

\* A chain the device has, or the front of it.
LiesOnTheDevice(chain) ==
    \E k \in DOMAIN ChainOf[gen] : chain = Prefix(ChainOf[gen], k)

\* Every model of a client in use lies where the device has it now. "Reading
\* a shifted layout at the old offsets returns values that are wrong rather
\* than absent" (_async_validate_model_structure).
ReadsAtRightOffsets == Serving => LiesOnTheDevice(session.chain)

\* A client that lacks models of the device knows it: the scan behind it
\* stopped early, or the device refused the read of the end marker
\* (last_scan_was_partial).
CompleteUnlessKnownPartial ==
    Serving /\ Ids(ChainOf[gen]) \ Ids(session.chain) # {} => partial \/ session.open

\* No step of a run takes a model the device still has off the list, short
\* of a restart: a short scan fails the cycle instead
\* (_run_one_update_cycle, #42).
NoModelLostWhileThere ==
    [][pc' # "off" => detected \cap Ids(ChainOf[gen]) \subseteq detected']_vars

\* A store whose identity is the device's has the device's layout. So the
\* identity check of the next run finds every stale layout that validation
\* cannot see (_check_device_identity, _async_save_model_structure).
CurrentIdentityCurrentLayout ==
    store # None /\ store.id = IdOf[gen] => store.chain = ChainOf[gen]

\* A cycle is about to fail because its list lacks models the run had before.
ListIsShort == pc = "list" /\ partial /\ detected \ Ids(session.chain) # {}

\* Whatever was stored, updated, replaced or interrupted, cycles that read
\* the device at the right offsets go on succeeding (#49: a replaced
\* inverter must not be rejected for ever). The one way to be held back for
\* ever is a list that stays short (see the README).
EventuallyServesTheDevice ==
    []<>(pc = "save" /\ LiesOnTheDevice(session.chain)) \/ []<>ListIsShort
-----------------------------------------------------------------------------
(***************************************************************************)
(* Why this is so: what every reachable state satisfies, whatever the      *)
(* device's chains and identities are.                                     *)
(***************************************************************************)
\* The generations the device has been in, their layouts and their models.
Past == 1..gen
PastChain == {ChainOf[g] : g \in Past}
PastModels == UNION {Ids(ChainOf[g]) : g \in Past}

\* Only complete layouts of the device are kept, in memory and in the store, and
\* only what it said of itself.
KeepsWholeLayouts ==
    /\ cache \in PastChain \cup {None}
    /\ store # None => store.chain \in PastChain /\ \E g \in Past : store.id = IdOf[g]
    /\ session # None => Ids(session.chain) \subseteq PastModels
    /\ detected \subseteq PastModels
    /\ info # None => \E g \in Past : info = IdOf[g]

\* What is there in which place of a setup, a connect and a cycle.
PlacesOK ==
    /\ pc \in {"validate", "scan", "validateAgain"} => session = None
    /\ pc \in {"validate", "rebuild", "validateAgain", "rebuildAgain"} => cache # None
    /\ pc \in {"rebuild", "rebuildAgain", "handOff", "list", "common", "reads", "save"}
         => session # None
    /\ pc \notin {"idle", "save"} => ~reconnect
    /\ pc = "off" => /\ cache = None /\ info = None /\ session = None
                     /\ ~partial /\ detected = {}
    /\ pc = "common" => info = None
    /\ pc \in {"reads", "save"} => info # None
    /\ pc = "save" => data
    /\ data => info # None
    /\ rescan => pc = "reads" /\ ~data

\* A client that was not found by a short scan has the layout that is kept,
\* unless that is given up for a rescan.
ClientHasTheCache ==
    session # None /\ ~partial =>
        IF cache = None THEN reconnect ELSE session.chain = cache

IInv == TypeOK /\ KeepsWholeLayouts /\ PlacesOK /\ ClientHasTheCache
-----------------------------------------------------------------------------
(***************************************************************************)
(* And what holds as long as the device does not deceive the code.         *)
(***************************************************************************)
\* Validation sees every change: a layout of one generation whose two ends are
\* found on another is the front of its layout, and with the end marker behind
\* it all of it.
FirstIdFound(g, h) == ChainOf[g][1].id = ChainOf[h][1].id
LastHeaderFound(g, h) ==
    \E i \in DOMAIN ChainOf[h] :
        /\ Addresses(ChainOf[h])[i] = Addresses(ChainOf[g])[Len(ChainOf[g])]
        /\ ChainOf[h][i] = ChainOf[g][Len(ChainOf[g])]
MarkerFound(g, h) ==
    Addresses(ChainOf[h])[Len(ChainOf[h]) + 1] = Addresses(ChainOf[g])[Len(ChainOf[g]) + 1]
EndsTellLayouts ==
    \A g, h \in Gen : FirstIdFound(g, h) /\ LastHeaderFound(g, h) =>
        /\ \E k \in DOMAIN ChainOf[h] : ChainOf[g] = Prefix(ChainOf[h], k)
        /\ MarkerFound(g, h) => ChainOf[g] = ChainOf[h]

\* Every update and every replacement shows in what model 1 says.
IdentitiesDiffer == \A g, h \in Gen : IdOf[g] = IdOf[h] => g = h

\* A model that an update took away does not come back with a later one.
ModelsDoNotComeBack ==
    \A g, h, i \in Gen : g <= h /\ h <= i =>
        Ids(ChainOf[g]) \cap Ids(ChainOf[i]) \subseteq Ids(ChainOf[h])

\* A client lies on the device, and is whole unless something says otherwise.
ClientIsSound ==
    session # None =>
        /\ LiesOnTheDevice(session.chain)
        /\ ~partial /\ ~session.open => session.chain = ChainOf[gen]

\* What is kept under the identity of the device is its layout: before model 1
\* is read this is a matter of what came out of the store, and of the scans
\* since; afterwards of the identity that was read.
KeptUnderItsIdentity ==
    /\ CurrentIdentityCurrentLayout
    /\ info = IdOf[gen] /\ cache # None /\ ~rescan => cache = ChainOf[gen]
    /\ info = None /\ cache # None =>
         \/ store # None /\ cache = store.chain /\ pid = store.id
         \/ cache = ChainOf[gen] /\ pc \notin {"off", "idle"}

\* The layout that is kept has all models the run has listed and the device
\* still has, now or later.
KeepsWhatIsListed ==
    ~partial /\ cache # None =>
        \A g \in Gen : g >= gen => detected \cap Ids(ChainOf[g]) \subseteq Ids(cache)
-----------------------------------------------------------------------------
(***************************************************************************)
(* What the repository says and the code does not keep: see the README.    *)
(***************************************************************************)
\* "A timeout or lost connection propagates instead of starting a scan on a
\* failing link" (_async_restore_model_structure).
NoScanAfterSilence == silent => pc # "scan"

\* A model that an earlier cycle of the run had and the device no longer
\* shows is being timed for the Repairs issue as soon as a cycle succeeded
\* (_after_successful_cycle, "once a previously-known model has been gone").
VanishedIsTimed == pc = "save" => known \ detected \subseteq stamped

\* A cycle that fails because the scan stopped early "gets a fresh scan on the
\* retry" (_run_one_update_cycle).
ShortListScannedAgain == ListIsShort ~> pc \in {"scan", "off"}
=============================================================================
