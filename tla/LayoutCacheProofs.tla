--------------------------- MODULE LayoutCacheProofs ---------------------------
(***************************************************************************)
(* The cached layout, for every sequence of generations of a device: what  *)
(* is kept is a whole layout of it, a client that is in use reads at the   *)
(* right offsets as far as validation can tell, and what is stored under   *)
(* the identity of the device is its layout.                               *)
(***************************************************************************)
EXTENDS LayoutCacheProperties, SequenceTheorems, TLAPS

\* The front of a chain the device has had, and a whole one.
LEMMA Fronts ==
    ASSUME NEW g \in Gen, NEW k \in DOMAIN ChainOf[g]
    PROVE  /\ Prefix(ChainOf[g], k) \in PartOfChain /\ Prefix(ChainOf[g], k) \in Seq(Block)
           /\ Ids(Prefix(ChainOf[g], k)) \subseteq Ids(ChainOf[g])
<1> DEFINE chain == ChainOf[g]
<1>1. chain \in Seq(Block) /\ k \in 1..Len(chain)
  BY ChainsOfGenerations
<1>2. /\ Prefix(chain, k) \in Seq(Block) /\ Len(Prefix(chain, k)) = k
      /\ \A i \in 1..k : Prefix(chain, k)[i] = chain[i]
  <2>1. \A i \in 1..k : chain[i] \in Block
    BY <1>1
  <2> QED BY <1>1, <2>1, SubSeqProperties DEF Prefix
<1>3. DOMAIN Prefix(chain, k) = 1..k
  BY <1>2
<1>4. Ids(Prefix(chain, k)) \subseteq Ids(chain)
  BY <1>1, <1>2, <1>3 DEF Ids
<1>5. Prefix(chain, k) \in PartOfChain
  BY DEF PartOfChain
<1> QED BY <1>2, <1>4, <1>5

LEMMA WholeLayouts ==
    ASSUME NEW g \in Gen
    PROVE  /\ ChainOf[g] \in PartOfChain /\ ChainOf[g] # None
           /\ Ids(ChainOf[g]) \subseteq ModelId
           /\ \E k \in DOMAIN ChainOf[g] : ChainOf[g] = Prefix(ChainOf[g], k)
<1>1. ChainOf[g] \in Seq(Block) /\ ChainOf[g] # <<>>
  BY ChainsOfGenerations
<1>2. Len(ChainOf[g]) \in DOMAIN ChainOf[g]
  BY <1>1
<1>3. Prefix(ChainOf[g], Len(ChainOf[g])) = ChainOf[g]
  BY <1>1, SubSeqFull DEF Prefix
<1>4. Ids(ChainOf[g]) \subseteq ModelId
  BY DEF ModelId
<1> QED BY <1>2, <1>3, <1>4, Fronts, NoneIsNothing

\* A client is something.
LEMMA ClientsAreThere ==
    ASSUME NEW chain \in PartOfChain, NEW open \in BOOLEAN
    PROVE  /\ [chain |-> chain, open |-> open] \in [chain : PartOfChain, open : BOOLEAN]
           /\ [chain |-> chain, open |-> open] # None
<1>1. PICK g \in Gen : \E k \in DOMAIN ChainOf[g] : chain = Prefix(ChainOf[g], k)
  BY DEF PartOfChain
<1>2. chain \in Seq(Block)
  BY <1>1, Fronts
<1> QED BY <1>2, NoneIsNothing

\* The generations the device has been in.
LEMMA PastIsGen ==
    ASSUME gen \in Gen
    PROVE  /\ Past \subseteq Gen /\ gen \in Past /\ ChainOf[gen] \in PastChain
           /\ Ids(ChainOf[gen]) \subseteq PastModels /\ PastModels \subseteq ModelId
           /\ \A chain \in PastChain : chain \in PartOfChain /\ Ids(chain) \subseteq PastModels
                                       /\ chain # None
<1>1. Past \subseteq Gen /\ gen \in Past
  BY GenerationsExist DEF Past, Gen
<1>2. PastModels \subseteq ModelId
  BY <1>1 DEF PastModels, ModelId
<1>3. ASSUME NEW g \in Past PROVE Ids(ChainOf[g]) \subseteq PastModels
  BY DEF PastModels
<1>4. ChainOf[gen] \in PastChain /\ Ids(ChainOf[gen]) \subseteq PastModels
  BY <1>1, <1>3 DEF PastChain
<1>5. ASSUME NEW chain \in PastChain
      PROVE  chain \in PartOfChain /\ Ids(chain) \subseteq PastModels /\ chain # None
  BY <1>1, <1>3, WholeLayouts DEF PastChain
<1> QED BY <1>1, <1>2, <1>4, <1>5

LEMMA PastStays ==
    ASSUME gen' = gen
    PROVE  Past' = Past /\ PastChain' = PastChain /\ PastModels' = PastModels
BY DEF Past, PastChain, PastModels
-----------------------------------------------------------------------------
\* The end of a run: nothing is left of it but the store.
LEMMA RunEndsKeeps ==
    ASSUME IInv, RunEnds, gen' = gen, faults' \in 0..Faults, store' \in {store, None}
    PROVE  IInv'
<1>1. TypeOK'
  BY DEF IInv, TypeOK, RunEnds
<1>2. KeepsWholeLayouts'
  BY PastStays DEF IInv, KeepsWholeLayouts, RunEnds
<1>3. PlacesOK' /\ ClientHasTheCache'
  BY DEF RunEnds, PlacesOK, ClientHasTheCache
<1> QED BY <1>1, <1>2, <1>3 DEF IInv

\* A cycle or a connect that failed: the layout stays or is given up, the
\* client is gone.
LEMMA CycleFailsKeeps ==
    ASSUME IInv, NEW rescanned \in BOOLEAN, CycleFails(rescanned),
           gen' = gen, faults' \in 0..Faults, store' = store
    PROVE  IInv'
<1>1. CASE ~data
  BY <1>1, RunEndsKeeps DEF CycleFails
<1>2. CASE data
  <2>1. /\ pc' = "idle" /\ session' = None /\ rescan' = FALSE /\ silent' = FALSE
        /\ reconnect' = TRUE /\ cache' \in {cache, None} /\ unsaved' \in BOOLEAN
        /\ UNCHANGED <<partial, pid, info, modelVars, data>>
    <3>1. unsaved \in BOOLEAN
      BY DEF IInv, TypeOK
    <3> QED BY <1>2, <3>1 DEF CycleFails, ReconnectNext
  <2>2. TypeOK'
    BY <2>1 DEF IInv, TypeOK, modelVars
  <2>3. KeepsWholeLayouts'
    BY <2>1, PastStays DEF IInv, KeepsWholeLayouts, modelVars
  <2>4. PlacesOK'
    BY <2>1 DEF IInv, PlacesOK, modelVars
  <2>5. ClientHasTheCache'
    BY <2>1 DEF ClientHasTheCache
  <2> QED BY <2>2, <2>3, <2>4, <2>5 DEF IInv
<1> QED BY <1>1, <1>2

LEMMA FaultIsCounted == ASSUME TypeOK, Fault \/ UNCHANGED faults PROVE faults' \in 0..Faults
BY FaultsAreCounted DEF TypeOK, Fault

\* A scan that stopped early, with nothing to fall back on.
LEMMA EndOfShortScanKeeps ==
    ASSUME IInv, EndOfShortScan, pc \in {"scan", "validateAgain"},
           UNCHANGED <<gen, store>>, faults' \in 0..Faults
    PROVE  IInv'
<1>1. CASE \E rescanned \in BOOLEAN : CycleFails(rescanned)
  BY <1>1, CycleFailsKeeps
<1>2. ASSUME NEW k \in DOMAIN ChainOf[gen],
             session' = [chain |-> Prefix(ChainOf[gen], k), open |-> FALSE],
             partial' = TRUE, pc' = "handOff", silent' = FALSE,
             UNCHANGED <<cache, unsaved, reconnect, identityVars, modelVars, data>>
      PROVE  IInv'
  <2> USE <1>2
  <2>1. /\ Prefix(ChainOf[gen], k) \in PartOfChain
        /\ Ids(Prefix(ChainOf[gen], k)) \subseteq Ids(ChainOf[gen])
    BY Fronts DEF IInv, TypeOK
  <2>2. /\ session' \in [chain : PartOfChain, open : BOOLEAN] /\ session' # None
        /\ session'.chain = Prefix(ChainOf[gen], k)
    BY <2>1, ClientsAreThere
  <2>3. TypeOK'
    BY <2>2 DEF IInv, TypeOK, modelVars, identityVars
  <2>4. KeepsWholeLayouts'
    BY <2>1, <2>2, PastStays, PastIsGen
       DEF IInv, TypeOK, KeepsWholeLayouts, modelVars, identityVars
  <2>5. PlacesOK'
    BY <2>2 DEF IInv, PlacesOK, modelVars, identityVars
  <2>6. ClientHasTheCache'
    BY DEF ClientHasTheCache
  <2> QED BY <2>3, <2>4, <2>5, <2>6 DEF IInv
<1> QED BY <1>1, <1>2 DEF EndOfShortScan
-----------------------------------------------------------------------------
LEMMA Initially == Init => IInv
<1> SUFFICES ASSUME Init PROVE IInv
  OBVIOUS
<1>1. TypeOK
  <2>1. gen \in Gen /\ faults \in 0..Faults
    BY GenerationsExist, FaultsAreCounted DEF Init, Gen
  <2> QED BY <2>1 DEF Init, TypeOK
<1>2. KeepsWholeLayouts /\ PlacesOK /\ ClientHasTheCache
  BY DEF Init, KeepsWholeLayouts, PlacesOK, ClientHasTheCache
<1> QED BY <1>1, <1>2 DEF IInv

LEMMA SetupKeeps == ASSUME IInv, Setup PROVE IInv'
<1>1. pc = "off" /\ pc' = "idle" /\ UNCHANGED <<gen, store, session, reconnect, partial, info,
                                               rescan, modelVars, data, silent>>
      /\ faults' \in 0..Faults
  BY FaultIsCounted DEF Setup, IInv
<1>2. \/ /\ store # None /\ cache' = store.chain /\ pid' = store.id /\ unsaved' = FALSE
      \/ UNCHANGED <<cache, pid, unsaved>>
  BY DEF Setup
<1>3. store # None => store.chain \in PastChain /\ store.id \in Identity
  BY DEF IInv, KeepsWholeLayouts, TypeOK
<1>4. TypeOK'
  <2>1. cache' \in PartOfChain \cup {None}
    BY <1>2, <1>3, PastIsGen DEF IInv, TypeOK
  <2>2. pid' \in Identity \cup {None} /\ unsaved' \in BOOLEAN
    BY <1>2, <1>3 DEF IInv, TypeOK
  <2> QED BY <1>1, <2>1, <2>2 DEF IInv, TypeOK, modelVars
<1>5. KeepsWholeLayouts'
  BY <1>1, <1>2, <1>3, PastStays DEF IInv, KeepsWholeLayouts, modelVars
<1>6. PlacesOK' /\ ClientHasTheCache'
  BY <1>1 DEF IInv, PlacesOK, ClientHasTheCache, modelVars
<1> QED BY <1>4, <1>5, <1>6 DEF IInv

LEMMA StartCycleKeeps == ASSUME IInv, StartCycle PROVE IInv'
<1> USE DEF StartCycle, deviceVars, identityVars, modelVars
<1>1. TypeOK'
  BY DEF IInv, TypeOK
<1>2. KeepsWholeLayouts'
  BY PastStays DEF IInv, KeepsWholeLayouts
<1>3. PlacesOK'
  BY DEF IInv, PlacesOK
<1>4. ClientHasTheCache'
  BY DEF IInv, ClientHasTheCache
<1> QED BY <1>1, <1>2, <1>3, <1>4 DEF IInv

LEMMA ValidationFailsKeeps == ASSUME IInv, ValidationFails PROVE IInv'
<1>1. faults' \in 0..Faults
  BY FaultIsCounted DEF ValidationFails, IInv
<1>2. CASE BeforeTheScan
  <2>1. pc' = "scan" /\ pc = "validate"
        /\ UNCHANGED <<layoutVars, identityVars, modelVars, data, silent, gen, store>>
    BY <1>2 DEF ValidationFails, BeforeTheScan
  <2> USE <2>1 DEF layoutVars, identityVars, modelVars
  <2>2. TypeOK'
    BY <1>1 DEF IInv, TypeOK
  <2>3. KeepsWholeLayouts'
    BY PastStays DEF IInv, KeepsWholeLayouts
  <2>4. PlacesOK'
    BY DEF IInv, PlacesOK
  <2>5. ClientHasTheCache'
    BY DEF IInv, ClientHasTheCache
  <2> QED BY <2>2, <2>3, <2>4, <2>5 DEF IInv
<1>3. CASE ~BeforeTheScan
  BY <1>1, <1>3, EndOfShortScanKeeps DEF ValidationFails, BeforeTheScan
<1> QED BY <1>2, <1>3

LEMMA ValidationSucceedsKeeps == ASSUME IInv, ValidationSucceeds PROVE IInv'
<1>1. /\ session' = [chain |-> cache, open |-> ~EndMatches]
      /\ pc \in {"validate", "validateAgain"} /\ pc' \in {"rebuild", "rebuildAgain"}
      /\ UNCHANGED <<gen, store, cache, unsaved, reconnect, partial, identityVars, modelVars,
                     data, silent>>
  BY DEF ValidationSucceeds
<1>2. faults' \in 0..Faults
  BY FaultIsCounted DEF ValidationSucceeds, IInv
<1>3. cache \in PastChain /\ cache # None
  BY <1>1 DEF IInv, PlacesOK, KeepsWholeLayouts
<1>4. cache \in PartOfChain /\ Ids(cache) \subseteq PastModels
  BY <1>3, PastIsGen DEF IInv, TypeOK
<1>5. /\ session' \in [chain : PartOfChain, open : BOOLEAN] /\ session' # None
      /\ session'.chain = cache
  <2>1. (~EndMatches) \in BOOLEAN
    OBVIOUS
  <2> HIDE DEF EndMatches
  <2>2. session' \in [chain : PartOfChain, open : BOOLEAN] /\ session' # None
    BY <1>1, <1>4, <2>1, ClientsAreThere
  <2> QED BY <1>1, <2>2
<1>6. TypeOK'
  BY <1>1, <1>2, <1>5 DEF IInv, TypeOK, identityVars, modelVars
<1>7. KeepsWholeLayouts'
  BY <1>1, <1>4, <1>5, PastStays DEF IInv, KeepsWholeLayouts, modelVars, identityVars
<1>8. PlacesOK'
  BY <1>1, <1>3, <1>5 DEF IInv, PlacesOK, identityVars, modelVars
<1>9. ClientHasTheCache'
  BY <1>1, <1>3, <1>5 DEF ClientHasTheCache
<1> QED BY <1>6, <1>7, <1>8, <1>9 DEF IInv

LEMMA RebuildSucceedsKeeps == ASSUME IInv, RebuildSucceeds PROVE IInv'
<1> USE DEF RebuildSucceeds, deviceVars, layoutVars, identityVars, modelVars
<1>1. TypeOK'
  BY DEF IInv, TypeOK
<1>2. KeepsWholeLayouts'
  BY PastStays DEF IInv, KeepsWholeLayouts
<1>3. PlacesOK'
  BY DEF IInv, PlacesOK
<1>4. ClientHasTheCache'
  BY DEF IInv, ClientHasTheCache
<1> QED BY <1>1, <1>2, <1>3, <1>4 DEF IInv

LEMMA RebuildFailsKeeps == ASSUME IInv, RebuildFails PROVE IInv'
<1>1. faults' \in 0..Faults /\ UNCHANGED <<gen, store>>
  BY FaultIsCounted DEF RebuildFails, IInv
<1>2. PICK timedOut \in BOOLEAN :
        IF BeforeTheScan
        THEN /\ cache' = None /\ unsaved' = TRUE /\ session' = None
             /\ pc' = "scan" /\ silent' = timedOut
             /\ UNCHANGED <<reconnect, partial, identityVars, modelVars, data>>
        ELSE CycleFails(TRUE)
  BY DEF RebuildFails
<1>3. CASE ~BeforeTheScan
  BY <1>1, <1>2, <1>3, CycleFailsKeeps
<1>4. CASE BeforeTheScan
  <2> USE <1>1, <1>2, <1>4 DEF identityVars, modelVars
  <2>1. pc = "rebuild"
    BY DEF RebuildFails, BeforeTheScan
  <2>2. TypeOK'
    BY DEF IInv, TypeOK
  <2>3. KeepsWholeLayouts'
    BY PastStays DEF IInv, KeepsWholeLayouts
  <2>4. PlacesOK'
    BY <2>1 DEF IInv, PlacesOK
  <2>5. ClientHasTheCache'
    BY DEF ClientHasTheCache
  <2> QED BY <2>2, <2>3, <2>4, <2>5 DEF IInv
<1> QED BY <1>3, <1>4

LEMMA ScanCompletesKeeps == ASSUME IInv, ScanCompletes PROVE IInv'
<1> USE DEF ScanCompletes, deviceVars, identityVars, modelVars
<1>1. gen \in Gen
  BY DEF IInv, TypeOK
<1>2. /\ session' \in [chain : PartOfChain, open : BOOLEAN] /\ session' # None
      /\ session'.chain = ChainOf[gen] /\ cache' = ChainOf[gen]
      /\ ChainOf[gen] \in PartOfChain /\ ChainOf[gen] # None
  BY <1>1, WholeLayouts, ClientsAreThere
<1>3. TypeOK'
  <2>1. unsaved' \in BOOLEAN
    BY DEF IInv, TypeOK
  <2> QED BY <1>2, <2>1 DEF IInv, TypeOK
<1>4. KeepsWholeLayouts'
  BY <1>1, <1>2, PastIsGen, PastStays DEF IInv, KeepsWholeLayouts
<1>5. PlacesOK'
  BY <1>2 DEF IInv, PlacesOK
<1>6. ClientHasTheCache'
  BY <1>2 DEF ClientHasTheCache
<1> QED BY <1>3, <1>4, <1>5, <1>6 DEF IInv

LEMMA ScanStopsEarlyKeeps == ASSUME IInv, ScanStopsEarly PROVE IInv'
<1>1. faults' \in 0..Faults /\ UNCHANGED <<gen, store>> /\ pc = "scan"
  BY FaultIsCounted DEF ScanStopsEarly, IInv
<1>2. CASE cache = None
  BY <1>1, <1>2, EndOfShortScanKeeps DEF ScanStopsEarly
<1>3. CASE cache # None
  <2>1. pc' = "validateAgain" /\ UNCHANGED <<layoutVars, identityVars, modelVars, data, silent>>
    BY <1>3 DEF ScanStopsEarly
  <2> USE <1>1, <1>3, <2>1 DEF layoutVars, identityVars, modelVars
  <2>2. TypeOK'
    BY DEF IInv, TypeOK
  <2>3. KeepsWholeLayouts'
    BY PastStays DEF IInv, KeepsWholeLayouts
  <2>4. PlacesOK'
    BY DEF IInv, PlacesOK
  <2>5. ClientHasTheCache'
    BY DEF IInv, ClientHasTheCache
  <2> QED BY <2>2, <2>3, <2>4, <2>5 DEF IInv
<1> QED BY <1>2, <1>3

LEMMA AdoptKeeps == ASSUME IInv, Adopt PROVE IInv'
<1> USE DEF Adopt, deviceVars, layoutVars, identityVars, modelVars
<1>1. TypeOK'
  BY DEF IInv, TypeOK
<1>2. KeepsWholeLayouts'
  BY PastStays DEF IInv, KeepsWholeLayouts
<1>3. PlacesOK'
  BY DEF IInv, PlacesOK
<1>4. ClientHasTheCache'
  BY DEF IInv, ClientHasTheCache
<1> QED BY <1>1, <1>2, <1>3, <1>4 DEF IInv

\* The failures of a connect and of a cycle.
LEMMA FailuresKeep ==
    ASSUME IInv, ConnectTimesOut \/ ListTooShort \/ ReadFails \/ Restart
    PROVE  IInv'
<1>1. faults' \in 0..Faults /\ UNCHANGED <<gen, store>>
  BY FaultIsCounted DEF ConnectTimesOut, ListTooShort, ReadFails, Restart, deviceVars, IInv
<1>2. RunEnds \/ \E rescanned \in BOOLEAN : CycleFails(rescanned)
  BY DEF ConnectTimesOut, ListTooShort, ReadFails, Restart
<1> QED BY <1>1, <1>2, CycleFailsKeeps, RunEndsKeeps

LEMMA ListModelsKeeps == ASSUME IInv, ListModels PROVE IInv'
<1> USE DEF ListModels, deviceVars, layoutVars, identityVars
<1>1. gen \in Gen /\ session # None /\ Ids(session.chain) \subseteq PastModels
      /\ detected \subseteq PastModels
  BY DEF IInv, TypeOK, PlacesOK, KeepsWholeLayouts
<1>2. Ids(session.chain) \subseteq ModelId
  BY <1>1, PastIsGen
<1>3. TypeOK'
  <2>1. missing' \subseteq ModelId /\ detected' \subseteq ModelId
    BY <1>2 DEF IInv, TypeOK
  <2> QED BY <2>1 DEF IInv, TypeOK
<1>4. KeepsWholeLayouts'
  BY <1>1, PastStays DEF IInv, KeepsWholeLayouts
<1>5. PlacesOK'
  BY DEF IInv, PlacesOK
<1>6. ClientHasTheCache'
  BY DEF IInv, ClientHasTheCache
<1> QED BY <1>3, <1>4, <1>5, <1>6 DEF IInv

LEMMA ReadCommonKeeps == ASSUME IInv, ReadCommon PROVE IInv'
<1> USE DEF ReadCommon, deviceVars, layoutVars, modelVars
<1>1. gen \in Gen /\ IdOf[gen] \in Identity /\ IdOf[gen] # None
  BY NoneIsNothing DEF IInv, TypeOK, Identity
<1>2. rescan' \in BOOLEAN
  OBVIOUS
<1>3. TypeOK'
  BY <1>1, <1>2 DEF IInv, TypeOK
<1>4. KeepsWholeLayouts'
  <2>1. gen \in Past
    BY <1>1, PastIsGen
  <2> QED BY <2>1, PastStays DEF IInv, KeepsWholeLayouts
<1>5. PlacesOK'
  BY <1>1 DEF IInv, PlacesOK
<1>6. ClientHasTheCache'
  BY DEF IInv, ClientHasTheCache
<1> QED BY <1>3, <1>4, <1>5, <1>6 DEF IInv

\* No cycle of this run has succeeded when model 1 is read.
LEMMA OtherDeviceEnds == ASSUME IInv, OtherDevice PROVE RunEnds
<1>1. ~data
  BY DEF IInv, PlacesOK, OtherDevice
<1> QED BY <1>1 DEF OtherDevice, CycleFails

LEMMA OtherDeviceKeeps == ASSUME IInv, OtherDevice PROVE IInv'
<1>1. faults' \in 0..Faults /\ gen' = gen /\ store' \in {store, None}
  BY FaultIsCounted DEF OtherDevice, IInv
<1> QED BY <1>1, OtherDeviceEnds, RunEndsKeeps

LEMMA CycleSucceedsKeeps == ASSUME IInv, CycleSucceeds PROVE IInv'
<1>1. /\ pc = "reads" /\ pc' = "save" /\ data' = TRUE /\ rescan' = FALSE
      /\ stamped' = (stamped \cup missing) \ detected /\ missing' = {}
      /\ known' = known \cup detected
      /\ UNCHANGED <<gen, faults, store, session, partial, pid, info, detected, silent>>
  BY DEF CycleSucceeds, deviceVars
<1>2. \/ cache' = None /\ reconnect' = TRUE /\ unsaved' \in BOOLEAN
      \/ UNCHANGED <<reconnect, cache, unsaved>>
  BY DEF CycleSucceeds, ReconnectNext, IInv, TypeOK
<1>3. TypeOK'
  <2>1. stamped' \subseteq ModelId /\ known' \subseteq ModelId
    BY <1>1 DEF IInv, TypeOK
  <2>2. cache' \in PartOfChain \cup {None} /\ reconnect' \in BOOLEAN /\ unsaved' \in BOOLEAN
    BY <1>2 DEF IInv, TypeOK
  <2> QED BY <1>1, <2>1, <2>2 DEF IInv, TypeOK
<1>4. KeepsWholeLayouts'
  BY <1>1, <1>2, PastStays DEF IInv, KeepsWholeLayouts
<1>5. PlacesOK'
  BY <1>1, <1>2 DEF IInv, PlacesOK
<1>6. ClientHasTheCache'
  BY <1>1, <1>2 DEF IInv, ClientHasTheCache
<1> QED BY <1>3, <1>4, <1>5, <1>6 DEF IInv

LEMMA SaveKeeps == ASSUME IInv, Save PROVE IInv'
<1>1. /\ pc = "save" /\ pc' = "idle" /\ faults' \in 0..Faults
      /\ UNCHANGED <<gen, cache, session, reconnect, partial, info, rescan, modelVars, data,
                     silent>>
  BY FaultIsCounted DEF Save, IInv
<1>2. \/ /\ cache # None /\ store' = [chain |-> cache, id |-> info]
         /\ unsaved' = FALSE /\ pid' = info
      \/ UNCHANGED <<store, unsaved, pid>>
  BY DEF Save
<1>3. info # None /\ info \in Identity /\ \E g \in Past : info = IdOf[g]
  BY <1>1 DEF IInv, PlacesOK, KeepsWholeLayouts, TypeOK
<1>4. cache # None => cache \in PastChain /\ cache \in PartOfChain
  BY DEF IInv, KeepsWholeLayouts, TypeOK
<1>5. TypeOK'
  <2>1. /\ store' \in [chain : PartOfChain, id : Identity] \cup {None}
        /\ unsaved' \in BOOLEAN /\ pid' \in Identity \cup {None}
    <3>1. /\ store \in [chain : PartOfChain, id : Identity] \cup {None}
          /\ unsaved \in BOOLEAN /\ pid \in Identity \cup {None}
      BY DEF IInv, TypeOK
    <3>2. cache # None => [chain |-> cache, id |-> info] \in [chain : PartOfChain, id : Identity]
      BY <1>3, <1>4
    <3> QED BY <1>2, <1>3, <3>1, <3>2
  <2> QED BY <1>1, <2>1 DEF IInv, TypeOK, modelVars
<1>6. KeepsWholeLayouts'
  <2>1. CASE UNCHANGED <<store, unsaved, pid>>
    BY <1>1, <2>1, PastStays DEF IInv, KeepsWholeLayouts, modelVars
  <2>2. CASE cache # None /\ store' = [chain |-> cache, id |-> info]
    <3>1. store'.chain = cache /\ store'.id = info
      BY <2>2
    <3> HIDE <2>2
    <3> QED BY <1>1, <1>3, <1>4, <2>2, <3>1, PastStays DEF IInv, KeepsWholeLayouts, modelVars
  <2> QED BY <1>2, <2>1, <2>2
<1>7. PlacesOK'
  BY <1>1 DEF IInv, PlacesOK, modelVars
<1>8. ClientHasTheCache'
  BY <1>1 DEF IInv, ClientHasTheCache
<1> QED BY <1>5, <1>6, <1>7, <1>8 DEF IInv

LEMMA DeviceChangesKeeps == ASSUME IInv, DeviceChanges PROVE IInv'
<1> USE DEF DeviceChanges, layoutVars, identityVars, modelVars
<1>1. /\ session = None /\ gen' \in Gen /\ gen' > gen /\ gen \in Gen
      /\ UNCHANGED <<store, pc, cache, session, info, detected>>
  BY DEF IInv, TypeOK
<1>2. Past \subseteq Past'
  BY <1>1, GenerationsExist DEF Past, Gen
<1>3. PastChain \subseteq PastChain' /\ PastModels \subseteq PastModels'
  BY <1>2 DEF PastChain, PastModels
<1>4. TypeOK'
  BY DEF IInv, TypeOK
<1>5. KeepsWholeLayouts'
  BY <1>1, <1>2, <1>3 DEF IInv, KeepsWholeLayouts
<1>6. PlacesOK' /\ ClientHasTheCache'
  BY DEF IInv, PlacesOK, ClientHasTheCache
<1> QED BY <1>4, <1>5, <1>6 DEF IInv

LEMMA StepKeeps == IInv /\ [Next]_vars => IInv'
<1> SUFFICES ASSUME IInv, [Next]_vars PROVE IInv'
  OBVIOUS
<1>1. ASSUME Setup \/ StartCycle PROVE IInv'
  BY <1>1, SetupKeeps, StartCycleKeeps
<1>2. ASSUME Connect PROVE IInv'
  BY <1>2, ValidationFailsKeeps, ValidationSucceedsKeeps, RebuildSucceedsKeeps, RebuildFailsKeeps,
     ScanCompletesKeeps, ScanStopsEarlyKeeps, AdoptKeeps, FailuresKeep DEF Connect
<1>3. ASSUME Cycle PROVE IInv'
  BY <1>3, ListModelsKeeps, ReadCommonKeeps, OtherDeviceKeeps, CycleSucceedsKeeps, SaveKeeps,
     FailuresKeep DEF Cycle
<1>4. ASSUME Restart \/ DeviceChanges PROVE IInv'
  BY <1>4, FailuresKeep, DeviceChangesKeeps
<1>5. CASE UNCHANGED vars
  <2> USE <1>5 DEF vars, deviceVars, layoutVars, identityVars, modelVars
  <2>1. TypeOK'
    BY DEF IInv, TypeOK
  <2>2. KeepsWholeLayouts'
    BY PastStays DEF IInv, KeepsWholeLayouts
  <2>3. PlacesOK'
    BY DEF IInv, PlacesOK
  <2>4. ClientHasTheCache'
    BY DEF IInv, ClientHasTheCache
  <2> QED BY <2>1, <2>2, <2>3, <2>4 DEF IInv
<1> QED BY <1>1, <1>2, <1>3, <1>4, <1>5 DEF Next

\* What holds of the cache whatever the device's generations are.
THEOREM InductiveInvariant == Spec => []IInv
<1> QED BY Initially, StepKeeps, PTL DEF Spec

THEOREM TypesHold == Spec => []TypeOK
<1>1. IInv => TypeOK
  BY DEF IInv
<1> QED BY <1>1, InductiveInvariant, PTL
-----------------------------------------------------------------------------
\* What a step does to the client.
LEMMA ClientSteps ==
    ASSUME IInv, [Next]_vars
    PROVE  \/ session' = None
           \/ UNCHANGED <<session, gen, partial>>
           \/ ValidationSucceeds
           \/ ScanCompletes
           \/ /\ UNCHANGED gen /\ partial'
              /\ \E k \in DOMAIN ChainOf[gen] :
                    session' = [chain |-> Prefix(ChainOf[gen], k), open |-> FALSE]
<1>1. ASSUME EndOfShortScan, UNCHANGED gen
      PROVE  \/ session' = None
             \/ /\ UNCHANGED gen /\ partial'
                /\ \E k \in DOMAIN ChainOf[gen] :
                      session' = [chain |-> Prefix(ChainOf[gen], k), open |-> FALSE]
  BY <1>1 DEF EndOfShortScan, CycleFails, RunEnds
<1>2. ASSUME ValidationFails \/ ScanStopsEarly
      PROVE  UNCHANGED <<session, gen, partial>> \/ (EndOfShortScan /\ UNCHANGED gen)
  BY <1>2 DEF ValidationFails, ScanStopsEarly, layoutVars
<1>3. ASSUME \/ RebuildFails \/ ConnectTimesOut \/ ListTooShort \/ OtherDevice \/ ReadFails
             \/ Restart \/ DeviceChanges
      PROVE  session' = None
  BY <1>3 DEF RebuildFails, ConnectTimesOut, ListTooShort, OtherDevice, ReadFails, Restart,
              DeviceChanges, CycleFails, RunEnds, layoutVars
<1>4. ASSUME \/ Setup \/ RebuildSucceeds \/ Adopt \/ ListModels \/ ReadCommon \/ CycleSucceeds
             \/ Save \/ UNCHANGED vars
      PROVE  UNCHANGED <<session, gen, partial>>
  BY <1>4 DEF Setup, RebuildSucceeds, Adopt, ListModels, ReadCommon, CycleSucceeds, Save,
              vars, layoutVars, deviceVars
<1>5. ASSUME StartCycle PROVE session' = None \/ UNCHANGED <<session, gen, partial>>
  BY <1>5 DEF StartCycle, deviceVars
<1> QED BY <1>1, <1>2, <1>3, <1>4, <1>5 DEF Next, Connect, Cycle

\* A client that the cache is restored for is what validation tells it to be.
LEMMA ValidatedIsSound ==
    ASSUME EndsTellLayouts, IInv, ValidationSucceeds
    PROVE  ClientIsSound'
<1>1. /\ session' = [chain |-> cache, open |-> ~EndMatches] /\ gen' = gen
      /\ HeadMatches /\ TailMatches /\ cache # None
  BY DEF ValidationSucceeds, IInv, PlacesOK
<1>2. PICK g \in Gen : cache = ChainOf[g]
  <2>1. cache \in PastChain /\ Past \subseteq Gen
    BY <1>1, PastIsGen DEF IInv, KeepsWholeLayouts, TypeOK
  <2> QED BY <2>1 DEF PastChain
<1>3. gen \in Gen
  BY DEF IInv, TypeOK
<1>4. FirstIdFound(g, gen) /\ LastHeaderFound(g, gen)
  BY <1>1, <1>2 DEF HeadMatches, TailMatches, HeaderAt, FirstIdFound, LastHeaderFound
<1>5. EndMatches => MarkerFound(g, gen)
  BY <1>2 DEF EndMatches, EndMarkerAt, MarkerFound
<1>6. /\ \E k \in DOMAIN ChainOf[gen] : cache = Prefix(ChainOf[gen], k)
      /\ EndMatches => cache = ChainOf[gen]
  BY <1>2, <1>3, <1>4, <1>5 DEF EndsTellLayouts
<1>7. session'.chain = cache /\ session'.open = ~EndMatches
  BY <1>1
<1> QED BY <1>1, <1>6, <1>7 DEF ClientIsSound, LiesOnTheDevice

LEMMA ClientStaysSound ==
    ASSUME EndsTellLayouts, IInv, ClientIsSound, [Next]_vars
    PROVE  ClientIsSound'
<1>1. CASE session' = None
  BY <1>1 DEF ClientIsSound
<1>2. CASE UNCHANGED <<session, gen, partial>>
  BY <1>2 DEF ClientIsSound, LiesOnTheDevice
<1>3. CASE ValidationSucceeds
  BY <1>3, ValidatedIsSound
<1>4. CASE ScanCompletes
  <2>1. session'.chain = ChainOf[gen] /\ gen' = gen
    BY <1>4 DEF ScanCompletes, deviceVars
  <2>2. \E k \in DOMAIN ChainOf[gen] : ChainOf[gen] = Prefix(ChainOf[gen], k)
    BY WholeLayouts DEF IInv, TypeOK
  <2> QED BY <2>1, <2>2 DEF ClientIsSound, LiesOnTheDevice
<1>5. ASSUME UNCHANGED gen, partial', NEW k \in DOMAIN ChainOf[gen],
             session' = [chain |-> Prefix(ChainOf[gen], k), open |-> FALSE]
      PROVE  ClientIsSound'
  <2>1. session'.chain = Prefix(ChainOf[gen], k)
    BY <1>5
  <2> QED BY <1>5, <2>1 DEF ClientIsSound, LiesOnTheDevice
<1> QED BY <1>1, <1>2, <1>3, <1>4, <1>5, ClientSteps

LEMMA ClientsAreSound == ASSUME EndsTellLayouts PROVE Spec => []ClientIsSound
<1>1. Init => ClientIsSound
  BY DEF Init, ClientIsSound
<1>2. IInv /\ ClientIsSound /\ [Next]_vars => ClientIsSound'
  BY ClientStaysSound
<1> QED BY <1>1, <1>2, InductiveInvariant, PTL DEF Spec

\* As long as the ends of a layout tell it from the device's others, no model is
\* read at an offset it does not have, whatever is updated, replaced, refused,
\* unanswered or restarted in between (_async_validate_model_structure).
THEOREM ModelsAreReadWhereTheyLie ==
    ASSUME EndsTellLayouts PROVE Spec => []ReadsAtRightOffsets
<1>1. ClientIsSound => ReadsAtRightOffsets
  BY DEF ClientIsSound, ReadsAtRightOffsets, Serving
<1> QED BY <1>1, ClientsAreSound, PTL

\* And a client that lacks a model knows it (last_scan_was_partial).
THEOREM TruncatedLayoutsAreKnown ==
    ASSUME EndsTellLayouts PROVE Spec => []CompleteUnlessKnownPartial
<1>1. IInv /\ ClientIsSound => CompleteUnlessKnownPartial
  BY DEF ClientIsSound, CompleteUnlessKnownPartial, Serving
<1> QED BY <1>1, ClientsAreSound, InductiveInvariant, PTL
-----------------------------------------------------------------------------
\* A run that ends leaves the store as it is or without a layout.
LEMMA EndKeepsIdentity ==
    ASSUME KeptUnderItsIdentity, RunEnds, gen' = gen, store' \in {store, None}
    PROVE  KeptUnderItsIdentity'
BY DEF KeptUnderItsIdentity, CurrentIdentityCurrentLayout, RunEnds

\* A failure after the first cycle keeps the identity, and the layout at most.
LEMMA FailureKeepsIdentity ==
    ASSUME IInv, KeptUnderItsIdentity, NEW rescanned \in BOOLEAN, CycleFails(rescanned),
           gen' = gen, store' = store
    PROVE  KeptUnderItsIdentity'
<1>1. CASE ~data
  BY <1>1, EndKeepsIdentity DEF CycleFails
<1>2. CASE data
  <2>1. UNCHANGED <<gen, store, info>> /\ cache' \in {cache, None}
    BY <1>2 DEF CycleFails, ReconnectNext
  <2>2. info # None /\ ~rescan
    BY <1>2 DEF IInv, PlacesOK
  <2> QED BY <2>1, <2>2 DEF KeptUnderItsIdentity, CurrentIdentityCurrentLayout
<1> QED BY <1>1, <1>2

\* Where nothing is read, kept or stored, nothing changes.
LEMMA RestKeepsIdentity ==
    ASSUME KeptUnderItsIdentity, UNCHANGED <<gen, store, cache, pid, info, rescan>>,
           pc' \notin {"off", "idle"} \/ pc' = pc
    PROVE  KeptUnderItsIdentity'
BY DEF KeptUnderItsIdentity, CurrentIdentityCurrentLayout

LEMMA ConnectKeepsIdentity ==
    ASSUME IInv, KeptUnderItsIdentity, Connect
    PROVE  KeptUnderItsIdentity'
<1>1. ASSUME EndOfShortScan, UNCHANGED <<gen, store>> PROVE KeptUnderItsIdentity'
  BY <1>1, FailureKeepsIdentity, RestKeepsIdentity DEF EndOfShortScan, identityVars
<1>2. ASSUME ValidationFails \/ ScanStopsEarly PROVE KeptUnderItsIdentity'
  BY <1>1, <1>2, RestKeepsIdentity DEF ValidationFails, ScanStopsEarly, layoutVars, identityVars
<1>3. ASSUME ValidationSucceeds \/ RebuildSucceeds \/ Adopt PROVE KeptUnderItsIdentity'
  BY <1>3, RestKeepsIdentity
     DEF ValidationSucceeds, RebuildSucceeds, Adopt, deviceVars, layoutVars, identityVars
<1>4. ASSUME RebuildFails PROVE KeptUnderItsIdentity'
  <2>1. CASE BeforeTheScan
    <3>1. cache' = None /\ UNCHANGED <<gen, store, info>>
      BY <1>4, <2>1 DEF RebuildFails, identityVars
    <3> QED BY <3>1 DEF KeptUnderItsIdentity, CurrentIdentityCurrentLayout
  <2>2. CASE ~BeforeTheScan
    BY <1>4, <2>2, FailureKeepsIdentity DEF RebuildFails
  <2> QED BY <2>1, <2>2
<1>5. ASSUME ScanCompletes PROVE KeptUnderItsIdentity'
  <2>1. cache' = ChainOf[gen] /\ pc' = "handOff" /\ UNCHANGED <<gen, store, info>>
    BY <1>5 DEF ScanCompletes, deviceVars, identityVars
  <2> QED BY <2>1 DEF KeptUnderItsIdentity, CurrentIdentityCurrentLayout
<1>6. ASSUME ConnectTimesOut PROVE KeptUnderItsIdentity'
  BY <1>6, FailureKeepsIdentity DEF ConnectTimesOut
<1> QED BY <1>2, <1>3, <1>4, <1>5, <1>6 DEF Connect

LEMMA CycleKeepsIdentity ==
    ASSUME IInv, KeptUnderItsIdentity, Cycle
    PROVE  KeptUnderItsIdentity'
<1>1. ASSUME ListTooShort \/ ReadFails PROVE KeptUnderItsIdentity'
  BY <1>1, FailureKeepsIdentity DEF ListTooShort, ReadFails, deviceVars
<1>2. ASSUME ListModels PROVE KeptUnderItsIdentity'
  BY <1>2, RestKeepsIdentity DEF ListModels, deviceVars, layoutVars, identityVars
<1>3. ASSUME ReadCommon PROVE KeptUnderItsIdentity'
  <2>1. /\ pc = "common" /\ info = None /\ info' = IdOf[gen] /\ IdOf[gen] # None
        /\ rescan' = (pid \notin {None, IdOf[gen]}) /\ UNCHANGED <<gen, store, cache>>
    BY <1>3, NoneIsNothing
       DEF ReadCommon, deviceVars, layoutVars, IInv, PlacesOK, TypeOK, Identity
  <2>2. store # None => store.id # None
    BY NoneIsNothing DEF IInv, TypeOK
  <2>3. cache # None /\ ~rescan' => cache = ChainOf[gen]
    BY <2>1, <2>2 DEF KeptUnderItsIdentity, CurrentIdentityCurrentLayout
  <2> QED BY <2>1, <2>3 DEF KeptUnderItsIdentity, CurrentIdentityCurrentLayout
<1>4. ASSUME OtherDevice PROVE KeptUnderItsIdentity'
  <2>1. gen' = gen /\ store' \in {store, None}
    BY <1>4 DEF OtherDevice
  <2> QED BY <1>4, <2>1, OtherDeviceEnds, EndKeepsIdentity
<1>5. ASSUME CycleSucceeds PROVE KeptUnderItsIdentity'
  <2>1. /\ UNCHANGED <<gen, store, info>> /\ info # None
        /\ cache' = None \/ (cache' = cache /\ ~rescan)
    BY <1>5 DEF CycleSucceeds, ReconnectNext, deviceVars, IInv, PlacesOK, TypeOK
  <2> QED BY <2>1 DEF KeptUnderItsIdentity, CurrentIdentityCurrentLayout
<1>6. ASSUME Save PROVE KeptUnderItsIdentity'
  <2>1. UNCHANGED <<gen, cache, info, rescan>> /\ info # None /\ ~rescan
    BY <1>6 DEF Save, IInv, PlacesOK
  <2>2. store' = store \/ (cache # None /\ store'.chain = cache /\ store'.id = info)
    BY <1>6 DEF Save
  <2> QED BY <2>1, <2>2 DEF KeptUnderItsIdentity, CurrentIdentityCurrentLayout
<1> QED BY <1>1, <1>2, <1>3, <1>4, <1>5, <1>6 DEF Cycle

LEMMA StepKeepsIdentity ==
    ASSUME IdentitiesDiffer, IInv, KeptUnderItsIdentity, [Next]_vars
    PROVE  KeptUnderItsIdentity'
<1>1. ASSUME Setup PROVE KeptUnderItsIdentity'
  <2>1. /\ UNCHANGED <<gen, store, info>> /\ info = None /\ cache = None
        /\ \/ store # None /\ cache' = store.chain /\ pid' = store.id
           \/ cache' = None
    BY <1>1 DEF Setup, IInv, PlacesOK
  <2>2. IdOf[gen] # None
    BY NoneIsNothing DEF IInv, TypeOK, Identity
  <2> QED BY <2>1, <2>2 DEF KeptUnderItsIdentity, CurrentIdentityCurrentLayout
<1>2. ASSUME StartCycle PROVE KeptUnderItsIdentity'
  BY <1>2, RestKeepsIdentity DEF StartCycle, deviceVars, identityVars
<1>3. ASSUME Restart PROVE KeptUnderItsIdentity'
  BY <1>3, EndKeepsIdentity DEF Restart
<1>4. ASSUME DeviceChanges PROVE KeptUnderItsIdentity'
  <2>1. /\ gen \in Gen /\ gen' \in Gen /\ gen' > gen /\ pc \in {"off", "idle"}
        /\ UNCHANGED <<store, pc, cache, pid, info, rescan>>
    BY <1>4 DEF DeviceChanges, layoutVars, identityVars, IInv, TypeOK
  <2>2. ASSUME NEW g \in Past PROVE IdOf[g] # IdOf[gen']
    BY <2>1, <2>2, PastIsGen DEF IdentitiesDiffer, Past, Gen
  <2>3. store # None => store.id # IdOf[gen']
    BY <2>2 DEF IInv, KeepsWholeLayouts
  <2>4. info # None => info # IdOf[gen']
    BY <2>2 DEF IInv, KeepsWholeLayouts
  <2>5. IdOf[gen'] # None
    BY <2>1, NoneIsNothing DEF Identity
  <2> QED BY <2>1, <2>3, <2>4, <2>5 DEF KeptUnderItsIdentity, CurrentIdentityCurrentLayout
<1>5. CASE UNCHANGED vars
  BY <1>5, RestKeepsIdentity DEF vars, deviceVars, layoutVars, identityVars
<1> QED BY <1>1, <1>2, <1>3, <1>4, <1>5, ConnectKeepsIdentity, CycleKeepsIdentity DEF Next

\* As long as every change of the device shows in model 1, what is stored under
\* its identity is its layout, whatever fails and whenever Home Assistant starts
\* again (_check_device_identity, _async_save_model_structure).
THEOREM StoreGoesByTheIdentity ==
    ASSUME IdentitiesDiffer PROVE Spec => []CurrentIdentityCurrentLayout
<1>1. Init => KeptUnderItsIdentity
  BY DEF Init, KeptUnderItsIdentity, CurrentIdentityCurrentLayout
<1>2. IInv /\ KeptUnderItsIdentity /\ [Next]_vars => KeptUnderItsIdentity'
  BY StepKeepsIdentity
<1>3. KeptUnderItsIdentity => CurrentIdentityCurrentLayout
  BY DEF KeptUnderItsIdentity
<1> QED BY <1>1, <1>2, <1>3, InductiveInvariant, PTL DEF Spec
-----------------------------------------------------------------------------
\* What a step does to the list of models and to the layout that is kept.
LEMMA ListSteps ==
    ASSUME IInv, [Next]_vars
    PROVE  \/ RunEnds
           \/ ListModels
           \/ ScanCompletes
           \/ DeviceChanges
           \/ Setup
           \/ detected' = detected /\ partial'
           \/ /\ UNCHANGED <<detected, gen, partial>>
              /\ cache' \in {cache, None}
<1> DEFINE Nothing == UNCHANGED <<detected, gen, partial>> /\ cache' \in {cache, None}
<1>1. ASSUME NEW rescanned \in BOOLEAN, CycleFails(rescanned), gen' = gen
      PROVE  RunEnds \/ Nothing
  BY <1>1 DEF CycleFails, ReconnectNext, modelVars
<1>2. ASSUME EndOfShortScan, gen' = gen
      PROVE  RunEnds \/ Nothing \/ (detected' = detected /\ partial')
  BY <1>1, <1>2 DEF EndOfShortScan, modelVars
<1>3. ASSUME ValidationFails \/ ScanStopsEarly
      PROVE  RunEnds \/ Nothing \/ (detected' = detected /\ partial')
  BY <1>2, <1>3 DEF ValidationFails, ScanStopsEarly, layoutVars, modelVars
<1>4. ASSUME RebuildFails \/ ConnectTimesOut \/ ListTooShort \/ ReadFails \/ OtherDevice \/ Restart
      PROVE  RunEnds \/ Nothing
  <2>1. CASE RebuildFails
    BY <1>1, <2>1 DEF RebuildFails, modelVars
  <2>2. CASE ConnectTimesOut \/ ListTooShort \/ ReadFails
    BY <1>1, <2>2 DEF ConnectTimesOut, ListTooShort, ReadFails, deviceVars
  <2>3. CASE OtherDevice
    BY <2>3, OtherDeviceEnds
  <2>4. CASE Restart
    BY <2>4 DEF Restart
  <2> QED BY <1>4, <2>1, <2>2, <2>3, <2>4
<1>5. ASSUME \/ StartCycle \/ ValidationSucceeds \/ RebuildSucceeds \/ Adopt \/ ReadCommon
             \/ Save \/ UNCHANGED vars
      PROVE  Nothing
  BY <1>5 DEF StartCycle, ValidationSucceeds, RebuildSucceeds, Adopt, ReadCommon, Save,
              vars, deviceVars, layoutVars, modelVars
<1>6. ASSUME CycleSucceeds PROVE Nothing
  BY <1>6 DEF CycleSucceeds, ReconnectNext, deviceVars
<1> QED BY <1>3, <1>4, <1>5, <1>6 DEF Next, Connect, Cycle

\* A list that comes from no short scan is that of the layout that is kept.
LEMMA ListedIsKept ==
    ASSUME IInv, ListModels, ~partial
    PROVE  cache # None /\ session.chain = cache
BY DEF IInv, ListModels, PlacesOK, ClientHasTheCache

LEMMA StepKeepsTheList ==
    ASSUME ModelsDoNotComeBack, IInv, KeepsWhatIsListed, [Next]_vars
    PROVE  KeepsWhatIsListed'
<1>1. CASE RunEnds
  BY <1>1 DEF RunEnds, KeepsWhatIsListed
<1>2. CASE ListModels
  <2>1. UNCHANGED <<gen, cache, partial>> /\ detected' = Ids(session.chain)
    BY <1>2 DEF ListModels, deviceVars, layoutVars
  <2>2. ~partial => detected' = Ids(cache)
    BY <1>2, <2>1, ListedIsKept
  <2> QED BY <2>1, <2>2 DEF KeepsWhatIsListed
<1>3. CASE ScanCompletes
  <2>1. UNCHANGED <<gen, detected>> /\ cache' = ChainOf[gen]
    BY <1>3 DEF ScanCompletes, deviceVars, modelVars
  <2>2. gen \in Gen /\ Past \subseteq Gen /\ detected \subseteq PastModels
    BY PastIsGen DEF IInv, TypeOK, KeepsWholeLayouts
  <2>3. ASSUME NEW g \in Gen, g >= gen, NEW id \in detected, id \in Ids(ChainOf[g])
        PROVE  id \in Ids(ChainOf[gen])
    <3>1. PICK h \in Past : id \in Ids(ChainOf[h])
      BY <2>2 DEF PastModels
    <3>2. h \in Gen /\ h <= gen /\ gen <= g
      BY <2>2, <2>3, <3>1 DEF Past, Gen
    <3> QED BY <2>2, <2>3, <3>1, <3>2 DEF ModelsDoNotComeBack
  <2> QED BY <2>1, <2>3 DEF KeepsWhatIsListed
<1>4. CASE DeviceChanges
  <2>1. UNCHANGED <<detected, partial, cache>> /\ gen \in Gen /\ gen' \in Gen /\ gen' > gen
    BY <1>4 DEF DeviceChanges, layoutVars, modelVars, IInv, TypeOK
  <2>2. \A g \in Gen : g >= gen' => g >= gen
    BY <2>1 DEF Gen
  <2> QED BY <2>1, <2>2 DEF KeepsWhatIsListed
<1>5. CASE Setup
  <2>1. detected' = {}
    BY <1>5 DEF Setup, modelVars, IInv, PlacesOK
  <2> QED BY <2>1 DEF KeepsWhatIsListed
<1>6. CASE detected' = detected /\ partial'
  BY <1>6 DEF KeepsWhatIsListed
<1>7. CASE UNCHANGED <<detected, gen, partial>> /\ cache' \in {cache, None}
  BY <1>7 DEF KeepsWhatIsListed
<1> QED BY <1>1, <1>2, <1>3, <1>4, <1>5, <1>6, <1>7, ListSteps

\* As long as no model comes back that an update took away, a run never takes a
\* model off its list that the device still has: a list that lacks one comes
\* from a short scan, and that fails the cycle (_run_one_update_cycle, #42).
THEOREM NoModelIsLostWhileThere ==
    ASSUME ModelsDoNotComeBack PROVE Spec => NoModelLostWhileThere
<1>1. Init => KeepsWhatIsListed
  BY DEF Init, KeepsWhatIsListed
<1>2. IInv /\ KeepsWhatIsListed /\ [Next]_vars => KeepsWhatIsListed'
  BY StepKeepsTheList
<1>3. ASSUME IInv, KeepsWhatIsListed, [Next]_vars
      PROVE  pc' # "off" => detected \cap Ids(ChainOf[gen]) \subseteq detected'
  <2>1. CASE RunEnds
    BY <2>1 DEF RunEnds
  <2>2. CASE ListModels
    <3>1. detected' = Ids(session.chain) /\ gen \in Gen /\ gen >= gen
      BY <1>3, <2>2 DEF ListModels, IInv, TypeOK, Gen
    <3>2. CASE partial
      BY <2>2, <3>1, <3>2 DEF ListModels
    <3>3. CASE ~partial
      BY <1>3, <2>2, <3>1, <3>3, ListedIsKept DEF KeepsWhatIsListed
    <3> QED BY <3>2, <3>3
  <2>3. CASE ScanCompletes \/ DeviceChanges \/ Setup
    BY <2>3 DEF ScanCompletes, DeviceChanges, Setup, modelVars
  <2> QED BY <1>3, <2>1, <2>2, <2>3, ListSteps
<1> QED BY <1>1, <1>2, <1>3, InductiveInvariant, PTL DEF Spec, NoModelLostWhileThere
=============================================================================
