# Verification of ha-sunspec2

TLA+ models of the Home Assistant integration in
`src/custom_components/sunspec2`, the TLC runs that check them on small
instances, and theorems about them that TLAPS proves for every value of the
constants. Paths below are relative to `src/custom_components/sunspec2` unless
they begin with `src/`.

To check a run: `tlc -config <cfg> <module>`; to check proofs: `tlapm` on each of
the eight `*Proofs.tla`. `PROJECT.json` lists the runs, the mutants that show
that every property can fail, the lines each definition stands for, the hazards
and the theorems.

## 1. The system

The integration polls SunSpec inverters over Modbus and lets the user control
them. Everything runs in one asyncio event loop: what stands between two
`await`s runs undisturbed, and everything may change across one.

| component | code | state | operations |
|---|---|---|---|
| Gateway lock, rest and session | `__init__.py`, `api.py`, `connection.py` | the lock and the rest of each (host, port), the shared link, each entry's client and its reconnect flag | poll with one in-cycle retry, write transaction, unload |
| Model layout cache, identity | `__init__.py`, `api.py`, `pysunspec2/modbus/client.py` | cached layout, its revision, the store file, the persisted and the read identity, detected and missing models | scan, validate, rebuild, capture, save, load, identity check |
| Failure counters, availability, Repairs | `__init__.py`, `entity.py`, `errors.py` | counters per category, failed cycles in a row, last operating state, missing-since stamps, issues | record an error, count a failed cycle, success, unload, setup |
| Shared connection, request timeouts | `connection.py` | which holder asked for which timeout | require, withdraw, disconnect |
| Raw register blocks | `raw_blocks.py`, `vendor_blocks.py` | per block: back-off, misses, last reading; keep-alive values; a write counter | read once per cycle, write, rewrite every so often, restore |
| Write plans and write controls | `vendors/profile.py`, `write_controls.py`, `number.py`, `switch.py`, `select.py` | none of their own | one write or three: enable off, values, enable on |
| Battery plan | `battery_plan.py`, `battery_plan_services.py` | settings, planned power, refresh timer, who owns the revert timer, stopped | start and end of the window, apply, reach the target, hand back, resume |
| Storage modes, FranklinWH | `storage_modes.py`, `franklinwh_controls.py` | setpoints | a mode as two writes, a power as one transaction with read-back |
| Lifetime energy | `lifetime_energy.py` | a ledger: base, last value and day, a held-back reading, outage | take one reading of a counter that restarts daily |
| Sensor filters | `sensor.py` | last good value, rejections in a row | take or reject a reading |
| Fronius web interface | `fronius_web.py`, `fronius_web_entities.py` | token, nonce count, last data | poll, login, read-patch-write of flags |
| Vendor profiles | `vendors/` | tables | none |
| Config flow, discovery | `config_flow.py`, `discovery.py`, `__init__.py` | each dialog's place, probe and unique id; the entries and what they run with | setup, DHCP, scan, reconfigure and options dialogs, setup and reload of an entry |
| Migration | `migration.py` | the entity registry | one pass |
| SunSpec decoding | `pysunspec2/`, `models.py` | none | decode registers |
| Diagnostics, logging | `diagnostics.py`, `logger.py`, `model_labels.py` | none | format |

How they interact: every Modbus request of every entry behind one (host, port)
goes over one link and under one class-level `asyncio.Lock`. A poll holds the
lock for a whole cycle (connect, list the models, model 1 once, the nameplate
once, the polled models, the raw blocks), a write for a whole plan. The
battery plan, the storage modes and the keep-alive switches write through the
same transaction and ask for a refresh afterwards. The outcome of a cycle goes
to the counters, from there to the entities' availability and the Repairs
issues. A successful cycle may save the layout the next run of Home Assistant
starts from.

What is hard: polls, retries, writes and unloads of several entries interleave
at every `await`; a gateway with a collection round must be left alone after a
request it did not answer, whoever asks; an unload takes no lock; a layout can
go stale while Home Assistant is off, between two sessions, or be cut short by
a device that refuses a block; a save can be lost and a setup retried for
ever; an issue is raised, ignored, cleared and raised again over days; steps of
a control sequence fail half way.

Correct means, per component:

- gateway: one conversation at a time, none in the rest, the lock never left
  taken, a failed session never handed on, nobody's link cut by a poll or a
  write of another, and everything that begins ends;
- layout: models are read where the device has them, a truncated layout is
  known as such and never kept, a stale one is found out, a replaced device is
  served in the end;
- health: entities are available exactly as long as the tolerance says, an
  issue stands for failures that happened, announced standby is no fault, an
  ignored issue stays ignored, nothing is left behind;
- raw blocks: a block never shows a value older than promised, is shown again
  when it answers again, and a command the device forgets is written again;
- write plans: what was asked for last is in force once its writes have
  succeeded, and a plan that fails half way leaves no old value in force;
- battery plan: what is in force was planned from the settings as they are, the
  rate does not lapse while the plan is on, and the battery is never left in a
  forced mode for good;
- ledger: the lifetime sum never falls, loses no finished day and books none
  twice, a stray is not booked, and energy produced today books no more than it;
- sensor filter: the statistics book no more than was made, only outliers are
  held back, and the sensor comes back to the counter in the end;
- web interface: grid charging is never on without AC charging, and a switch
  does not go on showing what was;
- dialogs: one entry per inverter, no session left open, no history moved onto
  another inverter, and a change of an entry reaches what runs.

## 2. Plan

Done, in this order, the one every other component leans on first:

1. `Gateway`, with the abstract `ExclusiveGateway` and the proofs;
2. `LayoutCache`;
3. `PollHealth`;
4. `DailyCounter`: the ledger as a state machine next to the true counter, with
   the proofs;
5. `BatteryPlan` over `StorageModes`: the planner's coroutines, timers and lock
   next to the device, its revert timer and the user;
6. `VendorBlocks` over `VendorProfiles`: probes, gates, controls and keep-alive;
7. `WriteControls`: write plans, the entities, the service, the dispatch;
8. `EnergyFilter`, `EntryFlows`, `FroniusWeb`.

`BatteryPlan`, `VendorBlocks` and `WriteControls` see the gateway as what
`Gateway` shows it to be: a lock under which one write or one plan runs
undisturbed, and may fail.

Every safety property of a passing run is proved (section 6), some under a
hypothesis; what is left to TLC is liveness. Not modelled yet is who asked for
which timeout of the shared link. The modules are written for proofs:
assumptions are named, invariants are conjunctions of named parts, and no module
has a RECURSIVE operator. Two modules of proofs are each about two components:
`BatteryPlan` and `FroniusWeb` therefore prefix the names that every component
has (`PlanInit`, `PlanNext`, `WebInit`, `WebTypeOK` and so on).

## 3. Modules and the code

### Gateway, GatewayProperties, ExclusiveGateway

State and code:

- `pc`, `attempt`, `left`, `req`, `wire`, `again`, `err` are where a running
  `_async_update_data` or `async_write_transaction` is: waiting for the lock,
  in its hold, closing a failed session, sleeping before the retry; and, inside
  a hold, the API call and the request it is in;
- `holder`, `ahead` are the `asyncio.Lock` of `_GATEWAY_LOCKS` and its queue
  (external: first come, first served);
- `rest` is `_GATEWAY_RESTS`; `link`, `client`, `reconnect` are the shared
  connection and each API client's `_client` and `_reconnect`;
- `info`, `probed`, `data`, `shut` are `device_info`, `_nameplate_probed`,
  `data` and the shutdown of a coordinator;
- `owed` is external: the gateway still works on a request that it left
  unanswered.

One step is what the event loop runs between two suspensions. So the release of
the lock by a failed poll and the start of the rest are one step: no `await`
stands between them (`_async_update_data`, `_after_failed_cycle`). An element
of `Entry` is one coordinator from setup to unload; a reload is another
element. A retried setup keeps its element and starts over (`CloseAndFail`).

The details that are abstracted: which models a cycle reads (`Reads` of them),
what a plan writes (`Steps` steps), what a raw block holds, how long a rest is
(it ends at some time, but not while a failed session is being closed: a minute
at least against an instant). A connect with its scan or validation is one
request. A profile's higher request timeout, whose introduction drops the link
(`async_require_timeout`), is to the others a link that is lost.

`ExclusiveGateway` is the abstract specification: what the gateway sees of all
that. The refinement maps its talker to the holder of the lock while it runs
and its `quiet` to the rest.

### LayoutCache, LayoutCacheProperties

A chain is a sequence of blocks, each an id and a length. The device goes
through `Generations`, each with a chain and an identity. The state is the
API client's (`_model_structure`, `_reconnect`, `_partial_scan`, the revision
as `unsaved`), the coordinator's (`_persisted_identity`, `device_info`,
`detected_models`, `_missing_this_cycle`, `_model_missing_since`), the store
file, and the place in setup, connect or cycle. `session` is the live client
with the chain it was built from; `open` says that the read of the end marker
was refused. Validation is modelled by what it reads: `HeadMatches`,
`TailMatches`, `EndMatches` compare addresses computed from the lengths.

The device changes only while no session is open (it is off for an update).
The in-cycle retry is one more cycle. A register inside a block never looks
like a header. `None` is no chain, no identity and no client (`NoneIsNothing`).
`silent`, `known` and the generations are there for the properties and the
environment, not in the code. A link that reopens under a
live client is not validated again by the code; the device is taken not to
change behind such a reopening.

### PollHealth, PollHealthProperties

The state is the coordinator's counters, its sets and stamps of models, what
Home Assistant last drew of the entities (`shown`), Home Assistant's
`last_update_success` and its issue registry. One poll is under way at a time
(a second one waits for the lock of `Gateway`). The clock appears as
`StampAges`: a stamp becomes older than `STALE_MODEL_TOLERANCE_SECONDS`. The
user ignores an issue at any time. During an unload, `async_unload_entry` is
suspended in the close of the connection, and a poll that already has its
answers may end there.

### DailyCounter, DailyCounterProperties

`ledger` is a `DailyCounterLedger` with its fields, `stored` its stored form,
`data` what the coordinator holds of the point and the power. Every branch of
`record` and `_take` is an operator from ledger to ledger, in the order of the
code; `Poll`, `PollFails` and `Restore` are the three calls of
`_LedgerFed._record`. Values are numbers, days are numbers of days, and `None`
is -1.

The other half is external: the inverter whose counter starts again on its
first report of a day (`Wake`) and runs on (`Produce`), and the ECU, which
serves one reading for a round and now and then a stray (`Serve`). What is
assumed of them:

- a tick is longer than `CONFIRM_SECONDS`, so one tick is one ECU round, and
  longer than the 15 minutes in which Home Assistant writes stored forms. So a
  crash forgets at most what was recorded since the round began;
- polls come at any time or not at all, and any of them may fail: an outage is
  a number of rounds without one;
- a stray lasts one round and there are at most `Strays` of them; the first
  reading of all is true. Without `Jumps`, a stray is a fall or more than
  `MAX_DAILY_WH`;
- by noon the inverter has reported (the code says so of any day with
  production; days without any are left out). Without `Clouds`, the power is
  not low between the first energy of a day and noon. The first tick lies before
  noon (`StartsInTheMorning`): the inverter has not reported yet.

`Jumps` and `Clouds` are what two of the further instances of section 4 turn on.
Not modelled: a stored form of another revision or of a release that kept no
`pending_at`, readings that are negative or not numbers, a point that is not
there (`_record` returns), and a midnight sun. A point that reads `None` is the
0 that `_record` makes of it. The second sensor, energy produced today, keeps a
ledger of its own that is fed the same readings; one ledger stands for both.

`told` in `DailyCounterProperties` is a history variable: what true readings
told the ledger of the counters so far. `ToldSpec` adds it to `Spec`.

### BatteryPlan, BatteryPlanProperties, StorageModes

`StorageModes` holds the recipes of `vendors/fronius.py`, the rates they take
and `infer_mode`, which reads the mode back from the registers, as operators.

`BatteryPlan` is one `BatteryPlanner` with its entities. `set`, `enabled` and
`stopped` are its settings, its switch and its stop; `plan` its fields (power
planned, refresh timer, who owns the revert timer and what it held, settings
changed, startup timer); `task` is where each coroutine stands (`resume`,
`start`, `end`, `disable`, the stop at the target, the refresh), and `busy` who
has `_update_lock`. `dev` is the device with its registers and its revert
timer, `read` what the last poll read of it, `clock` the time of day. A write
is a step of its own that may fail; a mode is two (`WriteRates`, `WriteMode`).
The user selects modes and sets powers past the plan (`SelectMode`, `SetPower`).

External are `Lapses` and `Aged` (after its revert time the device drops the
rate) and `Flows` (the battery fills and empties). Assumed: a tick is much
longer than a write; the device has a revert timer and may clamp what is
written to it (`DeviceRevert`); the queue of `_update_lock` is any order, which
is more than first come, first served; a crash kills every coroutine, an unload
kills the task of the poll and the new setup waits for the rest; the first
refresh of a setup succeeds. Percent and watts are one unit. What the web
interface is asked when a mode charges from the grid is swallowed by the code
and left out. A new window sets the window's triggers anew only if it moves, the
service always.

### VendorBlocks, VendorBlocksProperties, VendorProfiles

`VendorProfiles` holds what the behaviour depends on of the raw blocks of three
vendors: which block gates which, which belongs to a device of its own, which
cannot be read, which fields the keep-alive switch writes and when. A device of
its own needs the block with its identity and the one it requires (`needs`).

`probe` is the `_Probe` of each block, `shown` the result of the last cycle,
`sensors` the blocks whose entities are built, `setpoints` what Home Assistant
last wrote, `on` the keep-alive switch; `queue` holds the writes that wait for
the lock, each with what its coroutine has still to write, and `settling` the
rewrites that let the device settle before their next field. `regs`, `serves`
and `positive` are the device. A cycle is a poll that reaches the blocks. The
timer waits for no earlier run: where the interval is shorter than the wait for
the lock, rewrites overlap; `Rewrites` bounds how many. Two fields stand for
all. Left out: the write counter, the
read-modify-write of the kept site limit bits (`_keep_site_limit_bits`; it goes
by the last poll), and the reload of an entry with a write under way.

### WriteControls, WriteControlsProperties

`ActiveSpecs` and `ExportLimitPoints` translate the tables of
`write_controls.py`. `PlanWrite` is `plan_write`: the sequence of steps for a
value, an enable, or both, on a device with an enable edge (Fronius) or
without. The edge is that of a device whose owner has the cycle switched on
(`CONF_REARM_ON_CHANGE`, the default where the device needs it); switched off,
the plan is the one without an edge, and a device that would need it is left
out. A batch leaves in frames of adjacent points, and a failure may let only
the first arrive (`FirstFrame`): the value of model 123, the flag of a
FranklinWH. `queue` is the gateway's lock with the writes and the poll in it,
`turn` what holds it with the steps it has left, `seen` the enable as the last
poll read it. `dev` is the device: register, enable, and `force`, the value it
really runs on: one with an edge takes a value only when the enable goes on.
`franklin` is the dispatch of `franklinwh_controls.py`: read, write, verify in
one hold, with the flag read under the lock. `wanted` and `lost` are history:
what the user asked for last, and that a write failed since. `stale` says that
a plan went by a flag the device no longer had. The ratings are constant;
`WSetMod` is left out. "Nothing in force" and "point left alone" are numbers that
no value takes (`MarkersAreNoValues`).

### EnergyFilter, EnergyFilterProperties

`Evaluated` is what evaluating `native_value` makes of the sensor, `Returned`
what it returns; `Updated` evaluates when the coordinator tells its listeners.
`Booked` is Home Assistant's statistics of a `total_increasing` sensor. The
inverter makes energy and updates its register now and then (`Makes`), may be
replaced (`Replace`) and be misread, a thousand times too small or far too
large. `disk` is the restore state, which Home Assistant writes every quarter
of an hour and when it stops (`Dump`, `Stop`), and whose age a new start takes
for the time since the last move; `changed` is what that age comes from,
`last_changed` of the state. `Start` is the setup with its first good poll. The
peak power may become known at any poll.

`late`, of a window or of the state, is history: when the window began, the
counter was further ahead of the known value than the safety factor makes up for.
A register that updates rarely, failed polls and restarts all lead there.

Assumed: at most `Misreads` polls in a row are misread, none as a baseline and
none while a true reading is held; no crash forgets that a replacement was accepted just before. With
`RereadsHeld` a value that is held may be evaluated again; in the passing run it
is not (section 7).

### EntryFlows, EntryFlowsProperties

`flow` is a dialog: its kind, step, form data, open probe, unique id, and
whether Home Assistant has removed it (`gone`) while its last step still runs.
`entry` is what entries hold, `run` what runs of each, `reload` the reloads
the update listener asked for; `held` is the coordinator an options dialog goes
by, the one of its start: that of the entry as it runs, or one that a reload has
since replaced, with its last poll good or bad. `at` is which inverter answers at a place, and
a place is a host, port and unit id or a serial port. `Identified` is
`async_set_unique_id` with `_abort_if_unique_id_configured` (external: the
dialog ends when another in progress has the id). A serial number is no place
(`SerialsAreNoPlaces`): `_get_unique_id` falls back to host, port and unit id
with colons between them, which no serial number looks like.

The places and inverters change at any time. Initially some entries are set up
and run. The two reloads that a change of data and one of options ask for are
one. A platform may fail to unload (`UnloadFails`): the entry keeps its data and
its coordinator, and Home Assistant refuses its reloads until it is restarted,
which is left out. Reads after a successful probe (nameplate, models) and the migration
guard of the setup are left out, and so is the deletion of an entry.
`CancelWhileClosing` lets a reconfigure dialog be closed while its previous
probe is being closed; it is FALSE in the passing run (section 7).

### FroniusWeb, FroniusWebProperties

`device` is the inverter's battery flags and Modbus setup, `login` whether the
stored login is valid, `data` what the coordinator last read, `poll` a refresh
under way with the part it has got, `press` a caller's request, `cooling` the
debouncer of Home Assistant's coordinator (external: a request during a poll is
dropped, one in its cool-down deferred, a refresh cancels the timer). A
request to the inverter is one step, accepted if the login is valid: the
digest, its nonce and the renewal of the token are not modelled. A request may
be carried out and its answer be lost. Reads that no switch shows only take
time.

## 4. Runs

| run | question | bounds |
|---|---|---|
| `gateway_two` | all properties of `Gateway`, the refinement, and that everything ends | two entries, a poll each, a write plan of two steps and the unload of the first; one model per cycle |
| `layout_updates` | the layout cache through updates and a replacement | four generations, five faults anywhere (a failed request or save, a restart) |
| `health_outage` | availability and issues through outages | seven failed cycles, the real tolerance of 5 and thresholds of 3, one optional model |
| `daily_days` | is anything lost, booked twice or taken back? | twelve ticks with two mornings, days of 8 ticks, at most one unit a tick, one stray, one restart |
| `battery_windows` | do settings take effect, does the rate stay in force, is the battery let go? | a day of 3 ticks, a window over midnight and one of a full day, two events (a failed write or read, a crash, a stop, a change by the user) |
| `blocks` | are readings recent, do blocks come back, are commands kept? | three vendors, one gate, the real retry of 3, a back-off of 3 cycles for 120, two rewrites at a time, three events |
| `controls` | is what was asked for in force, and nothing old? | three kinds of device, all three sets of models, four values, three waiting writes, four events |
| `energy_filter` | what reaches the statistics, what is held back, does the sensor come back? | the real factor of 2 and count of 3, two units made by each inverter, two misreads in a row, one stop, one replacement |
| `flows` | which entries are there, what runs, what is left open? | two places, an inverter with a serial number and one without, two entries, two dialogs, three events |
| `web` | what do the switches do and show? | two callers, two setups, four events |
| `controls_off` | is a limit that was switched off left off? No | as `controls` |
| `energy_reread` | does it take three polls to accept a fall? No | as `energy_filter`, with four units and values evaluated again |

Further instances, each of which shows one disagreement of section 7. They are
violated, and to be run by hand. Where the configuration is that of a passing
run, replace its properties by the one named here, and `FairSpec` by `Spec`
(`PlanFairSpec` by `PlanSpec`, `WebFairSpec` by `WebSpec`)
where the property is not a liveness property:

| configuration | module | property |
|---|---|---|
| `MCGateway_rest.cfg` | `MCGateway` | `QuietAfterUnanswered` |
| `MCLayoutCache_silence.cfg` | `MCLayoutCache` | `NoScanAfterSilence` |
| the same | `MCLayoutCache` | `VanishedIsTimed` in its place |
| `MCLayoutCache_updates.cfg` | `MCLayoutCache` | `ShortListScannedAgain` (with `FairSpec`) |
| `MCPollHealth_outage.cfg` | `MCPollHealth` | `NothingLeftBehind` |
| `MCDailyCounter_jumps.cfg` | `MCDailyCounter` | `HighReadingNeverSticks` |
| `MCDailyCounter_days.cfg`, with `Yesterday = {4}`, `Clouds = TRUE`, `Strays = 0`, `Restarts = 0` | `MCDailyCounter` | `LastIsBookedOnce` |
| `MCBatteryPlan_windows.cfg` | `MCBatteryPlan` | `ForcedModeIsWatched` |
| the same | `MCBatteryPlan` | `PlanKeepsToItsWindow` |
| the same, with `FactoryRevert = 0` | `MCBatteryPlan` | `RateStaysInForce` |
| `MCVendorBlocks_blocks.cfg` | `MCVendorBlocks` | `LastWriteStands` |
| `MCEntryFlows_flows.cfg`, with `CancelWhileClosing = TRUE` | `MCEntryFlows` | `NoProbeLeftOpen` |
| `MCEnergyFilter_slow.cfg` | `MCEnergyFilter` | `SlowCountersAreTaken` |
| `MCFroniusWeb_web.cfg` | `MCFroniusWeb` | `ControlLeavesTheSetup` |

Each module has a type invariant `TypeOK` (`PlanTypeOK`, `WebTypeOK`). It holds in
every passing run and is left out of their configurations because the other
properties fail first when something is wrong; for all components but
`DailyCounter` and `VendorBlocks` it is proved.

Why the bounds are enough. Two entries are all a conflict over the link takes;
`e1` has a collection round, a raw block and a stored identity, `e2` none of
them, so both kinds of entry meet, and a plan of two steps has a middle. What
section 6 proves does not depend on any bound; the bounds matter for liveness
and for what the hypotheses of section 6 leave out. For the layout, each way a
cached layout can go wrong takes at most two faults (a partial scan and a
restart, a lost save and an update), and five leave room for two such ways one
after the other; the generations differ in the middle, behind the end, and in an
id only. For the health, `Failures` exceeds the tolerance by two, which is the
cycle that changes the availability and one more. For the ledger, `Confirm` = 1,
`Settled` = 2 and `Outage` = 3 ticks keep the order of the real times, and a day
of 8 ticks with noon at 4 has room for an outage on either side of the counter's
restart. The share of 2/3 instead of 0.9 makes drops and dips of small numbers
differ; the step of 2 is more than a tick makes, as in the code, and less than
an outage makes. With two mornings a day can be booked twice and a held reading
can survive the counter it came from. One stray and one restart give every pair
of them with an outage; all but `BooksNoMoreThanMade` is proved for any number
of both.

The battery plan's ticks are the distances that matter: the two windows differ
in direction, target, start and length and one lies over midnight, the revert
timer is shorter than the longest window, and two events are a change or failure
and another in the middle of what the first began. For the blocks, three events
let a block vanish, come back and something fail in between; the back-off of 3
cycles is long enough to be told from the retry, and of two rewrites one can
write between the fields of the other. Of the controls, a value, its
flag, a failure and a poll between them take four events; the values lie below,
at, within and beyond the rating. Of the filter, the counters are far enough
apart that a misread, a replacement and a fall are told from each other, and the
time since a move is capped where the window covers all that can be made
(`WindowsAreLong`), and what is made lies below a ninth of what a counter shows
(section 6). Two
dialogs are a conflict over an inverter, and three events are both of them begun
and one more: a dialog closed, a probe lost or an inverter moved. Two callers and
four events cover a press of each switch, a lost answer and a change at the
inverter.

Every property of a passing run has a mutant: a variant of a definition, kept
next to it under a name of its own and marked as a variant or a bug, that makes
TLC find the property violated.

## 5. Fairness

`Gateway`: weak fairness of every task that has begun. A request is answered,
refused or ends in the transport's timeout, the sleep before a retry ends, and
the event loop runs what is ready. The lock needs no more than weak fairness
because its queue is first come, first served. Nothing is assumed of the
environment: nobody has to start a refresh, and the rest need not end.

`LayoutCache`: weak fairness of the setup attempt, the start of a cycle, the
connect and the cycle taken together. Home Assistant schedules the next poll
after each and retries a failed setup for ever. Faults are bounded by
`Faults`, so they stop; changes of the device by its generations. What the
property says is that after them no state of the store or the coordinator keeps
the entry from succeeding, but for the one that `ShortListScannedAgain` shows
(section 7).

`BatteryPlan`: weak fairness of every coroutine that runs, of the write of a
setpoint, of timers that are due and of polls; strong fairness of the clock,
which waits for all of these. Failures and crashes are bounded by `Events`.
`NotForcedForEver` does not need Home Assistant to come back: the device's own
timer runs.

`VendorBlocks`: weak fairness of polls, of the rewrite timer, of the end of its
settling and of writes at the head of the queue. `KeptAlive` asks the device to
serve the block for good, not to keep anything.

`EnergyFilter`: weak fairness of true polls and of the start of Home Assistant;
misreads in a row and stops are bounded.

`EntryFlows`: weak fairness of reloads and of setups, which Home Assistant tries
again for ever. Nobody has to finish a dialog.
`EventuallyCurrent` says nothing of an entry one of whose platforms failed to
unload.

`FroniusWeb`: weak fairness of the minute's interval and of a poll under way.
Nothing is assumed of presses, of deferred refreshes, or of the inverter.

`PollHealth` and `DailyCounter` state safety only, and `WriteControls` too.
Deadlock is not checked where time or the environment stops at a bound (`End`
of `DailyCounter`, `Events`, `MaxMade`): with nothing left to happen the system
may stop.

## 6. Proofs

There are eight modules of proofs. Each theorem holds for every value of the
constants that the named assumptions of the component's module allow; a further
hypothesis is part of the theorem and is explained below. None of the invariants
the runs check is inductive as it stands. The strengthening is `IInv` of the
component's `Properties` module (`Inv` and two more for the ledger); TLC has
checked each one on the instance of the component's run. In each module
`Initially` and one lemma per action, or per group of actions, show that the
invariant is kept, `StepKeeps...` puts them together, and `InductiveInvariant`
(`InvariantHolds` of the ledger) is the theorem the others follow from. Where a
module is about two components the names say which (`PlanInductiveInvariant`,
`WebInductiveInvariant`, `BlocksInductiveInvariant`). `TypesHold` is proved too,
but not of `VendorBlocks` (below) and the ledger, whose `Inv` has the types its
theorems need.

`GatewayProofs` proves, for all sets of entries, refreshes and writes, all
profiles and all lengths of a cycle or plan:

- `TypesHold`, `LockIsNeverLeaked`, `OneConversationAtATime`,
  `NothingSentInTheRest`: the state invariants of `gateway_two`;
- `RestBeginsUnderTheLock`, `FailedSessionIsDropped`, `OthersAreCutByUnloadsOnly`:
  the action properties `RestBeforeTheLockIsFree`, `FailedSessionDropped` and
  `OnlyAnUnloadCutsOthers`;
- `ImplementsExclusiveGateway`: the refinement.

They rest on the assumptions named in `Gateway`: nobody is not a task, polls
are not writes, every task has an entry, a cycle and a plan have something to
do. `QuietWhileResting` is kept only because nobody runs when the rest begins
(`NobodyRunsInTheRest`), and that because whoever starts a rest is in its own
hold (`LockNotLeaked`) and no longer runs. That a request is on the wire only in
a hold (`RequestsOfTheHold`) makes `OneConversation` follow from the lock.
`WriteRestsAtOnce` says that a write has started its rest before it closes the
session, which is what the refinement and the action property need of the step
that lets go of the lock. The two properties about sessions need `SessionInv`
on top (`SessionsCanBeClosed`): a request is made only with a client to close,
and a hold that went unanswered still has it when it ends, or a link on which no
answer is due.
`OnlyAnUnloadCutsOthers` follows from the lock: who else closes a
link is in its own hold, and nobody else has a request on the wire.

`LayoutCacheProofs` proves, for every sequence of layouts and identities:

- `ModelsAreReadWhereTheyLie` and `TruncatedLayoutsAreKnown`, if
  `EndsTellLayouts`: a layout of one generation whose first id and last header
  are found on another is the front of that one's layout, and all of it if the
  end marker is where it was. Validation reads nothing else. Without it the
  first property is false: the code cannot see two blocks that swap places
  (section 7), and TLC finds it violated for the generations `Reorders` of
  `MCLayoutCache`. That two layouts with a common front and the marker at one
  place are equal is arithmetic on the recursively defined `Addresses`, which is
  out of the provers' reach, so it is part of the hypothesis;
- `StoreGoesByTheIdentity`, if `IdentitiesDiffer`: what model 1 says differs from
  generation to generation. An update that changes the layout and not the
  firmware version would be stored under the old identity;
- `NoModelIsLostWhileThere`, if `ModelsDoNotComeBack`: no model is absent from one
  generation and present in an earlier and a later one. Without it the property
  is false, as TLC shows: after two updates, of which the second brings a model
  back, the layout between them can be restored, when the read of the end marker
  is refused, in a run that has listed the model before.

`MCLayoutCache` assumes in `UpdatesShow` that the generations of `layout_updates`
satisfy `EndsTellLayouts`, `IdentitiesDiffer` and `ModelsDoNotComeBack` and that
`Reorders` violate the first, so TLC evaluates that the hypotheses can hold and
can fail. `IInv` says that only complete layouts are kept
(`KeepsWholeLayouts`), what is there at which place of a connect and a cycle
(`PlacesOK`), and that a client that no short scan found has the layout that is
kept (`ClientHasTheCache`). On it build `ClientIsSound` (with `ValidatedIsSound`,
what validation tells of the layout it accepts), `KeptUnderItsIdentity` (before
model 1 is read, a layout in memory is the stored one under the stored identity
or was scanned in this run) and `KeepsWhatIsListed` (the layout kept has every
model the run has listed and will have again).

`CoordinatorProofs` is about `PollHealth` and `BatteryPlan`. Of `PollHealth` it
proves, for any optional models, tolerance, thresholds and
length of an outage, all five properties of `health_outage`: `OutageIsShownInTime`,
`ShownIssuesStandForFailures`, `AnnouncedStandbyIsNoFault`,
`StampGoesWithItsIssue`, `IgnoredIssueStaysIgnored`. `EntitiesTellTheOutage` needs
that the screen follows the tolerance during an unload too
(`ScreenFollowsTolerance`), and the issues of models that stamps exist only for
an entry with data (`StampsComeWithData`).

Of `BatteryPlan` it proves, for any day, windows, powers, timers, number of
failures and restarts:

- `PlanTypesHold`, with which coroutine holds `_update_lock` when;
- `SettingsAlwaysTakeEffect` (`SettingsTakeEffect`). `PlanIInv` says where each
  coroutine can stand (`PhasesOK`: a mode that is not automatic is written only by a
  plan that owns the revert timer), that what is planned and not applied is taken
  up by the next poll or is being handed back (`PlannedIsApplied`), and that, while
  nothing has failed, only a plan that owns the timer forces the battery, and one
  that is off is on its way to let go of it (`LetGo`). What a coroutine does once it
  has the lock is one of three things, and the lemmas go by them: it hands the battery
  back, it takes over with a new plan, or it ends. All of them keep the invariant
  whoever else waits;
- `RateIsWrittenInTime` (`RateStaysInForce`), if `TimersFit`. `KeptInTime` says that a
  plan which runs and about which nothing is under way has a refresh pending that
  comes before the longest timer it can get from the device has run out (`Armed`),
  and that the timer on the device, with the time it has run, either reaches the end
  of the window or is that longest one (`Lasts`). The second half carries it over a
  refresh: the plan writes the rest of the window again, which the device may
  clamp, and either the clamp is the longest timer or the rest of the window is
  covered. `seen`, which paces the refresh, may be a poll behind, so the invariant
  needs it of every timer the device has had, the factory one included: that is
  what `TimersFit` says. It holds of the GEN24 of the code's comments, whose timer
  of 300 s comes from the factory and is what it clamps to, with `MIN_REFRESH_SECONDS`
  and `REFRESH_FRACTION` as they are (270 s against 300 s), and of the timers of
  `battery_windows`. Without it the property is false (section 7).

`EntryFlowsProofs` proves, for any places, inverters, entries, dialogs and
events, `InvertersAreSetUpOnce`, `EntriesMoveWithTheirInverters`, and, unless
`CancelWhileClosing` (section 7), `ProbesAreClosed`. The invariant says of each
dialog by itself where its probes are at each step and that one which was removed
has left a task behind to close them (`Sound`), and next to the others that the
unique id a setup has identified belongs to no entry and to no other setup that
is under way (`Fits`): that is what makes `OneEntryPerUid` inductive.

`WriteControlsProofs` proves, for any values, rating, number of waiting writes
and failures, `CommandsComeIntoForce` and `OldValuesAreNotInForce`. The invariant
says what the value in force is at every step, also between two steps of a plan
(`RegisterInForce`), which steps a plan under way has left and what the device
holds at each (`UnderWay`), and that the registers hold what was asked for last
until the next write changes something (`Settled`).

`VendorProofs` is about `VendorBlocks` and `FroniusWeb`. It proves
`ReadingsStayRecent` for every vendor profile, retry, back-off and sequence of
failures: the reading a probe keeps is not older than its misses in a row
(`NoOlderThanItsMisses`), which a gated block may be. It has no `TypesHold`:
what a rewrite writes comes out of `SelectSeq`, which is defined by recursion.

And it proves `GridChargingHasAc` for any number of callers, setups
and lost answers: whatever is on its way to the inverter or from it has not the
one flag without the other (`Consistent`, `KeepsConsistent`).

`EnergyFilterProofs` proves, for every peak power, safety factor, count, start of the
counters and number of polls, misreads and restarts:

- `OnlyWhatWasMadeIsBooked` (`BooksOnlyWhatWasMade`): no value passes the filter that the
  statistics would take for a meter that starts again, nor one that is booked twice;
- `OnlyOutliersAreHeldBack` (`HoldsOnlyOutliers`): a true reading that is no fall is
  taken at once, unless the window began late.

Both need two hypotheses. `MisreadsAreFew`: fewer misreads in a row than it takes to
accept a value, and none evaluated again while it is held; without it both the
filter's purpose and `MisreadsAreNeverShown` are lost (section 7). `CountersStayApart`:
energy made in the run does not bring the new counter up to the old one's start, and
stays below a ninth of what a counter shows. The second half is about restarts: a state
restored from the disk may be behind the statistics by all that was made since, and
Home Assistant books a fall of more than a tenth as a new meter. A lifetime counter makes
a ninth of its reading in months, a restore state is a quarter of an hour old.

The invariant says that what the sensor, the disk and the state know was read from a
register, the present one or the one that was replaced, and that what was made since is
within the window that goes with it, or the window began late, or it is longer than all
that can be made (`KnowsARegister`); that readings not taken are counted, and that more
were held than misread only by a late window or a replaced counter
(`ReadingsAreCounted`); and that the statistics hold what one counter rose by, or both
did, and never go back to the old one (`BookedSoFar`). The state needs its window of its
own because a restart takes the time since the state changed for the time since the
counter moved; the invariant was not inductive before it said so.

`DailyCounterProofs` proves, for every length of a day, every threshold, yield
and stray (of any number and size, clouds and jumps included) and any number of
restarts:

- `TotalNeverFallsHolds`: the lifetime total never falls, unless a crash forgot
  what was recorded since the last write;
- `TodayBooksWhatTheTotalBooksHolds`: what the statistics add for energy
  produced today is never more than what the total rose by;
- `NoFinishedDayIsLost`: what was taken of a counter stays booked once it has
  started again, if its readings show it (`NothingTakenIsLost`);
- `TheClimbConfirmsTheRestart`, if `Confirm` = 1: with a reading in every tick
  since the restart, one above the first is taken (`ClimbIsBooked`). The
  hypothesis is what a tick stands for: it is longer than `CONFIRM_SECONDS`;
- `NoDayIsBookedTwice`, if there are no strays and no clouds: the total is never
  more than was made (`BooksNoMoreThanMade`). With clouds it is false
  (section 7). With one stray TLC checks it; what any number of strays can do has
  no proof.

The first two rest on `Inv` (`InvariantHolds`): the ledger and its stored form hold
numbers, and the total at midnight lies between 0 and the total. The lemmas
follow the code: `HoldGrows` and `AcceptGrows` for the helpers, `TakeGrows` for
the branches of `_take`, `RecordGrows` for a reading with its change of date.

The next two rest on `ToldInv`, over the history variable `told`: the total covers
what was taken of all counters, and the base alone does once this counter is
taken (`TotalCoversTheTold`); and as long as true readings come tick by tick and
none is taken they have all been the same low one, and it is held back until the
next tick or a stray in it (`FirstIsHeld`). `LowIsTakenOrHeld` says what `_take`
does with a reading that shows a restart: it books the finished day, or holds the
reading back, and one above what is held since an earlier round is taken. An
earlier form of `FirstIsHeld` did not mention the stray; TLC showed that one may
confirm what is held, and that the property survives only because the next true
reading then comes too late to count as tick by tick.

The last rests on `BooksInv`: the ledger and its stored form are each `Sound`, that
is, their last reading is of the counter that runs now, with nothing beyond it
booked and what is held back not beyond the counter (`OfThisCounter`), or of one
that has ended, so that base and last reading are covered by what was finished
(`OfAnEndedOne`), with what is held back since the counter started again or from
one that also has ended and is not booked (`HeldOfThis`, `HeldOfBefore`).
`ReadingsHaveTheirDay` is the core: without clouds the day a reading is attributed to
is never before the counter's.

Model-checked only:

- liveness and what needs ENABLED: `EveryTaskEnds`, `EventuallyServesTheDevice`,
  `NotForcedForEver`, `AnswersAgain`, `KeptAlive`, `NeverFrozen`,
  `EventuallyCurrent`, `SwitchesCatchUp`;
- `BooksNoMoreThanMade` with a stray, and what lies outside the hypotheses above;
- that the updates and replacements of a real device satisfy the hypotheses about
  layouts, beyond the generations of the run.

## 7. Where the code and its words differ

Two have a run in `PROJECT.json`:

- `controls_off`: the comment in `plan_write` (`vendors/profile.py`) says that
  the off-and-on cycle is for an enable "that is on already and the write leaves
  it alone". What the plan goes by is the flag of the last poll
  (`_point_reads_on`). A limit that is switched off and gets a new value before
  the next poll is planned as if on: off, value, on. It is on again.
- `energy_reread`: "If the counter stays low for three polls in a row, the
  integration takes it as a real reset" (`docs/troubleshooting.md`). The count
  is of evaluations of a property, and Home Assistant evaluates it more often
  than polls come in.

The others have an instance (section 4):

- `QuietAfterUnanswered`: `const.py` and `docs/apsystems.md` say that nothing is sent
  after an unanswered request until the rest is over. A raw block that gets no
  answer is swallowed by its reader, and a connect that times out inside the
  nameplate probe by the probe; the cycle sends its next request. The APsystems
  profile has a collection round and raw blocks.
- `NoScanAfterSilence`: "A timeout or lost connection propagates instead of
  starting a scan on a failing link" (`api.py`). In the rebuild, which reads
  group counts from the device, it does not.
- `VanishedIsTimed`: a model that vanishes is to be timed for a Repairs
  issue. If the cycle that notices fails after the list, the next one no longer
  knows.
- `ShortListScannedAgain`: a cycle whose list is short after a scan that stopped
  early "gets a fresh scan on the retry" (`__init__.py`). If a complete layout of
  the device as it is now was cached meanwhile, the retry restores it; the flag
  of the short scan stays on, the list still lacks what the run had before, and
  every cycle fails until a restart. It takes a device that lost models, a
  complete scan whose client was not adopted (the link dropped behind it), and
  then a refused header and a refused block.
- `NothingLeftBehind`: an unload "should not leave anything at all behind".
  An issue of a model whose stamp is gone stays: ignored by the user before the
  model came back, or raised by a poll that ends during the unload.
- `HighReadingNeverSticks`: "a bad high reading of one round does not stick"
  (`lifetime_energy.py`). A small rise that waits because the power is low is
  confirmed by any higher reading of a later round. If that is the bad one, the
  ledger takes it, and the true counter behind it looks like a drop.
- `LastIsBookedOnce`: a cloud before noon must not make "a confirmed jump
  ... book `last` a second time" (`lifetime_energy.py`). A restart that is booked
  under the cloud keeps yesterday's counter day; after a gap, the jump to the
  true reading counts as a new day and what was taken of today is booked again.
- `ForcedModeIsWatched`: "Hand it back rather than leave it in a forced mode
  that nothing writes again" (`battery_plan.py`). The hand-back itself may fail,
  and nothing tries it again; only the revert timer of the device ends the mode.
- `PlanKeepsToItsWindow`: "If you move the window so that it no longer contains the
  current time, the active plan stops" (`docs/fronius.md`). While the coroutine of the
  window's start waits for the lock, another holds it in its writes; a window
  moved then is forgotten as a change (`async_at_start` clears it) and is planned
  without asking whether it is open. The plan runs outside its window until the
  refresh, or the next start or end.
- `RateStaysInForce`, with `FactoryRevert = 0`: "the periodic re-write, paced off the
  value the device reports back, carries the plan either way" (`battery_plan.py`). What
  the device reported back is the last poll, from before the plan wrote its timer. A
  device that came with no timer arms no refresh, and if it clamps the one it got, the
  rate lapses inside the window.
- `SlowCountersAreTaken`: "A log line `Dropping implausible energy delta` is therefore a real
  outlier, not just a slow counter" (`docs/troubleshooting.md`). The window begins at the
  last move of the counter (`_counter_moved_to`), or at a restart, at the last change of the
  state. If the counter was ahead of it then, as after a register update that came
  with half of what was made, or polls that failed, a true reading
  that comes soon after is held until it is read three times.
- `LastWriteStands`: "the values written are what Home Assistant last
  wrote to each field" (`vendor_blocks.py`). A rewrite takes its values before
  it waits for the lock; a user's write ahead of it in the queue is undone until
  the next rewrite. A second rewrite that began meanwhile does not help: it waits
  behind the first, or writes between two of its fields.
- `NoProbeLeftOpen`, with `CancelWhileClosing`: `async_remove` is to "Release a probe when Home Assistant
  removes or aborts this flow". A reconfigure dialog closed while its previous
  probe is being closed goes on to open the next one, and nothing closes it.
- `ControlLeavesTheSetup`: the Modbus switch promises to leave "the rest of the
  Modbus setup as it is". It reads, patches and writes the whole setup; an edit
  or a reset between is undone.

Observations without an instance:

- `api.py` says that "anything that changes in the middle moves the tail" of a
  layout. Two blocks that swap places do not, and a reconnect in the same run
  reads them at the wrong offsets; the identity check catches it, but only in the
  next run. The identity is compared once per run of Home Assistant, so a
  replacement with the same tree is served under the old identity until a
  restart.
- The battery plan reads what the revert timer held before from the last poll.
  Switched off and on again within a poll, or restarted inside its window, it
  takes its own value for the device's and restores that at the end.
- A gated block may show an old reading when its gate opens again, and a lost
  connection keeps a reading without counting a miss. Controls of a block that
  was silent at setup exist only after a reload; its sensors come by themselves.
- The energy filter's first reading is discarded so that "a potential garbage
  value never becomes the baseline" (`sensor.py`), but it does become the
  baseline; what is discarded is only its state.
- The options dialog goes back to its host form as long as the coordinator
  fails, so the options of an unreachable entry cannot be completed. The
  coordinator is the one of its start: a setup that succeeds meanwhile does not
  help an open dialog. It takes
  a new host without comparing serial numbers, and keeps the token of the old
  one. An inverter without a serial number cannot be reconfigured to another
  address, and a new one at the old address of an entry pulls it back.
- The update listener is added in the coordinator's constructor and a failed
  setup does not remove it: each adds one more reload. A change of data and
  options reloads twice.
- A refresh of the web interface that is asked for while a poll runs is dropped;
  a switch may show the old state for up to a minute. Two presses at once reach
  the inverter in any order.

## 8. Not modelled

- `migration.py` is one synchronous pass over the entity registry, without
  interleaving or state of its own. Reading it for the controls' sake:
  `cleanup_superseded_control_entities` spares of the numbers, switches and
  selects only those of active specs and the `raw:` ones, so at every setup it
  removes and lets be built again those of storage modes, the battery plan, the
  web interface and FranklinWH; and a model list that is partial at setup
  removes the controls of the models it lacks.
- The power ceiling and the computed points of `sensor.py` keep no state. The
  decoding under `pysunspec2/` is a data conversion without state (its scan is
  modelled in `LayoutCache`). Vendor profiles are tables; what behaviour depends
  on is in `VendorProfiles`, `StorageModes` and `WriteControls`, addresses,
  scales and labels are not. Diagnostics, logging and labels format text.
- Who asked for which timeout of the shared link (`connection.py`): a raised
  timeout drops the link, which `Gateway` has as a link that is lost.
- The HTTP digest of the Fronius web interface and what a discovery scan sends.

Storage, lock, task cancellation, issue and entry registries, debouncers,
statistics and flow manager are Home Assistant's or Python's and are modelled
from their use (marked external).
