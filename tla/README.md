# vm-agent in TLA+

vm-agent runs on every compute node (CN) of a Triton data centre and tells VMAPI
what happens to the CN's VMs. This directory holds TLA+ models of it, the TLC
runs that check them on small instances, and TLAPS proofs for every instance.

    tlc -config VmAgent_core.cfg MCCore         # one run; the table below has the others
    tlapm VmAgentProofs.tla                     # the proofs of the core

## 1. The system

| component | state | operations | talks to |
|---|---|---|---|
| VmAgent (`lib/vm-agent.js`) | queue of uuids with one worker, `dirtyVms`, `lastSeenVms`, `knownDniVms` with purge timers, `retryDelays` with timers, `updateDelay`, `ready`, `watcher` | `start`, `initialUpdate` and its retry loop, `_onVmEvent`, `queueVm`, `updateVmapiVm`, `scheduleRetryUpdate`, `stop` | VmWatcher (events), vmadm (`load`, `lookup`), VMAPI client |
| VMAPI client (`lib/vmapi-client.js`) | a REST client | `getVms`, `updateServerVms`, `updateVm` | VMAPI over HTTP |
| event source (`lib/event-source.js`) | none | probes `vmadm events` once | vmadm |
| VmWatcher (`lib/vm-watcher.js`) | `knownVms`: last reported fields and a `destroyed` mark per VM | `dispatchCreate/Modify/Delete`, `start`, `stop` | the four watchers below, VmAgent's listeners |
| PeriodicWatcher (`lib/watchers/periodic-watcher.js`) | `knownVms`, a timer, `disabled` | polls `vmadm.lookup`, compares | vmadm, VmWatcher |
| VmadmEventsWatcher (`lib/watchers/vmadm-events-watcher.js`) | `vms`, `stopWatcher`, `restarted`, restart timer | follows `vmadm events`, restarts it, sends what was missed | vmadm, VmWatcher |
| FsWatcher (`lib/watchers/fs-watcher.js`) | watched files, timestamps, `isDirty`/`isProcessing` | watches `/etc/zones` and the zones' configuration | the file system, VmWatcher |
| ZoneeventWatcher (`lib/watchers/zoneevent-watcher.js`) | a child process, a line stream | follows zone state changes, restarts the child | `zoneevent`, VmWatcher |
| executable, tools, SMF, npm | none at run time | configure and start the agent; restart it when it dies | |

A change reaches VMAPI in four hops: a watcher notices it and calls `updateVm`;
VmWatcher decides whether it is news and emits an event in a later tick;
`_onVmEvent` queues the uuid (or stashes it while startup is under way); the
queue's worker loads the VM and PUTs what it loaded. Only uuids travel; the
object is loaded at the last moment. At startup the agent does not know what it
missed, so it compares VMAPI's list with vmadm's and PUTs the differences.

### What is hard

* Startup overlaps with change. The watcher is started *after* VMAPI was asked
  and *before* vmadm is; whatever changes later is caught by `dirtyVms`.
* A VM changes while its own update is between `vmadm.load` and the end of the
  PUT. The uuid in the worker is not in `queue.queued`, so it is queued again.
* Everything fails: VMAPI, vmadm, a PUT after VMAPI processed it, a PUT half
  processed. Retries, back-off and cancelled timers have to agree.
* `do_not_inventory` (DNI) can be set and removed at any time; a deleted VM can
  no longer be asked, so the agent remembers, and forgets after five minutes.
* `stop()` and the death of the process come between any two of these steps.

### What makes each component correct

* VmAgent: a change is never lost; VMAPI is never told what was not so, and never
  something older than it has; back-off entries, timers and owed retries agree;
  failures end; after `stop()` nothing new is said.
* VmWatcher: a change one of its watchers saw is emitted unless it was already;
  created, modified and deleted alternate properly per VM.
* PeriodicWatcher: one polling loop; what changed since the first sample is
  reported within a poll. VmadmEventsWatcher: nothing is missed across a restart,
  one stream at a time. FsWatcher: an event during processing causes another
  pass, a directory that comes back is watched again. ZoneeventWatcher: one child
  while started. All of them: a report is the difference of two looks at the VMs.

PROJECT.json lists the hazards line by line.

## 2. Modules

| module | what it is |
|---|---|
| `Inventory` | the abstract specification: the history of each VM on the CN, VMAPI's record of it, and what VMAPI may be told |
| `VmAgent` | `lib/vm-agent.js` in full; implements `Inventory` |
| `VmAgentProofs` | the theorems about both |
| `MCVmAgent`, `MCCore` | symmetry sets for TLC |
| `Comparable`, `ComparableProofs` | `makeComparable` and the comparison of startup on VM objects with fields |
| `VmWatcher`, `VmWatcherProofs` | `lib/vm-watcher.js`: `knownVms`, the dispatching, what each watcher sees of a VM, the VMs of the CN; lemmas about them |
| `Watchers`, `WatchersProofs` | abstract specification of the watchers: `VmWatcher` with any mix of them, each reduced to its contract |
| `PeriodicWatcher`, `PeriodicProofs` | `VmWatcher` with `lib/watchers/periodic-watcher.js` in full; implements `Watchers` |
| `FsWatcher`, `FsProofs` | `VmWatcher` with `lib/watchers/fs-watcher.js`; implements `Watchers` |
| `ZoneeventWatcher`, `ZoneeventProofs` | `VmWatcher` with `lib/watchers/zoneevent-watcher.js`; implements `Watchers` |
| `VmadmEventsWatcher`, `EventsProofs` | `VmWatcher` with `lib/watchers/vmadm-events-watcher.js` in full |

### Inventory

`cn[v]` is the sequence of all states VM `v` has been in: `absent`, `live` or
`dni`. Everything else about a VM is its *version*, the position in that
sequence. `vmapi[v]` says which version VMAPI shows and whether as active or
destroyed. `Change` appends to a history. `Report` is any PUT: each record stays,
or becomes a *live version newer than the one there*, or becomes *destroyed, of a
VM that left after that version*. That is the promise: the agent may lag, skip
and repeat, but not lie and not go back.

### VmAgent

Each variable is a property of the VmAgent object or of the stash of
`initialUpdate` (see the declarations), `pc` is where `start()` is, `job` is the
task in the queue's worker. One action per callback:

* startup: `Start`, `SetupWatcher`, `GetVmapiVms`, `StartWatcher`, `GetVmadmVms`
  (with `_findVmsToUpdate`, which is synchronous after it), `UpdateVmapiVms`,
  `InitialUpdateComplete` (`_updateLastSeen`, `_startCb`), `InitialUpdateFailed`,
  `RetryInitialUpdate`;
* the worker: `LoadLive`, `LoadDni`, `LoadGone`, `LoadGoneDni`, `LoadMissed`,
  `LoadFails`, `PutVm`, `OnVmUpdate`, `OnVmUpdateFailed`, `SkipWhenNotReady`, with
  `UpdateDone` and `UpdateFailed` for the two ends of `_updateVmComplete`;
* timers: `DelayedRetry`, `PurgeDeletedDni`; events: `OnVmEvent`;
* `Stop`, `Crash`, and `WatcherIsNull`, the TypeError of a startup pipeline that
  goes on after `stop()` set `self.watcher` to null;
* the environment: `CnChange`, `NotifyTwice`.

Assumptions about what is around it:

* The watcher is its contract: while it is started, a change is notified some
  time later, in any order across VMs, merged with others of the same VM or
  repeated. A stopped watcher with its listeners kept may still deliver what was
  on its way.
* `vmadm.lookup` and `vmadm.load` answer with one instant's state. A request and
  its callback are one action where no step between them could make a difference.
* A PUT that fails was processed before the error or never; the server-wide PUT
  may have been processed for any subset of its VMs. A process that dies decides
  the same of the PUT in flight. Only this agent writes these records.
* Two versions differ exactly when the comparable objects differ, so the
  comparison of startup is equality of versions. What that takes is in
  `Comparable`: VM objects are functions from fields to values, VMAPI shows
  defaults for some fields, and `UpdatesWhatDiffers` says that the comparison finds
  a difference exactly if a PUT would change what VMAPI shows. It rests on what
  `lib/vmapi-client.js:20-44` says of vmadm: it shows every field with a default
  except the always-set ones, and those only with a value of their own.
* After `stop()` the queue's worker of the old queue finishes its task; tasks of
  the new queue find the agent not ready and end at once. That the two workers
  could overlap is not visible and not modelled.

### VmWatcher and its watchers

`VmAgent` assumes that a started watcher notifies every change. These modules ask
whether it does. `cn[v]` is again the history of a VM, here of records with the
fields watchers tell apart: existence, `last_modified`, `state`, and `quota`,
which stands for all fields that only `vmadm` shows. `FsView`, `ZoneView` and
`VmadmView` are what a watcher sees of such a record; `vmadm` cuts times to the
second. `knownVms[v]` holds the fields reported so far, as a record whose domain
grows; `DispatchCreate`, `DispatchModify` and `DispatchDelete` say what a report
makes of it and whether an event is emitted, `EmitImmediately` is the later tick.
`told[v]` is the version that was current when the listener was last told (it
loads the VM then or later). "Nothing is lost" reads: when everything has been
seen and nothing waits, what the listener saw at `told[v]` looks like the VM now.

`Watchers` is the contract of a watcher (`lib/vm-watcher.js:17-30`) as an abstract
specification. It adds `view[w][v]`, the version watcher `w` saw last, and
`first[w][v]`, that of its first look. `FirstLook` tells nobody; `Report` looks
again, at any versions there have been so far, and reports what differs from
`view`; `Forget` is a `stop()` that drops everything; `Lookup` is the agent's own.
With `MayLapse` FALSE, as in the configurations of section 6, looks do not go back and
only FsWatcher and PeriodicWatcher may skip versions.
Three of the detailed watchers are shown to implement it (`ImplementsWatchers`, an
INSTANCE with `view` and `first` mapped to their own state); for the fourth, whose
missed updates are compared with what two streams wrote, `NothingMissed` says it.
`NoSilentChange` is the promise of the mix, of a VM that is `Steady`: there from the
start to its deletion, neither halting nor booting. Of any other VM the code does not
keep it (`NoSilentChangeOfAny`, section 6).

`PeriodicWatcher` replaces these actions by the code: `Start`, `Stop`, `Lookup` (the
instant vmadm looks), `LookupFails`, `HandleVmobjs` (the callback, some time
later), `TimerFires`. Each `start()` begins a loop; a lookup that `stop()` finds
under way may go on as a second one. `AgentLooks` is the agent's own lookup.

`FsWatcher` has the files on one side (`XmlWritten`, `ConfigWritten`, `DirRemoved`,
`DirCreated`, `ZonesTouched`: each is a change of a VM or none, and raises an event
if a watch is in place) and the code on the other: `Start` and `RetryStartup`, the
passes of `processState` (`ProcessState` sets the flags, `Scan` is the instant the
files are looked at, `EndPass` what follows, `FailPass` a scan that fails,
`ProcessStateCb` the end that may run again), `OnZoneEvent`, `OnConfigChange` and
`OnConfigRenamed` (the two watches), `OnWatcherError`, `TryWatching` and `TimeOut`
(`waitThenWatch`), `Stop`. `passes` is a sequence since nothing keeps two passes from
overlapping. Two ghosts carry the promise: `noticed`, the last version that raised an
event, and `overlooked`, the VMs whose creation only updated an entry of `knownVms` that
was left from an earlier attempt (`TakenForKnown`), until they are told of. A VM's
several polling loops are one; errors of `fs.watch` and `fs.stat` other than ENOENT,
which are logged and ignored, are left out, and so are changes that touch no file.

`ZoneeventWatcher` has children, each spawned, listening or gone, killed or not, with
an exit listener or without: `Start`, `Stop`, `Exits` (with the restart in the next
tick), `Listens`, `ReadLine`. A change that happens while no child listens is written
by none; the ghost `lost` remembers such VMs until a line changes what is known of them.

`VmadmEventsWatcher` has the streams (calls of `vmadm.events`), each starting,
ready or gone: `Ready` brings all VMs as of an instant since the stream's start,
`Event` one change after the other, `StreamFails` an error, `VmadmEventsRestart`
the timer after it. `AgentStarts`, `AgentLooks`, `AttemptFails` and `AgentStops`
are VmAgent's side; an attempt may also fail at VMAPI before it starts the watcher, and its
`stop()` then ends a stream that a restart timer made ready. `ready(err)` is left out: it
means that `vmadm.events` is not supported, and then this watcher is not chosen. A failed assertion ends the process (`failed`); so
`agentStream` and `looked` tell whether the callback of `start` came and was used.
A stream that was stopped sends nothing more; one may fail before it is ready,
since the error listener is attached before that (`MayFailEarly`). `NothingMissed`
excuses two kinds of VMs: one that `CameBack` under its uuid, whose old entry may hide its
creation, and one that is `Withheld`, since VmWatcher takes it for destroyed or for
provisioning.

## 3. Runs

| run | instance | shows |
|---|---|---|
| `core` | 2 VMs, 2 versions, delays 1..2; 4 fields, 3 values | `NoLostChange`, `BackoffMatchesRetry`; as an assumption, `UpdatesWhatDiffers` |
| `dni` | 1 VM, 4 versions, DNI, a crash, delays 1..3 | `TypeOK`, `RecordsAreReal`, `RecordsMoveForward`, `ImplementsInventory` |
| `stop` | 1 VM, 3 versions, a crash, `stop()`, fairness | `QuietAfterStop`, `StopDrains`, `Converges` |
| `watchers` | 1 VM, 3 versions, times 0..2 in seconds of 2; the default watchers, `MayLapse` | `NoSilentChange` |
| `periodic` | 1 VM, 3 versions, created or there, 2 starts, fairness | `PeriodicTypeOK`, `SampledIsTold`, `ChangesAreTold`, `StopEndsPolling`, `ImplementsWatchers` |
| `fs` | 1 VM, 3 versions, 1 start, 2 passes at once, 1 fault, fairness | `FsTypeOK`, `NoticedIsTold`, `ChangesAreTold`, `Initialised`, `ConfigWatched`, `ImplementsWatchers` |
| `zoneevent` | 1 VM, 4 versions, reboots, 2 starts, fairness | `ZoneTypeOK`, `ZoneStateIsTold`, `ChangesAreTold`, `OnlyStopKills`, `ImplementsWatchers` |
| `events` | 1 VM, 3 versions, created twice, reboots, 3 streams, fairness | `EventsTypeOK`, `NothingMissed`, `ChangesAreTold` |
| `hidden`, `forgotten`, `watchers_create`, `events_twice` | 1 VM | the findings of section 6 |

Larger instances, too long for the everyday runs: `Watchers_long.cfg` (5 versions,
times 0..4), `Fs_long.cfg` (2 faults), `Fs_restart.cfg` (2 starts, safety only),
`Events_long.cfg` (4 versions, provisioning, 4 streams, safety only).

Bounds. VMs interact only through the queue, the serial worker and the
server-wide PUT, for which two are enough: one in the worker and one waiting, one
stored and one not. Four versions of one VM hold the longest story any rule
talks about (flagged, un-flagged, deleted, created again). Delays 1..3 reach the
cap in two failures and stay there for more. One crash comes at every point, and
the process after it starts like the first one with any `vmapi`; the proofs need
no bound. Failures are not bounded at all. `stop` disables the deadlock check: a
stopped agent has nothing to do, which is the point.

In the watchers' modules no VM ever influences another (`knownVms` and the views
are per uuid), so one is enough. Times 0..2 in seconds of two ticks put two changes
into one second and two into different ones. Three streams are one that fails, its
restart and one that an attempt of the agent starts in between: what two streams
at once need. Two starts give two polling loops, or a zoneevent child still dying next to
a new one. Two passes are one of `start()` and one of an event that overlaps it; the
fault (a scan that fails, a directory removed, another file written) comes at every
point, and the retry of a failed start overlaps the pass of an event with one start.

What those runs leave out, on purpose, is what section 6 shows not to hold, and two
things no poll can see: a change that is taken back between two samples or scans
(`SampledIsTold`, `NoticedIsTold` and `NothingMissed` excuse a VM that is again as it
was before; a quota never takes a value it had), and a VM that comes and goes between
two samples. `watchers` starts from VMs that are there and do not reboot; creation and reboots are in the runs of the
detailed watchers, where only one watcher reports. `events` lets a stream fail once
it is ready (`MayFailEarly` FALSE), what an earlier failure does is in section 6.

Fairness (`Fairness` in `VmAgent`). The node event loop runs callbacks that are
ready and timers that are due, and a watcher's notification arrives: weak
fairness on those. A request may fail any number of times; strong fairness on its
*successful* answer says that an outage ends some day, which the code counts on by
retrying without limit. Nothing is assumed of `Stop`, `Crash`, `CnChange`, the
purge timer and the failures. Histories are finite, so the VMs stop changing.

`PeriodicWatcher` assumes the same: timers and callbacks run, a lookup that is
tried for ever succeeds now and then. `VmadmEventsWatcher` assumes that a stream
gets ready unless it fails, and sends what happens; its failures are bounded by
`MaxStreams`, so after the last one the stream stays. `FsWatcher` assumes that
watches deliver their events and that a scan repeated for ever succeeds;
`ZoneeventWatcher`, that a child started again and again comes to listen, and one
that listens again and again to have its lines read, which says that not every child
ends before it has written anything. Nobody has to stop, start again or change
anything.

`Converges` and `NoLostChange` excuse VMs with DNI: `stop` has none, and
`NoLostChange` excuses the deletion of a VM that was ever flagged. The run
`forgotten` shows that the excuse is needed.

## 4. Proofs

`VmAgentProofs` proves of `Inventory`, for any set of VMs, any bound and any
history: `InventoryReal` (records are typed and real) and `InventoryForward`; and
of `VmAgent`, for any set of VMs, any bounds and delays
(assumptions: `NoVmAssumption`, `DelayAssumption`, `CrashAssumption`,
`BoundAssumption`, `DniAssumption`):

* `Invariance`: the inductive invariant `IInv`; `TypeCorrect` and
  `NoChangeIsLost` are parts of it;
* `Refinement`: `Spec => InventorySpec`; with it `AgentReportsTruth`: what holds of
  `Inventory` holds of the agent;
* `BackoffIsOwed` (with the strengthening `BackoffInv`) and `StoppedIsQuiet`.

The argument. `NoLostChange` is not inductive: it says nothing before startup is
complete and nothing of what the worker holds. `StashInv` adds that between the
lookup and the end of startup a VM is as vmadm listed it or notified
(`StageInv` says that the watcher runs by then); `SeenInv` that after the
server-wide PUT VMAPI shows what vmadm listed. In the worker, `FreshInv` says
that a task holding an old version is not the last one of its VM and `JobInv`
that its object is what was loaded. For a deleted VM the agent must have an
object to PUT: `MemoryInv`. For the refinement every object about to be PUT has
to satisfy `MayBecome` *when the PUT is processed*: `PayloadInv` and `JobInv`
carry that over the steps in between, resting on `RecordsAreReal`, on
`ListedBy` (VMAPI's list is still VMAPI's state, since only this agent
writes it) and on histories only growing. `WorkInv` says that an idle worker
leaves nothing in the queue and that nothing works before startup is complete.
Each part of `IInv` has its step lemma, with a step per action.

The watchers, for any VMs, histories, times and bounds (`BoundAssumption`,
`SwitchAssumption` and the assumption of each module). `VmWatcherProofs` has what they
share: `WatcherInv` types the histories, and an entry of `knownVms` holds only known
fields, whatever is dispatched to it; histories only grow, so that a version once
seen stays one. On these rest:

* `PeriodicTyped`, `ZoneTyped`, `FsTyped`, `EventsTyped`: the type invariants, each with
  the part that is not about types. For `PeriodicTypeOK` the timer of a watcher
  started once is the one `stop()` cancels. `ZoneInv` adds to `ZoneTypeOK` that the
  children there are do not outnumber the starts, by their `Cardinality`: that is
  why there is a free slot for each new one. `FsInv` adds that passes with a callback
  and retry timers together are no more than the starts. `EventsInv` adds that
  streams and restart timers, with the agent's next attempt, stay within the bound.
* `StopKills`, the action property of `ZoneeventWatcher`.
* `PeriodicImplements`, `FsImplements`, `ZoneeventImplements`: every step is one of
  `Watchers` or a stutter. A first sample or scan, or a child that begins to listen,
  maps to `FirstLook`, a comparison to `Report`, a `stop()` that drops what was seen
  to `Forget`; the invariants say that what was seen are versions (`Versions`), and
  `NowVersions` that what is there now may be looked at.

That a change is told. What the listener knows depends on what the entries of
`knownVms` hold, which the state invariants above do not say: a report is an event only
if the entry differs from it. So each of the following has an invariant that ties the
entry to the history, and the ends of it to `told`; `HistoryInv` says that time does
not run backwards in a history.

* `SampledTold` (`SampleInv`): an entry is a version the listener is told of or going to
  be, or is marked destroyed, which it is exactly when the last sample showed no VM;
  then a comparison that finds a difference always emits. `SampledIsTold` alone says
  nothing of the entry, and a stale one would swallow the next difference.
* `ZoneStateTold` (`NewsInv`): the entry of a VM that is not lost is the last line's, so
  that a line is news unless it says the same.
* `NothingIsMissed` (`MissedInv`): what was sent by a stream, and what a restart will
  compare with, was told or is withheld (`SentIsTold`); an entry is what one version
  showed (`ShownOf`). Two streams at once write `vms` in turn: `OneStream` says that
  there is one until a stream fails, and `LeftBehind` that a stream asked for after a VM
  went away does not show it as it was.
* `NoChangeIsSilent` (`SilentInv`), for any mix of watchers: the time in an entry is one
  of those the listener knows of or will, to the millisecond or cut to the second, and
  its quota too (`FieldsFrom`). An update that `Refused` drops is then older than what
  was told, since `Seconds` and `Rounded` enclose every time of that second
  (`SecondsAgain`, `RefusedIsOlder`).
* `NoticedTold` (`ToldInv`): `TellsOf` is what the listener knows of the last scan and of
  the entry, `FilesOf` and `NoticedOf` relate the files' versions to what was noticed,
  and `NoticedDue` says of every state in between what `NoticedIsTold` says of the quiet
  ones: the listener knows, or something is waiting for which it will (`Due`: an event of
  `/etc/zones`, the dirty mark, an event of a config file later than the .xml file, an
  event to be emitted), or the pass under way will tell it (`PassTells`). That holds of a
  pass that was `Alone` from its beginning on; one that was overtaken proves nothing,
  and `clean` leaves it out. `XmlScanned` is needed because the end of a pass drops the
  waiting events of a VM that its scan found gone.

At bounds larger than those of the runs TLC refutes two of these promises when they are
made of every VM: of `NothingMissedOfAny` and `NoticedIsToldOfAny` section 6 shows how,
and the theorems name the VMs they except. Before they were proved, the invariants were
model-checked on instances larger than the runs', the one of `FsWatcher` on
4 versions with 2 starts, 2 passes and a fault (9.6 million states), on 3 with 3 starts
and on 3 passes at once; `SilentInv` with three watchers (6.1 million) and with four.

`ComparableProofs` proves `ComparisonIsExact` for any fields, defaults and values.

## 5. Only model-checked, and not modelled

Only model-checked: the liveness properties, which are out of the prover's reach
(`Converges`, `StopDrains`, `StopEndsPolling`, `Initialised`, `ConfigWatched` and the
four `ChangesAreTold`), and the disagreements of section 6. Every invariant and every
action property of a passing run is a theorem.

Not modelled:

* the event source detection, beyond its outcome: the probing stream keeps no state,
  and an error of it for whatever reason selects the default watchers for good;
* in `FsWatcher`, the steps inside one scan (files are looked at in one instant) and
  errors other than ENOENT; in `ZoneeventWatcher`, a child that cannot be spawned
  (its `error` event has no listener, and ends the process);
* `VmAgent` together with a detailed watcher: it has the watchers' contract instead,
  and the watchers have the agent's `start`, lookup and `stop`;
* HTTP, the connection pool and request timeouts, which are in libraries; the fields
  of VM objects beyond those named; logging; configuration loading, the development
  tools and the installation, which run once and keep nothing.

## 6. Findings

* `hidden`. A VM that VMAPI lists as active and that has `do_not_inventory` when
  the agent starts is left out of one side of the comparison only, and PUT as
  destroyed. The header comment says no update is sent for it.
* `forgotten`. `knownDniVms` is filled by a failed startup attempt and not
  cleared. A VM un-flagged before the next attempt is reported as active; if it
  is deleted before an event loads it, its deletion is ignored as that of a DNI
  VM and VMAPI keeps it as active until the agent restarts.
* `watchers_create`. FsWatcher tells of a new VM, the agent loads it, its quota or
  configuration changes, PeriodicWatcher sees it for the first time: a `create` of a
  known VM, whose fields are stored without an event. Later samples are equal, and
  VMAPI keeps the old value until something else of the VM changes.
* `events_twice`. A stream fails and with it the agent's attempt. The next attempt
  starts the watcher again, and then the restart timer does: the assertion at the
  head of `start` ends the process.

Further disagreements, each with a configuration that shows it but without a run in
PROJECT.json (`tlc -config Periodic_loops.cfg PeriodicWatcher`, and so on):

| configuration | property | what happens |
|---|---|---|
| `VmAgent_stopstart` | `StopEndsWork` | `stop()` during startup leaves the pipeline and its retry timer going: the server-wide PUT is sent, and the stopped agent becomes ready, or the process dies of calling a method of `null`. `stop()` is to "ensure that this VmAgent won't do more work" (`lib/vm-agent.js:909-912`). |
| `Watchers_reboot` | `NoSilentChangeOfAny` | A VM halts while a sample that saw it running is on its way. The sample sets the known state back; the VM boots, and the zoneevent that says so is taken for a repetition: in VMAPI it stays stopped. |
| `Watchers_special` | `NoSilentChangeOfAny` | A VM known as provisioning keeps that state for every watcher but the periodic one, "since watchers other than periodic don't go through vmadm" (`lib/vm-watcher.js:302`). The stream of `vmadm events` does: an end of provisioning within the second of the last known `last_modified` is not emitted. |
| `Periodic_loops` | `StoppedHasNoTimer` | `stop()` and `start()` with a lookup under way give two polling loops; the next `stop()` cancels one timer (`periodic-watcher.js:303`). |
| `Periodic_firstsample` | `QuotaChangesTold` | The first sample is not compared with anything and may be later than the agent's own lookup, which was to be safe from that race (`lib/vm-agent.js:686-690`). |
| `Events_early` | `RestartKnowsVms` | A stream that fails before any was ready is restarted with `self.vms` null: the assertion at line 90 ends the process. |
| `Events_hang` | `StartupEnds` | A stream of a later attempt that fails before it is ready is restarted without the agent's callback: startup waits for ever. |
| `Events_revived` | `StoppedHasNoStream` | `stop()` knows a stream only once it is ready; one that was being started outlives it. |
| `Events_cameback` | `NothingMissedOfAny` | A VM is deleted between two attempts of the agent, when no stream is there, and created again under its uuid. Its entry of `knownVms` is still there and not marked destroyed: the creation updates it and emits nothing (`vm-watcher.js:252-259`). |
| `Events_withheld` | `NothingMissedOfAny` | Two streams at once: the older snapshot of one of them is compared with what the other saw, so that a VM counts as deleted that is there. What is reported of it afterwards is skipped (`vm-watcher.js:288-296`). |
| `Fs_cameback` | `NoticedIsToldOfAny` | The entry of a VM that was deleted while nobody watched is still there when FsWatcher is started again: the creation of the VM is silent. |
| `Fs_overtaken` | `NoneTakenForDeleted` | A `start()` whose scan failed is tried again while the pass of an event is under way. That pass had scanned before a VM was created and ends after the retried one: it reports the VM as deleted. Until an event of `/etc/zones` sets off another scan, which finds it new, what is reported of the VM is skipped. |
| `Fs_failed` | `EveryEventIsTold` | The scan of a pass that an event set off fails: only `start()` tries again (`fs-watcher.js:557-568`), the change waits for the next event. |
| `Fs_unwatched` | `AllIsSeen` | A file of the config directory is written after the scan and before the directory is watched: no event, no report. |
| `Fs_revived` | `StoppedWatchesNothing` | A retry timer, a pass or a polling loop that `stop()` left behind watches again. |
| `Zoneevent_stale` | `LinesAreTold` | A VM halts while no child listens; `knownVms` still says running, so the line of its next boot is taken for a repetition. The agent, which loaded the VM in between, shows it as stopped. |

A configuration goes with the module whose name it begins with
(`tlc -config Fs_failed.cfg FsWatcher`), those of `VmAgent` with `MCVmAgent`
(and `VmAgent_core.cfg` with `MCCore`).

## 7. Plan

1. `VmadmEventsWatcher` as an implementation of `Watchers`, with the view of whichever
   stream wrote `vms` last; its two streams report from views of their own, so the
   contract needs a view per stream first.
2. `VmAgent` composed with `Watchers` in place of its assumption on notifications.
