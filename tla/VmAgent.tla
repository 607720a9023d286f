------------------------------ MODULE VmAgent ------------------------------
(***************************************************************************)
(* The core of vm-agent (lib/vm-agent.js): at startup, compare what VMAPI  *)
(* and vmadm say of every VM of this CN and PUT the differences; then work *)
(* off a serial queue of VM uuids that the watcher saw change, loading     *)
(* each and PUTting what was loaded, with a backed-off retry per VM.       *)
(*                                                                         *)
(* The watcher appears here by its contract only: while it is started, a   *)
(* change is notified some time after it happened, in any order with the   *)
(* changes of other VMs, possibly merged with later ones, possibly more    *)
(* than once.  The VM's history, VMAPI's records and the data types are    *)
(* those of Inventory, which this module implements.                       *)
(*                                                                         *)
(* Steps of the code between which nothing else can tell the difference    *)
(* are one action: vmadm.load and its callback, vmadm.lookup and its       *)
(* callback with the comparison that follows, a PUT's effect on VMAPI and  *)
(* its answer (except that the agent may die between the two).             *)
(***************************************************************************)
EXTENDS Inventory, Functions

CONSTANTS
    NoVm,                    \* the queue's worker holds no VM
    INITIAL_UPDATE_DELAY_MS, \* first retry delay
    MAX_UPDATE_DELAY_MS,     \* largest retry delay
    MaxCrashes,              \* bound: process deaths
    MayStop                  \* may the embedding program call stop()?

ASSUME NoVmAssumption == NoVm \notin VM
ASSUME DelayAssumption ==
    /\ INITIAL_UPDATE_DELAY_MS \in Nat \ {0}
    /\ MAX_UPDATE_DELAY_MS \in Nat
    /\ INITIAL_UPDATE_DELAY_MS <= MAX_UPDATE_DELAY_MS
ASSUME CrashAssumption == MaxCrashes \in Nat /\ MayStop \in BOOLEAN

VARIABLES
    events,       \* VMs with a change notification on its way from the watcher
    crashes,      \* process deaths so far
    pc,           \* where start() is
    watcher,      \* self.watcher: null, constructed ("idle") or started
    ready,        \* self.ready
    stopped,      \* was stop() called: "no", while "starting", while "running"
    updateDelay,  \* self.updateDelay: delay before the next startup attempt
    dirtyVms,     \* self.dirtyVms: VMs notified before ready
    vmapiVms,     \* stash.vmapiVms: VMAPI's active records, NoObj when not listed
    vmadmVms,     \* stash.vmadmVms: the version vmadm.lookup saw of each VM, 0 before
    queue,        \* self.queue.queued
    job,          \* the task in the queue's only worker
    lastSeenVms,  \* self.lastSeenVms, NoObj when there is no entry
    knownDniVms,  \* self.knownDniVms: no entry, {}, or {timer: ...}
    purgeTimers,  \* running _purgeDeletedDNI timers of each VM
    retryDelays,  \* self.retryDelays[v].delay, 0 when there is no entry
    timers        \* VMs with a running _delayedRetry timer

cnVars == <<cn, events>>
initVars == <<updateDelay, dirtyVms, vmapiVms, vmadmVms>>
ctlVars == <<crashes, pc, watcher, ready, stopped>>
workVars == <<queue, job>>
dniVars == <<knownDniVms, purgeTimers>>
retryVars == <<retryDelays, timers>>
vars == <<cn, vmapi, events, crashes, pc, watcher, ready, stopped, updateDelay,
          dirtyVms, vmapiVms, vmadmVms, queue, job, lastSeenVms, knownDniVms,
          purgeTimers, retryDelays, timers>>

\* A task in the worker: loading (dispatched, vmadm.load not yet answered),
\* loaded (the object in hand, next stage of the pipeline pending), putting.
\* snap is the version that was loaded, obj the object of the PUT.
NoJob == [phase |-> "idle", vm |-> NoVm, snap |-> 0, obj |-> NoObj]
Dispatched(v) == [phase |-> "loading", vm |-> v, snap |-> 0, obj |-> NoObj]
Job == [phase : {"idle", "loading", "loaded", "putting"}, vm : VM \cup {NoVm},
        snap : 0..MaxVer, obj : Obj]

Now(v) == cn[v][Len(cn[v])]
\* Mutant of Doubled: the cap is forgotten.
DoubledUncapped(d) == 2 * d
Doubled(d) == IF 2 * d > MAX_UPDATE_DELAY_MS THEN MAX_UPDATE_DELAY_MS ELSE 2 * d

\* The agent's memory in a process that has not called start() yet.
FreshProcess ==
    /\ pc = "off" /\ watcher = "null" /\ ready = FALSE /\ stopped = "no"
    /\ events = {}
    /\ updateDelay = INITIAL_UPDATE_DELAY_MS
    /\ dirtyVms = <<>>
    /\ vmapiVms = [v \in VM |-> NoObj]
    /\ vmadmVms = [v \in VM |-> 0]
    /\ queue = <<>> /\ job = NoJob
    /\ lastSeenVms = [v \in VM |-> NoObj]
    /\ knownDniVms = [v \in VM |-> "no"]
    /\ purgeTimers = [v \in VM |-> 0]
    /\ retryDelays = [v \in VM |-> 0]
    /\ timers = {}

Init == InventoryInit /\ FreshProcess /\ crashes = 0

-----------------------------------------------------------------------------
(***************************************************************************)
(* The queue: one worker, FIFO, a uuid at most once among the waiting.     *)
(***************************************************************************)
\* The worker is free: the head of q, if any, is dispatched to it.
Dispatch(q) ==
    IF q = <<>>
    THEN queue' = <<>> /\ job' = NoJob
    ELSE queue' = Tail(q) /\ job' = Dispatched(Head(q))

\* Mutant of QueueVm: the VM being worked on counts as queued.
QueueVmUnlessBusy(v) ==
    IF v \in Range(queue) \/ job.vm = v THEN UNCHANGED workVars
    ELSE IF job.phase = "idle" THEN Dispatch(Append(queue, v))
    ELSE queue' = Append(queue, v) /\ UNCHANGED job

QueueVm(v) ==
    IF v \in Range(queue) THEN UNCHANGED workVars
    ELSE IF job.phase = "idle" THEN Dispatch(Append(queue, v))
    ELSE queue' = Append(queue, v) /\ UNCHANGED job

\* Mutant of UpdateDone: the entry is deleted but its timer is not cleared.
UpdateDoneKeepsTimer ==
    /\ retryDelays' = [retryDelays EXCEPT ![job.vm] = 0]
    /\ timers' = timers
    /\ Dispatch(queue)

\* _updateVmComplete on success, an ignored VM, or an agent that is not ready.
UpdateDone ==
    /\ retryDelays' = [retryDelays EXCEPT ![job.vm] = 0]
    /\ timers' = IF retryDelays[job.vm] > 0 THEN timers \ {job.vm} ELSE timers
    /\ Dispatch(queue)

\* Mutant of UpdateFailed: an entry is taken for a running timer.
UpdateFailedOnce ==
    /\ IF retryDelays[job.vm] > 0
       THEN UNCHANGED retryVars
       ELSE /\ retryDelays' = [retryDelays EXCEPT ![job.vm] = Doubled(INITIAL_UPDATE_DELAY_MS)]
            /\ timers' = timers \cup {job.vm}
    /\ Dispatch(queue)

\* _updateVmComplete on any other error: scheduleRetryUpdate.
UpdateFailed ==
    /\ IF job.vm \in timers
       THEN UNCHANGED retryVars
       ELSE /\ retryDelays' = [retryDelays EXCEPT ![job.vm] =
                    Doubled(IF @ = 0 THEN INITIAL_UPDATE_DELAY_MS ELSE @)]
            /\ timers' = timers \cup {job.vm}
    /\ Dispatch(queue)

-----------------------------------------------------------------------------
(***************************************************************************)
(* The CN and the watcher.                                                 *)
(***************************************************************************)
CnChange(v, s) ==
    /\ ChangeOnCn(v, s)
    /\ events' = IF watcher = "started" THEN events \cup {v} ELSE events
    /\ UNCHANGED <<vmapi, ctlVars, initVars, workVars, lastSeenVms, dniVars, retryVars>>

\* Several watchers see the same change, or see one in what is not: a second event.
NotifyTwice(v) ==
    /\ watcher = "started" /\ v \notin events
    /\ events' = events \cup {v}
    /\ UNCHANGED <<cn, vmapi, ctlVars, initVars, workVars, lastSeenVms, dniVars, retryVars>>

\* _onVmEvent
OnVmEvent(v) ==
    /\ v \in events
    /\ events' = events \ {v}
    /\ IF ready
       THEN QueueVm(v) /\ UNCHANGED dirtyVms
       ELSE /\ dirtyVms' = IF v \in Range(dirtyVms) THEN dirtyVms ELSE Append(dirtyVms, v)
            /\ UNCHANGED workVars
    /\ UNCHANGED <<cn, vmapi, ctlVars, updateDelay, vmapiVms, vmadmVms, lastSeenVms,
                   dniVars, retryVars>>

-----------------------------------------------------------------------------
(***************************************************************************)
(* Startup.                                                                *)
(***************************************************************************)
Start ==
    /\ pc = "off"
    /\ pc' = "eventSource"
    /\ UNCHANGED <<cn, vmapi, events, crashes, watcher, ready, stopped, initVars, workVars,
                   lastSeenVms, dniVars, retryVars>>

\* determineEventSource never fails: it only picks which watcher is built.
SetupWatcher ==
    /\ pc = "eventSource"
    /\ pc' = "getVms" /\ watcher' = "idle"
    /\ UNCHANGED <<cn, vmapi, events, crashes, ready, stopped, initVars, workVars,
                   lastSeenVms, dniVars, retryVars>>

GetVmapiVms ==
    /\ pc = "getVms"
    /\ pc' = "startWatcher"
    /\ vmapiVms' = [v \in VM |-> IF vmapi[v].state = "active" THEN vmapi[v] ELSE NoObj]
    /\ UNCHANGED <<cn, vmapi, events, crashes, watcher, ready, stopped, updateDelay, dirtyVms,
                   vmadmVms, workVars, lastSeenVms, dniVars, retryVars>>

StartWatcher ==
    /\ pc = "startWatcher" /\ watcher # "null"
    /\ pc' = "lookup" /\ watcher' = "started"
    /\ UNCHANGED <<cn, vmapi, events, crashes, ready, stopped, initVars, workVars,
                   lastSeenVms, dniVars, retryVars>>

\* Mutant of Payload: VMs with do_not_inventory stay in the list of vmadm.
PayloadWithDni(v, k) ==
    IF cn[v][k] # "absent"
    THEN IF vmapiVms[v] = Active(k) THEN NoObj ELSE Active(k)
    ELSE IF vmapiVms[v] = NoObj THEN NoObj ELSE Destroyed(vmapiVms[v])

\* The object _findVmsToUpdate puts in the payload for v, of which vmadm listed
\* version k; NoObj when the two sides agree.
Payload(v, k) ==
    IF cn[v][k] = "live"
    THEN IF vmapiVms[v] = Active(k) THEN NoObj ELSE Active(k)
    ELSE IF vmapiVms[v] = NoObj THEN NoObj ELSE Destroyed(vmapiVms[v])

\* _getVmadmVms and _findVmsToUpdate.  VMs with do_not_inventory are dropped
\* from the list; nothing removes what an earlier attempt put in knownDniVms.
GetVmadmVms ==
    /\ pc = "lookup"
    /\ vmadmVms' = [v \in VM |-> Len(cn[v])]
    /\ knownDniVms' = [v \in VM |-> IF Now(v) = "dni" THEN "known" ELSE knownDniVms[v]]
    /\ pc' = IF \A v \in VM : Payload(v, Len(cn[v])) = NoObj THEN "updateLastSeen" ELSE "putServer"
    /\ UNCHANGED <<cn, vmapi, events, crashes, watcher, ready, stopped, updateDelay, dirtyVms,
                   vmapiVms, workVars, lastSeenVms, purgeTimers, retryVars>>

\* What VMAPI holds once it processed the payload for the VMs of S.
ServerPut(S) ==
    [v \in VM |-> IF v \in S /\ Payload(v, vmadmVms[v]) # NoObj
                  THEN Payload(v, vmadmVms[v]) ELSE vmapi[v]]

UpdateVmapiVms ==
    /\ pc = "putServer"
    /\ vmapi' = ServerPut(VM)
    /\ pc' = "updateLastSeen"
    /\ UNCHANGED <<cn, events, crashes, watcher, ready, stopped, initVars, workVars,
                   lastSeenVms, dniVars, retryVars>>

\* _updateLastSeen, the end of the pipeline and _startCb.
InitialUpdateComplete ==
    /\ pc = "updateLastSeen"
    /\ pc' = "done" /\ ready' = TRUE
    /\ lastSeenVms' = [v \in VM |->
            IF cn[v][vmadmVms[v]] = "live" THEN Active(vmadmVms[v]) ELSE NoObj]
    /\ vmapiVms' = [v \in VM |-> NoObj] /\ vmadmVms' = [v \in VM |-> 0]
    /\ Dispatch(dirtyVms)
    /\ UNCHANGED <<cn, vmapi, events, crashes, watcher, stopped, updateDelay, dirtyVms,
                   dniVars, retryVars>>

\* A stage of the pipeline failed: VMAPI did not list its VMs, the watcher did
\* not start, vmadm.lookup failed, or the PUT did, after VMAPI processed part
\* of it or none.  The watcher is stopped; notifications on their way may be
\* lost or still arrive, for its listeners are kept.
InitialUpdateFailed ==
    /\ pc \in {"getVms", "startWatcher", "lookup", "putServer"}
    /\ watcher # "null"
    /\ pc' = "retryWait" /\ watcher' = "idle"
    /\ IF pc = "putServer" THEN \E S \in SUBSET VM : vmapi' = ServerPut(S)
                           ELSE UNCHANGED vmapi
    /\ dirtyVms' = <<>>
    /\ events' \in SUBSET events
    /\ updateDelay' = Doubled(updateDelay)
    /\ vmapiVms' = [v \in VM |-> NoObj] /\ vmadmVms' = [v \in VM |-> 0]
    /\ UNCHANGED <<cn, crashes, ready, stopped, workVars, lastSeenVms, dniVars, retryVars>>

\* The setTimeout(_doInitialUpdate, updateDelay) of _initialUpdateCb.
RetryInitialUpdate ==
    /\ pc = "retryWait"
    /\ pc' = "getVms"
    /\ UNCHANGED <<cn, vmapi, events, crashes, watcher, ready, stopped, initVars, workVars,
                   lastSeenVms, dniVars, retryVars>>

-----------------------------------------------------------------------------
(***************************************************************************)
(* updateVmapiVm: the queue's worker.                                      *)
(***************************************************************************)
\* Mutant of SkipWhenNotReady: a task cut short by stop() counts as failed.
RetryWhenNotReady ==
    /\ job.phase \in {"loading", "loaded"} /\ ~ready
    /\ UpdateFailed
    /\ UNCHANGED <<vmapi, cnVars, ctlVars, initVars, lastSeenVms, dniVars>>

\* The worker, the answer to vmadm.load and _putVm all look at ready.
SkipWhenNotReady ==
    /\ job.phase \in {"loading", "loaded"} /\ ~ready
    /\ UpdateDone
    /\ UNCHANGED <<vmapi, cnVars, ctlVars, initVars, lastSeenVms, dniVars>>

Loading == job.phase = "loading" /\ ready

LoadFails ==
    /\ Loading
    /\ UpdateFailed
    /\ UNCHANGED <<vmapi, cnVars, ctlVars, initVars, lastSeenVms, dniVars>>

Loaded(o) ==
    job' = [phase |-> "loaded", vm |-> job.vm, snap |-> Len(cn[job.vm]), obj |-> o]

\* Mutant of LoadLive: the object is PUT and not kept in lastSeenVms.
LoadLiveUnremembered ==
    /\ Loading /\ Now(job.vm) = "live"
    /\ Loaded(Active(Len(cn[job.vm])))
    /\ knownDniVms' = [knownDniVms EXCEPT ![job.vm] = "no"]
    /\ UNCHANGED <<vmapi, cnVars, ctlVars, initVars, queue, lastSeenVms, purgeTimers, retryVars>>

LoadLive ==
    /\ Loading /\ Now(job.vm) = "live"
    /\ Loaded(Active(Len(cn[job.vm])))
    /\ lastSeenVms' = [lastSeenVms EXCEPT ![job.vm] = Active(Len(cn[job.vm]))]
    /\ knownDniVms' = [knownDniVms EXCEPT ![job.vm] = "no"]
    /\ UNCHANGED <<vmapi, cnVars, ctlVars, initVars, queue, purgeTimers, retryVars>>

LoadDni ==
    /\ Loading /\ Now(job.vm) = "dni"
    /\ knownDniVms' = [knownDniVms EXCEPT ![job.vm] = "known"]
    /\ UpdateDone
    /\ UNCHANGED <<vmapi, cnVars, ctlVars, initVars, lastSeenVms, purgeTimers>>

Gone == Loading /\ Now(job.vm) = "absent"

\* A deleted VM that had do_not_inventory: nothing is said, and what is known
\* of it is purged after DNI_PURGE_DELAY_MS.
LoadGoneDni ==
    /\ Gone /\ knownDniVms[job.vm] # "no"
    /\ knownDniVms' = [knownDniVms EXCEPT ![job.vm] = "purging"]
    /\ purgeTimers' = IF knownDniVms[job.vm] = "purging" THEN purgeTimers
                      ELSE [purgeTimers EXCEPT ![job.vm] = @ + 1]
    /\ UpdateDone
    /\ UNCHANGED <<vmapi, cnVars, ctlVars, initVars, lastSeenVms>>

LoadGone ==
    /\ Gone /\ knownDniVms[job.vm] = "no" /\ lastSeenVms[job.vm] # NoObj
    /\ lastSeenVms' = [lastSeenVms EXCEPT ![job.vm] = Destroyed(@)]
    /\ Loaded(Destroyed(lastSeenVms[job.vm]))
    /\ UNCHANGED <<vmapi, cnVars, ctlVars, initVars, queue, dniVars, retryVars>>

\* VmCreationMissed: never seen alive, so there is no object to PUT.
LoadMissed ==
    /\ Gone /\ knownDniVms[job.vm] = "no" /\ lastSeenVms[job.vm] = NoObj
    /\ UpdateDone
    /\ UNCHANGED <<vmapi, cnVars, ctlVars, initVars, lastSeenVms, dniVars>>

\* Mutant of PutVm: _putVm does not look whether the agent was stopped meanwhile.
PutVmWhenStopped ==
    /\ job.phase = "loaded"
    /\ job' = [job EXCEPT !.phase = "putting"]
    /\ UNCHANGED <<vmapi, cnVars, ctlVars, initVars, queue, lastSeenVms, dniVars, retryVars>>

PutVm ==
    /\ job.phase = "loaded" /\ ready
    /\ job' = [job EXCEPT !.phase = "putting"]
    /\ UNCHANGED <<vmapi, cnVars, ctlVars, initVars, queue, lastSeenVms, dniVars, retryVars>>

OnVmUpdate ==
    /\ job.phase = "putting"
    /\ vmapi' = [vmapi EXCEPT ![job.vm] = job.obj]
    /\ UpdateDone
    /\ UNCHANGED <<cnVars, ctlVars, initVars, lastSeenVms, dniVars>>

\* The PUT failed; whether VMAPI processed it is not known.
OnVmUpdateFailed ==
    /\ job.phase = "putting"
    /\ vmapi' \in {vmapi, [vmapi EXCEPT ![job.vm] = job.obj]}
    /\ IF ready THEN UpdateFailed ELSE UpdateDone
    /\ UNCHANGED <<cnVars, ctlVars, initVars, lastSeenVms, dniVars>>

-----------------------------------------------------------------------------
(***************************************************************************)
(* Timers, stop() and the death of the process.                            *)
(***************************************************************************)
DelayedRetry(v) ==
    /\ v \in timers
    /\ timers' = timers \ {v}
    /\ QueueVm(v)
    /\ UNCHANGED <<vmapi, cnVars, ctlVars, initVars, lastSeenVms, dniVars, retryDelays>>

\* The timer deletes whatever entry v has by then.
PurgeDeletedDni(v) ==
    /\ purgeTimers[v] > 0
    /\ purgeTimers' = [purgeTimers EXCEPT ![v] = @ - 1]
    /\ knownDniVms' = [knownDniVms EXCEPT ![v] = "no"]
    /\ UNCHANGED <<vmapi, cnVars, ctlVars, initVars, workVars, lastSeenVms, retryVars>>

\* stop() and initializeProperties().  Listeners are removed, waiting tasks
\* dropped; a task in the worker, timers and the startup pipeline go on.  A
\* retry timer that fires later pushes to the new queue, where it finds the
\* agent not ready; that it may run beside the old worker's task is not seen.
Stop ==
    /\ MayStop /\ stopped = "no" /\ pc # "off"
    /\ stopped' = IF ready THEN "running" ELSE "starting"
    /\ watcher' = "null" /\ ready' = FALSE
    /\ events' = {}
    /\ updateDelay' = INITIAL_UPDATE_DELAY_MS
    /\ dirtyVms' = <<>>
    /\ queue' = <<>>
    /\ retryDelays' = [v \in VM |-> 0]
    /\ lastSeenVms' = [v \in VM |-> NoObj]
    /\ knownDniVms' = [v \in VM |-> "no"]
    /\ UNCHANGED <<cn, vmapi, crashes, pc, vmapiVms, vmadmVms, job, purgeTimers, timers>>

\* What a process that dies may leave behind of the PUT it had sent.
PutLeftBehind ==
    \/ UNCHANGED vmapi
    \/ job.phase = "putting" /\ vmapi' = [vmapi EXCEPT ![job.vm] = job.obj]
    \/ pc = "putServer" /\ \E S \in SUBSET VM : vmapi' = ServerPut(S)

Die ==
    /\ PutLeftBehind
    /\ pc' = "off" /\ watcher' = "null" /\ ready' = FALSE /\ stopped' = "no"
    /\ events' = {}
    /\ updateDelay' = INITIAL_UPDATE_DELAY_MS
    /\ dirtyVms' = <<>>
    /\ vmapiVms' = [v \in VM |-> NoObj]
    /\ vmadmVms' = [v \in VM |-> 0]
    /\ queue' = <<>> /\ job' = NoJob
    /\ lastSeenVms' = [v \in VM |-> NoObj]
    /\ knownDniVms' = [v \in VM |-> "no"]
    /\ purgeTimers' = [v \in VM |-> 0]
    /\ retryDelays' = [v \in VM |-> 0]
    /\ timers' = {}
    /\ UNCHANGED cn

\* The process dies, or the CN reboots; SMF starts it again.
Crash ==
    /\ pc # "off" /\ crashes < MaxCrashes
    /\ crashes' = crashes + 1
    /\ Die

\* self.watcher.start() or self.watcher.stop() after stop() set it to null: an
\* uncaught TypeError.
WatcherIsNull ==
    /\ pc \in {"getVms", "startWatcher", "lookup", "putServer"} /\ watcher = "null"
    /\ UNCHANGED crashes
    /\ Die

-----------------------------------------------------------------------------
CnStep == \E v \in VM : \/ \E s \in Status : CnChange(v, s)
                        \/ NotifyTwice(v)

StartupStep ==
    \/ Start \/ SetupWatcher \/ GetVmapiVms \/ StartWatcher \/ GetVmadmVms
    \/ UpdateVmapiVms \/ InitialUpdateComplete \/ InitialUpdateFailed \/ RetryInitialUpdate

WorkerStep ==
    \/ SkipWhenNotReady \/ LoadFails \/ LoadLive \/ LoadDni \/ LoadGoneDni \/ LoadGone
    \/ LoadMissed \/ PutVm \/ OnVmUpdate \/ OnVmUpdateFailed

TimerStep == \E v \in VM : OnVmEvent(v) \/ DelayedRetry(v) \/ PurgeDeletedDni(v)

Next == CnStep \/ StartupStep \/ WorkerStep \/ TimerStep \/ Stop \/ Crash \/ WatcherIsNull

Spec == Init /\ [][Next]_vars

-----------------------------------------------------------------------------
(***************************************************************************)
(* Properties.                                                             *)
(***************************************************************************)
TypeOK ==
    /\ InventoryTypeOK
    /\ events \subseteq VM
    /\ crashes \in 0..MaxCrashes
    /\ pc \in {"off", "eventSource", "getVms", "startWatcher", "lookup", "putServer",
              "updateLastSeen", "retryWait", "done"}
    /\ watcher \in {"null", "idle", "started"}
    /\ ready \in BOOLEAN
    /\ stopped \in {"no", "starting", "running"}
    /\ updateDelay \in INITIAL_UPDATE_DELAY_MS..MAX_UPDATE_DELAY_MS
    /\ dirtyVms \in Seq(VM)
    /\ vmapiVms \in [VM -> Obj]
    /\ vmadmVms \in [VM -> 0..MaxVer]
    /\ queue \in Seq(VM)
    /\ job \in Job
    /\ (job.phase = "idle") <=> (job.vm = NoVm)
    /\ lastSeenVms \in [VM -> Obj]
    /\ knownDniVms \in [VM -> {"no", "known", "purging"}]
    /\ purgeTimers \in [VM -> Nat]
    /\ retryDelays \in [VM -> {0} \cup (INITIAL_UPDATE_DELAY_MS..MAX_UPDATE_DELAY_MS)]
    /\ timers \subseteq VM

\* VMAPI has of v what is true of it now.  Of a VM hidden by do_not_inventory
\* nothing is promised.
Reported(v) ==
    /\ Now(v) = "live" => vmapi[v] = Active(Len(cn[v]))
    /\ Now(v) = "absent" => vmapi[v].state # "active"

\* The agent will look at v again, or holds its current state in a PUT that
\* was not answered yet.
Owed(v) ==
    \/ v \in events \cup Range(queue) \cup timers
    \/ job.vm = v /\ (job.phase = "loading" \/ job.snap = Len(cn[v]))

WasDni(v) == \E i \in DOMAIN cn[v] : cn[v][i] = "dni"

\* Once startup is complete no change is lost (vm-agent.js:78-79 and 99-104, the order
\* "start the watcher, then look up" of 686-693, and the dirty list of
\* 546-556): whatever VMAPI does not show yet is notified, queued, waiting for
\* its retry or being PUT.  Deletions of VMs that were hidden are excused.
NoLostChange ==
    ready /\ stopped = "no" =>
        \A v \in VM : Reported(v) \/ Owed(v) \/ (Now(v) = "absent" /\ WasDni(v))

\* A VM has a back-off delay exactly while a retry of it is owed: an armed
\* timer has an entry to clear, and an entry is not left behind by a VM that
\* nothing will try again (vm-agent.js:443-451 and 475-501).
BackoffMatchesRetry ==
    ready => \A v \in VM :
        /\ v \in timers => retryDelays[v] > 0
        /\ retryDelays[v] > 0 => v \in timers \/ v \in Range(queue) \/ job.vm = v

\* What VMAPI is told follows the history of each VM: never a version it was
\* not live in, never back to an older one, never dead unless it left
\* (vm-agent.js:73-75, 82-84 and 90-97).  Said by refinement of Inventory.
ImplementsInventory == InventorySpec

\* stop() on a running agent ends its work: the task in the worker sends no PUT
\* any more, and no other task starts one (vm-agent.js:373-377 and 412-416).
QuietAfterStop ==
    [][stopped = "running" /\ job'.phase = "putting" => job.phase = "putting"]_vars

-----------------------------------------------------------------------------
(***************************************************************************)
(* Liveness.  The agent's own steps are taken: callbacks run, timers fire, *)
(* notifications arrive.  Requests may fail any number of times, but one   *)
(* that is tried again and again is answered some day: VMAPI and vmadm     *)
(* come back, which is what the retries without limit are for.             *)
(***************************************************************************)
LoadAnswered == LoadLive \/ LoadDni \/ LoadGoneDni \/ LoadGone \/ LoadMissed

Fairness ==
    /\ WF_vars(Start) /\ WF_vars(SetupWatcher)
    /\ WF_vars(RetryInitialUpdate) /\ WF_vars(InitialUpdateComplete)
    /\ SF_vars(GetVmapiVms) /\ SF_vars(StartWatcher) /\ SF_vars(GetVmadmVms)
    /\ SF_vars(UpdateVmapiVms)
    /\ WF_vars(SkipWhenNotReady) /\ WF_vars(PutVm)
    /\ \A v \in VM :
        /\ WF_vars(OnVmEvent(v)) /\ WF_vars(DelayedRetry(v))
        /\ SF_vars(job.vm = v /\ LoadAnswered)
        /\ SF_vars(job.vm = v /\ OnVmUpdate)

FairSpec == Spec /\ Fairness

\* Once the VMs stop changing, VMAPI comes to show every one of them as it is,
\* whatever failed on the way (vm-agent.js:43, 73-76 and 99-104), unless the agent
\* is stopped (for good, or again and again).
Converges == \A v \in VM : <>[]Reported(v) \/ []<>(stopped # "no")

\* stop() on a running agent leaves nothing going for ever: the task in the
\* worker ends and the retry timers that survive it do not arm new ones
\* (vm-agent.js:443-451 and 909-912).
StopDrains ==
    stopped = "running" ~> stopped = "no" \/ (job.phase = "idle" /\ timers = {})

-----------------------------------------------------------------------------
(***************************************************************************)
(* What the comments say and the code does not do.                         *)
(***************************************************************************)
\* "if the do_not_inventory flage is added to an existing VM, we will not send
\* any updates for this VM" (vm-agent.js:112-113): a VM that vmadm.lookup lists
\* with the flag is not in the payload of the startup PUT.
NoUpdateWhileHidden ==
    pc = "putServer" =>
        \A v \in VM : cn[v][vmadmVms[v]] = "dni" => Payload(v, vmadmVms[v]) = NoObj

\* "The last seen VM object for this VM will be PUT to VMAPI, with state and
\* zone_state fields changed to 'destroyed'" (vm-agent.js:92-93): a VM that
\* was reported and not hidden since is not forgotten when it is deleted.
NoDeletionForgotten ==
    ready /\ stopped = "no" =>
        \A v \in VM : \/ Reported(v) \/ Owed(v)
                      \/ \E i \in DOMAIN cn[v] : i > vmapi[v].ver /\ cn[v][i] = "dni"

\* "kills the queue and tries to ensure that this VmAgent won't do more work"
\* (vm-agent.js:910-911): once stopped it neither sends a PUT nor gets ready.
StopEndsWork ==
    [][stopped # "no" /\ stopped' # "no" =>
        /\ pc' = "putServer" => pc = "putServer"
        /\ ready' => ready]_vars
=============================================================================
