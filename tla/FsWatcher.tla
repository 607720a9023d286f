----------------------------- MODULE FsWatcher -----------------------------
(***************************************************************************)
(* FsWatcher (lib/watchers/fs-watcher.js) behind VmWatcher.  A watch on    *)
(* /etc/zones sets off a pass, processState: it scans the files of all VMs *)
(* and reports what differs from the scan before.  A watch on each VM's    *)
(* config directory reports changes of its files; the directory may be     *)
(* missing for a while, and is then polled.  VmAgent starts and stops the  *)
(* watcher with each attempt of its startup and does a lookup of its own;  *)
(* stop() ends no pass, no retry timer and no polling, so passes may       *)
(* overlap.  Only changes that touch a file are here.  A scan is one step, *)
(* and so is what follows it up to the end of the pass.                    *)
(***************************************************************************)
EXTENDS VmWatcher

SeqExt == INSTANCE SequencesExt

CONSTANTS
    MaxStarts,  \* bound: calls of start() by the owner
    MaxPasses,  \* bound: passes under way at once
    MaxFaults   \* bound: scans that fail, directories removed and other files written

ASSUME FsAssumption == {MaxStarts, MaxPasses} \subseteq Nat \ {0} /\ MaxFaults \in Nat

Null == [v \in VM |-> 0]   \* no scan yet, of which the versions are kept

VARIABLES
    \* The files, and the watches on them.
    xml,            \* xml[v]: the version that wrote /etc/zones/<v>.xml last, or removed it
    config,         \* config[v]: the version that wrote a config file that is there, or 0
    configDir,      \* VMs whose config directory is there
    zonesWatcher,   \* is there a watch on /etc/zones?
    zonesEvent,     \* is there an event of it to be handled?
    configWatchers, \* VMs with a watch on their config directory
    dead,           \* those whose directory was removed since, with an error under way
    configEvents,   \* VMs with an event of the watch to be handled
    \* FsWatcher.
    isDirty, isProcessing, lastSeenVms,
    passes,         \* the passes under way, the oldest first: what each saw, Null while it
                    \* scans, and has it a callback?
    retryTimers,    \* timers that call start() again
    waiting,        \* VMs whose directory is polled (waitThenWatch)
    \* The owner.
    started, starts, looked,
    \* Ghosts.
    firstScan,      \* the versions in the scan that lastSeenVms began with
    overlooked,     \* VMs whose creation only updated an entry they still had; nobody was
                    \* told of them since
    noticed,        \* noticed[v]: the last version of v that raised an event
    clean,          \* did the last pass that ended succeed, with no other under way meanwhile?
    abandoned,      \* VMs whose directory is not watched and not polled any more
    faults          \* how many of these there were

fileVars == <<xml, config, configDir>>
watchVars == <<zonesWatcher, zonesEvent, configWatchers, dead, configEvents, waiting>>
passVars == <<isDirty, isProcessing, lastSeenVms, passes, retryTimers>>
ownerVars == <<started, starts, looked>>
ghosts == <<firstScan, overlooked, noticed, clean, abandoned, faults>>
fsVars == <<fileVars, watchVars, passVars, ownerVars, ghosts>>
vars == <<watcherVars, fsVars>>

Init ==
    /\ VmWatcherInit
    /\ xml = [v \in VM |-> 1] /\ config = [v \in VM |-> 0]
    /\ configDir \in SUBSET {v \in VM : Last(v).exists}
    /\ zonesWatcher = FALSE /\ zonesEvent = FALSE
    /\ configWatchers = {} /\ dead = {} /\ configEvents = {} /\ waiting = {}
    /\ isDirty = FALSE /\ isProcessing = FALSE /\ lastSeenVms = Null
    /\ passes = <<>> /\ retryTimers = 0
    /\ started = FALSE /\ starts = 0 /\ looked = FALSE
    /\ firstScan = Null /\ overlooked = {} /\ noticed = Null /\ clean = FALSE
    /\ abandoned = {} /\ faults = 0

Larger(a, b) == IF a > b THEN a ELSE b

\* The version of v whose last_modified a scan finds: the latest of the files' times.
Visible(v) == IF Last(v).exists THEN Larger(xml[v], config[v]) ELSE xml[v]

-----------------------------------------------------------------------------
(***************************************************************************)
(* The files.                                                              *)
(***************************************************************************)
Fault == faults < MaxFaults /\ faults' = faults + 1

\* Of a change a file watcher sees that it is later, not by how much or in what.
OneTickLater(v) ==
    LET new == cn'[v][Len(cn'[v])]
    IN  new.quota = Last(v).quota /\ new.last_modified <= Last(v).last_modified + 1

\* vmadm writes or removes the VM's .xml file; its directory goes with it, and
\* comes with it or later.
XmlWritten(v) ==
    /\ Created(v) \/ Configured(v) \/ Deleted(v)
    /\ OneTickLater(v)
    /\ xml' = [xml EXCEPT ![v] = Len(cn'[v])]
    /\ \/ Last(v).exists = cn'[v][Len(cn'[v])].exists /\ UNCHANGED <<config, configDir, dead>>
       \/ ~Last(v).exists /\ configDir' \in {configDir, configDir \cup {v}} /\ UNCHANGED <<config, dead>>
       \/ /\ ~cn'[v][Len(cn'[v])].exists
          /\ configDir' = configDir \ {v}
          /\ config' = [config EXCEPT ![v] = 0]
          /\ dead' = dead \cup ({v} \cap configWatchers)
    /\ zonesEvent' = zonesWatcher
    /\ noticed' = IF zonesWatcher THEN [noticed EXCEPT ![v] = xml'[v]] ELSE noticed
    /\ UNCHANGED <<knownVms, emits, told, zonesWatcher, configWatchers, configEvents, waiting,
                   passVars, ownerVars, firstScan, overlooked, clean, abandoned, faults>>

\* Some other file of /etc/zones is written.
ZonesTouched ==
    /\ Fault
    /\ zonesWatcher /\ zonesEvent' = TRUE
    /\ UNCHANGED <<watcherVars, fileVars, zonesWatcher, configWatchers, dead, configEvents, waiting,
                   passVars, ownerVars, firstScan, overlooked, noticed, clean, abandoned>>

\* metadata.json, routes.json or tags.json is written.
ConfigWritten(v) ==
    /\ v \in configDir /\ Configured(v) /\ OneTickLater(v)
    /\ config' = [config EXCEPT ![v] = Len(cn'[v])]
    /\ LET seen == v \in configWatchers \ dead
       IN  /\ configEvents' = IF seen THEN configEvents \cup {v} ELSE configEvents
           /\ noticed' = IF seen /\ lastSeenVms # Null THEN [noticed EXCEPT ![v] = config'[v]]
                                                       ELSE noticed
    /\ UNCHANGED <<knownVms, emits, told, xml, configDir, zonesWatcher, zonesEvent, configWatchers,
                   dead, waiting, passVars, ownerVars, firstScan, overlooked, clean, abandoned, faults>>

\* Provisioning removes the config directory and makes it again; what was noticed
\* of the files in it is gone.
DirRemoved(v) ==
    /\ v \in configDir
    /\ Fault
    /\ configDir' = configDir \ {v}
    /\ config' = [config EXCEPT ![v] = 0]
    /\ dead' = dead \cup ({v} \cap configWatchers)
    /\ noticed' = IF noticed[v] > xml[v] THEN [noticed EXCEPT ![v] = 0] ELSE noticed
    /\ UNCHANGED <<watcherVars, xml, zonesWatcher, zonesEvent, configWatchers, configEvents, waiting,
                   passVars, ownerVars, firstScan, overlooked, clean, abandoned>>

DirCreated(v) ==
    /\ Last(v).exists /\ v \notin configDir
    /\ configDir' = configDir \cup {v}
    /\ UNCHANGED <<watcherVars, xml, config, watchVars, passVars, ownerVars, ghosts>>

-----------------------------------------------------------------------------
(***************************************************************************)
(* FsWatcher.                                                              *)
(***************************************************************************)
\* watchConfig of the VMs vs: those whose directory is not there will be polled.
\* kept are the watches there are already.
WatchConfig(vs, kept) ==
    /\ configWatchers' = kept \cup (vs \cap configDir)
    /\ waiting' = waiting \cup ((vs \ kept) \ configDir)
    /\ abandoned' = abandoned \ vs

\* processState begins, with the passes ps under way.
ProcessState(ps, callback) ==
    /\ passes' = Append([i \in DOMAIN ps |-> [ps[i] EXCEPT !.alone = FALSE]],
                        [callback |-> callback, alone |-> ps = <<>>, seen |-> Null])
    /\ isDirty' = FALSE
    /\ isProcessing' = TRUE

StartBody ==
    /\ Len(passes) < MaxPasses
    /\ zonesWatcher' = TRUE
    /\ ProcessState(passes, TRUE)
    /\ UNCHANGED <<watcherVars, fileVars, zonesEvent, configWatchers, dead, configEvents, waiting,
                   lastSeenVms, ghosts>>

Start ==
    /\ ~started /\ starts < MaxStarts
    /\ started' = TRUE /\ starts' = starts + 1 /\ looked' = FALSE
    /\ StartBody
    /\ UNCHANGED retryTimers

RetryStartup ==
    /\ retryTimers > 0
    /\ retryTimers' = retryTimers - 1
    /\ StartBody
    /\ UNCHANGED ownerVars

Stop ==
    /\ started
    /\ started' = FALSE
    /\ zonesWatcher' = FALSE /\ zonesEvent' = FALSE
    /\ configWatchers' = {} /\ dead' = {} /\ configEvents' = {}
    /\ isDirty' = FALSE /\ isProcessing' = FALSE /\ lastSeenVms' = Null
    /\ UNCHANGED <<watcherVars, fileVars, waiting, passes, retryTimers, starts, looked, ghosts>>

\* Mutant of OnZoneEvent: an event that comes during a pass is dropped.
OnZoneEventUnlessBusy ==
    /\ zonesEvent
    /\ zonesEvent' = FALSE
    /\ IF isProcessing
       THEN UNCHANGED <<passes, isDirty, isProcessing>>
       ELSE Len(passes) < MaxPasses /\ ProcessState(passes, FALSE)
    /\ UNCHANGED <<watcherVars, fileVars, zonesWatcher, configWatchers, dead, configEvents, waiting,
                   lastSeenVms, retryTimers, ownerVars, ghosts>>

\* The watch on /etc/zones: during a pass the state is only marked dirty.
OnZoneEvent ==
    /\ zonesEvent
    /\ zonesEvent' = FALSE
    /\ IF isProcessing
       THEN isDirty' = TRUE /\ UNCHANGED <<passes, isProcessing>>
       ELSE Len(passes) < MaxPasses /\ ProcessState(passes, FALSE)
    /\ UNCHANGED <<watcherVars, fileVars, zonesWatcher, configWatchers, dead, configEvents, waiting,
                   lastSeenVms, retryTimers, ownerVars, ghosts>>

\* getCurrentZones
Scan(p) ==
    /\ p \in DOMAIN passes /\ passes[p].seen = Null
    /\ passes' = [passes EXCEPT ![p].seen = [v \in VM |-> Visible(v)]]
    /\ UNCHANGED <<watcherVars, fileVars, watchVars, isDirty, isProcessing, lastSeenVms,
                   retryTimers, ownerVars, ghosts>>

\* The end of a pass, which runs again if the state has become dirty.
ProcessStateCb(p) ==
    LET others == SeqExt!RemoveAt(passes, p)
    IN  IF isDirty THEN ProcessState(others, FALSE)
        ELSE /\ passes' = others
             /\ isProcessing' = FALSE
             /\ UNCHANGED isDirty

\* A VM that was gone is there again, but is known as if it had been there all the time.
TakenForKnown(seen) ==
    {v \in VM : /\ cn[v][seen[v]].exists /\ ~cn[v][lastSeenVms[v]].exists
                /\ knownVms[v].entry /\ ~knownVms[v].destroyed}

\* Mutant of Compare: deleted VMs are not reported.
CompareWithoutDeletes(seen) ==
    IF lastSeenVms = Null
    THEN firstScan' = seen /\ UNCHANGED <<knownVms, emits, overlooked>>
    ELSE /\ UpdateHandler("fs",
                [v \in VM |-> cn[v][IF cn[v][seen[v]].exists THEN lastSeenVms[v] ELSE seen[v]]],
                [v \in VM |-> cn[v][seen[v]]])
         /\ overlooked' = (overlooked \cup TakenForKnown(seen)) \ emits'
         /\ UNCHANGED firstScan

\* Report what differs from the scan before, if there is one.
Compare(seen) ==
    IF lastSeenVms = Null
    THEN firstScan' = seen /\ UNCHANGED <<knownVms, emits, overlooked>>
    ELSE /\ UpdateHandler("fs", [v \in VM |-> cn[v][lastSeenVms[v]]], [v \in VM |-> cn[v][seen[v]]])
         /\ overlooked' = (overlooked \cup TakenForKnown(seen)) \ emits'
         /\ UNCHANGED firstScan

\* The scan is done: watch the VMs that are there and no others, and report.
EndPass(p) ==
    /\ p \in DOMAIN passes /\ passes[p].seen # Null
    /\ LET seen == passes[p].seen
           there == {v \in VM : cn[v][seen[v]].exists}
       IN  /\ WatchConfig(there, configWatchers \cap there)
           /\ dead' = dead \cap there /\ configEvents' = configEvents \cap there
           /\ Compare(seen)
           /\ lastSeenVms' = seen
    /\ clean' = passes[p].alone
    /\ ProcessStateCb(p)
    /\ UNCHANGED <<cn, told, fileVars, zonesWatcher, zonesEvent, retryTimers, ownerVars, noticed, faults>>

\* Mutant of FailPass: the error is returned before the flags are looked at.
FailPassStillProcessing(p) ==
    /\ p \in DOMAIN passes /\ passes[p].seen = Null
    /\ Fault
    /\ clean' = FALSE
    /\ passes' = SeqExt!RemoveAt(passes, p)
    /\ retryTimers' = retryTimers + IF passes[p].callback THEN 1 ELSE 0
    /\ UNCHANGED <<watcherVars, fileVars, watchVars, isDirty, isProcessing, lastSeenVms, ownerVars,
                   firstScan, overlooked, noticed, abandoned>>

\* Mutant of FailPass: startup is not tried again.
FailPassForGood(p) ==
    /\ p \in DOMAIN passes /\ passes[p].seen = Null
    /\ Fault
    /\ clean' = FALSE
    /\ ProcessStateCb(p)
    /\ UNCHANGED <<watcherVars, fileVars, watchVars, lastSeenVms, retryTimers, ownerVars,
                   firstScan, overlooked, noticed, abandoned>>

\* The scan fails; only a pass of start() is tried again.
FailPass(p) ==
    /\ p \in DOMAIN passes /\ passes[p].seen = Null
    /\ Fault
    /\ clean' = FALSE
    /\ ProcessStateCb(p)
    /\ retryTimers' = retryTimers + IF passes[p].callback THEN 1 ELSE 0
    /\ UNCHANGED <<watcherVars, fileVars, watchVars, lastSeenVms, ownerVars,
                   firstScan, overlooked, noticed, abandoned>>

\* A config directory's watch: the latest time of the config files is reported if
\* it is later than the time seen last.
OnConfigChange(v) ==
    /\ v \in configEvents
    /\ configEvents' = configEvents \ {v}
    /\ LET newer == /\ config[v] # 0 /\ lastSeenVms # Null
                    /\ cn[v][lastSeenVms[v]].exists
                    /\ cn[v][config[v]].last_modified > cn[v][lastSeenVms[v]].last_modified
           seen == IF newer THEN [lastSeenVms EXCEPT ![v] = config[v]] ELSE lastSeenVms
       IN  /\ lastSeenVms' = seen
           /\ IF newer
              THEN UpdateHandler("fs", [u \in VM |-> cn[u][lastSeenVms[u]]], [u \in VM |-> cn[u][seen[u]]])
              ELSE UNCHANGED <<knownVms, emits>>
    /\ overlooked' = overlooked \ emits'
    /\ UNCHANGED <<cn, told, fileVars, zonesWatcher, zonesEvent, configWatchers, dead, waiting,
                   isDirty, isProcessing, passes, retryTimers, ownerVars,
                   firstScan, noticed, clean, abandoned, faults>>

\* The watched directory is gone: an ENOENT error, or it was renamed.
Unwatched(v) ==
    /\ v \in dead
    /\ configWatchers' = configWatchers \ {v}
    /\ dead' = dead \ {v} /\ configEvents' = configEvents \ {v}
    /\ UNCHANGED <<watcherVars, fileVars, zonesWatcher, zonesEvent, passVars, ownerVars,
                   firstScan, overlooked, noticed, clean, faults>>

OnWatcherError(v) ==
    /\ Unwatched(v)
    /\ waiting' = waiting \cup {v}
    /\ UNCHANGED abandoned

OnConfigRenamed(v) ==
    /\ Unwatched(v)
    /\ abandoned' = abandoned \cup {v}
    /\ UNCHANGED waiting

\* Mutant of TryWatching: no retry is scheduled while the directory is missing.
TryWatchingOnce(v) ==
    /\ v \in waiting
    /\ waiting' = waiting \ {v}
    /\ configWatchers' = configWatchers \cup ({v} \cap configDir)
    /\ abandoned' = IF Last(v).exists /\ v \in configDir THEN abandoned \ {v} ELSE abandoned
    /\ UNCHANGED <<watcherVars, fileVars, zonesWatcher, zonesEvent, dead, configEvents,
                   passVars, ownerVars, firstScan, overlooked, noticed, clean, faults>>

\* waitThenWatch looks: it goes on until the directory is there or the VM gone.
TryWatching(v) ==
    /\ v \in waiting
    /\ ~Last(v).exists \/ v \in configDir
    /\ waiting' = waiting \ {v}
    /\ configWatchers' = configWatchers \cup ({v} \cap configDir)
    /\ abandoned' = IF Last(v).exists THEN abandoned \ {v} ELSE abandoned
    /\ UNCHANGED <<watcherVars, fileVars, zonesWatcher, zonesEvent, dead, configEvents,
                   passVars, ownerVars, firstScan, overlooked, noticed, clean, faults>>

\* Past its timeout it gives up.
TimeOut(v) ==
    /\ v \in waiting
    /\ waiting' = waiting \ {v}
    /\ abandoned' = abandoned \cup ({v} \ configWatchers)
    /\ UNCHANGED <<watcherVars, fileVars, zonesWatcher, zonesEvent, configWatchers, dead, configEvents,
                   passVars, ownerVars, firstScan, overlooked, noticed, clean, faults>>

AgentLooks ==
    /\ started /\ ~looked
    /\ looked' = TRUE
    /\ ListenerLooks
    /\ overlooked' = {}
    /\ UNCHANGED <<fileVars, watchVars, passVars, started, starts,
                   firstScan, noticed, clean, abandoned, faults>>

Files(v) == XmlWritten(v) \/ ConfigWritten(v) \/ DirRemoved(v) \/ DirCreated(v)

Next ==
    \/ \E v \in VM : Files(v)
    \/ ZonesTouched
    \/ \E v \in VM : EmitImmediately(v) /\ UNCHANGED fsVars
    \/ Stop \/ AgentLooks
    \/ Start \/ RetryStartup \/ OnZoneEvent
    \/ \E p \in 1..MaxPasses : Scan(p) \/ FailPass(p) \/ EndPass(p)
    \/ \E v \in VM : \/ OnConfigChange(v) \/ OnWatcherError(v) \/ OnConfigRenamed(v)
                     \/ TryWatching(v) \/ TimeOut(v)

\* Ticks, timers and callbacks run, and a scan that is repeated succeeds in the end.
\* No file has to change, no scan to fail, no polling to time out, and nobody has to
\* start or stop the watcher.
Fairness ==
    /\ \A v \in VM : /\ WF_vars(EmitImmediately(v) /\ UNCHANGED fsVars)
                      /\ WF_vars(OnConfigChange(v)) /\ WF_vars(TryWatching(v))
                      /\ WF_vars(OnWatcherError(v) \/ OnConfigRenamed(v))
    /\ WF_vars(AgentLooks) /\ WF_vars(OnZoneEvent) /\ WF_vars(RetryStartup)
    /\ \A p \in 1..MaxPasses : SF_vars(Scan(p)) /\ WF_vars(FailPass(p) \/ EndPass(p))

Spec == Init /\ [][Next]_vars
FairSpec == Spec /\ Fairness

-----------------------------------------------------------------------------
LooksLike(old, new) ==
    old.exists = new.exists /\ (new.exists => FsView(old) = FsView(new))

\* The listener knows of v what raised the last event of it, by being told or from what
\* there was at the first scan; or v is as it was before: of a change that is taken back
\* between two scans the watcher knows nothing.
ToldOfNoticed(v) ==
    LET then == Larger(told[v], firstScan[v])
    IN  then >= noticed[v] \/ \E i \in 1..then : LooksLike(cn[v][i], cn[v][noticed[v]])

Quiet(v) == ~zonesEvent /\ passes = <<>> /\ v \notin configEvents \cup emits

\* A pass that was overtaken by another may take a VM for deleted.
TakenForDeleted(v) == knownVms[v].destroyed /\ Last(v).exists

\* When nothing is under way and the last pass was neither disturbed by another one nor
\* failed, the listener knows of every change that raised an event of one of the
\* watches, whatever came in while the passes ran (fs-watcher.js:405-410, 525-535, 545-554);
\* except of a VM that came back while it was known from an earlier attempt: its creation
\* is not told (vm-watcher.js:252-259).
NoticedIsTold ==
    \A v \in VM : (started /\ looked /\ clean /\ Quiet(v) /\ ~TakenForDeleted(v)
                 /\ v \notin overlooked)
                    => ToldOfNoticed(v)

\* While the watcher is started this comes to be so for every change, unless the last
\* pass failed or was disturbed (fs-watcher.js:525-535, 545-554).
ChangesAreTold ==
    \A v \in VM :
        []<>(\/ ~started \/ ~clean \/ TakenForDeleted(v) \/ v \in overlooked
             \/ (looked /\ ToldOfNoticed(v)))

\* A started watcher scans the VMs, whatever fails at first: "If processing failed, try
\* again in retryDelay ms" (fs-watcher.js:557-568).
Initialised == started ~> (~started \/ lastSeenVms # Null)

\* The config directory of a VM that was scanned is watched in the end, even if it is
\* made, or removed and made again, at any time: unless it was renamed or the polling
\* timed out (fs-watcher.js:194-295, 364-402).
ConfigWatched ==
    \A v \in VM :
        []<>(\/ ~started \/ ~clean \/ v \notin configDir \/ lastSeenVms[v] # Len(cn[v])
             \/ v \in (configWatchers \ dead) \cup abandoned)

\* The following are violated by what the code does; the configurations named show how.

\* No VM that is there is taken for deleted: the pass of a retried start() is overtaken
\* by the pass of an event (Fs_overtaken.cfg).
NoneTakenForDeleted == \A v \in VM : (started /\ Quiet(v)) => ~TakenForDeleted(v)

\* It is so of any VM: one that was deleted while nobody watched has its entry still when
\* it comes back (Fs_cameback.cfg).
NoticedIsToldOfAny ==
    \A v \in VM : (started /\ looked /\ clean /\ Quiet(v) /\ ~TakenForDeleted(v))
                    => ToldOfNoticed(v)

\* Every change that raised an event is told, even if the scan for it fails: only start()
\* tries again (Fs_failed.cfg).
EveryEventIsTold ==
    \A v \in VM : (started /\ looked /\ lastSeenVms # Null /\ Quiet(v) /\ retryTimers = 0
                        /\ ~TakenForDeleted(v))
                    => ToldOfNoticed(v)

\* What was written to the files is seen: a config file that is written before its
\* directory is watched raises no event (Fs_unwatched.cfg).
AllIsSeen ==
    \A v \in VM : (started /\ clean /\ Quiet(v) /\ v \in configWatchers \ dead)
                    => lastSeenVms[v] = Visible(v)

\* A stopped watcher watches nothing: a retry timer, a pass or a polling that was left
\* behind watches again (Fs_revived.cfg).
StoppedWatchesNothing == ~started => ~zonesWatcher /\ configWatchers = {}

\* What the watcher reports is what a watcher may report by the contract of
\* vm-watcher.js:17-30, with lastSeenVms as its view.
W == INSTANCE Watchers WITH Watcher <- {"fs"}, MayLapse <- TRUE,
        view <- [w \in {"fs"} |-> lastSeenVms], first <- [w \in {"fs"} |-> firstScan]

ImplementsWatchers == W!Spec

\* The type invariant; and as long as the watcher counts as busy a pass is under way
\* that will look at isDirty, so that no event waits for a pass that never ends
\* (fs-watcher.js:405-410, 525-533).
FsTypeOK ==
    /\ VmWatcherTypeOK
    /\ {xml, config, lastSeenVms, firstScan, noticed} \subseteq [VM -> 0..MaxVer]
    /\ \A S \in {configDir, configWatchers, configEvents, waiting, abandoned, overlooked} : S \subseteq VM
    /\ dead \subseteq configWatchers /\ configEvents \subseteq configWatchers
    /\ {zonesWatcher, zonesEvent, isDirty, isProcessing, started, looked, clean} \subseteq BOOLEAN
    /\ passes \in Seq([callback : BOOLEAN, alone : BOOLEAN, seen : [VM -> 0..MaxVer]])
    /\ Len(passes) <= MaxPasses
    /\ starts \in 0..MaxStarts /\ retryTimers \in 0..MaxStarts /\ faults \in 0..MaxFaults
    /\ isDirty => isProcessing
    /\ isProcessing => passes # <<>>
=============================================================================
