-------------------------- MODULE PeriodicWatcher --------------------------
(***************************************************************************)
(* PeriodicWatcher (lib/watchers/periodic-watcher.js) behind VmWatcher: a  *)
(* loop of lookup, comparison with the last sample and a timer.  VmAgent   *)
(* starts and stops it with each attempt of its startup, and does a lookup *)
(* of its own after start() (lib/vm-agent.js:685-694).  A stop() does not  *)
(* end a lookup, so there may be more than one loop.                       *)
(***************************************************************************)
EXTENDS VmWatcher

CONSTANT MaxStarts   \* bound: calls of start()
ASSUME StartsAssumption == MaxStarts \in Nat \ {0}

Loop == 1..MaxStarts
NoTimer == 0

VARIABLES
    sample,        \* PeriodicWatcher's self.knownVms: versions; 0 before the first sample
    disabled,      \* self.disabled; TRUE also before the first start()
    starts,        \* calls of start() so far; each begins a loop
    loop,          \* where each loop is: "asked" and "answered" are its lookup,
                   \* "timer" the wait for the next one
    answer,        \* what vmadm found for a loop whose lookup is answered
    periodicTimer, \* the loop that set self.periodicTimer last
    looked,        \* has the listener done its lookup since start()?
    firstSample    \* ghost: the versions of the first sample

loopVars == <<sample, disabled, starts, loop, answer, periodicTimer, looked, firstSample>>
vars == <<watcherVars, loopVars>>

Unsampled == [v \in VM |-> 0]

Init ==
    /\ VmWatcherInit
    /\ sample = Unsampled /\ firstSample = Unsampled
    /\ disabled = TRUE /\ starts = 0 /\ periodicTimer = NoTimer
    /\ loop = [l \in Loop |-> "none"]
    /\ answer = [l \in Loop |-> Unsampled]
    /\ looked = FALSE

-----------------------------------------------------------------------------
Start ==
    /\ disabled /\ starts < MaxStarts
    /\ disabled' = FALSE
    /\ starts' = starts + 1
    /\ loop' = [loop EXCEPT ![starts'] = "asked"]
    /\ looked' = FALSE
    /\ UNCHANGED <<watcherVars, sample, answer, periodicTimer, firstSample>>

Stop ==
    /\ ~disabled
    /\ disabled' = TRUE
    /\ loop' = [l \in Loop |-> IF l = periodicTimer /\ loop[l] = "timer" THEN "none" ELSE loop[l]]
    /\ UNCHANGED <<watcherVars, sample, starts, answer, periodicTimer, looked, firstSample>>

\* vmadm looks at all VMs at one instant; its answer arrives some time later.
Lookup(l) ==
    /\ loop[l] = "asked"
    /\ loop' = [loop EXCEPT ![l] = "answered"]
    /\ answer' = [answer EXCEPT ![l] = [v \in VM |-> Len(cn[v])]]
    /\ UNCHANGED <<watcherVars, sample, disabled, starts, periodicTimer, looked, firstSample>>

\* Mutant of ScheduleNext: the next lookup is scheduled although disabled.
ScheduleNextAlways(l, from) ==
    /\ loop' = [from EXCEPT ![l] = "timer"]
    /\ periodicTimer' = l

ScheduleNext(l, from) ==
    IF disabled THEN /\ loop' = [from EXCEPT ![l] = "none"]
                     /\ UNCHANGED periodicTimer
                ELSE /\ loop' = [from EXCEPT ![l] = "timer"]
                     /\ periodicTimer' = l

\* Mutant of LookupFails: the error is returned before the timer is set.
LookupFailsForGood(l) ==
    /\ loop[l] = "asked"
    /\ loop' = [loop EXCEPT ![l] = "none"]
    /\ UNCHANGED <<watcherVars, sample, disabled, starts, answer, periodicTimer, looked, firstSample>>

LookupFails(l) ==
    /\ loop[l] = "asked"
    /\ ScheduleNext(l, loop)
    /\ UNCHANGED <<watcherVars, sample, disabled, starts, answer, looked, firstSample>>

\* Mutant of HandleVmobjs: of the VMs that were known none is found to be gone.
HandleVmobjsFindsNoDeleted(l) ==
    /\ loop[l] = "answered"
    /\ IF sample = Unsampled
       THEN /\ firstSample' = answer[l]
            /\ UNCHANGED watcherVars
       ELSE LET old == [v \in VM |-> cn[v][sample[v]]]
                new == [v \in VM |-> cn[v][answer[l][v]]]
            IN  /\ UpdateHandler("periodic", [v \in VM |-> IF new[v].exists THEN old[v] ELSE new[v]], new)
                /\ UNCHANGED <<cn, told, firstSample>>
    /\ sample' = answer[l]
    /\ ScheduleNext(l, loop)
    /\ answer' = [answer EXCEPT ![l] = Unsampled]
    /\ UNCHANGED <<disabled, starts, looked>>

\* The first sample is only stored; a later one is compared and told.
HandleVmobjs(l) ==
    /\ loop[l] = "answered"
    /\ IF sample = Unsampled
       THEN /\ firstSample' = answer[l]
            /\ UNCHANGED watcherVars
       ELSE /\ UpdateHandler("periodic", [v \in VM |-> cn[v][sample[v]]],
                                         [v \in VM |-> cn[v][answer[l][v]]])
            /\ UNCHANGED <<cn, told, firstSample>>
    /\ sample' = answer[l]
    /\ ScheduleNext(l, loop)
    /\ answer' = [answer EXCEPT ![l] = Unsampled]
    /\ UNCHANGED <<disabled, starts, looked>>

TimerFires(l) ==
    /\ loop[l] = "timer"
    /\ loop' = [loop EXCEPT ![l] = "asked"]
    /\ UNCHANGED <<watcherVars, sample, disabled, starts, answer, periodicTimer, looked, firstSample>>

\* The listener's own lookup, once it has started the watcher.
AgentLooks ==
    /\ ~disabled /\ ~looked
    /\ looked' = TRUE
    /\ ListenerLooks
    /\ UNCHANGED <<sample, disabled, starts, loop, answer, periodicTimer, firstSample>>

Next ==
    \/ \E v \in VM : /\ CnChange(v) /\ UNCHANGED <<knownVms, emits, told, loopVars>>
    \/ \E v \in VM : EmitImmediately(v) /\ UNCHANGED loopVars
    \/ Start \/ Stop \/ AgentLooks
    \/ \E l \in Loop : Lookup(l) \/ LookupFails(l) \/ HandleVmobjs(l) \/ TimerFires(l)

\* Timers and callbacks run; lookups succeed again and again when repeated; the
\* listener does its lookup.  Nobody has to start, stop or change a VM.
Fairness ==
    /\ \A v \in VM : WF_vars(EmitImmediately(v) /\ UNCHANGED loopVars)
    /\ WF_vars(AgentLooks)
    /\ \A l \in Loop :
          SF_vars(Lookup(l)) /\ WF_vars(HandleVmobjs(l)) /\ WF_vars(TimerFires(l))
          /\ WF_vars(Lookup(l) \/ LookupFails(l))

Spec == Init /\ [][Next]_vars
FairSpec == Spec /\ Fairness

-----------------------------------------------------------------------------
Newer(a, b) == IF a > b THEN a ELSE b
LooksLike(old, new) ==
    old.exists = new.exists /\ (new.exists => VmadmView(old) = VmadmView(new))

\* The listener knows of v what the periodic watcher can see of it now, by being
\* told or from what there was when the first sample was taken; or v is as it was
\* before: of a change that is taken back between two samples the watcher knows nothing.
UpToDate(v) ==
    LET then == Newer(told[v], firstSample[v])
    IN  \/ LooksLike(cn[v][then], Last(v))
        \/ \E i \in 1..(then - 1) : LooksLike(cn[v][i], Last(v))

\* When the last sample is current and no event waits, the listener that did its
\* lookup was told of what changed since: even if two loops run and an older sample
\* is compared after a newer one (periodic-watcher.js:179-231, 286-288).
SampledIsTold ==
    \A v \in VM : (looked /\ sample[v] = Len(cn[v]) /\ v \notin emits) => UpToDate(v)

\* While the watcher is started the listener is told of every change, whatever
\* lookups fail and however often it was stopped and started (periodic-watcher.js:
\* 250-258: "We're going to try again").
ChangesAreTold == \A v \in VM : []<>(disabled \/ (looked /\ UpToDate(v)))

\* After stop() the lookups under way end and no new one begins, unless start() is
\* called again (periodic-watcher.js:300-309).
StopEndsPolling == disabled ~> (~disabled \/ \A l \in Loop : loop[l] = "none")

\* No timer is left running once the watcher is stopped: stop() is to "prevent new
\* timers from being created, then stop existing if there is one"
\* (periodic-watcher.js:303).  Violated: Periodic_loops.cfg.
StoppedHasNoTimer == disabled => \A l \in Loop : loop[l] # "timer"

\* The agent starts its watcher before its own lookup "to avoid a race where things
\* change during or just after the vmadm lookup" (lib/vm-agent.js:686-688): a change
\* of quota, which no other watcher of the default source sees, is told when it is
\* later than that lookup.  Violated: Periodic_firstsample.cfg.
QuotaChangesTold ==
    \A v \in VM :
        (looked /\ sample[v] = Len(cn[v]) /\ v \notin emits
            /\ cn[v][told[v]].exists /\ Last(v).exists)
        => cn[v][told[v]].quota = Last(v).quota

\* What the watcher reports is what a watcher may report by the contract of
\* vm-watcher.js:17-30, whatever its loops do: its sample is what it saw last.
W == INSTANCE Watchers WITH Watcher <- {"periodic"}, MayLapse <- TRUE,
        view <- [w \in {"periodic"} |-> sample], first <- [w \in {"periodic"} |-> firstSample]

ImplementsWatchers == W!Spec

\* The type invariant; and of a watcher that was started once, the timer is the one
\* stop() cancels, and there is none after stop() (periodic-watcher.js:286-309).
PeriodicTypeOK ==
    /\ VmWatcherTypeOK
    /\ sample \in [VM -> 0..MaxVer] /\ firstSample \in [VM -> 0..MaxVer]
    /\ answer \in [Loop -> [VM -> 0..MaxVer]]
    /\ loop \in [Loop -> {"none", "asked", "answered", "timer"}]
    /\ periodicTimer \in Loop \cup {NoTimer}
    /\ starts \in 0..MaxStarts
    /\ {disabled, looked} \subseteq BOOLEAN
    /\ starts <= 1 => \A l \in Loop : loop[l] = "timer" => l = periodicTimer /\ ~disabled
=============================================================================
