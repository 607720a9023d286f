------------------------- MODULE VmadmEventsWatcher -------------------------
(***************************************************************************)
(* VmadmEventsWatcher (lib/watchers/vmadm-events-watcher.js) behind        *)
(* VmWatcher, as VmAgent's startup uses it: start(cb) waits for the stream *)
(* of `vmadm events`, the agent then does its own lookup, and an attempt   *)
(* that fails stops the watcher and starts it again later.  A stream that  *)
(* fails is replaced after a timeout, and what was missed is made up for.  *)
(***************************************************************************)
EXTENDS VmWatcher

CONSTANTS
    MaxStreams,   \* bound: calls of vmadm.events()
    MayFailEarly  \* may a stream fail before it is ready?

ASSUME StreamsAssumption == MaxStreams \in Nat \ {0} /\ MayFailEarly \in BOOLEAN

Stream == 1..MaxStreams
NoStream == 0

VARIABLES
    vms,           \* self.vms: versions; 0 for null
    stopWatcher,   \* the stream self.stopWatcher stops
    restarted,     \* self.restarted
    streams,       \* calls of vmadm.events() so far
    stream,        \* the state of each of them
    sent,          \* the versions each stream has sent; those at its start until it is ready
    restartTimers, \* timers of vmadmEventsRestart that are running
    agent,         \* VmAgent: "waiting" for cb, "running" after it, "idle" between attempts
    agentStream,   \* the stream whose ready calls the agent's cb
    looked,        \* has the agent done its lookup in this attempt?
    failed         \* the assertion that ended the process

eventsVars == <<vms, stopWatcher, restarted, streams, stream, sent, restartTimers,
                agent, agentStream, looked, failed>>
vars == <<watcherVars, eventsVars>>

Null == [v \in VM |-> 0]
Current == [v \in VM |-> Len(cn[v])]
Running == failed = "none"
Version(at) == [v \in VM |-> cn[v][at[v]]]

Init ==
    /\ VmWatcherInit
    /\ vms = Null /\ stopWatcher = NoStream /\ restarted = FALSE
    /\ streams = 0
    /\ stream = [s \in Stream |-> "none"]
    /\ sent = [s \in Stream |-> Null]
    /\ restartTimers = 0
    /\ agent = "idle" /\ agentStream = NoStream /\ looked = FALSE
    /\ failed = "none"

\* The bound lets a stream or an attempt fail only when another stream can be had.
MayStartAnother ==
    streams + restartTimers + (IF agent = "idle" THEN 1 ELSE 0) < MaxStreams

-----------------------------------------------------------------------------
\* start(): the assertion of line 42, then vmadm.events().
StartStream ==
    IF stopWatcher # NoStream
    THEN /\ failed' = "watcher already created"
         /\ UNCHANGED <<streams, stream, sent>>
    ELSE /\ streams < MaxStreams
         /\ streams' = streams + 1
         /\ stream' = [stream EXCEPT ![streams'] = "starting"]
         /\ sent' = [sent EXCEPT ![streams'] = Current]
         /\ UNCHANGED failed

AgentStarts ==
    /\ Running /\ agent = "idle"
    /\ StartStream /\ agentStream' = streams'
    /\ agent' = "waiting" /\ looked' = FALSE
    /\ UNCHANGED <<watcherVars, vms, stopWatcher, restarted, restartTimers>>

\* stop(), which knows of a stream only once that is ready.
Stopped(from) ==
    [s \in Stream |-> IF s = stopWatcher THEN "gone" ELSE from[s]]

\* A step of the agent's startup failed: one after start(), or the lookup at VMAPI before
\* it, where stop() meets the stream that a restart timer brought.
AttemptFails ==
    /\ Running /\ agent \in {"running", "idle"}
    /\ agent = "running" => MayStartAnother
    /\ agent' = "idle"
    /\ stream' = Stopped(stream) /\ stopWatcher' = NoStream
    /\ UNCHANGED <<watcherVars, vms, restarted, streams, sent, restartTimers,
                   agentStream, looked, failed>>

AgentStops ==
    /\ Running /\ agent # "stopped"
    /\ agent' = "stopped"
    /\ stream' = Stopped(stream) /\ stopWatcher' = NoStream
    /\ UNCHANGED <<watcherVars, vms, restarted, streams, sent, restartTimers,
                   agentStream, looked, failed>>

\* Mutant of SendMissedUpdates: VMs that went away during the outage are not looked for.
SendMissedUpdatesOfThere(old, new) ==
    UpdateHandler("vmadm", Version([v \in VM |-> IF cn[v][new[v]].exists THEN old[v] ELSE new[v]]),
                  Version(new))

SendMissedUpdates(old, new) == UpdateHandler("vmadm", Version(old), Version(new))

\* The stream is ready with all VMs as they were at some instant since it was started.
\* It gets no error here: that means that vmadm.events is not supported (lines 76-83), and
\* then EventSource has not chosen this watcher.
Ready(s) ==
    /\ Running /\ stream[s] = "starting"
    /\ stopWatcher' = s
    /\ IF restarted /\ vms = Null
       THEN /\ failed' = "self.vms"
            /\ UNCHANGED <<watcherVars, vms, stream, sent, agent>>
       ELSE \E snapshot \in [VM -> 1..MaxVer] :
            /\ \A v \in VM : snapshot[v] \in sent[s][v]..Len(cn[v])
            /\ IF restarted THEN SendMissedUpdates(vms, snapshot)
                            ELSE UNCHANGED <<knownVms, emits>>
            /\ vms' = snapshot
            /\ sent' = [sent EXCEPT ![s] = snapshot]
            /\ stream' = [stream EXCEPT ![s] = "ready"]
            /\ agent' = IF s = agentStream /\ agent = "waiting" THEN "running" ELSE agent
            /\ UNCHANGED <<cn, told, failed>>
    /\ UNCHANGED <<restarted, streams, restartTimers, agentStream, looked>>

\* A stream sends each change of a VM, in order.
Event(s, v) ==
    /\ Running /\ stream[s] = "ready" /\ sent[s][v] < Len(cn[v])
    /\ sent' = [sent EXCEPT ![s][v] = @ + 1]
    /\ vms' = [vms EXCEPT ![v] = sent'[s][v]]
    /\ UpdateHandler("vmadm", Version(sent[s]), Version(sent'[s]))
    /\ UNCHANGED <<cn, told, stopWatcher, restarted, streams, stream, restartTimers,
                   agent, agentStream, looked, failed>>

Breaks(s) ==
    /\ Running /\ MayStartAnother
    /\ stream[s] = "ready" \/ (MayFailEarly /\ stream[s] = "starting")

\* Mutant of StreamFails: the watcher stops and that is all.
StreamFailsForGood(s) ==
    /\ Breaks(s)
    /\ stream' = Stopped([stream EXCEPT ![s] = "gone"]) /\ stopWatcher' = NoStream
    /\ UNCHANGED <<watcherVars, vms, restarted, streams, sent, restartTimers, agent,
                   agentStream, looked, failed>>

\* Mutant of StreamFails: stop() is not called, the handle of the dead stream is kept.
StreamFailsUnstopped(s) ==
    /\ Breaks(s)
    /\ stream' = [stream EXCEPT ![s] = "gone"]
    /\ restartTimers' = restartTimers + 1
    /\ UNCHANGED <<watcherVars, vms, stopWatcher, restarted, streams, sent, agent,
                   agentStream, looked, failed>>

StreamFails(s) ==
    /\ Breaks(s)
    /\ stream' = Stopped([stream EXCEPT ![s] = "gone"]) /\ stopWatcher' = NoStream
    /\ restartTimers' = restartTimers + 1
    /\ UNCHANGED <<watcherVars, vms, restarted, streams, sent, agent, agentStream,
                   looked, failed>>

\* The timer fires, whatever happened since it was set.
VmadmEventsRestart ==
    /\ Running /\ restartTimers > 0
    /\ restartTimers' = restartTimers - 1
    /\ restarted' = TRUE
    /\ StartStream
    /\ UNCHANGED <<watcherVars, vms, stopWatcher, agent, agentStream, looked>>

AgentLooks ==
    /\ Running /\ agent = "running" /\ ~looked
    /\ looked' = TRUE
    /\ told' = Current
    /\ UNCHANGED <<cn, knownVms, emits, vms, stopWatcher, restarted, streams, stream, sent,
                   restartTimers, agent, agentStream, failed>>

Next ==
    \/ \E v \in VM : /\ Running /\ CnChange(v)
                     /\ UNCHANGED <<knownVms, emits, told, eventsVars>>
    \/ \E v \in VM : Running /\ EmitImmediately(v) /\ UNCHANGED eventsVars
    \/ AgentStarts \/ AgentLooks \/ AttemptFails \/ AgentStops
    \/ \E s \in Stream : Ready(s) \/ StreamFails(s)
    \/ \E s \in Stream, v \in VM : Event(s, v)
    \/ VmadmEventsRestart

\* Callbacks and timers run, streams get ready and send what happens, and the agent
\* goes on with its startup.  Failures, stop() and changes need not happen.
Fairness ==
    /\ \A v \in VM : WF_vars(Running /\ EmitImmediately(v) /\ UNCHANGED eventsVars)
    /\ \A s \in Stream : WF_vars(Ready(s)) /\ \A v \in VM : WF_vars(Event(s, v))
    /\ WF_vars(AgentStarts) /\ WF_vars(AgentLooks) /\ WF_vars(VmadmEventsRestart)

Spec == Init /\ [][Next]_vars
FairSpec == Spec /\ Fairness

-----------------------------------------------------------------------------
LooksLike(old, new) ==
    old.exists = new.exists /\ (new.exists => VmadmView(old) = VmadmView(new))

\* The agent looked at v since it became what it is; or v is as it was before, and
\* of a change that is taken back while there is no stream nobody knows.
UpToDate(v) ==
    \/ LooksLike(cn[v][told[v]], Last(v))
    \/ \E i \in 1..(told[v] - 1) : LooksLike(cn[v][i], Last(v))

\* Every stream there is has sent everything, none is missing, and no event waits.
Settled(v) ==
    /\ Running /\ agent = "running" /\ looked /\ stopWatcher # NoStream
    /\ \A s \in Stream : stream[s] = "ready" => sent[s][v] = Len(cn[v])
    /\ v \notin emits

\* What VmWatcher keeps to itself: that v is o when it takes v for destroyed, which the
\* older snapshot of a second stream brings about, or for provisioning.
KnownProvisioning(k) == Has(k.fields, "state") /\ k.fields["state"] = "provisioning"
Withheld(v, o) ==
    /\ o.exists
    /\ \/ knownVms[v].destroyed
       \/ KnownProvisioning(knownVms[v]) /\ o.state # "provisioning"

\* Nothing is missed across failures of the stream, attempts of the agent and even
\* two streams at once: the listener looked at each VM after its last change, if that is
\* not withheld (vmadm-events-watcher.js:123-133: "this ensures no events are missed").
\* Of a VM that goes away between two attempts of the agent and comes back nothing is
\* told, since its entry in knownVms is still there: Events_cameback.cfg.
NothingMissed ==
    \A v \in VM : (Settled(v) /\ ~CameBack(v) /\ ~Withheld(v, Last(v))) => UpToDate(v)

\* The same of every VM.  Not so: Events_cameback.cfg, Events_withheld.cfg.
NothingMissedOfAny == \A v \in VM : Settled(v) => UpToDate(v)

\* However often the stream fails, the agent comes to look at every VM after its
\* last change, unless it is stopped or the process ends (lines 104-111).
ChangesAreTold ==
    \A v \in VM : []<>(\/ ~Running \/ agent = "stopped"
                       \/ looked /\ (UpToDate(v) \/ CameBack(v) \/ Withheld(v, Last(v))))

\* start() is never called while a stream is there: assert(!self.stopWatcher,
\* 'watcher already created') at line 42.  Violated: Events_twice.cfg.
NeverCreatedTwice == failed # "watcher already created"

\* A restart has the VMs of before to compare with: assert.object(self.vms,
\* 'self.vms') at line 90.  Violated: Events_early.cfg.
RestartKnowsVms == failed # "self.vms"

\* A stopped agent "won't do more work and won't block the caller from shutting down"
\* (lib/vm-agent.js:909-912): it has no stream.  Violated: Events_revived.cfg.
StoppedHasNoStream == agent = "stopped" => \A s \in Stream : stream[s] # "ready"

\* The agent does not wait for its watcher for ever: "If there are errors in any part
\* of this, the entire process will be restarted after a delay" (lib/vm-agent.js:
\* 72-73).  Violated: Events_hang.cfg.
StartupEnds == []<>(~Running \/ agent # "waiting")

\* The type invariant; stop() has the handle of a stream that is there
\* (vmadm-events-watcher.js:86, 104-121), whichever of two streams failed.
EventsTypeOK ==
    /\ VmWatcherTypeOK
    /\ vms \in [VM -> 0..MaxVer] /\ sent \in [Stream -> [VM -> 0..MaxVer]]
    /\ stream \in [Stream -> {"none", "starting", "ready", "gone"}]
    /\ {stopWatcher, agentStream, streams, restartTimers} \subseteq 0..MaxStreams
    /\ agent \in {"idle", "waiting", "running", "stopped"}
    /\ {restarted, looked} \subseteq BOOLEAN
    /\ failed \in {"none", "watcher already created", "self.vms"}
    /\ (Running /\ stopWatcher # NoStream) => stream[stopWatcher] = "ready"
=============================================================================
