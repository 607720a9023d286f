---------------------------- MODULE EventsProofs ----------------------------
(***************************************************************************)
(* Proofs about VmadmEventsWatcher: its type invariant, by which stop()    *)
(* has the handle of a stream that is there; and that nothing is missed    *)
(* across failures of the streams.                                         *)
(***************************************************************************)
EXTENDS VmadmEventsWatcher, VmWatcherProofs

\* The streams there were, those that timers will ask for and the one that the agent's
\* next attempt will ask for are within the bound.
StreamsInv ==
    /\ streams \in Nat /\ restartTimers \in Nat
    /\ streams + restartTimers <= MaxStreams
    /\ agent = "idle" => streams + restartTimers < MaxStreams

HandleInv ==
    /\ stopWatcher \in Stream \cup {NoStream} /\ agentStream \in 0..MaxStreams
    /\ stream \in [Stream -> {"none", "starting", "ready", "gone"}]
    /\ (Running /\ stopWatcher # NoStream) => stream[stopWatcher] = "ready"

\* What a stream has sent are versions, from its start.
SentInv ==
    /\ vms \in [VM -> 0..MaxVer] /\ sent \in [Stream -> [VM -> 0..MaxVer]]
    /\ \A s \in Stream : stream[s] \in {"starting", "ready"} => Versions(sent[s])

FlagsInv ==
    /\ agent \in {"idle", "waiting", "running", "stopped"}
    /\ restarted \in BOOLEAN /\ looked \in BOOLEAN
    /\ failed \in {"none", "watcher already created", "self.vms"}

EventsInv == WatcherInv /\ StreamsInv /\ HandleInv /\ SentInv /\ FlagsInv

LEMMA StreamFacts ==
    /\ MaxStreams \in Nat \ {0} /\ Stream = 1..MaxStreams /\ NoStream \notin Stream
BY StreamsAssumption DEF Stream, NoStream

\* A call of vmadm.events() by the agent, and one by a timer, stay within the bound.
LEMMA OneMore ==
    ASSUME NEW old \in Nat, NEW new, NEW timers \in Nat, NEW timersLeft, NEW bound \in Nat,
           new \in {old, old + 1}
    PROVE  /\ old + timers < bound =>
                new \in 0..bound /\ new \in Nat /\ new + timers <= bound
           /\ timers > 0 /\ timersLeft = timers - 1 =>
                new \in Nat /\ timersLeft \in Nat /\ new + timersLeft <= old + timers
<1>1. CASE new = old
    BY <1>1
<1>2. CASE new = old + 1
    BY <1>2
<1> QED
    BY <1>1, <1>2

LEMMA NotMore ==
    ASSUME NEW a \in Nat, NEW b \in Nat, NEW c \in Nat, NEW d \in Nat, NEW bound \in Nat,
           a + b <= c + d
    PROVE  /\ c + d <= bound => a + b <= bound
           /\ c + d < bound => a + b < bound
OBVIOUS

LEMMA EventsInvType == EventsInv => EventsTypeOK
<1> SUFFICES ASSUME EventsInv PROVE EventsTypeOK
    OBVIOUS
<1>1. VmWatcherTypeOK
    BY WatcherInvType DEF EventsInv
<1>2. {stopWatcher, agentStream, streams, restartTimers} \subseteq 0..MaxStreams
    <2>1. stopWatcher \in 0..MaxStreams
        BY StreamFacts DEF EventsInv, HandleInv, NoStream
    <2>2. streams \in 0..MaxStreams /\ restartTimers \in 0..MaxStreams
        BY StreamFacts DEF EventsInv, StreamsInv
    <2> QED
        BY <2>1, <2>2 DEF EventsInv, HandleInv
<1>3. {restarted, looked} \subseteq BOOLEAN
    BY DEF EventsInv, FlagsInv
<1> QED
    BY <1>1, <1>2, <1>3 DEF EventsInv, HandleInv, SentInv, FlagsInv, EventsTypeOK

LEMMA EventsInit == Init => EventsInv
<1> SUFFICES ASSUME Init PROVE EventsInv
    OBVIOUS
<1>1. WatcherInv
    BY WatcherInit DEF Init
<1>2. StreamsInv
    BY StreamFacts DEF Init, StreamsInv
<1>3. HandleInv
    <2>1. stopWatcher = NoStream /\ agentStream = 0 /\ stream = [s \in Stream |-> "none"]
        BY DEF Init, NoStream
    <2> QED
        BY <2>1, StreamFacts DEF HandleInv
<1>4. SentInv
    BY Bounds DEF Init, SentInv, Null
<1>5. FlagsInv
    <2>1. restarted \in BOOLEAN /\ looked \in BOOLEAN
        BY Zenon DEF Init
    <2> QED
        BY <2>1 DEF Init, FlagsInv
<1> QED
    BY <1>1, <1>2, <1>3, <1>4, <1>5 DEF EventsInv

-----------------------------------------------------------------------------
\* What was sent stays versions, whatever happens on the CN.
LEMMA SentStays ==
    ASSUME EventsInv, UNCHANGED <<vms, sent, stream>>,
           \/ UNCHANGED cn
           \/ \E v \in VM : CnChange(v)
    PROVE  SentInv'
<1>1. \A k : Versions(k) => Versions(k)'
    BY VersionsStay DEF EventsInv
<1> QED
    BY <1>1 DEF EventsInv, SentInv, Versions

\* No stream is started or ends.
LEMMA StreamsStay ==
    ASSUME EventsInv, UNCHANGED <<stopWatcher, streams, stream, restartTimers, agent, agentStream, failed>>
    PROVE  StreamsInv' /\ HandleInv'
BY DEF EventsInv, StreamsInv, HandleInv, Running

\* A stream is asked for, or the assertion fails.
LEMMA StartStreamKeeps ==
    ASSUME EventsInv, Running, StartStream, UNCHANGED <<cn, stopWatcher, vms>>
    PROVE  /\ SentInv'
           /\ streams' \in {streams, streams + 1} /\ streams' <= MaxStreams
           /\ stream' \in [Stream -> {"none", "starting", "ready", "gone"}]
           /\ failed' \in {"none", "watcher already created"}
           /\ (Running' /\ stopWatcher' # NoStream) => stream'[stopWatcher'] = "ready"
           /\ stopWatcher # NoStream => streams' = streams
<1>1. streams \in Nat /\ streams <= MaxStreams
    BY StreamFacts DEF EventsInv, StreamsInv
<1>2. CASE stopWatcher # NoStream
    <2>1. failed' = "watcher already created" /\ UNCHANGED <<streams, stream, sent>>
        BY <1>2 DEF StartStream
    <2>2. SentInv'
        BY <2>1, SentStays
    <2> QED
        BY <1>1, <1>2, <2>1, <2>2 DEF EventsInv, HandleInv, Running
<1>3. CASE stopWatcher = NoStream
    <2> DEFINE s == streams + 1
    <2>1. /\ streams < MaxStreams /\ streams' = s /\ failed' = failed
          /\ stream' = [stream EXCEPT ![s] = "starting"] /\ sent' = [sent EXCEPT ![s] = Current]
        BY <1>3 DEF StartStream
    <2>2. s \in Stream /\ s <= MaxStreams
        BY <1>1, <2>1, StreamFacts
    <2>3. Versions(Current) /\ Current \in [VM -> 0..MaxVer]
        BY NowVersions, VersionsTyped DEF EventsInv, Current
    <2> HIDE DEF s
    <2>4. \A u \in Stream : stream'[u] \in {"starting", "ready"} => Versions(sent'[u])
        BY <2>1, <2>2, <2>3 DEF EventsInv, SentInv, HandleInv
    <2>5. sent' \in [Stream -> [VM -> 0..MaxVer]]
        BY <2>1, <2>2, <2>3 DEF EventsInv, SentInv
    <2>6. SentInv'
        BY <2>4, <2>5 DEF EventsInv, SentInv, Versions
    <2>7. stream' \in [Stream -> {"none", "starting", "ready", "gone"}]
        BY <2>1, <2>2 DEF EventsInv, HandleInv
    <2> QED
        BY <1>3, <2>1, <2>2, <2>6, <2>7 DEF Running, s
<1> QED
    BY <1>2, <1>3

\* stop() leaves no handle, and the other streams as they are.
LEMMA StoppedKeeps ==
    ASSUME EventsInv, NEW from \in [Stream -> {"none", "starting", "ready", "gone"}],
           \A s \in Stream : from[s] \in {stream[s], "gone"},
           stream' = Stopped(from), stopWatcher' = NoStream, UNCHANGED <<cn, vms, sent, agentStream>>
    PROVE  HandleInv' /\ SentInv'
<1>1. \A s \in Stream : stream'[s] \in {from[s], "gone"}
    BY DEF Stopped
<1>2. stream' \in [Stream -> {"none", "starting", "ready", "gone"}]
    BY DEF Stopped
<1>3. HandleInv'
    BY <1>2 DEF EventsInv, HandleInv
<1>4. SentInv'
    BY <1>1 DEF EventsInv, SentInv, Versions
<1> QED
    BY <1>3, <1>4

LEMMA ReadyKeeps ==
    ASSUME EventsInv, NEW s \in Stream, Ready(s)
    PROVE  EventsInv'
<1>1. /\ Running /\ stream[s] = "starting" /\ stopWatcher' = s
      /\ UNCHANGED <<restarted, streams, restartTimers, agentStream, looked>>
    BY DEF Ready
<1>2. CASE restarted /\ vms = Null
    <2>1. failed' = "self.vms" /\ UNCHANGED watcherVars /\ UNCHANGED <<vms, stream, sent, agent>>
        BY <1>2 DEF Ready
    <2>2. WatcherInv' /\ UNCHANGED cn
        BY <2>1, StutterInv DEF watcherVars, EventsInv
    <2>3. SentInv'
        BY <2>1, <2>2, SentStays
    <2>4. StreamsInv' /\ HandleInv' /\ FlagsInv'
        BY <1>1, <2>1 DEF EventsInv, StreamsInv, HandleInv, FlagsInv, Running
    <2> QED
        BY <2>2, <2>3, <2>4 DEF EventsInv
<1>3. CASE ~(restarted /\ vms = Null)
    <2>1. PICK snapshot \in [VM -> 1..MaxVer] :
            /\ \A v \in VM : snapshot[v] \in sent[s][v]..Len(cn[v])
            /\ IF restarted THEN SendMissedUpdates(vms, snapshot) ELSE UNCHANGED <<knownVms, emits>>
            /\ vms' = snapshot
            /\ sent' = [sent EXCEPT ![s] = snapshot]
            /\ stream' = [stream EXCEPT ![s] = "ready"]
            /\ agent' = IF s = agentStream /\ agent = "waiting" THEN "running" ELSE agent
            /\ UNCHANGED <<cn, told, failed>>
        BY <1>3 DEF Ready
    <2>2. WatcherInv'
        <3>1. CASE restarted
            BY <2>1, <3>1, ReportInv DEF SendMissedUpdates, EventsInv
        <3>2. CASE ~restarted
            BY <2>1, <3>2, StutterInv DEF watcherVars, EventsInv
        <3> QED
            BY <3>1, <3>2
    <2>3. Versions(snapshot) /\ snapshot \in [VM -> 0..MaxVer]
        <3>1. \A v \in VM : snapshot[v] <= Len(cn[v])
            BY <2>1
        <3> QED
            BY <3>1, VersionsTyped DEF Versions
    <2>4. SentInv'
        <3>1. \A u \in Stream : u # s => stream'[u] = stream[u] /\ sent'[u] = sent[u]
            BY <2>1 DEF EventsInv, HandleInv, SentInv
        <3>2. sent'[s] = snapshot /\ sent' \in [Stream -> [VM -> 0..MaxVer]]
            BY <2>1, <2>3 DEF EventsInv, SentInv
        <3> QED
            BY <2>1, <2>3, <3>1, <3>2 DEF EventsInv, SentInv, Versions
    <2>5. HandleInv'
        BY <1>1, <2>1 DEF EventsInv, HandleInv, Running
    <2>6. StreamsInv'
        BY <1>1, <2>1 DEF EventsInv, StreamsInv
    <2>7. FlagsInv'
        BY <1>1, <2>1 DEF EventsInv, FlagsInv
    <2> QED
        BY <2>2, <2>4, <2>5, <2>6, <2>7 DEF EventsInv
<1> QED
    BY <1>2, <1>3

LEMMA EventKeeps ==
    ASSUME EventsInv, NEW s \in Stream, NEW v \in VM, Event(s, v)
    PROVE  EventsInv'
<1>1. /\ Running /\ stream[s] = "ready" /\ sent[s][v] < Len(cn[v])
      /\ sent' = [sent EXCEPT ![s][v] = sent[s][v] + 1] /\ vms' = [vms EXCEPT ![v] = sent'[s][v]]
      /\ UpdateHandler("vmadm", Version(sent[s]), Version(sent'[s]))
      /\ UNCHANGED <<cn, told>> /\ UNCHANGED <<restarted, looked>>
      /\ UNCHANGED <<stopWatcher, streams, stream, restartTimers, agent, agentStream, failed>>
    BY DEF Event
<1>2. WatcherInv'
    BY <1>1, ReportInv DEF EventsInv
<1>3. Versions(sent[s]) /\ Len(cn[v]) \in 1..MaxVer
    BY <1>1 DEF EventsInv, SentInv, WatcherInv
<1> DEFINE k == [sent[s] EXCEPT ![v] = sent[s][v] + 1]
<1>4. sent[s][v] + 1 \in 1..MaxVer /\ sent[s][v] + 1 <= Len(cn[v])
    BY <1>1, <1>3, Bounds DEF Versions
<1>5. Versions(k) /\ k \in [VM -> 0..MaxVer]
    <2>1. Versions(k)
        BY <1>3, <1>4 DEF Versions
    <2> QED
        BY <2>1, VersionsTyped
<1>6. sent' = [sent EXCEPT ![s] = k]
    BY <1>1 DEF EventsInv, SentInv
<1> HIDE DEF k
<1>7. sent'[s] = k /\ (\A u \in Stream : u # s => sent'[u] = sent[u]) /\ sent' \in [Stream -> [VM -> 0..MaxVer]]
    BY <1>5, <1>6 DEF EventsInv, SentInv
<1>8. vms' \in [VM -> 0..MaxVer]
    BY <1>1, <1>5, <1>7 DEF EventsInv, SentInv
<1>9. SentInv'
    BY <1>1, <1>5, <1>7, <1>8 DEF EventsInv, SentInv, Versions
<1>10. StreamsInv' /\ HandleInv'
    BY <1>1, StreamsStay
<1>11. FlagsInv'
    BY <1>1 DEF EventsInv, FlagsInv
<1> QED
    BY <1>2, <1>9, <1>10, <1>11 DEF EventsInv

LEMMA EventsStep == EventsInv /\ [Next]_vars => EventsInv'
<1> SUFFICES ASSUME EventsInv, [Next]_vars PROVE EventsInv'
    OBVIOUS
<1>1. ASSUME NEW v \in VM, CnChange(v), UNCHANGED <<knownVms, emits, told, eventsVars>>
      PROVE  EventsInv'
    <2>1. WatcherInv' /\ SentInv'
        BY <1>1, CnChangeInv, SentStays DEF EventsInv, eventsVars
    <2>2. StreamsInv' /\ HandleInv'
        BY <1>1, StreamsStay DEF eventsVars
    <2>3. FlagsInv'
        BY <1>1 DEF eventsVars, EventsInv, FlagsInv
    <2> QED
        BY <2>1, <2>2, <2>3 DEF EventsInv
<1>2. ASSUME WatcherInv', UNCHANGED cn, UNCHANGED <<vms, stopWatcher, restarted, streams, stream, sent,
             restartTimers, agent, agentStream, failed>>, looked' \in BOOLEAN
      PROVE  EventsInv'
    <2>1. StreamsInv' /\ HandleInv' /\ SentInv'
        BY <1>2, StreamsStay, SentStays
    <2>2. FlagsInv'
        BY <1>2 DEF EventsInv, FlagsInv
    <2> QED
        BY <1>2, <2>1, <2>2 DEF EventsInv
<1>3. ASSUME NEW v \in VM, EmitImmediately(v), UNCHANGED eventsVars PROVE EventsInv'
    <2>1. WatcherInv' /\ UNCHANGED cn
        BY <1>3, EmitInv DEF EmitImmediately, EventsInv
    <2>2. looked' \in BOOLEAN
        BY <1>3 DEF eventsVars, EventsInv, FlagsInv
    <2> QED
        BY <1>2, <1>3, <2>1, <2>2 DEF eventsVars
<1>4. CASE AgentLooks
    <2>1. ListenerLooks /\ looked' \in BOOLEAN
        BY <1>4 DEF AgentLooks, ListenerLooks, Current
    <2>2. WatcherInv' /\ UNCHANGED cn
        BY <2>1, LooksInv DEF ListenerLooks, EventsInv
    <2> QED
        BY <1>2, <1>4, <2>1, <2>2 DEF AgentLooks
<1>5. CASE AgentStarts
    <2>1. /\ Running /\ agent = "idle" /\ StartStream /\ agentStream' = streams' /\ agent' = "waiting"
          /\ UNCHANGED watcherVars /\ UNCHANGED <<vms, stopWatcher, restarted, restartTimers>>
          /\ looked' \in BOOLEAN
        BY <1>5 DEF AgentStarts
    <2>2. WatcherInv' /\ UNCHANGED cn
        BY <2>1, StutterInv DEF watcherVars, EventsInv
    <2>3. /\ SentInv'
          /\ streams' \in {streams, streams + 1} /\ streams' <= MaxStreams
          /\ stream' \in [Stream -> {"none", "starting", "ready", "gone"}]
          /\ failed' \in {"none", "watcher already created"}
          /\ (Running' /\ stopWatcher' # NoStream) => stream'[stopWatcher'] = "ready"
        BY <2>1, <2>2, StartStreamKeeps
    <2>4. streams \in Nat /\ restartTimers \in Nat /\ streams + restartTimers < MaxStreams
        BY <2>1 DEF EventsInv, StreamsInv
    <2>10. streams' \in {streams, streams + 1} /\ restartTimers' = restartTimers
        BY <2>1, <2>3
    <2>5. /\ streams' \in Nat /\ restartTimers' \in Nat
          /\ streams' + restartTimers' <= MaxStreams /\ streams' \in 0..MaxStreams
        <3>1. MaxStreams \in Nat
            BY StreamFacts
        <3>2. streams' \in 0..MaxStreams /\ streams' \in Nat /\ streams' + restartTimers <= MaxStreams
            BY <2>4, <2>10, <3>1, OneMore
        <3> QED
            BY <2>4, <2>10, <3>2
    <2>6. agent' # "idle"
        BY <2>1
    <2>7. StreamsInv'
        BY <2>5, <2>6, StreamFacts DEF StreamsInv
    <2>8. HandleInv'
        BY <2>1, <2>3, <2>5 DEF EventsInv, HandleInv
    <2>9. FlagsInv'
        BY <2>1, <2>3 DEF EventsInv, FlagsInv
    <2> QED
        BY <2>2, <2>3, <2>7, <2>8, <2>9 DEF EventsInv
<1>6. CASE AttemptFails \/ AgentStops
    <2>1. /\ stream' = Stopped(stream) /\ stopWatcher' = NoStream /\ UNCHANGED watcherVars
          /\ UNCHANGED <<vms, restarted, streams, sent, restartTimers, agentStream, looked, failed>>
        BY <1>6 DEF AttemptFails, AgentStops
    <2>2. WatcherInv' /\ UNCHANGED cn
        BY <2>1, StutterInv DEF watcherVars, EventsInv
    <2>3. HandleInv' /\ SentInv'
        BY <2>1, <2>2, StoppedKeeps DEF EventsInv, HandleInv
    <2>4. StreamsInv'
        <3>1. \/ agent' = "idle" /\ agent = "running" /\ MayStartAnother
              \/ agent' = agent /\ agent = "idle"
              \/ agent' = "stopped"
            BY <1>6 DEF AttemptFails, AgentStops
        <3> QED
            BY <2>1, <3>1, StreamFacts DEF EventsInv, StreamsInv, MayStartAnother
    <2>5. FlagsInv'
        BY <1>6, <2>1 DEF AttemptFails, AgentStops, EventsInv, FlagsInv
    <2> QED
        BY <2>2, <2>3, <2>4, <2>5 DEF EventsInv
<1>7. ASSUME NEW s \in Stream, StreamFails(s) PROVE EventsInv'
    <2> DEFINE from == [stream EXCEPT ![s] = "gone"]
    <2>1. /\ stream' = Stopped(from) /\ stopWatcher' = NoStream /\ UNCHANGED watcherVars
          /\ UNCHANGED <<vms, restarted, streams, sent, agent, agentStream, looked, failed>>
          /\ restartTimers' = restartTimers + 1 /\ MayStartAnother
        BY <1>7 DEF StreamFails, Breaks
    <2>2. WatcherInv' /\ UNCHANGED cn
        BY <2>1, StutterInv DEF watcherVars, EventsInv
    <2>3. /\ from \in [Stream -> {"none", "starting", "ready", "gone"}]
          /\ \A u \in Stream : from[u] \in {stream[u], "gone"}
        BY DEF EventsInv, HandleInv
    <2> HIDE DEF from
    <2>4. HandleInv' /\ SentInv'
        BY <2>1, <2>2, <2>3, StoppedKeeps
    <2>5. StreamsInv'
        BY <2>1, StreamFacts DEF EventsInv, StreamsInv, MayStartAnother
    <2>6. FlagsInv'
        BY <2>1 DEF EventsInv, FlagsInv
    <2> QED
        BY <2>2, <2>4, <2>5, <2>6 DEF EventsInv
<1>8. CASE VmadmEventsRestart
    <2>1. /\ Running /\ StartStream /\ restartTimers > 0 /\ restartTimers' = restartTimers - 1
          /\ restarted' = TRUE /\ UNCHANGED watcherVars
          /\ UNCHANGED <<vms, stopWatcher, agent, agentStream, looked>>
        BY <1>8 DEF VmadmEventsRestart
    <2>2. WatcherInv' /\ UNCHANGED cn
        BY <2>1, StutterInv DEF watcherVars, EventsInv
    <2>3. /\ SentInv'
          /\ streams' \in {streams, streams + 1} /\ streams' <= MaxStreams
          /\ stream' \in [Stream -> {"none", "starting", "ready", "gone"}]
          /\ failed' \in {"none", "watcher already created"}
          /\ (Running' /\ stopWatcher' # NoStream) => stream'[stopWatcher'] = "ready"
        BY <2>1, <2>2, StartStreamKeeps
    <2>4. StreamsInv'
        <3>1. streams \in Nat /\ restartTimers \in Nat /\ streams + restartTimers <= MaxStreams
            BY DEF EventsInv, StreamsInv
        <3>2. agent' = "idle" => streams + restartTimers < MaxStreams
            BY <2>1 DEF EventsInv, StreamsInv
        <3>3. streams' \in {streams, streams + 1} /\ restartTimers' = restartTimers - 1 /\ restartTimers > 0
            BY <2>1, <2>3
        <3>4. streams' \in Nat /\ restartTimers' \in Nat /\ streams' + restartTimers' <= streams + restartTimers
            BY <3>1, <3>3, StreamFacts, OneMore
        <3>5. MaxStreams \in Nat
            BY StreamFacts
        <3>6. streams' + restartTimers' <= MaxStreams
            BY <3>1, <3>4, <3>5, NotMore
        <3>7. agent' = "idle" => streams' + restartTimers' < MaxStreams
            BY <3>1, <3>2, <3>4, <3>5, NotMore
        <3> QED
            BY <3>4, <3>6, <3>7 DEF StreamsInv
    <2>5. HandleInv'
        BY <2>1, <2>3 DEF EventsInv, HandleInv
    <2>6. FlagsInv'
        BY <2>1, <2>3 DEF EventsInv, FlagsInv
    <2> QED
        BY <2>2, <2>3, <2>4, <2>5, <2>6 DEF EventsInv
<1>9. CASE UNCHANGED vars
    <2>1. WatcherInv' /\ UNCHANGED cn
        BY <1>9, StutterInv DEF vars, watcherVars, EventsInv
    <2>2. looked' \in BOOLEAN
        BY <1>9 DEF vars, eventsVars, EventsInv, FlagsInv
    <2> QED
        BY <1>2, <1>9, <2>1, <2>2 DEF vars, eventsVars
<1> QED
    BY <1>1, <1>3, <1>4, <1>5, <1>6, <1>7, <1>8, <1>9, ReadyKeeps, EventKeeps DEF Next

\* EventsTypeOK holds always: whichever of several streams failed, stop() has the handle
\* of a stream that is there, or none (lib/watchers/vmadm-events-watcher.js:86, 104-121).
THEOREM EventsTyped == Spec => []EventsTypeOK
BY EventsInit, EventsStep, EventsInvType, PTL DEF Spec
-----------------------------------------------------------------------------
(***************************************************************************)
(* NothingMissed.                                                          *)
(***************************************************************************)
\* The entry of a VM that was shown as o; of the state "provisioning" it does not let go.
EntryOf(k, o) ==
    k = Entry(VmadmView(o)) \/ k = Entry([VmadmView(o) EXCEPT !.state = "provisioning"])
Live(k) == k.entry /\ ~k.destroyed

\* An entry of knownVms is what one version of the VM showed, which the listener is told
\* of or is going to be; and the first streams are asked for after it, until one fails.
ShownOf(v) ==
    LET k == knownVms[v]
    IN  \/ k = NoEntry
        \/ k.entry /\ k.destroyed
        \/ \E r \in 1..Len(cn[v]) :
              /\ EntryOf(k, cn[v][r]) /\ cn[v][r].exists
              /\ v \in emits \/ r <= told[v]
              /\ ~restarted => \A s \in Stream : stream[s] = "starting" => r <= sent[s][v]

\* What is known as provisioning was so.
WasProvisioning(v) ==
    (Live(knownVms[v]) /\ KnownProvisioning(knownVms[v])) =>
        \E p \in 1..Len(cn[v]) : cn[v][p].exists /\ cn[v][p].state = "provisioning"

\* What is known as destroyed was gone, and the listener is told.
WasGone(v) ==
    knownVms[v].destroyed =>
        \E i \in 1..Len(cn[v]) : ~cn[v][i].exists /\ (v \in emits \/ i <= told[v])

\* The listener has seen v like version j.
SeenLike(v, j) == \E i \in 1..told[v] : LooksLike(cn[v][i], cn[v][j])

\* What was sent, and what a restart will compare with, was told or is withheld.
SentIsTold(v) ==
    (looked /\ v \notin emits) =>
        /\ \A s \in Stream : (stream[s] = "ready" /\ ~Withheld(v, cn[v][sent[s][v]])) =>
              SeenLike(v, sent[s][v])
        /\ (vms # Null /\ ~Withheld(v, cn[v][vms[v]])) => SeenLike(v, vms[v])

\* An entry is left behind by a VM that went away between two attempts of the agent, and
\* the streams there are were asked for after that.
LeftBehind(v) ==
    (vms # Null /\ ~cn[v][vms[v]].exists /\ Live(knownVms[v])) =>
        /\ vms[v] >= 2
        /\ \A s \in Stream : stream[s] \in {"starting", "ready"} => vms[v] <= sent[s][v]

OfOne(v) == ShownOf(v) /\ WasProvisioning(v) /\ WasGone(v) /\ SentIsTold(v) /\ LeftBehind(v)

\* Until a stream fails there is one at most, and before it is ready the agent has not
\* done its lookup.
OneStream ==
    ~restarted =>
        /\ \A s \in Stream : stream[s] = "starting" =>
              s = agentStream /\ agent \in {"waiting", "stopped"} /\ ~looked /\ stopWatcher = NoStream
        /\ \A s \in Stream : stream[s] = "ready" => s = stopWatcher
        /\ agent = "idle" => stopWatcher = NoStream

VmsInv ==
    (vms # Null \/ agent = "running" \/ \E s \in Stream : stream[s] = "ready") => Versions(vms)

\* The inductive invariant of NothingMissed.
MissedInv ==
    /\ EventsInv
    /\ Versions(told)
    /\ HistoryInv
    /\ OneStream
    /\ VmsInv
    /\ \A v \in VM : ~CameBack(v) => OfOne(v)

-----------------------------------------------------------------------------
\* The entry of a VM, field by field.
LEMMA EntryFields ==
    ASSUME NEW k, NEW p, EntryOf(k, p)
    PROVE  LET y == k.fields
               z == VmadmView(p)
           IN  /\ k = Entry(y) /\ k.entry /\ ~k.destroyed
               /\ DOMAIN y = Fields /\ y = [f \in Fields |-> y[f]]
               /\ y["last_modified"] = Seconds(p.last_modified)
               /\ \A f \in Fields \ {"state"} : y[f] = z[f]
               /\ y["state"] \in {p.state, "provisioning"}
<1> DEFINE z == VmadmView(p)
<1> DEFINE y == k.fields
<1>1. DOMAIN z = Fields /\ z["state"] = p.state /\ z["last_modified"] = Seconds(p.last_modified)
      /\ z = [f \in Fields |-> z[f]]
    BY VmadmFields
<1> HIDE DEF z
<1>2. "state" \in Fields /\ "last_modified" \in Fields
    BY DEF Fields
<1>3. CASE k = Entry(z)
    <2>1. y = z /\ k.entry /\ ~k.destroyed /\ k = Entry(y)
        BY <1>3 DEF Entry
    <2> HIDE DEF y
    <2> QED
        BY <1>1, <2>1 DEF y, z
<1>4. CASE k = Entry([z EXCEPT !.state = "provisioning"])
    <2>1. y = [z EXCEPT !.state = "provisioning"] /\ k.entry /\ ~k.destroyed /\ k = Entry(y)
        BY <1>4 DEF Entry
    <2> HIDE DEF y
    <2>2. y = [f \in Fields |-> IF f = "state" THEN "provisioning" ELSE z[f]]
        BY <1>1, <2>1
    <2> QED
        BY <1>1, <1>2, <2>1, <2>2 DEF y, z
<1> QED
    BY <1>3, <1>4 DEF EntryOf, z

\* A modification of a VM that is not known as provisioning.
LEMMA ModifyOrdinary ==
    ASSUME NEW k, NEW p, EntryOf(k, p), ~KnownProvisioning(k), NEW o
    PROVE  LET d == DispatchModify(k, VmadmView(o), "vmadm")
           IN  \/ d = News(Entry(VmadmView(o)))
               \/ /\ d = Silently(k)
                  /\ \/ Seconds(p.last_modified) > Rounded(Seconds(o.last_modified))
                     \/ VmadmView(p) = VmadmView(o) /\ p.state = o.state
<1> DEFINE z == VmadmView(o)
<1> DEFINE y == k.fields
<1>1. /\ k = Entry(y) /\ ~k.destroyed /\ DOMAIN y = Fields /\ y = [f \in Fields |-> y[f]]
      /\ y["last_modified"] = Seconds(p.last_modified)
    BY EntryFields
<1>2. DOMAIN z = Fields /\ z = [f \in Fields |-> z[f]] /\ z["last_modified"] = Seconds(o.last_modified)
      /\ z["state"] = o.state
    BY VmadmFields
<1>3. k = Entry(VmadmView(p))
    <2>1. ASSUME k = Entry([VmadmView(p) EXCEPT !.state = "provisioning"]) PROVE KnownProvisioning(k)
        <3> DEFINE q == VmadmView(p)
        <3>1. DOMAIN q = Fields /\ "state" \in Fields
            BY VmadmFields DEF Fields
        <3>2. k.fields = [q EXCEPT !.state = "provisioning"]
            BY <2>1 DEF Entry
        <3> HIDE DEF q
        <3> QED
            BY <3>1, <3>2 DEF KnownProvisioning, Has
    <2> QED
        BY <2>1 DEF EntryOf
<1>4. y = VmadmView(p) /\ VmadmView(p)["state"] = p.state
    BY <1>3, VmadmFields DEF Entry
<1> HIDE DEF y, z
<1>5. /\ Refused(y, z) <=> y["last_modified"] > Rounded(z["last_modified"])
      /\ (Refused(y, z) \/ y = z) <=> Updated(y, z) = {}
      /\ ~Refused(y, z) => UpdateIfNewer(y, z) = z
    BY <1>1, <1>2, FullUpdate
<1>6. ~(Has(y, "state") /\ y["state"] = "provisioning")
    BY DEF KnownProvisioning, y
<1>7. DispatchModify(k, z, "vmadm") =
        IF Updated(y, z) # {} THEN News(Entry(UpdateIfNewer(y, z))) ELSE Silently(Entry(y))
    BY <1>1, <1>6 DEF DispatchModify, y
<1>8. CASE Updated(y, z) = {}
    <2>1. DispatchModify(k, z, "vmadm") = Silently(k)
        BY <1>1, <1>7, <1>8
    <2>2. Seconds(p.last_modified) > Rounded(Seconds(o.last_modified)) \/ y = z
        BY <1>1, <1>2, <1>5, <1>8
    <2> QED
        BY <1>2, <1>4, <2>1, <2>2 DEF z
<1>9. CASE Updated(y, z) # {}
    <2>1. DispatchModify(k, z, "vmadm") = News(Entry(z))
        BY <1>5, <1>7, <1>9
    <2> QED
        BY <2>1 DEF z
<1> QED
    BY <1>8, <1>9

\* Of one that is known as provisioning the state is left out, and stays what it was.
LEMMA ModifyProvisioning ==
    ASSUME NEW k, NEW p, EntryOf(k, p), KnownProvisioning(k), NEW o
    PROVE  LET d == DispatchModify(k, VmadmView(o), "vmadm")
           IN  \/ d = News(Entry([VmadmView(o) EXCEPT !.state = "provisioning"]))
               \/ /\ d = Silently(k)
                  /\ \/ Seconds(p.last_modified) > Rounded(Seconds(o.last_modified))
                     \/ p.state = o.state => VmadmView(p) = VmadmView(o)
<1> DEFINE z == VmadmView(o)
<1> DEFINE y == k.fields
<1> DEFINE q == VmadmView(p)
<1> DEFINE w == Without(z, "state")
<1>1. /\ k = Entry(y) /\ ~k.destroyed /\ DOMAIN y = Fields /\ y = [f \in Fields |-> y[f]]
      /\ y["last_modified"] = Seconds(p.last_modified)
      /\ \A f \in Fields \ {"state"} : y[f] = q[f]
    BY EntryFields
<1>2. DOMAIN z = Fields /\ z = [f \in Fields |-> z[f]] /\ z["last_modified"] = Seconds(o.last_modified)
      /\ z["state"] = o.state
    BY VmadmFields
<1>3. DOMAIN q = Fields /\ q = [f \in Fields |-> q[f]] /\ q["state"] = p.state
    BY VmadmFields
<1>4. y["state"] = "provisioning"
    BY DEF KnownProvisioning
<1> HIDE DEF y, z, q
<1>5. "state" \in Fields /\ "last_modified" \in Fields \ {"state"}
    BY DEF Fields
<1>6. DOMAIN w = Fields \ {"state"} /\ \A f \in Fields \ {"state"} : w[f] = z[f]
    BY <1>2 DEF Without
<1>7. DispatchModify(k, z, "vmadm") =
        IF Updated(y, w) # {} THEN News(Entry(UpdateIfNewer(y, w))) ELSE Silently(Entry(y))
    BY <1>1, <1>4, <1>5 DEF DispatchModify, Has, y, w
<1> HIDE DEF w
<1>8. Refused(y, w) <=> Seconds(p.last_modified) > Rounded(Seconds(o.last_modified))
    BY <1>1, <1>2, <1>5, <1>6 DEF Refused, Has
<1>9. ~Refused(y, w) => Updated(y, w) = {f \in Fields \ {"state"} : y[f] # z[f]}
    BY <1>1, <1>6 DEF Updated, Has
<1>10. CASE Updated(y, w) = {}
    <2>1. DispatchModify(k, z, "vmadm") = Silently(k)
        BY <1>1, <1>7, <1>10
    <2>2. ASSUME ~Refused(y, w), p.state = o.state PROVE q = z
        <3>1. \A f \in Fields \ {"state"} : q[f] = z[f]
            BY <1>1, <1>9, <1>10, <2>2
        <3>2. \A f \in Fields : q[f] = z[f]
            BY <1>2, <1>3, <2>2, <3>1
        <3> QED
            BY <1>2, <1>3, <3>2
    <2> QED
        BY <1>8, <2>1, <2>2 DEF z, q
<1>11. CASE Updated(y, w) # {}
    <2>1. ~Refused(y, w)
        BY <1>11 DEF Updated
    <2>2. UpdateIfNewer(y, w) = [f \in Fields |-> IF f \in Updated(y, w) THEN w[f] ELSE y[f]]
        BY <1>1, <1>9, <2>1 DEF UpdateIfNewer
    <2>3. \A f \in Fields : (IF f \in Updated(y, w) THEN w[f] ELSE y[f])
                                = IF f = "state" THEN "provisioning" ELSE z[f]
        BY <1>4, <1>6, <1>9, <2>1
    <2>4. UpdateIfNewer(y, w) = [z EXCEPT !.state = "provisioning"]
        BY <1>2, <2>2, <2>3
    <2>5. DispatchModify(k, z, "vmadm") = News(Entry([z EXCEPT !.state = "provisioning"]))
        BY <1>7, <1>11, <2>4
    <2> QED
        BY <2>5 DEF z
<1> QED
    BY <1>10, <1>11

\* A creation of a VM whose entry is there is not told; the entry is brought up to date.
LEMMA CreateLive ==
    ASSUME NEW k, NEW p, EntryOf(k, p), NEW o
    PROVE  DispatchCreate(k, VmadmView(o)) \in {Silently(k), Silently(Entry(VmadmView(o)))}
<1> DEFINE z == VmadmView(o)
<1> DEFINE y == k.fields
<1>1. k = Entry(y) /\ k.entry /\ ~k.destroyed /\ DOMAIN y = Fields /\ y = [f \in Fields |-> y[f]]
    BY EntryFields
<1>2. DOMAIN z = Fields /\ z = [f \in Fields |-> z[f]]
    BY VmadmFields
<1> HIDE DEF y, z
<1>3. UpdateIfNewer(y, z) \in {y, z}
    BY <1>1, <1>2, FullUpdate
<1>4. DispatchCreate(k, z) = Silently(Entry(UpdateIfNewer(y, z)))
    BY <1>1 DEF DispatchCreate, y
<1>5. DispatchCreate(k, z) \in {Silently(k), Silently(Entry(z))}
    BY <1>1, <1>3, <1>4
<1> QED
    BY <1>5 DEF z

LEMMA EntryState ==
    ASSUME NEW o
    PROVE  /\ KnownProvisioning(Entry(VmadmView(o))) <=> o.state = "provisioning"
           /\ EntryOf(Entry(VmadmView(o)), o) /\ Live(Entry(VmadmView(o)))
           /\ EntryOf(Entry([VmadmView(o) EXCEPT !.state = "provisioning"]), o)
           /\ Live(Entry([VmadmView(o) EXCEPT !.state = "provisioning"]))
<1> DEFINE z == VmadmView(o)
<1>1. DOMAIN z = Fields /\ z["state"] = o.state /\ "state" \in Fields
    BY VmadmFields DEF Fields
<1> HIDE DEF z
<1>2. KnownProvisioning(Entry(z)) <=> o.state = "provisioning"
    BY <1>1 DEF KnownProvisioning, Has, Entry
<1>3. \A f : Live(Entry(f))
    BY DEF Live, Entry
<1> QED
    BY <1>2, <1>3 DEF EntryOf, z

\* What is known of v and versions of it.
LEMMA OneTyped ==
    ASSUME MissedInv, NEW v \in VM
    PROVE  /\ cn[v] \in Seq(VmState) /\ Len(cn[v]) \in Nat /\ Len(cn[v]) >= 1
           /\ told[v] \in Nat /\ told[v] >= 1 /\ told[v] <= Len(cn[v])
           /\ \A i \in 1..Len(cn[v]) : cn[v][i] \in VmState /\ cn[v][i].exists \in BOOLEAN
                                       /\ cn[v][i].last_modified \in Nat
           /\ IsKnown(knownVms[v]) /\ History(cn[v])
<1>1. WatcherInv /\ Versions(told) /\ History(cn[v])
    BY DEF MissedInv, EventsInv, HistoryInv
<1>2. cn[v] \in Seq(VmState) /\ Len(cn[v]) \in 1..MaxVer /\ IsKnown(knownVms[v])
    BY <1>1 DEF WatcherInv
<1>3. told[v] \in 1..MaxVer /\ told[v] <= Len(cn[v])
    BY <1>1 DEF Versions
<1>4. \A i \in 1..Len(cn[v]) : cn[v][i] \in VmState
    BY <1>2
<1>5. \A o \in VmState : o.exists \in BOOLEAN /\ o.last_modified \in Nat
    BY Bounds DEF VmState
<1> QED
    BY <1>1, <1>2, <1>3, <1>4, <1>5, Bounds

\* A VM that did not come back: it is gone only before its creation and at the end.
LEMMA NotBack ==
    ASSUME MissedInv, NEW v \in VM, ~CameBack(v)
    PROVE  /\ \A i \in 2..Len(cn[v]) : ~cn[v][i].exists => i = Len(cn[v]) /\ cn[v][i - 1].exists
           /\ \A i, j \in 1..Len(cn[v]) :
                (i <= j /\ cn[v][i].exists /\ cn[v][j].exists /\ cn[v][j].state = "provisioning")
                => cn[v][i].state = "provisioning"
<1>1. History(cn[v]) /\ Len(cn[v]) \in Nat
    BY OneTyped
<1>2. \A i \in 2..(Len(cn[v]) - 1) : cn[v][i].exists
    BY DEF CameBack
<1>3. \A i \in 2..Len(cn[v]) : i = Len(cn[v]) \/ i \in 2..(Len(cn[v]) - 1)
    BY <1>1
<1> QED
    BY <1>1, <1>2, <1>3 DEF History

\* What the agent looked at it has seen.
LEMMA SeenVersion ==
    ASSUME NEW v, NEW j \in Nat, j >= 1, told[v] \in Nat, j <= told[v]
    PROVE  SeenLike(v, j)
BY DEF SeenLike, LooksLike

LEMMA ModifyOfOne ==
    ASSUME MissedInv, NEW v \in VM, ~CameBack(v), NEW j \in 1..Len(cn[v]), cn[v][j].exists,
           NEW r \in 1..Len(cn[v]), EntryOf(knownVms[v], cn[v][r]), cn[v][r].exists,
           v \in emits \/ r <= told[v]
    PROVE  LET k == knownVms[v]
               d == DispatchModify(k, VmadmView(cn[v][j]), "vmadm")
           IN  \/ \E k2 : /\ d = News(k2) /\ EntryOf(k2, cn[v][j])
                          /\ KnownProvisioning(k2) => KnownProvisioning(k) \/ cn[v][j].state = "provisioning"
               \/ d = Silently(k) /\ (v \in emits \/ Withheld(v, cn[v][j]) \/ SeenLike(v, j))
<1> DEFINE k == knownVms[v]
<1> DEFINE p == cn[v][r]
<1> DEFINE o == cn[v][j]
<1> DEFINE d == DispatchModify(k, VmadmView(o), "vmadm")
<1>1. /\ Len(cn[v]) \in Nat /\ told[v] \in Nat
      /\ p.last_modified \in Nat /\ o.last_modified \in Nat /\ History(cn[v])
    BY OneTyped
<1>2. ASSUME Seconds(p.last_modified) > Rounded(Seconds(o.last_modified)), v \notin emits
      PROVE  SeenLike(v, j)
    <2>1. p.last_modified > o.last_modified
        BY <1>1, <1>2, RefusedIsOlder
    <2>2. ~(r <= j)
        BY <1>1, <2>1 DEF History
    <2> QED
        BY <1>1, <1>2, <2>2, SeenVersion
<1>3. ASSUME VmadmView(p) = VmadmView(o), v \notin emits PROVE SeenLike(v, j)
    <2>1. r \in 1..told[v] /\ LooksLike(p, o)
        BY <1>1, <1>3 DEF LooksLike
    <2> QED
        BY <2>1 DEF SeenLike
<1>4. CASE ~KnownProvisioning(k)
    <2>1. \/ d = News(Entry(VmadmView(o)))
          \/ /\ d = Silently(k)
             /\ \/ Seconds(p.last_modified) > Rounded(Seconds(o.last_modified))
                \/ VmadmView(p) = VmadmView(o)
        BY <1>4, ModifyOrdinary
    <2>2. CASE d = News(Entry(VmadmView(o)))
        BY <2>2, EntryState
    <2>3. CASE d = Silently(k)
        <3>1. CASE d = News(Entry(VmadmView(o)))
            BY <3>1, EntryState
        <3>2. CASE Seconds(p.last_modified) > Rounded(Seconds(o.last_modified))
            BY <1>2, <2>3, <3>2
        <3>3. CASE VmadmView(p) = VmadmView(o)
            BY <1>3, <2>3, <3>3
        <3> QED
            BY <2>1, <3>1, <3>2, <3>3
    <2> QED
        BY <2>1, <2>2, <2>3
<1>5. CASE KnownProvisioning(k)
    <2>1. \/ d = News(Entry([VmadmView(o) EXCEPT !.state = "provisioning"]))
          \/ /\ d = Silently(k)
             /\ \/ Seconds(p.last_modified) > Rounded(Seconds(o.last_modified))
                \/ p.state = o.state => VmadmView(p) = VmadmView(o)
        BY <1>5, ModifyProvisioning
    <2>2. CASE d = News(Entry([VmadmView(o) EXCEPT !.state = "provisioning"]))
        BY <1>5, <2>2, EntryState
    <2>3. ASSUME p.state = o.state => VmadmView(p) = VmadmView(o), v \notin emits, ~Withheld(v, o)
          PROVE  SeenLike(v, j)
        <3>1. o.state = "provisioning"
            BY <1>5, <2>3 DEF Withheld
        <3>2. CASE j <= r
            BY <1>1, <2>3, <3>2, SeenVersion
        <3>3. CASE r <= j
            <4>1. p.state = "provisioning"
                BY <3>1, <3>3, NotBack
            <4> QED
                BY <1>3, <2>3, <3>1, <4>1
        <3> QED
            BY <1>1, <3>2, <3>3
    <2>4. CASE d = Silently(k)
        <3>1. CASE d = News(Entry([VmadmView(o) EXCEPT !.state = "provisioning"]))
            BY <2>2, <3>1
        <3>2. CASE Seconds(p.last_modified) > Rounded(Seconds(o.last_modified))
            BY <1>2, <2>4, <3>2
        <3>3. CASE p.state = o.state => VmadmView(p) = VmadmView(o)
            BY <2>3, <2>4, <3>3
        <3> QED
            BY <2>1, <3>1, <3>2, <3>3
    <2> QED
        BY <2>1, <2>2, <2>4
<1> QED
    BY <1>4, <1>5

-----------------------------------------------------------------------------
\* What the comparison of two versions of a VM, i and then j, makes of it: news; or
\* nothing, since it looks the same, was seen like that or is withheld; or a creation
\* that is not told since the entry is there.
LEMMA ChangeOfOne ==
    ASSUME MissedInv, NEW v \in VM, ~CameBack(v),
           NEW i \in 1..Len(cn[v]), NEW j \in 1..Len(cn[v])
    PROVE  LET k == knownVms[v]
               old == cn[v][i]
               new == cn[v][j]
               d == DispatchChange(k, "vmadm", old, new)
           IN  \/ \E k2 : /\ d = News(k2) /\ EntryOf(k2, new) /\ new.exists
                          /\ KnownProvisioning(k2) =>
                                (Live(k) /\ KnownProvisioning(k)) \/ new.state = "provisioning"
               \/ d = News(Gone(k.fields)) /\ ~new.exists
               \/ /\ d = Silently(k)
                  /\ (new.exists => old.exists) /\ (old.exists /\ ~new.exists => k.destroyed)
                  /\ v \in emits \/ Withheld(v, new) \/ SeenLike(v, j) \/ LooksLike(old, new)
               \/ /\ ~old.exists /\ new.exists /\ Live(k)
                  /\ d \in {Silently(k), Silently(Entry(VmadmView(new)))}
<1> DEFINE k == knownVms[v]
<1> DEFINE old == cn[v][i]
<1> DEFINE new == cn[v][j]
<1> DEFINE d == DispatchChange(k, "vmadm", old, new)
<1>1. ShownOf(v) /\ WasGone(v)
    BY DEF MissedInv, OfOne
<1>2. \A o : Seen("vmadm", o) = VmadmView(o)
    BY DEF Seen
<1>3. d = IF new.exists /\ ~old.exists THEN DispatchCreate(k, VmadmView(new))
          ELSE IF old.exists /\ ~new.exists THEN DispatchDelete(k)
          ELSE IF new.exists /\ VmadmView(old) # VmadmView(new)
               THEN DispatchModify(k, VmadmView(new), "vmadm")
          ELSE Silently(k)
    BY <1>2 DEF DispatchChange, Modified, NoReport
<1>4. old.exists \in BOOLEAN /\ new.exists \in BOOLEAN /\ told[v] \in Nat /\ IsKnown(k)
    BY OneTyped
<1>5. \/ ~k.entry \/ k.destroyed
      \/ Live(k) /\ \E r \in 1..Len(cn[v]) : /\ EntryOf(k, cn[v][r]) /\ cn[v][r].exists
                                             /\ v \in emits \/ r <= told[v]
    <2>1. NoEntry.entry = FALSE
        BY DEF NoEntry
    <2> QED
        BY <1>1, <2>1 DEF ShownOf, Live
<1> HIDE DEF d
<1>6. CASE new.exists /\ ~old.exists
    <2>1. d = DispatchCreate(k, VmadmView(new))
        BY <1>3, <1>6
    <2>2. CASE ~k.entry \/ k.destroyed
        <3>1. d = News(Entry(VmadmView(new)))
            BY <2>1, <2>2, VmadmCreate
        <3> QED
            BY <1>6, <3>1, EntryState DEF d
    <2>3. CASE Live(k) /\ \E r \in 1..Len(cn[v]) : EntryOf(k, cn[v][r])
        <3>1. d \in {Silently(k), Silently(Entry(VmadmView(new)))}
            BY <2>1, <2>3, CreateLive
        <3> QED
            BY <1>6, <2>3, <3>1 DEF d
    <2> QED
        BY <1>5, <2>2, <2>3
<1>7. CASE old.exists /\ ~new.exists
    <2>1. d = DispatchDelete(k)
        BY <1>3, <1>7
    <2>2. CASE k.destroyed
        <3>1. d = Silently(k)
            BY <2>1, <2>2 DEF DispatchDelete
        <3>2. ASSUME v \notin emits PROVE SeenLike(v, j)
            <4>1. PICK g \in 1..Len(cn[v]) : ~cn[v][g].exists /\ g <= told[v]
                BY <1>1, <2>2, <3>2 DEF WasGone
            <4>2. g \in 1..told[v] /\ cn[v][g].exists \in BOOLEAN
                BY <1>4, <4>1, OneTyped
            <4>3. LooksLike(cn[v][g], new)
                BY <1>4, <1>7, <4>1, <4>2 DEF LooksLike
            <4> QED
                BY <4>2, <4>3 DEF SeenLike
        <3> QED
            BY <1>7, <2>2, <3>1, <3>2 DEF d
    <2>3. CASE ~k.destroyed
        <3>1. d = News(Gone(k.fields))
            BY <2>1, <2>3 DEF DispatchDelete, Gone
        <3> QED
            BY <1>7, <3>1 DEF d
    <2> QED
        BY <2>2, <2>3
<1>8. CASE new.exists /\ old.exists /\ VmadmView(old) # VmadmView(new)
    <2>1. d = DispatchModify(k, VmadmView(new), "vmadm")
        BY <1>3, <1>8
    <2>2. CASE ~k.entry
        <3>1. k = NoEntry
            BY <1>4, <2>2 DEF IsKnown
        <3>2. d = News(Entry(VmadmView(new)))
            BY <2>1, <3>1, VmadmModifyFirst
        <3> QED
            BY <1>8, <3>2, EntryState DEF d
    <2>3. CASE k.destroyed
        <3>1. d = Silently(k)
            BY <2>1, <2>3 DEF DispatchModify
        <3> QED
            BY <1>8, <2>3, <3>1 DEF Withheld, d
    <2>4. CASE Live(k) /\ \E r \in 1..Len(cn[v]) : /\ EntryOf(k, cn[v][r]) /\ cn[v][r].exists
                                                   /\ v \in emits \/ r <= told[v]
        <3>1. \/ \E k2 : /\ d = News(k2) /\ EntryOf(k2, new)
                         /\ KnownProvisioning(k2) => KnownProvisioning(k) \/ new.state = "provisioning"
              \/ d = Silently(k) /\ (v \in emits \/ Withheld(v, new) \/ SeenLike(v, j))
            BY <1>8, <2>1, <2>4, ModifyOfOne
        <3> QED
            BY <1>8, <2>4, <3>1 DEF d
    <2> QED
        BY <1>5, <2>2, <2>3, <2>4
<1>9. CASE old.exists = new.exists /\ (new.exists => VmadmView(old) = VmadmView(new))
    <2>1. d = Silently(k) /\ LooksLike(old, new)
        BY <1>3, <1>9 DEF LooksLike
    <2> QED
        BY <1>9, <2>1 DEF d
<1> QED
    BY <1>4, <1>6, <1>7, <1>8, <1>9

\* VMs that look the same are withheld together, and seen together.
LEMMA SameLook ==
    ASSUME NEW v, NEW i, NEW j, LooksLike(cn[v][i], cn[v][j]),
           cn[v][i].exists \in BOOLEAN, cn[v][j].exists \in BOOLEAN,
           ~Withheld(v, cn[v][i]) => SeenLike(v, i),
           ~Withheld(v, cn[v][j])
    PROVE  SeenLike(v, j)
<1>1. cn[v][i].exists => cn[v][i].state = cn[v][j].state
    BY VmadmFields DEF LooksLike
<1>2. ~Withheld(v, cn[v][i])
    BY <1>1 DEF Withheld, LooksLike
<1>3. PICK g \in 1..told[v] : LooksLike(cn[v][g], cn[v][i])
    BY <1>2 DEF SeenLike
<1> QED
    BY <1>3 DEF SeenLike, LooksLike

\* A report of the step from version i to version j of a VM, which stream s makes.
LEMMA ReportKeepsOne ==
    ASSUME MissedInv, NEW v \in VM, ~CameBack(v), NEW s \in Stream,
           NEW i \in 1..Len(cn[v]), NEW j \in 1..Len(cn[v]),
           UNCHANGED <<cn, told, looked, restarted>>,
           knownVms'[v] = DispatchChange(knownVms[v], "vmadm", cn[v][i], cn[v][j]).known,
           v \in emits' <=> v \in emits \/ DispatchChange(knownVms[v], "vmadm", cn[v][i], cn[v][j]).emit,
           vms'[v] = j, sent'[s][v] = j, stream'[s] = "ready",
           \A u \in Stream : u # s => stream'[u] = stream[u] /\ sent'[u][v] = sent[u][v],
           (looked /\ v \notin emits /\ ~Withheld(v, cn[v][i])) => SeenLike(v, i),
           (~cn[v][i].exists /\ cn[v][j].exists /\ Live(knownVms[v])) => i = 1 /\ j = 2,
           ~restarted => \A u \in Stream : u # s => stream[u] # "starting",
           (~cn[v][i].exists /\ ~cn[v][j].exists /\ Live(knownVms[v])) =>
                /\ j >= 2
                /\ \A u \in Stream : (u # s /\ stream[u] \in {"starting", "ready"}) => j <= sent[u][v]
    PROVE  OfOne(v)'
<1> DEFINE k == knownVms[v]
<1> DEFINE old == cn[v][i]
<1> DEFINE new == cn[v][j]
<1> DEFINE d == DispatchChange(k, "vmadm", old, new)
<1>1. ShownOf(v) /\ WasProvisioning(v) /\ WasGone(v) /\ SentIsTold(v)
    BY DEF MissedInv, OfOne
<1>2. /\ Len(cn[v]) \in Nat /\ Len(cn[v]) >= 1 /\ told[v] \in Nat
      /\ old.exists \in BOOLEAN /\ new.exists \in BOOLEAN
    BY OneTyped
<1>3. knownVms'[v] = d.known /\ (v \in emits' <=> v \in emits \/ d.emit)
    OBVIOUS
<1>4. \/ \E k2 : /\ d = News(k2) /\ EntryOf(k2, new) /\ new.exists
                 /\ KnownProvisioning(k2) =>
                       (Live(k) /\ KnownProvisioning(k)) \/ new.state = "provisioning"
      \/ d = News(Gone(k.fields)) /\ ~new.exists
      \/ /\ d = Silently(k)
         /\ (new.exists => old.exists) /\ (old.exists /\ ~new.exists => k.destroyed)
         /\ v \in emits \/ Withheld(v, new) \/ SeenLike(v, j) \/ LooksLike(old, new)
      \/ /\ ~old.exists /\ new.exists /\ Live(k)
         /\ d \in {Silently(k), Silently(Entry(VmadmView(new)))}
    BY ChangeOfOne
<1> HIDE DEF d
<1>5. ~restarted => \A u \in Stream : stream'[u] # "starting"
    OBVIOUS
<1>6. ASSUME NEW k2, d = News(k2), EntryOf(k2, new), new.exists,
             KnownProvisioning(k2) => (Live(k) /\ KnownProvisioning(k)) \/ new.state = "provisioning"
      PROVE  OfOne(v)'
    <2>1. knownVms'[v] = k2 /\ v \in emits'
        BY <1>3, <1>6 DEF News
    <2>2. k2.entry /\ ~k2.destroyed
        BY <1>6, EntryFields
    <2>3. ShownOf(v)'
        BY <1>5, <1>6, <2>1 DEF ShownOf
    <2>4. WasProvisioning(v)'
        BY <1>1, <1>6, <2>1 DEF WasProvisioning, KnownProvisioning
    <2> QED
        BY <1>6, <2>1, <2>2, <2>3, <2>4 DEF OfOne, WasGone, SentIsTold, LeftBehind
<1>7. CASE d = News(Gone(k.fields)) /\ ~new.exists
    <2>1. knownVms'[v] = Gone(k.fields) /\ v \in emits'
        BY <1>3, <1>7 DEF News
    <2>2. ~Live(Gone(k.fields)) /\ Gone(k.fields).entry /\ Gone(k.fields).destroyed
        BY DEF Live, Gone
    <2>3. WasProvisioning(v)' /\ LeftBehind(v)'
        BY <2>1, <2>2 DEF WasProvisioning, LeftBehind, Live
    <2> QED
        BY <1>7, <2>1, <2>2, <2>3 DEF OfOne, ShownOf, WasGone, SentIsTold
<1>8. ASSUME knownVms'[v] = k, v \in emits' <=> v \in emits,
             v \in emits \/ Withheld(v, new) \/ SeenLike(v, j) \/ LooksLike(old, new)
      PROVE  ShownOf(v)' /\ WasProvisioning(v)' /\ WasGone(v)' /\ SentIsTold(v)'
    <2>1. ShownOf(v)'
        BY <1>1, <1>5, <1>8 DEF ShownOf
    <2>2. WasProvisioning(v)' /\ WasGone(v)'
        BY <1>1, <1>8 DEF WasProvisioning, WasGone, Live, KnownProvisioning
    <2>3. ASSUME looked, v \notin emits, ~Withheld(v, new) PROVE SeenLike(v, j)
        <3>1. CASE LooksLike(old, new)
            BY <1>2, <2>3, <3>1, SameLook
        <3> QED
            BY <1>8, <2>3, <3>1
    <2>4. SentIsTold(v)'
        <3> SUFFICES ASSUME looked', v \notin emits'
                     PROVE  /\ \A u \in Stream : (stream'[u] = "ready" /\ ~Withheld(v, cn[v][sent[u][v]])') =>
                                  SeenLike(v, sent[u][v])'
                            /\ (vms' # Null' /\ ~Withheld(v, cn[v][vms[v]])') => SeenLike(v, vms[v])'
            BY DEF SentIsTold
        <3>1. ASSUME NEW u \in Stream, u # s, stream[u] = "ready", ~Withheld(v, cn[v][sent[u][v]])'
              PROVE  SeenLike(v, sent[u][v])'
            <4>1. sent'[u][v] = sent[u][v]
                BY <3>1
            <4>2. ~Withheld(v, cn[v][sent[u][v]])
                BY <1>8, <3>1, <4>1 DEF Withheld, KnownProvisioning
            <4>3. SeenLike(v, sent[u][v])
                BY <1>1, <1>8, <3>1, <4>2 DEF SentIsTold
            <4> QED
                BY <4>1, <4>3 DEF SeenLike, LooksLike
        <3>2. ~Withheld(v, cn[v][j]) => SeenLike(v, j)
            BY <1>8, <2>3
        <3>3. ~Withheld(v, cn[v][j])' => SeenLike(v, j)'
            BY <1>8, <3>2 DEF Withheld, KnownProvisioning, SeenLike, LooksLike
        <3>4. (~Withheld(v, cn[v][sent[s][v]])' => SeenLike(v, sent[s][v])')
                /\ (~Withheld(v, cn[v][vms[v]])' => SeenLike(v, vms[v])')
            BY <3>3 DEF Withheld, KnownProvisioning, SeenLike, LooksLike
        <3> QED
            BY <3>1, <3>4
    <2> QED
        BY <2>1, <2>2, <2>4
<1>9. CASE /\ d = Silently(k)
           /\ (new.exists => old.exists) /\ (old.exists /\ ~new.exists => k.destroyed)
           /\ v \in emits \/ Withheld(v, new) \/ SeenLike(v, j) \/ LooksLike(old, new)
    <2>1. knownVms'[v] = k /\ (v \in emits' <=> v \in emits)
        BY <1>3, <1>9 DEF Silently
    <2>2. LeftBehind(v)'
        <3> SUFFICES ASSUME ~new.exists, Live(k)
                     PROVE  /\ j >= 2
                            /\ \A u \in Stream : stream'[u] \in {"starting", "ready"} => j <= sent'[u][v]
            BY <2>1 DEF LeftBehind, Live
        <3>1. ~old.exists
            BY <1>2, <1>9 DEF Live
        <3>2. j \in Nat
            BY <1>2
        <3> QED
            BY <3>1, <3>2
    <2> QED
        BY <1>8, <1>9, <2>1, <2>2 DEF OfOne
<1>10. CASE /\ ~old.exists /\ new.exists /\ Live(k)
            /\ d \in {Silently(k), Silently(Entry(VmadmView(new)))}
    <2>1. i = 1 /\ j = 2
        BY <1>10
    <2>2. PICK r \in 1..Len(cn[v]) : /\ EntryOf(k, cn[v][r]) /\ cn[v][r].exists
                                     /\ v \in emits \/ r <= told[v]
        <3>1. NoEntry.entry = FALSE
            BY DEF NoEntry
        <3> QED
            BY <1>1, <1>10, <3>1 DEF ShownOf, Live
    <2>3. r >= 2
        BY <1>2, <1>10, <2>1, <2>2
    <2>4. v \in emits \/ 2 <= told[v]
        BY <1>2, <2>2, <2>3
    <2>5. v \in emits \/ SeenLike(v, j)
        BY <1>2, <2>1, <2>4, SeenVersion
    <2>6. LeftBehind(v)'
        BY <1>10 DEF LeftBehind
    <2>7. CASE d = Silently(k)
        <3>1. knownVms'[v] = k /\ (v \in emits' <=> v \in emits)
            BY <1>3, <2>7 DEF Silently
        <3> QED
            BY <1>8, <2>5, <2>6, <3>1 DEF OfOne
    <2>8. CASE d = Silently(Entry(VmadmView(new)))
        <3> DEFINE k2 == Entry(VmadmView(new))
        <3>1. knownVms'[v] = k2 /\ (v \in emits' <=> v \in emits)
            BY <1>3, <2>8 DEF Silently
        <3>2. EntryOf(k2, new) /\ Live(k2) /\ (KnownProvisioning(k2) <=> new.state = "provisioning")
            BY EntryState
        <3> HIDE DEF k2
        <3>3. ShownOf(v)'
            BY <1>5, <1>10, <2>1, <2>4, <3>1, <3>2 DEF ShownOf
        <3>4. WasProvisioning(v)'
            BY <1>10, <3>1, <3>2 DEF WasProvisioning
        <3>5. WasGone(v)'
            BY <3>1, <3>2 DEF WasGone, Live
        <3>6. KnownProvisioning(k) => KnownProvisioning(k2)
            <4> SUFFICES ASSUME KnownProvisioning(k) PROVE new.state = "provisioning"
                BY <3>2
            <4>1. PICK p \in 1..Len(cn[v]) : cn[v][p].exists /\ cn[v][p].state = "provisioning"
                BY <1>1, <1>10 DEF WasProvisioning
            <4>2. j <= p
                BY <1>2, <1>10, <2>1, <4>1
            <4> QED
                BY <1>10, <4>1, <4>2, NotBack
        <3>7. \A o : Withheld(v, o) => (o.exists /\ KnownProvisioning(k2) /\ o.state # "provisioning")
            BY <1>10, <3>6 DEF Withheld, Live
        <3>8. SentIsTold(v)'
            <4> SUFFICES ASSUME looked, v \notin emits
                         PROVE  /\ \A u \in Stream : (stream'[u] = "ready" /\ ~Withheld(v, cn[v][sent[u][v]])') =>
                                      SeenLike(v, sent[u][v])'
                                /\ (vms' # Null' /\ ~Withheld(v, cn[v][vms[v]])') => SeenLike(v, vms[v])'
                BY <3>1 DEF SentIsTold
            <4>1. ASSUME NEW u \in Stream, u # s, stream[u] = "ready", ~Withheld(v, cn[v][sent[u][v]])'
                  PROVE  SeenLike(v, sent[u][v])'
                <5>1. ~Withheld(v, cn[v][sent[u][v]])
                    BY <3>1, <3>7, <4>1 DEF Withheld
                <5>2. SeenLike(v, sent[u][v])
                    BY <1>1, <4>1, <5>1 DEF SentIsTold
                <5> QED
                    BY <4>1, <5>2 DEF SeenLike, LooksLike
            <4>2. SeenLike(v, sent[s][v])' /\ SeenLike(v, vms[v])'
                BY <2>5 DEF SeenLike, LooksLike
            <4> QED
                BY <4>1, <4>2
        <3> QED
            BY <2>6, <3>3, <3>4, <3>5, <3>8 DEF OfOne
    <2> QED
        BY <1>10, <2>7, <2>8
<1> QED
    BY <1>4, <1>6, <1>7, <1>9, <1>10

\* A step that reports nothing about a VM: it may become something new, its event may be
\* emitted, the agent may look, and streams may end or be asked for.
LEMMA UnreportedKeepsOne ==
    ASSUME MissedInv, NEW v \in VM, ~CameBack(v),
           knownVms'[v] = knownVms[v], vms'[v] = vms[v], vms' # Null => vms # Null,
           restarted => restarted', vms # Null => vms[v] \in 1..Len(cn[v]),
           Len(cn'[v]) \in Nat, Len(cn[v]) <= Len(cn'[v]),
           \A i \in 1..Len(cn[v]) : cn'[v][i] = cn[v][i],
           told'[v] \in Nat, told[v] <= told'[v],
           v \in emits' => v \in emits,
           v \in emits => v \in emits' \/ told'[v] = Len(cn[v]),
           looked' => looked \/ told'[v] = Len(cn[v]),
           \A s \in Stream : stream'[s] = "ready" =>
                stream[s] = "ready" /\ sent'[s][v] = sent[s][v],
           \A s \in Stream : stream'[s] = "starting" =>
                (stream[s] = "starting" /\ sent'[s][v] = sent[s][v]) \/ sent'[s][v] = Len(cn[v])
    PROVE  OfOne(v)'
<1> DEFINE k == knownVms[v]
<1> DEFINE n == Len(cn[v])
<1>1. ShownOf(v) /\ WasProvisioning(v) /\ WasGone(v) /\ SentIsTold(v) /\ LeftBehind(v)
    BY DEF MissedInv, OfOne
<1>2. n \in Nat /\ n >= 1 /\ told[v] \in Nat /\ told[v] <= n
    BY OneTyped
<1>3. \A s \in Stream : stream[s] \in {"starting", "ready"} => sent[s][v] \in 1..n
    <2>1. \A s \in Stream : stream[s] \in {"starting", "ready"} => sent[s][v] \in 1..MaxVer /\ sent[s][v] <= n
        BY DEF MissedInv, EventsInv, SentInv, Versions
    <2> QED
        BY <1>2, <2>1, Bounds
<1>4. \A i \in 1..n : i \in 1..Len(cn'[v])
    BY <1>2
<1>5. ShownOf(v)'
    <2>1. CASE k = NoEntry \/ (k.entry /\ k.destroyed)
        BY <2>1 DEF ShownOf
    <2>2. CASE \E r \in 1..n : /\ EntryOf(k, cn[v][r]) /\ cn[v][r].exists
                               /\ v \in emits \/ r <= told[v]
                               /\ ~restarted => \A s \in Stream : stream[s] = "starting" => r <= sent[s][v]
        <3>1. PICK r \in 1..n : /\ EntryOf(k, cn[v][r]) /\ cn[v][r].exists
                                /\ v \in emits \/ r <= told[v]
                                /\ ~restarted => \A s \in Stream : stream[s] = "starting" => r <= sent[s][v]
            BY <2>2
        <3>2. r \in 1..Len(cn'[v]) /\ cn'[v][r] = cn[v][r] /\ r <= n
            BY <1>2, <1>4
        <3>3. v \in emits' \/ r <= told'[v]
            BY <1>2, <3>1, <3>2
        <3>4. ~restarted' => \A s \in Stream : stream'[s] = "starting" => r <= sent'[s][v]
            BY <3>1, <3>2
        <3> QED
            BY <3>1, <3>2, <3>3, <3>4 DEF ShownOf
    <2> QED
        BY <1>1, <2>1, <2>2 DEF ShownOf
<1>6. WasProvisioning(v)'
    BY <1>1, <1>4 DEF WasProvisioning, Live, KnownProvisioning
<1>7. WasGone(v)'
    <2> SUFFICES ASSUME k.destroyed
                 PROVE  \E i \in 1..Len(cn'[v]) : ~cn'[v][i].exists /\ (v \in emits' \/ i <= told'[v])
        BY DEF WasGone
    <2>1. PICK i \in 1..n : ~cn[v][i].exists /\ (v \in emits \/ i <= told[v])
        BY <1>1 DEF WasGone
    <2>2. i \in 1..Len(cn'[v]) /\ cn'[v][i] = cn[v][i] /\ i <= n
        BY <1>2, <1>4
    <2>3. v \in emits' \/ i <= told'[v]
        BY <1>2, <2>1, <2>2
    <2> QED
        BY <2>1, <2>2, <2>3
<1>8. LeftBehind(v)'
    <2> SUFFICES ASSUME vms # Null, ~cn'[v][vms[v]].exists, Live(k)
                 PROVE  /\ vms[v] >= 2
                        /\ \A s \in Stream : stream'[s] \in {"starting", "ready"} => vms[v] <= sent'[s][v]
        BY DEF LeftBehind, Live
    <2>1. vms[v] \in 1..n /\ cn'[v][vms[v]] = cn[v][vms[v]]
        OBVIOUS
    <2>2. /\ vms[v] >= 2
          /\ \A s \in Stream : stream[s] \in {"starting", "ready"} => vms[v] <= sent[s][v]
        BY <1>1, <2>1 DEF LeftBehind
    <2>3. \A s \in Stream : stream'[s] \in {"starting", "ready"} => vms[v] <= sent'[s][v]
        BY <1>2, <2>1, <2>2
    <2> QED
        BY <2>2, <2>3
<1>9. ASSUME NEW g \in 1..n, looked', v \notin emits', ~Withheld(v, cn[v][g])',
             (looked /\ v \notin emits /\ ~Withheld(v, cn[v][g])) => SeenLike(v, g)
      PROVE  SeenLike(v, g)'
    <2>1. CASE told'[v] = n
        BY <1>2, <2>1 DEF SeenLike, LooksLike
    <2>2. CASE looked /\ v \notin emits
        <3>1. ~Withheld(v, cn[v][g])
            BY <1>9 DEF Withheld, KnownProvisioning
        <3>2. PICK i \in 1..told[v] : LooksLike(cn[v][i], cn[v][g])
            BY <1>9, <2>2, <3>1 DEF SeenLike
        <3>3. i \in 1..told'[v] /\ i \in 1..n
            BY <1>2
        <3>4. cn'[v][i] = cn[v][i] /\ cn'[v][g] = cn[v][g]
            BY <3>3
        <3> QED
            BY <3>2, <3>3, <3>4 DEF SeenLike, LooksLike
    <2> QED
        BY <1>9, <2>1, <2>2
<1>10. SentIsTold(v)'
    <2> SUFFICES ASSUME looked', v \notin emits'
                 PROVE  /\ \A s \in Stream : (stream'[s] = "ready" /\ ~Withheld(v, cn[v][sent[s][v]])') =>
                              SeenLike(v, sent[s][v])'
                        /\ (vms' # Null' /\ ~Withheld(v, cn[v][vms[v]])') => SeenLike(v, vms[v])'
        BY DEF SentIsTold
    <2>1. ASSUME NEW s \in Stream, stream'[s] = "ready", ~Withheld(v, cn[v][sent[s][v]])'
          PROVE  SeenLike(v, sent[s][v])'
        <3>1. PICK g \in 1..n : sent[s][v] = g /\ sent'[s][v] = g
            BY <1>3, <2>1
        <3>2. (looked /\ v \notin emits /\ ~Withheld(v, cn[v][g])) => SeenLike(v, g)
            BY <1>1, <2>1, <3>1 DEF SentIsTold
        <3>3. ~Withheld(v, cn[v][g])'
            BY <2>1, <3>1 DEF Withheld, KnownProvisioning
        <3>4. SeenLike(v, g)'
            BY <1>9, <3>2, <3>3
        <3> QED
            BY <3>1, <3>4 DEF SeenLike, LooksLike
    <2>2. ASSUME vms' # Null', ~Withheld(v, cn[v][vms[v]])' PROVE SeenLike(v, vms[v])'
        <3>1. PICK g \in 1..n : vms[v] = g /\ vms'[v] = g
            BY <2>2 DEF Null
        <3>2. (looked /\ v \notin emits /\ ~Withheld(v, cn[v][g])) => SeenLike(v, g)
            BY <1>1, <2>2, <3>1 DEF SentIsTold, Null
        <3>3. ~Withheld(v, cn[v][g])'
            BY <2>2, <3>1 DEF Withheld, KnownProvisioning
        <3>4. SeenLike(v, g)'
            BY <1>9, <3>2, <3>3
        <3> QED
            BY <3>1, <3>4 DEF SeenLike, LooksLike
    <2> QED
        BY <2>1, <2>2
<1> QED
    BY <1>5, <1>6, <1>7, <1>8, <1>10 DEF OfOne

\* The first stream of an attempt gets ready, which reports nothing: the agent is going to
\* do its lookup.
LEMMA FirstReadyKeepsOne ==
    ASSUME MissedInv, NEW v \in VM, ~CameBack(v), NEW s \in Stream, ~restarted, stream[s] = "starting",
           NEW j \in 1..Len(cn[v]), sent[s][v] <= j,
           UNCHANGED <<cn, told, knownVms, emits, looked, restarted>>,
           vms'[v] = j, sent'[s][v] = j, stream'[s] = "ready",
           \A u \in Stream : u # s => stream'[u] = stream[u]
    PROVE  OfOne(v)'
<1> DEFINE k == knownVms[v]
<1>1. ShownOf(v) /\ WasProvisioning(v) /\ WasGone(v)
    BY DEF MissedInv, OfOne
<1>2. /\ ~looked /\ \A u \in Stream : u # s => stream[u] \notin {"starting", "ready"}
    BY StreamFacts DEF MissedInv, OneStream
<1>3. Len(cn[v]) \in Nat /\ sent[s][v] \in Nat
    <2>1. Versions(sent[s])
        BY DEF MissedInv, EventsInv, SentInv
    <2> QED
        BY <2>1, OneTyped, Bounds DEF Versions
<1>4. ShownOf(v)'
    BY <1>1, <1>2 DEF ShownOf
<1>5. WasProvisioning(v)' /\ WasGone(v)'
    BY <1>1 DEF WasProvisioning, WasGone, Live, KnownProvisioning
<1>6. SentIsTold(v)'
    BY <1>2 DEF SentIsTold
<1>7. LeftBehind(v)'
    <2> SUFFICES ASSUME ~cn[v][j].exists, Live(k)
                 PROVE  /\ j >= 2
                        /\ \A u \in Stream : stream'[u] \in {"starting", "ready"} => j <= sent'[u][v]
        BY DEF LeftBehind, Live
    <2>1. NoEntry.entry = FALSE
        BY DEF NoEntry
    <2>2. PICK r \in 1..Len(cn[v]) : cn[v][r].exists /\ r <= sent[s][v]
        BY <1>1, <2>1 DEF ShownOf, Live
    <2>3. j >= 2
        BY <1>3, <2>2
    <2> QED
        BY <1>2, <1>3, <2>3
<1> QED
    BY <1>4, <1>5, <1>6, <1>7 DEF OfOne

LEMMA SentBounds ==
    ASSUME MissedInv, NEW s \in Stream, stream[s] \in {"starting", "ready"}, NEW v \in VM
    PROVE  sent[s][v] \in Nat /\ sent[s][v] >= 1 /\ sent[s][v] <= Len(cn[v])
<1>1. Versions(sent[s])
    BY DEF MissedInv, EventsInv, SentInv
<1> QED
    BY <1>1, Bounds DEF Versions

LEMMA VmsBounds ==
    ASSUME MissedInv, vms # Null, NEW v \in VM
    PROVE  vms[v] \in Nat /\ vms[v] >= 1 /\ vms[v] <= Len(cn[v])
<1>1. Versions(vms)
    BY DEF MissedInv, VmsInv
<1> QED
    BY <1>1, Bounds DEF Versions

LEMMA EventKeepsOne ==
    ASSUME MissedInv, NEW s \in Stream, NEW w \in VM, Event(s, w), NEW v \in VM, ~CameBack(v)
    PROVE  OfOne(v)'
<1>1. /\ stream[s] = "ready" /\ sent[s][w] < Len(cn[w])
      /\ sent' = [sent EXCEPT ![s][w] = sent[s][w] + 1] /\ vms' = [vms EXCEPT ![w] = sent'[s][w]]
      /\ UpdateHandler("vmadm", Version(sent[s]), Version(sent'[s]))
      /\ UNCHANGED <<cn, told, restarted, looked, stream>>
    BY DEF Event
<1>2. sent \in [Stream -> [VM -> 0..MaxVer]] /\ vms \in [VM -> 0..MaxVer]
    BY DEF MissedInv, EventsInv, SentInv
<1>3. /\ sent'[s][w] = sent[s][w] + 1 /\ vms'[w] = sent[s][w] + 1
      /\ \A x \in VM : x # w => sent'[s][x] = sent[s][x] /\ vms'[x] = vms[x]
      /\ \A u \in Stream : u # s => sent'[u] = sent[u]
    BY <1>1, <1>2
<1>4. /\ knownVms'[v] = DispatchChange(knownVms[v], "vmadm", cn[v][sent[s][v]], cn[v][sent'[s][v]]).known
      /\ v \in emits' <=> v \in emits \/
            DispatchChange(knownVms[v], "vmadm", cn[v][sent[s][v]], cn[v][sent'[s][v]]).emit
    BY <1>1, ReportOfOne DEF Version
<1>5. vms # Null
    BY <1>1, Bounds DEF MissedInv, VmsInv, Versions, Null
<1>6. SentIsTold(v)
    BY DEF MissedInv, OfOne
<1>7. CASE v = w
    <2> DEFINE i == sent[s][v]
    <2> DEFINE j == i + 1
    <2>1. i \in 1..Len(cn[v]) /\ j \in 1..Len(cn[v]) /\ i < Len(cn[v]) /\ Len(cn[v]) \in Nat
        BY <1>1, <1>7, SentBounds, OneTyped
    <2>2. (looked /\ v \notin emits /\ ~Withheld(v, cn[v][i])) => SeenLike(v, i)
        BY <1>1, <1>6 DEF SentIsTold
    <2>3. ~cn[v][i].exists => i = 1 /\ j = 2
        <3>1. ~cn[v][i].exists => i \notin 2..Len(cn[v])
            BY <2>1, NotBack
        <3> QED
            BY <2>1, <3>1
    <2>4. ~cn[v][i].exists => cn[v][j].exists
        <3>1. j \in 2..Len(cn[v]) /\ j - 1 = i
            BY <2>1
        <3> QED
            BY <3>1, NotBack
    <2>5. ~restarted => \A u \in Stream : stream[u] # "starting"
        BY <1>1, StreamFacts DEF MissedInv, OneStream
    <2>6. sent'[s][v] = j /\ vms'[v] = j
        BY <1>3, <1>7
    <2>7. /\ knownVms'[v] = DispatchChange(knownVms[v], "vmadm", cn[v][i], cn[v][j]).known
          /\ v \in emits' <=> v \in emits \/ DispatchChange(knownVms[v], "vmadm", cn[v][i], cn[v][j]).emit
        BY <1>4, <2>6
    <2>8. \A u \in Stream : u # s => stream'[u] = stream[u] /\ sent'[u][v] = sent[u][v]
        BY <1>1, <1>3
    <2> HIDE DEF i, j
    <2> QED
        BY <1>1, <2>1, <2>2, <2>3, <2>4, <2>5, <2>6, <2>7, <2>8, ReportKeepsOne
<1>8. CASE v # w
    <2>1. sent'[s][v] = sent[s][v] /\ vms'[v] = vms[v] /\ \A u \in Stream : sent'[u][v] = sent[u][v]
        BY <1>3, <1>8
    <2>2. DispatchChange(knownVms[v], "vmadm", cn[v][sent[s][v]], cn[v][sent'[s][v]]) = Silently(knownVms[v])
        BY <2>1, SameIsSilent
    <2>3. knownVms'[v] = knownVms[v] /\ (v \in emits' <=> v \in emits)
        BY <1>4, <2>2 DEF Silently
    <2>4. vms[v] \in 1..Len(cn[v]) /\ Len(cn[v]) \in Nat /\ told[v] \in Nat
        BY <1>5, VmsBounds, OneTyped
    <2>5. /\ told[v] <= told'[v] /\ told'[v] \in Nat
          /\ Len(cn'[v]) \in Nat /\ Len(cn[v]) <= Len(cn'[v])
        BY <1>1, <2>4
    <2> QED
        BY <1>1, <1>5, <2>1, <2>3, <2>4, <2>5, UnreportedKeepsOne
<1> QED
    BY <1>7, <1>8

LEMMA ReadyKeepsOne ==
    ASSUME MissedInv, NEW s \in Stream, Ready(s), ~(restarted /\ vms = Null), NEW v \in VM, ~CameBack(v)
    PROVE  OfOne(v)'
<1>1. PICK snapshot \in [VM -> 1..MaxVer] :
         /\ \A x \in VM : snapshot[x] \in sent[s][x]..Len(cn[x])
         /\ IF restarted THEN SendMissedUpdates(vms, snapshot) ELSE UNCHANGED <<knownVms, emits>>
         /\ vms' = snapshot
         /\ sent' = [sent EXCEPT ![s] = snapshot]
         /\ stream' = [stream EXCEPT ![s] = "ready"]
         /\ UNCHANGED <<cn, told>>
    BY DEF Ready
<1>2. stream[s] = "starting" /\ UNCHANGED <<restarted, looked>>
    BY DEF Ready
<1>3. sent \in [Stream -> [VM -> 0..MaxVer]] /\ stream \in [Stream -> {"none", "starting", "ready", "gone"}]
    BY DEF MissedInv, EventsInv, SentInv, HandleInv
<1> DEFINE j == snapshot[v]
<1>4. /\ sent'[s][v] = j /\ vms'[v] = j /\ stream'[s] = "ready"
      /\ \A u \in Stream : u # s => stream'[u] = stream[u] /\ sent'[u][v] = sent[u][v]
    BY <1>1, <1>3
<1>5. sent[s][v] \in Nat /\ sent[s][v] >= 1 /\ Len(cn[v]) \in Nat
    BY <1>2, SentBounds, OneTyped
<1>6. j \in sent[s][v]..Len(cn[v])
    BY <1>1
<1>7. j \in 1..Len(cn[v]) /\ sent[s][v] <= j
    BY <1>5, <1>6
<1>8. CASE ~restarted
    <2>1. UNCHANGED <<knownVms, emits>>
        BY <1>1, <1>8
    <2> HIDE DEF j
    <2> QED
        BY <1>1, <1>2, <1>4, <1>7, <1>8, <2>1, FirstReadyKeepsOne
<1>9. CASE restarted
    <2> DEFINE i == vms[v]
    <2>1. vms # Null /\ SendMissedUpdates(vms, snapshot)
        BY <1>1, <1>9
    <2>2. i \in Nat /\ i >= 1 /\ i <= Len(cn[v])
        BY <2>1, VmsBounds
    <2>3. SentIsTold(v) /\ LeftBehind(v)
        BY DEF MissedInv, OfOne
    <2>4. (looked /\ v \notin emits /\ ~Withheld(v, cn[v][i])) => SeenLike(v, i)
        BY <2>1, <2>3 DEF SentIsTold
    <2>5. (~cn[v][i].exists /\ Live(knownVms[v])) =>
             /\ i >= 2 /\ i <= sent[s][v]
             /\ \A u \in Stream : stream[u] \in {"starting", "ready"} => i <= sent[u][v]
        BY <1>2, <2>1, <2>3 DEF LeftBehind
    <2>6. (~cn[v][i].exists /\ Live(knownVms[v])) => j = i /\ j >= 2
        <3> SUFFICES ASSUME ~cn[v][i].exists, Live(knownVms[v]) PROVE j = i /\ j >= 2
            OBVIOUS
        <3>1. i \in 2..Len(cn[v])
            BY <1>5, <2>2, <2>5
        <3>2. i = Len(cn[v])
            BY <3>1, NotBack
        <3> QED
            BY <1>5, <1>7, <2>2, <2>5, <3>2
    <2>7. /\ knownVms'[v] = DispatchChange(knownVms[v], "vmadm", cn[v][i], cn[v][j]).known
          /\ v \in emits' <=> v \in emits \/ DispatchChange(knownVms[v], "vmadm", cn[v][i], cn[v][j]).emit
        BY <2>1, ReportOfOne DEF SendMissedUpdates, Version
    <2>8. i \in 1..Len(cn[v])
        BY <1>5, <2>2
    <2> HIDE DEF i, j
    <2>9. ~(~cn[v][i].exists /\ cn[v][j].exists /\ Live(knownVms[v]))
        BY <2>6
    <2>10. (~cn[v][i].exists /\ ~cn[v][j].exists /\ Live(knownVms[v])) =>
                /\ j >= 2
                /\ \A u \in Stream : (u # s /\ stream[u] \in {"starting", "ready"}) => j <= sent[u][v]
        BY <2>5, <2>6
    <2> QED
        BY <1>1, <1>2, <1>4, <1>7, <1>9, <2>4, <2>7, <2>8, <2>9, <2>10, ReportKeepsOne
<1> QED
    BY <1>8, <1>9

-----------------------------------------------------------------------------
LEMMA OneStreamStep == EventsInv /\ OneStream /\ [Next]_vars => OneStream'
<1> SUFFICES ASSUME EventsInv, OneStream, [Next]_vars, ~restarted' PROVE OneStream'
    BY DEF OneStream
<1>1. CASE UNCHANGED <<restarted, stream, agent, agentStream, looked, stopWatcher>>
    BY <1>1 DEF OneStream
<1>2. CASE AgentLooks
    BY <1>2 DEF AgentLooks, OneStream
<1>3. CASE AgentStarts
    <2>1. /\ agent = "idle" /\ agent' = "waiting" /\ looked' = FALSE /\ agentStream' = streams'
          /\ UNCHANGED <<stopWatcher, restarted>> /\ StartStream
        BY <1>3 DEF AgentStarts
    <2>2. stopWatcher = NoStream /\ \A s \in Stream : stream[s] \notin {"starting", "ready"}
        BY <2>1, StreamFacts DEF OneStream
    <2>3. stream' = [stream EXCEPT ![streams'] = "starting"]
        BY <2>1, <2>2 DEF StartStream
    <2>4. \A s \in Stream : s # streams' => stream'[s] = stream[s]
        BY <2>3 DEF EventsInv, HandleInv
    <2>5. \A s \in Stream : stream'[s] \in {"starting", "ready"} => s = streams' /\ stream'[s] = "starting"
        BY <2>2, <2>3, <2>4 DEF EventsInv, HandleInv
    <2> QED
        BY <2>1, <2>2, <2>5 DEF OneStream
<1>4. ASSUME NEW from, \A s \in Stream : from[s] \in {stream[s], "gone"}, stream' = Stopped(from),
             stopWatcher' = NoStream, UNCHANGED <<restarted, agentStream, looked>>,
             agent' \in {agent, "stopped"} \/ agent = "running"
      PROVE  OneStream'
    <2>1. \A s \in Stream : stream'[s] # "gone" => stream'[s] = stream[s] /\ s # stopWatcher
        BY <1>4 DEF Stopped
    <2>2. \A s \in Stream : stream'[s] # "ready"
        BY <1>4, <2>1 DEF OneStream
    <2>3. \A s \in Stream : stream'[s] = "starting" =>
             s = agentStream /\ agent \in {"waiting", "stopped"} /\ ~looked
        BY <1>4, <2>1 DEF OneStream
    <2> QED
        BY <1>4, <2>2, <2>3 DEF OneStream
<1>5. CASE AttemptFails \/ AgentStops
    <2>1. /\ stream' = Stopped(stream) /\ stopWatcher' = NoStream
          /\ UNCHANGED <<restarted, agentStream, looked>>
          /\ agent' \in {agent, "stopped"} \/ agent = "running"
        BY <1>5 DEF AttemptFails, AgentStops
    <2> QED
        BY <1>4, <2>1
<1>6. CASE \E s \in Stream : StreamFails(s)
    <2>1. PICK s \in Stream : StreamFails(s)
        BY <1>6
    <2>2. \A u \in Stream : [stream EXCEPT ![s] = "gone"][u] \in {stream[u], "gone"}
        BY DEF EventsInv, HandleInv
    <2> QED
        BY <1>4, <2>1, <2>2 DEF StreamFails
<1>7. CASE \E s \in Stream : Ready(s)
    <2>1. PICK s \in Stream : Ready(s)
        BY <1>7
    <2>2. /\ stream[s] = "starting" /\ stopWatcher' = s /\ ~restarted
          /\ stream' = [stream EXCEPT ![s] = "ready"]
          /\ agent' = IF s = agentStream /\ agent = "waiting" THEN "running" ELSE agent
        BY <2>1 DEF Ready
    <2>3. agent' # "idle" /\ \A u \in Stream : u # s => stream[u] \notin {"starting", "ready"}
        BY <2>2, StreamFacts DEF OneStream
    <2>4. \A u \in Stream : stream'[u] \in {"starting", "ready"} => u = s /\ stream'[u] = "ready"
        BY <2>2, <2>3 DEF EventsInv, HandleInv
    <2> QED
        BY <2>2, <2>3, <2>4 DEF OneStream
<1>8. CASE VmadmEventsRestart
    BY <1>8 DEF VmadmEventsRestart
<1>9. CASE \/ \E v \in VM : CnChange(v) /\ UNCHANGED eventsVars
           \/ \E v \in VM : EmitImmediately(v) /\ UNCHANGED eventsVars
           \/ \E s \in Stream, v \in VM : Event(s, v)
           \/ UNCHANGED vars
    BY <1>1, <1>9 DEF Event, vars, eventsVars
<1> QED
    BY <1>2, <1>3, <1>5, <1>6, <1>7, <1>8, <1>9 DEF Next

LEMMA VmsStep == EventsInv /\ VmsInv /\ [Next]_vars => VmsInv'
<1> SUFFICES ASSUME EventsInv, VmsInv, [Next]_vars PROVE VmsInv'
    OBVIOUS
<1>1. ASSUME UNCHANGED vms, UNCHANGED cn \/ \E v \in VM : CnChange(v),
             agent' = "running" => agent = "running",
             \A s \in Stream : stream'[s] = "ready" => stream[s] = "ready"
      PROVE  VmsInv'
    <2>1. Versions(vms) => Versions(vms)'
        BY <1>1, VersionsStay DEF EventsInv, Versions
    <2> QED
        BY <1>1, <2>1 DEF VmsInv, Null
<1>2. ASSUME NEW s \in Stream, Ready(s) PROVE VmsInv'
    <2>1. CASE restarted /\ vms = Null
        <3>1. UNCHANGED watcherVars /\ UNCHANGED <<vms, stream, agent>>
            BY <1>2, <2>1 DEF Ready
        <3> QED
            BY <1>1, <3>1 DEF watcherVars
    <2>2. CASE ~(restarted /\ vms = Null)
        <3>1. PICK snapshot \in [VM -> 1..MaxVer] :
                /\ \A v \in VM : snapshot[v] \in sent[s][v]..Len(cn[v])
                /\ vms' = snapshot /\ UNCHANGED cn
            BY <1>2, <2>2 DEF Ready
        <3>2. \A v \in VM : snapshot[v] <= Len(cn[v])
            BY <3>1
        <3> QED
            BY <3>1, <3>2 DEF Versions, VmsInv
    <2> QED
        BY <2>1, <2>2
<1>3. ASSUME NEW s \in Stream, NEW v \in VM, Event(s, v) PROVE VmsInv'
    <2>1. /\ stream[s] = "ready" /\ sent[s][v] < Len(cn[v])
          /\ sent' = [sent EXCEPT ![s][v] = sent[s][v] + 1] /\ vms' = [vms EXCEPT ![v] = sent'[s][v]]
          /\ UNCHANGED cn
        BY <1>3 DEF Event
    <2>2. Versions(vms) /\ Versions(sent[s]) /\ Len(cn[v]) \in 1..MaxVer
        BY <2>1 DEF VmsInv, EventsInv, SentInv, WatcherInv
    <2>3. sent'[s][v] = sent[s][v] + 1
        BY <2>1 DEF EventsInv, SentInv
    <2>4. sent[s][v] + 1 \in 1..MaxVer /\ sent[s][v] + 1 <= Len(cn[v])
        BY <2>1, <2>2, Bounds DEF Versions
    <2> DEFINE g == sent[s][v] + 1
    <2>5. vms' = [vms EXCEPT ![v] = g] /\ g \in 1..MaxVer /\ g <= Len(cn[v])
        BY <2>1, <2>3, <2>4
    <2> HIDE DEF g
    <2>6. vms' \in [VM -> 1..MaxVer] /\ \A u \in VM : vms'[u] <= Len(cn[u])
        BY <2>2, <2>5 DEF Versions
    <2> QED
        BY <2>1, <2>6 DEF Versions, VmsInv
<1>4. CASE AgentStarts \/ VmadmEventsRestart
    <2>1. StartStream /\ UNCHANGED <<cn, vms>> /\ (agent' = "running" => agent = "running")
        BY <1>4 DEF AgentStarts, VmadmEventsRestart, watcherVars
    <2>2. stream' = stream \/ stream' = [stream EXCEPT ![streams'] = "starting"]
        BY <2>1 DEF StartStream
    <2>3. \A s \in Stream : stream'[s] = "ready" => stream[s] = "ready"
        BY <2>2 DEF EventsInv, HandleInv
    <2> QED
        BY <1>1, <2>1, <2>3
<1>5. CASE AttemptFails \/ AgentStops \/ \E s \in Stream : StreamFails(s)
    <2>1. UNCHANGED <<cn, vms>> /\ (agent' = "running" => agent = "running")
        BY <1>5 DEF AttemptFails, AgentStops, StreamFails, watcherVars
    <2>2. \/ stream' = Stopped(stream)
          \/ \E s \in Stream : stream' = Stopped([stream EXCEPT ![s] = "gone"])
        BY <1>5 DEF AttemptFails, AgentStops, StreamFails
    <2>3. \A s \in Stream : stream'[s] = "ready" => stream[s] = "ready"
        BY <2>2 DEF Stopped, EventsInv, HandleInv
    <2> QED
        BY <1>1, <2>1, <2>3
<1>6. CASE AgentLooks \/ UNCHANGED vars
    BY <1>1, <1>6 DEF AgentLooks, vars, eventsVars, watcherVars
<1>7. CASE \E v \in VM : (CnChange(v) \/ EmitImmediately(v)) /\ UNCHANGED eventsVars
    BY <1>1, <1>7 DEF EmitImmediately, eventsVars
<1> QED
    BY <1>2, <1>3, <1>4, <1>5, <1>6, <1>7 DEF Next

LEMMA MissedInit == Init => MissedInv
<1> SUFFICES ASSUME Init PROVE MissedInv
    OBVIOUS
<1>1. EventsInv
    BY EventsInit
<1>2. Versions(told) /\ HistoryInv
    BY ToldInit, HistoryInit DEF Init
<1>3. OneStream /\ VmsInv
    BY DEF Init, OneStream, VmsInv
<1>4. ASSUME NEW v \in VM PROVE OfOne(v)
    <2>1. knownVms[v] = NoEntry /\ ~looked /\ vms = Null
        BY DEF Init, VmWatcherInit
    <2> QED
        BY <2>1 DEF OfOne, ShownOf, WasProvisioning, WasGone, SentIsTold, LeftBehind, Live, NoEntry
<1> QED
    BY <1>1, <1>2, <1>3, <1>4 DEF MissedInv
\* What a step that reports nothing does to one VM.
LEMMA StreamsKeepOne ==
    ASSUME MissedInv, NEW v \in VM, ~CameBack(v),
           UNCHANGED watcherVars, UNCHANGED vms, restarted => restarted', looked' => looked,
           \A s \in Stream : stream'[s] = "ready" => stream[s] = "ready" /\ sent'[s][v] = sent[s][v],
           \A s \in Stream : stream'[s] = "starting" =>
                (stream[s] = "starting" /\ sent'[s][v] = sent[s][v]) \/ sent'[s][v] = Len(cn[v])
    PROVE  OfOne(v)'
<1>1. UNCHANGED <<cn, knownVms, emits, told>>
    BY DEF watcherVars
<1>2. Len(cn[v]) \in Nat /\ told[v] \in Nat
    BY OneTyped
<1>3. vms # Null => vms[v] \in 1..Len(cn[v])
    BY <1>2, VmsBounds
<1> QED
    BY <1>1, <1>2, <1>3, UnreportedKeepsOne DEF Null

LEMMA StartsKeepOne ==
    ASSUME MissedInv, Running, StartStream, NEW v \in VM, ~CameBack(v),
           UNCHANGED watcherVars, UNCHANGED vms, restarted => restarted', looked' => looked
    PROVE  OfOne(v)'
<1>1. sent \in [Stream -> [VM -> 0..MaxVer]] /\ stream \in [Stream -> {"none", "starting", "ready", "gone"}]
    BY DEF MissedInv, EventsInv, SentInv, HandleInv
<1>2. CASE UNCHANGED <<stream, sent>>
    BY <1>2, StreamsKeepOne
<1>3. CASE /\ stream' = [stream EXCEPT ![streams'] = "starting"]
           /\ sent' = [sent EXCEPT ![streams'] = Current]
    <2>1. \A s \in Stream : s # streams' => stream'[s] = stream[s] /\ sent'[s] = sent[s]
        BY <1>1, <1>3
    <2>2. \A s \in Stream : s = streams' => stream'[s] = "starting" /\ sent'[s] = Current
        BY <1>1, <1>3
    <2>3. Current[v] = Len(cn[v])
        BY DEF Current
    <2> QED
        BY <2>1, <2>2, <2>3, StreamsKeepOne
<1> QED
    BY <1>2, <1>3 DEF StartStream

LEMMA StopsKeepOne ==
    ASSUME MissedInv, NEW from, \A s \in Stream : from[s] \in {stream[s], "gone"},
           stream' = Stopped(from), UNCHANGED watcherVars, UNCHANGED <<vms, restarted, looked, sent>>,
           NEW v \in VM, ~CameBack(v)
    PROVE  OfOne(v)'
<1>1. \A s \in Stream : stream'[s] \in {stream[s], "gone"}
    BY DEF Stopped
<1> QED
    BY <1>1, StreamsKeepOne

\* What the listener looks at, and what becomes of the VMs.
LEMMA LooksKeepsOne ==
    ASSUME MissedInv, NEW v \in VM, ~CameBack(v), UNCHANGED <<knownVms, vms, restarted, stream, sent>>,
           UNCHANGED cn \/ \E w \in VM : CnChange(w),
           \/ UNCHANGED <<emits, told, looked>>
           \/ \E w \in VM : EmitImmediately(w) /\ UNCHANGED looked
           \/ told' = Current /\ UNCHANGED emits
    PROVE  OfOne(v)'
<1>1. WatcherInv
    BY DEF MissedInv, EventsInv
<1>2. /\ Len(cn'[v]) \in Nat /\ Len(cn[v]) <= Len(cn'[v])
      /\ \A i \in 1..Len(cn[v]) : cn'[v][i] = cn[v][i]
    BY <1>1, VersionsGrow
<1>3. told[v] \in Nat /\ told[v] <= Len(cn[v]) /\ Len(cn[v]) \in Nat
    BY OneTyped
<1>4. vms # Null => vms[v] \in 1..Len(cn[v])
    BY <1>3, VmsBounds
<1>5. /\ told'[v] \in {told[v], Len(cn[v])}
      /\ v \in emits' => v \in emits
      /\ v \in emits => v \in emits' \/ told'[v] = Len(cn[v])
      /\ looked' => looked \/ told'[v] = Len(cn[v])
    <2>1. CASE UNCHANGED <<emits, told, looked>>
        BY <2>1
    <2>2. CASE \E w \in VM : EmitImmediately(w) /\ UNCHANGED looked
        <3>1. PICK w \in VM : /\ emits' = emits \ {w} /\ told' = [told EXCEPT ![w] = Len(cn[w])]
                              /\ UNCHANGED looked
            BY <2>2 DEF EmitImmediately
        <3>2. told \in [VM -> 1..MaxVer]
            BY DEF MissedInv, Versions
        <3>3. told'[v] = IF v = w THEN Len(cn[v]) ELSE told[v]
            BY <3>1, <3>2
        <3> QED
            BY <3>1, <3>3
    <2>3. CASE told' = Current /\ UNCHANGED emits
        BY <2>3 DEF Current
    <2> QED
        BY <2>1, <2>2, <2>3
<1>6. told'[v] \in Nat /\ told[v] <= told'[v]
    BY <1>3, <1>5
<1>7. vms' # Null => vms # Null
    BY DEF Null
<1> QED
    BY <1>2, <1>4, <1>5, <1>6, <1>7, UnreportedKeepsOne

LEMMA OneStep ==
    ASSUME MissedInv, [Next]_vars, NEW v \in VM, ~CameBack(v)
    PROVE  OfOne(v)'
<1>1. CASE UNCHANGED vars
    BY <1>1, LooksKeepsOne DEF vars, watcherVars, eventsVars
<1>2. CASE \E w \in VM : CnChange(w) /\ UNCHANGED <<knownVms, emits, told, eventsVars>>
    BY <1>2, LooksKeepsOne DEF eventsVars
<1>3. CASE \E w \in VM : EmitImmediately(w) /\ UNCHANGED eventsVars
    BY <1>3, LooksKeepsOne DEF EmitImmediately, eventsVars
<1>4. CASE AgentLooks
    BY <1>4, LooksKeepsOne DEF AgentLooks
<1>5. CASE AgentStarts \/ VmadmEventsRestart
    <2>1. /\ Running /\ StartStream /\ UNCHANGED watcherVars /\ UNCHANGED vms
          /\ restarted => restarted'
          /\ looked' => looked
        BY <1>5 DEF AgentStarts, VmadmEventsRestart
    <2> QED
        BY <2>1, StartsKeepOne
<1>6. CASE AttemptFails \/ AgentStops
    <2>1. stream' = Stopped(stream) /\ UNCHANGED watcherVars /\ UNCHANGED <<vms, restarted, looked, sent>>
        BY <1>6 DEF AttemptFails, AgentStops
    <2> QED
        BY <2>1, StopsKeepOne
<1>7. ASSUME NEW s \in Stream, StreamFails(s) PROVE OfOne(v)'
    <2>1. /\ stream' = Stopped([stream EXCEPT ![s] = "gone"])
          /\ UNCHANGED watcherVars /\ UNCHANGED <<vms, restarted, looked, sent>>
        BY <1>7 DEF StreamFails
    <2>2. \A u \in Stream : [stream EXCEPT ![s] = "gone"][u] \in {stream[u], "gone"}
        BY DEF MissedInv, EventsInv, HandleInv
    <2> QED
        BY <2>1, <2>2, StopsKeepOne
<1>8. ASSUME NEW s \in Stream, Ready(s) PROVE OfOne(v)'
    <2>1. CASE restarted /\ vms = Null
        <3>1. UNCHANGED <<watcherVars, vms, stream, sent, restarted, looked>>
            BY <1>8, <2>1 DEF Ready
        <3> QED
            BY <3>1, LooksKeepsOne DEF watcherVars
    <2> QED
        BY <1>8, <2>1, ReadyKeepsOne
<1> QED
    BY <1>1, <1>2, <1>3, <1>4, <1>5, <1>6, <1>7, <1>8, EventKeepsOne DEF Next

LEMMA MissedStep == MissedInv /\ [Next]_vars => MissedInv'
<1> SUFFICES ASSUME MissedInv, [Next]_vars PROVE MissedInv'
    OBVIOUS
<1>1. EventsInv' /\ OneStream' /\ VmsInv'
    BY EventsStep, OneStreamStep, VmsStep DEF MissedInv
<1>2. WatcherInv
    BY DEF MissedInv, EventsInv
<1>3. \/ UNCHANGED cn
      \/ \E v \in VM : CnChange(v)
    BY DEF Next, EmitImmediately, AgentStarts, AgentLooks, AttemptFails, AgentStops, Ready, StreamFails,
           Event, VmadmEventsRestart, SendMissedUpdates, vars, watcherVars
<1>4. HistoryInv'
    BY <1>2, <1>3, HistoryStays DEF MissedInv
<1>5. Versions(told)'
    <2>1. \/ \E v \in VM : CnChange(v) /\ UNCHANGED told
          \/ UNCHANGED <<cn, told>>
          \/ \E v \in VM : EmitImmediately(v)
          \/ ListenerLooks
        BY DEF Next, AgentStarts, AgentLooks, AttemptFails, AgentStops, Ready, StreamFails,
               Event, VmadmEventsRestart, vars, watcherVars, ListenerLooks, Current
    <2> QED
        BY <1>2, <2>1, ToldStays DEF MissedInv
<1>6. ASSUME NEW v \in VM, ~CameBack(v)' PROVE OfOne(v)'
    <2>1. /\ Len(cn'[v]) \in Nat /\ Len(cn[v]) <= Len(cn'[v])
          /\ \A i \in 1..Len(cn[v]) : cn'[v][i] = cn[v][i]
        BY <1>2, <1>3, VersionsGrow
    <2>2. ~CameBack(v)
        BY <1>6, <2>1, OneTyped, BackStays
    <2> QED
        BY <2>2, OneStep
<1> QED
    BY <1>1, <1>4, <1>5, <1>6 DEF MissedInv

\* A stream that has sent everything has sent what the VM is, and that was told.
LEMMA MissedTold == MissedInv => NothingMissed
<1> SUFFICES ASSUME MissedInv, NEW v \in VM, Settled(v), ~CameBack(v), ~Withheld(v, Last(v))
             PROVE  UpToDate(v)
    BY DEF NothingMissed
<1> DEFINE n == Len(cn[v])
<1>1. looked /\ v \notin emits /\ stopWatcher \in Stream /\ stream[stopWatcher] = "ready"
    BY DEF Settled, MissedInv, EventsInv, HandleInv
<1>2. sent[stopWatcher][v] = n /\ Last(v) = cn[v][n]
    BY <1>1 DEF Settled, Last
<1>3. SentIsTold(v)
    BY DEF MissedInv, OfOne
<1>4. SeenLike(v, n)
    BY <1>1, <1>2, <1>3 DEF SentIsTold
<1>5. PICK i \in 1..told[v] : LooksLike(cn[v][i], cn[v][n])
    BY <1>4 DEF SeenLike
<1>6. told[v] \in Nat
    BY OneTyped
<1>7. i = told[v] \/ i \in 1..(told[v] - 1)
    BY <1>5, <1>6
<1> QED
    BY <1>2, <1>5, <1>7 DEF UpToDate

\* NothingMissed holds always, whatever the numbers of VMs, changes, streams, failures and
\* attempts: what the first stream shows, what each stream sends and what a restart finds
\* missing is told or is withheld (lib/watchers/vmadm-events-watcher.js:35-140 and
\* updateHandler's dispatch in lib/vm-watcher.js).
THEOREM NothingIsMissed == Spec => []NothingMissed
BY MissedInit, MissedStep, MissedTold, PTL DEF Spec
=============================================================================
