-------------------------- MODULE ZoneeventWatcher --------------------------
(***************************************************************************)
(* ZoneeventWatcher (lib/watchers/zoneevent-watcher.js) behind VmWatcher:  *)
(* a child process, zoneevent, writes a line for each change of a zone's   *)
(* state from the moment it listens; a child that exits is replaced at     *)
(* once, one that is reset is killed and its lines are not read any more.  *)
(* What happens while no child listens is not written by any.  VmAgent     *)
(* starts and stops the watcher with each attempt of its startup, and does *)
(* a lookup of its own after start().                                      *)
(***************************************************************************)
EXTENDS VmWatcher

CONSTANT MaxStarts   \* bound: calls of start() by the owner
ASSUME StartsAssumption == MaxStarts \in Nat \ {0}

Child == 1..MaxStarts   \* slots of children: a new one takes a free slot
NoWatcher == 0

VARIABLES
    stopped,  \* self.stopped
    watcher,  \* self.watcher, the child, or NoWatcher
    child,    \* child[c]: how far it got, and whether it was killed or has an exit listener
    starts,   \* calls of start() by the owner so far
    read,     \* read[v]: the version of v up to which lines were read, or a child listened first
    first,    \* ghost: the versions when the last child began to listen
    lost,     \* ghost: VMs whose zone changed with no child to tell, and of which
              \* no line was news since
    looked    \* has the listener done its lookup since start()?

zoneVars == <<stopped, watcher, child, starts, read, first, lost, looked>>
vars == <<watcherVars, zoneVars>>

NoChild == [phase |-> "none", killed |-> FALSE, onExit |-> FALSE]
NewChild == [phase |-> "spawned", killed |-> FALSE, onExit |-> TRUE]

Init ==
    /\ VmWatcherInit
    /\ stopped = TRUE /\ watcher = NoWatcher /\ starts = 0
    /\ child = [c \in Child |-> NoChild]
    /\ read = [v \in VM |-> 1] /\ first = [v \in VM |-> 0]
    /\ lost = {} /\ looked = FALSE

Listening == watcher # NoWatcher /\ child[watcher].phase = "listening"

\* The slot that a new child takes.
Slot(children) == CHOOSE c \in Child : children[c].phase = "none"

\* Mutant of Reset: the exit listener stays.
ResetListening(children) ==
    [c \in Child |-> IF c = watcher /\ children[c] # NoChild
                     THEN [children[c] EXCEPT !.killed = TRUE] ELSE children[c]]

\* Mutant of Reset: the child is not killed.
ResetUnkilled(children) ==
    [c \in Child |-> IF c = watcher /\ children[c] # NoChild
                     THEN [children[c] EXCEPT !.onExit = FALSE] ELSE children[c]]

Reset(children) ==
    [c \in Child |-> IF c = watcher /\ children[c] # NoChild
                     THEN [children[c] EXCEPT !.killed = TRUE, !.onExit = FALSE]
                     ELSE children[c]]

-----------------------------------------------------------------------------
Start ==
    /\ stopped /\ starts < MaxStarts
    /\ stopped' = FALSE
    /\ starts' = starts + 1
    /\ watcher' = Slot(child)
    /\ child' = [child EXCEPT ![Slot(child)] = NewChild]
    /\ read' = IF starts = 0 THEN [v \in VM |-> Len(cn[v])] ELSE read
    /\ looked' = FALSE
    /\ UNCHANGED <<watcherVars, first, lost>>

Stop ==
    /\ ~stopped
    /\ stopped' = TRUE
    /\ child' = Reset(child)
    /\ watcher' = NoWatcher
    /\ UNCHANGED <<watcherVars, starts, read, first, lost, looked>>

\* Mutant of Exits: a child that exits is not replaced.
ExitsForGood(c) ==
    /\ child[c].phase # "none"
    /\ child' = [child EXCEPT ![c] = NoChild]
    /\ watcher' = IF child[c].onExit THEN NoWatcher ELSE watcher
    /\ UNCHANGED <<watcherVars, stopped, starts, read, first, lost, looked>>

\* A child ends, killed or not.  Its exit listener, if it still has one, resets the
\* watcher and starts it again in the same tick.
Exits(c) ==
    /\ child[c].phase # "none"
    /\ LET gone == [child EXCEPT ![c] = NoChild]
       IN  IF child[c].onExit /\ ~stopped
           THEN /\ watcher' = Slot(gone)
                /\ child' = [Reset(gone) EXCEPT ![Slot(gone)] = NewChild]
           ELSE /\ child' = gone
                /\ UNCHANGED watcher
    /\ UNCHANGED <<watcherVars, stopped, starts, read, first, lost, looked>>

\* The child has opened the channel of the zones' events; earlier ones it does not see.
Listens(c) ==
    /\ child[c].phase = "spawned"
    /\ child' = [child EXCEPT ![c].phase = "listening"]
    /\ IF c = watcher
       THEN /\ read' = [v \in VM |-> Len(cn[v])]
            /\ first' = read'
            /\ lost' = lost \cup {v \in VM : \E i \in read[v]..Len(cn[v]) :
                                                ZoneView(cn[v][i]) # ZoneView(Last(v))}
       ELSE UNCHANGED <<read, first, lost>>
    /\ UNCHANGED <<watcherVars, stopped, watcher, starts, looked>>

\* Mutant of ReadLine: the events of zones that stop are ignored.
ReadLineOfRunning(v) ==
    /\ Listening /\ read[v] < Len(cn[v])
    /\ read' = [read EXCEPT ![v] = @ + 1]
    /\ IF ZoneRunning(cn[v][read[v] + 1])
       THEN UpdateHandler("zoneevent", [u \in VM |-> cn[u][read[u]]], [u \in VM |-> cn[u][read'[u]]])
       ELSE UNCHANGED <<knownVms, emits>>
    /\ lost' = IF knownVms'[v] # knownVms[v] THEN lost \ {v} ELSE lost
    /\ UNCHANGED <<cn, told, stopped, watcher, child, starts, first, looked>>

\* The next line about v is read, if the next change of v has one.
ReadLine(v) ==
    /\ Listening /\ read[v] < Len(cn[v])
    /\ read' = [read EXCEPT ![v] = @ + 1]
    /\ UpdateHandler("zoneevent", [u \in VM |-> cn[u][read[u]]], [u \in VM |-> cn[u][read'[u]]])
    /\ lost' = IF knownVms'[v] # knownVms[v] THEN lost \ {v} ELSE lost
    /\ UNCHANGED <<cn, told, stopped, watcher, child, starts, first, looked>>

\* The listener's own lookup, once it has started the watcher.
AgentLooks ==
    /\ ~stopped /\ ~looked
    /\ looked' = TRUE
    /\ ListenerLooks
    /\ UNCHANGED <<stopped, watcher, child, starts, read, first, lost>>

Next ==
    \/ \E v \in VM : CnChange(v) /\ UNCHANGED <<knownVms, emits, told, zoneVars>>
    \/ \E v \in VM : EmitImmediately(v) /\ UNCHANGED zoneVars
    \/ \E v \in VM : ReadLine(v)
    \/ Start \/ Stop \/ AgentLooks
    \/ \E c \in Child : Exits(c) \/ Listens(c)

\* What is written is read, and a child listens if children are started again and
\* again; no child has to end, and nobody has to start or stop the watcher.
Fairness ==
    /\ \A v \in VM : WF_vars(EmitImmediately(v) /\ UNCHANGED zoneVars) /\ SF_vars(ReadLine(v))
    /\ WF_vars(AgentLooks)
    /\ \A c \in Child : SF_vars(Listens(c))

Spec == Init /\ [][Next]_vars
FairSpec == Spec /\ Fairness

-----------------------------------------------------------------------------
ToldOfZone(v) == ZoneView(cn[v][told[v]]) = ZoneView(Last(v))

\* When all lines are read and no event waits, the listener knows whether the zone
\* runs, however often the child was replaced or the watcher stopped and started in
\* between: unless the zone changed while no child listened and no line about it was news
\* since (zoneevent-watcher.js:73-105 and 163-171).
ZoneStateIsTold ==
    \A v \in VM : (Listening /\ looked /\ read[v] = Len(cn[v]) /\ v \notin emits /\ v \notin lost)
                    => ToldOfZone(v)

\* While the watcher is started a change of a zone's state is told in the end or lost,
\* however often the child ends (zoneevent-watcher.js:163-171).
ChangesAreTold == \A v \in VM : []<>(stopped \/ (looked /\ (v \in lost \/ ToldOfZone(v))))

\* No child is killed but by stop(): the end of a child that was reset earlier does
\* not touch the one that replaced it (zoneevent-watcher.js:182-193).
OnlyStopKills ==
    [][(\E c \in Child : ~child[c].killed /\ child'[c].killed) => ~stopped /\ stopped']_vars

\* What the watcher reports is what a watcher may report by the contract of
\* vm-watcher.js:17-30, with what it read last as its view.
W == INSTANCE Watchers WITH Watcher <- {"zoneevent"}, MayLapse <- TRUE,
        view <- [w \in {"zoneevent"} |-> IF Listening THEN read ELSE [v \in VM |-> 0]],
        first <- [w \in {"zoneevent"} |-> first]

ImplementsWatchers == W!Spec

\* A change that the last child wrote a line about is told: violated, since the VM may
\* have halted between two children, and the line of its next boot then looks like a
\* repetition of what knownVms kept from before (Zoneevent_stale.cfg).
LinesAreTold ==
    \A v \in VM :
        (Listening /\ looked /\ read[v] = Len(cn[v]) /\ v \notin emits
            /\ ZoneView(cn[v][first[v]]) # ZoneView(Last(v)))
        => ToldOfZone(v)

\* The type invariant; and the child that is neither killed nor gone is the one that
\* the watcher reads from and whose exit it waits for: there is one unless it is stopped
\* (zoneevent-watcher.js:156-193).
ZoneTypeOK ==
    /\ VmWatcherTypeOK
    /\ {stopped, looked} \subseteq BOOLEAN
    /\ starts \in 0..MaxStarts
    /\ read \in [VM -> 1..MaxVer] /\ first \in [VM -> 0..MaxVer] /\ lost \subseteq VM
    /\ child \in [Child -> [phase : {"none", "spawned", "listening"},
                            killed : BOOLEAN, onExit : BOOLEAN]]
    /\ watcher \in Child \cup {NoWatcher}
    /\ stopped <=> watcher = NoWatcher
    /\ \A c \in Child :
          /\ c = watcher <=> child[c].onExit
          /\ c = watcher <=> child[c].phase # "none" /\ ~child[c].killed
=============================================================================
