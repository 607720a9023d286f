------------------------------ MODULE Watchers ------------------------------
(***************************************************************************)
(* Any mix of watchers behind one VmWatcher (lib/vm-watcher.js:126-159):   *)
(* FsWatcher, ZoneeventWatcher and PeriodicWatcher, or VmadmEventsWatcher  *)
(* alone.  A watcher by its contract (vm-watcher.js:17-30): it has a first *)
(* look at the VMs, of which it says nothing; then it looks again, as      *)
(* often and as late as it likes, and reports for each VM what differs     *)
(* from what it saw before.  A slow look may be overtaken by a later one,  *)
(* so a watcher may also go back.  When it is stopped it may forget all.   *)
(* PeriodicWatcher, FsWatcher and ZoneeventWatcher implement this module.  *)
(***************************************************************************)
EXTENDS VmWatcher

CONSTANTS
    Watcher,   \* the watchers behind this VmWatcher
    MayLapse   \* may a watcher forget all, be overtaken, or the listener look in between?

ASSUME WatcherAssumption == /\ Watcher \subseteq {"fs", "zoneevent", "periodic", "vmadm"}
                            /\ MayLapse \in BOOLEAN

VARIABLES
    view,   \* view[w][v]: the version of v that watcher w saw last, 0 for none yet
    first   \* first[w][v]: the version that w saw in its last first look

vars == <<watcherVars, view, first>>

Unseen == [v \in VM |-> 0]

Init ==
    /\ VmWatcherInit
    /\ view = [w \in Watcher |-> Unseen]
    /\ first = [w \in Watcher |-> Unseen]

\* What w may find when it looks at all VMs: not all are looked at in one instant.
\* Without lapses the first look of each watcher is up to date and comes before all
\* reports; then two watchers poll and may skip versions, two get every change.
Looks(w) ==
    {k \in [VM -> 1..MaxVer] : \A v \in VM :
        /\ k[v] <= Len(cn[v])
        /\ MayLapse \/ k[v] >= IF view[w] = Unseen THEN Len(cn[v]) ELSE view[w][v]
        /\ MayLapse \/ w \in {"fs", "periodic"} \/ k[v] <= view[w][v] + 1 \/ view[w] = Unseen}

FirstLook(w) ==
    /\ view[w] = Unseen
    /\ \E k \in Looks(w) :
          /\ view' = [view EXCEPT ![w] = k]
          /\ first' = [first EXCEPT ![w] = k]
    /\ UNCHANGED watcherVars

Forget(w) ==
    /\ MayLapse
    /\ view' = [view EXCEPT ![w] = Unseen]
    /\ UNCHANGED <<watcherVars, first>>

Report(w) ==
    /\ view[w] # Unseen
    /\ MayLapse \/ \A u \in Watcher : view[u] # Unseen
    /\ \E k \in Looks(w) :
          /\ view' = [view EXCEPT ![w] = k]
          /\ UpdateHandler(w, [v \in VM |-> cn[v][view[w][v]]], [v \in VM |-> cn[v][k[v]]])
    /\ UNCHANGED <<cn, told, first>>

\* The listener's own lookup: once the watchers are started it may be overtaken too.
Lookup ==
    /\ MayLapse \/ \A w \in Watcher : view[w] = Unseen
    /\ ListenerLooks
    /\ UNCHANGED <<view, first>>

Next ==
    \/ \E v \in VM :
        \/ CnChange(v) /\ UNCHANGED <<knownVms, emits, told, view, first>>
        \/ EmitImmediately(v) /\ UNCHANGED <<view, first>>
    \/ Lookup
    \/ \E w \in Watcher : FirstLook(w) \/ Forget(w) \/ Report(w)

Spec == Init /\ [][Next]_vars

-----------------------------------------------------------------------------
Settled(v) == v \notin emits /\ \A w \in Watcher : view[w][v] = Len(cn[v])

LooksLike(w, old, new) ==
    /\ w # "zoneevent" => old.exists = new.exists
    /\ new.exists => Seen(w, old) = Seen(w, new)

\* The listener knows of v what w can see of it: it looked since, or what there is
\* to see was there already when w looked first, which is later.
UpToDate(w, v) ==
    \/ LooksLike(w, cn[v][told[v]], Last(v))
    \/ first[w][v] > told[v] /\ LooksLike(w, cn[v][first[w][v]], Last(v))

\* A VM that is there from the start to its deletion and neither halts nor boots.
Steady(v) ==
    \A i \in 1..Len(cn[v]) :
        /\ cn[v][i].state = cn[v][1].state
        /\ i < Len(cn[v]) => cn[v][i].exists

\* When every watcher has seen the last change of a steady VM and nothing waits to be
\* emitted, the listener was told after the last change that matters: what looks like a
\* repetition to knownVms is one, whatever the mix of watchers (vm-watcher.js:37-43).
NoSilentChange ==
    \A v \in VM : (Settled(v) /\ Steady(v)) => \A w \in Watcher : UpToDate(w, v)

\* The same of every VM: the listener is "called whenever an change has occurred"
\* (vm-watcher.js:53-54).  Three configurations show what breaks it: Watchers_create,
\* Watchers_reboot and Watchers_special.
NoSilentChangeOfAny == \A v \in VM : Settled(v) => \A w \in Watcher : UpToDate(w, v)
=============================================================================
