----------------------------- MODULE VmWatcher -----------------------------
(***************************************************************************)
(* VmWatcher (lib/vm-watcher.js): several watchers report what they saw of *)
(* the VMs of this CN; knownVms, the fields reported so far, decides which *)
(* reports are news, and those are emitted in a later tick of the event    *)
(* loop.  Here are the VMs' fields, what each watcher can see of them, and *)
(* the dispatching; who reports when is the business of the modules that   *)
(* extend this one: Watchers for any mix of watchers, PeriodicWatcher for  *)
(* the polling one in detail.                                              *)
(***************************************************************************)
EXTENDS Naturals, Sequences, FiniteSets

CONSTANTS
    VM,           \* VM uuids
    MaxVer,       \* bound: states in the history of one VM
    MaxTime,      \* bound: the largest modification time
    MS_PER_SEC,   \* resolution of vmadm's last_modified, in the model's ticks
    MaxCreations, \* bound: times one VM is created, 2 for a uuid that comes back
    MayReboot,    \* may a VM halt and boot?
    Provisioning  \* does a new VM start in state "provisioning"?

ASSUME BoundAssumption == {MaxVer, MaxTime, MS_PER_SEC} \subseteq Nat \ {0}
ASSUME SwitchAssumption == /\ MaxCreations \in Nat
                           /\ {MayReboot, Provisioning} \subseteq BOOLEAN

VARIABLES
    cn,        \* cn[v]: every state VM v has been in, the last one is current
    knownVms,  \* VmWatcher's self.knownVms
    emits,     \* VMs with an event waiting in a setImmediate
    told       \* told[v]: the version that was current when the listener last
               \* looked at v: when it was last told, or at its own lookup

watcherVars == <<cn, knownVms, emits, told>>

\* A VM as far as any watcher looks: quota stands for the fields that only a
\* look through vmadm shows (quota, datasets, snapshots...).
VmState == [exists : BOOLEAN, last_modified : 0..MaxTime,
            state : {"provisioning", "running", "stopped"}, quota : 0..MaxVer]

Last(v) == cn[v][Len(cn[v])]
ZoneRunning(o) == o.exists /\ o.state # "stopped"

\* vmadm stats files to the second; FsWatcher to the millisecond.
Seconds(t) == t - (t % MS_PER_SEC)

FsView(o) == [last_modified |-> o.last_modified]
ZoneView(o) == LET s == IF ZoneRunning(o) THEN "running" ELSE "stopped"
               IN  [state |-> s, zone_state |-> s]
VmadmView(o) == [last_modified |-> Seconds(o.last_modified), state |-> o.state,
                 zone_state |-> IF ZoneRunning(o) THEN "running" ELSE "installed",
                 quota |-> o.quota]

Seen(watcher, o) ==
    CASE watcher = "fs" -> FsView(o)
      [] watcher = "zoneevent" -> ZoneView(o)
      [] watcher \in {"periodic", "vmadm"} -> VmadmView(o)

-----------------------------------------------------------------------------
(***************************************************************************)
(* Dispatching one report.  An entry of knownVms is the fields reported so *)
(* far and the destroyed mark; the result says what becomes of it and      *)
(* whether an event is emitted.                                            *)
(***************************************************************************)
NoEntry == [entry |-> FALSE, destroyed |-> FALSE, fields |-> <<>>]
Entry(f) == [entry |-> TRUE, destroyed |-> FALSE, fields |-> f]
News(k) == [known |-> k, emit |-> TRUE]
Silently(k) == [known |-> k, emit |-> FALSE]

Has(f, field) == field \in DOMAIN f

\* A last_modified on the full second may be up to the end of that second.
Rounded(t) == IF t % MS_PER_SEC = 0 THEN t + MS_PER_SEC - 1 ELSE t

\* Mutant of Refused: vmadm's times are taken to be exact.
RefusedExactly(known, obj) ==
    /\ Has(known, "last_modified") /\ Has(obj, "last_modified")
    /\ known.last_modified > obj.last_modified

Refused(known, obj) ==
    /\ Has(known, "last_modified") /\ Has(obj, "last_modified")
    /\ known.last_modified > Rounded(obj.last_modified)

Updated(known, obj) ==
    IF Refused(known, obj) THEN {}
    ELSE {p \in DOMAIN obj : ~Has(known, p) \/ known[p] # obj[p]}

UpdateIfNewer(known, obj) ==
    [p \in DOMAIN known \cup Updated(known, obj) |->
        IF p \in Updated(known, obj) THEN obj[p] ELSE known[p]]

Without(obj, field) == [p \in DOMAIN obj \ {field} |-> obj[p]]

\* An entry that is there and not destroyed is updated, and nobody is told.
DispatchCreate(k, obj) ==
    IF ~k.entry \/ k.destroyed
    THEN News(Entry(UpdateIfNewer(<<>>, obj)))
    ELSE Silently(Entry(UpdateIfNewer(k.fields, obj)))

\* Between provisioning and running only the periodic watcher is believed the state.
DispatchModify(k, obj, watcher) ==
    LET special == Has(k.fields, "state") /\ k.fields["state"] = "provisioning"
        o == IF watcher # "periodic" /\ special THEN Without(obj, "state") ELSE obj
    IN  IF k.destroyed THEN Silently(k)
        ELSE IF Updated(k.fields, o) # {} THEN News(Entry(UpdateIfNewer(k.fields, o)))
        ELSE Silently(Entry(k.fields))

DispatchDelete(k) ==
    IF k.destroyed THEN Silently(k)
    ELSE News([entry |-> TRUE, destroyed |-> TRUE, fields |-> k.fields])

\* Does watcher see a modification between old and new?  FsWatcher asks for a
\* later time, the others for any difference.
Modified(watcher, old, new) ==
    IF watcher = "fs" THEN new.last_modified > old.last_modified
                      ELSE Seen(watcher, old) # Seen(watcher, new)

\* What a watcher makes of a VM that it knew as old and now sees as new.
NoReport(k) == Silently(k)
DispatchChange(k, watcher, old, new) ==
    IF watcher = "zoneevent"
    THEN IF Modified(watcher, old, new) THEN DispatchModify(k, ZoneView(new), watcher)
                                          ELSE NoReport(k)
    ELSE IF new.exists /\ ~old.exists THEN DispatchCreate(k, Seen(watcher, new))
    ELSE IF old.exists /\ ~new.exists THEN DispatchDelete(k)
    ELSE IF new.exists /\ Modified(watcher, old, new)
         THEN DispatchModify(k, Seen(watcher, new), watcher)
    ELSE NoReport(k)

\* One watcher reports, in one tick, for each VM that from[v] has become to[v].
UpdateHandler(watcher, from, to) ==
    LET outcome == [v \in VM |-> DispatchChange(knownVms[v], watcher, from[v], to[v])]
    IN  /\ knownVms' = [v \in VM |-> outcome[v].known]
        /\ emits' = emits \cup {v \in VM : outcome[v].emit}

-----------------------------------------------------------------------------
(***************************************************************************)
(* The VMs of the CN.                                                      *)
(***************************************************************************)
Becomes(v, o) == Len(cn[v]) < MaxVer /\ cn' = [cn EXCEPT ![v] = Append(@, o)]

Later(v) == (Last(v).last_modified + 1)..MaxTime
NewQuota(v) == Len(cn[v])   \* a value it never had
\* A VM that never boots or halts may as well run.
Lasting == IF MayReboot THEN {"running", "stopped"} ELSE {"running"}
FirstStates == IF Provisioning THEN {"provisioning"} ELSE Lasting

Creations(v) ==
    Cardinality({i \in DOMAIN cn[v] : cn[v][i].exists /\ (i > 1 => ~cn[v][i - 1].exists)})

\* A VM that was gone and is there again, under its old uuid.
CameBack(v) == \E i \in 2..(Len(cn[v]) - 1) : ~cn[v][i].exists

Created(v) ==
    /\ ~Last(v).exists /\ Creations(v) < MaxCreations
    /\ \E t \in Later(v), s \in FirstStates, q \in {Last(v).quota, NewQuota(v)} :
          Becomes(v, [exists |-> TRUE, last_modified |-> t, state |-> s, quota |-> q])

\* A change of the configuration; provisioning ends with one.
Configured(v) ==
    /\ Last(v).exists
    /\ \E t \in Later(v), s \in {Last(v).state, "running"} :
          /\ s = "running" => Last(v).state \in {"provisioning", "running"}
          /\ Becomes(v, [Last(v) EXCEPT !.last_modified = t, !.state = s])

Halted(v) ==
    /\ MayReboot /\ Last(v).exists /\ Last(v).state = "running"
    /\ Becomes(v, [Last(v) EXCEPT !.state = "stopped"])

Booted(v) ==
    /\ MayReboot /\ Last(v).exists /\ Last(v).state = "stopped"
    /\ Becomes(v, [Last(v) EXCEPT !.state = "running"])

QuotaSet(v) ==
    /\ Last(v).exists
    /\ Becomes(v, [Last(v) EXCEPT !.quota = NewQuota(v)])

Deleted(v) ==
    /\ Last(v).exists
    /\ Becomes(v, [Last(v) EXCEPT !.exists = FALSE])

CnChange(v) ==
    \/ Created(v) \/ Configured(v) \/ Halted(v) \/ Booted(v) \/ QuotaSet(v) \/ Deleted(v)

\* The setImmediate fires; the listener will look at the VM as it is now, or later.
EmitImmediately(v) ==
    /\ v \in emits
    /\ emits' = emits \ {v}
    /\ told' = [told EXCEPT ![v] = Len(cn[v])]
    /\ UNCHANGED <<cn, knownVms>>

\* The listener looks at all VMs itself.
ListenerLooks ==
    /\ told' = [v \in VM |-> Len(cn[v])]
    /\ UNCHANGED <<cn, knownVms, emits>>

VmWatcherInit ==
    /\ cn \in [VM -> {<<[exists |-> e, last_modified |-> 0, state |-> s, quota |-> 0]>> :
                        e \in BOOLEAN, s \in Lasting}]
    /\ knownVms = [v \in VM |-> NoEntry]
    /\ emits = {}
    /\ told = [v \in VM |-> 1]

-----------------------------------------------------------------------------
Fields == {"last_modified", "state", "zone_state", "quota"}

\* The type of the variables; the modules that extend this one add theirs.
VmWatcherTypeOK ==
    /\ \A v \in VM :
          /\ cn[v] \in Seq(VmState) /\ Len(cn[v]) \in 1..MaxVer
          /\ DOMAIN knownVms[v].fields \subseteq Fields
          /\ ~knownVms[v].entry => knownVms[v] = NoEntry
    /\ emits \subseteq VM
    /\ told \in [VM -> 1..MaxVer]
=============================================================================
