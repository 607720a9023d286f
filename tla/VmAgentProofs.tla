--------------------------- MODULE VmAgentProofs ---------------------------
(***************************************************************************)
(* What is proved of Inventory, and of VmAgent, which implements it, for   *)
(* every set of VMs, every bound and every delay.                          *)
(***************************************************************************)
EXTENDS VmAgent, TLAPS, SequenceTheorems

-----------------------------------------------------------------------------
(***************************************************************************)
(* The history of the VMs only grows.                                      *)
(***************************************************************************)
\* What ChangeOnCn does to every VM's history.
LEMMA HistoryGrows ==
    ASSUME InventoryTypeOK, NEW v \in VM, NEW s \in Status, ChangeOnCn(v, s)
    PROVE  /\ cn' \in [VM -> Seq(Status)]
           /\ \A w \in VM :
                /\ Len(cn'[w]) \in 1..MaxVer
                /\ Len(cn[w]) \in Nat /\ Len(cn[w]) <= Len(cn'[w])
                /\ DOMAIN cn[w] = 1..Len(cn[w]) /\ DOMAIN cn'[w] = 1..Len(cn'[w])
                /\ \A i \in DOMAIN cn[w] : i \in DOMAIN cn'[w] /\ cn'[w][i] = cn[w][i]
                /\ w # v => cn'[w] = cn[w]
<1>1. /\ cn \in [VM -> Seq(Status)] /\ cn' = [cn EXCEPT ![v] = Append(@, s)]
      /\ Len(cn[v]) < MaxVer /\ MaxVer \in Nat
  BY BoundAssumption DEF InventoryTypeOK, ChangeOnCn
<1>2. /\ Append(cn[v], s) \in Seq(Status)
      /\ Len(Append(cn[v], s)) = Len(cn[v]) + 1
      /\ \A i \in 1..Len(cn[v]) : Append(cn[v], s)[i] = cn[v][i]
  BY <1>1, AppendProperties
<1>3. \A w \in VM : w # v => cn'[w] = cn[w]
  BY <1>1
<1>4. cn'[v] = Append(cn[v], s)
  BY <1>1
<1>5. \A w \in VM : cn[w] \in Seq(Status) /\ Len(cn[w]) \in 1..MaxVer
  BY <1>1 DEF InventoryTypeOK
<1>6. \A q \in Seq(Status) : Len(q) \in Nat /\ DOMAIN q = 1..Len(q)
  BY LenProperties
<1>7. cn' \in [VM -> Seq(Status)]
  BY <1>1, <1>2
<1>8. \A w \in VM : cn'[w] \in Seq(Status)
  BY <1>7
<1> QED  BY <1>1, <1>2, <1>3, <1>4, <1>5, <1>6, <1>7, <1>8

\* What may be told of a VM stays true of its longer history.
LEMMA HistoryMonotonic ==
    ASSUME InventoryTypeOK, NEW v \in VM, NEW s \in Status, ChangeOnCn(v, s), vmapi' = vmapi
    PROVE  \A w \in VM :
             /\ \A k : LiveAt(w, k) => LiveAt(w, k)'
             /\ \A k \in Nat : LeftAfter(w, k) => LeftAfter(w, k)'
             /\ \A o \in Obj : MayBecome(w, o) => MayBecome(w, o)'
<1>1. \A w \in VM : \A i \in DOMAIN cn[w] : i \in DOMAIN cn'[w] /\ cn'[w][i] = cn[w][i]
  BY HistoryGrows
<1>2. \A w \in VM : \A k : LiveAt(w, k) => LiveAt(w, k)'
  BY <1>1 DEF LiveAt
<1>3. \A w \in VM : \A k \in Nat : LeftAfter(w, k) => LeftAfter(w, k)'
  BY <1>1 DEF LeftAfter
<1>4. ASSUME NEW w \in VM, NEW o \in Obj, MayBecome(w, o) PROVE MayBecome(w, o)'
  BY <1>2, <1>3, <1>4 DEF MayBecome, Obj
<1> QED  BY <1>2, <1>3, <1>4

-----------------------------------------------------------------------------
(***************************************************************************)
(* The promise.                                                            *)
(***************************************************************************)
\* A step of the inventory keeps its types.
LEMMA InventoryTypeStep ==
    ASSUME InventoryTypeOK, [InventoryNext]_inventoryVars PROVE InventoryTypeOK'
<1>1. ASSUME NEW v \in VM, NEW s \in Status, Change(v, s) PROVE InventoryTypeOK'
  BY <1>1, HistoryGrows DEF Change, InventoryTypeOK
<1>2. CASE Report
  BY <1>2 DEF Report, InventoryTypeOK
<1>3. CASE UNCHANGED inventoryVars
  BY <1>3 DEF inventoryVars, InventoryTypeOK
<1> QED  BY <1>1, <1>2, <1>3 DEF InventoryNext

\* A step of the inventory keeps every record real.
LEMMA RecordsAreRealStep ==
    ASSUME InventoryTypeOK, RecordsAreReal, [InventoryNext]_inventoryVars
    PROVE  RecordsAreReal'
<1>0. \A v \in VM : vmapi[v] \in Obj /\ vmapi[v].ver \in Nat
  BY BoundAssumption DEF InventoryTypeOK, Obj
<1>1. ASSUME NEW v \in VM, NEW s \in Status, Change(v, s) PROVE RecordsAreReal'
  <2>1. \A w \in VM :
          /\ \A k : LiveAt(w, k) => LiveAt(w, k)'
          /\ \A k \in Nat : LeftAfter(w, k) => LeftAfter(w, k)'
    BY <1>1, HistoryMonotonic DEF Change
  <2>2. vmapi' = vmapi
    BY <1>1 DEF Change
  <2> QED  BY <1>0, <2>1, <2>2 DEF RecordsAreReal
<1>2. CASE Report
  <2> SUFFICES ASSUME NEW v \in VM, vmapi'[v].ver > 0
               PROVE  /\ LiveAt(v, vmapi'[v].ver) /\ vmapi'[v].state # "none"
                      /\ vmapi'[v].state = "destroyed" => LeftAfter(v, vmapi'[v].ver)
    BY <1>2 DEF Report, RecordsAreReal, LiveAt, LeftAfter
  <2>1. MayBecome(v, vmapi'[v]) /\ RecordsAreReal
    BY <1>2 DEF Report
  <2>2. CASE vmapi'[v] = vmapi[v]
    BY <2>1, <2>2 DEF RecordsAreReal
  <2>3. CASE vmapi'[v].state = "active" /\ LiveAt(v, vmapi'[v].ver)
    BY <2>3
  <2>4. CASE vmapi'[v].state = "destroyed" /\ LiveAt(v, vmapi'[v].ver) /\ LeftAfter(v, vmapi'[v].ver)
    BY <2>4
  <2>5. CASE /\ vmapi'[v].state = "destroyed" /\ vmapi'[v] = Destroyed(vmapi[v])
             /\ LeftAfter(v, vmapi'[v].ver)
    <3>1. vmapi'[v].ver = vmapi[v].ver
      BY <1>0, <2>5 DEF Destroyed, Obj
    <3> QED  BY <2>1, <2>5, <3>1 DEF RecordsAreReal
  <2> QED  BY <2>1, <2>2, <2>3, <2>4, <2>5 DEF MayBecome
<1>3. CASE UNCHANGED inventoryVars
  BY <1>3 DEF inventoryVars, RecordsAreReal, LiveAt, LeftAfter
<1> QED  BY <1>1, <1>2, <1>3 DEF InventoryNext

\* A step of the inventory takes no record back.
LEMMA MoveForwardStep ==
    ASSUME InventoryTypeOK, RecordsAreReal, [InventoryNext]_inventoryVars, NEW v \in VM
    PROVE  /\ vmapi'[v].ver >= vmapi[v].ver
           /\ vmapi[v].state = "destroyed" /\ vmapi'[v].state = "active"
                 => vmapi'[v].ver > vmapi[v].ver
           /\ vmapi'[v].state = "none" => vmapi[v].state = "none"
<1>0. vmapi[v] \in Obj /\ vmapi[v].ver \in Nat
  BY BoundAssumption DEF InventoryTypeOK, Obj
<1>1. CASE vmapi'[v] = vmapi[v]
  BY <1>0, <1>1
<1>2. CASE Report
  <2>1. MayBecome(v, vmapi'[v]) /\ vmapi'[v] \in Obj
    BY <1>2 DEF Report
  <2> QED  BY <1>0, <1>1, <2>1, BoundAssumption DEF MayBecome, Obj
<1> QED  BY <1>1, <1>2 DEF InventoryNext, Change, inventoryVars

\* The initial states are typed and their records are of version 0.
LEMMA InventoryInitLemma ==
    ASSUME InventoryInit PROVE InventoryTypeOK /\ RecordsAreReal
<1>1. \A o \in {NoObj, Active(0), Destroyed(Active(0))} : o \in Obj /\ o.ver = 0
  BY BoundAssumption DEF NoObj, Active, Destroyed, Obj
<1>2. \A v \in VM : vmapi[v] \in Obj /\ vmapi[v].ver = 0
  BY <1>1 DEF InventoryInit
<1>3. vmapi \in [VM -> Obj]
  BY <1>1 DEF InventoryInit
<1>4. \A s \in Status : <<s>> \in Seq(Status) /\ Len(<<s>>) \in 1..MaxVer
  BY BoundAssumption
<1>5. cn \in [VM -> Seq(Status)] /\ \A v \in VM : Len(cn[v]) \in 1..MaxVer
  BY <1>4 DEF InventoryInit
<1> QED  BY <1>2, <1>3, <1>5 DEF InventoryTypeOK, RecordsAreReal

\* Records are typed and real in every state.
THEOREM InventoryReal == InventorySpec => [](InventoryTypeOK /\ RecordsAreReal)
<1>1. InventoryInit => InventoryTypeOK /\ RecordsAreReal
  BY InventoryInitLemma
<1>2. InventoryTypeOK /\ RecordsAreReal /\ [InventoryNext]_inventoryVars
        => (InventoryTypeOK /\ RecordsAreReal)'
  BY InventoryTypeStep, RecordsAreRealStep
<1> QED  BY <1>1, <1>2, PTL DEF InventorySpec

\* Every record moves forward only, for every number of VMs and any history.
THEOREM InventoryForward == InventorySpec => RecordsMoveForward
<1> DEFINE Forward ==
      \A v \in VM :
        /\ vmapi'[v].ver >= vmapi[v].ver
        /\ vmapi[v].state = "destroyed" /\ vmapi'[v].state = "active"
              => vmapi'[v].ver > vmapi[v].ver
        /\ vmapi'[v].state = "none" => vmapi[v].state = "none"
<1>1. InventoryTypeOK /\ RecordsAreReal /\ [InventoryNext]_inventoryVars
        => [Forward]_inventoryVars
  BY MoveForwardStep
<1> HIDE DEF Forward
<1>2. InventorySpec => [][Forward]_inventoryVars
  BY <1>1, InventoryReal, PTL DEF InventorySpec
<1> QED  BY <1>2 DEF RecordsMoveForward, Forward

-----------------------------------------------------------------------------
(***************************************************************************)
(* The inductive invariant.  TypeOK bounds the variables; the other parts  *)
(* say how the stages of startup, the worker's task and the agent's memory *)
(* hang together.                                                          *)
(***************************************************************************)
\* Where startup is tells whether the watcher runs and the agent is ready.
StageInv ==
    /\ ready => pc = "done"
    /\ stopped = "running" => pc = "done" /\ ~ready
    /\ stopped = "no" =>
         /\ pc = "done" => ready
         /\ watcher = "started" <=>
               pc \in {"lookup", "putServer", "updateLastSeen", "done"}

\* Before ready there is no work; an idle worker leaves nothing waiting.
WorkInv ==
    /\ ~ready /\ stopped # "running" => job = NoJob /\ queue = <<>> /\ timers = {}
    /\ job.phase = "idle" => queue = <<>>

HasObject == job.phase \in {"loaded", "putting"}

\* What the stash of startup holds, compared with VMAPI and the CN.
ListedBy(v) == vmapiVms[v] = IF vmapi[v].state = "active" THEN vmapi[v] ELSE NoObj

StashInv ==
    /\ pc \in {"startWatcher", "lookup", "putServer"} => \A v \in VM : ListedBy(v)
    /\ pc \in {"putServer", "updateLastSeen"} => \A v \in VM :
          /\ vmadmVms[v] \in DOMAIN cn[v]
          /\ stopped = "no" => vmadmVms[v] = Len(cn[v]) \/ v \in events \cup Range(dirtyVms)

\* Every record of the payload may be told to VMAPI.
PayloadInv ==
    pc = "putServer" => \A v \in VM :
        Payload(v, vmadmVms[v]) # NoObj => MayBecome(v, Payload(v, vmadmVms[v]))

\* After the PUT of startup VMAPI shows what vmadm.lookup saw.
SeenInv ==
    pc = "updateLastSeen" => \A v \in VM :
        IF cn[v][vmadmVms[v]] = "live" THEN vmapi[v] = Active(vmadmVms[v])
                                       ELSE vmapi[v].state # "active"

\* The object in the worker's hands is what was loaded, and may be told.
JobInv ==
    HasObject =>
        /\ job.snap \in DOMAIN cn[job.vm]
        /\ cn[job.vm][job.snap] = "live" => job.obj = Active(job.snap)
        /\ cn[job.vm][job.snap] # "live" => job.obj.state = "destroyed"
        /\ MayBecome(job.vm, job.obj)
        /\ ready => job.obj = lastSeenVms[job.vm]

\* A task that holds an old version is not the last one for its VM.
FreshInv ==
    HasObject /\ stopped = "no" =>
        job.snap = Len(cn[job.vm]) \/ job.vm \in events \cup Range(queue)

\* Of every VM active in VMAPI the agent remembers an object, and what it
\* remembers is real and no older than what VMAPI has.
MemoryInv ==
    ready => \A v \in VM :
        /\ vmapi[v].state = "active" => lastSeenVms[v] # NoObj
        /\ lastSeenVms[v] # NoObj =>
              LiveAt(v, lastSeenVms[v].ver) /\ lastSeenVms[v].ver >= vmapi[v].ver

\* do_not_inventory is only remembered of a VM that had it.
DniInv == \A v \in VM : knownDniVms[v] # "no" => WasDni(v)

IInv ==
    /\ TypeOK /\ RecordsAreReal /\ StageInv /\ WorkInv /\ StashInv /\ PayloadInv
    /\ SeenInv /\ JobInv /\ FreshInv /\ MemoryInv /\ DniInv /\ NoLostChange

-----------------------------------------------------------------------------
(***************************************************************************)
(* Sequences and the queue.                                                *)
(***************************************************************************)
\* A uuid is in Append(q, v) when it was in q or is v.
LEMMA RangeAppend ==
    ASSUME NEW S, NEW q \in Seq(S), NEW v \in S
    PROVE  Append(q, v) \in Seq(S) /\ Range(Append(q, v)) = Range(q) \cup {v}
BY DEF Range

\* A uuid in q is its head or in its tail.
LEMMA RangeTail ==
    ASSUME NEW S, NEW q \in Seq(S), q # <<>>
    PROVE  /\ Head(q) \in S /\ Tail(q) \in Seq(S)
           /\ Range(q) = {Head(q)} \cup Range(Tail(q))
<1>1. Head(q) \in S /\ Tail(q) \in Seq(S) /\ Len(q) \in Nat \ {0} /\ DOMAIN q = 1..Len(q)
  BY HeadTailProperties, EmptySeq
<1>2. Len(Tail(q)) = Len(q) - 1 /\ DOMAIN Tail(q) = 1..(Len(q) - 1)
  BY HeadTailProperties
<1>3. \A i \in 1..(Len(q) - 1) : Tail(q)[i] = q[i + 1]
  BY HeadTailProperties
<1>4. Head(q) = q[1]
  BY HeadTailProperties
<1>5. Range(q) \subseteq {Head(q)} \cup Range(Tail(q))
  <2> SUFFICES ASSUME NEW i \in 1..Len(q), i # 1 PROVE q[i] \in Range(Tail(q))
    BY <1>1, <1>4 DEF Range
  <2> i - 1 \in 1..(Len(q) - 1) /\ q[i] = Tail(q)[i - 1]
    BY <1>1, <1>3
  <2> QED  BY <1>2 DEF Range
<1>6. {Head(q)} \cup Range(Tail(q)) \subseteq Range(q)
  <2>1. Head(q) \in Range(q)
    BY <1>1, <1>4 DEF Range
  <2>2. ASSUME NEW i \in 1..(Len(q) - 1) PROVE Tail(q)[i] \in Range(q)
    BY <1>1, <1>3 DEF Range
  <2> QED  BY <2>1, <2>2, <1>2 DEF Range
<1> QED  BY <1>1, <1>5, <1>6

\* A free worker takes the head of q and keeps the rest waiting in order.
LEMMA DispatchLemma ==
    ASSUME NEW q \in Seq(VM), Dispatch(q)
    PROVE  /\ queue' \in Seq(VM)
           /\ job' \in Job
           /\ job'.phase \in {"idle", "loading"}
           /\ job'.phase = "idle" <=> job'.vm = NoVm
           /\ job'.phase = "idle" => queue' = <<>>
           /\ \A v \in Range(q) : v \in Range(queue') \/ (job'.vm = v /\ job'.phase = "loading")
<1>1. CASE q = <<>>
  <2>1. queue' = <<>> /\ job' = NoJob
    BY <1>1 DEF Dispatch
  <2>2. Range(q) = {}
    BY <1>1 DEF Range
  <2>3. NoJob \in Job
    BY BoundAssumption DEF NoJob, Job, NoObj, Obj
  <2> QED  BY <2>1, <2>2, <2>3, EmptySeq DEF NoJob
<1>2. CASE q # <<>>
  <2>1. /\ queue' = Tail(q)
        /\ job' = Dispatched(Head(q))
    BY <1>2 DEF Dispatch
  <2>2. /\ Head(q) \in VM /\ Tail(q) \in Seq(VM)
        /\ Range(q) = {Head(q)} \cup Range(Tail(q))
    BY <1>2, RangeTail
  <2>3. \A v \in VM : Dispatched(v) \in Job
    BY BoundAssumption DEF Dispatched, Job, NoObj, Obj
  <2> QED  BY <2>1, <2>2, <2>3, NoVmAssumption DEF Dispatched
<1> QED  BY <1>1, <1>2

\* queueVm loses nothing: what waited still waits or is dispatched, and so is v.
LEMMA QueueVmLemma ==
    ASSUME TypeOK, WorkInv, NEW v \in VM, QueueVm(v)
    PROVE  /\ queue' \in Seq(VM)
           /\ job' \in Job
           /\ job'.phase = "idle" <=> job'.vm = NoVm
           /\ job'.phase = "idle" => queue' = <<>>
           /\ \/ job' = job /\ Range(queue') = Range(queue) \cup {v}
              \/ /\ job.phase = "idle" /\ job'.vm = v /\ job'.phase = "loading"
                 /\ queue = <<>> /\ queue' = <<>>
<1>0. queue \in Seq(VM) /\ job \in Job /\ (job.phase = "idle" <=> job.vm = NoVm)
  BY DEF TypeOK
<1>1. CASE v \in Range(queue)
  BY <1>0, <1>1 DEF QueueVm, workVars, WorkInv
<1>2. CASE v \notin Range(queue) /\ job.phase = "idle"
  <2>1. queue = <<>> /\ Dispatch(Append(queue, v))
    BY <1>2 DEF QueueVm, WorkInv
  <2>2. /\ Append(queue, v) # <<>> /\ Append(queue, v) \in Seq(VM)
        /\ Head(Append(queue, v)) = v /\ Tail(Append(queue, v)) = <<>>
    BY <1>0, <2>1, AppendProperties, HeadTailAppend
  <2>3. queue' = <<>> /\ job' = Dispatched(v)
    BY <2>1, <2>2 DEF Dispatch
  <2> QED  BY <1>2, <2>1, <2>2, <2>3, DispatchLemma DEF Dispatched
<1>3. CASE v \notin Range(queue) /\ job.phase # "idle"
  <2>1. queue' = Append(queue, v) /\ job' = job
    BY <1>3 DEF QueueVm
  <2> QED  BY <1>0, <1>3, <2>1, RangeAppend
<1> QED  BY <1>1, <1>2, <1>3

\* A VM that had do_not_inventory will always have had it.
LEMMA WasDniStays ==
    ASSUME InventoryTypeOK, NEW v \in VM, NEW s \in Status, ChangeOnCn(v, s)
    PROVE  \A w \in VM : WasDni(w) => WasDni(w)'
BY HistoryGrows DEF WasDni

-----------------------------------------------------------------------------
(***************************************************************************)
(* The types.                                                              *)
(***************************************************************************)
\* The delays stay between the first and the largest one.
LEMMA DelayTypes ==
    /\ INITIAL_UPDATE_DELAY_MS \in INITIAL_UPDATE_DELAY_MS..MAX_UPDATE_DELAY_MS
    /\ \A d \in INITIAL_UPDATE_DELAY_MS..MAX_UPDATE_DELAY_MS :
          Doubled(d) \in INITIAL_UPDATE_DELAY_MS..MAX_UPDATE_DELAY_MS
BY DelayAssumption DEF Doubled

\* The record constructors build records.
LEMMA ObjTypes ==
    /\ NoObj \in Obj
    /\ \A k \in 0..MaxVer : Active(k) \in Obj
    /\ \A o \in Obj : Destroyed(o) \in Obj
    /\ NoJob \in Job
BY BoundAssumption DEF NoObj, Obj, Active, Destroyed, NoJob, Job

\* Whatever part of the startup PUT is processed, VMAPI holds records.
LEMMA ServerPutType ==
    ASSUME TypeOK, NEW S PROVE ServerPut(S) \in [VM -> Obj]
<1>1. \A v \in VM : Payload(v, vmadmVms[v]) \in Obj
  BY ObjTypes DEF TypeOK, Payload
<1> QED  BY <1>1 DEF ServerPut, TypeOK, InventoryTypeOK

\* The end of an update keeps the types of the queue and of the retries.
LEMMA UpdateEndTypes ==
    ASSUME TypeOK, job.phase # "idle", UpdateDone \/ UpdateFailed
    PROVE  /\ queue' \in Seq(VM) /\ job' \in Job /\ (job'.phase = "idle" <=> job'.vm = NoVm)
           /\ retryDelays' \in [VM -> {0} \cup (INITIAL_UPDATE_DELAY_MS..MAX_UPDATE_DELAY_MS)]
           /\ timers' \subseteq VM
<1>1. job.vm \in VM /\ queue \in Seq(VM) /\ timers \subseteq VM
  BY DEF TypeOK, Job
<1>2. Dispatch(queue)
  BY DEF UpdateDone, UpdateFailed
<1>3. queue' \in Seq(VM) /\ job' \in Job /\ (job'.phase = "idle" <=> job'.vm = NoVm)
  BY <1>1, <1>2, DispatchLemma
<1>4. CASE UpdateDone
  BY <1>1, <1>3, <1>4 DEF UpdateDone, TypeOK
<1>5. CASE UpdateFailed
  <2> DEFINE D == INITIAL_UPDATE_DELAY_MS..MAX_UPDATE_DELAY_MS
             d == IF retryDelays[job.vm] = 0 THEN INITIAL_UPDATE_DELAY_MS
                                             ELSE retryDelays[job.vm]
  <2>1. retryDelays \in [VM -> {0} \cup D]
    BY DEF TypeOK
  <2>2. d \in D
    BY <1>1, <2>1, DelayTypes
  <2>3. Doubled(d) \in D
    BY <2>2, DelayTypes
  <2> HIDE DEF D, d
  <2>4. retryDelays' \in [VM -> {0} \cup D] /\ timers' \subseteq VM
    <3>1. CASE job.vm \in timers
      BY <1>1, <1>5, <2>1, <3>1 DEF UpdateFailed, retryVars
    <3>2. CASE job.vm \notin timers
      <4>1. retryDelays' = [retryDelays EXCEPT ![job.vm] = Doubled(d)]
        BY <1>5, <3>2 DEF UpdateFailed, d
      <4> QED  BY <1>1, <1>5, <2>1, <2>3, <3>2, <4>1 DEF UpdateFailed
    <3> QED  BY <3>1, <3>2
  <2> QED  BY <1>3, <2>4 DEF D
<1> QED  BY <1>4, <1>5

\* A dying process leaves records in VMAPI and a fresh process.
LEMMA DieTypes ==
    ASSUME TypeOK, Die, crashes' \in 0..MaxCrashes PROVE TypeOK'
<1>1. vmapi' \in [VM -> Obj]
  <2>1. vmapi \in [VM -> Obj] /\ job.obj \in Obj
    BY DEF TypeOK, InventoryTypeOK, Job
  <2>2. CASE UNCHANGED vmapi
    BY <2>1, <2>2
  <2>3. CASE vmapi' = [vmapi EXCEPT ![job.vm] = job.obj]
    BY <2>1, <2>3
  <2>4. CASE \E S \in SUBSET VM : vmapi' = ServerPut(S)
    BY <2>4, ServerPutType
  <2> QED  BY <2>2, <2>3, <2>4 DEF Die, PutLeftBehind
<1>2. InventoryTypeOK'
  BY <1>1 DEF Die, TypeOK, InventoryTypeOK
<1>3. 0 \in 0..MaxVer
  BY BoundAssumption
<1> QED  BY <1>2, <1>3, ObjTypes, DelayTypes, EmptySeq DEF Die, TypeOK, NoJob

\* Every step keeps the types.
LEMMA TypeOKStep ==
    ASSUME IInv, [Next]_vars PROVE TypeOK'
<1> USE DEF cnVars, initVars, ctlVars, workVars, dniVars, retryVars
<1>0. TypeOK /\ WorkInv
  BY DEF IInv
<1>1. ASSUME NEW v \in VM, NEW s \in Status, CnChange(v, s) PROVE TypeOK'
  <2>1. ChangeOnCn(v, s) /\ InventoryTypeOK
    BY <1>0, <1>1 DEF CnChange, TypeOK
  <2>2. InventoryTypeOK'
    BY <2>1, <1>1, HistoryGrows DEF CnChange, InventoryTypeOK
  <2> QED  BY <1>0, <1>1, <2>2 DEF CnChange, TypeOK
<1>2. ASSUME NEW v \in VM, NotifyTwice(v) PROVE TypeOK'
  BY <1>0, <1>2 DEF NotifyTwice, TypeOK, InventoryTypeOK
<1>3. ASSUME NEW v \in VM, OnVmEvent(v) PROVE TypeOK'
  <2>1. CASE ready
    <3>1. queue' \in Seq(VM) /\ job' \in Job /\ (job'.phase = "idle" <=> job'.vm = NoVm)
      BY <1>0, <1>3, <2>1, QueueVmLemma DEF OnVmEvent
    <3> QED  BY <1>0, <1>3, <2>1, <3>1 DEF OnVmEvent, TypeOK, InventoryTypeOK
  <2>2. CASE ~ready
    <3>1. Append(dirtyVms, v) \in Seq(VM)
      BY <1>0, <1>3, AppendProperties DEF TypeOK
    <3>2. dirtyVms' \in Seq(VM)
      BY <1>0, <1>3, <2>2, <3>1 DEF OnVmEvent, TypeOK
    <3> QED  BY <1>0, <1>3, <2>2, <3>2 DEF OnVmEvent, TypeOK, InventoryTypeOK
  <2> QED  BY <1>0, <2>1, <2>2 DEF TypeOK
<1>4. ASSUME NEW v \in VM, DelayedRetry(v) PROVE TypeOK'
  <2>1. queue' \in Seq(VM) /\ job' \in Job /\ (job'.phase = "idle" <=> job'.vm = NoVm)
    BY <1>0, <1>4, QueueVmLemma DEF DelayedRetry
  <2> QED  BY <1>0, <1>4, <2>1 DEF DelayedRetry, TypeOK, InventoryTypeOK
<1>5. ASSUME NEW v \in VM, PurgeDeletedDni(v) PROVE TypeOK'
  BY <1>0, <1>5 DEF PurgeDeletedDni, TypeOK, InventoryTypeOK
<1>6. CASE Start
  BY <1>0, <1>6 DEF Start, TypeOK, InventoryTypeOK
<1>7. CASE SetupWatcher
  BY <1>0, <1>7 DEF SetupWatcher, TypeOK, InventoryTypeOK
<1>8. CASE GetVmapiVms
  <2>1. vmapiVms' \in [VM -> Obj]
    BY <1>0, <1>8, ObjTypes DEF GetVmapiVms, TypeOK, InventoryTypeOK
  <2> QED  BY <1>0, <1>8, <2>1 DEF GetVmapiVms, TypeOK, InventoryTypeOK
<1>9. CASE StartWatcher
  BY <1>0, <1>9 DEF StartWatcher, TypeOK, InventoryTypeOK
<1>10. CASE GetVmadmVms
  <2>1. vmadmVms' \in [VM -> 0..MaxVer] /\ knownDniVms' \in [VM -> {"no", "known", "purging"}]
    BY <1>0, <1>10, BoundAssumption DEF GetVmadmVms, TypeOK, InventoryTypeOK
  <2> QED  BY <1>0, <1>10, <2>1 DEF GetVmadmVms, TypeOK, InventoryTypeOK
<1>11. CASE UpdateVmapiVms
  <2>1. vmapi' \in [VM -> Obj]
    BY <1>0, <1>11, ServerPutType DEF UpdateVmapiVms
  <2> QED  BY <1>0, <1>11, <2>1 DEF UpdateVmapiVms, TypeOK, InventoryTypeOK
<1>12. CASE InitialUpdateComplete
  <2>1. queue' \in Seq(VM) /\ job' \in Job /\ (job'.phase = "idle" <=> job'.vm = NoVm)
    BY <1>0, <1>12, DispatchLemma DEF InitialUpdateComplete, TypeOK
  <2>2. lastSeenVms' \in [VM -> Obj] /\ vmapiVms' \in [VM -> Obj] /\ vmadmVms' \in [VM -> 0..MaxVer]
    BY <1>0, <1>12, ObjTypes, BoundAssumption DEF InitialUpdateComplete, TypeOK
  <2> QED  BY <1>0, <1>12, <2>1, <2>2 DEF InitialUpdateComplete, TypeOK, InventoryTypeOK
<1>13. CASE InitialUpdateFailed
  <2>1. vmapi' \in [VM -> Obj]
    BY <1>0, <1>13, ServerPutType DEF InitialUpdateFailed, TypeOK, InventoryTypeOK
  <2>2. vmapiVms' \in [VM -> Obj] /\ vmadmVms' \in [VM -> 0..MaxVer]
    BY <1>13, ObjTypes, BoundAssumption DEF InitialUpdateFailed
  <2>3. updateDelay' \in INITIAL_UPDATE_DELAY_MS..MAX_UPDATE_DELAY_MS /\ dirtyVms' \in Seq(VM)
    BY <1>0, <1>13, DelayTypes, EmptySeq DEF InitialUpdateFailed, TypeOK
  <2> QED  BY <1>0, <1>13, <2>1, <2>2, <2>3 DEF InitialUpdateFailed, TypeOK, InventoryTypeOK
<1>14. CASE RetryInitialUpdate
  BY <1>0, <1>14 DEF RetryInitialUpdate, TypeOK, InventoryTypeOK
<1>15. CASE SkipWhenNotReady
  <2>1. job.phase # "idle" /\ (UpdateDone)
    BY <1>15 DEF SkipWhenNotReady, Loading, Gone
  <2>2. /\ queue' \in Seq(VM) /\ job' \in Job /\ (job'.phase = "idle" <=> job'.vm = NoVm)
        /\ retryDelays' \in [VM -> {0} \cup (INITIAL_UPDATE_DELAY_MS..MAX_UPDATE_DELAY_MS)]
        /\ timers' \subseteq VM
    BY <1>0, <2>1, UpdateEndTypes
  <2> QED  BY <1>0, <1>15, <2>2 DEF SkipWhenNotReady, TypeOK, InventoryTypeOK
<1>16. CASE LoadFails
  <2>1. job.phase # "idle" /\ (UpdateFailed)
    BY <1>16 DEF LoadFails, Loading, Gone
  <2>2. /\ queue' \in Seq(VM) /\ job' \in Job /\ (job'.phase = "idle" <=> job'.vm = NoVm)
        /\ retryDelays' \in [VM -> {0} \cup (INITIAL_UPDATE_DELAY_MS..MAX_UPDATE_DELAY_MS)]
        /\ timers' \subseteq VM
    BY <1>0, <2>1, UpdateEndTypes
  <2> QED  BY <1>0, <1>16, <2>2 DEF LoadFails, TypeOK, InventoryTypeOK
<1>17. CASE LoadLive
  <2>1. job.vm \in VM /\ Len(cn[job.vm]) \in 0..MaxVer
    BY <1>0, <1>17, BoundAssumption DEF LoadLive, Loading, TypeOK, Job, InventoryTypeOK
  <2>2. job' \in Job /\ (job'.phase = "idle" <=> job'.vm = NoVm)
    BY <1>0, <1>17, <2>1, ObjTypes, NoVmAssumption DEF LoadLive, Loaded, Job
  <2>3. lastSeenVms' \in [VM -> Obj]
    BY <1>0, <1>17, <2>1, ObjTypes DEF LoadLive, TypeOK
  <2> QED  BY <1>0, <1>17, <2>2, <2>3 DEF LoadLive, TypeOK, InventoryTypeOK
<1>18. CASE LoadDni
  <2>1. job.phase # "idle" /\ (UpdateDone)
    BY <1>18 DEF LoadDni, Loading, Gone
  <2>2. /\ queue' \in Seq(VM) /\ job' \in Job /\ (job'.phase = "idle" <=> job'.vm = NoVm)
        /\ retryDelays' \in [VM -> {0} \cup (INITIAL_UPDATE_DELAY_MS..MAX_UPDATE_DELAY_MS)]
        /\ timers' \subseteq VM
    BY <1>0, <2>1, UpdateEndTypes
  <2> QED  BY <1>0, <1>18, <2>2 DEF LoadDni, Gone, TypeOK, InventoryTypeOK, Loading, Job
<1>19. CASE LoadGoneDni
  <2>1. job.phase # "idle" /\ (UpdateDone)
    BY <1>19 DEF LoadGoneDni, Loading, Gone
  <2>2. /\ queue' \in Seq(VM) /\ job' \in Job /\ (job'.phase = "idle" <=> job'.vm = NoVm)
        /\ retryDelays' \in [VM -> {0} \cup (INITIAL_UPDATE_DELAY_MS..MAX_UPDATE_DELAY_MS)]
        /\ timers' \subseteq VM
    BY <1>0, <2>1, UpdateEndTypes
  <2>3. job.vm \in VM
    BY <1>0, <2>1 DEF TypeOK, Job
  <2>4. /\ knownDniVms' \in [VM -> {"no", "known", "purging"}]
        /\ purgeTimers' \in [VM -> Nat]
    BY <1>0, <1>19, <2>3 DEF LoadGoneDni, TypeOK
  <2> QED  BY <1>0, <1>19, <2>2, <2>4 DEF LoadGoneDni, TypeOK, InventoryTypeOK
<1>20. CASE LoadGone
  <2>1. job.vm \in VM /\ Len(cn[job.vm]) \in 0..MaxVer
    BY <1>0, <1>20, BoundAssumption DEF LoadGone, Gone, Loading, TypeOK, Job, InventoryTypeOK
  <2>2. Destroyed(lastSeenVms[job.vm]) \in Obj
    BY <1>0, <2>1, ObjTypes DEF TypeOK
  <2>3. job' \in Job /\ (job'.phase = "idle" <=> job'.vm = NoVm)
    BY <1>0, <1>20, <2>1, <2>2, NoVmAssumption DEF LoadGone, Loaded, Job
  <2>4. lastSeenVms' \in [VM -> Obj]
    BY <1>0, <1>20, <2>1, <2>2 DEF LoadGone, TypeOK
  <2> QED  BY <1>0, <1>20, <2>3, <2>4 DEF LoadGone, TypeOK, InventoryTypeOK
<1>21. CASE LoadMissed
  <2>1. job.phase # "idle" /\ (UpdateDone)
    BY <1>21 DEF LoadMissed, Loading, Gone
  <2>2. /\ queue' \in Seq(VM) /\ job' \in Job /\ (job'.phase = "idle" <=> job'.vm = NoVm)
        /\ retryDelays' \in [VM -> {0} \cup (INITIAL_UPDATE_DELAY_MS..MAX_UPDATE_DELAY_MS)]
        /\ timers' \subseteq VM
    BY <1>0, <2>1, UpdateEndTypes
  <2> QED  BY <1>0, <1>21, <2>2 DEF LoadMissed, TypeOK, InventoryTypeOK
<1>22. CASE PutVm
  <2>1. job' \in Job /\ (job'.phase = "idle" <=> job'.vm = NoVm)
    BY <1>0, <1>22 DEF PutVm, TypeOK, Job
  <2> QED  BY <1>0, <1>22, <2>1 DEF PutVm, TypeOK, InventoryTypeOK
<1>23. CASE OnVmUpdate
  <2>1. job.phase # "idle" /\ (UpdateDone)
    BY <1>23 DEF OnVmUpdate, Loading, Gone
  <2>2. /\ queue' \in Seq(VM) /\ job' \in Job /\ (job'.phase = "idle" <=> job'.vm = NoVm)
        /\ retryDelays' \in [VM -> {0} \cup (INITIAL_UPDATE_DELAY_MS..MAX_UPDATE_DELAY_MS)]
        /\ timers' \subseteq VM
    BY <1>0, <2>1, UpdateEndTypes
  <2> QED  BY <1>0, <1>23, <2>2 DEF OnVmUpdate, TypeOK, InventoryTypeOK, Job
<1>24. CASE OnVmUpdateFailed
  <2>1. job.phase # "idle" /\ (UpdateDone \/ UpdateFailed)
    BY <1>24 DEF OnVmUpdateFailed, Loading, Gone
  <2>2. /\ queue' \in Seq(VM) /\ job' \in Job /\ (job'.phase = "idle" <=> job'.vm = NoVm)
        /\ retryDelays' \in [VM -> {0} \cup (INITIAL_UPDATE_DELAY_MS..MAX_UPDATE_DELAY_MS)]
        /\ timers' \subseteq VM
    BY <1>0, <2>1, UpdateEndTypes
  <2> QED  BY <1>0, <1>24, <2>2 DEF OnVmUpdateFailed, TypeOK, InventoryTypeOK, Job
<1>25. CASE Stop
  BY <1>0, <1>25, DelayTypes, ObjTypes, EmptySeq DEF Stop, TypeOK, InventoryTypeOK
<1>26. CASE Crash
  <2>1. Die /\ crashes' \in 0..MaxCrashes
    BY <1>0, <1>26, CrashAssumption DEF Crash, TypeOK
  <2> QED  BY <1>0, <2>1, DieTypes
<1>27. CASE WatcherIsNull
  <2>1. Die /\ crashes' \in 0..MaxCrashes
    BY <1>0, <1>27 DEF WatcherIsNull, TypeOK
  <2> QED  BY <1>0, <2>1, DieTypes
<1>28. CASE UNCHANGED vars
  BY <1>0, <1>28 DEF vars, TypeOK, InventoryTypeOK
<1> QED
  BY <1>1, <1>2, <1>3, <1>4, <1>5, <1>6, <1>7, <1>8, <1>9, <1>10, <1>11, <1>12, <1>13, <1>14,
     <1>15, <1>16, <1>17, <1>18, <1>19, <1>20, <1>21, <1>22, <1>23, <1>24,
     <1>25, <1>26, <1>27, <1>28
  DEF Next, CnStep, StartupStep, WorkerStep, TimerStep

-----------------------------------------------------------------------------
(***************************************************************************)
(* Every step is a step of Inventory.                                      *)
(***************************************************************************)
\* Any part of the startup PUT may be told.
LEMMA ServerPutTells ==
    ASSUME IInv, pc = "putServer", NEW S, NEW v \in VM
    PROVE  MayBecome(v, ServerPut(S)[v])
BY DEF IInv, PayloadInv, ServerPut, MayBecome

\* What the worker is about to PUT may be told.
LEMMA WorkerPutTells ==
    ASSUME IInv, job.phase = "putting", NEW v \in VM
    PROVE  MayBecome(v, [vmapi EXCEPT ![job.vm] = job.obj][v])
<1>1. MayBecome(job.vm, job.obj) /\ vmapi \in [VM -> Obj]
  BY DEF IInv, JobInv, HasObject, TypeOK, InventoryTypeOK
<1>2. CASE v = job.vm
  BY <1>1, <1>2
<1>3. CASE v # job.vm
  BY <1>1, <1>3 DEF MayBecome
<1> QED  BY <1>2, <1>3

\* A dying process tells VMAPI nothing it may not be told.
LEMMA DieTells ==
    ASSUME IInv, Die, NEW v \in VM PROVE MayBecome(v, vmapi'[v])
<1>1. cn' = cn /\ PutLeftBehind
  BY DEF Die
<1>2. CASE vmapi' = vmapi
  BY <1>1, <1>2 DEF MayBecome
<1>3. CASE job.phase = "putting" /\ vmapi' = [vmapi EXCEPT ![job.vm] = job.obj]
  BY <1>1, <1>3, WorkerPutTells
<1>4. CASE pc = "putServer" /\ \E S \in SUBSET VM : vmapi' = ServerPut(S)
  BY <1>1, <1>4, ServerPutTells
<1> QED  BY <1>1, <1>2, <1>3, <1>4 DEF PutLeftBehind

\* A step of the agent, of its VMs or of its timers is one of Inventory or
\* leaves the inventory alone.
LEMMA InventoryStep ==
    ASSUME IInv, [Next]_vars PROVE [InventoryNext]_inventoryVars
<1> USE DEF cnVars, initVars, ctlVars, workVars, dniVars, retryVars
<1>0. InventoryTypeOK'
  BY TypeOKStep DEF TypeOK
<1>1. ASSUME NEW v \in VM, NEW s \in Status, CnChange(v, s) PROVE [InventoryNext]_inventoryVars
  BY <1>1 DEF CnChange, Change, InventoryNext
<1>2. ASSUME NEW v \in VM, NotifyTwice(v) PROVE [InventoryNext]_inventoryVars
  BY <1>2 DEF NotifyTwice, inventoryVars
<1>3. ASSUME NEW v \in VM, OnVmEvent(v) PROVE [InventoryNext]_inventoryVars
  BY <1>3 DEF OnVmEvent, inventoryVars
<1>4. ASSUME NEW v \in VM, DelayedRetry(v) PROVE [InventoryNext]_inventoryVars
  BY <1>4 DEF DelayedRetry, inventoryVars
<1>5. ASSUME NEW v \in VM, PurgeDeletedDni(v) PROVE [InventoryNext]_inventoryVars
  BY <1>5 DEF PurgeDeletedDni, inventoryVars
<1>6. CASE Start
  BY <1>6 DEF Start, inventoryVars
<1>7. CASE SetupWatcher
  BY <1>7 DEF SetupWatcher, inventoryVars
<1>8. CASE GetVmapiVms
  BY <1>8 DEF GetVmapiVms, inventoryVars
<1>9. CASE StartWatcher
  BY <1>9 DEF StartWatcher, inventoryVars
<1>10. CASE GetVmadmVms
  BY <1>10 DEF GetVmadmVms, inventoryVars
<1>11. CASE UpdateVmapiVms
  <2>1. cn' = cn /\ \A v \in VM : MayBecome(v, vmapi'[v])
    BY <1>11, ServerPutTells DEF UpdateVmapiVms
  <2> QED  BY <1>0, <2>1 DEF Report, InventoryTypeOK, InventoryNext
<1>12. CASE InitialUpdateComplete
  BY <1>12 DEF InitialUpdateComplete, inventoryVars
<1>13. CASE InitialUpdateFailed
  <2>1. CASE vmapi' = vmapi
    BY <1>13, <2>1 DEF InitialUpdateFailed, inventoryVars
  <2>2. CASE pc = "putServer" /\ \E S \in SUBSET VM : vmapi' = ServerPut(S)
    <3>1. cn' = cn /\ \A v \in VM : MayBecome(v, vmapi'[v])
      BY <1>13, <2>2, ServerPutTells DEF InitialUpdateFailed
    <3> QED  BY <1>0, <3>1 DEF Report, InventoryTypeOK, InventoryNext
  <2> QED  BY <1>13, <2>1, <2>2 DEF InitialUpdateFailed
<1>14. CASE RetryInitialUpdate
  BY <1>14 DEF RetryInitialUpdate, inventoryVars
<1>15. CASE SkipWhenNotReady
  BY <1>15 DEF SkipWhenNotReady, inventoryVars
<1>16. CASE LoadFails
  BY <1>16 DEF LoadFails, inventoryVars
<1>17. CASE LoadLive
  BY <1>17 DEF LoadLive, inventoryVars
<1>18. CASE LoadDni
  BY <1>18 DEF LoadDni, inventoryVars
<1>19. CASE LoadGoneDni
  BY <1>19 DEF LoadGoneDni, inventoryVars
<1>20. CASE LoadGone
  BY <1>20 DEF LoadGone, inventoryVars
<1>21. CASE LoadMissed
  BY <1>21 DEF LoadMissed, inventoryVars
<1>22. CASE PutVm
  BY <1>22 DEF PutVm, inventoryVars
<1>23. CASE OnVmUpdate
  <2>1. cn' = cn /\ \A v \in VM : MayBecome(v, vmapi'[v])
    BY <1>23, WorkerPutTells DEF OnVmUpdate, cnVars
  <2> QED  BY <1>0, <2>1 DEF Report, InventoryTypeOK, InventoryNext
<1>24. CASE OnVmUpdateFailed
  <2>1. CASE vmapi' = vmapi
    BY <1>24, <2>1 DEF OnVmUpdateFailed, cnVars, inventoryVars
  <2>2. CASE vmapi' = [vmapi EXCEPT ![job.vm] = job.obj]
    <3>1. cn' = cn /\ \A v \in VM : MayBecome(v, vmapi'[v])
      BY <1>24, <2>2, WorkerPutTells DEF OnVmUpdateFailed, cnVars
    <3> QED  BY <1>0, <3>1 DEF Report, InventoryTypeOK, InventoryNext
  <2> QED  BY <1>24, <2>1, <2>2 DEF OnVmUpdateFailed
<1>25. CASE Stop
  BY <1>25 DEF Stop, inventoryVars
<1>26. CASE Crash
  <2>1. \A v \in VM : MayBecome(v, vmapi'[v])
    BY <1>26, DieTells DEF Crash
  <2>2. cn' = cn
    BY <1>26 DEF Crash, Die
  <2> QED  BY <1>0, <2>1, <2>2 DEF Report, InventoryTypeOK, InventoryNext
<1>27. CASE WatcherIsNull
  <2>1. \A v \in VM : MayBecome(v, vmapi'[v])
    BY <1>27, DieTells DEF WatcherIsNull
  <2>2. cn' = cn
    BY <1>27 DEF WatcherIsNull, Die
  <2> QED  BY <1>0, <2>1, <2>2 DEF Report, InventoryTypeOK, InventoryNext
<1>28. CASE UNCHANGED vars
  BY <1>28 DEF vars, inventoryVars
<1> QED
  BY <1>1, <1>2, <1>3, <1>4, <1>5, <1>6, <1>7, <1>8, <1>9, <1>10, <1>11, <1>12, <1>13, <1>14,
     <1>15, <1>16, <1>17, <1>18, <1>19, <1>20, <1>21, <1>22, <1>23, <1>24,
     <1>25, <1>26, <1>27, <1>28
  DEF Next, CnStep, StartupStep, WorkerStep, TimerStep

-----------------------------------------------------------------------------
(***************************************************************************)
(* The parts of the inductive invariant.                                   *)
(***************************************************************************)

\* Startup's stage goes with ready and the watcher.
LEMMA StageStep ==
    ASSUME IInv, [Next]_vars PROVE StageInv'
<1> USE DEF cnVars, initVars, ctlVars, workVars, dniVars, retryVars
<1>0. TypeOK /\ StageInv
  BY DEF IInv
<1>1. ASSUME NEW v \in VM, NEW s \in Status, CnChange(v, s) PROVE StageInv'
  BY <1>0, <1>1 DEF CnChange, StageInv
<1>2. ASSUME NEW v \in VM, NotifyTwice(v) PROVE StageInv'
  BY <1>0, <1>2 DEF NotifyTwice, StageInv
<1>3. ASSUME NEW v \in VM, OnVmEvent(v) PROVE StageInv'
  BY <1>0, <1>3 DEF OnVmEvent, StageInv
<1>4. ASSUME NEW v \in VM, DelayedRetry(v) PROVE StageInv'
  BY <1>0, <1>4 DEF DelayedRetry, StageInv
<1>5. ASSUME NEW v \in VM, PurgeDeletedDni(v) PROVE StageInv'
  BY <1>0, <1>5 DEF PurgeDeletedDni, StageInv
<1>6. CASE Start
  BY <1>0, <1>6 DEF Start, StageInv
<1>7. CASE SetupWatcher
  BY <1>0, <1>7 DEF SetupWatcher, StageInv
<1>8. CASE GetVmapiVms
  BY <1>0, <1>8 DEF GetVmapiVms, StageInv
<1>9. CASE StartWatcher
  BY <1>0, <1>9 DEF StartWatcher, StageInv
<1>10. CASE GetVmadmVms
  BY <1>0, <1>10 DEF GetVmadmVms, StageInv
<1>11. CASE UpdateVmapiVms
  BY <1>0, <1>11 DEF UpdateVmapiVms, StageInv
<1>12. CASE InitialUpdateComplete
  BY <1>0, <1>12 DEF InitialUpdateComplete, StageInv
<1>13. CASE InitialUpdateFailed
  BY <1>0, <1>13 DEF InitialUpdateFailed, StageInv
<1>14. CASE RetryInitialUpdate
  BY <1>0, <1>14 DEF RetryInitialUpdate, StageInv
<1>15. CASE SkipWhenNotReady
  BY <1>0, <1>15 DEF SkipWhenNotReady, StageInv
<1>16. CASE LoadFails
  BY <1>0, <1>16 DEF LoadFails, StageInv
<1>17. CASE LoadLive
  BY <1>0, <1>17 DEF LoadLive, StageInv
<1>18. CASE LoadDni
  BY <1>0, <1>18 DEF LoadDni, StageInv
<1>19. CASE LoadGoneDni
  BY <1>0, <1>19 DEF LoadGoneDni, StageInv
<1>20. CASE LoadGone
  BY <1>0, <1>20 DEF LoadGone, StageInv
<1>21. CASE LoadMissed
  BY <1>0, <1>21 DEF LoadMissed, StageInv
<1>22. CASE PutVm
  BY <1>0, <1>22 DEF PutVm, StageInv
<1>23. CASE OnVmUpdate
  BY <1>0, <1>23 DEF OnVmUpdate, StageInv
<1>24. CASE OnVmUpdateFailed
  BY <1>0, <1>24 DEF OnVmUpdateFailed, StageInv
<1>25. CASE Stop
  BY <1>0, <1>25 DEF Stop, StageInv, TypeOK
<1>26. CASE Crash
  BY <1>26 DEF Crash, Die, StageInv
<1>27. CASE WatcherIsNull
  BY <1>27 DEF WatcherIsNull, Die, StageInv
<1>28. CASE UNCHANGED vars
  BY <1>0, <1>28 DEF vars, StageInv
<1> QED
  BY <1>1, <1>2, <1>3, <1>4, <1>5, <1>6, <1>7, <1>8, <1>9, <1>10, <1>11, <1>12, <1>13, <1>14,
     <1>15, <1>16, <1>17, <1>18, <1>19, <1>20, <1>21, <1>22, <1>23, <1>24,
     <1>25, <1>26, <1>27, <1>28
  DEF Next, CnStep, StartupStep, WorkerStep, TimerStep

\* Only a ready agent works, and an idle worker leaves nothing waiting.
LEMMA WorkStep ==
    ASSUME IInv, [Next]_vars PROVE WorkInv'
<1> USE DEF cnVars, initVars, ctlVars, workVars, dniVars, retryVars
<1>0. TypeOK /\ StageInv /\ WorkInv
  BY DEF IInv
<1>1. ASSUME NEW v \in VM, NEW s \in Status, CnChange(v, s) PROVE WorkInv'
  BY <1>0, <1>1 DEF CnChange, WorkInv
<1>2. ASSUME NEW v \in VM, NotifyTwice(v) PROVE WorkInv'
  BY <1>0, <1>2 DEF NotifyTwice, WorkInv
<1>3. ASSUME NEW v \in VM, OnVmEvent(v) PROVE WorkInv'
  <2>1. CASE ready
    BY <1>0, <1>3, <2>1, QueueVmLemma DEF OnVmEvent, WorkInv
  <2>2. CASE ~ready
    BY <1>0, <1>3, <2>2 DEF OnVmEvent, WorkInv
  <2> QED  BY <2>1, <2>2
<1>4. ASSUME NEW v \in VM, DelayedRetry(v) PROVE WorkInv'
  <2>1. ready \/ stopped = "running"
    BY <1>0, <1>4 DEF DelayedRetry, WorkInv
  <2> QED  BY <1>0, <1>4, <2>1, QueueVmLemma DEF DelayedRetry, WorkInv
<1>5. ASSUME NEW v \in VM, PurgeDeletedDni(v) PROVE WorkInv'
  BY <1>0, <1>5 DEF PurgeDeletedDni, WorkInv
<1>6. CASE Start
  BY <1>0, <1>6 DEF Start, WorkInv
<1>7. CASE SetupWatcher
  BY <1>0, <1>7 DEF SetupWatcher, WorkInv
<1>8. CASE GetVmapiVms
  BY <1>0, <1>8 DEF GetVmapiVms, WorkInv
<1>9. CASE StartWatcher
  BY <1>0, <1>9 DEF StartWatcher, WorkInv
<1>10. CASE GetVmadmVms
  BY <1>0, <1>10 DEF GetVmadmVms, WorkInv
<1>11. CASE UpdateVmapiVms
  BY <1>0, <1>11 DEF UpdateVmapiVms, WorkInv
<1>12. CASE InitialUpdateComplete
  <2>1. dirtyVms \in Seq(VM) /\ Dispatch(dirtyVms) /\ ready' = TRUE
    BY <1>0, <1>12 DEF InitialUpdateComplete, TypeOK
  <2> QED  BY <2>1, DispatchLemma DEF WorkInv
<1>13. CASE InitialUpdateFailed
  BY <1>0, <1>13 DEF InitialUpdateFailed, WorkInv
<1>14. CASE RetryInitialUpdate
  BY <1>0, <1>14 DEF RetryInitialUpdate, WorkInv
<1>15. CASE SkipWhenNotReady
  <2>1. job.phase # "idle" /\ queue \in Seq(VM) /\ Dispatch(queue)
    BY <1>0, <1>15 DEF SkipWhenNotReady, Loading, Gone, UpdateDone, UpdateFailed, TypeOK
  <2>2. job'.phase = "idle" => queue' = <<>>
    BY <2>1, DispatchLemma
  <2>3. ready \/ stopped = "running"
    BY <1>0, <2>1 DEF WorkInv, NoJob
  <2> QED  BY <1>15, <2>2, <2>3 DEF SkipWhenNotReady, WorkInv
<1>16. CASE LoadFails
  <2>1. job.phase # "idle" /\ queue \in Seq(VM) /\ Dispatch(queue)
    BY <1>0, <1>16 DEF LoadFails, Loading, Gone, UpdateDone, UpdateFailed, TypeOK
  <2>2. job'.phase = "idle" => queue' = <<>>
    BY <2>1, DispatchLemma
  <2>3. ready \/ stopped = "running"
    BY <1>0, <2>1 DEF WorkInv, NoJob
  <2> QED  BY <1>16, <2>2, <2>3 DEF LoadFails, WorkInv
<1>17. CASE LoadLive
  <2>1. job'.phase = "loaded" /\ ready' = TRUE
    BY <1>0, <1>17 DEF LoadLive, Loaded, Loading, TypeOK
  <2> QED  BY <2>1 DEF WorkInv
<1>18. CASE LoadDni
  <2>1. job.phase # "idle" /\ queue \in Seq(VM) /\ Dispatch(queue)
    BY <1>0, <1>18 DEF LoadDni, Loading, Gone, UpdateDone, UpdateFailed, TypeOK
  <2>2. job'.phase = "idle" => queue' = <<>>
    BY <2>1, DispatchLemma
  <2>3. ready \/ stopped = "running"
    BY <1>0, <2>1 DEF WorkInv, NoJob
  <2> QED  BY <1>18, <2>2, <2>3 DEF LoadDni, WorkInv
<1>19. CASE LoadGoneDni
  <2>1. job.phase # "idle" /\ queue \in Seq(VM) /\ Dispatch(queue)
    BY <1>0, <1>19 DEF LoadGoneDni, Loading, Gone, UpdateDone, UpdateFailed, TypeOK
  <2>2. job'.phase = "idle" => queue' = <<>>
    BY <2>1, DispatchLemma
  <2>3. ready \/ stopped = "running"
    BY <1>0, <2>1 DEF WorkInv, NoJob
  <2> QED  BY <1>19, <2>2, <2>3 DEF LoadGoneDni, WorkInv
<1>20. CASE LoadGone
  <2>1. job'.phase = "loaded" /\ ready' = TRUE
    BY <1>0, <1>20 DEF LoadGone, Loaded, Gone, Loading, TypeOK
  <2> QED  BY <2>1 DEF WorkInv
<1>21. CASE LoadMissed
  <2>1. job.phase # "idle" /\ queue \in Seq(VM) /\ Dispatch(queue)
    BY <1>0, <1>21 DEF LoadMissed, Loading, Gone, UpdateDone, UpdateFailed, TypeOK
  <2>2. job'.phase = "idle" => queue' = <<>>
    BY <2>1, DispatchLemma
  <2>3. ready \/ stopped = "running"
    BY <1>0, <2>1 DEF WorkInv, NoJob
  <2> QED  BY <1>21, <2>2, <2>3 DEF LoadMissed, WorkInv
<1>22. CASE PutVm
  <2>1. job'.phase = "putting" /\ ready' = TRUE
    BY <1>0, <1>22 DEF PutVm, TypeOK, Job
  <2> QED  BY <2>1 DEF WorkInv
<1>23. CASE OnVmUpdate
  <2>1. job.phase # "idle" /\ queue \in Seq(VM) /\ Dispatch(queue)
    BY <1>0, <1>23 DEF OnVmUpdate, Loading, Gone, UpdateDone, UpdateFailed, TypeOK
  <2>2. job'.phase = "idle" => queue' = <<>>
    BY <2>1, DispatchLemma
  <2>3. ready \/ stopped = "running"
    BY <1>0, <2>1 DEF WorkInv, NoJob
  <2> QED  BY <1>23, <2>2, <2>3 DEF OnVmUpdate, WorkInv
<1>24. CASE OnVmUpdateFailed
  <2>1. job.phase # "idle" /\ queue \in Seq(VM) /\ Dispatch(queue)
    BY <1>0, <1>24 DEF OnVmUpdateFailed, Loading, Gone, UpdateDone, UpdateFailed, TypeOK
  <2>2. job'.phase = "idle" => queue' = <<>>
    BY <2>1, DispatchLemma
  <2>3. ready \/ stopped = "running"
    BY <1>0, <2>1 DEF WorkInv, NoJob
  <2> QED  BY <1>24, <2>2, <2>3 DEF OnVmUpdateFailed, WorkInv
<1>25. CASE Stop
  BY <1>0, <1>25 DEF Stop, WorkInv, StageInv
<1>26. CASE Crash
  BY <1>26 DEF Crash, Die, WorkInv
<1>27. CASE WatcherIsNull
  BY <1>27 DEF WatcherIsNull, Die, WorkInv
<1>28. CASE UNCHANGED vars
  BY <1>0, <1>28 DEF vars, WorkInv
<1> QED
  BY <1>1, <1>2, <1>3, <1>4, <1>5, <1>6, <1>7, <1>8, <1>9, <1>10, <1>11, <1>12, <1>13, <1>14,
     <1>15, <1>16, <1>17, <1>18, <1>19, <1>20, <1>21, <1>22, <1>23, <1>24,
     <1>25, <1>26, <1>27, <1>28
  DEF Next, CnStep, StartupStep, WorkerStep, TimerStep

\* The current version of a VM is the last of its history.
LEMMA NowFacts ==
    ASSUME InventoryTypeOK, NEW v \in VM
    PROVE  /\ Len(cn[v]) \in DOMAIN cn[v] /\ Len(cn[v]) \in 0..MaxVer
           /\ DOMAIN cn[v] = 1..Len(cn[v])
           /\ Now(v) = cn[v][Len(cn[v])]
           /\ \A i \in DOMAIN cn[v] : i <= Len(cn[v])
<1>1. cn[v] \in Seq(Status) /\ Len(cn[v]) \in 1..MaxVer
  BY DEF InventoryTypeOK
<1>2. DOMAIN cn[v] = 1..Len(cn[v])
  BY <1>1, LenProperties
<1> QED  BY <1>1, <1>2, BoundAssumption DEF Now

\* While neither the history nor the record of a VM changes, the same may be told.
LEMMA MayBecomeSame ==
    ASSUME cn' = cn, NEW v \in VM, vmapi'[v] = vmapi[v]
    PROVE  \A o : MayBecome(v, o) => MayBecome(v, o)'
BY DEF MayBecome, LiveAt, LeftAfter

\* do_not_inventory is remembered of VMs that had it.
LEMMA DniStep ==
    ASSUME IInv, [Next]_vars PROVE DniInv'
<1> USE DEF cnVars, initVars, ctlVars, workVars, dniVars, retryVars
<1>0. InventoryTypeOK /\ TypeOK /\ DniInv
  BY DEF IInv, TypeOK
<1>1. ASSUME NEW v \in VM, NEW s \in Status, CnChange(v, s) PROVE DniInv'
  BY <1>0, <1>1, WasDniStays DEF CnChange, DniInv
<1>2. ASSUME NEW v \in VM, NotifyTwice(v) PROVE DniInv'
  BY <1>0, <1>2 DEF NotifyTwice, DniInv, WasDni
<1>3. ASSUME NEW v \in VM, OnVmEvent(v) PROVE DniInv'
  BY <1>0, <1>3 DEF OnVmEvent, DniInv, WasDni
<1>4. ASSUME NEW v \in VM, DelayedRetry(v) PROVE DniInv'
  BY <1>0, <1>4 DEF DelayedRetry, DniInv, WasDni
<1>5. ASSUME NEW v \in VM, PurgeDeletedDni(v) PROVE DniInv'
  BY <1>0, <1>5 DEF PurgeDeletedDni, DniInv, WasDni, TypeOK
<1>6. CASE Start
  BY <1>0, <1>6 DEF Start, DniInv, WasDni
<1>7. CASE SetupWatcher
  BY <1>0, <1>7 DEF SetupWatcher, DniInv, WasDni
<1>8. CASE GetVmapiVms
  BY <1>0, <1>8 DEF GetVmapiVms, DniInv, WasDni
<1>9. CASE StartWatcher
  BY <1>0, <1>9 DEF StartWatcher, DniInv, WasDni
<1>10. CASE GetVmadmVms
  <2>1. ASSUME NEW v \in VM, Now(v) = "dni" PROVE WasDni(v)
    BY <1>0, <2>1, NowFacts DEF WasDni
  <2> QED  BY <1>0, <1>10, <2>1 DEF GetVmadmVms, DniInv, WasDni, TypeOK
<1>11. CASE UpdateVmapiVms
  BY <1>0, <1>11 DEF UpdateVmapiVms, DniInv, WasDni
<1>12. CASE InitialUpdateComplete
  BY <1>0, <1>12 DEF InitialUpdateComplete, DniInv, WasDni
<1>13. CASE InitialUpdateFailed
  BY <1>0, <1>13 DEF InitialUpdateFailed, DniInv, WasDni
<1>14. CASE RetryInitialUpdate
  BY <1>0, <1>14 DEF RetryInitialUpdate, DniInv, WasDni
<1>15. CASE SkipWhenNotReady
  BY <1>0, <1>15 DEF SkipWhenNotReady, DniInv, WasDni
<1>16. CASE LoadFails
  BY <1>0, <1>16 DEF LoadFails, DniInv, WasDni
<1>17. CASE LoadLive
  BY <1>0, <1>17 DEF LoadLive, DniInv, WasDni, TypeOK
<1>18. CASE LoadDni
  <2>1. job.vm \in VM /\ Now(job.vm) = "dni"
    BY <1>0, <1>18 DEF LoadDni, Loading, TypeOK, Job
  <2>2. WasDni(job.vm)
    BY <1>0, <2>1, NowFacts DEF WasDni
  <2> QED  BY <1>0, <1>18, <2>1, <2>2 DEF LoadDni, DniInv, WasDni, TypeOK
<1>19. CASE LoadGoneDni
  <2>1. job.vm \in VM /\ WasDni(job.vm)
    BY <1>0, <1>19 DEF LoadGoneDni, Gone, Loading, TypeOK, Job, DniInv
  <2> QED  BY <1>0, <1>19, <2>1 DEF LoadGoneDni, Gone, DniInv, WasDni, TypeOK
<1>20. CASE LoadGone
  BY <1>0, <1>20 DEF LoadGone, DniInv, WasDni
<1>21. CASE LoadMissed
  BY <1>0, <1>21 DEF LoadMissed, DniInv, WasDni
<1>22. CASE PutVm
  BY <1>0, <1>22 DEF PutVm, DniInv, WasDni
<1>23. CASE OnVmUpdate
  BY <1>0, <1>23 DEF OnVmUpdate, DniInv, WasDni
<1>24. CASE OnVmUpdateFailed
  BY <1>0, <1>24 DEF OnVmUpdateFailed, DniInv, WasDni
<1>25. CASE Stop
  BY <1>25 DEF Stop, DniInv
<1>26. CASE Crash
  BY <1>26 DEF Crash, Die, DniInv
<1>27. CASE WatcherIsNull
  BY <1>27 DEF WatcherIsNull, Die, DniInv
<1>28. CASE UNCHANGED vars
  BY <1>0, <1>28 DEF vars, DniInv, WasDni
<1> QED
  BY <1>1, <1>2, <1>3, <1>4, <1>5, <1>6, <1>7, <1>8, <1>9, <1>10, <1>11, <1>12, <1>13, <1>14,
     <1>15, <1>16, <1>17, <1>18, <1>19, <1>20, <1>21, <1>22, <1>23, <1>24,
     <1>25, <1>26, <1>27, <1>28
  DEF Next, CnStep, StartupStep, WorkerStep, TimerStep

\* What startup has looked up stays comparable with VMAPI, and what changed since is noted.
LEMMA StashStep ==
    ASSUME IInv, [Next]_vars PROVE StashInv'
<1> USE DEF cnVars, initVars, ctlVars, workVars, dniVars, retryVars
<1>0. InventoryTypeOK /\ TypeOK /\ StageInv /\ WorkInv /\ StashInv
  BY DEF IInv, TypeOK
<1>1. ASSUME NEW v \in VM, NEW s \in Status, CnChange(v, s) PROVE StashInv'
  <2>1. \A w \in VM :
          /\ \A i \in DOMAIN cn[w] : i \in DOMAIN cn'[w]
          /\ w # v => cn'[w] = cn[w]
    BY <1>0, <1>1, HistoryGrows DEF CnChange
  <2>2. pc \in {"putServer", "updateLastSeen"} /\ stopped = "no" => v \in events'
    BY <1>0, <1>1 DEF CnChange, StageInv
  <2>3. events \subseteq events'
    BY <1>1 DEF CnChange
  <2>4. \A w \in VM : ListedBy(w) => ListedBy(w)'
    BY <1>1 DEF CnChange, ListedBy
  <2>5. pc' = pc /\ vmadmVms' = vmadmVms /\ stopped' = stopped /\ dirtyVms' = dirtyVms
    BY <1>1 DEF CnChange
  <2>6. ASSUME pc \in {"startWatcher", "lookup", "putServer"}, NEW w \in VM
        PROVE  ListedBy(w)'
    BY <1>0, <2>4, <2>6 DEF StashInv
  <2>7. ASSUME pc \in {"putServer", "updateLastSeen"}, NEW w \in VM
        PROVE  /\ vmadmVms[w] \in DOMAIN cn'[w]
               /\ stopped = "no" => \/ vmadmVms[w] = Len(cn'[w])
                                   \/ w \in events' \cup Range(dirtyVms)
    <3>0. /\ vmadmVms[w] \in DOMAIN cn[w]
          /\ stopped = "no" => vmadmVms[w] = Len(cn[w]) \/ w \in events \cup Range(dirtyVms)
      BY <1>0, <2>7 DEF StashInv
    <3>1. vmadmVms[w] \in DOMAIN cn'[w]
      BY <2>1, <3>0
    <3>2. CASE w = v
      BY <2>2, <2>7, <3>1, <3>2
    <3>3. CASE w # v
      BY <2>1, <2>3, <3>0, <3>1, <3>3
    <3> QED  BY <3>2, <3>3
  <2> QED  BY <2>5, <2>6, <2>7 DEF StashInv
<1>2. ASSUME NEW v \in VM, NotifyTwice(v) PROVE StashInv'
  BY <1>0, <1>2 DEF NotifyTwice, StashInv, ListedBy
<1>3. ASSUME NEW v \in VM, OnVmEvent(v) PROVE StashInv'
  <2>1. pc \in {"putServer", "updateLastSeen"} =>
          events' \cup Range(dirtyVms') = events \cup Range(dirtyVms)
    <3>1. CASE v \in Range(dirtyVms)
      BY <1>0, <1>3, <3>1 DEF OnVmEvent, StageInv
    <3>2. CASE v \notin Range(dirtyVms)
      <4>1. Range(Append(dirtyVms, v)) = Range(dirtyVms) \cup {v}
        BY <1>0, RangeAppend DEF TypeOK
      <4> QED  BY <1>0, <1>3, <3>2, <4>1 DEF OnVmEvent, StageInv
    <3> QED  BY <3>1, <3>2
  <2> QED  BY <1>0, <1>3, <2>1 DEF OnVmEvent, StashInv, ListedBy
<1>4. ASSUME NEW v \in VM, DelayedRetry(v) PROVE StashInv'
  BY <1>0, <1>4 DEF DelayedRetry, StashInv, ListedBy
<1>5. ASSUME NEW v \in VM, PurgeDeletedDni(v) PROVE StashInv'
  BY <1>0, <1>5 DEF PurgeDeletedDni, StashInv, ListedBy
<1>6. CASE Start
  <2>1. pc' \notin {"startWatcher", "lookup", "putServer", "updateLastSeen"}
    BY <1>6 DEF Start
  <2> QED  BY <2>1 DEF StashInv
<1>7. CASE SetupWatcher
  <2>1. pc' \notin {"startWatcher", "lookup", "putServer", "updateLastSeen"}
    BY <1>7 DEF SetupWatcher
  <2> QED  BY <2>1 DEF StashInv
<1>8. CASE GetVmapiVms
  BY <1>0, <1>8 DEF GetVmapiVms, StashInv, ListedBy
<1>9. CASE StartWatcher
  BY <1>0, <1>9 DEF StartWatcher, StashInv, ListedBy
<1>10. CASE GetVmadmVms
  BY <1>0, <1>10, NowFacts DEF GetVmadmVms, StashInv, ListedBy
<1>11. CASE UpdateVmapiVms
  BY <1>0, <1>11 DEF UpdateVmapiVms, StashInv
<1>12. CASE InitialUpdateComplete
  <2>1. pc' \notin {"startWatcher", "lookup", "putServer", "updateLastSeen"}
    BY <1>12 DEF InitialUpdateComplete
  <2> QED  BY <2>1 DEF StashInv
<1>13. CASE InitialUpdateFailed
  <2>1. pc' \notin {"startWatcher", "lookup", "putServer", "updateLastSeen"}
    BY <1>13 DEF InitialUpdateFailed
  <2> QED  BY <2>1 DEF StashInv
<1>14. CASE RetryInitialUpdate
  <2>1. pc' \notin {"startWatcher", "lookup", "putServer", "updateLastSeen"}
    BY <1>14 DEF RetryInitialUpdate
  <2> QED  BY <2>1 DEF StashInv
<1>15. CASE SkipWhenNotReady
  <2>1. pc' = "done"
    BY <1>0, <1>15 DEF SkipWhenNotReady, Loading, Gone, StageInv, WorkInv, NoJob
  <2> QED  BY <2>1 DEF StashInv
<1>16. CASE LoadFails
  <2>1. pc' = "done"
    BY <1>0, <1>16 DEF LoadFails, Loading, Gone, StageInv, WorkInv, NoJob
  <2> QED  BY <2>1 DEF StashInv
<1>17. CASE LoadLive
  <2>1. pc' = "done"
    BY <1>0, <1>17 DEF LoadLive, Loading, Gone, StageInv, WorkInv, NoJob
  <2> QED  BY <2>1 DEF StashInv
<1>18. CASE LoadDni
  <2>1. pc' = "done"
    BY <1>0, <1>18 DEF LoadDni, Loading, Gone, StageInv, WorkInv, NoJob
  <2> QED  BY <2>1 DEF StashInv
<1>19. CASE LoadGoneDni
  <2>1. pc' = "done"
    BY <1>0, <1>19 DEF LoadGoneDni, Loading, Gone, StageInv, WorkInv, NoJob
  <2> QED  BY <2>1 DEF StashInv
<1>20. CASE LoadGone
  <2>1. pc' = "done"
    BY <1>0, <1>20 DEF LoadGone, Loading, Gone, StageInv, WorkInv, NoJob
  <2> QED  BY <2>1 DEF StashInv
<1>21. CASE LoadMissed
  <2>1. pc' = "done"
    BY <1>0, <1>21 DEF LoadMissed, Loading, Gone, StageInv, WorkInv, NoJob
  <2> QED  BY <2>1 DEF StashInv
<1>22. CASE PutVm
  <2>1. pc' = "done"
    BY <1>0, <1>22 DEF PutVm, Loading, Gone, StageInv, WorkInv, NoJob
  <2> QED  BY <2>1 DEF StashInv
<1>23. CASE OnVmUpdate
  <2>1. pc' = "done"
    BY <1>0, <1>23 DEF OnVmUpdate, Loading, Gone, StageInv, WorkInv, NoJob
  <2> QED  BY <2>1 DEF StashInv
<1>24. CASE OnVmUpdateFailed
  <2>1. pc' = "done"
    BY <1>0, <1>24 DEF OnVmUpdateFailed, Loading, Gone, StageInv, WorkInv, NoJob
  <2> QED  BY <2>1 DEF StashInv
<1>25. CASE Stop
  BY <1>0, <1>25 DEF Stop, StashInv, ListedBy
<1>26. CASE Crash
  <2>1. pc' = "off"
    BY <1>26 DEF Crash, Die
  <2> QED  BY <2>1 DEF StashInv
<1>27. CASE WatcherIsNull
  <2>1. pc' = "off"
    BY <1>27 DEF WatcherIsNull, Die
  <2> QED  BY <2>1 DEF StashInv
<1>28. CASE UNCHANGED vars
  BY <1>0, <1>28 DEF vars, StashInv, ListedBy
<1> QED
  BY <1>1, <1>2, <1>3, <1>4, <1>5, <1>6, <1>7, <1>8, <1>9, <1>10, <1>11, <1>12, <1>13, <1>14,
     <1>15, <1>16, <1>17, <1>18, <1>19, <1>20, <1>21, <1>22, <1>23, <1>24,
     <1>25, <1>26, <1>27, <1>28
  DEF Next, CnStep, StartupStep, WorkerStep, TimerStep

\* A record is of a version the VM has had; one of the current version of a VM
\* that is there shows it as active.
LEMMA RecordFacts ==
    ASSUME InventoryTypeOK, RecordsAreReal, NEW v \in VM
    PROVE  /\ vmapi[v] \in Obj /\ vmapi[v].ver \in Nat
           /\ vmapi[v].ver <= Len(cn[v])
           /\ vmapi[v].ver = Len(cn[v]) => vmapi[v] = Active(Len(cn[v])) /\ Now(v) = "live"
<1>1. vmapi[v] \in Obj /\ vmapi[v].ver \in Nat
  BY BoundAssumption DEF InventoryTypeOK, Obj
<1>2. Len(cn[v]) \in Nat \ {0} /\ \A i \in DOMAIN cn[v] : i <= Len(cn[v])
  BY DEF InventoryTypeOK
<1>3. vmapi[v].ver > 0 => /\ LiveAt(v, vmapi[v].ver) /\ vmapi[v].state # "none"
                          /\ vmapi[v].state = "destroyed" => LeftAfter(v, vmapi[v].ver)
  BY DEF RecordsAreReal
<1>4. vmapi[v].ver <= Len(cn[v])
  BY <1>1, <1>2, <1>3 DEF LiveAt
<1>5. ASSUME vmapi[v].ver = Len(cn[v])
      PROVE  vmapi[v] = Active(Len(cn[v])) /\ Now(v) = "live"
  <2>1. vmapi[v].ver > 0 /\ ~LeftAfter(v, vmapi[v].ver)
    BY <1>2, <1>5 DEF LeftAfter
  <2>2. vmapi[v].state = "active"
    BY <1>1, <1>3, <2>1 DEF Obj
  <2> QED  BY <1>1, <1>3, <1>5, <2>1, <2>2 DEF Obj, Active, LiveAt, Now
<1> QED  BY <1>1, <1>4, <1>5

\* A VM that is there may be told in its current version.
LEMMA LiveMayBeTold ==
    ASSUME InventoryTypeOK, RecordsAreReal, NEW v \in VM, Now(v) = "live"
    PROVE  MayBecome(v, Active(Len(cn[v])))
<1>1. LiveAt(v, Len(cn[v]))
  BY NowFacts DEF LiveAt
<1>2. Active(Len(cn[v])).state = "active" /\ Active(Len(cn[v])).ver = Len(cn[v])
  BY DEF Active
<1>3. Len(cn[v]) \in Nat
  BY DEF InventoryTypeOK
<1>4. CASE vmapi[v].ver = Len(cn[v])
  BY <1>4, RecordFacts DEF MayBecome
<1>5. CASE vmapi[v].ver < Len(cn[v])
  BY <1>1, <1>2, <1>5 DEF MayBecome
<1> QED  BY <1>3, <1>4, <1>5, RecordFacts

\* Of a VM that is not there, any version it was there in and VMAPI does not
\* know better than may be told as destroyed.
LEMMA GoneMayBeTold ==
    ASSUME InventoryTypeOK, NEW v \in VM, Now(v) # "live", NEW o \in Obj,
           o.ver >= vmapi[v].ver,
           LiveAt(v, o.ver) \/ (vmapi[v].state = "active" /\ o = vmapi[v] /\ o.ver = 0)
    PROVE  MayBecome(v, Destroyed(o))
<1>1. Destroyed(o).state = "destroyed" /\ Destroyed(o).ver = o.ver /\ o.ver \in Nat
  BY BoundAssumption DEF Destroyed, Obj
<1>2. LeftAfter(v, o.ver)
  BY <1>1, NowFacts DEF LeftAfter, LiveAt, InventoryTypeOK
<1> QED  BY <1>1, <1>2 DEF MayBecome

\* Nothing the payload is made of changed.
LEMMA PayloadSame ==
    ASSUME UNCHANGED <<pc, cn, vmapi, vmapiVms, vmadmVms>>
    PROVE  (PayloadInv => PayloadInv') /\ (SeenInv => SeenInv')
BY DEF PayloadInv, SeenInv, Payload, MayBecome, LiveAt, LeftAfter

\* A payload is an object, the current version of a VM that is listed, or the
\* record of one that is not as destroyed.
LEMMA PayloadFacts ==
    ASSUME TypeOK, NEW v \in VM, NEW k \in 0..MaxVer, ListedBy(v)
    PROVE  /\ Payload(v, k) \in Obj
           /\ Payload(v, k) = NoObj =>
                IF cn[v][k] = "live" THEN vmapi[v] = Active(k) ELSE vmapi[v].state # "active"
           /\ Payload(v, k) # NoObj =>
                IF cn[v][k] = "live" THEN Payload(v, k) = Active(k)
                ELSE /\ vmapi[v].state = "active" /\ Payload(v, k) = Destroyed(vmapi[v])
                     /\ Payload(v, k).state = "destroyed"
<1>1. vmapi[v] \in Obj /\ vmapiVms[v] \in Obj
  BY DEF TypeOK, InventoryTypeOK
<1>2. Active(k) # NoObj /\ NoObj.state = "none" /\ Destroyed(vmapi[v]).state = "destroyed"
  BY <1>1 DEF Active, NoObj, Destroyed, Obj
<1>3. Payload(v, k) \in Obj
  BY <1>1, ObjTypes DEF Payload
<1>4. Destroyed(vmapi[v]) # NoObj
  BY <1>2
<1>5. CASE cn[v][k] = "live"
  BY <1>2, <1>3, <1>5 DEF Payload, ListedBy
<1>6. CASE cn[v][k] # "live"
  BY <1>1, <1>2, <1>3, <1>4, <1>6 DEF Payload, ListedBy
<1> QED  BY <1>5, <1>6

\* The payload of the startup PUT stays what may be told.
LEMMA PayloadStep ==
    ASSUME IInv, [Next]_vars PROVE PayloadInv'
<1> USE DEF cnVars, initVars, ctlVars, workVars, dniVars, retryVars
<1>0. InventoryTypeOK /\ TypeOK /\ RecordsAreReal /\ StageInv /\ WorkInv /\ StashInv /\ PayloadInv /\ SeenInv
  BY DEF IInv, TypeOK
<1>1. ASSUME NEW v \in VM, NEW s \in Status, CnChange(v, s) PROVE PayloadInv'
  <2> SUFFICES ASSUME pc = "putServer", NEW w \in VM,
                      Payload(w, vmadmVms[w])' # NoObj
               PROVE  MayBecome(w, Payload(w, vmadmVms[w]))'
    BY <1>1 DEF CnChange, PayloadInv
  <2>1. ListedBy(w) /\ vmadmVms[w] \in DOMAIN cn[w] /\ vmadmVms[w] \in 0..MaxVer
    BY <1>0 DEF StashInv, TypeOK
  <2>2. cn'[w][vmadmVms[w]] = cn[w][vmadmVms[w]]
    BY <1>0, <1>1, <2>1, HistoryGrows DEF CnChange
  <2>3. Payload(w, vmadmVms[w])' = Payload(w, vmadmVms[w])
    BY <1>1, <2>2 DEF CnChange, Payload
  <2>4. MayBecome(w, Payload(w, vmadmVms[w]))
    BY <1>0, <2>3 DEF PayloadInv
  <2>5. Payload(w, vmadmVms[w]) \in Obj
    BY <1>0, <2>1, PayloadFacts
  <2>6. \A o \in Obj : MayBecome(w, o) => MayBecome(w, o)'
    BY <1>0, <1>1, HistoryMonotonic DEF CnChange
  <2> QED  BY <2>3, <2>4, <2>5, <2>6
<1>2. ASSUME NEW v \in VM, NotifyTwice(v) PROVE PayloadInv'
  <2>1. UNCHANGED <<pc, cn, vmapi, vmapiVms, vmadmVms>>
    BY <1>2 DEF NotifyTwice
  <2> QED  BY <1>0, <2>1, PayloadSame
<1>3. ASSUME NEW v \in VM, OnVmEvent(v) PROVE PayloadInv'
  <2>1. UNCHANGED <<pc, cn, vmapi, vmapiVms, vmadmVms>>
    BY <1>3 DEF OnVmEvent
  <2> QED  BY <1>0, <2>1, PayloadSame
<1>4. ASSUME NEW v \in VM, DelayedRetry(v) PROVE PayloadInv'
  <2>1. UNCHANGED <<pc, cn, vmapi, vmapiVms, vmadmVms>>
    BY <1>4 DEF DelayedRetry
  <2> QED  BY <1>0, <2>1, PayloadSame
<1>5. ASSUME NEW v \in VM, PurgeDeletedDni(v) PROVE PayloadInv'
  <2>1. UNCHANGED <<pc, cn, vmapi, vmapiVms, vmadmVms>>
    BY <1>5 DEF PurgeDeletedDni
  <2> QED  BY <1>0, <2>1, PayloadSame
<1>6. CASE Start
  <2>1. pc' # "putServer"
    BY <1>6 DEF Start
  <2> QED  BY <2>1 DEF PayloadInv
<1>7. CASE SetupWatcher
  <2>1. pc' # "putServer"
    BY <1>7 DEF SetupWatcher
  <2> QED  BY <2>1 DEF PayloadInv
<1>8. CASE GetVmapiVms
  <2>1. pc' # "putServer"
    BY <1>8 DEF GetVmapiVms
  <2> QED  BY <2>1 DEF PayloadInv
<1>9. CASE StartWatcher
  <2>1. pc' # "putServer"
    BY <1>9 DEF StartWatcher
  <2> QED  BY <2>1 DEF PayloadInv
<1>10. CASE GetVmadmVms
  <2> SUFFICES ASSUME NEW v \in VM, Payload(v, vmadmVms[v])' # NoObj
               PROVE  MayBecome(v, Payload(v, vmadmVms[v]))'
    BY DEF PayloadInv
  <2> DEFINE k == Len(cn[v])
  <2>1. k \in 0..MaxVer /\ Now(v) = cn[v][k] /\ ListedBy(v)
    BY <1>0, <1>10, NowFacts DEF GetVmadmVms, StashInv
  <2>2. Payload(v, vmadmVms[v])' = Payload(v, k)
    BY <1>10 DEF GetVmadmVms, Payload
  <2>3. CASE Now(v) = "live"
    <3>1. Payload(v, k) = Active(k)
      BY <1>0, <2>1, <2>2, <2>3, PayloadFacts
    <3> QED  BY <1>0, <1>10, <2>2, <2>3, <3>1, LiveMayBeTold, MayBecomeSame DEF GetVmadmVms
  <2>4. CASE Now(v) # "live"
    <3>1. vmapi[v].state = "active" /\ Payload(v, k) = Destroyed(vmapi[v])
      BY <1>0, <2>1, <2>2, <2>4, PayloadFacts
    <3>2. vmapi[v] \in Obj /\ vmapi[v].ver \in Nat
      BY <1>0, RecordFacts
    <3>3. LiveAt(v, vmapi[v].ver) \/ vmapi[v].ver = 0
      BY <1>0, <3>2 DEF RecordsAreReal
    <3>4. MayBecome(v, Destroyed(vmapi[v]))
      BY <1>0, <2>4, <3>1, <3>2, <3>3, GoneMayBeTold
    <3> QED  BY <1>10, <2>2, <3>1, <3>4, MayBecomeSame DEF GetVmadmVms
  <2> QED  BY <2>3, <2>4
<1>11. CASE UpdateVmapiVms
  <2>1. pc' # "putServer"
    BY <1>11 DEF UpdateVmapiVms
  <2> QED  BY <2>1 DEF PayloadInv
<1>12. CASE InitialUpdateComplete
  <2>1. pc' # "putServer"
    BY <1>12 DEF InitialUpdateComplete
  <2> QED  BY <2>1 DEF PayloadInv
<1>13. CASE InitialUpdateFailed
  <2>1. pc' # "putServer"
    BY <1>13 DEF InitialUpdateFailed
  <2> QED  BY <2>1 DEF PayloadInv
<1>14. CASE RetryInitialUpdate
  <2>1. pc' # "putServer"
    BY <1>14 DEF RetryInitialUpdate
  <2> QED  BY <2>1 DEF PayloadInv
<1>15. CASE SkipWhenNotReady
  <2>1. pc' = "done"
    BY <1>0, <1>15 DEF SkipWhenNotReady, Loading, Gone, StageInv, WorkInv, NoJob
  <2> QED  BY <2>1 DEF PayloadInv
<1>16. CASE LoadFails
  <2>1. pc' = "done"
    BY <1>0, <1>16 DEF LoadFails, Loading, Gone, StageInv, WorkInv, NoJob
  <2> QED  BY <2>1 DEF PayloadInv
<1>17. CASE LoadLive
  <2>1. pc' = "done"
    BY <1>0, <1>17 DEF LoadLive, Loading, Gone, StageInv, WorkInv, NoJob
  <2> QED  BY <2>1 DEF PayloadInv
<1>18. CASE LoadDni
  <2>1. pc' = "done"
    BY <1>0, <1>18 DEF LoadDni, Loading, Gone, StageInv, WorkInv, NoJob
  <2> QED  BY <2>1 DEF PayloadInv
<1>19. CASE LoadGoneDni
  <2>1. pc' = "done"
    BY <1>0, <1>19 DEF LoadGoneDni, Loading, Gone, StageInv, WorkInv, NoJob
  <2> QED  BY <2>1 DEF PayloadInv
<1>20. CASE LoadGone
  <2>1. pc' = "done"
    BY <1>0, <1>20 DEF LoadGone, Loading, Gone, StageInv, WorkInv, NoJob
  <2> QED  BY <2>1 DEF PayloadInv
<1>21. CASE LoadMissed
  <2>1. pc' = "done"
    BY <1>0, <1>21 DEF LoadMissed, Loading, Gone, StageInv, WorkInv, NoJob
  <2> QED  BY <2>1 DEF PayloadInv
<1>22. CASE PutVm
  <2>1. pc' = "done"
    BY <1>0, <1>22 DEF PutVm, Loading, Gone, StageInv, WorkInv, NoJob
  <2> QED  BY <2>1 DEF PayloadInv
<1>23. CASE OnVmUpdate
  <2>1. pc' = "done"
    BY <1>0, <1>23 DEF OnVmUpdate, Loading, Gone, StageInv, WorkInv, NoJob
  <2> QED  BY <2>1 DEF PayloadInv
<1>24. CASE OnVmUpdateFailed
  <2>1. pc' = "done"
    BY <1>0, <1>24 DEF OnVmUpdateFailed, Loading, Gone, StageInv, WorkInv, NoJob
  <2> QED  BY <2>1 DEF PayloadInv
<1>25. CASE Stop
  <2>1. UNCHANGED <<pc, cn, vmapi, vmapiVms, vmadmVms>>
    BY <1>25 DEF Stop
  <2> QED  BY <1>0, <2>1, PayloadSame
<1>26. CASE Crash
  <2>1. pc' = "off"
    BY <1>26 DEF Crash, Die
  <2> QED  BY <2>1 DEF PayloadInv
<1>27. CASE WatcherIsNull
  <2>1. pc' = "off"
    BY <1>27 DEF WatcherIsNull, Die
  <2> QED  BY <2>1 DEF PayloadInv
<1>28. CASE UNCHANGED vars
  BY <1>0, <1>28, PayloadSame DEF vars
<1> QED
  BY <1>1, <1>2, <1>3, <1>4, <1>5, <1>6, <1>7, <1>8, <1>9, <1>10, <1>11, <1>12, <1>13, <1>14,
     <1>15, <1>16, <1>17, <1>18, <1>19, <1>20, <1>21, <1>22, <1>23, <1>24,
     <1>25, <1>26, <1>27, <1>28
  DEF Next, CnStep, StartupStep, WorkerStep, TimerStep

\* After the startup PUT VMAPI shows what was looked up.
LEMMA SeenStep ==
    ASSUME IInv, [Next]_vars PROVE SeenInv'
<1> USE DEF cnVars, initVars, ctlVars, workVars, dniVars, retryVars
<1>0. InventoryTypeOK /\ TypeOK /\ RecordsAreReal /\ StageInv /\ WorkInv /\ StashInv /\ PayloadInv /\ SeenInv
  BY DEF IInv, TypeOK
<1>1. ASSUME NEW v \in VM, NEW s \in Status, CnChange(v, s) PROVE SeenInv'
  <2> SUFFICES ASSUME pc = "updateLastSeen", NEW w \in VM
               PROVE  IF cn'[w][vmadmVms[w]] = "live" THEN vmapi[w] = Active(vmadmVms[w])
                                                      ELSE vmapi[w].state # "active"
    BY <1>1 DEF CnChange, SeenInv
  <2>1. vmadmVms[w] \in DOMAIN cn[w]
    BY <1>0 DEF StashInv
  <2>2. cn'[w][vmadmVms[w]] = cn[w][vmadmVms[w]]
    BY <1>0, <1>1, <2>1, HistoryGrows DEF CnChange
  <2> QED  BY <1>0, <2>2 DEF SeenInv
<1>2. ASSUME NEW v \in VM, NotifyTwice(v) PROVE SeenInv'
  <2>1. UNCHANGED <<pc, cn, vmapi, vmapiVms, vmadmVms>>
    BY <1>2 DEF NotifyTwice
  <2> QED  BY <1>0, <2>1, PayloadSame
<1>3. ASSUME NEW v \in VM, OnVmEvent(v) PROVE SeenInv'
  <2>1. UNCHANGED <<pc, cn, vmapi, vmapiVms, vmadmVms>>
    BY <1>3 DEF OnVmEvent
  <2> QED  BY <1>0, <2>1, PayloadSame
<1>4. ASSUME NEW v \in VM, DelayedRetry(v) PROVE SeenInv'
  <2>1. UNCHANGED <<pc, cn, vmapi, vmapiVms, vmadmVms>>
    BY <1>4 DEF DelayedRetry
  <2> QED  BY <1>0, <2>1, PayloadSame
<1>5. ASSUME NEW v \in VM, PurgeDeletedDni(v) PROVE SeenInv'
  <2>1. UNCHANGED <<pc, cn, vmapi, vmapiVms, vmadmVms>>
    BY <1>5 DEF PurgeDeletedDni
  <2> QED  BY <1>0, <2>1, PayloadSame
<1>6. CASE Start
  <2>1. pc' # "updateLastSeen"
    BY <1>6 DEF Start
  <2> QED  BY <2>1 DEF SeenInv
<1>7. CASE SetupWatcher
  <2>1. pc' # "updateLastSeen"
    BY <1>7 DEF SetupWatcher
  <2> QED  BY <2>1 DEF SeenInv
<1>8. CASE GetVmapiVms
  <2>1. pc' # "updateLastSeen"
    BY <1>8 DEF GetVmapiVms
  <2> QED  BY <2>1 DEF SeenInv
<1>9. CASE StartWatcher
  <2>1. pc' # "updateLastSeen"
    BY <1>9 DEF StartWatcher
  <2> QED  BY <2>1 DEF SeenInv
<1>10. CASE GetVmadmVms
  <2> SUFFICES ASSUME \A v \in VM : Payload(v, Len(cn[v])) = NoObj, NEW v \in VM
               PROVE  IF cn[v][Len(cn[v])] = "live" THEN vmapi[v] = Active(Len(cn[v]))
                                                    ELSE vmapi[v].state # "active"
    BY <1>10 DEF GetVmadmVms, SeenInv
  <2>1. Len(cn[v]) \in 0..MaxVer /\ ListedBy(v) /\ Payload(v, Len(cn[v])) = NoObj
    BY <1>0, <1>10, NowFacts DEF GetVmadmVms, StashInv
  <2> QED  BY <1>0, <2>1, PayloadFacts
<1>11. CASE UpdateVmapiVms
  <2> SUFFICES ASSUME NEW v \in VM
               PROVE  IF cn[v][vmadmVms[v]] = "live" THEN vmapi'[v] = Active(vmadmVms[v])
                                                     ELSE vmapi'[v].state # "active"
    BY <1>11 DEF UpdateVmapiVms, SeenInv
  <2>1. vmadmVms[v] \in 0..MaxVer /\ ListedBy(v)
    BY <1>0, <1>11 DEF UpdateVmapiVms, StashInv, TypeOK
  <2>2. vmapi'[v] = IF Payload(v, vmadmVms[v]) # NoObj THEN Payload(v, vmadmVms[v])
                                                        ELSE vmapi[v]
    BY <1>11 DEF UpdateVmapiVms, ServerPut
  <2> QED  BY <1>0, <2>1, <2>2, PayloadFacts
<1>12. CASE InitialUpdateComplete
  <2>1. pc' # "updateLastSeen"
    BY <1>12 DEF InitialUpdateComplete
  <2> QED  BY <2>1 DEF SeenInv
<1>13. CASE InitialUpdateFailed
  <2>1. pc' # "updateLastSeen"
    BY <1>13 DEF InitialUpdateFailed
  <2> QED  BY <2>1 DEF SeenInv
<1>14. CASE RetryInitialUpdate
  <2>1. pc' # "updateLastSeen"
    BY <1>14 DEF RetryInitialUpdate
  <2> QED  BY <2>1 DEF SeenInv
<1>15. CASE SkipWhenNotReady
  <2>1. pc' = "done"
    BY <1>0, <1>15 DEF SkipWhenNotReady, Loading, Gone, StageInv, WorkInv, NoJob
  <2> QED  BY <2>1 DEF SeenInv
<1>16. CASE LoadFails
  <2>1. pc' = "done"
    BY <1>0, <1>16 DEF LoadFails, Loading, Gone, StageInv, WorkInv, NoJob
  <2> QED  BY <2>1 DEF SeenInv
<1>17. CASE LoadLive
  <2>1. pc' = "done"
    BY <1>0, <1>17 DEF LoadLive, Loading, Gone, StageInv, WorkInv, NoJob
  <2> QED  BY <2>1 DEF SeenInv
<1>18. CASE LoadDni
  <2>1. pc' = "done"
    BY <1>0, <1>18 DEF LoadDni, Loading, Gone, StageInv, WorkInv, NoJob
  <2> QED  BY <2>1 DEF SeenInv
<1>19. CASE LoadGoneDni
  <2>1. pc' = "done"
    BY <1>0, <1>19 DEF LoadGoneDni, Loading, Gone, StageInv, WorkInv, NoJob
  <2> QED  BY <2>1 DEF SeenInv
<1>20. CASE LoadGone
  <2>1. pc' = "done"
    BY <1>0, <1>20 DEF LoadGone, Loading, Gone, StageInv, WorkInv, NoJob
  <2> QED  BY <2>1 DEF SeenInv
<1>21. CASE LoadMissed
  <2>1. pc' = "done"
    BY <1>0, <1>21 DEF LoadMissed, Loading, Gone, StageInv, WorkInv, NoJob
  <2> QED  BY <2>1 DEF SeenInv
<1>22. CASE PutVm
  <2>1. pc' = "done"
    BY <1>0, <1>22 DEF PutVm, Loading, Gone, StageInv, WorkInv, NoJob
  <2> QED  BY <2>1 DEF SeenInv
<1>23. CASE OnVmUpdate
  <2>1. pc' = "done"
    BY <1>0, <1>23 DEF OnVmUpdate, Loading, Gone, StageInv, WorkInv, NoJob
  <2> QED  BY <2>1 DEF SeenInv
<1>24. CASE OnVmUpdateFailed
  <2>1. pc' = "done"
    BY <1>0, <1>24 DEF OnVmUpdateFailed, Loading, Gone, StageInv, WorkInv, NoJob
  <2> QED  BY <2>1 DEF SeenInv
<1>25. CASE Stop
  <2>1. UNCHANGED <<pc, cn, vmapi, vmapiVms, vmadmVms>>
    BY <1>25 DEF Stop
  <2> QED  BY <1>0, <2>1, PayloadSame
<1>26. CASE Crash
  <2>1. pc' = "off"
    BY <1>26 DEF Crash, Die
  <2> QED  BY <2>1 DEF SeenInv
<1>27. CASE WatcherIsNull
  <2>1. pc' = "off"
    BY <1>27 DEF WatcherIsNull, Die
  <2> QED  BY <2>1 DEF SeenInv
<1>28. CASE UNCHANGED vars
  BY <1>0, <1>28, PayloadSame DEF vars
<1> QED
  BY <1>1, <1>2, <1>3, <1>4, <1>5, <1>6, <1>7, <1>8, <1>9, <1>10, <1>11, <1>12, <1>13, <1>14,
     <1>15, <1>16, <1>17, <1>18, <1>19, <1>20, <1>21, <1>22, <1>23, <1>24,
     <1>25, <1>26, <1>27, <1>28
  DEF Next, CnStep, StartupStep, WorkerStep, TimerStep

\* The task in the worker and what it may be told of did not change.
LEMMA JobSame ==
    ASSUME JobInv, TypeOK, UNCHANGED <<job, cn, vmapi>>,
           ready' => ready /\ lastSeenVms' = lastSeenVms
    PROVE  JobInv'
<1> SUFFICES ASSUME HasObject
             PROVE  /\ MayBecome(job.vm, job.obj)'
                    /\ ready' => job.obj = lastSeenVms'[job.vm]
  BY DEF JobInv, HasObject
<1>1. MayBecome(job.vm, job.obj) /\ job.vm \in VM
  BY DEF JobInv, HasObject, TypeOK, Job
<1>2. MayBecome(job.vm, job.obj)'
  BY <1>1, MayBecomeSame
<1> QED  BY <1>2 DEF JobInv

\* A task that was dispatched, and one that ended, holds no object.
LEMMA NoObject ==
    ASSUME job'.phase \in {"idle", "loading"} PROVE JobInv' /\ FreshInv'
BY DEF JobInv, FreshInv, HasObject

\* Nobody works while startup is under way.
LEMMA NoJobInStartup ==
    ASSUME StageInv, WorkInv, pc # "done" PROVE job = NoJob /\ ~ready /\ job.phase = "idle"
BY DEF StageInv, WorkInv, NoJob

\* What the worker holds is what was loaded, and may be told.
LEMMA JobStep ==
    ASSUME IInv, [Next]_vars PROVE JobInv'
<1> USE DEF cnVars, initVars, ctlVars, workVars, dniVars, retryVars
<1>0. InventoryTypeOK /\ TypeOK /\ RecordsAreReal /\ StageInv /\ WorkInv /\ JobInv /\ FreshInv /\ MemoryInv
  BY DEF IInv, TypeOK
<1>1. ASSUME NEW v \in VM, NEW s \in Status, CnChange(v, s) PROVE JobInv'
  <2> SUFFICES ASSUME HasObject PROVE JobInv'
    BY <1>1 DEF CnChange, JobInv, HasObject
  <2>1. job.vm \in VM /\ job.obj \in Obj
    BY <1>0 DEF TypeOK, Job, HasObject
  <2>2. /\ job.snap \in DOMAIN cn[job.vm] /\ MayBecome(job.vm, job.obj)
        /\ cn[job.vm][job.snap] = "live" => job.obj = Active(job.snap)
        /\ cn[job.vm][job.snap] # "live" => job.obj.state = "destroyed"
        /\ ready => job.obj = lastSeenVms[job.vm]
    BY <1>0 DEF JobInv
  <2>3. job.snap \in DOMAIN cn'[job.vm] /\ cn'[job.vm][job.snap] = cn[job.vm][job.snap]
    BY <1>0, <1>1, <2>1, <2>2, HistoryGrows DEF CnChange
  <2>4. MayBecome(job.vm, job.obj)'
    BY <1>0, <1>1, <2>1, <2>2, HistoryMonotonic DEF CnChange
  <2> QED  BY <1>1, <2>2, <2>3, <2>4 DEF CnChange, JobInv
<1>2. ASSUME NEW v \in VM, NotifyTwice(v) PROVE JobInv'
  BY <1>0, <1>2, JobSame DEF NotifyTwice
<1>3. ASSUME NEW v \in VM, OnVmEvent(v) PROVE JobInv'
  <2>1. CASE ready
    <3>1. job' = job \/ job'.phase = "loading"
      BY <1>0, <1>3, <2>1, QueueVmLemma DEF OnVmEvent
    <3> QED  BY <1>0, <1>3, <3>1, JobSame, NoObject DEF OnVmEvent
  <2>2. CASE ~ready
    BY <1>0, <1>3, <2>2, JobSame DEF OnVmEvent
  <2> QED  BY <2>1, <2>2
<1>4. ASSUME NEW v \in VM, DelayedRetry(v) PROVE JobInv'
  <2>1. job' = job \/ job'.phase = "loading"
    BY <1>0, <1>4, QueueVmLemma DEF DelayedRetry
  <2> QED  BY <1>0, <1>4, <2>1, JobSame, NoObject DEF DelayedRetry
<1>5. ASSUME NEW v \in VM, PurgeDeletedDni(v) PROVE JobInv'
  BY <1>0, <1>5, JobSame DEF PurgeDeletedDni
<1>6. CASE Start
  <2>1. job' = job /\ job.phase = "idle"
    BY <1>0, <1>6, NoJobInStartup DEF Start
  <2> QED  BY <2>1, NoObject
<1>7. CASE SetupWatcher
  <2>1. job' = job /\ job.phase = "idle"
    BY <1>0, <1>7, NoJobInStartup DEF SetupWatcher
  <2> QED  BY <2>1, NoObject
<1>8. CASE GetVmapiVms
  <2>1. job' = job /\ job.phase = "idle"
    BY <1>0, <1>8, NoJobInStartup DEF GetVmapiVms
  <2> QED  BY <2>1, NoObject
<1>9. CASE StartWatcher
  <2>1. job' = job /\ job.phase = "idle"
    BY <1>0, <1>9, NoJobInStartup DEF StartWatcher
  <2> QED  BY <2>1, NoObject
<1>10. CASE GetVmadmVms
  <2>1. job' = job /\ job.phase = "idle"
    BY <1>0, <1>10, NoJobInStartup DEF GetVmadmVms
  <2> QED  BY <2>1, NoObject
<1>11. CASE UpdateVmapiVms
  <2>1. job' = job /\ job.phase = "idle"
    BY <1>0, <1>11, NoJobInStartup DEF UpdateVmapiVms
  <2> QED  BY <2>1, NoObject
<1>12. CASE InitialUpdateComplete
  <2>1. dirtyVms \in Seq(VM) /\ Dispatch(dirtyVms)
    BY <1>0, <1>12 DEF InitialUpdateComplete, TypeOK
  <2> QED  BY <2>1, DispatchLemma, NoObject
<1>13. CASE InitialUpdateFailed
  <2>1. job' = job /\ job.phase = "idle"
    BY <1>0, <1>13, NoJobInStartup DEF InitialUpdateFailed
  <2> QED  BY <2>1, NoObject
<1>14. CASE RetryInitialUpdate
  <2>1. job' = job /\ job.phase = "idle"
    BY <1>0, <1>14, NoJobInStartup DEF RetryInitialUpdate
  <2> QED  BY <2>1, NoObject
<1>15. CASE SkipWhenNotReady
  <2>1. queue \in Seq(VM) /\ Dispatch(queue)
    BY <1>0, <1>15 DEF SkipWhenNotReady, UpdateDone, UpdateFailed, TypeOK
  <2> QED  BY <2>1, DispatchLemma, NoObject
<1>16. CASE LoadFails
  <2>1. queue \in Seq(VM) /\ Dispatch(queue)
    BY <1>0, <1>16 DEF LoadFails, UpdateDone, UpdateFailed, TypeOK
  <2> QED  BY <2>1, DispatchLemma, NoObject
<1>17. CASE LoadLive
  <2> DEFINE w == job.vm
  <2>1. w \in VM /\ Now(w) = "live" /\ ready
    BY <1>0, <1>17 DEF LoadLive, Loading, TypeOK, Job
  <2>2. Len(cn[w]) \in DOMAIN cn[w] /\ cn[w][Len(cn[w])] = "live"
    BY <1>0, <2>1, NowFacts
  <2>3. /\ job'.vm = w /\ job'.snap = Len(cn[w]) /\ job'.obj = Active(Len(cn[w]))
        /\ cn' = cn /\ vmapi' = vmapi
        /\ lastSeenVms'[w] = Active(Len(cn[w]))
    BY <1>0, <1>17, <2>1 DEF LoadLive, Loaded, TypeOK
  <2>4. MayBecome(w, Active(Len(cn[w])))
    BY <1>0, <2>1, LiveMayBeTold
  <2>5. MayBecome(job.vm, job.obj)'
    BY <2>1, <2>3, <2>4, MayBecomeSame
  <2> QED  BY <2>2, <2>3, <2>5 DEF JobInv
<1>18. CASE LoadDni
  <2>1. queue \in Seq(VM) /\ Dispatch(queue)
    BY <1>0, <1>18 DEF LoadDni, UpdateDone, UpdateFailed, TypeOK
  <2> QED  BY <2>1, DispatchLemma, NoObject
<1>19. CASE LoadGoneDni
  <2>1. queue \in Seq(VM) /\ Dispatch(queue)
    BY <1>0, <1>19 DEF LoadGoneDni, UpdateDone, UpdateFailed, TypeOK
  <2> QED  BY <2>1, DispatchLemma, NoObject
<1>20. CASE LoadGone
  <2> DEFINE w == job.vm
             o == lastSeenVms[w]
  <2>1. w \in VM /\ Now(w) = "absent" /\ ready /\ o # NoObj /\ o \in Obj
    BY <1>0, <1>20 DEF LoadGone, Gone, Loading, TypeOK, Job
  <2>2. Len(cn[w]) \in DOMAIN cn[w] /\ cn[w][Len(cn[w])] # "live"
    BY <1>0, <2>1, NowFacts
  <2>3. /\ job'.vm = w /\ job'.snap = Len(cn[w]) /\ job'.obj = Destroyed(o)
        /\ cn' = cn /\ vmapi' = vmapi
        /\ lastSeenVms'[w] = Destroyed(o)
    BY <1>0, <1>20, <2>1 DEF LoadGone, Loaded, TypeOK
  <2>4. LiveAt(w, o.ver) /\ o.ver >= vmapi[w].ver
    BY <1>0, <2>1 DEF MemoryInv
  <2>5. MayBecome(w, Destroyed(o)) /\ Destroyed(o).state = "destroyed"
    BY <1>0, <2>1, <2>4, GoneMayBeTold DEF Destroyed, Obj
  <2>6. MayBecome(job.vm, job.obj)'
    BY <2>1, <2>3, <2>5, MayBecomeSame
  <2> QED  BY <2>2, <2>3, <2>5, <2>6 DEF JobInv
<1>21. CASE LoadMissed
  <2>1. queue \in Seq(VM) /\ Dispatch(queue)
    BY <1>0, <1>21 DEF LoadMissed, UpdateDone, UpdateFailed, TypeOK
  <2> QED  BY <2>1, DispatchLemma, NoObject
<1>22. CASE PutVm
  <2>1. /\ job'.vm = job.vm /\ job'.snap = job.snap /\ job'.obj = job.obj
        /\ cn' = cn /\ vmapi' = vmapi /\ lastSeenVms' = lastSeenVms /\ ready' = ready
        /\ HasObject
    BY <1>0, <1>22 DEF PutVm, TypeOK, Job, HasObject
  <2>2. job.vm \in VM /\ MayBecome(job.vm, job.obj)
    BY <1>0, <2>1 DEF JobInv, TypeOK, Job, HasObject
  <2>3. MayBecome(job.vm, job.obj)'
    BY <2>1, <2>2, MayBecomeSame
  <2> QED  BY <1>0, <2>1, <2>3 DEF JobInv
<1>23. CASE OnVmUpdate
  <2>1. queue \in Seq(VM) /\ Dispatch(queue)
    BY <1>0, <1>23 DEF OnVmUpdate, UpdateDone, UpdateFailed, TypeOK
  <2> QED  BY <2>1, DispatchLemma, NoObject
<1>24. CASE OnVmUpdateFailed
  <2>1. queue \in Seq(VM) /\ Dispatch(queue)
    BY <1>0, <1>24 DEF OnVmUpdateFailed, UpdateDone, UpdateFailed, TypeOK
  <2> QED  BY <2>1, DispatchLemma, NoObject
<1>25. CASE Stop
  BY <1>0, <1>25, JobSame DEF Stop
<1>26. CASE Crash
  <2>1. job'.phase = "idle"
    BY <1>26 DEF Crash, Die, NoJob
  <2> QED  BY <2>1, NoObject
<1>27. CASE WatcherIsNull
  <2>1. job'.phase = "idle"
    BY <1>27 DEF WatcherIsNull, Die, NoJob
  <2> QED  BY <2>1, NoObject
<1>28. CASE UNCHANGED vars
  BY <1>0, <1>28, JobSame DEF vars
<1> QED
  BY <1>1, <1>2, <1>3, <1>4, <1>5, <1>6, <1>7, <1>8, <1>9, <1>10, <1>11, <1>12, <1>13, <1>14,
     <1>15, <1>16, <1>17, <1>18, <1>19, <1>20, <1>21, <1>22, <1>23, <1>24,
     <1>25, <1>26, <1>27, <1>28
  DEF Next, CnStep, StartupStep, WorkerStep, TimerStep

\* A task with an old version is not the last one for its VM.
LEMMA FreshStep ==
    ASSUME IInv, [Next]_vars PROVE FreshInv'
<1> USE DEF cnVars, initVars, ctlVars, workVars, dniVars, retryVars
<1>0. InventoryTypeOK /\ TypeOK /\ RecordsAreReal /\ StageInv /\ WorkInv /\ JobInv /\ FreshInv /\ MemoryInv
  BY DEF IInv, TypeOK
<1>1. ASSUME NEW v \in VM, NEW s \in Status, CnChange(v, s) PROVE FreshInv'
  <2> SUFFICES ASSUME HasObject, stopped = "no"
               PROVE  job.snap = Len(cn'[job.vm]) \/ job.vm \in events' \cup Range(queue)
    BY <1>1 DEF CnChange, FreshInv, HasObject
  <2>1. job.vm \in VM /\ (job.snap = Len(cn[job.vm]) \/ job.vm \in events \cup Range(queue))
    BY <1>0 DEF FreshInv, TypeOK, Job, HasObject
  <2>2. watcher = "started"
    BY <1>0, NoJobInStartup DEF StageInv, HasObject
  <2>3. events' = events \cup {v}
    BY <1>1, <2>2 DEF CnChange
  <2>4. job.vm # v => cn'[job.vm] = cn[job.vm]
    BY <1>0, <1>1, <2>1, HistoryGrows DEF CnChange
  <2> QED  BY <2>1, <2>3, <2>4
<1>2. ASSUME NEW v \in VM, NotifyTwice(v) PROVE FreshInv'
  BY <1>0, <1>2 DEF NotifyTwice, FreshInv, HasObject
<1>3. ASSUME NEW v \in VM, OnVmEvent(v) PROVE FreshInv'
  <2>1. CASE ready
    <3>1. \/ job'.phase = "loading"
          \/ job' = job /\ Range(queue') = Range(queue) \cup {v}
      BY <1>0, <1>3, <2>1, QueueVmLemma DEF OnVmEvent
    <3> QED  BY <1>0, <1>3, <3>1, NoObject DEF OnVmEvent, FreshInv, HasObject
  <2>2. CASE ~ready
    <3>1. job' = job /\ (stopped = "no" => job.phase = "idle")
      BY <1>0, <1>3, <2>2 DEF OnVmEvent, WorkInv, NoJob
    <3> QED  BY <1>3, <3>1 DEF OnVmEvent, FreshInv, HasObject
  <2> QED  BY <2>1, <2>2
<1>4. ASSUME NEW v \in VM, DelayedRetry(v) PROVE FreshInv'
  <2>1. \/ job'.phase = "loading"
        \/ job' = job /\ Range(queue') = Range(queue) \cup {v}
    BY <1>0, <1>4, QueueVmLemma DEF DelayedRetry
  <2> QED  BY <1>0, <1>4, <2>1, NoObject DEF DelayedRetry, FreshInv, HasObject
<1>5. ASSUME NEW v \in VM, PurgeDeletedDni(v) PROVE FreshInv'
  BY <1>0, <1>5 DEF PurgeDeletedDni, FreshInv, HasObject
<1>6. CASE Start
  <2>1. job' = job /\ job.phase = "idle"
    BY <1>0, <1>6, NoJobInStartup DEF Start
  <2> QED  BY <2>1, NoObject
<1>7. CASE SetupWatcher
  <2>1. job' = job /\ job.phase = "idle"
    BY <1>0, <1>7, NoJobInStartup DEF SetupWatcher
  <2> QED  BY <2>1, NoObject
<1>8. CASE GetVmapiVms
  <2>1. job' = job /\ job.phase = "idle"
    BY <1>0, <1>8, NoJobInStartup DEF GetVmapiVms
  <2> QED  BY <2>1, NoObject
<1>9. CASE StartWatcher
  <2>1. job' = job /\ job.phase = "idle"
    BY <1>0, <1>9, NoJobInStartup DEF StartWatcher
  <2> QED  BY <2>1, NoObject
<1>10. CASE GetVmadmVms
  <2>1. job' = job /\ job.phase = "idle"
    BY <1>0, <1>10, NoJobInStartup DEF GetVmadmVms
  <2> QED  BY <2>1, NoObject
<1>11. CASE UpdateVmapiVms
  <2>1. job' = job /\ job.phase = "idle"
    BY <1>0, <1>11, NoJobInStartup DEF UpdateVmapiVms
  <2> QED  BY <2>1, NoObject
<1>12. CASE InitialUpdateComplete
  <2>1. dirtyVms \in Seq(VM) /\ Dispatch(dirtyVms)
    BY <1>0, <1>12 DEF InitialUpdateComplete, TypeOK
  <2> QED  BY <2>1, DispatchLemma, NoObject
<1>13. CASE InitialUpdateFailed
  <2>1. job' = job /\ job.phase = "idle"
    BY <1>0, <1>13, NoJobInStartup DEF InitialUpdateFailed
  <2> QED  BY <2>1, NoObject
<1>14. CASE RetryInitialUpdate
  <2>1. job' = job /\ job.phase = "idle"
    BY <1>0, <1>14, NoJobInStartup DEF RetryInitialUpdate
  <2> QED  BY <2>1, NoObject
<1>15. CASE SkipWhenNotReady
  <2>1. queue \in Seq(VM) /\ Dispatch(queue)
    BY <1>0, <1>15 DEF SkipWhenNotReady, UpdateDone, UpdateFailed, TypeOK
  <2> QED  BY <2>1, DispatchLemma, NoObject
<1>16. CASE LoadFails
  <2>1. queue \in Seq(VM) /\ Dispatch(queue)
    BY <1>0, <1>16 DEF LoadFails, UpdateDone, UpdateFailed, TypeOK
  <2> QED  BY <2>1, DispatchLemma, NoObject
<1>17. CASE LoadLive
  BY <1>17 DEF LoadLive, Loaded, FreshInv
<1>18. CASE LoadDni
  <2>1. queue \in Seq(VM) /\ Dispatch(queue)
    BY <1>0, <1>18 DEF LoadDni, UpdateDone, UpdateFailed, TypeOK
  <2> QED  BY <2>1, DispatchLemma, NoObject
<1>19. CASE LoadGoneDni
  <2>1. queue \in Seq(VM) /\ Dispatch(queue)
    BY <1>0, <1>19 DEF LoadGoneDni, UpdateDone, UpdateFailed, TypeOK
  <2> QED  BY <2>1, DispatchLemma, NoObject
<1>20. CASE LoadGone
  BY <1>20 DEF LoadGone, Loaded, FreshInv
<1>21. CASE LoadMissed
  <2>1. queue \in Seq(VM) /\ Dispatch(queue)
    BY <1>0, <1>21 DEF LoadMissed, UpdateDone, UpdateFailed, TypeOK
  <2> QED  BY <2>1, DispatchLemma, NoObject
<1>22. CASE PutVm
  <2>1. job'.vm = job.vm /\ job'.snap = job.snap /\ HasObject
    BY <1>0, <1>22 DEF PutVm, TypeOK, Job, HasObject
  <2> QED  BY <1>0, <1>22, <2>1 DEF PutVm, FreshInv
<1>23. CASE OnVmUpdate
  <2>1. queue \in Seq(VM) /\ Dispatch(queue)
    BY <1>0, <1>23 DEF OnVmUpdate, UpdateDone, UpdateFailed, TypeOK
  <2> QED  BY <2>1, DispatchLemma, NoObject
<1>24. CASE OnVmUpdateFailed
  <2>1. queue \in Seq(VM) /\ Dispatch(queue)
    BY <1>0, <1>24 DEF OnVmUpdateFailed, UpdateDone, UpdateFailed, TypeOK
  <2> QED  BY <2>1, DispatchLemma, NoObject
<1>25. CASE Stop
  BY <1>25 DEF Stop, FreshInv
<1>26. CASE Crash
  <2>1. job'.phase = "idle"
    BY <1>26 DEF Crash, Die, NoJob
  <2> QED  BY <2>1, NoObject
<1>27. CASE WatcherIsNull
  <2>1. job'.phase = "idle"
    BY <1>27 DEF WatcherIsNull, Die, NoJob
  <2> QED  BY <2>1, NoObject
<1>28. CASE UNCHANGED vars
  BY <1>0, <1>28 DEF vars, FreshInv, HasObject
<1> QED
  BY <1>1, <1>2, <1>3, <1>4, <1>5, <1>6, <1>7, <1>8, <1>9, <1>10, <1>11, <1>12, <1>13, <1>14,
     <1>15, <1>16, <1>17, <1>18, <1>19, <1>20, <1>21, <1>22, <1>23, <1>24,
     <1>25, <1>26, <1>27, <1>28
  DEF Next, CnStep, StartupStep, WorkerStep, TimerStep

\* Memory, history and records did not change.
LEMMA MemorySame ==
    ASSUME MemoryInv, UNCHANGED <<cn, vmapi, lastSeenVms>>, ready' => ready PROVE MemoryInv'
BY DEF MemoryInv, LiveAt

\* Of every VM active in VMAPI an object is remembered, real and no older.
LEMMA MemoryStep ==
    ASSUME IInv, [Next]_vars PROVE MemoryInv'
<1> USE DEF cnVars, initVars, ctlVars, workVars, dniVars, retryVars
<1>0. InventoryTypeOK /\ TypeOK /\ RecordsAreReal /\ StageInv /\ WorkInv /\ JobInv /\ MemoryInv /\ StashInv /\ SeenInv
  BY DEF IInv, TypeOK
<1>1. ASSUME NEW v \in VM, NEW s \in Status, CnChange(v, s) PROVE MemoryInv'
  <2>1. \A w \in VM : \A k : LiveAt(w, k) => LiveAt(w, k)'
    BY <1>0, <1>1, HistoryMonotonic DEF CnChange
  <2>2. UNCHANGED <<vmapi, lastSeenVms, ready>>
    BY <1>1 DEF CnChange
  <2> QED  BY <1>0, <2>1, <2>2 DEF MemoryInv
<1>2. ASSUME NEW v \in VM, NotifyTwice(v) PROVE MemoryInv'
  BY <1>0, <1>2, MemorySame DEF NotifyTwice
<1>3. ASSUME NEW v \in VM, OnVmEvent(v) PROVE MemoryInv'
  BY <1>0, <1>3, MemorySame DEF OnVmEvent
<1>4. ASSUME NEW v \in VM, DelayedRetry(v) PROVE MemoryInv'
  BY <1>0, <1>4, MemorySame DEF DelayedRetry
<1>5. ASSUME NEW v \in VM, PurgeDeletedDni(v) PROVE MemoryInv'
  BY <1>0, <1>5, MemorySame DEF PurgeDeletedDni
<1>6. CASE Start
  BY <1>0, <1>6, MemorySame DEF Start
<1>7. CASE SetupWatcher
  BY <1>0, <1>7, MemorySame DEF SetupWatcher
<1>8. CASE GetVmapiVms
  BY <1>0, <1>8, MemorySame DEF GetVmapiVms
<1>9. CASE StartWatcher
  BY <1>0, <1>9, MemorySame DEF StartWatcher
<1>10. CASE GetVmadmVms
  BY <1>0, <1>10, MemorySame DEF GetVmadmVms
<1>11. CASE UpdateVmapiVms
  <2>1. ready' = FALSE
    BY <1>0, <1>11 DEF UpdateVmapiVms, StageInv, TypeOK
  <2> QED  BY <2>1 DEF MemoryInv
<1>12. CASE InitialUpdateComplete
  <2> SUFFICES ASSUME NEW v \in VM
               PROVE  /\ vmapi[v].state = "active" => lastSeenVms'[v] # NoObj
                      /\ lastSeenVms'[v] # NoObj =>
                            LiveAt(v, lastSeenVms'[v].ver) /\ lastSeenVms'[v].ver >= vmapi[v].ver
    BY <1>12 DEF InitialUpdateComplete, MemoryInv, LiveAt
  <2> DEFINE k == vmadmVms[v]
  <2>1. k \in DOMAIN cn[v] /\ k \in Nat
    BY <1>0, <1>12, BoundAssumption DEF InitialUpdateComplete, StashInv, TypeOK
  <2>2. lastSeenVms'[v] = IF cn[v][k] = "live" THEN Active(k) ELSE NoObj
    BY <1>12 DEF InitialUpdateComplete
  <2>3. IF cn[v][k] = "live" THEN vmapi[v] = Active(k) ELSE vmapi[v].state # "active"
    BY <1>0, <1>12 DEF InitialUpdateComplete, SeenInv
  <2>4. Active(k).ver = k /\ Active(k) # NoObj
    BY DEF Active, NoObj
  <2> QED  BY <2>1, <2>2, <2>3, <2>4 DEF LiveAt
<1>13. CASE InitialUpdateFailed
  <2>1. ready' = FALSE
    BY <1>0, <1>13 DEF InitialUpdateFailed, StageInv, TypeOK
  <2> QED  BY <2>1 DEF MemoryInv
<1>14. CASE RetryInitialUpdate
  BY <1>0, <1>14, MemorySame DEF RetryInitialUpdate
<1>15. CASE SkipWhenNotReady
  BY <1>0, <1>15, MemorySame DEF SkipWhenNotReady
<1>16. CASE LoadFails
  BY <1>0, <1>16, MemorySame DEF LoadFails
<1>17. CASE LoadLive
  <2> DEFINE w == job.vm
             k == Len(cn[w])
  <2>1. w \in VM /\ Now(w) = "live" /\ ready
    BY <1>0, <1>17 DEF LoadLive, Loading, TypeOK, Job
  <2>2. LiveAt(w, k) /\ vmapi[w].ver <= k /\ vmapi[w].ver \in Nat /\ k \in Nat
    BY <1>0, <2>1, NowFacts, RecordFacts DEF LiveAt, InventoryTypeOK
  <2>3. Active(k).ver = k /\ Active(k) # NoObj
    BY DEF Active, NoObj
  <2>4. /\ lastSeenVms' = [lastSeenVms EXCEPT ![w] = Active(k)]
        /\ cn' = cn /\ vmapi' = vmapi
    BY <1>17 DEF LoadLive
  <2>5. \A u \in VM : lastSeenVms'[u] = IF u = w THEN Active(k) ELSE lastSeenVms[u]
    BY <1>0, <2>1, <2>4 DEF TypeOK
  <2> QED  BY <1>0, <2>1, <2>2, <2>3, <2>4, <2>5 DEF MemoryInv, LiveAt
<1>18. CASE LoadDni
  BY <1>0, <1>18, MemorySame DEF LoadDni
<1>19. CASE LoadGoneDni
  BY <1>0, <1>19, MemorySame DEF LoadGoneDni, Gone
<1>20. CASE LoadGone
  <2> DEFINE w == job.vm
             o == lastSeenVms[w]
  <2>1. w \in VM /\ ready /\ o # NoObj /\ o \in Obj
    BY <1>0, <1>20 DEF LoadGone, Gone, Loading, TypeOK, Job
  <2>2. LiveAt(w, o.ver) /\ o.ver >= vmapi[w].ver
    BY <1>0, <2>1 DEF MemoryInv
  <2>3. Destroyed(o).ver = o.ver /\ Destroyed(o) # NoObj
    BY <2>1 DEF Destroyed, NoObj, Obj
  <2>4. /\ lastSeenVms' = [lastSeenVms EXCEPT ![w] = Destroyed(o)]
        /\ cn' = cn /\ vmapi' = vmapi
    BY <1>20 DEF LoadGone
  <2>5. \A u \in VM : lastSeenVms'[u] = IF u = w THEN Destroyed(o) ELSE lastSeenVms[u]
    BY <1>0, <2>1, <2>4 DEF TypeOK
  <2> QED  BY <1>0, <2>1, <2>2, <2>3, <2>4, <2>5 DEF MemoryInv, LiveAt
<1>21. CASE LoadMissed
  BY <1>0, <1>21, MemorySame DEF LoadMissed
<1>22. CASE PutVm
  BY <1>0, <1>22, MemorySame DEF PutVm
<1>23. CASE OnVmUpdate
  <2> SUFFICES ASSUME ready PROVE MemoryInv'
    BY <1>23 DEF OnVmUpdate, MemoryInv
  <2> DEFINE w == job.vm
  <2>1. w \in VM /\ job.obj \in Obj /\ HasObject
    BY <1>0, <1>23 DEF OnVmUpdate, TypeOK, Job, HasObject
  <2>2. job.obj = lastSeenVms[w] /\ job.obj # NoObj
    BY <1>0, <2>1 DEF JobInv, Active, NoObj
  <2>3. job.obj.ver \in Nat
    BY <2>1, BoundAssumption DEF Obj
  <2>4. /\ cn' = cn /\ lastSeenVms' = lastSeenVms
        /\ \A u \in VM : vmapi'[u] = vmapi[u] \/ (u = w /\ vmapi'[u] = job.obj)
    BY <1>0, <1>23, <2>1 DEF OnVmUpdate, InventoryTypeOK
  <2> QED  BY <1>0, <2>1, <2>2, <2>3, <2>4 DEF MemoryInv, LiveAt
<1>24. CASE OnVmUpdateFailed
  <2> SUFFICES ASSUME ready PROVE MemoryInv'
    BY <1>24 DEF OnVmUpdateFailed, MemoryInv
  <2> DEFINE w == job.vm
  <2>1. w \in VM /\ job.obj \in Obj /\ HasObject
    BY <1>0, <1>24 DEF OnVmUpdateFailed, TypeOK, Job, HasObject
  <2>2. job.obj = lastSeenVms[w] /\ job.obj # NoObj
    BY <1>0, <2>1 DEF JobInv, Active, NoObj
  <2>3. job.obj.ver \in Nat
    BY <2>1, BoundAssumption DEF Obj
  <2>4. /\ cn' = cn /\ lastSeenVms' = lastSeenVms
        /\ \A u \in VM : vmapi'[u] = vmapi[u] \/ (u = w /\ vmapi'[u] = job.obj)
    BY <1>0, <1>24, <2>1 DEF OnVmUpdateFailed, InventoryTypeOK
  <2> QED  BY <1>0, <2>1, <2>2, <2>3, <2>4 DEF MemoryInv, LiveAt
<1>25. CASE Stop
  BY <1>25 DEF Stop, MemoryInv
<1>26. CASE Crash
  BY <1>26 DEF Crash, Die, MemoryInv
<1>27. CASE WatcherIsNull
  BY <1>27 DEF WatcherIsNull, Die, MemoryInv
<1>28. CASE UNCHANGED vars
  BY <1>0, <1>28, MemorySame DEF vars
<1> QED
  BY <1>1, <1>2, <1>3, <1>4, <1>5, <1>6, <1>7, <1>8, <1>9, <1>10, <1>11, <1>12, <1>13, <1>14,
     <1>15, <1>16, <1>17, <1>18, <1>19, <1>20, <1>21, <1>22, <1>23, <1>24,
     <1>25, <1>26, <1>27, <1>28
  DEF Next, CnStep, StartupStep, WorkerStep, TimerStep

\* What the agent still has to do for a VM stays to be done while the history
\* and the record of the VM stay.
LEMMA StillOwed ==
    ASSUME NEW v \in VM, cn' = cn, vmapi'[v] = vmapi[v],
           Owed(v) => Owed(v)',
           Reported(v) \/ Owed(v) \/ (Now(v) = "absent" /\ WasDni(v))
    PROVE  (Reported(v) \/ Owed(v) \/ (Now(v) = "absent" /\ WasDni(v)))'
BY DEF Reported, Now, WasDni

\* When an update of another VM ends, the worker takes the next task and what
\* is owed is still owed.
LEMMA OwedAcrossEnd ==
    ASSUME TypeOK, NEW v \in VM, v # job.vm, Dispatch(queue), events' = events, cn' = cn,
           timers \ {job.vm} \subseteq timers', Owed(v)
    PROVE  Owed(v)'
<1>1. queue \in Seq(VM) /\ v \in events \cup Range(queue) \cup timers
  BY DEF TypeOK, Owed
<1>2. v \in Range(queue) => v \in Range(queue') \/ (job'.vm = v /\ job'.phase = "loading")
  BY <1>1, DispatchLemma
<1> QED  BY <1>1, <1>2 DEF Owed

\* No step loses a change.
LEMMA NoLostStep ==
    ASSUME IInv, [Next]_vars PROVE NoLostChange'
<1> USE DEF cnVars, initVars, ctlVars, workVars, dniVars, retryVars
<1>0. InventoryTypeOK /\ TypeOK /\ RecordsAreReal /\ StageInv /\ WorkInv /\ JobInv /\ FreshInv /\ MemoryInv /\ DniInv /\ NoLostChange /\ StashInv /\ SeenInv
  BY DEF IInv, TypeOK
<1>1. ASSUME NEW v \in VM, NEW s \in Status, CnChange(v, s) PROVE NoLostChange'
  <2> SUFFICES ASSUME ready, stopped = "no", NEW w \in VM
               PROVE  (Reported(w) \/ Owed(w) \/ (Now(w) = "absent" /\ WasDni(w)))'
    BY <1>1 DEF CnChange, NoLostChange
  <2>0. Reported(w) \/ Owed(w) \/ (Now(w) = "absent" /\ WasDni(w))
    BY <1>0 DEF NoLostChange
  <2>1. watcher = "started" /\ events' = events \cup {v}
    BY <1>0, <1>1 DEF CnChange, StageInv
  <2>2. CASE w = v
    BY <2>1, <2>2 DEF Owed
  <2>3. CASE w # v
    <3>1. cn'[w] = cn[w]
      BY <1>0, <1>1, <2>3, HistoryGrows DEF CnChange
    <3>2. vmapi' = vmapi /\ queue' = queue /\ job' = job /\ timers' = timers
      BY <1>1 DEF CnChange
    <3>3. Owed(w) => Owed(w)'
      BY <2>1, <3>1, <3>2 DEF Owed
    <3>4. (Reported(w) => Reported(w)') /\ (Now(w) = "absent" /\ WasDni(w) => (Now(w) = "absent" /\ WasDni(w))')
      BY <3>1, <3>2 DEF Reported, Now, WasDni
    <3> QED  BY <2>0, <3>3, <3>4
  <2> QED  BY <2>2, <2>3
<1>2. ASSUME NEW v \in VM, NotifyTwice(v) PROVE NoLostChange'
  <2> SUFFICES ASSUME ready, stopped = "no", NEW w \in VM
               PROVE  (Reported(w) \/ Owed(w) \/ (Now(w) = "absent" /\ WasDni(w)))'
    BY <1>2 DEF NotifyTwice, NoLostChange
  <2>0. Reported(w) \/ Owed(w) \/ (Now(w) = "absent" /\ WasDni(w))
    BY <1>0 DEF NoLostChange
  <2>1. Owed(w) => Owed(w)'
    BY <1>2 DEF NotifyTwice, Owed
  <2> QED  BY <1>2, <2>0, <2>1, StillOwed DEF NotifyTwice
<1>3. ASSUME NEW v \in VM, OnVmEvent(v) PROVE NoLostChange'
  <2> SUFFICES ASSUME ready, stopped = "no", NEW w \in VM
               PROVE  (Reported(w) \/ Owed(w) \/ (Now(w) = "absent" /\ WasDni(w)))'
    BY <1>3 DEF OnVmEvent, NoLostChange
  <2>0. Reported(w) \/ Owed(w) \/ (Now(w) = "absent" /\ WasDni(w))
    BY <1>0 DEF NoLostChange
  <2>1. \/ job' = job /\ Range(queue') = Range(queue) \cup {v}
        \/ job.phase = "idle" /\ job'.vm = v /\ job'.phase = "loading" /\ queue = <<>>
    BY <1>0, <1>3, QueueVmLemma DEF OnVmEvent
  <2>2. Range(<<>>) = {}
    BY DEF Range
  <2>3. cn' = cn /\ vmapi' = vmapi /\ events' = events \ {v} /\ timers' = timers
    BY <1>3 DEF OnVmEvent
  <2>4. job.phase = "idle" => job.vm # w
    BY <1>0, NoVmAssumption DEF TypeOK
  <2>5. Owed(w) => Owed(w)'
    BY <2>1, <2>2, <2>3, <2>4 DEF Owed
  <2> QED  BY <2>0, <2>3, <2>5, StillOwed
<1>4. ASSUME NEW v \in VM, DelayedRetry(v) PROVE NoLostChange'
  <2> SUFFICES ASSUME ready, stopped = "no", NEW w \in VM
               PROVE  (Reported(w) \/ Owed(w) \/ (Now(w) = "absent" /\ WasDni(w)))'
    BY <1>4 DEF DelayedRetry, NoLostChange
  <2>0. Reported(w) \/ Owed(w) \/ (Now(w) = "absent" /\ WasDni(w))
    BY <1>0 DEF NoLostChange
  <2>1. \/ job' = job /\ Range(queue') = Range(queue) \cup {v}
        \/ job.phase = "idle" /\ job'.vm = v /\ job'.phase = "loading" /\ queue = <<>>
    BY <1>0, <1>4, QueueVmLemma DEF DelayedRetry
  <2>2. Range(<<>>) = {}
    BY DEF Range
  <2>3. cn' = cn /\ vmapi' = vmapi /\ events' = events /\ timers' = timers \ {v}
    BY <1>4 DEF DelayedRetry
  <2>4. job.phase = "idle" => job.vm # w
    BY <1>0, NoVmAssumption DEF TypeOK
  <2>5. Owed(w) => Owed(w)'
    BY <2>1, <2>2, <2>3, <2>4 DEF Owed
  <2> QED  BY <2>0, <2>3, <2>5, StillOwed
<1>5. ASSUME NEW v \in VM, PurgeDeletedDni(v) PROVE NoLostChange'
  <2> SUFFICES ASSUME ready, stopped = "no", NEW w \in VM
               PROVE  (Reported(w) \/ Owed(w) \/ (Now(w) = "absent" /\ WasDni(w)))'
    BY <1>5 DEF PurgeDeletedDni, NoLostChange
  <2>0. Reported(w) \/ Owed(w) \/ (Now(w) = "absent" /\ WasDni(w))
    BY <1>0 DEF NoLostChange
  <2>1. Owed(w) => Owed(w)'
    BY <1>5 DEF PurgeDeletedDni, Owed
  <2> QED  BY <1>5, <2>0, <2>1, StillOwed DEF PurgeDeletedDni
<1>6. CASE Start
  <2>1. ready' = FALSE
    BY <1>0, <1>6 DEF Start, StageInv, TypeOK
  <2> QED  BY <2>1 DEF NoLostChange
<1>7. CASE SetupWatcher
  <2>1. ready' = FALSE
    BY <1>0, <1>7 DEF SetupWatcher, StageInv, TypeOK
  <2> QED  BY <2>1 DEF NoLostChange
<1>8. CASE GetVmapiVms
  <2>1. ready' = FALSE
    BY <1>0, <1>8 DEF GetVmapiVms, StageInv, TypeOK
  <2> QED  BY <2>1 DEF NoLostChange
<1>9. CASE StartWatcher
  <2>1. ready' = FALSE
    BY <1>0, <1>9 DEF StartWatcher, StageInv, TypeOK
  <2> QED  BY <2>1 DEF NoLostChange
<1>10. CASE GetVmadmVms
  <2>1. ready' = FALSE
    BY <1>0, <1>10 DEF GetVmadmVms, StageInv, TypeOK
  <2> QED  BY <2>1 DEF NoLostChange
<1>11. CASE UpdateVmapiVms
  <2>1. ready' = FALSE
    BY <1>0, <1>11 DEF UpdateVmapiVms, StageInv, TypeOK
  <2> QED  BY <2>1 DEF NoLostChange
<1>12. CASE InitialUpdateComplete
  <2> SUFFICES ASSUME stopped = "no", NEW w \in VM PROVE (Reported(w) \/ Owed(w))'
    BY <1>12 DEF InitialUpdateComplete, NoLostChange
  <2>1. cn' = cn /\ vmapi' = vmapi /\ events' = events /\ Dispatch(dirtyVms) /\ dirtyVms \in Seq(VM)
    BY <1>0, <1>12 DEF InitialUpdateComplete, TypeOK
  <2>2. vmadmVms[w] = Len(cn[w]) \/ w \in events \cup Range(dirtyVms)
    BY <1>0, <1>12 DEF InitialUpdateComplete, StashInv
  <2>3. CASE w \in events
    BY <2>1, <2>3 DEF Owed
  <2>4. CASE w \in Range(dirtyVms)
    <3>1. w \in Range(queue') \/ (job'.vm = w /\ job'.phase = "loading")
      BY <2>1, <2>4, DispatchLemma
    <3> QED  BY <3>1 DEF Owed
  <2>5. CASE vmadmVms[w] = Len(cn[w])
    <3>1. IF Now(w) = "live" THEN vmapi[w] = Active(Len(cn[w])) ELSE vmapi[w].state # "active"
      BY <1>0, <1>12, <2>5 DEF InitialUpdateComplete, SeenInv, Now
    <3> QED  BY <2>1, <3>1 DEF Reported, Now
  <2> QED  BY <2>2, <2>3, <2>4, <2>5
<1>13. CASE InitialUpdateFailed
  <2>1. ready' = FALSE
    BY <1>0, <1>13 DEF InitialUpdateFailed, StageInv, TypeOK
  <2> QED  BY <2>1 DEF NoLostChange
<1>14. CASE RetryInitialUpdate
  <2>1. ready' = FALSE
    BY <1>0, <1>14 DEF RetryInitialUpdate, StageInv, TypeOK
  <2> QED  BY <2>1 DEF NoLostChange
<1>15. CASE SkipWhenNotReady
  BY <1>15 DEF SkipWhenNotReady, NoLostChange
<1>16. CASE LoadFails
  <2> SUFFICES ASSUME ready, stopped = "no", NEW w \in VM
               PROVE  (Reported(w) \/ Owed(w) \/ (Now(w) = "absent" /\ WasDni(w)))'
    BY <1>16 DEF LoadFails, NoLostChange
  <2>0. Reported(w) \/ Owed(w) \/ (Now(w) = "absent" /\ WasDni(w))
    BY <1>0 DEF NoLostChange
  <2>1. Dispatch(queue) /\ events' = events /\ cn' = cn /\ timers \ {job.vm} \subseteq timers'
    BY <1>16 DEF LoadFails, UpdateDone, UpdateFailed, retryVars
  <2>2. CASE w # job.vm
    BY <1>16, <2>0, <2>1, <2>2, <1>0, OwedAcrossEnd, StillOwed DEF LoadFails
  <2>3. CASE w = job.vm
    BY <1>16, <2>3 DEF LoadFails, UpdateFailed, retryVars, Owed
  <2> QED  BY <2>2, <2>3
<1>17. CASE LoadLive
  <2> SUFFICES ASSUME ready, stopped = "no", NEW w \in VM
               PROVE  (Reported(w) \/ Owed(w) \/ (Now(w) = "absent" /\ WasDni(w)))'
    BY <1>17 DEF LoadLive, NoLostChange, Loading
  <2>0. Reported(w) \/ Owed(w) \/ (Now(w) = "absent" /\ WasDni(w))
    BY <1>0 DEF NoLostChange
  <2>1. /\ cn' = cn /\ vmapi' = vmapi /\ events' = events /\ queue' = queue /\ timers' = timers
        /\ job'.vm = job.vm /\ job'.snap = Len(cn[job.vm])
    BY <1>17 DEF LoadLive, Loaded
  <2>2. Owed(w) => Owed(w)'
    BY <2>1 DEF Owed
  <2> QED  BY <2>0, <2>1, <2>2, StillOwed
<1>18. CASE LoadDni
  <2> SUFFICES ASSUME ready, stopped = "no", NEW w \in VM
               PROVE  (Reported(w) \/ Owed(w) \/ (Now(w) = "absent" /\ WasDni(w)))'
    BY <1>18 DEF LoadDni, NoLostChange
  <2>0. Reported(w) \/ Owed(w) \/ (Now(w) = "absent" /\ WasDni(w))
    BY <1>0 DEF NoLostChange
  <2>1. Dispatch(queue) /\ events' = events /\ cn' = cn /\ timers \ {job.vm} \subseteq timers'
    BY <1>18 DEF LoadDni, UpdateDone, UpdateFailed, retryVars
  <2>2. CASE w # job.vm
    BY <1>18, <2>0, <2>1, <2>2, <1>0, OwedAcrossEnd, StillOwed DEF LoadDni
  <2>3. CASE w = job.vm
    BY <1>18, <2>1, <2>3 DEF LoadDni, Reported, Now
  <2> QED  BY <2>2, <2>3
<1>19. CASE LoadGoneDni
  <2> SUFFICES ASSUME ready, stopped = "no", NEW w \in VM
               PROVE  (Reported(w) \/ Owed(w) \/ (Now(w) = "absent" /\ WasDni(w)))'
    BY <1>19 DEF LoadGoneDni, NoLostChange, Gone, Loading
  <2>0. Reported(w) \/ Owed(w) \/ (Now(w) = "absent" /\ WasDni(w))
    BY <1>0 DEF NoLostChange
  <2>1. Dispatch(queue) /\ events' = events /\ cn' = cn /\ timers \ {job.vm} \subseteq timers'
    BY <1>19 DEF LoadGoneDni, UpdateDone, UpdateFailed, retryVars, Gone
  <2>2. CASE w # job.vm
    BY <1>19, <2>0, <2>1, <2>2, <1>0, OwedAcrossEnd, StillOwed DEF LoadGoneDni, Gone
  <2>3. CASE w = job.vm
    <3>1. Now(w) = "absent" /\ WasDni(w)
      BY <1>0, <1>19, <2>3 DEF LoadGoneDni, Gone, DniInv
    <3> QED  BY <2>1, <3>1 DEF Now, WasDni
  <2> QED  BY <2>2, <2>3
<1>20. CASE LoadGone
  <2> SUFFICES ASSUME ready, stopped = "no", NEW w \in VM
               PROVE  (Reported(w) \/ Owed(w) \/ (Now(w) = "absent" /\ WasDni(w)))'
    BY <1>20 DEF LoadGone, NoLostChange, Gone, Loading
  <2>0. Reported(w) \/ Owed(w) \/ (Now(w) = "absent" /\ WasDni(w))
    BY <1>0 DEF NoLostChange
  <2>1. /\ cn' = cn /\ vmapi' = vmapi /\ events' = events /\ queue' = queue /\ timers' = timers
        /\ job'.vm = job.vm /\ job'.snap = Len(cn[job.vm])
    BY <1>20 DEF LoadGone, Loaded, Gone
  <2>2. Owed(w) => Owed(w)'
    BY <2>1 DEF Owed
  <2> QED  BY <2>0, <2>1, <2>2, StillOwed
<1>21. CASE LoadMissed
  <2> SUFFICES ASSUME ready, stopped = "no", NEW w \in VM
               PROVE  (Reported(w) \/ Owed(w) \/ (Now(w) = "absent" /\ WasDni(w)))'
    BY <1>21 DEF LoadMissed, NoLostChange, Gone, Loading
  <2>0. Reported(w) \/ Owed(w) \/ (Now(w) = "absent" /\ WasDni(w))
    BY <1>0 DEF NoLostChange
  <2>1. Dispatch(queue) /\ events' = events /\ cn' = cn /\ timers \ {job.vm} \subseteq timers'
    BY <1>21 DEF LoadMissed, UpdateDone, UpdateFailed, retryVars, Gone
  <2>2. CASE w # job.vm
    BY <1>21, <2>0, <2>1, <2>2, <1>0, OwedAcrossEnd, StillOwed DEF LoadMissed, Gone
  <2>3. CASE w = job.vm
    <3>1. Now(w) = "absent" /\ vmapi[w].state # "active" /\ vmapi' = vmapi
      BY <1>0, <1>21, <2>3 DEF LoadMissed, Gone, MemoryInv
    <3> QED  BY <2>1, <3>1 DEF Reported, Now
  <2> QED  BY <2>2, <2>3
<1>22. CASE PutVm
  <2> SUFFICES ASSUME ready, stopped = "no", NEW w \in VM
               PROVE  (Reported(w) \/ Owed(w) \/ (Now(w) = "absent" /\ WasDni(w)))'
    BY <1>22 DEF PutVm, NoLostChange
  <2>0. Reported(w) \/ Owed(w) \/ (Now(w) = "absent" /\ WasDni(w))
    BY <1>0 DEF NoLostChange
  <2>1. job'.vm = job.vm /\ job'.snap = job.snap /\ job.phase # "loading"
    BY <1>0, <1>22 DEF PutVm, TypeOK, Job
  <2>2. Owed(w) => Owed(w)'
    BY <1>22, <2>1 DEF PutVm, Owed
  <2> QED  BY <1>22, <2>0, <2>2, StillOwed DEF PutVm
<1>23. CASE OnVmUpdate
  <2> SUFFICES ASSUME ready, stopped = "no", NEW w \in VM
               PROVE  (Reported(w) \/ Owed(w) \/ (Now(w) = "absent" /\ WasDni(w)))'
    BY <1>23 DEF OnVmUpdate, NoLostChange
  <2>0. Reported(w) \/ Owed(w) \/ (Now(w) = "absent" /\ WasDni(w))
    BY <1>0 DEF NoLostChange
  <2>1. Dispatch(queue) /\ events' = events /\ cn' = cn /\ timers \ {job.vm} \subseteq timers'
    BY <1>23 DEF OnVmUpdate, UpdateDone, UpdateFailed, retryVars
  <2>2. job.vm \in VM /\ HasObject
    BY <1>0, <1>23 DEF OnVmUpdate, HasObject, TypeOK, Job
  <2>3. CASE w # job.vm
    <3>1. vmapi'[w] = vmapi[w]
      BY <1>0, <1>23, <2>3 DEF OnVmUpdate, InventoryTypeOK
    <3>2. Owed(w) => Owed(w)'
      BY <1>0, <2>1, <2>3, OwedAcrossEnd
    <3> QED  BY <2>0, <2>1, <3>1, <3>2, StillOwed
  <2>4. CASE w = job.vm /\ job.snap = Len(cn[w])
    <3>1. vmapi'[w] = job.obj
      BY <1>0, <1>23, <2>2, <2>4 DEF OnVmUpdate, InventoryTypeOK
    <3>2. IF Now(w) = "live" THEN job.obj = Active(Len(cn[w])) ELSE job.obj.state = "destroyed"
      BY <1>0, <2>2, <2>4 DEF JobInv, Now
    <3> QED  BY <2>1, <3>1, <3>2 DEF Reported, Now
  <2>5. CASE w = job.vm /\ w \in events \cup Range(queue)
    <3>1. queue \in Seq(VM)
      BY <1>0 DEF TypeOK
    <3>2. w \in Range(queue) => w \in Range(queue') \/ (job'.vm = w /\ job'.phase = "loading")
      BY <2>1, <3>1, DispatchLemma
    <3> QED  BY <2>1, <2>5, <3>2 DEF Owed
  <2> QED  BY <1>0, <2>2, <2>3, <2>4, <2>5 DEF FreshInv
<1>24. CASE OnVmUpdateFailed
  <2> SUFFICES ASSUME ready, stopped = "no", NEW w \in VM
               PROVE  (Reported(w) \/ Owed(w) \/ (Now(w) = "absent" /\ WasDni(w)))'
    BY <1>24 DEF OnVmUpdateFailed, NoLostChange
  <2>0. Reported(w) \/ Owed(w) \/ (Now(w) = "absent" /\ WasDni(w))
    BY <1>0 DEF NoLostChange
  <2>1. Dispatch(queue) /\ events' = events /\ cn' = cn /\ timers \ {job.vm} \subseteq timers'
    BY <1>24 DEF OnVmUpdateFailed, UpdateDone, UpdateFailed, retryVars
  <2>2. CASE w # job.vm
    <3>1. vmapi'[w] = vmapi[w]
      BY <1>0, <1>24, <2>2 DEF OnVmUpdateFailed, InventoryTypeOK
    <3>2. Owed(w) => Owed(w)'
      BY <1>0, <2>1, <2>2, OwedAcrossEnd
    <3> QED  BY <2>0, <2>1, <3>1, <3>2, StillOwed
  <2>3. CASE w = job.vm
    BY <1>24, <2>3 DEF OnVmUpdateFailed, UpdateFailed, retryVars, Owed
  <2> QED  BY <2>2, <2>3
<1>25. CASE Stop
  BY <1>25 DEF Stop, NoLostChange
<1>26. CASE Crash
  BY <1>26 DEF Crash, Die, NoLostChange
<1>27. CASE WatcherIsNull
  BY <1>27 DEF WatcherIsNull, Die, NoLostChange
<1>28. CASE UNCHANGED vars
  BY <1>0, <1>28 DEF vars, NoLostChange, Reported, Owed, Now, WasDni
<1> QED
  BY <1>1, <1>2, <1>3, <1>4, <1>5, <1>6, <1>7, <1>8, <1>9, <1>10, <1>11, <1>12, <1>13, <1>14,
     <1>15, <1>16, <1>17, <1>18, <1>19, <1>20, <1>21, <1>22, <1>23, <1>24,
     <1>25, <1>26, <1>27, <1>28
  DEF Next, CnStep, StartupStep, WorkerStep, TimerStep

-----------------------------------------------------------------------------
(***************************************************************************)
(* The theorems.                                                           *)
(***************************************************************************)
\* The invariant holds of a CN with any VMs and a process not started yet.
LEMMA InitIInv == ASSUME Init PROVE IInv
<1>1. InventoryTypeOK /\ RecordsAreReal
  BY InventoryInitLemma DEF Init
<1>2. 0 \in 0..MaxVer /\ 0 \in 0..MaxCrashes
  BY BoundAssumption, CrashAssumption
<1>3. TypeOK
  BY <1>1, <1>2, ObjTypes, DelayTypes, EmptySeq DEF Init, FreshProcess, TypeOK, NoJob
<1>4. StageInv /\ WorkInv /\ StashInv /\ PayloadInv /\ SeenInv
  BY DEF Init, FreshProcess, StageInv, WorkInv, StashInv, PayloadInv, SeenInv
<1>5. ~HasObject
  BY DEF Init, FreshProcess, HasObject, NoJob
<1>6. JobInv /\ FreshInv
  BY <1>5 DEF JobInv, FreshInv
<1>7. MemoryInv /\ DniInv /\ NoLostChange
  BY DEF Init, FreshProcess, MemoryInv, DniInv, NoLostChange
<1> QED  BY <1>1, <1>3, <1>4, <1>6, <1>7 DEF IInv

\* Every step of the agent, the CN and the watcher keeps it.
LEMMA IInvStep == ASSUME IInv, [Next]_vars PROVE IInv'
<1>1. InventoryTypeOK /\ RecordsAreReal
  BY DEF IInv, TypeOK
<1>2. RecordsAreReal'
  BY <1>1, InventoryStep, RecordsAreRealStep
<1>3. TypeOK' /\ StageInv' /\ WorkInv' /\ StashInv' /\ PayloadInv' /\ SeenInv'
  BY TypeOKStep, StageStep, WorkStep, StashStep, PayloadStep, SeenStep
<1>4. JobInv' /\ FreshInv' /\ MemoryInv' /\ DniInv' /\ NoLostChange'
  BY JobStep, FreshStep, MemoryStep, DniStep, NoLostStep
<1> QED  BY <1>2, <1>3, <1>4 DEF IInv

\* The inductive invariant holds in every state.
THEOREM Invariance == Spec => []IInv
<1>1. Init => IInv
  BY InitIInv
<1>2. IInv /\ [Next]_vars => IInv'
  BY IInvStep
<1> QED  BY <1>1, <1>2, PTL DEF Spec

\* Every variable keeps its type; in particular no delay outgrows
\* MAX_UPDATE_DELAY_MS and the worker holds a VM exactly while it is busy.
THEOREM TypeCorrect == Spec => []TypeOK
<1>1. IInv => TypeOK
  BY DEF IInv
<1> QED  BY <1>1, Invariance, PTL

\* Once startup is complete no change of any VM is lost, for every number of
\* VMs, any histories, any failures and any number of process deaths.
THEOREM NoChangeIsLost == Spec => []NoLostChange
<1>1. IInv => NoLostChange
  BY DEF IInv
<1> QED  BY <1>1, Invariance, PTL

\* The agent implements the abstract inventory: what it PUTs may be told, when
\* it PUTs it.
THEOREM Refinement == Spec => ImplementsInventory
<1>1. Init => InventoryInit
  BY DEF Init
<1>2. IInv /\ [Next]_vars => [InventoryNext]_inventoryVars
  BY InventoryStep
<1> QED  BY <1>1, <1>2, Invariance, PTL DEF Spec, ImplementsInventory, InventorySpec

\* So VMAPI's records are those of real states of the VMs, and only ever move
\* forward.
THEOREM AgentReportsTruth == Spec => []RecordsAreReal /\ RecordsMoveForward
<1>1. Spec => InventorySpec
  BY Refinement DEF ImplementsInventory
<1> QED  BY <1>1, InventoryReal, InventoryForward, PTL

-----------------------------------------------------------------------------
(***************************************************************************)
(* The back-off and stop().                                                *)
(***************************************************************************)
\* Before the agent is ready nothing was retried yet.
BackoffInv ==
    /\ BackoffMatchesRetry
    /\ ~ready /\ stopped # "running" => \A v \in VM : retryDelays[v] = 0

\* A VM whose retry is owed stays so when another VM joins the queue.
LEMMA BackoffAcrossQueueVm ==
    ASSUME TypeOK, WorkInv, BackoffMatchesRetry, ready, ready', NEW v \in VM, QueueVm(v),
           retryDelays' = retryDelays, timers' = timers \/ timers' = timers \ {v}
    PROVE  BackoffMatchesRetry'
<1>1. v \in Range(queue') \/ job'.vm = v
  BY QueueVmLemma
<1>2. \A w \in VM : w \in Range(queue) \/ job.vm = w => w \in Range(queue') \/ job'.vm = w
  <2>1. CASE job' = job /\ Range(queue') = Range(queue) \cup {v}
    BY <2>1
  <2>2. CASE job.phase = "idle" /\ queue = <<>>
    <3>1. Range(queue) = {} /\ job.vm = NoVm
      BY <2>2 DEF Range, TypeOK
    <3> QED  BY <3>1, NoVmAssumption
  <2> QED  BY <2>1, <2>2, QueueVmLemma
<1> QED  BY <1>1, <1>2 DEF BackoffMatchesRetry

\* The end of an update clears the back-off of its VM, or arms its timer.
LEMMA BackoffAcrossEnd ==
    ASSUME TypeOK, BackoffMatchesRetry, ready, ready', job.phase # "idle",
           UpdateDone \/ UpdateFailed
    PROVE  BackoffMatchesRetry'
<1>1. job.vm \in VM /\ queue \in Seq(VM)
  BY DEF TypeOK, Job
<1>2. Dispatch(queue)
  BY DEF UpdateDone, UpdateFailed
<1>3. \A w \in Range(queue) : w \in Range(queue') \/ job'.vm = w
  BY <1>1, <1>2, DispatchLemma
<1> DEFINE D == INITIAL_UPDATE_DELAY_MS..MAX_UPDATE_DELAY_MS
<1>4. \A w \in VM : retryDelays[w] \in {0} \cup D
  BY DEF TypeOK
<1>5. retryDelays \in [VM -> {0} \cup D]
  BY DEF TypeOK
<1>6. 0 \notin D
  BY DelayAssumption
<1>7. CASE UpdateDone
  <2>1. /\ retryDelays'[job.vm] = 0
        /\ \A w \in VM \ {job.vm} : retryDelays'[w] = retryDelays[w]
    BY <1>1, <1>5, <1>7 DEF UpdateDone
  <2>2. /\ job.vm \notin timers'
        /\ \A w \in VM \ {job.vm} : w \in timers' <=> w \in timers
    BY <1>1, <1>7 DEF UpdateDone, BackoffMatchesRetry
  <2> HIDE DEF D
  <2> QED  BY <1>3, <2>1, <2>2 DEF BackoffMatchesRetry
<1>8. CASE UpdateFailed /\ job.vm \in timers
  <2>1. UNCHANGED retryVars
    BY <1>8 DEF UpdateFailed
  <2> QED  BY <1>3, <1>8, <2>1 DEF BackoffMatchesRetry, retryVars
<1>9. CASE UpdateFailed /\ job.vm \notin timers
  <2> DEFINE d == IF retryDelays[job.vm] = 0 THEN INITIAL_UPDATE_DELAY_MS
                                             ELSE retryDelays[job.vm]
  <2>1. Doubled(d) \in D
    BY <1>1, <1>4, DelayTypes
  <2>2. Doubled(d) > 0
    BY <2>1, DelayAssumption
  <2> HIDE DEF d, D
  <2>3. /\ retryDelays' = [retryDelays EXCEPT ![job.vm] = Doubled(d)]
        /\ timers' = timers \cup {job.vm}
    BY <1>9 DEF UpdateFailed, d
  <2>4. /\ retryDelays'[job.vm] > 0
        /\ \A w \in VM \ {job.vm} : retryDelays'[w] = retryDelays[w]
    BY <1>1, <1>5, <2>2, <2>3
  <2> QED  BY <1>3, <2>3, <2>4 DEF BackoffMatchesRetry
<1> QED  BY <1>7, <1>8, <1>9

\* Every step keeps the back-off and the retries that are owed together.
LEMMA BackoffStep == ASSUME IInv, BackoffInv, [Next]_vars PROVE BackoffInv'
<1> USE DEF cnVars, initVars, ctlVars, workVars, dniVars, retryVars
<1>0. TypeOK /\ StageInv /\ WorkInv /\ JobInv
  BY DEF IInv
<1>1. ASSUME UNCHANGED <<ready, stopped, retryDelays, timers, queue>>, job'.vm = job.vm
      PROVE  BackoffInv'
  BY <1>1 DEF BackoffInv, BackoffMatchesRetry
<1>2. ASSUME NEW v \in VM, NEW s \in Status, CnChange(v, s) PROVE BackoffInv'
  BY <1>1, <1>2 DEF CnChange
<1>3. ASSUME NEW v \in VM, NotifyTwice(v) PROVE BackoffInv'
  BY <1>1, <1>3 DEF NotifyTwice
<1>4. ASSUME NEW v \in VM, OnVmEvent(v) PROVE BackoffInv'
  <2>1. CASE ready
    BY <1>0, <1>4, <2>1, BackoffAcrossQueueVm DEF OnVmEvent, BackoffInv
  <2>2. CASE ~ready
    BY <1>1, <1>4, <2>2 DEF OnVmEvent
  <2> QED  BY <2>1, <2>2
<1>5. CASE Start \/ SetupWatcher \/ GetVmapiVms \/ StartWatcher \/ GetVmadmVms
           \/ UpdateVmapiVms \/ InitialUpdateFailed \/ RetryInitialUpdate
  BY <1>1, <1>5 DEF Start, SetupWatcher, GetVmapiVms, StartWatcher, GetVmadmVms,
                    UpdateVmapiVms, InitialUpdateFailed, RetryInitialUpdate
<1>6. CASE InitialUpdateComplete
  <2>1. ~ready /\ stopped # "running"
    BY <1>0, <1>6 DEF InitialUpdateComplete, StageInv
  <2>2. timers' = {} /\ \A v \in VM : retryDelays'[v] = 0
    BY <1>0, <1>6, <2>1 DEF InitialUpdateComplete, WorkInv, BackoffInv
  <2>3. ready'
    BY <1>6 DEF InitialUpdateComplete
  <2> QED  BY <2>2, <2>3 DEF BackoffInv, BackoffMatchesRetry
<1>7. CASE SkipWhenNotReady
  <2>1. job.phase # "idle" /\ ~ready /\ UNCHANGED <<ready, stopped>>
    BY <1>7 DEF SkipWhenNotReady
  <2>2. stopped = "running"
    BY <1>0, <2>1 DEF WorkInv, NoJob
  <2> QED  BY <2>1, <2>2 DEF BackoffInv, BackoffMatchesRetry
<1>8. CASE LoadFails \/ LoadDni \/ LoadGoneDni \/ LoadMissed
  <2>1. job.phase # "idle" /\ ready /\ UNCHANGED <<ready, stopped>>
    BY <1>8 DEF LoadFails, LoadDni, LoadGoneDni, LoadMissed, Gone, Loading
  <2>2. UpdateDone \/ UpdateFailed
    BY <1>8 DEF LoadFails, LoadDni, LoadGoneDni, LoadMissed
  <2>3. BackoffMatchesRetry'
    BY <1>0, <2>1, <2>2, BackoffAcrossEnd DEF BackoffInv
  <2> QED  BY <2>1, <2>3 DEF BackoffInv
<1>9. CASE LoadLive \/ LoadGone \/ PutVm
  <2>1. job'.vm = job.vm
    BY <1>0, <1>9 DEF LoadLive, LoadGone, PutVm, Loaded, TypeOK, Job
  <2> QED  BY <1>1, <1>9, <2>1 DEF LoadLive, LoadGone, PutVm
<1>10. CASE OnVmUpdate \/ OnVmUpdateFailed
  <2>1. job.phase # "idle" /\ UNCHANGED <<ready, stopped>>
    BY <1>10 DEF OnVmUpdate, OnVmUpdateFailed
  <2>2. CASE ready
    <3>1. UpdateDone \/ UpdateFailed
      BY <1>10, <2>2 DEF OnVmUpdate, OnVmUpdateFailed
    <3>2. BackoffMatchesRetry'
      BY <1>0, <2>1, <2>2, <3>1, BackoffAcrossEnd DEF BackoffInv
    <3> QED  BY <2>1, <2>2, <3>2 DEF BackoffInv
  <2>3. CASE ~ready
    <3>1. stopped = "running"
      BY <1>0, <2>1, <2>3 DEF WorkInv, NoJob
    <3> QED  BY <2>1, <2>3, <3>1 DEF BackoffInv, BackoffMatchesRetry
  <2> QED  BY <2>2, <2>3
<1>11. ASSUME NEW v \in VM, DelayedRetry(v) PROVE BackoffInv'
  <2>1. CASE ready
    BY <1>0, <1>11, <2>1, BackoffAcrossQueueVm DEF DelayedRetry, BackoffInv
  <2>2. CASE ~ready
    BY <1>11, <2>2 DEF DelayedRetry, BackoffInv, BackoffMatchesRetry
  <2> QED  BY <2>1, <2>2
<1>12. ASSUME NEW v \in VM, PurgeDeletedDni(v) PROVE BackoffInv'
  BY <1>1, <1>12 DEF PurgeDeletedDni
<1>13. CASE Stop \/ Crash \/ WatcherIsNull
  <2>1. ~ready' /\ \A v \in VM : retryDelays'[v] = 0
    BY <1>13 DEF Stop, Crash, WatcherIsNull, Die
  <2> QED  BY <2>1 DEF BackoffInv, BackoffMatchesRetry
<1>14. CASE UNCHANGED vars
  BY <1>1, <1>14 DEF vars
<1> QED
  BY <1>2, <1>3, <1>4, <1>5, <1>6, <1>7, <1>8, <1>9, <1>10, <1>11, <1>12, <1>13, <1>14
  DEF Next, CnStep, StartupStep, WorkerStep, TimerStep

\* A VM has a back-off delay exactly while a retry of it is owed.
THEOREM BackoffIsOwed == Spec => []BackoffMatchesRetry
<1>1. Init => BackoffInv
  BY DEF Init, FreshProcess, BackoffInv, BackoffMatchesRetry
<1>2. IInv /\ BackoffInv /\ [Next]_vars => BackoffInv'
  BY BackoffStep
<1>3. BackoffInv => BackoffMatchesRetry
  BY DEF BackoffInv
<1> QED  BY <1>1, <1>2, <1>3, Invariance, PTL DEF Spec

\* A running agent that was stopped starts no PUT any more.
LEMMA QuietStep ==
    ASSUME IInv, [Next]_vars, stopped = "running", job'.phase = "putting"
    PROVE  job.phase = "putting"
<1> USE DEF cnVars, initVars, ctlVars, workVars, dniVars, retryVars
<1>0. TypeOK /\ ~ready /\ pc = "done" /\ queue \in Seq(VM)
  BY DEF IInv, StageInv, TypeOK
<1>1. \A q \in Seq(VM) : Dispatch(q) => job'.phase # "putting"
  BY DispatchLemma
<1>2. \A v \in VM : QueueVm(v) => job' = job \/ job'.phase # "putting"
  BY <1>0, <1>1, RangeAppend DEF QueueVm
<1>3. CASE CnStep
  BY <1>3 DEF CnStep, CnChange, NotifyTwice
<1>4. CASE StartupStep
  BY <1>0, <1>4 DEF StartupStep, Start, SetupWatcher, GetVmapiVms, StartWatcher, GetVmadmVms,
       UpdateVmapiVms, InitialUpdateComplete, InitialUpdateFailed, RetryInitialUpdate
<1>5. CASE WorkerStep
  <2>1. SkipWhenNotReady \/ OnVmUpdate \/ OnVmUpdateFailed
    BY <1>0, <1>5 DEF WorkerStep, LoadFails, LoadLive, LoadDni, LoadGoneDni, LoadGone,
                      LoadMissed, Gone, Loading, PutVm
  <2>2. Dispatch(queue)
    BY <2>1 DEF SkipWhenNotReady, OnVmUpdate, OnVmUpdateFailed, UpdateDone, UpdateFailed
  <2> QED  BY <1>0, <1>1, <2>2
<1>6. CASE TimerStep
  <2>1. PICK v \in VM : OnVmEvent(v) \/ DelayedRetry(v) \/ PurgeDeletedDni(v)
    BY <1>6 DEF TimerStep
  <2> QED  BY <1>2, <2>1 DEF OnVmEvent, DelayedRetry, PurgeDeletedDni
<1>7. CASE Stop
  BY <1>7 DEF Stop
<1>8. CASE Crash \/ WatcherIsNull
  BY <1>8 DEF Crash, WatcherIsNull, Die, NoJob
<1>9. CASE UNCHANGED vars
  BY <1>9 DEF vars
<1> QED  BY <1>3, <1>4, <1>5, <1>6, <1>7, <1>8, <1>9 DEF Next

\* stop() on a running agent ends its work.
THEOREM StoppedIsQuiet == Spec => QuietAfterStop
<1>1. IInv /\ [Next]_vars
        => [stopped = "running" /\ job'.phase = "putting" => job.phase = "putting"]_vars
  BY QuietStep
<1> QED  BY <1>1, Invariance, PTL DEF Spec, QuietAfterStop
=============================================================================
