----------------------------- MODULE Inventory -----------------------------
(***************************************************************************)
(* What vm-agent promises: VMAPI's records follow the history of the VMs   *)
(* of one compute node (CN).  The agent may lag arbitrarily far behind,    *)
(* skip intermediate states and say the same thing twice, but a record     *)
(* only ever moves forward along the history of its VM and a VM is only    *)
(* written off when it really left the inventory.  How the agent learns    *)
(* about changes, batches and retries is the business of VmAgent, which    *)
(* implements this module.                                                 *)
(***************************************************************************)
EXTENDS Naturals, Sequences

CONSTANTS
    VM,          \* the VM uuids of this CN
    MaxVer,      \* bound: states in the history of one VM
    MayFlagDni   \* may an operator set do_not_inventory?

ASSUME BoundAssumption == MaxVer \in Nat \ {0}
ASSUME DniAssumption == MayFlagDni \in BOOLEAN

VARIABLES
    cn,      \* cn[v]: every state VM v has been in, the last one is current
    vmapi    \* vmapi[v]: the record VMAPI keeps for v

inventoryVars == <<cn, vmapi>>

\* The states of a VM that the agent tells apart: not on the CN, on the CN, on
\* the CN with do_not_inventory set.  Everything else about a VM object (its
\* state, tags, metadata, boot_timestamp...) is its version, the position in cn[v].
Status == {"absent", "live"} \cup (IF MayFlagDni THEN {"dni"} ELSE {})

\* A VMAPI record: which version of the VM it shows, and whether VMAPI counts
\* it as active or destroyed.  Version 0 is content older than the model's start.
Obj == [ver : 0..MaxVer, state : {"none", "active", "destroyed"}]
NoObj == [ver |-> 0, state |-> "none"]
Active(k) == [ver |-> k, state |-> "active"]
Destroyed(o) == [o EXCEPT !.state = "destroyed"]

InventoryInit ==
    /\ cn \in [VM -> {<<s>> : s \in Status}]
    /\ vmapi \in [VM -> {NoObj, Active(0), Destroyed(Active(0))}]

\* VM v changes on the CN: created, modified, deleted, flagged or un-flagged.
ChangeOnCn(v, s) ==
    /\ Len(cn[v]) < MaxVer
    /\ s = "absent" => cn[v][Len(cn[v])] # "absent"
    /\ cn' = [cn EXCEPT ![v] = Append(@, s)]

Change(v, s) == ChangeOnCn(v, s) /\ UNCHANGED vmapi

LiveAt(v, k) == k \in DOMAIN cn[v] /\ cn[v][k] = "live"
LeftAfter(v, k) == \E i \in DOMAIN cn[v] : i > k /\ cn[v][i] # "live"

\* What VMAPI may be told of v: what it knows already, a live version it has
\* not had, or that the last version known left (was deleted, or hidden).
MayBecome(v, o) ==
    \/ o = vmapi[v]
    \/ o.state = "active" /\ o.ver > vmapi[v].ver /\ LiveAt(v, o.ver)
    \/ /\ o.state = "destroyed"
       /\ o.ver >= vmapi[v].ver
       /\ \/ LiveAt(v, o.ver)
          \/ vmapi[v].state = "active" /\ o = Destroyed(vmapi[v])
       /\ LeftAfter(v, o.ver)

\* One PUT: of one VM, or of the whole server at startup.
Report ==
    /\ vmapi' \in [VM -> Obj]
    /\ \A v \in VM : MayBecome(v, vmapi'[v])
    /\ UNCHANGED cn

InventoryNext == (\E v \in VM, s \in Status : Change(v, s)) \/ Report

InventorySpec == InventoryInit /\ [][InventoryNext]_inventoryVars

-----------------------------------------------------------------------------
InventoryTypeOK ==
    /\ cn \in [VM -> Seq(Status)]
    /\ \A v \in VM : Len(cn[v]) \in 1..MaxVer
    /\ vmapi \in [VM -> Obj]

\* VMAPI never shows what was not: a record is of a version in which the VM was
\* there and not hidden, and it says destroyed only of a VM that left since
\* (vm-agent.js:90-97 and 110-113).  Records older than the start are version 0.
RecordsAreReal ==
    \A v \in VM :
        /\ vmapi[v].ver > 0 => LiveAt(v, vmapi[v].ver) /\ vmapi[v].state # "none"
        /\ vmapi[v].ver > 0 /\ vmapi[v].state = "destroyed" => LeftAfter(v, vmapi[v].ver)

\* VMAPI never goes back: no record is replaced by an older one, and a VM that
\* was written off comes back only as a newer one (vm-agent.js:82-83: "we only
\* want to sent fresh data to VMAPI").
RecordsMoveForward ==
    [][\A v \in VM :
        /\ vmapi'[v].ver >= vmapi[v].ver
        /\ vmapi[v].state = "destroyed" /\ vmapi'[v].state = "active"
              => vmapi'[v].ver > vmapi[v].ver
        /\ vmapi'[v].state = "none" => vmapi[v].state = "none"]_inventoryVars
=============================================================================
