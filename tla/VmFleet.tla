------------------------------- MODULE VmFleet -------------------------------
(***************************************************************************)
(* The VM fleet of service/vm_service.go: the instances of the cloud, the  *)
(* rows of vm_instances that record them (dao/vm_instance.go), and the     *)
(* goroutines that change both: the HTTP handlers that create, delete and  *)
(* refresh VMs, the two-phase replacement (ReplaceProxyResourceV2), and    *)
(* the cron jobs CleanupOldVMs and CleanupPendingDeleteVMs.                *)
(*                                                                         *)
(* The code uses no transaction and no lock around a row: every gcloud     *)
(* command and every SQL statement is a step of its own, may fail, and may *)
(* be interleaved with those of any other goroutine.                       *)
(*                                                                         *)
(* SyncVMsWithGCP is not here: it compares the numeric id of an instance   *)
(* with the prefix of a name, so it never inserts a row, and the code that *)
(* deleted rows is commented out.  It changes nothing.                     *)
(***************************************************************************)
EXTENDS Integers, FiniteSets

CONSTANTS
    VMs,        \* names of the VMs that exist or may be created
    IPs,        \* external addresses the cloud gives out
    Initial,    \* the VMs running, with their rows, at the start
    Legacy,     \* the VMs whose proxy_type column is "server"
    Num,        \* param.Num of a replacement: how many VMs it creates
    Callers,    \* who calls DeleteVM: "handler", "cron", "replacement"
    Operated,   \* the VMs that operators may create and delete one by one
    Refreshed,  \* the VMs whose address may change and is refreshed
    CleanOld,   \* whether CLEAN_OLD_VM_EXIST_EXCEED_H is set
    None

ASSUME FleetAssumption ==
    /\ Initial \subseteq VMs
    /\ Operated \subseteq VMs
    /\ Refreshed \subseteq VMs
    /\ Num \in Nat
    /\ CleanOld \in BOOLEAN
    /\ None \notin VMs \cup IPs \cup {"pending"}
    /\ "pending" \notin IPs

(***************************************************************************)
(* ExternalIP and the host of Proxy: an address, or the word the code      *)
(* stores when three attempts have not found one.                          *)
(***************************************************************************)
Addresses == IPs \cup {"pending"}

RowStatus == {"none", "Running", "PendingDelete", "Deleted"}

CreatePc  == {"idle", "requested", "booting", "saving", "done", "failed"}
DeletePc  == {"idle", "asked", "commanded"}
RefreshPc == {"idle", "read", "saving"}
V2Pc      == {"idle", "marking", "marked", "creating"}

(***************************************************************************)
(* The two values of param.ProxyType that a replacement accepts.  CreateVM *)
(* stores "httpProxyServer" for both.                                      *)
(***************************************************************************)
ProxyTypes == {"server", "httpProxyServer"}

TypeOf(v) == IF v \in Legacy THEN "server" ELSE "httpProxyServer"

VARIABLES
    cloud,       \* per VM, its instance: absent, running or deleted
    address,     \* per VM, the external address of its instance, or None
    status,      \* per VM, the status of its row, "none" if it has no row
    externalIP,  \* per VM, external_ip of its row
    proxy,       \* per VM, the host of the proxy CreateVM built for it
    before,      \* per VM, the VMs whose rows have a smaller id
    expired,     \* VMs whose row was last updated more than an hour ago
    aged,        \* VMs whose row was created before CleanupOldVMs' cutoff
    creating,    \* per VM, where its CreateVM is
    del,         \* per caller and VM, where its DeleteVM is
    oldQueue,    \* what CleanupOldVMs still has to delete; empty: not running
    sweeping,    \* the VM CleanupOldVMs has deleted but not yet marked
    refresh,     \* per refreshed VM, its RefreshVMIP with the row it has read
    v2pc,        \* where ReplaceProxyResourceV2 is
    marking,     \* the VMs it has found and will mark PendingDelete
    batch2,      \* the VMs it creates
    cmdFailed,   \* VMs whose delete command failed inside DeleteVM
    unmarked     \* VMs whose row was not told of their deletion: the update failed,
                 \* or the answer of CleanupOldVMs' command was lost

cloudVars  == <<cloud, address>>
rowVars    == <<status, externalIP, before, expired, aged>>
createVars == <<creating, proxy>>
sweepVars  == <<oldQueue, sweeping>>
v2Vars     == <<v2pc, marking, batch2>>
faultVars  == <<cmdFailed, unmarked>>
fleetVars  == <<cloudVars, rowVars, createVars, del, sweepVars, refresh,
                v2Vars, faultVars>>

Rows == {v \in VMs : status[v] # "none"}

RefreshIdle == [pc |-> "idle", seen |-> "none", ip |-> None]

FreeIPs == IPs \ {address[v] : v \in VMs}

-----------------------------------------------------------------------------
FleetInit ==
    /\ cloud = [v \in VMs |-> IF v \in Initial THEN "running" ELSE "absent"]
    /\ address \in [VMs -> IPs \cup {None}]
    /\ \A v \in VMs : address[v] = None <=> v \notin Initial
    /\ \A u, v \in Initial : address[u] = address[v] => u = v
    /\ status = [v \in VMs |-> IF v \in Initial THEN "Running" ELSE "none"]
    /\ externalIP = address
    /\ proxy = address
    /\ before = [v \in VMs |-> {}]
    /\ expired = {}
    /\ aged = {}
    /\ creating = [v \in VMs |-> IF v \in Initial THEN "done" ELSE "idle"]
    /\ del = [c \in Callers |-> [v \in VMs |-> "idle"]]
    /\ oldQueue = {}
    /\ sweeping = None
    /\ refresh = [v \in Refreshed |-> RefreshIdle]
    /\ v2pc = "idle"
    /\ marking = {}
    /\ batch2 = {}
    /\ cmdFailed = {}
    /\ unmarked = {}

-----------------------------------------------------------------------------
(***************************************************************************)
(* CreateVM.  A name carries a time stamp and is used once.                *)
(***************************************************************************)
RequestVM(v) ==
    /\ creating[v] = "idle"
    /\ creating' = [creating EXCEPT ![v] = "requested"]
    /\ UNCHANGED <<cloudVars, rowVars, proxy, del, sweepVars, refresh, v2Vars, faultVars>>

CreateFails(v) ==
    /\ creating[v] = "requested"
    /\ creating' = [creating EXCEPT ![v] = "failed"]
    /\ UNCHANGED <<cloudVars, rowVars, proxy, del, sweepVars, refresh, v2Vars, faultVars>>

CreateInstance(v) ==
    /\ creating[v] = "requested"
    /\ \E a \in FreeIPs : address' = [address EXCEPT ![v] = a]
    /\ cloud' = [cloud EXCEPT ![v] = "running"]
    /\ creating' = [creating EXCEPT ![v] = "booting"]
    /\ UNCHANGED <<rowVars, proxy, del, sweepVars, refresh, v2Vars, faultVars>>

(***************************************************************************)
(* getVMExternalIP, tried three times; the proxy is built from the result. *)
(***************************************************************************)
FindIP(v) ==
    /\ creating[v] = "booting"
    /\ \E a \in {address[v], "pending"} : proxy' = [proxy EXCEPT ![v] = a]
    /\ creating' = [creating EXCEPT ![v] = "saving"]
    /\ UNCHANGED <<cloudVars, rowVars, del, sweepVars, refresh, v2Vars, faultVars>>

SaveRow(v) ==
    /\ creating[v] = "saving"
    /\ status' = [status EXCEPT ![v] = "Running"]
    /\ externalIP' = [externalIP EXCEPT ![v] = proxy[v]]
    /\ before' = [before EXCEPT ![v] = Rows]
    /\ creating' = [creating EXCEPT ![v] = "done"]
    /\ UNCHANGED <<cloudVars, expired, aged, proxy, del, sweepVars, refresh, v2Vars, faultVars>>

(***************************************************************************)
(* A failed insert is only logged: the result says success, and nothing in *)
(* the database names the instance.                                        *)
(***************************************************************************)
SaveRowFails(v) ==
    /\ creating[v] = "saving"
    /\ creating' = [creating EXCEPT ![v] = "done"]
    /\ UNCHANGED <<cloudVars, rowVars, proxy, del, sweepVars, refresh, v2Vars, faultVars>>

-----------------------------------------------------------------------------
(***************************************************************************)
(* gcloud compute instances delete; a VM that is gone is "not found".      *)
(***************************************************************************)
InstanceGone(v) ==
    /\ cloud' = [cloud EXCEPT ![v] = IF @ = "running" THEN "deleted" ELSE @]
    /\ address' = [address EXCEPT ![v] = None]

(***************************************************************************)
(* UpdateStatus, by vm_id and whatever the row says by now.                *)
(***************************************************************************)
UpdateStatus(v, s) ==
    /\ status' = [status EXCEPT ![v] = s]
    /\ expired' = expired \ {v}
    /\ UNCHANGED <<externalIP, before, aged>>

(***************************************************************************)
(* DeleteVM, for the HTTP handlers (BatchDeleteVM runs one goroutine for   *)
(* each VM of its list) and for the cron job.  A VM without a row is       *)
(* refused.  Bound: a caller has one DeleteVM of a VM under way.           *)
(***************************************************************************)
HandlerDeletes(v) ==
    /\ "handler" \in Callers
    /\ del["handler"][v] = "idle"
    /\ v \in Rows
    /\ del' = [del EXCEPT !["handler"][v] = "asked"]
    /\ UNCHANGED <<cloudVars, rowVars, createVars, sweepVars, refresh, v2Vars, faultVars>>

(***************************************************************************)
(* CleanupPendingDeleteVMs: one DeleteVM for each VM marked PendingDelete  *)
(* more than VMPendingDeleteRetentionHours ago.                            *)
(***************************************************************************)
\* Faulty variant for PendingGetsDeleted: the comparison is the wrong way round.
PendingTooYoung == {v \in VMs \ expired : status[v] = "PendingDelete"}

PendingDue == {v \in expired : status[v] = "PendingDelete"}

CleanupPendingDeleteVMs ==
    /\ "cron" \in Callers
    /\ \A v \in VMs : del["cron"][v] = "idle"
    /\ PendingDue # {}
    /\ del' = [del EXCEPT !["cron"] =
                  [v \in VMs |-> IF v \in PendingDue THEN "asked" ELSE del["cron"][v]]]
    /\ UNCHANGED <<cloudVars, rowVars, createVars, sweepVars, refresh, v2Vars, faultVars>>

\* The query for the row fails: an error is returned ...
FindRowFails(c, v) ==
    /\ del[c][v] = "asked"
    /\ del' = [del EXCEPT ![c][v] = "idle"]
    /\ UNCHANGED <<cloudVars, rowVars, createVars, sweepVars, refresh, v2Vars, faultVars>>

\* ... or the command runs, and its failure is logged and otherwise ignored ...
DeleteInstance(c, v) ==
    /\ del[c][v] = "asked"
    /\ InstanceGone(v)
    /\ del' = [del EXCEPT ![c][v] = "commanded"]
    /\ UNCHANGED <<rowVars, createVars, sweepVars, refresh, v2Vars, faultVars>>

DeleteInstanceFails(c, v) ==
    /\ del[c][v] = "asked"
    /\ cloud[v] = "running"
    /\ cmdFailed' = cmdFailed \cup {v}
    /\ del' = [del EXCEPT ![c][v] = "commanded"]
    /\ UNCHANGED <<cloudVars, rowVars, createVars, sweepVars, refresh, v2Vars, unmarked>>

\* ... and the row becomes Deleted.
MarkDeleted(c, v) ==
    /\ del[c][v] = "commanded"
    /\ UpdateStatus(v, "Deleted")
    /\ del' = [del EXCEPT ![c][v] = "idle"]
    /\ UNCHANGED <<cloudVars, createVars, sweepVars, refresh, v2Vars, faultVars>>

MarkDeletedFails(c, v) ==
    /\ del[c][v] = "commanded"
    /\ unmarked' = unmarked \cup {v}
    /\ del' = [del EXCEPT ![c][v] = "idle"]
    /\ UNCHANGED <<cloudVars, rowVars, createVars, sweepVars, refresh, v2Vars, cmdFailed>>

-----------------------------------------------------------------------------
(***************************************************************************)
(* CleanupOldVMs: cleanupRunning admits one execution; it goes through the *)
(* rows it has read one by one.  A failed command, be it only the one that *)
(* activates the service account, leaves the row alone; the instance may   *)
(* be gone all the same, and the next round then finds that out.           *)
(***************************************************************************)
StartSweep ==
    /\ CleanOld
    /\ oldQueue = {}
    /\ oldQueue' = {v \in aged : status[v] # "Deleted"}
    /\ oldQueue' # {}
    /\ UNCHANGED <<cloudVars, rowVars, createVars, del, sweeping, refresh, v2Vars, faultVars>>

SweepDelete(v) ==
    /\ v \in oldQueue
    /\ sweeping = None
    /\ InstanceGone(v)
    /\ sweeping' = v
    /\ UNCHANGED <<rowVars, createVars, del, oldQueue, refresh, v2Vars, faultVars>>

\* Faulty variant for NoLeak: after a failed command the row is marked too.
SweepDeleteFailsMarking(v) ==
    /\ v \in oldQueue
    /\ sweeping = None
    /\ cloud[v] = "running"
    /\ sweeping' = v
    /\ UNCHANGED <<cloudVars, rowVars, createVars, del, oldQueue, refresh, v2Vars, faultVars>>

SweepDeleteFails(v) ==
    /\ v \in oldQueue
    /\ sweeping = None
    /\ \/ UNCHANGED <<cloudVars, unmarked>>
       \/ InstanceGone(v) /\ unmarked' = unmarked \cup {v}
    /\ oldQueue' = oldQueue \ {v}
    /\ UNCHANGED <<rowVars, createVars, del, sweeping, refresh, v2Vars, cmdFailed>>

SweepMark(v) ==
    /\ sweeping = v
    /\ UpdateStatus(v, "Deleted")
    /\ oldQueue' = oldQueue \ {v}
    /\ sweeping' = None
    /\ UNCHANGED <<cloudVars, createVars, del, refresh, v2Vars, faultVars>>

SweepMarkFails(v) ==
    /\ sweeping = v
    /\ unmarked' = unmarked \cup {v}
    /\ oldQueue' = oldQueue \ {v}
    /\ sweeping' = None
    /\ UNCHANGED <<cloudVars, rowVars, createVars, del, refresh, v2Vars, cmdFailed>>

-----------------------------------------------------------------------------
(***************************************************************************)
(* RefreshVMIP: read the row, ask the cloud, and if the address is another *)
(* Save the whole row as it was read.                                      *)
(***************************************************************************)
RefreshRead(v) ==
    /\ refresh[v].pc = "idle"
    /\ v \in Rows
    /\ refresh' = [refresh EXCEPT ![v] = [pc |-> "read", seen |-> status[v], ip |-> None]]
    /\ UNCHANGED <<cloudVars, rowVars, createVars, del, sweepVars, v2Vars, faultVars>>

\* No change, no answer from the cloud, or no instance.
RefreshNothing(v) ==
    /\ refresh[v].pc = "read"
    /\ refresh' = [refresh EXCEPT ![v] = RefreshIdle]
    /\ UNCHANGED <<cloudVars, rowVars, createVars, del, sweepVars, v2Vars, faultVars>>

\* Faulty variant for TypeOK: an empty answer is taken for an address.
RefreshFindEmpty(v) ==
    /\ refresh[v].pc = "read"
    /\ address[v] # externalIP[v]
    /\ refresh' = [refresh EXCEPT ![v] = [pc |-> "saving", seen |-> @.seen, ip |-> address[v]]]
    /\ UNCHANGED <<cloudVars, rowVars, createVars, del, sweepVars, v2Vars, faultVars>>

RefreshFind(v) ==
    /\ refresh[v].pc = "read"
    /\ cloud[v] = "running"
    /\ address[v] # externalIP[v]
    /\ refresh' = [refresh EXCEPT ![v] = [pc |-> "saving", seen |-> @.seen, ip |-> address[v]]]
    /\ UNCHANGED <<cloudVars, rowVars, createVars, del, sweepVars, v2Vars, faultVars>>

RefreshSave(v) ==
    /\ refresh[v].pc = "saving"
    /\ status' = [status EXCEPT ![v] = refresh[v].seen]
    /\ externalIP' = [externalIP EXCEPT ![v] = refresh[v].ip]
    /\ expired' = expired \ {v}
    /\ refresh' = [refresh EXCEPT ![v] = RefreshIdle]
    /\ UNCHANGED <<cloudVars, before, aged, createVars, del, sweepVars, v2Vars, faultVars>>

RefreshSaveFails(v) ==
    /\ refresh[v].pc = "saving"
    /\ refresh' = [refresh EXCEPT ![v] = RefreshIdle]
    /\ UNCHANGED <<cloudVars, rowVars, createVars, del, sweepVars, v2Vars, faultVars>>

(***************************************************************************)
(* The cloud gives a running instance another address (a stop and start    *)
(* outside this program): what RefreshVMIP is for.  Bound: once for each.  *)
(***************************************************************************)
Readdress(v) ==
    /\ cloud[v] = "running"
    /\ creating[v] = "done"
    /\ address[v] = proxy[v]
    /\ \E a \in FreeIPs : address' = [address EXCEPT ![v] = a]
    /\ UNCHANGED <<cloud, rowVars, createVars, del, sweepVars, refresh, v2Vars, faultVars>>

-----------------------------------------------------------------------------
(***************************************************************************)
(* ReplaceProxyResourceV2: find up to Num rows that are Running and of the *)
(* type in the request, as it is spelt there, and of its zone and machine  *)
(* type, which any rows may have; mark them; create Num VMs.  A Num of 0   *)
(* limits nothing.                                                         *)
(***************************************************************************)
V2Find ==
    /\ v2pc = "idle"
    /\ \E type \in ProxyTypes :
         \E S \in SUBSET {v \in Rows : status[v] = "Running" /\ TypeOf(v) = type} :
            /\ Num > 0 => Cardinality(S) <= Num
            /\ marking' = S
    /\ v2pc' = IF marking' = {} THEN "marked" ELSE "marking"
    /\ UNCHANGED <<cloudVars, rowVars, createVars, del, sweepVars, refresh, batch2, faultVars>>

V2Mark ==
    /\ v2pc = "marking"
    /\ status' = [v \in VMs |-> IF v \in marking THEN "PendingDelete" ELSE status[v]]
    /\ expired' = expired \ marking
    /\ marking' = {}
    /\ v2pc' = "marked"
    /\ UNCHANGED <<cloudVars, externalIP, before, aged, createVars, del, sweepVars,
                   refresh, batch2, faultVars>>

\* Faulty variant for NoZombie: an error sets the rows back to Running.
V2MarkFailsRestoring ==
    /\ v2pc = "marking"
    /\ status' = [v \in VMs |-> IF v \in marking THEN "Running" ELSE status[v]]
    /\ marking' = {}
    /\ v2pc' = "idle"
    /\ UNCHANGED <<cloudVars, externalIP, before, expired, aged, createVars, del, sweepVars,
                   refresh, batch2, faultVars>>

V2MarkFails ==
    /\ v2pc = "marking"
    /\ marking' = {}
    /\ v2pc' = "idle"
    /\ UNCHANGED <<cloudVars, rowVars, createVars, del, sweepVars, refresh, batch2, faultVars>>

(***************************************************************************)
(* BatchCreateVM refuses a prefix that is in use or a Num of 0 (what was   *)
(* marked stays marked), or starts a CreateVM for each of Num new VMs and  *)
(* waits.                                                                  *)
(***************************************************************************)
V2Refused ==
    /\ v2pc = "marked"
    /\ v2pc' = "idle"
    /\ UNCHANGED <<cloudVars, rowVars, createVars, del, sweepVars, refresh,
                   marking, batch2, faultVars>>

NewBatch(N) ==
    /\ Num > 0
    /\ N \subseteq {v \in VMs : creating[v] = "idle"}
    /\ Cardinality(N) = Num
    /\ creating' = [v \in VMs |-> IF v \in N THEN "requested" ELSE creating[v]]

V2Create ==
    /\ v2pc = "marked"
    /\ \E N \in SUBSET VMs : NewBatch(N) /\ batch2' = N
    /\ v2pc' = "creating"
    /\ UNCHANGED <<cloudVars, rowVars, proxy, del, sweepVars, refresh, marking, faultVars>>

Created(N) == \A v \in N : creating[v] \in {"done", "failed"}

V2Done ==
    /\ v2pc = "creating"
    /\ Created(batch2)
    /\ v2pc' = "idle"
    /\ batch2' = {}
    /\ UNCHANGED <<cloudVars, rowVars, createVars, del, sweepVars, refresh, marking, faultVars>>

(***************************************************************************)
(* Time: what was written is now more than an hour old.  Only the cron     *)
(* jobs ever look.                                                         *)
(***************************************************************************)
HourPasses ==
    /\ "cron" \in Callers \/ CleanOld
    /\ expired # Rows \/ aged # Rows
    /\ expired' = Rows
    /\ aged' = Rows
    /\ UNCHANGED <<cloudVars, status, externalIP, before, createVars, del, sweepVars,
                   refresh, v2Vars, faultVars>>
-----------------------------------------------------------------------------
CreateVM(v) == CreateFails(v) \/ CreateInstance(v) \/ FindIP(v) \/ SaveRow(v) \/ SaveRowFails(v)

DeleteVM(c, v) ==
    \/ FindRowFails(c, v)
    \/ DeleteInstance(c, v) \/ DeleteInstanceFails(c, v)
    \/ MarkDeleted(c, v) \/ MarkDeletedFails(c, v)

CleanupOldVMs ==
    \/ StartSweep
    \/ \E v \in VMs : \/ SweepDelete(v) \/ SweepDeleteFails(v)
                      \/ SweepMark(v) \/ SweepMarkFails(v)

RefreshVMIP(v) ==
    \/ RefreshRead(v) \/ RefreshNothing(v) \/ RefreshFind(v)
    \/ RefreshSave(v) \/ RefreshSaveFails(v)

V2Begin == V2Find \/ V2Mark \/ V2MarkFails \/ V2Refused \/ V2Create

FleetRequests ==
    \/ \E v \in Operated : RequestVM(v) \/ HandlerDeletes(v)
    \/ \E v \in VMs : CreateVM(v)
    \/ \E c \in Callers, v \in VMs : DeleteVM(c, v)
    \/ CleanupPendingDeleteVMs
    \/ CleanupOldVMs
    \/ \E v \in Refreshed : RefreshVMIP(v) \/ Readdress(v)
    \/ HourPasses

FleetNext == FleetRequests \/ V2Begin \/ V2Done

FleetSpec == FleetInit /\ [][FleetNext]_fleetVars

(***************************************************************************)
(* The cron job runs every hour, and each goroutine it starts ends.  The   *)
(* database may refuse a statement, but does not refuse it for ever.       *)
(***************************************************************************)
FairFleetSpec ==
    /\ FleetSpec
    /\ WF_fleetVars(HourPasses)
    /\ WF_fleetVars(CleanupPendingDeleteVMs)
    /\ \A v \in VMs : /\ WF_fleetVars(DeleteVM("cron", v))
                      /\ SF_fleetVars(DeleteInstance("cron", v) \/ DeleteInstanceFails("cron", v))
                      /\ SF_fleetVars(MarkDeleted("cron", v))

-----------------------------------------------------------------------------
(***************************************************************************)
(* Every variable has its type, and a row has an address or "pending".     *)
(***************************************************************************)
FleetTypeOK ==
    /\ cloud \in [VMs -> {"absent", "running", "deleted"}]
    /\ address \in [VMs -> IPs \cup {None}]
    /\ status \in [VMs -> RowStatus]
    /\ externalIP \in [VMs -> Addresses \cup {None}]
    /\ \A v \in Rows : externalIP[v] \in Addresses
    /\ proxy \in [VMs -> Addresses \cup {None}]
    /\ before \in [VMs -> SUBSET VMs]
    /\ expired \subseteq Rows
    /\ aged \subseteq Rows
    /\ creating \in [VMs -> CreatePc]
    /\ del \in [Callers -> [VMs -> DeletePc]]
    /\ oldQueue \subseteq VMs
    /\ sweeping \in oldQueue \cup {None}
    /\ refresh \in [Refreshed -> [pc : RefreshPc, seen : RowStatus, ip : IPs \cup {None}]]
    /\ v2pc \in V2Pc
    /\ marking \subseteq VMs
    /\ batch2 \subseteq VMs
    /\ cmdFailed \subseteq VMs
    /\ unmarked \subseteq VMs

(***************************************************************************)
(* No goroutine writes off an instance that still runs, whatever row it    *)
(* has read before: a row is Deleted while its instance runs only if a     *)
(* delete command failed, an error DeleteVM ignores.                       *)
(***************************************************************************)
NoLeak == \A v \in VMs : status[v] = "Deleted" /\ cloud[v] = "running" => v \in cmdFailed

(***************************************************************************)
(* The row of a VM that nobody refreshes does not say Running after its    *)
(* instance is gone: it is Deleted, or PendingDelete and due to be (a V2   *)
(* replacement may mark a row after another goroutine has deleted it), or  *)
(* about to be marked, unless the row was not told: the database refused   *)
(* the update, or the answer to CleanupOldVMs' command was lost.           *)
(***************************************************************************)
BeingMarked(v) == sweeping = v \/ \E c \in Callers : del[c][v] = "commanded"

NoZombie ==
    \A v \in VMs \ Refreshed : cloud[v] = "deleted" /\ v \notin unmarked =>
        status[v] \in {"Deleted", "PendingDelete"} \/ BeingMarked(v)

(***************************************************************************)
(* docs/replace_proxy_resource_v2_api.md, "the cron job really deletes the *)
(* VMs marked PendingDelete, after an hour": the row of a marked VM will   *)
(* be Deleted with the instance gone.  One exception is no accident of the *)
(* model: DeleteVM marks the row also when its command has failed, and     *)
(* then nobody comes back for the instance.                                *)
(***************************************************************************)
PendingGetsDeleted ==
    \A v \in VMs :
        status[v] = "PendingDelete" ~>
            status[v] = "Deleted" /\ (cloud[v] = "deleted" \/ v \in cmdFailed)
=============================================================================
