---------------------------- MODULE VmFleetProofs ----------------------------
(***************************************************************************)
(* What holds of the VM fleet for any number of VMs, addresses, callers    *)
(* and refreshes.                                                          *)
(***************************************************************************)
EXTENDS VmFleet, TLAPS

(***************************************************************************)
(* The inductive invariant.                                                *)
(***************************************************************************)

\* An instance has an address while it runs; a row has had its instance, and
\* an instance is deleted only through its row.
Instances ==
    \A v \in VMs :
        /\ cloud[v] = "running" <=> address[v] # None
        /\ creating[v] \in {"idle", "requested", "failed"} => cloud[v] = "absent"
        /\ creating[v] \in {"booting", "saving"} => cloud[v] = "running"
        /\ creating[v] \in {"saving", "done"} => proxy[v] \in Addresses
        /\ status[v] # "none" => creating[v] = "done" /\ cloud[v] # "absent"
        /\ cloud[v] = "deleted" => status[v] # "none"

\* Everybody who works on a VM has found its row.
Workers ==
    /\ \A c \in Callers, v \in VMs : del[c][v] # "idle" => status[v] # "none"
    /\ \A v \in oldQueue \cup marking : status[v] # "none"
    /\ \A v \in Refreshed : refresh[v].pc # "idle" =>
           status[v] # "none" /\ refresh[v].seen # "none"
    /\ \A v \in Refreshed : refresh[v].pc = "saving" => refresh[v].ip \in IPs

\* Whoever is about to write Deleted knows that the instance is gone, or that
\* its delete command failed.
WrittenOff(v) == cloud[v] = "running" => v \in cmdFailed

Commanded ==
    /\ \A c \in Callers, v \in VMs : del[c][v] = "commanded" => WrittenOff(v)
    /\ \A v \in VMs : sweeping = v => WrittenOff(v)
    /\ \A v \in Refreshed : refresh[v].pc # "idle" /\ refresh[v].seen = "Deleted" => WrittenOff(v)

FleetInv == FleetTypeOK /\ Instances /\ Workers /\ Commanded /\ NoLeak /\ NoZombie

-----------------------------------------------------------------------------
\* The invariant holds initially.
LEMMA InitFleet == FleetInit => FleetInv
<1> SUFFICES ASSUME FleetInit PROVE FleetInv
  OBVIOUS
<1> USE FleetAssumption DEF FleetInit, Rows
<1>1. FleetTypeOK
  BY DEF FleetTypeOK, RowStatus, CreatePc, DeletePc, RefreshPc, V2Pc, Addresses, RefreshIdle
<1>2. Instances
  BY DEF Instances, Addresses
<1>3. Workers /\ Commanded
  BY DEF Workers, Commanded, RefreshIdle
<1>4. NoLeak /\ NoZombie
  BY DEF NoLeak, NoZombie
<1> QED
  BY <1>1, <1>2, <1>3, <1>4 DEF FleetInv

(***************************************************************************)
(* Every action preserves the invariant.                                   *)
(***************************************************************************)

\* A creation begins on a name that was never used.
LEMMA RequestStep ==
    ASSUME FleetInv, NEW v \in VMs, RequestVM(v)
    PROVE  FleetInv'
<1> USE FleetAssumption DEF FleetInv, FleetTypeOK, Rows, cloudVars, rowVars, createVars, sweepVars, v2Vars, faultVars
<1>1. FleetTypeOK'
  BY DEF RequestVM, RowStatus, CreatePc, DeletePc, RefreshPc, V2Pc, Addresses, Instances, Workers
<1>2. Instances'
  BY DEF RequestVM, Instances, Workers, Addresses
<1>3. Workers'
  BY DEF RequestVM, Workers
<1>4. Commanded'
  BY DEF RequestVM, Commanded, WrittenOff, Workers, Instances
<1>5. NoLeak'
  BY DEF RequestVM, NoLeak, Commanded, WrittenOff, Instances
<1>6. NoZombie'
  BY DEF RequestVM, NoZombie, BeingMarked, Workers, Instances
<1> QED
  BY <1>1, <1>2, <1>3, <1>4, <1>5, <1>6 DEF FleetInv

\* The command fails.
LEMMA CreateFailsStep ==
    ASSUME FleetInv, NEW v \in VMs, CreateFails(v)
    PROVE  FleetInv'
<1> USE FleetAssumption DEF FleetInv, FleetTypeOK, Rows, cloudVars, rowVars, createVars, sweepVars, v2Vars, faultVars
<1>1. FleetTypeOK'
  BY DEF CreateFails, RowStatus, CreatePc, DeletePc, RefreshPc, V2Pc, Addresses, Instances, Workers
<1>2. Instances'
  BY DEF CreateFails, Instances, Workers, Addresses
<1>3. Workers'
  BY DEF CreateFails, Workers
<1>4. Commanded'
  BY DEF CreateFails, Commanded, WrittenOff, Workers, Instances
<1>5. NoLeak'
  BY DEF CreateFails, NoLeak, Commanded, WrittenOff, Instances
<1>6. NoZombie'
  BY DEF CreateFails, NoZombie, BeingMarked, Workers, Instances
<1> QED
  BY <1>1, <1>2, <1>3, <1>4, <1>5, <1>6 DEF FleetInv

\* The instance starts, with an address.
LEMMA CreateInstanceStep ==
    ASSUME FleetInv, NEW v \in VMs, CreateInstance(v)
    PROVE  FleetInv'
<1> USE FleetAssumption DEF FleetInv, FleetTypeOK, Rows, cloudVars, rowVars, createVars, sweepVars, v2Vars, faultVars
<1>1. FleetTypeOK'
  BY DEF CreateInstance, FreeIPs, RowStatus, CreatePc, DeletePc, RefreshPc, V2Pc, Addresses, Instances, Workers
<1>2. Instances'
  BY DEF CreateInstance, FreeIPs, Instances, Workers, Addresses
<1>3. Workers'
  BY DEF CreateInstance, FreeIPs, Workers
<1>4. Commanded'
  BY DEF CreateInstance, FreeIPs, Commanded, WrittenOff, Workers, Instances
<1>5. NoLeak'
  BY DEF CreateInstance, FreeIPs, NoLeak, Commanded, WrittenOff, Instances
<1>6. NoZombie'
  BY DEF CreateInstance, FreeIPs, NoZombie, BeingMarked, Workers, Instances
<1> QED
  BY <1>1, <1>2, <1>3, <1>4, <1>5, <1>6 DEF FleetInv

\* The address is found, or given up.
LEMMA FindIPStep ==
    ASSUME FleetInv, NEW v \in VMs, FindIP(v)
    PROVE  FleetInv'
<1> USE FleetAssumption DEF FleetInv, FleetTypeOK, Rows, cloudVars, rowVars, createVars, sweepVars, v2Vars, faultVars
<1>1. FleetTypeOK'
  BY DEF FindIP, RowStatus, CreatePc, DeletePc, RefreshPc, V2Pc, Addresses, Instances, Workers
<1>2. Instances'
  BY DEF FindIP, Instances, Workers, Addresses
<1>3. Workers'
  BY DEF FindIP, Workers
<1>4. Commanded'
  BY DEF FindIP, Commanded, WrittenOff, Workers, Instances
<1>5. NoLeak'
  BY DEF FindIP, NoLeak, Commanded, WrittenOff, Instances
<1>6. NoZombie'
  BY DEF FindIP, NoZombie, BeingMarked, Workers, Instances
<1> QED
  BY <1>1, <1>2, <1>3, <1>4, <1>5, <1>6 DEF FleetInv

\* The row is inserted.
LEMMA SaveRowStep ==
    ASSUME FleetInv, NEW v \in VMs, SaveRow(v)
    PROVE  FleetInv'
<1> USE FleetAssumption DEF FleetInv, FleetTypeOK, Rows, cloudVars, rowVars, createVars, sweepVars, v2Vars, faultVars
<1>1. FleetTypeOK'
  BY DEF SaveRow, RowStatus, CreatePc, DeletePc, RefreshPc, V2Pc, Addresses, Instances, Workers
<1>2. Instances'
  BY DEF SaveRow, Instances, Workers, Addresses
<1>3. Workers'
  BY DEF SaveRow, Workers
<1>4. Commanded'
  BY DEF SaveRow, Commanded, WrittenOff, Workers, Instances
<1>5. NoLeak'
  BY DEF SaveRow, NoLeak, Commanded, WrittenOff, Instances
<1>6. NoZombie'
  BY DEF SaveRow, NoZombie, BeingMarked, Workers, Instances
<1> QED
  BY <1>1, <1>2, <1>3, <1>4, <1>5, <1>6 DEF FleetInv

\* The row is not inserted.
LEMMA SaveRowFailsStep ==
    ASSUME FleetInv, NEW v \in VMs, SaveRowFails(v)
    PROVE  FleetInv'
<1> USE FleetAssumption DEF FleetInv, FleetTypeOK, Rows, cloudVars, rowVars, createVars, sweepVars, v2Vars, faultVars
<1>1. FleetTypeOK'
  BY DEF SaveRowFails, RowStatus, CreatePc, DeletePc, RefreshPc, V2Pc, Addresses, Instances, Workers
<1>2. Instances'
  BY DEF SaveRowFails, Instances, Workers, Addresses
<1>3. Workers'
  BY DEF SaveRowFails, Workers
<1>4. Commanded'
  BY DEF SaveRowFails, Commanded, WrittenOff, Workers, Instances
<1>5. NoLeak'
  BY DEF SaveRowFails, NoLeak, Commanded, WrittenOff, Instances
<1>6. NoZombie'
  BY DEF SaveRowFails, NoZombie, BeingMarked, Workers, Instances
<1> QED
  BY <1>1, <1>2, <1>3, <1>4, <1>5, <1>6 DEF FleetInv

\* A handler begins a deletion.
LEMMA HandlerStep ==
    ASSUME FleetInv, NEW v \in VMs, HandlerDeletes(v)
    PROVE  FleetInv'
<1> USE FleetAssumption DEF FleetInv, FleetTypeOK, Rows, cloudVars, rowVars, createVars, sweepVars, v2Vars, faultVars
<1>1. FleetTypeOK'
  BY DEF HandlerDeletes, RowStatus, CreatePc, DeletePc, RefreshPc, V2Pc, Addresses, Instances, Workers
<1>2. Instances'
  BY DEF HandlerDeletes, Instances, Workers, Addresses
<1>3. Workers'
  BY DEF HandlerDeletes, Workers
<1>4. Commanded'
  BY DEF HandlerDeletes, Commanded, WrittenOff, Workers, Instances
<1>5. NoLeak'
  BY DEF HandlerDeletes, NoLeak, Commanded, WrittenOff, Instances
<1>6. NoZombie'
  BY DEF HandlerDeletes, NoZombie, BeingMarked, Workers, Instances
<1> QED
  BY <1>1, <1>2, <1>3, <1>4, <1>5, <1>6 DEF FleetInv

\* The cron job begins its deletions.
LEMMA CleanupStep ==
    ASSUME FleetInv, CleanupPendingDeleteVMs
    PROVE  FleetInv'
<1> USE FleetAssumption DEF FleetInv, FleetTypeOK, Rows, cloudVars, rowVars, createVars, sweepVars, v2Vars, faultVars
<1>1. FleetTypeOK'
  BY DEF CleanupPendingDeleteVMs, PendingDue, RowStatus, CreatePc, DeletePc, RefreshPc, V2Pc, Addresses, Instances, Workers
<1>2. Instances'
  BY DEF CleanupPendingDeleteVMs, PendingDue, Instances, Workers, Addresses
<1>3. Workers'
  BY DEF CleanupPendingDeleteVMs, PendingDue, Workers
<1>4. Commanded'
  BY DEF CleanupPendingDeleteVMs, PendingDue, Commanded, WrittenOff, Workers, Instances
<1>5. NoLeak'
  BY DEF CleanupPendingDeleteVMs, PendingDue, NoLeak, Commanded, WrittenOff, Instances
<1>6. NoZombie'
  BY DEF CleanupPendingDeleteVMs, PendingDue, NoZombie, BeingMarked, Workers, Instances
<1> QED
  BY <1>1, <1>2, <1>3, <1>4, <1>5, <1>6 DEF FleetInv

\* A deletion gives up before its command.
LEMMA FindRowFailsStep ==
    ASSUME FleetInv, NEW c \in Callers, NEW v \in VMs, FindRowFails(c, v)
    PROVE  FleetInv'
<1> USE FleetAssumption DEF FleetInv, FleetTypeOK, Rows, cloudVars, rowVars, createVars, sweepVars, v2Vars, faultVars
<1>1. FleetTypeOK'
  BY DEF FindRowFails, RowStatus, CreatePc, DeletePc, RefreshPc, V2Pc, Addresses, Instances, Workers
<1>2. Instances'
  BY DEF FindRowFails, Instances, Workers, Addresses
<1>3. Workers'
  BY DEF FindRowFails, Workers
<1>4. Commanded'
  BY DEF FindRowFails, Commanded, WrittenOff, Workers, Instances
<1>5. NoLeak'
  BY DEF FindRowFails, NoLeak, Commanded, WrittenOff, Instances
<1>6. NoZombie'
  BY DEF FindRowFails, NoZombie, BeingMarked, Workers, Instances
<1> QED
  BY <1>1, <1>2, <1>3, <1>4, <1>5, <1>6 DEF FleetInv

\* The delete command succeeds, or finds no instance.
LEMMA DeleteInstanceStep ==
    ASSUME FleetInv, NEW c \in Callers, NEW v \in VMs, DeleteInstance(c, v)
    PROVE  FleetInv'
<1> USE FleetAssumption DEF FleetInv, FleetTypeOK, Rows, cloudVars, rowVars, createVars, sweepVars, v2Vars, faultVars
<1>1. FleetTypeOK'
  BY DEF DeleteInstance, InstanceGone, RowStatus, CreatePc, DeletePc, RefreshPc, V2Pc, Addresses, Instances, Workers
<1>2. Instances'
  BY DEF DeleteInstance, InstanceGone, Instances, Workers, Addresses
<1>3. Workers'
  BY DEF DeleteInstance, InstanceGone, Workers
<1>4. Commanded'
  BY DEF DeleteInstance, InstanceGone, Commanded, WrittenOff, Workers, Instances
<1>5. NoLeak'
  BY DEF DeleteInstance, InstanceGone, NoLeak, Commanded, WrittenOff, Instances
<1>6. NoZombie'
  BY DEF DeleteInstance, InstanceGone, NoZombie, BeingMarked, Workers, Instances
<1> QED
  BY <1>1, <1>2, <1>3, <1>4, <1>5, <1>6 DEF FleetInv

\* The delete command fails.
LEMMA DeleteInstanceFailsStep ==
    ASSUME FleetInv, NEW c \in Callers, NEW v \in VMs, DeleteInstanceFails(c, v)
    PROVE  FleetInv'
<1> USE FleetAssumption DEF FleetInv, FleetTypeOK, Rows, cloudVars, rowVars, createVars, sweepVars, v2Vars, faultVars
<1>1. FleetTypeOK'
  BY DEF DeleteInstanceFails, RowStatus, CreatePc, DeletePc, RefreshPc, V2Pc, Addresses, Instances, Workers
<1>2. Instances'
  BY DEF DeleteInstanceFails, Instances, Workers, Addresses
<1>3. Workers'
  BY DEF DeleteInstanceFails, Workers
<1>4. Commanded'
  BY DEF DeleteInstanceFails, Commanded, WrittenOff, Workers, Instances
<1>5. NoLeak'
  BY DEF DeleteInstanceFails, NoLeak, Commanded, WrittenOff, Instances
<1>6. NoZombie'
  BY DEF DeleteInstanceFails, NoZombie, BeingMarked, Workers, Instances
<1> QED
  BY <1>1, <1>2, <1>3, <1>4, <1>5, <1>6 DEF FleetInv

\* The row becomes Deleted.
LEMMA MarkDeletedStep ==
    ASSUME FleetInv, NEW c \in Callers, NEW v \in VMs, MarkDeleted(c, v)
    PROVE  FleetInv'
<1> USE FleetAssumption DEF FleetInv, FleetTypeOK, Rows, cloudVars, rowVars, createVars, sweepVars, v2Vars, faultVars
<1>1. FleetTypeOK'
  BY DEF MarkDeleted, UpdateStatus, RowStatus, CreatePc, DeletePc, RefreshPc, V2Pc, Addresses, Instances, Workers
<1>2. Instances'
  BY DEF MarkDeleted, UpdateStatus, Instances, Workers, Addresses
<1>3. Workers'
  BY DEF MarkDeleted, UpdateStatus, Workers
<1>4. Commanded'
  BY DEF MarkDeleted, UpdateStatus, Commanded, WrittenOff, Workers, Instances
<1>5. NoLeak'
  BY DEF MarkDeleted, UpdateStatus, NoLeak, Commanded, WrittenOff, Instances
<1>6. NoZombie'
  BY DEF MarkDeleted, UpdateStatus, NoZombie, BeingMarked, Workers, Instances
<1> QED
  BY <1>1, <1>2, <1>3, <1>4, <1>5, <1>6 DEF FleetInv

\* The database refuses.
LEMMA MarkDeletedFailsStep ==
    ASSUME FleetInv, NEW c \in Callers, NEW v \in VMs, MarkDeletedFails(c, v)
    PROVE  FleetInv'
<1> USE FleetAssumption DEF FleetInv, FleetTypeOK, Rows, cloudVars, rowVars, createVars, sweepVars, v2Vars, faultVars
<1>1. FleetTypeOK'
  BY DEF MarkDeletedFails, RowStatus, CreatePc, DeletePc, RefreshPc, V2Pc, Addresses, Instances, Workers
<1>2. Instances'
  BY DEF MarkDeletedFails, Instances, Workers, Addresses
<1>3. Workers'
  BY DEF MarkDeletedFails, Workers
<1>4. Commanded'
  BY DEF MarkDeletedFails, Commanded, WrittenOff, Workers, Instances
<1>5. NoLeak'
  BY DEF MarkDeletedFails, NoLeak, Commanded, WrittenOff, Instances
<1>6. NoZombie'
  BY DEF MarkDeletedFails, NoZombie, BeingMarked, Workers, Instances
<1> QED
  BY <1>1, <1>2, <1>3, <1>4, <1>5, <1>6 DEF FleetInv

\* CleanupOldVMs reads its list.
LEMMA StartSweepStep ==
    ASSUME FleetInv, StartSweep
    PROVE  FleetInv'
<1> USE FleetAssumption DEF FleetInv, FleetTypeOK, Rows, cloudVars, rowVars, createVars, sweepVars, v2Vars, faultVars
<1>1. FleetTypeOK'
  BY DEF StartSweep, RowStatus, CreatePc, DeletePc, RefreshPc, V2Pc, Addresses, Instances, Workers
<1>2. Instances'
  BY DEF StartSweep, Instances, Workers, Addresses
<1>3. Workers'
  BY DEF StartSweep, Workers
<1>4. Commanded'
  BY DEF StartSweep, Commanded, WrittenOff, Workers, Instances
<1>5. NoLeak'
  BY DEF StartSweep, NoLeak, Commanded, WrittenOff, Instances
<1>6. NoZombie'
  BY DEF StartSweep, NoZombie, BeingMarked, Workers, Instances
<1> QED
  BY <1>1, <1>2, <1>3, <1>4, <1>5, <1>6 DEF FleetInv

\* CleanupOldVMs deletes an instance.
LEMMA SweepDeleteStep ==
    ASSUME FleetInv, NEW v \in VMs, SweepDelete(v)
    PROVE  FleetInv'
<1> USE FleetAssumption DEF FleetInv, FleetTypeOK, Rows, cloudVars, rowVars, createVars, sweepVars, v2Vars, faultVars
<1>1. FleetTypeOK'
  BY DEF SweepDelete, InstanceGone, RowStatus, CreatePc, DeletePc, RefreshPc, V2Pc, Addresses, Instances, Workers
<1>2. Instances'
  BY DEF SweepDelete, InstanceGone, Instances, Workers, Addresses
<1>3. Workers'
  BY DEF SweepDelete, InstanceGone, Workers
<1>4. Commanded'
  BY DEF SweepDelete, InstanceGone, Commanded, WrittenOff, Workers, Instances
<1>5. NoLeak'
  BY DEF SweepDelete, InstanceGone, NoLeak, Commanded, WrittenOff, Instances
<1>6. NoZombie'
  BY DEF SweepDelete, InstanceGone, NoZombie, BeingMarked, Workers, Instances
<1> QED
  BY <1>1, <1>2, <1>3, <1>4, <1>5, <1>6 DEF FleetInv

\* Its command fails, or its answer is lost: the row is left alone.
LEMMA SweepDeleteFailsStep ==
    ASSUME FleetInv, NEW v \in VMs, SweepDeleteFails(v)
    PROVE  FleetInv'
<1> USE FleetAssumption DEF FleetInv, FleetTypeOK, Rows, cloudVars, rowVars, createVars, sweepVars, v2Vars, faultVars
<1>1. FleetTypeOK'
  BY DEF SweepDeleteFails, InstanceGone, RowStatus, CreatePc, DeletePc, RefreshPc, V2Pc, Addresses, Instances, Workers
<1>2. Instances'
  BY DEF SweepDeleteFails, InstanceGone, Instances, Workers, Addresses
<1>3. Workers'
  BY DEF SweepDeleteFails, InstanceGone, Workers
<1>4. Commanded'
  BY DEF SweepDeleteFails, InstanceGone, Commanded, WrittenOff, Workers, Instances
<1>5. NoLeak'
  BY DEF SweepDeleteFails, InstanceGone, NoLeak, Commanded, WrittenOff, Instances
<1>6. NoZombie'
  BY DEF SweepDeleteFails, InstanceGone, NoZombie, BeingMarked, Workers, Instances
<1> QED
  BY <1>1, <1>2, <1>3, <1>4, <1>5, <1>6 DEF FleetInv

\* CleanupOldVMs marks the row.
LEMMA SweepMarkStep ==
    ASSUME FleetInv, NEW v \in VMs, SweepMark(v)
    PROVE  FleetInv'
<1> USE FleetAssumption DEF FleetInv, FleetTypeOK, Rows, cloudVars, rowVars, createVars, sweepVars, v2Vars, faultVars
<1>1. FleetTypeOK'
  BY DEF SweepMark, UpdateStatus, RowStatus, CreatePc, DeletePc, RefreshPc, V2Pc, Addresses, Instances, Workers
<1>2. Instances'
  BY DEF SweepMark, UpdateStatus, Instances, Workers, Addresses
<1>3. Workers'
  BY DEF SweepMark, UpdateStatus, Workers
<1>4. Commanded'
  BY DEF SweepMark, UpdateStatus, Commanded, WrittenOff, Workers, Instances
<1>5. NoLeak'
  BY DEF SweepMark, UpdateStatus, NoLeak, Commanded, WrittenOff, Instances
<1>6. NoZombie'
  BY DEF SweepMark, UpdateStatus, NoZombie, BeingMarked, Workers, Instances
<1> QED
  BY <1>1, <1>2, <1>3, <1>4, <1>5, <1>6 DEF FleetInv

\* The database refuses.
LEMMA SweepMarkFailsStep ==
    ASSUME FleetInv, NEW v \in VMs, SweepMarkFails(v)
    PROVE  FleetInv'
<1> USE FleetAssumption DEF FleetInv, FleetTypeOK, Rows, cloudVars, rowVars, createVars, sweepVars, v2Vars, faultVars
<1>1. FleetTypeOK'
  BY DEF SweepMarkFails, RowStatus, CreatePc, DeletePc, RefreshPc, V2Pc, Addresses, Instances, Workers
<1>2. Instances'
  BY DEF SweepMarkFails, Instances, Workers, Addresses
<1>3. Workers'
  BY DEF SweepMarkFails, Workers
<1>4. Commanded'
  BY DEF SweepMarkFails, Commanded, WrittenOff, Workers, Instances
<1>5. NoLeak'
  BY DEF SweepMarkFails, NoLeak, Commanded, WrittenOff, Instances
<1>6. NoZombie'
  BY DEF SweepMarkFails, NoZombie, BeingMarked, Workers, Instances
<1> QED
  BY <1>1, <1>2, <1>3, <1>4, <1>5, <1>6 DEF FleetInv

\* A refresh reads the row.
LEMMA RefreshReadStep ==
    ASSUME FleetInv, NEW v \in Refreshed, RefreshRead(v)
    PROVE  FleetInv'
<1> USE FleetAssumption DEF FleetInv, FleetTypeOK, Rows, cloudVars, rowVars, createVars, sweepVars, v2Vars, faultVars
<1>1. FleetTypeOK'
  <2>1. [pc |-> "read", seen |-> status[v], ip |-> None]
            \in [pc : RefreshPc, seen : RowStatus, ip : IPs \cup {None}]
    BY DEF RefreshPc
  <2> QED
    BY <2>1 DEF RefreshRead
<1>2. Instances'
  BY DEF RefreshRead, Instances, Workers, Addresses
<1>3. Workers'
  BY DEF RefreshRead, Workers
<1>4. Commanded'
  BY DEF RefreshRead, Commanded, WrittenOff, NoLeak
<1>5. NoLeak'
  BY DEF RefreshRead, NoLeak, Commanded, WrittenOff, Instances
<1>6. NoZombie'
  BY DEF RefreshRead, NoZombie, BeingMarked, Workers, Instances
<1> QED
  BY <1>1, <1>2, <1>3, <1>4, <1>5, <1>6 DEF FleetInv

\* A refresh finds nothing new.
LEMMA RefreshNothingStep ==
    ASSUME FleetInv, NEW v \in Refreshed, RefreshNothing(v)
    PROVE  FleetInv'
<1> USE FleetAssumption DEF FleetInv, FleetTypeOK, Rows, cloudVars, rowVars, createVars, sweepVars, v2Vars, faultVars
<1>1. FleetTypeOK'
  BY DEF RefreshNothing, RefreshIdle, RowStatus, CreatePc, DeletePc, RefreshPc, V2Pc, Addresses, Instances, Workers
<1>2. Instances'
  BY DEF RefreshNothing, RefreshIdle, Instances, Workers, Addresses
<1>3. Workers'
  BY DEF RefreshNothing, RefreshIdle, Workers
<1>4. Commanded'
  BY DEF RefreshNothing, RefreshIdle, Commanded, WrittenOff, Workers, Instances
<1>5. NoLeak'
  BY DEF RefreshNothing, RefreshIdle, NoLeak, Commanded, WrittenOff, Instances
<1>6. NoZombie'
  BY DEF RefreshNothing, RefreshIdle, NoZombie, BeingMarked, Workers, Instances
<1> QED
  BY <1>1, <1>2, <1>3, <1>4, <1>5, <1>6 DEF FleetInv

\* A refresh finds another address.
LEMMA RefreshFindStep ==
    ASSUME FleetInv, NEW v \in Refreshed, RefreshFind(v)
    PROVE  FleetInv'
<1> USE FleetAssumption DEF FleetInv, FleetTypeOK, Rows, cloudVars, rowVars, createVars, sweepVars, v2Vars, faultVars
<1>1. FleetTypeOK'
  <2>1. [pc |-> "saving", seen |-> refresh[v].seen, ip |-> address[v]]
            \in [pc : RefreshPc, seen : RowStatus, ip : IPs \cup {None}]
    BY DEF RefreshPc
  <2> QED
    BY <2>1 DEF RefreshFind
<1>2. Instances'
  BY DEF RefreshFind, Instances, Workers, Addresses
<1>3. Workers'
  BY DEF RefreshFind, Workers, Instances
<1>4. Commanded'
  BY DEF RefreshFind, Commanded, WrittenOff, Workers, Instances
<1>5. NoLeak'
  BY DEF RefreshFind, NoLeak, Commanded, WrittenOff, Instances
<1>6. NoZombie'
  BY DEF RefreshFind, NoZombie, BeingMarked, Workers, Instances
<1> QED
  BY <1>1, <1>2, <1>3, <1>4, <1>5, <1>6 DEF FleetInv

\* A refresh writes the row as it has read it.
LEMMA RefreshSaveStep ==
    ASSUME FleetInv, NEW v \in Refreshed, RefreshSave(v)
    PROVE  FleetInv'
<1> USE FleetAssumption DEF FleetInv, FleetTypeOK, Rows, cloudVars, rowVars, createVars, sweepVars, v2Vars, faultVars
<1>1. FleetTypeOK'
  BY DEF RefreshSave, RefreshIdle, RowStatus, CreatePc, DeletePc, RefreshPc, V2Pc, Addresses, Instances, Workers
<1>2. Instances'
  BY DEF RefreshSave, RefreshIdle, Instances, Workers, Addresses
<1>3. Workers'
  BY DEF RefreshSave, RefreshIdle, Workers
<1>4. Commanded'
  BY DEF RefreshSave, RefreshIdle, Commanded, WrittenOff, Workers, Instances
<1>5. NoLeak'
  BY DEF RefreshSave, RefreshIdle, NoLeak, Commanded, WrittenOff, Instances
<1>6. NoZombie'
  BY DEF RefreshSave, RefreshIdle, NoZombie, BeingMarked, Workers, Instances
<1> QED
  BY <1>1, <1>2, <1>3, <1>4, <1>5, <1>6 DEF FleetInv

\* The database refuses.
LEMMA RefreshSaveFailsStep ==
    ASSUME FleetInv, NEW v \in Refreshed, RefreshSaveFails(v)
    PROVE  FleetInv'
<1> USE FleetAssumption DEF FleetInv, FleetTypeOK, Rows, cloudVars, rowVars, createVars, sweepVars, v2Vars, faultVars
<1>1. FleetTypeOK'
  BY DEF RefreshSaveFails, RefreshIdle, RowStatus, CreatePc, DeletePc, RefreshPc, V2Pc, Addresses, Instances, Workers
<1>2. Instances'
  BY DEF RefreshSaveFails, RefreshIdle, Instances, Workers, Addresses
<1>3. Workers'
  BY DEF RefreshSaveFails, RefreshIdle, Workers
<1>4. Commanded'
  BY DEF RefreshSaveFails, RefreshIdle, Commanded, WrittenOff, Workers, Instances
<1>5. NoLeak'
  BY DEF RefreshSaveFails, RefreshIdle, NoLeak, Commanded, WrittenOff, Instances
<1>6. NoZombie'
  BY DEF RefreshSaveFails, RefreshIdle, NoZombie, BeingMarked, Workers, Instances
<1> QED
  BY <1>1, <1>2, <1>3, <1>4, <1>5, <1>6 DEF FleetInv

\* The cloud changes an address.
LEMMA ReaddressStep ==
    ASSUME FleetInv, NEW v \in VMs, Readdress(v)
    PROVE  FleetInv'
<1> USE FleetAssumption DEF FleetInv, FleetTypeOK, Rows, cloudVars, rowVars, createVars, sweepVars, v2Vars, faultVars
<1>1. FleetTypeOK'
  BY DEF Readdress, FreeIPs, RowStatus, CreatePc, DeletePc, RefreshPc, V2Pc, Addresses, Instances, Workers
<1>2. Instances'
  BY DEF Readdress, FreeIPs, Instances, Workers, Addresses
<1>3. Workers'
  BY DEF Readdress, FreeIPs, Workers
<1>4. Commanded'
  BY DEF Readdress, FreeIPs, Commanded, WrittenOff, Workers, Instances
<1>5. NoLeak'
  BY DEF Readdress, FreeIPs, NoLeak, Commanded, WrittenOff, Instances
<1>6. NoZombie'
  BY DEF Readdress, FreeIPs, NoZombie, BeingMarked, Workers, Instances
<1> QED
  BY <1>1, <1>2, <1>3, <1>4, <1>5, <1>6 DEF FleetInv

\* A two-phase replacement finds its VMs.
LEMMA V2FindStep ==
    ASSUME FleetInv, V2Find
    PROVE  FleetInv'
<1> USE FleetAssumption DEF FleetInv, FleetTypeOK, Rows, cloudVars, rowVars, createVars, sweepVars, v2Vars, faultVars
<1>1. FleetTypeOK'
  BY DEF V2Find, RowStatus, CreatePc, DeletePc, RefreshPc, V2Pc, Addresses, Instances, Workers
<1>2. Instances'
  BY DEF V2Find, Instances, Workers, Addresses
<1>3. Workers'
  BY DEF V2Find, Workers
<1>4. Commanded'
  BY DEF V2Find, Commanded, WrittenOff, Workers, Instances
<1>5. NoLeak'
  BY DEF V2Find, NoLeak, Commanded, WrittenOff, Instances
<1>6. NoZombie'
  BY DEF V2Find, NoZombie, BeingMarked, Workers, Instances
<1> QED
  BY <1>1, <1>2, <1>3, <1>4, <1>5, <1>6 DEF FleetInv

\* It marks them.
LEMMA V2MarkStep ==
    ASSUME FleetInv, V2Mark
    PROVE  FleetInv'
<1> USE FleetAssumption DEF FleetInv, FleetTypeOK, Rows, cloudVars, rowVars, createVars, sweepVars, v2Vars, faultVars
<1>1. FleetTypeOK'
  BY DEF V2Mark, RowStatus, CreatePc, DeletePc, RefreshPc, V2Pc, Addresses, Instances, Workers
<1>2. Instances'
  BY DEF V2Mark, Instances, Workers, Addresses
<1>3. Workers'
  BY DEF V2Mark, Workers
<1>4. Commanded'
  BY DEF V2Mark, Commanded, WrittenOff, Workers, Instances
<1>5. NoLeak'
  BY DEF V2Mark, NoLeak, Commanded, WrittenOff, Instances
<1>6. NoZombie'
  BY DEF V2Mark, NoZombie, BeingMarked, Workers, Instances
<1> QED
  BY <1>1, <1>2, <1>3, <1>4, <1>5, <1>6 DEF FleetInv

\* The database refuses.
LEMMA V2MarkFailsStep ==
    ASSUME FleetInv, V2MarkFails
    PROVE  FleetInv'
<1> USE FleetAssumption DEF FleetInv, FleetTypeOK, Rows, cloudVars, rowVars, createVars, sweepVars, v2Vars, faultVars
<1>1. FleetTypeOK'
  BY DEF V2MarkFails, RowStatus, CreatePc, DeletePc, RefreshPc, V2Pc, Addresses, Instances, Workers
<1>2. Instances'
  BY DEF V2MarkFails, Instances, Workers, Addresses
<1>3. Workers'
  BY DEF V2MarkFails, Workers
<1>4. Commanded'
  BY DEF V2MarkFails, Commanded, WrittenOff, Workers, Instances
<1>5. NoLeak'
  BY DEF V2MarkFails, NoLeak, Commanded, WrittenOff, Instances
<1>6. NoZombie'
  BY DEF V2MarkFails, NoZombie, BeingMarked, Workers, Instances
<1> QED
  BY <1>1, <1>2, <1>3, <1>4, <1>5, <1>6 DEF FleetInv

\* The tag is in use.
LEMMA V2RefusedStep ==
    ASSUME FleetInv, V2Refused
    PROVE  FleetInv'
<1> USE FleetAssumption DEF FleetInv, FleetTypeOK, Rows, cloudVars, rowVars, createVars, sweepVars, v2Vars, faultVars
<1>1. FleetTypeOK'
  BY DEF V2Refused, RowStatus, CreatePc, DeletePc, RefreshPc, V2Pc, Addresses, Instances, Workers
<1>2. Instances'
  BY DEF V2Refused, Instances, Workers, Addresses
<1>3. Workers'
  BY DEF V2Refused, Workers
<1>4. Commanded'
  BY DEF V2Refused, Commanded, WrittenOff, Workers, Instances
<1>5. NoLeak'
  BY DEF V2Refused, NoLeak, Commanded, WrittenOff, Instances
<1>6. NoZombie'
  BY DEF V2Refused, NoZombie, BeingMarked, Workers, Instances
<1> QED
  BY <1>1, <1>2, <1>3, <1>4, <1>5, <1>6 DEF FleetInv

\* It begins to create.
LEMMA V2CreateStep ==
    ASSUME FleetInv, V2Create
    PROVE  FleetInv'
<1> USE FleetAssumption DEF FleetInv, FleetTypeOK, Rows, cloudVars, rowVars, createVars, sweepVars, v2Vars, faultVars
<1>1. FleetTypeOK'
  BY DEF V2Create, NewBatch, RowStatus, CreatePc, DeletePc, RefreshPc, V2Pc, Addresses, Instances, Workers
<1>2. Instances'
  BY DEF V2Create, NewBatch, Instances, Workers, Addresses
<1>3. Workers'
  BY DEF V2Create, NewBatch, Workers
<1>4. Commanded'
  BY DEF V2Create, NewBatch, Commanded, WrittenOff, Workers, Instances
<1>5. NoLeak'
  BY DEF V2Create, NewBatch, NoLeak, Commanded, WrittenOff, Instances
<1>6. NoZombie'
  BY DEF V2Create, NewBatch, NoZombie, BeingMarked, Workers, Instances
<1> QED
  BY <1>1, <1>2, <1>3, <1>4, <1>5, <1>6 DEF FleetInv

\* It returns.
LEMMA V2DoneStep ==
    ASSUME FleetInv, V2Done
    PROVE  FleetInv'
<1> USE FleetAssumption DEF FleetInv, FleetTypeOK, Rows, cloudVars, rowVars, createVars, sweepVars, v2Vars, faultVars
<1>1. FleetTypeOK'
  BY DEF V2Done, RowStatus, CreatePc, DeletePc, RefreshPc, V2Pc, Addresses, Instances, Workers
<1>2. Instances'
  BY DEF V2Done, Instances, Workers, Addresses
<1>3. Workers'
  BY DEF V2Done, Workers
<1>4. Commanded'
  BY DEF V2Done, Commanded, WrittenOff, Workers, Instances
<1>5. NoLeak'
  BY DEF V2Done, NoLeak, Commanded, WrittenOff, Instances
<1>6. NoZombie'
  BY DEF V2Done, NoZombie, BeingMarked, Workers, Instances
<1> QED
  BY <1>1, <1>2, <1>3, <1>4, <1>5, <1>6 DEF FleetInv

\* An hour passes.
LEMMA HourStep ==
    ASSUME FleetInv, HourPasses
    PROVE  FleetInv'
<1> USE FleetAssumption DEF FleetInv, FleetTypeOK, Rows, cloudVars, rowVars, createVars, sweepVars, v2Vars, faultVars
<1>1. FleetTypeOK'
  BY DEF HourPasses, RowStatus, CreatePc, DeletePc, RefreshPc, V2Pc, Addresses, Instances, Workers
<1>2. Instances'
  BY DEF HourPasses, Instances, Workers, Addresses
<1>3. Workers'
  BY DEF HourPasses, Workers
<1>4. Commanded'
  BY DEF HourPasses, Commanded, WrittenOff, Workers, Instances
<1>5. NoLeak'
  BY DEF HourPasses, NoLeak, Commanded, WrittenOff, Instances
<1>6. NoZombie'
  BY DEF HourPasses, NoZombie, BeingMarked, Workers, Instances
<1> QED
  BY <1>1, <1>2, <1>3, <1>4, <1>5, <1>6 DEF FleetInv

LEMMA NextFleet == FleetInv /\ [FleetNext]_fleetVars => FleetInv'
<1> SUFFICES ASSUME FleetInv, [FleetNext]_fleetVars PROVE FleetInv'
  OBVIOUS
<1>1. ASSUME NEW v \in Operated, RequestVM(v) \/ HandlerDeletes(v) PROVE FleetInv'
  BY <1>1, RequestStep, HandlerStep, FleetAssumption
<1>2. ASSUME NEW v \in VMs, CreateVM(v) PROVE FleetInv'
  BY <1>2, CreateFailsStep, CreateInstanceStep, FindIPStep, SaveRowStep, SaveRowFailsStep
     DEF CreateVM
<1>3. ASSUME NEW c \in Callers, NEW v \in VMs, DeleteVM(c, v) PROVE FleetInv'
  BY <1>3, FindRowFailsStep, DeleteInstanceStep, DeleteInstanceFailsStep, MarkDeletedStep,
     MarkDeletedFailsStep DEF DeleteVM
<1>4. ASSUME CleanupOldVMs PROVE FleetInv'
  BY <1>4, StartSweepStep, SweepDeleteStep, SweepDeleteFailsStep, SweepMarkStep,
     SweepMarkFailsStep DEF CleanupOldVMs
<1>5. ASSUME NEW v \in Refreshed, RefreshVMIP(v) \/ Readdress(v) PROVE FleetInv'
  BY <1>5, RefreshReadStep, RefreshNothingStep, RefreshFindStep, RefreshSaveStep,
     RefreshSaveFailsStep, ReaddressStep, FleetAssumption DEF RefreshVMIP
<1>6. ASSUME V2Begin \/ V2Done PROVE FleetInv'
  BY <1>6, V2FindStep, V2MarkStep, V2MarkFailsStep, V2RefusedStep, V2CreateStep, V2DoneStep
     DEF V2Begin
<1>7. CASE UNCHANGED fleetVars
  <2> USE <1>7 DEF FleetInv, fleetVars, cloudVars, rowVars, createVars, sweepVars, v2Vars, faultVars,
          Rows
  <2>1. (FleetTypeOK /\ Instances /\ Workers)'
    BY DEF FleetTypeOK, Instances, Workers
  <2>2. (Commanded /\ NoLeak /\ NoZombie)'
    BY DEF Commanded, WrittenOff, NoLeak, NoZombie, BeingMarked
  <2> QED
    BY <2>1, <2>2
<1> QED
  BY <1>1, <1>2, <1>3, <1>4, <1>5, <1>6, <1>7, CleanupStep, HourStep DEF FleetNext, FleetRequests

-----------------------------------------------------------------------------
(***************************************************************************)
(* The invariant holds in every reachable state of the fleet.              *)
(***************************************************************************)
THEOREM FleetInvariance == FleetSpec => []FleetInv
BY InitFleet, NextFleet, PTL DEF FleetSpec

(***************************************************************************)
(* Every variable of the fleet keeps its type.                             *)
(***************************************************************************)
THEOREM FleetTypeCorrect == FleetSpec => []FleetTypeOK
<1>1. FleetInv => FleetTypeOK
  BY DEF FleetInv
<1> QED
  BY <1>1, FleetInvariance, PTL

(***************************************************************************)
(* No row is Deleted while its instance runs, unless the delete command    *)
(* failed inside DeleteVM.                                                 *)
(***************************************************************************)
THEOREM NothingLeaks == FleetSpec => []NoLeak
<1>1. FleetInv => NoLeak
  BY DEF FleetInv
<1> QED
  BY <1>1, FleetInvariance, PTL

(***************************************************************************)
(* No row stays Running after its instance is gone, unless addresses of    *)
(* the VM are refreshed or the database refused a statement.               *)
(***************************************************************************)
THEOREM NoZombies == FleetSpec => []NoZombie
<1>1. FleetInv => NoZombie
  BY DEF FleetInv
<1> QED
  BY <1>1, FleetInvariance, PTL
=============================================================================
