---------------------- MODULE AccountRegistrationProofs ----------------------
(***************************************************************************)
(* What holds of the accounts and their VMs for any number of accounts,    *)
(* VMs, addresses and requests: the types, that accounts name VMs that     *)
(* have rows, and how a row may be Deleted while its instance runs.        *)
(***************************************************************************)
EXTENDS AccountRegistration, TLAPS

(***************************************************************************)
(* A VM a registration has given up is like one whose delete command       *)
(* failed.  With both in the place of cmdFailed every step of the fleet is *)
(* still one, and what VmFleetProofs shows of it carries over.             *)
(***************************************************************************)
F == INSTANCE VmFleetProofs WITH cmdFailed <- cmdFailed \cup givenUp

LEMMA SameCount == \A S : F!Cardinality(S) = Cardinality(S)
BY DEF Cardinality, F!Cardinality

LEMMA FleetMoves == ASSUME FleetNext, givenUp' = givenUp PROVE F!FleetNext
<1> USE DEF cloudVars, rowVars, createVars, sweepVars, v2Vars, faultVars,
            F!cloudVars, F!rowVars, F!createVars, F!sweepVars, F!v2Vars, F!faultVars,
            Rows, F!Rows, FreeIPs, F!FreeIPs, InstanceGone, F!InstanceGone,
            UpdateStatus, F!UpdateStatus, PendingDue, F!PendingDue,
            RefreshIdle, F!RefreshIdle
<1>1. ASSUME NEW v \in Operated, RequestVM(v) \/ HandlerDeletes(v) PROVE F!FleetNext
  BY <1>1 DEF RequestVM, HandlerDeletes, F!RequestVM, F!HandlerDeletes,
              F!FleetNext, F!FleetRequests
<1>2. ASSUME NEW v \in VMs, CreateVM(v) PROVE F!FleetNext
  <2>1. F!CreateVM(v)
    BY <1>2 DEF CreateVM, CreateFails, CreateInstance, FindIP, SaveRow, SaveRowFails,
           F!CreateVM, F!CreateFails, F!CreateInstance, F!FindIP, F!SaveRow, F!SaveRowFails
  <2> QED
    BY <2>1 DEF F!FleetNext, F!FleetRequests
<1>3. ASSUME NEW c \in Callers, NEW v \in VMs, DeleteVM(c, v) PROVE F!FleetNext
  <2>1. F!DeleteVM(c, v)
    BY <1>3 DEF DeleteVM, FindRowFails, DeleteInstance, DeleteInstanceFails, MarkDeleted,
           MarkDeletedFails, F!DeleteVM, F!FindRowFails, F!DeleteInstance,
           F!DeleteInstanceFails, F!MarkDeleted, F!MarkDeletedFails
  <2> QED
    BY <2>1 DEF F!FleetNext, F!FleetRequests
<1>4. CASE CleanupPendingDeleteVMs
  BY <1>4 DEF CleanupPendingDeleteVMs, F!CleanupPendingDeleteVMs, F!FleetNext, F!FleetRequests
<1>5. CASE CleanupOldVMs
  <2>1. F!CleanupOldVMs
    BY <1>5 DEF CleanupOldVMs, StartSweep, SweepDelete, SweepDeleteFails, SweepMark,
           SweepMarkFails, F!CleanupOldVMs, F!StartSweep, F!SweepDelete,
           F!SweepDeleteFails, F!SweepMark, F!SweepMarkFails
  <2> QED
    BY <2>1 DEF F!FleetNext, F!FleetRequests
<1>6. ASSUME NEW v \in Refreshed, RefreshVMIP(v) \/ Readdress(v) PROVE F!FleetNext
  <2>1. F!RefreshVMIP(v) \/ F!Readdress(v)
    BY <1>6 DEF RefreshVMIP, RefreshRead, RefreshNothing, RefreshFind, RefreshSave,
           RefreshSaveFails, Readdress, F!RefreshVMIP, F!RefreshRead, F!RefreshNothing,
           F!RefreshFind, F!RefreshSave, F!RefreshSaveFails, F!Readdress
  <2> QED
    BY <2>1 DEF F!FleetNext, F!FleetRequests
<1>7. CASE HourPasses
  BY <1>7 DEF HourPasses, F!HourPasses, F!FleetNext, F!FleetRequests
<1>8. CASE V2Begin \/ V2Done
  <2>1. CASE V2Find
    BY <2>1, SameCount DEF V2Find, ProxyTypes, TypeOf, F!V2Find, F!ProxyTypes, F!TypeOf,
                           F!FleetNext, F!V2Begin
  <2>2. CASE V2Mark \/ V2MarkFails \/ V2Refused
    BY <2>2 DEF V2Mark, V2MarkFails, V2Refused, F!V2Mark, F!V2MarkFails, F!V2Refused,
                F!FleetNext, F!V2Begin
  <2>3. CASE V2Create
    BY <2>3, SameCount DEF V2Create, NewBatch, F!V2Create, F!NewBatch, F!FleetNext, F!V2Begin
  <2>4. CASE V2Done
    BY <2>4 DEF V2Done, Created, F!V2Done, F!Created, F!FleetNext
  <2> QED
    BY <1>8, <2>1, <2>2, <2>3, <2>4 DEF V2Begin
<1> QED
  BY <1>1, <1>2, <1>3, <1>4, <1>5, <1>6, <1>7, <1>8 DEF FleetNext, FleetRequests

-----------------------------------------------------------------------------
(***************************************************************************)
(* The inductive invariant.                                                *)
(***************************************************************************)
RegRecord == [pc : RegPc, email : Emails \cup {None}, vm : VMs \cup {None},
              ip : Addresses \cup {None}, host : VMs \cup {None}]

AccountTypes ==
    /\ accounts \in [Names -> {NoRow} \cup StatusRow]
    /\ projects \in [Names -> VMs \cup {None, NoProject}]
    /\ login \in [VMs -> [Emails -> AccountAuthStatus]]
    /\ work \in [Names -> [busy : BOOLEAN, seen : VMs \cup {None}]]
    /\ givenUp \subseteq VMs /\ moved \subseteq Names
    /\ strayed \subseteq Emails /\ overtaken \subseteq Names

\* A request got its VM from a row of gcp_accounts, or has seen the row of the
\* VM itself.  Whoever is about to write a VM off has given it up, or its
\* instance is gone.
Knows(r) ==
    /\ reg[r].pc \notin {"idle", "ended"} => reg[r].email \in Emails
    /\ reg[r].pc \notin {"idle", "create", "ended"} => reg[r].vm \in VMs
    /\ reg[r].pc = "session" => reg[r].host \in VMs
    /\ reg[r].pc \notin {"idle", "create", "creating", "ended"} => reg[r].vm \in Rows
    /\ reg[r].pc = "clean" /\ cloud[reg[r].vm] = "running"
          => reg[r].vm \in cmdFailed \cup givenUp

RequestsKnow == \A r \in Requests : Knows(r)

\* A post-login run has its VM from a row of gcp_accounts too.
WorkKnown == \A n \in Names : work[n].seen # None => work[n].seen \in Rows

RegTypes == reg \in [Requests -> RegRecord]

AccountInv == AccountTypes /\ RegTypes /\ RequestsKnow /\ AccountVmHasRow /\ WorkKnown

RegInv == F!FleetInv /\ AccountInv

-----------------------------------------------------------------------------
LEMMA FleetFacts ==
    ASSUME F!FleetInv
    PROVE  /\ FleetTypeOK
           /\ \A v \in VMs : status[v] # "none" => creating[v] = "done" /\ cloud[v] # "absent"
           /\ \A v \in VMs : creating[v] = "requested" => cloud[v] = "absent"
           /\ \A v \in Refreshed : refresh[v].pc = "saving" => refresh[v].seen # "none"
           /\ \A v \in VMs : status[v] = "Deleted" /\ cloud[v] = "running"
                                => v \in cmdFailed \cup givenUp
<1> USE DEF F!FleetInv
<1>1. FleetTypeOK
  BY DEF FleetTypeOK, F!FleetTypeOK, RowStatus, F!RowStatus, CreatePc, F!CreatePc, DeletePc,
         F!DeletePc, RefreshPc, F!RefreshPc, V2Pc, F!V2Pc, Addresses, F!Addresses, Rows, F!Rows
<1>2. \A v \in VMs : /\ status[v] # "none" => creating[v] = "done" /\ cloud[v] # "absent"
                     /\ creating[v] = "requested" => cloud[v] = "absent"
  BY DEF F!Instances
<1>3. \A v \in Refreshed : refresh[v].pc = "saving" => refresh[v].seen # "none"
  BY DEF F!Workers
<1>4. \A v \in VMs : status[v] = "Deleted" /\ cloud[v] = "running" => v \in cmdFailed \cup givenUp
  BY DEF F!NoLeak
<1> QED
  BY <1>1, <1>2, <1>3, <1>4

\* The fleet only ever adds rows, and does not start an instance that has one.
LEMMA RowsStay ==
    ASSUME F!FleetInv, FleetNext
    PROVE  /\ \A v \in VMs : v \in Rows => v \in Rows'
           /\ \A v \in VMs : v \in Rows /\ cloud'[v] = "running" => cloud[v] = "running"
           /\ cmdFailed \subseteq cmdFailed'
<1> USE FleetFacts DEF Rows, FleetTypeOK, cloudVars, rowVars, createVars, sweepVars, v2Vars,
        faultVars
<1> DEFINE Stay == /\ \A v \in VMs : status[v] # "none" => status'[v] # "none"
                   /\ \A v \in VMs : status[v] # "none" /\ cloud'[v] = "running"
                                        => cloud[v] = "running"
                   /\ cmdFailed \subseteq cmdFailed'
<1>1. ASSUME NEW w \in Operated, RequestVM(w) \/ HandlerDeletes(w) PROVE Stay
  BY <1>1 DEF RequestVM, HandlerDeletes
<1>2. ASSUME NEW w \in VMs, CreateVM(w) PROVE Stay
  BY <1>2 DEF CreateVM, CreateFails, CreateInstance, FindIP, SaveRow, SaveRowFails
<1>3. ASSUME NEW c \in Callers, NEW w \in VMs, DeleteVM(c, w) PROVE Stay
  BY <1>3 DEF DeleteVM, FindRowFails, DeleteInstance, DeleteInstanceFails, MarkDeleted,
              MarkDeletedFails, InstanceGone, UpdateStatus
<1>4. ASSUME CleanupPendingDeleteVMs PROVE Stay
  BY <1>4 DEF CleanupPendingDeleteVMs
<1>5. ASSUME CleanupOldVMs PROVE Stay
  BY <1>5 DEF CleanupOldVMs, StartSweep, SweepDelete, SweepDeleteFails, SweepMark,
              SweepMarkFails, InstanceGone, UpdateStatus
<1>6. ASSUME NEW w \in Refreshed, RefreshVMIP(w) \/ Readdress(w) PROVE Stay
  BY <1>6, FleetAssumption DEF RefreshVMIP, RefreshRead, RefreshNothing, RefreshFind, RefreshSave,
              RefreshSaveFails, Readdress
<1>7. ASSUME HourPasses PROVE Stay
  BY <1>7 DEF HourPasses
<1>8. ASSUME V2Begin \/ V2Done PROVE Stay
  BY <1>8 DEF V2Begin, V2Find, V2Mark, V2MarkFails, V2Refused, V2Create, V2Done
<1>9. Stay
  BY <1>1, <1>2, <1>3, <1>4, <1>5, <1>6, <1>7, <1>8 DEF FleetNext, FleetRequests
<1> QED
  BY <1>9

\* A step that leaves the fleet alone, apart from a VM it gives up.
LEMMA FleetStays ==
    ASSUME F!FleetInv, UNCHANGED fleetVars, givenUp \subseteq givenUp', givenUp' \subseteq VMs
    PROVE  F!FleetInv'
<1> USE DEF F!FleetInv, fleetVars, cloudVars, rowVars, createVars, sweepVars, v2Vars, faultVars,
        F!Rows
<1>1. F!FleetTypeOK' /\ F!Instances' /\ F!Workers'
  BY DEF F!FleetTypeOK, F!Instances, F!Workers
<1>2. F!Commanded'
  BY DEF F!Commanded, F!WrittenOff, F!FleetTypeOK
<1>3. F!NoLeak' /\ F!NoZombie'
  BY DEF F!NoLeak, F!NoZombie, F!BeingMarked
<1> QED
  BY <1>1, <1>2, <1>3

\* The row of a VM whose instance is gone, or that was given up, becomes Deleted.
LEMMA FleetWrittenOff ==
    ASSUME F!FleetInv, NEW v \in VMs, v \in Rows, UpdateStatus(v, "Deleted"),
           cloud[v] = "running" => v \in cmdFailed \cup givenUp,
           UNCHANGED <<cloudVars, createVars, del, sweepVars, refresh, v2Vars, faultVars, givenUp>>
    PROVE  F!FleetInv'
<1> USE FleetAssumption DEF F!FleetInv, F!FleetTypeOK, F!Rows, Rows, UpdateStatus, cloudVars,
        rowVars, createVars, sweepVars, v2Vars, faultVars
<1>1. F!FleetTypeOK'
  BY DEF F!RowStatus, F!CreatePc, F!DeletePc, F!RefreshPc, F!V2Pc, F!Addresses
<1>2. F!Instances'
  BY DEF F!Instances, F!Addresses
<1>3. F!Workers'
  BY DEF F!Workers
<1>4. F!Commanded'
  BY DEF F!Commanded, F!WrittenOff
<1>5. F!NoLeak'
  BY DEF F!NoLeak
<1>6. F!NoZombie'
  BY DEF F!NoZombie, F!BeingMarked
<1> QED
  BY <1>1, <1>2, <1>3, <1>4, <1>5, <1>6

-----------------------------------------------------------------------------
LEMMA InitReg == Init => RegInv
<1> SUFFICES ASSUME Init PROVE RegInv
  OBVIOUS
<1> USE FleetAssumption, AccountsAssumption DEF Init
<1>1. F!FleetInv
  <2>1. F!FleetInit
    BY DEF FleetInit, F!FleetInit, F!RefreshIdle, RefreshIdle
  <2> QED
    BY <2>1, F!InitFleet, FleetAssumption DEF FleetAssumption, F!FleetAssumption
<1>2. AccountTypes /\ RegTypes
  BY DEF AccountTypes, RegTypes, RegRecord, Registering, RegPc, Idle
<1>3. \A v \in Initial : v \in Rows
  BY DEF FleetInit, Rows
<1>4. \A n \in Names : accounts[n].vm # None => accounts[n].vm \in Rows
  BY <1>3 DEF NoRow
<1>5. AccountVmHasRow
  BY <1>4 DEF AccountVmHasRow
<1>6. RequestsKnow /\ WorkKnown
  BY DEF RequestsKnow, Knows, WorkKnown, Registering, Idle
<1> QED
  BY <1>1, <1>2, <1>5, <1>6 DEF RegInv, AccountInv

-----------------------------------------------------------------------------
(***************************************************************************)
(* A step of a request.                                                    *)
(***************************************************************************)
\* In g, r is at p, with v, a and h; the other requests are where they were.
Moved(g, r, p, v, a, h) ==
    /\ g \in [Requests -> RegRecord]
    /\ g[r].pc = p /\ g[r].email = reg[r].email
    /\ g[r].vm = v /\ g[r].ip = a /\ g[r].host = h
    /\ \A q \in Requests \ {r} : g[q] = reg[q]

\* r has come to its end.
Ended(r) ==
    /\ reg' \in [Requests -> RegRecord]
    /\ reg'[r].pc = "ended" /\ reg'[r].email = None /\ reg'[r].vm = None
    /\ \A q \in Requests \ {r} : reg'[q] = reg[q]

LEMMA PcField ==
    ASSUME NEW g, NEW r \in Requests, NEW p, NEW v, NEW a, NEW h, Moved(g, r, p, v, a, h),
           NEW x \in RegPc
    PROVE  Moved([g EXCEPT ![r].pc = x], r, x, v, a, h)
BY DEF Moved, RegRecord

LEMMA VmField ==
    ASSUME NEW g, NEW r \in Requests, NEW p, NEW v, NEW a, NEW h, Moved(g, r, p, v, a, h),
           NEW x \in VMs \cup {None}
    PROVE  Moved([g EXCEPT ![r].vm = x], r, p, x, a, h)
BY DEF Moved, RegRecord

LEMMA IpField ==
    ASSUME NEW g, NEW r \in Requests, NEW p, NEW v, NEW a, NEW h, Moved(g, r, p, v, a, h),
           NEW x \in Addresses \cup {None}
    PROVE  Moved([g EXCEPT ![r].ip = x], r, p, v, x, h)
BY DEF Moved, RegRecord

LEMMA HostField ==
    ASSUME NEW g, NEW r \in Requests, NEW p, NEW v, NEW a, NEW h, Moved(g, r, p, v, a, h),
           NEW x \in VMs \cup {None}
    PROVE  Moved([g EXCEPT ![r].host = x], r, p, v, a, x)
BY DEF Moved, RegRecord

LEMMA GotoShape ==
    ASSUME reg \in [Requests -> RegRecord], NEW r \in Requests, NEW p \in RegPc,
           reg' = [reg EXCEPT ![r].pc = p]
    PROVE  Moved(reg', r, p, reg[r].vm, reg[r].ip, reg[r].host)
<1>1. Moved(reg, r, reg[r].pc, reg[r].vm, reg[r].ip, reg[r].host)
  BY DEF Moved
<1> QED
  BY <1>1, PcField

LEMMA AddressShape ==
    ASSUME reg \in [Requests -> RegRecord], NEW r \in Requests, NEW p \in RegPc,
           NEW a \in Addresses \cup {None},
           reg' = [reg EXCEPT ![r].pc = p, ![r].ip = a]
    PROVE  Moved(reg', r, p, reg[r].vm, a, reg[r].host)
<1> DEFINE g == [reg EXCEPT ![r].pc = p]
<1>1. Moved(reg, r, reg[r].pc, reg[r].vm, reg[r].ip, reg[r].host)
  BY DEF Moved
<1>2. Moved(g, r, p, reg[r].vm, reg[r].ip, reg[r].host)
  BY <1>1, PcField
<1> HIDE DEF g
<1>3. Moved([g EXCEPT ![r].ip = a], r, p, reg[r].vm, a, reg[r].host)
  BY <1>2, IpField
<1> QED
  BY <1>3 DEF g

LEMMA VmShape ==
    ASSUME reg \in [Requests -> RegRecord], NEW r \in Requests, NEW p \in RegPc,
           NEW v \in VMs \cup {None},
           reg' = [reg EXCEPT ![r].pc = p, ![r].vm = v]
    PROVE  Moved(reg', r, p, v, reg[r].ip, reg[r].host)
<1> DEFINE g == [reg EXCEPT ![r].pc = p]
<1>1. Moved(reg, r, reg[r].pc, reg[r].vm, reg[r].ip, reg[r].host)
  BY DEF Moved
<1>2. Moved(g, r, p, reg[r].vm, reg[r].ip, reg[r].host)
  BY <1>1, PcField
<1> HIDE DEF g
<1>3. Moved([g EXCEPT ![r].vm = v], r, p, v, reg[r].ip, reg[r].host)
  BY <1>2, VmField
<1> QED
  BY <1>3 DEF g

LEMMA HostShape ==
    ASSUME reg \in [Requests -> RegRecord], NEW r \in Requests, NEW p \in RegPc,
           NEW w \in VMs \cup {None},
           reg' = [reg EXCEPT ![r].pc = p, ![r].host = w]
    PROVE  Moved(reg', r, p, reg[r].vm, reg[r].ip, w)
<1> DEFINE g == [reg EXCEPT ![r].pc = p]
<1>1. Moved(reg, r, reg[r].pc, reg[r].vm, reg[r].ip, reg[r].host)
  BY DEF Moved
<1>2. Moved(g, r, p, reg[r].vm, reg[r].ip, reg[r].host)
  BY <1>1, PcField
<1> HIDE DEF g
<1>3. Moved([g EXCEPT ![r].host = w], r, p, reg[r].vm, reg[r].ip, w)
  BY <1>2, HostField
<1> QED
  BY <1>3 DEF g

LEMMA VmAddressShape ==
    ASSUME reg \in [Requests -> RegRecord], NEW r \in Requests, NEW p \in RegPc,
           NEW v \in VMs \cup {None}, NEW a \in Addresses \cup {None},
           reg' = [reg EXCEPT ![r].pc = p, ![r].vm = v, ![r].ip = a]
    PROVE  Moved(reg', r, p, v, a, reg[r].host)
<1> DEFINE g == [reg EXCEPT ![r].pc = p]
           h == [g EXCEPT ![r].vm = v]
<1>1. Moved(reg, r, reg[r].pc, reg[r].vm, reg[r].ip, reg[r].host)
  BY DEF Moved
<1>2. Moved(g, r, p, reg[r].vm, reg[r].ip, reg[r].host)
  BY <1>1, PcField
<1> HIDE DEF g
<1>3. Moved(h, r, p, v, reg[r].ip, reg[r].host)
  BY <1>2, VmField
<1> HIDE DEF h
<1>4. Moved([h EXCEPT ![r].ip = a], r, p, v, a, reg[r].host)
  BY <1>3, IpField
<1> QED
  BY <1>4 DEF g, h

LEMMA EndShape ==
    ASSUME reg \in [Requests -> RegRecord], NEW r \in Requests, End(r)
    PROVE  Ended(r)
BY DEF End, Ended, Registering, RegPc, RegRecord

-----------------------------------------------------------------------------
(***************************************************************************)
(* Every action preserves the invariant.                                   *)
(***************************************************************************)

\* A step that changes one request, and rows of gcp_accounts as they may be.
LEMMA RequestMoves ==
    ASSUME RegInv, NEW r \in Requests, UNCHANGED <<fleetVars, work>>,
           givenUp \subseteq givenUp', AccountTypes', AccountVmHasRow',
           RegTypes', \A q \in Requests \ {r} : reg'[q] = reg[q], Knows(r)'
    PROVE  RegInv'
<1> USE DEF RegInv, AccountInv
<1>1. F!FleetInv'
  BY FleetStays DEF AccountTypes
<1>2. UNCHANGED <<cloud, status, cmdFailed, Rows>>
  BY DEF fleetVars, cloudVars, rowVars, faultVars, Rows
<1>3. ASSUME NEW q \in Requests \ {r} PROVE Knows(q)'
  BY <1>2, <1>3 DEF RequestsKnow, Knows
<1>4. RequestsKnow'
  BY <1>3 DEF RequestsKnow
<1>5. WorkKnown'
  BY <1>2 DEF WorkKnown
<1> QED
  BY <1>1, <1>4, <1>5

\* A row with another vm_id is a row.
LEMMA RowTagged ==
    ASSUME NEW x \in {NoRow} \cup StatusRow, x # NoRow, NEW v \in VMs \cup {None}
    PROVE  [x EXCEPT !.vm = v] \in StatusRow /\ [x EXCEPT !.vm = v].vm = v
BY DEF StatusRow

\* The accounts of a VM stay what they can be.
LEMMA Activated ==
    ASSUME login \in [VMs -> [Emails -> AccountAuthStatus]],
           NEW v \in VMs, NEW e \in Emails, Activate(v, e)
    PROVE  login' \in [VMs -> [Emails -> AccountAuthStatus]]
BY DEF Activate, AccountAuthStatus

\* The row of that VM decides; one marked PendingDelete is given up.
LEMMA FindVmStep ==
    ASSUME RegInv, NEW r \in Requests, FindVm(r)
    PROVE  RegInv'
<1> USE DEF RegInv, AccountInv, RegTypes
<1>0. Knows(r) /\ reg[r].pc \in {"find"}
  BY DEF RequestsKnow, FindVm
<1>1. /\ UNCHANGED <<fleetVars, work, cloud, cmdFailed, Rows>>
      /\ UNCHANGED <<accounts, projects, login, moved, strayed, overtaken>>
      /\ givenUp' = IF status[reg[r].vm] = "PendingDelete" THEN givenUp \cup {reg[r].vm}
                                                           ELSE givenUp
      /\ reg[r].vm \in VMs /\ status[reg[r].vm] \in {"Running", "PendingDelete", "Deleted"}
      /\ externalIP[reg[r].vm] \in Addresses \cup {None}
  BY <1>0, FleetFacts
     DEF Knows, FleetTypeOK, RowStatus, historyVars, fleetVars, cloudVars, rowVars, faultVars, Rows,
         FindVm
<1>2. \/ Moved(reg', r, "describe", reg[r].vm, externalIP[reg[r].vm], reg[r].host)
      \/ status[reg[r].vm] # "Running" /\ Moved(reg', r, "clean", reg[r].vm, reg[r].ip, reg[r].host)
  <2>1. CASE status[reg[r].vm] = "Running"
    BY <1>1, <2>1, AddressShape DEF FindVm, RegPc
  <2>2. CASE status[reg[r].vm] # "Running"
    BY <1>1, <2>2, GotoShape DEF FindVm, Goto, RegPc
  <2> QED
    BY <2>1, <2>2
<1>3. Knows(r)'
  BY <1>0, <1>1, <1>2, FleetFacts DEF Knows, Moved
<1>4. RegTypes' /\ \A q \in Requests \ {r} : reg'[q] = reg[q]
  BY <1>2 DEF Moved, Ended
<1>5. AccountTypes'
  BY <1>1 DEF AccountTypes
<1>6. AccountVmHasRow'
  BY <1>1 DEF AccountVmHasRow
<1> QED
  BY <1>1, <1>3, <1>4, <1>5, <1>6, RequestMoves

\* The instance is there, or the command fails and the VM is given up.
LEMMA DescribeStep ==
    ASSUME RegInv, NEW r \in Requests, VerifyVMExistsInGCP(r)
    PROVE  RegInv'
<1> USE DEF RegInv, AccountInv, RegTypes
<1>0. Knows(r) /\ reg[r].pc \in {"describe"}
  BY DEF RequestsKnow, VerifyVMExistsInGCP
<1>1. /\ UNCHANGED <<fleetVars, work, cloud, cmdFailed, Rows>>
      /\ UNCHANGED <<accounts, projects, login, moved, strayed, overtaken>>
      /\ givenUp \subseteq givenUp' /\ givenUp' \subseteq givenUp \cup {reg[r].vm}
  BY <1>0, AccountsAssumption
     DEF Knows, historyVars, fleetVars, cloudVars, rowVars, faultVars, Rows, VerifyVMExistsInGCP
<1>2. \/ Moved(reg', r, "check", reg[r].vm, reg[r].ip, reg[r].host)
      \/ /\ Moved(reg', r, "clean", reg[r].vm, reg[r].ip, reg[r].host)
         /\ cloud[reg[r].vm] = "running" => reg[r].vm \in givenUp'
  BY GotoShape DEF VerifyVMExistsInGCP, Goto, RegPc
<1>3. Knows(r)'
  BY <1>0, <1>1, <1>2 DEF Knows, Moved, Ended
<1>4. RegTypes' /\ \A q \in Requests \ {r} : reg'[q] = reg[q]
  BY <1>2 DEF Moved, Ended
<1>5. AccountTypes'
  BY <1>0, <1>1 DEF AccountTypes, Knows
<1>6. AccountVmHasRow'
  BY <1>1 DEF AccountVmHasRow
<1> QED
  BY <1>1, <1>3, <1>4, <1>5, <1>6, RequestMoves

\* Whoever names the VM names none.
LEMMA ClearTagStep ==
    ASSUME RegInv, NEW r \in Requests, ClearTag(r)
    PROVE  RegInv'
<1> USE DEF RegInv, AccountInv, RegTypes
<1>0. Knows(r) /\ reg[r].pc \in {"untag"}
  BY DEF RequestsKnow, ClearTag
<1>1. /\ UNCHANGED <<fleetVars, work, cloud, cmdFailed, Rows>>
      /\ UNCHANGED <<login, givenUp, moved, strayed>> /\ reg[r].vm # None
      /\ overtaken' \subseteq overtaken \cup {reg[r].email}
      /\ \/ UNCHANGED <<accounts, projects>>
         \/ /\ accounts' = [n \in Names |-> IF accounts[n].vm = reg[r].vm
                                             THEN [accounts[n] EXCEPT !.vm = None]
                                             ELSE accounts[n]]
            /\ projects' = [n \in Names |-> IF projects[n] = reg[r].vm THEN None
                                                                       ELSE projects[n]]
  BY <1>0, FleetAssumption
     DEF Knows, historyVars, fleetVars, cloudVars, rowVars, faultVars, Rows, ClearTag
<1>2. Moved(reg', r, "create", None, None, reg[r].host)
  BY VmAddressShape DEF ClearTag, RegPc
<1>3. Knows(r)'
  BY <1>0, <1>1, <1>2 DEF Knows, Moved, Ended
<1>4. RegTypes' /\ \A q \in Requests \ {r} : reg'[q] = reg[q]
  BY <1>2 DEF Moved, Ended
<1>a. ASSUME NEW n \in Names, accounts[n].vm = reg[r].vm
      PROVE  /\ [accounts[n] EXCEPT !.vm = None] \in StatusRow
             /\ [accounts[n] EXCEPT !.vm = None].vm = None
  <2>1. accounts[n] # NoRow
    BY <1>1, <1>a DEF NoRow
  <2>2. accounts[n] \in {NoRow} \cup StatusRow
    BY DEF AccountTypes
  <2> QED
    BY <2>1, <2>2, RowTagged
<1>b. \A n \in Names : projects'[n] \in {projects[n], None}
  BY <1>1
<1>c. accounts' \in [Names -> {NoRow} \cup StatusRow]
  BY <1>1, <1>a DEF AccountTypes
<1>5. AccountTypes'
  <2>1. projects' \in [Names -> VMs \cup {None, NoProject}]
    BY <1>1 DEF AccountTypes
  <2>2. overtaken' \subseteq Names
    BY <1>0, <1>1, AccountsAssumption DEF AccountTypes, Knows
  <2> QED
    BY <1>1, <1>c, <2>1, <2>2 DEF AccountTypes
<1>6. AccountVmHasRow'
  <2>1. \A n \in Names : accounts'[n].vm # None => accounts'[n].vm = accounts[n].vm
    BY <1>1, <1>a
  <2> QED
    BY <1>1, <1>b, <2>1, FleetAssumption DEF AccountVmHasRow
<1> QED
  BY <1>1, <1>3, <1>4, <1>5, <1>6, RequestMoves

\* A new VM is taken only if its row is there.
LEMMA GetCreatedStep ==
    ASSUME RegInv, NEW r \in Requests, GetCreatedVM(r)
    PROVE  RegInv'
<1> USE DEF RegInv, AccountInv, RegTypes
<1>0. Knows(r) /\ reg[r].pc \in {"creating"}
  BY DEF RequestsKnow, GetCreatedVM
<1>1. /\ UNCHANGED <<fleetVars, work, cloud, cmdFailed, Rows>>
      /\ UNCHANGED <<accounts, projects, login, givenUp, moved, strayed, overtaken>>
  BY <1>0, AccountsAssumption
     DEF Knows, historyVars, fleetVars, cloudVars, rowVars, faultVars, Rows, GetCreatedVM
<1>2. \/ reg[r].vm \in Rows /\ Moved(reg', r, "tag", reg[r].vm, externalIP[reg[r].vm], reg[r].host)
      \/ Ended(r)
  <2>1. CASE reg[r].vm \in Rows
    <3>1. externalIP[reg[r].vm] \in Addresses \cup {None} /\ "tag" \in RegPc
      BY <2>1, FleetFacts DEF Rows, FleetTypeOK, RegPc
    <3> QED
      BY <2>1, <3>1, AddressShape DEF GetCreatedVM
  <2>2. CASE reg[r].vm \notin Rows
    BY <2>2, EndShape DEF GetCreatedVM
  <2> QED
    BY <2>1, <2>2
<1>3. Knows(r)'
  BY <1>0, <1>1, <1>2 DEF Knows, Moved, Ended
<1>4. RegTypes' /\ \A q \in Requests \ {r} : reg'[q] = reg[q]
  BY <1>2 DEF Moved, Ended
<1>5. AccountTypes'
  BY <1>1 DEF AccountTypes
<1>6. AccountVmHasRow'
  BY <1>1 DEF AccountVmHasRow
<1> QED
  BY <1>1, <1>3, <1>4, <1>5, <1>6, RequestMoves

\* The account names the new VM.
LEMMA UpdateVmStep ==
    ASSUME RegInv, NEW r \in Requests, UpdateAccountVMInfo(r)
    PROVE  RegInv'
<1> USE DEF RegInv, AccountInv, RegTypes
<1>0. Knows(r) /\ reg[r].pc \in {"tag"}
  BY DEF RequestsKnow, UpdateAccountVMInfo
<1>1. /\ UNCHANGED <<fleetVars, work, cloud, cmdFailed, Rows>>
      /\ UNCHANGED <<login, givenUp, strayed>>
      /\ reg[r].email \in Names /\ reg[r].vm \in VMs /\ reg[r].vm \in Rows
      /\ overtaken' \subseteq overtaken \cup {reg[r].email}
      /\ moved' \subseteq moved \cup {reg[r].email}
      /\ \/ UNCHANGED accounts
         \/ /\ accounts[reg[r].email] # NoRow
            /\ accounts' = [accounts EXCEPT ![reg[r].email].vm = reg[r].vm]
      /\ \/ UNCHANGED projects
         \/ projects' = [projects EXCEPT ![reg[r].email] = reg[r].vm]
  BY <1>0, AccountsAssumption
     DEF Knows, historyVars, fleetVars, cloudVars, rowVars, faultVars, Rows, UpdateAccountVMInfo
<1>2. Moved(reg', r, "check", reg[r].vm, reg[r].ip, reg[r].host)
  BY GotoShape DEF UpdateAccountVMInfo, Goto, RegPc
<1>3. Knows(r)'
  BY <1>0, <1>1, <1>2 DEF Knows, Moved, Ended
<1>4. RegTypes' /\ \A q \in Requests \ {r} : reg'[q] = reg[q]
  BY <1>2 DEF Moved, Ended
<1>a. \/ UNCHANGED accounts
      \/ \E x \in StatusRow : x.vm = reg[r].vm /\ accounts' = [accounts EXCEPT ![reg[r].email] = x]
  <2> SUFFICES ASSUME accounts[reg[r].email] # NoRow,
                      accounts' = [accounts EXCEPT ![reg[r].email].vm = reg[r].vm]
               PROVE  \E x \in StatusRow : /\ x.vm = reg[r].vm
                                           /\ accounts' = [accounts EXCEPT ![reg[r].email] = x]
    BY <1>1
  <2>1. accounts[reg[r].email] \in {NoRow} \cup StatusRow
    BY <1>1 DEF AccountTypes
  <2>2. /\ [accounts[reg[r].email] EXCEPT !.vm = reg[r].vm] \in StatusRow
        /\ [accounts[reg[r].email] EXCEPT !.vm = reg[r].vm].vm = reg[r].vm
    BY <1>1, <2>1, RowTagged
  <2> QED
    BY <2>2
<1>5. AccountTypes'
  <2>1. accounts' \in [Names -> {NoRow} \cup StatusRow]
    BY <1>1, <1>a DEF AccountTypes
  <2>2. projects' \in [Names -> VMs \cup {None, NoProject}]
    BY <1>1 DEF AccountTypes
  <2> QED
    BY <1>1, <2>1, <2>2 DEF AccountTypes
<1>6. AccountVmHasRow'
  <2>1. \A n \in Names : accounts'[n].vm \in {accounts[n].vm, reg[r].vm}
    BY <1>1, <1>a DEF AccountTypes
  <2>2. \A n \in Names : projects'[n] \in {projects[n], reg[r].vm}
    BY <1>1 DEF AccountTypes
  <2> QED
    BY <1>1, <2>1, <2>2 DEF AccountVmHasRow
<1> QED
  BY <1>1, <1>3, <1>4, <1>5, <1>6, RequestMoves

\* The accounts of the VM are listed.
LEMMA CheckStep ==
    ASSUME RegInv, NEW r \in Requests, CheckTargetAccount(r)
    PROVE  RegInv'
<1> USE DEF RegInv, AccountInv, RegTypes
<1>0. Knows(r) /\ reg[r].pc \in {"check"}
  BY DEF RequestsKnow, CheckTargetAccount, Stray
<1>1. /\ UNCHANGED <<fleetVars, work, cloud, cmdFailed, Rows>>
      /\ UNCHANGED <<accounts, projects, login, givenUp, moved, overtaken>>
      /\ strayed' \subseteq strayed \cup {reg[r].email}
  BY <1>0, AccountsAssumption
     DEF Knows, historyVars, fleetVars, cloudVars, rowVars, faultVars, Rows,
         CheckTargetAccount, Stray
<1>2. \E p \in {"save", "switch", "login"} :
         Moved(reg', r, p, reg[r].vm, reg[r].ip, reg[r].host)
  <2>1. PICK w \in Reached(r) : \E answer \in Listed(w, reg[r].email) :
          CASE answer = "active"    -> Goto(r, "save")
            [] answer = "inactive"  -> Goto(r, "switch")
            [] answer = "not_login" -> Goto(r, "login")
    BY DEF CheckTargetAccount
  <2>2. \A answer \in Listed(w, reg[r].email) : answer \in {"not_login", "inactive", "active"}
    BY <1>0 DEF Knows, AccountTypes, AccountAuthStatus, Reached, Listed
  <2>3. \E p \in {"save", "switch", "login"} : Goto(r, p)
    BY <2>1, <2>2
  <2> QED
    BY <2>3, GotoShape DEF Goto, RegPc
<1>3. Knows(r)'
  BY <1>0, <1>1, <1>2 DEF Knows, Moved, Ended
<1>4. RegTypes' /\ \A q \in Requests \ {r} : reg'[q] = reg[q]
  BY <1>2 DEF Moved, Ended
<1>5. AccountTypes'
  BY <1>0, <1>1 DEF AccountTypes, Knows
<1>6. AccountVmHasRow'
  BY <1>1 DEF AccountVmHasRow
<1> QED
  BY <1>1, <1>3, <1>4, <1>5, <1>6, RequestMoves

\* The account becomes the active one.
LEMMA SwitchStep ==
    ASSUME RegInv, NEW r \in Requests, SwitchToAccount(r)
    PROVE  RegInv'
<1> USE DEF RegInv, AccountInv, RegTypes
<1>0. Knows(r) /\ reg[r].pc \in {"switch"}
  BY DEF RequestsKnow, SwitchToAccount, Stray, Reached
<1>1. /\ UNCHANGED <<fleetVars, work, cloud, cmdFailed, Rows>>
      /\ UNCHANGED <<accounts, projects, givenUp, moved>>
      /\ overtaken' \subseteq overtaken \cup {reg[r].email}
      /\ strayed' \subseteq strayed \cup {reg[r].email}
      /\ (login' = login \/ \E w \in VMs : Activate(w, reg[r].email))
  BY <1>0, AccountsAssumption
     DEF Knows, historyVars, fleetVars, cloudVars, rowVars, faultVars, Rows,
         SwitchToAccount, Stray, Reached
<1>2. \E p \in {"save", "saveFailed"} : Moved(reg', r, p, reg[r].vm, reg[r].ip, reg[r].host)
  <2>1. \E p \in {"save", "saveFailed"} : Goto(r, p)
    BY DEF SwitchToAccount
  <2> QED
    BY <2>1, GotoShape DEF Goto, RegPc
<1>3. Knows(r)'
  BY <1>0, <1>1, <1>2 DEF Knows, Moved, Ended
<1>4. RegTypes' /\ \A q \in Requests \ {r} : reg'[q] = reg[q]
  BY <1>2 DEF Moved, Ended
<1>5. AccountTypes'
  <2>1. login' \in [VMs -> [Emails -> AccountAuthStatus]]
    BY <1>0, <1>1, Activated DEF Knows, AccountTypes
  <2>2. reg[r].email \in Emails /\ reg[r].email \in Names
    BY <1>0, AccountsAssumption DEF Knows
  <2> QED
    BY <1>1, <2>1, <2>2 DEF AccountTypes
<1>6. AccountVmHasRow'
  BY <1>1 DEF AccountVmHasRow
<1> QED
  BY <1>1, <1>3, <1>4, <1>5, <1>6, RequestMoves

\* A login begins.
LEMMA DoLoginStep ==
    ASSUME RegInv, NEW r \in Requests, DoLogin(r)
    PROVE  RegInv'
<1> USE DEF RegInv, AccountInv, RegTypes
<1>0. Knows(r) /\ reg[r].pc \in {"login"}
  BY DEF RequestsKnow, DoLogin, Stray
<1>1. /\ UNCHANGED <<fleetVars, work, cloud, cmdFailed, Rows>>
      /\ UNCHANGED <<accounts, projects, login, givenUp, moved, overtaken>>
      /\ strayed' \subseteq strayed \cup {reg[r].email}
  BY <1>0, AccountsAssumption
     DEF Knows, historyVars, fleetVars, cloudVars, rowVars, faultVars, Rows, DoLogin, Stray
<1>2. \E w \in VMs : Moved(reg', r, "session", reg[r].vm, reg[r].ip, w)
  BY HostShape DEF DoLogin, Reached, RegPc
<1>3. Knows(r)'
  BY <1>0, <1>1, <1>2 DEF Knows, Moved, Ended
<1>4. RegTypes' /\ \A q \in Requests \ {r} : reg'[q] = reg[q]
  BY <1>2 DEF Moved, Ended
<1>5. AccountTypes'
  BY <1>0, <1>1 DEF AccountTypes, Knows
<1>6. AccountVmHasRow'
  BY <1>1 DEF AccountVmHasRow
<1> QED
  BY <1>1, <1>3, <1>4, <1>5, <1>6, RequestMoves

\* It ends, and the account is in, whatever the answer.
LEMMA CompleteStep ==
    ASSUME RegInv, NEW r \in Requests, CompleteLoginToken(r)
    PROVE  RegInv'
<1> USE DEF RegInv, AccountInv, RegTypes
<1>0. Knows(r) /\ reg[r].pc \in {"session"}
  BY DEF RequestsKnow, CompleteLoginToken
<1>1. /\ UNCHANGED <<fleetVars, work, cloud, cmdFailed, Rows>>
      /\ UNCHANGED <<accounts, projects, givenUp, moved, strayed>>
      /\ overtaken' \subseteq overtaken \cup {reg[r].email}
      /\ Activate(reg[r].host, reg[r].email)
  BY <1>0, AccountsAssumption
     DEF Knows, historyVars, fleetVars, cloudVars, rowVars, faultVars, Rows, CompleteLoginToken
<1>2. Moved(reg', r, "verify", reg[r].vm, reg[r].ip, None) \/ Ended(r)
  BY HostShape, EndShape DEF CompleteLoginToken, RegPc
<1>3. Knows(r)'
  BY <1>0, <1>1, <1>2 DEF Knows, Moved, Ended
<1>4. RegTypes' /\ \A q \in Requests \ {r} : reg'[q] = reg[q]
  BY <1>2 DEF Moved, Ended
<1>5. AccountTypes'
  <2>1. login' \in [VMs -> [Emails -> AccountAuthStatus]]
    BY <1>0, <1>1, Activated DEF Knows, AccountTypes
  <2>2. reg[r].email \in Names
    BY <1>0, AccountsAssumption DEF Knows
  <2> QED
    BY <1>1, <2>1, <2>2 DEF AccountTypes
<1>6. AccountVmHasRow'
  BY <1>1 DEF AccountVmHasRow
<1> QED
  BY <1>1, <1>3, <1>4, <1>5, <1>6, RequestMoves

\* The accounts are listed again.
LEMMA VerifyStep ==
    ASSUME RegInv, NEW r \in Requests, VerifyLogin(r)
    PROVE  RegInv'
<1> USE DEF RegInv, AccountInv, RegTypes
<1>0. Knows(r) /\ reg[r].pc \in {"verify"}
  BY DEF RequestsKnow, VerifyLogin, Stray
<1>1. /\ UNCHANGED <<fleetVars, work, cloud, cmdFailed, Rows>>
      /\ UNCHANGED <<accounts, projects, login, givenUp, moved, overtaken>>
      /\ strayed' \subseteq strayed \cup {reg[r].email}
  BY <1>0, AccountsAssumption
     DEF Knows, historyVars, fleetVars, cloudVars, rowVars, faultVars, Rows, VerifyLogin, Stray
<1>2. Moved(reg', r, "record", reg[r].vm, reg[r].ip, reg[r].host) \/ Ended(r)
  BY GotoShape, EndShape DEF VerifyLogin, Goto, RegPc
<1>3. Knows(r)'
  BY <1>0, <1>1, <1>2 DEF Knows, Moved, Ended
<1>4. RegTypes' /\ \A q \in Requests \ {r} : reg'[q] = reg[q]
  BY <1>2 DEF Moved, Ended
<1>5. AccountTypes'
  BY <1>0, <1>1 DEF AccountTypes, Knows
<1>6. AccountVmHasRow'
  BY <1>1 DEF AccountVmHasRow
<1> QED
  BY <1>1, <1>3, <1>4, <1>5, <1>6, RequestMoves

\* The status row is written.
LEMMA SaveStep ==
    ASSUME RegInv, NEW r \in Requests, CreateOrUpdateAccountStatus(r)
    PROVE  RegInv'
<1> USE DEF RegInv, AccountInv, RegTypes
<1>0. Knows(r) /\ reg[r].pc \in {"save", "saveFailed", "record"}
  BY DEF RequestsKnow, CreateOrUpdateAccountStatus
<1>1. /\ UNCHANGED <<fleetVars, work, cloud, cmdFailed, Rows>>
      /\ UNCHANGED <<projects, login, givenUp, strayed>>
      /\ SavedName(r) \in Names /\ reg[r].vm \in VMs /\ reg[r].vm \in Rows
      /\ overtaken' \subseteq overtaken \cup {reg[r].email}
      /\ moved' \subseteq moved
      /\ \/ UNCHANGED accounts
         \/ \E s \in AuthStatus :
               accounts' = [accounts EXCEPT ![SavedName(r)] = [vm |-> reg[r].vm, auth |-> s]]
  BY <1>0, AccountsAssumption
     DEF Knows, historyVars, fleetVars, cloudVars, rowVars, faultVars, Rows, SavedName, AuthStatus,
         CreateOrUpdateAccountStatus
<1>2. Ended(r)
  BY EndShape DEF CreateOrUpdateAccountStatus
<1>3. Knows(r)'
  BY <1>0, <1>1, <1>2 DEF Knows, Moved, Ended
<1>4. RegTypes' /\ \A q \in Requests \ {r} : reg'[q] = reg[q]
  BY <1>2 DEF Moved, Ended
<1>5. AccountTypes'
  <2>1. \A s \in AuthStatus : [vm |-> reg[r].vm, auth |-> s] \in StatusRow
    BY <1>1 DEF StatusRow
  <2>2. accounts' \in [Names -> {NoRow} \cup StatusRow]
    BY <1>1, <2>1 DEF AccountTypes
  <2>3. overtaken' \subseteq Names
    BY <1>0, <1>1, AccountsAssumption DEF AccountTypes, Knows
  <2> QED
    BY <1>1, <2>2, <2>3 DEF AccountTypes
<1>6. AccountVmHasRow'
  BY <1>1 DEF AccountVmHasRow, AccountTypes
<1> QED
  BY <1>1, <1>3, <1>4, <1>5, <1>6, RequestMoves

\* The request ends with an error.
LEMMA GiveUpStep ==
    ASSUME RegInv, NEW r \in Requests, GiveUp(r)
    PROVE  RegInv'
<1> USE DEF RegInv, AccountInv, RegTypes
<1>0. Knows(r) /\ reg[r].pc \in {"find", "create", "creating", "check", "login", "session",
                              "verify"}
  BY DEF RequestsKnow, GiveUp
<1>1. /\ UNCHANGED <<fleetVars, work, cloud, cmdFailed, Rows>>
      /\ UNCHANGED <<accounts, projects, login, givenUp, moved, strayed>>
      /\ overtaken' \subseteq overtaken \cup {reg[r].email}
  BY <1>0, AccountsAssumption
     DEF Knows, historyVars, fleetVars, cloudVars, rowVars, faultVars, Rows, GiveUp
<1>2. Ended(r)
  BY EndShape DEF GiveUp
<1>3. Knows(r)'
  BY <1>0, <1>1, <1>2 DEF Knows, Moved, Ended
<1>4. RegTypes' /\ \A q \in Requests \ {r} : reg'[q] = reg[q]
  BY <1>2 DEF Moved, Ended
<1>5. AccountTypes'
  BY <1>0, <1>1, AccountsAssumption DEF AccountTypes, Knows
<1>6. AccountVmHasRow'
  BY <1>1 DEF AccountVmHasRow
<1> QED
  BY <1>1, <1>3, <1>4, <1>5, <1>6, RequestMoves

\* A request reads the VM of its account.
LEMMA StartStep ==
    ASSUME RegInv, NEW r \in Requests, NEW e \in Emails, StartAccountRegistration(r, e)
    PROVE  RegInv'
<1> USE DEF RegInv, AccountInv, RegTypes
<1>1. /\ UNCHANGED <<fleetVars, work, Rows, accounts, projects, login, givenUp, moved, strayed>>
      /\ overtaken' \subseteq overtaken \cup {e}
      /\ e \in Names
  BY AccountsAssumption DEF StartAccountRegistration, fleetVars, rowVars, Rows
<1>2. accounts[e].vm \in VMs \cup {None}
  BY <1>1 DEF AccountTypes, NoRow, StatusRow
<1>3. /\ RegTypes'
      /\ reg'[r].email = e /\ reg'[r].vm = accounts[e].vm
      /\ reg'[r].pc = IF accounts[e].vm = None THEN "create" ELSE "find"
      /\ \A q \in Requests \ {r} : reg'[q] = reg[q]
  BY <1>2 DEF StartAccountRegistration, RegRecord, RegPc
<1>4. Knows(r)'
  BY <1>1, <1>2, <1>3 DEF Knows, AccountVmHasRow
<1>5. AccountTypes'
  BY <1>1 DEF AccountTypes
<1>6. AccountVmHasRow'
  BY <1>1 DEF AccountVmHasRow
<1> QED
  BY <1>1, <1>3, <1>4, <1>5, <1>6, RequestMoves

\* The row of the VM is written off, or the database refuses.
LEMMA WriteOffStep ==
    ASSUME RegInv, NEW r \in Requests, WriteOff(r)
    PROVE  RegInv'
<1> USE FleetFacts DEF RegInv, AccountInv, RegTypes, historyVars
<1>1. Moved(reg', r, "untag", reg[r].vm, reg[r].ip, reg[r].host)
  BY GotoShape DEF WriteOff, Goto, RegPc, RequestsKnow, Knows
<1>2. RegTypes'
  BY <1>1 DEF Moved
<1>3. AccountTypes'
  BY DEF WriteOff, AccountTypes
<1>4. UNCHANGED <<cloud, cmdFailed, givenUp>>
  BY DEF WriteOff, cloudVars, faultVars
<1>5. F!FleetInv' /\ Rows \subseteq Rows'
  <2>1. CASE reg[r].vm \in Rows /\ UpdateStatus(reg[r].vm, "Deleted")
    <3>1. F!FleetInv'
      BY <2>1, FleetWrittenOff DEF WriteOff, RequestsKnow, Knows
    <3>2. Rows \subseteq Rows'
      BY <2>1 DEF Rows, UpdateStatus, FleetTypeOK
    <3> QED
      BY <3>1, <3>2
  <2>2. CASE UNCHANGED rowVars
    BY <2>2, <1>3, <1>4, FleetStays DEF WriteOff, fleetVars, AccountTypes, rowVars, Rows
  <2> QED
    BY <2>1, <2>2 DEF WriteOff
<1>6. RequestsKnow'
  BY <1>1, <1>4, <1>5 DEF RequestsKnow, Knows, Moved, WriteOff
<1>7. AccountVmHasRow' /\ WorkKnown'
  BY <1>5 DEF WriteOff, AccountVmHasRow, WorkKnown
<1> QED
  BY <1>2, <1>3, <1>5, <1>6, <1>7

\* A request calls CreateVM.
LEMMA CreateAccountStep ==
    ASSUME RegInv, NEW r \in Requests, NEW v \in VMs, CreateAccountVM(r, v)
    PROVE  RegInv'
<1> USE DEF RegInv, AccountInv, RegTypes, historyVars
<1>1. Moved(reg', r, "creating", v, reg[r].ip, reg[r].host)
  BY VmShape DEF CreateAccountVM, RegPc
<1>2. RegTypes'
  BY <1>1 DEF Moved
<1>3. AccountTypes'
  BY DEF CreateAccountVM, AccountTypes
<1>4. UNCHANGED <<cloud, status, cmdFailed, givenUp, Rows>>
  BY DEF CreateAccountVM, RequestVM, cloudVars, rowVars, faultVars, Rows
<1>5. F!FleetInv'
  <2>1. F!RequestVM(v)
    BY DEF CreateAccountVM, RequestVM, F!RequestVM, cloudVars, rowVars, sweepVars, v2Vars,
           faultVars, F!cloudVars, F!rowVars, F!sweepVars, F!v2Vars, F!faultVars
  <2> QED
    BY <2>1, F!RequestStep, FleetAssumption DEF FleetAssumption, F!FleetAssumption
<1>6. RequestsKnow'
  BY <1>1, <1>4, FleetAssumption DEF RequestsKnow, Knows, Moved, CreateAccountVM
<1>7. AccountVmHasRow' /\ WorkKnown'
  BY <1>4 DEF CreateAccountVM, AccountVmHasRow, WorkKnown
<1> QED
  BY <1>2, <1>3, <1>5, <1>6, <1>7

\* A post-login run loads the rows of an account, saves them, and ends.
LEMMA ProcessStep ==
    ASSUME RegInv, NEW n \in Names, ProcessProjects(n) \/ SaveProject(n) \/ EndProcessing(n)
    PROVE  RegInv'
<1> USE FleetAssumption, AccountsAssumption DEF RegInv, AccountInv, RegTypes, historyVars
<1> DEFINE seen == IF projects[n] = NoProject THEN accounts[n].vm ELSE projects[n]
<1>a. ASSUME ProcessProjects(n)
      PROVE  /\ seen \in VMs \cup {None} /\ (seen # None => seen \in Rows)
             /\ work' = [work EXCEPT ![n] = [busy |-> TRUE, seen |-> seen]]
             /\ overtaken' \subseteq overtaken \cup {n}
             /\ UNCHANGED <<accounts, projects, login, givenUp, moved, strayed>>
  BY <1>a DEF ProcessProjects, AccountTypes, AccountVmHasRow, NoRow, StatusRow
<1>b. ASSUME SaveProject(n) \/ EndProcessing(n)
      PROVE  /\ (work' = work \/ work' = [work EXCEPT ![n] = Idle])
             /\ UNCHANGED <<accounts, login, givenUp, moved, strayed, overtaken>>
             /\ (projects' = projects \/ projects' = [projects EXCEPT ![n] = work[n].seen])
  BY <1>b DEF SaveProject, EndProcessing
<1> HIDE DEF seen
<1>1. AccountTypes'
  <2>1. CASE ProcessProjects(n)
    <3> DEFINE busy == [busy |-> TRUE, seen |-> seen]
    <3>1. busy \in [busy : BOOLEAN, seen : VMs \cup {None}] /\ work' = [work EXCEPT ![n] = busy]
      BY <1>a, <2>1
    <3> HIDE DEF busy
    <3>2. work' \in [Names -> [busy : BOOLEAN, seen : VMs \cup {None}]]
      BY <1>a, <2>1, <3>1 DEF AccountTypes
    <3>3. overtaken' \subseteq Names
      BY <1>a, <2>1 DEF AccountTypes
    <3> QED
      BY <1>a, <2>1, <3>2, <3>3 DEF AccountTypes
  <2>2. CASE SaveProject(n) \/ EndProcessing(n)
    <3>1. Idle \in [busy : BOOLEAN, seen : VMs \cup {None}] /\ work[n].seen \in VMs \cup {None}
      BY DEF Idle, AccountTypes
    <3>2. work' \in [Names -> [busy : BOOLEAN, seen : VMs \cup {None}]]
      BY <1>b, <2>2, <3>1 DEF AccountTypes
    <3>3. projects' \in [Names -> VMs \cup {None, NoProject}]
      BY <1>b, <2>2, <3>1 DEF AccountTypes
    <3> QED
      BY <1>b, <2>2, <3>2, <3>3 DEF AccountTypes
  <2> QED
    BY <2>1, <2>2
<1>2. UNCHANGED <<cloud, status, cmdFailed, givenUp, reg, Rows>> /\ F!FleetInv'
  BY <1>1, FleetStays DEF ProcessProjects, SaveProject, EndProcessing, AccountTypes, fleetVars,
                          cloudVars, rowVars, faultVars, Rows
<1>3. RequestsKnow' /\ RegTypes'
  BY <1>2 DEF RequestsKnow, Knows
<1>4. AccountVmHasRow'
  BY <1>2 DEF ProcessProjects, SaveProject, EndProcessing, AccountVmHasRow, WorkKnown, AccountTypes
<1>5. WorkKnown'
  BY <1>2, <1>a, <1>b DEF WorkKnown, AccountTypes, Idle
<1> QED
  BY <1>1, <1>2, <1>3, <1>4, <1>5

\* The fleet goes on.
LEMMA FleetMovesStep ==
    ASSUME RegInv, FleetStep
    PROVE  RegInv'
<1> USE DEF RegInv, AccountInv, RegTypes, FleetStep, accountVars, historyVars
<1>1. F!FleetInv'
  BY FleetMoves, F!NextFleet, FleetAssumption DEF FleetAssumption, F!FleetAssumption
<1>2. AccountTypes' /\ RegTypes'
  BY DEF AccountTypes
<1>3. /\ Rows \subseteq Rows' /\ cmdFailed \subseteq cmdFailed'
      /\ \A v \in Rows : cloud'[v] = "running" => cloud[v] = "running"
  <2>1. Rows \subseteq VMs
    BY DEF Rows
  <2> QED
    BY <2>1, RowsStay
<1>4. RequestsKnow'
  BY <1>3 DEF RequestsKnow, Knows
<1>5. AccountVmHasRow' /\ WorkKnown'
  BY <1>3 DEF AccountVmHasRow, WorkKnown
<1> QED
  BY <1>1, <1>2, <1>4, <1>5

LEMMA NextReg == RegInv /\ [Next]_vars => RegInv'
<1> SUFFICES ASSUME RegInv, [Next]_vars PROVE RegInv'
  OBVIOUS
<1>1. ASSUME NEW r \in Requests, Register(r) PROVE RegInv'
  BY <1>1, StartStep, FindVmStep, DescribeStep, WriteOffStep, ClearTagStep, CreateAccountStep,
     GetCreatedStep, UpdateVmStep, CheckStep, SwitchStep, DoLoginStep, CompleteStep, VerifyStep,
     SaveStep, GiveUpStep DEF Register
<1>2. CASE UNCHANGED vars
  <2>1. F!FleetInv'
    BY <1>2, FleetStays DEF vars, historyVars, RegInv, AccountInv, AccountTypes
  <2>2. UNCHANGED <<cloud, status, cmdFailed, Rows>>
    BY <1>2 DEF vars, fleetVars, cloudVars, rowVars, faultVars, Rows
  <2>3. AccountInv'
    BY <1>2, <2>2 DEF vars, accountVars, historyVars, RegInv, AccountInv, AccountTypes, RegTypes,
                      RequestsKnow, Knows, AccountVmHasRow, WorkKnown
  <2> QED
    BY <2>1, <2>3 DEF RegInv
<1> QED
  BY <1>1, <1>2, ProcessStep, FleetMovesStep DEF Next

-----------------------------------------------------------------------------
(***************************************************************************)
(* The invariant holds in every reachable state.                           *)
(***************************************************************************)
THEOREM RegInvariance == Spec => []RegInv
BY InitReg, NextReg, PTL DEF Spec

(***************************************************************************)
(* Every variable of the accounts and of the fleet beneath them keeps its  *)
(* type, and a request that is under way has its account and its VM.       *)
(***************************************************************************)
THEOREM RegTypeCorrect == Spec => []TypeOK
<1>1. RegInv => TypeOK
  BY FleetFacts DEF RegInv, AccountInv, AccountTypes, RegTypes, RegRecord, RequestsKnow, Knows,
                   TypeOK
<1> QED
  BY <1>1, RegInvariance, PTL

(***************************************************************************)
(* No account, and no project of one, names a VM without a row, however    *)
(* many inserts and updates fail: StartAccountRegistration looks the row   *)
(* up after CreateVM, and post-login processing copies vm_id from rows.    *)
(***************************************************************************)
THEOREM VmsOfAccountsHaveRows == Spec => []AccountVmHasRow
<1>1. RegInv => AccountVmHasRow
  BY DEF RegInv, AccountInv
<1> QED
  BY <1>1, RegInvariance, PTL

(***************************************************************************)
(* Registration adds two ways, and no third, to have a row Deleted while   *)
(* its instance runs: the command that describes it failed, or it was      *)
(* marked PendingDelete when cleanAccountVmIdTag took it for gone.         *)
(***************************************************************************)
THEOREM NoOtherLeaks == Spec => []NoOtherLeak
<1>1. RegInv => NoOtherLeak
  BY FleetFacts DEF RegInv, NoOtherLeak
<1> QED
  BY <1>1, RegInvariance, PTL
(***************************************************************************)
(* Registration, which writes rows off and creates VMs beside the fleet's  *)
(* own callers, leaves no VM Running or Pending after its instance is      *)
(* gone, under the conditions that the fleet has by itself.                *)
(***************************************************************************)
THEOREM NoZombieAccounts == Spec => []NoZombie
<1>1. RegInv => NoZombie
  BY DEF RegInv, F!FleetInv, F!NoZombie, F!BeingMarked, NoZombie, BeingMarked
<1> QED
  BY <1>1, RegInvariance, PTL
=============================================================================
