----------------------- MODULE ProxyReplacementProofs ------------------------
(***************************************************************************)
(* What holds of the proxies for any number of VMs, addresses, tokens and  *)
(* callers, and whatever statement or command fails.                       *)
(***************************************************************************)
EXTENDS ProxyReplacement, VmFleetProofs

-----------------------------------------------------------------------------
(***************************************************************************)
(* What a step of the fleet may do to the state that the proxies rest on.  *)
(***************************************************************************)

\* It runs, and DeleteVM has not failed to delete it.
Sound(v) == cloud[v] = "running" /\ v \notin cmdFailed

\* A VM that has been created stays so, with its proxy, and is not started again;
\* its row stays; and nobody in the fleet asks for a deletion in the name of a
\* replacement.
Progress ==
    \A v \in VMs :
        /\ creating[v] = "done" => creating'[v] = "done" /\ proxy'[v] = proxy[v]
        /\ creating[v] = "done" /\ Sound(v)' => Sound(v)
        /\ status[v] # "none" => status'[v] # "none"
        /\ del'["replacement"][v] = "asked" => del["replacement"][v] = "asked"
        /\ del["replacement"][v] = "idle" => del'["replacement"][v] = "idle"

LEMMA CreateProgress ==
    ASSUME FleetInv, NEW v \in VMs, CreateVM(v)
    PROVE  Progress /\ UNCHANGED v2Vars
<1> USE DEF FleetInv, FleetTypeOK, Instances, Progress, Sound, cloudVars, createVars, rowVars, v2Vars,
            faultVars
<1>1. ASSUME CreateFails(v) PROVE Progress /\ UNCHANGED v2Vars
  BY <1>1 DEF CreateFails
<1>2. ASSUME CreateInstance(v) PROVE Progress /\ UNCHANGED v2Vars
  BY <1>2 DEF CreateInstance
<1>3. ASSUME FindIP(v) PROVE Progress /\ UNCHANGED v2Vars
  BY <1>3 DEF FindIP
<1>4. ASSUME SaveRow(v) PROVE Progress /\ UNCHANGED v2Vars
  BY <1>4 DEF SaveRow
<1>5. ASSUME SaveRowFails(v) PROVE Progress /\ UNCHANGED v2Vars
  BY <1>5 DEF SaveRowFails
<1> QED
  BY <1>1, <1>2, <1>3, <1>4, <1>5 DEF CreateVM

LEMMA DeleteProgress ==
    ASSUME FleetInv, NEW c \in Callers, NEW v \in VMs, DeleteVM(c, v)
    PROVE  Progress /\ UNCHANGED v2Vars
<1> USE ProxyAssumption
        DEF FleetInv, FleetTypeOK, Progress, Sound, cloudVars, createVars, rowVars, v2Vars, faultVars
<1>1. ASSUME FindRowFails(c, v) PROVE Progress /\ UNCHANGED v2Vars
  BY <1>1 DEF FindRowFails
<1>2. ASSUME DeleteInstance(c, v) PROVE Progress /\ UNCHANGED v2Vars
  BY <1>2 DEF DeleteInstance, InstanceGone
<1>3. ASSUME DeleteInstanceFails(c, v) PROVE Progress /\ UNCHANGED v2Vars
  BY <1>3 DEF DeleteInstanceFails
<1>4. ASSUME MarkDeleted(c, v) PROVE Progress /\ UNCHANGED v2Vars
  BY <1>4 DEF MarkDeleted, UpdateStatus
<1>5. ASSUME MarkDeletedFails(c, v) PROVE Progress /\ UNCHANGED v2Vars
  BY <1>5 DEF MarkDeletedFails
<1> QED
  BY <1>1, <1>2, <1>3, <1>4, <1>5 DEF DeleteVM

LEMMA SweepProgress ==
    ASSUME FleetInv, CleanupOldVMs
    PROVE  Progress /\ UNCHANGED v2Vars
<1> USE DEF FleetInv, FleetTypeOK, Progress, Sound, cloudVars, createVars, rowVars, v2Vars, faultVars
<1>1. ASSUME StartSweep PROVE Progress /\ UNCHANGED v2Vars
  BY <1>1 DEF StartSweep
<1>2. ASSUME NEW v \in VMs, SweepDelete(v) PROVE Progress /\ UNCHANGED v2Vars
  BY <1>2 DEF SweepDelete, InstanceGone
<1>3. ASSUME NEW v \in VMs, SweepDeleteFails(v) PROVE Progress /\ UNCHANGED v2Vars
  BY <1>3 DEF SweepDeleteFails, InstanceGone
<1>4. ASSUME NEW v \in VMs, SweepMark(v) PROVE Progress /\ UNCHANGED v2Vars
  BY <1>4 DEF SweepMark, UpdateStatus
<1>5. ASSUME NEW v \in VMs, SweepMarkFails(v) PROVE Progress /\ UNCHANGED v2Vars
  BY <1>5 DEF SweepMarkFails
<1> QED
  BY <1>1, <1>2, <1>3, <1>4, <1>5 DEF CleanupOldVMs

LEMMA RefreshProgress ==
    ASSUME FleetInv, NEW v \in Refreshed, RefreshVMIP(v) \/ Readdress(v)
    PROVE  Progress /\ UNCHANGED v2Vars
<1> USE FleetAssumption
        DEF FleetInv, FleetTypeOK, Workers, Progress, Sound, cloudVars, createVars, rowVars, v2Vars,
            faultVars
<1>1. ASSUME RefreshRead(v) PROVE Progress /\ UNCHANGED v2Vars
  BY <1>1 DEF RefreshRead
<1>2. ASSUME RefreshNothing(v) PROVE Progress /\ UNCHANGED v2Vars
  BY <1>2 DEF RefreshNothing
<1>3. ASSUME RefreshFind(v) PROVE Progress /\ UNCHANGED v2Vars
  BY <1>3 DEF RefreshFind
<1>4. ASSUME RefreshSave(v) PROVE Progress /\ UNCHANGED v2Vars
  BY <1>4 DEF RefreshSave
<1>5. ASSUME RefreshSaveFails(v) PROVE Progress /\ UNCHANGED v2Vars
  BY <1>5 DEF RefreshSaveFails
<1>6. ASSUME Readdress(v) PROVE Progress /\ UNCHANGED v2Vars
  BY <1>6 DEF Readdress
<1> QED
  BY <1>1, <1>2, <1>3, <1>4, <1>5, <1>6 DEF RefreshVMIP

LEMMA RequestsProgress ==
    ASSUME FleetInv, FleetRequests
    PROVE  Progress /\ UNCHANGED v2Vars
<1> USE ProxyAssumption
        DEF FleetInv, FleetTypeOK, Progress, Sound, cloudVars, createVars, rowVars, v2Vars, faultVars
<1>1. ASSUME NEW v \in Operated, RequestVM(v) PROVE Progress /\ UNCHANGED v2Vars
  BY <1>1, FleetAssumption DEF RequestVM
<1>2. ASSUME NEW v \in Operated, HandlerDeletes(v) PROVE Progress /\ UNCHANGED v2Vars
  BY <1>2 DEF HandlerDeletes
<1>3. ASSUME CleanupPendingDeleteVMs PROVE Progress /\ UNCHANGED v2Vars
  BY <1>3 DEF CleanupPendingDeleteVMs
<1>4. ASSUME HourPasses PROVE Progress /\ UNCHANGED v2Vars
  BY <1>4 DEF HourPasses
<1> QED
  BY <1>1, <1>2, <1>3, <1>4, CreateProgress, DeleteProgress, SweepProgress, RefreshProgress
     DEF FleetRequests

LEMMA V2Progress ==
    ASSUME FleetInv, V2Begin \/ V2Done
    PROVE  Progress
<1> USE DEF FleetInv, FleetTypeOK, Workers, Progress, Sound, cloudVars, createVars, rowVars, faultVars
<1>1. ASSUME V2Find PROVE Progress
  BY <1>1 DEF V2Find
<1>2. ASSUME V2Mark PROVE Progress
  BY <1>2 DEF V2Mark
<1>3. ASSUME V2MarkFails \/ V2Refused \/ V2Done PROVE Progress
  BY <1>3 DEF V2MarkFails, V2Refused, V2Done
<1>4. ASSUME V2Create PROVE Progress
  BY <1>4 DEF V2Create, NewBatch
<1> QED
  BY <1>1, <1>2, <1>3, <1>4 DEF V2Begin

-----------------------------------------------------------------------------
(***************************************************************************)
(* The inductive invariant.                                                *)
(***************************************************************************)

\* The replacements and the sync take turns; what ReplaceProxyResource notes
\* down it has used up when it is done.
Turns ==
    /\ v1pc # "idle" => /\ v2pc = "idle" /\ spc = "idle"
                        /\ \A v \in VMs : del["replacement"][v] = "idle"
    /\ v2pc # "idle" => spc = "idle"
    /\ v1pc \notin {"finding", "waiting"} => victims = {}
    /\ moves # {} => v1pc = "moving"
    /\ lookups # {} => v1pc = "finding"

\* There is a latest batch.
Batches == \E n \in {createdAt[a] : a \in Addresses} : \A a \in Addresses : createdAt[a] <= n

\* What the sync has read are proxies of rows that have the type, and those of all
\* that were sound then, as a sound VM has no row that says Deleted.
Typed == {v \in Rows : TypeOf(v) = "server"}

TypedProxies == {proxy[v] : v \in Typed}

Synced ==
    /\ spc \in {"updating", "inserting"} => listed \subseteq TypedProxies
    /\ spc = "updating" => \A v \in Legacy : Sound(v) => proxy[v] \in listed

\* The VMs of the type were there at the start, with their rows.
LegacyThere == \A v \in Legacy : creating[v] = "done" /\ status[v] # "none"

PoolInv == FleetInv /\ TypeOK /\ Turns /\ Batches /\ Synced /\ LegacyThere

LEMMA InitPool == Init => PoolInv
<1> SUFFICES ASSUME Init PROVE PoolInv
  OBVIOUS
<1> USE DEF Init
<1>1. FleetInv
  BY InitFleet
<1>2. /\ \A v \in Initial : v \in VMs /\ address[v] \in Addresses /\ creating[v] = "done"
      /\ proxy = address
  BY FleetAssumption DEF FleetInit, Addresses
<1>3. TypeOK
  BY <1>2 DEF TypeOK, V1Pc, SyncPc
<1>4. Turns /\ Synced
  BY FleetAssumption, ProxyAssumption DEF Turns, Synced, FleetInit
<1>5. Batches
  <2>1. "pending" \in Addresses /\ \A a \in Addresses : createdAt[a] = 0
    BY DEF Addresses
  <2> QED
    BY <2>1 DEF Batches
<1>6. LegacyThere
  BY FleetAssumption, ProxyAssumption DEF LegacyThere, FleetInit
<1> QED
  BY <1>1, <1>3, <1>4, <1>5, <1>6 DEF PoolInv

(***************************************************************************)
(* The steps that change the fleet.                                        *)
(***************************************************************************)

\* The proxy of a row, and of a VM that was created, is an address.
LEMMA ProxiesAreAddresses ==
    ASSUME FleetInv
    PROVE  /\ \A v \in VMs : creating[v] = "done" => proxy[v] \in Addresses
           /\ Typed \subseteq Rows
           /\ \A v \in Rows : v \in VMs /\ creating[v] = "done"
           /\ TypedProxies \subseteq Addresses
BY DEF FleetInv, Instances, Rows, Typed, TypedProxies

\* What the fleet does keeps what the proxies rest on.
LEMMA ProgressKeeps ==
    ASSUME PoolInv, Progress, UNCHANGED proxyVars
    PROVE  TypeOK' /\ Batches' /\ Synced' /\ LegacyThere'
<1> USE DEF PoolInv, proxyVars, poolVars, v1Vars, leftVars, syncVars
<1>1. Rows \subseteq Rows' /\ Typed \subseteq Typed'
  BY DEF Progress, Rows, Typed
<1>2. TypeOK'
  BY <1>1 DEF TypeOK
<1>3. Batches'
  BY DEF Batches
<1>4. TypedProxies \subseteq TypedProxies'
  BY <1>1, ProxiesAreAddresses DEF TypedProxies, Progress
<1>5. Synced'
  BY <1>4, FleetAssumption, ProxyAssumption DEF Synced, LegacyThere, Progress
<1>6. LegacyThere'
  BY FleetAssumption, ProxyAssumption DEF LegacyThere, Progress
<1> QED
  BY <1>2, <1>3, <1>5, <1>6

LEMMA RequestsStep ==
    ASSUME PoolInv, FleetRequests, UNCHANGED proxyVars
    PROVE  PoolInv'
<1>1. Progress /\ UNCHANGED v2Vars
  BY RequestsProgress DEF PoolInv
<1>2. FleetInv'
  BY NextFleet DEF PoolInv, FleetNext
<1>3. Turns'
  BY <1>1 DEF PoolInv, Turns, Progress, v2Vars, proxyVars, v1Vars, leftVars, syncVars
<1> QED
  BY <1>1, <1>2, <1>3, ProgressKeeps DEF PoolInv

LEMMA ReplaceV2Step ==
    ASSUME PoolInv, ReplaceProxyResourceV2, UNCHANGED proxyVars
    PROVE  PoolInv'
<1> USE DEF ReplaceProxyResourceV2
<1>1. Progress
  BY V2Progress DEF PoolInv
<1>2. FleetInv'
  BY NextFleet DEF PoolInv, FleetNext
<1>3. v1pc = "idle" /\ spc = "idle"
  BY DEF PoolInv, Turns, Quiet
<1>4. Turns'
  BY <1>1, <1>3 DEF PoolInv, Turns, Progress, proxyVars, v1Vars, leftVars, syncVars
<1> QED
  BY <1>1, <1>2, <1>4, ProgressKeeps DEF PoolInv

LEMMA V2ReturnsStep ==
    ASSUME PoolInv, V2Returns
    PROVE  PoolInv'
<1> USE DEF V2Returns
<1>1. Progress /\ v2pc = "creating" /\ v2pc' = "idle"
  BY V2Progress DEF PoolInv, V2Done
<1>2. FleetInv'
  BY NextFleet DEF PoolInv, FleetNext
<1>3. v1pc = "idle" /\ spc = "idle" /\ spc' \in {"idle", "reading"}
  BY <1>1 DEF PoolInv, Turns
<1> USE DEF PoolInv, poolVars, v1Vars, leftVars
<1>4. Rows \subseteq Rows'
  BY <1>1 DEF Progress, Rows
<1>5. TypeOK'
  BY <1>3, <1>4 DEF TypeOK, SyncPc
<1>6. Turns' /\ Synced'
  BY <1>1, <1>3 DEF Turns, Synced
<1>7. Batches'
  BY DEF Batches
<1>8. LegacyThere'
  BY <1>1, FleetAssumption, ProxyAssumption DEF LegacyThere, Progress
<1> QED
  BY <1>2, <1>5, <1>6, <1>7, <1>8

\* The new VMs of a replacement are requested, its old ones given to DeleteVM.
LEMMA V1CreateStep ==
    ASSUME PoolInv, V1Create
    PROVE  PoolInv' /\ Progress
<1> USE FleetAssumption, ProxyAssumption
        DEF PoolInv, V1Create, NewBatch, cloudVars, rowVars, sweepVars, v2Vars, faultVars
<1>1. (FleetTypeOK /\ Instances /\ Workers)'
  <2>1. FleetTypeOK'
    BY DEF FleetInv, FleetTypeOK, Rows, CreatePc
  <2>2. Instances' /\ Workers'
    BY DEF FleetInv, FleetTypeOK, Instances, Workers
  <2> QED
    BY <2>1, <2>2
<1>2. (Commanded /\ NoLeak /\ NoZombie)'
  BY DEF FleetInv, Commanded, WrittenOff, NoLeak, NoZombie, BeingMarked
<1>3. Progress
  BY DEF Progress, Sound, FleetInv, FleetTypeOK
<1> USE DEF poolVars, leftVars, syncVars
<1>4. Rows = Rows' /\ Typed = Typed'
  BY DEF Rows, Typed
<1>5. TypeOK'
  BY <1>4 DEF TypeOK, V1Pc
<1>6. Turns' /\ Synced'
  BY DEF Turns, Synced, Quiet
<1>7. Batches'
  BY DEF Batches
<1>8. LegacyThere'
  BY <1>3 DEF LegacyThere, Progress
<1> QED
  BY <1>1, <1>2, <1>3, <1>5, <1>6, <1>7, <1>8 DEF FleetInv

LEMMA V1DeleteOldStep ==
    ASSUME PoolInv, V1DeleteOld
    PROVE  PoolInv'
<1> USE FleetAssumption, ProxyAssumption
        DEF PoolInv, V1DeleteOld, cloudVars, rowVars, createVars, sweepVars, v2Vars, faultVars
<1>1. /\ \A c \in Callers, v \in VMs :
            \/ del'[c][v] = del[c][v]
            \/ del'[c][v] = "asked" /\ v \in Rows /\ del[c][v] = "idle"
      /\ del' \in [Callers -> [VMs -> DeletePc]]
  BY DEF FleetInv, FleetTypeOK, TypeOK, Turns, DeletePc
<1>2. (FleetTypeOK /\ Instances)'
  BY <1>1 DEF FleetInv, FleetTypeOK, Instances, Rows
<1>3. (Workers /\ Commanded)'
  BY <1>1 DEF FleetInv, Workers, Commanded, WrittenOff, Rows
<1>4. (NoLeak /\ NoZombie)'
  <2>1. \A v \in VMs : BeingMarked(v) => BeingMarked(v)'
    BY <1>1 DEF BeingMarked
  <2> QED
    BY <2>1 DEF FleetInv, NoLeak, NoZombie
<1> USE DEF poolVars, leftVars, syncVars
<1>5. TypeOK' /\ Batches' /\ LegacyThere'
  BY DEF TypeOK, Rows, V1Pc, Batches, LegacyThere
<1>6. Turns' /\ Synced'
  BY DEF Turns, Synced
<1> QED
  BY <1>2, <1>3, <1>4, <1>5, <1>6 DEF FleetInv

(***************************************************************************)
(* The other steps of ReplaceProxyResource leave the fleet alone.          *)
(***************************************************************************)
LEMMA Standing ==
    ASSUME FleetInv, UNCHANGED fleetVars
    PROVE  FleetInv' /\ Progress /\ Rows' = Rows /\ TypedProxies' = TypedProxies
<1>1. FleetInv'
  BY NextFleet
<1>2. Progress /\ Rows' = Rows /\ TypedProxies' = TypedProxies
  BY DEF fleetVars, cloudVars, rowVars, createVars, faultVars, Progress, Sound, Rows, Typed,
         TypedProxies
<1> QED
  BY <1>1, <1>2

\* A proxy that is inserted is an address, and its batch is the latest.
LEMMA InsertKeeps ==
    ASSUME TypeOK, Batches, NEW S \in SUBSET Addresses, Insert(S)
    PROVE  /\ createdAt' \in [Addresses -> Nat] /\ Batches'
           /\ active' = active \cup S
<1>1. PICK n \in {createdAt[a] : a \in Addresses} : \A a \in Addresses : createdAt[a] <= n
  BY DEF Batches
<1>2. LastBatch \in Nat /\ \A a \in Addresses : createdAt[a] <= LastBatch
  BY <1>1 DEF LastBatch, TypeOK
<1>3. /\ createdAt' \in [Addresses -> Nat]
      /\ \A a \in Addresses : createdAt'[a] = IF a \in S THEN LastBatch + 1 ELSE createdAt[a]
  BY <1>2 DEF Insert, TypeOK
<1>4. CASE S = {}
  BY <1>1, <1>3, <1>4 DEF Insert, Batches, TypeOK
<1>5. CASE S # {}
  <2>1. PICK b \in S : createdAt'[b] = LastBatch + 1
    BY <1>3, <1>5
  <2>2. \A a \in Addresses : createdAt'[a] <= createdAt'[b]
    BY <1>2, <1>3, <2>1 DEF TypeOK
  <2>3. createdAt'[b] \in {createdAt'[a] : a \in Addresses}
    BY <2>1
  <2>4. Batches'
    BY <2>2, <2>3 DEF Batches
  <2> QED
    BY <1>3, <2>4 DEF Insert
<1> QED
  BY <1>4, <1>5

\* The proxies of the VMs that were created are addresses.
LEMMA NewProxiesAreAddresses ==
    ASSUME FleetInv, fresh \subseteq VMs
    PROVE  NewProxies \subseteq Addresses
BY ProxiesAreAddresses DEF NewProxies, Successes

LEMMA V1PlanStep ==
    ASSUME PoolInv, V1Query \/ V1CreateFails \/ V1Disable \/ V1DisableFails \/ V1InsertFails
    PROVE  PoolInv'
<1>1. UNCHANGED fleetVars
  BY DEF V1Query, V1CreateFails, V1Disable, V1DisableFails, V1InsertFails
<1>2. FleetInv' /\ Progress /\ Rows' = Rows
  BY <1>1, Standing DEF PoolInv
<1> USE DEF PoolInv, V1Query, V1CreateFails, V1Disable, V1DisableFails, V1InsertFails, Disable,
            poolVars, leftVars, syncVars
<1>3. TypeOK'
  BY <1>2 DEF TypeOK, Turns, V1Pc
<1>4. Turns' /\ Synced'
  BY <1>1 DEF Turns, Synced, fleetVars, v2Vars
<1>5. Batches'
  BY DEF Batches
<1>6. LegacyThere'
  BY <1>2, FleetAssumption, ProxyAssumption DEF LegacyThere, Progress
<1> QED
  BY <1>2, <1>3, <1>4, <1>5, <1>6

LEMMA V1InsertStep ==
    ASSUME PoolInv, V1Insert
    PROVE  PoolInv'
<1> USE DEF PoolInv, V1Insert, syncVars
<1>1. FleetInv' /\ Progress /\ Rows' = Rows /\ NewProxies \subseteq Addresses
  BY Standing, NewProxiesAreAddresses DEF TypeOK
<1>2. createdAt' \in [Addresses -> Nat] /\ Batches' /\ active' = active \cup NewProxies
  BY <1>1, InsertKeeps
<1>3. moves' \subseteq old \X NewProxies /\ unpaired' \subseteq Tokens
  BY DEF Pairing, Users, TypeOK
<1>4. TypeOK'
  BY <1>1, <1>2, <1>3 DEF TypeOK, V1Pc
<1>5. Turns' /\ Synced'
  BY DEF Turns, Synced, fleetVars, v2Vars
<1>6. LegacyThere'
  BY <1>1, <1>2, FleetAssumption, ProxyAssumption DEF LegacyThere, Progress
<1> QED
  BY <1>1, <1>2, <1>4, <1>5, <1>6

LEMMA V1MoveStep ==
    ASSUME PoolInv, NEW m \in moves, V1Move(m) \/ V1MoveFails(m)
    PROVE  PoolInv'
<1>1. UNCHANGED fleetVars
  BY DEF V1Move, V1MoveFails
<1>2. FleetInv' /\ Progress /\ Rows' = Rows
  BY <1>1, Standing DEF PoolInv
<1> USE DEF PoolInv, V1Move, V1MoveFails, poolVars, syncVars
<1>3. m[1] \in old /\ m[2] \in active
  BY DEF TypeOK
<1>4. TypeOK'
  BY <1>2, <1>3 DEF TypeOK, ReplaceBaseURLProxy, Users
<1>5. Turns' /\ Synced'
  BY <1>1 DEF Turns, Synced, fleetVars, v2Vars
<1>6. Batches'
  BY DEF Batches
<1>7. LegacyThere'
  BY <1>2, FleetAssumption, ProxyAssumption DEF LegacyThere, Progress
<1> QED
  BY <1>2, <1>4, <1>5, <1>6, <1>7

LEMMA V1FindStep ==
    ASSUME PoolInv,
           V1Moved \/ V1Return \/ \E a \in lookups : V1FindVM(a) \/ V1FindVMFails(a)
    PROVE  PoolInv'
<1>1. UNCHANGED fleetVars
  BY DEF V1Moved, V1FindVM, V1FindVMFails, V1Return
<1>2. FleetInv' /\ Progress /\ Rows' = Rows
  BY <1>1, Standing DEF PoolInv
<1> USE DEF PoolInv, V1Moved, V1FindVM, V1FindVMFails, V1Return, poolVars, leftVars, syncVars
<1>3. \A a : GetByProxy(a) \subseteq Rows
  BY DEF GetByProxy
<1>4. TypeOK'
  BY <1>2, <1>3 DEF TypeOK, Turns, V1Pc
<1>5. Turns' /\ Synced'
  BY <1>1 DEF Turns, Synced, fleetVars, v2Vars
<1>6. Batches'
  BY DEF Batches
<1>7. LegacyThere'
  BY <1>2, FleetAssumption, ProxyAssumption DEF LegacyThere, Progress
<1> QED
  BY <1>2, <1>4, <1>5, <1>6, <1>7

(***************************************************************************)
(* The sync.                                                               *)
(***************************************************************************)
LEMMA SyncStep ==
    ASSUME PoolInv, SyncProxyPoolFromVMs
    PROVE  PoolInv'
<1> USE DEF SyncProxyPoolFromVMs
<1>1. UNCHANGED fleetVars
  BY DEF SyncRead, SyncUpdate, SyncInsert, SyncReturns
<1>2. /\ FleetInv' /\ Progress /\ Rows' = Rows /\ TypedProxies' = TypedProxies
      /\ TypedProxies \subseteq Addresses
  BY <1>1, Standing, ProxiesAreAddresses DEF PoolInv
<1>3. spc # "idle" /\ v1pc = "idle" /\ v2pc = "idle" /\ UNCHANGED <<base, v1Vars, v2pc>>
  BY <1>1 DEF PoolInv, Turns, SyncRead, SyncUpdate, SyncInsert, SyncReturns, fleetVars, v2Vars
<1> USE DEF PoolInv, v1Vars, leftVars, poolVars
<1>4. ASSUME SyncRead PROVE PoolInv'
  <2>1. listed' \subseteq TypedProxies
    BY <1>4 DEF SyncRead, TypedProxies, Typed
  <2>2. \A v \in Legacy : Sound(v) => proxy[v] \in listed'
    <3> SUFFICES ASSUME NEW v \in Legacy, Sound(v) PROVE proxy[v] \in listed'
      OBVIOUS
    <3>1. v \in Rows /\ TypeOf(v) = "server"
      BY FleetAssumption, ProxyAssumption DEF LegacyThere, Rows, TypeOf
    <3>2. status[v] # "Deleted"
      BY <3>1 DEF FleetInv, NoLeak, Rows, Sound
    <3> QED
      BY <1>4, <3>1, <3>2 DEF SyncRead
  <2>3. Synced'
    BY <1>1, <1>2, <1>4, <2>1, <2>2
       DEF SyncRead, Synced, Sound, fleetVars, cloudVars, createVars, faultVars
  <2> QED
    BY <1>1, <1>2, <1>3, <1>4, <2>1, <2>3, FleetAssumption, ProxyAssumption
       DEF SyncRead, TypeOK, Turns, Batches, LegacyThere, SyncPc, Progress
<1>5. ASSUME SyncUpdate PROVE PoolInv'
  <2>1. active' = active \cap listed /\ active' \cup retired' = active \cup retired
    BY <1>5 DEF SyncUpdate, Disable
  <2>2. TypeOK' /\ Synced'
    BY <1>2, <1>3, <1>5, <2>1 DEF SyncUpdate, Turns, TypeOK, Synced, SyncPc
  <2> QED
    BY <1>1, <1>2, <1>3, <1>5, <2>1, <2>2, FleetAssumption, ProxyAssumption
       DEF SyncUpdate, Turns, Batches, LegacyThere, Progress
<1>6. ASSUME SyncInsert PROVE PoolInv'
  <2>1. /\ createdAt' \in [Addresses -> Nat] /\ Batches'
        /\ active' = active \cup (listed \ (active \cup retired))
    BY <1>6, InsertKeeps DEF SyncInsert, TypeOK
  <2>2. TypeOK' /\ Synced'
    BY <1>2, <1>3, <1>6, <2>1 DEF SyncInsert, TypeOK, Synced, SyncPc, Turns
  <2> QED
    BY <1>1, <1>2, <1>3, <1>6, <2>1, <2>2, FleetAssumption, ProxyAssumption
       DEF SyncInsert, Turns, LegacyThere, Progress
<1>7. ASSUME SyncReturns PROVE PoolInv'
  BY <1>1, <1>2, <1>3, <1>7, FleetAssumption, ProxyAssumption
     DEF SyncReturns, TypeOK, Turns, Batches, Synced, LegacyThere, SyncPc, Progress
<1> QED
  BY <1>4, <1>5, <1>6, <1>7

LEMMA NextPool == PoolInv /\ [Next]_allVars => PoolInv'
<1> SUFFICES ASSUME PoolInv, [Next]_allVars PROVE PoolInv'
  OBVIOUS
<1>1. ASSUME ReplaceProxyResource PROVE PoolInv'
  BY <1>1, V1CreateStep, V1PlanStep, V1InsertStep, V1MoveStep, V1FindStep, V1DeleteOldStep
     DEF ReplaceProxyResource
<1>2. CASE UNCHANGED allVars
  <2>1. FleetInv' /\ Progress
    BY <1>2, Standing DEF PoolInv, allVars
  <2>2. Turns'
    BY <1>2 DEF PoolInv, Turns, allVars, fleetVars, v2Vars, proxyVars, v1Vars, leftVars, syncVars
  <2> QED
    BY <1>2, <2>1, <2>2, ProgressKeeps DEF PoolInv, allVars
<1> QED
  BY <1>1, <1>2, RequestsStep, ReplaceV2Step, V2ReturnsStep, SyncStep DEF Next

-----------------------------------------------------------------------------
(***************************************************************************)
(* The invariant holds in every reachable state.                           *)
(***************************************************************************)
THEOREM PoolInvariance == Spec => []PoolInv
BY InitPool, NextPool, PTL DEF Spec

(***************************************************************************)
(* Together with ReplaceProxyResource, whose creations and deletions need  *)
(* no operator, the fleet still writes off no instance that runs, and      *)
(* leaves no row Running whose instance is gone.                           *)
(***************************************************************************)
THEOREM FleetWithReplacements == Spec => [](NoLeak /\ NoZombie)
<1>1. PoolInv => NoLeak /\ NoZombie
  BY DEF PoolInv, FleetInv
<1> QED
  BY <1>1, PoolInvariance, PTL

(***************************************************************************)
(* Every variable keeps its type, and a token's address has a row in the   *)
(* pool, whatever statements fail.                                         *)
(***************************************************************************)
THEOREM PoolTypeCorrect == Spec => []TypeOK
<1>1. PoolInv => TypeOK
  BY DEF PoolInv
<1> QED
  BY <1>1, PoolInvariance, PTL

(***************************************************************************)
(* A sync retires the proxy of no VM of the type "server" that runs, by    *)
(* its row and in the cloud, unless a delete command for it had failed.    *)
(***************************************************************************)
THEOREM SyncSparesWhatRuns == Spec => SyncSparesRunning
<1> DEFINE Spares ==
        \A v \in Rows :
            SyncRetires(v) /\ TypeOf(v) = "server" /\ status[v] = "Running"
                /\ cloud[v] = "running" => v \in cmdFailed
<1>1. PoolInv /\ [Next]_allVars => [Spares]_allVars
  <2> SUFFICES ASSUME PoolInv, Next,
                      NEW v \in Rows, SyncRetires(v), TypeOf(v) = "server", cloud[v] = "running"
               PROVE  v \in cmdFailed
    OBVIOUS
  <2>1. spc = "updating" /\ active # active'
    BY DEF SyncRetires
  <2>2. v1pc = "idle" /\ v2pc = "idle"
    BY <2>1 DEF PoolInv, Turns
  <2>3. SyncUpdate
    BY <2>1, <2>2
       DEF Next, proxyVars, poolVars, V2Returns, V2Done, SyncProxyPoolFromVMs, SyncRead, SyncInsert,
           SyncReturns, ReplaceProxyResource, V1Create, Quiet, V1Query, V1CreateFails, V1Disable,
           V1DisableFails, V1Insert, V1InsertFails, V1Move, V1MoveFails, V1Moved, V1FindVM,
           V1FindVMFails, V1Return, V1DeleteOld
  <2>4. proxy[v] \notin listed
    BY <2>3 DEF SyncRetires, SyncUpdate, Disable
  <2>5. v \in Legacy
    BY DEF TypeOf
  <2> QED
    BY <2>1, <2>4, <2>5 DEF PoolInv, Synced, Sound
<1> QED
  BY <1>1, PoolInvariance, PTL DEF Spec, SyncSparesRunning

(***************************************************************************)
(* A token is moved only to a proxy that is Active in the pool.            *)
(***************************************************************************)
THEOREM TokensMoveToPooled == Spec => MovedToPooled
<1> DEFINE Moved == \A t \in Tokens : base'[t] # base[t] => base'[t] \in active
<1>1. PoolInv /\ [Next]_allVars => [Moved]_allVars
  <2> SUFFICES ASSUME PoolInv, Next, NEW t \in Tokens, base'[t] # base[t]
               PROVE  base'[t] \in active
    OBVIOUS
  <2>1. PICK m \in moves : V1Move(m)
    BY DEF Next, proxyVars, V2Returns, SyncProxyPoolFromVMs, SyncRead, SyncUpdate, SyncInsert,
           SyncReturns, ReplaceProxyResource, V1Create, V1Query, V1CreateFails, V1Disable,
           V1DisableFails, V1Insert, V1InsertFails, V1MoveFails, V1Moved, V1FindVM,
           V1FindVMFails, V1Return, V1DeleteOld
  <2>2. base'[t] = m[2] /\ m[2] \in active
    BY <2>1 DEF V1Move, ReplaceBaseURLProxy, PoolInv, TypeOK
  <2> QED
    BY <2>2
<1> QED
  BY <1>1, PoolInvariance, PTL DEF Spec, MovedToPooled

-----------------------------------------------------------------------------
(***************************************************************************)
(* The VMs that ReplaceProxyResource deletes.  It finds them by the        *)
(* address they had, and the cloud gives addresses out again; that this    *)
(* goes well rests on the order in which VMs that had one address came to  *)
(* have their rows.                                                        *)
(***************************************************************************)

\* The proxy is built from the address the instance has ...
Home == \A v \in VMs : creating[v] = "saving" => proxy[v] \in {address[v], "pending"}

Distinct ==
    \A u, v \in VMs :
        u # v /\ cloud[u] = "running" /\ cloud[v] = "running" => address[u] # address[v]

\* ... and the VMs that had the address before one that still runs at it, and
\* that have rows, have rows of a smaller id.
Successor ==
    \A u, v \in Rows :
        u # v /\ cloud[v] = "running" /\ proxy[v] = address[v] /\ proxy[u] = address[v] =>
            u \in before[v]

HomeInv == Home /\ Distinct /\ Successor

\* A VM that has been created may leave its address, never come back to it, and
\* gets no row if its insert has failed.
Settled ==
    \A v \in VMs : creating[v] = "done" =>
        /\ cloud'[v] = "running" => cloud[v] = "running"
        /\ address'[v] = proxy[v] => address[v] = proxy[v]
        /\ status[v] = "none" => status'[v] = "none"

LEMMA InitHome == FleetInit => HomeInv
<1> SUFFICES ASSUME FleetInit PROVE HomeInv
  OBVIOUS
<1> USE FleetAssumption DEF FleetInit
<1>1. \A v \in VMs : /\ cloud[v] = "running" <=> v \in Initial
                     /\ status[v] # "none" <=> v \in Initial
                     /\ creating[v] # "saving"
  OBVIOUS
<1>2. Home /\ Distinct
  BY <1>1 DEF Home, Distinct
<1>3. Successor
  BY <1>1 DEF Successor, Rows
<1> QED
  BY <1>2, <1>3 DEF HomeInv

\* A step that leaves the instances and the order of the rows alone.
HomesUntouched ==
    /\ UNCHANGED <<cloud, address, proxy, before>>
    /\ \A v \in VMs : /\ creating'[v] = "saving" => creating[v] = "saving"
                      /\ status[v] = "none" => status'[v] = "none"

LEMMA UntouchedHome ==
    ASSUME HomeInv, HomesUntouched
    PROVE  HomeInv' /\ Settled
BY DEF HomeInv, Home, Distinct, Successor, HomesUntouched, Settled, Rows

\* An instance is deleted.
LEMMA InstanceGoneHome ==
    ASSUME FleetInv, HomeInv, NEW v \in Rows, InstanceGone(v), UNCHANGED <<rowVars, createVars>>
    PROVE  HomeInv' /\ Settled
<1> USE DEF FleetInv, FleetTypeOK, InstanceGone, rowVars, createVars, HomeInv
<1>1. /\ creating[v] = "done"
      /\ \A u \in VMs : /\ cloud'[u] = "running" => /\ u # v /\ cloud[u] = "running"
                                                    /\ address'[u] = address[u]
                        /\ u # v => address'[u] = address[u]
      /\ address'[v] = None
  BY DEF Instances, Rows
<1>2. Distinct'
  BY <1>1 DEF Distinct
<1>3. Settled
  <2>1. \A u \in VMs : creating[u] = "done" => proxy[u] # None
    BY FleetAssumption DEF Instances, Addresses
  <2> QED
    BY <1>1, <2>1 DEF Settled
<1>4. Home'
  BY <1>1 DEF Home, Instances
<1>5. Successor'
  BY <1>1 DEF Successor, Rows
<1> QED
  BY <1>2, <1>3, <1>4, <1>5

LEMMA CreateHome ==
    ASSUME FleetInv, HomeInv, NEW v \in VMs, CreateVM(v)
    PROVE  HomeInv' /\ Settled
<1> USE DEF FleetInv, FleetTypeOK, rowVars, createVars, cloudVars
<1>1. ASSUME CreateFails(v) PROVE HomesUntouched
  BY <1>1 DEF CreateFails, HomesUntouched
<1>2. ASSUME SaveRowFails(v) PROVE HomesUntouched
  BY <1>2 DEF SaveRowFails, HomesUntouched
<1>3. ASSUME CreateInstance(v) PROVE HomeInv' /\ Settled
  <2>1. PICK a \in FreeIPs : address' = [address EXCEPT ![v] = a]
    BY <1>3 DEF CreateInstance
  <2>2. /\ creating[v] = "requested" /\ status[v] = "none"
        /\ cloud' = [cloud EXCEPT ![v] = "running"]
        /\ creating' = [creating EXCEPT ![v] = "booting"]
        /\ UNCHANGED <<proxy, status, before>>
    BY <1>3 DEF CreateInstance, Instances
  <2>3. \A u \in VMs : address[u] # a
    BY DEF FreeIPs
  <2>4. Settled /\ Home'
    BY <2>1, <2>2 DEF Settled, HomeInv, Home
  <2>5. Distinct'
    BY <2>1, <2>2, <2>3 DEF HomeInv, Distinct
  <2>6. Successor'
    BY <2>1, <2>2 DEF HomeInv, Successor, Rows
  <2> QED
    BY <2>4, <2>5, <2>6 DEF HomeInv
<1>4. ASSUME FindIP(v) PROVE HomeInv' /\ Settled
  <2>1. PICK a \in {address[v], "pending"} : proxy' = [proxy EXCEPT ![v] = a]
    BY <1>4 DEF FindIP
  <2>2. /\ creating[v] = "booting" /\ status[v] = "none"
        /\ creating' = [creating EXCEPT ![v] = "saving"]
        /\ UNCHANGED <<cloud, address, status, before>>
    BY <1>4 DEF FindIP, Instances
  <2>3. Settled /\ Home' /\ Distinct'
    BY <2>1, <2>2 DEF Settled, HomeInv, Home, Distinct
  <2>4. Successor'
    BY <2>1, <2>2 DEF HomeInv, Successor, Rows
  <2> QED
    BY <2>3, <2>4 DEF HomeInv
<1>5. ASSUME SaveRow(v) PROVE HomeInv' /\ Settled
  <2>1. /\ UNCHANGED <<cloud, address, proxy>> /\ creating[v] = "saving"
        /\ status' = [status EXCEPT ![v] = "Running"]
        /\ before' = [before EXCEPT ![v] = Rows]
        /\ creating' = [creating EXCEPT ![v] = "done"]
    BY <1>5 DEF SaveRow
  <2>2. Settled /\ Home' /\ Distinct'
    BY <2>1 DEF Settled, HomeInv, Home, Distinct
  <2>3. Rows' = Rows \cup {v} /\ v \notin Rows
    BY <2>1 DEF Rows, Instances
  <2>4. \A u \in VMs : u # v /\ cloud[u] = "running" => proxy[v] # address[u]
    BY <2>1, FleetAssumption DEF HomeInv, Home, Distinct, Instances
  <2>5. Successor'
    BY <2>1, <2>3, <2>4 DEF HomeInv, Successor, Rows
  <2> QED
    BY <2>2, <2>5 DEF HomeInv
<1> QED
  BY <1>1, <1>2, <1>3, <1>4, <1>5, UntouchedHome DEF CreateVM

LEMMA DeleteHome ==
    ASSUME FleetInv, HomeInv, NEW c \in Callers, NEW v \in VMs, DeleteVM(c, v)
    PROVE  HomeInv' /\ Settled
<1> USE DEF FleetInv, FleetTypeOK, rowVars, createVars, cloudVars
<1>1. ASSUME DeleteInstance(c, v) PROVE HomeInv' /\ Settled
  BY <1>1, InstanceGoneHome DEF DeleteInstance, Workers, Rows
<1>2. ASSUME MarkDeleted(c, v) PROVE HomesUntouched
  BY <1>2 DEF MarkDeleted, UpdateStatus, HomesUntouched, Workers
<1>3. ASSUME FindRowFails(c, v) \/ DeleteInstanceFails(c, v) \/ MarkDeletedFails(c, v)
      PROVE  HomesUntouched
  BY <1>3 DEF FindRowFails, DeleteInstanceFails, MarkDeletedFails, HomesUntouched
<1> QED
  BY <1>1, <1>2, <1>3, UntouchedHome DEF DeleteVM

LEMMA SweepHome ==
    ASSUME FleetInv, HomeInv, CleanupOldVMs
    PROVE  HomeInv' /\ Settled
<1> USE DEF FleetInv, FleetTypeOK, rowVars, createVars, cloudVars
<1>1. ASSUME NEW v \in VMs, SweepDelete(v) PROVE HomeInv' /\ Settled
  BY <1>1, InstanceGoneHome DEF SweepDelete, Workers, Rows
<1>2. ASSUME NEW v \in VMs, SweepDeleteFails(v) PROVE HomeInv' /\ Settled
  <2>1. CASE InstanceGone(v)
    BY <1>2, <2>1, InstanceGoneHome DEF SweepDeleteFails, Workers, Rows
  <2>2. CASE UNCHANGED cloudVars
    BY <1>2, <2>2, UntouchedHome DEF SweepDeleteFails, HomesUntouched
  <2> QED
    BY <1>2, <2>1, <2>2 DEF SweepDeleteFails
<1>3. ASSUME NEW v \in VMs, SweepMark(v) PROVE HomesUntouched
  BY <1>3, FleetAssumption DEF SweepMark, UpdateStatus, HomesUntouched, Workers
<1>4. ASSUME StartSweep \/ \E v \in VMs : SweepMarkFails(v) PROVE HomesUntouched
  BY <1>4 DEF StartSweep, SweepMarkFails, HomesUntouched
<1> QED
  BY <1>1, <1>2, <1>3, <1>4, UntouchedHome DEF CleanupOldVMs

\* An instance that runs where its proxy says gets another address.
LEMMA ReaddressHome ==
    ASSUME FleetInv, HomeInv, NEW v \in VMs, Readdress(v)
    PROVE  HomeInv' /\ Settled
<1> USE DEF FleetInv, FleetTypeOK, rowVars, createVars
<1>1. PICK a \in FreeIPs : address' = [address EXCEPT ![v] = a]
  BY DEF Readdress
<1>2. /\ creating[v] = "done" /\ address[v] = proxy[v]
      /\ UNCHANGED <<cloud, proxy, creating, status, before>>
  BY DEF Readdress
<1>3. \A u \in VMs : address[u] # a
  BY DEF FreeIPs
<1>4. Settled /\ Home'
  BY <1>1, <1>2, <1>3 DEF Settled, HomeInv, Home
<1>5. Distinct'
  BY <1>1, <1>2, <1>3 DEF HomeInv, Distinct
<1>6. Successor'
  BY <1>1, <1>2, <1>3 DEF HomeInv, Successor, Rows
<1> QED
  BY <1>4, <1>5, <1>6 DEF HomeInv

LEMMA RefreshHome ==
    ASSUME FleetInv, NEW v \in Refreshed, RefreshVMIP(v)
    PROVE  HomesUntouched
<1> USE FleetAssumption
        DEF FleetInv, FleetTypeOK, Workers, HomesUntouched, cloudVars, rowVars, createVars
<1>1. ASSUME RefreshSave(v) PROVE HomesUntouched
  BY <1>1 DEF RefreshSave
<1>2. ASSUME RefreshRead(v) \/ RefreshNothing(v) \/ RefreshFind(v) \/ RefreshSaveFails(v)
      PROVE  HomesUntouched
  BY <1>2 DEF RefreshRead, RefreshNothing, RefreshFind, RefreshSaveFails
<1> QED
  BY <1>1, <1>2 DEF RefreshVMIP

LEMMA FleetHome ==
    ASSUME FleetInv, HomeInv, FleetNext
    PROVE  HomeInv' /\ Settled
<1> USE FleetAssumption DEF FleetInv, FleetTypeOK, rowVars, createVars, cloudVars
<1>1. ASSUME NEW v \in Operated, RequestVM(v) PROVE HomesUntouched
  BY <1>1 DEF RequestVM, HomesUntouched
<1>2. ASSUME NEW v \in Operated, HandlerDeletes(v) PROVE HomesUntouched
  BY <1>2 DEF HandlerDeletes, HomesUntouched
<1>3. ASSUME CleanupPendingDeleteVMs PROVE HomesUntouched
  BY <1>3 DEF CleanupPendingDeleteVMs, HomesUntouched
<1>4. ASSUME HourPasses PROVE HomesUntouched
  BY <1>4 DEF HourPasses, HomesUntouched
<1>5. ASSUME V2Begin \/ V2Done PROVE HomesUntouched
  <2>1. ASSUME V2Mark PROVE HomesUntouched
    BY <2>1 DEF V2Mark, HomesUntouched, Workers
  <2>2. ASSUME V2Create PROVE HomesUntouched
    BY <2>2 DEF V2Create, NewBatch, HomesUntouched
  <2>3. ASSUME V2Find \/ V2MarkFails \/ V2Refused \/ V2Done PROVE HomesUntouched
    BY <2>3 DEF V2Find, V2MarkFails, V2Refused, V2Done, HomesUntouched
  <2> QED
    BY <1>5, <2>1, <2>2, <2>3 DEF V2Begin
<1>6. ASSUME NEW v \in Refreshed, Readdress(v) PROVE HomeInv' /\ Settled
  BY <1>6, ReaddressHome
<1>7. ASSUME NEW v \in Refreshed, RefreshVMIP(v) PROVE HomesUntouched
  BY <1>7, RefreshHome
<1> QED
  BY <1>1, <1>2, <1>3, <1>4, <1>5, <1>6, <1>7, UntouchedHome, CreateHome, DeleteHome, SweepHome
     DEF FleetNext, FleetRequests

\* Some VM that was created had the address a, outside the set S.
HadBy(a, S) == \E w \in VMs \ S : creating[w] = "done" /\ proxy[w] = a

\* The addresses of the pool were those of VMs, and the ones that are to be
\* replaced were so before the new VMs came.
Owned ==
    /\ \A a \in active \cup retired : HadBy(a, {})
    /\ v1pc = "creating" => \A a \in active : HadBy(a, fresh)
    /\ v1pc \notin {"idle", "creating"} => \A a \in old : HadBy(a, fresh)

\* A token that has an old proxy will be moved, or is an exception, or the
\* old address is that of a new VM.
Replacing ==
    /\ v1pc = "moving" =>
         /\ moves \subseteq old \X NewProxies
         /\ \A t \in Tokens : base[t] \in old =>
              t \in unpaired \cup unmoved \/ base[t] \in NewProxies \/ \E m \in moves : m[1] = base[t]
    /\ v1pc = "finding" =>
         \A t \in Tokens : base[t] \in old => t \in unpaired \cup unmoved \/ base[t] \in NewProxies

\* No other token uses the address of a VM that is going to be deleted.
Spared ==
    \A v \in VMs, t \in Tokens :
        /\ v \in victims \/ del["replacement"][v] = "asked"
        /\ cloud[v] = "running" /\ proxy[v] = address[v]
        /\ base[t] = address[v]
        => t \in unpaired \cup unmoved \/ Strayed(address[v])

ReplaceInv == PoolInv /\ HomeInv /\ Owned /\ Replacing /\ Spared

LEMMA InitReplace == Init => ReplaceInv
<1> SUFFICES ASSUME Init PROVE ReplaceInv
  OBVIOUS
<1>1. PoolInv /\ HomeInv
  BY InitPool, InitHome DEF Init
<1>2. Owned
  BY FleetAssumption DEF Init, FleetInit, Owned, HadBy
<1>3. Replacing /\ Spared
  BY FleetAssumption, ProxyAssumption DEF Init, FleetInit, Replacing, Spared
<1> QED
  BY <1>1, <1>2, <1>3 DEF ReplaceInv

\* A VM that runs at an address is the only one with a row, or the last, to have
\* had it.
LEMMA LastAtAddress ==
    ASSUME FleetInv, HomeInv, NEW a \in Addresses, NEW v \in GetByProxy(a), cloud[v] = "running",
           address[v] = a, NEW w \in VMs, creating[w] = "done", proxy[w] = a
    PROVE  w = v \/ Strayed(a)
<1>1. v \in Rows /\ proxy[v] = a /\ \A u \in before[v] : proxy[u] # a
  BY DEF GetByProxy
<1>2. CASE w \in Rows
  BY <1>1, <1>2 DEF HomeInv, Successor
<1>3. CASE w \notin Rows
  <2>1. status[w] = "none" /\ w # v
    BY <1>1, <1>3 DEF Rows
  <2>2. address[w] # a
    BY <2>1, <1>1 DEF HomeInv, Distinct, FleetInv, Instances, Rows
  <2> QED
    BY <2>1, <2>2 DEF Strayed
<1> QED
  BY <1>2, <1>3

\* A VM without a row that has left its address has left it for good.
LEMMA StrayedStays ==
    ASSUME Progress, Settled, NEW a, Strayed(a)
    PROVE  Strayed(a)'
BY DEF Strayed, Progress, Settled

\* Steps of the fleet.
LEMMA FleetReplace ==
    ASSUME ReplaceInv, PoolInv', HomeInv', Progress, Settled,
           UNCHANGED <<poolVars, base, v1Vars>>
    PROVE  ReplaceInv'
<1> USE DEF ReplaceInv, poolVars, v1Vars, leftVars
<1>1. \A a, S : HadBy(a, S) => \E w \in VMs \ S : creating'[w] = "done" /\ proxy'[w] = a
  BY DEF HadBy, Progress
<1>2. Owned'
  BY <1>1 DEF Owned, HadBy
<1>3. NewProxies \subseteq NewProxies'
  BY DEF NewProxies, Successes, PoolInv, TypeOK, Progress
<1>4. Replacing'
  BY <1>3 DEF Replacing
<1>5. \A v \in VMs : v \in victims \/ del["replacement"][v] = "asked" => creating[v] = "done"
  BY ProxyAssumption DEF PoolInv, FleetInv, Workers, Instances, TypeOK, Rows
<1>6. Spared'
  <2> SUFFICES ASSUME NEW v \in VMs, NEW t \in Tokens,
                      v \in victims \/ del'["replacement"][v] = "asked",
                      cloud'[v] = "running", proxy'[v] = address'[v], base[t] = address'[v]
               PROVE  t \in unpaired \cup unmoved \/ Strayed(address[v])'
    BY DEF Spared
  <2>1. v \in victims \/ del["replacement"][v] = "asked"
    BY DEF Progress
  <2>2. cloud[v] = "running" /\ proxy[v] = address[v] /\ address'[v] = address[v]
    BY <1>5, <2>1 DEF Progress, Settled
  <2> QED
    BY <2>1, <2>2, StrayedStays DEF Spared
<1> QED
  BY <1>2, <1>4, <1>6

\* Steps of the proxies after which no VM is to be deleted.
LEMMA SparedIfNone ==
    ASSUME victims' = {}, \A v \in VMs : del'["replacement"][v] # "asked"
    PROVE  Spared'
BY DEF Spared

LEMMA StandingHome ==
    ASSUME HomeInv, UNCHANGED fleetVars
    PROVE  HomeInv' /\ \A a, S : HadBy(a, S) => \E w \in VMs \ S : creating'[w] = "done" /\ proxy'[w] = a
<1> USE DEF fleetVars, cloudVars, rowVars, createVars
<1>1. HomesUntouched
  BY DEF HomesUntouched
<1> QED
  BY <1>1, UntouchedHome DEF HadBy

LEMMA V1CreateReplace ==
    ASSUME ReplaceInv, V1Create
    PROVE  ReplaceInv'
<1>1. PoolInv' /\ Progress
  BY V1CreateStep DEF ReplaceInv
<1> USE DEF ReplaceInv, V1Create, NewBatch, Quiet, poolVars, leftVars
<1>2. HomesUntouched
  BY DEF PoolInv, FleetInv, FleetTypeOK, HomesUntouched, cloudVars, rowVars
<1>3. HomeInv'
  BY <1>2, UntouchedHome
<1>4. \A a : HadBy(a, {}) => HadBy(a, {})' /\ HadBy(a, fresh)'
  BY <1>1 DEF HadBy, Progress
<1>5. Owned' /\ Replacing'
  BY <1>4 DEF Owned, Replacing
<1>6. Spared'
  BY SparedIfNone DEF PoolInv, Turns
<1> QED
  BY <1>1, <1>3, <1>5, <1>6

LEMMA V1PlanReplace ==
    ASSUME ReplaceInv, V1Query \/ V1CreateFails \/ V1Disable \/ V1DisableFails \/ V1InsertFails
    PROVE  ReplaceInv'
<1>1. UNCHANGED fleetVars
  BY DEF V1Query, V1CreateFails, V1Disable, V1DisableFails, V1InsertFails
<1>2. PoolInv' /\ HomeInv' /\ \A a, S : HadBy(a, S) => HadBy(a, S)'
  BY <1>1, V1PlanStep, StandingHome DEF ReplaceInv, HadBy
<1> USE DEF ReplaceInv, V1Query, V1CreateFails, V1Disable, V1DisableFails, V1InsertFails, Disable,
            poolVars, leftVars, syncVars
<1>3. Owned'
  <2>1. active' \subseteq active /\ active' \cup retired' \subseteq active \cup retired
    BY DEF PoolInv, TypeOK
  <2> QED
    BY <1>2, <2>1 DEF Owned
<1>4. Replacing'
  BY DEF Replacing
<1>5. Spared'
  BY <1>1, SparedIfNone DEF PoolInv, Turns, fleetVars
<1> QED
  BY <1>2, <1>3, <1>4, <1>5

LEMMA V1InsertReplace ==
    ASSUME ReplaceInv, V1Insert
    PROVE  ReplaceInv'
<1> USE DEF ReplaceInv, V1Insert
<1>1. PoolInv' /\ HomeInv' /\ \A a, S : HadBy(a, S) => HadBy(a, S)'
  BY V1InsertStep, StandingHome DEF HadBy
<1>2. active' = active \cup NewProxies /\ NewProxies' = NewProxies
  <2>1. active' = active \cup NewProxies
    BY DEF Insert
  <2>2. NewProxies' = NewProxies
    BY DEF NewProxies, Successes, fleetVars, createVars
  <2> QED
    BY <2>1, <2>2
<1>3. \A a \in NewProxies : HadBy(a, {})
  BY DEF NewProxies, Successes, HadBy, PoolInv, TypeOK
<1>4. Owned'
  BY <1>1, <1>2, <1>3 DEF Owned
<1>5. PICK T \in SUBSET old : \E f \in [T -> NewProxies] : Pairing(T, f)
  OBVIOUS
<1>6. PICK f \in [T -> NewProxies] : Pairing(T, f)
  BY <1>5
<1>7. moves' = {<<a, f[a]>> : a \in T} /\ unpaired' = unpaired \cup Users(old \ T)
  BY <1>6 DEF Pairing
<1>8. ASSUME NEW t \in Tokens, base[t] \in T PROVE \E m \in moves' : m[1] = base[t]
  <2>1. <<base[t], f[base[t]]>> \in moves'
    BY <1>7, <1>8
  <2>2. <<base[t], f[base[t]]>>[1] = base[t]
    OBVIOUS
  <2> QED
    BY <2>1, <2>2
<1>9. Replacing'
  BY <1>2, <1>7, <1>8 DEF Replacing, Users
<1>10. Spared'
  BY SparedIfNone DEF PoolInv, Turns, fleetVars
<1> QED
  BY <1>1, <1>4, <1>9, <1>10

LEMMA V1MoveReplace ==
    ASSUME ReplaceInv, NEW m \in moves, V1Move(m) \/ V1MoveFails(m)
    PROVE  ReplaceInv'
<1>1. UNCHANGED fleetVars
  BY DEF V1Move, V1MoveFails
<1>2. PoolInv' /\ HomeInv' /\ \A a, S : HadBy(a, S) => HadBy(a, S)'
  BY <1>1, V1MoveStep, StandingHome DEF ReplaceInv, HadBy
<1> USE DEF ReplaceInv, V1Move, V1MoveFails, poolVars
<1>3. Owned'
  BY <1>2 DEF Owned
<1>4. NewProxies' = NewProxies
  BY <1>1 DEF NewProxies, Successes, fleetVars, createVars
<1>5. m[1] \in old /\ m[2] \in NewProxies
  BY DEF Replacing
<1>6. Replacing'
  <2>1. CASE V1Move(m)
    <3>1. \A t \in Tokens : /\ base[t] = m[1] => base'[t] = m[2]
                            /\ base[t] # m[1] => base'[t] = base[t]
      BY <2>1 DEF ReplaceBaseURLProxy, PoolInv, TypeOK
    <3> QED
      BY <1>4, <1>5, <2>1, <3>1 DEF Replacing, Users
  <2>2. CASE V1MoveFails(m)
    BY <1>4, <2>2 DEF Replacing, Users
  <2> QED
    BY <2>1, <2>2
<1>7. Spared'
  BY <1>1, SparedIfNone DEF PoolInv, Turns, fleetVars
<1> QED
  BY <1>2, <1>3, <1>6, <1>7

LEMMA V1FindReplace ==
    ASSUME ReplaceInv,
           V1Moved \/ V1Return \/ \E a \in lookups : V1FindVM(a) \/ V1FindVMFails(a)
    PROVE  ReplaceInv'
<1>1. UNCHANGED fleetVars
  BY DEF V1Moved, V1FindVM, V1FindVMFails, V1Return
<1>2. PoolInv' /\ HomeInv' /\ \A a, S : HadBy(a, S) => HadBy(a, S)'
  BY <1>1, V1FindStep, StandingHome DEF ReplaceInv, HadBy
<1>3. NewProxies' = NewProxies \/ V1Return
  BY <1>1 DEF NewProxies, Successes, fleetVars, createVars, V1Moved, V1FindVM, V1FindVMFails
<1> USE DEF ReplaceInv, V1Moved, V1FindVM, V1FindVMFails, V1Return, poolVars, leftVars
<1>4. Owned'
  BY <1>2 DEF Owned
<1>5. Replacing'
  BY <1>3 DEF Replacing
<1>6. Spared'
  <2> USE DEF fleetVars, cloudVars, rowVars, createVars
  <2>1. \A a : Strayed(a) => Strayed(a)'
    BY <1>1 DEF Strayed
  <2>2. ASSUME NEW a \in lookups, V1FindVM(a) PROVE Spared'
    <3> SUFFICES ASSUME NEW v \in GetByProxy(a), NEW t \in Tokens, cloud[v] = "running",
                        proxy[v] = address[v], base[t] = address[v], ~Strayed(a)
                 PROVE  t \in unpaired \cup unmoved
      <4>1. \A v \in GetByProxy(a) : proxy[v] = a
        BY DEF GetByProxy
      <4> QED
        BY <1>1, <2>1, <2>2, <4>1 DEF Spared
    <3>1. a \in old /\ a \in Addresses /\ proxy[v] = a
      BY DEF PoolInv, TypeOK, GetByProxy
    <3>2. PICK w \in VMs \ fresh : creating[w] = "done" /\ proxy[w] = a
      BY <2>2, <3>1 DEF Owned, HadBy
    <3>3. w = v
      BY <3>1, <3>2, LastAtAddress DEF PoolInv
    <3>4. ASSUME a \in NewProxies PROVE FALSE
      <4>1. PICK f \in fresh : creating[f] = "done" /\ proxy[f] = a /\ f \in VMs
        BY <3>4 DEF NewProxies, Successes, PoolInv, TypeOK
      <4>2. f = v
        BY <3>1, <4>1, LastAtAddress DEF PoolInv
      <4> QED
        BY <3>2, <3>3, <4>1, <4>2
    <3> QED
      BY <2>2, <3>1, <3>4 DEF Replacing
  <2>3. ASSUME V1Moved \/ V1Return \/ \E a \in lookups : V1FindVMFails(a) PROVE Spared'
    BY <1>1, <2>1, <2>3 DEF Spared
  <2> QED
    BY <2>2, <2>3
<1> QED
  BY <1>2, <1>4, <1>5, <1>6

LEMMA V1DeleteOldReplace ==
    ASSUME ReplaceInv, V1DeleteOld
    PROVE  ReplaceInv'
<1>1. PoolInv'
  BY V1DeleteOldStep DEF ReplaceInv
<1> USE DEF ReplaceInv, V1DeleteOld, cloudVars, rowVars, createVars, poolVars, leftVars
<1>2. HomesUntouched
  BY DEF HomesUntouched
<1>3. HomeInv'
  BY <1>2, UntouchedHome
<1>4. Owned' /\ Replacing'
  BY DEF Owned, HadBy, Replacing
<1>5. Spared'
  BY ProxyAssumption DEF Spared, Strayed, PoolInv, FleetInv, FleetTypeOK
<1> QED
  BY <1>1, <1>3, <1>4, <1>5

LEMMA SyncReplace ==
    ASSUME ReplaceInv, SyncProxyPoolFromVMs
    PROVE  ReplaceInv'
<1>1. UNCHANGED fleetVars
  BY DEF SyncProxyPoolFromVMs, SyncRead, SyncUpdate, SyncInsert, SyncReturns
<1>2. PoolInv' /\ HomeInv' /\ \A a, S : HadBy(a, S) => HadBy(a, S)'
  BY <1>1, SyncStep, StandingHome DEF ReplaceInv, HadBy
<1>3. v1pc = "idle" /\ UNCHANGED <<base, v1Vars>>
  BY DEF ReplaceInv, PoolInv, Turns, SyncProxyPoolFromVMs, SyncRead, SyncUpdate, SyncInsert,
         SyncReturns
<1> USE DEF ReplaceInv, v1Vars, leftVars
<1>4. Replacing' /\ Spared'
  BY <1>1, <1>3 DEF Replacing, Spared, Strayed, fleetVars, cloudVars, rowVars, createVars
<1>5. ASSUME SyncInsert PROVE \A a \in active' \cup retired' : HadBy(a, {})
  <2>1. listed = {} \/ listed \subseteq TypedProxies
    BY <1>5 DEF PoolInv, Synced, SyncInsert
  <2>2. \A a \in TypedProxies : HadBy(a, {})
    BY DEF TypedProxies, Typed, Rows, HadBy, PoolInv, FleetInv, Instances
  <2> QED
    BY <1>5, <2>1, <2>2 DEF SyncInsert, Insert, Owned
<1>6. Owned'
  BY <1>2, <1>3, <1>5 DEF Owned, SyncProxyPoolFromVMs, SyncRead, SyncUpdate, SyncReturns, Disable,
                          poolVars
<1> QED
  BY <1>2, <1>4, <1>6

LEMMA NextReplace == ReplaceInv /\ [Next]_allVars => ReplaceInv'
<1> SUFFICES ASSUME ReplaceInv, [Next]_allVars PROVE ReplaceInv'
  OBVIOUS
<1>1. PoolInv'
  BY NextPool DEF ReplaceInv
<1>2. ASSUME FleetNext, UNCHANGED <<poolVars, base, v1Vars>> PROVE ReplaceInv'
  <2>1. HomeInv' /\ Settled
    BY <1>2, FleetHome DEF ReplaceInv, PoolInv
  <2>2. Progress
    BY <1>2, RequestsProgress, V2Progress DEF ReplaceInv, PoolInv, FleetNext
  <2> QED
    BY <1>1, <1>2, <2>1, <2>2, FleetReplace
<1>3. ASSUME ReplaceProxyResource PROVE ReplaceInv'
  BY <1>3, V1CreateReplace, V1PlanReplace, V1InsertReplace, V1MoveReplace, V1FindReplace,
     V1DeleteOldReplace DEF ReplaceProxyResource
<1>4. CASE UNCHANGED allVars
  <2>1. HomeInv' /\ Progress /\ Settled
    BY <1>4, StandingHome, Standing
       DEF ReplaceInv, PoolInv, allVars, fleetVars, cloudVars, rowVars, Settled
  <2> QED
    BY <1>1, <1>4, <2>1, FleetReplace DEF allVars, proxyVars
<1> QED
  BY <1>2, <1>3, <1>4, SyncReplace
     DEF Next, FleetNext, ReplaceProxyResourceV2, V2Returns, proxyVars

-----------------------------------------------------------------------------
(***************************************************************************)
(* No instance that ReplaceProxyResource takes down serves a token, unless *)
(* the token is one of the exceptions, or the address was that of a VM     *)
(* which has no row and has been given another.                            *)
(***************************************************************************)
THEOREM NoTokenLosesItsProxy == Spec => VictimsReplaced
<1> DEFINE A == \A v \in VMs, t \in Tokens :
                    TakenDown(v) /\ base[t] = address[v] =>
                        t \in unpaired \cup unmoved \/ Strayed(address[v])
<1>1. Init => ReplaceInv
  BY InitReplace
<1>2. ReplaceInv /\ [Next]_allVars => ReplaceInv'
  BY NextReplace
<1>3. ReplaceInv /\ [Next]_allVars => [A]_allVars
  BY DEF ReplaceInv, Spared, TakenDown
<1> QED
  BY <1>1, <1>2, <1>3, PTL DEF Spec, VictimsReplaced
=============================================================================
