-------------------------- MODULE ProxyReplacement ---------------------------
(***************************************************************************)
(* The proxies on the VM fleet: the table proxy_pool (dao/proxy_pool.go),  *)
(* the base_url of the rows of official_tokens (ReplaceBaseURLProxy in     *)
(* dao/official_token.go), and the two operations of                       *)
(* service/vm_service.go that keep them in step with the VMs:              *)
(* ReplaceProxyResource (V1) and SyncProxyPoolFromVMs, which the handler   *)
(* of a V2 replacement calls.                                              *)
(*                                                                         *)
(* A proxy is named by its address; every proxy here is of the pool's type *)
(* "server" and comes from a VM (from_vm > 0).  proxy_pool has the unique  *)
(* key (proxy, status), so its rows are two sets of addresses.             *)
(*                                                                         *)
(* Replacements do not overlap one another, as the documents of both       *)
(* interfaces advise; they do overlap everything in VmFleet.               *)
(***************************************************************************)
EXTENDS VmFleet

CONSTANT Tokens

(***************************************************************************)
(* CreateVM stores "httpProxyServer" whatever it is asked for, so the rows *)
(* of the type "server" are old.                                           *)
(***************************************************************************)
ASSUME ProxyAssumption == "replacement" \in Callers /\ Legacy \subseteq Initial

VARIABLES
    active,    \* addresses with a row Active in proxy_pool
    retired,   \* addresses with a row Deleted in proxy_pool
    createdAt, \* per address, the batch in which its Active row was created
    base,      \* per token, the address in its base_url
    v1pc,      \* where ReplaceProxyResource is
    fresh,     \* the VMs it creates
    old,       \* lastBatchProxy, the addresses it replaces
    moves,     \* the pairs of toReplaceMap not applied yet
    lookups,   \* the old addresses whose VM has not been looked up yet
    victims,   \* toDelVMIDs
    unpaired,  \* tokens whose proxy, when replaced, got no partner in toReplaceMap
    unmoved,   \* tokens whose ReplaceBaseURLProxy failed
    spc,       \* where SyncProxyPoolFromVMs is
    listed     \* the keys of its set2Map

poolVars  == <<active, retired, createdAt>>
leftVars  == <<unpaired, unmoved>>
v1Vars    == <<v1pc, fresh, old, moves, lookups, victims, leftVars>>
syncVars  == <<spc, listed>>
proxyVars == <<poolVars, base, v1Vars, syncVars>>
allVars   == <<fleetVars, proxyVars>>

V1Pc   == {"idle", "creating", "disabling", "inserting", "moving", "finding", "waiting"}
SyncPc == {"idle", "reading", "updating", "inserting", "done"}

Init ==
    /\ FleetInit
    /\ active = {address[v] : v \in Initial}
    /\ retired = {}
    /\ createdAt = [a \in Addresses |-> 0]
    /\ base \in [Tokens -> active]
    /\ v1pc = "idle"
    /\ fresh = {}
    /\ old = {}
    /\ moves = {}
    /\ lookups = {}
    /\ victims = {}
    /\ unpaired = {}
    /\ unmoved = {}
    /\ spc = "idle"
    /\ listed = {}

-----------------------------------------------------------------------------
(***************************************************************************)
(* proxy_pool.  An update or insert of several rows is one statement: the  *)
(* unique key makes it fail as a whole.  So an address that was retired    *)
(* once and has been recycled is Active for good: ReplaceProxyResource     *)
(* only logs that it cannot disable it (V1DisableFails), with whatever is  *)
(* in the same batch, and a sync that wants to ends there (SyncReturns).   *)
(***************************************************************************)
Disable(S) ==
    /\ S \cap active \cap retired = {}
    /\ active' = active \ S
    /\ retired' = retired \cup S

LastBatch == CHOOSE n \in {createdAt[a] : a \in Addresses} :
                 \A a \in Addresses : createdAt[a] <= n

Insert(S) ==
    /\ S \cap active = {}
    /\ active' = active \cup S
    /\ createdAt' = [a \in Addresses |-> IF a \in S THEN LastBatch + 1 ELSE createdAt[a]]

(***************************************************************************)
(* ORDER BY created_at DESC LIMIT n: rows of one batch in any order.       *)
(***************************************************************************)
Newest(S, T, n) ==
    /\ S \subseteq T
    /\ Cardinality(S) = IF Cardinality(T) < n THEN Cardinality(T) ELSE n
    /\ \A a \in S, b \in T \ S : createdAt[b] <= createdAt[a]

(***************************************************************************)
(* GetByProxy: the row of smallest id, whatever its status.                *)
(***************************************************************************)
\* Faulty variant for VictimsReplaced: the latest row.
LastByProxy(a) ==
    {v \in Rows : proxy[v] = a /\ \A u \in Rows : proxy[u] = a => v \notin before[u]}

GetByProxy(a) ==
    {v \in Rows : proxy[v] = a /\ \A u \in before[v] : proxy[u] # a}

-----------------------------------------------------------------------------
(***************************************************************************)
(* ReplaceProxyResource.  Steps 1 and 2: create the VMs, take the newest   *)
(* Active proxies.  70 seconds after it has returned a goroutine deletes   *)
(* the old VMs.  Bound: the next replacement starts after that.            *)
(***************************************************************************)
Quiet ==
    /\ v1pc = "idle" /\ v2pc = "idle" /\ spc = "idle"
    /\ \A v \in VMs : del["replacement"][v] = "idle"

V1Create ==
    /\ Quiet
    /\ \E N \in SUBSET VMs : NewBatch(N) /\ fresh' = N
    /\ v1pc' = "creating"
    /\ UNCHANGED <<cloudVars, rowVars, proxy, del, sweepVars, refresh, v2Vars, faultVars,
                   poolVars, base, old, moves, lookups, victims, leftVars, syncVars>>

Successes == {v \in fresh : creating[v] = "done"}

V1Query ==
    /\ v1pc = "creating"
    /\ Created(fresh)
    /\ Successes # {}
    /\ \E S \in SUBSET active : Newest(S, active, Num) /\ old' = S
    /\ v1pc' = "disabling"
    /\ UNCHANGED <<fleetVars, poolVars, base, fresh, moves, lookups, victims, leftVars, syncVars>>

\* No VM was created, or the query failed: an error is returned.
V1CreateFails ==
    /\ v1pc = "creating"
    /\ Created(fresh)
    /\ v1pc' = "idle"
    /\ fresh' = {}
    /\ UNCHANGED <<fleetVars, poolVars, base, old, moves, lookups, victims, leftVars, syncVars>>

\* Step 6, done before step 3; its failure is only logged.
V1Disable ==
    /\ v1pc = "disabling"
    /\ Disable(old)
    /\ v1pc' = "inserting"
    /\ UNCHANGED <<fleetVars, createdAt, base, fresh, old, moves, lookups, victims, leftVars,
                   syncVars>>

V1DisableFails ==
    /\ v1pc = "disabling"
    /\ v1pc' = "inserting"
    /\ UNCHANGED <<fleetVars, poolVars, base, fresh, old, moves, lookups, victims, leftVars,
                   syncVars>>

(***************************************************************************)
(* Steps 3 and 4: insert the new proxies (a VM whose address was not found *)
(* brings "pending", twice the same if there are two) and pair the first   *)
(* old ones with them.                                                     *)
(***************************************************************************)
Users(S) == {t \in Tokens : base[t] \in S}

NewProxies == {proxy[v] : v \in Successes}

Pairing(T, f) ==
    /\ Newest(T, old, Cardinality(NewProxies))
    /\ \A a, b \in T : f[a] = f[b] => a = b
    /\ moves' = {<<a, f[a]>> : a \in T}
    /\ unpaired' = unpaired \cup Users(old \ T)

\* Faulty variant for MovedToPooled: the error of the insert is not returned.
V1InsertIgnoringErrors ==
    /\ v1pc = "inserting"
    /\ Insert(NewProxies) \/ UNCHANGED <<active, createdAt>>
    /\ \E T \in SUBSET old : \E f \in [T -> NewProxies] : Pairing(T, f)
    /\ v1pc' = "moving"
    /\ UNCHANGED <<fleetVars, retired, base, fresh, old, lookups, victims, unmoved, syncVars>>

V1Insert ==
    /\ v1pc = "inserting"
    /\ \A u, v \in Successes : proxy[u] = proxy[v] => u = v
    /\ Insert(NewProxies)
    /\ \E T \in SUBSET old : \E f \in [T -> NewProxies] : Pairing(T, f)
    /\ v1pc' = "moving"
    /\ UNCHANGED <<fleetVars, retired, base, fresh, old, lookups, victims, unmoved, syncVars>>

\* The insert fails: the old proxies stay disabled, and their VMs stay.
V1InsertFails ==
    /\ v1pc = "inserting"
    /\ v1pc' = "idle"
    /\ fresh' = {}
    /\ old' = {}
    /\ UNCHANGED <<fleetVars, poolVars, base, moves, lookups, victims, leftVars, syncVars>>

(***************************************************************************)
(* Step 5: ReplaceBaseURLProxy for each pair of the map, in any order; an  *)
(* error is logged and the pair skipped.                                   *)
(***************************************************************************)
ReplaceBaseURLProxy(o, n) == base' = [t \in Tokens |-> IF base[t] = o THEN n ELSE base[t]]

V1Move(m) ==
    /\ v1pc = "moving"
    /\ m \in moves
    /\ ReplaceBaseURLProxy(m[1], m[2])
    /\ moves' = moves \ {m}
    /\ unpaired' = unpaired \ Users({m[1]})
    /\ unmoved' = unmoved \ Users({m[1]})
    /\ UNCHANGED <<fleetVars, poolVars, v1pc, fresh, old, lookups, victims, syncVars>>

V1MoveFails(m) ==
    /\ v1pc = "moving"
    /\ m \in moves
    /\ moves' = moves \ {m}
    /\ unmoved' = unmoved \cup Users({m[1]})
    /\ UNCHANGED <<fleetVars, poolVars, base, v1pc, fresh, old, lookups, victims, unpaired, syncVars>>

V1Moved ==
    /\ v1pc = "moving"
    /\ moves = {}
    /\ lookups' = old
    /\ v1pc' = "finding"
    /\ UNCHANGED <<fleetVars, poolVars, base, fresh, old, moves, victims, leftVars, syncVars>>

\* Step 7, for every old proxy, paired or not.
V1FindVM(a) ==
    /\ v1pc = "finding"
    /\ a \in lookups
    /\ victims' = victims \cup GetByProxy(a)
    /\ lookups' = lookups \ {a}
    /\ UNCHANGED <<fleetVars, poolVars, base, v1pc, fresh, old, moves, leftVars, syncVars>>

V1FindVMFails(a) ==
    /\ v1pc = "finding"
    /\ a \in lookups
    /\ lookups' = lookups \ {a}
    /\ UNCHANGED <<fleetVars, poolVars, base, v1pc, fresh, old, moves, victims, leftVars, syncVars>>

V1Return ==
    /\ v1pc = "finding"
    /\ lookups = {}
    /\ v1pc' = "waiting"
    /\ old' = {}
    /\ fresh' = {}
    /\ UNCHANGED <<fleetVars, poolVars, base, moves, lookups, victims, leftVars, syncVars>>

\* Step 8: BatchDeleteVM in the goroutine.
V1DeleteOld ==
    /\ v1pc = "waiting"
    /\ del' = [del EXCEPT !["replacement"] =
                  [v \in VMs |-> IF v \in victims THEN "asked" ELSE del["replacement"][v]]]
    /\ v1pc' = "idle"
    /\ victims' = {}
    /\ UNCHANGED <<cloudVars, rowVars, createVars, sweepVars, refresh, v2Vars, faultVars,
                   poolVars, base, fresh, old, moves, lookups, leftVars, syncVars>>

-----------------------------------------------------------------------------
(***************************************************************************)
(* The handler of a V2 replacement: when it has created at least one VM    *)
(* and the request says so, SyncProxyPoolFromVMs follows.  Nobody else     *)
(* changes proxy_pool meanwhile, so what the sync has read of it is what   *)
(* it finds when it writes; of vm_instances that does not hold.            *)
(***************************************************************************)
V2Returns ==
    /\ V2Done
    /\ spc' \in IF \E v \in batch2 : creating[v] = "done" THEN {"idle", "reading"} ELSE {"idle"}
    /\ UNCHANGED <<poolVars, base, v1Vars, listed>>

(***************************************************************************)
(* set2Map: the proxies of the rows GetActiveVMs returns, which are all    *)
(* but the Deleted ones, if proxy_type is "server" exactly.                *)
(***************************************************************************)
\* Faulty variant for SyncSparesRunning: compared with what CreateVM stores now.
SyncReadCurrentType ==
    /\ spc = "reading"
    /\ listed' = {proxy[v] : v \in {u \in Rows : status[u] # "Deleted"
                                               /\ TypeOf(u) = "httpProxyServer"}}
    /\ spc' = "updating"
    /\ UNCHANGED <<fleetVars, poolVars, base, v1Vars>>

SyncRead ==
    /\ spc = "reading"
    /\ listed' = {proxy[v] : v \in {u \in Rows : status[u] # "Deleted" /\ TypeOf(u) = "server"}}
    /\ spc' = "updating"
    /\ UNCHANGED <<fleetVars, poolVars, base, v1Vars>>

\* Faulty variant for TypeOK: the rows are removed, not marked Deleted.
SyncUpdateRemoving ==
    /\ spc = "updating"
    /\ active' = active \cap listed
    /\ retired' = retired \cap listed
    /\ spc' = "inserting"
    /\ UNCHANGED <<fleetVars, createdAt, base, v1Vars, listed>>

SyncUpdate ==
    /\ spc = "updating"
    /\ Disable((active \cup retired) \ listed)
    /\ spc' = "inserting"
    /\ UNCHANGED <<fleetVars, createdAt, base, v1Vars, listed>>

(***************************************************************************)
(* An address with a row of either status counts as processed.             *)
(***************************************************************************)
SyncInsert ==
    /\ spc = "inserting"
    /\ Insert(listed \ (active \cup retired))
    /\ spc' = "done"
    /\ UNCHANGED <<fleetVars, retired, base, v1Vars, listed>>

\* A query or statement fails, or the sync has ended.
SyncReturns ==
    /\ spc # "idle"
    /\ spc' = "idle"
    /\ listed' = {}
    /\ UNCHANGED <<fleetVars, poolVars, base, v1Vars>>

-----------------------------------------------------------------------------
ReplaceProxyResource ==
    \/ V1Create \/ V1Query \/ V1CreateFails \/ V1Disable \/ V1DisableFails
    \/ V1Insert \/ V1InsertFails
    \/ \E m \in moves : V1Move(m) \/ V1MoveFails(m)
    \/ V1Moved
    \/ \E a \in lookups : V1FindVM(a) \/ V1FindVMFails(a)
    \/ V1Return \/ V1DeleteOld

SyncProxyPoolFromVMs == SyncRead \/ SyncUpdate \/ SyncInsert \/ SyncReturns

ReplaceProxyResourceV2 == (v2pc = "idle" => Quiet) /\ V2Begin

Next ==
    \/ FleetRequests /\ UNCHANGED proxyVars
    \/ ReplaceProxyResourceV2 /\ UNCHANGED proxyVars
    \/ V2Returns
    \/ ReplaceProxyResource
    \/ SyncProxyPoolFromVMs

Spec == Init /\ [][Next]_allVars

-----------------------------------------------------------------------------
(***************************************************************************)
(* Every variable has its type; a token's address has a row in the pool.   *)
(***************************************************************************)
TypeOK ==
    /\ active \subseteq Addresses
    /\ retired \subseteq Addresses
    /\ createdAt \in [Addresses -> Nat]
    /\ base \in [Tokens -> active \cup retired]
    /\ v1pc \in V1Pc
    /\ fresh \subseteq VMs
    /\ old \subseteq active \cup retired
    /\ moves \subseteq old \X active
    /\ lookups \subseteq old
    /\ victims \subseteq Rows
    /\ unpaired \cup unmoved \subseteq Tokens
    /\ spc \in SyncPc
    /\ listed \subseteq Addresses

(***************************************************************************)
(* A token is only ever moved to a proxy that is Active in the pool at     *)
(* that moment, whatever statements failed before.                         *)
(***************************************************************************)
MovedToPooled ==
    [][\A t \in Tokens : base'[t] # base[t] => base'[t] \in active]_allVars

(***************************************************************************)
(* When ReplaceProxyResource takes down an instance, 70 seconds after it   *)
(* has returned, no token uses the address of that instance, though the    *)
(* cloud recycles addresses and the VM was found by its proxy.  There are  *)
(* two exceptions: the tokens of an old proxy that was left without a      *)
(* partner (fewer VMs were created than there were old proxies) or whose   *)
(* update failed; and an address that was replaced for the sake of a VM    *)
(* without a row (its insert failed) which has another address by now:     *)
(* GetByProxy then finds whoever has the address, even the new VM.  And it *)
(* is about instances at the address of their proxy: to one that has been  *)
(* given another no token leads, as no proxy is ever built for that.       *)
(***************************************************************************)
TakenDown(v) ==
    /\ cloud[v] = "running" /\ cloud'[v] = "deleted"
    /\ proxy[v] = address[v]
    /\ del["replacement"][v] = "asked" /\ del'["replacement"][v] = "commanded"

Strayed(a) ==
    \E w \in VMs : creating[w] = "done" /\ status[w] = "none" /\ proxy[w] = a /\ address[w] # a

VictimsReplaced ==
    [][\A v \in VMs, t \in Tokens :
          TakenDown(v) /\ base[t] = address[v] =>
              t \in unpaired \cup unmoved \/ Strayed(address[v])]_allVars

(***************************************************************************)
(* docs/replace_proxy_resource_api.md, "in official_tokens, the base_url   *)
(* of all that use an old proxy is replaced": unless an update failed, no  *)
(* token uses the address of an instance ReplaceProxyResource takes down.  *)
(***************************************************************************)
NoTokenLeftBehind ==
    [][\A v \in VMs, t \in Tokens :
          TakenDown(v) /\ base[t] = address[v] => t \in unmoved]_allVars

(***************************************************************************)
(* docs/proxy_pool_sync.md, "proxy_pool agrees with the VMs that run", for *)
(* the type "server" only: what a sync retires is not the proxy of a VM of *)
(* that type whose row says Running and whose instance runs, whatever      *)
(* becomes of the VMs between its read and its update; unless DeleteVM has *)
(* ignored a failed command and a refresh undone its Deleted meanwhile.    *)
(* The type does the harm: all that CreateVM makes, whose type is          *)
(* "httpProxyServer", is retired, and the property does not cover it.      *)
(***************************************************************************)
SyncRetires(v) == spc = "updating" /\ proxy[v] \in active \ active'

SyncSparesRunning ==
    [][\A v \in Rows :
          SyncRetires(v) /\ TypeOf(v) = "server" /\ status[v] = "Running" /\ cloud[v] = "running"
              => v \in cmdFailed]_allVars
=============================================================================
