-------------------------- MODULE PostLoginProcess ---------------------------
(***************************************************************************)
(* What happens to the projects of one account after it has logged in:     *)
(* ProcessPostLoginV2 and ProcessPostLoginV3 of                            *)
(* service/gcloud/post_login_process_v2.go, on the table gcp_accounts, the *)
(* table official_tokens and the account's projects at Google, together    *)
(* with SetTokenInvalid (service/project_service.go).                      *)
(*                                                                         *)
(* A run reads the account's rows once, keeps them in memory while it      *)
(* creates keys and moves billing by commands that take seconds each, and  *)
(* writes whole rows back.  Runs overlap: the limiter of the handlers      *)
(* spaces the starts of the runs, not the runs, and a request of V3 may    *)
(* skip it.                                                                *)
(*                                                                         *)
(* The commands of one listing (the projects, their billing) are one step, *)
(* and so are the inserts of Step 1: no property relates one project to    *)
(* another.  Loops run over their projects in any order; that of gcloud's  *)
(* listing and of Go's maps is not specified.                              *)
(***************************************************************************)
EXTENDS Naturals, FiniteSets

CONSTANTS
    Runs,       \* requests to process the account
    Projects,   \* the ids of its projects, the ones not created yet included
    Target,     \* targetCount, 12 in the code
    FailLimit,  \* V3 stops binding when more commands than this have failed, 2 in the code
    PastRows,   \* rows earlier runs may have left
    Earlier,    \* an earlier run
    None

ASSUME ProcessConstants ==
    /\ Target \in Nat /\ FailLimit \in Nat
    /\ Earlier \notin Runs /\ None \notin Runs \cup {Earlier} \cup Projects

VARIABLES
    exists,    \* the projects the account has at Google
    linked,    \* those linked to a billing account
    keys,      \* per project, the runs that created an API key in it
    rows,      \* gcp_accounts: the row of each project, or None
    official,  \* official_tokens
    run,       \* per run, where it is and its PostLoginProcessCtx
    stale,     \* history: projects one of whose changes was overwritten from an older copy
    lost,      \* history: projects whose row missed a change at Google
    again      \* history: projects that two runs moved to the same billing

vars == <<exists, linked, keys, rows, official, run, stale, lost, again>>

Modes == {"V2", "V3unbind", "V3keep"}
Unbound == 0
Bound   == 1
Detach  == 2

NoToken    == 0
CreateFail == 1
Got        == 2
Invalid    == 3

Keys == Runs \cup {Earlier, None}

Rows     == [billing : Unbound .. Detach, token : NoToken .. Invalid, key : Keys, oid : Keys]
NewRow   == [billing |-> Unbound, token |-> NoToken, key |-> None, oid |-> None]
Official == [project : Projects, key : Keys, by : Runs \cup {Earlier}]

\* A key is stored together with its status, Got, and stays when that becomes Invalid
ASSUME PastRowsAssumption ==
    /\ None \notin Rows
    /\ PastRows \subseteq Rows
    /\ \A row \in PastRows : row.token < Got => row.key = None

Stages == {"idle", "list", "create", "load", "insert", "reload", "describe",
           "check", "bind", "token", "valid", "existing", "sync", "ended"}

\* The context of a run that does not run
Blank(stage) ==
    [stage |-> stage, mode |-> "V2",
     list |-> {}, fresh |-> {},                        \* CliProjectList; NewCreate
     mem |-> [p \in Projects |-> None],                \* DbProjectsMp
     base |-> [p \in Projects |-> None],               \* the rows it last read or wrote
     found |-> {}, accounts |-> FALSE,                 \* billing: bound projects, any account?
     bound |-> {}, fails |-> 0,                        \* BoundProjectsDetail, bindFail
     sold |-> {},                                      \* existingTokens
     tried |-> {}, saving |-> None]                    \* of the loop it is in

Active(r) == run[r].stage \notin {"idle", "ended"}
Saving(p) == \E r \in Runs : run[r].saving = p

-----------------------------------------------------------------------------
(***************************************************************************)
(* The stages of a run, and the projects each of its loops works on.       *)
(***************************************************************************)
AfterSetup(m) == IF m = "V2" THEN "token" ELSE "describe"

After(m, stage) ==
    CASE stage = "check" -> "bind"
      [] stage = "bind"  -> IF m = "V2" THEN "valid" ELSE "token"
      [] stage = "token" -> IF m = "V2" THEN "describe" ELSE "valid"
      [] stage = "sync"  -> "ended"

\* Faulty variant for KeyRecorded: a status that is Got already does not stop V3.
TokenWorkUpToGot(r) ==
    IF run[r].mode = "V2"
    THEN {p \in run[r].list : run[r].mem[p] # None /\ run[r].mem[p].token = NoToken}
    ELSE {p \in run[r].bound : run[r].mem[p].token <= Got}

\* Faulty variant for RetryNeedsABind: V2 tries again where the creation failed.
TokenWorkRetrying(r) ==
    IF run[r].mode = "V2"
    THEN {p \in run[r].list : run[r].mem[p] # None /\ run[r].mem[p].token < Got}
    ELSE {p \in run[r].bound : run[r].mem[p].token < Got}

TokenWork(r) ==
    IF run[r].mode = "V2"
    THEN {p \in run[r].list : run[r].mem[p] # None /\ run[r].mem[p].token = NoToken}
    ELSE {p \in run[r].bound : run[r].mem[p].token < Got}

\* V2 skips a project without a row; V3 reaches for the row
CheckWork(r) ==
    CASE run[r].mode = "V2"       -> {p \in run[r].found : /\ run[r].mem[p] # None
                                                          /\ run[r].mem[p].billing = Unbound}
      [] run[r].mode = "V3keep"   -> {p \in run[r].found : \/ run[r].mem[p] = None
                                                          \/ run[r].mem[p].billing = Unbound}
      [] run[r].mode = "V3unbind" -> run[r].found

\* Faulty variant for FinalStates: whatever is not bound gets bound.
BindWorkNotBound(r) ==
    IF run[r].accounts /\ run[r].fails <= FailLimit
    THEN {p \in run[r].list : run[r].mem[p] # None /\ run[r].mem[p].billing # Bound}
    ELSE {}

BindWork(r) ==
    IF run[r].accounts /\ run[r].fails <= FailLimit
    THEN {p \in run[r].list : run[r].mem[p] # None /\ run[r].mem[p].billing = Unbound}
    ELSE {}

\* Faulty variant for OfficialRecorded: existingTokens is not consulted.
SyncWorkAll(r) ==
    {p \in Projects : /\ run[r].mem[p] # None
                      /\ run[r].mem[p].billing = Bound
                      /\ run[r].mem[p].token = Got
                      /\ run[r].mem[p].key # None}

SyncWork(r) ==
    {p \in Projects \ run[r].sold : /\ run[r].mem[p] # None
                                    /\ run[r].mem[p].billing = Bound
                                    /\ run[r].mem[p].token = Got
                                    /\ run[r].mem[p].key # None}

Left(r, stage) ==
    IF run[r].saving # None \/ run[r].stage # stage THEN {}
    ELSE CASE stage = "token" -> TokenWork(r) \ run[r].tried
           [] stage = "check" -> CheckWork(r) \ run[r].tried
           [] stage = "bind"  -> BindWork(r) \ run[r].tried
           [] stage = "sync"  -> SyncWork(r) \ run[r].tried

\* The loop body has been entered for p; mem is the row it leaves in memory,
\* which is saved next
ToSave(r, p, row) ==
    [run[r] EXCEPT !.tried = @ \cup {p}, !.mem[p] = row, !.saving = p]

Tried(r, p) == [run[r] EXCEPT !.tried = @ \cup {p}]

-----------------------------------------------------------------------------
Init ==
    /\ exists \in SUBSET Projects
    /\ linked \in SUBSET exists
    /\ rows \in [Projects -> PastRows \cup {None}]
    /\ \A p \in Projects : rows[p] # None =>
         /\ p \in exists
         /\ rows[p].billing = Bound => p \in linked
         /\ rows[p].billing = Detach => p \notin linked
         /\ rows[p].key \in {None, Earlier}
         /\ rows[p].token = Got => rows[p].key = Earlier
         /\ rows[p].oid \in {None, rows[p].key}
    /\ keys = [p \in Projects |-> IF rows[p] = None THEN {} ELSE {rows[p].key} \ {None}]
    /\ official = {[project |-> p, key |-> Earlier, by |-> Earlier] :
                       p \in {q \in Projects : rows[q] # None /\ rows[q].oid = Earlier}}
    /\ run = [r \in Runs |-> Blank("idle")]
    /\ stale = {}
    /\ lost = {}
    /\ again = {}

\* A request passes the checks of the service: the account is logged in and its VM runs
Start(r) ==
    /\ run[r].stage = "idle"
    /\ \E m \in Modes : run' = [run EXCEPT ![r].stage = "list", ![r].mode = m]
    /\ UNCHANGED <<exists, linked, keys, rows, official, stale, lost, again>>

(***************************************************************************)
(* Step 1.                                                                 *)
(***************************************************************************)
ListProjects(r) ==
    /\ run[r].stage = "list"
    /\ run' = [run EXCEPT ![r].stage = "create", ![r].list = exists]
    /\ UNCHANGED <<exists, linked, keys, rows, official, stale, lost, again>>

\* createProjects stops at the first command that fails
CreateProjects(r) ==
    /\ run[r].stage = "create"
    /\ \E new \in SUBSET (Projects \ exists) :
         /\ new = {} \/ Cardinality(run[r].list) + Cardinality(new) <= Target
         /\ exists' = exists \cup new
         /\ run' = [run EXCEPT ![r].stage = "load", ![r].list = @ \cup new, ![r].fresh = new]
    /\ UNCHANGED <<linked, keys, rows, official, stale, lost, again>>

\* loadDBProjects, the first time or again after an insert
LoadRows(r) ==
    /\ run[r].stage \in {"load", "reload"}
    /\ run' = [run EXCEPT
         ![r].stage = IF run[r].stage = "load" THEN "insert" ELSE AfterSetup(run[r].mode),
         ![r].mem   = rows,
         ![r].base  = rows]
    /\ UNCHANGED <<exists, linked, keys, rows, official, stale, lost, again>>

\* Inserts fail; one does when another run has inserted the row (a unique index)
InsertRows(r) ==
    /\ run[r].stage = "insert"
    /\ \E new \in SUBSET {p \in run[r].list : run[r].mem[p] = None /\ rows[p] = None} :
         /\ rows' = [p \in Projects |-> IF p \in new THEN NewRow ELSE rows[p]]
         /\ run' = [run EXCEPT ![r].stage = IF new = {} THEN AfterSetup(run[r].mode)
                                                        ELSE "reload"]
    /\ UNCHANGED <<exists, linked, keys, official, stale, lost, again>>

-----------------------------------------------------------------------------
(***************************************************************************)
(* The loops.  A command over ssh reports success, or reports a failure    *)
(* after it did nothing or after it did its work.                          *)
(***************************************************************************)
Replies(before, after) ==
    {[ok |-> TRUE,  now |-> after],
     [ok |-> FALSE, now |-> before],
     [ok |-> FALSE, now |-> after]}

GenerateTokenForProject(r, p) == Replies(keys[p], keys[p] \cup {r})
BindProjectToBilling(p)       == Replies(linked, linked \cup {p})
UnbindProjectBilling(p)       == Replies(linked, linked \ {p})

\* Step 2 of V2, Step 4 of V3
CreateKey(r, p) ==
    /\ p \in Left(r, "token")
    /\ \E reply \in GenerateTokenForProject(r, p) :
         /\ keys' = [keys EXCEPT ![p] = reply.now]
         /\ run' = [run EXCEPT ![r] = ToSave(r, p,
              IF reply.ok THEN [run[r].mem[p] EXCEPT !.token = Got, !.key = r]
                          ELSE [run[r].mem[p] EXCEPT !.token = CreateFail])]
         /\ lost' = IF ~reply.ok /\ keys' # keys THEN lost \cup {p} ELSE lost
    /\ UNCHANGED <<exists, linked, rows, official, stale, again>>

\* Faulty variant for TypeOK: asks for all linked projects, not for those of the listing.
DescribeBillingAll(r) ==
    /\ run[r].stage = "describe"
    /\ \E found \in SUBSET {p \in linked \ run[r].fresh :
                               ~(run[r].mem[p] # None /\ run[r].mem[p].billing = Detach)},
          accounts \in BOOLEAN :
         run' = [run EXCEPT ![r].stage = "check", ![r].found = found, ![r].accounts = accounts]
    /\ UNCHANGED <<exists, linked, keys, rows, official, stale, lost, again>>

\* getBillingProjectsInfo: a command that fails leaves a project out
DescribeBilling(r) ==
    /\ run[r].stage = "describe"
    /\ \E found \in SUBSET {p \in linked \cap (run[r].list \ run[r].fresh) :
                               ~(run[r].mem[p] # None /\ run[r].mem[p].billing = Detach)},
          accounts \in BOOLEAN :
         run' = [run EXCEPT ![r].stage = "check", ![r].found = found, ![r].accounts = accounts]
    /\ UNCHANGED <<exists, linked, keys, rows, official, stale, lost, again>>

\* Faulty variant for BillingAgrees: goes on after a failed unlink as after a good one.
UnlinkIgnoringErrors(r, p) ==
    /\ run[r].mode = "V3unbind" /\ p \in Left(r, "check")
    /\ \E reply \in UnbindProjectBilling(p) : linked' = reply.now
    /\ IF run[r].mem[p] = None
       THEN /\ run' = [run EXCEPT ![r] = Blank("ended")]
            /\ lost' = lost \cup {p}
       ELSE /\ run' = [run EXCEPT ![r] = ToSave(r, p, [run[r].mem[p] EXCEPT !.billing = Detach])]
            /\ UNCHANGED lost
    /\ UNCHANGED <<exists, keys, rows, official, stale, again>>

\* PostLoginProcessV3Step2BillingCheck: the row is reached for after the command,
\* and the handler panics where there is none
Unlink(r, p) ==
    /\ run[r].mode = "V3unbind" /\ p \in Left(r, "check")
    /\ \E reply \in UnbindProjectBilling(p) :
         /\ linked' = reply.now
         /\ run' = [run EXCEPT ![r] =
              IF ~reply.ok THEN Tried(r, p)
              ELSE IF run[r].mem[p] = None THEN Blank("ended")
              ELSE ToSave(r, p, [run[r].mem[p] EXCEPT !.billing = Detach])]
         /\ lost' = IF linked' # linked /\ (~reply.ok \/ run[r].mem[p] = None)
                    THEN lost \cup {p} ELSE lost
    /\ UNCHANGED <<exists, keys, rows, official, stale, again>>

\* The same without unbinding, and PostLoginProcessStep3BillingCheck of V2
MarkBound(r, p) ==
    /\ run[r].mode # "V3unbind" /\ p \in Left(r, "check")
    /\ IF run[r].mem[p] = None
       THEN run' = [run EXCEPT ![r] = Blank("ended")]
       ELSE run' = [run EXCEPT ![r] = ToSave(r, p, [run[r].mem[p] EXCEPT !.billing = Bound])]
    /\ UNCHANGED <<exists, linked, keys, rows, official, stale, lost, again>>

\* PostLoginProcessV3Step3BillingBind, PostLoginProcessStep4BillingBind
Link(r, p) ==
    /\ p \in Left(r, "bind")
    /\ \E reply \in BindProjectToBilling(p) :
         /\ linked' = reply.now
         /\ run' = [run EXCEPT ![r] =
              IF reply.ok THEN ToSave(r, p, [run[r].mem[p] EXCEPT !.billing = Bound])
              ELSE [Tried(r, p) EXCEPT !.fails = IF run[r].mode = "V2" THEN 0 ELSE @ + 1]]
         /\ lost' = IF ~reply.ok /\ linked' # linked THEN lost \cup {p} ELSE lost
    /\ UNCHANGED <<exists, keys, rows, official, stale, again>>

\* PostLoginProcessStep5TokenSync reads the rows anew, then official_tokens
ReadValid(r) ==
    /\ run[r].stage = "valid"
    /\ run' = [run EXCEPT ![r].stage = "existing", ![r].mem = rows, ![r].base = rows]
    /\ UNCHANGED <<exists, linked, keys, rows, official, stale, lost, again>>

ReadExisting(r) ==
    /\ run[r].stage = "existing"
    /\ run' = [run EXCEPT ![r].stage = "sync", ![r].sold = {o.project : o \in official}]
    /\ UNCHANGED <<exists, linked, keys, rows, official, stale, lost, again>>

\* insertOfficialToken; the id it returns goes into the row
InsertOfficial(r, p) ==
    /\ p \in Left(r, "sync")
    /\ \/ /\ official' = official \cup {[project |-> p, key |-> run[r].mem[p].key, by |-> r]}
          /\ run' = [run EXCEPT ![r] = ToSave(r, p, [run[r].mem[p] EXCEPT !.oid = r])]
       \/ /\ run' = [run EXCEPT ![r] = Tried(r, p)]
          /\ UNCHANGED official
    /\ UNCHANGED <<exists, linked, keys, rows, stale, lost, again>>

\* Saving the copy new, read as base, undoes a change another run has made since
Overwrites(new, base, row) ==
    \E f \in {"billing", "token", "key", "oid"} : row[f] # base[f] /\ new[f] # row[f]

\* It moves the billing to where another run has moved it since
Repeats(new, base, row) == row.billing # base.billing /\ new.billing = row.billing

\* GcpAccountDao.Save writes every column, or fails
Save(r) ==
    LET p   == run[r].saving
        new == run[r].mem[p]
    IN  /\ p # None
        /\ \/ /\ rows' = [rows EXCEPT ![p] = new]
              /\ stale' = IF Overwrites(new, run[r].base[p], rows[p])
                          THEN stale \cup {p} ELSE stale
              /\ again' = IF Repeats(new, run[r].base[p], rows[p])
                          THEN again \cup {p} ELSE again
              /\ run' = [run EXCEPT ![r].saving = None, ![r].base[p] = new,
                            ![r].bound = IF run[r].stage = "bind" THEN @ \cup {p} ELSE @]
              /\ UNCHANGED lost
           \/ /\ run' = [run EXCEPT ![r].saving = None]
              /\ lost' = lost \cup {p}
              /\ UNCHANGED <<rows, stale, again>>
        /\ UNCHANGED <<exists, linked, keys, official>>

\* A loop has nothing left to do; what no later stage reads is dropped
EndLoop(r) ==
    /\ run[r].stage \in {"token", "check", "bind", "sync"}
    /\ run[r].saving = None
    /\ Left(r, run[r].stage) = {}
    /\ LET next == After(run[r].mode, run[r].stage)
       IN  run' = [run EXCEPT ![r] =
                     IF next \in {"valid", "ended"} THEN Blank(next)
                     ELSE [run[r] EXCEPT !.stage = next, !.tried = {}, !.found = {}, !.fails = 0,
                             !.accounts = @ /\ run[r].stage = "check"]]
    /\ UNCHANGED <<exists, linked, keys, rows, official, stale, lost, again>>

-----------------------------------------------------------------------------
\* The listing command or a SELECT fails, and the run returns its error
GiveUp(r) ==
    /\ run[r].stage \in {"list", "load", "reload", "valid", "existing"}
    /\ run' = [run EXCEPT ![r] = Blank("ended")]
    /\ UNCHANGED <<exists, linked, keys, rows, official, stale, lost, again>>

\* The process dies, and its runs with it
Crash ==
    /\ \E r \in Runs : Active(r)
    /\ run' = [r \in Runs |-> IF Active(r) THEN Blank("ended") ELSE run[r]]
    /\ lost' = lost \cup {p \in Projects : Saving(p)}
    /\ UNCHANGED <<exists, linked, keys, rows, official, stale, again>>

\* SetTokenInvalid updates one column, for any row a client names
SetTokenInvalid(p) ==
    /\ rows[p] # None
    /\ rows' = [rows EXCEPT ![p].token = Invalid]
    /\ UNCHANGED <<exists, linked, keys, official, run, stale, lost, again>>

Next ==
    \/ \E r \in Runs :
         \/ Start(r) \/ ListProjects(r) \/ CreateProjects(r) \/ LoadRows(r) \/ InsertRows(r)
         \/ DescribeBilling(r) \/ ReadValid(r) \/ ReadExisting(r)
         \/ Save(r) \/ EndLoop(r) \/ GiveUp(r)
         \/ \E p \in Projects :
              CreateKey(r, p) \/ Unlink(r, p) \/ MarkBound(r, p) \/ Link(r, p)
              \/ InsertOfficial(r, p)
    \/ Crash
    \/ \E p \in Projects : SetTokenInvalid(p)

Spec == Init /\ [][Next]_vars

-----------------------------------------------------------------------------
TypeOK ==
    /\ linked \subseteq exists /\ exists \subseteq Projects
    /\ keys \in [Projects -> SUBSET (Keys \ {None})]
    /\ rows \in [Projects -> Rows \cup {None}]
    /\ official \subseteq Official
    /\ stale \subseteq Projects /\ lost \subseteq Projects /\ again \subseteq Projects
    /\ \A r \in Runs :
         /\ run[r].stage \in Stages /\ run[r].mode \in Modes
         /\ run[r].list \subseteq exists /\ run[r].fresh \subseteq run[r].list
         /\ run[r].found \subseteq run[r].list /\ run[r].bound \subseteq run[r].list
         /\ run[r].mem \in [Projects -> Rows \cup {None}]
         /\ run[r].base \in [Projects -> Rows \cup {None}]
         /\ run[r].fails \in 0 .. FailLimit + 1
         /\ run[r].saving \in Projects \cup {None}
         /\ run[r].saving # None => /\ run[r].mem[run[r].saving] # None
                                    /\ run[r].base[run[r].saving] # None
                                    /\ rows[run[r].saving] # None

\* What gcp_accounts says of billing is so at Google: a Bound project is linked
\* and a Detach one is not.  Exceptions are the project of a row a run is about
\* to save, of a change nobody could record (lost), of a lost update (stale), and
\* one that two runs have bound (again): the row does not tell the second time
\* from the first, so a third run that unlinked in between saves Detach for a
\* project that is linked again.
BillingAgrees ==
    \A p \in Projects \ (stale \cup lost \cup again) :
        rows[p] # None /\ ~Saving(p) =>
            /\ rows[p].billing = Bound => p \in linked
            /\ rows[p].billing = Detach => p \notin linked

\* A key that was created at Google is the one in the project's row, or its run is
\* about to save it: it gets lost by a failed save, a crash or a lost update only.
\* So no run creates a second key for a project whose key is recorded.
KeyRecorded ==
    \A p \in Projects \ (stale \cup lost) : \A k \in keys[p] :
        \/ rows[p] # None /\ rows[p].key = k
        \/ k \in Runs /\ run[k].saving = p

\* A row of official_tokens offers the key of its project's row, and that row has
\* its id; so a project is offered twice only by runs one of which undoes the
\* other's save, or after a save that failed.
OfficialRecorded ==
    \A o \in official : o.project \notin stale \cup lost =>
        \/ rows[o.project].key = o.key /\ rows[o.project].oid = o.by
        \/ o.by \in Runs /\ run[o.by].saving = o.project

\* A detached project stays detached, and an invalid token invalid, whatever runs
\* have read the row before: only a lost update brings it back.
FinalStates ==
    [][\A p \in Projects : rows[p] # None /\ p \notin stale' =>
          /\ rows[p].billing = Detach => rows'[p].billing = Detach
          /\ rows[p].token = Invalid => rows'[p].token = Invalid]_vars

\* A project whose key could not be created gets one only after a run of V3, not
\* necessarily the one that saves the key, has bound it and recorded that: until
\* such a run the failure is for good.
RetryNeedsABind ==
    [][\A p \in Projects :
          rows[p] # None /\ p \notin stale' /\ rows[p].token = CreateFail /\ rows'[p].token = Got
            => \E r \in Runs : run[r].mode # "V2" /\ p \in run[r].bound]_vars
=============================================================================
