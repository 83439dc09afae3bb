------------------------ MODULE AccountRegistration -------------------------
(***************************************************************************)
(* Accounts and their VMs: StartAccountRegistration and SubmitAuthKey of   *)
(* service/gcp_account_service.go on the table gcp_accounts                *)
(* (dao/gcp_account.go), composed with the VM fleet from which they borrow *)
(* their VMs and whose rows they write off themselves.                     *)
(*                                                                         *)
(* An account has a status row, the one without a project, and rows for    *)
(* its projects, which post-login processing inserts and saves; one        *)
(* project stands for all.  A login itself is LoginSession: here it is the *)
(* step that lets an account into the VM or does not.                      *)
(*                                                                         *)
(* A SELECT or command that fails before anything was changed ends the     *)
(* request with an error: GiveUp.                                          *)
(***************************************************************************)
EXTENDS VmFleet

CONSTANTS
    Requests,   \* requests to register an account
    Emails,     \* the accounts
    Names,      \* what the column email may hold
    Extracted,  \* per account, what extractEmailFromSessionID makes of its session id
    Owned       \* the accounts that have their VM already: a function to VMs

NoProject == "none"

(***************************************************************************)
(* The session id holds the e-mail with "_" for "@", and "@" is put back   *)
(* for every "_": an e-mail without one comes out as it went in, another   *)
(* as a name with two "@", which is nobody's e-mail.  Not so for e-mails   *)
(* with "___", at which the session id is split: those that agree up to    *)
(* there come out alike, and are assumed not to occur.                     *)
(***************************************************************************)
ASSUME AccountsAssumption ==
    /\ Emails \subseteq Names
    /\ Extracted \in [Emails -> Names]
    /\ \A e, f \in Emails : Extracted[e] = Extracted[f] => e = f
    /\ \A e \in Emails : Extracted[e] \in Emails => Extracted[e] = e
    /\ DOMAIN Owned \subseteq Emails
    /\ \A e \in DOMAIN Owned : Owned[e] \in Initial
    /\ \A e, f \in DOMAIN Owned : Owned[e] = Owned[f] => e = f
    /\ None \notin Names
    /\ NoProject \notin VMs \cup {None}

VARIABLES
    accounts,   \* the status row of each name: its vm_id and auth_status
    projects,   \* the project row of each name: its vm_id
    login,      \* per VM and account, what "gcloud auth list" says there
    reg,        \* per request, where it is, its account, the VM and the external IP
                \* of the row it has read, and the VM its login session is on
    work,       \* per name, the row a post-login run has in memory
    givenUp,    \* history: VMs a registration gave up because they were marked
                \* PendingDelete, or because the describe command failed
    moved,      \* history: status rows given a new VM by updateAccountVMInfo
    strayed,    \* history: accounts a command for which has reached another VM
    overtaken   \* history: accounts of two requests at once, or whose rows do not
                \* tell all because an update or the end of a login failed, or
                \* because a login or switch succeeded that was reported failed

accountVars == <<accounts, projects, login, reg, work>>
historyVars == <<givenUp, moved, strayed, overtaken>>
vars        == <<fleetVars, accountVars, historyVars>>

AuthStatus == {"LoggedIn", "LoginFailed"}

NoRow == [vm |-> None, auth |-> "none"]
StatusRow == [vm : VMs \cup {None}, auth : AuthStatus]   \* None stands for ''

AccountAuthStatus == {"not_login", "inactive", "active"}

RegPc == {"idle", "find", "describe", "clean", "untag", "create", "creating", "tag",
          "check", "switch", "login", "session", "verify",
          "save", "saveFailed", "record", "ended"}

Registering(pc) == [pc |-> pc, email |-> None, vm |-> None, ip |-> None, host |-> None]

Idle == [busy |-> FALSE, seen |-> None]

Goto(r, pc) == reg' = [reg EXCEPT ![r].pc = pc]
End(r)      == reg' = [reg EXCEPT ![r] = Registering("ended")]

\* Somebody else is at work on the account of that name
Busy(n) == \/ work[n].busy
           \/ \E q \in Requests : reg[q].email = n

-----------------------------------------------------------------------------
Init ==
    /\ FleetInit
    /\ accounts \in [Names -> {NoRow} \cup StatusRow]
    /\ \A n \in Names :
         IF n \in DOMAIN Owned
         THEN accounts[n].vm = Owned[n]
         ELSE accounts[n] = NoRow
    /\ projects \in [Names -> VMs \cup {NoProject}]
    /\ \A n \in Names : projects[n] # NoProject => accounts[n] # NoRow /\ projects[n] = accounts[n].vm
    /\ login \in [VMs -> [Emails -> AccountAuthStatus]]
    /\ \A v \in VMs, e \in Emails :
         login[v][e] # "not_login" <=> accounts[e] = [vm |-> v, auth |-> "LoggedIn"]
    /\ reg = [r \in Requests |-> Registering("idle")]
    /\ work = [n \in Names |-> Idle]
    /\ givenUp = {} /\ moved = {} /\ strayed = {} /\ overtaken = {}

-----------------------------------------------------------------------------
(***************************************************************************)
(* StartAccountRegistration: the status row says which VM to try.          *)
(***************************************************************************)
\* Faulty variant for TypeOK: an account without a vm_id is not told apart.
StartAccountRegistrationUntagged(r, e) ==
    /\ reg[r].pc = "idle"
    /\ reg' = [reg EXCEPT ![r] =
                  [pc    |-> IF accounts[e] = NoRow THEN "create" ELSE "find",
                   email |-> e,
                   vm    |-> accounts[e].vm,
                   ip    |-> None,
                   host  |-> None]]
    /\ overtaken' = IF Busy(e) THEN overtaken \cup {e} ELSE overtaken
    /\ UNCHANGED <<fleetVars, accounts, projects, login, work, givenUp, moved, strayed>>

StartAccountRegistration(r, e) ==
    /\ reg[r].pc = "idle"
    /\ reg' = [reg EXCEPT ![r] =
                  [pc    |-> IF accounts[e].vm = None THEN "create" ELSE "find",
                   email |-> e,
                   vm    |-> accounts[e].vm,
                   ip    |-> None,
                   host  |-> None]]
    /\ overtaken' = IF Busy(e) THEN overtaken \cup {e} ELSE overtaken
    /\ UNCHANGED <<fleetVars, accounts, projects, login, work, givenUp, moved, strayed>>

\* getValidVm: the row is there and says Running ...
FindVm(r) ==
    LET v == reg[r].vm
    IN  /\ reg[r].pc = "find"
        /\ IF status[v] = "Running"
           THEN reg' = [reg EXCEPT ![r].pc = "describe", ![r].ip = externalIP[v]]
           ELSE Goto(r, "clean")
        /\ givenUp' = IF status[v] = "PendingDelete" THEN givenUp \cup {v} ELSE givenUp
        /\ UNCHANGED <<fleetVars, accounts, projects, login, work, moved, strayed, overtaken>>

\* ... and verifyVMExistsInGCP finds the instance: a command that fails has not
VerifyVMExistsInGCP(r) ==
    LET v == reg[r].vm
    IN  /\ reg[r].pc = "describe"
        /\ \/ cloud[v] = "running" /\ Goto(r, "check") /\ UNCHANGED givenUp
           \/ /\ Goto(r, "clean")
              /\ givenUp' = IF cloud[v] = "running" THEN givenUp \cup {v} ELSE givenUp
        /\ UNCHANGED <<fleetVars, accounts, projects, login, work, moved, strayed, overtaken>>

\* cleanAccountVmIdTag: two updates, each of which may fail, and nobody minds
WriteOff(r) ==
    /\ reg[r].pc = "clean"
    /\ \/ reg[r].vm \in Rows /\ UpdateStatus(reg[r].vm, "Deleted")
       \/ UNCHANGED rowVars
    /\ Goto(r, "untag")
    /\ UNCHANGED <<cloudVars, createVars, del, sweepVars, refresh, v2Vars, faultVars,
                   accounts, projects, login, work, historyVars>>

ClearTag(r) ==
    LET v == reg[r].vm
    IN  /\ reg[r].pc = "untag"
        /\ \/ /\ accounts' = [n \in Names |-> IF accounts[n].vm = v
                                              THEN [accounts[n] EXCEPT !.vm = None]
                                              ELSE accounts[n]]
              /\ projects' = [n \in Names |-> IF projects[n] = v THEN None ELSE projects[n]]
              /\ UNCHANGED overtaken
           \/ overtaken' = overtaken \cup {reg[r].email} /\ UNCHANGED <<accounts, projects>>
        /\ reg' = [reg EXCEPT ![r].pc = "create", ![r].vm = None, ![r].ip = None]
        /\ UNCHANGED <<fleetVars, login, work, givenUp, moved, strayed>>

(***************************************************************************)
(* CreateVM, the goroutine's own call: it goes on when that has ended, if  *)
(* GetByVMID then finds a row.                                             *)
(***************************************************************************)
CreateAccountVM(r, v) ==
    /\ reg[r].pc = "create"
    /\ RequestVM(v)
    /\ reg' = [reg EXCEPT ![r].pc = "creating", ![r].vm = v]
    /\ UNCHANGED <<accounts, projects, login, work, historyVars>>

\* Faulty variant for AccountVmHasRow: the result of CreateVM is taken at its word.
GetCreatedVMTrusting(r) ==
    /\ reg[r].pc = "creating"
    /\ creating[reg[r].vm] \in {"done", "failed"}
    /\ IF creating[reg[r].vm] = "done"
       THEN reg' = [reg EXCEPT ![r].pc = "tag", ![r].ip = proxy[reg[r].vm]]
       ELSE End(r)
    /\ UNCHANGED <<fleetVars, accounts, projects, login, work, historyVars>>

GetCreatedVM(r) ==
    /\ reg[r].pc = "creating"
    /\ creating[reg[r].vm] \in {"done", "failed"}
    /\ IF reg[r].vm \in Rows
       THEN reg' = [reg EXCEPT ![r].pc = "tag", ![r].ip = externalIP[reg[r].vm]]
       ELSE End(r)
    /\ UNCHANGED <<fleetVars, accounts, projects, login, work, historyVars>>

\* Faulty variant for OneVmPerAccount: the rows of the projects are left out.
UpdateStatusRowVMInfo(r) ==
    LET e == reg[r].email
    IN  /\ reg[r].pc = "tag"
        /\ accounts' = IF accounts[e] = NoRow THEN accounts
                       ELSE [accounts EXCEPT ![e].vm = reg[r].vm]
        /\ moved' = IF accounts[e] = NoRow THEN moved ELSE moved \cup {e}
        /\ Goto(r, "check")
        /\ UNCHANGED <<fleetVars, projects, login, work, givenUp, strayed, overtaken>>

\* Faulty variant for VmOfOneAccount: the update is without its condition.
UpdateEveryAccountVMInfo(r) ==
    /\ reg[r].pc = "tag"
    /\ accounts' = [n \in Names |-> IF accounts[n] = NoRow THEN NoRow
                                    ELSE [accounts[n] EXCEPT !.vm = reg[r].vm]]
    /\ moved' = {n \in Names : accounts[n] # NoRow}
    /\ Goto(r, "check")
    /\ UNCHANGED <<fleetVars, projects, login, work, givenUp, strayed, overtaken>>

\* updateAccountVMInfo, whose failure is only logged; auth_status stays as it is
UpdateAccountVMInfo(r) ==
    LET e == reg[r].email
    IN  /\ reg[r].pc = "tag"
        /\ \/ /\ accounts' = IF accounts[e] = NoRow THEN accounts
                             ELSE [accounts EXCEPT ![e].vm = reg[r].vm]
              /\ projects' = IF projects[e] = NoProject THEN projects
                             ELSE [projects EXCEPT ![e] = reg[r].vm]
              /\ moved' = IF accounts[e] = NoRow THEN moved ELSE moved \cup {e}
              /\ UNCHANGED overtaken
           \/ overtaken' = overtaken \cup {e} /\ UNCHANGED <<accounts, projects, moved>>
        /\ Goto(r, "check")
        /\ UNCHANGED <<fleetVars, login, work, givenUp, strayed>>

-----------------------------------------------------------------------------
(***************************************************************************)
(* The login on the VM.  A command goes by ssh, without a host key, to the *)
(* address in the row: to whichever VM has that address by now.            *)
(***************************************************************************)
Reached(r) == {w \in VMs : cloud[w] = "running" /\ address[w] = reg[r].ip}

Stray(r, w) == strayed' = IF w = reg[r].vm THEN strayed ELSE strayed \cup {reg[r].email}

\* Faulty variant for NoOtherLeak: a VM that does not answer is written off.
CheckTargetAccountOrWriteOff(r) ==
    /\ reg[r].pc = "check"
    /\ Reached(r) = {}
    /\ Goto(r, "clean")
    /\ UNCHANGED <<fleetVars, accounts, projects, login, work, historyVars>>

\* A line without a status is skipped: the account it names seems not to be there.
Listed(w, e) ==
    IF login[w][e] = "inactive" THEN {"inactive", "not_login"} ELSE {login[w][e]}

CheckTargetAccount(r) ==
    /\ reg[r].pc = "check"
    /\ \E w \in Reached(r) :
         /\ \E answer \in Listed(w, reg[r].email) :
              CASE answer = "active"    -> Goto(r, "save")
                [] answer = "inactive"  -> Goto(r, "switch")
                [] answer = "not_login" -> Goto(r, "login")
         /\ Stray(r, w)
    /\ UNCHANGED <<fleetVars, accounts, projects, login, work, givenUp, moved, overtaken>>

\* e is the active account of v, and others are not
Activate(v, e) ==
    login' = [login EXCEPT ![v] =
                 [f \in Emails |-> IF f = e THEN "active"
                                   ELSE IF @[f] = "active" THEN "inactive" ELSE @[f]]]

\* The switch may fail, or have succeeded all the same when ssh says that it failed
SwitchToAccount(r) ==
    /\ reg[r].pc = "switch"
    /\ \/ /\ \E w \in Reached(r) : Activate(w, reg[r].email) /\ Stray(r, w)
          /\ \/ Goto(r, "save") /\ UNCHANGED overtaken
             \/ Goto(r, "saveFailed") /\ overtaken' = overtaken \cup {reg[r].email}
       \/ Goto(r, "saveFailed") /\ UNCHANGED <<login, strayed, overtaken>>
    /\ UNCHANGED <<fleetVars, accounts, projects, work, givenUp, moved>>

\* NewAuthLoginSession and DoLogin: the client gets the URL of a login on that VM
DoLogin(r) ==
    /\ reg[r].pc = "login"
    /\ \E w \in Reached(r) : /\ reg' = [reg EXCEPT ![r].pc = "session", ![r].host = w]
                             /\ Stray(r, w)
    /\ UNCHANGED <<fleetVars, accounts, projects, login, work, givenUp, moved, overtaken>>

(***************************************************************************)
(* SubmitAuthKey: the login may fail, and may have let the account in all  *)
(* the same; then the accounts of the VM are listed again.                 *)
(***************************************************************************)
CompleteLoginToken(r) ==
    /\ reg[r].pc = "session"
    /\ cloud[reg[r].host] = "running"
    /\ Activate(reg[r].host, reg[r].email)
    /\ \/ reg' = [reg EXCEPT ![r].pc = "verify", ![r].host = None] /\ UNCHANGED overtaken
       \/ End(r) /\ overtaken' = overtaken \cup {reg[r].email}
    /\ UNCHANGED <<fleetVars, accounts, projects, work, givenUp, moved, strayed>>

VerifyLogin(r) ==
    /\ reg[r].pc = "verify"
    /\ \E w \in Reached(r) :
         /\ IF login[w][reg[r].email] = "active" THEN Goto(r, "record") ELSE End(r)
         /\ Stray(r, w)
    /\ UNCHANGED <<fleetVars, accounts, projects, login, work, givenUp, moved, overtaken>>

(***************************************************************************)
(* CreateOrUpdateAccountStatus writes all that matters of the row it has   *)
(* read, so the read makes no difference; SubmitAuthKey takes the e-mail   *)
(* from the session id.  A failure is only logged.                         *)
(***************************************************************************)
SavedName(r) == IF reg[r].pc = "record" THEN Extracted[reg[r].email] ELSE reg[r].email

\* Faulty variant for LoggedInThere: a row that exists keeps its VM.
UpdateAccountStatusOnly(r) ==
    LET n == SavedName(r)
    IN  /\ reg[r].pc \in {"save", "saveFailed", "record"}
        /\ accounts' = [accounts EXCEPT ![n] =
               [vm   |-> IF accounts[n] = NoRow THEN reg[r].vm ELSE accounts[n].vm,
                auth |-> IF reg[r].pc = "saveFailed" THEN "LoginFailed" ELSE "LoggedIn"]]
        /\ moved' = moved \ {n}
        /\ End(r)
        /\ UNCHANGED <<fleetVars, projects, login, work, givenUp, strayed, overtaken>>

\* Faulty variant for LoginRecorded: a row that exists keeps its auth_status.
UpdateAccountVmOnly(r) ==
    LET n == SavedName(r)
    IN  /\ reg[r].pc \in {"save", "saveFailed", "record"}
        /\ accounts' = [accounts EXCEPT ![n] =
               [vm   |-> reg[r].vm,
                auth |-> IF accounts[n] = NoRow THEN "LoggedIn" ELSE accounts[n].auth]]
        /\ moved' = moved \ {n}
        /\ End(r)
        /\ UNCHANGED <<fleetVars, projects, login, work, givenUp, strayed, overtaken>>

CreateOrUpdateAccountStatus(r) ==
    /\ reg[r].pc \in {"save", "saveFailed", "record"}
    /\ \/ /\ accounts' = [accounts EXCEPT ![SavedName(r)] =
                 [vm   |-> reg[r].vm,
                  auth |-> IF reg[r].pc = "saveFailed" THEN "LoginFailed" ELSE "LoggedIn"]]
          /\ moved' = moved \ {SavedName(r)}
          /\ UNCHANGED overtaken
       \/ /\ overtaken' = overtaken \cup {reg[r].email}
          /\ UNCHANGED <<accounts, moved>>
    /\ End(r)
    /\ UNCHANGED <<fleetVars, projects, login, work, givenUp, strayed>>

GiveUp(r) ==
    /\ reg[r].pc \in {"find", "create", "creating", "check", "login", "session", "verify"}
    /\ reg[r].pc = "creating" => creating[reg[r].vm] \in {"done", "failed"}
    /\ End(r)
    /\ overtaken' = IF reg[r].pc = "verify" THEN overtaken \cup {reg[r].email} ELSE overtaken
    /\ UNCHANGED <<fleetVars, accounts, projects, login, work, givenUp, moved, strayed>>

-----------------------------------------------------------------------------
(***************************************************************************)
(* Post-login processing, as far as it depends on the VM of the account or *)
(* changes it: ProcessProjectsV2 and V3 check the status row and the VM's, *)
(* insert a missing project row with that VM, and save rows as they were   *)
(* when they were loaded.                                                  *)
(***************************************************************************)
ProcessProjects(n) ==
    /\ ~work[n].busy
    /\ accounts[n].auth = "LoggedIn"
    /\ accounts[n].vm # None
    /\ status[accounts[n].vm] = "Running"
    /\ work' = [work EXCEPT ![n] = [busy |-> TRUE,
                   seen |-> IF projects[n] = NoProject THEN accounts[n].vm ELSE projects[n]]]
    /\ overtaken' = IF Busy(n) THEN overtaken \cup {n} ELSE overtaken
    /\ UNCHANGED <<fleetVars, accounts, projects, login, reg, givenUp, moved, strayed>>

SaveProject(n) ==
    /\ work[n].busy
    /\ projects' = [projects EXCEPT ![n] = work[n].seen]
    /\ UNCHANGED <<fleetVars, accounts, login, reg, work, historyVars>>

EndProcessing(n) ==
    /\ work[n].busy
    /\ work' = [work EXCEPT ![n] = Idle]
    /\ UNCHANGED <<fleetVars, accounts, projects, login, reg, historyVars>>

-----------------------------------------------------------------------------
Register(r) ==
    \/ \E e \in Emails : StartAccountRegistration(r, e)
    \/ FindVm(r) \/ VerifyVMExistsInGCP(r) \/ WriteOff(r) \/ ClearTag(r)
    \/ \E v \in VMs : CreateAccountVM(r, v)
    \/ GetCreatedVM(r) \/ UpdateAccountVMInfo(r)
    \/ CheckTargetAccount(r) \/ SwitchToAccount(r) \/ DoLogin(r)
    \/ CompleteLoginToken(r) \/ VerifyLogin(r)
    \/ CreateOrUpdateAccountStatus(r) \/ GiveUp(r)

FleetStep == FleetNext /\ UNCHANGED <<accountVars, historyVars>>

Next ==
    \/ \E r \in Requests : Register(r)
    \/ \E n \in Names : ProcessProjects(n) \/ SaveProject(n) \/ EndProcessing(n)
    \/ FleetStep

Spec == Init /\ [][Next]_vars

-----------------------------------------------------------------------------
TypeOK ==
    /\ FleetTypeOK
    /\ accounts \in [Names -> {NoRow} \cup StatusRow]
    /\ projects \in [Names -> VMs \cup {None, NoProject}]
    /\ login \in [VMs -> [Emails -> AccountAuthStatus]]
    /\ reg \in [Requests -> [pc : RegPc, email : Emails \cup {None}, vm : VMs \cup {None},
                             ip : Addresses \cup {None}, host : VMs \cup {None}]]
    /\ \A r \in Requests :
         /\ reg[r].pc \notin {"idle", "ended"} => reg[r].email \in Emails
         /\ reg[r].pc \notin {"idle", "create", "ended"} => reg[r].vm \in VMs
         /\ reg[r].pc = "session" => reg[r].host \in VMs
    /\ work \in [Names -> [busy : BOOLEAN, seen : VMs \cup {None}]]
    /\ givenUp \subseteq VMs /\ moved \subseteq Names
    /\ strayed \subseteq Emails /\ overtaken \subseteq Names

\* An account and its projects never name a VM without a row, though a CreateVM
\* whose insert failed reports success like any other: GetByVMID finds it out.
AccountVmHasRow ==
    \A n \in Names : /\ accounts[n].vm # None => accounts[n].vm \in Rows
                     /\ projects[n] \in VMs => projects[n] \in Rows

\* In the composed system a row is Deleted while its instance runs for three
\* reasons only: DeleteVM's command failed; the describe command of a registration
\* failed; or a registration found its VM marked PendingDelete and set it to
\* Deleted, so that the hourly job no longer deletes it.
NoOtherLeak ==
    \A v \in VMs : status[v] = "Deleted" /\ cloud[v] = "running" =>
                       v \in cmdFailed \cup givenUp

\* A status row says LoggedIn of a VM only if its account has got in there,
\* unless updateAccountVMInfo has put another VM into the row since, or a command
\* has reached another VM at the address of this one.
LoggedInThere ==
    \A e \in Emails \ strayed : \A n \in {e, Extracted[e]} \ moved :
        accounts[n].auth = "LoggedIn" /\ accounts[n].vm # None
            => login[accounts[n].vm][e] # "not_login"

\* An account that is active on the VM of its status row has LoggedIn in that row,
\* so that post-login processing admits it, or a request is about to write that,
\* unless a step of a login or switch failed, by itself or only in its reply, or
\* reached another VM, two requests for the account were under way, or the session
\* id garbled the e-mail.
LoginRecorded ==
    \A e \in Emails \ (overtaken \cup strayed) :
        /\ Extracted[e] = e
        /\ accounts[e].vm # None /\ accounts[e].auth # "LoggedIn"
        /\ login[accounts[e].vm][e] = "active"
        => \E r \in Requests : reg[r].email = e /\ reg[r].pc \in {"verify", "save", "record"}

\* The status row of an account and the rows of its projects, from which its tokens
\* get their proxy, name the same VM, unless two requests for the account were
\* under way at a time or an update failed.
OneVmPerAccount ==
    \A e \in Emails \ overtaken : projects[e] # NoProject => projects[e] = accounts[e].vm

\* Accounts share no VM: no two of them name one, and none gets into the VM of
\* another unless its own is gone and the other has been given the address.
VmsOf(e) == {accounts[n].vm : n \in {e, Extracted[e]}} \ {None}

VmOfOneAccount ==
    \A e, f \in Emails :
        e # f => /\ VmsOf(e) \cap VmsOf(f) = {}
                 /\ {e, f} \cap strayed = {} =>
                        \A v \in VMs : "not_login" \in {login[v][e], login[v][f]}
=============================================================================
