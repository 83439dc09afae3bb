--------------------------- MODULE AccountVmsProofs ---------------------------
(***************************************************************************)
(* Whose a VM is, what is known of the logins there, and that the rows of  *)
(* an account agree, for any number of accounts, VMs and requests.         *)
(***************************************************************************)
EXTENDS AccountRegistrationProofs

(***************************************************************************)
(* The inductive invariant, in three parts.                                *)
(*                                                                         *)
(* Ownership.  An account touches the VMs that its rows, its requests and  *)
(* its post-login run name, and, as long as no command of it has strayed,  *)
(* the VMs it has got into.  No step lets an account touch another VM,     *)
(* except CreateVM, and a new VM is nobody's.                              *)
(***************************************************************************)
NamesOf(e) == {e, Extracted[e]}

Mentions(e, v) ==
    \/ \E n \in NamesOf(e) : accounts[n].vm = v \/ projects[n] = v \/ work[n].seen = v
    \/ \E r \in Requests : reg[r].email = e /\ reg[r].vm = v

In(v, e) == login[v][e] # "not_login"

Touches(e, v) == Mentions(e, v) \/ (e \notin strayed /\ In(v, e))

OneOwner ==
    \A v \in VMs, e, f \in Emails : Touches(e, v) /\ Touches(f, v) => e = f

Unused ==
    \A v \in VMs : creating[v] = "idle" =>
        \A e \in Emails : ~Mentions(e, v) /\ ~In(v, e)

Ownership == OneOwner /\ Unused

\* A VM that an account comes to touch was not used before.
KeepsOwners ==
    \A v \in VMs, e \in Emails : Touches(e, v)' => Touches(e, v) \/ creating[v] = "idle"

(***************************************************************************)
(* Logins.  What a request has found out of its account on its VM is still *)
(* so, unless a command has strayed.                                       *)
(***************************************************************************)
Sighted(r) ==
    reg[r].email \notin strayed =>
        /\ reg[r].pc = "session" => reg[r].host = reg[r].vm
        /\ reg[r].pc \in {"save", "record"} => In(reg[r].vm, reg[r].email)

Logins == (\A r \in Requests : Sighted(r)) /\ LoggedInThere

(***************************************************************************)
(* Turns.  A request, or a run, on an account that is not overtaken is the *)
(* only one, and knows the VM of the account.                              *)
(***************************************************************************)
Alone ==
    \A e \in Emails \ overtaken :
        /\ \A r, q \in Requests : reg[r].email = e /\ reg[q].email = e => r = q
        /\ \A r \in Requests : ~(reg[r].email = e /\ work[e].busy)

OnItsVm == {"find", "describe", "check", "switch", "login", "session", "verify", "save",
            "saveFailed", "record"}

Tracks(r) ==
    reg[r].email \notin overtaken =>
        /\ reg[r].pc \in OnItsVm =>
              accounts[reg[r].email] = NoRow \/ accounts[reg[r].email].vm = reg[r].vm
        /\ reg[r].email \notin strayed =>
              /\ reg[r].pc \in {"creating", "tag"} => ~In(reg[r].vm, reg[r].email)
              /\ reg[r].pc \in {"switch", "saveFailed"} =>
                    login[reg[r].vm][reg[r].email] # "active"

RowsAgree ==
    \A e \in Emails \ overtaken :
        /\ projects[e] # NoProject => accounts[e] # NoRow /\ projects[e] = accounts[e].vm
        /\ work[e].busy => accounts[e] # NoRow /\ work[e].seen = accounts[e].vm

Turns == Alone /\ (\A r \in Requests : Tracks(r)) /\ RowsAgree /\ LoginRecorded

OwnInv == Ownership /\ Logins /\ Turns

-----------------------------------------------------------------------------
(***************************************************************************)
(* Facts about names and logins.                                           *)
(***************************************************************************)

\* No name is recorded for two accounts.
LEMMA NamesApart ==
    ASSUME NEW e \in Emails, NEW f \in Emails, NEW n \in NamesOf(e), n \in NamesOf(f)
    PROVE  e = f
BY AccountsAssumption DEF NamesOf

LEMMA NamesAreNames ==
    ASSUME NEW e \in Emails
    PROVE  NamesOf(e) \subseteq Names /\ e \in NamesOf(e) /\ e \in Names /\ e # None
BY AccountsAssumption DEF NamesOf

\* NoRow is told apart from every row.
LEMMA NoRowApart ==
    ASSUME NEW x \in StatusRow
    PROVE  x # NoRow /\ x.vm \in VMs \cup {None} /\ x.auth \in AuthStatus
BY DEF StatusRow, NoRow, AuthStatus

\* One account gets in; the others stay in or out, and are active only if they were.
LEMMA ActivateIn ==
    ASSUME login \in [VMs -> [Emails -> AccountAuthStatus]],
           NEW w \in VMs, NEW e \in Emails, Activate(w, e)
    PROVE  /\ \A v \in VMs, f \in Emails :
                /\ In(v, f) => In(v, f)'
                /\ In(v, f)' => In(v, f) \/ (v = w /\ f = e)
                /\ login'[v][f] = "active" => login[v][f] = "active" \/ (v = w /\ f = e)
           /\ In(w, e)'
BY DEF Activate, In, AccountAuthStatus

\* Nobody's VM changes hands.
LEMMA OwnershipKept ==
    ASSUME Ownership, strayed \subseteq strayed',
           \A v \in VMs : creating'[v] = "idle" => creating[v] = "idle",
           \A v \in VMs, e \in Emails : Mentions(e, v)' => Mentions(e, v),
           \A v \in VMs, e \in Emails : In(v, e)' =>
               \/ In(v, e)
               \/ creating[v] # "idle" /\ (e \in strayed' \/ Mentions(e, v))
    PROVE  Ownership' /\ KeepsOwners
<1> USE DEF Ownership
<1>1. ASSUME NEW v \in VMs, NEW e \in Emails, Touches(e, v)' PROVE Touches(e, v)
  BY <1>1 DEF Touches
<1>2. OneOwner'
  BY <1>1 DEF OneOwner
<1>3. Unused'
  BY DEF Unused
<1>4. KeepsOwners
  BY <1>1 DEF KeepsOwners
<1> QED
  BY <1>2, <1>3, <1>4

-----------------------------------------------------------------------------
LEMMA InitOwn == Init => OwnInv
<1> SUFFICES ASSUME Init PROVE OwnInv
  OBVIOUS
<1> USE FleetAssumption, AccountsAssumption DEF Init
<1>1. ASSUME NEW e \in Emails, NEW n \in NamesOf(e), accounts[n].vm # None
      PROVE  n = e /\ e \in DOMAIN Owned /\ accounts[n].vm = Owned[e]
  <2>1. n \in Names /\ n \in DOMAIN Owned
    BY <1>1, NamesAreNames DEF NoRow
  <2>2. n = e
    BY <2>1, NamesApart, NamesAreNames
  <2> QED
    BY <2>1, <2>2
<1>2. ASSUME NEW e \in Emails, NEW v \in VMs, Mentions(e, v)
      PROVE  e \in DOMAIN Owned /\ v = Owned[e]
  <2>1. PICK n \in NamesOf(e) : accounts[n].vm = v \/ projects[n] = v
    BY <1>2, NamesAreNames DEF Mentions, Idle, Registering
  <2>2. n \in Names /\ accounts[n].vm = v
    BY <2>1, NamesAreNames
  <2> QED
    BY <1>1, <2>1, <2>2
<1>3. ASSUME NEW e \in Emails, NEW v \in VMs, In(v, e)
      PROVE  accounts[e] = [vm |-> v, auth |-> "LoggedIn"] /\ Mentions(e, v)
  BY <1>3, NamesAreNames DEF In, Mentions
<1>4. OneOwner
  <2>1. ASSUME NEW e \in Emails, NEW v \in VMs, Touches(e, v)
        PROVE  e \in DOMAIN Owned /\ v = Owned[e]
    <3>1. Mentions(e, v)
      BY <2>1, <1>3 DEF Touches
    <3> QED
      BY <3>1, <1>2
  <2> SUFFICES ASSUME NEW v \in VMs, NEW e \in Emails, NEW f \in Emails,
                      Touches(e, v), Touches(f, v)
               PROVE  e = f
    BY DEF OneOwner
  <2>2. e \in DOMAIN Owned /\ f \in DOMAIN Owned /\ Owned[e] = Owned[f]
    BY <2>1
  <2> QED
    BY <2>2
<1>5. Unused
  <2> SUFFICES ASSUME NEW v \in VMs, creating[v] = "idle", NEW e \in Emails, Mentions(e, v)
               PROVE  FALSE
    BY <1>3 DEF Unused
  <2>1. v \in Initial
    BY <1>2
  <2> QED
    BY <2>1 DEF FleetInit
<1>6. Logins
  <2>1. LoggedInThere
    <3> SUFFICES ASSUME NEW e \in Emails, NEW n \in NamesOf(e),
                        accounts[n].auth = "LoggedIn", accounts[n].vm # None
                 PROVE  login[accounts[n].vm][e] # "not_login"
      BY DEF LoggedInThere, NamesOf
    <3>1. n = e /\ accounts[e] # NoRow
      BY <1>1 DEF NoRow
    <3>2. accounts[e] \in StatusRow
      BY <3>1, NamesAreNames
    <3>3. accounts[e] = [vm |-> accounts[e].vm, auth |-> "LoggedIn"] /\ accounts[e].vm \in VMs
      BY <3>1, <3>2 DEF StatusRow
    <3> QED
      BY <3>1, <3>3
  <2>2. \A r \in Requests : Sighted(r)
    BY DEF Sighted, Registering
  <2> QED
    BY <2>1, <2>2 DEF Logins
<1>7. Turns
  <2>1. Alone
    BY NamesAreNames DEF Alone, Registering
  <2>2. \A r \in Requests : Tracks(r)
    BY DEF Tracks, OnItsVm, Registering
  <2>3. RowsAgree
    BY NamesAreNames DEF RowsAgree, Idle
  <2>4. LoginRecorded
    <3> SUFFICES ASSUME NEW e \in Emails, accounts[e].vm # None,
                        login[accounts[e].vm][e] = "active"
                 PROVE  accounts[e].auth = "LoggedIn"
      BY DEF LoginRecorded
    <3>1. accounts[e].vm \in VMs
      BY NamesAreNames DEF NoRow, StatusRow
    <3>2. In(accounts[e].vm, e)
      BY DEF In
    <3>3. accounts[e] = [vm |-> accounts[e].vm, auth |-> "LoggedIn"]
      BY <1>3, <3>1, <3>2
    <3> QED
      BY <3>3
  <2> QED
    BY <2>1, <2>2, <2>3, <2>4 DEF Turns
<1> QED
  BY <1>4, <1>5, <1>6, <1>7 DEF OwnInv, Ownership

-----------------------------------------------------------------------------
(***************************************************************************)
(* Steps of a request that change neither rows nor logins.                 *)
(***************************************************************************)
LEMMA Looks ==
    ASSUME RegInv, OwnInv, NEW r \in Requests,
           UNCHANGED <<accounts, projects, login, work, moved, creating>>,
           strayed \subseteq strayed', overtaken \subseteq overtaken',
           \A q \in Requests \ {r} : reg'[q] = reg[q],
           Ended(r) \/ (reg'[r].email = reg[r].email /\ reg'[r].vm = reg[r].vm),
           Sighted(r)', Tracks(r)',
           \/ reg[r].pc \notin {"verify", "save", "record"}
           \/ reg[r].email \in overtaken' \cup strayed'
           \/ ~Ended(r) /\ reg'[r].pc \in {"verify", "save", "record"}
           \/ accounts[reg[r].email].vm = None
           \/ login[accounts[reg[r].email].vm][reg[r].email] # "active"
    PROVE  OwnInv' /\ KeepsOwners
<1> USE DEF OwnInv
<1>1. \A q \in Requests, e \in Emails :
        reg'[q].email = e => reg[q].email = e /\ reg'[q].vm = reg[q].vm
  BY NamesAreNames DEF Ended
<1>2. Ownership' /\ KeepsOwners
  <2>1. \A v \in VMs, e \in Emails : Mentions(e, v)' => Mentions(e, v)
    BY <1>1 DEF Mentions
  <2> QED
    BY <2>1, OwnershipKept DEF In
<1>3. Logins'
  <2>1. LoggedInThere'
    BY DEF Logins, LoggedInThere
  <2>2. ASSUME NEW q \in Requests \ {r} PROVE Sighted(q)'
    BY <2>2 DEF Logins, Sighted, In
  <2> QED
    BY <2>1, <2>2 DEF Logins
<1>4. Turns'
  <2>1. Alone'
    BY <1>1 DEF Turns, Alone
  <2>2. ASSUME NEW q \in Requests \ {r} PROVE Tracks(q)'
    BY <2>2 DEF Turns, Tracks, In
  <2>3. RowsAgree'
    BY DEF Turns, RowsAgree
  <2>4. LoginRecorded'
    <3> SUFFICES ASSUME NEW e \in Emails \ (overtaken' \cup strayed'), Extracted[e] = e,
                        accounts[e].vm # None, accounts[e].auth # "LoggedIn",
                        login[accounts[e].vm][e] = "active"
                 PROVE  \E q \in Requests : /\ reg'[q].email = e
                                            /\ reg'[q].pc \in {"verify", "save", "record"}
      BY DEF LoginRecorded
    <3>1. PICK q \in Requests : reg[q].email = e /\ reg[q].pc \in {"verify", "save", "record"}
      BY DEF Turns, LoginRecorded
    <3>2. CASE q # r
      BY <3>1, <3>2
    <3>3. CASE q = r
      BY <3>1, <3>3
    <3> QED
      BY <3>2, <3>3
  <2> QED
    BY <2>1, <2>2, <2>3, <2>4 DEF Turns
<1> QED
  BY <1>2, <1>3, <1>4

\* What the invariant says of a request, and of the fleet.
LEMMA RegFacts ==
    ASSUME RegInv
    PROVE  /\ RegTypes /\ AccountTypes /\ FleetTypeOK
           /\ \A r \in Requests : Knows(r)
           /\ \A v \in VMs : cloud[v] # "absent" => creating[v] # "idle"
<1>1. \A v \in VMs : cloud[v] # "absent" => creating[v] # "idle"
  BY DEF RegInv, F!FleetInv, F!Instances
<1> QED
  BY <1>1, FleetFacts DEF RegInv, AccountInv, RequestsKnow

\* The row of its VM is read.
LEMMA FindVmOwns ==
    ASSUME RegInv, OwnInv, NEW r \in Requests, FindVm(r)
    PROVE  OwnInv' /\ KeepsOwners
<1>1. /\ UNCHANGED <<accounts, projects, login, work, moved, creating>>
      /\ strayed \subseteq strayed' /\ overtaken \subseteq overtaken'
  BY DEF FindVm, fleetVars, createVars, historyVars
<1>2. RegTypes /\ Knows(r) /\ Sighted(r) /\ Tracks(r) /\ reg[r].pc \in {"find"}
  BY RegFacts DEF OwnInv, Logins, Turns, FindVm
<1>3. \/ Moved(reg', r, "describe", reg[r].vm, externalIP[reg[r].vm], reg[r].host)
      \/ Moved(reg', r, "clean", reg[r].vm, reg[r].ip, reg[r].host)
  <2>1. externalIP[reg[r].vm] \in Addresses \cup {None}
    BY <1>2, RegFacts DEF Knows, FleetTypeOK
  <2>2. CASE status[reg[r].vm] = "Running"
    BY <1>2, <2>1, <2>2, AddressShape DEF FindVm, RegPc, RegTypes
  <2>3. CASE status[reg[r].vm] # "Running"
    BY <1>2, <2>3, GotoShape DEF FindVm, Goto, RegPc, RegTypes
  <2> QED
    BY <2>2, <2>3
<1>4. Sighted(r)'
  BY <1>3 DEF Sighted, Moved, Ended
<1>5. Tracks(r)'
  BY <1>1, <1>2, <1>3 DEF Tracks, OnItsVm, Moved, Ended, In
<1>6. \/ reg[r].pc \notin {"verify", "save", "record"}
      \/ reg[r].email \in overtaken' \cup strayed'
      \/ ~Ended(r) /\ reg'[r].pc \in {"verify", "save", "record"}
      \/ accounts[reg[r].email].vm = None
      \/ login[accounts[reg[r].email].vm][reg[r].email] # "active"
  BY <1>2
<1>7. /\ \A q \in Requests \ {r} : reg'[q] = reg[q]
      /\ Ended(r) \/ (reg'[r].email = reg[r].email /\ reg'[r].vm = reg[r].vm)
  BY <1>3 DEF Moved, Ended
<1> QED
  BY <1>1, <1>4, <1>5, <1>6, <1>7, Looks

\* Its instance is looked for.
LEMMA DescribeOwns ==
    ASSUME RegInv, OwnInv, NEW r \in Requests, VerifyVMExistsInGCP(r)
    PROVE  OwnInv' /\ KeepsOwners
<1>1. /\ UNCHANGED <<accounts, projects, login, work, moved, creating>>
      /\ strayed \subseteq strayed' /\ overtaken \subseteq overtaken'
  BY DEF VerifyVMExistsInGCP, fleetVars, createVars, historyVars
<1>2. RegTypes /\ Knows(r) /\ Sighted(r) /\ Tracks(r) /\ reg[r].pc \in {"describe"}
  BY RegFacts DEF OwnInv, Logins, Turns, VerifyVMExistsInGCP
<1>3. Moved(reg', r, "check", reg[r].vm, reg[r].ip, reg[r].host)
      \/ Moved(reg', r, "clean", reg[r].vm, reg[r].ip, reg[r].host)
  BY <1>2, GotoShape DEF VerifyVMExistsInGCP, Goto, RegPc, RegTypes
<1>4. Sighted(r)'
  BY <1>3 DEF Sighted, Moved, Ended
<1>5. Tracks(r)'
  BY <1>1, <1>2, <1>3 DEF Tracks, OnItsVm, Moved, Ended, In
<1>6. \/ reg[r].pc \notin {"verify", "save", "record"}
      \/ reg[r].email \in overtaken' \cup strayed'
      \/ ~Ended(r) /\ reg'[r].pc \in {"verify", "save", "record"}
      \/ accounts[reg[r].email].vm = None
      \/ login[accounts[reg[r].email].vm][reg[r].email] # "active"
  BY <1>2
<1>7. /\ \A q \in Requests \ {r} : reg'[q] = reg[q]
      /\ Ended(r) \/ (reg'[r].email = reg[r].email /\ reg'[r].vm = reg[r].vm)
  BY <1>3 DEF Moved, Ended
<1> QED
  BY <1>1, <1>4, <1>5, <1>6, <1>7, Looks

\* Its row is written off.
LEMMA WriteOffOwns ==
    ASSUME RegInv, OwnInv, NEW r \in Requests, WriteOff(r)
    PROVE  OwnInv' /\ KeepsOwners
<1>1. /\ UNCHANGED <<accounts, projects, login, work, moved, creating>>
      /\ strayed \subseteq strayed' /\ overtaken \subseteq overtaken'
  BY DEF WriteOff, fleetVars, createVars, historyVars
<1>2. RegTypes /\ Knows(r) /\ Sighted(r) /\ Tracks(r) /\ reg[r].pc \in {"clean"}
  BY RegFacts DEF OwnInv, Logins, Turns, WriteOff
<1>3. Moved(reg', r, "untag", reg[r].vm, reg[r].ip, reg[r].host)
  BY <1>2, GotoShape DEF WriteOff, Goto, RegPc, RegTypes
<1>4. Sighted(r)'
  BY <1>3 DEF Sighted, Moved, Ended
<1>5. Tracks(r)'
  BY <1>1, <1>2, <1>3 DEF Tracks, OnItsVm, Moved, Ended, In
<1>6. \/ reg[r].pc \notin {"verify", "save", "record"}
      \/ reg[r].email \in overtaken' \cup strayed'
      \/ ~Ended(r) /\ reg'[r].pc \in {"verify", "save", "record"}
      \/ accounts[reg[r].email].vm = None
      \/ login[accounts[reg[r].email].vm][reg[r].email] # "active"
  BY <1>2
<1>7. /\ \A q \in Requests \ {r} : reg'[q] = reg[q]
      /\ Ended(r) \/ (reg'[r].email = reg[r].email /\ reg'[r].vm = reg[r].vm)
  BY <1>3 DEF Moved, Ended
<1> QED
  BY <1>1, <1>4, <1>5, <1>6, <1>7, Looks

\* A new VM is looked up.
LEMMA GetCreatedOwns ==
    ASSUME RegInv, OwnInv, NEW r \in Requests, GetCreatedVM(r)
    PROVE  OwnInv' /\ KeepsOwners
<1>1. /\ UNCHANGED <<accounts, projects, login, work, moved, creating>>
      /\ strayed \subseteq strayed' /\ overtaken \subseteq overtaken'
  BY DEF GetCreatedVM, fleetVars, createVars, historyVars
<1>2. RegTypes /\ Knows(r) /\ Sighted(r) /\ Tracks(r) /\ reg[r].pc \in {"creating"}
  BY RegFacts DEF OwnInv, Logins, Turns, GetCreatedVM
<1>3. Moved(reg', r, "tag", reg[r].vm, externalIP[reg[r].vm], reg[r].host)
      \/ Ended(r)
  <2>1. externalIP[reg[r].vm] \in Addresses \cup {None}
    BY <1>2, RegFacts DEF Knows, FleetTypeOK
  <2>2. CASE reg[r].vm \in Rows
    BY <1>2, <2>1, <2>2, AddressShape DEF GetCreatedVM, RegPc, RegTypes
  <2>3. CASE reg[r].vm \notin Rows
    BY <1>2, <2>3, EndShape DEF GetCreatedVM, RegTypes
  <2> QED
    BY <2>2, <2>3
<1>4. Sighted(r)'
  BY <1>3 DEF Sighted, Moved, Ended
<1>5. Tracks(r)'
  BY <1>1, <1>2, <1>3 DEF Tracks, OnItsVm, Moved, Ended, In
<1>6. \/ reg[r].pc \notin {"verify", "save", "record"}
      \/ reg[r].email \in overtaken' \cup strayed'
      \/ ~Ended(r) /\ reg'[r].pc \in {"verify", "save", "record"}
      \/ accounts[reg[r].email].vm = None
      \/ login[accounts[reg[r].email].vm][reg[r].email] # "active"
  BY <1>2
<1>7. /\ \A q \in Requests \ {r} : reg'[q] = reg[q]
      /\ Ended(r) \/ (reg'[r].email = reg[r].email /\ reg'[r].vm = reg[r].vm)
  BY <1>3 DEF Moved, Ended
<1> QED
  BY <1>1, <1>4, <1>5, <1>6, <1>7, Looks

\* The accounts of its VM are listed: what is seen is of that VM, or the command strayed.
LEMMA CheckOwns ==
    ASSUME RegInv, OwnInv, NEW r \in Requests, CheckTargetAccount(r)
    PROVE  OwnInv' /\ KeepsOwners
<1>1. /\ UNCHANGED <<accounts, projects, login, work, moved, creating>>
      /\ strayed \subseteq strayed' /\ overtaken \subseteq overtaken'
  BY DEF CheckTargetAccount, Stray, fleetVars, createVars, historyVars
<1>2. RegTypes /\ Knows(r) /\ Sighted(r) /\ Tracks(r) /\ reg[r].pc \in {"check"}
  BY RegFacts DEF OwnInv, Logins, Turns, CheckTargetAccount, Stray
<1>3. /\ \E p \in {"save", "switch", "login"} : Moved(reg', r, p, reg[r].vm, reg[r].ip, reg[r].host)
      /\ reg[r].email \notin strayed' =>
            /\ reg'[r].pc = "save" => login[reg[r].vm][reg[r].email] = "active"
            /\ reg'[r].pc = "switch" => login[reg[r].vm][reg[r].email] = "inactive"
  <2>1. PICK w \in Reached(r) :
          /\ \E answer \in Listed(w, reg[r].email) :
               CASE answer = "active"    -> Goto(r, "save")
                 [] answer = "inactive"  -> Goto(r, "switch")
                 [] answer = "not_login" -> Goto(r, "login")
          /\ reg[r].email \notin strayed' => w = reg[r].vm
    BY DEF CheckTargetAccount, Stray
  <2>2. \A answer \in Listed(w, reg[r].email) :
          /\ answer \in {"not_login", "inactive", "active"}
          /\ answer # "not_login" => login[w][reg[r].email] = answer
    BY <1>2, RegFacts DEF Knows, AccountTypes, AccountAuthStatus, Reached, Listed
  <2>3. PICK p \in {"save", "switch", "login"} :
          /\ Goto(r, p)
          /\ p = "save" => login[w][reg[r].email] = "active"
          /\ p = "switch" => login[w][reg[r].email] = "inactive"
    BY <2>1, <2>2
  <2>4. Moved(reg', r, p, reg[r].vm, reg[r].ip, reg[r].host)
    BY <1>2, <2>3, GotoShape DEF Goto, RegPc, RegTypes
  <2> QED
    BY <2>1, <2>3, <2>4 DEF Moved
<1>4. Sighted(r)'
  BY <1>1, <1>3 DEF Sighted, Moved, In
<1>5. Tracks(r)'
  BY <1>1, <1>2, <1>3 DEF Tracks, OnItsVm, Moved, Ended, In
<1>6. \/ reg[r].pc \notin {"verify", "save", "record"}
      \/ reg[r].email \in overtaken' \cup strayed'
      \/ ~Ended(r) /\ reg'[r].pc \in {"verify", "save", "record"}
      \/ accounts[reg[r].email].vm = None
      \/ login[accounts[reg[r].email].vm][reg[r].email] # "active"
  BY <1>2
<1>7. /\ \A q \in Requests \ {r} : reg'[q] = reg[q]
      /\ Ended(r) \/ (reg'[r].email = reg[r].email /\ reg'[r].vm = reg[r].vm)
  BY <1>3 DEF Moved, Ended
<1> QED
  BY <1>1, <1>4, <1>5, <1>6, <1>7, Looks

\* A login begins on its VM, or the command strayed.
LEMMA DoLoginOwns ==
    ASSUME RegInv, OwnInv, NEW r \in Requests, DoLogin(r)
    PROVE  OwnInv' /\ KeepsOwners
<1>1. /\ UNCHANGED <<accounts, projects, login, work, moved, creating>>
      /\ strayed \subseteq strayed' /\ overtaken \subseteq overtaken'
  BY DEF DoLogin, Stray, fleetVars, createVars, historyVars
<1>2. RegTypes /\ Knows(r) /\ Sighted(r) /\ Tracks(r) /\ reg[r].pc \in {"login"}
  BY RegFacts DEF OwnInv, Logins, Turns, DoLogin, Stray
<1>3. PICK w \in VMs : /\ Moved(reg', r, "session", reg[r].vm, reg[r].ip, w)
                       /\ reg[r].email \notin strayed' => w = reg[r].vm
  BY <1>2, HostShape DEF DoLogin, Stray, Reached, RegPc, RegTypes
<1>4. Sighted(r)'
  BY <1>3 DEF Sighted, Moved
<1>5. Tracks(r)'
  BY <1>1, <1>2, <1>3 DEF Tracks, OnItsVm, Moved, Ended, In
<1>6. \/ reg[r].pc \notin {"verify", "save", "record"}
      \/ reg[r].email \in overtaken' \cup strayed'
      \/ ~Ended(r) /\ reg'[r].pc \in {"verify", "save", "record"}
      \/ accounts[reg[r].email].vm = None
      \/ login[accounts[reg[r].email].vm][reg[r].email] # "active"
  BY <1>2
<1>7. /\ \A q \in Requests \ {r} : reg'[q] = reg[q]
      /\ Ended(r) \/ (reg'[r].email = reg[r].email /\ reg'[r].vm = reg[r].vm)
  BY <1>3 DEF Moved, Ended
<1> QED
  BY <1>1, <1>4, <1>5, <1>6, <1>7, Looks

\* The accounts of its VM are listed again.
LEMMA VerifyOwns ==
    ASSUME RegInv, OwnInv, NEW r \in Requests, VerifyLogin(r)
    PROVE  OwnInv' /\ KeepsOwners
<1>1. /\ UNCHANGED <<accounts, projects, login, work, moved, creating>>
      /\ strayed \subseteq strayed' /\ overtaken \subseteq overtaken'
  BY DEF VerifyLogin, Stray, fleetVars, createVars, historyVars
<1>2. RegTypes /\ Knows(r) /\ Sighted(r) /\ Tracks(r) /\ reg[r].pc \in {"verify"}
  BY RegFacts DEF OwnInv, Logins, Turns, VerifyLogin, Stray
<1>3. \/ /\ Moved(reg', r, "record", reg[r].vm, reg[r].ip, reg[r].host)
         /\ reg[r].email \notin strayed' => login[reg[r].vm][reg[r].email] = "active"
      \/ /\ Ended(r)
         /\ reg[r].email \notin strayed' => login[reg[r].vm][reg[r].email] # "active"
  <2>1. PICK w \in Reached(r) :
          /\ IF login[w][reg[r].email] = "active" THEN Goto(r, "record") ELSE End(r)
          /\ reg[r].email \notin strayed' => w = reg[r].vm
    BY DEF VerifyLogin, Stray
  <2>2. CASE login[w][reg[r].email] = "active"
    BY <1>2, <2>1, <2>2, GotoShape DEF Goto, RegPc, RegTypes
  <2>3. CASE login[w][reg[r].email] # "active"
    BY <1>2, <2>1, <2>3, EndShape DEF RegTypes
  <2> QED
    BY <2>2, <2>3
<1>4. Sighted(r)'
  BY <1>1, <1>3 DEF Sighted, Moved, Ended, In
<1>5. Tracks(r)'
  BY <1>1, <1>2, <1>3 DEF Tracks, OnItsVm, Moved, Ended, In
<1>6. \/ reg[r].pc \notin {"verify", "save", "record"}
      \/ reg[r].email \in overtaken' \cup strayed'
      \/ ~Ended(r) /\ reg'[r].pc \in {"verify", "save", "record"}
      \/ accounts[reg[r].email].vm = None
      \/ login[accounts[reg[r].email].vm][reg[r].email] # "active"
  <2>1. CASE ~Ended(r)
    BY <1>3, <2>1 DEF Moved
  <2>2. CASE Ended(r) /\ reg[r].email \notin overtaken' \cup strayed'
    <3>1. login[reg[r].vm][reg[r].email] # "active"
      BY <1>3, <2>2 DEF Moved, Ended
    <3>2. accounts[reg[r].email] = NoRow \/ accounts[reg[r].email].vm = reg[r].vm
      BY <1>1, <1>2, <2>2 DEF Tracks, OnItsVm
    <3> QED
      BY <3>1, <3>2 DEF NoRow
  <2> QED
    BY <2>1, <2>2
<1>7. /\ \A q \in Requests \ {r} : reg'[q] = reg[q]
      /\ Ended(r) \/ (reg'[r].email = reg[r].email /\ reg'[r].vm = reg[r].vm)
  BY <1>3 DEF Moved, Ended
<1> QED
  BY <1>1, <1>4, <1>5, <1>6, <1>7, Looks

\* The request ends with an error.
LEMMA GiveUpOwns ==
    ASSUME RegInv, OwnInv, NEW r \in Requests, GiveUp(r)
    PROVE  OwnInv' /\ KeepsOwners
<1>1. /\ UNCHANGED <<accounts, projects, login, work, moved, creating>>
      /\ strayed \subseteq strayed' /\ overtaken \subseteq overtaken'
  BY DEF GiveUp, fleetVars, createVars, historyVars
<1>2. /\ RegTypes /\ Knows(r) /\ Sighted(r) /\ Tracks(r)
      /\ reg[r].pc \in {"find", "create", "creating", "check", "login", "session", "verify"}
  BY RegFacts DEF OwnInv, Logins, Turns, GiveUp
<1>3. Ended(r)
  BY <1>2, EndShape DEF GiveUp, RegTypes
<1>4. Sighted(r)'
  BY <1>3 DEF Sighted, Moved, Ended
<1>5. Tracks(r)'
  BY <1>1, <1>2, <1>3 DEF Tracks, OnItsVm, Moved, Ended, In
<1>6. \/ reg[r].pc \notin {"verify", "save", "record"}
      \/ reg[r].email \in overtaken' \cup strayed'
      \/ ~Ended(r) /\ reg'[r].pc \in {"verify", "save", "record"}
      \/ accounts[reg[r].email].vm = None
      \/ login[accounts[reg[r].email].vm][reg[r].email] # "active"
  BY <1>2 DEF GiveUp
<1>7. /\ \A q \in Requests \ {r} : reg'[q] = reg[q]
      /\ Ended(r) \/ (reg'[r].email = reg[r].email /\ reg'[r].vm = reg[r].vm)
  BY <1>3 DEF Moved, Ended
<1> QED
  BY <1>1, <1>4, <1>5, <1>6, <1>7, Looks

-----------------------------------------------------------------------------
(***************************************************************************)
(* Steps that change rows, logins, or whose turn it is.                    *)
(***************************************************************************)

\* A request begins: if anybody else is at work on the account, it is overtaken.
LEMMA StartOwns ==
    ASSUME RegInv, OwnInv, NEW r \in Requests, NEW e \in Emails, StartAccountRegistration(r, e)
    PROVE  OwnInv' /\ KeepsOwners
<1> USE DEF OwnInv
<1>1. /\ UNCHANGED <<accounts, projects, login, work, moved, strayed, creating>>
      /\ overtaken \subseteq overtaken' /\ (e \notin overtaken' => ~Busy(e))
      /\ reg[r].pc = "idle"
  BY DEF StartAccountRegistration, fleetVars, createVars
<1>2. /\ reg'[r].email = e /\ reg'[r].vm = accounts[e].vm
      /\ reg'[r].pc \in {"create", "find"}
      /\ \A q \in Requests \ {r} : reg'[q] = reg[q]
  BY RegFacts DEF RegTypes, StartAccountRegistration
<1>3. Ownership' /\ KeepsOwners
  <2>1. ASSUME NEW v \in VMs, NEW f \in Emails, Mentions(f, v)' PROVE Mentions(f, v)
    <3>1. ASSUME reg'[r].email = f, reg'[r].vm = v PROVE Mentions(f, v)
      BY <1>2, <3>1, NamesAreNames DEF Mentions
    <3>2. ASSUME NEW q \in Requests \ {r}, reg'[q].email = f, reg'[q].vm = v PROVE Mentions(f, v)
      BY <1>2, <3>2 DEF Mentions
    <3>3. ASSUME NEW n \in NamesOf(f),
                 accounts'[n].vm = v \/ projects'[n] = v \/ work'[n].seen = v
          PROVE  Mentions(f, v)
      BY <1>1, <3>3 DEF Mentions
    <3> QED
      BY <2>1, <3>1, <3>2, <3>3 DEF Mentions
  <2> QED
    BY <1>1, <2>1, OwnershipKept DEF In
<1>4. Logins'
  <2>1. LoggedInThere'
    BY <1>1 DEF Logins, LoggedInThere
  <2>2. ASSUME NEW q \in Requests PROVE Sighted(q)'
    BY <1>1, <1>2 DEF Logins, Sighted, In
  <2> QED
    BY <2>1, <2>2 DEF Logins
<1>5. Turns'
  <2>1. Alone'
    BY <1>1, <1>2 DEF Turns, Alone, Busy
  <2>2. ASSUME NEW q \in Requests PROVE Tracks(q)'
    BY <1>1, <1>2 DEF Turns, Tracks, In
  <2>3. RowsAgree'
    BY <1>1 DEF Turns, RowsAgree
  <2>4. LoginRecorded'
    BY <1>1, <1>2 DEF Turns, LoginRecorded
  <2> QED
    BY <2>1, <2>2, <2>3, <2>4 DEF Turns
<1> QED
  BY <1>3, <1>4, <1>5

\* A login lets the account of r in on w, which is its VM, or else it has strayed.
LEMMA GetsIn ==
    ASSUME RegInv, OwnInv, NEW r \in Requests, NEW w \in VMs,
           Activate(w, reg[r].email), reg[r].email \in Emails, cloud[w] = "running",
           reg[r].vm = w \/ reg[r].email \in strayed',
           UNCHANGED <<accounts, projects, work, moved, creating>>,
           strayed \subseteq strayed', overtaken \subseteq overtaken',
           \A q \in Requests \ {r} : reg'[q] = reg[q],
           \/ /\ reg'[r].email = reg[r].email /\ reg'[r].vm = reg[r].vm
              /\ reg[r].pc \in OnItsVm
              /\ \/ reg'[r].pc \in {"verify", "save"}
                 \/ reg'[r].pc = "saveFailed" /\ reg[r].email \in overtaken'
           \/ Ended(r) /\ reg[r].email \in overtaken'
    PROVE  OwnInv' /\ KeepsOwners
<1> USE DEF OwnInv
<1> DEFINE e == reg[r].email
<1>1. \A q \in Requests, f \in Emails :
        reg'[q].email = f => reg[q].email = f /\ reg'[q].vm = reg[q].vm
  BY NamesAreNames DEF Ended
<1>2. /\ \A v \in VMs, f \in Emails :
           /\ In(v, f) => In(v, f)'
           /\ In(v, f)' => In(v, f) \/ (v = w /\ f = e)
           /\ login'[v][f] = "active" => login[v][f] = "active" \/ (v = w /\ f = e)
      /\ login'[w][e] # "not_login"
  BY RegFacts, ActivateIn DEF AccountTypes, In
<1>3. Ownership' /\ KeepsOwners
  <2>1. \A v \in VMs, f \in Emails : Mentions(f, v)' => Mentions(f, v)
    BY <1>1 DEF Mentions
  <2>2. creating[w] # "idle" /\ (e \in strayed' \/ Mentions(e, w))
    BY RegFacts DEF Mentions
  <2> QED
    BY <1>2, <2>1, <2>2, OwnershipKept
<1>4. Logins'
  <2>1. LoggedInThere'
    <3> SUFFICES ASSUME NEW f \in Emails \ strayed', NEW n \in NamesOf(f) \ moved,
                        accounts[n].auth = "LoggedIn", accounts[n].vm # None
                 PROVE  In(accounts[n].vm, f)'
      BY DEF LoggedInThere, NamesOf, In
    <3>1. accounts[n].vm \in VMs
      BY RegFacts, NamesAreNames DEF AccountTypes, StatusRow, NoRow
    <3>2. In(accounts[n].vm, f)
      BY DEF Logins, LoggedInThere, NamesOf, In
    <3> QED
      BY <1>2, <3>1, <3>2
  <2>2. ASSUME NEW q \in Requests PROVE Sighted(q)'
    <3>1. CASE q = r
      BY <1>2, <3>1 DEF Sighted, Ended, In
    <3>2. CASE q # r
      BY <1>2, <3>2, RegFacts DEF Logins, Sighted, Knows
    <3> QED
      BY <3>1, <3>2
  <2> QED
    BY <2>1, <2>2 DEF Logins
<1>5. Turns'
  <2>1. Alone'
    BY <1>1 DEF Turns, Alone
  <2>2. ASSUME NEW q \in Requests PROVE Tracks(q)'
    <3>1. CASE q = r
      BY <3>1 DEF Turns, Tracks, Ended, OnItsVm
    <3>2. CASE q # r
      <4> SUFFICES ASSUME reg[q].email \notin overtaken' PROVE Tracks(q)'
        BY <3>2 DEF Tracks
      <4>1. reg[q].email # e \/ reg[q].pc \in {"idle", "ended"}
        BY <3>2, RegFacts DEF Turns, Alone, Knows
      <4>2. reg[q].pc \notin {"idle", "create", "ended"} =>
               reg[q].email \in Emails /\ reg[q].vm \in VMs
        BY RegFacts DEF Knows
      <4> QED
        BY <1>2, <3>2, <4>1, <4>2 DEF Turns, Tracks, OnItsVm
    <3> QED
      BY <3>1, <3>2
  <2>3. RowsAgree'
    BY DEF Turns, RowsAgree
  <2>4. LoginRecorded'
    <3> SUFFICES ASSUME NEW f \in Emails \ (overtaken' \cup strayed'), Extracted[f] = f,
                        accounts[f].vm # None, accounts[f].auth # "LoggedIn",
                        login'[accounts[f].vm][f] = "active"
                 PROVE  \E q \in Requests : /\ reg'[q].email = f
                                            /\ reg'[q].pc \in {"verify", "save", "record"}
      BY DEF LoginRecorded
    <3>1. CASE f = e
      BY <3>1
    <3>2. CASE f # e
      <4>1. accounts[f].vm \in VMs
        BY RegFacts, NamesAreNames DEF AccountTypes, StatusRow, NoRow
      <4>2. login[accounts[f].vm][f] = "active"
        BY <1>2, <3>2, <4>1
      <4>3. PICK q \in Requests : reg[q].email = f /\ reg[q].pc \in {"verify", "save", "record"}
        BY <4>2 DEF Turns, LoginRecorded
      <4> QED
        BY <3>2, <4>3
    <3> QED
      BY <3>1, <3>2
  <2> QED
    BY <2>1, <2>2, <2>3, <2>4 DEF Turns
<1> QED
  BY <1>3, <1>4, <1>5

\* The account becomes the active one, which the request may not learn, or it does not.
LEMMA SwitchOwns ==
    ASSUME RegInv, OwnInv, NEW r \in Requests, SwitchToAccount(r)
    PROVE  OwnInv' /\ KeepsOwners
<1>1. UNCHANGED <<accounts, projects, work, moved, creating>> /\ overtaken \subseteq overtaken'
  BY DEF SwitchToAccount, fleetVars, createVars
<1>2. RegTypes /\ Knows(r) /\ Tracks(r) /\ reg[r].pc = "switch"
  BY RegFacts DEF OwnInv, Turns, SwitchToAccount
<1>3. ASSUME NEW w \in Reached(r), Activate(w, reg[r].email), Stray(r, w),
             NEW pc \in {"save", "saveFailed"}, Goto(r, pc),
             pc = "saveFailed" => reg[r].email \in overtaken'
      PROVE  OwnInv' /\ KeepsOwners
  <2>1. Moved(reg', r, pc, reg[r].vm, reg[r].ip, reg[r].host)
    BY <1>2, <1>3, GotoShape DEF Goto, RegPc, RegTypes
  <2>2. w \in VMs /\ cloud[w] = "running" /\ reg[r].email \in Emails
    BY <1>2 DEF Reached, Knows
  <2>3. strayed \subseteq strayed' /\ (reg[r].vm = w \/ reg[r].email \in strayed')
    BY <1>3 DEF Stray
  <2> QED
    BY <1>1, <1>2, <1>3, <2>1, <2>2, <2>3, GetsIn DEF Moved, OnItsVm
<1>4. CASE Goto(r, "saveFailed") /\ UNCHANGED <<login, strayed, overtaken>>
  <2>1. Moved(reg', r, "saveFailed", reg[r].vm, reg[r].ip, reg[r].host)
    BY <1>2, <1>4, GotoShape DEF Goto, RegPc, RegTypes
  <2>2. Sighted(r)'
    BY <2>1 DEF Sighted, Moved
  <2>3. Tracks(r)'
    BY <1>1, <1>2, <1>4, <2>1 DEF Tracks, OnItsVm, Moved, In
  <2> QED
    BY <1>1, <1>2, <1>4, <2>1, <2>2, <2>3, Looks DEF Moved
<1> QED
  BY <1>3, <1>4 DEF SwitchToAccount

\* The login ends, and lets the account in.
LEMMA CompleteOwns ==
    ASSUME RegInv, OwnInv, NEW r \in Requests, CompleteLoginToken(r)
    PROVE  OwnInv' /\ KeepsOwners
<1>1. /\ UNCHANGED <<accounts, projects, work, moved, creating, strayed>>
      /\ overtaken \subseteq overtaken'
      /\ Activate(reg[r].host, reg[r].email) /\ cloud[reg[r].host] = "running"
  BY DEF CompleteLoginToken, fleetVars, createVars
<1>2. RegTypes /\ Knows(r) /\ Sighted(r) /\ reg[r].pc = "session"
  BY RegFacts DEF OwnInv, Logins, CompleteLoginToken
<1>3. \/ Moved(reg', r, "verify", reg[r].vm, reg[r].ip, None)
      \/ Ended(r) /\ reg[r].email \in overtaken'
  <2>1. CASE reg' = [reg EXCEPT ![r].pc = "verify", ![r].host = None]
    BY <1>2, <2>1, HostShape DEF RegPc, RegTypes
  <2>2. CASE End(r) /\ overtaken' = overtaken \cup {reg[r].email}
    BY <1>2, <2>2, EndShape DEF RegTypes
  <2> QED
    BY <2>1, <2>2 DEF CompleteLoginToken
<1>4. reg[r].host \in VMs /\ reg[r].email \in Emails
  BY <1>2 DEF Knows
<1>5. reg[r].vm = reg[r].host \/ reg[r].email \in strayed'
  BY <1>1, <1>2 DEF Sighted
<1>6. /\ \A q \in Requests \ {r} : reg'[q] = reg[q]
      /\ \/ /\ reg'[r].email = reg[r].email /\ reg'[r].vm = reg[r].vm
            /\ reg[r].pc \in OnItsVm /\ reg'[r].pc \in {"verify", "save"}
         \/ Ended(r) /\ reg[r].email \in overtaken'
  BY <1>2, <1>3 DEF Moved, Ended, OnItsVm
<1> QED
  BY <1>1, <1>4, <1>5, <1>6, GetsIn

\* A request calls CreateVM: the VM is new, nobody's, and no account is in.
LEMMA CreateAccountOwns ==
    ASSUME RegInv, OwnInv, NEW r \in Requests, NEW w \in VMs, CreateAccountVM(r, w)
    PROVE  OwnInv' /\ KeepsOwners
<1> USE DEF OwnInv
<1>1. /\ UNCHANGED <<accounts, projects, login, work, moved, strayed, overtaken>>
      /\ creating[w] = "idle" /\ creating' = [creating EXCEPT ![w] = "requested"]
  BY DEF CreateAccountVM, RequestVM, historyVars
<1>2. RegTypes /\ Knows(r) /\ reg[r].pc = "create" /\ creating \in [VMs -> CreatePc]
  BY RegFacts DEF CreateAccountVM, FleetTypeOK
<1>3. Moved(reg', r, "creating", w, reg[r].ip, reg[r].host)
  BY <1>2, VmShape DEF CreateAccountVM, RegPc, RegTypes
<1>4. reg[r].email \in Emails
  BY <1>2 DEF Knows
<1>5. ASSUME NEW v \in VMs, NEW e \in Emails, Mentions(e, v)'
      PROVE  Mentions(e, v) \/ (v = w /\ e = reg[r].email)
  BY <1>1, <1>3, <1>5 DEF Mentions, Moved
<1>6. ASSUME NEW v \in VMs, NEW e \in Emails, Touches(e, v)'
      PROVE  Touches(e, v) \/ (v = w /\ e = reg[r].email)
  BY <1>1, <1>5, <1>6 DEF Touches, In
<1>7. \A e \in Emails : ~Touches(e, w) /\ ~In(w, e)
  BY <1>1 DEF Ownership, Unused, Touches
<1>8. Ownership'
  <2>1. OneOwner'
    BY <1>6, <1>7 DEF Ownership, OneOwner
  <2>2. ASSUME NEW v \in VMs, creating'[v] = "idle", NEW e \in Emails
        PROVE  ~Mentions(e, v)' /\ ~In(v, e)'
    <3>1. v # w /\ creating[v] = "idle"
      BY <1>1, <1>2, <2>2
    <3> QED
      BY <1>1, <1>5, <3>1 DEF Ownership, Unused, In
  <2>3. Unused'
    BY <2>2 DEF Unused
  <2> QED
    BY <2>1, <2>3 DEF Ownership
<1>9. Logins'
  <2>1. LoggedInThere'
    BY <1>1 DEF Logins, LoggedInThere
  <2>2. ASSUME NEW q \in Requests PROVE Sighted(q)'
    BY <1>1, <1>3 DEF Logins, Sighted, In, Moved
  <2> QED
    BY <2>1, <2>2 DEF Logins
<1>10. Turns'
  <2>1. Alone'
    BY <1>1, <1>3 DEF Turns, Alone, Moved
  <2>2. ASSUME NEW q \in Requests PROVE Tracks(q)'
    <3>1. CASE q = r
      BY <1>1, <1>3, <1>4, <1>7, <3>1 DEF Tracks, OnItsVm, In, Moved
    <3>2. CASE q # r
      BY <1>1, <1>3, <3>2 DEF Turns, Tracks, In, Moved
    <3> QED
      BY <3>1, <3>2
  <2>3. RowsAgree'
    BY <1>1 DEF Turns, RowsAgree
  <2>4. LoginRecorded'
    BY <1>1, <1>2, <1>3 DEF Turns, LoginRecorded, Moved
  <2> QED
    BY <2>1, <2>2, <2>3, <2>4 DEF Turns
<1>11. KeepsOwners
  BY <1>1, <1>6 DEF KeepsOwners
<1> QED
  BY <1>8, <1>9, <1>10, <1>11

(***************************************************************************)
(* Rows of gcp_accounts are written for the account e of r: they come to   *)
(* name its VM or none, and those of others are left as they are, because  *)
(* they do not name that VM.                                               *)
(***************************************************************************)
Written(n, v, e) ==
    /\ accounts'[n].vm \in {accounts[n].vm, v, None}
    /\ projects'[n] \in {projects[n], v, None}
    /\ n \notin moved' /\ e \notin strayed =>
          \/ n \notin moved /\ accounts'[n] = accounts[n]
          \/ accounts'[n].vm = None
          \/ accounts'[n].auth # "LoggedIn"
          \/ accounts'[n].vm = v /\ In(v, e)

Untouched(n) ==
    accounts'[n] = accounts[n] /\ projects'[n] = projects[n] /\ (n \in moved' <=> n \in moved)

Consistent(r, e) ==
    /\ reg'[r].pc = "check" => accounts'[e] = NoRow \/ accounts'[e].vm = reg[r].vm
    /\ projects'[e] # NoProject => accounts'[e] # NoRow /\ projects'[e] = accounts'[e].vm
    /\ e \notin strayed /\ Extracted[e] = e =>
          \/ accounts'[e].vm = None
          \/ accounts'[e].auth = "LoggedIn"
          \/ login[accounts'[e].vm][e] # "active"

LEMMA WritesRows ==
    ASSUME RegInv, OwnInv, NEW r \in Requests, NEW e \in Emails,
           reg[r].email = e, reg[r].vm \in VMs,
           UNCHANGED <<login, work, strayed, creating>>, overtaken \subseteq overtaken',
           \A f \in Emails \ {e} : \A n \in NamesOf(f) : Untouched(n),
           \A n \in NamesOf(e) : Written(n, reg[r].vm, e),
           e \in overtaken' \/ Consistent(r, e),
           \A q \in Requests \ {r} : reg'[q] = reg[q],
           \/ Ended(r)
           \/ reg'[r].pc = "create" /\ reg'[r].email = e /\ reg'[r].vm = None
           \/ reg'[r].pc = "check" /\ reg'[r].email = e /\ reg'[r].vm = reg[r].vm
    PROVE  OwnInv' /\ KeepsOwners
<1> USE DEF OwnInv
<1>1. \A f \in Emails : \A n \in NamesOf(f) : f # e => Untouched(n)
  OBVIOUS
<1>2. ASSUME NEW v \in VMs, NEW f \in Emails, Mentions(f, v)' PROVE Mentions(f, v)
  <2>1. v # None /\ v # NoProject
    BY FleetAssumption, AccountsAssumption
  <2>2. CASE f = e
    <3>1. ASSUME NEW n \in NamesOf(e),
                 accounts'[n].vm = v \/ projects'[n] = v \/ work'[n].seen = v
          PROVE  Mentions(e, v)
      BY <2>1, <3>1 DEF Written, Mentions
    <3>2. ASSUME NEW q \in Requests, reg'[q].email = e, reg'[q].vm = v PROVE Mentions(e, v)
      BY <2>1, <3>2 DEF Mentions, Ended
    <3> QED
      BY <1>2, <2>2, <3>1, <3>2 DEF Mentions
  <2>3. CASE f # e
    <3>1. ASSUME NEW n \in NamesOf(f),
                 accounts'[n].vm = v \/ projects'[n] = v \/ work'[n].seen = v
          PROVE  Mentions(f, v)
      BY <1>1, <2>3, <3>1 DEF Untouched, Mentions
    <3>2. ASSUME NEW q \in Requests, reg'[q].email = f, reg'[q].vm = v PROVE Mentions(f, v)
      BY <2>3, <3>2, NamesAreNames DEF Mentions, Ended
    <3> QED
      BY <1>2, <3>1, <3>2 DEF Mentions
  <2> QED
    BY <2>2, <2>3
<1>3. Ownership' /\ KeepsOwners
  BY <1>2, OwnershipKept DEF In
<1>4. Logins'
  <2>1. LoggedInThere'
    <3> SUFFICES ASSUME NEW f \in Emails \ strayed, NEW n \in NamesOf(f) \ moved',
                        accounts'[n].auth = "LoggedIn", accounts'[n].vm # None
                 PROVE  login[accounts'[n].vm][f] # "not_login"
      BY DEF LoggedInThere, NamesOf
    <3>1. CASE f # e
      BY <1>1, <3>1 DEF Untouched, Logins, LoggedInThere, NamesOf
    <3>2. CASE f = e
      BY <3>2 DEF Written, Logins, LoggedInThere, NamesOf, In
    <3> QED
      BY <3>1, <3>2
  <2>2. ASSUME NEW q \in Requests PROVE Sighted(q)'
    BY DEF Logins, Sighted, In, Ended
  <2> QED
    BY <2>1, <2>2 DEF Logins
<1>5. Turns'
  <2>1. Alone'
    BY NamesAreNames DEF Turns, Alone, Ended
  <2>2. ASSUME NEW q \in Requests PROVE Tracks(q)'
    <3>1. CASE q = r
      BY <3>1 DEF Tracks, OnItsVm, Ended, Consistent
    <3>2. CASE q # r
      <4> SUFFICES ASSUME reg[q].email \notin overtaken', reg[q].pc \notin {"idle", "ended"}
                   PROVE  Tracks(q)'
        BY <3>2 DEF Tracks, OnItsVm
      <4>1. reg[q].email \in Emails /\ reg[q].email # e
        BY <3>2, RegFacts DEF Turns, Alone, Knows
      <4>2. accounts'[reg[q].email] = accounts[reg[q].email]
        BY <1>1, <4>1, NamesAreNames DEF Untouched
      <4> QED
        BY <3>2, <4>2 DEF Turns, Tracks, In
    <3> QED
      BY <3>1, <3>2
  <2>3. RowsAgree'
    <3> SUFFICES ASSUME NEW f \in Emails \ overtaken'
                 PROVE  /\ projects'[f] # NoProject => /\ accounts'[f] # NoRow
                                                       /\ projects'[f] = accounts'[f].vm
                        /\ work[f].busy => accounts'[f] # NoRow /\ work[f].seen = accounts'[f].vm
      BY DEF RowsAgree
    <3>1. CASE f # e
      BY <1>1, <3>1, NamesAreNames DEF Untouched, Turns, RowsAgree
    <3>2. CASE f = e
      BY <3>2 DEF Consistent, Turns, Alone
    <3> QED
      BY <3>1, <3>2
  <2>4. LoginRecorded'
    <3> SUFFICES ASSUME NEW f \in Emails \ (overtaken' \cup strayed), Extracted[f] = f,
                        accounts'[f].vm # None, accounts'[f].auth # "LoggedIn",
                        login[accounts'[f].vm][f] = "active"
                 PROVE  \E q \in Requests : /\ reg'[q].email = f
                                            /\ reg'[q].pc \in {"verify", "save", "record"}
      BY DEF LoginRecorded
    <3>1. f # e
      BY DEF Consistent
    <3>2. accounts'[f] = accounts[f]
      BY <1>1, <3>1, NamesAreNames DEF Untouched
    <3>3. PICK q \in Requests : reg[q].email = f /\ reg[q].pc \in {"verify", "save", "record"}
      BY <3>2 DEF Turns, LoginRecorded
    <3> QED
      BY <3>1, <3>3
  <2> QED
    BY <2>1, <2>2, <2>3, <2>4 DEF Turns
<1> QED
  BY <1>3, <1>4, <1>5

\* A step of r that leaves the rows alone, though they should have changed.
LEMMA LeavesRows ==
    ASSUME RegInv, OwnInv, NEW r \in Requests, NEW e \in Emails,
           reg[r].email = e, reg[r].vm \in VMs, e \in overtaken',
           UNCHANGED <<accounts, projects, moved>>,
           UNCHANGED <<login, work, strayed, creating>>, overtaken \subseteq overtaken',
           \A q \in Requests \ {r} : reg'[q] = reg[q],
           \/ Ended(r)
           \/ reg'[r].pc = "create" /\ reg'[r].email = e /\ reg'[r].vm = None
           \/ reg'[r].pc = "check" /\ reg'[r].email = e /\ reg'[r].vm = reg[r].vm
    PROVE  OwnInv' /\ KeepsOwners
<1>1. \A f \in Emails \ {e} : \A n \in NamesOf(f) : Untouched(n)
  BY DEF Untouched
<1>2. \A n \in NamesOf(e) : Written(n, reg[r].vm, e)
  BY DEF Written
<1> QED
  BY <1>1, <1>2, WritesRows

\* The VM goes out of all rows that name it: rows of the account of r.
LEMMA ClearTagOwns ==
    ASSUME RegInv, OwnInv, NEW r \in Requests, ClearTag(r)
    PROVE  OwnInv' /\ KeepsOwners
<1> DEFINE v == reg[r].vm
<1>1. /\ UNCHANGED <<login, work, strayed, creating, moved>>
      /\ reg[r].pc = "untag" /\ overtaken \subseteq overtaken'
  BY DEF ClearTag, fleetVars, createVars
<1>2. /\ RegTypes /\ AccountTypes /\ reg[r].email \in Emails /\ v \in VMs
      /\ OneOwner /\ Alone /\ RowsAgree /\ LoginRecorded
  BY <1>1, RegFacts DEF Knows, OwnInv, Ownership, Turns
<1>3. Moved(reg', r, "create", None, None, reg[r].host)
  BY <1>2, VmAddressShape DEF ClearTag, RegPc, RegTypes
<1>4. /\ \A q \in Requests \ {r} : reg'[q] = reg[q]
      /\ reg'[r].pc = "create" /\ reg'[r].email = reg[r].email /\ reg'[r].vm = None
  BY <1>3 DEF Moved
<1>5. v # None /\ v # NoProject
  BY <1>2, FleetAssumption, AccountsAssumption
<1>6. CASE overtaken' = overtaken \cup {reg[r].email} /\ UNCHANGED <<accounts, projects>>
  <2>1. reg[r].email \in overtaken'
    BY <1>6
  <2> QED
    BY <1>1, <1>2, <1>4, <1>6, <2>1, LeavesRows
<1>7. CASE /\ accounts' = [n \in Names |-> IF accounts[n].vm = v
                                           THEN [accounts[n] EXCEPT !.vm = None]
                                           ELSE accounts[n]]
           /\ projects' = [n \in Names |-> IF projects[n] = v THEN None ELSE projects[n]]
           /\ UNCHANGED overtaken
  <2> DEFINE e == reg[r].email
  <2>1. ASSUME NEW n \in Names
        PROVE  /\ accounts[n].vm = v => /\ accounts'[n] # NoRow /\ accounts'[n].vm = None
                                        /\ accounts[n] # NoRow
               /\ accounts[n].vm # v => accounts'[n] = accounts[n]
               /\ projects[n] = v => projects'[n] = None
               /\ projects[n] # v => projects'[n] = projects[n]
    <3>1. CASE accounts[n].vm = v
      <4>1. accounts[n] # NoRow
        BY <1>5, <3>1 DEF NoRow
      <4>2. accounts'[n] \in StatusRow /\ accounts'[n].vm = None
        BY <1>2, <1>7, <3>1, <4>1, RowTagged DEF AccountTypes
      <4> QED
        BY <1>7, <3>1, <4>1, <4>2, NoRowApart
    <3>2. CASE accounts[n].vm # v
      BY <1>7, <3>2
    <3> QED
      BY <3>1, <3>2
  <2>2. \A f \in Emails \ {e} : \A n \in NamesOf(f) : Untouched(n)
    <3> SUFFICES ASSUME NEW f \in Emails \ {e}, NEW n \in NamesOf(f)
                 PROVE  accounts[n].vm # v /\ projects[n] # v
      BY <1>1, <2>1, NamesAreNames DEF Untouched
    <3>1. Touches(e, v)
      BY DEF Touches, Mentions
    <3>2. ~Mentions(f, v)
      BY <1>2, <3>1 DEF OneOwner, Touches
    <3> QED
      BY <3>2 DEF Mentions
  <2>3. \A n \in NamesOf(e) : Written(n, v, e)
    BY <1>1, <1>2, <2>1, NamesAreNames DEF Written
  <2>4. ASSUME e \notin overtaken' PROVE Consistent(r, e)
    <3>1. e \in Emails \ overtaken /\ e \in Names
      BY <1>2, <1>7, <2>4, NamesAreNames
    <3>2. projects'[e] # NoProject => accounts'[e] # NoRow /\ projects'[e] = accounts'[e].vm
      BY <1>2, <1>5, <2>1, <3>1 DEF RowsAgree
    <3>3. ASSUME e \notin strayed, Extracted[e] = e, accounts'[e].vm # None,
                 accounts'[e].auth # "LoggedIn", login[accounts'[e].vm][e] = "active"
          PROVE  FALSE
      <4>1. accounts'[e] = accounts[e]
        BY <2>1, <3>1, <3>3
      <4>2. PICK q \in Requests : reg[q].email = e /\ reg[q].pc \in {"verify", "save", "record"}
        BY <1>2, <3>1, <3>3, <4>1 DEF LoginRecorded
      <4>3. q = r
        BY <1>2, <3>1, <4>2 DEF Alone
      <4> QED
        BY <1>1, <4>2, <4>3
    <3> QED
      BY <1>4, <3>2, <3>3 DEF Consistent
  <2>5. e \in overtaken' \/ Consistent(r, e)
    BY <2>4
  <2> HIDE DEF e
  <2> QED
    BY <1>1, <1>2, <1>4, <2>2, <2>3, <2>5, WritesRows DEF e
<1> QED
  BY <1>6, <1>7 DEF ClearTag

\* Row and projects of the account of r come to name its new VM, where nobody is in.
LEMMA UpdateVmOwns ==
    ASSUME RegInv, OwnInv, NEW r \in Requests, UpdateAccountVMInfo(r)
    PROVE  OwnInv' /\ KeepsOwners
<1> DEFINE v == reg[r].vm
<1>1. /\ UNCHANGED <<login, work, strayed, creating>>
      /\ reg[r].pc = "tag" /\ overtaken \subseteq overtaken'
  BY DEF UpdateAccountVMInfo, fleetVars, createVars
<1>2. /\ RegTypes /\ AccountTypes /\ reg[r].email \in Emails /\ v \in VMs
      /\ RowsAgree /\ Tracks(r)
  BY <1>1, RegFacts DEF Knows, OwnInv, Turns
<1>3. Moved(reg', r, "check", v, reg[r].ip, reg[r].host)
  BY <1>2, GotoShape DEF UpdateAccountVMInfo, Goto, RegPc, RegTypes
<1>4. /\ \A q \in Requests \ {r} : reg'[q] = reg[q]
      /\ reg'[r].pc = "check" /\ reg'[r].email = reg[r].email /\ reg'[r].vm = v
  BY <1>3 DEF Moved
<1>5. CASE overtaken' = overtaken \cup {reg[r].email} /\ UNCHANGED <<accounts, projects, moved>>
  <2>1. reg[r].email \in overtaken'
    BY <1>5
  <2> QED
    BY <1>1, <1>2, <1>4, <1>5, <2>1, LeavesRows
<1>6. CASE /\ accounts' = IF accounts[reg[r].email] = NoRow THEN accounts
                          ELSE [accounts EXCEPT ![reg[r].email].vm = v]
           /\ projects' = IF projects[reg[r].email] = NoProject THEN projects
                          ELSE [projects EXCEPT ![reg[r].email] = v]
           /\ moved' = IF accounts[reg[r].email] = NoRow THEN moved
                       ELSE moved \cup {reg[r].email}
           /\ UNCHANGED overtaken
  <2> DEFINE e == reg[r].email
  <2>1. e \in Names /\ moved \subseteq moved' /\ moved' \subseteq moved \cup {e}
    BY <1>2, <1>6, NamesAreNames
  <2>2. \A n \in Names \ {e} : accounts'[n] = accounts[n] /\ projects'[n] = projects[n]
    BY <1>2, <1>6 DEF AccountTypes
  <2>3. \/ accounts[e] = NoRow /\ accounts'[e] = NoRow /\ moved' = moved
        \/ /\ accounts[e] # NoRow /\ accounts'[e] # NoRow /\ accounts'[e].vm = v
           /\ e \in moved'
    <3>1. CASE accounts[e] = NoRow
      BY <1>6, <3>1
    <3>2. CASE accounts[e] # NoRow
      <4>1. accounts'[e] = [accounts[e] EXCEPT !.vm = v] /\ e \in moved'
        BY <1>2, <1>6, <2>1, <3>2 DEF AccountTypes
      <4>2. accounts'[e] \in StatusRow /\ accounts'[e].vm = v
        BY <1>2, <2>1, <3>2, <4>1, RowTagged DEF AccountTypes
      <4> QED
        BY <3>2, <4>1, <4>2, NoRowApart
    <3> QED
      BY <3>1, <3>2
  <2>4. \/ projects[e] = NoProject /\ projects'[e] = NoProject
        \/ projects[e] # NoProject /\ projects'[e] = v
    BY <1>2, <1>6, <2>1 DEF AccountTypes
  <2>5. \A f \in Emails \ {e} : \A n \in NamesOf(f) : Untouched(n)
    <3> SUFFICES ASSUME NEW f \in Emails \ {e}, NEW n \in NamesOf(f) PROVE Untouched(n)
      OBVIOUS
    <3>1. n \in Names /\ n # e
      BY <1>2, NamesApart, NamesAreNames
    <3> QED
      BY <2>1, <2>2, <3>1 DEF Untouched
  <2>6. ASSUME NEW n \in NamesOf(e) PROVE Written(n, v, e)
    <3>1. CASE n = e
      BY <2>3, <2>4, <3>1, NoRowApart DEF Written
    <3>2. CASE n # e
      <4>1. n \in Names \ {e}
        BY <1>2, <2>6, <3>2, NamesAreNames
      <4> QED
        BY <2>1, <2>2, <4>1 DEF Written
    <3> QED
      BY <3>1, <3>2
  <2>7. e \in overtaken' \/ Consistent(r, e)
    <3> SUFFICES ASSUME e \notin overtaken PROVE Consistent(r, e)
      BY <1>6
    <3>1. e \notin strayed => login[v][e] # "active"
      BY <1>1, <1>2 DEF Tracks, In
    <3>2. projects'[e] # NoProject => accounts'[e] # NoRow /\ projects'[e] = accounts'[e].vm
      BY <1>2, <2>3, <2>4 DEF RowsAgree
    <3> QED
      BY <2>3, <3>1, <3>2 DEF Consistent, NoRow
  <2> HIDE DEF e
  <2> QED
    BY <1>1, <1>2, <1>4, <2>5, <2>6, <2>7, WritesRows DEF e
<1> QED
  BY <1>5, <1>6 DEF UpdateAccountVMInfo

\* The outcome of the login goes into a row of the account.
LEMMA SaveOwns ==
    ASSUME RegInv, OwnInv, NEW r \in Requests, CreateOrUpdateAccountStatus(r)
    PROVE  OwnInv' /\ KeepsOwners
<1> DEFINE v == reg[r].vm
           s == IF reg[r].pc = "saveFailed" THEN "LoginFailed" ELSE "LoggedIn"
<1>1. /\ UNCHANGED <<projects, login, work, strayed, creating>>
      /\ reg[r].pc \in {"save", "saveFailed", "record"} /\ overtaken \subseteq overtaken'
  BY DEF CreateOrUpdateAccountStatus, fleetVars, createVars
<1>2. /\ RegTypes /\ AccountTypes /\ reg[r].email \in Emails /\ v \in VMs
      /\ RowsAgree /\ Tracks(r) /\ Sighted(r)
  BY <1>1, RegFacts DEF Knows, OwnInv, Logins, Turns
<1>3. Ended(r)
  BY <1>2, EndShape DEF CreateOrUpdateAccountStatus, RegTypes
<1>4. \A q \in Requests \ {r} : reg'[q] = reg[q]
  BY <1>3 DEF Ended
<1>5. CASE overtaken' = overtaken \cup {reg[r].email} /\ UNCHANGED <<accounts, moved>>
  <2>1. reg[r].email \in overtaken'
    BY <1>5
  <2> QED
    BY <1>1, <1>2, <1>3, <1>4, <1>5, <2>1, LeavesRows
<1>6. CASE /\ accounts' = [accounts EXCEPT ![SavedName(r)] = [vm |-> v, auth |-> s]]
           /\ moved' = moved \ {SavedName(r)}
           /\ UNCHANGED overtaken
  <2> DEFINE e == reg[r].email
             n == SavedName(r)
  <2>1. n \in NamesOf(e) /\ n \in Names /\ e \in Names
    BY <1>2, NamesAreNames DEF SavedName, NamesOf
  <2>2. \A m \in Names \ {n} : /\ accounts'[m] = accounts[m]
                               /\ m \in moved' <=> m \in moved
    BY <1>2, <1>6 DEF AccountTypes
  <2>3. accounts'[n] # NoRow /\ accounts'[n].vm = v /\ accounts'[n].auth = s
    BY <1>2, <1>6, <2>1 DEF AccountTypes, NoRow
  <2>4. ASSUME NEW f \in Emails \ {e}, NEW m \in NamesOf(f) PROVE Untouched(m)
    <3>1. m \in Names /\ m # n
      BY <1>2, <2>1, <2>4, NamesApart, NamesAreNames
    <3> QED
      BY <1>1, <2>2, <3>1 DEF Untouched
  <2>5. ASSUME NEW m \in NamesOf(e) PROVE Written(m, v, e)
    <3>1. CASE m = n
      BY <1>1, <1>2, <2>3, <3>1 DEF Written, Sighted
    <3>2. CASE m # n
      <4>1. m \in Names \ {n}
        BY <1>2, <2>5, <3>2, NamesAreNames
      <4> QED
        BY <1>1, <2>2, <4>1 DEF Written
    <3> QED
      BY <3>1, <3>2
  <2>6. e \in overtaken' \/ Consistent(r, e)
    <3> SUFFICES ASSUME e \notin overtaken PROVE Consistent(r, e)
      BY <1>6
    <3>1. accounts[e] = NoRow \/ accounts[e].vm = v
      BY <1>1, <1>2 DEF Tracks, OnItsVm
    <3>2. projects[e] # NoProject => accounts[e] # NoRow /\ projects[e] = v
      BY <1>2, <3>1 DEF RowsAgree
    <3>3. projects'[e] # NoProject => accounts'[e] # NoRow /\ projects'[e] = accounts'[e].vm
      BY <1>1, <2>1, <2>2, <2>3, <3>1, <3>2
    <3>4. e \notin strayed /\ reg[r].pc = "saveFailed" => login[v][e] # "active"
      BY <1>2 DEF Tracks
    <3>5. Extracted[e] = e => n = e
      BY DEF SavedName
    <3> QED
      BY <1>3, <2>3, <3>3, <3>4, <3>5 DEF Consistent, Ended
  <2> HIDE DEF e
  <2> QED
    BY <1>1, <1>2, <1>3, <1>4, <2>4, <2>5, <2>6, WritesRows DEF e
<1> QED
  BY <1>5, <1>6 DEF CreateOrUpdateAccountStatus

-----------------------------------------------------------------------------
(***************************************************************************)
(* Post-login processing, and the fleet.                                   *)
(***************************************************************************)

\* A run has its VM from the rows of its account, and puts it back there.
LEMMA RunsOwn ==
    ASSUME RegInv, OwnInv, UNCHANGED <<accounts, login, reg, moved, strayed, creating>>,
           overtaken \subseteq overtaken',
           \A n \in Names :
               /\ work'[n].seen \in {work[n].seen, accounts[n].vm, projects[n], None}
               /\ projects'[n] \in {projects[n], work[n].seen},
           \A e \in Emails \ overtaken' :
               /\ work'[e].busy => work[e].busy \/ \A q \in Requests : reg[q].email # e
               /\ work'[e].busy => accounts[e] # NoRow /\ work'[e].seen = accounts[e].vm
               /\ \/ projects'[e] = projects[e]
                  \/ accounts[e] # NoRow /\ projects'[e] = accounts[e].vm
    PROVE  OwnInv' /\ KeepsOwners
<1> USE DEF OwnInv
<1>1. Ownership' /\ KeepsOwners
  <2>1. ASSUME NEW v \in VMs, NEW e \in Emails, Mentions(e, v)' PROVE Mentions(e, v)
    <3>1. v # None
      BY FleetAssumption
    <3>2. ASSUME NEW n \in NamesOf(e),
                 accounts'[n].vm = v \/ projects'[n] = v \/ work'[n].seen = v
          PROVE  Mentions(e, v)
      BY <3>1, <3>2, NamesAreNames DEF Mentions
    <3> QED
      BY <2>1, <3>2 DEF Mentions
  <2> QED
    BY <2>1, OwnershipKept DEF In
<1>2. Logins'
  <2>1. LoggedInThere'
    BY DEF Logins, LoggedInThere
  <2>2. \A q \in Requests : Sighted(q)'
    BY DEF Logins, Sighted, In
  <2> QED
    BY <2>1, <2>2 DEF Logins
<1>3. Turns'
  <2>1. Alone'
    BY DEF Turns, Alone
  <2>2. ASSUME NEW q \in Requests PROVE Tracks(q)'
    BY DEF Turns, Tracks, In
  <2>3. RowsAgree'
    BY DEF Turns, RowsAgree
  <2>4. LoginRecorded'
    BY DEF Turns, LoginRecorded
  <2> QED
    BY <2>1, <2>2, <2>3, <2>4 DEF Turns
<1> QED
  BY <1>1, <1>2, <1>3

LEMMA ProcessOwns ==
    ASSUME RegInv, OwnInv, NEW n \in Names,
           ProcessProjects(n) \/ SaveProject(n) \/ EndProcessing(n)
    PROVE  OwnInv' /\ KeepsOwners
<1>1. UNCHANGED <<accounts, login, reg, moved, strayed, creating>> /\ overtaken \subseteq overtaken'
  BY DEF ProcessProjects, SaveProject, EndProcessing, fleetVars, createVars, historyVars
<1>2. AccountTypes /\ RowsAgree
  BY RegFacts DEF OwnInv, Turns
<1>3. CASE ProcessProjects(n)
  <2>1. /\ UNCHANGED projects /\ accounts[n] # NoRow
        /\ \A m \in Names \ {n} : work'[m] = work[m]
        /\ work'[n].busy /\ work'[n].seen \in {accounts[n].vm, projects[n]}
        /\ projects[n] = NoProject => work'[n].seen = accounts[n].vm
        /\ n \notin overtaken' => \A q \in Requests : reg[q].email # n
    BY <1>2, <1>3 DEF ProcessProjects, AccountTypes, NoRow, Busy
  <2>2. \A m \in Names :
             /\ work'[m].seen \in {work[m].seen, accounts[m].vm, projects[m], None}
             /\ projects'[m] \in {projects[m], work[m].seen}
    BY <2>1
  <2>3. ASSUME NEW e \in Emails \ overtaken', work'[e].busy
        PROVE  /\ work[e].busy \/ \A q \in Requests : reg[q].email # e
               /\ accounts[e] # NoRow /\ work'[e].seen = accounts[e].vm
    BY <1>1, <1>2, <2>1, <2>3, NamesAreNames DEF RowsAgree
  <2> QED
    BY <1>1, <2>1, <2>2, <2>3, RunsOwn
<1>4. CASE SaveProject(n)
  <2>1. /\ UNCHANGED work /\ work[n].busy /\ projects'[n] = work[n].seen
        /\ \A m \in Names \ {n} : projects'[m] = projects[m]
    BY <1>2, <1>4 DEF SaveProject, AccountTypes
  <2>2. ASSUME NEW m \in Names
        PROVE  /\ work'[m].seen \in {work[m].seen, accounts[m].vm, projects[m], None}
               /\ projects'[m] \in {projects[m], work[m].seen}
    BY <2>1
  <2>3. ASSUME NEW e \in Emails \ overtaken'
        PROVE  /\ work'[e].busy => accounts[e] # NoRow /\ work'[e].seen = accounts[e].vm
               /\ \/ projects'[e] = projects[e]
                  \/ accounts[e] # NoRow /\ projects'[e] = accounts[e].vm
    BY <1>1, <1>2, <2>1, NamesAreNames DEF RowsAgree
  <2> QED
    BY <1>1, <2>1, <2>2, <2>3, RunsOwn
<1>5. CASE EndProcessing(n)
  <2>1. /\ UNCHANGED projects /\ ~work'[n].busy /\ work'[n].seen = None
        /\ \A m \in Names \ {n} : work'[m] = work[m]
    BY <1>2, <1>5 DEF EndProcessing, AccountTypes, Idle
  <2>2. \A m \in Names :
             /\ work'[m].seen \in {work[m].seen, accounts[m].vm, projects[m], None}
             /\ projects'[m] \in {projects[m], work[m].seen}
    BY <2>1
  <2>3. ASSUME NEW e \in Emails \ overtaken', work'[e].busy
        PROVE  work[e].busy /\ accounts[e] # NoRow /\ work'[e].seen = accounts[e].vm
    BY <1>1, <1>2, <2>1, <2>3, NamesAreNames DEF RowsAgree
  <2> QED
    BY <1>1, <2>1, <2>2, <2>3, RunsOwn
<1> QED
  BY <1>3, <1>4, <1>5

\* The name of a VM is used once.
LEMMA NamesUsedOnce ==
    ASSUME creating \in [VMs -> CreatePc], FleetNext, NEW v \in VMs, creating'[v] = "idle"
    PROVE  creating[v] = "idle"
<1> USE DEF createVars
<1>1. CASE UNCHANGED creating
  BY <1>1
<1>2. ASSUME NEW w \in VMs, NEW pc \in CreatePc \ {"idle"},
             creating' = [creating EXCEPT ![w] = pc]
      PROVE  creating[v] = "idle"
  BY <1>2
<1>3. CASE \E w \in Operated : RequestVM(w) \/ HandlerDeletes(w)
  BY <1>1, <1>2, <1>3, FleetAssumption DEF RequestVM, HandlerDeletes, CreatePc
<1>4. CASE \E w \in VMs : CreateVM(w)
  BY <1>1, <1>2, <1>4 DEF CreateVM, CreateFails, CreateInstance, FindIP, SaveRow, SaveRowFails,
                         CreatePc
<1>5. CASE (\E c \in Callers, w \in VMs : DeleteVM(c, w)) \/ CleanupPendingDeleteVMs
  BY <1>1, <1>5 DEF DeleteVM, FindRowFails, DeleteInstance, DeleteInstanceFails, MarkDeleted,
                    MarkDeletedFails, CleanupPendingDeleteVMs
<1>6. CASE CleanupOldVMs
  BY <1>1, <1>6 DEF CleanupOldVMs, StartSweep, SweepDelete, SweepDeleteFails, SweepMark,
                    SweepMarkFails
<1>7. CASE \E w \in Refreshed : RefreshVMIP(w) \/ Readdress(w)
  BY <1>1, <1>7 DEF RefreshVMIP, RefreshRead, RefreshNothing, RefreshFind, RefreshSave,
                    RefreshSaveFails, Readdress
<1>8. CASE HourPasses \/ V2Done
  BY <1>1, <1>8 DEF HourPasses, V2Done
<1>9. CASE V2Begin
  <2>1. CASE V2Create
    BY <2>1 DEF V2Create, NewBatch
  <2> QED
    BY <1>1, <1>9, <2>1 DEF V2Begin, V2Find, V2Mark, V2MarkFails, V2Refused
<1> QED
  BY <1>3, <1>4, <1>5, <1>6, <1>7, <1>8, <1>9 DEF FleetNext, FleetRequests

LEMMA FleetOwns ==
    ASSUME OwnInv, UNCHANGED <<accountVars, historyVars>>,
           \A v \in VMs : creating'[v] = "idle" => creating[v] = "idle"
    PROVE  OwnInv' /\ KeepsOwners
<1> USE DEF OwnInv, accountVars, historyVars
<1>1. Ownership' /\ KeepsOwners
  BY OwnershipKept DEF Mentions, In
<1>2. Logins'
  BY DEF Logins, LoggedInThere, Sighted, In
<1>3. Turns'
  BY DEF Turns, Alone, Tracks, RowsAgree, LoginRecorded, In
<1> QED
  BY <1>1, <1>2, <1>3

-----------------------------------------------------------------------------
LEMMA NextOwn == RegInv /\ OwnInv /\ [Next]_vars => OwnInv' /\ KeepsOwners
<1> SUFFICES ASSUME RegInv, OwnInv, [Next]_vars PROVE OwnInv' /\ KeepsOwners
  OBVIOUS
<1>1. ASSUME NEW r \in Requests, Register(r) PROVE OwnInv' /\ KeepsOwners
  BY <1>1, StartOwns, FindVmOwns, DescribeOwns, WriteOffOwns, ClearTagOwns, CreateAccountOwns,
     GetCreatedOwns, UpdateVmOwns, CheckOwns, SwitchOwns, DoLoginOwns, CompleteOwns,
     VerifyOwns, SaveOwns, GiveUpOwns DEF Register
<1>2. ASSUME NEW n \in Names, ProcessProjects(n) \/ SaveProject(n) \/ EndProcessing(n)
      PROVE  OwnInv' /\ KeepsOwners
  BY <1>2, ProcessOwns
<1>3. CASE FleetStep
  <2>1. creating \in [VMs -> CreatePc]
    BY RegFacts DEF FleetTypeOK
  <2> QED
    BY <1>3, <2>1, NamesUsedOnce, FleetOwns DEF FleetStep
<1>4. CASE UNCHANGED vars
  BY <1>4, FleetOwns DEF vars, fleetVars, createVars
<1> QED
  BY <1>1, <1>2, <1>3, <1>4 DEF Next

-----------------------------------------------------------------------------
(***************************************************************************)
(* What follows for every execution.                                       *)
(***************************************************************************)

\* The three parts are an invariant of the program.
THEOREM OwnInvariance == Spec => []OwnInv
<1> USE InitOwn, NextOwn
<1>1. Spec => []RegInv
  BY RegInvariance
<1> QED
  BY <1>1, PTL DEF Spec

\* A VM comes to an account by CreateVM and in no other way: what the rows, the
\* requests and the runs of an account name, and where it is logged in as long as
\* none of its commands has strayed, it has had before or the VM was not used yet.
THEOREM VmsKeepTheirAccount == Spec => [][KeepsOwners]_vars
<1> USE NextOwn
<1>1. Spec => []RegInv /\ []OwnInv
  BY RegInvariance, OwnInvariance, PTL
<1> QED
  BY <1>1, PTL DEF Spec

\* No two accounts name one VM, and none gets into the VM of another, unless a
\* command went to an address that another VM had been given since.
THEOREM AccountsShareNoVm == Spec => []VmOfOneAccount
<1>1. ASSUME RegInv, OwnInv PROVE VmOfOneAccount
  <2>1. OneOwner /\ AccountTypes
    BY <1>1, RegFacts DEF OwnInv, Ownership
  <2> SUFFICES ASSUME NEW e \in Emails, NEW f \in Emails, e # f
               PROVE  /\ VmsOf(e) \cap VmsOf(f) = {}
                      /\ {e, f} \cap strayed = {} =>
                             \A v \in VMs : "not_login" \in {login[v][e], login[v][f]}
    BY DEF VmOfOneAccount
  <2>2. ASSUME NEW g \in Emails, NEW v \in VmsOf(g) PROVE v \in VMs /\ Touches(g, v)
    <3>1. PICK n \in NamesOf(g) : v = accounts[n].vm /\ v # None
      BY <2>2 DEF VmsOf, NamesOf
    <3>2. v \in VMs
      BY <2>1, <3>1, NamesAreNames DEF AccountTypes, StatusRow, NoRow
    <3> QED
      BY <3>1, <3>2 DEF Touches, Mentions
  <2>3. VmsOf(e) \cap VmsOf(f) = {}
    BY <2>1, <2>2 DEF OneOwner
  <2>4. ASSUME {e, f} \cap strayed = {}, NEW v \in VMs
        PROVE  "not_login" \in {login[v][e], login[v][f]}
    BY <2>1, <2>4 DEF OneOwner, Touches, In
  <2> QED
    BY <2>3, <2>4
<1> QED
  BY <1>1, RegInvariance, OwnInvariance, PTL

\* What a status row says of a login was so, unless the VM in it is a newer one
\* or a command went to another VM.
THEOREM LoggedInWasThere == Spec => []LoggedInThere
<1>1. OwnInv => LoggedInThere
  BY DEF OwnInv, Logins
<1> QED
  BY <1>1, OwnInvariance, PTL

\* Whoever is active on the VM of its status row is LoggedIn there, or a request
\* is about to say so, unless a step after the login failed or went elsewhere.
THEOREM LoginsAreRecorded == Spec => []LoginRecorded
<1>1. OwnInv => LoginRecorded
  BY DEF OwnInv, Turns
<1> QED
  BY <1>1, OwnInvariance, PTL

\* The rows of an account name one VM, unless two requests for it were under way
\* at a time or an update failed.
THEOREM RowsNameOneVm == Spec => []OneVmPerAccount
<1>1. OwnInv => OneVmPerAccount
  BY DEF OwnInv, Turns, RowsAgree, OneVmPerAccount
<1> QED
  BY <1>1, OwnInvariance, PTL
=============================================================================
