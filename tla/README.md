# Formal models of gatc

gatc is a small fleet manager written in Go. One process (`main.go`) creates Google Cloud VMs that
act as HTTP proxies, keeps the pool of their addresses, registers Google accounts through an
interactive `gcloud` login on a VM, and creates projects, billing links and API tokens for those
accounts. A second program (`vmHttpServerProxy/`) runs on each VM and forwards requests; it also
collects Gemini requests into batches.

This directory holds TLA+ models of both, TLC configurations that check them on small instances,
and proofs checked by TLAPS.

## 1. Inventory

| Part | Source | State | Operations | What is hard |
|---|---|---|---|---|
| Gemini batching | `vmHttpServerProxy/batch.go`, `main.go` 343-388 | the map of collectors under `bm.mu`; per collector its requests, its mutex, its timer; one channel per request | `addToBatch`, timer callback, `executeBatch` (submit, poll, distribute), `removeBatch` | handlers, timers and executions interleave under two mutexes; one is held for a whole polling loop |
| VM fleet | `service/vm_service.go`, `dao/vm_instance.go`, `handler/vm_handler.go` | cloud instances; rows of `vm_instances` (status, address, proxy, times) | create, delete, refresh one VM; batches; two-phase replacement (V2); hourly jobs | no locks or transactions around rows; every `gcloud` command and SQL statement may fail or be overtaken |
| Proxy pool | `dao/proxy_pool.go`, `service/vm_service.go` 987-1128, 1262-1370 | rows of `proxy_pool`; `base_url` of `official_tokens` | V1 replacement, sync of the pool from the VMs | ten statements in a row that may fail one by one; the cloud recycles addresses |
| Login sessions | `service/gcloud/login_session.go` | session cache, status, channels to a running `gcloud auth login` | start, submit key, reader, writer, deadline | unsynchronised status, two submitters, a deadline that races an answer |
| Account registration | `service/gcp_account_service.go`, `dao/gcp_account.go` | rows of `gcp_accounts` | start registration, submit key, choose and verify a VM | read-then-save of whole rows; a transient error counts as a lost VM |
| Post-login processing | `service/gcloud/post_login_process_v2.go`, `service/project_service.go` | account rows per project (billing, token), `official_tokens` | V2 and V3 pipelines | partial failure between cloud and database, reruns, concurrent runs |
| Rate limiter | `base/ratelimit/email_rate_limiter.go` | last request per e-mail | `CanProcess` | check, then act |
| The rest | `cron/`, `conf/`, `env/`, `helpers/`, `base/`, `tool/`, `main.go` | none that changes after start | wiring | nothing |

How they meet: HTTP handlers and cron jobs run concurrently in one process and share only the
database and the cloud. V1 replacements write the pool and the tokens and delete VMs; V2
replacements mark VMs and leave the deletion to the hourly job, then let the sync repair the pool.
Account registration borrows VMs from the fleet and marks rows Deleted itself.

What makes each part correct:

- batching: every client gets its own answer, and gets one; no batch is forgotten;
- fleet: the rows tell the truth about the instances, at least in the direction that costs money or
  breaks clients (a running instance nobody knows, a row that offers a dead proxy), and what is marked
  for deletion is deleted;
- pool: a token points to a proxy that is in the pool and alive; the pool agrees with the fleet;
- login: each session ends by its deadline, Done only if the login succeeded, and one key is consumed once;
- post-login: no change at Google without a record, no token twice, no step repeated that was done.

## 2. Modules

| Module | What it is |
|---|---|
| `GeminiBatch` | the batching layer |
| `BatchService` | what it promises: requests join groups, a group is answered at once, answers never change |
| `GeminiBatchProofs` | inductive invariant, invariants, action properties, refinement |
| `MCGeminiBatch` | instances for TLC |
| `VmFleet` | instances, rows, and every goroutine that changes them |
| `VmFleetProofs` | inductive invariant and the fleet's safety invariants |
| `MCVmFleet` | instances for TLC |
| `ProxyReplacement` | extends `VmFleet` with the pool, the tokens, V1 replacement, the V2 handler and the sync |
| `ProxyReplacementProofs` | inductive invariants of the pool, the tokens and the replacement, and all its properties |
| `MCProxyReplacement` | instances for TLC |
| `AccountRegistration` | extends `VmFleet` with the accounts, their VMs, the logins there, and the requests that register them |
| `AccountRegistrationProofs` | inductive invariant; types, VMs without rows, and leaks |
| `AccountVmsProofs` | whose a VM is, who is logged in there, and that the rows of an account agree |
| `MCAccountRegistration` | instances for TLC |
| `LoginSession` | one interactive login: DoLogin, reader, writer, clients, deadline, command |
| `LoginService` | what it promises: keys taken after the URL only, one verdict each, ok at most once and only when true |
| `LoginSessionProofs` | inductive invariants, the session's invariants, refinement |
| `MCLoginSession` | instances for TLC |
| `PostLoginProcess` | runs of V2 and V3 on the projects, keys and rows of one account |
| `PostLoginProcessProofs` | what runs have in hand; types and the two action properties |
| `PostLoginRecordsProofs` | keys, sales and billing are recorded |
| `MCPostLoginProcess` | instances for TLC |

### GeminiBatch

A collector is named by its `batchID`, a request by the handler goroutine that serves it. All
requests use one URL (`main.go` 366), so `bm.batches` is the single value `mapped`. `Task` is the set
of goroutines that may execute a collector: the timer callback of collector *b*, and for each request
the goroutine its append may have started (`batch.go` 159-165).

| Code | Model |
|---|---|
| `addToBatch` until the collector's mutex is wanted; `bm.mu` stays locked | `FindCollector`, `CreateCollector` |
| append, index, size trigger, `timer.Stop` with its result ignored | `Enqueue` |
| `result := <-ch` | `ReceiveResult` |
| `time.AfterFunc` | `TimerFires` |
| `executeBatch`: lock and the early return | `BeginExecution` |
| POST, polling loop with its deadline | `SubmitFails`, `SubmitSucceeds`, `PollTimesOut`, `PollGoesOn`, `Query...` |
| answers with `select`/`default` into channels of capacity 1 | `Distribute` |
| `removeBatch` | `RemoveBatch` |

The job's answer is a choice for each key: the answer to some request submitted under that key, or
nothing. That is what makes `OwnAnswer` depend on the keys being distinct.

### VmFleet

Per VM: its instance (`cloud`, `address`), its row (`status`, `externalIP`, `proxy`, ids ordered by
`before`, `expired` and `aged` for `updated_at` and `created_at` against the cutoffs of the jobs), and
a program counter for each operation that can be under way on it. Each `gcloud` command and each
SQL statement is one action and has a failing twin where the code has an error path
(`SaveRowFails`, `DeleteInstanceFails`, `MarkDeletedFails`, ...). `cmdFailed` are the VMs whose delete command
failed inside `DeleteVM`, `unmarked` those whose row was not told that they are gone, because the database refused the
update or `CleanupOldVMs` never got the answer to its command; no guard reads them.

V2 looks for Running rows of a type, and perhaps of a zone and a machine type, at most `num` of them (`num <= 0` is no
limit). Zone and machine type are not in the model: `V2Find` takes any set of Running rows of a type within that bound.
What it marks stays marked when `BatchCreateVM` then refuses (`V2Refused`).

`RefreshVMIP` keeps the row it has read (`refresh[v].seen`) until it saves it whole;
`CleanupOldVMs` works through `oldQueue`, a snapshot. `SyncVMsWithGCP` is left out because it changes
nothing: it compares the numeric id of an instance with the prefix `gatcvm`, so its insert never
runs, and its delete is commented out.

### ProxyReplacement

`proxy_pool` has the unique key `(proxy, status)`, so it is two sets of addresses, `active` and
`retired`; a statement that would break the key fails as a whole (`Disable`, `Insert`). A VM whose
address was not found within three attempts brings the proxy `"pending"`, like any other string.
`V1...` are the steps of `ReplaceProxyResource` in the order of the code (its step 6 precedes step
3), `Sync...` those of `SyncProxyPoolFromVMs`. All else runs as in `VmFleet`.

### AccountRegistration

The table `gcp_accounts` has, per e-mail, a status row (`accounts`: `vm_id` and `auth_status`) and rows for
projects, of which one stands for all (`projects`). Both are functions of the names the column
may hold, because a registration does not always save under the e-mail it was asked for: the session id
writes `_` for `@`, `extractEmailFromSessionID` turns every `_` back, and an e-mail that has one of its own
is saved under another name (`Extracted`). `login` is what `gcloud auth list` says on each VM, `reg[r]` a
request from `StartAccountRegistration` to the end of `SubmitAuthKey`, `work[n]` the row a post-login
run has in memory. The VMs and their rows are those of `VmFleet`, all of whose steps go on meanwhile. A
login itself is `LoginSession`: here it lets the account in or does not.

| Code | Model |
|---|---|
| `getValidVm`: the row, then the instance; a failed command counts as *not there* | `FindVm`, `VerifyVMExistsInGCP` |
| `cleanAccountVmIdTag`: the VM's row, then every row with its id | `WriteOff`, `ClearTag` |
| `CreateVM` as a call, then `GetByVMID` | `CreateAccountVM`, `GetCreatedVM`, between them `VmFleet` |
| `updateAccountVMInfo` | `UpdateAccountVMInfo` |
| `CheckTargetAccount`, `SwitchToAccount` by ssh to the address in the row | `CheckTargetAccount`, `SwitchToAccount` on the VMs in `Reached` |
| login session and its key; the check afterwards | `DoLogin`, `CompleteLoginToken`, `VerifyLogin` |
| `CreateOrUpdateAccountStatus` in its three places | `CreateOrUpdateAccountStatus`, `SavedName` |
| errors returned | `GiveUp` |
| `ProcessProjectsV2`/`V3`: their checks; rows inserted with the account's VM and saved whole | `ProcessProjects`, `SaveProject`, `EndProcessing` |

Four history variables name what the code lets happen: `givenUp` (VMs a registration wrote off though they
run), `moved` (status rows whose VM `updateAccountVMInfo` changed while they kept LoggedIn), `strayed`
(accounts a command for which reached the next owner of an address), `overtaken` (accounts of two
requests at once, or with a step that failed and was only logged, or whose switch may have taken effect though ssh
reported an error). No guard reads them. `gcloud auth list` marks the active account; an account that is not active has
a line that may have one field, which the code skips (`Listed`).

### LoginSession

One `AuthSession`. Each goroutine has a program counter or a state of its own (`login`, `reader`,
`writer`, `submit[s]`), `Status` is the plain field that all of them write, and `inputCh`, `output`,
`stdin`, `stdout`, `stderr` are queues. `combinedCh` and `outputCh` are one queue. The command is external: it
may ask questions, prints the URL, reads what is on its input, and may fail at any time.

| Code | Model |
|---|---|
| `NewAuthLoginSession` | `LoginInit` |
| `DoLogin`, one action for each case of its `select` | `Start` ... `LoginTimesOut`, `Silence` |
| `readCombinedOutput`: the half line of a question is a line, what follows it is another | `ReadStdout`, `ReadStderr`, `ReaderEnds` |
| `startInputWriter` | `WriterWrites`, `WriterEnds` |
| check of `Status`, then its assignment | `CheckStatus`, `TakeKey` |
| `inputCh <-` against the deadline; a send on the closed channel panics | `SendKey`, `SendTimesOut`, `SendPanics` |
| `waitCommandEnd`: `Wait`, then `close(inputCh)`, which panics the second time | `WaitReturns`, `WaitAgain`, `CloseInput` |
| the verdict | `RecordVerdict` |

Only the first `Wait` gets the command's result. Another one returns an error or, if it is under way
at the same moment, never returns; the model has both.

### PostLoginProcess

The world is what the account has at Google (`exists`, `linked`, `keys`: which runs created a key in
which project), its rows in `gcp_accounts` (`rows`, without the columns no step here decides on) and
`official_tokens` (`official`). `run[r]` is a run's `PostLoginProcessCtx`: `stage` says which step it is
in, `mem` is `DbProjectsMp`, `list` and `fresh` the listing, `found` and `accounts` what
`getBillingProjectsInfo` returned, `bound` is `BoundProjectsDetail`. A key, and an id in `official_tokens`, is
named by the run that made it.

| Code | Model |
|---|---|
| `ProcessProjectsV2`, `ProcessProjectsV3` after their checks; V3 with and without `unbind_old_billing_proj` | `Start` |
| Step 1 | `ListProjects`, `CreateProjects`, `LoadRows`, `InsertRows` |
| token steps, `generateTokenForProject` | `TokenWork`, `CreateKey` |
| `getBillingProjectsInfo` | `DescribeBilling` |
| billing check; the nil dereference of V3 ends the run (gin recovers) | `CheckWork`, `Unlink`, `MarkBound` |
| binding; V3 stops after failures | `BindWork`, `Link` |
| Step 5 | `ReadValid`, `ReadExisting`, `SyncWork`, `InsertOfficial` |
| `Save` of the row in memory, after each of these | `Save` |
| errors returned, restarts | `GiveUp`, `Crash` |
| `SetTokenInvalid`, both variants | `SetTokenInvalid` |

A command answers over ssh, so a reported failure may have done its work (`Replies`). Three history
variables say what the code cannot prevent: `lost`, a change at Google that no row got (a save or the
answer of a command failed, a crash, a panic); `stale`, a save that undid another's change
(`Overwrites`: the column has changed since the copy was read, and the copy differs); and `again`,
projects that two runs moved to the same billing (`Repeats`). The properties hold for every project in
none of them, so these are the only ways for the tables to become wrong.

They do happen: nothing keeps two runs apart. The limiter spaces the starts of runs, V3 requests may
skip it (`account_handler.go` 153), and a run lasts minutes. `again` takes three of them, and only the
attempt to prove `BillingAgrees` brought it out: a run reads the row Unbound; a second one binds the project
and saves Bound; a V3 run with `unbind_old_billing_proj` reads Bound and unlinks; the first run links
again and saves Bound, which overwrites nothing; the third saves Detach, which its copy of the row
permits. The project is linked and its row says Detach for good.

## 3. Runs

| Run | Instance | Checks | Shows |
|---|---|---|---|
| `gemini_safety` | 3 requests, up to 3 batches, `BatchMaxSize` 2, timeout 0 allowed | type, `MappedIsPending`, `UnstartedIsScheduled`, `OwnAnswer`, `HeaderOfFirst`, `OneSizeTrigger`, `JoinsMapped`, `ExecutionAnswersAll`, `ImplementsService` | two requests can fill a batch while a third arrives, waits or overfills it |
| `gemini_live` | 2 requests, 2 batches | `AddReturns`, `EarlyRequestAnswered` | no handler blocks for ever on a mutex; who joined before the execution began is answered |
| `gemini_lost` | 2 requests, limit 3 | `EveryRequestAnswered` **violated** | a request appended after the distribution is never answered |
| `fleet_safety` | 1 VM running, 1 to create, 2 addresses, both jobs, V2, a refresh | `FleetTypeOK`, `NoLeak`, `NoZombie` | rows do not lie about instances, up to the failures the code ignores |
| `fleet_live` | same VMs, a handler that deletes next to the hourly job; no refresh, no `CleanupOldVMs` | `PendingGetsDeleted` | the row of a marked VM is Deleted in the end, and its instance gone unless a delete command failed and `DeleteVM` ignored that |
| `fleet_lost_update` | 1 VM, refreshed | `PendingGetsDeleted` **violated** | `RefreshVMIP` undoes the mark |
| `pool_safety` | 1 VM, 2 replacements, 2 addresses; the first VM and a new one change their address and are refreshed | `TypeOK`, `MovedToPooled`, `VictimsReplaced`, `SyncSparesRunning` | recycled addresses confuse neither the tokens nor the choice of VMs to delete, but for the exceptions named; a sync retires no proxy of a running VM of the type it looks for |
| `pool_left_behind` | 2 VMs replaced by 2 | `NoTokenLeftBehind` **violated** | partial creation leaves tokens on deleted VMs |
| `registration` | 2 requests, 2 accounts: one has a VM, the other's e-mail gets garbled; 2 VMs, 2 addresses, a V2 replacement, an operator | `TypeOK`, `AccountVmHasRow`, `NoOtherLeak`, `LoggedInThere`, `LoginRecorded`, `OneVmPerAccount`, `VmOfOneAccount` | rows of accounts and projects, logins and the fleet agree up to the steps named above |
| `login` | 3 clients | `LoginTypeOK`, `AnswersFit`, `StatusFollowsClient`, `ImplementsService`, `LoginReturns`, `KeyGetsVerdict`, `SessionEnds` | the command gets what it asks for, verdicts are true, one client by itself is never stuck, and the deadline ends DoLogin, reader, writer, command and the handlers of clients that did not race |
| `postlogin` | 1 project, 2 runs of any kind, 7 kinds of rows left by earlier runs | `TypeOK`, `BillingAgrees`, `KeyRecorded`, `OfficialRecorded`, `FinalStates`, `RetryNeedsABind` | billing, keys and `official_tokens` agree with the rows up to failed and overtaken saves, for any overlap and any crash |
| `login_exit` | 1 client | `ExitNoticed` **violated** | nobody notices that the command has died |

### Findings

- **Lost request** (`gemini_lost`). A handler that found the collector before the execution ended waits
  for the collector's mutex; when it gets it the results are out. Its request is appended to a
  collector nobody executes again and its client waits for ever.
- **Lost mark** (`fleet_lost_update`). `RefreshVMIP` saves every column of a row it read before a
  `gcloud` call. A mark PendingDelete set in between is overwritten with Running and the VM stays.
- **Left behind** (`pool_left_behind`). With fewer new VMs than old proxies, old proxies without a
  partner are disabled and their VMs deleted, while their tokens keep the address.
- **Unnoticed exit** (`login_exit`). After thirty seconds without output DoLogin looks at `ProcessState` to see
  whether the command still runs. Only `Wait` sets it, and nobody has called `Wait` yet: the client
  waits for the whole deadline.

The passing runs show more that a reader should know, as the exceptions in their properties. A property with an
exception says that there is no other way to go wrong; it does not say that the exception is harmless, nor would it notice if
the code made it more frequent.

- **Deleted in name only** (`cmdFailed` in `NoLeak` and `PendingGetsDeleted`). `docs/replace_proxy_resource_v2_api.md` (lines 76 and 92)
  has the cron job *really* delete the marked VMs. `DeleteVM` logs a delete command that fails and marks the row Deleted
  all the same (`vm_service.go` 552-558): the instance runs on and is billed, and no job looks for it again.
- **Once retired** (`Disable`). A replaced proxy is disabled, say `docs/replace_proxy_resource_api.md` (82, 90) and
  comments in the code (`vm_service.go` 1016, `vm_handler.go` 176). The table's key is `(proxy, status)`, and retired rows stay: once an
  address has been retired, came back and is to be retired again, the statement breaks the key and fails with its whole
  batch. All the old proxies stay Active, without a VM, and the replacement goes on; later syncs that want
  to retire one of them fail for the same reason, though `docs/proxy_pool_sync.md` (144) has them do it. In the model a
  failed `Disable` is what it is in the code; no property asks for it to succeed, as none that did would hold.
- **The sync and the type** (`TypeOf` in `SyncSparesRunning`). `docs/proxy_pool_sync.md` (5, 47, 166) has the pool agree with the
  VMs that run. `CreateVM` stores `httpProxyServer` for both spellings of the type, the sync looks for `server`: it retires
  the proxies of all VMs `CreateVM` made, running or not, and adds none. `SyncSparesRunning` holds for rows of the type `server`
  only, which come from elsewhere. Nor does a sync retire what it should: rows that say PendingDelete count as
  Running, as it takes all that are not Deleted (`GetActiveVMs`).
- **Written off alive** (`NoOtherLeak`). One failed `describe` command, or a mark PendingDelete, and a
  registration sets the row of its VM to Deleted. The instance runs on and no job looks for it.
- **Two names** (`LoginRecorded`, `LoggedInThere`). An account whose e-mail has an `_` logs in, is recorded under
  another name, and is told to log in again ever after. That two e-mails never share such a name is an assumption
  (`AccountsAssumption`): the session id is cut at the first `___`, so `a___b@x` and `a___c@y` do.
- **Active, but failed** (`overtaken`). `gcloud config set account` and the login itself run over ssh. Either may take effect
  while ssh reports an error: the account is active on its VM and its row says LoginFailed. The next registration finds it
  so and puts the row right.
- **The wrong VM** (`strayed`). ssh goes to an address read earlier, without a host key. If that VM is gone
  and the address recycled, the account gets into the VM of its next owner.
- **Two VMs** (`OneVmPerAccount`). Two requests for one account each create a VM; the status row and
  the project rows may keep different ones. A registration that fails never deletes the VM it created,
  as the first step in `需求.md` (line 38) asks.
- **Billing, three runs** (`BillingAgrees`): above.
- **Not reaped** (`SessionEnds`). Only `Wait` reaps the login command, and only a client whose key was taken calls it. Of a session
  nobody comes to, the killed ssh stays a zombie and the goroutine of `os/exec` that killed it waits for ever. Both are inside
  `os/exec` and no state of the model. Nor does the model follow a gcloud on the VM that outlives its ssh: it may still sign in
  after the client has heard of an error, and the next `CheckTargetAccount` would find it.
- **The victim that was not** (`VictimsReplaced`, `Strayed`). A VM whose insert failed has no row but has its address in
  the pool. If that address changes and the next replacement's new VM gets it, `GetByProxy` on the old address
  finds the new VM, and deletes it under the tokens that use it. A proof attempt without the assumption that
  addresses do not change brought it out, and TLC the execution.

### Bounds

Requests, VMs and addresses are finite sets of model values. Three requests with a limit of two are
enough for every order of *fills the batch*, *joins late* and *starts the next batch*; a fourth
request repeats one of these roles. In the fleet every property is about one VM at a time and the
goroutines that work on it, so one old and one new VM suffice; the second address is what a refresh
needs. In `pool_safety` two addresses for three VMs force the cloud to reuse each of them; two replacements
in a row are needed for an address to be retired, reused and retired again. The first VM may change its
address, so that its retired one is free when the first replacement creates a VM; a new VM may, so that what `Strayed`
excepts can happen. The operator's handler, which
deletes a VM at any time, is left out there, as it and the changing addresses together make the state space too large;
the theorems have both. Further bounds are in the
guards and named there: an address changes once for each VM (`Readdress`), a caller has one `DeleteVM` of a VM
under way (`HandlerDeletes`), the hourly job waits for its last round (`CleanupPendingDeleteVMs`),
and replacements do not overlap one another (`Quiet`), as
`docs/replace_proxy_resource_api.md` line 104 demands of operators.

A login has three clients because the third key is the one that can find `inputCh` full. What it takes
to overwrite a verdict is two. A login prints a handful of lines, so the capacity of 100 of
`outputCh` is not modelled; how often the command asks is not bounded.

In `registration` a second request is what it takes to overtake the first, and a second account what it
takes to get into somebody's VM. The constraint `Bound` of `MCAccountRegistration` leaves out new VMs of the
replacement (it only marks the old one), failed updates of `DeleteVM` (they are in `fleet_safety`), and states in
which both a second request has begun and the operator has deleted a VM: either one is explored alone with all the rest.
A VM is created once per request at most, and `VMs` has one to spare for it.

In `postlogin` every property is about one project and the runs that work on it, and other projects
can only delay a run or end it early. A second run is what it takes to overtake a row, and `PastRows`
stands for the runs before; what three runs can do beyond that is known from the proofs, which are for any
number. `Target` is 1 for 12, and `FailLimit` 0 for 2: with one project the limit of failed
bindings stops nothing, so its off-by-one (`bindFail > 2` under a comment that says two) is not
exercised. One loop's listing, the inserts of Step 1 and `getBillingProjectsInfo` are one step each,
because what they do to one project does not depend on another.

Symmetry is used over requests, addresses and runs, in safety runs only.

### Fairness

`GeminiBatch!FairSpec`: goroutines that can run do run, timers fire, deadlines pass, and a call to the
upstream ends (its client has a 60 s timeout), hence weak fairness of each goroutine's actions. A Go
mutex hands over to a starved waiter, and requests are finitely many, so weak fairness of the
handlers is enough. Nothing obliges a client to call.

`VmFleet!FairFleetSpec`: the scheduler runs the job hourly (weak fairness of `HourPasses` and of the
job) and its goroutines end. A command or statement may fail any number of times, but not every time: strong
fairness of the steps of `DeleteVM` that query the row and mark it. Without that no retry helps, and no code could promise
deletion.

`LoginSession!FairLoginSpec`: each goroutine goes on if it can, the deadline passes, and it kills the
process (`CommandContext`). No client has to come and the command has to do nothing. `Silence` changes
nothing and has no fairness.

## 4. Proofs

All proofs are checked by `tlapm` down to the leaves, for any sets of requests, VMs, addresses, clients and any
batch size.

**GeminiBatchProofs.** `IInv` is the inductive invariant. The properties alone are not inductive: that a client
gets its own answer rests on the keys of a batch being distinct (`Keys`), which rests on the mutex that orders
appends (`Mutexes`) and on the fact that a handler between lookup and append owns `bm.mu` and its
collector is mapped (`Handlers`). `Triggers` and `Removed` say which goroutines exist and why, from which
`MappedIsPending`, `UnstartedIsScheduled` and `OneSizeTrigger` follow without being part of the
induction. From `IInv` come the two action properties and the refinement of `BatchService`
(`Refinement`): a step is a join, an answer to a group, or a stutter. `NoCircularWait` is about the two levels of
mutexes: who wants `bm.mu` waits for a handler, a handler that has it at most for an execution, and
an execution that has a collector's mutex for none.

**VmFleetProofs.** `FleetInv` adds to the three invariants: what an instance and its row have to do with each
other (`Instances`), that everyone who works on a VM has found its row (`Workers`), and, the heart of
it, `Commanded`: whoever is about to write Deleted, be it `DeleteVM` after its command, `CleanupOldVMs` or a
refresh with an old row in hand, acts on an instance that is gone or whose delete command failed.

**LoginSessionProofs.** `LoginInv`: before the URL is printed no client gets past the check (`NoKeyYet`), so
only answers can be in the queues; a question is in one place at a time, be it a pipe, the output, DoLogin's hand or, as
an answer, the input (`Questions`), so none is left when the command asks for the key. `AnswersFit`
follows. `Verdicts` traces Done back to the client whose `Wait` saw the command succeed (`DoneIsTrue`); a step that takes Done back
needs a second client past the check, hence `DoneStays`. `ServiceInv` adds that `Wait` gives the
command's result to one client only (`Reaped`), and that a key on its way to the command is that of a client still in `Wait` (`KeysWait`); under it every
step of a session is one of `LoginService` or a stutter (`LoginRefinement`). `AloneInv` is about sessions in which no
second client passed the check: then `Status` says where the one client is, nobody sends on or closes
a closed channel, and nobody is stuck in a second `Wait` (`StatusFollows`).

**ProxyReplacementProofs.** `PoolInv` is `FleetInv` with the types, the turns the three procedures take (`Turns`) and
what a sync has in hand (`Synced`: the proxies of rows of its type, and those of all that run and whose deletion has not
failed). Three of the four properties follow from it or from the steps alone. `VictimsReplaced`
needs to know why finding a VM by its proxy finds the right one though addresses come back: of the VMs that ever had an
address only the last can run, and its row is the latest (`HomeInv`). `Owned`, `Replacing` and `Spared`
then follow an old address from the pool through `toReplaceMap` to the VM that is deleted: a token that has
it will be moved, or is an exception, or the address is already that of a new VM. Addresses may change meanwhile: a
VM keeps the proxy of its row when its address moves on, so `HomeInv` speaks of the VMs with rows only, and what it
cannot say of a VM without one is the exception `Strayed` (see the findings). `FleetWithReplacements` has
`NoLeak` and `NoZombie` for the fleet with replacements and syncs in it.

**PostLoginProcessProofs.** `RunsInv`: the types of a context, which rows it has at which stage (`ContextOK`), and that a run
moves billing and token of its copy only forward from what it read (`Advances`). A save that overwrites nothing
is then a compare-and-swap, so rows move only forward as well: `FinalStates` and `RetryNeedsABind`.

**PostLoginRecordsProofs.** On top of that, for projects outside `lost`, `stale` and `again`: `KeyInv`, a key is in
the row, or its run is about to save it and nobody else can have given the row another; `OidInv` and `SaleInv`, the same for ids in
`official_tokens`; `BillingInv`, which is about the order of a command and its save: nobody's copy is
ahead of the row (`CopiesBehind`), a project that was seen linked and no longer is has Detach in its
row or in a save to come (`GoneIsKnown`), and one that is linked has Detach in neither, unless somebody is about to
save a binding that the next save would then contradict (`BackIsPending`).

**AccountRegistrationProofs.** A VM that a registration has given up is, for the fleet, like one whose delete command
failed: with `cmdFailed \cup givenUp` in the place of `cmdFailed` every step of the fleet is still one
(`FleetMoves`), so the lemma `NextFleet` of `VmFleetProofs` is used through `INSTANCE ... WITH` and not proved again.
`RegInv` adds where a request and a post-login run have their VM from (`Knows`, `WorkKnown`), from which
`AccountVmHasRow` follows, and that who is about to write a VM off has given it up or its instance is gone. `NoZombie`,
which does not mention failed commands, holds as it stands (`NoZombieAccounts`).

**AccountVmsProofs.** On top of that, `OwnInv`. `Ownership`: an account *touches* the VMs that its rows, requests and runs
name and those it has got into; no step lets it touch another but `CreateVM`, whose VM nobody has touched. That
is an action property of its own (`VmsKeepTheirAccount`), and it makes `OneOwner` inductive.
`Logins`: what a request has seen of its login is still so. `Turns`: the request or run of an account that is not
`overtaken` is the only one (`Alone`), its VM is that of the status row (`Tracks`), and the rows agree (`RowsAgree`). The
garbled e-mail costs an assumption and no more: two accounts never yield one name, so a row belongs to one account
under whichever name it was saved (`NamesApart`).

The proofs assume what the modules assume of their constants (`BatchIDsAssumption`,
`MaxSizeAssumption`, `NamesAssumption`, `FleetAssumption`, `ProxyAssumption`, `SubmittersAssumption`,
`ProcessConstants`, `PastRowsAssumption`, `AccountsAssumption`): typing, that names do not coincide, that replacements are
among the callers of `DeleteVM`, that no two accounts start with one VM, and that a row left by an earlier run has a key only if its token says so.

**Model-checked only.** Liveness (`AddReturns`, `EarlyRequestAnswered`, `PendingGetsDeleted`, `LoginReturns`,
`KeyGetsVerdict`, `SessionEnds`): it rests on fairness and ENABLED, which are out of the prover's reach. Every safety
property, action property and refinement that a passing run checks is proved, without assumptions beyond those above.

**Proved only.** `DoneIsTrue`, `DoneStays`, `NoCircularWait`, `VmsKeepTheirAccount`, `FleetWithReplacements` and
`NoZombieAccounts` belong to no run: they are consequences of the same invariants, or the properties of one
module carried over to another.

## 5. Not modelled

- The rate limiter: a map from e-mails to times. It spaces the starts of post-login runs by ten minutes, V3
  requests may skip it, and its check and its update are two steps, so it excludes nothing
  `PostLoginProcess` does not allow anyway; a model of it alone would say that a map is a map.
- The race in `BatchCreateVM` between the check that no row has the tag and the creation: two batches of one tag
  give twice the VMs, each under a name of its own (the name ends in the time), and nothing else refers to the tag.
- The counters in the result of a run: they are only shown (`created_projects` counts the projects that
  were to be created, `post_login_process_v2.go` 171).
- `SyncVMsWithGCP` (changes nothing), `ListVMs`, `GetVM` (only read).
- `distributeBatchResponse` (`batch.go` 479-525) and `service/gcloud/project_process.go`: dead code.
- Routes, configuration, logging, scripts: no state that changes after start.

## 6. Plan

Done: `GeminiBatch`, `VmFleet`, `ProxyReplacement`, `LoginSession`, `PostLoginProcess` and `AccountRegistration`, with
proofs of all their safety properties. What is left, in this order:

1. Replacements that overlap, which `Quiet` excludes: two of them may pick the same proxies.
2. More than one project per account in `postlogin`, to exercise the limit of failed bindings.
3. An abstract specification of the life of a VM (wanted, running, marked, gone, or lost track of) that `VmFleet`,
   `ProxyReplacement` and `AccountRegistration` implement, each with its own ways to lose track of one.
