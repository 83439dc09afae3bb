----------------------------- MODULE GeminiBatch -----------------------------
(***************************************************************************)
(* The Gemini batching layer of vmHttpServerProxy (batch.go and            *)
(* handleBatchRequest in main.go).                                         *)
(*                                                                         *)
(* Every HTTP handler goroutine adds its request to the collector mapped   *)
(* for the batch URL, creating one if there is none, and then blocks on    *)
(* its own response channel.  A collector is executed by its timer's       *)
(* callback and by one more goroutine for each request that finds it at or *)
(* above BatchMaxSize.  An execution holds the collector's mutex from the  *)
(* submission of the job to the distribution of its results; only then     *)
(* does its goroutine remove the mapping.                                  *)
(*                                                                         *)
(* handleBatchRequest uses one constant URL, so the map batches has one    *)
(* possible key: it is modelled by the collector mapped for that key.      *)
(* A collector is named by its batchID.                                    *)
(***************************************************************************)
EXTENDS Integers

CONSTANTS
    Requests,      \* handler goroutines, one per HTTP request
    BatchIDs,      \* values batchGlobalID may reach (bounded only for TLC)
    BatchMaxSize,  \* env.go: any non-negative integer
    ZeroTimeout,   \* env.go: whether BatchCollectTimeout is set to 0 seconds
    None           \* nil: no collector, no owner

ASSUME BatchIDsAssumption == BatchIDs \subseteq Nat \ {0}
ASSUME MaxSizeAssumption  == BatchMaxSize \in Nat
ASSUME TimeoutAssumption  == ZeroTimeout \in BOOLEAN
ASSUME NamesAssumption ==
    /\ Requests \cap BatchIDs = {}
    /\ Requests \cap {"missing", "failed", "none"} = {}
    /\ None \notin Requests \cup BatchIDs

(***************************************************************************)
(* The goroutines that execute a collector: task b is the callback of the  *)
(* timer of collector b, task r the goroutine started by the add of        *)
(* request r.                                                              *)
(***************************************************************************)
Task == BatchIDs \cup Requests

(***************************************************************************)
(* What goes through a response channel: "failed" for an error status or   *)
(* Error, "missing" for a 200 whose body says the key was not in the job's *)
(* output, or the upstream's answer, named by the request it answers.      *)
(***************************************************************************)
Result == Requests \cup {"missing", "failed"}

HandlerPc == {"idle", "arrived", "joining", "waiting", "answered"}

Holding == {"submitting", "checking", "querying"}  \* collector.mu is held
TaskPc  == {"none", "armed", "stopped", "ready", "removing", "done"} \cup Holding

VARIABLES
    batchGlobalID,  \* last batchID given out
    mapped,         \* bm.batches[batchKey]: a collector or None
    bmLock,         \* the handler holding bm.mu across steps, or None
    bcLock,         \* per collector, the task holding collector.mu, or None
    size,           \* per collector, len(requests)
    firstHeader,    \* per collector, the request whose header it keeps
    pc,             \* per request, where its handler is
    home,           \* per request, the collector it looked up
    idx,            \* per request, the index in its key req_b_<home>_i_<idx>
    ch,             \* per request, the content of resultChan (capacity 1)
    reply,          \* per request, what its handler received
    task,           \* per task, where its goroutine is
    late            \* tasks whose pollingDeadline has passed

managerVars == <<batchGlobalID, mapped, bmLock>>
batchVars   == <<bcLock, size, firstHeader>>
requestVars == <<pc, home, idx, ch, reply>>
taskVars    == <<task, late>>
vars        == <<managerVars, batchVars, requestVars, taskVars>>

(***************************************************************************)
(* Which collector a task executes, and the requests appended to one.      *)
(***************************************************************************)
BatchOf(t) == IF t \in BatchIDs THEN t ELSE home[t]

Members(b) == {r \in Requests : home[r] = b /\ pc[r] \in {"waiting", "answered"}}

TasksOf(b) == {t \in Task : BatchOf(t) = b /\ task[t] # "none"}

-----------------------------------------------------------------------------
Init ==
    /\ batchGlobalID = 0
    /\ mapped = None
    /\ bmLock = None
    /\ bcLock = [b \in BatchIDs |-> None]
    /\ size = [b \in BatchIDs |-> 0]
    /\ firstHeader = [b \in BatchIDs |-> None]
    /\ pc = [r \in Requests |-> "idle"]
    /\ home = [r \in Requests |-> None]
    /\ idx = [r \in Requests |-> 0]
    /\ ch = [r \in Requests |-> "none"]
    /\ reply = [r \in Requests |-> "none"]
    /\ task = [t \in Task |-> "none"]
    /\ late = {}

(***************************************************************************)
(* handleBatchRequest up to the call of addToBatch: a client's request     *)
(* reaches its handler.                                                    *)
(***************************************************************************)
Arrive(r) ==
    /\ pc[r] = "idle"
    /\ pc' = [pc EXCEPT ![r] = "arrived"]
    /\ UNCHANGED <<managerVars, batchVars, home, idx, ch, reply, taskVars>>

\* Faulty variant for HeaderOfFirst: every request replaces the kept header.
FindCollectorTakingHeader(r) ==
    /\ pc[r] = "arrived"
    /\ bmLock = None
    /\ mapped # None
    /\ bmLock' = r
    /\ firstHeader' = [firstHeader EXCEPT ![mapped] = r]
    /\ home' = [home EXCEPT ![r] = mapped]
    /\ pc' = [pc EXCEPT ![r] = "joining"]
    /\ UNCHANGED <<batchGlobalID, mapped, bcLock, size, idx, ch, reply, taskVars>>

(***************************************************************************)
(* addToBatch, first part: take bm.mu, then use the mapped collector ...   *)
(***************************************************************************)
FindCollector(r) ==
    /\ pc[r] = "arrived"
    /\ bmLock = None
    /\ mapped # None
    /\ bmLock' = r
    /\ home' = [home EXCEPT ![r] = mapped]
    /\ pc' = [pc EXCEPT ![r] = "joining"]
    /\ UNCHANGED <<batchGlobalID, mapped, batchVars, idx, ch, reply, taskVars>>

(***************************************************************************)
(* ... or make one: a new batchID, the request's header kept, the mapping  *)
(* set and the timer armed.                                                *)
(***************************************************************************)
CreateCollector(r) ==
    LET b == batchGlobalID + 1
    IN  /\ pc[r] = "arrived"
        /\ bmLock = None
        /\ mapped = None
        /\ b \in BatchIDs
        /\ bmLock' = r
        /\ batchGlobalID' = b
        /\ mapped' = b
        /\ firstHeader' = [firstHeader EXCEPT ![b] = r]
        /\ task' = [task EXCEPT ![b] = "armed"]
        /\ home' = [home EXCEPT ![r] = b]
        /\ pc' = [pc EXCEPT ![r] = "joining"]
        /\ UNCHANGED <<bcLock, size, idx, ch, reply, late>>

(***************************************************************************)
(* addToBatch, second part: with bm.mu still held, wait for collector.mu   *)
(* and append.  Both mutexes are released on return and the handler blocks *)
(* on resultChan.  i is the index in the request's key; if due, the timer  *)
(* is stopped (without looking whether it had already fired) and an        *)
(* executing goroutine started.                                            *)
(***************************************************************************)
AppendRequest(r, i, stop, start) ==
    LET b == home[r]
    IN  /\ pc[r] = "joining"
        /\ bmLock = r
        /\ bcLock[b] = None
        /\ idx' = [idx EXCEPT ![r] = i]
        /\ size' = [size EXCEPT ![b] = @ + 1]
        /\ task' = [task EXCEPT ![b] = IF @ = "armed" /\ stop THEN "stopped" ELSE @,
                                ![r] = IF start THEN "ready" ELSE @]
        /\ bmLock' = None
        /\ pc' = [pc EXCEPT ![r] = "waiting"]
        /\ UNCHANGED <<batchGlobalID, mapped, bcLock, firstHeader,
                       home, ch, reply, late>>

\* Faulty variant for TypeOK: the index is one too small.
EnqueueIndexTooSmall(r) ==
    LET n == size[home[r]]
    IN  AppendRequest(r, n - 1, n + 1 >= BatchMaxSize, n + 1 >= BatchMaxSize)

\* Faulty variant for OwnAnswer: the index wraps at the batch's capacity.
EnqueueIndexWraps(r) ==
    LET n == size[home[r]]
    IN  AppendRequest(r, IF n = BatchMaxSize THEN 0 ELSE n,
                      n + 1 >= BatchMaxSize, n + 1 >= BatchMaxSize)

\* Faulty variant for MappedIsPending: the timer stops one request too early.
EnqueueStopsEarly(r) ==
    LET n == size[home[r]]
    IN  AppendRequest(r, n, n + 2 >= BatchMaxSize, n + 1 >= BatchMaxSize)

\* Faulty variant for OneSizeTrigger: the batch is started one request early.
EnqueueStartsEarly(r) ==
    LET n == size[home[r]]
    IN  AppendRequest(r, n, n + 2 >= BatchMaxSize, n + 2 >= BatchMaxSize)

Enqueue(r) ==
    LET n == size[home[r]]
    IN  AppendRequest(r, n, n + 1 >= BatchMaxSize, n + 1 >= BatchMaxSize)

(***************************************************************************)
(* result := <-resultChan                                                  *)
(***************************************************************************)
ReceiveResult(r) ==
    /\ pc[r] = "waiting"
    /\ ch[r] # "none"
    /\ reply' = [reply EXCEPT ![r] = ch[r]]
    /\ ch' = [ch EXCEPT ![r] = "none"]
    /\ pc' = [pc EXCEPT ![r] = "answered"]
    /\ UNCHANGED <<managerVars, batchVars, home, idx, taskVars>>

-----------------------------------------------------------------------------
(***************************************************************************)
(* time.AfterFunc: BatchCollectTimeout elapses on a timer nobody stopped.  *)
(* With a timeout of 0 seconds this may precede even the creator's append, *)
(* which otherwise nothing delays.                                         *)
(***************************************************************************)
TimerFires(b) ==
    /\ task[b] = "armed"
    /\ ZeroTimeout \/ size[b] > 0
    /\ task' = [task EXCEPT ![b] = "ready"]
    /\ UNCHANGED <<managerVars, batchVars, requestVars, late>>

\* Faulty variant for AddReturns: the early return keeps the mutex locked.
BeginExecutionNoUnlock(t) ==
    LET b == BatchOf(t)
    IN  /\ task[t] = "ready"
        /\ bcLock[b] = None
        /\ task' = [task EXCEPT ![t] = IF size[b] = 0 THEN "removing"
                                                     ELSE "submitting"]
        /\ bcLock' = [bcLock EXCEPT ![b] = t]
        /\ UNCHANGED <<managerVars, size, firstHeader, requestVars, late>>

(***************************************************************************)
(* executeBatch takes collector.mu, and returns at once when the collector *)
(* is empty.                                                               *)
(***************************************************************************)
BeginExecution(t) ==
    LET b == BatchOf(t)
    IN  /\ task[t] = "ready"
        /\ bcLock[b] = None
        /\ IF size[b] = 0
           THEN /\ task' = [task EXCEPT ![t] = "removing"]
                /\ UNCHANGED bcLock
           ELSE /\ task' = [task EXCEPT ![t] = "submitting"]
                /\ bcLock' = [bcLock EXCEPT ![b] = t]
        /\ UNCHANGED <<managerVars, size, firstHeader, requestVars, late>>

(***************************************************************************)
(* The end of an execution: res is offered to the response channels of the *)
(* requests in S, and the deferred unlock follows.  Nothing removes the    *)
(* requests from the collector.                                            *)
(***************************************************************************)
Offer(t, res, S) ==
    /\ ch' = [r \in Requests |-> IF r \in S THEN res[r] ELSE ch[r]]
    /\ bcLock' = [bcLock EXCEPT ![BatchOf(t)] = None]
    /\ task' = [task EXCEPT ![t] = "removing"]
    /\ late' = late \ {t}
    /\ UNCHANGED <<managerVars, size, firstHeader, pc, home, idx, reply>>

\* Faulty variant for ExecutionAnswersAll: only the first BatchMaxSize requests.
DistributeUpToLimit(t, res) ==
    Offer(t, res, {r \in Members(BatchOf(t)) : idx[r] < BatchMaxSize /\ ch[r] = "none"})

\* Faulty variant for ImplementsService: a later execution replaces an answer.
DistributeReplacing(t, res) == Offer(t, res, Members(BatchOf(t)))

\* A full channel drops what it is offered (select with a default).
Distribute(t, res) == Offer(t, res, {r \in Members(BatchOf(t)) : ch[r] = "none"})

(***************************************************************************)
(* sendErrorToAll and sendErrorStatusToAll.                                *)
(***************************************************************************)
SendErrorToAll(t) == Distribute(t, [r \in Requests |-> "failed"])

(***************************************************************************)
(* extractAndDistributeResults on a well-formed output: the job answers    *)
(* under a key with the answer to a request submitted under that key; keys *)
(* it leaves out get the "Response not found" body.                        *)
(***************************************************************************)
Answers(r) == {q \in Members(home[r]) : idx[q] = idx[r]} \cup {"missing"}

ExtractAndDistributeResults(t) ==
    \E res \in [Requests -> Result] :
        /\ \A r \in Requests :
               IF r \in Members(BatchOf(t)) THEN res[r] \in Answers(r)
                                            ELSE res[r] = "missing"
        /\ Distribute(t, res)

(***************************************************************************)
(* The submission: marshalling, the POST, its status, and the job name may *)
(* each fail; otherwise polling starts.                                    *)
(***************************************************************************)
SubmitFails(t) ==
    /\ task[t] = "submitting"
    /\ SendErrorToAll(t)

SubmitSucceeds(t) ==
    /\ task[t] = "submitting"
    /\ task' = [task EXCEPT ![t] = "checking"]
    /\ UNCHANGED <<managerVars, batchVars, requestVars, late>>

(***************************************************************************)
(* The polling loop: the deadline is looked at before every query only.    *)
(***************************************************************************)
DeadlinePasses(t) ==
    /\ task[t] \in {"checking", "querying"}
    /\ t \notin late
    /\ late' = late \cup {t}
    /\ UNCHANGED <<managerVars, batchVars, requestVars, task>>

PollTimesOut(t) ==
    /\ task[t] = "checking"
    /\ t \in late
    /\ SendErrorToAll(t)

\* Faulty variant for EarlyRequestAnswered: the deadline is not looked at.
PollGoesOnLate(t) ==
    /\ task[t] = "checking"
    /\ task' = [task EXCEPT ![t] = "querying"]
    /\ UNCHANGED <<managerVars, batchVars, requestVars, late>>

PollGoesOn(t) ==
    /\ task[t] = "checking"
    /\ t \notin late
    /\ task' = [task EXCEPT ![t] = "querying"]
    /\ UNCHANGED <<managerVars, batchVars, requestVars, late>>

(***************************************************************************)
(* A query that fails or finds the job unfinished goes round the loop; a   *)
(* failed or cancelled job, or a malformed output, is an error for all.    *)
(***************************************************************************)
QueryUndecided(t) ==
    /\ task[t] = "querying"
    /\ task' = [task EXCEPT ![t] = "checking"]
    /\ UNCHANGED <<managerVars, batchVars, requestVars, late>>

QueryFails(t) ==
    /\ task[t] = "querying"
    /\ SendErrorToAll(t)

QuerySucceeds(t) ==
    /\ task[t] = "querying"
    /\ ExtractAndDistributeResults(t)

\* Faulty variant for JoinsMapped: the mapping is deleted without bm.mu.
RemoveBatchUnlocked(t) ==
    /\ task[t] = "removing"
    /\ mapped' = None
    /\ task' = [task EXCEPT ![t] = "done"]
    /\ UNCHANGED <<batchGlobalID, bmLock, batchVars, requestVars, late>>

\* Faulty variant for UnstartedIsScheduled: the timer of the collector that is
\* taken out of the map is stopped too.
RemoveBatchStoppingTimer(t) ==
    /\ task[t] = "removing"
    /\ bmLock = None
    /\ mapped' = None
    /\ task' = [u \in Task |-> IF u = t THEN "done"
                              ELSE IF u = mapped /\ task[u] = "armed" THEN "stopped"
                              ELSE task[u]]
    /\ UNCHANGED <<batchGlobalID, bmLock, batchVars, requestVars, late>>

(***************************************************************************)
(* removeBatch: under bm.mu, delete by key whatever collector is mapped.   *)
(***************************************************************************)
RemoveBatch(t) ==
    /\ task[t] = "removing"
    /\ bmLock = None
    /\ mapped' = None
    /\ task' = [task EXCEPT ![t] = "done"]
    /\ UNCHANGED <<batchGlobalID, bmLock, batchVars, requestVars, late>>

-----------------------------------------------------------------------------
AddToBatch(r) == FindCollector(r) \/ CreateCollector(r) \/ Enqueue(r)

Poll(t) ==
    \/ PollTimesOut(t) \/ PollGoesOn(t)
    \/ QueryUndecided(t) \/ QueryFails(t) \/ QuerySucceeds(t)

ExecuteBatch(t) ==
    BeginExecution(t) \/ SubmitFails(t) \/ SubmitSucceeds(t) \/ Poll(t)

(***************************************************************************)
(* The server does not stop: it may have nothing left to do once every     *)
(* task is done, even if handlers still wait.                              *)
(***************************************************************************)
Quiet ==
    /\ \A t \in Task : task[t] \in {"none", "stopped", "done"}
    /\ \A r \in Requests : \/ pc[r] = "answered"
                           \/ pc[r] = "waiting" /\ ch[r] = "none"
    /\ UNCHANGED vars

Next ==
    \/ \E r \in Requests : Arrive(r) \/ AddToBatch(r) \/ ReceiveResult(r)
    \/ \E b \in BatchIDs : TimerFires(b)
    \/ \E t \in Task : ExecuteBatch(t) \/ DeadlinePasses(t) \/ RemoveBatch(t)
    \/ Quiet

Spec == Init /\ [][Next]_vars

(***************************************************************************)
(* Goroutines run, timers fire, deadlines pass, the HTTP client's 60s      *)
(* timeout ends every call.  A sync.Mutex is handed over to a waiter it    *)
(* has starved; with finitely many requests every mutex is in the end      *)
(* continuously free for its last waiters, so weak fairness is enough.     *)
(* No client is obliged to send a request.                                 *)
(***************************************************************************)
FairSpec ==
    /\ Spec
    /\ \A r \in Requests : WF_vars(AddToBatch(r)) /\ WF_vars(ReceiveResult(r))
    /\ \A b \in BatchIDs : WF_vars(TimerFires(b))
    /\ \A t \in Task : /\ WF_vars(ExecuteBatch(t))
                       /\ WF_vars(DeadlinePasses(t))
                       /\ WF_vars(RemoveBatch(t))
-----------------------------------------------------------------------------
(***************************************************************************)
(* Properties.                                                             *)
(***************************************************************************)

(***************************************************************************)
(* Every variable has its type.                                            *)
(***************************************************************************)
TypeOK ==
    /\ batchGlobalID \in Nat
    /\ mapped \in BatchIDs \cup {None}
    /\ bmLock \in Requests \cup {None}
    /\ bcLock \in [BatchIDs -> Task \cup {None}]
    /\ size \in [BatchIDs -> Nat]
    /\ firstHeader \in [BatchIDs -> Requests \cup {None}]
    /\ pc \in [Requests -> HandlerPc]
    /\ home \in [Requests -> BatchIDs \cup {None}]
    /\ idx \in [Requests -> Nat]
    /\ ch \in [Requests -> Result \cup {"none"}]
    /\ reply \in [Requests -> Result \cup {"none"}]
    /\ task \in [Task -> TaskPc]
    /\ late \subseteq Task

(***************************************************************************)
(* The mapped collector always has a goroutine or an armed timer that has  *)
(* not yet passed removeBatch: no sequence of adds, timer callbacks and    *)
(* removals (which delete by key, perhaps another collector's mapping, and *)
(* which stop a timer without looking whether it fired) leaves in the map  *)
(* a collector nobody will remove.                                         *)
(***************************************************************************)
Pending(t) == task[t] \in {"armed", "ready", "removing"} \cup Holding

MappedIsPending == mapped # None => \E t \in TasksOf(mapped) : Pending(t)

(***************************************************************************)
(* A collector that no goroutine has begun to execute will be executed,    *)
(* even when another collector's removeBatch has already taken it out of   *)
(* the map: its timer is armed or an executing goroutine is ready.         *)
(***************************************************************************)
Started(b) == \E t \in TasksOf(b) : task[t] \in {"removing", "done"} \cup Holding

UnstartedIsScheduled ==
    \A b \in BatchIDs : b <= batchGlobalID /\ ~Started(b) =>
        \E t \in TasksOf(b) : task[t] \in {"armed", "ready"}

(***************************************************************************)
(* A client gets the answer to its own request or an error, never the      *)
(* answer to another request of the batch, and so for what waits in its    *)
(* channel: the keys req_b_<batchID>_i_<idx> of a collector are distinct   *)
(* whatever the order in which handlers and executions take its mutex.     *)
(***************************************************************************)
OwnAnswer ==
    \A r \in Requests : /\ ch[r] \in {r, "missing", "failed", "none"}
                        /\ reply[r] \in {r, "missing", "failed", "none"}

(***************************************************************************)
(* The header kept for the whole batch, with its credentials, is that of   *)
(* the request at index 0: nobody appends between the creation of the      *)
(* collector and its creator's append.                                     *)
(***************************************************************************)
HeaderOfFirst ==
    \A b \in BatchIDs : \A r \in Members(b) : idx[r] = 0 => firstHeader[b] = r

(***************************************************************************)
(* A collector that was not overfilled has at most one goroutine started   *)
(* by its size: its requests go upstream a second time only when the timer *)
(* had fired before the append that reached the limit stopped it.          *)
(***************************************************************************)
OneSizeTrigger ==
    \A b \in BatchIDs : size[b] <= BatchMaxSize =>
        \A q, r \in TasksOf(b) \cap Requests : q = r

(***************************************************************************)
(* No request joins a collector that removeBatch has taken out of the map: *)
(* the handler keeps bm.mu from the lookup to the append.                  *)
(***************************************************************************)
JoinsMapped ==
    [][\A b \in BatchIDs : size'[b] > size[b] => mapped = b]_vars

(***************************************************************************)
(* When an execution ends, every request in the collector has its answer,  *)
(* in its channel or already delivered: none was added between the         *)
(* submission and the distribution.                                        *)
(***************************************************************************)
HasAnswer(r) == ch[r] # "none" \/ pc[r] = "answered"

ExecutionAnswersAll ==
    [][\A b \in BatchIDs : bcLock[b] # None /\ bcLock'[b] = None =>
           \A r \in Members(b) : HasAnswer(r)']_vars

(***************************************************************************)
(* A handler that has called addToBatch is never blocked on a mutex for    *)
(* ever, though it waits for collector.mu, and makes all other handlers    *)
(* wait for bm.mu, while a whole execution polls.                          *)
(***************************************************************************)
AddReturns == \A r \in Requests : pc[r] = "arrived" ~> pc[r] = "answered" \/ pc[r] = "waiting"

(***************************************************************************)
(* A request that joined a collector before its first execution began is   *)
(* answered.                                                               *)
(***************************************************************************)
JoinedUnstarted(r) == pc[r] = "waiting" /\ ~Started(home[r])

EarlyRequestAnswered ==
    \A r \in Requests : JoinedUnstarted(r) ~> pc[r] = "answered"

(***************************************************************************)
(* README.md, "extract the results and distribute them by key to each of   *)
(* the original requests": every request collected is answered.            *)
(***************************************************************************)
EveryRequestAnswered ==
    \A r \in Requests : pc[r] = "waiting" ~> pc[r] = "answered"

(***************************************************************************)
(* The batching layer implements BatchService: a request has joined when   *)
(* it is appended, and is answered when its channel is first filled.       *)
(***************************************************************************)
Verdict(r, x) == IF x = r THEN "own" ELSE x

JoinedGroup ==
    [r \in Requests |-> IF pc[r] \in {"waiting", "answered"} THEN home[r] ELSE None]

GivenAnswer ==
    [r \in Requests |-> Verdict(r, IF pc[r] = "answered" THEN reply[r] ELSE ch[r])]

Service == INSTANCE BatchService WITH group <- JoinedGroup, answer <- GivenAnswer

(***************************************************************************)
(* Refinement: each step of the goroutines is a step of the service, or a  *)
(* stutter of it.                                                          *)
(***************************************************************************)
ImplementsService == Service!SSpec
=============================================================================
