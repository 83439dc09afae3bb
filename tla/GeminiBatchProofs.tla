-------------------------- MODULE GeminiBatchProofs --------------------------
(***************************************************************************)
(* What holds of the batching layer for any number of requests and any     *)
(* BatchMaxSize.                                                           *)
(***************************************************************************)
EXTENDS GeminiBatch, TLAPS

(***************************************************************************)
(* The inductive invariant.                                                *)
(***************************************************************************)

\* A batchID not yet given out has left no trace; one given out has a timer.
Numbering ==
    /\ mapped # None => mapped <= batchGlobalID
    /\ \A b \in BatchIDs :
           IF b <= batchGlobalID
           THEN task[b] # "none"
           ELSE task[b] = "none" /\ size[b] = 0 /\ \A r \in Requests : home[r] # b

\* A handler between lookup and append holds bm.mu, and its collector is mapped.
Handlers ==
    /\ bmLock # None => pc[bmLock] = "joining"
    /\ \A r \in Requests :
           /\ pc[r] \in {"idle", "arrived"} => home[r] = None
           /\ pc[r] = "joining" => bmLock = r /\ mapped = home[r] /\ mapped # None
           /\ pc[r] \in {"waiting", "answered"} => home[r] \in BatchIDs
           /\ pc[r] = "answered" => reply[r] # "none"
           /\ pc[r] \in {"idle", "arrived", "joining"} =>
                  task[r] = "none" /\ ch[r] = "none"

\* The indices of a collector's requests are distinct and below its size.
Keys ==
    \A b \in BatchIDs : \A q \in Members(b) :
        /\ idx[q] < size[b]
        /\ \A r \in Members(b) : idx[q] = idx[r] => q = r

\* Exactly the executing tasks hold the mutex of their collector.
Mutexes ==
    \A t \in Task :
        /\ task[t] \in Holding => BatchOf(t) \in BatchIDs /\ bcLock[BatchOf(t)] = t
        /\ \A b \in BatchIDs : bcLock[b] = t => task[t] \in Holding /\ BatchOf(t) = b

\* A request's goroutine exists when the request reached the limit; a stopped
\* timer has left at least one such goroutine.
Triggers ==
    /\ \A r \in Requests : task[r] # "none" => /\ task[r] \notin {"armed", "stopped"}
                                               /\ idx[r] + 1 >= BatchMaxSize
    /\ \A b \in BatchIDs : task[b] = "stopped" =>
           \E r \in Requests : home[r] = b /\ task[r] # "none"

\* A finished task has taken its collector out of the map for good.
Removed == \A t \in Task : task[t] = "done" => BatchOf(t) # mapped

\* A collector still empty is about to be filled by the one who made it.
Creators ==
    \A b \in BatchIDs : b <= batchGlobalID /\ size[b] = 0 =>
        firstHeader[b] \in Requests /\ home[firstHeader[b]] = b /\ pc[firstHeader[b]] = "joining"

IInv ==
    /\ TypeOK /\ Numbering /\ Handlers /\ Keys /\ Mutexes /\ Triggers /\ Removed
    /\ Creators /\ OwnAnswer /\ HeaderOfFirst

-----------------------------------------------------------------------------
(***************************************************************************)
(* Facts about tasks and members used below.                               *)
(***************************************************************************)

\* A task that exists executes a collector that exists.
LEMMA TaskBatch ==
    ASSUME IInv, NEW t \in Task, task[t] # "none"
    PROVE  BatchOf(t) \in BatchIDs /\ BatchOf(t) <= batchGlobalID
BY BatchIDsAssumption, NamesAssumption
   DEF IInv, TypeOK, Numbering, Handlers, HandlerPc, BatchOf, Task

\* Two requests with the same key are the same request: the answers a job has
\* for the key of r are its own answer or none.
LEMMA AnswersAreOwn ==
    ASSUME IInv, NEW b \in BatchIDs, NEW r \in Members(b)
    PROVE  Answers(r) \subseteq {r, "missing"}
BY DEF IInv, Keys, Answers, Members

\* The invariant holds initially.
LEMMA InitIInv == Init => IInv
<1> SUFFICES ASSUME Init PROVE IInv
  OBVIOUS
<1> USE BatchIDsAssumption, NamesAssumption DEF Init, Task
<1>1. TypeOK
  BY DEF TypeOK, HandlerPc, TaskPc, Result
<1>2. Numbering /\ Handlers
  BY DEF Numbering, Handlers
<1>3. Keys /\ HeaderOfFirst
  BY DEF Keys, HeaderOfFirst, Members
<1>4. Mutexes /\ Triggers /\ Removed
  BY DEF Mutexes, Triggers, Removed, Holding
<1>5. Creators /\ OwnAnswer
  BY DEF Creators, OwnAnswer
<1> QED
  BY <1>1, <1>2, <1>3, <1>4, <1>5 DEF IInv

(***************************************************************************)
(* Every action preserves the invariant.                                   *)
(***************************************************************************)

\* Arrive moves a handler that has no collector yet.
LEMMA ArriveStep ==
    ASSUME IInv,
           NEW r \in Requests, Arrive(r)
    PROVE  IInv'
<1> USE BatchIDsAssumption, NamesAssumption DEF IInv, TypeOK, Task
<1>1. TypeOK'
  BY DEF TypeOK, HandlerPc, Arrive, managerVars, batchVars, taskVars
<1>2. Handlers'
  BY DEF Handlers, Arrive, managerVars, batchVars, taskVars
<1>3. (Keys /\ HeaderOfFirst)'
  BY DEF Keys, Members, HeaderOfFirst, Arrive, managerVars, batchVars,
     taskVars
<1>4. Creators'
  BY DEF Creators, Arrive, managerVars, batchVars, taskVars
<1>5. (Numbering /\ Mutexes /\ Triggers /\ Removed /\ OwnAnswer)'
  BY DEF Numbering, Mutexes, BatchOf, Triggers, Removed, OwnAnswer, Arrive,
     managerVars, batchVars, taskVars
<1> QED
  BY <1>1, <1>2, <1>3, <1>4, <1>5 DEF IInv

\* FindCollector takes bm.mu and notes the mapped collector.
LEMMA FindStep ==
    ASSUME IInv,
           NEW r \in Requests, FindCollector(r)
    PROVE  IInv'
<1> USE BatchIDsAssumption, NamesAssumption DEF IInv, TypeOK, Task
<1>1. TypeOK'
  BY DEF TypeOK, HandlerPc, FindCollector, batchVars, taskVars
<1>2. Numbering'
  BY DEF Numbering, FindCollector, batchVars, taskVars
<1>3. Handlers'
  BY DEF Handlers, FindCollector, batchVars, taskVars
<1>4. (Keys /\ HeaderOfFirst)'
  BY DEF Keys, Members, HeaderOfFirst, FindCollector, batchVars, taskVars
<1>5. Mutexes'
  BY DEF Mutexes, BatchOf, Holding, Handlers, FindCollector, batchVars,
     taskVars
<1>6. Triggers'
  BY DEF Triggers, Handlers, FindCollector, batchVars, taskVars
<1>7. Removed'
  BY DEF Removed, BatchOf, Handlers, FindCollector, batchVars, taskVars
<1>8. Creators'
  BY DEF Creators, Handlers, FindCollector, batchVars, taskVars
<1>9. (OwnAnswer)'
  BY DEF OwnAnswer, FindCollector, batchVars, taskVars
<1> QED
  BY <1>1, <1>2, <1>3, <1>4, <1>5, <1>6, <1>7, <1>8, <1>9 DEF IInv

\* CreateCollector gives out a batchID that has left no trace.
LEMMA CreateStep ==
    ASSUME IInv,
           NEW r \in Requests, CreateCollector(r)
    PROVE  IInv'
<1> USE BatchIDsAssumption, NamesAssumption DEF IInv, TypeOK, Task
<1>1. TypeOK'
  BY DEF TypeOK, HandlerPc, TaskPc, CreateCollector
<1>2. Numbering'
  BY DEF Numbering, CreateCollector
<1>3. Handlers'
  BY DEF Handlers, Numbering, CreateCollector
<1>4. (Keys /\ HeaderOfFirst)'
  BY DEF Keys, Members, HeaderOfFirst, Numbering, CreateCollector
<1>5. Mutexes'
  BY DEF Mutexes, BatchOf, Holding, Handlers, Numbering, CreateCollector
<1>6. Triggers'
  BY DEF Triggers, Handlers, Numbering, CreateCollector
<1>7. Removed'
  BY DEF Removed, BatchOf, Handlers, Numbering, HandlerPc, CreateCollector
<1>8. Creators'
  BY DEF Creators, Handlers, Numbering, CreateCollector
<1>9. (OwnAnswer)'
  BY DEF OwnAnswer, CreateCollector
<1> QED
  BY <1>1, <1>2, <1>3, <1>4, <1>5, <1>6, <1>7, <1>8, <1>9 DEF IInv

\* Enqueue appends to the mapped collector with a new index.
LEMMA EnqueueStep ==
    ASSUME IInv,
           NEW r \in Requests, Enqueue(r)
    PROVE  IInv'
<1> USE BatchIDsAssumption, NamesAssumption DEF IInv, TypeOK, Task
<1> DEFINE b == home[r]
           full == size[b] + 1 >= BatchMaxSize
<1>a. /\ b \in BatchIDs /\ b <= batchGlobalID /\ b = mapped
      /\ pc[r] = "joining" /\ task[r] = "none" /\ size[b] \in Nat /\ bcLock[b] = None
  BY DEF Handlers, Numbering, Enqueue, AppendRequest
<1>b. /\ task' \in [Task -> TaskPc]
      /\ task'[r] = IF full THEN "ready" ELSE "none"
      /\ task'[b] = IF task[b] = "armed" /\ full THEN "stopped" ELSE task[b]
      /\ \A t \in Task \ {r, b} : task'[t] = task[t]
  BY <1>a DEF TaskPc, Enqueue, AppendRequest
<1>c. /\ idx' = [idx EXCEPT ![r] = size[b]] /\ size' = [size EXCEPT ![b] = @ + 1]
      /\ pc' = [pc EXCEPT ![r] = "waiting"] /\ bmLock' = None
      /\ UNCHANGED <<batchGlobalID, mapped, bcLock, firstHeader, home, ch, reply, late>>
  BY DEF Enqueue, AppendRequest
<1> HIDE DEF b, full
<1>1. TypeOK'
  <2>1. idx' \in [Requests -> Nat] /\ size' \in [BatchIDs -> Nat]
    BY <1>a, <1>c
  <2>2. pc' \in [Requests -> HandlerPc]
    BY <1>c DEF HandlerPc
  <2> QED
    BY <1>b, <1>c, <2>1, <2>2
<1>2. Numbering'
  BY <1>a, <1>b, <1>c DEF Numbering
<1>3. Handlers'
  <2>1. \A q \in Requests \ {r} : pc[q] # "joining" /\ pc'[q] = pc[q] /\ task'[q] = task[q]
    BY <1>a, <1>b, <1>c DEF Handlers
  <2>2. pc'[r] = "waiting" /\ home'[r] \in BatchIDs
    BY <1>a, <1>c DEF b
  <2> QED
    BY <1>c, <2>1, <2>2 DEF Handlers
<1>4. Members(b)' = Members(b) \cup {r} /\ \A c \in BatchIDs \ {b} : Members(c)' = Members(c)
  BY <1>a, <1>c DEF Members, b
<1>5. r \notin Members(b)
  BY <1>a DEF Members
<1>6. Keys'
  BY <1>a, <1>c, <1>4, <1>5 DEF Keys, Members
<1>7. Mutexes'
  BY <1>a, <1>b, <1>c DEF Mutexes, BatchOf, Holding
<1>8. Triggers'
  <2>1. ASSUME NEW q \in Requests, task'[q] # "none"
        PROVE  task'[q] \notin {"armed", "stopped"}
    BY <1>a, <1>b, <2>1 DEF Triggers
  <2>2. ASSUME NEW q \in Requests, task'[q] # "none"
        PROVE  idx'[q] + 1 >= BatchMaxSize
    BY <1>a, <1>b, <1>c, <2>2 DEF Triggers, full
  <2>3. ASSUME NEW c \in BatchIDs, task'[c] = "stopped"
        PROVE  \E q \in Requests : home'[q] = c /\ task'[q] # "none"
    <3>1. CASE task[c] = "stopped"
      BY <1>a, <1>b, <1>c, <3>1 DEF Triggers
    <3>2. CASE task[c] # "stopped"
      BY <1>a, <1>b, <1>c, <2>3, <3>2 DEF b
    <3> QED
      BY <3>1, <3>2
  <2> QED
    BY <2>1, <2>2, <2>3 DEF Triggers
<1>9. Removed'
  BY <1>a, <1>b, <1>c DEF Removed, BatchOf
<1>10. Creators'
  BY <1>a, <1>c DEF Creators, Handlers, b
<1>11. HeaderOfFirst'
  <2>1. size[b] = 0 => firstHeader[b] = r
    BY <1>a DEF Creators, Handlers
  <2>2. /\ idx'[r] = size[b] /\ \A q \in Requests \ {r} : idx'[q] = idx[q]
        /\ firstHeader' = firstHeader
    BY <1>c
  <2>3. \A c \in BatchIDs : \A q \in Members(c)' : q # r => q \in Members(c)
    BY <1>c DEF Members
  <2>4. \A c \in BatchIDs : r \in Members(c)' => c = b
    BY <1>c DEF Members, b
  <2>5. \A c \in BatchIDs : Members(c)' \subseteq Requests
    BY DEF Members
  <2> QED
    BY <2>1, <2>2, <2>3, <2>4, <2>5 DEF HeaderOfFirst
<1>12. OwnAnswer'
  BY <1>c DEF OwnAnswer
<1> QED
  BY <1>1, <1>2, <1>3, <1>6, <1>7, <1>8, <1>9, <1>10, <1>11, <1>12 DEF IInv

\* ReceiveResult empties the channel into the reply.
LEMMA ReceiveStep ==
    ASSUME IInv,
           NEW r \in Requests, ReceiveResult(r)
    PROVE  IInv'
<1> USE BatchIDsAssumption, NamesAssumption DEF IInv, TypeOK, Task
<1>1. TypeOK'
  BY DEF TypeOK, HandlerPc, ReceiveResult, managerVars, batchVars, taskVars
<1>2. Handlers'
  BY DEF Handlers, ReceiveResult, managerVars, batchVars, taskVars
<1>3. (Keys /\ HeaderOfFirst)'
  BY DEF Keys, Members, HeaderOfFirst, ReceiveResult, managerVars, batchVars,
     taskVars
<1>4. OwnAnswer'
  BY DEF OwnAnswer, ReceiveResult, managerVars, batchVars, taskVars
<1>5. Creators'
  BY DEF Creators, ReceiveResult, managerVars, batchVars, taskVars
<1>6. (Numbering /\ Mutexes /\ Triggers /\ Removed)'
  BY DEF Numbering, Mutexes, BatchOf, Triggers, Removed, ReceiveResult,
     managerVars, batchVars, taskVars
<1> QED
  BY <1>1, <1>2, <1>3, <1>4, <1>5, <1>6 DEF IInv

\* TimerFires makes the timer's callback ready.
LEMMA TimerStep ==
    ASSUME IInv,
           NEW b \in BatchIDs, TimerFires(b)
    PROVE  IInv'
<1> USE BatchIDsAssumption, NamesAssumption DEF IInv, TypeOK, Task
<1>1. TypeOK'
  BY DEF TypeOK, TaskPc, TimerFires, managerVars, batchVars, requestVars
<1>2. (Numbering /\ Handlers)'
  BY DEF Numbering, Handlers, TimerFires, managerVars, batchVars, requestVars
<1>3. Mutexes'
  BY DEF Mutexes, BatchOf, Holding, TimerFires, managerVars, batchVars,
     requestVars
<1>4. (Triggers /\ Removed)'
  BY DEF Triggers, Removed, BatchOf, TimerFires, managerVars, batchVars,
     requestVars
<1>5. (Keys /\ Creators /\ OwnAnswer /\ HeaderOfFirst)'
  BY DEF Keys, Members, Creators, OwnAnswer, HeaderOfFirst, TimerFires,
     managerVars, batchVars, requestVars
<1> QED
  BY <1>1, <1>2, <1>3, <1>4, <1>5 DEF IInv

\* BeginExecution locks the collector, or passes over an empty one.
LEMMA BeginStep ==
    ASSUME IInv,
           NEW t \in Task, BeginExecution(t)
    PROVE  IInv'
<1> USE BatchIDsAssumption, NamesAssumption DEF IInv, TypeOK, Task
<1>a. BatchOf(t) \in BatchIDs /\ UNCHANGED <<managerVars, size, firstHeader, requestVars, late>>
  BY TaskBatch DEF BeginExecution
<1>b. /\ task' \in [Task -> TaskPc] /\ bcLock' \in [BatchIDs -> Task \cup {None}]
      /\ task[t] = "ready" /\ task'[t] \in {"removing", "submitting"}
      /\ \A u \in Task \ {t} : task'[u] = task[u]
  BY <1>a DEF BeginExecution, TaskPc, Holding
<1>1. TypeOK'
  BY <1>a, <1>b DEF managerVars, requestVars
<1>2. (Numbering /\ Handlers)'
  BY <1>a, <1>b DEF Numbering, Handlers, managerVars, requestVars
<1>3. Mutexes'
  <2>1. CASE size[BatchOf(t)] = 0
    BY <1>a, <2>1 DEF Mutexes, BatchOf, Holding, BeginExecution, requestVars
  <2>2. CASE size[BatchOf(t)] # 0
    <3>1. /\ bcLock[BatchOf(t)] = None /\ bcLock' = [bcLock EXCEPT ![BatchOf(t)] = t]
          /\ task'[t] \in Holding
      BY <1>a, <1>b, <2>2 DEF BeginExecution, Holding
    <3>2. \A u \in Task : BatchOf(u)' = BatchOf(u)
      BY <1>a DEF BatchOf, requestVars
    <3>3. t \in Task /\ task[t] \notin Holding /\ None \notin Task
      BY <1>b DEF Holding
    <3> HIDE DEF Task
    <3> QED
      BY <1>a, <1>b, <3>1, <3>2, <3>3 DEF Mutexes
  <2> QED
    BY <2>1, <2>2
<1>4. Triggers'
  <2>1. idx' = idx /\ home' = home
    BY <1>a DEF requestVars
  <2>2. \A u \in Task : task'[u] # "none" <=> task[u] # "none"
    BY <1>b
  <2>3. \A u \in Task : task'[u] \in {"armed", "stopped"} => task'[u] = task[u]
    BY <1>b
  <2>4. ASSUME NEW r \in Requests, task'[r] # "none"
        PROVE  task'[r] \notin {"armed", "stopped"}
    BY <2>2, <2>3, <2>4 DEF Triggers
  <2>5. ASSUME NEW r \in Requests, task'[r] # "none"
        PROVE  idx'[r] + 1 >= BatchMaxSize
    BY <2>1, <2>2, <2>5 DEF Triggers
  <2>6. ASSUME NEW b \in BatchIDs, task'[b] = "stopped"
        PROVE  \E r \in Requests : home'[r] = b /\ task'[r] # "none"
    BY <2>1, <2>2, <2>3, <2>6 DEF Triggers
  <2> QED
    BY <2>4, <2>5, <2>6 DEF Triggers
<1>5. Removed'
  BY <1>a, <1>b DEF Removed, BatchOf, managerVars, requestVars
<1>6. (Keys /\ Creators /\ OwnAnswer /\ HeaderOfFirst)'
  BY <1>a DEF Keys, Members, Creators, OwnAnswer, HeaderOfFirst, managerVars, requestVars
<1> QED
  BY <1>1, <1>2, <1>3, <1>4, <1>5, <1>6 DEF IInv

\* SubmitSucceeds, DeadlinePasses, PollGoesOn and QueryUndecided move a task that
\* holds its collector's mutex and keep the mutex.
LEMMA PollStep ==
    ASSUME IInv,
           NEW t \in Task, task[t] \in Holding,
           NEW p \in Holding, task' = [task EXCEPT ![t] = p],
           late' \in SUBSET Task,
           UNCHANGED <<managerVars, batchVars, requestVars>>
    PROVE  IInv'
<1> USE BatchIDsAssumption, NamesAssumption DEF IInv, TypeOK, Task
<1>1. TypeOK'
  BY DEF TypeOK, TaskPc, managerVars, batchVars, requestVars
<1>2. (Numbering /\ Handlers)'
  BY DEF Numbering, Handlers, Holding, managerVars, batchVars, requestVars
<1>3. Mutexes'
  BY DEF Mutexes, BatchOf, Holding, managerVars, batchVars, requestVars
<1>4. (Triggers /\ Removed)'
  BY DEF Triggers, Removed, BatchOf, Holding, managerVars, batchVars,
     requestVars
<1>5. (Keys /\ Creators /\ OwnAnswer /\ HeaderOfFirst)'
  BY DEF Keys, Members, Creators, OwnAnswer, HeaderOfFirst, managerVars,
     batchVars, requestVars
<1> QED
  BY <1>1, <1>2, <1>3, <1>4, <1>5 DEF IInv

\* Distribute fills channels with own answers and unlocks the collector.
LEMMA DistributeStep ==
    ASSUME IInv,
           NEW t \in Task, task[t] \in Holding,
           NEW res \in [Requests -> Result],
           \A r \in Members(BatchOf(t)) : res[r] \in Answers(r) \cup {"failed"},
           Distribute(t, res)
    PROVE  IInv'
<1> USE BatchIDsAssumption, NamesAssumption DEF IInv, TypeOK, Task
<1>a. BatchOf(t) \in BatchIDs
  BY TaskBatch DEF Holding
<1>1. TypeOK'
  BY <1>a DEF TypeOK, TaskPc, Distribute, Offer, managerVars
<1>2. Numbering'
  BY <1>a DEF Numbering, Holding, Distribute, Offer, managerVars
<1>3. Handlers'
  BY <1>a DEF Handlers, Members, Holding, Distribute, Offer, managerVars
<1>4. Mutexes'
  BY <1>a DEF Mutexes, BatchOf, Holding, Distribute, Offer, managerVars
<1>5. (Triggers /\ Removed)'
  BY <1>a DEF Triggers, Removed, BatchOf, Holding, Distribute, Offer,
     managerVars
<1>6. OwnAnswer'
  BY <1>a, AnswersAreOwn DEF OwnAnswer, Distribute, Offer, managerVars
<1>7. (Keys /\ Creators /\ HeaderOfFirst)'
  BY DEF Keys, Members, Creators, HeaderOfFirst, Distribute, Offer,
     managerVars
<1> QED
  BY <1>1, <1>2, <1>3, <1>4, <1>5, <1>6, <1>7 DEF IInv

\* RemoveBatch deletes the mapping, which no handler is using.
LEMMA RemoveStep ==
    ASSUME IInv,
           NEW t \in Task, RemoveBatch(t)
    PROVE  IInv'
<1> USE BatchIDsAssumption, NamesAssumption DEF IInv, TypeOK, Task
<1>a. \A u \in Task : task[u] # "none" => BatchOf(u) # None
  BY TaskBatch
<1>1. TypeOK'
  BY DEF TypeOK, TaskPc, RemoveBatch, batchVars, requestVars
<1>2. (Numbering /\ Handlers)'
  BY DEF Numbering, Handlers, RemoveBatch, batchVars, requestVars
<1>3. Mutexes'
  BY DEF Mutexes, BatchOf, Holding, RemoveBatch, batchVars, requestVars
<1>4. Triggers'
  BY DEF Triggers, RemoveBatch, batchVars, requestVars
<1>5. Removed'
  BY <1>a DEF Removed, BatchOf, RemoveBatch, batchVars, requestVars
<1>6. (Keys /\ Creators /\ OwnAnswer /\ HeaderOfFirst)'
  BY DEF Keys, Members, Creators, OwnAnswer, HeaderOfFirst, RemoveBatch,
     batchVars, requestVars
<1> QED
  BY <1>1, <1>2, <1>3, <1>4, <1>5, <1>6 DEF IInv


\* Every step of the program preserves the invariant.
LEMMA NextIInv == IInv /\ [Next]_vars => IInv'
<1> SUFFICES ASSUME IInv, [Next]_vars PROVE IInv'
  OBVIOUS
<1>1. ASSUME NEW r \in Requests, Arrive(r) \/ AddToBatch(r) \/ ReceiveResult(r)
      PROVE  IInv'
  BY <1>1, ArriveStep, FindStep, CreateStep, EnqueueStep, ReceiveStep DEF AddToBatch
<1>2. ASSUME NEW b \in BatchIDs, TimerFires(b)
      PROVE  IInv'
  BY <1>2, TimerStep
<1>3. ASSUME NEW t \in Task, ExecuteBatch(t)
      PROVE  IInv'
  <2>1. CASE BeginExecution(t)
    BY <2>1, BeginStep
  <2>2. CASE SubmitFails(t) \/ PollTimesOut(t) \/ QueryFails(t)
    <3> DEFINE res == [r \in Requests |-> "failed"]
    <3>1. task[t] \in Holding /\ Distribute(t, res)
      BY <2>2 DEF SubmitFails, PollTimesOut, QueryFails, SendErrorToAll, Holding
    <3>2. res \in [Requests -> Result]
      BY DEF Result
    <3>3. \A r \in Members(BatchOf(t)) : res[r] = "failed"
      BY DEF Members
    <3> QED
      BY <3>1, <3>2, <3>3, DistributeStep
  <2>3. CASE QuerySucceeds(t)
    <3>1. task[t] \in Holding
      BY <2>3 DEF QuerySucceeds, Holding
    <3>2. PICK res \in [Requests -> Result] :
              /\ \A r \in Members(BatchOf(t)) : res[r] \in Answers(r)
              /\ Distribute(t, res)
      BY <2>3 DEF QuerySucceeds, ExtractAndDistributeResults, Members
    <3> QED
      BY <3>1, <3>2, DistributeStep
  <2>4. CASE SubmitSucceeds(t) \/ PollGoesOn(t) \/ QueryUndecided(t)
    <3>1. /\ task[t] \in Holding /\ late' = late
          /\ UNCHANGED <<managerVars, batchVars, requestVars>>
          /\ \E p \in Holding : task' = [task EXCEPT ![t] = p]
      BY <2>4 DEF SubmitSucceeds, PollGoesOn, QueryUndecided, Holding
    <3> QED
      BY <3>1, PollStep DEF IInv, TypeOK
  <2> QED
    BY <1>3, <2>1, <2>2, <2>3, <2>4 DEF ExecuteBatch, Poll
<1>4. ASSUME NEW t \in Task, DeadlinePasses(t)
      PROVE  IInv'
  <2>1. task[t] \in Holding /\ task' = [task EXCEPT ![t] = task[t]]
    BY <1>4 DEF DeadlinePasses, Holding, IInv, TypeOK
  <2> QED
    BY <1>4, <2>1, PollStep DEF DeadlinePasses, IInv, TypeOK
<1>5. ASSUME NEW t \in Task, RemoveBatch(t)
      PROVE  IInv'
  BY <1>5, RemoveStep
<1>6. ASSUME UNCHANGED vars
      PROVE  IInv'
  BY <1>6 DEF IInv, TypeOK, Numbering, Handlers, Keys, Mutexes, Triggers, Removed,
              Creators, OwnAnswer, HeaderOfFirst, Members, BatchOf, Task,
              vars, managerVars, batchVars, requestVars, taskVars
<1> QED
  BY <1>1, <1>2, <1>3, <1>4, <1>5, <1>6 DEF Next, Quiet

\* The invariant of the program, from which the theorems below follow.
THEOREM Invariance == Spec => []IInv
BY InitIInv, NextIInv, PTL DEF Spec

-----------------------------------------------------------------------------
(***************************************************************************)
(* Type correctness.                                                       *)
(***************************************************************************)
THEOREM TypeCorrect == Spec => []TypeOK
BY Invariance, PTL DEF IInv

(***************************************************************************)
(* batch.go, removeBatch: a collector in the map always has a task that    *)
(* will remove it.                                                         *)
(***************************************************************************)
THEOREM MappedPending == Spec => []MappedIsPending
<1>1. IInv => MappedIsPending
  <2> SUFFICES ASSUME IInv, mapped # None
               PROVE  \E t \in TasksOf(mapped) : Pending(t)
    BY DEF MappedIsPending
  <2> USE BatchIDsAssumption, NamesAssumption DEF IInv, TypeOK, Task
  <2>1. /\ mapped \in BatchIDs /\ task[mapped] \notin {"none", "done"}
        /\ BatchOf(mapped) = mapped
    BY DEF Numbering, Removed, BatchOf
  <2>2. CASE task[mapped] = "stopped"
    <3>1. PICK r \in Requests : home[r] = mapped /\ task[r] # "none"
      BY <2>1, <2>2 DEF Triggers
    <3>2. BatchOf(r) = mapped /\ r \in TasksOf(mapped)
      BY <3>1 DEF BatchOf, TasksOf
    <3>3. Pending(r)
      BY <3>1, <3>2 DEF Triggers, Removed, Pending, TaskPc, Holding
    <3> QED
      BY <3>2, <3>3
  <2>3. CASE task[mapped] # "stopped"
    <3>1. mapped \in TasksOf(mapped) /\ Pending(mapped)
      BY <2>1, <2>3 DEF TasksOf, Pending, TaskPc, Holding
    <3> QED
      BY <3>1
  <2> QED
    BY <2>2, <2>3
<1> QED
  BY <1>1, Invariance, PTL

(***************************************************************************)
(* batch.go, addToBatch and the timer's callback: a collector nobody has   *)
(* begun to execute is scheduled to be executed.                           *)
(***************************************************************************)
THEOREM UnstartedScheduled == Spec => []UnstartedIsScheduled
<1>1. IInv => UnstartedIsScheduled
  <2> SUFFICES ASSUME IInv, NEW b \in BatchIDs, b <= batchGlobalID, ~Started(b)
               PROVE  \E t \in TasksOf(b) : task[t] \in {"armed", "ready"}
    BY DEF UnstartedIsScheduled
  <2> USE BatchIDsAssumption, NamesAssumption DEF IInv, TypeOK, Task
  <2>1. b \in TasksOf(b) /\ task[b] \in {"armed", "stopped", "ready"}
    BY DEF Numbering, TasksOf, BatchOf, Started, TaskPc
  <2>2. CASE task[b] = "stopped"
    <3>1. PICK r \in Requests : home[r] = b /\ task[r] # "none"
      BY <2>2 DEF Triggers
    <3>2. r \in TasksOf(b)
      BY <3>1 DEF BatchOf, TasksOf
    <3>3. task[r] = "ready"
      BY <3>1, <3>2 DEF Triggers, Started, TaskPc
    <3> QED
      BY <3>2, <3>3
  <2> QED
    BY <2>1, <2>2
<1> QED
  BY <1>1, Invariance, PTL

(***************************************************************************)
(* Who waits for whom.  bm.mu is wanted by addToBatch at its start and by  *)
(* removeBatch, and held by a handler; a collector's mutex is wanted by    *)
(* addToBatch, which holds bm.mu meanwhile, and by executeBatch, and held  *)
(* by an execution.  A request and the goroutine its add started are told  *)
(* apart by their tags.                                                    *)
(***************************************************************************)
Handler(r)   == <<"handler", r>>
Execution(t) == <<"execution", t>>
Goroutines   == {Handler(r) : r \in Requests} \cup {Execution(t) : t \in Task}

WantsManager(g) ==
    \/ \E r \in Requests : g = Handler(r) /\ pc[r] = "arrived"
    \/ \E t \in Task : g = Execution(t) /\ task[t] = "removing"

WantsCollector(g, b) ==
    \/ \E r \in Requests : g = Handler(r) /\ pc[r] = "joining" /\ home[r] = b
    \/ \E t \in Task : g = Execution(t) /\ task[t] = "ready" /\ BatchOf(t) = b

WaitsFor(g, h) ==
    \/ WantsManager(g) /\ bmLock # None /\ h = Handler(bmLock)
    \/ \E b \in BatchIDs : WantsCollector(g, b) /\ bcLock[b] # None /\ h = Execution(bcLock[b])

ShortChains ==
    \A f, g, h, k \in Goroutines : ~(WaitsFor(f, g) /\ WaitsFor(g, h) /\ WaitsFor(h, k))

(***************************************************************************)
(* batch.go, addToBatch, executeBatch and removeBatch: the two levels of   *)
(* mutexes never close a circle.  Whoever waits for bm.mu waits for a      *)
(* handler, that one for an execution at most, and that one for no mutex.  *)
(***************************************************************************)
THEOREM NoCircularWait == Spec => []ShortChains
<1>1. IInv => ShortChains
  <2> SUFFICES ASSUME IInv, NEW f \in Goroutines, NEW g \in Goroutines, NEW h \in Goroutines,
                      NEW k \in Goroutines, WaitsFor(f, g), WaitsFor(g, h), WaitsFor(h, k)
               PROVE  FALSE
    BY DEF ShortChains
  <2> USE NamesAssumption DEF IInv, TypeOK
  <2>1. ASSUME NEW x \in Goroutines, NEW y \in Goroutines, WaitsFor(x, y)
        PROVE  \/ WantsManager(x) /\ bmLock \in Requests /\ y = Handler(bmLock)
               \/ \E t \in Task : y = Execution(t) /\ task[t] \in Holding
    BY <2>1 DEF WaitsFor, Mutexes
  <2>2. ASSUME NEW t \in Task, task[t] \in Holding, NEW y, WaitsFor(Execution(t), y)
        PROVE  FALSE
    BY <2>2 DEF WaitsFor, WantsManager, WantsCollector, Handler, Execution, Holding
  <2>3. ASSUME WantsManager(Handler(bmLock)), bmLock \in Requests PROVE FALSE
    BY <2>3 DEF WantsManager, Handler, Execution, Handlers
  <2>4. WantsManager(f) /\ bmLock \in Requests /\ g = Handler(bmLock)
    BY <2>1, <2>2
  <2>5. PICK t \in Task : h = Execution(t) /\ task[t] \in Holding
    BY <2>1, <2>3, <2>4
  <2> QED
    BY <2>2, <2>5
<1> QED
  BY <1>1, Invariance, PTL

(***************************************************************************)
(* batch.go, extractAndDistributeResults: nobody gets another's answer.    *)
(***************************************************************************)
THEOREM AnswersOwn == Spec => []OwnAnswer
BY Invariance, PTL DEF IInv

(***************************************************************************)
(* batch.go, addToBatch: the header used for a batch is that of the        *)
(* request at its index 0.                                                 *)
(***************************************************************************)
THEOREM HeaderFirst == Spec => []HeaderOfFirst
BY Invariance, PTL DEF IInv

(***************************************************************************)
(* batch.go, addToBatch: a batch within its limit has been started at most *)
(* once by its size.                                                       *)
(***************************************************************************)
THEOREM SizeTriggersOnce == Spec => []OneSizeTrigger
<1>1. IInv => OneSizeTrigger
  <2> SUFFICES ASSUME IInv, NEW b \in BatchIDs, size[b] <= BatchMaxSize,
                      NEW q \in TasksOf(b) \cap Requests, NEW r \in TasksOf(b) \cap Requests
               PROVE  q = r
    BY DEF OneSizeTrigger
  <2> USE BatchIDsAssumption, MaxSizeAssumption, NamesAssumption DEF IInv, TypeOK
  <2>1. q \in Members(b) /\ r \in Members(b) /\ task[q] # "none" /\ task[r] # "none"
    BY DEF TasksOf, BatchOf, Members, Handlers, HandlerPc
  <2>2. idx[q] < size[b] /\ idx[r] < size[b]
    BY <2>1 DEF Keys
  <2>3. idx[q] + 1 >= BatchMaxSize /\ idx[r] + 1 >= BatchMaxSize
    BY <2>1 DEF Triggers
  <2>4. idx[q] = idx[r]
    BY <2>2, <2>3
  <2> QED
    BY <2>1, <2>4 DEF Keys
<1> QED
  BY <1>1, Invariance, PTL

-----------------------------------------------------------------------------
(***************************************************************************)
(* Every step is an append, a distribution, or leaves sizes, channels and  *)
(* the ends of executions alone.                                           *)
(***************************************************************************)
LEMMA StepCases ==
    ASSUME IInv, [Next]_vars
    PROVE  \/ \E r \in Requests : Enqueue(r)
           \/ \E t \in Task : /\ task[t] \in Holding
                              /\ \E res \in [Requests -> Result] :
                                    /\ \/ \A r \in Members(BatchOf(t)) : res[r] = "failed"
                                       \/ \A r \in Members(BatchOf(t)) : res[r] \in Answers(r)
                                    /\ Distribute(t, res)
           \/ /\ size' = size
              /\ \A b \in BatchIDs : bcLock[b] # None => bcLock'[b] # None
              /\ \/ \E r \in Requests : Arrive(r) \/ FindCollector(r) \/ CreateCollector(r)
                                        \/ ReceiveResult(r)
                 \/ UNCHANGED <<pc, home, ch, reply>>
<1> USE BatchIDsAssumption, NamesAssumption DEF IInv, TypeOK, Task
<1>1. ASSUME NEW r \in Requests, Arrive(r) \/ AddToBatch(r) \/ ReceiveResult(r)
      PROVE  \/ Enqueue(r)
             \/ /\ size' = size /\ bcLock' = bcLock
                /\ Arrive(r) \/ FindCollector(r) \/ CreateCollector(r) \/ ReceiveResult(r)
  BY <1>1 DEF Arrive, AddToBatch, FindCollector, CreateCollector, ReceiveResult, batchVars
<1>2. ASSUME NEW t \in Task,
             TimerFires(t) \/ SubmitSucceeds(t) \/ PollGoesOn(t) \/ QueryUndecided(t)
             \/ DeadlinePasses(t) \/ RemoveBatch(t)
      PROVE  size' = size /\ bcLock' = bcLock /\ UNCHANGED <<pc, home, ch, reply>>
  BY <1>2 DEF TimerFires, SubmitSucceeds, PollGoesOn, QueryUndecided, DeadlinePasses,
              RemoveBatch, batchVars, requestVars
<1>3. ASSUME NEW t \in Task, BeginExecution(t)
      PROVE  /\ size' = size /\ UNCHANGED <<pc, home, ch, reply>>
             /\ \A b \in BatchIDs : bcLock[b] # None => bcLock'[b] # None
  BY <1>3 DEF BeginExecution, requestVars
<1>4. ASSUME NEW t \in Task, SubmitFails(t) \/ PollTimesOut(t) \/ QueryFails(t)
      PROVE  /\ task[t] \in Holding
             /\ \E res \in [Requests -> Result] :
                    /\ \A r \in Members(BatchOf(t)) : res[r] = "failed"
                    /\ Distribute(t, res)
  <2> DEFINE res == [r \in Requests |-> "failed"]
  <2>1. task[t] \in Holding /\ Distribute(t, res)
    BY <1>4 DEF SubmitFails, PollTimesOut, QueryFails, SendErrorToAll, Holding
  <2>2. res \in [Requests -> Result] /\ \A r \in Members(BatchOf(t)) : res[r] = "failed"
    BY DEF Result, Members
  <2> QED
    BY <2>1, <2>2
<1>5. ASSUME NEW t \in Task, QuerySucceeds(t)
      PROVE  /\ task[t] \in Holding
             /\ \E res \in [Requests -> Result] :
                    /\ \A r \in Members(BatchOf(t)) : res[r] \in Answers(r)
                    /\ Distribute(t, res)
  BY <1>5 DEF QuerySucceeds, ExtractAndDistributeResults, Members, Holding
<1>6. ASSUME UNCHANGED vars
      PROVE  size' = size /\ bcLock' = bcLock /\ UNCHANGED <<pc, home, ch, reply>>
  BY <1>6 DEF vars, batchVars, requestVars
<1>7. CASE Next
  <2>1. CASE \E r \in Requests : Arrive(r) \/ AddToBatch(r) \/ ReceiveResult(r)
    BY <1>1, <2>1
  <2>2. CASE \E b \in BatchIDs : TimerFires(b)
    BY <1>2, <2>2
  <2>3. CASE \E t \in Task : ExecuteBatch(t) \/ DeadlinePasses(t) \/ RemoveBatch(t)
    <3>1. PICK t \in Task : ExecuteBatch(t) \/ DeadlinePasses(t) \/ RemoveBatch(t)
      BY <2>3
    <3>2. \/ SubmitSucceeds(t) \/ PollGoesOn(t) \/ QueryUndecided(t)
          \/ DeadlinePasses(t) \/ RemoveBatch(t)
          \/ BeginExecution(t)
          \/ SubmitFails(t) \/ PollTimesOut(t) \/ QueryFails(t)
          \/ QuerySucceeds(t)
      BY <3>1 DEF ExecuteBatch, Poll
    <3> QED
      BY <1>2, <1>3, <1>4, <1>5, <3>2
  <2> QED
    BY <1>6, <1>7, <2>1, <2>2, <2>3 DEF Next, Quiet
<1> QED
  BY <1>6, <1>7

(***************************************************************************)
(* batch.go, addToBatch and removeBatch: a request joins only the mapped   *)
(* collector.                                                              *)
(***************************************************************************)
THEOREM JoinsOnlyMapped == Spec => JoinsMapped
<1>1. IInv /\ [Next]_vars => [\A b \in BatchIDs : size'[b] > size[b] => mapped = b]_vars
  <2> SUFFICES ASSUME IInv, [Next]_vars, NEW b \in BatchIDs, size'[b] > size[b]
               PROVE  mapped = b
    OBVIOUS
  <2> USE BatchIDsAssumption, NamesAssumption DEF IInv, TypeOK
  <2>1. CASE \E r \in Requests : Enqueue(r)
    BY <2>1 DEF Enqueue, AppendRequest, Handlers
  <2>2. CASE size' = size
    BY <2>2
  <2> QED
    BY <2>1, <2>2, StepCases DEF Distribute, Offer
<1> QED
  BY <1>1, Invariance, PTL DEF JoinsMapped, Spec

(***************************************************************************)
(* batch.go, executeBatch: the end of an execution leaves no request of    *)
(* the collector without an answer.                                        *)
(***************************************************************************)
THEOREM AnswersAll == Spec => ExecutionAnswersAll
<1> DEFINE A == \A b \in BatchIDs : bcLock[b] # None /\ bcLock'[b] = None =>
                    \A r \in Members(b) : HasAnswer(r)'
<1>1. IInv /\ [Next]_vars => [A]_vars
  <2> SUFFICES ASSUME IInv, [Next]_vars,
                      NEW b \in BatchIDs, bcLock[b] # None, bcLock'[b] = None,
                      NEW r \in Members(b)
               PROVE  HasAnswer(r)'
    OBVIOUS
  <2> USE BatchIDsAssumption, NamesAssumption DEF IInv, TypeOK, Task
  <2>1. ~\E q \in Requests : Enqueue(q)
    BY DEF Enqueue, AppendRequest
  <2>2. PICK t \in Task, res \in [Requests -> Result] : task[t] \in Holding /\ Distribute(t, res)
    BY <2>1, StepCases
  <2>3. BatchOf(t) \in BatchIDs
    BY <2>2, TaskBatch DEF Holding
  <2>4. b = BatchOf(t)
    BY <2>2, <2>3 DEF Distribute, Offer
  <2>5. r \in Requests /\ res[r] # "none"
    BY <2>2 DEF Members, Result
  <2> QED
    BY <2>2, <2>4, <2>5 DEF Distribute, Offer, Members, HasAnswer, HandlerPc
<1>2. QED
  BY <1>1, Invariance, PTL DEF ExecutionAnswersAll, Spec

(***************************************************************************)
(* The batching layer implements the service BatchService describes.       *)
(***************************************************************************)
THEOREM Refinement == Spec => ImplementsService
<1> USE BatchIDsAssumption, NamesAssumption
<1>1. Init => Service!SInit
  BY DEF Init, Service!SInit, JoinedGroup, GivenAnswer, Verdict
<1>2. ASSUME IInv, [Next]_vars
      PROVE  [Service!SNext]_(Service!svars)
  <2> USE <1>2 DEF IInv, TypeOK, Task
  <2>1. ASSUME NEW r \in Requests, Enqueue(r)
        PROVE  Service!Join(r)
    <3>1. home[r] \in BatchIDs /\ pc[r] = "joining" /\ ch[r] = "none"
      BY <2>1 DEF Enqueue, AppendRequest, Handlers
    <3>2. pc' = [pc EXCEPT ![r] = "waiting"] /\ UNCHANGED <<home, ch, reply>>
      BY <2>1 DEF Enqueue, AppendRequest
    <3>3. JoinedGroup[r] = None /\ JoinedGroup' = [JoinedGroup EXCEPT ![r] = home[r]]
      BY <3>1, <3>2 DEF JoinedGroup
    <3>4. GivenAnswer' = GivenAnswer
      BY <3>1, <3>2 DEF GivenAnswer, Verdict
    <3> QED
      BY <3>1, <3>3, <3>4 DEF Service!Join
  <2>2. ASSUME NEW t \in Task, task[t] \in Holding,
               NEW res \in [Requests -> Result],
               \/ \A r \in Members(BatchOf(t)) : res[r] = "failed"
               \/ \A r \in Members(BatchOf(t)) : res[r] \in Answers(r),
               Distribute(t, res)
        PROVE  Service!AnswerGroup(BatchOf(t)) /\ BatchOf(t) \in BatchIDs
    <3>1. BatchOf(t) \in BatchIDs
      BY <2>2, TaskBatch DEF Holding
    <3> DEFINE b == BatchOf(t)
               failing == \A r \in Members(b) : res[r] = "failed"
               verdict == [r \in Requests |->
                              IF failing THEN "failed"
                              ELSE IF r \in Members(b) /\ res[r] = r THEN "own"
                              ELSE "missing"]
    <3>2. ASSUME NEW r \in Members(b)
          PROVE  /\ ~failing => res[r] \in {r, "missing"}
                 /\ verdict[r] = Verdict(r, res[r])
      <4>1. r \in Requests
        BY DEF Members
      <4>2. CASE failing
        BY <4>1, <4>2 DEF Verdict
      <4>3. CASE ~failing
        <5>1. res[r] \in {r, "missing"}
          BY <2>2, <3>1, <4>3, AnswersAreOwn
        <5> QED
          BY <4>1, <4>3, <5>1 DEF Verdict
      <4> QED
        BY <4>2, <4>3
    <3>3. /\ verdict \in [Requests -> {"own", "missing", "failed"}]
          /\ \/ \A r \in Requests : verdict[r] = "failed"
             \/ \A r \in Requests : verdict[r] \in {"own", "missing"}
      OBVIOUS
    <3>4. /\ UNCHANGED <<pc, home, reply>>
          /\ ch' = [r \in Requests |-> IF r \in Members(b) /\ ch[r] = "none"
                                       THEN res[r] ELSE ch[r]]
      BY <2>2 DEF Distribute, Offer, Members
    <3>5. \A r \in Requests :
             r \in Service!Unanswered(b) <=>
                 r \in Members(b) /\ pc[r] # "answered" /\ ch[r] = "none"
      BY <3>1 DEF Service!Unanswered, Members, JoinedGroup, GivenAnswer, Verdict, Handlers
    <3>6. JoinedGroup' = JoinedGroup
      BY <3>4 DEF JoinedGroup
    <3> HIDE DEF verdict, failing, b
    <3>7. GivenAnswer' = [r \in Requests |-> IF r \in Service!Unanswered(b)
                                             THEN verdict[r] ELSE GivenAnswer[r]]
      BY <3>2, <3>4, <3>5 DEF GivenAnswer, Verdict, Members
    <3> QED
      BY <3>1, <3>3, <3>6, <3>7 DEF Service!AnswerGroup, b
  <2>3. ASSUME NEW r \in Requests,
               Arrive(r) \/ FindCollector(r) \/ CreateCollector(r) \/ ReceiveResult(r)
        PROVE  UNCHANGED Service!svars
    <3>1. CASE Arrive(r)
      BY <3>1 DEF Arrive, Service!svars, JoinedGroup, GivenAnswer
    <3>2. CASE FindCollector(r) \/ CreateCollector(r)
      <4>1. /\ pc[r] = "arrived" /\ pc' = [pc EXCEPT ![r] = "joining"]
            /\ \A q \in Requests \ {r} : home'[q] = home[q]
            /\ UNCHANGED <<ch, reply>>
        BY <3>2 DEF FindCollector, CreateCollector
      <4> QED
        BY <4>1 DEF Service!svars, JoinedGroup, GivenAnswer
    <3>3. CASE ReceiveResult(r)
      BY <3>3 DEF ReceiveResult, Service!svars, JoinedGroup, GivenAnswer
    <3> QED
      BY <2>3, <3>1, <3>2, <3>3
  <2>4. UNCHANGED <<pc, home, ch, reply>> => UNCHANGED Service!svars
    BY DEF Service!svars, JoinedGroup, GivenAnswer
  <2> QED
    <3>1. CASE \E r \in Requests : Enqueue(r)
      BY <2>1, <3>1 DEF Service!SNext
    <3>2. CASE \E t \in Task : /\ task[t] \in Holding
                              /\ \E res \in [Requests -> Result] :
                                    /\ \/ \A r \in Members(BatchOf(t)) : res[r] = "failed"
                                       \/ \A r \in Members(BatchOf(t)) : res[r] \in Answers(r)
                                    /\ Distribute(t, res)
      BY <2>2, <3>2 DEF Service!SNext
    <3> QED
      BY <2>3, <2>4, <3>1, <3>2, StepCases
<1> QED
  BY <1>1, <1>2, Invariance, PTL DEF ImplementsService, Service!SSpec, Spec

==============================================================================
