----------------------------- MODULE WorkerPool -----------------------------
(***************************************************************************)
(* The pool that parses and shapes: one queue, some workers, submit() for  *)
(* a task nobody waits for and dispatch() for a batch its caller waits     *)
(* for, and a destructor that lets the workers empty the queue.            *)
(*                                                                         *)
(* A step that holds mutex_ from beginning to end is one action.  The      *)
(* batch mutex is a variable: the caller holds it from the check of its    *)
(* predicate until it sleeps.                                              *)
(***************************************************************************)
EXTENDS Naturals, Sequences, FiniteSets

CONSTANTS
    Workers,        \* threads of the pool
    Callers,        \* threads that dispatch a batch
    Items,          \* what every batch is made of
    Jobs,           \* tasks that are submitted, each by a thread of its own
    MaxBatches,     \* bound: batches per caller
    Nobody

ASSUME PoolAssumption ==
    /\ Workers # {} /\ Items # {} /\ IsFiniteSet(Items) /\ MaxBatches \in Nat
    /\ Nobody \notin Workers \cup Callers

VARIABLES
    queue,      \* queue_
    stopping,   \* stopping_, then the end of the destructor's notify_all
    workerPc, task,     \* per worker, where it is and the task it took
    callerPc,   \* per caller, where it is in dispatch
    remaining,  \* batch.remaining of the caller's batch
    holder,     \* who holds batch.m of the caller's batch
    jobPc,      \* per job, where its submit() is
    batches,    \* batches a caller has begun
    runs,       \* history: how often each item was run for a caller
    jobRuns     \* history: how often each job was run

workerVars == <<workerPc, task>>
historyVars == <<runs, jobRuns>>
vars == <<queue, stopping, workerPc, task, callerPc, remaining, holder, jobPc,
          batches, runs, jobRuns>>

ItemTask(c, i) == [for |-> c, item |-> i]
JobTask(j)     == [for |-> Nobody, item |-> j]

Init ==
    /\ queue = <<>> /\ stopping = "no"
    /\ workerPc = [w \in Workers |-> "loop"] /\ task = [w \in Workers |-> Nobody]
    /\ callerPc = [c \in Callers |-> "idle"]
    /\ remaining = [c \in Callers |-> 0] /\ holder = [c \in Callers |-> Nobody]
    /\ jobPc = [j \in Jobs |-> "new"]
    /\ batches = [c \in Callers |-> 0]
    /\ runs = [c \in Callers |-> [i \in Items |-> 0]]
    /\ jobRuns = [j \in Jobs |-> 0]

Waiting == {w \in Workers : workerPc[w] = "waiting"}

NotifyAll == workerPc' = [w \in Workers |-> IF w \in Waiting THEN "loop" ELSE workerPc[w]]
NotifyOne ==
    \/ Waiting = {} /\ UNCHANGED workerPc
    \/ \E w \in Waiting : workerPc' = [workerPc EXCEPT ![w] = "loop"]

-----------------------------------------------------------------------------
(* submit                                                                  *)

Submit(j) ==
    /\ jobPc[j] = "new" /\ stopping = "no"
    /\ queue' = Append(queue, JobTask(j))
    /\ jobPc' = [jobPc EXCEPT ![j] = "notify"]
    /\ UNCHANGED <<stopping, workerVars, callerPc, remaining, holder, batches,
                   historyVars>>

SubmitNotify(j) ==
    /\ jobPc[j] = "notify"
    /\ NotifyOne
    /\ jobPc' = [jobPc EXCEPT ![j] = "done"]
    /\ UNCHANGED <<queue, stopping, task, callerPc, remaining, holder, batches,
                   historyVars>>

-----------------------------------------------------------------------------
(* dispatch                                                                *)

(* Mutation: the counter starts one short, or is never set.                *)
DispatchFrom(c, start) ==
    /\ callerPc[c] = "idle" /\ stopping = "no" /\ batches[c] < MaxBatches
    /\ \E order \in [1..Cardinality(Items) -> Items] :
          /\ \A i \in Items : \E k \in DOMAIN order : order[k] = i
          /\ queue' = queue \o [k \in DOMAIN order |-> ItemTask(c, order[k])]
    /\ remaining' = [remaining EXCEPT ![c] = start]
    /\ batches' = [batches EXCEPT ![c] = @ + 1]
    /\ callerPc' = [callerPc EXCEPT ![c] = "notify"]
    /\ UNCHANGED <<stopping, workerVars, holder, jobPc, historyVars>>
DispatchShort(c) == DispatchFrom(c, Cardinality(Items) - 1)

(* One task per item, in any order, put into the queue in one go.          *)
Dispatch(c) ==
    /\ callerPc[c] = "idle" /\ stopping = "no" /\ batches[c] < MaxBatches
    /\ \E order \in [1..Cardinality(Items) -> Items] :
          /\ \A i \in Items : \E k \in DOMAIN order : order[k] = i
          /\ queue' = queue \o [k \in DOMAIN order |-> ItemTask(c, order[k])]
    /\ remaining' = [remaining EXCEPT ![c] = Cardinality(Items)]
    /\ batches' = [batches EXCEPT ![c] = @ + 1]
    /\ callerPc' = [callerPc EXCEPT ![c] = "notify"]
    /\ UNCHANGED <<stopping, workerVars, holder, jobPc, historyVars>>

DispatchNotify(c) ==
    /\ callerPc[c] = "notify"
    /\ NotifyAll
    /\ callerPc' = [callerPc EXCEPT ![c] = "lock"]
    /\ UNCHANGED <<queue, stopping, task, remaining, holder, jobPc, batches,
                   historyVars>>

CallerLock(c) ==
    /\ callerPc[c] = "lock" /\ holder[c] = Nobody
    /\ holder' = [holder EXCEPT ![c] = c]
    /\ callerPc' = [callerPc EXCEPT ![c] = "check"]
    /\ UNCHANGED <<queue, stopping, workerVars, remaining, jobPc, batches,
                   historyVars>>

(* The predicate of the wait; when it holds, dispatch returns.             *)
CallerCheck(c) ==
    /\ callerPc[c] = "check"
    /\ \/ /\ remaining[c] = 0
          /\ callerPc' = [callerPc EXCEPT ![c] = "idle"]
          /\ holder' = [holder EXCEPT ![c] = Nobody]
       \/ /\ remaining[c] # 0
          /\ callerPc' = [callerPc EXCEPT ![c] = "block"]
          /\ UNCHANGED holder
    /\ UNCHANGED <<queue, stopping, workerVars, remaining, jobPc, batches,
                   historyVars>>

CallerSleep(c) ==
    /\ callerPc[c] = "block"
    /\ callerPc' = [callerPc EXCEPT ![c] = "asleep"]
    /\ holder' = [holder EXCEPT ![c] = Nobody]
    /\ UNCHANGED <<queue, stopping, workerVars, remaining, jobPc, batches,
                   historyVars>>

-----------------------------------------------------------------------------
(* workerLoop and the task it runs                                         *)

WorkerTake(w) ==
    /\ workerPc[w] = "loop" /\ queue # <<>>
    /\ task' = [task EXCEPT ![w] = Head(queue)]
    /\ queue' = Tail(queue)
    /\ workerPc' = [workerPc EXCEPT ![w] = "run"]
    /\ UNCHANGED <<stopping, callerPc, remaining, holder, jobPc, batches,
                   historyVars>>

(* Mutation: the wait has no predicate.                                    *)
WorkerWaitBlind(w) ==
    /\ workerPc[w] = "loop" /\ stopping = "no"
    /\ workerPc' = [workerPc EXCEPT ![w] = "waiting"]
    /\ UNCHANGED <<queue, stopping, task, callerPc, remaining, holder, jobPc,
                   batches, historyVars>>

WorkerWait(w) ==
    /\ workerPc[w] = "loop" /\ queue = <<>> /\ stopping = "no"
    /\ workerPc' = [workerPc EXCEPT ![w] = "waiting"]
    /\ UNCHANGED <<queue, stopping, task, callerPc, remaining, holder, jobPc,
                   batches, historyVars>>

WorkerExit(w) ==
    /\ workerPc[w] = "loop" /\ queue = <<>> /\ stopping # "no"
    /\ workerPc' = [workerPc EXCEPT ![w] = "exited"]
    /\ UNCHANGED <<queue, stopping, task, callerPc, remaining, holder, jobPc,
                   batches, historyVars>>

RunJob(w) ==
    /\ workerPc[w] = "run" /\ task[w].for = Nobody
    /\ jobRuns' = [jobRuns EXCEPT ![task[w].item] = @ + 1]
    /\ workerPc' = [workerPc EXCEPT ![w] = "loop"]
    /\ task' = [task EXCEPT ![w] = Nobody]
    /\ UNCHANGED <<queue, stopping, callerPc, remaining, holder, jobPc, batches,
                   runs>>

RunItem(w) ==
    /\ workerPc[w] = "run" /\ task[w].for # Nobody
    /\ runs' = [runs EXCEPT ![task[w].for][task[w].item] = @ + 1]
    /\ workerPc' = [workerPc EXCEPT ![w] = "count"]
    /\ UNCHANGED <<queue, stopping, task, callerPc, remaining, holder, jobPc,
                   batches, jobRuns>>

(* fetch_sub: whoever takes the counter to 0 goes on to notify.            *)
CountDown(w) ==
    /\ workerPc[w] = "count"
    /\ LET c == task[w].for
       IN /\ remaining' = [remaining EXCEPT ![c] = @ - 1]
          /\ \/ /\ remaining[c] = 1
                /\ workerPc' = [workerPc EXCEPT ![w] = "lock"]
                /\ UNCHANGED task
             \/ /\ remaining[c] # 1
                /\ workerPc' = [workerPc EXCEPT ![w] = "loop"]
                /\ task' = [task EXCEPT ![w] = Nobody]
    /\ UNCHANGED <<queue, stopping, callerPc, holder, jobPc, batches, historyVars>>

(* Mutation: the notification is not made under batch.m.                   *)
NotifyUnlocked(w) ==
    /\ workerPc[w] = "lock"
    /\ callerPc' = [callerPc EXCEPT ![task[w].for] = IF @ = "asleep" THEN "lock" ELSE @]
    /\ workerPc' = [workerPc EXCEPT ![w] = "loop"]
    /\ task' = [task EXCEPT ![w] = Nobody]
    /\ UNCHANGED <<queue, stopping, remaining, holder, jobPc, batches, historyVars>>

(* Under batch.m: it is the caller's frame that is locked, which by now    *)
(* may hold no batch or, dispatch having been called again, the next one.  *)
NotifyBatch(w) ==
    /\ workerPc[w] = "lock"
    /\ LET c == task[w].for
       IN /\ holder[c] = Nobody
          /\ callerPc' = [callerPc EXCEPT ![c] = IF @ = "asleep" THEN "lock" ELSE @]
    /\ workerPc' = [workerPc EXCEPT ![w] = "loop"]
    /\ task' = [task EXCEPT ![w] = Nobody]
    /\ UNCHANGED <<queue, stopping, remaining, holder, jobPc, batches, historyVars>>

-----------------------------------------------------------------------------
(* ~WorkerPool, once nobody uses the pool any more                         *)

Stop ==
    /\ stopping = "no"
    /\ \A c \in Callers : callerPc[c] = "idle"
    /\ \A j \in Jobs : jobPc[j] # "notify"
    /\ stopping' = "set"
    /\ UNCHANGED <<queue, workerVars, callerPc, remaining, holder, jobPc, batches,
                   historyVars>>

StopNotify ==
    /\ stopping = "set"
    /\ stopping' = "notified"
    /\ NotifyAll
    /\ UNCHANGED <<queue, task, callerPc, remaining, holder, jobPc, batches,
                   historyVars>>

Join ==
    /\ stopping = "notified" /\ \A w \in Workers : workerPc[w] = "exited"
    /\ stopping' = "joined"
    /\ UNCHANGED <<queue, workerVars, callerPc, remaining, holder, jobPc, batches,
                   historyVars>>

-----------------------------------------------------------------------------
WorkerStep(w) ==
    \/ WorkerTake(w) \/ WorkerWait(w) \/ WorkerExit(w)
    \/ RunJob(w) \/ RunItem(w) \/ CountDown(w) \/ NotifyBatch(w)

CallerStep(c) ==
    DispatchNotify(c) \/ CallerLock(c) \/ CallerCheck(c) \/ CallerSleep(c)

Next ==
    \/ \E j \in Jobs : Submit(j) \/ SubmitNotify(j)
    \/ \E c \in Callers : Dispatch(c) \/ CallerStep(c)
    \/ \E w \in Workers : WorkerStep(w)
    \/ Stop \/ StopNotify \/ Join

(* A thread that can go on does: fn ends, and mutexes are handed on.       *)
Fairness ==
    /\ \A w \in Workers : WF_vars(WorkerStep(w)) /\ SF_vars(NotifyBatch(w))
    /\ \A c \in Callers : WF_vars(CallerStep(c)) /\ SF_vars(CallerLock(c))
    /\ \A j \in Jobs : WF_vars(SubmitNotify(j))
    /\ WF_vars(StopNotify \/ Join)

Spec == Init /\ [][Next]_vars
FairSpec == Spec /\ Fairness

-----------------------------------------------------------------------------
(* dispatch returns only when every item of the batch has been run, each   *)
(* exactly once; and a pool that has been destroyed has run every          *)
(* submitted job, once.                                                    *)
BatchRunOnce ==
    \A c \in Callers : callerPc[c] = "idle" => \A i \in Items : runs[c][i] = batches[c]
NothingDropped ==
    stopping = "joined" => \A j \in Jobs : jobRuns[j] = IF jobPc[j] = "new" THEN 0 ELSE 1
RunOnce == BatchRunOnce /\ NothingDropped

(* A waiting worker is never overlooked: while all workers wait or have    *)
(* left, whatever is queued has a notification under way.                  *)
NoLostWakeup ==
    queue # <<>> /\ (\A w \in Workers : workerPc[w] \in {"waiting", "exited"}) =>
        \/ \E j \in Jobs : jobPc[j] = "notify"
        \/ \E c \in Callers : callerPc[c] = "notify"

(* Every dispatch returns.                                                 *)
DispatchReturns == \A c \in Callers : (callerPc[c] = "notify") ~> (callerPc[c] = "idle")
=============================================================================
