-------------------------- MODULE WorkerPoolProofs --------------------------
(***************************************************************************)
(* Theorems about WorkerPool for every number of workers and callers and   *)
(* every set of items and jobs.                                            *)
(***************************************************************************)
EXTENDS WorkerPool, FiniteSetTheorems, TLAPS

USE PoolAssumption

(* What NoLostWakeup rests on: workers only leave a stopping pool whose    *)
(* queue is empty, and the pool only stops when nobody uses it any more.   *)
Asleep == \A w \in Workers : workerPc[w] \in {"waiting", "exited"}

Pending ==
    \/ \E j \in Jobs : jobPc[j] = "notify"
    \/ \E c \in Callers : callerPc[c] = "notify"

ExitedAfterQueue ==
    (\E w \in Workers : workerPc[w] = "exited") => queue = <<>> /\ stopping # "no"

StoppedUnused == stopping # "no" => ~Pending /\ \A c \in Callers : callerPc[c] = "idle"

WorkerTypes ==
    /\ workerPc \in [Workers -> {"loop", "waiting", "run", "count", "lock", "exited"}]
    /\ callerPc \in [Callers -> {"idle", "notify", "lock", "check", "block", "asleep"}]
    /\ jobPc \in [Jobs -> {"new", "notify", "done"}]

WakeInv ==
    /\ WorkerTypes
    /\ ExitedAfterQueue
    /\ StoppedUnused
    /\ queue # <<>> /\ Asleep => Pending

LEMMA WakeInit == Init => WakeInv
  BY DEF Init, WakeInv, WorkerTypes, ExitedAfterQueue, StoppedUnused, Asleep, Pending

(* notify_all leaves nobody waiting, and notify_one wakes somebody if there *)
(* is anybody to wake.                                                     *)
LEMMA AllAwake ==
    ASSUME WorkerTypes, NotifyAll, \A w \in Workers : workerPc'[w] \in {"waiting", "exited"}
    PROVE  \A w \in Workers : workerPc[w] = "exited"
  BY DEF WorkerTypes, NotifyAll, Waiting

LEMMA OneAwake ==
    ASSUME WorkerTypes, NotifyOne, \A w \in Workers : workerPc'[w] \in {"waiting", "exited"}
    PROVE  \A w \in Workers : workerPc[w] = "exited"
  BY DEF WorkerTypes, NotifyOne, Waiting

LEMMA NotifyTypes ==
    ASSUME WorkerTypes, NotifyOne \/ NotifyAll
    PROVE  /\ workerPc' \in [Workers -> {"loop", "waiting", "run", "count", "lock", "exited"}]
           /\ \A w \in Workers : workerPc'[w] = "exited" <=> workerPc[w] = "exited"
  BY DEF WorkerTypes, NotifyOne, NotifyAll, Waiting

LEMMA JobsKeepWake ==
    ASSUME WakeInv, NEW j \in Jobs, Submit(j) \/ SubmitNotify(j)
    PROVE  WakeInv'
<1> USE DEF WakeInv, WorkerTypes, ExitedAfterQueue, StoppedUnused, Asleep, Pending,
            workerVars, historyVars
<1>1. CASE Submit(j)
  BY <1>1 DEF Submit
<1>2. CASE SubmitNotify(j)
  <2>1. NotifyOne
    BY <1>2 DEF SubmitNotify
  <2>2. ~(queue' # <<>> /\ Asleep')
    BY <1>2, <2>1, OneAwake DEF SubmitNotify
  <2>3. ExitedAfterQueue'
    BY <1>2, <2>1, NotifyTypes DEF SubmitNotify
  <2>4. WorkerTypes' /\ StoppedUnused'
    BY <1>2, <2>1, NotifyTypes DEF SubmitNotify
  <2> QED
    BY <2>2, <2>3, <2>4
<1> QED
  BY <1>1, <1>2

LEMMA CallersKeepWake ==
    ASSUME WakeInv, NEW c \in Callers, Dispatch(c) \/ CallerStep(c)
    PROVE  WakeInv'
<1> USE DEF WakeInv, WorkerTypes, ExitedAfterQueue, StoppedUnused, Asleep, Pending,
            workerVars, historyVars
<1>1. CASE Dispatch(c)
  BY <1>1 DEF Dispatch
<1>2. CASE DispatchNotify(c)
  <2>1. NotifyAll
    BY <1>2 DEF DispatchNotify
  <2>2. ~(queue' # <<>> /\ Asleep')
    BY <1>2, <2>1, AllAwake DEF DispatchNotify
  <2>3. ExitedAfterQueue'
    BY <1>2, <2>1, NotifyTypes DEF DispatchNotify
  <2>4. WorkerTypes' /\ StoppedUnused'
    BY <1>2, <2>1, NotifyTypes DEF DispatchNotify
  <2> QED
    BY <2>2, <2>3, <2>4
<1>3. CASE CallerLock(c)
  BY <1>3 DEF CallerLock
<1>4. CASE CallerCheck(c)
  BY <1>4 DEF CallerCheck
<1>5. CASE CallerSleep(c)
  BY <1>5 DEF CallerSleep
<1> QED
  BY <1>1, <1>2, <1>3, <1>4, <1>5 DEF CallerStep

LEMMA WorkersKeepWake ==
    ASSUME WakeInv, NEW w \in Workers, WorkerStep(w)
    PROVE  WakeInv'
<1> USE DEF WakeInv, WorkerTypes, ExitedAfterQueue, StoppedUnused, Asleep, Pending,
            historyVars
<1>1. CASE WorkerTake(w)
  BY <1>1 DEF WorkerTake
<1>2. CASE WorkerWait(w)
  BY <1>2 DEF WorkerWait
<1>3. CASE WorkerExit(w)
  BY <1>3 DEF WorkerExit
<1>4. CASE RunJob(w)
  BY <1>4 DEF RunJob
<1>5. CASE RunItem(w)
  BY <1>5 DEF RunItem
<1>6. CASE CountDown(w)
  BY <1>6 DEF CountDown
<1>7. CASE NotifyBatch(w)
  BY <1>7 DEF NotifyBatch
<1> QED
  BY <1>1, <1>2, <1>3, <1>4, <1>5, <1>6, <1>7 DEF WorkerStep

LEMMA StopKeepsWake ==
    ASSUME WakeInv, Stop \/ StopNotify \/ Join
    PROVE  WakeInv'
<1> USE DEF WakeInv, WorkerTypes, ExitedAfterQueue, StoppedUnused, Asleep, Pending,
            workerVars, historyVars
<1>1. CASE Stop
  BY <1>1 DEF Stop
<1>2. CASE StopNotify
  <2>1. NotifyAll
    BY <1>2 DEF StopNotify
  <2>2. ~(queue' # <<>> /\ Asleep')
    BY <1>2, <2>1, AllAwake DEF StopNotify
  <2>3. ExitedAfterQueue'
    BY <1>2, <2>1, NotifyTypes DEF StopNotify
  <2>4. WorkerTypes' /\ StoppedUnused'
    BY <1>2, <2>1, NotifyTypes DEF StopNotify
  <2> QED
    BY <2>2, <2>3, <2>4
<1>3. CASE Join
  BY <1>3 DEF Join
<1> QED
  BY <1>1, <1>2, <1>3

(* submit() and dispatch() queue under the mutex and notify after it: no   *)
(* queued task is ever left with everybody asleep and nobody to wake them. *)
THEOREM NoWakeupIsLost == Spec => []NoLostWakeup
<1>1. WakeInv /\ UNCHANGED vars => WakeInv'
  BY DEF WakeInv, WorkerTypes, ExitedAfterQueue, StoppedUnused, Asleep, Pending,
         vars, workerVars, historyVars
<1>2. WakeInv /\ [Next]_vars => WakeInv'
  BY <1>1, JobsKeepWake, CallersKeepWake, WorkersKeepWake, StopKeepsWake DEF Next
<1>3. WakeInv => NoLostWakeup
  BY DEF WakeInv, Asleep, Pending, NoLostWakeup
<1> QED
  BY WakeInit, <1>2, <1>3, PTL DEF Spec

-----------------------------------------------------------------------------
(* That every item is run once rests on where its task is: in the queue,   *)
(* with a worker that runs it, or with one that is about to count it.      *)
Tasks == {ItemTask(c, i) : c \in Callers, i \in Items} \cup {JobTask(j) : j \in Jobs}

Busy == {w \in Workers : workerPc[w] \in {"run", "count"}}

Queued(t)   == \E k \in 1..Len(queue) : queue[k] = t
Running(t)  == \E w \in Workers : workerPc[w] = "run" /\ task[w] = t
Counting(t) == \E w \in Workers : workerPc[w] = "count" /\ task[w] = t

\* Still to be run; and what the counter of the caller's batch counts.
Due(t)  == Queued(t) \/ Running(t)
Left(c) == {i \in Items : Due(ItemTask(c, i)) \/ Counting(ItemTask(c, i))}

PoolTypes ==
    /\ WorkerTypes
    /\ queue \in Seq(Tasks)
    /\ task \in [Workers -> Tasks \cup {Nobody}]
    /\ \A w \in Busy : task[w] \in Tasks
    /\ \A w \in Workers : workerPc[w] \in {"count", "lock"} =>
          \E c \in Callers, i \in Items : task[w] = ItemTask(c, i)
    /\ remaining \in [Callers -> Nat] /\ batches \in [Callers -> Nat]
    /\ runs \in [Callers -> [Items -> Nat]] /\ jobRuns \in [Jobs -> Nat]

\* No task is in two places.
OnePlace ==
    /\ \A k, l \in 1..Len(queue) : queue[k] = queue[l] => k = l
    /\ \A v, w \in Busy : task[v] = task[w] => v = w
    /\ \A k \in 1..Len(queue), w \in Busy : queue[k] # task[w]

\* An item was run in every batch, but for what is still due in the last one,
\* and the counter is the number of items not yet counted.
Accounts ==
    \A c \in Callers :
        /\ \A i \in Items :
              batches[c] = runs[c][i] + IF Due(ItemTask(c, i)) THEN 1 ELSE 0
        /\ remaining[c] = Cardinality(Left(c))
        /\ callerPc[c] = "idle" => Left(c) = {}

\* A job was run once, unless it is due or was not submitted.
JobAccounts ==
    \A j \in Jobs :
        /\ jobPc[j] = "new" => ~Due(JobTask(j))
        /\ jobRuns[j] = IF jobPc[j] = "new" \/ Due(JobTask(j)) THEN 0 ELSE 1

Emptied == stopping = "joined" => \A w \in Workers : workerPc[w] = "exited"

RunInv == WakeInv /\ PoolTypes /\ OnePlace /\ Accounts /\ JobAccounts /\ Emptied

LEMMA TaskFacts ==
    /\ \A c, d \in Callers, i, k \in Items : ItemTask(c, i) = ItemTask(d, k) => c = d /\ i = k
    /\ \A j, l \in Jobs : JobTask(j) = JobTask(l) => j = l
    /\ \A c \in Callers, i \in Items, j \in Jobs : ItemTask(c, i) # JobTask(j)
    /\ \A c \in Callers, i \in Items : ItemTask(c, i) \in Tasks /\ ItemTask(c, i).for = c
                                       /\ ItemTask(c, i).item = i
    /\ \A j \in Jobs : JobTask(j) \in Tasks /\ JobTask(j).for = Nobody /\ JobTask(j).item = j
    /\ \A t \in Tasks : \/ \E j \in Jobs : t = JobTask(j)
                        \/ \E c \in Callers, i \in Items : t = ItemTask(c, i)
  BY DEF ItemTask, JobTask, Tasks

LEMMA LeftFinite ==
    ASSUME NEW c
    PROVE  /\ IsFiniteSet(Left(c)) /\ Cardinality(Left(c)) \in Nat
           /\ Cardinality(Left(c)) = 0 <=> Left(c) = {}
<1>1. IsFiniteSet(Items) /\ Left(c) \in SUBSET Items
  BY DEF Left
<1>2. IsFiniteSet(Left(c))
  BY <1>1, FS_Subset
<1> QED
  BY <1>2, FS_CardinalityType, FS_EmptySet

\* Steps that neither queue nor take, run or count a task.
SamePlaces ==
    /\ queue' = queue
    /\ Busy' = Busy
    /\ \A w \in Busy : workerPc'[w] = workerPc[w] /\ task'[w] = task[w]

LEMMA SamePlacesFacts ==
    ASSUME SamePlaces
    PROVE  /\ \A t : Due(t)' <=> Due(t)
           /\ \A t : Counting(t)' <=> Counting(t)
           /\ \A c : Left(c)' = Left(c)
           /\ OnePlace => OnePlace'
<1>1. ASSUME NEW t PROVE Queued(t)' <=> Queued(t)
  BY DEF SamePlaces, Queued
<1>2. ASSUME NEW t PROVE (Running(t)' <=> Running(t)) /\ (Counting(t)' <=> Counting(t))
  BY DEF SamePlaces, Running, Counting, Busy
<1>3. ASSUME NEW t PROVE Due(t)' <=> Due(t)
  BY <1>1, <1>2 DEF Due
<1>4. \A c : Left(c)' = Left(c)
  BY <1>2, <1>3 DEF Left
<1>5. OnePlace => OnePlace'
  BY DEF SamePlaces, OnePlace
<1> QED
  BY <1>2, <1>3, <1>4, <1>5

\* What is left of RunInv' after such a step that leaves the counters alone.
LEMMA SamePlacesKeep ==
    ASSUME RunInv, SamePlaces, WakeInv', UNCHANGED <<remaining, batches, runs, jobRuns>>,
           \A c \in Callers : callerPc'[c] = "idle" => callerPc[c] = "idle" \/ remaining[c] = 0,
           \A j \in Jobs : jobPc'[j] = "new" <=> jobPc[j] = "new",
           task' \in [Workers -> Tasks \cup {Nobody}],
           \A w \in Workers : workerPc'[w] \in {"run", "count", "lock"} =>
                 workerPc'[w] = workerPc[w] /\ task'[w] = task[w],
           Emptied'
    PROVE  RunInv'
<1> USE DEF RunInv
<1>1. PoolTypes'
  <2>1. WorkerTypes'
    BY DEF WakeInv
  <2>2. \A w \in Busy' : task'[w] \in Tasks
    BY DEF PoolTypes, SamePlaces
  <2>3. queue' \in Seq(Tasks) /\ task' \in [Workers -> Tasks \cup {Nobody}]
    BY DEF PoolTypes, SamePlaces
  <2>4. \A w \in Workers : workerPc'[w] \in {"count", "lock"} =>
          \E c \in Callers, i \in Items : task'[w] = ItemTask(c, i)
    BY DEF PoolTypes
  <2>5. /\ remaining' \in [Callers -> Nat] /\ batches' \in [Callers -> Nat]
        /\ runs' \in [Callers -> [Items -> Nat]] /\ jobRuns' \in [Jobs -> Nat]
    BY DEF PoolTypes
  <2> QED
    BY <2>1, <2>2, <2>3, <2>4, <2>5 DEF PoolTypes
<1>2. OnePlace'
  BY SamePlacesFacts
<1>3. Accounts'
  <2> SUFFICES ASSUME NEW c \in Callers
               PROVE  /\ \A i \in Items :
                            batches'[c] = runs'[c][i] + IF Due(ItemTask(c, i))' THEN 1 ELSE 0
                      /\ remaining'[c] = Cardinality(Left(c)')
                      /\ callerPc'[c] = "idle" => Left(c)' = {}
    BY DEF Accounts
  <2>1. \A i \in Items : batches'[c] = runs'[c][i] + IF Due(ItemTask(c, i))' THEN 1 ELSE 0
    BY SamePlacesFacts DEF Accounts
  <2>2. remaining'[c] = Cardinality(Left(c)')
    BY SamePlacesFacts DEF Accounts
  <2>3. callerPc'[c] = "idle" => Left(c)' = {}
    BY SamePlacesFacts, LeftFinite DEF Accounts
  <2> QED
    BY <2>1, <2>2, <2>3
<1>4. JobAccounts'
  BY SamePlacesFacts DEF JobAccounts
<1> QED
  BY <1>1, <1>2, <1>3, <1>4

LEMMA RunInit == Init => RunInv
<1> SUFFICES ASSUME Init PROVE RunInv
  OBVIOUS
<1>1. \A t : ~Due(t) /\ ~Counting(t)
  BY DEF Init, Due, Queued, Running, Counting
<1>2. \A c : Left(c) = {}
  BY <1>1 DEF Left
<1>3. PoolTypes
  BY WakeInit DEF Init, PoolTypes, WakeInv, Busy
<1>4. OnePlace
  BY DEF Init, OnePlace, Busy
<1>5. Accounts
  <2> SUFFICES ASSUME NEW c \in Callers
               PROVE  /\ \A i \in Items :
                            batches[c] = runs[c][i] + IF Due(ItemTask(c, i)) THEN 1 ELSE 0
                      /\ remaining[c] = Cardinality(Left(c)) /\ Left(c) = {}
    BY DEF Accounts
  <2>1. remaining[c] = Cardinality(Left(c)) /\ Left(c) = {}
    BY <1>2, FS_EmptySet DEF Init
  <2>2. ASSUME NEW i \in Items
        PROVE  batches[c] = runs[c][i] + IF Due(ItemTask(c, i)) THEN 1 ELSE 0
    <3>1. batches[c] = 0 /\ runs[c][i] = 0
      BY DEF Init
    <3> QED
      BY <1>1, <3>1
  <2> QED
    BY <2>1, <2>2
<1>6. JobAccounts
  BY <1>1 DEF Init, JobAccounts
<1>7. Emptied
  BY DEF Init, Emptied
<1> QED
  BY <1>3, <1>4, <1>5, <1>6, <1>7, WakeInit DEF RunInv

LEMMA CallersKeepRun ==
    ASSUME RunInv, NEW c \in Callers, CallerStep(c)
    PROVE  RunInv'
<1>1. WakeInv /\ WakeInv'
  BY CallersKeepWake DEF RunInv
<1> USE DEF RunInv, PoolTypes, WorkerTypes, Emptied, workerVars, historyVars
<1>2. CASE DispatchNotify(c)
  <2>1. SamePlaces
    BY <1>2 DEF DispatchNotify, NotifyAll, SamePlaces, Busy, Waiting
  <2> QED
    BY <1>1, <1>2, <2>1, SamePlacesKeep DEF DispatchNotify, NotifyAll, Waiting
<1>3. CASE CallerLock(c)
  BY <1>1, <1>3, SamePlacesKeep DEF CallerLock, SamePlaces, Busy
<1>4. CASE CallerCheck(c)
  BY <1>1, <1>4, SamePlacesKeep DEF CallerCheck, SamePlaces, Busy
<1>5. CASE CallerSleep(c)
  BY <1>1, <1>5, SamePlacesKeep DEF CallerSleep, SamePlaces, Busy
<1> QED
  BY <1>2, <1>3, <1>4, <1>5 DEF CallerStep

LEMMA NotifyKeepsRun ==
    ASSUME RunInv, NEW j \in Jobs, SubmitNotify(j)
    PROVE  RunInv'
<1>1. WakeInv /\ WakeInv'
  BY JobsKeepWake DEF RunInv
<1> USE DEF RunInv, PoolTypes, WorkerTypes, Emptied, historyVars
<1>2. SamePlaces
  BY DEF SubmitNotify, NotifyOne, SamePlaces, Busy, Waiting
<1>3. Emptied'
  BY DEF SubmitNotify, NotifyOne, Waiting
<1> QED
  BY <1>1, <1>2, <1>3, SamePlacesKeep DEF SubmitNotify, NotifyOne, Waiting

LEMMA StopKeepsRun ==
    ASSUME RunInv, Stop \/ StopNotify \/ Join
    PROVE  RunInv'
<1>1. WakeInv /\ WakeInv'
  BY StopKeepsWake DEF RunInv
<1> USE DEF RunInv, PoolTypes, WorkerTypes, Emptied, workerVars, historyVars
<1>2. CASE Stop
  BY <1>1, <1>2, SamePlacesKeep DEF Stop, SamePlaces, Busy
<1>3. CASE StopNotify
  <2>1. SamePlaces
    BY <1>3 DEF StopNotify, NotifyAll, SamePlaces, Busy, Waiting
  <2> QED
    BY <1>1, <1>3, <2>1, SamePlacesKeep DEF StopNotify, NotifyAll, Waiting
<1>4. CASE Join
  BY <1>1, <1>4, SamePlacesKeep DEF Join, SamePlaces, Busy
<1> QED
  BY <1>2, <1>3, <1>4

LEMMA WorkerQuietKeepsRun ==
    ASSUME RunInv, NEW w \in Workers, WorkerWait(w) \/ WorkerExit(w) \/ NotifyBatch(w)
    PROVE  RunInv'
<1>1. WakeInv /\ WakeInv'
  BY WorkersKeepWake DEF RunInv, WorkerStep
<1> USE DEF RunInv, PoolTypes, WorkerTypes, Emptied, historyVars
<1>2. CASE WorkerWait(w)
  BY <1>1, <1>2, SamePlacesKeep DEF WorkerWait, SamePlaces, Busy
<1>3. CASE WorkerExit(w)
  BY <1>1, <1>3, SamePlacesKeep DEF WorkerExit, SamePlaces, Busy
<1>4. CASE NotifyBatch(w)
  BY <1>1, <1>4, SamePlacesKeep DEF NotifyBatch, SamePlaces, Busy
<1> QED
  BY <1>2, <1>3, <1>4

\* The head of the queue moves to the worker.
LEMMA TakeKeepsRun ==
    ASSUME RunInv, NEW w \in Workers, WorkerTake(w)
    PROVE  RunInv'
<1>1. WakeInv /\ WakeInv'
  BY WorkersKeepWake DEF RunInv, WorkerStep
<1>2. /\ queue \in Seq(Tasks) /\ queue # <<>> /\ Len(queue) \in Nat
      /\ queue' \in Seq(Tasks) /\ Len(queue') = Len(queue) - 1
      /\ \A k \in 1..Len(queue') : queue'[k] = queue[k + 1]
      /\ queue[1] \in Tasks /\ task'[w] = queue[1]
  BY DEF RunInv, PoolTypes, WorkerTake
<1>3. /\ workerPc[w] = "loop" /\ w \notin Busy /\ workerPc'[w] = "run"
      /\ \A v \in Workers \ {w} : workerPc'[v] = workerPc[v] /\ task'[v] = task[v]
      /\ Busy' = Busy \cup {w}
  BY DEF RunInv, PoolTypes, WorkerTypes, WorkerTake, Busy
<1>4. PoolTypes'
  <2>1. task' \in [Workers -> Tasks \cup {Nobody}]
    BY <1>2 DEF RunInv, PoolTypes, WorkerTake
  <2>2. \A v \in Busy' : task'[v] \in Tasks
    BY <1>2, <1>3 DEF RunInv, PoolTypes, Busy
  <2>3. \A v \in Workers : workerPc'[v] \in {"count", "lock"} =>
          \E c \in Callers, i \in Items : task'[v] = ItemTask(c, i)
    <3> SUFFICES ASSUME NEW v \in Workers, workerPc'[v] \in {"count", "lock"}
                 PROVE  \E c \in Callers, i \in Items : task'[v] = ItemTask(c, i)
      OBVIOUS
    <3>1. task'[v] = task[v] /\ workerPc[v] \in {"count", "lock"}
      BY <1>3
    <3> QED
      BY <3>1 DEF RunInv, PoolTypes
  <2>4. UNCHANGED <<remaining, batches, runs, jobRuns>>
    BY DEF WorkerTake, historyVars
  <2> QED
    BY <1>1, <1>2, <2>1, <2>2, <2>3, <2>4 DEF WakeInv, RunInv, PoolTypes
<1>5. OnePlace'
  <2>1. ASSUME NEW k \in 1..Len(queue'), NEW l \in 1..Len(queue'), queue'[k] = queue'[l]
        PROVE  k = l
    BY <1>2, <2>1 DEF RunInv, OnePlace
  <2>2. ASSUME NEW u \in Busy', NEW v \in Busy', task'[u] = task'[v]
        PROVE  u = v
    <3>1. \A x \in Busy : task'[x] = task[x] /\ task[x] # queue[1]
      BY <1>2, <1>3 DEF RunInv, OnePlace, Busy
    <3> QED
      BY <1>2, <1>3, <2>2, <3>1 DEF RunInv, OnePlace
  <2>3. ASSUME NEW k \in 1..Len(queue'), NEW v \in Busy'
        PROVE  queue'[k] # task'[v]
    <3>1. k + 1 \in 1..Len(queue) /\ 1 \in 1..Len(queue) /\ k + 1 # 1
      BY <1>2
    <3>2. queue[k + 1] # queue[1]
      BY <3>1 DEF RunInv, OnePlace
    <3>3. v # w => v \in Busy /\ task'[v] = task[v]
      BY <1>3 DEF Busy
    <3> QED
      BY <1>2, <3>1, <3>2, <3>3 DEF RunInv, OnePlace
  <2> QED
    BY <2>1, <2>2, <2>3 DEF OnePlace
<1>6. ASSUME NEW t PROVE (Due(t)' <=> Due(t)) /\ (Counting(t)' <=> Counting(t))
  <2>1. Queued(t) <=> Queued(t)' \/ t = queue[1]
    <3>1. Queued(t)' => Queued(t)
      BY <1>2 DEF Queued
    <3>2. t = queue[1] => Queued(t)
      BY <1>2 DEF Queued
    <3>3. ASSUME NEW k \in 1..Len(queue), queue[k] = t, k # 1 PROVE Queued(t)'
      <4>1. k - 1 \in 1..Len(queue') /\ queue'[k - 1] = queue[(k - 1) + 1] /\ (k - 1) + 1 = k
        BY <1>2, <3>3
      <4> QED
        BY <3>3, <4>1 DEF Queued
    <3> QED
      BY <3>1, <3>2, <3>3 DEF Queued
  <2>2. Running(t)' <=> Running(t) \/ t = queue[1]
    BY <1>2, <1>3 DEF Running
  <2>3. Counting(t)' <=> Counting(t)
    BY <1>3 DEF Counting
  <2> QED
    BY <2>1, <2>2, <2>3 DEF Due
<1>7. \A c : Left(c)' = Left(c)
  BY <1>6 DEF Left
<1>8. Accounts' /\ JobAccounts'
  BY <1>6, <1>7 DEF RunInv, Accounts, JobAccounts, WorkerTake, historyVars
<1>9. Emptied'
  BY <1>3 DEF RunInv, Emptied, WorkerTake
<1> QED
  BY <1>1, <1>4, <1>5, <1>8, <1>9 DEF RunInv

LEMMA Increment ==
    ASSUME NEW S, NEW f \in [S -> Nat], NEW x \in S
    PROVE  /\ [f EXCEPT ![x] = @ + 1] \in [S -> Nat]
           /\ [f EXCEPT ![x] = @ + 1][x] = f[x] + 1
           /\ \A y \in S \ {x} : [f EXCEPT ![x] = @ + 1][y] = f[y]
  OBVIOUS

\* The task a worker runs stops being due, and nothing else does.
LEMMA RunEndsDue ==
    ASSUME RunInv, NEW w \in Workers, workerPc[w] = "run", workerPc'[w] # "run",
           queue' = queue,
           \A v \in Workers \ {w} : workerPc'[v] = workerPc[v] /\ task'[v] = task[v]
    PROVE  \A t : Due(t)' <=> Due(t) /\ t # task[w]
<1>1. w \in Busy
  BY DEF Busy
<1>2. ~Queued(task[w])
  BY <1>1 DEF RunInv, OnePlace, Queued
<1>3. \A v \in Workers : workerPc[v] = "run" /\ task[v] = task[w] => v = w
  BY <1>1 DEF RunInv, OnePlace, Busy
<1>4. \A t : Queued(t)' <=> Queued(t)
  BY DEF Queued
<1>5. ASSUME NEW t PROVE Running(t)' <=> Running(t) /\ t # task[w]
  BY <1>3 DEF Running
<1> QED
  BY <1>2, <1>4, <1>5 DEF Due

LEMMA JobKeepsRun ==
    ASSUME RunInv, NEW w \in Workers, RunJob(w)
    PROVE  RunInv'
<1>1. WakeInv /\ WakeInv'
  BY WorkersKeepWake DEF RunInv, WorkerStep
<1>2. /\ workerPc[w] = "run" /\ workerPc'[w] = "loop" /\ task'[w] = Nobody
      /\ \A v \in Workers \ {w} : workerPc'[v] = workerPc[v] /\ task'[v] = task[v]
      /\ Busy' = Busy \ {w} /\ w \in Busy
      /\ queue' = queue /\ task' \in [Workers -> Tasks \cup {Nobody}]
  BY DEF RunInv, PoolTypes, WorkerTypes, RunJob, Busy
<1>3. PICK j \in Jobs : task[w] = JobTask(j)
  <2>1. task[w] \in Tasks /\ task[w].for = Nobody
    BY <1>2 DEF RunInv, PoolTypes, RunJob
  <2> QED
    BY <2>1, TaskFacts
<1>4. \A t : Due(t)' <=> Due(t) /\ t # JobTask(j)
  BY <1>2, <1>3, RunEndsDue
<1>5. \A t : Counting(t)' <=> Counting(t)
  BY <1>2 DEF Counting
<1>6. Due(JobTask(j))
  BY <1>2, <1>3 DEF Due, Running
<1>7. jobRuns' = [jobRuns EXCEPT ![j] = @ + 1]
  BY <1>3, TaskFacts DEF RunJob
<1>8. PoolTypes'
  <2>1. \A v \in Busy' : task'[v] \in Tasks
    BY <1>2 DEF RunInv, PoolTypes, Busy
  <2>2. ASSUME NEW v \in Workers, workerPc'[v] \in {"count", "lock"}
        PROVE  \E c \in Callers, i \in Items : task'[v] = ItemTask(c, i)
    <3>1. task'[v] = task[v] /\ workerPc[v] \in {"count", "lock"}
      BY <1>2, <2>2
    <3> QED
      BY <3>1 DEF RunInv, PoolTypes
  <2>3. jobRuns' \in [Jobs -> Nat] /\ UNCHANGED <<remaining, batches, runs>>
    <3>1. jobRuns \in [Jobs -> Nat]
      BY DEF RunInv, PoolTypes
    <3> QED
      BY <1>7, <3>1, Increment DEF RunJob
  <2>4. queue' \in Seq(Tasks)
    BY <1>2 DEF RunInv, PoolTypes
  <2> QED
    BY <1>1, <1>2, <2>1, <2>2, <2>3, <2>4 DEF WakeInv, RunInv, PoolTypes
<1>9. OnePlace'
  BY <1>2 DEF RunInv, OnePlace, Busy
<1>10. Accounts'
  <2>1. \A c \in Callers, i \in Items :
           (Due(ItemTask(c, i))' <=> Due(ItemTask(c, i)))
    BY <1>4, TaskFacts
  <2>2. \A c \in Callers : Left(c)' = Left(c)
    BY <1>5, <2>1 DEF Left
  <2> QED
    BY <2>1, <2>2 DEF RunInv, Accounts, RunJob
<1>11. JobAccounts'
  <2> SUFFICES ASSUME NEW l \in Jobs
               PROVE  /\ jobPc'[l] = "new" => ~Due(JobTask(l))'
                      /\ jobRuns'[l] = IF jobPc'[l] = "new" \/ Due(JobTask(l))' THEN 0 ELSE 1
    BY DEF JobAccounts
  <2>1. CASE l = j
    <3>1. jobPc[j] # "new" /\ jobRuns[j] = 0
      BY <1>6 DEF RunInv, JobAccounts
    <3>2. jobRuns'[j] = 1 /\ jobPc' = jobPc
      BY <1>7, <3>1 DEF RunInv, PoolTypes, RunJob
    <3> QED
      BY <1>4, <2>1, <3>1, <3>2
  <2>2. CASE l # j
    <3>1. jobRuns'[l] = jobRuns[l] /\ jobPc' = jobPc
      BY <1>7, <2>2 DEF RunInv, PoolTypes, RunJob
    <3>2. Due(JobTask(l))' <=> Due(JobTask(l))
      BY <1>4, <2>2, TaskFacts
    <3> QED
      BY <3>1, <3>2 DEF RunInv, JobAccounts
  <2> QED
    BY <2>1, <2>2
<1>12. Emptied'
  BY <1>2 DEF RunInv, Emptied, RunJob
<1> QED
  BY <1>1, <1>8, <1>9, <1>10, <1>11, <1>12 DEF RunInv

\* Running an item moves it from what is due to what is to be counted.
LEMMA ItemKeepsRun ==
    ASSUME RunInv, NEW w \in Workers, RunItem(w)
    PROVE  RunInv'
<1>1. WakeInv /\ WakeInv'
  BY WorkersKeepWake DEF RunInv, WorkerStep
<1>2. /\ workerPc[w] = "run" /\ workerPc'[w] = "count" /\ task' = task
      /\ \A v \in Workers \ {w} : workerPc'[v] = workerPc[v]
      /\ Busy' = Busy /\ w \in Busy /\ queue' = queue
  BY DEF RunInv, PoolTypes, WorkerTypes, RunItem, Busy
<1>3. PICK c \in Callers, i \in Items : task[w] = ItemTask(c, i)
  <2>1. task[w] \in Tasks /\ task[w].for # Nobody
    BY <1>2 DEF RunInv, PoolTypes, RunItem
  <2> QED
    BY <2>1, TaskFacts
<1>4. \A t : Due(t)' <=> Due(t) /\ t # ItemTask(c, i)
  BY <1>2, <1>3, RunEndsDue
<1>5. ASSUME NEW t PROVE Counting(t)' <=> Counting(t) \/ t = ItemTask(c, i)
  BY <1>2, <1>3 DEF Counting
<1>6. Due(ItemTask(c, i))
  BY <1>2, <1>3 DEF Due, Running
<1>7. runs' = [runs EXCEPT ![c][i] = @ + 1]
  <2>1. task[w].for = c /\ task[w].item = i
    BY <1>3, TaskFacts
  <2> QED
    BY <2>1 DEF RunItem
<1>8. PoolTypes'
  <2>1. \A v \in Busy' : task'[v] \in Tasks
    BY <1>2 DEF RunInv, PoolTypes, Busy
  <2>2. \A v \in Workers : workerPc'[v] \in {"count", "lock"} =>
           \E d \in Callers, k \in Items : task'[v] = ItemTask(d, k)
    BY <1>2, <1>3 DEF RunInv, PoolTypes
  <2>3. runs' \in [Callers -> [Items -> Nat]] /\ UNCHANGED <<remaining, batches, jobRuns>>
    <3>1. runs \in [Callers -> [Items -> Nat]] /\ runs[c] \in [Items -> Nat]
      BY DEF RunInv, PoolTypes
    <3>2. [runs[c] EXCEPT ![i] = @ + 1] \in [Items -> Nat]
      BY <3>1, Increment
    <3>3. runs' = [runs EXCEPT ![c] = [runs[c] EXCEPT ![i] = @ + 1]]
      BY <1>7
    <3> QED
      BY <3>1, <3>2, <3>3 DEF RunItem
  <2>4. queue' \in Seq(Tasks) /\ task' \in [Workers -> Tasks \cup {Nobody}]
    BY <1>2 DEF RunInv, PoolTypes
  <2> QED
    BY <1>1, <1>2, <2>1, <2>2, <2>3, <2>4 DEF WakeInv, RunInv, PoolTypes
<1>9. OnePlace'
  BY <1>2 DEF RunInv, OnePlace
<1>10. Accounts'
  <2> SUFFICES ASSUME NEW d \in Callers
               PROVE  /\ \A k \in Items :
                            batches'[d] = runs'[d][k] + IF Due(ItemTask(d, k))' THEN 1 ELSE 0
                      /\ remaining'[d] = Cardinality(Left(d)')
                      /\ callerPc'[d] = "idle" => Left(d)' = {}
    BY DEF Accounts
  <2>1. UNCHANGED <<remaining, callerPc, batches>>
    BY DEF RunItem
  <2>2. Left(d)' = Left(d)
    <3>1. ASSUME NEW k \in Items
          PROVE  Due(ItemTask(d, k))' \/ Counting(ItemTask(d, k))'
                    <=> Due(ItemTask(d, k)) \/ Counting(ItemTask(d, k))
      BY <1>4, <1>5, <1>6
    <3> QED
      BY <3>1 DEF Left
  <2>3. ASSUME NEW k \in Items
        PROVE  batches'[d] = runs'[d][k] + IF Due(ItemTask(d, k))' THEN 1 ELSE 0
    <3>1. batches[d] = runs[d][k] + IF Due(ItemTask(d, k)) THEN 1 ELSE 0
      BY DEF RunInv, Accounts
    <3>2. runs[d][k] \in Nat
      BY DEF RunInv, PoolTypes
    <3>3. CASE d = c /\ k = i
      <4>1. runs'[d][k] = runs[d][k] + 1
        BY <1>7, <3>3 DEF RunInv, PoolTypes
      <4> QED
        BY <1>4, <1>6, <2>1, <3>1, <3>2, <3>3, <4>1
    <3>4. CASE ~(d = c /\ k = i)
      <4>1. runs'[d][k] = runs[d][k]
        BY <1>7, <3>4 DEF RunInv, PoolTypes
      <4>2. Due(ItemTask(d, k))' <=> Due(ItemTask(d, k))
        BY <1>4, <3>4, TaskFacts
      <4> QED
        BY <2>1, <3>1, <4>1, <4>2
    <3> QED
      BY <3>3, <3>4
  <2> QED
    BY <2>1, <2>2, <2>3 DEF RunInv, Accounts
<1>11. JobAccounts'
  <2>1. \A l \in Jobs : Due(JobTask(l))' <=> Due(JobTask(l))
    BY <1>4, TaskFacts
  <2> QED
    BY <2>1 DEF RunInv, JobAccounts, RunItem
<1>12. Emptied'
  BY <1>2 DEF RunInv, Emptied, RunItem
<1> QED
  BY <1>1, <1>8, <1>9, <1>10, <1>11, <1>12 DEF RunInv

\* Counting an item takes it out of what is left of its batch, by one.
LEMMA CountKeepsRun ==
    ASSUME RunInv, NEW w \in Workers, CountDown(w)
    PROVE  RunInv'
<1>1. WakeInv /\ WakeInv'
  BY WorkersKeepWake DEF RunInv, WorkerStep
<1>2. /\ workerPc[w] = "count" /\ workerPc'[w] \in {"lock", "loop"}
      /\ workerPc'[w] = "lock" => task'[w] = task[w]
      /\ task' \in [Workers -> Tasks \cup {Nobody}]
      /\ \A v \in Workers \ {w} : workerPc'[v] = workerPc[v] /\ task'[v] = task[v]
      /\ Busy' = Busy \ {w} /\ w \in Busy /\ queue' = queue
  BY DEF RunInv, PoolTypes, WorkerTypes, CountDown, Busy
<1>3. PICK c \in Callers, i \in Items : task[w] = ItemTask(c, i)
  BY <1>2 DEF RunInv, PoolTypes
<1>4. /\ \A t : Due(t)' <=> Due(t)
      /\ ~Due(ItemTask(c, i))
  <2>1. ASSUME NEW t PROVE Queued(t)' <=> Queued(t)
    BY <1>2 DEF Queued
  <2>2. ASSUME NEW t PROVE Running(t)' <=> Running(t)
    BY <1>2 DEF Running
  <2>3. ~Queued(ItemTask(c, i))
    BY <1>2, <1>3 DEF RunInv, OnePlace, Queued
  <2>4. ~Running(ItemTask(c, i))
    BY <1>2, <1>3 DEF RunInv, OnePlace, Running, Busy
  <2> QED
    BY <2>1, <2>2, <2>3, <2>4 DEF Due
<1>5. /\ Counting(ItemTask(c, i)) /\ ~Counting(ItemTask(c, i))'
      /\ \A t : t # ItemTask(c, i) => (Counting(t)' <=> Counting(t))
  <2>1. Counting(ItemTask(c, i))
    BY <1>2, <1>3 DEF Counting
  <2>2. ~Counting(ItemTask(c, i))'
    BY <1>2, <1>3 DEF RunInv, OnePlace, Counting, Busy
  <2>3. ASSUME NEW t, t # ItemTask(c, i) PROVE Counting(t)' <=> Counting(t)
    BY <1>2, <1>3, <2>3 DEF Counting
  <2> QED
    BY <2>1, <2>2, <2>3
<1>6. remaining' = [remaining EXCEPT ![c] = @ - 1]
  <2>1. task[w].for = c
    BY <1>3, TaskFacts
  <2> QED
    BY <2>1 DEF CountDown
<1>7. /\ Left(c)' = Left(c) \ {i} /\ i \in Left(c)
      /\ \A d \in Callers \ {c} : Left(d)' = Left(d)
  <2>1. i \in Left(c)
    BY <1>5 DEF Left
  <2>2. Left(c)' = Left(c) \ {i}
    <3>1. ASSUME NEW k \in Items, k # i
          PROVE  Due(ItemTask(c, k))' \/ Counting(ItemTask(c, k))'
                    <=> Due(ItemTask(c, k)) \/ Counting(ItemTask(c, k))
      <4>1. ItemTask(c, k) # ItemTask(c, i)
        BY <3>1, TaskFacts
      <4> QED
        BY <1>4, <1>5, <4>1
    <3>2. ~(Due(ItemTask(c, i))' \/ Counting(ItemTask(c, i))')
      BY <1>4, <1>5
    <3> QED
      BY <3>1, <3>2 DEF Left
  <2>3. ASSUME NEW d \in Callers, d # c PROVE Left(d)' = Left(d)
    <3>1. ASSUME NEW k \in Items
          PROVE  Due(ItemTask(d, k))' \/ Counting(ItemTask(d, k))'
                    <=> Due(ItemTask(d, k)) \/ Counting(ItemTask(d, k))
      <4>1. ItemTask(d, k) # ItemTask(c, i)
        BY <2>3, TaskFacts
      <4> QED
        BY <1>4, <1>5, <4>1
    <3> QED
      BY <3>1 DEF Left
  <2> QED
    BY <2>1, <2>2, <2>3
<1>8. Cardinality(Left(c)') = Cardinality(Left(c)) - 1 /\ Cardinality(Left(c)) \in Nat \ {0}
  <2>1. IsFiniteSet(Left(c)) /\ Cardinality(Left(c)) \in Nat /\ Cardinality(Left(c)) # 0
    BY <1>7, LeftFinite
  <2> QED
    BY <1>7, <2>1, FS_RemoveElement
<1>9. PoolTypes'
  <2>1. \A v \in Busy' : task'[v] \in Tasks
    BY <1>2 DEF RunInv, PoolTypes, Busy
  <2>2. ASSUME NEW v \in Workers, workerPc'[v] \in {"count", "lock"}
        PROVE  \E d \in Callers, k \in Items : task'[v] = ItemTask(d, k)
    <3>1. task'[v] = task[v] /\ workerPc[v] \in {"count", "lock"}
      BY <1>2, <2>2
    <3> QED
      BY <3>1 DEF RunInv, PoolTypes
  <2>3. remaining' \in [Callers -> Nat]
    <3>1. remaining \in [Callers -> Nat] /\ remaining[c] \in Nat \ {0}
      BY <1>8 DEF RunInv, PoolTypes, Accounts
    <3>2. remaining[c] - 1 \in Nat
      BY <3>1
    <3> QED
      BY <1>6, <3>1, <3>2
  <2>4. queue' \in Seq(Tasks)
    BY <1>2 DEF RunInv, PoolTypes
  <2>5. UNCHANGED <<batches, runs, jobRuns>>
    BY DEF CountDown, historyVars
  <2> QED
    BY <1>1, <1>2, <2>1, <2>2, <2>3, <2>4, <2>5 DEF WakeInv, RunInv, PoolTypes
<1>10. OnePlace'
  BY <1>2 DEF RunInv, OnePlace, Busy
<1>11. Accounts'
  <2> SUFFICES ASSUME NEW d \in Callers
               PROVE  /\ \A k \in Items :
                            batches'[d] = runs'[d][k] + IF Due(ItemTask(d, k))' THEN 1 ELSE 0
                      /\ remaining'[d] = Cardinality(Left(d)')
                      /\ callerPc'[d] = "idle" => Left(d)' = {}
    BY DEF Accounts
  <2>1. UNCHANGED <<callerPc, batches, runs>>
    BY DEF CountDown, historyVars
  <2>2. \A k \in Items : batches'[d] = runs'[d][k] + IF Due(ItemTask(d, k))' THEN 1 ELSE 0
    BY <1>4, <2>1 DEF RunInv, Accounts
  <2>3. remaining'[d] = Cardinality(Left(d)')
    <3>1. remaining[d] = Cardinality(Left(d)) /\ remaining \in [Callers -> Nat]
      BY DEF RunInv, Accounts, PoolTypes
    <3>2. CASE d = c
      BY <1>6, <1>8, <3>1, <3>2
    <3>3. CASE d # c
      BY <1>6, <1>7, <3>1, <3>3
    <3> QED
      BY <3>2, <3>3
  <2>4. callerPc'[d] = "idle" => Left(d)' = {}
    BY <1>7, <2>1 DEF RunInv, Accounts
  <2> QED
    BY <2>2, <2>3, <2>4
<1>12. JobAccounts'
  BY <1>4 DEF RunInv, JobAccounts, CountDown, historyVars
<1>13. Emptied'
  BY <1>2 DEF RunInv, Emptied, CountDown
<1> QED
  BY <1>1, <1>9, <1>10, <1>11, <1>12, <1>13 DEF RunInv

\* The queue grows at its end by tasks that were in no place.
LEMMA AppendKeepsPlaces ==
    ASSUME RunInv, NEW s \in Seq(Tasks), queue' = queue \o s, UNCHANGED workerVars,
           \A k, l \in 1..Len(s) : s[k] = s[l] => k = l,
           \A k \in 1..Len(s) : ~Due(s[k]) /\ ~Counting(s[k])
    PROVE  /\ queue' \in Seq(Tasks)
           /\ OnePlace'
           /\ \A t : Counting(t)' <=> Counting(t)
           /\ \A t : Due(t)' <=> Due(t) \/ \E k \in 1..Len(s) : s[k] = t
<1>1. /\ queue \in Seq(Tasks) /\ queue' \in Seq(Tasks)
      /\ Len(queue) \in Nat /\ Len(s) \in Nat /\ Len(queue') = Len(queue) + Len(s)
      /\ \A k \in 1..Len(queue) : queue'[k] = queue[k]
      /\ \A k \in 1..Len(queue') : k > Len(queue) =>
            k - Len(queue) \in 1..Len(s) /\ queue'[k] = s[k - Len(queue)]
      /\ \A k \in 1..Len(s) :
            k + Len(queue) \in 1..Len(queue') /\ queue'[k + Len(queue)] = s[k]
  BY DEF RunInv, PoolTypes
<1>2. Busy' = Busy /\ workerPc' = workerPc /\ task' = task
  BY DEF workerVars, Busy
<1>3. \A k \in 1..Len(s) :
         /\ \A l \in 1..Len(queue) : queue[l] # s[k]
         /\ \A w \in Busy : task[w] # s[k]
  BY DEF Due, Counting, Queued, Running, Busy
<1>4. OnePlace'
  <2>1. ASSUME NEW k \in 1..Len(queue'), NEW l \in 1..Len(queue'), queue'[k] = queue'[l]
        PROVE  k = l
    <3>1. CASE k <= Len(queue) /\ l <= Len(queue)
      BY <1>1, <2>1, <3>1 DEF RunInv, OnePlace
    <3>2. CASE k > Len(queue) /\ l > Len(queue)
      <4>1. k - Len(queue) = l - Len(queue)
        BY <1>1, <2>1, <3>2
      <4> QED
        BY <1>1, <4>1
    <3>3. CASE k <= Len(queue) /\ l > Len(queue)
      BY <1>1, <1>3, <2>1, <3>3
    <3>4. CASE k > Len(queue) /\ l <= Len(queue)
      <4>1. k - Len(queue) \in 1..Len(s) /\ queue'[k] = s[k - Len(queue)]
        BY <1>1, <3>4
      <4>2. l \in 1..Len(queue) /\ queue'[l] = queue[l]
        BY <1>1, <3>4
      <4> QED
        BY <1>3, <2>1, <4>1, <4>2
    <3> QED
      BY <1>1, <3>1, <3>2, <3>3, <3>4
  <2>2. ASSUME NEW k \in 1..Len(queue'), NEW w \in Busy PROVE queue'[k] # task[w]
    <3>1. CASE k <= Len(queue)
      BY <1>1, <3>1 DEF RunInv, OnePlace
    <3>2. CASE k > Len(queue)
      BY <1>1, <1>3, <3>2
    <3> QED
      BY <1>1, <3>1, <3>2
  <2> QED
    BY <1>2, <2>1, <2>2 DEF RunInv, OnePlace
<1>5. ASSUME NEW t PROVE (Counting(t)' <=> Counting(t)) /\ (Running(t)' <=> Running(t))
  BY <1>2 DEF Counting, Running
<1>6. ASSUME NEW t
      PROVE  Queued(t)' <=> Queued(t) \/ \E k \in 1..Len(s) : s[k] = t
  <2>1. Queued(t) => Queued(t)'
    BY <1>1 DEF Queued
  <2>2. (\E k \in 1..Len(s) : s[k] = t) => Queued(t)'
    BY <1>1 DEF Queued
  <2>3. ASSUME NEW k \in 1..Len(queue'), queue'[k] = t
        PROVE  Queued(t) \/ \E l \in 1..Len(s) : s[l] = t
    <3>1. CASE k <= Len(queue)
      BY <1>1, <2>3, <3>1 DEF Queued
    <3>2. CASE k > Len(queue)
      BY <1>1, <2>3, <3>2
    <3> QED
      BY <1>1, <3>1, <3>2
  <2> QED
    BY <2>1, <2>2, <2>3 DEF Queued
<1> QED
  BY <1>1, <1>4, <1>5, <1>6 DEF Due

LEMMA OneElement ==
    ASSUME NEW S, NEW e \in S
    PROVE  /\ <<e>> \in Seq(S) /\ 1 \in 1..Len(<<e>>)
           /\ \A k \in 1..Len(<<e>>) : k = 1 /\ <<e>>[k] = e
           /\ \A s \in Seq(S) : Append(s, e) = s \o <<e>>
  OBVIOUS

LEMMA SubmitKeepsRun ==
    ASSUME RunInv, NEW j \in Jobs, Submit(j)
    PROVE  RunInv'
<1>1. WakeInv /\ WakeInv'
  BY JobsKeepWake DEF RunInv
<1>2. jobPc[j] = "new" /\ jobPc' = [jobPc EXCEPT ![j] = "notify"] /\ stopping' = stopping
  BY DEF Submit
<1>3. ~Due(JobTask(j)) /\ ~Counting(JobTask(j))
  <2>1. ~Due(JobTask(j))
    BY <1>2 DEF RunInv, JobAccounts
  <2>2. ~Counting(JobTask(j))
    BY TaskFacts DEF RunInv, PoolTypes, Counting
  <2> QED
    BY <2>1, <2>2
<1>4. PICK s \in Seq(Tasks) :
         /\ queue' = queue \o s /\ 1 \in 1..Len(s)
         /\ \A k \in 1..Len(s) : k = 1 /\ s[k] = JobTask(j)
  <2>1. JobTask(j) \in Tasks /\ queue \in Seq(Tasks)
    BY TaskFacts DEF RunInv, PoolTypes
  <2>2. queue' = queue \o <<JobTask(j)>>
    BY <2>1, OneElement DEF Submit
  <2> QED
    BY <2>1, <2>2, OneElement
<1>5. UNCHANGED workerVars
  BY DEF Submit
<1>6. /\ queue' \in Seq(Tasks) /\ OnePlace'
      /\ \A t : Counting(t)' <=> Counting(t)
      /\ \A t : Due(t)' <=> Due(t) \/ t = JobTask(j)
  <2>1. /\ queue' \in Seq(Tasks) /\ OnePlace'
        /\ \A t : Counting(t)' <=> Counting(t)
        /\ \A t : Due(t)' <=> Due(t) \/ \E k \in 1..Len(s) : s[k] = t
    BY <1>3, <1>4, <1>5, AppendKeepsPlaces
  <2> QED
    BY <1>4, <2>1
<1>7. PoolTypes'
  BY <1>1, <1>5, <1>6 DEF WakeInv, RunInv, PoolTypes, Busy, Submit, workerVars, historyVars
<1>8. Accounts'
  <2>1. \A c \in Callers, i \in Items : Due(ItemTask(c, i))' <=> Due(ItemTask(c, i))
    BY <1>6, TaskFacts
  <2>2. \A c \in Callers : Left(c)' = Left(c)
    BY <1>6, <2>1 DEF Left
  <2> QED
    BY <2>1, <2>2 DEF RunInv, Accounts, Submit, historyVars
<1>9. JobAccounts'
  <2> SUFFICES ASSUME NEW l \in Jobs
               PROVE  /\ jobPc'[l] = "new" => ~Due(JobTask(l))'
                      /\ jobRuns'[l] = IF jobPc'[l] = "new" \/ Due(JobTask(l))' THEN 0 ELSE 1
    BY DEF JobAccounts
  <2>1. jobRuns' = jobRuns
    BY DEF Submit, historyVars
  <2>2. CASE l = j
    <3>1. jobPc'[j] = "notify" /\ jobRuns[j] = 0
      BY <1>1, <1>2 DEF RunInv, JobAccounts, WakeInv, WorkerTypes
    <3> QED
      BY <1>6, <2>1, <2>2, <3>1
  <2>3. CASE l # j
    <3>1. jobPc'[l] = jobPc[l]
      BY <1>1, <1>2, <2>3 DEF WakeInv, WorkerTypes
    <3>2. Due(JobTask(l))' <=> Due(JobTask(l))
      BY <1>6, <2>3, TaskFacts
    <3> QED
      BY <2>1, <3>1, <3>2 DEF RunInv, JobAccounts
  <2> QED
    BY <2>2, <2>3
<1>10. Emptied'
  BY <1>5 DEF RunInv, Emptied, Submit, workerVars
<1> QED
  BY <1>1, <1>6, <1>7, <1>8, <1>9, <1>10 DEF RunInv

\* As many tasks as items and one for every item: no item twice.
LEMMA OrderInjective ==
    ASSUME NEW order \in [1..Cardinality(Items) -> Items],
           \A i \in Items : \E k \in DOMAIN order : order[k] = i
    PROVE  /\ Cardinality(Items) \in Nat
           /\ \A k, l \in 1..Cardinality(Items) : order[k] = order[l] => k = l
<1>1. Cardinality(Items) \in Nat /\ IsFiniteSet(Items)
  BY FS_CardinalityType
<1>2. IsFiniteSet(1..Cardinality(Items)) /\ Cardinality(1..Cardinality(Items)) = Cardinality(Items)
  BY <1>1, FS_Interval
<1>3. order \in Surjection(1..Cardinality(Items), Items)
  BY DEF Surjection
<1>4. order \in Injection(1..Cardinality(Items), Items)
  BY <1>2, <1>3, FS_SurjSameCardinalityImpliesInj
<1> QED
  BY <1>1, <1>4 DEF Injection, IsInjective

LEMMA DispatchKeepsRun ==
    ASSUME RunInv, NEW c \in Callers, Dispatch(c)
    PROVE  RunInv'
<1>1. WakeInv /\ WakeInv'
  BY CallersKeepWake DEF RunInv
<1>2. PICK order \in [1..Cardinality(Items) -> Items] :
         /\ \A i \in Items : \E k \in DOMAIN order : order[k] = i
         /\ queue' = queue \o [k \in DOMAIN order |-> ItemTask(c, order[k])]
  BY DEF Dispatch
<1>3. /\ callerPc[c] = "idle" /\ callerPc' = [callerPc EXCEPT ![c] = "notify"]
      /\ remaining' = [remaining EXCEPT ![c] = Cardinality(Items)]
      /\ batches' = [batches EXCEPT ![c] = @ + 1]
      /\ UNCHANGED <<stopping, workerVars, jobPc, runs, jobRuns>>
  BY DEF Dispatch, historyVars
<1> DEFINE s == [k \in DOMAIN order |-> ItemTask(c, order[k])]
<1>4. /\ s \in Seq(Tasks) /\ Len(s) = Cardinality(Items)
      /\ \A k \in 1..Len(s) : s[k] = ItemTask(c, order[k]) /\ order[k] \in Items
      /\ \A k, l \in 1..Len(s) : s[k] = s[l] => k = l
      /\ \A i \in Items : \E k \in 1..Len(s) : s[k] = ItemTask(c, i)
  <2>1. /\ Cardinality(Items) \in Nat /\ DOMAIN order = 1..Cardinality(Items)
        /\ \A k, l \in 1..Cardinality(Items) : order[k] = order[l] => k = l
    BY <1>2, OrderInjective
  <2>2. \A k \in 1..Cardinality(Items) : order[k] \in Items /\ s[k] = ItemTask(c, order[k])
    BY <2>1
  <2>3. s \in [1..Cardinality(Items) -> Tasks]
    BY <2>1, <2>2, TaskFacts
  <2>4. s \in Seq(Tasks) /\ Len(s) = Cardinality(Items)
    BY <2>1, <2>3
  <2>5. \A k, l \in 1..Len(s) : s[k] = s[l] => k = l
    BY <2>1, <2>2, <2>4, TaskFacts
  <2> QED
    BY <1>2, <2>1, <2>2, <2>4, <2>5
<1> HIDE DEF s
<1>5. \A i \in Items : ~Due(ItemTask(c, i)) /\ ~Counting(ItemTask(c, i))
  BY <1>3 DEF RunInv, Accounts, Left
<1>6. /\ queue' \in Seq(Tasks) /\ OnePlace'
      /\ \A t : Counting(t)' <=> Counting(t)
      /\ \A t : Due(t)' <=> Due(t) \/ \E i \in Items : t = ItemTask(c, i)
  <2>1. queue' = queue \o s
    BY <1>2 DEF s
  <2>2. \A k \in 1..Len(s) : ~Due(s[k]) /\ ~Counting(s[k])
    BY <1>4, <1>5
  <2>3. /\ queue' \in Seq(Tasks) /\ OnePlace'
        /\ \A t : Counting(t)' <=> Counting(t)
        /\ \A t : Due(t)' <=> Due(t) \/ \E k \in 1..Len(s) : s[k] = t
    BY <1>3, <1>4, <2>1, <2>2, AppendKeepsPlaces
  <2>4. ASSUME NEW t
        PROVE  (\E k \in 1..Len(s) : s[k] = t) <=> \E i \in Items : t = ItemTask(c, i)
    BY <1>4
  <2> QED
    BY <2>3, <2>4
<1>7. PoolTypes'
  <2>1. Cardinality(Items) \in Nat
    BY <1>2, OrderInjective
  <2>2. remaining' \in [Callers -> Nat] /\ batches' \in [Callers -> Nat]
    <3>1. remaining \in [Callers -> Nat] /\ batches \in [Callers -> Nat]
      BY DEF RunInv, PoolTypes
    <3> QED
      BY <1>3, <2>1, <3>1, Increment
  <2>3. runs' \in [Callers -> [Items -> Nat]] /\ jobRuns' \in [Jobs -> Nat]
    BY <1>3 DEF RunInv, PoolTypes
  <2> QED
    BY <1>1, <1>3, <1>6, <2>2, <2>3 DEF WakeInv, RunInv, PoolTypes, Busy, workerVars
<1>8. Accounts'
  <2> SUFFICES ASSUME NEW d \in Callers
               PROVE  /\ \A i \in Items :
                            batches'[d] = runs'[d][i] + IF Due(ItemTask(d, i))' THEN 1 ELSE 0
                      /\ remaining'[d] = Cardinality(Left(d)')
                      /\ callerPc'[d] = "idle" => Left(d)' = {}
    BY DEF Accounts
  <2>1. remaining \in [Callers -> Nat] /\ batches \in [Callers -> Nat]
        /\ callerPc \in [Callers -> {"idle", "notify", "lock", "check", "block", "asleep"}]
    BY DEF RunInv, PoolTypes, WorkerTypes
  <2>2. CASE d = c
    <3>1. Left(c)' = Items
      BY <1>6 DEF Left
    <3>2. \A i \in Items : Due(ItemTask(c, i))' /\ runs[c][i] = batches[c] /\ batches[c] \in Nat
      BY <1>5, <1>6, <2>1 DEF RunInv, Accounts, PoolTypes
    <3>3. /\ remaining'[c] = Cardinality(Items) /\ batches'[c] = batches[c] + 1
          /\ callerPc'[c] = "notify" /\ runs' = runs
      BY <1>3, <2>1
    <3> QED
      BY <2>2, <3>1, <3>2, <3>3
  <2>3. CASE d # c
    <3>1. \A i \in Items : (Due(ItemTask(d, i))' <=> Due(ItemTask(d, i)))
      BY <1>6, <2>3, TaskFacts
    <3>2. Left(d)' = Left(d)
      BY <1>6, <3>1 DEF Left
    <3>3. /\ remaining'[d] = remaining[d] /\ batches'[d] = batches[d]
          /\ callerPc'[d] = callerPc[d] /\ runs' = runs
      BY <1>3, <2>1, <2>3
    <3> QED
      BY <3>1, <3>2, <3>3 DEF RunInv, Accounts
  <2> QED
    BY <2>2, <2>3
<1>9. JobAccounts'
  <2>1. \A j \in Jobs : (Due(JobTask(j))' <=> Due(JobTask(j)))
    BY <1>6, TaskFacts
  <2> QED
    BY <1>3, <2>1 DEF RunInv, JobAccounts
<1>10. Emptied'
  BY <1>3 DEF RunInv, Emptied, workerVars
<1> QED
  BY <1>1, <1>6, <1>7, <1>8, <1>9, <1>10 DEF RunInv

LEMMA RunStep == RunInv /\ [Next]_vars => RunInv'
<1> SUFFICES ASSUME RunInv, [Next]_vars PROVE RunInv'
  OBVIOUS
<1>1. CASE UNCHANGED vars
  <2>1. WakeInv'
    BY <1>1 DEF RunInv, WakeInv, WorkerTypes, ExitedAfterQueue, StoppedUnused, Asleep,
                Pending, vars
  <2>2. SamePlaces
    BY <1>1 DEF SamePlaces, Busy, vars
  <2>3. Emptied' /\ task' \in [Workers -> Tasks \cup {Nobody}]
    BY <1>1 DEF RunInv, PoolTypes, Emptied, vars
  <2> QED
    BY <1>1, <2>1, <2>2, <2>3, SamePlacesKeep DEF vars
<1>2. CASE \E j \in Jobs : Submit(j) \/ SubmitNotify(j)
  BY <1>2, SubmitKeepsRun, NotifyKeepsRun
<1>3. CASE \E c \in Callers : Dispatch(c) \/ CallerStep(c)
  BY <1>3, DispatchKeepsRun, CallersKeepRun
<1>4. CASE \E w \in Workers : WorkerStep(w)
  BY <1>4, TakeKeepsRun, WorkerQuietKeepsRun, JobKeepsRun, ItemKeepsRun, CountKeepsRun
     DEF WorkerStep
<1>5. CASE Stop \/ StopNotify \/ Join
  BY <1>5, StopKeepsRun
<1> QED
  BY <1>1, <1>2, <1>3, <1>4, <1>5 DEF Next

LEMMA RunInvImpliesRunOnce == RunInv => RunOnce
<1> SUFFICES ASSUME RunInv PROVE RunOnce
  OBVIOUS
<1>1. BatchRunOnce
  <2> SUFFICES ASSUME NEW c \in Callers, callerPc[c] = "idle", NEW i \in Items
               PROVE  runs[c][i] = batches[c]
    BY DEF BatchRunOnce
  <2>1. ~Due(ItemTask(c, i))
    BY DEF RunInv, Accounts, Left
  <2>2. runs[c][i] \in Nat /\ batches[c] = runs[c][i] + 0
    BY <2>1 DEF RunInv, Accounts, PoolTypes
  <2> QED
    BY <2>2
<1>2. NothingDropped
  <2> SUFFICES ASSUME stopping = "joined", NEW j \in Jobs
               PROVE  jobRuns[j] = IF jobPc[j] = "new" THEN 0 ELSE 1
    BY DEF NothingDropped
  <2>1. \A w \in Workers : workerPc[w] = "exited"
    BY DEF RunInv, Emptied
  <2>2. queue = <<>>
    BY <2>1 DEF RunInv, WakeInv, ExitedAfterQueue
  <2>3. ~Due(JobTask(j))
    BY <2>1, <2>2 DEF Due, Queued, Running
  <2> QED
    BY <2>3 DEF RunInv, JobAccounts
<1> QED
  BY <1>1, <1>2 DEF RunOnce

(* dispatch() returns when every item of its batch has been run once, and  *)
(* no batch is still running one then; ~WorkerPool drops no submitted job. *)
THEOREM EachRunsOnce == Spec => []RunOnce
  BY RunInit, RunStep, RunInvImpliesRunOnce, PTL DEF Spec
=============================================================================
