-------------------------- MODULE RunOnMainProofs --------------------------
(***************************************************************************)
(* Threads wait for one another in a circle only if a worker bounces a     *)
(* reply: a worker that waits for the main thread holds no lock otherwise. *)
(***************************************************************************)
EXTENDS RunOnMain, TLAPS

USE BounceAssumption DEF BounceAssumption

(* Who owns a lock is where its code says.                                 *)
WorkerOwns ==
    \A t \in Terms :
        /\ parseLock[t] = "worker" <=> task[t] \in {"decode", "apply", "reply", "replied"}
        /\ termLock[t] = "worker" <=> task[t] \in {"apply", "reply", "replied"}

MainOwns ==
    \A t \in Terms :
        /\ parseLock[t] = "main" => mainAt = t /\ errand \in {"wantTerm", "inTerm"}
        /\ termLock[t] = "main" <=> mainAt = t /\ errand = "inTerm"

PlatOwned ==
    /\ plat = "render" <=> renderPc = "copy"
    /\ plat = "main" <=> mainPc \in {"handler", "build"}
    /\ mainPc \in {"wantHandler", "wantBuild", "posts"} => errand = "none"

(* A posted lambda belongs to one worker, and that worker waits for it.    *)
PostsWait ==
    /\ \A i \in 1..Len(posted) : task[posted[i]] \in {"output", "reply"}
    /\ \A i \in 1..Len(running) : task[running[i]] \in {"output", "reply"}
    /\ \A i, j \in 1..Len(posted) : posted[i] = posted[j] => i = j
    /\ \A i, j \in 1..Len(running) : running[i] = running[j] => i = j
    /\ \A i \in 1..Len(posted), j \in 1..Len(running) : posted[i] # running[j]
    /\ mainPc = "filter" => running # <<>>
    /\ mainPc \notin {"posts", "filter"} => running = <<>>

BounceInv == TypeOK /\ WorkerOwns /\ MainOwns /\ PlatOwned /\ PostsWait

(* What an answered or an added lambda does to the lists.                  *)
LEMMA ListFacts ==
    /\ <<>> \in Seq(Terms) /\ Len(<<>>) = 0
    /\ \A s \in Seq(Terms), t \in Terms :
          /\ Append(s, t) \in Seq(Terms) /\ Len(Append(s, t)) = Len(s) + 1
          /\ \A i \in 1..Len(s) : Append(s, t)[i] = s[i]
          /\ Append(s, t)[Len(s) + 1] = t
    /\ \A s \in Seq(Terms) : s # <<>> =>
          /\ Len(s) \in Nat \ {0} /\ Head(s) = s[1] /\ Head(s) \in Terms
          /\ Tail(s) \in Seq(Terms) /\ Len(Tail(s)) = Len(s) - 1
          /\ \A i \in 1..Len(s) - 1 : Tail(s)[i] = s[i + 1]
    /\ \A s \in Seq(Terms) : Len(s) \in Nat /\ \A i \in 1..Len(s) : s[i] \in Terms
  OBVIOUS

LEMMA BounceInit == Init => BounceInv
  BY ListFacts DEF Init, BounceInv, TypeOK, WorkerOwns, MainOwns, PlatOwned, PostsWait

(* A worker that waits for nobody moves on: the lists keep their meaning.  *)
LEMMA StepKeepsPosts ==
    ASSUME TypeOK, PostsWait, NEW t \in Terms, NEW to,
           task[t] \notin {"output", "reply"}, task' = [task EXCEPT ![t] = to],
           UNCHANGED <<posted, running, mainPc>>
    PROVE  PostsWait'
<1>1. /\ \A i \in 1..Len(posted) : posted[i] # t /\ posted[i] \in Terms
      /\ \A i \in 1..Len(running) : running[i] # t /\ running[i] \in Terms
  BY ListFacts DEF TypeOK, PostsWait
<1>2. \A u \in Terms : u # t => task'[u] = task[u]
  BY DEF TypeOK
<1> QED
  BY <1>1, <1>2 DEF PostsWait

(* A worker that asks adds its own lambda, and waits for it.               *)
LEMMA AskKeepsPosts ==
    ASSUME TypeOK, PostsWait, NEW t \in Terms, NEW for, for \in {"output", "reply"},
           task[t] \notin {"output", "reply"}, task' = [task EXCEPT ![t] = for],
           posted' = Append(posted, t), UNCHANGED <<running, mainPc>>
    PROVE  PostsWait'
<1>1. /\ \A i \in 1..Len(posted) : posted[i] # t /\ posted[i] \in Terms
      /\ \A i \in 1..Len(running) : running[i] # t /\ running[i] \in Terms
  BY ListFacts DEF TypeOK, PostsWait
<1>2. task'[t] = for /\ \A u \in Terms : u # t => task'[u] = task[u]
  BY DEF TypeOK
<1>3. /\ Len(posted') = Len(posted) + 1 /\ Len(posted) \in Nat
      /\ \A i \in 1..Len(posted) : posted'[i] = posted[i]
      /\ posted'[Len(posted) + 1] = t
  BY ListFacts DEF TypeOK
<1>4. \A i \in 1..Len(posted') : task'[posted'[i]] \in {"output", "reply"}
  BY <1>1, <1>2, <1>3 DEF PostsWait
<1>5. \A i \in 1..Len(running') : task'[running'[i]] \in {"output", "reply"}
  BY <1>1, <1>2 DEF PostsWait
<1>6. /\ \A i, j \in 1..Len(posted') : posted'[i] = posted'[j] => i = j
      /\ \A i \in 1..Len(posted'), j \in 1..Len(running') : posted'[i] # running'[j]
  BY <1>1, <1>3 DEF PostsWait
<1> QED
  BY <1>4, <1>5, <1>6 DEF PostsWait

\* An answered worker's lambda, the first that runs, was its only one.
LEMMA AnswerKeepsPosts ==
    ASSUME TypeOK, PostsWait, running # <<>>, mainPc' = "posts", running' = Tail(running),
           posted' = posted, NEW to, task' = [task EXCEPT ![Head(running)] = to]
    PROVE  PostsWait'
<1>1. PICK t \in Terms : t = running[1] /\ t = Head(running)
  BY ListFacts DEF TypeOK
<1>2. \A u \in Terms : u # t => task'[u] = task[u]
  BY <1>1 DEF TypeOK
<1>3. /\ Len(running) \in Nat \ {0} /\ Len(running') = Len(running) - 1
      /\ \A i \in 1..Len(running') : running'[i] = running[i + 1]
  BY ListFacts DEF TypeOK
<1>4. /\ \A i \in 1..Len(posted) : posted[i] \in Terms /\ posted[i] # t
      /\ \A i \in 1..Len(running') : running'[i] \in Terms /\ running'[i] # t
  <2>1. \A i \in 1..Len(running) : running[i] \in Terms
    BY ListFacts DEF TypeOK
  <2>2. \A i \in 1..Len(posted) : posted[i] \in Terms
    BY ListFacts DEF TypeOK
  <2> QED
    BY <1>1, <1>3, <2>1, <2>2 DEF PostsWait
<1>5. /\ \A i \in 1..Len(posted') : task'[posted'[i]] \in {"output", "reply"}
      /\ \A i \in 1..Len(running') : task'[running'[i]] \in {"output", "reply"}
  BY <1>2, <1>3, <1>4 DEF PostsWait
<1>6. /\ \A i, j \in 1..Len(posted') : posted'[i] = posted'[j] => i = j
      /\ \A i, j \in 1..Len(running') : running'[i] = running'[j] => i = j
      /\ \A i \in 1..Len(posted'), j \in 1..Len(running') : posted'[i] # running'[j]
  BY <1>3 DEF PostsWait
<1> QED
  BY <1>5, <1>6 DEF PostsWait

LEMMA WorkerKeeps ==
    ASSUME BounceInv, NEW t \in Terms, WorkerNext(t)
    PROVE  BounceInv'
<1> USE DEF BounceInv, TypeOK, WorkerOwns, MainOwns, PlatOwned, Step, lockVars,
            postVars, mainVars
<1> DEFINE Kept == TypeOK' /\ WorkerOwns' /\ MainOwns' /\ PlatOwned'
           Moved == \E to : /\ task' = [task EXCEPT ![t] = to]
                            /\ task[t] \notin {"output", "reply"}
                            /\ UNCHANGED <<posted, running, mainPc>>
<1>m. Moved => PostsWait'
  BY StepKeepsPosts
<1>1. CASE Grab(t)
  <2>1. Moved
    BY <1>1 DEF Grab
  <2>2. Kept
    BY <1>1 DEF Grab
  <2> QED
    BY <2>1, <2>2, <1>m
<1>2. CASE EndTask(t)
  <2>1. Moved
    BY <1>2 DEF EndTask
  <2>2. Kept
    BY <1>2 DEF EndTask
  <2> QED
    BY <2>1, <2>2, <1>m
<1>3. CASE FilterOutput(t)
  <2>1. /\ task[t] = "batch" /\ task' = [task EXCEPT ![t] = "output"]
        /\ posted' = Append(posted, t)
        /\ UNCHANGED <<parseLock, termLock, plat, running, mainPc, errand, mainAt,
                       todo, renderPc>>
    BY <1>3 DEF FilterOutput, Ask
  <2>2. Kept
    BY <2>1, ListFacts
  <2>3. PostsWait'
    BY <2>1, AskKeepsPosts
  <2> QED
    BY <2>2, <2>3
<1>4. CASE LockParse(t)
  <2>1. Moved
    BY <1>4 DEF LockParse
  <2>2. /\ task[t] \in {"batch", "filtered"} /\ task' = [task EXCEPT ![t] = "decode"]
        /\ parseLock[t] = "free" /\ parseLock' = [parseLock EXCEPT ![t] = "worker"]
        /\ UNCHANGED <<termLock, plat, posted, running, mainPc, errand, mainAt,
                       todo, renderPc>>
    BY <1>4 DEF LockParse
  <2>3. Kept
    BY <2>2
  <2> QED
    BY <2>1, <2>3, <1>m
<1>5. CASE LockTerm(t)
  <2>1. Moved
    BY <1>5 DEF LockTerm
  <2>2. /\ task[t] = "decode" /\ task' = [task EXCEPT ![t] = "apply"]
        /\ termLock[t] = "free" /\ termLock' = [termLock EXCEPT ![t] = "worker"]
        /\ UNCHANGED <<parseLock, plat, posted, running, mainPc, errand, mainAt,
                       todo, renderPc>>
    BY <1>5 DEF LockTerm
  <2>3. Kept
    BY <2>2
  <2> QED
    BY <2>1, <2>3, <1>m
<1>6. CASE Reply(t)
  <2>1. Moved
    BY <1>6 DEF Reply
  <2>2. Kept
    BY <1>6 DEF Reply
  <2> QED
    BY <2>1, <2>2, <1>m
<1>8. CASE FilterReply(t)
  <2>1. /\ task[t] = "apply" /\ task' = [task EXCEPT ![t] = "reply"]
        /\ posted' = Append(posted, t)
        /\ UNCHANGED <<parseLock, termLock, plat, running, mainPc, errand, mainAt,
                       todo, renderPc>>
    BY <1>8 DEF FilterReply, Ask
  <2>2. Kept
    BY <2>1, ListFacts
  <2>3. PostsWait'
    BY <2>1, AskKeepsPosts
  <2> QED
    BY <2>2, <2>3
<1>7. CASE Unlock(t)
  <2>1. Moved
    BY <1>7 DEF Unlock
  <2>2. Kept
    BY <1>7 DEF Unlock
  <2> QED
    BY <2>1, <2>2, <1>m
<1> QED
  BY <1>1, <1>2, <1>3, <1>4, <1>5, <1>6, <1>7, <1>8 DEF WorkerNext

LEMMA MainKeeps ==
    ASSUME BounceInv, MainNext
    PROVE  BounceInv'
<1> USE DEF BounceInv, TypeOK, WorkerOwns, MainOwns, PlatOwned, PostsWait,
            lockVars, postVars
<1>1. CASE WantHandler
  BY <1>1 DEF WantHandler
<1>2. CASE LockPlat
  BY <1>2 DEF LockPlat
<1>3. CASE EndHandler
  BY <1>3 DEF EndHandler
<1>4. CASE \E t \in Terms : Touch(t) \/ Inject(t) \/ Visit(t)
  BY <1>4 DEF Touch, Inject, Visit
<1>5. CASE MainLockParse
  BY <1>5 DEF MainLockParse
<1>6. CASE MainLockTerm
  BY <1>6 DEF MainLockTerm
<1>7. CASE MainUnlock
  BY <1>7 DEF MainUnlock
<1>8. CASE EndEvents
  <2>1. /\ mainPc = "events" /\ mainPc' = "posts" /\ errand = "none" /\ running = <<>>
        /\ running' = posted /\ posted' = <<>>
        /\ UNCHANGED <<task, parseLock, termLock, plat, errand, mainAt, todo, renderPc>>
    BY <1>8 DEF EndEvents
  <2>2. TypeOK' /\ WorkerOwns' /\ MainOwns' /\ PlatOwned'
    BY <2>1, ListFacts
  <2>3. PostsWait'
    BY <2>1, ListFacts
  <2> QED
    BY <2>2, <2>3
<1>9. CASE RunPost
  BY <1>9 DEF RunPost
<1>10. CASE EndFilter
  <2>1. /\ mainPc = "filter" /\ mainPc' = "posts" /\ errand = "none" /\ running # <<>>
        /\ running' = Tail(running)
        /\ UNCHANGED <<parseLock, termLock, plat, posted, errand, mainAt, todo, renderPc>>
    BY <1>10 DEF EndFilter
  <2>r. task[running[1]] \in {"output", "reply"} /\ Head(running) = running[1] /\ running[1] \in Terms
    BY <2>1, ListFacts
  <2>2. /\ Head(running) \in Terms
        /\ \/ /\ task[Head(running)] = "output"
              /\ task' = [task EXCEPT ![Head(running)] = "filtered"]
           \/ /\ task[Head(running)] = "reply"
              /\ task' = [task EXCEPT ![Head(running)] = "replied"]
    BY <1>10, <2>r DEF EndFilter, Answered
  <2>a. /\ task' \in [Terms -> {"idle", "again", "batch", "output", "filtered",
                                 "decode", "apply", "reply", "replied"}]
        /\ running' \in Seq(Terms)
    <3>1. running' \in Seq(Terms)
      BY <2>1, ListFacts
    <3> QED
      BY <2>2, <3>1
  <2>t. TypeOK'
    BY <2>1, <2>a
  <2>3. WorkerOwns' /\ MainOwns' /\ PlatOwned'
    <3>1. CASE task[Head(running)] = "output"
      BY <2>1, <2>2, <3>1
    <3>2. CASE task[Head(running)] = "reply"
      BY <2>1, <2>2, <3>2
    <3> QED
      BY <2>2, <3>1, <3>2
  <2>4. PostsWait'
    BY <2>1, <2>2, AnswerKeepsPosts
  <2> QED
    BY <2>t, <2>3, <2>4
<1>11. CASE EndPosts
  BY <1>11 DEF EndPosts
<1>12. CASE EndBuild
  BY <1>12 DEF EndBuild
<1> QED
  BY <1>1, <1>2, <1>3, <1>4, <1>5, <1>6, <1>7, <1>8, <1>9, <1>10, <1>11, <1>12
     DEF MainNext

LEMMA RenderKeeps ==
    ASSUME BounceInv, RenderNext
    PROVE  BounceInv'
  BY DEF BounceInv, TypeOK, WorkerOwns, MainOwns, PlatOwned, PostsWait, lockVars,
         postVars, mainVars, RenderNext, WantCopy, Copy, EndCopy

LEMMA BounceStep == BounceInv /\ [Next]_vars => BounceInv'
<1>1. BounceInv /\ UNCHANGED vars => BounceInv'
  BY DEF BounceInv, TypeOK, WorkerOwns, MainOwns, PlatOwned, PostsWait, vars
<1> QED
  BY <1>1, WorkerKeeps, MainKeeps, RenderKeeps DEF Next

(* In a circle of waits the main thread waits for a thread that waits: not *)
(* the render thread, which copies, but a worker below the lock it owns.   *)
LEMMA CircleIsEntangled == BounceInv => OnlyRepliesEntangle
<1> SUFFICES ASSUME BounceInv, NEW S \in SUBSET Threads, Circle(S)
             PROVE  "main" \in S /\ \E t \in S \cap Terms : Entangled(t)
  BY DEF OnlyRepliesEntangle
<1> USE DEF Threads, WaitsFor, Circle
<1>1. "main" \in S
  OBVIOUS
<1>2. PICK b \in S : MainWaits(b)
  BY <1>1
<1>3. (b = "render" /\ plat = "render") \/ (b \in Terms /\ b = mainAt)
  BY <1>2 DEF MainWaits, BounceInv, TypeOK
<1>4. CASE b = "render" /\ plat = "render"
  BY <1>4 DEF RenderWaits, BounceInv, PlatOwned
<1>5. CASE b \in Terms /\ b = mainAt
  <2>1. WorkerWaits(b)
    BY <1>5
  <2>2. \/ parseLock[b] = "worker" /\ errand = "wantParse"
        \/ termLock[b] = "worker" /\ errand = "wantTerm"
    BY <1>2, <1>5 DEF MainWaits
  <2>3. task[b] = "reply"
    BY <1>5, <2>1, <2>2 DEF WorkerWaits, BounceInv, WorkerOwns, MainOwns
  <2> QED
    BY <1>1, <1>2, <1>5, <2>3 DEF Entangled
<1> QED
  BY <1>3, <1>4, <1>5

(* filterOutput through runOnMain is safe, and every set of threads that   *)
(* wait for one another holds the main thread and a worker that bounced a  *)
(* reply under the Terminal's locks, whatever the number of Terminals.     *)
THEOREM OnlyRepliesCloseCircles == Spec => []OnlyRepliesEntangle
<1>1. Init => BounceInv
  BY BounceInit
<1>2. BounceInv /\ [Next]_vars => BounceInv'
  BY BounceStep
<1>3. BounceInv => OnlyRepliesEntangle
  BY CircleIsEntangled
<1> QED
  BY <1>1, <1>2, <1>3, PTL DEF Spec
=============================================================================
