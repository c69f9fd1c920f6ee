----------------------------- MODULE RunOnMain -----------------------------
(***************************************************************************)
(* The locks around parsing and the bounce to the main thread.             *)
(*                                                                         *)
(* A parse task decodes under mParseStateMutex and applies under the       *)
(* Terminal's mMutex.  Scripts live on the main thread: a worker that has  *)
(* to ask one calls runOnMain(), which posts a lambda and blocks until the *)
(* main loop has drained it.  The main thread takes the same locks: mMutex *)
(* for every pane in buildRenderFrameState(), both for an injection from a *)
(* script, either of them below the render thread's mutex.                 *)
(*                                                                         *)
(* Each Terminal has one parse task at most (PtyRead), so a worker goes by *)
(* the Terminal it works for.                                              *)
(***************************************************************************)
EXTENDS Naturals, Sequences

CONSTANTS Terms, None

ASSUME BounceAssumption == Terms \cap {None, "main", "render"} = {}

VARIABLES
    task,       \* per Terminal, where its parse task is
    parseLock,  \* owner of mParseStateMutex: "worker", "main" or "free"
    termLock,   \* owner of mMutex
    plat,       \* owner of RenderThread::mutex(): "main", "render" or "free"
    posted,     \* posted_: the Terminals whose worker waits in runOnMain
    running,    \* what drainPosts swapped out
    mainPc,     \* phase of the main thread's tick
    errand,     \* what the main thread does with one Terminal
    mainAt,     \* that Terminal, or None
    todo,       \* panes that buildRenderFrameState has yet to visit
    renderPc    \* the render thread: "idle", "want" or "copy"

lockVars == <<parseLock, termLock>>
postVars == <<posted, running>>
mainVars == <<mainPc, errand, mainAt, todo>>
vars == <<task, parseLock, termLock, plat, posted, running, mainPc, errand,
          mainAt, todo, renderPc>>

Init ==
    /\ task = [t \in Terms |-> "idle"]
    /\ parseLock = [t \in Terms |-> "free"] /\ termLock = [t \in Terms |-> "free"]
    /\ plat = "free" /\ posted = <<>> /\ running = <<>>
    /\ mainPc = "events" /\ errand = "none" /\ mainAt = None /\ todo = {}
    /\ renderPc = "idle"

-----------------------------------------------------------------------------
(* The parse task: queueParse's loop and injectData.                       *)

Step(t, from, to) == task[t] = from /\ task' = [task EXCEPT ![t] = to]

\* Bytes are in the buffer: the first round, or one more after a batch.
Grab(t) ==
    /\ Step(t, "idle", "batch") \/ Step(t, "again", "batch")
    /\ UNCHANGED <<lockVars, plat, postVars, mainVars, renderPc>>

\* The buffer is empty: the task ends.
EndTask(t) ==
    /\ Step(t, "again", "idle")
    /\ UNCHANGED <<lockVars, plat, postVars, mainVars, renderPc>>

\* runOnMain: the worker posts what it asks for, and waits.
Ask(t, from, for) ==
    /\ Step(t, from, for)
    /\ posted' = Append(posted, t)
    /\ UNCHANGED <<lockVars, plat, running, mainVars, renderPc>>

\* Mutant: the filter is run inside injectData, behind the decoder's lock.
FilterLocked(t) == Ask(t, "decode", "output")

\* The output filter of the pane, if a script has one, is asked before injectData.
FilterOutput(t) == Ask(t, "batch", "output")

LockParse(t) ==
    /\ Step(t, "batch", "decode") \/ Step(t, "filtered", "decode")
    /\ parseLock[t] = "free" /\ parseLock' = [parseLock EXCEPT ![t] = "worker"]
    /\ UNCHANGED <<termLock, plat, postVars, mainVars, renderPc>>

LockTerm(t) ==
    /\ Step(t, "decode", "apply")
    /\ termLock[t] = "free" /\ termLock' = [termLock EXCEPT ![t] = "worker"]
    /\ UNCHANGED <<parseLock, plat, postVars, mainVars, renderPc>>

\* applyActions meets a query, at most once per batch: the reply is written as it
\* is, or the pane's input filter is asked first, or OSC 52 asks for the clipboard.
Reply(t) ==
    /\ Step(t, "apply", "replied")
    /\ UNCHANGED <<lockVars, plat, postVars, mainVars, renderPc>>

FilterReply(t) == Ask(t, "apply", "reply")

Unlock(t) ==
    /\ Step(t, "apply", "again") \/ Step(t, "replied", "again")
    /\ parseLock' = [parseLock EXCEPT ![t] = "free"]
    /\ termLock' = [termLock EXCEPT ![t] = "free"]
    /\ UNCHANGED <<plat, postVars, mainVars, renderPc>>

WorkerNext(t) ==
    \/ Grab(t) \/ EndTask(t) \/ FilterOutput(t) \/ LockParse(t) \/ LockTerm(t)
    \/ Reply(t) \/ FilterReply(t) \/ Unlock(t)

-----------------------------------------------------------------------------
(* The main thread: one tick is events, posts, and the rebuilt copy of the *)
(* state for the render thread.                                            *)

\* An input handler begins with the render thread's mutex.
WantHandler ==
    /\ mainPc = "events" /\ errand = "none" /\ mainPc' = "wantHandler"
    /\ UNCHANGED <<task, lockVars, plat, postVars, errand, mainAt, todo, renderPc>>

LockPlat ==
    /\ plat = "free" /\ plat' = "main"
    /\ \/ mainPc = "wantHandler" /\ mainPc' = "handler" /\ UNCHANGED todo
       \/ mainPc = "wantBuild" /\ mainPc' = "build" /\ todo' = Terms
    /\ UNCHANGED <<task, lockVars, postVars, errand, mainAt, renderPc>>

EndHandler ==
    /\ mainPc = "handler" /\ errand = "none"
    /\ mainPc' = "events" /\ plat' = "free"
    /\ UNCHANGED <<task, lockVars, postVars, errand, mainAt, todo, renderPc>>

\* A handler, a script or a filter looks at a Terminal ...
Touch(t) ==
    /\ mainPc \in {"events", "handler", "filter"} /\ errand = "none"
    /\ errand' = "wantTerm" /\ mainAt' = t
    /\ UNCHANGED <<task, lockVars, plat, postVars, mainPc, todo, renderPc>>

\* ... or injects data into it.
Inject(t) ==
    /\ mainPc \in {"events", "handler", "filter"} /\ errand = "none"
    /\ errand' = "wantParse" /\ mainAt' = t
    /\ UNCHANGED <<task, lockVars, plat, postVars, mainPc, todo, renderPc>>

\* forEachEmbedded of one pane.
Visit(t) ==
    /\ mainPc = "build" /\ errand = "none" /\ t \in todo
    /\ todo' = todo \ {t} /\ errand' = "wantTerm" /\ mainAt' = t
    /\ UNCHANGED <<task, lockVars, plat, postVars, mainPc, renderPc>>

MainLockParse ==
    /\ errand = "wantParse" /\ parseLock[mainAt] = "free"
    /\ parseLock' = [parseLock EXCEPT ![mainAt] = "main"]
    /\ errand' = "wantTerm"
    /\ UNCHANGED <<task, termLock, plat, postVars, mainPc, mainAt, todo, renderPc>>

MainLockTerm ==
    /\ errand = "wantTerm" /\ termLock[mainAt] = "free"
    /\ termLock' = [termLock EXCEPT ![mainAt] = "main"]
    /\ errand' = "inTerm"
    /\ UNCHANGED <<task, parseLock, plat, postVars, mainPc, mainAt, todo, renderPc>>

MainUnlock ==
    /\ errand = "inTerm"
    /\ termLock' = [termLock EXCEPT ![mainAt] = "free"]
    /\ parseLock' = [parseLock EXCEPT ![mainAt] = IF @ = "main" THEN "free" ELSE @]
    /\ errand' = "none" /\ mainAt' = None
    /\ UNCHANGED <<task, plat, postVars, mainPc, todo, renderPc>>

\* drainPosts swaps the list out and runs it in order.
EndEvents ==
    /\ mainPc = "events" /\ errand = "none"
    /\ mainPc' = "posts" /\ running' = posted /\ posted' = <<>>
    /\ UNCHANGED <<task, lockVars, plat, errand, mainAt, todo, renderPc>>

RunPost ==
    /\ mainPc = "posts" /\ running # <<>>
    /\ mainPc' = "filter"
    /\ UNCHANGED <<task, lockVars, plat, postVars, errand, mainAt, todo, renderPc>>

Answered(t) == task' = [task EXCEPT ![t] = IF @ = "output" THEN "filtered" ELSE "replied"]

\* Mutant: the rest of the list is dropped with the first lambda.
EndFilterDropsRest ==
    /\ mainPc = "filter" /\ errand = "none"
    /\ Answered(Head(running)) /\ running' = <<>>
    /\ mainPc' = "posts"
    /\ UNCHANGED <<lockVars, plat, posted, errand, mainAt, todo, renderPc>>

\* The filter has returned: the promise is set and the worker goes on.
EndFilter ==
    /\ mainPc = "filter" /\ errand = "none"
    /\ Answered(Head(running)) /\ running' = Tail(running)
    /\ mainPc' = "posts"
    /\ UNCHANGED <<lockVars, plat, posted, errand, mainAt, todo, renderPc>>

EndPosts ==
    /\ mainPc = "posts" /\ running = <<>>
    /\ mainPc' = "wantBuild"
    /\ UNCHANGED <<task, lockVars, plat, postVars, errand, mainAt, todo, renderPc>>

EndBuild ==
    /\ mainPc = "build" /\ errand = "none" /\ todo = {}
    /\ mainPc' = "events" /\ plat' = "free"
    /\ UNCHANGED <<task, lockVars, postVars, errand, mainAt, todo, renderPc>>

MainNext ==
    \/ WantHandler \/ LockPlat \/ EndHandler
    \/ \E t \in Terms : Touch(t) \/ Inject(t) \/ Visit(t)
    \/ MainLockParse \/ MainLockTerm \/ MainUnlock
    \/ EndEvents \/ RunPost \/ EndFilter \/ EndPosts \/ EndBuild

-----------------------------------------------------------------------------
(* The render thread copies the state at the start of a frame.             *)

WantCopy ==
    /\ renderPc = "idle" /\ renderPc' = "want"
    /\ UNCHANGED <<task, lockVars, plat, postVars, mainVars>>

Copy ==
    /\ renderPc = "want" /\ plat = "free"
    /\ renderPc' = "copy" /\ plat' = "render"
    /\ UNCHANGED <<task, lockVars, postVars, mainVars>>

EndCopy ==
    /\ renderPc = "copy" /\ renderPc' = "idle" /\ plat' = "free"
    /\ UNCHANGED <<task, lockVars, postVars, mainVars>>

RenderNext == WantCopy \/ Copy \/ EndCopy

Next == MainNext \/ RenderNext \/ \E t \in Terms : WorkerNext(t)

Spec == Init /\ [][Next]_vars

(* The workers run, except that nothing makes a child write or a script    *)
(* ask.  An event handler and a filter take the locks finitely often, and  *)
(* a free lock is got in the end: a worker naps 3 ms between two batches.  *)
Fairness ==
    /\ \A t \in Terms : WF_vars(LockParse(t) \/ LockTerm(t) \/ Unlock(t) \/ EndTask(t))
    /\ WF_vars(RunPost \/ EndPosts \/ MainUnlock \/ EndBuild \/ \E t \in Terms : Visit(t))
    /\ SF_vars(EndEvents) /\ SF_vars(EndHandler) /\ SF_vars(EndFilter)
    /\ SF_vars(LockPlat) /\ SF_vars(MainLockParse) /\ SF_vars(MainLockTerm)
    /\ WF_vars(EndCopy)

FairSpec == Spec /\ Fairness

-----------------------------------------------------------------------------

TypeOK ==
    /\ task \in [Terms -> {"idle", "again", "batch", "output", "filtered",
                           "decode", "apply", "reply", "replied"}]
    /\ parseLock \in [Terms -> {"free", "worker", "main"}]
    /\ termLock \in [Terms -> {"free", "worker", "main"}]
    /\ plat \in {"free", "main", "render"}
    /\ posted \in Seq(Terms) /\ running \in Seq(Terms)
    /\ mainPc \in {"events", "wantHandler", "handler", "posts", "filter",
                   "wantBuild", "build"}
    /\ errand \in {"none", "wantParse", "wantTerm", "inTerm"}
    /\ mainAt \in Terms \cup {None} /\ (mainAt = None <=> errand = "none")
    /\ todo \subseteq Terms
    /\ renderPc \in {"idle", "want", "copy"}

(* Thread a cannot go on before thread b does something: b owns the lock   *)
(* it asks for, or b is the main thread and a waits in runOnMain.          *)
Threads == Terms \cup {"main", "render"}

MainWaits(b) ==
    \/ mainPc \in {"wantHandler", "wantBuild"} /\ plat = "render" /\ b = "render"
    \/ errand = "wantParse" /\ parseLock[mainAt] = "worker" /\ b = mainAt
    \/ errand = "wantTerm" /\ termLock[mainAt] = "worker" /\ b = mainAt

WorkerWaits(t) ==
    \/ task[t] \in {"output", "reply"}
    \/ task[t] \in {"batch", "filtered"} /\ parseLock[t] = "main"
    \/ task[t] = "decode" /\ termLock[t] = "main"

RenderWaits == renderPc = "want" /\ plat = "main"

WaitsFor(a, b) ==
    \/ a = "main" /\ MainWaits(b)
    \/ a \in Terms /\ WorkerWaits(a) /\ b = "main"
    \/ a = "render" /\ RenderWaits /\ b = "main"

Circle(S) == S # {} /\ \A a \in S : \E b \in S : WaitsFor(a, b)

(* A reply in the way: its worker waits for the main thread with the locks *)
(* of its Terminal, and the main thread wants one of them.                 *)
Entangled(t) == task[t] = "reply" /\ MainWaits(t)

(* Threads wait for one another only as the main thread and a worker do    *)
(* that bounced a reply under the locks of the Terminal the main thread    *)
(* wants: neither the output filters, nor the posts behind one another,    *)
(* nor the mutex of the render thread, nor injections close a circle.      *)
OnlyRepliesEntangle ==
    \A S \in SUBSET Threads :
        Circle(S) => "main" \in S /\ \E t \in S \cap Terms : Entangled(t)

(* "filter* bounces through runOnMain to invoke QuickJS safely"            *)
(* (Platform_Tabs.cpp, for output and input filters alike): no set of      *)
(* threads waits for one another, between the two locks of a Terminal, the *)
(* mutex of the render thread and the posts of runOnMain.                  *)
NoWaitCycle == \A S \in SUBSET Threads : ~Circle(S)

(* A worker that waits in runOnMain gets its answer, however many wait and *)
(* whatever the main thread does before, unless a reply entangles it.      *)
BounceReturns ==
    \A t \in Terms :
        (task[t] \in {"output", "reply"})
            ~> (task[t] \in {"filtered", "replied"} \/ \E u \in Terms : Entangled(u))
=============================================================================
