------------------------------- MODULE PtyRead -------------------------------
(***************************************************************************)
(* The read side of one Terminal: bytes travel from the child process to   *)
(* the parser through three threads.                                       *)
(*                                                                         *)
(*   child --> kernel --mux--> mReadCoalesceBuffer --worker--> parser      *)
(*                                                                         *)
(* The PtyMux thread runs FdPollerEpoll::poll() and, when the master fd    *)
(* fires, Terminal::readFromFD() followed by queueParse().  A worker of    *)
(* the pool runs the task queueParse() submits.  The main thread closes    *)
(* the Terminal: a synchronous removal from the poller, the graveyard, and *)
(* the destructor with a second synchronous removal before close(fd).      *)
(*                                                                         *)
(* A byte is its position in the child's output.  A read returns at most   *)
(* Chunk bytes and the kernel holds at most KernelCap: both are units of   *)
(* the same scale as High and Low, not literal byte counts.                *)
(***************************************************************************)
EXTENDS Integers, Sequences, FiniteSets

CONSTANTS
    Workers,    \* threads of the WorkerPool
    High,       \* kReadBufferHigh
    Low,        \* kReadBufferLow
    Chunk,      \* sizeof(buf) in readFromFD
    KernelCap,  \* capacity of the kernel's PTY buffer
    MaxBytes    \* bound on the child's output

ASSUME WorkersAssumption == IsFiniteSet(Workers) /\ Workers # {}
ASSUME BufferAssumption  == High \in Nat /\ Low \in Nat /\ Low < High
ASSUME KernelAssumption  == Chunk \in Nat \ {0} /\ KernelCap \in Nat \ {0}
ASSUME BoundAssumption   == MaxBytes \in Nat

VARIABLES
    written,    \* bytes the child has written so far
    hup,        \* the child is gone, the slave side is closed
    kernel,     \* bytes in the kernel, not read yet
    reg,        \* fds_ entry of the fd: none, on (Readable), off (None)
    ops,        \* pendingOps_ of the poller
    local,      \* the operations drainPending swapped out, being applied
    wake,       \* the eventfd wakeupFd_ is readable
    woken,      \* wakeFired of the current poll()
    muxPc,      \* where the mux thread is
    muxBuf,     \* buf[0..ret) of readFromFD
    coalesce,   \* mReadCoalesceBuffer
    paused,     \* mReadPaused
    exited,     \* mExited: "no", or what made markExited() set it
    inFlight,   \* mParseInFlight
    tasks,      \* parse tasks queued in the pool, not taken yet
    workerPc,   \* where each worker is
    batch,      \* what each worker swapped out of mReadCoalesceBuffer
    parsed,     \* bytes handed to injectData, in order
    mainPc,     \* how far the main thread is with closing the Terminal
    done        \* the promise of the current removeSync is fulfilled

child   == <<written, hup>>
poller  == <<reg, ops, local, wake>>
mux     == <<woken, muxPc, muxBuf>>
pool    == <<inFlight, tasks, workerPc, batch, parsed>>
main    == <<mainPc, done>>
vars    == <<written, hup, kernel, reg, ops, local, wake, woken, muxPc, muxBuf,
             coalesce, paused, exited, inFlight, tasks, workerPc, batch, parsed,
             mainPc, done>>

Ops      == {"add", "enable", "disable", "remove", "ack"}
MuxPcs   == {"drain", "apply", "wait", "enter", "read", "append", "pause",
             "disable", "qcheck", "qcas", "wakeclear", "wakedrain", "wakeapply"}
WorkPcs  == {"idle", "grab", "inject", "resume", "size", "cas", "enable", "wake"}
MainPcs  == {"live", "closewake", "closewait", "graveyard", "dtorwake",
             "dtorwait", "freed"}

(* The mux thread is inside the callback addPtyPoll registered.            *)
Callback == {"enter", "read", "append", "pause", "disable", "qcheck", "qcas"}

Least(a, b) == IF a < b THEN a ELSE b

-----------------------------------------------------------------------------
(* addPtyPoll has queued the registration; nothing else has happened.      *)
Init ==
    /\ written = 0 /\ hup = FALSE /\ kernel = <<>>
    /\ reg = "none" /\ ops = <<"add">> /\ local = <<>> /\ wake = TRUE
    /\ woken = FALSE /\ muxPc = "drain" /\ muxBuf = <<>>
    /\ coalesce = <<>> /\ paused = FALSE /\ exited = "no"
    /\ inFlight = FALSE /\ tasks = 0
    /\ workerPc = [w \in Workers |-> "idle"]
    /\ batch = [w \in Workers |-> <<>>] /\ parsed = <<>>
    /\ mainPc = "live" /\ done = FALSE

-----------------------------------------------------------------------------
(* The child process.                                                      *)

ChildWrite ==
    /\ ~hup /\ written < MaxBytes /\ Len(kernel) < KernelCap
    /\ written' = written + 1
    /\ kernel' = Append(kernel, written + 1)
    /\ UNCHANGED <<hup, poller, mux, coalesce, paused, exited, pool, main>>

ChildExit ==
    /\ ~hup
    /\ hup' = TRUE
    /\ UNCHANGED <<written, kernel, poller, mux, coalesce, paused, exited, pool,
                   main>>

-----------------------------------------------------------------------------
(* Terminal::markExited, from whichever thread.  Only the first caller     *)
(* goes on to removeAsync and to onTerminalExited; exited # "no" is also   *)
(* what the main thread finds in the queue of exits.  The calls are one    *)
(* step: nobody's decision depends on both the flag and the poller.        *)
MarkExited(cause) ==
    IF exited = "no"
    THEN /\ exited' = cause
         /\ ops' = Append(ops, "remove")
         /\ wake' = TRUE
    ELSE UNCHANGED <<exited, ops, wake>>

-----------------------------------------------------------------------------
(* The mux thread: FdPollerEpoll::poll in PtyMux::threadMain's loop.       *)

(* drainPending: swap the queue out under pendingMu_.                      *)
MuxDrain ==
    /\ \/ muxPc = "drain"     /\ muxPc' = "apply"
       \/ muxPc = "wakedrain" /\ muxPc' = "wakeapply"
    /\ local' = ops
    /\ ops' = <<>>
    /\ UNCHANGED <<child, kernel, reg, wake, woken, muxBuf, coalesce, paused,
                   exited, pool, main>>

(* applyOp on the fd's entry.  An update of an fd that is not registered   *)
(* is dropped.                                                             *)
Applied(op) ==
    CASE op = "add"    -> "on"
      [] op = "remove" -> "none"
      [] op = "enable"  /\ reg # "none" -> "on"
      [] op = "disable" /\ reg # "none" -> "off"
      [] OTHER -> reg

MuxApply ==
    /\ muxPc \in {"apply", "wakeapply"} /\ local # <<>>
    /\ reg' = Applied(Head(local))
    /\ done' = (done \/ Head(local) = "ack")
    /\ local' = Tail(local)
    /\ UNCHANGED <<child, kernel, ops, wake, mux, coalesce, paused, exited, pool,
                   mainPc>>

MuxApplied ==
    /\ local = <<>>
    /\ \/ muxPc = "apply"     /\ muxPc' = "wait"
       \/ muxPc = "wakeapply" /\ muxPc' = "drain"
    /\ UNCHANGED <<child, kernel, poller, woken, muxBuf, coalesce, paused,
                   exited, pool, main>>

(* epoll_wait reports EPOLLHUP whatever the mask is.                       *)
Ready ==
    \/ reg = "on" /\ (kernel # <<>> \/ hup)
    \/ reg = "off" /\ hup

MuxWait ==
    /\ muxPc = "wait" /\ (Ready \/ wake)
    /\ woken' = wake
    /\ muxPc' = IF Ready THEN "enter" ELSE "wakeclear"
    /\ UNCHANGED <<child, kernel, poller, muxBuf, coalesce, paused, exited, pool,
                   main>>

(* After the callback: handle the wakeup if there was one.                 *)
AfterCallback == IF woken THEN "wakeclear" ELSE "drain"

MuxWakeClear ==
    /\ muxPc = "wakeclear"
    /\ wake' = FALSE
    /\ muxPc' = "wakedrain"
    /\ UNCHANGED <<child, kernel, reg, ops, local, woken, muxBuf, coalesce,
                   paused, exited, pool, main>>

(* readFromFD: a callback that comes after markExited reads nothing.       *)
MuxEnter ==
    /\ muxPc = "enter"
    /\ muxPc' = IF exited # "no" THEN "qcheck" ELSE "read"
    /\ UNCHANGED <<child, kernel, poller, woken, muxBuf, coalesce, paused,
                   exited, pool, main>>

MuxRead ==
    /\ muxPc = "read" /\ kernel # <<>>
    /\ \E n \in 1..Least(Chunk, Len(kernel)) :
        /\ muxBuf' = SubSeq(kernel, 1, n)
        /\ kernel' = SubSeq(kernel, n + 1, Len(kernel))
    /\ muxPc' = "append"
    /\ UNCHANGED <<child, poller, woken, coalesce, paused, exited, pool, main>>

MuxReadAgain ==
    /\ muxPc = "read" /\ kernel = <<>> /\ ~hup
    /\ muxPc' = "qcheck"
    /\ UNCHANGED <<child, kernel, poller, woken, muxBuf, coalesce, paused,
                   exited, pool, main>>

MuxReadEof ==
    /\ muxPc = "read" /\ kernel = <<>> /\ hup
    /\ MarkExited("eof")
    /\ muxPc' = "qcheck"
    /\ UNCHANGED <<child, kernel, reg, local, woken, muxBuf, coalesce, paused,
                   pool, main>>

(* The insertion under mReadBufferMutex; atHigh is decided there and the   *)
(* lock is released before mReadPaused is looked at.                       *)
MuxAppend ==
    /\ muxPc = "append"
    /\ coalesce' = coalesce \o muxBuf
    /\ muxBuf' = <<>>
    /\ muxPc' = IF Len(coalesce) + Len(muxBuf) >= High THEN "pause" ELSE "read"
    /\ UNCHANGED <<child, kernel, poller, woken, paused, exited, pool, main>>

(* if (atHigh && !mReadPaused) mReadPaused = true; a Terminal that is      *)
(* paused already keeps reading.                                           *)
MuxPause ==
    /\ muxPc = "pause"
    /\ paused' = TRUE
    /\ muxPc' = IF paused THEN "read" ELSE "disable"
    /\ UNCHANGED <<child, kernel, poller, woken, muxBuf, coalesce, exited, pool,
                   main>>

(* Mutation: the callback returns on a pause without queueParse.            *)
MuxDisableReturns ==
    /\ muxPc = "disable"
    /\ ops' = Append(ops, "disable")
    /\ wake' = TRUE
    /\ muxPc' = IF woken THEN "wakeclear" ELSE "drain"
    /\ UNCHANGED <<child, kernel, reg, local, woken, muxBuf, coalesce, paused,
                   exited, pool, main>>

(* PtyMux::disable goes through the queue like every other operation.      *)
MuxDisable ==
    /\ muxPc = "disable"
    /\ ops' = Append(ops, "disable")
    /\ wake' = TRUE
    /\ muxPc' = "qcheck"
    /\ UNCHANGED <<child, kernel, reg, local, woken, muxBuf, coalesce, paused,
                   exited, pool, main>>

(* queueParse: nothing buffered and nothing in flight, nothing to do.      *)
MuxQueueCheck ==
    /\ muxPc = "qcheck"
    /\ muxPc' = IF coalesce = <<>> /\ ~inFlight THEN AfterCallback ELSE "qcas"
    /\ UNCHANGED <<child, kernel, poller, woken, muxBuf, coalesce, paused,
                   exited, pool, main>>

(* Mutation: the single-flight guard is not looked at.                      *)
MuxQueueUnguarded ==
    /\ muxPc = "qcas"
    /\ inFlight' = TRUE
    /\ tasks' = tasks + 1
    /\ muxPc' = AfterCallback
    /\ UNCHANGED <<child, kernel, poller, woken, muxBuf, coalesce, paused,
                   exited, workerPc, batch, parsed, main>>

(* queueParse: the single-flight guard, and the submission if it is won.   *)
MuxQueue ==
    /\ muxPc = "qcas"
    /\ inFlight' = TRUE
    /\ tasks' = IF inFlight THEN tasks ELSE tasks + 1
    /\ muxPc' = AfterCallback
    /\ UNCHANGED <<child, kernel, poller, woken, muxBuf, coalesce, paused,
                   exited, workerPc, batch, parsed, main>>

MuxNext ==
    \/ MuxDrain \/ MuxApply \/ MuxApplied \/ MuxWait \/ MuxWakeClear
    \/ MuxEnter \/ MuxRead \/ MuxReadAgain \/ MuxReadEof \/ MuxAppend
    \/ MuxPause \/ MuxDisable \/ MuxQueueCheck \/ MuxQueue

-----------------------------------------------------------------------------
(* A worker running the task of queueParse.                                *)

Goto(w, pc) == workerPc' = [workerPc EXCEPT ![w] = pc]

WorkerTake(w) ==
    /\ workerPc[w] = "idle" /\ tasks > 0
    /\ tasks' = tasks - 1
    /\ Goto(w, "grab")
    /\ UNCHANGED <<child, kernel, poller, mux, coalesce, paused, exited,
                   inFlight, batch, parsed, main>>

(* Mutation: the buffer is copied, not swapped.                             *)
WorkerGrabCopy(w) ==
    /\ workerPc[w] = "grab"
    /\ batch' = [batch EXCEPT ![w] = coalesce]
    /\ inFlight' = IF coalesce = <<>> THEN FALSE ELSE inFlight
    /\ Goto(w, IF coalesce = <<>> THEN "idle" ELSE "inject")
    /\ UNCHANGED <<child, kernel, poller, mux, coalesce, paused, exited, tasks,
                   parsed, main>>

(* Swap the buffer out, or leave and clear mParseInFlight under the same   *)
(* lock.                                                                   *)
WorkerGrab(w) ==
    /\ workerPc[w] = "grab"
    /\ batch' = [batch EXCEPT ![w] = coalesce]
    /\ coalesce' = <<>>
    /\ inFlight' = IF coalesce = <<>> THEN FALSE ELSE inFlight
    /\ Goto(w, IF coalesce = <<>> THEN "idle" ELSE "inject")
    /\ UNCHANGED <<child, kernel, poller, mux, paused, exited, tasks, parsed,
                   main>>

(* Mutation: one batch per task, and mParseInFlight stays set.              *)
WorkerInjectOnce(w) ==
    /\ workerPc[w] = "inject"
    /\ parsed' = parsed \o batch[w]
    /\ batch' = [batch EXCEPT ![w] = <<>>]
    /\ Goto(w, "idle")
    /\ UNCHANGED <<child, kernel, poller, mux, coalesce, paused, exited,
                   inFlight, tasks, main>>

(* injectData on the batch.  A reply the parser writes fails when the      *)
(* child is gone, and writeToPTY then calls markExited on the worker.      *)
WorkerInject(w) ==
    /\ workerPc[w] = "inject"
    /\ parsed' = parsed \o batch[w]
    /\ batch' = [batch EXCEPT ![w] = <<>>]
    /\ Goto(w, "resume")
    /\ \/ UNCHANGED <<exited, ops, wake>>
       \/ hup /\ MarkExited("write")
    /\ UNCHANGED <<child, kernel, reg, local, mux, coalesce, paused, inFlight,
                   tasks, main>>

(* maybeResumeRead: its two early returns.  They are one step because only *)
(* this worker clears mReadPaused.                                         *)
WorkerResume(w) ==
    /\ workerPc[w] = "resume"
    /\ Goto(w, IF paused /\ exited = "no" THEN "size" ELSE "grab")
    /\ UNCHANGED <<child, kernel, poller, mux, coalesce, paused, exited,
                   inFlight, tasks, batch, parsed, main>>

WorkerSize(w) ==
    /\ workerPc[w] = "size"
    /\ Goto(w, IF Len(coalesce) <= Low THEN "cas" ELSE "grab")
    /\ UNCHANGED <<child, kernel, poller, mux, coalesce, paused, exited,
                   inFlight, tasks, batch, parsed, main>>

WorkerCas(w) ==
    /\ workerPc[w] = "cas"
    /\ paused' = FALSE
    /\ Goto(w, IF paused THEN "enable" ELSE "grab")
    /\ UNCHANGED <<child, kernel, poller, mux, coalesce, exited, inFlight,
                   tasks, batch, parsed, main>>

(* PtyMux::enable: queue the operation, then write the eventfd.            *)
WorkerEnable(w) ==
    /\ workerPc[w] = "enable"
    /\ ops' = Append(ops, "enable")
    /\ Goto(w, "wake")
    /\ UNCHANGED <<child, kernel, reg, local, wake, mux, coalesce, paused,
                   exited, inFlight, tasks, batch, parsed, main>>

WorkerWake(w) ==
    /\ workerPc[w] = "wake"
    /\ wake' = TRUE
    /\ Goto(w, "grab")
    /\ UNCHANGED <<child, kernel, reg, ops, local, mux, coalesce, paused,
                   exited, inFlight, tasks, batch, parsed, main>>

WorkerNext(w) ==
    \/ WorkerTake(w) \/ WorkerGrab(w) \/ WorkerInject(w) \/ WorkerResume(w)
    \/ WorkerSize(w) \/ WorkerCas(w) \/ WorkerEnable(w) \/ WorkerWake(w)

-----------------------------------------------------------------------------
(* The main thread.                                                        *)

(* removeSync: the removal and its acknowledgement enter the queue         *)
(* together; the eventfd is written after the lock is released.            *)
RemoveSync(from, to) ==
    /\ mainPc = from
    /\ ops' = ops \o <<"remove", "ack">>
    /\ mainPc' = to
    /\ done' = FALSE
    /\ UNCHANGED <<child, kernel, reg, local, wake, mux, coalesce, paused,
                   exited, pool>>

(* closeTab, at the user's request, starts with removePtyPoll.             *)
CloseTab == RemoveSync("live", "closewake")

(* applyPendingMutations found the Terminal in the exit queue.             *)
KillTerminal == exited # "no" /\ RemoveSync("live", "closewake")

(* The write of the eventfd, before the wait for the acknowledgement.      *)
FenceWake ==
    /\ \/ mainPc = "closewake" /\ mainPc' = "closewait"
       \/ mainPc = "dtorwake"  /\ mainPc' = "dtorwait"
    /\ wake' = TRUE
    /\ UNCHANGED <<child, kernel, reg, ops, local, mux, coalesce, paused,
                   exited, pool, done>>

(* The acknowledgement has come: the Terminal is extracted and buried, or  *)
(* its fd is closed and it is gone.                                        *)
FenceDone ==
    /\ done
    /\ \/ mainPc = "closewait" /\ mainPc' = "graveyard"
       \/ mainPc = "dtorwait"  /\ mainPc' = "freed"
    /\ UNCHANGED <<child, kernel, poller, mux, coalesce, paused, exited, pool,
                   done>>

(* Mutation: the graveyard does not ask whether a parse is in flight.       *)
SweepNotReady == RemoveSync("graveyard", "dtorwake")

(* Mutation: the destructor trusts the removal done at extraction.          *)
SweepUnfenced ==
    /\ ~inFlight /\ mainPc = "graveyard"
    /\ mainPc' = "freed"
    /\ UNCHANGED <<child, kernel, poller, mux, coalesce, paused, exited, pool,
                   done>>

(* Graveyard::sweep runs ~Terminal once its ready predicate holds; the     *)
(* frame gate only delays it.  The destructor removes the fd once more and *)
(* closes it after the acknowledgement.                                    *)
Sweep == ~inFlight /\ RemoveSync("graveyard", "dtorwake")

(* A keystroke after the child has gone: write() fails on the main thread. *)
MainWriteFails ==
    /\ mainPc = "live" /\ hup /\ exited = "no"
    /\ MarkExited("write")
    /\ UNCHANGED <<child, kernel, reg, local, mux, coalesce, paused, pool, main>>

MainNext ==
    \/ CloseTab \/ KillTerminal \/ FenceWake \/ FenceDone \/ Sweep
    \/ MainWriteFails

-----------------------------------------------------------------------------
Next ==
    \/ ChildWrite \/ ChildExit
    \/ MuxNext
    \/ \E w \in Workers : WorkerNext(w)
    \/ MainNext

(* The mux thread and the workers run until they block, and the main loop  *)
(* keeps ticking.  The child, the user and a failing write owe nothing.    *)
Fairness ==
    /\ WF_vars(MuxNext)
    /\ \A w \in Workers : WF_vars(WorkerNext(w))
    /\ WF_vars(KillTerminal \/ FenceWake \/ FenceDone \/ Sweep)

Spec == Init /\ [][Next]_vars
FairSpec == Spec /\ Fairness

-----------------------------------------------------------------------------
(* Properties.                                                             *)

(* Every variable keeps its type; the kernel never holds more than it can. *)
TypeOK ==
    /\ written \in 0..MaxBytes /\ hup \in BOOLEAN
    /\ kernel \in Seq(Nat) /\ Len(kernel) <= KernelCap
    /\ reg \in {"none", "on", "off"}
    /\ ops \in Seq(Ops) /\ local \in Seq(Ops)
    /\ wake \in BOOLEAN /\ woken \in BOOLEAN
    /\ muxPc \in MuxPcs /\ muxBuf \in Seq(Nat)
    /\ coalesce \in Seq(Nat)
    /\ paused \in BOOLEAN /\ exited \in {"no", "eof", "write"}
    /\ inFlight \in BOOLEAN /\ tasks \in Nat
    /\ workerPc \in [Workers -> WorkPcs]
    /\ batch \in [Workers -> Seq(Nat)] /\ parsed \in Seq(Nat)
    /\ mainPc \in MainPcs /\ done \in BOOLEAN

Busy == {w \in Workers : workerPc[w] # "idle"}

(* The parser is single-threaded: at most one task exists, queued or being *)
(* run, and mParseInFlight says so.  applyActions relies on it, because    *)
(* two workers in injectData would interleave one escape sequence with     *)
(* another.                                                                *)
SingleFlight ==
    /\ \A v, w \in Busy : v = w
    /\ inFlight <=> (tasks = 1 \/ Busy # {})
    /\ tasks \in {0, 1}
    /\ tasks = 0 \/ Busy = {}

(* Bytes are never stranded in the buffer: whenever the mux thread is out  *)
(* of the callback and bytes are buffered, a task is in flight that will   *)
(* look at the buffer again before it ends.                                *)
NothingStranded == coalesce # <<>> /\ muxPc \notin Callback => inFlight

(* Once ~Terminal has started, neither the mux callback nor a parse task   *)
(* runs or is queued on the Terminal.                                      *)
DestroyQuiescent ==
    mainPc \in {"dtorwake", "dtorwait", "freed"} =>
        muxPc \notin Callback /\ tasks = 0 /\ Busy = {}

(* Once the fd is closed its number can be reused by the next Terminal, so *)
(* the poller holds neither a registration nor an operation for it: a late *)
(* enable or removal would hit the new owner.                              *)
ClosedFdForgotten ==
    mainPc = "freed" => reg = "none" /\ ops = <<>> /\ local = <<>>

(* The read side implements the abstract stream.                            *)
Output == INSTANCE OutputStream
            WITH sent <- written, delivered <- parsed, gone <- mainPc = "freed"
RefinesStream == Output!Spec

(* Whatever the child writes is parsed, as long as backpressure does not   *)
(* mask the fd, unless the Terminal is closed or a failed write ends it; a *)
(* Terminal whose child is gone is noticed, closed and destroyed; and a    *)
(* close that has begun ends, neither fence waits for ever.                *)
OutputParsed ==
    (Len(parsed) < written)
        ~> (Len(parsed) = written \/ reg = "off" \/ exited = "write" \/ mainPc # "live")
HangupFrees == hup ~> mainPc = "freed"
CloseEnds == (mainPc # "live") ~> (mainPc = "freed")
EverythingEnds == OutputParsed /\ HangupFrees /\ CloseEnds

(* Terminal.h on mReadPaused: "Re-armed by the worker thread ... once the  *)
(* buffer drops below kReadBufferLow".  A paused Terminal whose buffer is  *)
(* empty is read again, or is closed.                                      *)
BackpressureResumes ==
    (reg = "off" /\ coalesce = <<>> /\ kernel # <<>>)
        ~> (reg = "on" \/ exited # "no" \/ mainPc # "live")
=============================================================================
