---------------------------- MODULE PtyReadProofs ----------------------------
(***************************************************************************)
(* Theorems about PtyRead for every set of workers, every pair of water    *)
(* marks and every size of the kernel buffer and of the child's output.    *)
(***************************************************************************)
EXTENDS PtyRead, TLAPS

USE WorkersAssumption, BufferAssumption, KernelAssumption, BoundAssumption

(* Appending and cutting keep sequences of the same elements.              *)
LEMMA SliceType ==
    ASSUME NEW S, NEW s \in Seq(S), NEW n \in 0..Len(s)
    PROVE  /\ SubSeq(s, 1, n) \in Seq(S) /\ Len(SubSeq(s, 1, n)) = n
           /\ SubSeq(s, n + 1, Len(s)) \in Seq(S)
           /\ Len(SubSeq(s, n + 1, Len(s))) = Len(s) - n
  OBVIOUS

(* What the operations queued for the poller are made of.                  *)
LEMMA OpsType ==
    /\ <<"add">> \in Seq(Ops)
    /\ \A s \in Seq(Ops) : s \o <<"remove", "ack">> \in Seq(Ops)
    /\ \A s \in Seq(Ops), op \in Ops : Append(s, op) \in Seq(Ops)
    /\ \A s \in Seq(Ops) : s # <<>> => Head(s) \in Ops /\ Tail(s) \in Seq(Ops)
<1>1. <<"add">> \in Seq(Ops) /\ <<"remove", "ack">> \in Seq(Ops)
  BY DEF Ops
<1> QED
  BY <1>1

LEMMA MarkExitedType ==
    ASSUME TypeOK, NEW cause \in {"eof", "write"}, MarkExited(cause)
    PROVE  /\ exited' \in {"no", "eof", "write"}
           /\ ops' \in Seq(Ops) /\ wake' \in BOOLEAN
<1>1. "remove" \in Ops
  BY DEF Ops
<1> QED
  BY <1>1, OpsType DEF TypeOK, MarkExited

LEMMA InitType == Init => TypeOK
<1> SUFFICES ASSUME Init PROVE TypeOK
  OBVIOUS
<1>1. /\ kernel \in Seq(Nat) /\ Len(kernel) <= KernelCap
      /\ muxBuf \in Seq(Nat) /\ coalesce \in Seq(Nat) /\ parsed \in Seq(Nat)
      /\ ops \in Seq(Ops) /\ local \in Seq(Ops)
  BY OpsType DEF Init
<1>2. batch \in [Workers -> Seq(Nat)] /\ workerPc \in [Workers -> WorkPcs]
  BY DEF Init, WorkPcs
<1> QED
  <2>1. written \in 0..MaxBytes /\ tasks \in Nat /\ reg \in {"none", "on", "off"}
    BY DEF Init
  <2>2. muxPc \in MuxPcs /\ mainPc \in MainPcs /\ exited \in {"no", "eof", "write"}
    BY DEF Init, MuxPcs, MainPcs
  <2>3. /\ hup \in BOOLEAN /\ wake \in BOOLEAN /\ woken \in BOOLEAN
        /\ paused \in BOOLEAN /\ inFlight \in BOOLEAN /\ done \in BOOLEAN
    BY DEF Init
  <2> QED
    BY <1>1, <1>2, <2>1, <2>2, <2>3 DEF TypeOK

LEMMA MuxType == TypeOK /\ MuxNext => TypeOK'
<1> SUFFICES ASSUME TypeOK, MuxNext PROVE TypeOK'
  OBVIOUS
<1> USE DEF TypeOK, child, poller, mux, pool, main
<1>1. CASE MuxDrain
  BY <1>1 DEF MuxDrain, MuxPcs, Ops
<1>2. CASE MuxApply
  BY <1>2 DEF MuxApply, Applied, MuxPcs, Ops
<1>3. CASE MuxApplied
  BY <1>3 DEF MuxApplied, MuxPcs
<1>4. CASE MuxWait
  BY <1>4 DEF MuxWait, MuxPcs
<1>5. CASE MuxWakeClear
  BY <1>5 DEF MuxWakeClear, MuxPcs
<1>6. CASE MuxEnter
  BY <1>6 DEF MuxEnter, MuxPcs
<1>7. CASE MuxRead
  <2>1. PICK n \in 1..Least(Chunk, Len(kernel)) :
            /\ muxBuf' = SubSeq(kernel, 1, n)
            /\ kernel' = SubSeq(kernel, n + 1, Len(kernel))
    BY <1>7 DEF MuxRead
  <2>2. n \in 0..Len(kernel)
    BY <2>1 DEF Least
  <2>3. /\ muxBuf' \in Seq(Nat) /\ kernel' \in Seq(Nat)
        /\ Len(kernel') <= KernelCap
    <3>1. /\ SubSeq(kernel, 1, n) \in Seq(Nat)
          /\ SubSeq(kernel, n + 1, Len(kernel)) \in Seq(Nat)
          /\ Len(SubSeq(kernel, n + 1, Len(kernel))) = Len(kernel) - n
      BY <2>2, SliceType
    <3>2. Len(kernel) \in Nat /\ n \in Nat /\ Len(kernel) <= KernelCap
      BY <2>2
    <3>3. Len(kernel) - n <= KernelCap
      BY <3>2
    <3>4. Len(kernel') = Len(kernel) - n
      BY <2>1, <3>1
    <3> QED
      BY <2>1, <3>1, <3>3, <3>4
  <2> QED
    BY <1>7, <2>3 DEF MuxRead, MuxPcs
<1>8. CASE MuxReadAgain
  BY <1>8 DEF MuxReadAgain, MuxPcs
<1>9. CASE MuxReadEof
  BY <1>9, MarkExitedType DEF MuxReadEof, MuxPcs
<1>10. CASE MuxAppend
  BY <1>10 DEF MuxAppend, MuxPcs
<1>11. CASE MuxPause
  BY <1>11 DEF MuxPause, MuxPcs
<1>12. CASE MuxDisable
  BY <1>12 DEF MuxDisable, MuxPcs, Ops
<1>13. CASE MuxQueueCheck
  BY <1>13 DEF MuxQueueCheck, AfterCallback, MuxPcs
<1>14. CASE MuxQueue
  BY <1>14 DEF MuxQueue, AfterCallback, MuxPcs
<1> QED
  BY <1>1, <1>2, <1>3, <1>4, <1>5, <1>6, <1>7, <1>8, <1>9, <1>10, <1>11,
     <1>12, <1>13, <1>14 DEF MuxNext

LEMMA WorkerType ==
    ASSUME NEW w \in Workers, TypeOK, WorkerNext(w)
    PROVE  TypeOK'
<1> USE DEF TypeOK, child, poller, mux, pool, main, Goto
<1>1. CASE WorkerTake(w)
  BY <1>1 DEF WorkerTake, WorkPcs
<1>2. CASE WorkerGrab(w)
  <2>1. /\ coalesce' = <<>> /\ inFlight' \in BOOLEAN
        /\ batch' = [batch EXCEPT ![w] = coalesce]
    BY <1>2, Zenon DEF WorkerGrab
  <2>3. batch' \in [Workers -> Seq(Nat)]
    BY <2>1
  <2>2. workerPc' \in [Workers -> WorkPcs]
    BY <1>2 DEF WorkerGrab, WorkPcs
  <2> QED
    <3>1. coalesce' \in Seq(Nat)
      BY <2>1
    <3>2. UNCHANGED <<written, hup, kernel, reg, ops, local, wake, woken, muxPc,
                      muxBuf, paused, exited, tasks, parsed, mainPc, done>>
      BY <1>2 DEF WorkerGrab
    <3> QED
      BY <2>1, <2>2, <2>3, <3>1, <3>2
<1>3. CASE WorkerInject(w)
  <2>1. exited' \in {"no", "eof", "write"} /\ ops' \in Seq(Ops) /\ wake' \in BOOLEAN
    BY <1>3, MarkExitedType DEF WorkerInject
  <2>2. batch[w] \in Seq(Nat) /\ parsed' \in Seq(Nat)
    BY <1>3 DEF WorkerInject
  <2>3. /\ batch' \in [Workers -> Seq(Nat)]
        /\ workerPc' \in [Workers -> WorkPcs]
    BY <1>3 DEF WorkerInject, WorkPcs
  <2> QED
    BY <1>3, <2>1, <2>2, <2>3 DEF WorkerInject
<1>4. CASE WorkerResume(w)
  BY <1>4 DEF WorkerResume, WorkPcs
<1>5. CASE WorkerSize(w)
  BY <1>5 DEF WorkerSize, WorkPcs
<1>6. CASE WorkerCas(w)
  BY <1>6 DEF WorkerCas, WorkPcs
<1>7. CASE WorkerEnable(w)
  BY <1>7 DEF WorkerEnable, WorkPcs, Ops
<1>8. CASE WorkerWake(w)
  BY <1>8 DEF WorkerWake, WorkPcs
<1> QED
  BY <1>1, <1>2, <1>3, <1>4, <1>5, <1>6, <1>7, <1>8 DEF WorkerNext

LEMMA MainType == TypeOK /\ MainNext => TypeOK'
<1> SUFFICES ASSUME TypeOK, MainNext PROVE TypeOK'
  OBVIOUS
<1> USE DEF TypeOK, child, poller, mux, pool, main
<1>1. CASE CloseTab \/ KillTerminal \/ Sweep
  BY <1>1, OpsType DEF CloseTab, KillTerminal, Sweep, RemoveSync, MainPcs
<1>2. CASE FenceWake \/ FenceDone
  BY <1>2 DEF FenceWake, FenceDone, MainPcs
<1>3. CASE MainWriteFails
  BY <1>3, MarkExitedType DEF MainWriteFails
<1> QED
  BY <1>1, <1>2, <1>3 DEF MainNext

LEMMA NextType == TypeOK /\ [Next]_vars => TypeOK'
<1> SUFFICES ASSUME TypeOK, [Next]_vars PROVE TypeOK'
  OBVIOUS
<1>1. CASE ChildWrite
  <2>1. /\ written' \in 0..MaxBytes /\ written + 1 \in Nat
        /\ Len(kernel) < KernelCap
    BY <1>1 DEF TypeOK, ChildWrite
  <2>2. kernel' \in Seq(Nat) /\ Len(kernel') = Len(kernel) + 1
    BY <1>1, <2>1 DEF TypeOK, ChildWrite
  <2> QED
    BY <1>1, <2>1, <2>2 DEF TypeOK, ChildWrite, poller, mux, pool, main
<1>3. CASE ChildExit
  BY <1>3 DEF TypeOK, ChildExit, poller, mux, pool, main
<1>2. CASE UNCHANGED vars
  BY <1>2 DEF TypeOK, vars
<1> QED
  BY <1>1, <1>2, <1>3, MuxType, WorkerType, MainType DEF Next

(* Every variable keeps its type, and the kernel's buffer its capacity.    *)
THEOREM TypeCorrect == Spec => []TypeOK
<1> QED
  BY InitType, NextType, PTL DEF Spec

-----------------------------------------------------------------------------
(* One parse at a time.                                                    *)

LEMMA BusyGoto ==
    ASSUME TypeOK, NEW w \in Workers, NEW pc \in WorkPcs, Goto(w, pc)
    PROVE  Busy' = IF pc = "idle" THEN Busy \ {w} ELSE Busy \cup {w}
  BY DEF TypeOK, Goto, Busy

LEMMA SingleFlightStep == TypeOK /\ SingleFlight /\ [Next]_vars => SingleFlight'
<1> SUFFICES ASSUME TypeOK, SingleFlight, [Next]_vars PROVE SingleFlight'
  OBVIOUS
<1>1. CASE UNCHANGED <<inFlight, tasks, workerPc>>
  BY <1>1 DEF SingleFlight, Busy
<1>2. CASE MuxQueue
  <2>1. Busy' = Busy
    BY <1>2 DEF MuxQueue, Busy
  <2> QED
    BY <1>2, <2>1 DEF MuxQueue, SingleFlight
<1>3. ASSUME NEW w \in Workers, WorkerNext(w) PROVE SingleFlight'
  <2>1. CASE WorkerTake(w)
    <3>1. Busy' = Busy \cup {w}
      BY <2>1, BusyGoto DEF WorkerTake, WorkPcs
    <3>2. tasks = 1 /\ Busy = {} /\ inFlight
      BY <2>1 DEF WorkerTake, SingleFlight
    <3> QED
      BY <2>1, <3>1, <3>2 DEF WorkerTake, SingleFlight
  <2>2. CASE WorkerGrab(w)
    <3>1. w \in Busy /\ Busy = {w} /\ tasks = 0 /\ inFlight
      BY <2>2 DEF WorkerGrab, SingleFlight, Busy
    <3>2. Busy' = IF coalesce = <<>> THEN {} ELSE {w}
      BY <2>2, <3>1, BusyGoto DEF WorkerGrab, WorkPcs
    <3> QED
      BY <2>2, <3>1, <3>2 DEF WorkerGrab, SingleFlight
  <2>3. ASSUME WorkerNext(w), ~WorkerTake(w), ~WorkerGrab(w)
        PROVE  /\ UNCHANGED <<inFlight, tasks>> /\ w \in Busy
               /\ \E pc \in WorkPcs \ {"idle"} : Goto(w, pc)
    BY <2>3 DEF WorkerNext, WorkerInject, WorkerResume, WorkerSize, WorkerCas,
                WorkerEnable, WorkerWake, WorkPcs, Busy
  <2>4. CASE ~WorkerTake(w) /\ ~WorkerGrab(w)
    <3>1. Busy' = Busy
      BY <1>3, <2>3, <2>4, BusyGoto
    <3> QED
      BY <1>3, <2>3, <2>4, <3>1 DEF SingleFlight
  <2> QED
    BY <2>1, <2>2, <2>4
<1>4. CASE MuxNext /\ ~MuxQueue
  BY <1>1, <1>4 DEF MuxNext, MuxDrain, MuxApply, MuxApplied, MuxWait,
     MuxWakeClear, MuxEnter, MuxRead, MuxReadAgain, MuxReadEof, MuxAppend,
     MuxPause, MuxDisable, MuxQueueCheck, pool
<1>5. CASE MainNext
  BY <1>1, <1>5 DEF MainNext, CloseTab, KillTerminal, Sweep, RemoveSync,
     FenceWake, FenceDone, MainWriteFails, pool
<1>6. CASE ChildWrite \/ ChildExit
  BY <1>1, <1>6 DEF ChildWrite, ChildExit, pool
<1> QED
  BY <1>1, <1>2, <1>3, <1>4, <1>5, <1>6 DEF Next, vars

(* At most one parse task of a Terminal exists at any time, queued or run- *)
(* ning, and mParseInFlight is set exactly as long as it does.             *)
THEOREM OneParseAtATime == Spec => []SingleFlight
<1>1. Init => SingleFlight
  BY DEF Init, SingleFlight, Busy
<1> QED
  BY <1>1, SingleFlightStep, TypeCorrect, PTL DEF Spec

-----------------------------------------------------------------------------
(* Nothing stays behind in the coalesce buffer.                            *)

LEMMA StrandedStep ==
    TypeOK /\ SingleFlight /\ NothingStranded /\ [Next]_vars => NothingStranded'
<1> SUFFICES ASSUME TypeOK, SingleFlight, NothingStranded, [Next]_vars
             PROVE  NothingStranded'
  OBVIOUS
<1>1. CASE UNCHANGED <<inFlight, coalesce, muxPc>>
  BY <1>1 DEF NothingStranded
<1>2. CASE MuxNext
  <2>1. CASE MuxQueue \/ MuxQueueCheck
    BY <2>1 DEF MuxQueue, MuxQueueCheck, NothingStranded, Callback, pool
  <2>2. CASE MuxDrain \/ MuxApply \/ MuxApplied \/ MuxWait \/ MuxWakeClear
    BY <2>2 DEF MuxDrain, MuxApply, MuxApplied, MuxWait, MuxWakeClear,
       NothingStranded, Callback, pool, mux
  <2>3. CASE \/ MuxEnter \/ MuxRead \/ MuxReadAgain \/ MuxReadEof \/ MuxAppend
             \/ MuxPause \/ MuxDisable
    <3>1. muxPc' \in Callback
      BY <2>3 DEF MuxEnter, MuxRead, MuxReadAgain, MuxReadEof, MuxAppend,
         MuxPause, MuxDisable, Callback
    <3> QED
      BY <3>1 DEF NothingStranded
  <2> QED
    BY <1>2, <2>1, <2>2, <2>3 DEF MuxNext
<1>3. ASSUME NEW w \in Workers, WorkerNext(w) PROVE NothingStranded'
  <2>1. CASE WorkerGrab(w)
    BY <2>1 DEF WorkerGrab, NothingStranded
  <2>2. CASE ~WorkerGrab(w)
    BY <1>1, <1>3, <2>2 DEF WorkerNext, WorkerTake, WorkerInject, WorkerResume,
       WorkerSize, WorkerCas, WorkerEnable, WorkerWake, mux
  <2> QED
    BY <2>1, <2>2
<1>4. CASE MainNext
  BY <1>1, <1>4 DEF MainNext, CloseTab, KillTerminal, Sweep, RemoveSync,
     FenceWake, FenceDone, MainWriteFails, pool, mux
<1>5. CASE ChildWrite \/ ChildExit
  BY <1>1, <1>5 DEF ChildWrite, ChildExit, pool, mux
<1> QED
  BY <1>1, <1>2, <1>3, <1>4, <1>5 DEF Next, vars

(* Whenever the mux thread is out of its callback and bytes are buffered,  *)
(* a parse task exists that will look at the buffer before it ends.        *)
THEOREM NoByteStranded == Spec => []NothingStranded
<1>1. Init => NothingStranded
  BY DEF Init, NothingStranded
<1> QED
  BY <1>1, StrandedStep, TypeCorrect, OneParseAtATime, PTL DEF Spec

-----------------------------------------------------------------------------
(* The two fences.  What makes them work is the order of the operations in *)
(* the queue: the registration comes first, a removal stands right before  *)
(* every acknowledgement, and there is one acknowledgement per fence.      *)

Without(op, s) == \A i \in 1..Len(s) : s[i] # op
OnlyAck(s, i)  == \A j \in 1..Len(s) : s[j] = "ack" <=> j = i

LocalUse == local # <<>> => muxPc \in {"apply", "wakeapply"}

AddFirst ==
    /\ \A i \in 1..Len(ops) :
          ops[i] = "add" => i = 1 /\ local = <<>> /\ reg = "none" /\ muxPc = "drain"
    /\ \A i \in 1..Len(local) : local[i] = "add" => i = 1

RemoveBeforeAck ==
    /\ \A i \in 1..Len(ops) : ops[i] = "ack" => i > 1 /\ ops[i - 1] = "remove"
    /\ \A i \in 1..Len(local) :
          local[i] = "ack" =>
              IF i = 1 THEN reg = "none" ELSE local[i - 1] = "remove"

(* The fd is out of the poller for good and the callback has returned.     *)
Gone ==
    /\ reg = "none" /\ muxPc \notin Callback
    /\ Without("add", ops) /\ Without("add", local)

Buried == mainPc \in {"graveyard", "dtorwake", "dtorwait", "freed"}
Dying  == mainPc \in {"dtorwake", "dtorwait", "freed"}

GoneWhenFenced ==
    /\ done \/ Buried => Gone
    /\ Dying => ~inFlight

NoAck  == Without("ack", ops) /\ Without("ack", local)
OneAck ==
    \/ Without("ack", local) /\ \E i \in 1..Len(ops) : OnlyAck(ops, i)
    \/ Without("ack", ops) /\ \E i \in 1..Len(local) : OnlyAck(local, i)
LastAck ==
    \/ ops # <<>> /\ OnlyAck(ops, Len(ops)) /\ Without("ack", local)
    \/ ops = <<>> /\ local # <<>> /\ OnlyAck(local, Len(local))

AckCount ==
    /\ done \/ mainPc = "live" => NoAck
    /\ mainPc = "live" => ~done
    /\ mainPc \in {"graveyard", "freed"} => done
    /\ ~done /\ mainPc # "live" => OneAck
    /\ ~done /\ Dying => LastAck
    /\ done /\ Dying => ops = <<>> /\ local = <<>>

FenceInv ==
    /\ LocalUse /\ AddFirst /\ RemoveBeforeAck /\ GoneWhenFenced /\ AckCount

(* A step that leaves the queue and the main thread alone, and enters the  *)
(* callback only when the fd is registered.                                *)
LEMMA QuietFence ==
    ASSUME TypeOK, FenceInv, UNCHANGED <<ops, local, reg, mainPc, done>>,
           inFlight' => inFlight \/ muxPc \in Callback,
           muxPc' \in Callback => muxPc \in Callback \/ reg # "none",
           muxPc = "drain" => muxPc' = "drain",
           muxPc' = muxPc \/ local = <<>> \/ muxPc \notin {"apply", "wakeapply"}
    PROVE  FenceInv'
<1>1. LocalUse'
  BY DEF FenceInv, LocalUse
<1>2. AddFirst' /\ RemoveBeforeAck'
  BY DEF FenceInv, AddFirst, RemoveBeforeAck
<1>3. GoneWhenFenced'
  BY DEF FenceInv, GoneWhenFenced, Gone, Without, Buried, Dying
<1>4. AckCount'
  BY DEF FenceInv, AckCount, NoAck, OneAck, LastAck, OnlyAck, Without, Dying
<1> QED
  BY <1>1, <1>2, <1>3, <1>4 DEF FenceInv

(* A step that queues one operation of the read path.                      *)
LEMMA PushFence ==
    ASSUME TypeOK, FenceInv, NEW op \in {"enable", "disable", "remove"},
           ops' = Append(ops, op), UNCHANGED <<local, reg, mainPc, done, inFlight>>,
           muxPc' = muxPc \/ (muxPc \in Callback /\ muxPc' \in Callback),
           ~Dying
    PROVE  FenceInv'
<1> DEFINE n == Len(ops)
<1>1. /\ ops \in Seq(Ops) /\ n \in Nat /\ Len(ops') = n + 1
      /\ \A i \in 1..n : ops'[i] = ops[i]
      /\ ops'[n + 1] = op
  BY DEF TypeOK, Ops
<1>2. LocalUse'
  BY DEF FenceInv, LocalUse, Callback
<1>3. AddFirst'
  <2>1. muxPc = "drain" => muxPc' = "drain"
    BY DEF Callback
  <2> QED
    BY <1>1, <2>1 DEF FenceInv, AddFirst
<1>4. RemoveBeforeAck'
  BY <1>1 DEF FenceInv, RemoveBeforeAck
<1>5. /\ Without("add", ops) => Without("add", ops')
      /\ Without("ack", ops) => Without("ack", ops')
  BY <1>1 DEF Without
<1>6. GoneWhenFenced'
  BY <1>5 DEF FenceInv, GoneWhenFenced, Gone, Buried, Dying, Without
<1>7. OneAck => OneAck'
  <2>1. ASSUME NEW i \in 1..n, OnlyAck(ops, i), Without("ack", local) PROVE OneAck'
    <3>1. OnlyAck(ops', i) /\ i \in 1..Len(ops')
      BY <1>1, <2>1 DEF OnlyAck
    <3>2. Without("ack", local)'
      BY <2>1 DEF Without
    <3> QED
      BY <3>1, <3>2 DEF OneAck
  <2>2. ASSUME NEW i \in 1..Len(local), OnlyAck(local, i), Without("ack", ops)
        PROVE  OneAck'
    <3>1. OnlyAck(local', i) /\ i \in 1..Len(local')
      BY <2>2
    <3>2. Without("ack", ops')
      BY <1>5, <2>2
    <3> QED
      BY <3>1, <3>2 DEF OneAck
  <2> QED
    BY <2>1, <2>2 DEF OneAck
<1>8. AckCount'
  BY <1>5, <1>7 DEF FenceInv, AckCount, NoAck, Dying, Without
<1> QED
  BY <1>2, <1>3, <1>4, <1>6, <1>8 DEF FenceInv

LEMMA DrainFence == TypeOK /\ FenceInv /\ MuxDrain => FenceInv'
<1> SUFFICES ASSUME TypeOK, FenceInv, MuxDrain PROVE FenceInv'
  OBVIOUS
<1>1. /\ local' = ops /\ ops' = <<>> /\ local = <<>> /\ Len(ops') = 0
      /\ UNCHANGED <<reg, inFlight, mainPc, done>>
      /\ muxPc' \in {"apply", "wakeapply"} /\ muxPc' \notin Callback
      /\ ops \in Seq(Ops) /\ Len(ops) \in Nat
  BY DEF FenceInv, LocalUse, MuxDrain, TypeOK, Callback, pool, main
<1>2. LocalUse'
  BY <1>1 DEF LocalUse
<1>3. AddFirst'
  BY <1>1 DEF FenceInv, AddFirst
<1>4. RemoveBeforeAck'
  BY <1>1 DEF FenceInv, RemoveBeforeAck
<1>5. GoneWhenFenced'
  BY <1>1 DEF FenceInv, GoneWhenFenced, Gone, Without, Buried, Dying
<1>6. /\ NoAck => NoAck'
      /\ OneAck => OneAck'
      /\ LastAck => LastAck'
  BY <1>1 DEF NoAck, OneAck, LastAck, OnlyAck, Without
<1>7. AckCount'
  <2>1. /\ done \/ mainPc = "live" => NoAck'
        /\ mainPc = "live" => ~done
        /\ mainPc \in {"graveyard", "freed"} => done
        /\ ~done /\ mainPc # "live" => OneAck'
        /\ ~done /\ Dying => LastAck'
        /\ done /\ Dying => ops' = <<>> /\ local' = <<>>
    <3>1. AckCount
      BY DEF FenceInv
    <3>2. /\ done \/ mainPc = "live" => NoAck
          /\ ~done /\ mainPc # "live" => OneAck
          /\ ~done /\ Dying => LastAck
      BY <3>1 DEF AckCount
    <3>3. /\ mainPc = "live" => ~done
          /\ mainPc \in {"graveyard", "freed"} => done
          /\ done /\ Dying => ops = <<>> /\ local = <<>>
      BY <3>1 DEF AckCount
    <3> QED
      BY <1>1, <1>6, <3>2, <3>3
  <2> QED
    BY <1>1, <2>1 DEF AckCount, Dying
<1> QED
  BY <1>2, <1>3, <1>4, <1>5, <1>7 DEF FenceInv

LEMMA ApplyFence == TypeOK /\ FenceInv /\ MuxApply => FenceInv'
<1> SUFFICES ASSUME TypeOK, FenceInv, MuxApply PROVE FenceInv'
  OBVIOUS
<1> DEFINE n == Len(local)
<1>1. /\ local \in Seq(Ops) /\ n \in Nat /\ n > 0 /\ local # <<>>
      /\ Head(local) = local[1] /\ local' = Tail(local) /\ Len(local') = n - 1
      /\ \A i \in 1..(n - 1) : local'[i] = local[i + 1]
  BY DEF MuxApply, TypeOK
<1>2. /\ UNCHANGED <<ops, muxPc, inFlight, mainPc>> /\ muxPc \notin Callback
      /\ muxPc \in {"apply", "wakeapply"}
      /\ done' = (done \/ local[1] = "ack") /\ reg' = Applied(local[1])
  BY <1>1 DEF MuxApply, mux, pool, Callback
<1>3. /\ local[1] = "ack" => reg' = reg
      /\ local[1] = "remove" => reg' = "none"
      /\ reg = "none" /\ local[1] # "add" => reg' = "none"
  BY <1>2 DEF Applied
<1>4. Without("add", local') /\ Without("add", ops)
  BY <1>1, <1>2 DEF FenceInv, AddFirst, Without
<1>5. LocalUse'
  BY <1>2 DEF LocalUse
<1>6. AddFirst'
  BY <1>2, <1>4 DEF AddFirst, Without
<1>7. RemoveBeforeAck'
  <2>1. ASSUME NEW i \in 1..Len(local'), local'[i] = "ack"
        PROVE  IF i = 1 THEN reg' = "none" ELSE local'[i - 1] = "remove"
    <3>1. i + 1 \in 1..n /\ local[i + 1] = "ack" /\ i + 1 # 1
      BY <1>1, <2>1
    <3>2. local[i] = "remove"
      BY <3>1, <1>1 DEF FenceInv, RemoveBeforeAck
    <3> QED
      BY <1>1, <1>3, <3>2
  <2> QED
    BY <1>2, <2>1 DEF FenceInv, RemoveBeforeAck
<1>8. local[1] = "ack" => reg = "none"
  BY <1>1 DEF FenceInv, RemoveBeforeAck
<1>9. GoneWhenFenced'
  <2>1. ASSUME done' \/ Buried PROVE reg' = "none"
    <3>1. CASE local[1] = "ack"
      BY <1>3, <1>8, <3>1
    <3>2. CASE local[1] # "ack"
      <4>1. reg = "none" /\ Without("add", local)
        BY <1>2, <2>1, <3>2 DEF FenceInv, GoneWhenFenced, Gone
      <4> QED
        BY <1>1, <1>3, <4>1 DEF Without
    <3> QED
      BY <3>1, <3>2
  <2> QED
    BY <1>2, <1>4, <2>1 DEF FenceInv, GoneWhenFenced, Gone, Buried, Dying, Without
<1>10. /\ NoAck => NoAck'
       /\ OneAck => IF local[1] = "ack" THEN NoAck' ELSE OneAck'
       /\ LastAck => IF local[1] = "ack" THEN ops' = <<>> /\ local' = <<>> ELSE LastAck'
  <2>1. ASSUME NoAck PROVE NoAck'
    BY <1>1, <1>2, <2>1 DEF NoAck, Without
  <2>2. ASSUME OneAck PROVE IF local[1] = "ack" THEN NoAck' ELSE OneAck'
    <3>1. CASE Without("ack", local) /\ \E i \in 1..Len(ops) : OnlyAck(ops, i)
      BY <1>1, <1>2, <3>1 DEF OneAck, OnlyAck, Without
    <3>2. CASE Without("ack", ops) /\ \E i \in 1..Len(local) : OnlyAck(local, i)
      <4>1. PICK i \in 1..n : OnlyAck(local, i)
        BY <3>2
      <4>2. CASE i = 1
        BY <1>1, <1>2, <3>2, <4>1, <4>2 DEF OnlyAck, NoAck, Without
      <4>3. CASE i # 1
        <5>1. local[1] # "ack" /\ i - 1 \in 1..Len(local')
          BY <1>1, <4>1, <4>3 DEF OnlyAck
        <5>2. OnlyAck(local', i - 1)
          BY <1>1, <4>1, <5>1 DEF OnlyAck
        <5> QED
          BY <1>2, <3>2, <5>1, <5>2 DEF OneAck, OnlyAck, Without
      <4> QED
        BY <4>2, <4>3
    <3> QED
      BY <2>2, <3>1, <3>2 DEF OneAck
  <2>3. ASSUME LastAck
        PROVE  IF local[1] = "ack" THEN ops' = <<>> /\ local' = <<>> ELSE LastAck'
    <3>1. CASE ops # <<>> /\ OnlyAck(ops, Len(ops)) /\ Without("ack", local)
      <4>1. local[1] # "ack" /\ Without("ack", local')
        BY <1>1, <3>1 DEF Without
      <4>2. ops' # <<>> /\ OnlyAck(ops', Len(ops'))
        BY <1>2, <3>1
      <4> QED
        BY <4>1, <4>2 DEF LastAck
    <3>2. CASE ops = <<>> /\ local # <<>> /\ OnlyAck(local, Len(local))
      <4>5. \A j \in 1..n : local[j] = "ack" <=> j = n
        BY <3>2 DEF OnlyAck
      <4> HIDE DEF n
      <4>1. local[1] = "ack" => n = 1
        BY <1>1, <4>5
      <4>2. n = 1 => local' = <<>>
        BY <1>1
      <4>3. ASSUME n # 1 PROVE local' # <<>> /\ OnlyAck(local', Len(local'))
        <5>1. Len(local') = n - 1 /\ n - 1 \in 1..Len(local')
          BY <1>1, <4>3
        <5>2. \A j \in 1..Len(local') : local'[j] = "ack" <=> j + 1 = n
          BY <1>1, <4>5, <5>1
        <5>3. \A j \in 1..Len(local') : j + 1 = n <=> j = Len(local')
          BY <1>1, <5>1
        <5>4. OnlyAck(local', Len(local'))
          BY <5>2, <5>3 DEF OnlyAck
        <5> QED
          BY <1>1, <5>1, <5>4
      <4>4. n = 1 => local[1] = "ack"
        BY <1>1, <4>5
      <4> QED
        BY <1>1, <1>2, <3>2, <4>1, <4>2, <4>3, <4>4 DEF LastAck
    <3> QED
      BY <2>3, <3>1, <3>2 DEF LastAck
  <2> QED
    BY <2>1, <2>2, <2>3
<1>11. /\ done => local[1] # "ack" /\ ~Dying
       /\ mainPc = "live" => local[1] # "ack"
  BY <1>1 DEF FenceInv, AckCount, NoAck, Without
<1>12. AckCount'
  BY <1>2, <1>10, <1>11 DEF FenceInv, AckCount, Dying
<1> QED
  BY <1>5, <1>6, <1>7, <1>9, <1>12 DEF FenceInv

LEMMA RemoveSyncFence ==
    ASSUME TypeOK, FenceInv,
           \/ RemoveSync("live", "closewake")
           \/ RemoveSync("graveyard", "dtorwake") /\ ~inFlight
    PROVE  FenceInv'
<1> DEFINE n == Len(ops)
<1>1. /\ ops' = ops \o <<"remove", "ack">> /\ ~done'
      /\ UNCHANGED <<reg, local, muxPc, inFlight>>
      /\ \/ mainPc = "live" /\ mainPc' = "closewake"
         \/ mainPc = "graveyard" /\ mainPc' = "dtorwake" /\ ~inFlight
  BY DEF RemoveSync, mux, pool
<1>2. /\ ops \in Seq(Ops) /\ n \in Nat /\ Len(ops') = n + 2
      /\ \A i \in 1..n : ops'[i] = ops[i]
      /\ ops'[n + 1] = "remove" /\ ops'[n + 2] = "ack"
  BY <1>1 DEF TypeOK
<1>3. LocalUse'
  BY <1>1 DEF FenceInv, LocalUse
<1>4. AddFirst'
  BY <1>1, <1>2 DEF FenceInv, AddFirst
<1>5. RemoveBeforeAck'
  BY <1>1, <1>2 DEF FenceInv, RemoveBeforeAck
<1>6. Without("add", ops) => Without("add", ops')
  BY <1>2 DEF Without
<1>7. GoneWhenFenced'
  BY <1>1, <1>6 DEF FenceInv, GoneWhenFenced, Gone, Buried, Dying, Without
<1>8. NoAck
  BY <1>1 DEF FenceInv, AckCount
<1>9. OnlyAck(ops', n + 2) /\ Without("ack", local') /\ n + 2 \in 1..Len(ops')
  BY <1>1, <1>2, <1>8 DEF NoAck, Without, OnlyAck
<1>10. OneAck' /\ LastAck'
  BY <1>2, <1>9 DEF OneAck, LastAck
<1>11. AckCount'
  BY <1>1, <1>10 DEF AckCount, Dying
<1> QED
  BY <1>3, <1>4, <1>5, <1>7, <1>11 DEF FenceInv

LEMMA WaitFence == TypeOK /\ FenceInv /\ (FenceWake \/ FenceDone) => FenceInv'
<1> SUFFICES ASSUME TypeOK, FenceInv, FenceWake \/ FenceDone PROVE FenceInv'
  OBVIOUS
<1>1. UNCHANGED <<reg, ops, local, muxPc, inFlight, done>>
  BY DEF FenceWake, FenceDone, mux, pool, poller
<1>2. \/ mainPc = "closewake" /\ mainPc' = "closewait"
      \/ mainPc = "dtorwake"  /\ mainPc' = "dtorwait"
      \/ mainPc = "closewait" /\ mainPc' = "graveyard" /\ done
      \/ mainPc = "dtorwait"  /\ mainPc' = "freed" /\ done
  BY DEF FenceWake, FenceDone
<1>3. LocalUse' /\ AddFirst' /\ RemoveBeforeAck'
  BY <1>1 DEF FenceInv, LocalUse, AddFirst, RemoveBeforeAck
<1>4. GoneWhenFenced'
  BY <1>1, <1>2 DEF FenceInv, GoneWhenFenced, Gone, Without, Buried, Dying
<1>5. AckCount'
  <2>1. NoAck' = NoAck /\ OneAck' = OneAck /\ LastAck' = LastAck
    BY <1>1 DEF NoAck, OneAck, LastAck, OnlyAck, Without
  <2> QED
    BY <1>1, <1>2, <2>1 DEF FenceInv, AckCount, Dying
<1> QED
  BY <1>3, <1>4, <1>5 DEF FenceInv

LEMMA NextFence ==
    TypeOK /\ SingleFlight /\ FenceInv /\ [Next]_vars => FenceInv'
<1> SUFFICES ASSUME TypeOK, SingleFlight, FenceInv, [Next]_vars PROVE FenceInv'
  OBVIOUS
<1> USE DEF child, poller, mux, pool, main
<1>1. CASE ChildWrite \/ ChildExit \/ UNCHANGED vars
  BY <1>1, QuietFence DEF ChildWrite, ChildExit, vars
<1>2. CASE MuxNext
  <2>1. CASE MuxDrain \/ MuxApply
    BY <2>1, DrainFence, ApplyFence
  <2>2. CASE MuxReadEof
    <3>1. muxPc \in Callback /\ muxPc' \in Callback /\ ~Dying
      BY <2>2 DEF MuxReadEof, Callback, FenceInv, GoneWhenFenced, Gone, Dying, Buried
    <3>2. CASE exited = "no"
      BY <2>2, <3>1, <3>2, PushFence DEF MuxReadEof, MarkExited
    <3>3. CASE exited # "no"
      BY <2>2, <3>1, <3>3, QuietFence DEF MuxReadEof, MarkExited, Callback
    <3> QED
      BY <3>2, <3>3
  <2>3. CASE MuxDisable
    <3>1. muxPc \in Callback /\ muxPc' \in Callback /\ ~Dying
      BY <2>3 DEF MuxDisable, Callback, FenceInv, GoneWhenFenced, Gone, Dying, Buried
    <3> QED
      BY <2>3, <3>1, PushFence DEF MuxDisable
  <2>4. CASE MuxWait
    BY <2>4, QuietFence DEF MuxWait, Ready, Callback
  <2>5. CASE MuxApplied \/ MuxWakeClear
    BY <2>5, QuietFence DEF MuxApplied, MuxWakeClear, Callback
  <2>6. CASE MuxEnter \/ MuxRead \/ MuxReadAgain \/ MuxAppend \/ MuxPause
    <3>1. muxPc \in Callback /\ muxPc' \in Callback
      BY <2>6 DEF MuxEnter, MuxRead, MuxReadAgain, MuxAppend, MuxPause, Callback
    <3>2. UNCHANGED <<ops, local, reg, mainPc, done, inFlight>>
      BY <2>6 DEF MuxEnter, MuxRead, MuxReadAgain, MuxAppend, MuxPause
    <3> QED
      BY <3>1, <3>2, QuietFence DEF Callback
  <2>7. CASE MuxQueueCheck \/ MuxQueue
    BY <2>7, QuietFence DEF MuxQueueCheck, MuxQueue, AfterCallback, Callback
  <2> QED
    BY <1>2, <2>1, <2>2, <2>3, <2>4, <2>5, <2>6, <2>7 DEF MuxNext
<1>3. ASSUME NEW w \in Workers, WorkerNext(w) PROVE FenceInv'
  <2>1. CASE \/ WorkerTake(w) \/ WorkerGrab(w) \/ WorkerResume(w)
             \/ WorkerSize(w) \/ WorkerCas(w) \/ WorkerWake(w)
    <3>1. /\ UNCHANGED <<ops, local, reg, mainPc, done, muxPc>>
          /\ inFlight' => inFlight
      <4>1. CASE WorkerGrab(w)
        <5>1. UNCHANGED <<ops, local, reg, mainPc, done, muxPc>>
          BY <4>1 DEF WorkerGrab
        <5>2. inFlight' = IF coalesce = <<>> THEN FALSE ELSE inFlight
          BY <4>1 DEF WorkerGrab
        <5> QED
          BY <5>1, <5>2
      <4>2. CASE ~WorkerGrab(w)
        BY <2>1, <4>2 DEF WorkerTake, WorkerResume, WorkerSize, WorkerCas,
           WorkerWake
      <4> QED
        BY <4>1, <4>2
    <3> QED
      BY <3>1, QuietFence
  <2>2. CASE WorkerInject(w) \/ WorkerEnable(w)
    <3>1. ~Dying
      <4>1. w \in Busy
        BY <2>2 DEF WorkerInject, WorkerEnable, Busy
      <4> QED
        BY <4>1 DEF SingleFlight, FenceInv, GoneWhenFenced
    <3>2. CASE WorkerEnable(w)
      BY <3>1, <3>2, PushFence DEF WorkerEnable
    <3>3. CASE WorkerInject(w) /\ exited = "no" /\ MarkExited("write")
      BY <3>1, <3>3, PushFence DEF WorkerInject, MarkExited
    <3>4. CASE WorkerInject(w) /\ ~(exited = "no" /\ MarkExited("write"))
      BY <3>4, QuietFence DEF WorkerInject, MarkExited
    <3> QED
      BY <2>2, <3>2, <3>3, <3>4
  <2> QED
    BY <1>3, <2>1, <2>2 DEF WorkerNext
<1>4. CASE MainNext
  <2>1. CASE CloseTab \/ KillTerminal \/ Sweep
    BY <2>1, RemoveSyncFence DEF CloseTab, KillTerminal, Sweep
  <2>2. CASE FenceWake \/ FenceDone
    BY <2>2, WaitFence
  <2>3. CASE MainWriteFails
    BY <2>3, PushFence DEF MainWriteFails, MarkExited, Dying
  <2> QED
    BY <1>4, <2>1, <2>2, <2>3 DEF MainNext
<1> QED
  BY <1>1, <1>2, <1>3, <1>4 DEF Next

THEOREM FenceOrder == Spec => []FenceInv
<1>1. Init => FenceInv
  BY DEF Init, FenceInv, LocalUse, AddFirst, RemoveBeforeAck, GoneWhenFenced,
     AckCount, NoAck, Without, Buried, Dying
<1> QED
  BY <1>1, NextFence, TypeCorrect, OneParseAtATime, PTL DEF Spec

(* After ~Terminal has started no callback and no parse task touches the   *)
(* Terminal: the first removeSync ended the callbacks, and the graveyard   *)
(* waited for the one parse task.                                          *)
THEOREM NoUseAfterDestroy == Spec => []DestroyQuiescent
<1>1. TypeOK /\ SingleFlight /\ FenceInv => DestroyQuiescent
  BY DEF TypeOK, SingleFlight, FenceInv, GoneWhenFenced, Gone, Buried, Dying,
     DestroyQuiescent
<1> QED
  BY <1>1, TypeCorrect, OneParseAtATime, FenceOrder, PTL

(* The second removeSync, in ~Terminal, flushes what was queued since the  *)
(* first: after close(fd) the poller knows nothing of the fd number.       *)
THEOREM ClosedFdClean == Spec => []ClosedFdForgotten
<1>1. FenceInv => ClosedFdForgotten
  BY DEF FenceInv, GoneWhenFenced, Gone, Buried, AckCount, Dying, ClosedFdForgotten
<1> QED
  BY <1>1, FenceOrder, PTL

-----------------------------------------------------------------------------
(* The read side is a stream.  Everywhere on its way a byte lies in the    *)
(* order it was written in: what is parsed, the batch of the one worker    *)
(* that holds one, the coalesce buffer, what the mux thread has read and   *)
(* what the kernel holds are one run of numbers cut in five.               *)
Run(s, n) == \A i \in 1..Len(s) : s[i] = n + i

BeforeKernel   == written - Len(kernel)
BeforeMux      == BeforeKernel - Len(muxBuf)
BeforeCoalesce == BeforeMux - Len(coalesce)

OneRun ==
    /\ Run(parsed, 0)
    /\ \A w \in Workers :
          IF workerPc[w] = "inject"
          THEN /\ batch[w] # <<>> /\ Run(batch[w], Len(parsed))
               /\ BeforeCoalesce = Len(parsed) + Len(batch[w])
          ELSE batch[w] = <<>>
    /\ (\A w \in Workers : workerPc[w] # "inject") => BeforeCoalesce = Len(parsed)
    /\ Run(coalesce, BeforeCoalesce)
    /\ muxPc # "append" => muxBuf = <<>>
    /\ Run(muxBuf, BeforeMux)
    /\ Run(kernel, BeforeKernel)

LEMMA RunConcat ==
    ASSUME NEW s \in Seq(Nat), NEW t \in Seq(Nat), NEW n \in Nat, Run(s, n), Run(t, n + Len(s))
    PROVE  s \o t \in Seq(Nat) /\ Len(s \o t) = Len(s) + Len(t) /\ Run(s \o t, n)
<1>1. /\ s \o t \in Seq(Nat) /\ Len(s \o t) = Len(s) + Len(t)
      /\ \A i \in 1..(Len(s) + Len(t)) : (s \o t)[i] = IF i <= Len(s) THEN s[i] ELSE t[i - Len(s)]
  OBVIOUS
<1>2. ASSUME NEW i \in 1..(Len(s) + Len(t)) PROVE (s \o t)[i] = n + i
  <2>1. CASE i <= Len(s)
    BY <1>1, <2>1 DEF Run
  <2>2. CASE i > Len(s)
    <3>1. i - Len(s) \in 1..Len(t) /\ n + Len(s) + (i - Len(s)) = n + i
      BY <2>2
    <3>2. t[i - Len(s)] = n + Len(s) + (i - Len(s))
      BY <3>1 DEF Run
    <3> QED
      BY <1>1, <2>2, <3>1, <3>2
  <2> QED
    BY <2>1, <2>2
<1> QED
  BY <1>1, <1>2 DEF Run

LEMMA RunCut ==
    ASSUME NEW s \in Seq(Nat), NEW n \in Nat, NEW k \in 0..Len(s), Run(s, n)
    PROVE  /\ SubSeq(s, 1, k) \in Seq(Nat) /\ Len(SubSeq(s, 1, k)) = k
           /\ SubSeq(s, k + 1, Len(s)) \in Seq(Nat)
           /\ Len(SubSeq(s, k + 1, Len(s))) = Len(s) - k
           /\ Run(SubSeq(s, 1, k), n) /\ Run(SubSeq(s, k + 1, Len(s)), n + k)
<1>1. /\ \A i \in 1..k : SubSeq(s, 1, k)[i] = s[i]
      /\ \A i \in 1..(Len(s) - k) : SubSeq(s, k + 1, Len(s))[i] = s[k + i]
  OBVIOUS
<1>2. \A i \in 1..(Len(s) - k) : k + i \in 1..Len(s) /\ n + (k + i) = n + k + i
  OBVIOUS
<1> QED
  BY <1>1, <1>2, SliceType DEF Run

\* The numbers the pieces start at.
LEMMA Starts ==
    ASSUME TypeOK, OneRun
    PROVE  /\ Len(parsed) \in Nat /\ Len(coalesce) \in Nat /\ Len(muxBuf) \in Nat
           /\ Len(kernel) \in Nat /\ written \in Nat
           /\ BeforeCoalesce \in Nat /\ Len(parsed) <= BeforeCoalesce
           /\ BeforeMux = BeforeCoalesce + Len(coalesce)
           /\ BeforeKernel = BeforeMux + Len(muxBuf)
           /\ written = BeforeKernel + Len(kernel)
<1>1. /\ Len(parsed) \in Nat /\ Len(coalesce) \in Nat /\ Len(muxBuf) \in Nat
      /\ Len(kernel) \in Nat /\ written \in Nat
      /\ \A w \in Workers : Len(batch[w]) \in Nat
  BY DEF TypeOK
<1>2. BeforeCoalesce \in Nat /\ Len(parsed) <= BeforeCoalesce
  <2>1. CASE \A w \in Workers : workerPc[w] # "inject"
    BY <1>1, <2>1 DEF OneRun
  <2>2. ASSUME NEW w \in Workers, workerPc[w] = "inject"
        PROVE  BeforeCoalesce \in Nat /\ Len(parsed) <= BeforeCoalesce
    BY <1>1, <2>2 DEF OneRun
  <2> QED
    BY <2>1, <2>2
<1> QED
  BY <1>1, <1>2 DEF BeforeCoalesce, BeforeMux, BeforeKernel

LEMMA QuietRun ==
    ASSUME OneRun, UNCHANGED <<written, kernel, muxBuf, coalesce, batch, parsed>>,
           \A w \in Workers : workerPc'[w] = "inject" <=> workerPc[w] = "inject",
           muxPc' # "append" => muxPc # "append"
    PROVE  OneRun'
<1>1. /\ BeforeKernel' = BeforeKernel /\ BeforeMux' = BeforeMux
      /\ BeforeCoalesce' = BeforeCoalesce
  BY DEF BeforeKernel, BeforeMux, BeforeCoalesce
<1> QED
  BY <1>1 DEF OneRun, Run

LEMMA MuxKeepsRun == TypeOK /\ OneRun /\ MuxNext => OneRun'
<1> SUFFICES ASSUME TypeOK, OneRun, MuxNext PROVE OneRun'
  OBVIOUS
<1>1. CASE ~MuxRead /\ ~MuxAppend
  <2>1. UNCHANGED <<written, kernel, muxBuf, coalesce, batch, parsed, workerPc>>
    BY <1>1 DEF MuxNext, MuxDrain, MuxApply, MuxApplied, MuxWait, MuxWakeClear, MuxEnter,
       MuxReadAgain, MuxReadEof, MuxPause, MuxDisable, MuxQueueCheck, MuxQueue, child, mux, pool
  <2>2. muxPc # "append"
    BY <1>1 DEF MuxNext, MuxDrain, MuxApply, MuxApplied, MuxWait, MuxWakeClear, MuxEnter,
       MuxReadAgain, MuxReadEof, MuxPause, MuxDisable, MuxQueueCheck, MuxQueue
  <2> QED
    BY <2>1, <2>2, QuietRun
<1>2. CASE MuxRead
  <2>1. PICK n \in 1..Least(Chunk, Len(kernel)) :
            /\ muxBuf' = SubSeq(kernel, 1, n)
            /\ kernel' = SubSeq(kernel, n + 1, Len(kernel))
    BY <1>2 DEF MuxRead
  <2>2. n \in 0..Len(kernel) /\ kernel \in Seq(Nat)
    BY <2>1 DEF Least, TypeOK
  <2>3. /\ UNCHANGED <<written, coalesce, batch, parsed, workerPc>>
        /\ muxBuf = <<>> /\ muxPc' = "append"
    BY <1>2 DEF MuxRead, OneRun, child, pool
  <2>4. BeforeKernel \in Nat /\ BeforeMux = BeforeKernel /\ Run(kernel, BeforeKernel)
    BY <2>3, Starts DEF OneRun, BeforeMux
  <2>5. /\ Len(muxBuf') = n /\ Len(kernel') = Len(kernel) - n
        /\ Run(muxBuf', BeforeKernel) /\ Run(kernel', BeforeKernel + n)
    BY <2>1, <2>2, <2>4, RunCut
  <2>6. BeforeKernel' = BeforeKernel + n /\ BeforeMux' = BeforeKernel
        /\ BeforeCoalesce' = BeforeCoalesce
    <3>1. Len(muxBuf) = 0 /\ n \in Nat /\ Len(kernel) \in Nat /\ Len(coalesce) \in Nat
          /\ written \in Nat
      BY <2>2, <2>3, Starts
    <3>2. written' - Len(kernel') = (written - Len(kernel)) + n
      BY <2>3, <2>5, <3>1
    <3>3. BeforeKernel' = BeforeKernel + n
      BY <3>2 DEF BeforeKernel
    <3>4. BeforeMux' = BeforeKernel
      BY <2>4, <2>5, <3>1, <3>3 DEF BeforeMux
    <3> QED
      BY <2>3, <2>4, <3>3, <3>4 DEF BeforeCoalesce
  <2>7. Run(muxBuf, BeforeMux)' /\ Run(kernel, BeforeKernel)'
    BY <2>5, <2>6 DEF Run
  <2>8. Run(coalesce, BeforeCoalesce)' /\ Run(parsed, 0)'
    BY <2>3, <2>6 DEF OneRun, Run
  <2> QED
    BY <2>3, <2>6, <2>7, <2>8 DEF OneRun, Run
<1>3. CASE MuxAppend
  <2>1. /\ coalesce' = coalesce \o muxBuf /\ muxBuf' = <<>>
        /\ UNCHANGED <<written, kernel, batch, parsed, workerPc>>
    BY <1>3 DEF MuxAppend, child, pool
  <2>2. /\ coalesce \in Seq(Nat) /\ muxBuf \in Seq(Nat) /\ BeforeCoalesce \in Nat
        /\ Run(coalesce, BeforeCoalesce) /\ Run(muxBuf, BeforeCoalesce + Len(coalesce))
    BY Starts DEF TypeOK, OneRun
  <2>3. Len(coalesce') = Len(coalesce) + Len(muxBuf) /\ Run(coalesce', BeforeCoalesce)
    BY <2>1, <2>2, RunConcat
  <2>4. BeforeKernel' = BeforeKernel /\ BeforeMux' = BeforeKernel
        /\ BeforeCoalesce' = BeforeCoalesce
    BY <2>1, <2>3, Starts DEF BeforeKernel, BeforeMux, BeforeCoalesce
  <2>5. Run(coalesce, BeforeCoalesce)' /\ Run(muxBuf, BeforeMux)' /\ Run(kernel, BeforeKernel)'
        /\ Run(parsed, 0)'
    BY <2>1, <2>3, <2>4 DEF OneRun, Run
  <2> QED
    BY <2>1, <2>4, <2>5 DEF OneRun, Run
<1> QED
  BY <1>1, <1>2, <1>3

LEMMA WorkerKeepsRun ==
    ASSUME TypeOK, SingleFlight, OneRun, NEW w \in Workers, WorkerNext(w)
    PROVE  /\ OneRun'
           /\ parsed' = parsed
              \/ /\ WorkerInject(w) /\ Run(parsed', 0)
                 /\ Len(parsed') \in 1..written /\ Len(parsed') > Len(parsed)
<1>1. \A v \in Workers : v # w => workerPc'[v] = workerPc[v] /\ workerPc[v] = "idle"
  <2>1. w \in Busy \/ tasks > 0
    BY DEF WorkerNext, WorkerTake, WorkerGrab, WorkerInject, WorkerResume, WorkerSize,
           WorkerCas, WorkerEnable, WorkerWake, Busy
  <2>2. \E pc \in WorkPcs : Goto(w, pc)
    BY DEF WorkerNext, WorkerTake, WorkerGrab, WorkerInject, WorkerResume, WorkerSize,
           WorkerCas, WorkerEnable, WorkerWake, WorkPcs
  <2>3. \A v \in Workers : v # w => workerPc'[v] = workerPc[v]
    BY <2>2 DEF Goto, TypeOK
  <2>4. \A v \in Workers : v # w => v \notin Busy
    BY <2>1 DEF SingleFlight
  <2> QED
    BY <2>3, <2>4 DEF Busy
<1>2. CASE ~WorkerGrab(w) /\ ~WorkerInject(w)
  <2>1. /\ UNCHANGED <<written, kernel, muxBuf, coalesce, batch, parsed, muxPc>>
        /\ workerPc[w] # "inject" /\ \E pc \in WorkPcs \ {"inject"} : Goto(w, pc)
    BY <1>2 DEF WorkerNext, WorkerTake, WorkerResume, WorkerSize, WorkerCas, WorkerEnable,
       WorkerWake, child, mux, WorkPcs
  <2>2. workerPc'[w] # "inject"
    BY <2>1 DEF Goto, TypeOK
  <2> QED
    BY <1>1, <2>1, <2>2, QuietRun
<1>3. CASE WorkerGrab(w)
  <2>1. /\ batch' = [batch EXCEPT ![w] = coalesce] /\ coalesce' = <<>>
        /\ UNCHANGED <<written, kernel, muxBuf, muxPc, parsed>>
        /\ workerPc[w] # "inject" /\ workerPc'[w] = (IF coalesce = <<>> THEN "idle" ELSE "inject")
    BY <1>3 DEF WorkerGrab, Goto, TypeOK, child, mux
  <2>2. \A v \in Workers : workerPc[v] # "inject"
    BY <1>1, <2>1
  <2>3. batch'[w] = coalesce /\ \A v \in Workers : v # w => batch'[v] = <<>>
    BY <2>1, <2>2 DEF TypeOK, OneRun
  <2>4. BeforeCoalesce = Len(parsed) /\ Run(coalesce, Len(parsed))
    BY <2>2 DEF OneRun
  <2>5. /\ BeforeKernel' = BeforeKernel /\ BeforeMux' = BeforeMux
        /\ BeforeCoalesce' = Len(parsed) + Len(coalesce)
    BY <2>1, <2>4, Starts DEF BeforeKernel, BeforeMux, BeforeCoalesce
  <2>6. coalesce = <<>> => Len(coalesce) = 0
    OBVIOUS
  <2>7. \A v \in Workers :
           IF workerPc'[v] = "inject"
           THEN /\ batch'[v] # <<>> /\ Run(batch'[v], Len(parsed'))
                /\ BeforeCoalesce' = Len(parsed') + Len(batch'[v])
           ELSE batch'[v] = <<>>
    BY <1>1, <2>1, <2>2, <2>3, <2>4, <2>5 DEF Run
  <2>8. (\A v \in Workers : workerPc'[v] # "inject") => BeforeCoalesce' = Len(parsed')
    BY <2>1, <2>5, <2>6, Starts
  <2>9. /\ Run(parsed', 0) /\ Run(coalesce', BeforeCoalesce')
        /\ Run(muxBuf', BeforeMux') /\ Run(kernel', BeforeKernel')
        /\ muxPc' # "append" => muxBuf' = <<>>
    BY <2>1, <2>5 DEF OneRun, Run
  <2> QED
    BY <2>1, <2>7, <2>8, <2>9 DEF OneRun, Run
<1>4. CASE WorkerInject(w)
  <2>1. /\ workerPc[w] = "inject" /\ workerPc'[w] = "resume"
        /\ parsed' = parsed \o batch[w] /\ batch' = [batch EXCEPT ![w] = <<>>]
        /\ UNCHANGED <<written, kernel, muxBuf, coalesce, muxPc>>
    BY <1>4 DEF WorkerInject, Goto, TypeOK, child, mux
  <2>2. /\ parsed \in Seq(Nat) /\ batch[w] \in Seq(Nat) /\ batch[w] # <<>>
        /\ Run(parsed, 0) /\ Run(batch[w], 0 + Len(parsed))
        /\ BeforeCoalesce = Len(parsed) + Len(batch[w])
    <3>1. Len(parsed) \in Nat /\ 0 + Len(parsed) = Len(parsed)
      BY Starts
    <3> QED
      BY <2>1, <3>1 DEF TypeOK, OneRun
  <2>3. /\ Len(parsed') = BeforeCoalesce /\ Run(parsed', 0)
        /\ Len(parsed') \in 1..written /\ Len(parsed') > Len(parsed)
    <3>1. Len(parsed \o batch[w]) = Len(parsed) + Len(batch[w]) /\ Run(parsed \o batch[w], 0)
      BY <2>2, RunConcat
    <3>2. Len(batch[w]) > 0 /\ Len(batch[w]) \in Nat /\ Len(parsed) \in Nat
      BY <2>2
    <3>3. BeforeCoalesce \in 1..written
      BY <2>2, <3>2, Starts
    <3> QED
      BY <2>1, <2>2, <3>1, <3>3
  <2>4. \A v \in Workers : workerPc'[v] # "inject" /\ batch'[v] = <<>>
    BY <1>1, <2>1 DEF TypeOK, OneRun
  <2>5. /\ BeforeKernel' = BeforeKernel /\ BeforeMux' = BeforeMux
        /\ BeforeCoalesce' = BeforeCoalesce
    BY <2>1 DEF BeforeKernel, BeforeMux, BeforeCoalesce
  <2>6. /\ Run(coalesce', BeforeCoalesce') /\ Run(muxBuf', BeforeMux')
        /\ Run(kernel', BeforeKernel')
        /\ muxPc' # "append" => muxBuf' = <<>>
    BY <2>1, <2>5 DEF OneRun, Run
  <2>7. /\ Run(parsed, 0)'
        /\ Run(coalesce, BeforeCoalesce)' /\ Run(muxBuf, BeforeMux)' /\ Run(kernel, BeforeKernel)'
    <3>1. Run(parsed, 0)'
      BY <2>3 DEF Run
    <3>2. Run(coalesce, BeforeCoalesce)' /\ Run(muxBuf, BeforeMux)' /\ Run(kernel, BeforeKernel)'
      BY <2>6 DEF Run
    <3> QED
      BY <3>1, <3>2
  <2>8. OneRun'
    BY <2>3, <2>4, <2>5, <2>6, <2>7 DEF OneRun
  <2> QED
    BY <1>4, <2>3, <2>8
<1> QED
  BY <1>2, <1>3, <1>4

LEMMA RunStep == TypeOK /\ SingleFlight /\ OneRun /\ [Next]_vars => OneRun'
<1> SUFFICES ASSUME TypeOK, SingleFlight, OneRun, [Next]_vars PROVE OneRun'
  OBVIOUS
<1>1. CASE MuxNext \/ \E w \in Workers : WorkerNext(w)
  BY <1>1, MuxKeepsRun, WorkerKeepsRun
<1>2. CASE ChildExit \/ MainNext \/ UNCHANGED vars
  <2>1. UNCHANGED <<written, kernel, muxBuf, coalesce, batch, parsed, workerPc, muxPc>>
    BY <1>2 DEF ChildExit, MainNext, CloseTab, KillTerminal, Sweep, RemoveSync, FenceWake,
       FenceDone, MainWriteFails, vars, child, mux, pool
  <2> QED
    BY <2>1, QuietRun
<1>3. CASE ChildWrite
  <2>1. /\ written' = written + 1 /\ kernel' = Append(kernel, written + 1)
        /\ UNCHANGED <<muxBuf, coalesce, batch, parsed, workerPc, muxPc>>
    BY <1>3 DEF ChildWrite, mux, pool
  <2>2. /\ Len(kernel') = Len(kernel) + 1 /\ kernel'[Len(kernel) + 1] = written + 1
        /\ \A i \in 1..Len(kernel) : kernel'[i] = kernel[i]
        /\ Len(kernel) \in Nat /\ written \in Nat
    BY <2>1 DEF TypeOK
  <2>3. /\ BeforeKernel' = BeforeKernel /\ BeforeMux' = BeforeMux
        /\ BeforeCoalesce' = BeforeCoalesce
    BY <2>1, <2>2 DEF BeforeKernel, BeforeMux, BeforeCoalesce
  <2>4. Run(kernel, BeforeKernel)'
    <3>1. \A i \in 1..Len(kernel') : i \in 1..Len(kernel) \/ i = Len(kernel) + 1
      BY <2>2
    <3>2. written + 1 = BeforeKernel + (Len(kernel) + 1)
      BY <2>2 DEF BeforeKernel
    <3>3. \A i \in 1..Len(kernel') : kernel'[i] = BeforeKernel + i
      BY <2>2, <3>1, <3>2 DEF OneRun, Run
    <3> QED
      BY <2>3, <3>3 DEF Run
  <2> QED
    BY <2>1, <2>3, <2>4 DEF OneRun, Run
<1> QED
  BY <1>1, <1>2, <1>3 DEF Next

(* The read side implements the stream: what the parser has been handed is *)
(* at every moment the beginning of what the child wrote, it only grows,   *)
(* and it grows no more once the Terminal is destroyed.                    *)
THEOREM ReadIsAStream == Spec => RefinesStream
<1> DEFINE Inv == TypeOK /\ SingleFlight /\ DestroyQuiescent /\ OneRun
<1>1. Init => Output!Init
  BY DEF Init, Output!Init
<1>2. Init => OneRun
  <2> SUFFICES ASSUME Init PROVE OneRun
    OBVIOUS
  <2>1. /\ written = 0 /\ kernel = <<>> /\ muxBuf = <<>> /\ coalesce = <<>> /\ parsed = <<>>
        /\ \A w \in Workers : workerPc[w] = "idle" /\ batch[w] = <<>>
    BY DEF Init
  <2>2. /\ Len(kernel) = 0 /\ Len(muxBuf) = 0 /\ Len(coalesce) = 0 /\ Len(parsed) = 0
        /\ written - Len(kernel) = 0
    <3>1. \A s : s = <<>> => Len(s) = 0
      OBVIOUS
    <3>2. Len(kernel) = 0 /\ Len(muxBuf) = 0 /\ Len(coalesce) = 0 /\ Len(parsed) = 0
      BY <2>1, <3>1
    <3>3. \A m, n : m = 0 /\ n = 0 => m - n = 0
      OBVIOUS
    <3> QED
      BY <2>1, <3>2, <3>3
  <2>3. BeforeKernel = 0
    BY <2>2 DEF BeforeKernel
  <2>4. BeforeMux = 0
    BY <2>2, <2>3 DEF BeforeMux
  <2>5. BeforeCoalesce = 0
    BY <2>2, <2>4 DEF BeforeCoalesce
  <2>6. Run(parsed, 0) /\ Run(coalesce, 0) /\ Run(muxBuf, 0) /\ Run(kernel, 0)
    BY <2>2 DEF Run
  <2> QED
    BY <2>1, <2>2, <2>3, <2>4, <2>5, <2>6 DEF OneRun
<1>3. ASSUME TypeOK, SingleFlight, DestroyQuiescent, OneRun, [Next]_vars
      PROVE  Output!Next \/ UNCHANGED <<written, parsed, mainPc = "freed">>
  <2>1. CASE ChildWrite
    BY <2>1 DEF ChildWrite, pool, main, Output!Next, Output!Produce
  <2>2. CASE ChildExit \/ MuxNext \/ UNCHANGED vars
    BY <2>2 DEF ChildExit, MuxNext, MuxDrain, MuxApply, MuxApplied, MuxWait, MuxWakeClear,
       MuxEnter, MuxRead, MuxReadAgain, MuxReadEof, MuxAppend, MuxPause, MuxDisable,
       MuxQueueCheck, MuxQueue, vars, child, pool, main
  <2>3. ASSUME NEW w \in Workers, WorkerNext(w)
        PROVE  Output!Next \/ UNCHANGED <<written, parsed, mainPc = "freed">>
    <3>1. UNCHANGED <<written, mainPc>>
      BY <2>3 DEF WorkerNext, WorkerTake, WorkerGrab, WorkerInject, WorkerResume, WorkerSize,
         WorkerCas, WorkerEnable, WorkerWake, child, main
    <3>2. CASE parsed' = parsed
      BY <3>1, <3>2
    <3>3. CASE parsed' # parsed
      <4>1. WorkerInject(w) /\ Run(parsed', 0)
        BY <1>3, <2>3, <3>3, WorkerKeepsRun
      <4>2. mainPc # "freed"
        BY <1>3, <4>1 DEF WorkerInject, DestroyQuiescent, Busy
      <4>3. parsed' \in Seq(Nat) /\ TypeOK'
        BY <1>3, NextType DEF TypeOK
      <4>4. Len(parsed') \in 1..written /\ Len(parsed') > Len(parsed)
        BY <1>3, <2>3, <3>3, WorkerKeepsRun
      <4>5. parsed' = Output!Stream(Len(parsed'))
        BY <4>1, <4>3 DEF Run, Output!Stream
      <4> QED
        BY <3>1, <4>1, <4>2, <4>4, <4>5 DEF Output!Next, Output!Deliver
    <3> QED
      BY <3>2, <3>3
  <2>4. CASE MainNext
    <3>1. UNCHANGED <<written, parsed>>
      BY <2>4 DEF MainNext, CloseTab, KillTerminal, Sweep, RemoveSync, FenceWake, FenceDone,
         MainWriteFails, child, pool
    <3>2. mainPc # "freed"
      BY <2>4 DEF MainNext, CloseTab, KillTerminal, Sweep, RemoveSync, FenceWake, FenceDone,
         MainWriteFails
    <3> QED
      BY <3>1, <3>2 DEF Output!Next, Output!Destroy
  <2> QED
    BY <1>3, <2>1, <2>2, <2>3, <2>4 DEF Next
<1>4. Inv /\ [Next]_vars => [Output!Next]_<<written, parsed, mainPc = "freed">>
  BY <1>3
<1>5. Spec => []Inv
  BY <1>2, RunStep, TypeCorrect, OneParseAtATime, NoUseAfterDestroy, PTL DEF Spec
<1> QED
  BY <1>1, <1>4, <1>5, PTL DEF Spec, RefinesStream, Output!Spec
=============================================================================
