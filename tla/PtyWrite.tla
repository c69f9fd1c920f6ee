------------------------------- MODULE PtyWrite -------------------------------
(***************************************************************************)
(* What is written to the program: keys and pasted text by the main        *)
(* thread, replies by the worker that parses.  What the kernel does not    *)
(* take at once is queued, and the descriptor watched until the queue is   *)
(* empty.  Each thread looks at exited before it takes the lock, so an     *)
(* exit may come between.                                                  *)
(*                                                                         *)
(* io numbers what is written in the order of the lock; got is what the    *)
(* kernel took.  wants is what a thread is about to write, fails that it   *)
(* has seen the program's end and is about to report it.                   *)
(***************************************************************************)
EXTENDS Integers, SequencesExt

Writers == {"main", "worker"}

WriteInit == [next |-> 1, got |-> <<>>, queue |-> <<>>, polled |-> FALSE,
              wants |-> [t \in Writers |-> 0], fails |-> {}, hungUp |-> FALSE,
              exited |-> FALSE, posted |-> FALSE, told |-> 0, open |-> TRUE]

BeginWrite(io, t, len) == IF io.exited THEN io ELSE [io EXCEPT !.wants[t] = len]

\* Under the lock.  The kernel takes some of it, unless others wait already.
WriteLocked(io, t, taken) ==
    LET data == [i \in 1..io.wants[t] |-> io.next + i - 1]
        rest == SubSeq(data, taken + 1, Len(data))
        n == [io EXCEPT !.wants[t] = 0, !.next = @ + Len(data)]
    IN IF io.queue = <<>> /\ io.hungUp THEN [n EXCEPT !.fails = @ \cup {t}, !.next = io.next]
       ELSE [n EXCEPT !.got = @ \o SubSeq(data, 1, taken), !.queue = @ \o rest,
                      !.polled = @ \/ rest # <<>>]
\* Mutant: written at once although others wait.
TakesOvertakes(io, t) == IF io.hungUp THEN {0} ELSE 0..io.wants[t]
Takes(io, t) == IF io.queue # <<>> \/ io.hungUp THEN {0} ELSE 0..io.wants[t]

\* The descriptor is writable: the main thread writes what the kernel takes.
FlushWriteQueue(io, taken) ==
    IF io.exited THEN io
    ELSE IF io.hungUp /\ io.queue # <<>> THEN [io EXCEPT !.fails = @ \cup {"main"}]
    ELSE LET rest == SubSeq(io.queue, taken + 1, Len(io.queue))
         IN [io EXCEPT !.got = @ \o SubSeq(io.queue, 1, taken), !.queue = rest, !.polled = rest # <<>>]

\* The first to see the end reports it.  The descriptor is watched no more once
\* the main thread comes to it, and what is written later is dropped.
ExitSeen(io) == IF io.exited THEN io ELSE [io EXCEPT !.exited = TRUE, !.posted = TRUE, !.told = @ + 1]
ReportExit(io, t) == [ExitSeen(io) EXCEPT !.fails = @ \ {t}]
UnwatchPosted(io) == [io EXCEPT !.posted = FALSE, !.polled = FALSE]
CloseMaster(io) == [io EXCEPT !.open = FALSE, !.polled = FALSE]
===============================================================================
