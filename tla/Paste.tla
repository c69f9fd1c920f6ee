-------------------------------- MODULE Paste ---------------------------------
(***************************************************************************)
(* Pasting what another program has selected.  A paste asks for the        *)
(* primary selection and, that being empty, refused or not answered in     *)
(* time, for the clipboard.  The answer is an event that comes when it     *)
(* comes; all answers are left in one property of the window, and the      *)
(* script API and OSC 52, which wait for theirs, read the events of all.   *)
(*                                                                         *)
(* q is the window's state: pending are the requests it waits for, asked   *)
(* the conversions owners were asked for, events the answers not yet read. *)
(***************************************************************************)
EXTENDS SequencesExt

PasteSources == {"primary", "clipboard"}
NoText == ""

PasteInit == [own |-> [s \in PasteSources |-> FALSE], pending |-> <<>>, timer |-> FALSE,
              asked |-> <<>>, events |-> <<>>, prop |-> NoText, done |-> <<>>]

\* How often each paste has come to its end, with a text or without.
Pasted(q, job) == [q EXCEPT !.done[job] = @ + 1]
Convert(q, s) == [q EXCEPT !.asked = Append(@, s)]
Await(q, s, job) == [Convert(q, s) EXCEPT !.pending = Append(@, [s |-> s, job |-> job]), !.timer = TRUE]

\* The window's own selection is at hand; for another's it waits.
AskClipboard(q, job) == IF q.own["clipboard"] THEN Pasted(q, job) ELSE Await(q, "clipboard", job)
AskPrimary(q, job) == IF q.own["primary"] THEN Pasted(q, job) ELSE Await(q, "primary", job)
PasteSelection(q) == AskPrimary([q EXCEPT !.done = Append(@, 0)], Len(q.done) + 1)

\* What a request does when it is over.
Called(q, r, text) ==
    IF text = NoText /\ r.s = "primary" THEN AskClipboard(q, r.job) ELSE Pasted(q, r.job)

\* Who waits for the answer of an owner; the first of them gets it.
Waiters(q, s) == {i \in DOMAIN q.pending : q.pending[i].s = s}
SelectionNotify(q) ==
    LET e == Head(q.events)
        mine == Waiters(q, e.s)
        i == Min(mine)
        rest == RemoveAt(q.pending, i)
        n == [q EXCEPT !.events = Tail(@)]
        got == [n EXCEPT !.pending = rest, !.timer = rest # <<>>]
    IN IF mine = {} THEN n
       ELSE IF ~e.ok THEN Called(got, q.pending[i], NoText)
       ELSE Called([got EXCEPT !.prop = NoText], q.pending[i], q.prop)

\* Mutant: who is told that time is up still waits.
SweepKeeps(q, late) ==
    FoldLeft(LAMBDA r, p : Called(r, p, NoText), [q EXCEPT !.timer = FALSE], SubSeq(q.pending, 1, late))
\* The first few are past their deadlines.
Sweep(q, late) ==
    LET rest == SubSeq(q.pending, late + 1, Len(q.pending))
    IN FoldLeft(LAMBDA r, p : Called(r, p, NoText),
                [q EXCEPT !.pending = rest, !.timer = rest # <<>>], SubSeq(q.pending, 1, late))

\* The first answer that comes is taken for its own, whoever was waiting for it.
PollForAnswer(q) ==
    IF q.events = <<>> THEN q
    ELSE [q EXCEPT !.events = Tail(@), !.prop = IF Head(q.events).ok THEN NoText ELSE @]
GetClipboard(q, s) == IF q.own[s] THEN q ELSE PollForAnswer(Convert(q, s))
SetClipboard(q, s) == [q EXCEPT !.own[s] = TRUE]

\* The owner of a selection answers or refuses, in any order; or it is another
\* program's turn to own it.
OwnerAnswers(q, i, ok) ==
    [q EXCEPT !.asked = RemoveAt(@, i), !.events = Append(@, [s |-> q.asked[i], ok |-> ok]),
              !.prop = IF ok THEN q.asked[i] ELSE @]
LoseSelection(q, s) == [q EXCEPT !.own[s] = FALSE]
===============================================================================
