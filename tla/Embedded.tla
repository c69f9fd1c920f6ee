------------------------------- MODULE Embedded -------------------------------
(***************************************************************************)
(* Terminals embedded in the text of a pane.  Each hangs on a line and     *)
(* goes with it: the worker that evicts the line moves it aside, the main  *)
(* thread's next tick buries it and tells its script.  Meanwhile handlers  *)
(* on the main thread use pointers they looked up under the pane's lock,   *)
(* and the render thread those of the state it copied.                     *)
(*                                                                         *)
(* g is one pane: place says who owns an embedded terminal, numbered by    *)
(* its line; shadow and frame are the render thread's copies, done the     *)
(* frames it completed, stamp what done was at a burial; held and hit are  *)
(* what the handler that runs has looked up; listens are the scripts that  *)
(* wait to be told.                                                        *)
(***************************************************************************)
EXTENDS Integers, FiniteSetsExt

CONSTANT EmbeddedMax \* bound: embedded terminals of a behaviour
ASSUME EmbeddedAssumption == EmbeddedMax \in Nat

Embeds == 1..EmbeddedMax

EmbeddedInit == [place |-> [k \in Embeds |-> "none"], focus |-> 0, gone |-> FALSE,
                 listens |-> {}, told |-> [k \in Embeds |-> 0],
                 pc |-> "events", held |-> {}, hit |-> 0, batch |-> {},
                 shadow |-> {}, drawing |-> FALSE, frame |-> {}, done |-> 0,
                 stamp |-> [k \in Embeds |-> 0]]

At(g, where) == {k \in Embeds : g.place[k] = where}
Move(g, ks, where) == [g EXCEPT !.place = [k \in Embeds |-> IF k \in ks THEN where ELSE @[k]]]
Unfocus(g, ks) == [g EXCEPT !.focus = IF @ \in ks THEN 0 ELSE @]

\* The cursor's line gets one; the cursor leaves the line.
AttachEmbedded(g, k) == [Move(g, {k}, "map") EXCEPT !.listens = @ \cup {k}]
\* Setting one aside: its line was evicted, or all were by a full reset.
OnLineIdEvicted(g, k) == Move(Unfocus(g, {k}), {k}, "evicted")
OnFullReset(g) == Move([g EXCEPT !.focus = 0], At(g, "map"), "evicted")

\* What is drawn no more is stamped with the frames completed so far.
Bury(g, k) == [Move(g, {k}, "grave") EXCEPT !.shadow = @ \ {k}, !.stamp[k] = g.done]
ExtractEmbedded(g, k) == IF g.place[k] # "map" THEN g ELSE Bury(Unfocus(g, {k}), k)
Told(g, k) == IF k \in g.listens THEN [g EXCEPT !.told[k] = @ + 1] ELSE g
CloseEmbedded(g, k) == [Told(ExtractEmbedded(g, k), k) EXCEPT !.listens = @ \ {k}]
UnloadOwner(g, k) == [ExtractEmbedded(g, k) EXCEPT !.listens = @ \ {k}]

\* The pane is closed; it takes with it what hangs on its lines or was set aside.
ClosePaneWith(g) ==
    LET all == At(g, "map") \cup At(g, "evicted")
    IN [Move(g, all, "grave") EXCEPT !.gone = TRUE, !.shadow = {}, !.focus = 0,
            !.stamp = [k \in Embeds |-> IF k \in all THEN g.done ELSE @[k]]]

-----------------------------------------------------------------------------
\* A click: the line is found under the lock, and used after it.
HitTest(g, k) == [g EXCEPT !.pc = "click", !.hit = k]
LookUp(g, ks) == [g EXCEPT !.pc = "uses", !.held = ks]
FocusHit(g) ==
    LET f == [g EXCEPT !.focus = g.hit, !.hit = 0]
    IN LookUp(f, {g.hit} \cap At(g, "map"))
UseHeld(g) == [g EXCEPT !.pc = "events", !.held = {}]

\* The tick: what was set aside is taken, buried one by one, the render
\* thread's copy is made anew, and the dead are freed whose frame has passed.
DrainEvicted(g) == [Move(g, At(g, "evicted"), "taken") EXCEPT !.pc = "drain", !.batch = At(g, "evicted")]
\* Mutant: the copy is left as it is until it is made anew.
BuryDrainedLater(g, k) == Told([Move(g, {k}, "grave") EXCEPT !.batch = @ \ {k}, !.stamp[k] = g.done], k)
BuryDrained(g, k) == Told([Bury(g, k) EXCEPT !.batch = @ \ {k}], k)
Rebuild(g) == [g EXCEPT !.pc = "sweep", !.shadow = At(g, "map")]
SweepGraves(g) == [Move(g, {k \in At(g, "grave") : g.done > g.stamp[k]}, "freed") EXCEPT !.pc = "events"]

\* The render thread.
CopyState(g) == [g EXCEPT !.drawing = TRUE, !.frame = g.shadow]
CompleteFrame(g) == [g EXCEPT !.drawing = FALSE, !.frame = {}, !.done = @ + 1]
===============================================================================
