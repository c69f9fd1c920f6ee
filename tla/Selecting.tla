----------------------------- MODULE Selecting -----------------------------
(***************************************************************************)
(* The mouse on a Screen: selections that are dragged, clicked, extended   *)
(* and read while the program writes, the window changes size and the user *)
(* scrolls back.  Two scenes: in "edit" the Screen alone takes its steps;  *)
(* in "select" it begins with a page of text and takes the few steps that  *)
(* move text about, between those of the mouse.                            *)
(*                                                                         *)
(* Every mouse event is one call from the main thread under mMutex.  The   *)
(* program does not track the mouse.  What the alternate screen shows is   *)
(* not modelled, so the mouse rests while it is up.                        *)
(***************************************************************************)
EXTENDS Screen, Selection

CONSTANTS
    Pages,      \* documents the scene "select" may begin with, the cursor
                \* behind the first character of their last row
    SelectSteps \* bound: steps of a behaviour of that scene

ASSUME SelectingAssumption ==
    /\ \A d \in Pages : <<d.cols, Height(d)>> \in Sizes
    /\ SelectSteps \in Nat

VARIABLES
    scene,      \* "edit" or "select"
    sel,        \* mSelection
    pend        \* mPendingSelection: <<>>, or the press that waits for a motion

allVars == <<vars, scene, sel, pend>>

SelInit ==
    /\ scene \in {"edit", "select"}
    /\ doc \in IF scene = "edit" THEN {NewDocument(FirstSize[1], FirstSize[2])} ELSE Pages
    /\ main = IF scene = "edit" THEN DefaultState(Height(doc))
              ELSE [DefaultState(Height(doc)) EXCEPT !.x = 2, !.y = Height(doc)]
    /\ alt = DefaultState(Height(doc))
    /\ usingAlt = FALSE /\ offset = 0 /\ stale = FALSE
    /\ steps = 0
    /\ sel = NoSelection /\ pend = <<>>

-----------------------------------------------------------------------------
(* The mouse *)

Mouse ==
    /\ scene = "select" /\ ~usingAlt
    /\ steps < SelectSteps /\ steps' = steps + 1
    /\ UNCHANGED <<doc, main, alt, usingAlt, stale, scene>>

\* The row of the document under row y of the viewport.
At(x, y, half, off) == [row |-> HistorySize(doc) - off + y, x |-> x, half |-> half]

\* Only the next motion begins the selection.
MousePress(x, y, half) ==
    /\ Mouse
    /\ sel' = ClearSelection(sel)
    /\ pend' = At(x, y, half, offset)
    /\ UNCHANGED offset

Begun == IF pend = <<>> THEN sel ELSE StartSelection(doc, sel, pend)

MouseMove(x, y, half) ==
    /\ Mouse
    /\ Begun.active
    /\ sel' = UpdateSelection(doc, Begun, At(x, y, half, offset))
    /\ pend' = <<>>
    /\ UNCHANGED offset

MouseRelease ==
    /\ Mouse
    /\ pend # <<>> \/ sel.active
    /\ pend' = <<>>
    /\ sel' = IF sel.active THEN FinalizeSelection(sel) ELSE sel
    /\ UNCHANGED offset

\* Double click, triple click, Shift and a click, Alt and a drag.
Gesture(after) ==
    /\ Mouse
    /\ sel' = after
    /\ UNCHANGED <<pend, offset>>
SelectWord(x, y) == Gesture(StartWordSelection(doc, sel, At(x, y, FALSE, offset)))
SelectLine(y)    == Gesture(StartLineSelection(doc, sel, At(1, y, FALSE, offset)))
Extend(x, y, half)    == Gesture(ExtendSelection(doc, sel, At(x, y, half, offset)))
Rectangle(x, y, half) == Gesture(StartRectangleSelection(doc, sel, At(x, y, half, offset)))

\* The timer while a drag is held above or below the pane.
AutoScroll(dir, x) ==
    LET to == Clamp(offset + dir, 0, HistorySize(doc))
        y  == IF dir > 0 THEN 1 ELSE Lowest
    IN /\ Mouse
       /\ sel.active
       /\ offset' = to
       /\ sel' = UpdateSelection(doc, sel, At(x, y, FALSE, to))
       /\ UNCHANGED pend

\* A key that is not a modifier alone.
KeyPress ==
    /\ Mouse
    /\ offset' = 0
    /\ sel' = IF HasSelection(doc, sel) THEN ClearSelection(sel) ELSE sel
    /\ UNCHANGED pend

-----------------------------------------------------------------------------
(* The screen under it *)

OnPage == scene = "select" /\ steps < SelectSteps

TextChanges ==
    /\ OnPage
    /\ Write(1) \/ CarriageReturn \/ ReverseIndex
    /\ UNCHANGED <<scene, sel, pend>>

TextMoves ==
    /\ OnPage
    /\ LineFeed \/ \E delta \in {-1, 1} : ScrollViewport(delta)
    /\ UNCHANGED <<scene, sel, pend>>

\* A resize ends a drag; the anchors stay.
PageResized ==
    /\ OnPage
    /\ \E size \in Sizes : Resize(size[1], size[2])
    /\ pend' = <<>>
    /\ sel' = IF sel.active THEN FinalizeSelection(sel) ELSE sel
    /\ UNCHANGED scene

ScreenSwitched ==
    /\ OnPage
    /\ EnterAlt \/ LeaveAlt \/ FullReset
    /\ sel' = ClearSelection(sel)
    /\ UNCHANGED <<scene, pend>>

Edit == scene = "edit" /\ Next /\ UNCHANGED <<scene, sel, pend>>

SelNext ==
    \/ Edit
    \/ \E x \in 1..Width, y \in 1..Lowest, half \in BOOLEAN :
          /\ half => x = Width
          /\ MousePress(x, y, half) \/ MouseMove(x, y, half)
    \/ \E x \in {1, Width}, y \in 1..Lowest :
          SelectWord(x, y) \/ Rectangle(x, y, FALSE) \/ Extend(x, y, x = Width)
    \/ \E y \in 1..Lowest : SelectLine(y)
    \/ MouseRelease \/ KeyPress
    \/ \E dir \in {-1, 1} : AutoScroll(dir, 2)
    \/ TextChanges \/ TextMoves \/ PageResized \/ ScreenSwitched

SelSpec == SelInit /\ [][SelNext]_allVars

-----------------------------------------------------------------------------
(* Properties *)

\* Ids ascend through the scrollback and the screen, as the search for a line
\* takes for granted.
Ascending(d) ==
    LET p == Pieces(d)
    IN \A i \in 1..Len(p) - 1 : p[i].id <= p[i + 1].id

\* The selected lines, as far as something is printed on them.
Marks(d, s) ==
    LET text == SelectedText(d, s)
        Printed(cells) == SelectSeq(cells, LAMBDA c : c # 0)
    IN SelectSeq([i \in 1..Len(text) |-> Printed(text[i])], LAMBDA t : t # <<>>)

\* A row that is still a row of the document after a resize, and counted from
\* the start of its line.
Held(d, a, cursor) ==
    /\ FirstAbsOfLine(d, a.id) \in 1..(HistorySize(d) + UsedRows(d, cursor))
    /\ a.at <= BlockCells

\* The end of a row and the start of the next: no cell lies between, but
\* resolveSelection takes in both around it.
SamePlace(p, q) ==
    \/ p.row + 1 = q.row /\ p.col = Width /\ q.col = 0
    \/ q.row + 1 = p.row /\ q.col = Width /\ p.col = 0

\* The selected text is the same after the program moved down, the user
\* scrolled or the window changed size, in whatever rows it now stands.
SelectionKeepsText ==
    [][/\ scene = "select" /\ ~usingAlt /\ doc' # doc /\ sel.mode # "rectangle"
       /\ TextMoves \/ PageResized
       /\ Marks(doc, sel) # <<>> /\ Room /\ Ascending(doc) /\ Uncut(doc)
       /\ Held(doc, sel.start, main) /\ Held(doc, sel.end, main)
       /\ ~SamePlace(ResolveBoundary(doc, sel.start), ResolveBoundary(doc, sel.end))
       => Marks(doc, sel) = Marks(doc', sel')]_allVars

\* Boundaries in reading order: that before cell x of a row, or after it.
Point(p) == [row |-> p.row, col |-> IF p.half THEN p.x ELSE p.x - 1]
Between(p, q, x, row) ==
    Before(Point(p), [row |-> row, col |-> x - 1]) /\ Before([row |-> row, col |-> x], Point(q))

\* The first motion of a drag selects the cells that lie between the press and
\* the pointer, whichever comes first, and no other.
DragSelectsBetween ==
    [][pend # <<>> /\ sel'.active /\ pend.row <= AllRows(doc) =>
       \A x \in 1..Width, y \in 1..Lowest, half \in BOOLEAN :
          MouseMove(x, y, half) /\ Ascending(doc) /\ Uncut(doc)
          /\ ~SamePlace(Point(pend), Point(At(x, y, half, offset)))
          => LET q == At(x, y, half, offset) IN
             \A c \in 1..Width, r \in 1..AllRows(doc) :
                IsCellSelected(doc, sel', c, r)
                <=> Between(pend, q, c, r) \/ Between(q, pend, c, r)]_allVars
=============================================================================
