----------------------------- MODULE Selection -----------------------------
(***************************************************************************)
(* The text selection of a TerminalEmulator.  Its two anchors are          *)
(* boundaries between cells, counted from the start of a logical line, so  *)
(* that they survive scrolling and reflow; they are turned into rows and   *)
(* columns of the document whenever someone looks.  Pure operators on a    *)
(* document and a selection; Selecting keeps the value.                    *)
(*                                                                         *)
(* Rows are absolute: 1 is the oldest row of the scrollback, the screen    *)
(* comes after the last.  Cells of a row count from 1, boundaries from 0.  *)
(***************************************************************************)
EXTENDS Document

NoAnchor == [id |-> 0, at |-> 0]
NoSelection == [active |-> FALSE, valid |-> FALSE, mode |-> "normal",
                start |-> NoAnchor, end |-> NoAnchor]

-----------------------------------------------------------------------------
(* Rows of the document *)

AllRows(d) == HistorySize(d) + Height(d)

\* materializeWrappedRow for a row of the scrollback, else the grid's row.
HistoryRows(d) == FlattenSeq([i \in 1..TotalLines(d.back) |-> Wrap(Lines(d.back)[i], d.cols)])
RowAt(d, r) == IF r <= HistorySize(d) THEN HistoryRows(d)[r] ELSE d.rows[r - HistorySize(d)]

LineIdForAbs(d, r) == IF r \in 1..AllRows(d) THEN RowAt(d, r).id ELSE 0

\* The rows before the k-th line of the scrollback.
RowsBefore(d, k) ==
    FoldLeft(LAMBDA n, l : n + WrappedRows(Len(l.cells), d.cols), 0,
             SubSeq(Lines(d.back), 1, k - 1))
OnScreen(d, id) == {y \in 1..Height(d) : d.rows[y].id = id}

\* A line that began in the scrollback is found there first and its last row
\* on the screen; 0 if it is found nowhere.
FirstAbsOfLine(d, id) ==
    LET k == LogicalIndexOfLineId(d.back, id)
    IN IF id = 0 THEN 0
       ELSE IF k > 0 THEN RowsBefore(d, k) + 1
       ELSE IF OnScreen(d, id) # {} THEN HistorySize(d) + Min(OnScreen(d, id))
       ELSE 0
LastAbsOfLine(d, id) ==
    LET k == LogicalIndexOfLineId(d.back, id)
    IN IF id = 0 THEN 0
       ELSE IF OnScreen(d, id) # {} THEN HistorySize(d) + Max(OnScreen(d, id))
       ELSE IF k > 0 THEN RowsBefore(d, k + 1)
       ELSE 0

-----------------------------------------------------------------------------
(* Anchors *)

\* A press on cell x of row r, in its right half or not.
Boundary(d, x, half) ==
    LET b == IF half THEN x ELSE x - 1
    IN IF b < 0 THEN 0 ELSE IF b > d.cols THEN d.cols ELSE b

BoundaryOffsetWithinLine(d, id, r, x, half) ==
    LET first == FirstAbsOfLine(d, id)
    IN (IF first = 0 THEN 0 ELSE (r - first) * d.cols) + Boundary(d, x, half)

\* Mutation: the anchor counts from its row, not from its line.
AnchorOfRow(d, p) ==
    [id |-> LineIdForAbs(d, p.row), at |-> Boundary(d, p.x, p.half)]

Anchor(d, p) ==
    LET id == LineIdForAbs(d, p.row)
    IN [id |-> id, at |-> BoundaryOffsetWithinLine(d, id, p.row, p.x, p.half)]

Started(sel, a, mode) ==
    [sel EXCEPT !.start = a, !.end = a, !.active = TRUE, !.valid = FALSE, !.mode = mode]

StartSelection(d, sel, p)          == Started(sel, Anchor(d, p), "normal")
StartRectangleSelection(d, sel, p) == Started(sel, Anchor(d, p), "rectangle")
UpdateSelection(d, sel, p)         == [sel EXCEPT !.end = Anchor(d, p)]
FinalizeSelection(sel)             == [sel EXCEPT !.active = FALSE, !.valid = TRUE]
ClearSelection(sel)                == [sel EXCEPT !.active = FALSE, !.valid = FALSE]

\* The cells of the row around x that are word characters as it is, or not as
\* it is not.
WordAround(d, r, x) ==
    LET IsWord(c) == RowAt(d, r).cells[c] # 0
        Same(from, to) == \A c \in from..to : IsWord(c) = IsWord(x)
    IN <<Min({c \in 1..x : Same(c, x)}), Max({c \in x..d.cols : Same(x, c)})>>

StartWordSelection(d, sel, p) ==
    LET word == WordAround(d, p.row, p.x)
    IN FinalizeSelection(
        [Started(sel, Anchor(d, [p EXCEPT !.x = word[1], !.half = FALSE]), "word")
            EXCEPT !.end = Anchor(d, [p EXCEPT !.x = word[2], !.half = TRUE])])

\* The whole logical line, to the end of its last row.
StartLineSelection(d, sel, p) ==
    LET id    == LineIdForAbs(d, p.row)
        first == FirstAbsOfLine(d, id)
        last  == LastAbsOfLine(d, id)
        span  == IF first = 0 \/ last = 0 THEN 0 ELSE last - first
    IN FinalizeSelection(
        [Started(sel, [id |-> id, at |-> 0], "line")
            EXCEPT !.end = [id |-> id, at |-> (span + 1) * d.cols]])

-----------------------------------------------------------------------------
(* What is selected now *)

\* Mutation: an anchor behind the last row of its line is not drawn back to it.
BoundaryUnclamped(d, a) ==
    [row |-> FirstAbsOfLine(d, a.id) + a.at \div d.cols, col |-> a.at % d.cols]

\* Where a stored boundary is at the present width: past the line's last row
\* it is the end of that row.
ResolveBoundary(d, a) ==
    LET row  == FirstAbsOfLine(d, a.id) + a.at \div d.cols
        last == LastAbsOfLine(d, a.id)
    IN IF last > 0 /\ row > last THEN [row |-> last, col |-> d.cols]
                                 ELSE [row |-> row, col |-> a.at % d.cols]

\* The cell after a boundary; the end of a row is the start of the next.
Leading(d, p) == IF p.col = d.cols THEN [row |-> p.row + 1, col |-> 1]
                                   ELSE [row |-> p.row, col |-> p.col + 1]
\* The cell before a boundary (shiftBack).
Trailing(d, p) == IF p.col > 0 THEN p
                  ELSE IF p.row > 1 THEN [row |-> p.row - 1, col |-> d.cols]
                  ELSE [row |-> p.row, col |-> 1]

Nothing == [none |-> TRUE]

\* The cells between two boundaries, the first and the last, in either order;
\* Nothing if none lies between.
CellsBetween(d, mode, s, e) ==
    LET forward == s.row < e.row \/ (s.row = e.row /\ s.col < e.col)
        left    == Min({s.col, e.col})
        right   == Max({s.col, e.col})
        Cells(from, to) == [none |-> FALSE, from |-> from, to |-> to]
    IN IF s = e \/ (mode = "rectangle" /\ left = right) THEN Nothing
       ELSE IF mode = "rectangle"
       THEN Cells([row |-> Min({s.row, e.row}), col |-> left + 1],
                  [row |-> Max({s.row, e.row}), col |-> right])
       ELSE IF forward THEN Cells(Leading(d, s), Trailing(d, e))
                       ELSE Cells(Trailing(d, s), Leading(d, e))

\* Nothing either if an anchor's line is gone.
ResolveSelection(d, sel) ==
    IF \/ ~sel.active /\ ~sel.valid
       \/ FirstAbsOfLine(d, sel.start.id) = 0 \/ FirstAbsOfLine(d, sel.end.id) = 0
    THEN Nothing
    ELSE CellsBetween(d, sel.mode, ResolveBoundary(d, sel.start), ResolveBoundary(d, sel.end))

HasSelection(d, sel) == ~ResolveSelection(d, sel).none

\* In reading order.
Before(p, q) == p.row < q.row \/ (p.row = q.row /\ p.col <= q.col)
Ordered(r) == IF Before(r.from, r.to) THEN r ELSE [r EXCEPT !.from = r.to, !.to = r.from]

CellInside(mode, r, x, row) ==
    IF mode = "rectangle"
    THEN row \in r.from.row..r.to.row /\ x \in r.from.col..r.to.col
    ELSE /\ Before(r.from, [row |-> row, col |-> x])
         /\ Before([row |-> row, col |-> x], r.to)
IsCellSelected(d, sel, x, row) ==
    HasSelection(d, sel) /\ CellInside(sel.mode, Ordered(ResolveSelection(d, sel)), x, row)

\* What a row adds to the text: without the blanks at its end.  In a row with
\* nothing but blanks as many stay as there are columns before the first.
RowText(d, r, from, to) ==
    LET cells == SubSeq(RowAt(d, r).cells, from, to)
        used  == {i \in 1..Len(cells) : cells[i] # 0}
    IN IF used = {} THEN Blanks(from - 1) ELSE SubSeq(cells, 1, Max(used))

\* The rows of a selection as lines: a row that wrapped is joined with the
\* next one.
JoinedRows(d, mode, r) ==
    LET In(c) == Min({Max({c, 1}), d.cols})
        From(row) == IF mode = "rectangle" \/ row = r.from.row THEN In(r.from.col) ELSE 1
        To(row)   == IF mode = "rectangle" \/ row = r.to.row THEN In(r.to.col) ELSE d.cols
        rows == [i \in 1..(Min({r.to.row, AllRows(d)}) - r.from.row + 1) |-> r.from.row + i - 1]
        Add(text, row) ==
            IF row > r.from.row /\ RowAt(d, row - 1).cont
            THEN Append(Front(text), Last(text) \o RowText(d, row, From(row), To(row)))
            ELSE Append(text, RowText(d, row, From(row), To(row)))
    IN FoldLeft(Add, <<>>, rows)
SelectedText(d, sel) ==
    IF HasSelection(d, sel) THEN JoinedRows(d, sel.mode, Ordered(ResolveSelection(d, sel))) ELSE <<>>

\* The anchor nearer to the press moves there.
NearerMoved(d, sel, r, p, a) ==
    LET Abs(n, m) == IF n < m THEN m - n ELSE n - m
        Distance(c) == Abs(p.row, c.row) * d.cols + Abs(p.x, c.col)
    IN IF Distance(r.from) < Distance(r.to) THEN [sel EXCEPT !.start = a] ELSE [sel EXCEPT !.end = a]
ExtendSelection(d, sel, p) ==
    IF ~HasSelection(d, sel) THEN StartSelection(d, sel, p)
    ELSE FinalizeSelection([NearerMoved(d, sel, ResolveSelection(d, sel), p, Anchor(d, p))
                               EXCEPT !.mode = "normal"])
=============================================================================
