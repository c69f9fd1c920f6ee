------------------------------ MODULE Document ------------------------------
(***************************************************************************)
(* The main screen's contents: a grid of rows, and the scrollback that the *)
(* rows leaving it at the top are appended to.  Pure operators on a record *)
(* [cols, rows, back, next]; Screen keeps the value.                       *)
(*                                                                         *)
(* A cell is 0 for a blank or a stamp that tells one printed character     *)
(* from all others; a row is its cells, its Continued flag and the id of   *)
(* the logical line it belongs to; the next id is one no line ever had.    *)
(***************************************************************************)
EXTENDS LineBuffer

Height(d) == Len(d.rows)
HistorySize(d) == NumWrappedRows(d.back, d.cols)

Blanks(n) == [i \in 1..n |-> 0]
IsBlank(row) == \A i \in 1..Len(row.cells) : row.cells[i] = 0
NewRow(d) == [cells |-> Blanks(d.cols), cont |-> FALSE, id |-> d.next]

\* n more rows at the bottom, each with an id of its own.
AddRows(d, n) ==
    FoldLeft(LAMBDA e, i : [e EXCEPT !.rows = Append(@, NewRow(e)), !.next = @ + 1], d,
             [i \in 1..n |-> i])

NewDocument(cols, height) ==
    AddRows([cols |-> cols, rows |-> <<>>, back |-> <<>>, next |-> 1], height)

-----------------------------------------------------------------------------
(* Editing the grid.  Rows and columns count from 1. *)

InGrid(d, y) == y \in 1..Height(d)

SetRowContinued(d, y, v) ==
    IF InGrid(d, y) THEN [d EXCEPT !.rows[y].cont = v] ELSE d

\* Clears the columns from..to of a row; its line id stays.
ClearCells(d, y, from, to) ==
    IF ~InGrid(d, y) THEN d
    ELSE [d EXCEPT !.rows[y] =
            [cells |-> [i \in 1..d.cols |-> IF i \in from..to THEN 0 ELSE @.cells[i]],
             cont  |-> @.cont /\ to < d.cols,
             id    |-> @.id]]
ClearRow(d, y) == ClearCells(d, y, 1, d.cols)
ClearRows(d, from, to) ==
    FoldLeft(LAMBDA e, i : ClearRow(e, from + i - 1), d,
             [i \in 1..(IF to < from THEN 0 ELSE to - from + 1) |-> i])

\* DCH and ICH of one cell; neither touches the flag of the row.
DeleteChar(d, y, x) ==
    IF ~InGrid(d, y) \/ x \notin 1..d.cols THEN d
    ELSE [d EXCEPT !.rows[y].cells = Append(RemoveAt(@, x), 0)]
InsertChar(d, y, x) ==
    IF ~InGrid(d, y) \/ x \notin 1..d.cols THEN d
    ELSE [d EXCEPT !.rows[y].cells = Front(InsertAt(@, x, 0))]

InheritLineIdFromAbove(d, y) ==
    IF y > 1 /\ InGrid(d, y) THEN [d EXCEPT !.rows[y].id = d.rows[y - 1].id] ELSE d

\* A row that wrapped is stored whole, any other without its trailing blanks.
\* It goes on with the last line if that one is partial and has its id.
PushVisibleRow(b, row) ==
    LET used == {i \in 1..Len(row.cells) : row.cells[i] # 0}
        len  == IF row.cont THEN Len(row.cells) ELSE IF used = {} THEN 0 ELSE Max(used)
    IN AppendLine(b, [cells |-> SubSeq(row.cells, 1, len), soft |-> row.cont, id |-> row.id],
                  LastLineIsPartial(b) /\ LastLineId(b) = row.id)

\* Rows top..bottom move up by one, row top is lost, or goes to the
\* scrollback if it is the first of the grid, and row bottom becomes blank.
ScrollUp(d, top, bottom) ==
    IF ~(1 <= top /\ top <= bottom /\ bottom <= Height(d)) THEN d
    ELSE [d EXCEPT
            !.rows = InsertAt(RemoveAt(@, top), bottom, NewRow(d)),
            !.next = @ + 1,
            !.back = IF top = 1 THEN PushVisibleRow(@, d.rows[1]) ELSE @]

ScrollDown(d, top, bottom) ==
    IF ~(1 <= top /\ top <= bottom /\ bottom <= Height(d)) THEN d
    ELSE [d EXCEPT !.rows = InsertAt(RemoveAt(@, bottom), top, NewRow(d)), !.next = @ + 1]

ClearHistory(d) == [d EXCEPT !.back = <<>>]

-----------------------------------------------------------------------------
(* Resizing: every used row goes to the scrollback, then the last lines    *)
(* come back out of it, wrapped at the new width, until the grid is full.  *)

\* Rows down to the last one that is not padding: it has text, it wrapped,
\* or the cursor is on it.
UsedRows(d, cursor) ==
    Max({0} \cup {y \in 1..Height(d) :
            ~IsBlank(d.rows[y]) \/ d.rows[y].cont \/ y = cursor.y})

\* Mutation: the part in the scrollback is not counted.
CursorOffsetOnScreen(d, cursor) ==
    LET id    == d.rows[cursor.y].id
        first == Max({y \in 1..cursor.y : y = 1 \/ d.rows[y - 1].id # id})
    IN (cursor.y - first) * d.cols + cursor.x - 1

\* How many cells of its logical line come before the cursor: the part of
\* the line already in the scrollback, the rows above that have its id, and
\* the columns left of it.
CursorOffset(d, cursor) ==
    LET id    == d.rows[cursor.y].id
        first == Max({y \in 1..cursor.y : y = 1 \/ d.rows[y - 1].id # id})
        part  == IF LastLineIsPartial(d.back) /\ LastLineId(d.back) = id
                 THEN Len(Last(Last(d.back).lines).cells) ELSE 0
    IN part + (cursor.y - first) * d.cols + cursor.x - 1

\* Mutation: the last row of a partial line is not marked as wrapped.
WrapEnds(line, width) ==
    LET n == WrappedRows(Len(line.cells), width)
        CellAt(i) == IF i <= Len(line.cells) THEN line.cells[i] ELSE 0
    IN [r \in 1..n |-> [cells |-> [c \in 1..width |-> CellAt((r - 1) * width + c)],
                        cont  |-> r < n, id |-> line.id]]

\* The rows a line makes at a width; only its last row may end the line.
Wrap(line, width) ==
    LET n == WrappedRows(Len(line.cells), width)
        CellAt(i) == IF i <= Len(line.cells) THEN line.cells[i] ELSE 0
    IN [r \in 1..n |-> [cells |-> [c \in 1..width |-> CellAt((r - 1) * width + c)],
                        cont  |-> r < n \/ line.soft,
                        id    |-> line.id]]

\* How many of the last lines are needed to fill the rows.
Needed(lines, width, rows) ==
    LET Fill(k) == FoldLeft(LAMBDA n, l : n + WrappedRows(Len(l.cells), width), 0,
                            SubSeq(lines, Len(lines) - k + 1, Len(lines)))
    IN Min({k \in 0..Len(lines) : Fill(k) >= rows \/ k = Len(lines)})

\* The last of the rows stay on the screen; those over it go back as the
\* part of their line that is in the scrollback.
Seated(d, kept, first, all, width, height) ==
    LET over   == Max({0, Len(all) - height})
        prefix == [cells |-> SubSeq(first.cells, 1, over * width), soft |-> TRUE, id |-> first.id]
    IN AddRows([cols |-> width,
                rows |-> SubSeq(all, over + 1, Len(all)),
                back |-> IF over > 0 THEN AppendLine(kept, prefix, FALSE) ELSE kept,
                next |-> d.next],
               height - (Len(all) - over))

\* The last k lines of the scrollback come back.
PulledBack(d, pushed, k, width, height) ==
    LET lines  == Lines(pushed)
        staged == SubSeq(lines, Len(lines) - k + 1, Len(lines))
    IN Seated(d, FoldLeft(LAMBDA b, i : PopLastLine(b), pushed, [i \in 1..k |-> i]),
              staged[1], FlattenSeq([i \in 1..k |-> Wrap(staged[i], width)]), width, height)

Reflow(d, width, height, cursor) ==
    LET pushed == FoldLeft(PushVisibleRow, d.back, SubSeq(d.rows, 1, UsedRows(d, cursor)))
    IN PulledBack(d, pushed, Needed(Lines(pushed), width, height), width, height)

\* Where the cursor's line is found again, the row and column its offset
\* falls on, counted from the line's first row on the screen; a cursor
\* behind a full row stays in that row.
ReflowCursor(d, new, cursor) ==
    IF ~InGrid(d, cursor.y) THEN [x |-> 1, y |-> 1]
    ELSE LET offset == CursorOffset(d, cursor)
             same   == {y \in 1..Height(new) : new.rows[y].id = d.rows[cursor.y].id}
             row    == IF offset = 0 THEN 0 ELSE (offset - 1) \div new.cols
         IN IF same = {} THEN [x |-> 1, y |-> Height(new)]
            ELSE [x |-> Min({offset - row * new.cols, new.cols - 1}) + 1,
                  y |-> Min({Min(same) + row, Max(same)})]

ResizeDocument(d, width, height, cursor) ==
    IF d.cols = width /\ Height(d) = height THEN d ELSE Reflow(d, width, height, cursor)
=============================================================================
