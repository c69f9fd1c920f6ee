------------------------------- MODULE Screen -------------------------------
(***************************************************************************)
(* The screens of a TerminalEmulator: the main one, whose contents are a   *)
(* Document, and the alternate one, which programs like editors switch to. *)
(* Each has its cursor, pending wrap and scroll region (TerminalState); the *)
(* user looks at the main one through a viewport that can be scrolled back *)
(* into the history.                                                       *)
(*                                                                         *)
(* One action is one parsed action or one call from the main thread: both  *)
(* run under mMutex.  Text is narrow, autowrap is on, insert and origin    *)
(* mode are off.  What the alternate screen shows is not kept: nothing of  *)
(* it reaches the Document.  A count of n is n times the action.           *)
(***************************************************************************)
EXTENDS Document

CONSTANTS
    Sizes,      \* <<columns, rows>> the window can have
    FirstSize,
    Runs,       \* lengths of the runs of text that are printed
    MaxSteps    \* bound: steps of a behaviour

ASSUME ScreenAssumption ==
    /\ Sizes \subseteq (Nat \ {0}) \X (Nat \ {0}) /\ FirstSize \in Sizes
    /\ Runs \subseteq Nat \ {0} /\ MaxSteps \in Nat

VARIABLES
    doc,        \* mDocument
    main, alt,  \* mMainState, mAltState
    usingAlt,   \* mUsingAltScreen, and where mState points
    offset,     \* mViewportOffset
    stale,      \* history: the window changed size while the main screen was hidden
    steps

vars == <<doc, main, alt, usingAlt, offset, stale, steps>>

Width   == doc.cols
Lowest  == Height(doc)      \* mHeight: the grid is resized with it
Active  == IF usingAlt THEN alt ELSE main

\* mDefaults, with the scroll region of a screen of that height.
Home == [x |-> 1, y |-> 1, pending |-> FALSE]
DefaultState(height) == [x |-> 1, y |-> 1, pending |-> FALSE, top |-> 1, bottom |-> height,
                         saved |-> Home]

Init ==
    /\ doc = NewDocument(FirstSize[1], FirstSize[2])
    /\ main = DefaultState(FirstSize[2]) /\ alt = DefaultState(FirstSize[2])
    /\ usingAlt = FALSE /\ offset = 0 /\ stale = FALSE /\ steps = 0

Tick == steps < MaxSteps /\ steps' = steps + 1

\* What a step works on: the document, the active state and the viewport.
View == [doc |-> doc, s |-> Active, offset |-> offset]
Becomes(v) ==
    /\ doc' = v.doc /\ offset' = v.offset
    /\ IF usingAlt THEN alt' = v.s /\ UNCHANGED main ELSE main' = v.s /\ UNCHANGED alt
    /\ UNCHANGED <<usingAlt, stale>>

Clamp(n, low, high) == IF n < low THEN low ELSE IF n > high THEN high ELSE n

-----------------------------------------------------------------------------
(* Printing and moving down *)

\* Mutation: the offset is left as it is.
ScrollUpUnpinned(v) ==
    IF usingAlt THEN v ELSE [v EXCEPT !.doc = ScrollUp(@, v.s.top, v.s.bottom)]

\* A viewport that is scrolled back moves with the text it shows.
ScrollUpInRegion(v) ==
    IF usingAlt THEN v
    ELSE LET d   == ScrollUp(v.doc, v.s.top, v.s.bottom)
             off == IF v.offset > 0 /\ v.s.top = 1 THEN v.offset + 1 ELSE v.offset
         IN [v EXCEPT !.doc = d,
                      !.offset = IF off > 0 THEN Min({off, HistorySize(d)}) ELSE off]

\* Down one line, scrolling when that leaves the region (or is below it).
DownOrScroll(v) ==
    IF v.s.y + 1 > v.s.bottom
    THEN ScrollUpInRegion([v EXCEPT !.s.y = v.s.bottom])
    ELSE [v EXCEPT !.s.y = @ + 1]

\* The row that is left wraps into the next one, which takes over its line id.
AdvanceCursorToNewLine(v) ==
    LET marked == [v EXCEPT !.doc = IF usingAlt THEN @ ELSE SetRowContinued(@, v.s.y, TRUE),
                            !.s.x = 1]
        down   == DownOrScroll(marked)
    IN [down EXCEPT !.doc = IF usingAlt THEN @ ELSE InheritLineIdFromAbove(@, down.s.y)]

Stamps(d) == UNION {{l[i].cells[c] : c \in 1..Len(l[i].cells)} :
                    <<l, i>> \in {<<d.rows, i>> : i \in 1..Height(d)}
                            \cup {<<Lines(d.back), i>> : i \in 1..TotalLines(d.back)}}
FreshStamp(d) == CHOOSE n \in 1..(Cardinality(Stamps(d)) + 1) : n \notin Stamps(d)

\* A full row leaves the cursor in its last column with the wrap pending.
WritePrintable(v) ==
    LET a    == IF v.s.pending THEN [AdvanceCursorToNewLine(v) EXCEPT !.s.pending = FALSE] ELSE v
        d    == IF ~usingAlt /\ InGrid(a.doc, a.s.y) /\ a.s.x \in 1..Width
                THEN [a.doc EXCEPT !.rows[a.s.y].cells[a.s.x] = FreshStamp(a.doc)]
                ELSE a.doc
        full == a.s.x + 1 > Width
    IN [a EXCEPT !.doc = d,
                 !.s.x = IF full THEN Width ELSE @ + 1,
                 !.s.pending = full]

Write(n) ==
    /\ Tick
    /\ Becomes(FoldLeft(LAMBDA v, i : WritePrintable(v), View, [i \in 1..n |-> i]))

\* LF, VT, FF and IND.
LineFeed ==
    /\ Tick
    /\ Becomes(DownOrScroll([View EXCEPT !.s.pending = FALSE]))

\* The flags of row y and of the row above: a new logical line begins at y.
BreakChain(d, y) ==
    IF usingAlt THEN d ELSE SetRowContinued(SetRowContinued(d, y - 1, FALSE), y, FALSE)

CarriageReturn ==
    /\ Tick
    /\ Becomes([View EXCEPT !.s.x = 1, !.s.pending = FALSE,
                            !.doc = IF usingAlt THEN @
                                    ELSE SetRowContinued(@, Active.y, FALSE)])

\* NEL scrolls only from the bottom row of the region itself.
NextLine ==
    LET home == [View EXCEPT !.s.x = 1, !.s.pending = FALSE]
        v    == IF Active.y = Active.bottom THEN ScrollUpInRegion(home)
                ELSE IF Active.y < Lowest THEN [home EXCEPT !.s.y = @ + 1]
                ELSE home
    IN /\ Tick
       /\ Becomes([v EXCEPT !.doc = BreakChain(@, v.s.y)])

ReverseIndex ==
    LET v == [View EXCEPT !.s.pending = FALSE]
    IN /\ Tick
       /\ Becomes(IF Active.y = Active.top
                  THEN [v EXCEPT !.doc = IF usingAlt THEN @
                                         ELSE ScrollDown(@, Active.top, Active.bottom)]
                  ELSE IF Active.y > 1 THEN [v EXCEPT !.s.y = @ - 1]
                  ELSE v)

-----------------------------------------------------------------------------
(* CSI actions: each clears the pending wrap. *)

\* CUP, VPA, CNL and CPL.  Column one starts a logical line of its own.
CursorPosition(x, y) ==
    /\ Tick
    /\ Becomes([View EXCEPT !.s.x = Clamp(x, 1, Width), !.s.y = Clamp(y, 1, Lowest),
                            !.s.pending = FALSE,
                            !.doc = IF x = 1 THEN BreakChain(@, Clamp(y, 1, Lowest)) ELSE @])

\* CUU, CUD, CUF, CUB and CHA, along the row or the column: column one is
\* reached without breaking the chain.
MoveCursor(x, y) ==
    /\ x = Active.x \/ y = Active.y
    /\ Tick
    /\ Becomes([View EXCEPT !.s.x = x, !.s.y = y, !.s.pending = FALSE])

\* DECSC and CSI s; CSI s also clears the pending wrap.
SaveCursor(csi) ==
    LET at == [x |-> Active.x, y |-> Active.y, pending |-> Active.pending]
    IN /\ Tick
       /\ Becomes([View EXCEPT !.s.saved = at, !.s.pending = @ /\ ~csi])
RestoreCursor ==
    LET at == Active.saved
    IN /\ Tick
       /\ Becomes([View EXCEPT !.s.x = at.x, !.s.y = at.y, !.s.pending = at.pending])

\* An action on the grid that leaves the cursor where it is.
OnGrid(d) ==
    /\ Tick
    /\ Becomes([View EXCEPT !.s.pending = FALSE, !.doc = IF usingAlt THEN @ ELSE d])

ClearToEndOfLine   == OnGrid(ClearCells(doc, Active.y, Active.x, Width))
ClearToEndOfScreen == OnGrid(ClearRows(ClearCells(doc, Active.y, Active.x, Width),
                                       Active.y + 1, Lowest))

ClearToBeginningOfLine == OnGrid(ClearCells(doc, Active.y, 1, Min({Active.x, Width})))
EraseChar  == OnGrid(ClearCells(doc, Active.y, Active.x, Min({Active.x, Width})))
DeleteOne  == OnGrid(DeleteChar(doc, Active.y, Active.x))
InsertOne  == OnGrid(InsertChar(doc, Active.y, Active.x))

\* ED 2, and ED 3 that also drops the history.
ClearScreen(history) ==
    LET d == IF history THEN ClearHistory(doc) ELSE doc
    IN /\ Tick
       /\ Becomes([View EXCEPT !.s.x = 1, !.s.y = 1, !.s.pending = FALSE,
                               !.doc = IF usingAlt THEN @ ELSE ClearRows(d, 1, Lowest)])

InRegion == Active.y \in Active.top..Active.bottom
InsertLine == OnGrid(IF InRegion THEN ScrollDown(doc, Active.y, Active.bottom) ELSE doc)
DeleteLine == OnGrid(IF InRegion THEN ScrollUp(doc, Active.y, Active.bottom) ELSE doc)
SU == OnGrid(ScrollUp(doc, Active.top, Active.bottom))
SD == OnGrid(ScrollDown(doc, Active.top, Active.bottom))

\* DECSTBM.  It leaves the pending wrap as it is.
SetScrollRegion(top, bottom) ==
    LET b  == Min({Lowest, bottom})
        ok == top <= b
    IN /\ Tick
       /\ Becomes([View EXCEPT !.s.top    = IF ok THEN top ELSE 1,
                               !.s.bottom = IF ok THEN b ELSE Lowest,
                               !.s.x = 1,
                               !.s.y = IF ok THEN top ELSE 1])

-----------------------------------------------------------------------------
(* The two screens, the window and the viewport *)

\* CSI ? 1049 h, also when the alternate screen is already up.
EnterAlt ==
    /\ Tick
    /\ alt' = DefaultState(Lowest) /\ usingAlt' = TRUE
    /\ main' = IF usingAlt THEN main ELSE [main EXCEPT !.pending = FALSE]
    /\ UNCHANGED <<doc, offset, stale>>

\* CSI ? 1049 l: the main state is used again as it was left.
LeaveAlt ==
    /\ Tick
    /\ usingAlt' = FALSE
    /\ IF usingAlt THEN alt' = [alt EXCEPT !.pending = FALSE] /\ UNCHANGED main
                   ELSE main' = [main EXCEPT !.pending = FALSE] /\ UNCHANGED alt
    /\ UNCHANGED <<doc, offset, stale>>

\* RIS
FullReset ==
    /\ Tick
    /\ main' = DefaultState(Lowest) /\ alt' = DefaultState(Lowest)
    /\ usingAlt' = FALSE /\ offset' = 0 /\ stale' = FALSE
    /\ doc' = ClearRows(ClearHistory(doc), 1, Lowest)

\* Where resize puts the active screen's cursor: a new width of the main
\* screen reflows it, rows that went into the history pull it up.
ResizedCursor(new, width, height) ==
    LET grown == HistorySize(new) - HistorySize(doc)
    IN IF width # Width /\ ~usingAlt THEN ReflowCursor(doc, new, Active)
       ELSE [x |-> Active.x,
             y |-> IF width = Width /\ grown > 0 THEN Active.y - grown ELSE Active.y]

TakeSize(new, at, width, height) ==
    LET s == [x |-> Min({at.x, width}), y |-> Clamp(at.y, 1, height),
              pending |-> FALSE, top |-> 1, bottom |-> height,
              saved |-> [x |-> Min({Active.saved.x, width}),
                         y |-> Min({Active.saved.y, height}), pending |-> FALSE]]
    IN /\ doc' = new
       /\ IF usingAlt THEN alt' = s /\ UNCHANGED main ELSE main' = s /\ UNCHANGED alt
       /\ offset' = Min({offset, HistorySize(new)})
       /\ stale' = usingAlt
       /\ UNCHANGED usingAlt

Resize(width, height) ==
    LET new == ResizeDocument(doc, width, height, Active)
    IN /\ <<width, height>> # <<Width, Lowest>>
       /\ Tick
       /\ TakeSize(new, ResizedCursor(new, width, height), width, height)

ScrollViewport(delta) ==
    LET to == Clamp(offset + delta, 0, HistorySize(doc))
    IN /\ to # offset
       /\ Tick
       /\ offset' = to
       /\ UNCHANGED <<doc, main, alt, usingAlt, stale>>

ResetViewport ==
    /\ offset # 0
    /\ Tick
    /\ offset' = 0
    /\ UNCHANGED <<doc, main, alt, usingAlt, stale>>

Next ==
    \/ \E n \in Runs : Write(n)
    \/ LineFeed \/ CarriageReturn \/ NextLine \/ ReverseIndex
    \/ \E y \in 1..Lowest : CursorPosition(1, y)
    \/ \E x \in {1, 2, Active.x}, y \in (1..Lowest) \cup {Active.y} : MoveCursor(x, y)
    \/ RestoreCursor \/ \E csi \in BOOLEAN : SaveCursor(csi)
    \/ ClearToEndOfLine \/ ClearToEndOfScreen \/ ClearToBeginningOfLine
    \/ EraseChar \/ DeleteOne \/ InsertOne
    \/ \E history \in BOOLEAN : ClearScreen(history)
    \/ InsertLine \/ DeleteLine \/ SU \/ SD
    \/ \E top, bottom \in 1..Lowest : SetScrollRegion(top, bottom)
    \/ EnterAlt \/ LeaveAlt \/ FullReset
    \/ \E size \in Sizes : Resize(size[1], size[2])
    \/ \E delta \in {-1, 1} : ScrollViewport(delta)
    \/ ResetViewport

Spec == Init /\ [][Next]_vars

-----------------------------------------------------------------------------
(* Properties *)

\* The logical lines as a reader sees them: a piece that wrapped goes on in
\* the next one of its id.  Blank cells and blank lines do not count.
Pieces(d) == [i \in 1..TotalLines(d.back) |-> Lines(d.back)[i]]
             \o [y \in 1..Height(d) |-> [cells |-> d.rows[y].cells, soft |-> d.rows[y].cont,
                                         id |-> d.rows[y].id]]
Joined(d) ==
    LET Join(seen, p) ==
            IF seen # <<>> /\ Last(seen).soft /\ Last(seen).id = p.id
            THEN Append(Front(seen), [p EXCEPT !.cells = Last(seen).cells \o @])
            ELSE Append(seen, p)
    IN FoldLeft(Join, <<>>, Pieces(d))
Texts(d) ==
    LET all == Joined(d)
        Text(cells) == SelectSeq(cells, LAMBDA c : c # 0)
    IN SelectSeq([i \in 1..Len(all) |-> Text(all[i].cells)], LAMBDA t : t # <<>>)

\* Lines went missing at the oldest end only.
OldestLost(before, after) ==
    \/ after = <<>>
    \/ LET n == Len(before) - Len(after)
       IN /\ n >= 0 /\ IsSuffix(after[1], before[n + 1])
          /\ \A i \in 2..Len(after) : after[i] = before[n + i]

\* Room for every row of the screen in the scrollback.
Room == MaxLines = 0 \/ TotalLines(doc.back) + Lowest <= MaxLines

Kept(before, after) == IF Room THEN after = before ELSE OldestLost(before, after)

Resized == <<Width, Lowest>>' # <<Width, Lowest>>

\* A resize neither joins nor splits nor reorders logical lines
\* (resizeReflow), and moving down in a scroll region that begins at the top
\* of the screen loses no text (scrollUp, its two first cases).  Both lose
\* text only where the scrollback is full, the oldest first.
LinesKept ==
    [][/\ Resized => Kept(Texts(doc), Texts(doc'))
       /\ (LineFeed \/ NextLine) /\ ~usingAlt /\ main.top = 1
          => Kept(<<FlattenSeq(Texts(doc))>>, <<FlattenSeq(Texts(doc'))>>)]_vars

\* The row at the top of a viewport that is scrolled back.
HistoryRow(d, n) ==
    FlattenSeq([i \in 1..TotalLines(d.back) |-> Wrap(Lines(d.back)[i], d.cols)])[n + 1].cells
TopRow(d, off) == HistoryRow(d, HistorySize(d) - off)

\* A viewport that is scrolled back keeps showing what it shows when a row
\* of the screen goes into the history below it (scrollUpInRegion).
ViewportPinned ==
    [][(LineFeed \/ NextLine) /\ ~usingAlt /\ Room /\ offset \in 1..HistorySize(doc)
        /\ HistorySize(doc)' = HistorySize(doc) + 1
        => TopRow(doc, offset) = TopRow(doc, offset)']_vars

\* The cursor stands right behind the last text of the screen.
BehindText(d, s) ==
    /\ s.x > 1
    /\ LET at == IF s.pending THEN s.x ELSE s.x - 1
       IN /\ d.rows[s.y].cells[at] # 0
          /\ \A x \in at + 1 .. d.cols : d.rows[s.y].cells[x] = 0
          /\ \A y \in s.y + 1 .. Height(d) : IsBlank(d.rows[y])

\* Neither editing nor scrolling has cut a wrapped line: the pieces with one
\* line id are neighbours, and every piece but the last wrapped, full, into
\* the next.
Uncut(d) ==
    LET p == Pieces(d) IN
    /\ \A i, j \in 1..Len(p) : i < j /\ p[i].id = p[j].id
                                => \A k \in i..j - 1 : p[k].soft /\ p[k].id = p[i].id
    /\ \A i \in 1..Len(p) : p[i].soft => /\ i < Len(p) /\ p[i + 1].id = p[i].id
                                          /\ Last(p[i].cells) # 0

LastText(d) == LET all == FlattenSeq(Texts(d)) IN IF all = <<>> THEN 0 ELSE Last(all)

\* A cursor right behind the last text of the screen is still there after a
\* reflow (Document::resizeReflow carries it along by its offset in the logical
\* line), or on that text in the last column.
CursorFollowsText ==
    [][Resized /\ ~usingAlt /\ ~stale /\ Width' # Width /\ Room
        /\ BehindText(doc, main) /\ ~main.pending /\ Uncut(doc)
        /\ CursorOffset(doc, main) <= BlockCells
        => LET s == main' IN
           \/ s.x > 1 /\ (doc').rows[s.y].cells[s.x - 1] = LastText(doc)
           \/ s.x = Width' /\ (doc').rows[s.y].cells[s.x] = LastText(doc)]_vars
=============================================================================
