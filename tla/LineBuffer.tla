----------------------------- MODULE LineBuffer -----------------------------
(***************************************************************************)
(* The scrollback of the main screen: logical lines, oldest first, stored  *)
(* in blocks of bounded capacity.  Pure operators on a value; Document     *)
(* keeps the value.                                                        *)
(*                                                                         *)
(* A line is its cells, its id and "soft": it ended because the row was    *)
(* full and goes on in the next row (the code's isPartial, which is set    *)
(* exactly when eol is EolSoft).  A block is its lines and "gone", the     *)
(* cells of lines dropped at its front, which still take up capacity.      *)
(***************************************************************************)
EXTENDS Naturals, Sequences, SequencesExt, FiniteSetsExt

CONSTANTS
    MaxLines,       \* maxLogicalLines_; 0 is no limit
    BlockCells      \* kCellCapacity

ASSUME LineBufferAssumption == MaxLines \in Nat /\ BlockCells \in Nat \ {0}

Lines(b) == FlattenSeq([i \in 1..Len(b) |-> b[i].lines])
TotalLines(b) == Len(Lines(b))

\* Display rows a line of len cells takes at a width: an empty line takes one.
WrappedRows(len, width) == IF len = 0 THEN 1 ELSE (len + width - 1) \div width
NumWrappedRows(b, width) ==
    FoldLeft(LAMBDA n, l : n + WrappedRows(Len(l.cells), width), 0, Lines(b))

\* cells_.size(): what the block's lines and the dropped ones occupy.
CellsUsed(block) == FoldLeft(LAMBDA n, l : n + Len(l.cells), block.gone, block.lines)

\* The line with that id, 0 if it is not found: the first block whose last id
\* is not smaller is searched, and given up at the first larger id.
LogicalIndexOfLineId(b, id) ==
    LET Id(k, j)  == b[k].lines[j].id
        LastId(k) == Id(k, Len(b[k].lines))
        blocks    == {k \in 1..Len(b) : id < Id(k, 1) \/ id <= LastId(k)}
        k         == Min(blocks)
        before    == TotalLines(SubSeq(b, 1, k - 1))
        hits      == {j \in 1..Len(b[k].lines) :
                         Id(k, j) = id /\ \A i \in 1..j - 1 : Id(k, i) < id}
    IN IF blocks = {} \/ hits = {} THEN 0 ELSE before + Min(hits)

LastLineIsPartial(b) == b # <<>> /\ Last(b).lines # <<>> /\ Last(Last(b).lines).soft
LastLineId(b) == Last(Last(b).lines).id

\* A block takes a continuation of its last line until it is twice full, and
\* a line of its own until it is full, unless it is empty.
Extends(block, len) ==
    /\ block.lines # <<>> /\ Last(block.lines).soft
    /\ len > 0 => CellsUsed(block) + len <= 2 * BlockCells
Accepts(block, len) == block.lines = <<>> \/ CellsUsed(block) + len <= BlockCells

AppendInBlock(block, line, extendsLast) ==
    LET last == Last(block.lines) IN
    [block EXCEPT !.lines =
        IF extendsLast
        THEN Append(Front(@), [last EXCEPT !.cells = @ \o line.cells, !.soft = line.soft])
        ELSE Append(@, line)]

\* The oldest line of the buffer goes; a block that it empties goes with it.
DropFront(b) ==
    LET head == b[1] IN
    IF Len(head.lines) <= 1
    THEN Tail(b)
    ELSE <<[gone  |-> head.gone + Len(head.lines[1].cells),
            lines |-> Tail(head.lines)]>> \o Tail(b)

EnforceLimits(b) ==
    IF MaxLines = 0 \/ TotalLines(b) <= MaxLines THEN b
    ELSE FoldLeft(LAMBDA rest, i : DropFront(rest), b,
                  [i \in 1..(TotalLines(b) - MaxLines) |-> i])

\* appendLine: into the last block if it takes the line, else into a new
\* block; a continuation that does not fit starts over there under its id.
AppendLine(b, line, extendsLast) ==
    LET len  == Len(line.cells)
        fits == b # <<>> /\ IF extendsLast THEN Extends(Last(b), len)
                                           ELSE Accepts(Last(b), len)
    IN EnforceLimits(
        IF fits THEN Append(Front(b), AppendInBlock(Last(b), line, extendsLast))
                ELSE Append(b, [gone |-> 0, lines |-> <<line>>]))

\* popLastLine, without its result (the last of Lines).
PopLastLine(b) ==
    LET block == Last(b) IN
    IF Len(block.lines) <= 1
    THEN Front(b)
    ELSE Append(Front(b), [block EXCEPT !.lines = Front(@)])
=============================================================================
