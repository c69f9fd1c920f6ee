-------------------------------- MODULE Images --------------------------------
(***************************************************************************)
(* Inline images: the kitty graphics protocol (APC G), iTerm's OSC 1337,   *)
(* animation, and what a published snapshot and the renderer's textures    *)
(* remember of them, as operators on one record g.                         *)
(*                                                                         *)
(* Pixels are tokens: a buffer's content, new whenever the code makes or   *)
(* changes a buffer.  A cell's extra stands where the image starts in its  *)
(* row, and holds image and placement.  g.gone is the set of tokens whose   *)
(* buffer was freed or written over while its entry lived on.               *)
(***************************************************************************)
EXTENDS Integers, FiniteSets, Sequences, SequencesExt, FiniteSetsExt, Functions

CONSTANTS ImgRows, ImgCols, \* the screen of the images
          ImgIds            \* ids a client chooses
ASSUME ImagesAssumption == /\ ImgRows \in Nat \ {0} /\ ImgCols \in Nat \ {0}
                           /\ ImgIds \subseteq Nat \ {0} /\ IsFiniteSet(ImgIds)

Grid == (1..ImgRows) \X (1..ImgCols)
NoExtra == [id |-> 0, pl |-> 0]
NoView == <<>>
ImagesInit == [reg |-> <<>>, cell |-> [rc \in Grid |-> NoExtra], x |-> 1, y |-> 1,
               next |-> 1, last |-> 0, load |-> <<>>, reply |-> <<>>,
               buf |-> 0, gone |-> {}, sent |-> {},
               view |-> NoView, gpu |-> <<>>]

\* A command, with what its payload turns out to be: "bad" does not decode, or
\* the file or shared memory it names cannot be read.
Command(a) == [a |-> a, id |-> 0, num |-> 0, pl |-> 0, c |-> 0, r |-> 0, C |-> 0, z |-> 0,
               s |-> 0, v |-> 0, d |-> "a", x |-> 0, y |-> 0, more |-> 0, q |-> 0,
               dim |-> 1, data |-> "good"]

FindImageByNumber(g, n) == Max({0} \cup {i \in DOMAIN g.reg : g.reg[i].num = n})
ResolveId(g, c) == CASE c.id > 0 -> c.id
                     [] c.id = 0 /\ c.num > 0 -> FindImageByNumber(g, c.num)
                     [] OTHER -> g.last
\* Nobody is answered who gave neither id nor number; q silences.
SendResponse(g, c, id, msg) ==
    IF (id = 0 /\ c.num = 0) \/ c.q >= 2 \/ (c.q = 1 /\ msg = "OK") THEN g
    ELSE [g EXCEPT !.reply = <<id, msg>>]

Total(e) == Len(e.frames)
HasAnimation(e) == Total(e) > 1 /\ e.st = "running"
Shows(g, id) == \E rc \in Grid : g.cell[rc].id = id
Forget(g, ids) == [g EXCEPT !.reg = [i \in DOMAIN @ \ ids |-> @[i]]]
ClearCells(g, keys) ==
    [g EXCEPT !.cell = [rc \in Grid |-> IF @[rc] \in keys THEN NoExtra ELSE @[rc]]]
CellsOf(g, id) == {g.cell[rc] : rc \in {o \in Grid : g.cell[o].id = id}}
\* Buffers of a living entry that are written over or freed, and that the
\* published snapshot points at.
Lose(g, tokens) == [g EXCEPT !.gone = @ \cup {t \in tokens : \E id \in DOMAIN g.view : g.view[id].v.tok = t}]

-----------------------------------------------------------------------------
(* Placing.                                                                  *)

ScrollImages(g) ==
    [g EXCEPT !.cell = [rc \in Grid |-> IF rc[1] < ImgRows THEN @[<<rc[1] + 1, rc[2]>>] ELSE NoExtra]]
\* One row of the image goes on the cursor's row, which may have to scroll.
PlaceRow(g, id, pl) ==
    LET s == IF g.y > ImgRows THEN [ScrollImages(g) EXCEPT !.y = ImgRows] ELSE g
    IN [s EXCEPT !.cell[<<s.y, s.x>>] = [id |-> id, pl |-> pl], !.y = @ + 1]
\* An image of which nothing is left on the screen after this goes.
PlaceImageInGrid(g, id, pl, cols, rows, move) ==
    LET start == IF pl > 0 THEN ClearCells(g, {[id |-> id, pl |-> pl]}) ELSE g
        put == FoldLeft(LAMBDA a, i : PlaceRow(a, id, pl), start, [i \in 1..rows |-> i])
        \* The rows that were written, in the lines they had before the scroll.
        over == {start.cell[<<r, g.x>>].id : r \in g.y..Min({ImgRows, g.y + rows - 1})} \ {0, id}
        lost == {i \in over : ~Shows(put, i)}
        scrolled == Max({0, g.y + rows - 1 - ImgRows})
    IN IF move
       THEN [Forget(put, lost) EXCEPT !.x = Min({g.x + Min({cols, ImgCols - g.x + 1}), ImgCols}),
                                      !.y = Min({@ - 1, ImgRows})]
       ELSE [Forget(put, lost) EXCEPT !.x = g.x, !.y = Max({1, g.y - scrolled})]

-----------------------------------------------------------------------------
(* Transmission: a=T, a=t, a=q, and OSC 1337.                                *)

NewEntry(g, id, c, cols, rows) ==
    [num |-> c.num, cw |-> cols, rows |-> rows, dim |-> c.dim, frames |-> <<g.buf + 1>>,
     pls |-> <<>>, cur |-> 0, gen |-> 0, st |-> "stopped", loop |-> 0, max |-> 0,
     once |-> id \notin g.sent]
Register(g, id, entry) ==
    [g EXCEPT !.reg = (id :> entry) @@ @, !.buf = @ + 1, !.sent = @ \cup {id}]
Placement(c, cols) == [cw |-> cols, z |-> c.z]
Transmit(g, c) ==
    LET cols == IF c.c > 0 THEN c.c ELSE c.dim
        rows == IF c.r > 0 THEN c.r ELSE c.dim
        id == IF c.id > 0 THEN c.id ELSE g.next
        named == IF c.id > 0 THEN g ELSE [g EXCEPT !.next = @ + 1]
        kept == [Register(named, id, NewEntry(named, id, c, cols, rows)) EXCEPT !.last = id]
        shown == PlaceImageInGrid([kept EXCEPT !.reg[id].pls = (c.pl :> Placement(c, cols)) @@ @],
                                  id, c.pl, cols, rows, c.C = 0)
    IN CASE c.data = "bad" -> SendResponse(g, c, c.id, "ERR")
         [] c.data = "good" /\ c.a = "q" -> SendResponse(g, c, c.id, "OK")
         [] c.data = "good" /\ c.a = "t" -> SendResponse(kept, c, c.id, "OK")
         [] OTHER -> SendResponse(shown, c, c.id, "OK")
\* OSC 1337: an image without a placement of its own.
ITermImage(g, cols, rows) ==
    LET c == [Command("T") EXCEPT !.dim = 1]
        kept == Register([g EXCEPT !.next = @ + 1], g.next, NewEntry(g, g.next, c, cols, rows))
    IN PlaceImageInGrid(kept, g.next, 0, cols, rows, TRUE)

\* a=p: the image again, at the cursor.
Put(g, c) ==
    LET id == ResolveId(g, c)
        e == g.reg[id]
        cols == IF c.c > 0 THEN c.c ELSE e.cw
        rows == IF c.r > 0 THEN c.r ELSE e.rows
        kept == [g EXCEPT !.reg[id].pls = (c.pl :> Placement(c, cols)) @@ @]
    IN IF id \notin DOMAIN g.reg THEN SendResponse(g, c, id, "ERR")
       ELSE SendResponse(PlaceImageInGrid(kept, id, c.pl, cols, rows, c.C = 0), c, id, "OK")

-----------------------------------------------------------------------------
(* a=d.  A capital letter frees the data too; d=i and d=n do in any case.    *)

DeleteVisible(g, free) ==
    LET rows == {r \in 1..ImgRows : \E k \in 1..ImgCols : g.cell[<<r, k>>].id > 0}
        \* Of each row, the first image only.
        ids == {g.cell[<<r, Min({k \in 1..ImgCols : g.cell[<<r, k>>].id > 0})>>].id : r \in rows}
        bare == [g EXCEPT !.cell = [rc \in Grid |-> IF rc[1] \in rows THEN NoExtra ELSE @[rc]]]
    IN IF free THEN Forget(bare, ids) ELSE bare
\* The placement goes, and with its last one the image.
DropPlacement(g, id, pl, free) ==
    LET less == [g EXCEPT !.reg[id].pls = [p \in DOMAIN @ \ {pl} |-> @[p]]]
    IN IF id \notin DOMAIN g.reg THEN g
       ELSE IF free /\ less.reg[id].pls = <<>> THEN Forget(less, {id}) ELSE less
DeleteImage(g, id, pl, free) ==
    CASE id = 0 -> g
      [] id > 0 /\ pl > 0 /\ id \in DOMAIN g.reg ->
           ClearCells(DropPlacement(g, id, pl, free), {[id |-> id, pl |-> pl]})
      [] id > 0 /\ pl > 0 /\ id \notin DOMAIN g.reg -> g
      [] OTHER -> ClearCells(Forget(g, {id}), CellsOf(g, id))
\* Mutant: the frame that is shown keeps its number.
DeleteFramesKeepsIndex(g, id) ==
    IF id \notin DOMAIN g.reg THEN g
    ELSE Lose([g EXCEPT !.reg[id] = [@ EXCEPT !.frames = <<Head(@)>>, !.st = "stopped",
                                              !.gen = @ + 1]],
              Range(Tail(g.reg[id].frames)))
DeleteFrames(g, id) ==
    IF id \notin DOMAIN g.reg THEN g
    ELSE Lose([g EXCEPT !.reg[id] = [@ EXCEPT !.frames = <<Head(@)>>, !.cur = 0,
                                              !.st = "stopped", !.gen = @ + 1]],
              Range(Tail(g.reg[id].frames)))
\* Is column k within the image whose extra is at rc?
Spans(g, rc, k) ==
    LET e == g.reg[g.cell[rc].id]
        pl == g.cell[rc].pl
        width == IF pl \in DOMAIN e.pls /\ e.pls[pl].cw > 0 THEN e.pls[pl].cw ELSE e.cw
    IN rc[2] <= k /\ k < rc[2] + width
Known(g) == {rc \in Grid : g.cell[rc].id \in DOMAIN g.reg}
ZOf(g, rc) == LET e == g.reg[g.cell[rc].id]
              IN IF g.cell[rc].pl \in DOMAIN e.pls THEN e.pls[g.cell[rc].pl].z ELSE 0
AtPlace(g, row, k)     == {rc \in Known(g) : rc[1] = row /\ Spans(g, rc, k)}
InColumn(g, k)         == {rc \in Known(g) : Spans(g, rc, k)}
InRow(g, row)          == {rc \in Grid : rc[1] = row /\ g.cell[rc].id > 0}
AtDepth(g, z)          == {rc \in Known(g) : ZOf(g, rc) = z}
DeleteHits(g, hits, free) ==
    LET keys == {g.cell[rc] : rc \in hits}
        drop(a, k) == IF free THEN DropPlacement(a, k.id, k.pl, TRUE) ELSE a
    IN FoldLeft(drop, ClearCells(g, keys), SetToSeq(keys))
DeleteRange(g, lo, hi, free) ==
    LET ids == {i \in DOMAIN g.reg : i >= lo /\ i <= hi}
        bare == ClearCells(g, UNION {CellsOf(g, i) : i \in ids})
    IN IF free THEN Forget(bare, ids) ELSE bare
\* x and y count from 1; 0 means the first.
One(n) == Max({1, n})
Delete(g, c, free) ==
    CASE c.d = "a" -> DeleteVisible(g, free)
      [] c.d = "i" -> DeleteImage(g, c.id, c.pl, free)
      [] c.d = "n" -> DeleteImage(g, IF c.num > 0 THEN FindImageByNumber(g, c.num) ELSE 0, c.pl, free)
      [] c.d = "f" -> DeleteFrames(g, ResolveId(g, c))
      [] c.d = "c" -> DeleteHits(g, AtPlace(g, g.y, g.x), free)
      [] c.d = "p" -> DeleteHits(g, AtPlace(g, One(c.y), One(c.x)), free)
      [] c.d = "x" -> DeleteHits(g, InColumn(g, One(c.x)), free)
      [] c.d = "y" -> DeleteHits(g, InRow(g, One(c.y)), free)
      [] c.d = "r" -> DeleteRange(g, c.x, c.y, free)
      [] c.d = "z" -> DeleteHits(g, AtDepth(g, c.z), free)
      [] c.d = "q" -> DeleteHits(g, AtPlace(g, One(c.y), One(c.x)) \cap AtDepth(g, c.z), free)

-----------------------------------------------------------------------------
(* Animation.  Frame n of the protocol is e.frames[n].                       *)

\* a=f: a new frame at the end, or new pixels for one there is.
LoadFrame(g, c) ==
    LET id == ResolveId(g, c)
        e == g.reg[id]
        n == IF c.r = 0 \/ c.r > Total(e) + 1 THEN Total(e) + 1 ELSE c.r
        fresh == [g EXCEPT !.buf = @ + 1]
        appended == [fresh EXCEPT !.reg[id].frames = Append(@, fresh.buf)]
        edited == Lose([fresh EXCEPT !.reg[id].frames[n] = fresh.buf, !.reg[id].gen = @ + 1],
                       {e.frames[n]})
    IN CASE id \notin DOMAIN g.reg -> SendResponse(g, c, id, "ERR")
         [] id \in DOMAIN g.reg /\ c.data = "bad" -> SendResponse(g, c, c.id, "ERR")
         [] OTHER -> SendResponse(IF n = Total(e) + 1 THEN appended ELSE edited, c, id, "OK")

States == <<"stopped", "loading", "running">>
\* a=a: state (s), loops (v), current frame (c); nobody is answered.
Control(g, c) ==
    LET id == ResolveId(g, c)
        e == g.reg[id]
        st == IF c.s \in 1..3 THEN States[c.s] ELSE e.st
        starts == st = "running" /\ e.st # "running"
        moved == [e EXCEPT !.st = st, !.cur = IF starts THEN 0 ELSE @,
                           !.loop = IF starts THEN 0 ELSE @,
                           !.max = IF c.v > 0 THEN c.v - 1 ELSE @]
    IN IF id \notin DOMAIN g.reg THEN g
       ELSE [g EXCEPT !.reg[id] = [moved EXCEPT !.cur = IF c.c \in 1..Total(e) THEN c.c - 1 ELSE @]]

\* a=c: part of frame r over part of frame c, in place.
Compose(g, c) ==
    LET id == ResolveId(g, c)
        e == g.reg[id]
        fresh == [g EXCEPT !.buf = @ + 1]
    IN CASE id \notin DOMAIN g.reg -> SendResponse(g, c, id, "ERR")
         [] id \in DOMAIN g.reg /\ (c.r \notin 1..Total(e) \/ c.c \notin 1..Total(e)) ->
              SendResponse(g, c, id, "ERR")
         [] id \in DOMAIN g.reg /\ c.data = "bad" -> SendResponse(g, c, id, "ERR")
         [] OTHER -> SendResponse(Lose([fresh EXCEPT !.reg[id].frames[c.c] = fresh.buf,
                                                     !.reg[id].gen = @ + 1],
                                       {e.frames[c.c]}), c, id, "OK")

\* Mutant: a pass is not counted.
AdvanceUncounted(e) == [e EXCEPT !.cur = (@ + 1) % Total(e)]
\* One gap of tickAnimations: the next frame, or the end of the last pass.
Advance(e) ==
    LET next == (e.cur + 1) % Total(e)
        pass == next = 0 /\ e.max > 0
    IN CASE ~HasAnimation(e) -> e
         [] HasAnimation(e) /\ pass /\ e.loop + 1 >= e.max ->
              [e EXCEPT !.loop = @ + 1, !.st = "stopped"]
         [] OTHER -> [e EXCEPT !.cur = next, !.loop = IF pass THEN @ + 1 ELSE @]

-----------------------------------------------------------------------------
(* processAPC: chunks first, then the command.                               *)

Dispatch(g, c, free) ==
    CASE c.id > 0 /\ c.num > 0 -> SendResponse(g, c, c.id, "ERR")
      [] ~(c.id > 0 /\ c.num > 0) /\ c.a \in {"T", "t", "q"} -> Transmit(g, c)
      [] ~(c.id > 0 /\ c.num > 0) /\ c.a = "p" -> Put(g, c)
      [] ~(c.id > 0 /\ c.num > 0) /\ c.a = "d" -> Delete(g, c, free)
      [] ~(c.id > 0 /\ c.num > 0) /\ c.a = "f" -> LoadFrame(g, c)
      [] ~(c.id > 0 /\ c.num > 0) /\ c.a = "a" -> Control(g, c)
      [] OTHER -> Compose(g, c)
\* The first chunk's command is kept; whatever command comes next is taken for
\* the next chunk, and the first one without m=1 for the last.
ProcessAPC(g, c, free) ==
    LET h == [g EXCEPT !.reply = <<>>]
        first == IF h.load = <<>> THEN c ELSE h.load[1]
    IN IF c.more = 1 THEN [h EXCEPT !.load = <<first>>]
       ELSE Dispatch([h EXCEPT !.load = <<>>], first, free)

\* ESC c: numbering starts again; an upload under way goes on.
ResetImages(g) == [g EXCEPT !.reg = <<>>, !.next = 1, !.last = 0, !.x = 1, !.y = 1,
                            !.cell = [rc \in Grid |-> NoExtra], !.reply = <<>>]

-----------------------------------------------------------------------------
(* The published snapshot, and the textures drawn from it.                   *)

ViewOf(e) == [cur |-> e.cur, total |-> Total(e), gen |-> e.gen, tok |-> e.frames[e.cur + 1],
              dim |-> e.dim, once |-> e.once]
\* TerminalSnapshot::update: the images on the screen and the running ones.
\* The pixels stay where they are: the snapshot points at them.
Publish(g) ==
    [g EXCEPT !.view = [id \in {i \in DOMAIN g.reg : Shows(g, i) \/ HasAnimation(g.reg[i])} |->
                           [v |-> ViewOf(g.reg[id]), shown |-> Shows(g, id)]],
              !.gone = {}]
Tick(g, gaps) ==
    LET step(e) == FoldLeft(LAMBDA a, i : Advance(a), e, [i \in 1..gaps |-> i])
        moved == [g EXCEPT !.reg = [id \in DOMAIN @ |-> step(@[id])]]
    IN IF \E id \in DOMAIN g.reg : moved.reg[id].cur # g.reg[id].cur THEN Publish(moved) ELSE moved

NoSlot == [tok |-> 0, version |-> 0]
\* A frame is uploaded when its slot is new or holds another version; an image
\* that changed its size is left as it was.
UseImageFrame(gpu, id, v, tok) ==
    LET old == IF id \in DOMAIN gpu THEN gpu[id] ELSE [dim |-> v.dim, cur |-> 0, slots |-> <<>>]
        slots == [i \in 1..Max({v.total, Len(old.slots)}) |->
                     IF i <= Len(old.slots) THEN old.slots[i] ELSE NoSlot]
        slot == slots[v.cur + 1]
        new == IF slot.tok = 0 \/ slot.version # v.gen THEN [tok |-> tok, version |-> v.gen] ELSE slot
    IN IF old.dim # v.dim THEN gpu
       ELSE (id :> [dim |-> v.dim, cur |-> v.cur, slots |-> [slots EXCEPT ![v.cur + 1] = new]]) @@ gpu
RetainImagesOnly(gpu, keep) == [id \in DOMAIN gpu \cap keep |-> gpu[id]]
\* What is read through a snapshot's pointer.
Junk == 99
Pixels(g, v) == IF v.tok \in g.gone THEN Junk ELSE v.tok
Draw(g) ==
    LET shown == {id \in DOMAIN g.view : g.view[id].shown}
        used == FoldLeft(LAMBDA a, id : UseImageFrame(a, id, g.view[id].v, Pixels(g, g.view[id].v)),
                         g.gpu, SetToSeq(shown))
    IN [g EXCEPT !.gpu = RetainImagesOnly(used, shown)]
=============================================================================
