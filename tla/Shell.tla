--------------------------------- MODULE Shell ---------------------------------
(***************************************************************************)
(* What the shell tells the terminal about itself, as operators on one     *)
(* record c: the commands it runs (OSC 133), each kept by the ids of the   *)
(* lines it begins and ends on, and notifications, whose pieces (OSC 99)   *)
(* are gathered until the last.                                            *)
(*                                                                         *)
(* c.ids are the line ids of the document's rows, the history before the   *)
(* ShellRows of the screen; no line takes two rows.  The alternate         *)
(* screen's cursor stands on its first row.                                *)
(***************************************************************************)
EXTENDS Integers, FiniteSets, Sequences, SequencesExt, FiniteSetsExt, Functions

CONSTANTS ShellRows, HistoryMax
ASSUME ShellAssumption == ShellRows \in Nat \ {0} /\ HistoryMax \in Nat

None == 0 \* no line, no command, no text
NoNote == [id |-> None, title |-> None, body |-> None, buttons |-> <<>>, urgency |-> 1]

ShellInit ==
    [ids |-> [i \in 1..ShellRows |-> i], nextLine |-> ShellRows + 1, y |-> 0, x |-> 0,
     alt |-> FALSE, view |-> 0,
     ring |-> <<>>, next |-> 1, going |-> FALSE, sel |-> None, cwd |-> None,
     batch |-> FALSE, \* actions are applied and the ring is not yet pruned
     done |-> <<>>,   \* the commands CommandComplete was fired for
     note |-> NoNote, since |-> 0, carried |-> FALSE]

History(c) == Len(c.ids) - ShellRows
LineIdForAbs(c, abs) == c.ids[abs + 1]
\* -1: the line has left the scrollback.
FirstAbsOfLine(c, id) == IF Contains(c.ids, id) THEN (CHOOSE i \in DOMAIN c.ids : c.ids[i] = id) - 1 ELSE -1
CursorX(c) == IF c.alt THEN 0 ELSE c.x
AbsoluteRowFromScreen(c) == IF c.alt THEN 0 ELSE History(c) + c.y
Cmds(c) == {c.ring[i].id : i \in DOMAIN c.ring}
Visible(c) == {i \in DOMAIN c.ring : FirstAbsOfLine(c, c.ring[i].prompt) >= 0}

-----------------------------------------------------------------------------
(* Text.                                                                     *)

Type(c) == [c EXCEPT !.x = 1]
CursorHome(c) == [c EXCEPT !.y = 0, !.x = 0]
LineFeed(c) ==
    IF c.y + 1 < ShellRows THEN [c EXCEPT !.y = @ + 1]
    ELSE LET more == Append(c.ids, c.nextLine)
             kept == IF Len(more) > ShellRows + HistoryMax THEN Tail(more) ELSE more
         IN [c EXCEPT !.ids = kept, !.nextLine = @ + 1,
                      !.view = IF @ = 0 THEN 0 ELSE Min({@ + 1, Len(kept) - ShellRows})]

-----------------------------------------------------------------------------
(* Commands.                                                                 *)

\* The last record, while it is being written.
InProgress(c) == c.going /\ c.ring # <<>> /\ ~Last(c.ring).done
FinishCommand(c) ==
    IF ~InProgress(c) THEN [c EXCEPT !.going = FALSE]
    ELSE [c EXCEPT !.going = FALSE, !.done = Append(@, Last(c.ring).id),
                   !.ring[Len(c.ring)].done = TRUE,
                   !.ring[Len(c.ring)].end = LineIdForAbs(c, AbsoluteRowFromScreen(c)),
                   !.ring[Len(c.ring)].endCol = CursorX(c)]
NewCommand(c, at) ==
    [c EXCEPT !.ring = Append(@, [id |-> c.next, prompt |-> at, input |-> None, out |-> None,
                                  end |-> None, endCol |-> 0, done |-> FALSE, cwd |-> c.cwd]),
              !.next = @ + 1, !.going = TRUE]
\* A prompt that is drawn again moves the record.
StartCommand(c) ==
    LET at == LineIdForAbs(c, AbsoluteRowFromScreen(c))
        redrawn == InProgress(c) /\ Last(c.ring).out = None
    IN IF redrawn THEN [c EXCEPT !.ring[Len(c.ring)].prompt = at, !.ring[Len(c.ring)].input = None]
       ELSE NewCommand(IF InProgress(c) THEN FinishCommand(c) ELSE c, at)
MarkCommandInput(c) ==
    IF InProgress(c) THEN [c EXCEPT !.ring[Len(c.ring)].input = LineIdForAbs(c, AbsoluteRowFromScreen(c))] ELSE c
MarkCommandOutput(c) ==
    IF InProgress(c) THEN [c EXCEPT !.ring[Len(c.ring)].out = LineIdForAbs(c, AbsoluteRowFromScreen(c))] ELSE c

Osc133(c, kind) ==
    CASE kind = "A" -> StartCommand(c)
      [] kind = "N" -> StartCommand(IF c.going THEN FinishCommand(c) ELSE c)
      [] kind = "P" -> IF c.going THEN c ELSE StartCommand(c)
      [] kind \in {"B", "I"} -> MarkCommandInput(c)
      [] kind = "C" -> MarkCommandOutput(c)
      [] kind = "D" -> FinishCommand(c)
      [] kind = "L" -> IF CursorX(c) > 0 THEN [LineFeed(c) EXCEPT !.x = 0] ELSE c
      [] OTHER -> c
Osc7(c, dir) == [c EXCEPT !.cwd = dir]

\* Mutant: the selection outlives its command.
PruneCommandRingOnly(c) ==
    [c EXCEPT !.ring = SubSeq(@, IF Visible(c) = {} THEN Len(@) + 1 ELSE Min(Visible(c)), Len(@)),
              !.batch = FALSE]
\* Records go from the front, up to the first whose prompt is still there: a
\* running command goes too, and its end is not reported then.
PruneCommandRing(c) ==
    LET s == [c EXCEPT !.ring = SubSeq(@, IF Visible(c) = {} THEN Len(@) + 1 ELSE Min(Visible(c)), Len(@)),
                       !.batch = FALSE]
    IN [s EXCEPT !.sel = IF @ \in Cmds(s) THEN @ ELSE None]

EnterAltScreen(c) == [c EXCEPT !.alt = TRUE, !.sel = None]
LeaveAltScreen(c) == [c EXCEPT !.alt = FALSE]

-----------------------------------------------------------------------------
(* Finding commands.                                                         *)

\* std::upper_bound over the prompts: the number of records before the first
\* that begins behind the line, if the prompts ascend.
UpperBound(c, line) ==
    LET n == Len(c.ring)
        search[first \in 0..n, len \in 0..n] ==
            LET half == len \div 2
            IN CASE len = 0 -> first
                 [] len > 0 /\ line < c.ring[first + half + 1].prompt -> search[first, half]
                 [] OTHER -> search[first + half + 1, len - half - 1]
    IN search[0, n]
CommandForLineId(c, line) ==
    LET i == UpperBound(c, line)
        found == i > 0 /\ (c.ring[i].done => line <= c.ring[i].end)
    IN IF found THEN c.ring[i].id ELSE None
SetSelectedCommand(c, id) == [c EXCEPT !.sel = IF id \in Cmds(c) THEN id ELSE None]
ResetViewport(c) == [c EXCEPT !.view = 0]
ScrollTo(c, abs) == [c EXCEPT !.view = Max({0, History(c) - abs})]
\* From the selected command, or from the end of the document that is behind,
\* to the first prompt that lies on in this direction, or round the end.
ScrollToPrompt(c, dir, wrap) ==
    LET row(i) == FirstAbsOfLine(c, c.ring[i].prompt)
        picked == {i \in Visible(c) : c.ring[i].id = c.sel}
        from == IF picked # {} THEN row(Max(picked)) ELSE IF dir < 0 THEN Len(c.ids) ELSE -1
        on == {i \in Visible(c) : IF dir < 0 THEN row(i) < from ELSE row(i) > from}
        pool == IF on = {} /\ wrap THEN Visible(c) ELSE on
        to == IF dir < 0 THEN Max(pool) ELSE Min(pool)
    IN CASE c.ring = <<>> -> ResetViewport(c)
         [] c.ring # <<>> /\ pool = {} -> c
         [] OTHER -> SetSelectedCommand(ScrollTo(c, row(to)), c.ring[to].id)

\* The rows the selected command is outlined on: a command ended at the start
\* of a row ends on the row before.
SelectedRegion(c) ==
    LET r == c.ring[CHOOSE i \in DOMAIN c.ring : c.ring[i].id = c.sel]
        first == FirstAbsOfLine(c, r.prompt)
        last == FirstAbsOfLine(c, r.end)
    IN CASE c.alt \/ c.sel \notin Cmds(c) -> <<-1, -1>>
         [] ~c.alt /\ c.sel \in Cmds(c) /\ ~r.done -> <<first, History(c) + c.y>>
         [] OTHER -> <<first, IF r.endCol = 0 /\ last > first THEN last - 1 ELSE last>>

-----------------------------------------------------------------------------
(* Notifications.  Texts are the numbers of the pieces they came in, so that *)
(* c.since, the last piece of the notification before, tells them apart.     *)

Shown(c, n) == [c EXCEPT !.carried = @ \/ \E t \in {n.title, n.body} \cup Range(n.buttons) :
                                             t # None /\ t <= c.since]
DispatchNote(c, piece) == [Shown(c, c.note) EXCEPT !.note = NoNote, !.since = piece]
\* What p=close and p=alive say of the urgency is kept, their text is not.
Osc99(c, piece, p, id, urgency, last) ==
    LET n == [c.note EXCEPT !.urgency = urgency]
        named == [n EXCEPT !.id = IF id = None THEN @ ELSE id]
        new == CASE p = "title"   -> [named EXCEPT !.title = piece]
                 [] p = "body"    -> [named EXCEPT !.body = piece]
                 [] p = "buttons" -> [named EXCEPT !.buttons = IF Len(@) < 8 THEN Append(@, piece) ELSE @]
                 [] OTHER -> named
    IN IF p \in {"close", "alive"} THEN [c EXCEPT !.note = n]
       ELSE LET s == [c EXCEPT !.note = new] IN IF last THEN DispatchNote(s, piece) ELSE s
=============================================================================
