--------------------------------- MODULE Modes ---------------------------------
(***************************************************************************)
(* What the program in the pane switches on and off, as operators on one   *)
(* record t: private modes and the two screens they belong to, saved       *)
(* modes, keyboard flags, pointer shapes, titles, and the copies that      *)
(* other threads read without the emulator's lock.                         *)
(*                                                                         *)
(* A screen's state is the set of modes that are on.                       *)
(***************************************************************************)
EXTENDS Integers, FiniteSets, Sequences, SequencesExt, FiniteSetsExt, Functions

CONSTANTS KittyStackMax, PointerStackMax, TitleStackMax
ASSUME ModesAssumption == {KittyStackMax, PointerStackMax, TitleStackMax} \subseteq Nat \ {0}

Screens == {"main", "alt"}
MouseModes == {"1000", "1002"}
OtherModes == {"wrap", "paste", "sync"} \* 7, 2004, 2026
Defaults == {"wrap"}
NoTitle == <<>>

ModesInit ==
    [on |-> [s \in Screens |-> Defaults], screen |-> "main", hold |-> FALSE,
     paste |-> FALSE, mouse |-> FALSE, \* mBracketedPasteAtomic, mMouseReportingActiveAtomic
     saved |-> <<>>,
     flags |-> 0, kitty |-> [s \in Screens |-> <<>>],
     shapes |-> [s \in Screens |-> <<>>], pointer |-> "",
     titles |-> <<>>, title |-> NoTitle]

Active(t) == t.on[t.screen]
TopOr(stack, none) == IF stack = <<>> THEN none ELSE Last(stack)
SyncMouse(t) == [t EXCEPT !.mouse = Active(t) \cap MouseModes # {}]
SyncPaste(t) == [t EXCEPT !.paste = "paste" \in Active(t)]
NotifyPointerShape(t) == [t EXCEPT !.pointer = TopOr(t.shapes[t.screen], "")]
KittySwitch(t) == [t EXCEPT !.flags = TopOr(t.kitty[t.screen], 0)]

-----------------------------------------------------------------------------
(* Modes and screens.                                                        *)

Switch(t, m, v) ==
    LET s == [t EXCEPT !.on[t.screen] = IF v THEN @ \cup {m} ELSE @ \ {m}]
    IN IF m = "paste" THEN SyncPaste(s) ELSE s
\* The parser, which is ahead, holds snapshots back for as long as it has seen
\* 2026h and no 2026l.
SetPrivateMode(t, m, v) ==
    SyncMouse(Switch([t EXCEPT !.hold = IF m = "sync" THEN v ELSE @], m, v))
\* Mutant: the copies are those of the screen that was left.
EnterAltUnsynced(t) ==
    NotifyPointerShape(KittySwitch([t EXCEPT !.on["alt"] = Defaults, !.screen = "alt"]))
EnterAlt(t) ==
    LET s == [t EXCEPT !.on["alt"] = Defaults, !.screen = "alt"]
    IN NotifyPointerShape(KittySwitch(SyncMouse(SyncPaste(s))))
LeaveAlt(t) ==
    NotifyPointerShape(KittySwitch(SyncMouse(SyncPaste([t EXCEPT !.screen = "main"]))))

SavePrivateModes(t, ms) == [t EXCEPT !.saved = [m \in ms |-> m \in Active(t)] @@ @]
RestorePrivateModes(t, ms) ==
    SyncMouse(FoldLeft(LAMBDA a, m : Switch(a, m, t.saved[m]), t,
                       SetToSeq(ms \cap DOMAIN t.saved)))

\* DECSTR leaves mouse, paste and sync alone.
SoftReset(t) ==
    SyncMouse(SyncPaste([t EXCEPT !.on[t.screen] = Defaults \cup (@ \ {"wrap"})]))
FullReset(t) ==
    NotifyPointerShape(SyncMouse(SyncPaste(
        [t EXCEPT !.on = [s \in Screens |-> Defaults], !.screen = "main", !.hold = FALSE,
                  !.shapes = [s \in Screens |-> <<>>], !.flags = 0,
                  !.kitty = [s \in Screens |-> <<>>]])))

-----------------------------------------------------------------------------
(* Stacks.                                                                   *)

\* A push on a full stack changes the flags and not the stack.
KittyPushFlags(t, f) ==
    [t EXCEPT !.flags = f,
              !.kitty[t.screen] = IF Len(@) < KittyStackMax THEN Append(@, f) ELSE @]
KittyPopFlags(t, n) ==
    LET s == [t EXCEPT !.kitty[t.screen] = SubSeq(@, 1, Max({0, Len(@) - n}))] IN KittySwitch(s)
\* Flags are numbers of two bits here; how is 1 replace, 2 or, 3 and-not.
KittySetFlags(t, f, how) ==
    LET bit(n, i) == (n \div i) % 2
        each(op(_, _)) == op(bit(t.flags, 1), bit(f, 1)) + 2 * op(bit(t.flags, 2), bit(f, 2))
    IN [t EXCEPT !.flags = CASE how = 2 -> each(LAMBDA a, b : Max({a, b}))
                             [] how = 3 -> each(LAMBDA a, b : IF b = 1 THEN 0 ELSE a)
                             [] OTHER -> f]

\* OSC 22: "=" sets the top, or clears with no name; ">" pushes and drops the
\* oldest of a full stack; "<" pops.
PointerShape(t, op, name) ==
    LET stack == t.shapes[t.screen]
        kept == IF Len(stack) >= PointerStackMax THEN Tail(stack) ELSE stack
        new == CASE op = "<" -> IF stack = <<>> THEN stack ELSE Front(stack)
                 [] op = ">" /\ name # "" -> Append(kept, name)
                 [] op = "=" /\ name = "" -> <<>>
                 [] op = "=" /\ name # "" /\ stack # <<>> -> Append(Front(stack), name)
                 [] op = "=" /\ name # "" /\ stack = <<>> -> <<name>>
                 [] OTHER -> stack
    IN IF op = "<" /\ stack = <<>> THEN t
       ELSE NotifyPointerShape([t EXCEPT !.shapes[t.screen] = new])

PublishTitle(t) == [t EXCEPT !.title = IF t.titles = <<>> THEN NoTitle ELSE <<Last(t.titles)>>]
SetTitle(t, x) == PublishTitle([t EXCEPT !.titles = IF @ = <<>> THEN <<x>> ELSE Append(Front(@), x)])
\* XTWINOPS 22 and 23.  The last one of the stack may be popped too.
PushTitle(t) ==
    [t EXCEPT !.titles = IF @ = <<>> \/ Len(@) >= TitleStackMax THEN @ ELSE Append(@, Last(@))]
PopTitle(t) == IF t.titles = <<>> THEN t ELSE PublishTitle([t EXCEPT !.titles = Front(@)])
=============================================================================
