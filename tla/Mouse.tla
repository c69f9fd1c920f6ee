--------------------------------- MODULE Mouse ---------------------------------
(***************************************************************************)
(* The mouse over a window of two panes, one of which shows a popup and an *)
(* embedded terminal: which button presses, releases and moves start or    *)
(* end a selection, move the focus, or are reported to a program.          *)
(*                                                                         *)
(* m is the state of the input, the focus and the terminals; at is where   *)
(* the pointer is.  Two places are further apart than the distance that    *)
(* makes a press a drag.                                                   *)
(***************************************************************************)
EXTENDS Integers, SequencesExt

CONSTANTS Buttons,    \* the buttons there are
          UserMouse   \* the user's mouse bindings, a sequence

ASSUME MouseButtons == "none" \notin Buttons

Panes == {"a", "b"}
Terms == Panes \cup {"popup", "embedded"}
Places == {"a", "a2", "b", "popup", "embedded", "bar", "divider", "below"}
Nobody == "none"

(* What a terminal knows of the mouse.  told is the buttons its program has  *)
(* been told are down.                                                       *)
Idle == [grabs |-> FALSE, down |-> Nobody, told |-> {}, pend |-> FALSE, sel |-> "none"]
MousePressEvent(t, btn, mods) ==
    IF mods # "shift" /\ t.grabs
      THEN [t EXCEPT !.down = btn, !.told = @ \cup {btn}]
      ELSE [t EXCEPT !.sel = "none", !.pend = TRUE]
MouseReleaseEvent(t, btn) ==
    LET u == [t EXCEPT !.pend = FALSE]
    IN IF t.sel = "active" THEN [u EXCEPT !.sel = "valid"]
       ELSE IF t.grabs /\ t.down # Nobody THEN [u EXCEPT !.told = @ \ {btn}, !.down = Nobody]
       ELSE u
MouseMoveEvent(t) == IF t.pend THEN [t EXCEPT !.pend = FALSE, !.sel = "active"] ELSE t

(* Clicks.  A press of a button in time and in place continues the last one. *)
DetectorInit == [down |-> {}, dragged |-> FALSE, from |-> "a", active |-> "left",
                 count |-> [b \in Buttons |-> 0], place |-> [b \in Buttons |-> "a"]]
OnPress(d, btn, at, quick) ==
    LET continuing == /\ d.count[btn] \in 1..2
                      /\ quick /\ d.place[btn] = at /\ ~d.dragged
    IN [d EXCEPT !.down = @ \cup {btn}, !.dragged = FALSE, !.from = at, !.active = btn,
                 !.count[btn] = IF continuing THEN @ + 1 ELSE 1, !.place[btn] = at]
PressType(d, btn) == <<"press", "double", "triple">>[d.count[btn]]
OnRelease(d, btn) == [d EXCEPT !.down = @ \ {btn}, !.dragged = FALSE]
ReleaseType(d, btn) == IF ~d.dragged /\ d.count[btn] = 1 THEN "click" ELSE "release"
BeginsDrag(d, at) == d.active \in d.down /\ ~d.dragged /\ at # d.from

(* Bindings.                                                                 *)
Binding(btn, mods, event, mode, region, does) ==
    [button |-> btn, mods |-> mods, event |-> event, mode |-> mode, region |-> region, does |-> does]
DefaultMouseBindings ==
    <<Binding("left", "", "press", "ungrabbed", "pane", "normal"),
      Binding("left", "", "double", "ungrabbed", "pane", "word"),
      Binding("left", "", "triple", "ungrabbed", "pane", "line"),
      Binding("left", "shift", "press", "ungrabbed", "pane", "extend"),
      Binding("left", "alt", "press", "ungrabbed", "pane", "rectangle"),
      Binding("left", "shift", "press", "grabbed", "pane", "normal"),
      Binding("left", "shift", "double", "grabbed", "pane", "word"),
      Binding("left", "shift", "triple", "grabbed", "pane", "line"),
      Binding("middle", "", "click", "ungrabbed", "pane", "paste"),
      Binding("left", "ctrl", "click", "any", "pane", "link"),
      Binding("left", "ctrl", "click", "any", "pane", "command"),
      Binding("left", "ctrl", "double", "any", "pane", "output"),
      Binding("left", "", "press", "any", "bar", "activate"),
      Binding("middle", "", "press", "any", "bar", "closeTab")>>
Selections == {"normal", "word", "line", "extend", "rectangle"}
MouseRecords == [button : Buttons \cup {"left", "middle"}, mods : {"", "shift", "ctrl", "alt"},
                 event : {"press", "double", "triple", "click", "release", "drag"},
                 mode : {"grabbed", "ungrabbed", "any"}, region : {"pane", "bar", "divider", "any"},
                 does : Selections \cup {"output", "paste", "link", "command", "activate", "closeTab"}]
ASSUME MouseAssumption == UserMouse \in Seq(MouseRecords)
TypeOf(does) == IF does \in Selections THEN "select" ELSE does
MouseBindings == DefaultMouseBindings \o UserMouse
\* What the user binds replaces everything that does a thing of that type.
MergeMouseBindings ==
    {i \in DOMAIN MouseBindings :
        i <= Len(DefaultMouseBindings) =>
           \A j \in DOMAIN UserMouse : TypeOf(UserMouse[j].does) # TypeOf(MouseBindings[i].does)}
\* The numbers of the bindings that take a stroke.
Matched(btn, mods, event, mode, region) ==
    {i \in MergeMouseBindings :
        LET b == MouseBindings[i]
        IN /\ b.button = btn /\ b.mods = mods /\ b.event = event
           /\ b.mode \in {mode, "any"} /\ b.region \in {region, "any"}}

-----------------------------------------------------------------------------
NoGesture == [btn |-> Nobody, to |-> "a", on |-> "pane", calm |-> FALSE]
MouseInit(grabbing) ==
    [at |-> "a", held |-> {}, drag |-> "none", auto |-> 0, focus |-> "a",
     focusIn |-> FALSE, alt |-> FALSE, popup |-> TRUE, det |-> DetectorInit,
     t |-> [x \in Terms |-> [Idle EXCEPT !.grabs = x \in grabbing]],
     gesture |-> NoGesture]

Region(at) == IF at \in {"bar", "divider"} THEN at ELSE "pane"
PaneAt(at) == CASE at \in {"a", "a2", "popup", "embedded"} -> "a" [] at = "b" -> "b" [] OTHER -> Nobody
OverPopup(m) == m.at = "popup" /\ m.focus = "a" /\ m.popup
OverEmbedded(m) == m.at = "embedded" /\ m.focus = "a" /\ m.drag = "none" /\ ~m.alt
Surface(m) == IF OverPopup(m) THEN "popup" ELSE IF OverEmbedded(m) THEN "embedded" ELSE Region(m.at)
Mode(m) == IF m.t[m.focus].grabs THEN "grabbed" ELSE "ungrabbed"

\* As if the timer were left to run.
EndDragKeepsScrolling(m) == [m EXCEPT !.drag = "none", !.t[m.focus] = MouseReleaseEvent(@, "left")]

\* The button of a selection went up, wherever that was.
EndDrag(m) == [m EXCEPT !.drag = "none", !.auto = 0, !.t[m.focus] = MouseReleaseEvent(@, "left")]

FocusPane(m, up) == IF ~up /\ PaneAt(m.at) # Nobody /\ Region(m.at) = "pane"
                      THEN [m EXCEPT !.focus = PaneAt(m.at)] ELSE m

ButtonEvent(t, btn, up, mods) == IF up THEN MouseReleaseEvent(t, btn) ELSE MousePressEvent(t, btn, mods)
\* A popup's script hears of it first, and may close the popup; only one that is
\* still there, and asks for the mouse, is told.
ToPopup(m, btn, up, mods, closes) ==
    IF closes THEN [m EXCEPT !.popup = FALSE, !.t["popup"] = Idle]
    ELSE IF m.t["popup"].grabs THEN [m EXCEPT !.t["popup"] = ButtonEvent(@, btn, up, mods)]
    ELSE m
ToEmbedded(m, btn, up, mods) ==
    LET n == [m EXCEPT !.focusIn = @ \/ ~up]
    IN IF n.t["embedded"].grabs THEN [n EXCEPT !.t["embedded"] = ButtonEvent(@, btn, up, mods)] ELSE n
\* A press elsewhere in the pane takes the keyboard back from what is embedded.
LeaveEmbedded(m, up) == IF ~up /\ Region(m.at) = "pane" /\ m.focus = "a" /\ m.drag = "none" /\ ~m.alt
                          THEN [m EXCEPT !.focusIn = FALSE] ELSE m

\* What a bound stroke does to the selection of the focused terminal; one that covers
\* nothing, or whose text is gone, is begun anew where it should be extended.
StartSelection(m, does, mods, empty) ==
    LET old == m.t[m.focus].sel
    IN CASE does = "normal" -> [m EXCEPT !.drag = "armed", !.t[m.focus] = MousePressEvent(@, "left", mods)]
         [] does = "rectangle" -> [m EXCEPT !.drag = "armed", !.t[m.focus].sel = "active"]
         [] does = "extend" -> [m EXCEPT !.t[m.focus].sel = IF old = "none" \/ empty THEN "active" ELSE "valid"]
         [] does \in {"word", "line", "output"} -> [m EXCEPT !.t[m.focus].sel = "valid"]
         [] OTHER -> m
\* The bindings that take a stroke act one after the other.
Strike(m, matched, mods, empty) ==
    FoldLeft(LAMBDA r, i : IF i \in matched THEN StartSelection(r, MouseBindings[i].does, mods, empty) ELSE r,
             m, [i \in DOMAIN MouseBindings |-> i])

ToPane(m, btn, up, mods, quick, empty) ==
    LET det == IF up THEN OnRelease(m.det, btn) ELSE OnPress(m.det, btn, m.at, quick)
        event == IF up THEN ReleaseType(m.det, btn) ELSE PressType(det, btn)
        n == [m EXCEPT !.det = det]
        matched == Matched(btn, mods, event, Mode(m), Region(m.at))
    IN IF matched # {} THEN Strike(n, matched, mods, empty)
       ELSE IF m.t[m.focus].grabs /\ Region(m.at) = "pane"
              THEN [n EXCEPT !.t[m.focus] = ButtonEvent(@, btn, up, mods)]
       ELSE n
\* chance is what is decided elsewhere: whether a popup's script closes it, or whether
\* a selection that is to be extended is empty.
RouteButton(m, btn, up, mods, quick, chance) ==
    LET f == FocusPane(m, up)
    IN IF up /\ m.drag # "none" THEN EndDrag(m)
       ELSE IF m.at = "divider" THEN m
       ELSE IF OverPopup(f) THEN ToPopup(f, btn, up, mods, chance)
       ELSE IF OverEmbedded(f) THEN ToEmbedded(f, btn, up, mods)
       ELSE ToPane(LeaveEmbedded(f, up), btn, up, mods, quick, chance)

\* A gesture is calm as long as it is one plain button that goes down and up over
\* the same surface, of a terminal that is not left with a selection begun or a
\* button down, nor the detector with a press from before.
Begin(m, btn, mods) ==
    LET f == FocusPane(m, FALSE)
        to == IF Surface(f) \in {"popup", "embedded"} THEN Surface(f) ELSE f.focus
    IN [btn |-> btn, to |-> to, on |-> Surface(f),
        calm |-> /\ m.held = {} /\ mods = "" /\ Region(m.at) = "pane"
                 /\ m.t[to].sel # "active" /\ ~m.t[to].pend /\ m.t[to].down = Nobody /\ btn \notin m.t[to].told
                 /\ Surface(f) # "pane" => m.det.active \notin m.det.down]
Disturb(m) == [m EXCEPT !.gesture.calm = @ /\ m.held = {}]
OnMouseButton(m, btn, up, mods, quick, chance) ==
    LET n == [m EXCEPT !.held = IF up THEN @ \ {btn} ELSE @ \cup {btn}]
        g == IF ~up THEN Begin(m, btn, mods)
             ELSE [m.gesture EXCEPT !.calm = /\ @ /\ mods = ""
                                            /\ (Surface(m) = m.gesture.on \/ m.drag # "none")]
    IN [RouteButton(n, btn, up, mods, quick, chance) EXCEPT !.gesture = g]

(* Moves, and the timer that scrolls while the pointer is beyond the rows.   *)
Outside(at) == IF at = "bar" THEN 1 ELSE IF at = "below" THEN -1 ELSE 0
MoveDrag(m, jitter, room) ==
    IF m.drag = "armed" /\ jitter THEN m
    ELSE LET n == [m EXCEPT !.drag = "started", !.t[m.focus] = MouseMoveEvent(@)]
         IN IF m.held = {} THEN [n EXCEPT !.drag = "none", !.auto = 0]
            ELSE [n EXCEPT !.auto = IF room THEN Outside(m.at) ELSE 0]
\* A motion has no button of its own, which counts as the left one if it is pressed.
MoveHeld(m, mods) ==
    LET begins == BeginsDrag(m.det, m.at)
        n == [m EXCEPT !.det.dragged = @ \/ begins]
        matched == Matched(m.det.active, mods, "drag", Mode(m), Region(m.at))
    IN IF begins /\ matched # {}
         THEN IF MouseBindings[Min(matched)].does \in Selections
                THEN [n EXCEPT !.drag = "started", !.t[m.focus] = MousePressEvent(@, "left", mods)]
                ELSE n
       ELSE IF Mode(m) = "grabbed" THEN [n EXCEPT !.t[m.focus] = MouseMoveEvent(@)]
       ELSE n
OnCursorPos(m0, at, mods, room) ==
    LET m == [m0 EXCEPT !.at = at]
    IN IF m.drag # "none" THEN MoveDrag(m, at = m0.at, room)
       ELSE IF m.held # {} THEN MoveHeld(m, mods)
       ELSE [m EXCEPT !.t[m.focus] = MouseMoveEvent(@)]
DoAutoScroll(m, room) ==
    IF m.drag = "none" THEN [m EXCEPT !.auto = 0]
    ELSE [m EXCEPT !.t[m.focus] = MouseMoveEvent(@), !.auto = IF room THEN @ ELSE 0]

\* What happens besides: a program asks for the mouse or stops to, or switches
\* screens; a key moves the focus.
AskForMouse(m, x) == Disturb([m EXCEPT !.t[x].grabs = ~@])
SwitchAlt(m) == Disturb([m EXCEPT !.alt = ~@])
FocusByKey(m, x) == Disturb([m EXCEPT !.focus = x])
================================================================================
