--------------------------------- MODULE Keys ---------------------------------
(***************************************************************************)
(* Key presses on their way to the program.  A key may complete a binding, *)
(* or begin one, and is then held back until the sequence is completed,    *)
(* broken by another key or timed out; what was held back in vain is sent  *)
(* after all.  A plain character is not sent by the key press but by the   *)
(* character event the window system follows it with, between which the    *)
(* program may have switched the keyboard protocol.                        *)
(*                                                                         *)
(* k is the state of the input; a press is named by its number.  What is   *)
(* sent says whether the press sent it, at once or when it was replayed,   *)
(* or its character.  A key going up is never bound, held back or counted, *)
(* and is left out.                                                        *)
(***************************************************************************)
EXTENDS SequencesExt

CONSTANT KeyMaps  \* the sets of bindings the user's settings may hold

KeyKinds == {"plain", "ctrl", "alt", "cursor", "escape", "shift", "f12"}
KittyFlags == {0, 1, 2, 8}  \* legacy; disambiguated; 2, 4 or 16 alone; all keys
ByPress(i) == [i |-> i, by |-> "press"]
ByChar(i) == [i |-> i, by |-> "char"]

\* asked: the press itself is to be answered, not its character.  eaten: what a
\* binding or Escape's use took; mute: what no sequence stands for.  twice, lost:
\* the presses that were answered and typed, and neither; late: those a reload of
\* the settings found held back.
KeysInit(map) == [bound |-> map, cur |-> <<>>, pending |-> <<>>, timer |-> FALSE,
                  kitty |-> 0, selected |-> FALSE, embedded |-> FALSE,
                  char |-> FALSE, asked |-> FALSE, key |-> "plain", n |-> 0,
                  sent |-> <<>>, eaten |-> {}, mute |-> {}, twice |-> {}, lost |-> {}, late |-> {}]

(* What the press of a key makes the emulator write.                         *)
EncodesKitty(key, flags) == /\ key = "shift" => flags = 8
                            /\ key \in {"cursor", "escape"} => flags # 2
EncodesLegacy(key) == key # "shift"
KeyPressEvent(k, x, key) ==
    IF key # "f12" /\ (IF k.kitty # 0 THEN EncodesKitty(key, k.kitty) ELSE EncodesLegacy(key))
      THEN [k EXCEPT !.sent = Append(@, x)]
      ELSE [k EXCEPT !.mute = @ \cup {x.i}]

(* The matcher.                                                              *)
Stroke(k, key) == Append(k.cur, key)
Completes(k, key) == Stroke(k, key) \in k.bound
Begins(k, key) == \E b \in k.bound : IsStrictPrefix(Stroke(k, key), b)

ReplayPending(k) ==
    FoldLeft(LAMBDA r, p : KeyPressEvent(r, ByPress(p.i), p.key), [k EXCEPT !.pending = <<>>], k.pending)

(* The window system's own idea of a character: not with Ctrl, not a control *)
TypesChar(key) == key \in {"plain", "alt"}

(* The key as such, no binding having taken it.                              *)
SendKey(k, key) ==
    IF key = "escape" /\ k.selected THEN [k EXCEPT !.selected = FALSE, !.eaten = @ \cup {k.n}]
    ELSE IF key = "escape" /\ k.embedded THEN [k EXCEPT !.embedded = FALSE, !.eaten = @ \cup {k.n}]
    ELSE IF k.kitty = 0 /\ key = "plain" THEN k
    ELSE KeyPressEvent(k, ByPress(k.n), key)

\* As if what a sequence took were gone with it.
AbortPrefixLoses(k) == [k EXCEPT !.cur = <<>>, !.timer = FALSE, !.pending = <<>>]
AbortPrefix(k) == LET still == [k EXCEPT !.cur = <<>>, !.timer = FALSE]
                  IN IF k.cur = <<>> THEN still ELSE ReplayPending(still)

Held(k) == {k.pending[i].i : i \in DOMAIN k.pending}
\* A plain key in the legacy protocol is left to its character, unless a binding
\* takes it; but its character comes all the same.
Asked(k, key) == key # "plain" \/ k.kitty # 0 \/ Completes(k, key) \/ Begins(k, key)
OnKey(k0, key) ==
    LET k == [k0 EXCEPT !.n = @ + 1, !.char = TypesChar(key), !.key = key, !.asked = Asked(k0, key)]
    IN CASE Completes(k, key) ->
              [k EXCEPT !.cur = <<>>, !.pending = <<>>, !.timer = FALSE,
                        !.eaten = @ \cup {k.n} \cup Held(k)]
         [] ~Completes(k, key) /\ Begins(k, key) ->
              [k EXCEPT !.cur = Stroke(k, key), !.timer = TRUE,
                        !.pending = Append(@, [i |-> k.n, key |-> key])]
         [] OTHER -> SendKey(AbortPrefix(k), key)

OnChar(k) ==
    LET done == [k EXCEPT !.char = FALSE, !.asked = FALSE]
    IN IF k.kitty # 0 \/ k.key = "alt"
         THEN [done EXCEPT !.lost = IF k.asked THEN @ ELSE @ \cup {k.n}]
         ELSE KeyPressEvent([done EXCEPT !.twice = IF k.asked THEN @ \cup {k.n} ELSE @],
                            ByChar(k.n), "plain")

OnSequenceTimeout(k) == ReplayPending([k EXCEPT !.cur = <<>>, !.timer = FALSE])

\* The program in the pane switches the protocol, between a key and its character
\* perhaps.
SwitchProtocol(k, flags) == [k EXCEPT !.kitty = flags]

\* The settings are read again: the matcher is reset, but what is held back stays,
\* and so does the timer.
ReloadKeys(k, map) == [k EXCEPT !.bound = map, !.cur = <<>>, !.late = @ \cup Held(k)]
===============================================================================
