------------------------------ MODULE MCEmulator ------------------------------
EXTENDS Emulator
McSteps == [place |-> 3, animate |-> 4, modes |-> 5, bytes |-> 2, shell |-> 5, keys |-> 5, mouse |-> 2, paste |-> 3,
            write |-> 5, embed |-> 6]
McTexts == {<<"x">>, <<"u2", "u", "x">>}
McParams == {<<"0">>, <<"(", "0">>}
McGrabbing == {{"a", "popup", "embedded"}}
McKeyMaps == {{<<"alt">>, <<"ctrl", "plain">>, <<"ctrl", "ctrl", "cursor">>}, {<<"plain", "cursor">>}}
\* A user who drags with the middle button; the rest is bound again, because any
\* selection of the user's replaces every default that selects.
McUserMouse == <<Binding("middle", "", "drag", "ungrabbed", "pane", "normal"),
                 Binding("left", "", "press", "ungrabbed", "pane", "normal"),
                 Binding("left", "", "double", "ungrabbed", "pane", "word"),
                 Binding("left", "shift", "press", "any", "pane", "extend"),
                 Binding("left", "alt", "press", "ungrabbed", "pane", "rectangle")>>
ASSUME McUsual == UsualBindings
=============================================================================
