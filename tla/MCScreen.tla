------------------------------ MODULE MCScreen ------------------------------
(* Screen for TLC: windows of two or three columns and two or three rows. *)
EXTENDS Selecting

MCSizes == {<<2, 2>>, <<3, 2>>, <<2, 3>>}
MCFirstSize == <<2, 2>>

\* "abc", CR, LF, "d" in a window of two columns and rows, and in one of three
\* columns: the first row is in the scrollback.
Text(cells, cont, id) == [cells |-> cells, cont |-> cont, id |-> id]
MCPages ==
    {[cols |-> 2, rows |-> <<Text(<<3, 0>>, FALSE, 1), Text(<<4, 0>>, FALSE, 3)>>, next |-> 4,
      back |-> <<[gone |-> 0, lines |-> <<[cells |-> <<1, 2>>, soft |-> TRUE, id |-> 1]>>]>>],
     [cols |-> 3, rows |-> <<Text(<<1, 2, 3>>, FALSE, 1), Text(<<4, 0, 0>>, FALSE, 2)>>,
      next |-> 3, back |-> <<>>]}
=============================================================================
