--------------------------- MODULE MCRenderFrame ---------------------------
(* RenderFrame for TLC: a tab of two panes, the first with a popup, and a  *)
(* tab of one.                                                             *)
EXTENDS RenderFrame

CONSTANTS p1, p2, p3, q1

MCPanes == {p1, p2, p3}
MCPopups == {q1}
MCPaneOf == [q \in MCPopups |-> p1]
MCTabs == {{p1, p2}, {p3}}
MCFirstTab == {p1, p2}
MCFirstSlot == [p \in MCPanes |-> IF p = p1 THEN 1 ELSE 2]
MCWindowSlots == {[p \in MCPanes |-> 1]}
=============================================================================
