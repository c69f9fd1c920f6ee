----------------------------- MODULE MCScripts -----------------------------
(* Two user scripts beside the built-in controller, one pane, one name.      *)
EXTENDS Scripts
MCRequests == {{}, {"io.filter.output", "ui.focus"}}
MCCalls == [s \in Scopes |-> IF s \in {"net", "files"} THEN 4 ELSE 3]
MCEvents == [s \in Scopes |-> CASE s \in {"net", "files"} -> 4 [] s = "names" -> 2 [] OTHER -> 3]
=============================================================================
