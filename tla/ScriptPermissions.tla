-------------------------- MODULE ScriptPermissions --------------------------
(***************************************************************************)
(* Permissions and the file of remembered answers.  A set of permissions   *)
(* is the set of its bits' names; a permission string is the set of its    *)
(* comma-separated words; the file is what save() writes and load() reads  *)
(* back when the version is its own.                                       *)
(***************************************************************************)
EXTENDS Integers, Sequences, FiniteSets, SequencesExt, FiniteSetsExt, Functions, TLC

\* f with y at x.
Put(f, x, y) == [k \in DOMAIN f \cup {x} |-> IF k = x THEN y ELSE f[k]]

Groups == {"ui", "io", "shell", "actions", "tabs", "scripts", "fs", "net", "clipboard",
           "layout", "config"}
GroupMasks == [g \in Groups |->
    CASE g = "ui"        -> {"ui.popup.create", "ui.popup.destroy"}
      [] g = "io"        -> {"io.filter.input", "io.filter.output", "io.inject"}
      [] g = "shell"     -> {"shell.write", "shell.commands"}
      [] g = "actions"   -> {"actions.invoke"}
      [] g = "tabs"      -> {"tabs.create", "tabs.close"}
      [] g = "scripts"   -> {"scripts.load", "scripts.unload"}
      [] g = "fs"        -> {"fs.read", "fs.write"}
      [] g = "net"       -> {"net.listen.local"}
      [] g = "clipboard" -> {"clipboard.read", "clipboard.write"}
      [] g = "layout"    -> {"layout.modify"}
      [] g = "config"    -> {"config.modify"}]
GroupUi == GroupMasks["ui"]
Individual == {"ui.focus", "pane.selection"} \cup UNION {GroupMasks[g] : g \in Groups}
\* What a built-in script has: every bit, named or not.
All == Individual \cup {"every other bit"}

\* A word that is no name is left out, "all" and "none" among them.
PermNames == [w \in Groups \cup Individual |->
                IF w \in Groups THEN GroupMasks[w] ELSE {w}]
ParsePermissions(words) == UNION {PermNames[w] : w \in words \cap DOMAIN PermNames}
PermissionsToString(perms) ==
    LET whole == {g \in Groups : GroupMasks[g] \subseteq perms}
    IN CASE perms = All -> {"all"}
         [] perms = {} -> {"none"}
         [] OTHER -> whole \cup (perms \ ParsePermissions(whole))

\* Actions that make or destroy things need more than actions.invoke.
ActionPermission(name) ==
    CASE name \in {"NewTab", "SplitPane"} -> {"tabs.create"}
      [] name \in {"CloseTab", "ClosePane"} -> {"tabs.close"}
      [] OTHER -> {}

-----------------------------------------------------------------------------
(* The list: at most one allow entry and one deny entry for each path.       *)

NoEntry == [hash |-> "", perms |-> {}, modules |-> 0]
EmptyList(paths) == [allow |-> [p \in paths |-> NoEntry], deny |-> [p \in paths |-> ""]]
Allow(list, path, hash, perms, modules) ==
    [list EXCEPT !.allow[path] = [hash |-> hash, perms |-> perms, modules |-> modules]]
Deny(list, path, hash) == [list EXCEPT !.deny[path] = hash]
IsDenied(list, path, hash) == list.deny[path] = hash
\* Mutant: any text of the path will do.
CheckPathOnly(list, path, hash) == list.allow[path] # NoEntry
Check(list, path, hash) == list.allow[path] # NoEntry /\ list.allow[path].hash = hash

KAllowlistVersion == 9
Save(list) ==
    [version |-> KAllowlistVersion, deny |-> list.deny,
     allow |-> [p \in DOMAIN list.allow |->
                  [list.allow[p] EXCEPT !.perms = PermissionsToString(@)]]]
\* Another version's answers are forgotten.
Load(file, paths) ==
    IF file.version # KAllowlistVersion THEN EmptyList(paths)
    ELSE [deny |-> file.deny,
          allow |-> [p \in paths |-> [file.allow[p] EXCEPT !.perms = ParsePermissions(@)]]]
=============================================================================
