------------------------------- MODULE ScriptFs -------------------------------
(***************************************************************************)
(* mb:fs, the synchronous file calls of scripts, on a small disk: the      *)
(* directories there are and the files in them.  A path is a directory and *)
(* a name, "" for the directory itself; symbolic links are resolved before *)
(* anything is compared.  A user script writes in its own directory under   *)
(* the configuration's; reading leaves the disk alone and is left out.     *)
(***************************************************************************)
EXTENDS ScriptPermissions

\* Nothing is under a directory that does not exist.
IsUnderDir(disk, x, d) == d \in disk.dirs /\ x.dir = d
ScriptConfigDir(i) == <<"config", i.path>>
ScriptDir == <<"scripts">>

CheckWritePath(disk, i, x) ==
    /\ "fs.write" \in i.perms
    /\ i.builtIn \/ IsUnderDir(disk, x, ScriptConfigDir(i))

EnsureConfigDir(disk, d) == [disk EXCEPT !.dirs = @ \cup {d}]
WriteFileSync(disk, i, x) ==
    IF ~CheckWritePath(disk, i, x) \/ x.name = "" THEN disk
    ELSE [EnsureConfigDir(disk, x.dir) EXCEPT !.files = @ \cup {x}]
MkdirSync(disk, i, d) ==
    IF CheckWritePath(disk, i, [dir |-> d, name |-> ""]) THEN EnsureConfigDir(disk, d) ELSE disk
\* A directory goes only when it is empty.
UnlinkSync(disk, i, x) ==
    CASE ~CheckWritePath(disk, i, x) -> disk
      [] CheckWritePath(disk, i, x) /\ x.name # "" -> [disk EXCEPT !.files = @ \ {x}]
      [] OTHER -> IF \E y \in disk.files : y.dir = x.dir THEN disk
                  ELSE [disk EXCEPT !.dirs = @ \ {x.dir}]
RenameSync(disk, i, x, y) ==
    IF CheckWritePath(disk, i, x) /\ CheckWritePath(disk, i, y) /\ x \in disk.files
    THEN [disk EXCEPT !.files = (@ \ {x}) \cup {y}] ELSE disk

\* What the disk may be after a call of i in its own directory or the scripts'.
FsOutcomes(disk, i) ==
    LET own == ScriptConfigDir(i)
        all == {[dir |-> d, name |-> n] : d \in {own, ScriptDir}, n \in {"", "f", "g"}}
    IN {WriteFileSync(disk, i, x) : x \in all} \cup {MkdirSync(disk, i, own)}
       \cup {UnlinkSync(disk, i, x) : x \in all} \cup {RenameSync(disk, i, x, y) : x, y \in all}
=============================================================================
