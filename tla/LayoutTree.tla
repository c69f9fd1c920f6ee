----------------------------- MODULE LayoutTree -----------------------------
(***************************************************************************)
(* The tree that arranges the panes of a window: Terminals are leaves,     *)
(* Containers share their rectangle among their children, a Stack shows    *)
(* one of them (or its zoom target).  Pure operators on a function from    *)
(* the nodes that exist to their records; Tabs keeps the value.            *)
(*                                                                         *)
(* Left out: labels, the direction and the sizes of a split, the TabBar    *)
(* and the Container that holds it beside the Stack of tabs.  An operation *)
(* the code refuses returns the tree it was given.                         *)
(***************************************************************************)
EXTENDS Integers, SequencesExt

CONSTANTS Ids,  \* the Uuids of nodes
          Nil   \* the nil Uuid
ASSUME IdsAssumption == Ids \subseteq Nat /\ Nil \notin Ids

Kinds == {"terminal", "container", "stack"}

NewNode(kind) ==
    [kind |-> kind, parent |-> Nil, kids |-> <<>>, active |-> Nil, zoom |-> Nil]
Create(t, n, kind) ==
    [m \in DOMAIN t \cup {n} |-> IF m = n THEN NewNode(kind) ELSE t[m]]

IsKind(t, n, kind) == n \in DOMAIN t /\ t[n].kind = kind
HasKids(t, n) == IsKind(t, n, "container") \/ IsKind(t, n, "stack")
IsChild(t, p, c) == HasKids(t, p) /\ c \in ToSet(t[p].kids)
IsOrphan(t, n) == n \in DOMAIN t /\ t[n].parent = Nil
IndexOf(seq, n) == SelectInSeq(seq, LAMBDA m : m = n)  \* 0 if it is not there

-----------------------------------------------------------------------------
(* Looking around. *)

\* n and its ancestors.
Lineage(t, n) ==
    LET up[m \in DOMAIN t] ==
            {m} \cup IF t[m].parent = Nil THEN {} ELSE up[t[m].parent]
    IN IF n \in DOMAIN t THEN up[n] ELSE {}
IsUnder(t, a, n) == a # Nil /\ a \in Lineage(t, n)

Subtree(t, n) ==
    LET below[m \in DOMAIN t] == {m} \cup UNION {below[c] : c \in ToSet(t[m].kids)}
    IN below[n]

\* The Terminals under n from left to right.
Leaves(t, n) ==
    LET below[m \in DOMAIN t] ==
            IF t[m].kind = "terminal" THEN <<m>>
            ELSE FlattenSeq([i \in 1..Len(t[m].kids) |-> below[t[m].kids[i]]])
    IN below[n]

\* The nodes under n that get a rectangle.
Shown(t, n) ==
    LET under(m) == CASE t[m].kind = "container" -> ToSet(t[m].kids)
                      [] t[m].kind = "stack" /\ t[m].zoom # Nil -> {t[m].zoom}
                      [] t[m].kind = "stack" /\ t[m].zoom = Nil -> {t[m].active} \ {Nil}
                      [] OTHER -> {}
        shown[m \in DOMAIN t] == {m} \cup UNION {shown[c] : c \in under(m)}
    IN shown[n]

\* The nodes under n if every Stack shows its active child, zoomed or not.
Active(t, n) == Shown([m \in DOMAIN t |-> [t[m] EXCEPT !.zoom = Nil]], n)

NearestStack(t, n) ==
    CHOOSE s \in Lineage(t, n) :
        /\ IsKind(t, s, "stack")
        /\ \A r \in Lineage(t, n) : IsKind(t, r, "stack") => r \in Lineage(t, s)

-----------------------------------------------------------------------------
(* Changing the tree. *)

CanAppend(t, p, c) == HasKids(t, p) /\ IsOrphan(t, c)
AppendChild(t, p, c) ==
    IF ~CanAppend(t, p, c) THEN t
    ELSE [t EXCEPT ![c].parent = p,
                   ![p].kids = Append(@, c),
                   ![p].active = IF t[p].kind = "stack" /\ @ = Nil THEN c ELSE @]

\* The child becomes an orphan; an active one hands over to the first left.
RemoveChild(t, p, c) ==
    IF ~IsChild(t, p, c) THEN t
    ELSE LET kids == Remove(t[p].kids, c)
         IN [t EXCEPT ![c].parent = Nil,
                      ![p].kids = kids,
                      ![p].active = IF @ # c THEN @
                                    ELSE IF kids = <<>> THEN Nil ELSE Head(kids)]

ReplaceChild(t, p, old, new) ==
    IF ~IsChild(t, p, old) \/ ~IsOrphan(t, new) THEN t
    ELSE [t EXCEPT ![old].parent = Nil,
                   ![new].parent = p,
                   ![p].kids = ReplaceAll(@, old, new),
                   ![p].active = IF @ = old THEN new ELSE @]

MoveChild(t, p, c, delta) ==
    LET to == IndexOf(t[p].kids, c) + delta
    IN IF ~IsChild(t, p, c) \/ to \notin 1..Len(t[p].kids) THEN t
       ELSE [t EXCEPT ![p].kids = InsertAt(Remove(@, c), to, c)]

SetActiveChild(t, s, c) ==
    IF IsKind(t, s, "stack") /\ IsChild(t, s, c) THEN [t EXCEPT ![s].active = c] ELSE t

SetStackZoom(t, s, target) ==
    IF /\ IsKind(t, s, "stack")
       /\ target = Nil \/ (target # s /\ IsUnder(t, s, target))
    THEN [t EXCEPT ![s].zoom = target] ELSE t

\* Two leaves trade places; a Stack's active child follows the place.
SwapLeaves(t, a, b) ==
    LET pa == t[a].parent
        pb == t[b].parent
        swapped == [i \in 1..Len(t[pa].kids) |->
                      CASE t[pa].kids[i] = a -> b
                        [] t[pa].kids[i] = b -> a
                        [] OTHER -> t[pa].kids[i]]
    IN IF a = b \/ IsOrphan(t, a) \/ IsOrphan(t, b)
          \/ IsUnder(t, a, b) \/ IsUnder(t, b, a) THEN t
       ELSE IF pa = pb THEN [t EXCEPT ![pa].kids = swapped]
       ELSE [t EXCEPT ![a].parent = pb, ![b].parent = pa,
                      ![pa].kids = ReplaceAll(@, a, b),
                      ![pb].kids = ReplaceAll(@, b, a),
                      ![pa].active = IF @ = a THEN b ELSE @,
                      ![pb].active = IF @ = b THEN a ELSE @]

\* The node goes with everything under it, and zooms on any of it end.
DestroyNode(t, n) ==
    IF n \notin DOMAIN t THEN t
    ELSE LET gone == Subtree(t, n)
             cut  == RemoveChild(t, t[n].parent, n)
         IN [m \in DOMAIN t \ gone |->
               [cut[m] EXCEPT !.zoom = IF @ \in gone THEN Nil ELSE @]]

\* A new Container w takes the place of a node and holds it and new.
SplitByWrapping(t, node, w, new, newIsFirst) ==
    LET placed == ReplaceChild(Create(t, w, "container"), t[node].parent, node, w)
        first  == IF newIsFirst THEN new ELSE node
        second == IF newIsFirst THEN node ELSE new
    IN IF node \notin DOMAIN t \/ IsOrphan(t, node) \/ ~IsOrphan(t, new) THEN t
       ELSE AppendChild(AppendChild(placed, w, first), w, second)

\* From a node up to stopAt, a Container with one child gives way to it.
CollapseSingletonsAbove(t, from, stopAt) ==
    LET Singleton(u, n) == /\ n # stopAt
                           /\ IsKind(u, n, "container")
                           /\ Len(u[n].kids) = 1
                           /\ ~IsOrphan(u, n)
        Promote(u, n) == LET only == Head(u[n].kids) IN
            DestroyNode(ReplaceChild(RemoveChild(u, n, only), u[n].parent, n, only), n)
        at[i \in 0..Cardinality(DOMAIN t)] ==
            IF i = 0 THEN [tree |-> t, cur |-> from]
            ELSE LET s == at[i - 1] IN
                 IF ~Singleton(s.tree, s.cur) THEN s
                 ELSE [tree |-> Promote(s.tree, s.cur), cur |-> s.tree[s.cur].parent]
    IN at[Cardinality(DOMAIN t)].tree

-----------------------------------------------------------------------------
(* A tree is well formed if parents and children agree, every node has one *)
(* place and hangs from a root; a Stack with children shows one of them,   *)
(* and a zoom target lies under its Stack.                                 *)
WellFormed(t) ==
    /\ \A n \in DOMAIN t :
        /\ t[n].kind \in Kinds
        /\ t[n].parent # Nil => IsChild(t, t[n].parent, n)
        /\ IsInjective(t[n].kids)
        /\ \A c \in ToSet(t[n].kids) : c \in DOMAIN t /\ t[c].parent = n
        /\ t[n].kind = "stack" => (t[n].active = Nil <=> t[n].kids = <<>>)
        /\ t[n].active # Nil => t[n].active \in ToSet(t[n].kids)
        /\ t[n].zoom # Nil => t[n].zoom \in Subtree(t, n) \ {n}
    /\ DOMAIN t = UNION {Subtree(t, r) : r \in {n \in DOMAIN t : IsOrphan(t, n)}}
=============================================================================
