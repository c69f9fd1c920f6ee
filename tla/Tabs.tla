-------------------------------- MODULE Tabs --------------------------------
(***************************************************************************)
(* Tabs, panes and the keyboard focus, all kept by the main thread: the    *)
(* layout tree under the Stack of tabs, the engine's map of Terminals, its *)
(* one focused node and the node each tab remembers.  Actions come from    *)
(* the keyboard, the mouse and notifications; default-ui.js runs most of   *)
(* them, and it also takes the node of an exited Terminal out of the tree, *)
(* in a listener that is queued when the Terminal is killed and runs when  *)
(* the script engine's jobs next run: until then a node without a Terminal *)
(* is in the tree and other handlers meet it.                              *)
(*                                                                         *)
(* Left out: sizes and rectangles (which pane is beside which is any       *)
(* choice among those shown), titles, icons, popups, and the layout calls  *)
(* only user scripts make.                                                 *)
(***************************************************************************)
EXTENDS LayoutTree

CONSTANTS RootStack,    \* layoutRootStack: its children are the tabs
          MaxTabs,      \* bound: tabs open at once
          MaxPanes,     \* bound: Terminals alive at once
          MaxFailures,  \* bound: Terminals whose PTY could not be opened
          MaxEvents     \* bound: actions of the user and exits
ASSUME TabsAssumption ==
    /\ RootStack \in Ids
    /\ MaxTabs \in Nat /\ MaxPanes \in Nat /\ MaxFailures \in Nat /\ MaxEvents \in Nat

VARIABLES
    ui,     \* what the main thread's handlers share: see Start
    exits,  \* pendingExits_: Terminals whose child is gone
    asked,  \* what an open "Close?" dialog is about and the pane it is on, or Nil
    events  \* how many actions and exits there were
vars == <<ui, exits, asked, events>>

\* tree; live, the nodes with a Terminal; focus, focusedTerminalNodeId_;
\* last, lastFocusedInTab_; jobs, the queued terminalExited listeners;
\* back, the node each pager gives the focus back to; unborn, nodes whose
\* Terminal could not be opened; quit.
TabRoots(u) == u.tree[RootStack].kids
ActiveTab(u) == u.tree[RootStack].active
TabOf(u, n) ==
    LET tabs == {r \in ToSet(TabRoots(u)) : IsUnder(u.tree, r, n)}
    IN IF tabs = {} THEN Nil ELSE CHOOSE r \in tabs : TRUE
Panes(u, tab) == SelectSeq(Leaves(u.tree, tab), LAMBDA n : n \in u.live)
FocusedPane(u, tab) ==
    IF u.focus # Nil /\ IsUnder(u.tree, tab, u.focus) THEN u.focus ELSE Nil
RememberedFocus(u, tab) ==
    IF tab \in DOMAIN u.last /\ IsUnder(u.tree, tab, u.last[tab]) THEN u.last[tab] ELSE Nil

\* The focus may name any node; the tab that has it remembers it.
SetFocus(u, n) ==
    LET tab == TabOf(u, n) IN
    IF n = Nil \/ tab = Nil THEN [u EXCEPT !.focus = n]
    ELSE [u EXCEPT !.focus = n, !.last = (tab :> n) @@ @]

FocusPaneById(u, n) == IF TabOf(u, n) = Nil THEN u ELSE SetFocus(u, n)

SetActiveTab(u, tab) ==
    LET v == [u EXCEPT !.tree = SetActiveChild(@, RootStack, tab)]
        panes == Panes(v, tab)
        remembered == RememberedFocus(v, tab)
    IN CASE panes = <<>> -> SetFocus(v, Nil)
         [] panes # <<>> /\ remembered # Nil -> SetFocus(v, remembered)
         [] panes # <<>> /\ remembered = Nil ->
              IF v.focus \in ToSet(panes) THEN v ELSE SetFocus(v, Head(panes))

-----------------------------------------------------------------------------
(* Removing things. *)

\* The last tab stays; else the tab before the closed one, or the first, is
\* activated, whichever was active.
CloseTab(u, tab) ==
    LET idx    == IndexOf(TabRoots(u), tab)
        killed == ToSet(Panes(u, tab))
        v == [u EXCEPT !.live = @ \ killed,
                       !.back = [p \in DOMAIN @ \ killed |-> @[p]],
                       !.last = [r \in DOMAIN @ \ {tab} |-> @[r]],
                       !.tree = DestroyNode(@, tab),
                       !.unborn = @ \ Subtree(u.tree, tab),
                       !.focus = Nil]
        next == TabRoots(v)[IF idx > 1 THEN idx - 1 ELSE 1]
        w == [v EXCEPT !.tree = SetActiveChild(@, RootStack, next)]
        panes == Panes(w, next)
    IN IF Len(TabRoots(u)) = 1 \/ tab \notin ToSet(TabRoots(u)) THEN u
       ELSE IF panes = <<>> THEN w
       ELSE SetFocus(w, IF RememberedFocus(w, next) = Nil THEN Head(panes)
                        ELSE RememberedFocus(w, next))

\* Mutant: the scripts are not told.
KillTerminalSilently(u, n) == [u EXCEPT !.live = @ \ {n}]
\* The Terminal goes to the graveyard, its node stays for the listener.
KillTerminal(u, n) ==
    IF n \notin u.live THEN u
    ELSE [u EXCEPT !.live = @ \ {n},
                   !.back = [p \in DOMAIN @ \ {n} |-> @[p]],
                   !.jobs = Append(@, n)]

\* removeNodeSubtree.  It refuses a node with a live Terminal under it.
CanRemove(u, n) == /\ TabOf(u, n) \notin {Nil, n}
                   /\ ToSet(Leaves(u.tree, n)) \cap u.live = {}
Detach(u, n) ==
    [u EXCEPT !.focus  = IF @ \in ToSet(Leaves(u.tree, n)) THEN Nil ELSE @,
              !.unborn = @ \ Subtree(u.tree, n),
              !.tree   = CollapseSingletonsAbove(DestroyNode(@, n), @[n].parent, TabOf(u, n))]

\* A tab that has Terminals and no focus gets it.
RemoveNode(u, n) ==
    LET v == Detach(u, n)
        panes == Panes(v, TabOf(u, n))
    IN CASE ~CanRemove(u, n) -> u
         [] CanRemove(u, n) /\ panes # <<>> /\ FocusedPane(v, TabOf(u, n)) = Nil ->
              SetFocus(v, Head(panes))
         [] OTHER -> v

\* The first empty tab closes, or the program if it is the last tab.
CloseFirst(u, empty) ==
    CASE empty = <<>> -> u
      [] empty # <<>> /\ Len(TabRoots(u)) <= 1 -> [u EXCEPT !.quit = TRUE]
      [] empty # <<>> /\ Len(TabRoots(u)) > 1 -> CloseTab(u, Head(empty))

\* Mutants: only the active tab is looked at; a tab is empty if its content is.
OnTerminalExitedHere(u, n) ==
    LET v == RemoveNode(u, n) IN
    CloseFirst(v, IF Leaves(v.tree, ActiveTab(v)) = <<>> THEN <<ActiveTab(v)>> ELSE <<>>)
\* The terminalExited listener: the node goes, and then a tab without a
\* Terminal node.
OnTerminalExited(u, n) ==
    LET v == RemoveNode(u, n) IN
    CloseFirst(v, SelectSeq(TabRoots(v), LAMBDA r : Leaves(v.tree, r) = <<>>))

ExecutePendingJobs(u) == FoldLeft(OnTerminalExited, [u EXCEPT !.jobs = <<>>], u.jobs)

-----------------------------------------------------------------------------
(* Creating things.  A Uuid is new: no node and no reference has it. *)

Known(u) == DOMAIN u.tree \cup {u.focus} \cup DOMAIN u.last \cup ToSet(u.jobs)
            \cup {u.last[r] : r \in DOMAIN u.last} \cup {u.back[p] : p \in DOMAIN u.back}
            \cup ToSet(exits) \cup (IF asked = Nil THEN {} ELSE {asked.what, asked.host})
Free(u) == Ids \ Known(u)
Fresh(u, k) == LET free == Free(u)
               IN CHOOSE n \in free : Cardinality({m \in free : m < n}) = k - 1

CanSpawn(u, ids, ok) ==
    /\ Cardinality(Free(u)) >= ids
    /\ Cardinality(u.live) < MaxPanes
    /\ ok \/ Cardinality(u.unborn) < MaxFailures

\* The node is in the tree; its Terminal may fail to start, and stays away.
SpawnTerminalForPane(u, n, ok) ==
    IF ok THEN [u EXCEPT !.live = @ \cup {n}] ELSE [u EXCEPT !.unborn = @ \cup {n}]

\* Stack > content Container > Terminal, as default-ui.js nests them.
CreateTab(u, stack, content) ==
    LET t == Create(Create(u.tree, stack, "stack"), content, "container")
    IN [u EXCEPT !.tree = AppendChild(AppendChild(t, stack, content), RootStack, stack)]

CreateTerminalInContainer(u, parent, n, ok) ==
    LET at == IF IsKind(u.tree, parent, "stack") /\ u.tree[parent].active # Nil
              THEN u.tree[parent].active ELSE parent
    IN SpawnTerminalForPane([u EXCEPT !.tree = AppendChild(Create(@, n, "terminal"), at, n)], n, ok)

-----------------------------------------------------------------------------
(* default-ui.js has built the first tab. *)

Empty == [tree |-> Create([n \in {} |-> NewNode("stack")], RootStack, "stack"),
          live |-> {}, focus |-> Nil, last |-> <<>>, jobs |-> <<>>, back |-> <<>>,
          unborn |-> {}, quit |-> FALSE]
Start == FocusPaneById(CreateTerminalInContainer(CreateTab(Empty, Fresh(Empty, 1), Fresh(Empty, 2)),
                                                Fresh(Empty, 2), Fresh(Empty, 3), TRUE),
                       Fresh(Empty, 3))

Init == /\ exits = <<>>
        /\ asked = Nil
        /\ events = 0
        /\ ui = Start

-----------------------------------------------------------------------------
(* The actions of a user.  Each is dispatched as a whole and ends with the *)
(* script jobs it queued or found queued.                                  *)

Turn == ~ui.quit /\ events < MaxEvents /\ events' = events + 1 /\ UNCHANGED exits
Dispatch(u) == ui' = ExecutePendingJobs(u)
Focused == FocusedPane(ui, ActiveTab(ui))

NewTab(ok) ==
    /\ Turn
    /\ CanSpawn(ui, 3, ok)
    /\ Len(TabRoots(ui)) < MaxTabs
    /\ LET stack == Fresh(ui, 1)
           pane  == Fresh(ui, 3)
           u == CreateTerminalInContainer(CreateTab(ui, stack, Fresh(ui, 2)), stack, pane, ok)
       IN Dispatch(SetActiveTab(FocusPaneById(u, pane), stack))
    /\ UNCHANGED asked

SplitPane(newIsFirst, ok) ==
    /\ Turn
    /\ Focused # Nil
    /\ CanSpawn(ui, 2, ok)
    /\ LET pane == Fresh(ui, 1)
           t == SplitByWrapping(Create(ui.tree, pane, "terminal"), Focused, Fresh(ui, 2), pane, newIsFirst)
           u == SpawnTerminalForPane([ui EXCEPT !.tree = t], pane, ok)
       IN Dispatch(FocusPaneById(u, pane))
    /\ UNCHANGED asked

\* A dialog may come first; what it is about is fixed when it opens.
ClosePane ==
    /\ Turn
    /\ Focused # Nil
    /\ Dispatch(KillTerminal(ui, Focused))
    /\ UNCHANGED asked
AskClosePane ==
    /\ Turn
    /\ asked = Nil /\ Focused \in ui.live
    /\ Dispatch(ui)
    /\ asked' = [what |-> Focused, host |-> Focused]

CloseTabAction(tab) ==
    /\ Turn
    /\ Dispatch(CloseTab(ui, tab))
    /\ UNCHANGED asked
AskCloseTab(tab) ==
    /\ Turn
    /\ asked = Nil /\ Focused \in ui.live
    /\ Dispatch(ui)
    /\ asked' = [what |-> tab, host |-> Focused]

\* The answer is a job too, behind those that wait.  A dialog dies with the
\* pane it is on, which is a No.
Answer(yes) ==
    /\ Turn
    /\ asked # Nil
    /\ yes => asked.host \in ui.live
    /\ LET u == ExecutePendingJobs(ui)
       IN Dispatch(CASE ~yes -> u
                     [] yes /\ asked.what \in ToSet(TabRoots(u)) -> CloseTab(u, asked.what)
                     [] yes /\ asked.what \notin ToSet(TabRoots(u)) -> KillTerminal(u, asked.what))
    /\ asked' = Nil

ActivateTab(tab) ==
    /\ Turn
    /\ Dispatch(SetActiveTab(ui, tab))
    /\ UNCHANGED asked

\* The pane before or after the focused one, hidden ones included.
Cyclic(delta) ==
    LET panes == Panes(ui, ActiveTab(ui))
        cur   == IndexOf(panes, Focused)
    IN panes[((cur - 1 + delta) % Len(panes)) + 1]
\* A pane a point of the screen can be in.
Hit == {n \in ui.live : /\ n \in Shown(ui.tree, ActiveTab(ui))
                        /\ n \in Active(ui.tree, ActiveTab(ui))}
Neighbours ==
    (IF Focused \in ui.live THEN {Cyclic(1), Cyclic(-1)} ELSE {})
    \cup (IF Focused \in Shown(ui.tree, ActiveTab(ui)) THEN Hit ELSE {})

FocusPane(n) ==
    /\ Turn
    /\ n \in Neighbours /\ n # Focused /\ Focused \in ui.live
    /\ Dispatch(SetFocus(ui, n))
    /\ UNCHANGED asked

SwapPane(n) ==
    /\ Turn
    /\ n \in Neighbours /\ n # Focused
    /\ Dispatch([ui EXCEPT !.tree = SwapLeaves(@, Focused, n)])
    /\ UNCHANGED asked

\* The last leaf is swapped with each before it, or the first with each after.
RotatePanes(delta) ==
    /\ Turn
    /\ LET panes == Panes(ui, ActiveTab(ui))
           order == IF delta > 0 THEN Reverse(panes) ELSE panes
       IN /\ Len(panes) > 1
          /\ Dispatch([ui EXCEPT !.tree =
                FoldLeft(LAMBDA t, n : SwapLeaves(t, Head(order), n), @, Tail(order))])
    /\ UNCHANGED asked

MoveTab(delta) ==
    /\ Turn
    /\ Dispatch([ui EXCEPT !.tree = MoveChild(@, RootStack, ActiveTab(ui), delta)])
    /\ UNCHANGED asked

ZoomPane ==
    /\ Turn
    /\ Focused # Nil
    /\ LET s == NearestStack(ui.tree, Focused)
       IN Dispatch([ui EXCEPT !.tree =
             SetStackZoom(@, s, IF @[s].zoom = Nil THEN Focused ELSE Nil)])
    /\ UNCHANGED asked

\* A pager beside the tab's content.  Its node is made before its PTY, and
\* stays an orphan if that fails.
ShowScrollback(ok) ==
    /\ Turn
    /\ Focused \in ui.live
    /\ CanSpawn(ui, 1, ok)
    /\ LET pager == Fresh(ui, 1)
           tab   == ActiveTab(ui)
           t     == Create(ui.tree, pager, "terminal")
           u == [ui EXCEPT !.tree = SetActiveChild(AppendChild(t, tab, pager), tab, pager),
                           !.live = @ \cup {pager},
                           !.back = (pager :> ui.focus) @@ @]
       IN Dispatch(IF ok THEN SetFocus(u, pager)
                   ELSE [ui EXCEPT !.tree = t, !.unborn = @ \cup {pager}])
    /\ UNCHANGED asked

\* A press on a pane and a click on its notification are not dispatched.
ClickPane(n) ==
    /\ Turn
    /\ n \in Hit
    /\ ui' = SetFocus(ui, n)
    /\ UNCHANGED asked
NotificationActivated(n) ==
    /\ Turn
    /\ n \in ui.live \cup ToSet(ui.jobs) /\ TabOf(ui, n) # Nil
    /\ LET tab == TabOf(ui, n)
           u == IF tab = ActiveTab(ui) THEN ui ELSE SetActiveTab(ui, tab)
       IN ui' = FocusPaneById(u, n)
    /\ UNCHANGED asked

-----------------------------------------------------------------------------
(* Exits.  The thread that sees the child go puts the Terminal in the list; *)
(* a pager also moves the focus.  The end of a tick kills, the next tick    *)
(* runs the listeners.                                                      *)

ChildExits(n) ==
    /\ ~ui.quit /\ events < MaxEvents
    /\ n \in ui.live /\ n \notin ToSet(exits)
    /\ ui' = IF n \in DOMAIN ui.back /\ ui.back[n] \in DOMAIN ui.tree
             THEN SetFocus(ui, ui.back[n]) ELSE ui
    /\ exits' = Append(exits, n)
    /\ events' = events + 1
    /\ UNCHANGED asked

\* onTick: the listeners queued so far, then the exits queued so far.
Tick ==
    /\ ~ui.quit /\ (ui.jobs # <<>> \/ exits # <<>>)
    /\ ui' = FoldLeft(KillTerminal, ExecutePendingJobs(ui), exits)
    /\ exits' = <<>>
    /\ UNCHANGED <<asked, events>>

Next ==
    \/ \E ok \in BOOLEAN : NewTab(ok)
    \/ \E newIsFirst, ok \in BOOLEAN : SplitPane(newIsFirst, ok)
    \/ \E ok \in BOOLEAN : ShowScrollback(ok)
    \/ ClosePane \/ AskClosePane \/ ZoomPane
    \/ \E tab \in ToSet(TabRoots(ui)) : CloseTabAction(tab)
    \/ \E tab \in ToSet(TabRoots(ui)) : AskCloseTab(tab)
    \/ \E tab \in ToSet(TabRoots(ui)) : ActivateTab(tab)
    \/ \E yes \in BOOLEAN : Answer(yes)
    \/ \E delta \in {-1, 1} : RotatePanes(delta)
    \/ \E delta \in {-1, 1} : MoveTab(delta)
    \/ \E n \in ui.live : FocusPane(n)
    \/ \E n \in ui.live : SwapPane(n)
    \/ \E n \in ui.live : ClickPane(n)
    \/ \E n \in DOMAIN ui.tree : NotificationActivated(n)
    \/ \E n \in ui.live : ChildExits(n)
    \/ Tick

Spec == Init /\ [][Next]_vars
-----------------------------------------------------------------------------
(* Properties.  Handlers that run while a listener is queued see a pane    *)
(* without a Terminal: Settled says none is queued.                        *)

Settled == ui.jobs = <<>> /\ ~ui.quit

\* The tree is well formed, tabs are Stacks, Terminals are leaves of it, and
\* only the content Container of a tab may have fewer than two children
\* (LayoutTree's operations and the collapse after a removal keep it so).
TreeOK ==
    /\ WellFormed(ui.tree) /\ DOMAIN ui.tree \subseteq Ids
    /\ \A tab \in ToSet(TabRoots(ui)) : ui.tree[tab].kind = "stack"
    /\ \A n \in DOMAIN ui.tree :
        ui.tree[n].kind = "container" /\ Len(ui.tree[n].kids) < 2 =>
            ui.tree[n].parent \in ToSet(TabRoots(ui))
    /\ ui.focus \in Ids \cup {Nil}
    /\ \A n \in ui.live : IsKind(ui.tree, n, "terminal")

\* That, and every live Terminal has its place under a tab, and a place under a tab
\* without a live Terminal is about to be removed or never got one (the
\* engine's map and the tree are separate, and killTerminal, removeNode and
\* closeTab each change one before the other).
PanesMatchTerminals ==
    LET places == UNION {ToSet(Leaves(ui.tree, tab)) : tab \in ToSet(TabRoots(ui))}
    IN /\ TreeOK
       /\ ui.live \subseteq places
       /\ places \subseteq ui.live \cup ToSet(ui.jobs) \cup ui.unborn

\* Once the listeners have run: a tab whose last pane is gone does not stay
\* (terminalExited of default-ui.js looks for one empty tab per exit, wherever
\* it is).  And the focused node has a Terminal, unless the PTY of a pane could
\* not be opened: then that node may have the focus, or none if it is all that a
\* tab holds (killTerminal leaves the focus on a dead node; removeNode, closeTab
\* and setActiveTab pick another).
EmptyTabsClose == \A tab \in ToSet(TabRoots(ui)) : Leaves(ui.tree, tab) # <<>>
FocusAlive == \/ ui.focus \in ui.live \cup ui.unborn
              \/ ui.focus = Nil /\ \E tab \in ToSet(TabRoots(ui)) : Panes(ui, tab) = <<>>
ExitsSettle == Settled => EmptyTabsClose /\ FocusAlive
=============================================================================
