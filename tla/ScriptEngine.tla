----------------------------- MODULE ScriptEngine -----------------------------
(***************************************************************************)
(* The script engine's own bookkeeping, as operators on one record: the    *)
(* instances in load order, who registered which listener on which object, *)
(* the per-pane filter counts the parse worker's flag mirrors, popups and  *)
(* embedded terminals, timers, queued jobs, actions and handlers, and the  *)
(* list of approved and denied scripts kept on disk.                       *)
(*                                                                         *)
(* An id is never given twice.  inst[id].ctx is FALSE from the moment the  *)
(* context is freed; inst[id].held while the deque still has the entry: an *)
(* entry whose context went while instances_ was being iterated is swept   *)
(* by the outermost IterGuard.  QuickJS itself is external: a queued job   *)
(* keeps its context alive, so it runs even after its instance is gone.    *)
(***************************************************************************)
EXTENDS ScriptWs

CONSTANTS Paths,    \* script files
          Hashes,   \* contents a file may have; "broken" does not parse
          Requests, \* sets of permissions a script may ask for
          Panes,    \* panes: Uuids, none is used twice
          Names,    \* popup ids, namespaces, action names
          MaxId,    \* bound: instances ever made
          MaxTimer, \* bound: timers ever made
          Nil
ASSUME ScriptEngineAssumption ==
    /\ MaxId \in Nat \ {0} /\ MaxTimer \in Nat
    /\ IsFiniteSet(Paths) /\ IsFiniteSet(Panes) /\ IsFiniteSet(Names)
    /\ "loader" \notin Paths /\ Nil \notin Names
    /\ Requests \subseteq SUBSET All

\* The objects a script may put listeners on.
PaneObj(p)     == <<"pane", p>>
PopupObj(p, n) == <<"popup", p, n>>
EmbedObj(p, l) == <<"embedded", p, l>>
Objects == {PaneObj(p) : p \in Panes} \cup {PopupObj(p, n) : p \in Panes, n \in Names}
           \cup {EmbedObj(p, l) : p \in Panes, l \in Names}
           \cup {<<"mb">>}
\* Events whose registrations are counted per pane; those of filters are
\* mirrored in a flag that other threads read.
Filters == {"output", "input"}
Counted == Filters \cup {"mousemove"}

Live(e, id) == id \in DOMAIN e.inst /\ e.inst[id].ctx
BuiltIn(e, id) == Live(e, id) /\ e.inst[id].builtIn
HasPerm(e, id, perms) == Live(e, id) /\ perms \cap e.inst[id].perms # {}
\* findInstance skips what lost its context.
LiveIds(e) == {id \in DOMAIN e.inst : e.inst[id].ctx}
InOrder(e, ids) == SelectSeq([i \in 1..Cardinality(DOMAIN e.inst) |-> i], LAMBDA i : i \in ids)

NoUses == [v \in Counted |-> [p \in Panes |-> 0]]
NewInstance(path, hash, perms, builtIn) ==
    [path |-> path, hash |-> hash, perms |-> perms, builtIn |-> builtIn,
     ctx |-> TRUE, held |-> TRUE, ns |-> Nil,
     popups |-> {}, embeds |-> {}, uses |-> NoUses]

-----------------------------------------------------------------------------
(* Listeners.  lst[<<id, obj>>] is what hangs on the object handle in the    *)
(* context's registry: the first handle that was given a listener.  Another  *)
(* handle of the same object is not found there.                             *)

Registered(e, id, obj) == <<id, obj>> \in DOMAIN e.lst
Listeners(e, id, obj, v) ==
    IF Registered(e, id, obj) /\ v \in DOMAIN e.lst[<<id, obj>>]
    THEN e.lst[<<id, obj>>][v] ELSE 0
RegisterInGlobal(e, id, obj) ==
    IF Registered(e, id, obj) THEN e
    ELSE [e EXCEPT !.lst = Put(@, <<id, obj>>, <<>>)]
Unregister(e, id, obj) ==
    [e EXCEPT !.lst = [k \in DOMAIN @ \ {<<id, obj>>} |-> @[k]]]
\* push on the array of the handle; a handle outside the registry keeps its own.
PushListener(e, id, obj, v, reached) ==
    IF ~reached THEN e
    ELSE [e EXCEPT !.lst[<<id, obj>>] = Put(@, v, Listeners(e, id, obj, v) + 1)]
\* splice: the counts of filters are left as they are.
RemoveFromJSArray(e, id, obj, v) ==
    IF Listeners(e, id, obj, v) = 0 THEN e
    ELSE [e EXCEPT !.lst[<<id, obj>>][v] = @ - 1]

AddCounted(e, id, p, v) ==
    [e EXCEPT !.count[v][p] = @ + 1,
              !.flag = [f \in Filters |-> IF f = v THEN [@[f] EXCEPT ![p] = TRUE] ELSE @[f]],
              !.inst[id].uses[v][p] = @ + 1]
AddPaneOutputFilter(e, id, p)      == AddCounted(e, id, p, "output")
AddPaneInputFilter(e, id, p)       == AddCounted(e, id, p, "input")
AddPaneMouseMoveListener(e, id, p) == AddCounted(e, id, p, "mousemove")

\* REQUIRE_PERM's other half: a zero-delay timer unloads the script.
ScheduleTermination(e, id) ==
    IF Live(e, id) /\ ~e.inst[id].builtIn THEN [e EXCEPT !.exits = @ \cup {id}] ELSE e
Require(e, id, perm, then) ==
    IF HasPerm(e, id, {perm}) THEN then ELSE ScheduleTermination(e, id)

\* Pane.addEventListener.  same: the handle is the registered one, if any is.
PaneListenerAllowed(e, id, v) ==
    CASE v = "output" -> HasPerm(e, id, {"io.filter.output"})
      [] v = "input"  -> HasPerm(e, id, {"io.filter.input"})
      [] v \in {"mouse", "mousemove"} -> HasPerm(e, id, GroupUi)
      [] v = "commandComplete" -> HasPerm(e, id, {"shell.commands"})
      [] OTHER -> TRUE
JsPaneAddEventListener(e, id, p, v, same) ==
    LET obj == PaneObj(p)
        counted == CASE v = "output" -> AddPaneOutputFilter(e, id, p)
                     [] v = "input" -> AddPaneInputFilter(e, id, p)
                     [] v = "mousemove" -> AddPaneMouseMoveListener(e, id, p)
                     [] OTHER -> e
    IN IF PaneListenerAllowed(e, id, v)
       THEN PushListener(RegisterInGlobal(counted, id, obj), id, obj, v,
                         same \/ ~Registered(e, id, obj))
       ELSE IF v = "commandComplete" THEN ScheduleTermination(e, id) ELSE e
JsPaneRemoveEventListener(e, id, p, v) == RemoveFromJSArray(e, id, PaneObj(p), v)

\* Popups and embedded terminals have no counts; a denial only throws.
SurfaceListenerAllowed(e, id, v) ==
    CASE v = "input" -> HasPerm(e, id, {"io.filter.input"})
      [] v \in {"mouse", "mousemove"} -> HasPerm(e, id, GroupUi)
      [] OTHER -> TRUE
AddSurfaceListener(e, id, obj, v, same) ==
    IF SurfaceListenerAllowed(e, id, v)
    THEN PushListener(RegisterInGlobal(e, id, obj), id, obj, v, same \/ ~Registered(e, id, obj))
    ELSE e
JsPopupAddEventListener(e, id, p, n, v, same)    == AddSurfaceListener(e, id, PopupObj(p, n), v, same)
JsEmbeddedAddEventListener(e, id, p, l, v, same) == AddSurfaceListener(e, id, EmbedObj(p, l), v, same)
JsPopupRemoveEventListener(e, id, p, n, v)       == RemoveFromJSArray(e, id, PopupObj(p, n), v)
JsEmbeddedRemoveEventListener(e, id, p, l, v)    == RemoveFromJSArray(e, id, EmbedObj(p, l), v)
\* mb is one object per context, and asks for nothing.
JsMbAddEventListener(e, id, v) ==
    PushListener(RegisterInGlobal(e, id, <<"mb">>), id, <<"mb">>, v, TRUE)
JsMbRemoveEventListener(e, id, v) == RemoveFromJSArray(e, id, <<"mb">>, v)

-----------------------------------------------------------------------------
(* Asynchronous events: one job for each listener, instance by instance.     *)

Job(id, v) == [id |-> id, event |-> v]
JobsFor(e, ids, obj, v) ==
    FoldLeft(LAMBDA js, id : js \o [i \in 1..Listeners(e, id, obj, v) |-> Job(id, v)],
             <<>>, InOrder(e, ids))
EnqueueListeners(e, ids, obj, v) == [e EXCEPT !.jobs = @ \o JobsFor(e, ids, obj, v)]
NotifyMb(e, v)      == EnqueueListeners(e, LiveIds(e), <<"mb">>, v)
NotifyPane(e, p, v) == EnqueueListeners(e, LiveIds(e), PaneObj(p), v)

NotifyAction(e)           == NotifyMb(e, "action")
NotifyConfigChanged(e)    == NotifyMb(e, "configChanged")
NotifyPaneCreated(e)      == NotifyMb(e, "paneCreated")
NotifyTabCreated(e)       == NotifyMb(e, "tabCreated")
NotifyTabDestroyed(e)     == NotifyMb(e, "tabDestroyed")
NotifyTerminalExited(e)   == NotifyMb(e, "terminalExited")
FireQuitRequested(e)      == NotifyMb(e, "quit-requested")
HasQuitListeners(e) == \E id \in LiveIds(e) : Listeners(e, id, <<"mb">>, "quit-requested") > 0
NotifyPaneResized(e, p)              == NotifyPane(e, p, "resized")
\* The pane's own listeners and, with the pane as payload, those on mb.
NotifyOSC(e, p) ==
    [e EXCEPT !.jobs = FoldLeft(LAMBDA js, id : js \o JobsFor(e, {id}, PaneObj(p), "osc")
                                                   \o JobsFor(e, {id}, <<"mb">>, "osc"),
                                @, InOrder(e, LiveIds(e)))]
NotifyForegroundProcessChanged(e, p) == NotifyPane(e, p, "foregroundProcessChanged")
NotifyPaneFocusChanged(e, p)         == NotifyPane(e, p, "focusChanged")
NotifyFocusedPopupChanged(e, p)      == NotifyPane(e, p, "focusedPopupChanged")
NotifyPaneMouseMove(e, p)            == NotifyPane(e, p, "mousemove")
NotifyCommandComplete(e, p)          == NotifyPane(e, p, "commandComplete")
NotifyCommandSelectionChanged(e, p)  == NotifyPane(e, p, "commandSelectionChanged")
\* Only built-in scripts see permission requests.
NotifyPermissionRequired(e) ==
    EnqueueListeners(e, {id \in LiveIds(e) : e.inst[id].builtIn}, <<"mb">>,
                     "scriptPermissionRequired")
DeliverEmbeddedDestroyed(e, p, l) ==
    EnqueueListeners(e, LiveIds(e), EmbedObj(p, l), "destroyed")

\* Counts and flags of the pane go, its listeners hear of it, its registered
\* handles die.  The count of mousemove listeners stays.
CleanupPane(e, p) ==
    LET told == NotifyPane(e, p, "destroyed") IN
    [told EXCEPT !.count = [v \in Counted |-> IF v \in Filters THEN [@[v] EXCEPT ![p] = 0] ELSE @[v]],
                 !.flag = [v \in Filters |-> [@[v] EXCEPT ![p] = FALSE]],
                 !.lst = [k \in {j \in DOMAIN @ : j[2] # PaneObj(p)} |-> @[k]]]
NotifyPaneDestroyed(e, p) == CleanupPane(NotifyMb(e, "paneDestroyed"), p)

-----------------------------------------------------------------------------
(* Popups, embedded terminals, timers, names.                                *)

\* A Popup handle names its popup by pane and id: whoever made the popup that
\* has the name now.
HasPopup(e, p, n) == p \in e.panes /\ <<p, n>> \in e.popups
CreatePopup(e, p, n)  == [e EXCEPT !.popups = @ \cup {<<p, n>>}]
DestroyPopup(e, p, n) ==
    LET was == HasPopup(e, p, n) /\ e.focused[p] = PopupObj(p, n)
        gone == [e EXCEPT !.popups = @ \ {<<p, n>>},
                          !.focused[p] = IF was THEN Nil ELSE @]
    IN CASE ~HasPopup(e, p, n) -> e
         [] HasPopup(e, p, n) /\ was -> NotifyFocusedPopupChanged(gone, p)
         [] HasPopup(e, p, n) /\ ~was -> gone
JsPaneCreatePopup(e, id, p, n) ==
    Require(e, id, "ui.popup.create",
        IF p \notin e.panes \/ HasPopup(e, p, n) THEN e
        ELSE [CreatePopup(e, p, n) EXCEPT !.inst[id].popups = @ \cup {<<p, n>>}])
JsPopupClose(e, id, p, n) ==
    Require(e, id, "ui.popup.destroy", Unregister(DestroyPopup(e, p, n), id, PopupObj(p, n)))
SetFocusedPopup(e, p, n) ==
    IF ~HasPopup(e, p, n) THEN e
    ELSE NotifyFocusedPopupChanged([e EXCEPT !.focused[p] = PopupObj(p, n)], p)
JsPopupFocus(e, id, p, n) == Require(e, id, "ui.focus", SetFocusedPopup(e, p, n))

\* An embedded terminal is anchored to a line; a line never has a second one.
HasEmbedded(e, p, l) == p \in e.panes /\ <<p, l>> \in e.embeds
CreateEmbedded(e, p, l)  == [e EXCEPT !.embeds = @ \cup {<<p, l>>}, !.lines = @ \cup {<<p, l>>}]
DestroyEmbedded(e, p, l) == [e EXCEPT !.embeds = @ \ {<<p, l>>},
                                      !.focused[p] = IF @ = EmbedObj(p, l) THEN Nil ELSE @]
JsPaneCreateEmbedded(e, id, p, l) ==
    Require(e, id, "ui.popup.create",
        IF p \notin e.panes \/ <<p, l>> \in e.lines THEN e
        ELSE [CreateEmbedded(e, p, l) EXCEPT !.inst[id].embeds = @ \cup {<<p, l>>}])
JsEmbeddedClose(e, id, p, l) ==
    Require(e, id, "ui.popup.destroy",
        Unregister(DeliverEmbeddedDestroyed(DestroyEmbedded(e, p, l), p, l), id, EmbedObj(p, l)))
SetFocusedEmbedded(e, p, l) ==
    IF ~HasEmbedded(e, p, l) THEN e
    ELSE NotifyFocusedPopupChanged([e EXCEPT !.focused[p] = EmbedObj(p, l)], p)
JsEmbeddedFocus(e, id, p, l) == Require(e, id, "ui.focus", SetFocusedEmbedded(e, p, l))

\* A timer keeps the context it was made in; no permission is asked for.
NextTimer(e) == e.made + 1
SetTimer(e, id, interval) ==
    [e EXCEPT !.made = @ + 1, !.timers = Put(@, NextTimer(e), [id |-> id, interval |-> interval])]
JsSetTimeout(e, id)  == SetTimer(e, id, FALSE)
JsSetInterval(e, id) == SetTimer(e, id, TRUE)
JsClearTimer(e, t) == [e EXCEPT !.timers = [k \in DOMAIN @ \ {t} |-> @[k]]]

\* One namespace each, for good, and not one a living instance holds.
SetNamespace(e, id, n) ==
    IF \/ e.inst[id].ns # Nil
       \/ \E o \in LiveIds(e) \ {id} : e.inst[o].ns = n
    THEN e ELSE [e EXCEPT !.inst[id].ns = n]
JsMbSetNamespace(e, id, n) == IF Live(e, id) THEN SetNamespace(e, id, n) ELSE e
RegisterAction(e, id, n) ==
    LET full == <<e.inst[id].ns, n>>
    IN IF e.inst[id].ns = Nil \/ full \in DOMAIN e.actions THEN e
       ELSE [e EXCEPT !.actions = Put(@, full, id)]
JsMbRegisterAction(e, id, n) ==
    Require(e, id, "actions.invoke", RegisterAction(e, id, n))

\* mb.config: the caller's copy, with the change, goes through applyConfig.
ApplyConfigJson(e, keys) == NotifyConfigChanged([e EXCEPT !.keys = keys])
JsMbConfigPatch(e, id, keys) == Require(e, id, "config.modify", ApplyConfigJson(e, keys))
JsMbConfigAddKeybinding(e, id, k) ==
    Require(e, id, "config.modify", ApplyConfigJson(e, Append(e.keys, k)))
JsMbConfigRemoveKeybinding(e, id, k) ==
    Require(e, id, "config.modify", ApplyConfigJson(e, SelectSeq(e.keys, LAMBDA j : j # k)))

JsMbConfigAddMousebinding(e, id)    == Require(e, id, "config.modify", ApplyConfigJson(e, e.keys))
JsMbConfigRemoveMousebinding(e, id) == Require(e, id, "config.modify", ApplyConfigJson(e, e.keys))

\* Calls whose effect is elsewhere: here only what a missing permission costs.
JsPaneWrite(e, id)       == Require(e, id, "shell.write", e)
JsPanePaste(e, id)       == Require(e, id, "shell.write", e)
JsTerminalInject(e, id)  == Require(e, id, "io.inject", e)
JsPaneGetSelection(e, id) == Require(e, id, "pane.selection", e)
JsMbGetClipboard(e, id)  == Require(e, id, "clipboard.read", e)
JsMbSetClipboard(e, id)  == Require(e, id, "clipboard.write", e)
\* Custom terminal capabilities: nobody owns them, so they outlive the script.
JsMbRegisterTcap(e, id, n)   == Require(e, id, "actions.invoke", [e EXCEPT !.tcaps = @ \cup {n}])
JsMbUnregisterTcap(e, id, n) == Require(e, id, "actions.invoke", [e EXCEPT !.tcaps = @ \ {n}])

\* A handler owns the action: the last one registered.
RegisterActionHandler(e, id, n) == [e EXCEPT !.handlers = Put(@, n, id)]
UnregisterActionHandler(e, n) ==
    [e EXCEPT !.handlers = [k \in DOMAIN @ \ {n} |-> @[k]]]
JsMbActionsRegister(e, id, n) ==
    Require(e, id, "layout.modify", RegisterActionHandler(e, id, n))
JsMbActionsUnregister(e, id, n) ==
    Require(e, id, "layout.modify", UnregisterActionHandler(e, n))

-----------------------------------------------------------------------------
(* Unloading.                                                                *)

\* Mutant: the flag falls with the first instance that goes.
DropCountsFlagFalls(e, id) ==
    LET left(v, p) == e.count[v][p] - e.inst[id].uses[v][p]
    IN [e EXCEPT
        !.count = [v \in Counted |-> [p \in Panes |-> IF left(v, p) > 0 THEN left(v, p) ELSE 0]],
        !.flag  = [v \in Filters |-> [p \in Panes |-> @[v][p] /\ e.inst[id].uses[v][p] = 0]]]
\* A pane's count goes down once for each registration of the instance; at
\* zero the flag falls.
DropCounts(e, id) ==
    LET left(v, p) == e.count[v][p] - e.inst[id].uses[v][p]
    IN [e EXCEPT
        !.count = [v \in Counted |-> [p \in Panes |-> IF left(v, p) > 0 THEN left(v, p) ELSE 0]],
        !.flag  = [v \in Filters |-> [p \in Panes |->
                     IF e.inst[id].uses[v][p] > 0 /\ left(v, p) <= 0 THEN FALSE ELSE @[v][p]]]]
\* destroyPopup and destroyEmbedded for each that the instance made.
DropSurfaces(e, id) ==
    LET i == e.inst[id]
        popups == {x \in i.popups : HasPopup(e, x[1], x[2])}
        blurred == {x \in popups : e.focused[x[1]] = PopupObj(x[1], x[2])}
        gone == {PopupObj(x[1], x[2]) : x \in popups} \cup {EmbedObj(x[1], x[2]) : x \in i.embeds}
    IN [e EXCEPT !.popups = @ \ popups, !.embeds = @ \ i.embeds,
                 !.focused = [p \in DOMAIN @ |-> IF @[p] \in gone THEN Nil ELSE @[p]],
                 !.jobs = FoldLeft(LAMBDA js, x : js \o JobsFor(e, LiveIds(e), PaneObj(x[1]),
                                                                "focusedPopupChanged"),
                                   @, SetToSeq(blurred))]
\* Mutant: the handlers of the instance stay.
DropNamesKeepsHandlers(e, id) ==
    [e EXCEPT !.timers   = [t \in {u \in DOMAIN @ : @[u].id # id} |-> @[t]],
              !.actions  = [n \in {m \in DOMAIN @ : @[m] # id} |-> @[n]],
              !.w = WsUnloadInstance(@, id)]
DropNames(e, id) ==
    [e EXCEPT !.timers   = [t \in {u \in DOMAIN @ : @[u].id # id} |-> @[t]],
              !.actions  = [n \in {m \in DOMAIN @ : @[m] # id} |-> @[n]],
              !.handlers = [n \in {m \in DOMAIN @ : @[m] # id} |-> @[n]],
              !.w = WsUnloadInstance(@, id)]
StaysHeld(iterating) == iterating
\* Engine::unload of an instance that has its context.
Unload(e, id, iterating) ==
    IF ~Live(e, id) THEN e
    ELSE LET d == DropNames(DropCounts(DropSurfaces(e, id), id), id)
         IN [d EXCEPT !.inst[id] = [@ EXCEPT !.ctx = FALSE, !.held = StaysHeld(iterating),
                                             !.ns = Nil, !.popups = {}, !.embeds = {},
                                             !.uses = NoUses],
                      !.lst = [k \in {j \in DOMAIN @ : j[1] # id} |-> @[k]]]
\* Engine::~Engine: every instance is unloaded, timers without one go.
Destroy(e) ==
    LET gone == FoldLeft(LAMBDA a, id : Unload(a, id, FALSE), [e EXCEPT !.w = WsDestroyEngine(@)],
                         [id \in 1..Cardinality(DOMAIN e.inst) |-> id])
    IN [gone EXCEPT !.timers = <<>>, !.handlers = <<>>, !.jobs = <<>>]
\* The outermost IterGuard's sweep.
Sweep(e) == [e EXCEPT !.inst = [id \in DOMAIN @ |-> IF e.inst[id].ctx THEN @[id]
                                                      ELSE [@[id] EXCEPT !.held = FALSE]]]

-----------------------------------------------------------------------------
(* Loading.  Evaluating a module runs its body up to its first await; that  *)
(* is the caller's business: see Scripts.                                   *)

NextId(e) == Cardinality(DOMAIN e.inst) + 1
Same(e, path, hash, perms) ==
    {id \in LiveIds(e) : /\ ~e.inst[id].builtIn
                         /\ e.inst[id].path = path
                         /\ e.inst[id].hash = hash
                         /\ e.inst[id].perms = perms}
SamePath(e, path) == {id \in LiveIds(e) : ~e.inst[id].builtIn /\ e.inst[id].path = path}
\* What loadScriptInternal leaves: nothing is done for an identical instance;
\* else the one of this path goes and a new one comes, unless the text does
\* not parse, which costs an id.
LoadScriptInternal(e, path, hash, perms, iterating) ==
    LET old == SamePath(e, path)
        u == IF old = {} THEN e ELSE Unload(e, Min(old), iterating)
        new == NewInstance(path, hash, perms, FALSE)
        failed == [new EXCEPT !.ctx = FALSE, !.held = FALSE]
    IN IF Same(e, path, hash, perms) # {} THEN e
       ELSE [u EXCEPT !.inst = Put(@, NextId(e), IF hash = "broken" THEN failed ELSE new)]

VerifyModuleHashes(e, path) == e.list.allow[path].modules = e.modules[path]
\* May the script be loaded without asking?
Trusted(e, path, perms) ==
    /\ Check(e.list, path, e.disk[path])
    /\ perms \subseteq e.list.allow[path].perms
    /\ VerifyModuleHashes(e, path)

LoadScript(e, path, perms, iterating) ==
    LET hash == e.disk[path] IN
    CASE IsDenied(e.list, path, hash) -> e
      [] ~IsDenied(e.list, path, hash) /\ Trusted(e, path, perms) ->
           LoadScriptInternal(e, path, hash, perms, iterating)
      [] OTHER -> NotifyPermissionRequired(
                      [e EXCEPT !.pending[path] = [hash |-> hash, perms |-> perms]])

\* The user's answer, brought by a built-in script: "y" once, "a" always,
\* "d" never, "n" not now.
ApproveScript(e, path, response, iterating) ==
    LET ask == e.pending[path]
        u == [e EXCEPT !.pending[path] = Nil]
        load(a) == LoadScriptInternal(a, path, ask.hash, ask.perms, iterating)
    IN CASE ask = Nil -> e
         [] ask # Nil /\ response = "y" -> load(u)
         [] ask # Nil /\ response = "a" -> load([u EXCEPT !.list = Allow(@, path, ask.hash, ask.perms, u.modules[path])])
         [] ask # Nil /\ response = "d" -> [u EXCEPT !.list = Deny(@, path, ask.hash)]
         [] ask # Nil /\ response = "n" -> u
=============================================================================
