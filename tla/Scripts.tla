------------------------------- MODULE Scripts -------------------------------
(***************************************************************************)
(* Scripts at run time: the main thread's stack of JavaScript calls and    *)
(* native loops that made them.  A script's listener may call mb, and mb   *)
(* may call listeners: the stack says who is in the middle of what.        *)
(*                                                                         *)
(* Frames: "js", code of an instance; "fan", a native loop over all        *)
(* instances that calls their listeners at once (an IterGuard is held);    *)
(* "timer", fireJsTimer around a callback; "dispatch", an action between   *)
(* its handler and its listeners; "drain", executePendingJobs.             *)
(*                                                                         *)
(* scope picks what the scripts of a behaviour do, so that the state space *)
(* is the sum of the scopes and not their product.                         *)
(***************************************************************************)
EXTENDS ScriptEngine

CONSTANTS Scopes,     \* of "filter", "surface", "names", "load", "net", "files"
          SelfUnload, \* may a script unload an instance being called?
          MaxCalls,   \* bounds, for each scope: calls scripts make,
          MaxEvents   \* and events from outside

ASSUME ScriptsAssumption ==
    /\ MaxCalls \in [Scopes -> Nat] /\ MaxEvents \in [Scopes -> Nat]
    /\ SelfUnload \in BOOLEAN
    /\ Scopes \subseteq {"filter", "surface", "names", "load", "net", "files"}

VARIABLES e,      \* the engine
          stack,  \* the main thread's frames, the innermost last
          scope,
          calls, events, \* spent of the bounds
          said    \* history: the "always" answers of the user
vars == <<e, stack, scope, calls, events, said>>

Top == stack[Len(stack)]
Pop == SubSeq(stack, 1, Len(stack) - 1)
OnTop(k) == stack # <<>> /\ Top.k = k
\* iterDepth_ > 0.
Iterating == \E i \in DOMAIN stack : stack[i].k = "fan"
\* Instances whose code, or whose listener list, a frame is in the middle of.
InUse == {stack[i].id : i \in {j \in DOMAIN stack : stack[j].k = "js"}}
         \cup {stack[i].at : i \in {j \in DOMAIN stack : stack[j].k = "fan"}}

Js(id) == [k |-> "js", id |-> id]
Drain == [k |-> "drain"]
\* A loop over the instances there are now; JS is called for each listener.
Fan(obj, v, drains) ==
    [k |-> "fan", obj |-> obj, v |-> v, drains |-> drains,
     at |-> 0, next |-> 1, len |-> 0, upto |-> Cardinality(DOMAIN e.inst)]

-----------------------------------------------------------------------------
(* The start: the built-in controller and, but for "load", two scripts the   *)
(* user has approved, all waiting for their module bodies to go on.          *)

Builtin == 1
\* Whose code runs: the controller's only where scripts are loaded.
Active(s, ids) == IF s = "load" THEN ids ELSE ids \ {Builtin}
Loader == NewInstance("loader", "loader", All, TRUE)
\* Permissions of the two scripts.
Grants(s) ==
    CASE s = "filter"  -> <<{"io.filter.output", "ui.popup.create", "scripts.unload"}, {"io.filter.output"}>>
      [] s = "surface" -> <<{"ui.popup.create", "ui.popup.destroy", "ui.focus", "io.filter.input"}, {"ui.popup.destroy", "io.filter.input", "scripts.unload"}>>
      [] s = "names"   -> <<{"actions.invoke", "layout.modify", "config.modify"}, {"actions.invoke"}>>
      [] s = "files"   -> <<{"fs.read", "fs.write"}, {"fs.read"}>>
      [] OTHER         -> <<{"net.listen.local"}, {}>>
InitialInstances(s) ==
    IF s = "load" THEN <<Loader>>
    ELSE <<Loader, NewInstance("a", "v1", Grants(s)[1], FALSE),
                   NewInstance("b", "v1", Grants(s)[2], FALSE)>>
FirstEngine(s) ==
    [inst |-> InitialInstances(s), lst |-> [k \in {<<1, <<"mb">>>>} |-> [v \in {"scriptPermissionRequired"} |-> 1]],
     count |-> NoUses, flag |-> [v \in Filters |-> [p \in Panes |-> FALSE]],
     jobs |-> [i \in 1..Cardinality(Active(s, 1..Len(InitialInstances(s)))) |->
                 Job(IF s = "load" THEN i ELSE i + 1, "await")], exits |-> {},
     timers |-> <<>>, made |-> 0, actions |-> <<>>, handlers |-> <<>>,
     popups |-> {}, embeds |-> {}, lines |-> {}, focused |-> [p \in Panes |-> Nil],
     panes |-> Panes, keys |-> <<>>,
     pending |-> [x \in Paths |-> Nil], list |-> EmptyList(Paths), disk |-> [x \in Paths |-> "v1"],
     modules |-> [x \in Paths |-> 1], w |-> NoWs, tcaps |-> {},
     files |-> [dirs |-> {ScriptDir}, files |-> {[dir |-> ScriptDir, name |-> "f"]}]]
Init == /\ scope \in Scopes
        /\ e = FirstEngine(scope)
        /\ stack = <<Drain>>
        /\ calls = 0 /\ events = 0 /\ said = {}

-----------------------------------------------------------------------------
(* The frames.                                                               *)

Step(engine, frames) == e' = engine /\ stack' = frames /\ UNCHANGED <<scope, calls, events, said>>

\* A JS function returns.
JsReturn == OnTop("js") /\ Step(e, Pop)

\* The loop goes on to its next listener, or to the next instance that still
\* has a context, or ends: the outermost guard sweeps the dead entries.
NextInstances(f) == {id \in LiveIds(e) : id > f.at /\ id <= f.upto /\ Listeners(e, id, f.obj, f.v) > 0}
FanCalls ==
    /\ OnTop("fan")
    /\ Top.at # 0 => Live(e, Top.at)
    /\ Top.next <= Top.len
    /\ Step(e, Append(Append(Pop, [Top EXCEPT !.next = @ + 1]), Js(Top.at)))
FanMoves ==
    /\ OnTop("fan")
    /\ Top.at # 0 => Live(e, Top.at)
    /\ Top.next > Top.len
    /\ NextInstances(Top) # {}
    /\ LET id == Min(NextInstances(Top))
       IN Step(e, Append(Pop, [Top EXCEPT !.at = id, !.next = 1,
                                          !.len = Listeners(e, id, Top.obj, Top.v)]))
FanEnds ==
    /\ OnTop("fan")
    /\ Top.at # 0 => Live(e, Top.at)
    /\ Top.next > Top.len
    /\ NextInstances(Top) = {}
    /\ Step(IF \E i \in 1..Len(stack) - 1 : stack[i].k = "fan" THEN e ELSE Sweep(e),
            IF Top.drains THEN Append(Pop, Drain) ELSE Pop)

\* Mutant: a job stays in the queue after it ran.
ExecutePendingJobsAgain ==
    /\ OnTop("drain")
    /\ IF e.jobs = <<>> THEN Step(e, Pop)
       ELSE Step([e EXCEPT !.jobs = Append(Tail(@), Head(@))], Append(stack, Js(Head(e.jobs).id)))
\* Jobs run in order until there is none.
ExecutePendingJobs ==
    /\ OnTop("drain")
    /\ IF e.jobs = <<>> THEN Step(e, Pop)
       ELSE Step([e EXCEPT !.jobs = Tail(@)], Append(stack, Js(Head(e.jobs).id)))
\* fireJsTimer after the callback: a one-shot is erased.
TimerReturns ==
    /\ OnTop("timer")
    /\ Step(IF Top.interval THEN e ELSE JsClearTimer(e, Top.t), Pop)
\* ActionRouter::dispatch after the handler: listeners, then the jobs.
DispatchReturns ==
    /\ OnTop("dispatch")
    /\ Step(NotifyAction(e), Append(Pop, Drain))
Frames == \/ JsReturn \/ FanCalls \/ FanMoves \/ FanEnds
          \/ ExecutePendingJobs \/ TimerReturns \/ DispatchReturns

-----------------------------------------------------------------------------
(* What a script calls.  Code of an instance that is gone gets nothing done  *)
(* that asks for a permission; timers it may still make.                     *)

CallBy(id, s) == /\ scope = s
                 /\ OnTop("js") /\ Top.id = id /\ Live(e, id)
                 /\ calls < MaxCalls[scope]
\* A call that changes nothing is left out.
Called(engine, frames) == /\ engine # e \/ frames # stack
                          /\ e' = engine /\ stack' = frames
                          /\ calls' = calls + 1 /\ UNCHANGED <<scope, events, said>>

PaneListens(id) ==
    /\ CallBy(id, "filter")
    /\ \E p \in Panes, v \in {"output", "mousemove", "commandComplete"}, same \in BOOLEAN :
          Called(JsPaneAddEventListener(e, id, p, v, same), stack)
PaneStopsListening(id) ==
    /\ CallBy(id, "filter")
    /\ \E p \in Panes : Called(JsPaneRemoveEventListener(e, id, p, "output"), stack)
\* mb.exit: a zero-delay timer, like the one of a denied permission.
Exits(id) == (CallBy(id, "filter") \/ CallBy(id, "names")) /\ ~BuiltIn(e, id) /\ Called(ScheduleTermination(e, id), stack)
GatedCall(id) ==
    /\ CallBy(id, "filter")
    /\ \/ Called(JsPaneWrite(e, id), stack)
       \/ Called(JsPanePaste(e, id), stack)
       \/ Called(JsTerminalInject(e, id), stack)
       \/ Called(JsPaneGetSelection(e, id), stack)
       \/ Called(JsMbGetClipboard(e, id), stack)
       \/ Called(JsMbSetClipboard(e, id), stack)
\* mb.unloadScript, at once.
Unloads(id) ==
    /\ CallBy(id, "filter") \/ CallBy(id, "surface")
    /\ HasPerm(e, id, {"scripts.unload"})
    /\ \E o \in LiveIds(e) \ {Builtin} :
          /\ SelfUnload \/ o \notin InUse
          /\ Called(Unload(e, o, Iterating), stack)

PopupCall(id) ==
    /\ CallBy(id, "surface")
    /\ \E p \in Panes, n \in Names :
          \/ Called(JsPaneCreatePopup(e, id, p, n), stack)
          \/ Called(JsPopupClose(e, id, p, n), stack)
          \/ Called(JsPopupFocus(e, id, p, n), stack)
          \/ Called(JsPopupRemoveEventListener(e, id, p, n, "input"), stack)
          \/ \E v \in {"input", "resized"}, same \in BOOLEAN :
                Called(JsPopupAddEventListener(e, id, p, n, v, same), stack)
EmbeddedCall(id) ==
    /\ CallBy(id, "surface")
    /\ \E p \in Panes, l \in Names :
          \/ Called(JsPaneCreateEmbedded(e, id, p, l), stack)
          \/ Called(JsEmbeddedClose(e, id, p, l), stack)
          \/ Called(JsEmbeddedFocus(e, id, p, l), stack)
          \/ Called(JsEmbeddedRemoveEventListener(e, id, p, l, "destroyed"), stack)
          \/ \E v \in {"mouse", "destroyed"} :
                Called(JsEmbeddedAddEventListener(e, id, p, l, v, TRUE), stack)
\* Resizing calls the "resized" listeners before it returns.
JsPopupResize(id) ==
    /\ CallBy(id, "surface") /\ HasPerm(e, id, {"ui.popup.create"})
    /\ \E p \in Panes, n \in Names :
          /\ HasPopup(e, p, n)
          /\ Called(e, Append(stack, Fan(PopupObj(p, n), "resized", FALSE)))
JsEmbeddedResize(id) ==
    /\ CallBy(id, "surface") /\ HasPerm(e, id, {"ui.popup.create"})
    /\ \E p \in Panes, l \in Names :
          /\ HasEmbedded(e, p, l)
          /\ Called(e, Append(stack, Fan(EmbedObj(p, l), "resized", FALSE)))

NameCall(id) ==
    /\ CallBy(id, "names")
    /\ \E n \in Names :
          \/ Called(JsMbSetNamespace(e, id, n), stack)
          \/ Called(JsMbRegisterAction(e, id, n), stack)
          \/ Called(JsMbActionsRegister(e, id, n), stack)
          \/ Called(JsMbActionsUnregister(e, id, n), stack)
MbCall(id) ==
    /\ CallBy(id, "names")
    /\ \/ \E v \in {"action", "quit-requested"} : Called(JsMbAddEventListener(e, id, v), stack)
       \/ Called(JsMbRemoveEventListener(e, id, "action"), stack)
       \/ Called(JsMbConfigPatch(e, id, <<"k">>), stack)
       \/ Called(JsMbConfigAddKeybinding(e, id, "j"), stack)
       \/ Called(JsMbConfigRemoveKeybinding(e, id, "k"), stack)
       \/ Called(JsMbConfigAddMousebinding(e, id), stack)
       \/ Called(JsMbConfigRemoveMousebinding(e, id), stack)
       \/ Called(JsMbRegisterTcap(e, id, "t"), stack)
       \/ Called(JsMbUnregisterTcap(e, id, "t"), stack)
\* A handler runs inside mb.invokeAction; the listeners hear of it after.
InvokeActionHandler(n, frames) ==
    IF n \in DOMAIN e.handlers
    THEN frames \o <<[k |-> "dispatch"], Js(e.handlers[n])>>
    ELSE Append(frames, [k |-> "dispatch"])
JsMbInvokeAction(id) ==
    /\ CallBy(id, "names") /\ HasPerm(e, id, {"actions.invoke"})
    /\ \E n \in Names : /\ ActionPermission(n) = {} \/ HasPerm(e, id, ActionPermission(n))
                        /\ Called(e, InvokeActionHandler(n, stack))
MakesTimer(id) ==
    /\ scope \in {"names", "filter"} /\ OnTop("js") /\ Top.id = id
    /\ calls < MaxCalls[scope] /\ e.made < MaxTimer
    /\ Called(JsSetTimeout(e, id), stack) \/ Called(JsSetInterval(e, id), stack)
\* A callback that clears its own one-shot frees it twice: none does.
ClearsTimer(id) ==
    /\ scope = "names" /\ OnTop("js") /\ Top.id = id /\ calls < MaxCalls[scope]
    /\ \E t \in DOMAIN e.timers :
          /\ ~\E i \in DOMAIN stack : stack[i].k = "timer" /\ stack[i].t = t
          /\ Called(JsClearTimer(e, t), stack)

\* The body of a new module runs up to its first await before the call returns.
Loads(a, e0, frames) ==
    IF \E id \in LiveIds(a) : id \notin DOMAIN e0.inst
    THEN Append(frames, Js(Max(DOMAIN a.inst))) ELSE frames
JsMbLoadScript(id) ==
    /\ CallBy(id, "load") /\ HasPerm(e, id, {"scripts.load"}) /\ NextId(e) <= MaxId
    /\ \E path \in Paths, perms \in Requests :
          LET a == LoadScript(e, path, perms, Iterating)
          IN Called(a, Loads(a, e, stack))
JsMbApproveScript(id) ==
    /\ CallBy(id, "load") /\ BuiltIn(e, id) /\ NextId(e) <= MaxId
    /\ \E path \in Paths, response \in {"y", "a", "d", "n"} :
          LET a == ApproveScript(e, path, response, Iterating)
              ask == e.pending[path]
          IN /\ ask # Nil
             /\ e' = a /\ stack' = Loads(a, e, stack) /\ calls' = calls + 1
             /\ said' = IF response = "a"
                        THEN said \cup {[path |-> path, hash |-> ask.hash, perms |-> ask.perms,
                                         modules |-> e.modules[path]]}
                        ELSE said
             /\ UNCHANGED <<scope, events>>

WsCall(id) ==
    /\ CallBy(id, "net")
    /\ \/ Len(e.w.server) < 2 /\ Called(Require(e, id, "net.listen.local", [e EXCEPT !.w = JsWsCreateServer(@, id)]), stack)
       \/ \E s \in DOMAIN e.w.server : Called([e EXCEPT !.w = JsWsServerClose(@, s)], stack)
       \/ \E c \in DOMAIN e.w.conn : Called([e EXCEPT !.w = JsWsConnSend(@, c, "f")], stack)

FsCall(id) == /\ CallBy(id, "files")
              /\ \E disk \in FsOutcomes(e.files, e.inst[id]) : Called([e EXCEPT !.files = disk], stack)
Calls == \E id \in DOMAIN e.inst :
    \/ PaneListens(id) \/ PaneStopsListening(id) \/ Exits(id) \/ GatedCall(id) \/ Unloads(id)
    \/ PopupCall(id) \/ EmbeddedCall(id) \/ JsPopupResize(id) \/ JsEmbeddedResize(id)
    \/ NameCall(id) \/ MbCall(id) \/ JsMbInvokeAction(id) \/ MakesTimer(id) \/ ClearsTimer(id)
    \/ JsMbLoadScript(id) \/ JsMbApproveScript(id) \/ WsCall(id) \/ FsCall(id)

\* Code of a script resolves a promise whose reaction is one more job, as jobs
\* themselves do, with no bound; of each script one such job waits at a time.
QueuesJob(id) ==
    /\ scope \in {"filter", "names"} /\ OnTop("js") /\ Top.id = id
    /\ ~\E i \in DOMAIN e.jobs : e.jobs[i] = Job(id, "then")
    /\ Step([e EXCEPT !.jobs = Append(@, Job(id, "then"))], stack)
JobsQueueJobs == \E id \in DOMAIN e.inst : QueuesJob(id)

-----------------------------------------------------------------------------
(* What reaches the engine from outside, one thing at a time.                *)

Event(s) == scope \in s /\ stack = <<>> /\ events < MaxEvents[scope]
Happens(engine, frames) == /\ e' = engine /\ stack' = frames
                           /\ events' = events + 1 /\ UNCHANGED <<scope, calls, said>>

\* Bytes from the shell: the parse worker asks main only if the flag is up.
FilterPaneOutput ==
    /\ Event({"filter"})
    /\ \E p \in e.panes : /\ e.flag["output"][p]
                          /\ Happens(e, <<Fan(PaneObj(p), "output", FALSE)>>)
DeliverPaneMouseMove ==
    /\ Event({"filter"})
    /\ \E p \in e.panes : /\ e.count["mousemove"][p] > 0
                          /\ Happens(NotifyPaneMouseMove(e, p), <<>>)
CommandCompletes ==
    /\ Event({"filter"})
    /\ \E p \in e.panes : Happens(NotifyCommandComplete(e, p), <<>>)
\* What else the platform tells of: tabs, panes, the end of a shell.
Announce ==
    /\ Event({"names"})
    /\ \E p \in e.panes :
          \/ Happens(NotifyTabCreated(e), <<>>)
          \/ Happens(NotifyTabDestroyed(e), <<>>)
          \/ Happens(NotifyTerminalExited(e), <<>>)
          \/ Happens(NotifyPaneCreated(e), <<>>)
          \/ Happens(NotifyPaneResized(e, p), <<>>)
          \/ Happens(NotifyOSC(e, p), <<>>)
          \/ Happens(NotifyForegroundProcessChanged(e, p), <<>>)
          \/ Happens(NotifyPaneFocusChanged(e, p), <<>>)
          \/ Happens(NotifyCommandSelectionChanged(e, p), <<>>)
          \/ HasQuitListeners(e) /\ Happens(FireQuitRequested(e), <<>>)
\* The pane goes with its popups and embedded terminals.
PaneCloses ==
    /\ Event({"filter", "surface"})
    /\ \E p \in e.panes :
          Happens([NotifyPaneDestroyed(e, p) EXCEPT
                      !.panes = @ \ {p},
                      !.popups = {x \in @ : x[1] # p}, !.embeds = {x \in @ : x[1] # p}], <<>>)
DeliverPopupInput ==
    /\ Event({"surface"})
    /\ \E x \in e.popups : /\ e.focused[x[1]] = PopupObj(x[1], x[2])
                           /\ Happens(e, <<Fan(PopupObj(x[1], x[2]), "input", TRUE)>>)
DeliverEmbeddedMouse ==
    /\ Event({"surface"})
    /\ \E x \in e.embeds : Happens(e, <<Fan(EmbedObj(x[1], x[2]), "mouse", TRUE)>>)
\* The anchor line left the history: onTick tells the scripts.
EmbeddedEvicted ==
    /\ Event({"surface"})
    /\ \E x \in e.embeds :
          Happens(DeliverEmbeddedDestroyed(DestroyEmbedded(e, x[1], x[2]), x[1], x[2]), <<Drain>>)
KeyAction ==
    /\ Event({"names"})
    /\ \E n \in Names : Happens(e, InvokeActionHandler(n, <<>>))
\* A promise of the script settles; it may be one a dead instance left.
PromiseSettles ==
    /\ Event({"filter", "surface", "names", "load", "net", "files"})
    /\ \E id \in Active(scope, DOMAIN e.inst) : Happens([e EXCEPT !.jobs = Append(@, Job(id, "await"))], <<>>)
EditFile ==
    /\ Event({"load"})
    /\ \E path \in Paths, hash \in Hashes \ {"loader"} :
          /\ e.disk[path] # hash
          /\ Happens([e EXCEPT !.disk[path] = hash], <<>>)
EditModule ==
    /\ Event({"load"})
    /\ \E path \in Paths : /\ e.modules[path] = 1
                           /\ Happens([e EXCEPT !.modules[path] = 2], <<>>)
\* Only the files survive a restart, the list of approvals among them.
Restart ==
    /\ Event({"load"})
    /\ Happens([FirstEngine(scope) EXCEPT !.list = Load(Save(e.list), Paths),
                                          !.disk = e.disk, !.modules = e.modules], <<Drain>>)
LwsCalls ==
    /\ Event({"net"})
    /\ \/ \E s \in DOMAIN e.w.server :
             /\ Len(e.w.conn) < 2 /\ e.w.server[s].vhost
             /\ Happens([e EXCEPT !.w = Established(@, s)], <<>>)
       \/ \E c \in DOMAIN e.w.conn :
             /\ e.w.conn[c].wsi
             /\ \/ \E final \in BOOLEAN : /\ Len(e.w.conn[c].rx) < 2
                                          /\ Happens([e EXCEPT !.w = Receive(@, c, "g", final)], <<>>)
                \/ \E short \in BOOLEAN : Happens([e EXCEPT !.w = ServerWriteable(@, c, short)], <<>>)
                \/ Happens([e EXCEPT !.w.conn[c] = LwsClosed(e.w, @)], <<>>)
\* mb:fs does not make the directory of a script; its user may.
UserMakesDir ==
    /\ Event({"files"})
    /\ \E id \in {2, 3} : Happens([e EXCEPT !.files = EnsureConfigDir(@, ScriptConfigDir(e.inst[id]))], <<>>)
EngineEnds ==
    /\ Event({"net"})
    /\ events' = MaxEvents[scope] /\ calls' = MaxCalls[scope]
    /\ e' = Destroy(e)
    /\ UNCHANGED <<stack, scope, said>>

\* The loop: a tick with jobs waiting, a due timer, a scheduled termination.
Tick == stack = <<>> /\ e.jobs # <<>> /\ Step(e, <<Drain>>)
ExitFires ==
    /\ stack = <<>>
    /\ \E id \in e.exits : Step([Unload(e, id, FALSE) EXCEPT !.exits = @ \ {id}], <<>>)
FireTimer ==
    /\ Event({"names", "filter"})
    /\ \E t \in DOMAIN e.timers :
          Happens(e, <<[k |-> "timer", t |-> t, interval |-> e.timers[t].interval],
                       Js(e.timers[t].id)>>)

Outside == \/ FilterPaneOutput \/ DeliverPaneMouseMove \/ CommandCompletes \/ Announce \/ PaneCloses
           \/ DeliverPopupInput \/ DeliverEmbeddedMouse \/ EmbeddedEvicted
           \/ KeyAction \/ PromiseSettles \/ FireTimer
           \/ EditFile \/ EditModule \/ Restart \/ LwsCalls \/ UserMakesDir \/ EngineEnds
Next == Frames \/ JobsQueueJobs \/ Calls \/ Outside \/ Tick \/ ExitFires
\* Native code and the loop go on; scripts return.
Spec == Init /\ [][Next]_vars /\ WF_vars(Frames) /\ WF_vars(Tick) /\ WF_vars(ExitFires)

-----------------------------------------------------------------------------
(* Properties.                                                               *)

\* The parse worker asks a pane's filters only if the pane's flag is up, and
\* mouse moves are delivered only if they are counted: as long as a living
\* script has a filter or a listener that would be called, it is.  Flag and
\* count agree, and the count is what the living scripts registered.
FiltersNeverSkipped ==
    \A p \in e.panes :
        /\ \A v \in Filters : e.flag[v][p] <=> e.count[v][p] > 0
        /\ \A v \in Counted :
              /\ e.count[v][p] = FoldFunctionOnSet(LAMBDA i, n : n + i.uses[v][p], 0, e.inst, LiveIds(e))
              /\ \A id \in LiveIds(e) : Listeners(e, id, PaneObj(p), v) > 0 => e.count[v][p] > 0

\* A script of the user's files starts only if, for the very text and the very
\* permissions, the user has just answered yes, or once answered "always",
\* with the module files of the directory as they are now; and never twice
\* for one path at a time.
Answered(i) == e.pending[i.path] # Nil /\ e.pending[i.path].hash = i.hash
               /\ e.pending[i.path].perms = i.perms /\ e'.pending[i.path] = Nil
AlwaysAnswered(i) == \E y \in said : /\ y.path = i.path /\ y.hash = i.hash
                                     /\ i.perms \subseteq y.perms /\ y.modules = e.modules[i.path]
AsksFirst ==
    [][\A id \in LiveIds(e') \ LiveIds(e) :
          LET i == e'.inst[id]
          IN i.builtIn \/ /\ Answered(i) \/ AlwaysAnswered(i)
                          /\ SamePath(e', i.path) = {id}]_vars

\* What is registered in the name of a script is gone when the script is:
\* actions, handlers, namespaces, popups, embedded terminals, open servers.
OwnedByTheLiving ==
    /\ \A n \in DOMAIN e.actions : Live(e, e.actions[n])
    /\ \A n \in DOMAIN e.handlers : Live(e, e.handlers[n])
    /\ \A x \in e.popups : \E id \in LiveIds(e) : x \in e.inst[id].popups
    /\ \A x \in e.embeds : \E id \in LiveIds(e) : x \in e.inst[id].embeds
    /\ \A s \in DOMAIN e.w.server : e.w.server[s].place = "open" => Live(e, e.w.server[s].owner)

\* A script that used a permission it does not have, or called mb.exit, is
\* unloaded, whatever its listeners do meanwhile, unless executePendingJobs
\* never returns: one job after the other queues the next, and the main thread
\* comes to no timer.  No drain goes on for ever for another reason.
Draining == \E i \in DOMAIN stack : stack[i].k = "drain"
TerminationComes ==
    LET Comes == (e.exits \cap LiveIds(e) # {}) ~> (e.exits \cap LiveIds(e) = {})
    IN /\ Comes \/ <>[]Draining
       /\ Comes \/ []<><<JobsQueueJobs>>_vars

\* libwebsockets finds the server of a connection it still has, closed or
\* not, until the engine's end; and a script hears once that a connection
\* closed, though its own server's close, the peer and the script's end may
\* all come.
LwsFindsServer ==
    \A c \in DOMAIN e.w.conn : /\ e.w.conn[c].wsi => Memory(e.w, e.w.conn[c].server)
                              /\ e.w.conn[c].told <= 1

\* Both are about what is left behind when a script, a pane or a socket goes.
NothingOutlivesItsOwner == OwnedByTheLiving /\ LwsFindsServer
=============================================================================
