---------------------------- MODULE RenderFrame ----------------------------
(***************************************************************************)
(* The main thread hands changes of the layout to the render thread, which *)
(* draws them and owns the textures they are drawn into.                   *)
(*                                                                         *)
(* Main collects requests in pending_ and, at the end of a tick, moves     *)
(* them to renderState_ under the render mutex; a frame copies that state  *)
(* and clears the one-shot requests.  What the frame holds for a pane or a *)
(* popup (an entry) survives until a destroy request removes it.  Textures *)
(* taken off an entry wait for the GPU before the pool may reuse them.     *)
(*                                                                         *)
(* A step that holds the render mutex, and a run of steps of the render    *)
(* thread that touches nothing another thread sees, is one action.         *)
(***************************************************************************)
EXTENDS TexturePool

CONSTANTS
    Panes,          \* panes of all tabs
    Popups,         \* popups (an embedded terminal is one too)
    PaneOf,         \* the pane a popup hangs off
    Tabs,           \* the tabs, each the set of its panes
    Widths,         \* sizes a rect can have
    FirstTab,       \* the tab and the slots the program starts with
    FirstSlot,
    WindowSlots,    \* the slots a resize of the window can lead to
    InFlight,       \* bound: submitted frames the GPU has not finished
    MaxChanges      \* bound: changes of the layout, publishes and frames without
                    \* a surface together

ASSUME FrameAssumption ==
    /\ Panes # {} /\ Panes \cap Popups = {} /\ PaneOf \in [Popups -> Panes]
    /\ Widths # {} /\ Widths \subseteq Nat \ {0}
    /\ Tabs \subseteq SUBSET Panes /\ FirstTab \in Tabs
    /\ \A a, b \in Tabs : a = b \/ a \cap b = {}
    /\ FirstSlot \in [Panes -> Widths] /\ WindowSlots \subseteq [Panes -> Widths]

VARIABLES
    live,           \* panes and popups that exist
    tab,            \* panes of the active tab
    slot,           \* the width the layout tree gives a pane
    layoutDirty,    \* the tree changed since the last cascade
    width,          \* mRect of a pane, the size of a popup
    pending,        \* pending_
    renderState,    \* renderState_: the requests, and keys and width to show
    unseen,         \* terminals whose latest snapshot no frame has loaded
    hold,           \* terminals with a synchronized update in progress
    snapSync,       \* terminals whose latest snapshot has syncOutputActive
    changes,        \* changes made so far
    mainPc,         \* where the main thread is in its tick
    loopAwake,      \* the event loop has a reason not to sleep
    needsRedraw,    \* needsRedraw_
    renderWake,     \* renderWake_
    renderPc,       \* where the render thread is in its frame
    frame,          \* frameState_
    todo,           \* targets the frame has not drawn yet
    entries,        \* paneRenderPrivate_ and popupRenderPrivate_
    staged,         \* pendingDestroyRelease_
    gpu,            \* submitted frames: [uses, gives]
    deferred,       \* deferredReleaseState_
    screen          \* the terminals on the frame presented last

layoutVars   == <<live, tab, slot, layoutDirty, width>>
emulatorVars == <<unseen, hold, snapSync>>
tickVars     == <<mainPc, loopAwake>>
entryVars    == <<entries, staged>>
gpuVars      == <<gpu, deferred>>
renderVars   == <<renderPc, frame, todo, screen>>
vars == <<layoutVars, pending, renderState, emulatorVars, changes, tickVars,
          needsRedraw, renderWake, renderVars, entryVars, gpuVars, poolVars>>

Keys == Panes \cup Popups
WithPopups(ks) == ks \cup {q \in Popups : PaneOf[q] \in ks}

NoTexture == 0

NoRequest == [release |-> {}, releaseAll |-> FALSE, destroyed |-> {}]
NoEntry   == [made |-> FALSE, held |-> NoTexture, releases |-> {}, drawnFor |-> 0]
NewEntry  == [NoEntry EXCEPT !.made = TRUE]

State(r, ks, w) == [release |-> r.release, releaseAll |-> r.releaseAll,
                    destroyed |-> r.destroyed, keys |-> ks, width |-> w]

NoFrame == State(NoRequest, {}, [k \in Keys |-> Min(Widths)])

(* The terminals of the active tab, as buildRenderFrameState lists them.   *)
Shown(ks, ps) == ks \cap WithPopups(ps)

Init ==
    /\ live = Panes /\ tab = FirstTab
    /\ slot = FirstSlot /\ layoutDirty = TRUE
    /\ width = [k \in Keys |-> IF k \in Panes THEN slot[k] ELSE Min(Widths)]
    /\ pending = NoRequest /\ renderState = State(NoRequest, {}, width)
    /\ unseen = Panes /\ hold = {} /\ snapSync = {}
    /\ changes = 0
    /\ mainPc = "events" /\ loopAwake = TRUE
    /\ needsRedraw = TRUE /\ renderWake = FALSE
    /\ renderPc = "wait" /\ frame = NoFrame /\ todo = {}
    /\ entries = [k \in Keys |-> NoEntry] /\ staged = {}
    /\ gpu = <<>> /\ deferred = {}
    /\ screen = {}
    /\ PoolInit

-----------------------------------------------------------------------------
(* What an event handler does to the layout.  Each asks for a redraw and   *)
(* is followed by a tick, because the loop ticks after every batch of      *)
(* events.                                                                 *)

Change ==
    /\ mainPc = "events" /\ changes < MaxChanges
    /\ changes' = changes + 1
    /\ needsRedraw' = TRUE /\ loopAwake' = TRUE
    /\ UNCHANGED <<mainPc, renderWake, renderVars, entryVars, gpuVars, poolVars>>

(* Each terminal publishes a snapshot when it is first given a size, so a  *)
(* frame finds one of every terminal it shows.                             *)
Publishes(ks) ==
    /\ unseen' = unseen \cup ks
    /\ snapSync' = (snapSync \ ks) \cup (ks \cap hold')

(* runLayoutIfDirty: every live pane gets the rect of its slot and a       *)
(* request to release its texture; a pane whose size changed publishes.    *)
Cascade(ks) == IF layoutDirty THEN ks \cap Panes ELSE {}
Resized(ks) == {p \in Cascade(ks) : slot[p] # width[p]}
RunLayout(ks) ==
    /\ width' = [k \in Keys |-> IF k \in Cascade(ks) THEN slot[k] ELSE width[k]]
    /\ UNCHANGED hold
    /\ Publishes(Resized(ks))
    /\ layoutDirty' = FALSE

(* killTerminal: the shadow copy is rebuilt at once, the destroy request   *)
(* travels with the next tick; the popups die with their pane.             *)
KillPane(p) ==
    /\ p \in live
    /\ live' = live \ WithPopups({p})
    /\ RunLayout(live')
    /\ pending' = [pending EXCEPT
           !.destroyed = @ \cup {p},
           !.release = @ \cup ((WithPopups({p}) \ {p}) \cap live) \cup Cascade(live')]
    /\ renderState' = State(renderState, Shown(live', tab), width')
    /\ UNCHANGED <<tab, slot>>
    /\ Change

DestroyPopup(q) ==
    /\ q \in live
    /\ live' = live \ {q}
    /\ pending' = [pending EXCEPT !.destroyed = @ \cup {q}, !.release = @ \cup {q}]
    /\ renderState' = [renderState EXCEPT !.keys = @ \ {q}]
    /\ UNCHANGED <<tab, slot, layoutDirty, width, emulatorVars>>
    /\ Change

(* A popup may come back under the id of one that was destroyed.           *)
CreatePopup(q) ==
    /\ q \notin live /\ PaneOf[q] \in live
    /\ live' = live \cup {q}
    /\ hold' = hold \ {q}
    /\ Publishes({q})
    /\ UNCHANGED <<tab, slot, layoutDirty, width, pending, renderState>>
    /\ Change

ResizePopup(q, w) ==
    /\ q \in live /\ w # width[q]
    /\ width' = [width EXCEPT ![q] = w]
    /\ UNCHANGED hold /\ Publishes({q})
    /\ pending' = [pending EXCEPT !.release = @ \cup {q}]
    /\ UNCHANGED <<live, tab, slot, layoutDirty, renderState>>
    /\ Change

(* Only the textures of the tab that is left are released.                 *)
ActivateTab(ps) ==
    /\ ps # tab
    /\ tab' = ps
    /\ pending' = [pending EXCEPT !.release = @ \cup (tab \cap live)]
    /\ layoutDirty' = TRUE
    /\ UNCHANGED <<live, slot, width, renderState, emulatorVars>>
    /\ Change

(* swapLeaves, rotate, move: the tree is marked dirty and the cascade is   *)
(* left to the tick.                                                       *)
SwapPanes(p, q) ==
    /\ {p, q} \subseteq live \cap tab /\ p # q
    /\ slot' = [slot EXCEPT ![p] = slot[q], ![q] = slot[p]]
    /\ layoutDirty' = TRUE
    /\ UNCHANGED <<live, tab, width, pending, renderState, emulatorVars>>
    /\ Change

(* applyFramebufferResize runs the cascade itself.                         *)
ResizeWindow(newSlot) ==
    LET resized == live \cap Panes IN
    /\ slot' = newSlot
    /\ width' = [k \in Keys |-> IF k \in resized THEN newSlot[k] ELSE width[k]]
    /\ UNCHANGED hold /\ Publishes({p \in resized : newSlot[p] # width[p]})
    /\ layoutDirty' = FALSE
    /\ pending' = [pending EXCEPT !.releaseAll = TRUE, !.release = @ \cup resized]
    /\ UNCHANGED <<live, tab, renderState>>
    /\ Change

Handler ==
    \/ \E p \in Panes : KillPane(p)
    \/ \E q \in Popups : DestroyPopup(q) \/ CreatePopup(q)
    \/ \E q \in Popups, w \in Widths : ResizePopup(q, w)
    \/ \E ps \in Tabs : ActivateTab(ps)
    \/ \E p, q \in Panes : SwapPanes(p, q)
    \/ \E s \in WindowSlots \ {slot} : ResizeWindow(s)

-----------------------------------------------------------------------------
(* The emulators, on the parse workers: a batch of output ends by          *)
(* publishing a snapshot and the Update event, unless a synchronized       *)
(* update is open.                                                         *)

Inject(k, sync) ==
    /\ k \in live /\ changes < MaxChanges
    /\ changes' = changes + 1
    /\ hold' = IF sync THEN hold \cup {k} ELSE hold \ {k}
    /\ IF sync
       THEN UNCHANGED <<unseen, snapSync, needsRedraw, loopAwake>>
       ELSE Publishes({k}) /\ needsRedraw' = TRUE /\ loopAwake' = TRUE
    /\ UNCHANGED <<layoutVars, pending, renderState, mainPc, renderWake, renderVars,
                   entryVars, gpuVars, poolVars>>

-----------------------------------------------------------------------------
(* The tick.  Posted events and handlers make the loop run it.             *)

StartTick ==
    /\ mainPc = "events" /\ loopAwake
    /\ mainPc' = "apply" /\ loopAwake' = FALSE
    /\ UNCHANGED <<layoutVars, pending, renderState, emulatorVars, changes, needsRedraw,
                   renderWake, renderVars, entryVars, gpuVars, poolVars>>

(* The requests are moved first, then buildRenderFrameState runs the       *)
(* cascade, and pending_.clear() ends the step: what the cascade requested *)
(* is cleared with the rest.                                               *)
ApplyPendingMutations ==
    /\ mainPc = "apply" /\ mainPc' = "check"
    /\ RunLayout(live)
    /\ renderState' = State([release |-> renderState.release \cup pending.release,
                             releaseAll |-> renderState.releaseAll \/ pending.releaseAll,
                             destroyed |-> renderState.destroyed \cup pending.destroyed],
                            Shown(live, tab), width')
    /\ pending' = NoRequest
    /\ needsRedraw' = (needsRedraw \/ layoutDirty)
    /\ loopAwake' = (loopAwake \/ Resized(live) # {})
    /\ UNCHANGED <<live, tab, slot, changes, renderWake, renderVars, entryVars, gpuVars,
                   poolVars>>

CheckRedraw ==
    /\ mainPc = "check" /\ mainPc' = "events"
    /\ renderWake' = (renderWake \/ needsRedraw)
    /\ loopAwake' = (loopAwake \/ needsRedraw)
    /\ UNCHANGED <<layoutVars, pending, renderState, emulatorVars, changes, needsRedraw,
                   renderVars, entryVars, gpuVars, poolVars>>

-----------------------------------------------------------------------------
(* A frame.                                                                *)

OnlyRender == UNCHANGED <<layoutVars, pending, hold, snapSync, changes, tickVars>>

(* A frame may also start and find no surface texture to draw on: it asks  *)
(* for another one.                                                        *)
Woken ==
    /\ renderPc = "wait" /\ renderWake
    /\ renderWake' = FALSE /\ renderPc' = "surface"
    /\ OnlyRender
    /\ UNCHANGED <<unseen, renderState, needsRedraw, frame, todo, screen, entryVars,
                   gpuVars, poolVars>>

NoSurface ==
    /\ renderPc = "surface" /\ renderPc' = "wait"
    /\ changes < MaxChanges /\ changes' = changes + 1
    /\ needsRedraw' = TRUE
    /\ UNCHANGED <<layoutVars, emulatorVars, tickVars, pending, renderState, renderWake,
                   frame, todo, screen, entryVars, gpuVars, poolVars>>

SnapshotUnderLock ==
    /\ renderPc = "surface" /\ renderPc' = "structure"
    /\ frame' = renderState
    /\ renderState' = State(NoRequest, renderState.keys, renderState.width)
    /\ OnlyRender
    /\ UNCHANGED <<unseen, needsRedraw, renderWake, todo, screen, entryVars, gpuVars,
                   poolVars>>

Textured(e) == e.releases \cup ({e.held} \ {NoTexture})

DropHeldTexture(e) ==
    [e EXCEPT !.releases = Textured(e), !.held = NoTexture]

Dropped(f) == IF f.releaseAll THEN Keys ELSE f.release \cup WithPopups(f.release \cap Panes)

(* Mutant: a pane is destroyed without its popups.                         *)
StructureKeepsPopups ==
    LET made == [k \in Keys |-> IF k \in frame.keys \cap Panes /\ ~entries[k].made
                                THEN NewEntry ELSE entries[k]]
        kept == [k \in Keys |-> IF k \in Dropped(frame) /\ made[k].made
                                THEN DropHeldTexture(made[k]) ELSE made[k]]
        dead == frame.destroyed
    IN  /\ renderPc = "structure"
        /\ staged' = staged \cup UNION {Textured(kept[k]) : k \in dead}
        /\ entries' = [k \in Keys |-> IF k \in dead THEN NoEntry ELSE kept[k]]
        /\ frame' = State(NoRequest, frame.keys, frame.width)
        /\ IF frame.keys = {}
           THEN renderPc' = "wait" /\ UNCHANGED needsRedraw
           ELSE renderPc' = "load" /\ needsRedraw' = FALSE
        /\ OnlyRender
        /\ UNCHANGED <<unseen, renderState, renderWake, todo, screen, gpuVars, poolVars>>

(* Everything from the panes lock to the reset of needsRedraw_: entries    *)
(* for the panes, the releases, then the destroys; a frame without panes   *)
(* ends here.  No later step reads the requests of the frame.              *)
Structure ==
    LET made == [k \in Keys |-> IF k \in frame.keys \cap Panes /\ ~entries[k].made
                                THEN NewEntry ELSE entries[k]]
        kept == [k \in Keys |-> IF k \in Dropped(frame) /\ made[k].made
                                THEN DropHeldTexture(made[k]) ELSE made[k]]
        dead == WithPopups(frame.destroyed)
    IN  /\ renderPc = "structure"
        /\ staged' = staged \cup UNION {Textured(kept[k]) : k \in dead}
        /\ entries' = [k \in Keys |-> IF k \in dead THEN NoEntry ELSE kept[k]]
        /\ frame' = State(NoRequest, frame.keys, frame.width)
        /\ IF frame.keys = {}
           THEN renderPc' = "wait" /\ UNCHANGED needsRedraw
           ELSE renderPc' = "load" /\ needsRedraw' = FALSE
        /\ OnlyRender
        /\ UNCHANGED <<unseen, renderState, renderWake, todo, screen, gpuVars, poolVars>>

(* A snapshot is built from nothing each time, so it marks all of its rows *)
(* dirty: whatever the dirty flag of the entry says, every frame draws a   *)
(* terminal again, unless a synchronized update holds it.                  *)
NeedsRender(k) == entries[k].held = NoTexture \/ k \notin snapSync

(* The list of textures the GPU handed back: which of them comes first     *)
(* only tells which is reused or evicted first, and the lower number does. *)
Rank(ts, t) == Cardinality({u \in ts : u < t})
InOrder(ts) == [i \in 1..Cardinality(ts) |-> CHOOSE t \in ts : Rank(ts, t) = i - 1]

(* The textures the GPU handed back go to the pool, then the frame loads   *)
(* the latest snapshot of each of its terminals.                           *)
LoadSnapshots ==
    /\ renderPc = "load" /\ renderPc' = "draw"
    /\ ReleaseEach(InOrder(deferred)) /\ deferred' = {}
    /\ todo' = {k \in frame.keys : NeedsRender(k)}
    /\ unseen' = unseen \ todo'
    /\ entries' = [k \in Keys |-> IF k \in frame.keys /\ ~entries[k].made
                                  THEN NewEntry ELSE entries[k]]
    /\ OnlyRender
    /\ UNCHANGED <<renderState, needsRedraw, renderWake, frame, screen, staged, gpu>>

(* Panes are drawn before popups.                                          *)
NextTarget == CHOOSE k \in todo : todo \cap Panes # {} => k \in Panes

DrawTarget ==
    /\ renderPc = "draw" /\ todo # {}
    /\ todo' = todo \ {NextTarget}
    /\ \E t \in Textures :
           /\ Acquire(frame.width[NextTarget], t)
           /\ entries' = [entries EXCEPT
                  ![NextTarget] = [@ EXCEPT !.releases = Textured(entries[NextTarget]),
                                            !.held = t, !.drawnFor = frame.width[NextTarget]]]
    /\ OnlyRender
    /\ UNCHANGED <<unseen, renderState, needsRedraw, renderWake, renderPc, frame, screen,
                   staged, gpuVars>>

(* Mutant: the textures are handed back without waiting for the GPU.       *)
PresentReleasesNow ==
    /\ renderPc = "draw" /\ todo = {} /\ Len(gpu) < InFlight
    /\ renderPc' = "wait"
    /\ gpu' = Append(gpu,
           [uses  |-> {entries[k].held : k \in frame.keys},
            gives |-> {}])
    /\ deferred' = deferred \cup staged \cup UNION {entries[k].releases : k \in Keys}
    /\ entries' = [k \in Keys |-> [entries[k] EXCEPT !.releases = {}]]
    /\ staged' = {} /\ screen' = frame.keys /\ frame' = NoFrame
    /\ OnlyRender
    /\ UNCHANGED <<unseen, renderState, needsRedraw, renderWake, todo, poolVars>>

(* Mutant: needsRedraw_ is reset when the frame is done.                   *)
PresentResets ==
    /\ renderPc = "draw" /\ todo = {} /\ Len(gpu) < InFlight
    /\ renderPc' = "wait"
    /\ gpu' = Append(gpu,
           [uses  |-> {entries[k].held : k \in frame.keys},
            gives |-> staged \cup UNION {entries[k].releases : k \in Keys}])
    /\ entries' = [k \in Keys |-> [entries[k] EXCEPT !.releases = {}]]
    /\ needsRedraw' = FALSE /\ staged' = {} /\ screen' = frame.keys /\ frame' = NoFrame
    /\ OnlyRender
    /\ UNCHANGED <<unseen, renderState, renderWake, todo, deferred, poolVars>>

(* The composite is submitted, and every texture taken off an entry goes   *)
(* to the callback of this submission; then the frame is presented.  The   *)
(* next frame overwrites frameState_ before anything reads it.             *)
Present ==
    /\ renderPc = "draw" /\ todo = {} /\ Len(gpu) < InFlight
    /\ renderPc' = "wait"
    /\ gpu' = Append(gpu,
           [uses  |-> {entries[k].held : k \in frame.keys},
            gives |-> staged \cup UNION {entries[k].releases : k \in Keys}])
    /\ entries' = [k \in Keys |-> [entries[k] EXCEPT !.releases = {}]]
    /\ staged' = {} /\ screen' = frame.keys /\ frame' = NoFrame
    /\ OnlyRender
    /\ UNCHANGED <<unseen, renderState, needsRedraw, renderWake, todo, deferred, poolVars>>

RenderStep ==
    \/ Woken \/ NoSurface \/ SnapshotUnderLock \/ Structure
    \/ LoadSnapshots \/ DrawTarget \/ Present

(* The GPU finishes the oldest submission and runs its callback, on a      *)
(* thread of its own.                                                      *)
GpuDone ==
    /\ gpu # <<>>
    /\ gpu' = Tail(gpu)
    /\ deferred' = deferred \cup Head(gpu).gives
    /\ OnlyRender
    /\ UNCHANGED <<unseen, renderState, needsRedraw, renderWake, renderVars, entryVars,
                   poolVars>>

Next ==
    \/ Handler
    \/ \E k \in Keys, sync \in BOOLEAN : Inject(k, sync)
    \/ StartTick \/ ApplyPendingMutations \/ CheckRedraw
    \/ RenderStep \/ GpuDone

Spec == Init /\ [][Next]_vars

-----------------------------------------------------------------------------
Requests == [release : SUBSET Keys, releaseAll : BOOLEAN, destroyed : SUBSET Keys]
States == [release : SUBSET Keys, releaseAll : BOOLEAN, destroyed : SUBSET Keys,
           keys : SUBSET Keys, width : [Keys -> Widths]]
Entries == [made : BOOLEAN, held : Textures \cup {NoTexture}, releases : SUBSET Textures,
            drawnFor : Widths \cup {0}]

TypeOK ==
    /\ live \subseteq Keys /\ tab \subseteq Panes
    /\ slot \in [Panes -> Widths] /\ width \in [Keys -> Widths] /\ layoutDirty \in BOOLEAN
    /\ pending \in Requests /\ renderState \in States /\ frame \in States
    /\ unseen \subseteq Keys /\ hold \subseteq Keys /\ snapSync \subseteq Keys
    /\ mainPc \in {"events", "apply", "check"} /\ loopAwake \in BOOLEAN
    /\ needsRedraw \in BOOLEAN /\ renderWake \in BOOLEAN
    /\ renderPc \in {"wait", "surface", "structure", "load", "draw"}
    /\ todo \subseteq Keys
    /\ entries \in [Keys -> Entries] /\ staged \subseteq Textures
    /\ gpu \in Seq([uses : SUBSET (Textures \cup {NoTexture}), gives : SUBSET Textures])
    /\ deferred \subseteq Textures /\ screen \subseteq Keys /\ changes \in 0..MaxChanges
    /\ PoolTypeOK

(* A texture of the pool is in exactly one place: free, on an entry, taken *)
(* off one, staged by a destroy, in the hands of the GPU, or handed back   *)
(* by it.  In two places it would be drawn into twice and released twice;  *)
(* in none it would be lost to the pool for good.                          *)
Places(t) ==
    Cardinality({i \in DOMAIN free : free[i] = t})
    + Cardinality({k \in Keys : entries[k].held = t})
    + Cardinality({k \in Keys : t \in entries[k].releases})
    + Cardinality({i \in DOMAIN gpu : t \in gpu[i].gives})
    + Cardinality({t} \cap staged) + Cardinality({t} \cap deferred)

OnePlace == \A t \in Textures : Places(t) = IF t \in All THEN 1 ELSE 0

(* And what a submitted frame reads stays out of the pool until the GPU has    *)
(* finished that frame.                                                    *)
GpuSafe == \A i \in DOMAIN gpu : gpu[i].uses \subseteq All \ ToSet(free)
TexturesSafe == OnePlace /\ GpuSafe

(* An entry outlives its terminal only while a request to destroy it is on *)
(* its way: a frame that still shows a terminal that was closed meanwhile  *)
(* cannot leave an entry behind that nothing will ever remove.             *)
Destroying ==
    WithPopups(pending.destroyed \cup renderState.destroyed
               \cup IF renderPc = "structure" THEN frame.destroyed ELSE {})

DeadEntryIsDestroyed == \A k \in Keys \ live : entries[k].made => k \in Destroying

(* When both threads have come to rest, no terminal on the screen has a    *)
(* snapshot that no frame loaded, unless a synchronized update freezes it: *)
(* the frame that clears needsRedraw_ loads the snapshots afterwards, so   *)
(* output is not lost however it falls into a frame.                       *)
Resting ==
    /\ mainPc = "events" /\ ~loopAwake
    /\ renderPc = "wait" /\ ~renderWake

RestShowsContent == Resting => unseen \cap screen \subseteq snapSync
=============================================================================
