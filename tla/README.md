# Specifications of MasterBandit

MasterBandit is a GPU terminal emulator. These modules describe, in TLA+, the
parts of it whose correctness depends on order: threads that share a Terminal, a
poller whose registrations change under it, frames that outlive what they draw,
a scrollback that is rewrapped under a cursor or a selection, scripts that are
unloaded while they are called, images edited while they are shown. TLC checks them on small
instances; TLAPS proves the most important invariants for every instance.

Paths are relative to the repository (`src/terminal/Terminal.cpp` is
`src/src/terminal/Terminal.cpp` in `PROJECT.json`, which maps every definition to
its lines).

Contents: 1 inventory, 2 the modules, 3 the runs, 4 fairness, 5 proofs,
6 disagreements between code and comments, 7 what is left out, 8 plan.

## 1. Inventory

Four kinds of threads run. The **main thread** owns windows, tabs, layout,
scripts and the life of every Terminal; its loop is one tick: events, posted
lambdas, `applyPendingMutations`, sweep. The **mux thread** (`PtyMux`) polls the
PTYs and fills each Terminal's read buffer. **Worker threads** (`WorkerPool`)
parse those buffers and shape text. The **render thread** draws frames from a
copy of the main thread's state.

```
 child --PTY--> mux thread --mReadCoalesceBuffer--> worker --actions--> grid
                    |  markExited                      |  publish snapshot
                    v                                  v
            pendingExits_, posts --> MAIN THREAD    render thread --> GPU
                                        |  runOnMain ^     ^
                                        +--pending_ / renderState_ (render mutex)
```

### Concurrency core

| Component | State | Operations | What is hard, and what makes it correct |
|---|---|---|---|
| PTY read path (`Terminal.cpp`, `PtyMux`) | coalesce buffer, `mReadPaused`, `mParseInFlight`, `mExited` | `readFromFD`, `queueParse`, `maybeResumeRead`, `markExited` | bytes are parsed once, in order, by one task at a time; no byte waits for the next one; a pause ends |
| FdPoller (epoll) | `fds_`, `pendingOps_`, wake-up fd | queued `add`/`enable`/`disable`/`remove`, `removeSync`, `poll` | `removeSync` blocks main on the poller: the acknowledgement must come, after the callback has returned, and nothing queued may outlive the fd's number |
| Terminal lifetime (`Platform_Tabs`, `Graveyard`) | tree, graveyard with stamps, `pendingExits_`, posted lambdas, `renderState_`, `frameState_` | spawn, extract and bury, `terminalExited`, `killTerminal`, `sweep` | no frame, parse task or callback holds a deleted Terminal; an exit is handled exactly once |
| Shutdown (`exec`, `~PlatformDawn`) | phase of the teardown | detach, join render, spin, `drainAll`, join mux, join pool, drop the tree | the order, while workers may be blocked on the thread that takes them down |
| Worker pool (`WorkerPool.h`) | queue, `stopping_`, one `Batch` per dispatch | `submit`, `dispatch`, worker loop, destructor | no lost wake-up, every item once, an orderly stop |
| Locks and `runOnMain` (`PlatformDawn.h`, `TerminalEmulator`) | `mParseStateMutex`, `mMutex`, the render mutex, posts | parse, script handler, filter, build of the render state, copy | no circular wait; every bounce is answered |
| PTY write path | `mWriteQueue`, `mWritePollActive`, POLLOUT subscription | `writeToPTY`, `flushWriteQueue`, `markExited` | keys and replies from two threads and a third that flushes: order, no loss, no descriptor watched after it is closed |
| Event loop | posts, timers, watches | `post`, `wakeup`, `addTimer`, `run` | its order inside a tick is part of several modules; the table of timers is not modelled |

### Rendering

| Component | State | Operations | What is hard, and what makes it correct |
|---|---|---|---|
| Hand-over of frames (`RenderThread`, `RenderEngine`) | `pending_`, `renderState_`, `frameState_`, `needsRedraw_`, `renderWake_` | handlers, `applyPendingMutations`, `snapshotUnderLock`, `renderFrame` | a request or an output is not lost; nothing stays for a closed pane |
| Texture pool | `all_`, free list, `freeBytes_` | `acquire`, `release`, eviction | a texture is in one place, and not reused while the GPU reads it |
| Image textures (`Renderer`) | slots by image id and frame | `useImageFrame`, `retainImagesOnly` | a slot shows the frame it was asked for, though the program edits frames |
| Compute pool, atlases, shaping, shaders | caches and GPU data | | the compute pool is the texture pool's twin; the rest is data |

### Terminal emulation

| Component | State | Operations | What is hard, and what makes it correct |
|---|---|---|---|
| Main screen (`Document`, `LineBuffer`) | grid, logical lines in blocks, line ids | scroll, edit, reflow, evict | long sequences of legal calls: a resize must keep the logical lines, the cursor its text, a scrolled viewport its view |
| Screens and modes (`TerminalEmulator`) | main and alternate state, saved modes, stacks, viewport, atomics for other threads | actions, `resize`, RIS, DECSTR | the hidden screen must follow the window and keep what is its own; copies read without the lock must be true |
| Escape-sequence parser (`ParseToActions`) | decoder state, escape and string buffers | bytes to actions | characters, sequences and strings split over reads, or given up half way |
| Command records (OSC 133), notifications (OSC 99) | ring of commands, selection, pieces of a notification | marks, pruning, navigation | records anchored to line ids that scroll, are evicted, or are on the other screen |
| Kitty graphics | image registry, placements, cell extras, upload under way, frames | a=t, T, p, d, f, a, c; iTerm's OSC 1337; tick | images edited while shown, animated and kept in snapshots |
| Selection (`MouseAndSelection`) | two anchors, a pending press | drag, word, line, extend, rectangle, resolve | anchors that scroll, rewrap and are evicted |
| Embedded terminals | map by line id, evicted list, focus | create, evict, reset, hit test, drain, sweep | evicted by a worker while the main thread and a frame use them |
| SGR, colours, wide characters, colour and capability queries | data | | parsing and formatting |

### Windows, tabs and panes

| Component | State | Operations | What is hard, and what makes it correct |
|---|---|---|---|
| Layout tree (`LayoutTree.cpp`) | nodes with parent, children, active child, zoom target | append, remove, replace, move, swap, split by wrapping, collapse, destroy | any order of calls leaves a tree, and no name of a node that is gone |
| Tabs and focus (`Platform_Tabs`, `Platform_Actions`, `ScriptEngine_Terminals`, `default-ui.js`) | Terminals by node id, focused node, remembered focus of each tab | new, split, close, zoom, swap, rotate, move, activate, pager, exits | a killed pane's node stays in the tree until a script listener runs; tree, Terminals and focus must agree again, and no empty tab stays |

### Input

| Component | State | Operations | What is hard, and what makes it correct |
|---|---|---|---|
| Keys (`InputController`, `Bindings`, `Keyboard`) | held-back keys, timer, keyboard flags | key, character, timeout, reload | what becomes of each key that is bound, held back, replayed or typed, as press and character are two events |
| Mouse (`InputController`, `ClickDetector`, `MouseAndSelection`) | drag, auto-scroll, clicks, buttons the program knows of | press, release, move, timer | press and release may go different ways |
| Clipboard (`Window_xcb`) | requests with deadlines, one property | paste, copy, OSC 52, answers, sweep | late, refused and stolen answers |

### Scripts

| Component | State | Operations | What is hard, and what makes it correct |
|---|---|---|---|
| Engine (`ScriptEngine`) | instances, listeners, filter counts and flags, timers, jobs, actions, popups | load, unload, call, filter, terminate | native loops call scripts that call native loops; scripts end in the middle of it |
| Permissions | allowlist file, pending questions | check, load, approve | answers come late, files change, "always" must mean the same text |
| Files, web sockets | disk, servers, connections | `mb:fs`, `mb:ws` | the library calls back for what scripts have closed |

### Everything around

Configuration, debug IPC, D-Bus, window systems, fonts, start-up: I/O and data.
`PROJECT.json` lists every component with its status, and every hazard with the
line where it bites.

## 2. The modules

Names of variables and actions follow the code. A step that holds one mutex from
beginning to end is one action; a step that reads shared state, lets go and acts
on it later is two. Operators marked "mutant" or "mutation" in their comment are
faulty variants of the definition after them: `PROJECT.json` names the property
that notices each.

```
OutputStream <--refines-- PtyRead <-- PtyReadProofs, MCPtyRead
PaneLifetime <-- Shutdown <-- ShutdownProofs
WorkerPool   <-- WorkerPoolProofs
RunOnMain    <-- RunOnMainProofs
TexturePool  <-- RenderFrame <-- RenderFrameProofs, MCRenderFrame
LineBuffer   <-- Document <-- Screen, Selection <-- Selecting <-- MCScreen
LayoutTree   <-- Tabs <-- MCTabs
ScriptPermissions <-- ScriptFs <-- ScriptWs <-- ScriptEngine <-- Scripts
             <-- ScriptsProofs, MCScripts
Images, Modes, Parser, Shell, Keys, Mouse, Paste, PtyWrite, Embedded
             <-- Emulator <-- EmulatorProofs <-- InputProofs
                 Emulator <-- MCEmulator
```

**PtyRead**: one Terminal between its child, the mux thread, the workers and the
main thread. `muxPc` walks through `FdPollerEpoll::poll` (swap the queued
operations out, apply them one by one, `epoll_wait`, the callback, the wake-up
fd) and, inside the callback, through `readFromFD` and `queueParse` statement by
statement. `workerPc` walks through the task `queueParse` submits: grab the
buffer, inject, `maybeResumeRead`, look at the buffer size again, give
`mParseInFlight` back. `mainPc` walks through a close: `removeSync`, graveyard,
sweep, the destructor's second `removeSync` and `close(fd)`. A byte is its
position in the child's output, so order, loss and duplication are visible.
EPOLLHUP is delivered whatever the mask is, as epoll does.

**OutputStream**: what the read side promises, a stream from the child to the
parser: bytes arrive in order, none is invented, none arrives after the Terminal
is gone. `PtyRead` implements it with `sent <- written, delivered <- parsed`.

**PaneLifetime**: any number of Terminals and everyone who holds a pointer to
one: the mux callback (`muxAt`), the parse task (`work`), the lambda that
`markExited` posts (`posts`, `running`), the queue of exits (`exits`, `dying`),
the shadow copy `renderState_` (`shadow`) and the frame (`refs`). `mainPc` is the
phase of the tick. The graveyard's stamp is kept as the one thing sweep asks of
it: has a frame completed since (`newFrame`). Removal from the mux is one step
that waits for the callback, which is what PtyRead establishes.

**Shutdown** extends PaneLifetime with the end of `exec()` and `~PlatformDawn`:
each thread's steps go on until it is joined, `parked` are parse tasks blocked in
`runOnMain`, and `gaveUp` records that the spin used up its 5000 turns. Its runs
and theorems speak of the whole life of the program, from the first spawn to the
last join; PaneLifetime alone is checked for the finding 6.2 only.

**WorkerPool**: the whole of `WorkerPool.h`. The batch mutex is a variable
because the caller holds it from the check of its predicate until it sleeps. The
batch lives on the caller's stack: the last task decrements `remaining` before it
locks `batch.m`, so the caller may return in between and the lock then reaches a
destroyed mutex. `NotifyBatch` gives that step the outcomes the build can
produce: it has no effect, or it notifies the next batch in the same frame.

**RunOnMain**: the two locks of each Terminal, the render thread's mutex, the
post a worker waits for, and a main thread that takes the same locks in handlers,
in filters and, for every pane, in `buildRenderFrameState`. A worker bounces to
the main thread for the output filters, which run on raw bytes before any lock,
and for a reply, which comes up inside `applyActions` under both locks of its
Terminal and goes through an input filter or asks for the clipboard (OSC 52).

**TexturePool**, **RenderFrame**: best-fit acquire, LRU eviction and the byte
account; on top of it the life of a frame. Main collects requests in `pending_`
and moves them to `renderState_` at the end of a tick; a frame copies that,
clears the one-shot requests, makes and destroys entries, loads snapshots, draws,
presents. Textures that leave an entry travel with the submitted frame (`gpu`)
and come back through `deferred`. Popups and embedded terminals are entries that
hang off a pane.

**LineBuffer**, **Document**, **Screen**: pure operators for the scrollback in
blocks and for the grid above it, and a state machine whose actions are the
parsed actions that touch them and the main thread's `resize` and viewport
calls. A cell is a blank or a stamp that tells one printed character from all
others; line ids are only compared for equality.

**LayoutTree**, **Tabs**: the tree is a function from node ids to records, its
operations are pure operators, and `Subtree`, `Leaves`, `Shown` walk it as
recursive functions. `Tabs` keeps one record `ui` of everything the handlers of
the main thread share (tree, nodes with a live Terminal, focused node, remembered
focus, queued script listeners, pagers); operators named after the functions of
`Platform_Tabs.cpp` and `ScriptEngine_Terminals.cpp` map it to the next one, and an
action is a user's action with the handler of `default-ui.js` or
`Platform_Actions.cpp` it reaches, followed by the script jobs, as
`ActionRouter::dispatch` does. `Tick` runs the queued listeners, then kills the
Terminals whose exits were queued, as `onTick` does; clicks and notifications run
no jobs, so they can fall between a kill and its listener. A dialog ("Close
pane?") fixes what it is about when it opens and is answered any number of
actions later, or with No when its pane dies.

**Selection**, **Selecting**: a selection is two boundaries between cells, each a
line id and an offset in that line; pure operators start, extend, resolve and
read it. `Selecting` adds the mouse, the viewport and the program's output to
`Screen` in a second scene that begins with a page of text.

**ScriptPermissions**, **ScriptFs**, **ScriptWs**, **ScriptEngine**, **Scripts**:
four layers of operators on one record `e` (allowlist and questions; a small
disk; servers and connections; instances with everything registered in their
names) and a state machine whose variable `stack` is the main thread's call
stack: code of a script (`js`), a native loop over all instances (`fan`, an
`IterGuard` held), `fireJsTimer`, an action between handler and listeners, and
`executePendingJobs`. A script in the middle of a call may make any call of its
scope, so that listeners run inside `unload`, inside `closeWsServer` and inside
each other. It may also queue another job, with no bound (`JobsQueueJobs`), so
that `executePendingJobs` need not end. QuickJS and libwebsockets are external: a
queued job keeps its context alive, a vhost calls back until its context is destroyed.

**Emulator** composes nine modules of operators, each on one record, and adds
what drives them: the program in the pane, the window system, the render thread
and the clock. Its variable `scene` picks what a behaviour is about:

| Scene | Module | What it has |
|---|---|---|
| place, animate | **Images** | the kitty protocol's commands, iTerm's images, cell extras, scrolling, frames and their clock, the published view and the renderer's slots. A buffer's content is a token, new whenever the code makes or changes a buffer |
| modes | **Modes** | modes of the two screens, saved modes, kitty flags, pointer shapes, titles, and the atomics |
| bytes | **Parser** | `parseToActions` over classes of bytes; what was meant is kept beside what came out |
| shell | **Shell** | OSC 133 marks on line ids, the ring, selection and navigation, notifications in pieces |
| keys | **Keys** | matcher, held-back keys and their replay, the press and the character event, the legacy protocol and kitty's flags, reloads of the settings at any time |
| mouse | **Mouse** | clicks, default and user bindings, drags, auto-scroll, focus, what each terminal's program was told |
| paste | **Paste** | X11's selections: requests, owners, deadlines, answers in one property, readers that poll |
| write | **PtyWrite** | two writers, the write queue, POLLOUT, the end seen by any thread, the posted removal, the destructor. `DestroyTerminal` waits for that posted removal; that it may come later is the finding about markExited's pointer (6.2) |
| embed | **Embedded** | creation, eviction on a worker, reset, focus, hit tests, handlers with pointers in hand, the drain, frames and the sweep |

What the scenes hold apart is apart in the code (each module's state is written
by its own handlers only), so that the state space is the sum of the scenes.

## 3. The runs

| Run | States | What it asks |
|---|---|---|
| `ptyread` | 232 k | single flight, refinement of the stream, no stranded byte, both fences, liveness of hangup, close and output |
| `ptyread_resume` | stops | does a paused PTY resume? It need not (6.1) |
| `panelifetime_pointers` | stops | do lambdas and queued exits point to live Terminals? Not always (6.2) |
| `shutdown` | 377 k | no frame, parse or callback on a freed Terminal, exits kept and handled, through the program's life and its teardown, which ends |
| `workerpool` | 33 k | every task once, no lost wake-up, every dispatch returns |
| `renderframe` | 490 k | textures, entries and output through any interleaving of changes and frames |
| `screen` | 131 k | lines, text, view, cursor and selection through resizes and scrolling |
| `runonmain` | 7 k | no circle of waits but the one of replies; bounces return unless a reply closes it |
| `runonmain_replies` | stops | is a bounced reply as safe as an output filter? It is not (6.3) |
| `tabs` | 90 k | tree, Terminals, tabs and focus through five actions and exits in any order |
| `scripts` | 409 k | filters, owners, questions and terminations through nested calls |
| `emulator` | 593 k | ten scenes of one terminal: images, modes, bytes, commands, keys, mouse, pastes, writes, embedded terminals |

### What the properties mean

*PtyRead.* `SingleFlight`: at most one parse task, queued or running, and
`mParseInFlight` is true exactly then. `NothingStranded`: bytes in the buffer and
no callback running imply a task that will still look. `DestroyQuiescent` and
`ClosedFdForgotten`: once the destructor has begun nobody touches the Terminal,
and after `close(fd)` the poller knows nothing of the number the kernel may hand
out again. `RefinesStream`: the refinement. `EverythingEnds`: output is parsed, a
hangup leads to destruction, a close does not hang; the first excludes a masked
fd, which is 6.1.

*Shutdown.* `ThreadsSafe`: the three holders with a protocol (frame, parse task,
mux callback) never hold a freed Terminal, from the first spawn to the last join,
but for a parse of a buried one between `drainAll` and the pool's end (section 6).
`SpinIsFinal`: unless the spin gave up, nothing is parsed for the tree once it has
ended, although the mux thread runs on until later and could have had a last
callback. `ExitNotLost`, `ExitBuries`: an exit reported from any thread is on its
way until handled, and is handled unless the user quits before. `ShutdownEnds`: a
teardown with no parse in flight for a buried Terminal ends unless it gives up; a
worker parked in `runOnMain` must be let go by the spin.

*WorkerPool.* `RunOnce` (dispatch returns after every item ran exactly once, and a
destroyed pool ran every job), `NoLostWakeup`, `DispatchReturns`.

*RenderFrame.* `TexturesSafe`: a texture is in exactly one of the six places a
texture can be, and nothing in flight is on the free list. `DeadEntryIsDestroyed`:
an entry of a closed terminal has its destroy request on the way, although frames
drawn from an older copy re-create entries. `RestShowsContent`: with both threads
asleep, no visible output is unseen unless a synchronized update holds it.

*Screen.* `LinesKept`: a resize neither joins, splits nor reorders logical lines,
moving down keeps what leaves at the top, and only the oldest is lost, only where
the scrollback is full. `ViewportPinned`: a viewport scrolled back keeps its top
row when history grows. `CursorFollowsText`: a cursor behind the last text is
there after a reflow. `SelectionKeepsText`: the selected text is the same after
output, scrolling and resizes. `DragSelectsBetween`: the first motion of a drag
selects the cells between press and pointer, although the text may have moved
since the press.

*RunOnMain.* `OnlyRepliesEntangle`: in every set of threads in which each waits
for another of the set there are the main thread and a worker that bounced a reply
under the locks of the Terminal whose lock the main thread wants: no other circle
exists, through posts behind one another, the render thread's mutex, injections
or output filters. `BounceReturns`: a worker that asked, with an output filter or
a reply, is answered, unless such a circle closes. `NoWaitCycle`, no circle at
all, is what the code's comment says and `runonmain_replies` refutes.

*Tabs.* `PanesMatchTerminals`: the tree is well formed (parents and children
agree, every node has one place, a Stack shows one of its children, a zoom target
lies below its Stack), every live Terminal has a leaf under a tab, and every leaf
has one, or its listener is queued, or its PTY never opened. `ExitsSettle`: with no
listener queued no tab is without leaves, although each listener closes one empty
tab only, and the focused node has a Terminal (or is a pane whose PTY could not be
opened).

*Scripts.* `FiltersNeverSkipped`: flag, count and the living scripts'
registrations agree for every pane, so that no filter is skipped by the worker's
look at the flag. `NothingOutlivesItsOwner`: nothing registered in the name of an
unloaded script remains, libwebsockets finds the memory it calls back with, and a
close is told once. `AsksFirst`: a user script starts only for the very text and
permissions the user agreed to. `TerminationComes`: a script that exits is
unloaded, whatever its listeners do meanwhile, unless `executePendingJobs` never
returns; and that only happens when jobs queue jobs for ever.

*Emulator.* `ImagesShown`: an image's current frame exists, a texture slot of the
right version shows the right pixels, and an image with cells on the screen keeps
its data. `ModesTrue`: the copies other threads read agree with the screen that is
shown, and a screen's modes are its own. `ParsedAsSent`: however reads cut the
bytes, what was sent whole arrives as sent. `CommandsTrue`: only the last command
runs, each end is reported once, the selected command exists and is outlined on
rows that exist, and a notification shows nothing of the one before. `KeysOnce`, an
account without exceptions: what a press itself gives is sent, taken, without a
sequence or held back, exactly one of these; press and character both arrive exactly
for a plain key that a binding took or that went out under the kitty protocol and
whose character came in the legacy one (`twice`), neither exactly for one left to its
character when the protocol was switched on (`lost`); the rest is in order, and only
what a reload found held back (`late`) may wait without a timer. `MouseTrue`: no drag
without a button, no auto-scroll without a drag, and a calm press and release (a plain
button over one surface, with nothing left over from before) leaves no program
believing it down. `PasteOnce`: each paste is answered once. `WritesArrive`: the
program gets what was written, in the lock's order, up to its end, and no descriptor
is watched after its close. `EmbeddedSafe`: no embedded terminal is freed under a
frame or a handler, and its script hears of its end once. `WorkEnds`: animations with
loops, pastes and waiting writes come to an end.

Type invariants are not among the runs' properties: those of PtyRead and
Shutdown are proved, and the others that a proof needs are parts of its
inductive invariant.

### Bounds, and why they suffice

- `PtyRead`: two workers (one can hold an old task while another takes a new
  one), one byte per read and in the kernel, marks 2 and 1, four bytes: enough to
  reach the mark, go over it, drain below it and reach it again. Sizes in bytes
  play no role beyond their comparison with the marks.
- `Shutdown`: two Terminals, because exits, posts and frames of one interleave
  with those of another, and one may be buried, parked or watched while the other is
  on the tree; each lives once, as every Terminal object does.
- `WorkerPool`: two workers, a caller with two batches of two items (so that a
  late notification meets the next batch), two jobs.
- `RenderFrame`: a tab of two panes, one with a popup, and a tab of one pane; two
  widths, so that a texture can fit, be too small, or be at most twice too
  large; two frames in the GPU; two changes (layout changes, publishes and frames
  without a surface together), between which any number of frames can fall. Two
  changes are what it takes for a request to meet the consequence of an earlier
  one. 13 textures is more than these instances can create, so the pool is never
  full. The byte limit of two makes eviction happen.
- `Screen`: windows of 2 or 3 columns and rows, runs of 1 and 5 characters (one
  wraps across rows and blocks), four logical lines of scrollback, blocks of five
  cells, five steps. Five steps print, wrap, scroll out, resize and resize back.
  The scene of selections begins with a page of text, in one of two widths, partly
  in the scrollback, and takes three steps: press, motion, and what moves the text
  before, between or after them. With four (`SelectSteps = 4`) the
  properties hold as well.
- `Scripts`: two user scripts and the built-in one, a pane, a name, five
  instances, one timer; three or four calls by scripts and two to four events
  from outside in each scope. Three calls register, call and unload; the fourth
  of the sockets' scope is the close that meets another close.
- `Emulator`: a screen of 2 x 2 cells and two image ids (images of one and two
  cells overlap, scroll and cover one another); stacks of two; an escape buffer of
  four and strings of two bytes, so that both overflow; two rows and one of
  history, so that a prompt scrolls out after two lines; per scene, `McSteps`
  things sent: three for placement (send, place, delete), four for animation
  (send, add a frame, run, edit), five modes, two byte sequences cut anywhere,
  five marks, five keys, switches of the protocol or reloads against sequences of up
  to three, two presses (or requests
  of programs for the mouse, screens switched, panes focused) with any moves, three
  pastes, five writes, six events around two embedded terminals. With three steps
  and one button, and with other bindings of the user's, `MouseTrue` holds as well.
  `Texts` and `Params` are what strings and sequences carry: characters of several
  bytes, more than the buffer holds, intermediate bytes.
- `Tabs`: two tabs, three panes, one failed spawn, five actions and exits, with
  ticks between any of them. Five are enough to split, open a pager or a second
  tab, let two panes exit and act before their listeners run; ids are taken in
  order, twelve of them, and reused once nothing knows them any more.
- `RunOnMain`: two Terminals, each with its worker; no counters, the model is
  finite by itself.

`CHECK_DEADLOCK FALSE` stands where the modelled system may stop: a finished
teardown, a joined pool, a program that quit, used-up bounds, or, in `runonmain`,
the circle that replies close. It is on for `panelifetime_pointers` and
`runonmain_replies`.

## 4. Fairness

Safety needs none. For liveness:

- Threads that never wait for a person are weakly fair: the mux loop, each worker,
  the main tick's own steps. The child, the user, scripts that open handlers and
  failing writes are never obliged to act.
- `PtyRead`: WF of the mux thread, of each worker and of the main thread's
  handling of exits, fences and sweep.
- `Shutdown` (`ShutFairness`): the tick and the teardown are one sequential thread
  (WF); its wait for the mux thread is not overtaken for ever (SF, which is
  `EverythingEnds` of PtyRead for a close); a callback and a frame end (WF); a parse
  ends unless it is parked for ever (SF, since it may park again and again before
  it does). The user owes no quit and no close.
- `WorkerPool`: tasks end, and mutexes are handed on: strong fairness for the two
  steps that lock the batch mutex, weak for everything else.
- `RunOnMain`: weak fairness for workers under way and answers; strong fairness
  for the main thread's three lock steps, since a worker naps 3 ms between two
  batches, so that a free lock is got in the end; strong fairness for the end of
  an event phase, a handler and a filter, which take locks finitely often.
- `Scripts`: weak fairness of native code that is under way (`Frames`, in which a
  script's code returns in the end), of the tick and of the posted termination.
  Scripts owe no call and the user no answer. Nothing is assumed of
  `JobsQueueJobs`: a job may queue the next one for ever, which starves the drain's
  end although `Frames` is fair, and `TerminationComes` has to say so.
- `Emulator`: weak fairness of `Clockwork` alone: the timers of animations and of
  selection requests keep running, threads do not stop in the middle of a write,
  and the program reads its input. Each of the three belongs to one scene, so that
  one condition states them. The program, the user, X11's other clients, scripts
  and frames are never obliged to act.

## 5. Proofs

All proofs are complete down to leaves that Z3, Zenon or LS4 check. They assume
the named `ASSUME`s of the modules (sets of threads are what they are called,
`Low < High`, marker values are no members, limits are numbers) and no bounds on
the sets. The constants that only bound a run (`MaxBytes`, steps, calls, changes,
instances) are any numbers in the theorems.

| Theorem | Statement | Rests on |
|---|---|---|
| `PtyReadProofs!TypeCorrect` | `Spec => []TypeOK` | inductive as it is |
| `OneParseAtATime` | `Spec => []SingleFlight` | with `TypeOK` |
| `NoByteStranded` | `Spec => []NothingStranded` | with `SingleFlight` |
| `FenceOrder` | `Spec => []FenceInv` | see below |
| `NoUseAfterDestroy` | `Spec => []DestroyQuiescent` | `FenceInv`, `SingleFlight` |
| `ClosedFdClean` | `Spec => []ClosedFdForgotten` | `FenceInv` |
| `ReadIsAStream` | `Spec => RefinesStream`, the refinement of OutputStream | `OneRun`, `FenceInv` |
| `ShutdownProofs!LifetimeTypes` | `ShutSpec => []TypeOK` | `TeardownInv` |
| `NoThreadBehind` | `ShutSpec => []ThreadsSafe`, the three holders are safe | `TeardownInv` |
| `SpinEndsParsing` | `ShutSpec => []SpinIsFinal` | `TeardownInv` |
| `ExitIsKept` | `ShutSpec => []ExitNotLost` | `TeardownInv` |
| `WorkerPoolProofs!NoWakeupIsLost` | `Spec => []NoLostWakeup` | `WakeInv` |
| `EachRunsOnce` | `Spec => []RunOnce` | `RunInv` |
| `RunOnMainProofs!OnlyRepliesCloseCircles` | `Spec => []OnlyRepliesEntangle` | `BounceInv` |
| `RenderFrameProofs!DeadEntriesGo` | `Spec => []DeadEntryIsDestroyed` | `DeadInv` |
| `OutputIsShown` | `Spec => []RestShowsContent` | `ContentInv` |
| `TexturesInOnePlace` | `Spec => []TexturesSafe` | `TextureInv` |
| `EmulatorProofs!WritesReachTheProgram` | `Spec => []WritesArrive` | `WriteInv` |
| `EmbeddedIsSafe` | `Spec => []EmbeddedSafe` | `EmbeddedInv` |
| `PastesEndOnce` | `Spec => []PasteOnce` | `PasteInv` |
| `ModesAreTrue` | `Spec => ModesTrue`, an action property | `ModesInv` |
| `KeysArriveOnce` | `Spec => []KeysOnce` | `KeysInv` |
| `CommandsAreTrue` | `Spec => []CommandsTrue` | `ShellInv` |
| `InputProofs!BytesArrive` | `Spec => []ParsedAsSent` | `BytesInv` |
| `ButtonsLetGo` | `UsualBindings` gives `Spec => []MouseTrue` | `MouseInv` |
| `ScriptsProofs!ScriptsAskFirst` | `Spec => AsksFirst`, an action property | `AskInv` |
| `OwnersOutlive` | `Spec => []NothingOutlivesItsOwner` | `OwnInv` |
| `FiltersHeard` | `Spec => []FiltersNeverSkipped` | `CountInv` |

**FenceInv.** That the fd is out of the poller when `removeSync` returns does not
follow from the current state alone: the acknowledgement is one operation in a
queue that other threads append to. The invariant says how queue contents are
ordered: the registration is the first operation ever (`AddFirst`), a removal
stands right before every acknowledgement, or has just been applied
(`RemoveBeforeAck`), there is exactly one acknowledgement per open fence, in the
shared queue or in the part swapped out (`AckCount`), and a swapped-out part exists
only while the mux thread applies it (`LocalUse`). From that follows
`GoneWhenFenced`: when a fence has been passed the registration is gone, no
operation could bring it back and the callback has returned. For the second fence
the acknowledgement is also the last operation, because no parse task is left
that could append one; this is what empties the queue before `close(fd)`.

**OneRun.** A byte is its number, so that what is parsed, the one batch a worker
holds, the coalesce buffer, what the mux thread has read and what the kernel
holds are one run of numbers cut in five. Each step moves a cut or writes the next
number. That the batch is the only one is `SingleFlight`; that nothing is parsed
after the end is the fence. The refinement is then shown step by step: the child's
writes and `inject` map to the stream's two steps, every other action to a stutter.

**HeldInv.** `FrameSafe` is not inductive: it needs that the shadow copy only
holds Terminals of the tree (`ShadowLive`), since extraction rebuilds it in the
same critical section, and that a frame holds a buried Terminal only while no
newer frame has completed (`FrameHolds`). `WatchedLive` does the same for the mux.
**TeardownInv** keeps `HeldInv` until `drainAll` empties the graveyard past its
two gates. What makes that harmless is the order of the steps before it: once
the PTYs are detached nothing is watched and no callback runs (`NothingWatched`),
so that no parse can begin for the tree any more and the look the spin takes is
final (`SpinIsFinal`); once the render thread is joined no frame holds anything
(`NothingDrawn`); and once the pool is joined nothing runs (`NothingRuns`). `ExitsKept` adds to
`ExitNotLost` that the exits swapped out by one tick are handled in it
(`DyingHandled`), and it must hold to the end: the teardown drops posts, but not the queue
of exits.

**WakeInv.** A lost wake-up would be a non-empty queue with every worker waiting
or gone and no notification pending. The strengthening says that workers leave
only a stopping pool with an empty queue, and that a pool stops only when nobody
uses it. **RunInv** keeps accounts: a task is in the queue, with a worker that runs
it, or with one about to count it, and in one of these (`OnePlace`); an item was
run in each batch but for what is still due in the last; and `remaining` is the
number of items not yet counted, so that it reaches zero when all have run.

**BounceInv.** Who owns each lock is a function of where its owner is
(`WorkerOwns`, `MainOwns`, `PlatOwned`), and a posted lambda belongs to one
waiting worker (`PostsWait`). A worker that waits with an output filter holds no
lock, and every wait for a lock goes down the order render mutex,
`mParseStateMutex`, `mMutex`. So a circle has to come back up through a worker that
holds locks and waits for the main thread: a reply, for a Terminal whose lock
the main thread wants.

**RenderFrame.** `DeadInv`: an entry can be re-created by a frame that copied the
state before its terminal was closed. So what a frame shows and is closed has a
destroy request that this frame has not consumed (`FrameShows`), and the shared copy
never shows what is closed (`ShowsLive`). `ContentInv`: whatever is unseen, on the
screen or in the frame being drawn and not held back by a synchronized update
keeps `needsRedraw_` up and the main thread about to look. `TextureInv` is a
partition: for every texture which of the six places it is in, nothing twice in
one (`Once`), nothing in two (`Apart`), nothing in none (`Kept`), and what a
submitted frame reads is given back by that frame or a later one (`Reading`). The
three rest on `TypesStep`. Textures that come back are released in the order of
their numbers (`InOrder`: each texture stands where its rank in the set says, once);
releasing appends them to the free list and destroys the shortest prefix that
brings the account under its limit (`EvictFacts`), so that the list stays free of
repetitions and exactly the prefix ceases to exist.

**The scenes of Emulator.** Each scene's record is changed by its own actions
only (`ScenesApart`), so an invariant is an operator on records and needs no
prime. `WriteInv`: what arrived and what is queued are one run of numbers, and a
queue that waits is watched. `EmbeddedInv`: what the render thread's copy holds
is not buried; what a frame holds was buried, if at all, since the frame began
(`stamp = done`); a handler holds a terminal only in a phase in which nothing is
swept. `PasteInv` counts answers: every paste up to the last number is
pending once or answered once. A newer request of the same selection and the
deadline's sweep answer several at once, in folds over sets and sequences; `PasteGood(q, J)`
is the same count with a set `J` of pastes that are just being answered, and the
fold empties `J` one element at a time.

`ModesInv`: each copy that is read without the lock is a function of the modes of
the screen shown (`Mirrored`), and every operation either writes only that screen
or is a reset (`Hidden`). `KeysInv` is an account (`KeysSound`): each number up to
that of the last key has one entry for its press (sent, eaten, mute or held back) or
is left to its character; `twice` is exactly what has both and `lost` exactly what has
neither; what is sent ascends but for second copies and late keys, and is below what
is held. The replay is a fold over the held-back keys, and the account has a number
for how far it has come. While a character is in hand, the account is that of the keys
before, and `asked` says whether the press has had its answer (`Before`); `KeysTold`
draws `KeysOnce` from the account. `ShellInv`: the document's line ids are one run of
numbers (`LinesSound`); in the ring only the last record can be open, ids ascend to
the last one given, each closed record has its end reported, and the lines that
records name were given (`RingSound`); a notification's pieces came since the last one
that was shown (`NoteSound`); and between two batches the first record's prompt is on
a line that is kept and the selection is in the ring (`Pruned`). That the outline lies
on rows that exist follows, with `InOrder`, because row and line id differ by a
constant.

`BytesInv` speaks of the future: from where the decoder is, the rest of the wire,
taken one byte at a time (`Runs`), leaves it at rest with exactly what is meant.
Sending more extends such a run (every item brings a decoder at rest back to rest,
from whatever the broken item before it left it in), and a read, which
`parseToActions` takes in one piece with its fast paths and its look-ahead, goes as
far along it as its bytes one by one (`ParseRuns`). Strings are of any length:
what they collect is the text, cut at `StringMax`.

`MouseInv`: while the button of a calm gesture is down, either it went to the pane
and is still for that pane's terminal (`OnPane`: nothing pending, and the program
was not told of it, or still asks for the mouse; with a selection drag: not told),
or it went to a popup or an embedded terminal, and the detector has no press of its own
from which a move could begin a drag (`OnApart`). When it is up, the
terminal is `Still`. The bindings that take a stroke act in a fold, one after
the other, on the drag and on the focused terminal alone: `StrikeStays` carries
any set of such pairs that each binding keeps through the whole list, defaults and user's
alike. `UsualBindings` says what the theorem needs of the user's (section 6 has
what happens without); the run's bindings and an empty list have it, and TLC evaluates it.

**The script engine.** Its state is one record of 23 fields and a call is any of
some hundred and sixty operators in four modules, so the proofs first say what each operator may do:
`Changes(a, b, F)` (only the fields `F` differ), and from it one of seven kinds of
step (`Ordinary`: quiet, a relabelling, a listener, a surface, an unload, a pane
that goes, a web-socket step), or a load, a restart, the engine's end
(`StepKinds`, by cases over all actions). An invariant is shown for the kinds, not for
the operators. The engine's end is a fold over all instances, taken apart into a chain
of unloads (`UnloadsIn`). `AskInv`: each entry of the allowlist is one the user made,
or holds less (names that the file has no word for are lost when it is written), and a
path has one living user script. `OwnInv`: every owner is loaded, a connection's
server is known to libwebsockets while it may call back (`WsOk`), and a close is told
once. `CountInv`: a pane's count is the sum of the living scripts' registrations. The
sum is a fold over a set, in whatever order `CHOOSE` takes; `TotalIsSum` proves that
any order gives the same (`SumExists` gives the function that sums in every order at
once), so that a registration or an unload changes one summand.

**Induction.** The library's induction theorems take an operator, which none of
the provers can instantiate. `StepByStep` is induction over numbers for a *set* of
numbers (the numbers for which a formula holds, by comprehension), proved from
well-foundedness; `FoldExists` and `SumExists` use it to give the functions that
the folds of the community modules choose. This carries the theorems above
through every fold in the models they are about.

Model-checked only: all liveness (`EverythingEnds`, `ExitBuries`, `ShutdownEnds`,
`DispatchReturns`, `BounceReturns`, `TerminationComes`, `WorkEnds`: the provers have no `ENABLED`
and no fairness); of Emulator `ImagesShown`, an action property over folds of
commands, rows and frames; Screen, Selecting and Tabs, whose operators walk lines
and trees with recursive functions.

## 6. Where code and comments disagree

Three are runs that TLC ends with a trace.

1. `ptyread_resume`, `Terminal.cpp:329`. The mux thread decides to pause under the
   buffer lock, and pauses after releasing it. A worker that drains the buffer in
   between finds no pause to undo, or queues its enable before the disable. The
   fd stays masked with an empty buffer.
2. `panelifetime_pointers`, `Platform_EventLoop.cpp:907`. The lambda posted by
   `markExited` can be run after the exit queued later by the same `markExited`
   was handled and the Terminal swept; a worker's exit can be queued for a
   Terminal that is already buried.
3. `runonmain_replies`, `Platform_Tabs.cpp:408`. "`filter*` bounces through
   runOnMain to invoke QuickJS safely" is said of both filters. Replies under an
   input filter (`Terminal.cpp:603`) and OSC 52 queries (`Platform_Tabs.cpp:757`)
   bounce with `mMutex` held, which the main thread takes for every pane before it
   drains the posts: worker and main thread wait for one another for ever.

The others were observed while modelling. Where a property excludes one, the
definition that excludes it is named.

**Threads and frames.**

- `RenderThread.cpp:86` promises that every request reaches the render thread with
  the next snapshot. `applyPendingMutations` copies the requests, runs the layout
  cascade, which pushes new ones, and clears `pending_`: these are lost.
  RenderFrame loses them too; the old texture goes when it is drawn over.
- `PlatformDawn.cpp:512`, DESIGN.md:831: the spin before `drainAll` looks at the
  panes of the tree, so a buried Terminal with a parse in flight can be freed under
  it, or be parked for ever with nobody left to run its post. Hence the phases in
  `ThreadsSafe` and the premise of `ShutdownEnds`.
- `RenderEngine.cpp:901`: `needsRedraw_` set by a handler can be cleared by a frame
  that copied the state before the tick rebuilt it; both threads then sleep with
  the old layout on the screen, although `Platform_EventLoop.cpp:936` says that a
  request made during the tick keeps the loop awake. `RestShowsContent` is what
  holds.
- `RenderEngine.cpp:899`: with no pane on the active tab the frame returns without
  clearing `needsRedraw_`, and both loops spin. `renderFrame` may return after the
  snapshot consumed the one-shot requests (no surface): its destroys are dropped.
- DESIGN.md 224 ("Only dirty panes acquire a new pool texture"), 706 and 722 (the
  threads and where reads happen), the comments of FdPoller.h:10 and
  Terminal.cpp:333 (`disable` acts at once when called from the callback; the
  epoll poller queues it) and TerminalEmulator.h:670 (a rate limit of publishing)
  describe an earlier design.

**Writing.** `pasteText` makes three writes and reads `bracketedPaste()` twice: a
worker's reply can land inside the brackets, and a mode switched in between leaves
a paste opened and not closed. A write that passed the check of `mExited` may watch
POLLOUT again after the posted removal ran, until the destructor removes it.
`EventLoop::watchFd` is documented as for the main thread only; workers call it.

**Tabs.**

- `ScriptEngine.h:529` calls the focused Terminal "the active tab's focused pane".
  `removeNode` (`Platform_Tabs.cpp:671`) gives the one focus to a pane of the tab it
  works on, and a pager's exit (`Platform_Actions.cpp:439`) to the pane it was
  opened from, whichever tab is active. Then `activeTerm()` is null and keys go
  nowhere until the user clicks or switches tabs. In Tabs: open a pager, open a
  tab, let the pager exit; or split, ask to close the pane, open a tab, answer
  Yes. The same callback runs on the mux thread and reads the tree unlocked.
- `closeTab` activates the tab before the closed one even if the closed one was not
  active. A pane whose PTY could not be opened keeps its leaf: `closePane` finds no
  Terminal to kill, so only closing the tab removes it. A pager that fails to start
  leaves an orphan node. Swapping or rotating a pager with a pane moves the pane
  beside the content, so that the panes do not "come back"
  (`Platform_Actions.cpp:391`) when the pager exits. A pager opened while a pane is
  zoomed has the focus and is not shown.

**Screen.** `resize` adjusts the active screen's cursor, saved cursor and region
only (`TerminalEmulator.cpp:250`; 2082 says no restore is needed): `stale` in
Screen. It clears the pending wrap, so that after widening the next character
overwrites the last one. A resize at the scrollback limit loses the oldest lines
(Document.h:15 calls a resize a "no-op on storage"). A region of height one lets
autowrap take the line id of the row above. SU, DL and ED 3 leave a scrolled
viewport's offset alone. CR in a wrapped line cuts it.

**Selection.**

- Ids do not ascend after RI, IL or LF in a region that ends above the last row,
  which `logicalIndexOfLineId` takes for granted (`LineBuffer.cpp:396`, "we never
  append out of order"): lines are then not found (`Ascending`).
- A drag from the end of one row to the start of the next covers no cell;
  `resolveSelection` selects the two around it (`MouseAndSelection.cpp:207`: equal
  boundaries are empty; `SamePlace`). Anchors on blank rows below the text are lost
  by a resize (`Held`), although `TerminalEmulator.cpp:258`. The trailing trim of a
  blank first row changes what is copied. `mPendingSelection` keeps a raw row that
  survives a reset and evictions.
- Shift and a click without a selection start one without a drag, so that hovering
  extends it with no button held.

**Modes, commands, bytes.**

- With 2026h on the main screen, 1049h, 2026l, 1049l, main's `syncOutput` stays set
  with nothing to clear it, and `RenderEngine.cpp:1167` keeps the pane frozen;
  XTRESTORE and lists make `mHold` and `syncOutput` disagree too, and
  `publishAndFireEvent` publishes during a hold (`TerminalEmulator.cpp:820`).
- `kittySetFlags` does not write the stack; a push on a full stack changes the
  flags only. `CSI ? a ; b h` handles the first mode.
- The command ring "stays sorted" (`TerminalEmulator.h:324`) until the cursor moves
  up or the screen is cleared between marks (`InOrder`). A running command whose
  prompt scrolled out is pruned and its end never reported. Marks on the alternate
  screen record rows of the history. RIS clears neither the ring, the saved modes
  nor the titles. OSC 99's accumulator mixes ids.
- A string interrupted by ESC and a CSI stays pending, and a later stray ST emits
  it; the rest of an over-long CSI is printed as text.

**Images.** GPU textures are keyed by image id across panes. A snapshot points at
pixels that a=f, a=c and d=f write or free, though `TerminalSnapshot.h:132` calls them
immutable after load (`gone` in Images). An unfinished chunked upload survives RIS,
absorbs the next command and suppresses updates (`TerminalEmulator.cpp:798`). Ids the
terminal assigns may collide with a client's. `d=A` frees the first image of each row
only; lower-case `d=i` and `d=n` free data. Sending an image again leaves cells
without their placement; an image deleted on the alternate screen leaves cells on the
main one.

**Embedded terminals.** `onPopupEvent` is set in `createPopup` only
(`Platform_EventLoop.cpp:357`), so that in a pane that never had a popup an
embedded terminal's events cause no redraw, although `Terminal.h:237`. A click's
hit test and `setFocusedEmbeddedLineId` are apart: an eviction in between leaves
the focus on a line that is gone, and the next Escape is swallowed
(`InputController.cpp:157`). `createEmbedded` reads the anchor's line under the
lock and takes the lock again to use it.

**Keys and mouse.**

- On XCB the character event comes after the press: a printable key that begins a
  binding is typed, and sent again when the sequence breaks; one that completes a
  binding acts and is typed (`twice` in Keys; `InputController.cpp:1168` says that
  no `onChar` will follow). A protocol switched in between loses or doubles the key.
- Under the kitty flags 2, 4 or 16 alone cursor keys and Escape write nothing (`mute`):
  `Keyboard.cpp:388` takes it that the caller checks for 1 and 8, which it does not.
- A reload of the settings resets the matcher but neither the held-back keys nor
  the timer, so that keys are stranded or late (`late`), which
  `InputController.cpp:114` means to rule out. Modifiers alone break a sequence.
  Replays go to the terminal that is active then. F12 never reaches the program.
- A grabbed press that is released over the tab bar, a divider, a popup or an
  embedded terminal is never reported as released, nor is one that is released with
  Ctrl, if a binding takes that (`InputController.cpp:579`; the default that opens
  links does). When the program stops asking for the mouse before the next press,
  that one does not clear the button it was told of either.
- While a selection is dragged, and over a popup or an embedded terminal, the
  release returns before the detector hears of it (`InputController.cpp:392`, 475, 530):
  it keeps a button down. A later press over the popup and a move then begin the
  user's plain drag binding, which ends without the popup being told of the release.
  Proving `MouseTrue` showed this and the one before; `calm` in Mouse has a
  condition for each.
- A user binding of a plain stroke for grabbed panes, of `extend` to a plain one, or
  of a selection to a click or a release leaves buttons told or selections open
  (`UsualBindings`). A second press
  during auto-scroll replaces the drag and leaves the scrolling. A left-over
  selection swallows the program's release. One user binding of
  `mouse_selection` drops every default of that type.

**Pastes.** All conversions share one property, so that two in flight can swap or
lose texts; a late answer is taken for the next request of its selection; the
synchronous readers discard every other X event, key presses included, while they
poll (`Window_xcb.cpp:1137` knows of the answers).

**Scripts.**

- `executePendingJobs` (`ScriptEngine.cpp:4020`) runs until no job is left. A script
  whose jobs queue jobs keeps the main thread there, and the posted termination,
  which APPLET.md:282 promises for a violated permission, never runs. No test
  or comment mentions it; `TerminationComes` shows that it is the only way.
- APPLET.md:68 promises listeners as microtasks; `popup.resize` calls "resized"
  listeners inline. A listener that unloads an instance being called leaves the
  loop with a null context (`SelfUnload`). A one-shot timer that clears itself is
  freed twice. `instances_` is appended to while a range loop walks it.
- `removeEventListener` never lowers the filter counts. A second Pane object's
  listeners are never reached. A superseded load request gets no answer. Denying a
  script replaces the path's one denial. A dynamic import reads its module
  unverified. `ScriptFsModule` says it creates the configuration directory, but
  `isUnderDir` fails while it is missing.

## 7. What the models leave out

- *PtyRead*: injection is one step; several fds in one poller; read errors other
  than EOF; the kqueue implementation.
- *PaneLifetime, Shutdown*: the tree and the focus (a Terminal is on it or not; Tabs has
  them); the burial of popups (Embedded has that of embedded terminals).
- *Shutdown*: window, GPU and D-Bus teardown.
- *RunOnMain*: at most one reply per batch; filters that inject into the Terminal
  whose reply they filter; starvation by a child that never pauses.
- *RenderFrame*: fonts, tab bar, dividers and shaping; draws of one frame happen in
  a fixed order; loading a snapshot and taking back the GPU's textures are one step
  (both touch only what the render thread owns and one atomic).
- *Tabs*: sizes and rectangles (the pane in a direction is any that is shown),
  titles, icons, popups, the TabBar and the Container around the Stack of tabs,
  layout calls that only user scripts make, quit dialogs. The pager's exit
  callback is one step.
- *Screen, Selecting*: wide and combining characters, attributes, tab stops, origin
  and insert mode, the contents of the alternate grid, `MaxTotalCells`, wrap
  caches. `CursorFollowsText` excludes a pending wrap, lines cut by editing
  (`Uncut`), lines longer than a block and a full scrollback;
  `SelectionKeepsText` the cases of section 6 and rectangles.
- *Scripts*: values passed to scripts, reading of files, fetches, the layout
  bindings, popups' sizes and their terminals.
- *Emulator*: pixels, files and formats of images, encodings of keys and buttons,
  the texts of notifications and titles, X11's INCR transfers, macOS; releases of
  keys, and a `key_sequence_timeout_ms` of zero or less, with which no timer is set
  and held-back keys wait for the next one.

Components without a module are data, I/O, or second implementations of what is
modelled. They are listed with reasons in `PROJECT.json`: the kqueue and
NSApplication loops, the alternate screen's cells with wide characters and
colours, the compute pool, shaders, fonts and atlases, configuration, debug IPC,
platform services, start-up.

## 8. Plan

Done, in this order: PtyRead with OutputStream, PaneLifetime, Shutdown,
WorkerPool, TexturePool with RenderFrame, LineBuffer/Document/Screen, RunOnMain,
LayoutTree with Tabs, the proofs of section 5, Selection, the scripts' five
modules, and Emulator with its nine.

Proved since: every safety invariant of the threads, of rendering, of the script
engine, and of all scenes of Emulator but the images'; the refinement of the
stream; of the action properties `AsksFirst` and `ModesTrue`
(section 5).

What is left is proving, in the order of what it says:

1. `PanesMatchTerminals` and `ExitsSettle`: that each operation of LayoutTree keeps
   the part of `WellFormed` that needs no walk of the tree, then the match of leaves
   and Terminals; the walks (`Subtree`, `Leaves`) as closures rather than recursions.
2. `ImagesShown`: versions of slots against the registry's frames, for commands
   that are folds over cells and placements.
3. Screen: `ViewportPinned` first, which needs only the arithmetic of the ring and
   not the reflow.
