---------------------------- MODULE PaneLifetime ----------------------------
(***************************************************************************)
(* Who may still hold a pointer to a Terminal when it is deleted.          *)
(*                                                                         *)
(* A Terminal lives on the main thread's tree.  Raw pointers to it are     *)
(* held by the PtyMux callback, by the parse task, by the render thread    *)
(* for the length of a frame, by the lambda markExited() posts to the main *)
(* loop and by the queue of exits.  Closing a pane moves it into the       *)
(* Graveyard, and Graveyard::sweep(), at the end of each tick, deletes it  *)
(* once a frame has completed since and no parse is in flight.             *)
(*                                                                         *)
(* PtyRead shows that a parse task exists at most once per Terminal and    *)
(* that the synchronous removal waits for the callback; here the removal   *)
(* is a step that waits until the mux thread is not in the callback.       *)
(***************************************************************************)
EXTENDS Naturals, Sequences, FiniteSets

CONSTANTS Terms, None

ASSUME TermsAssumption == None \notin Terms

VARIABLES
    where,      \* unborn, live (on the tree), buried (in the Graveyard), freed
    newFrame,   \* completedFrames > stamp, for the entries of the Graveyard
    exited,     \* mExited
    watched,    \* Terminals whose fd is registered with the PtyMux
    muxAt,      \* Terminal whose callback the mux thread is in, or None
    muxPc,      \* how far that callback is
    work,       \* per Terminal, the parse task: none, or how far it is
    posts,      \* posted_ of the EventLoop: lambdas that capture a Terminal
    running,    \* what drainPosts swapped out
    exits,      \* pendingExits_
    dying,      \* what drainPendingExits swapped out
    shadow,     \* Terminals in renderState_, the copy for the render thread
    refs,       \* Terminals in frameState_ of the frame being drawn
    framePc,    \* where the render thread is
    mainPc      \* phase of the main thread's tick

muxVars    == <<muxAt, muxPc>>
postVars   == <<posts, running>>
exitVars   == <<exits, dying>>
frameVars  == <<refs, framePc>>
vars == <<where, newFrame, exited, watched, muxAt, muxPc, work, posts, running,
          exits, dying, shadow, refs, framePc, mainPc>>

Live   == {t \in Terms : where[t] = "live"}
Buried == {t \in Terms : where[t] = "buried"}
Freed  == {t \in Terms : where[t] = "freed"}

InFlight(t) == work[t] # "none"

Init ==
    /\ where = [t \in Terms |-> "unborn"]
    /\ newFrame = [t \in Terms |-> FALSE]
    /\ exited = [t \in Terms |-> FALSE]
    /\ watched = {} /\ muxAt = None /\ muxPc = "idle"
    /\ work = [t \in Terms |-> "none"]
    /\ posts = <<>> /\ running = <<>> /\ exits = <<>> /\ dying = <<>>
    /\ shadow = {} /\ refs = {} /\ framePc = "idle"
    /\ mainPc = "events"

-----------------------------------------------------------------------------
(* The PtyMux thread: readFromFD and queueParse for one Terminal.          *)

MuxFire(t) ==
    /\ muxAt = None /\ t \in watched
    /\ muxAt' = t /\ muxPc' = "read"
    /\ UNCHANGED <<where, newFrame, exited, watched, work, postVars, exitVars,
                   shadow, frameVars, mainPc>>

(* Bytes were read and a parse task is submitted, unless one is in flight. *)
MuxQueueParse ==
    /\ muxPc = "read"
    /\ work' = [work EXCEPT ![muxAt] = IF @ = "none" THEN "parse" ELSE @]
    /\ muxAt' = None /\ muxPc' = "idle"
    /\ UNCHANGED <<where, newFrame, exited, watched, postVars, exitVars, shadow,
                   frameVars, mainPc>>

MuxReturn ==
    /\ muxPc = "read"
    /\ muxAt' = None /\ muxPc' = "idle"
    /\ UNCHANGED <<where, newFrame, exited, watched, work, postVars, exitVars,
                   shadow, frameVars, mainPc>>

(* End of the child's output: markExited, step by step.  It drops the read *)
(* subscription, posts a lambda that captures the Terminal, and queues the *)
(* exit.                                                                   *)
MuxExit ==
    /\ muxPc = "read" /\ ~exited[muxAt]
    /\ exited' = [exited EXCEPT ![muxAt] = TRUE]
    /\ watched' = watched \ {muxAt}
    /\ muxPc' = "post"
    /\ UNCHANGED <<where, newFrame, muxAt, work, postVars, exitVars, shadow,
                   frameVars, mainPc>>

MuxExitPost ==
    /\ muxPc = "post"
    /\ posts' = Append(posts, muxAt)
    /\ muxPc' = "enqueue"
    /\ UNCHANGED <<where, newFrame, exited, watched, muxAt, work, running,
                   exitVars, shadow, frameVars, mainPc>>

(* Mutation: markExited forgets to queue the exit.                         *)
MuxExitForgotten ==
    /\ muxPc = "enqueue"
    /\ muxPc' = "read"
    /\ UNCHANGED <<where, newFrame, exited, watched, muxAt, work, postVars,
                   exitVars, shadow, frameVars, mainPc>>

MuxExitEnqueue ==
    /\ muxPc = "enqueue"
    /\ exits' = Append(exits, muxAt)
    /\ muxPc' = "read"
    /\ UNCHANGED <<where, newFrame, exited, watched, muxAt, work, postVars,
                   dying, shadow, frameVars, mainPc>>

MuxNext ==
    \/ \E t \in Terms : MuxFire(t)
    \/ MuxQueueParse \/ MuxReturn \/ MuxExit \/ MuxExitPost \/ MuxExitEnqueue

-----------------------------------------------------------------------------
(* The parse task of a Terminal on some worker.                            *)

ParseDone(t) ==
    /\ work[t] = "parse"
    /\ work' = [work EXCEPT ![t] = "none"]
    /\ UNCHANGED <<where, newFrame, exited, watched, muxVars, postVars, exitVars,
                   shadow, frameVars, mainPc>>

(* A reply of the parser fails to be written: markExited on the worker.    *)
ParseExit(t) ==
    /\ work[t] = "parse" /\ ~exited[t]
    /\ exited' = [exited EXCEPT ![t] = TRUE]
    /\ watched' = watched \ {t}
    /\ work' = [work EXCEPT ![t] = "post"]
    /\ UNCHANGED <<where, newFrame, muxVars, postVars, exitVars, shadow,
                   frameVars, mainPc>>

ParseExitPost(t) ==
    /\ work[t] = "post"
    /\ posts' = Append(posts, t)
    /\ work' = [work EXCEPT ![t] = "enqueue"]
    /\ UNCHANGED <<where, newFrame, exited, watched, muxVars, running, exitVars,
                   shadow, frameVars, mainPc>>

ParseExitEnqueue(t) ==
    /\ work[t] = "enqueue"
    /\ exits' = Append(exits, t)
    /\ work' = [work EXCEPT ![t] = "parse"]
    /\ UNCHANGED <<where, newFrame, exited, watched, muxVars, postVars, dying,
                   shadow, frameVars, mainPc>>

WorkNext ==
    \E t \in Terms :
        ParseDone(t) \/ ParseExit(t) \/ ParseExitPost(t) \/ ParseExitEnqueue(t)

-----------------------------------------------------------------------------
(* The render thread: renderFrame.                                         *)

FrameBegin ==
    /\ framePc = "idle"
    /\ framePc' = "begun"
    /\ UNCHANGED <<where, newFrame, exited, watched, muxVars, work, postVars,
                   exitVars, shadow, refs, mainPc>>

(* snapshotUnderLock: the render mutex is free except while the main       *)
(* thread applies its mutations.                                           *)
FrameSnapshot ==
    /\ framePc = "begun" /\ mainPc # "apply"
    /\ refs' = shadow
    /\ framePc' = "drawing"
    /\ UNCHANGED <<where, newFrame, exited, watched, muxVars, work, postVars,
                   exitVars, shadow, mainPc>>

(* FrameCompletionGuard: every return from renderFrame, early ones too,    *)
(* counts a completed frame, after the last use of the snapshot.           *)
FrameEnd ==
    /\ framePc \in {"begun", "drawing"}
    /\ framePc' = "idle"
    /\ refs' = {}
    /\ newFrame' = [t \in Terms |-> where[t] = "buried"]
    /\ UNCHANGED <<where, exited, watched, muxVars, work, postVars, exitVars,
                   shadow, mainPc>>

FrameNext == FrameBegin \/ FrameSnapshot \/ FrameEnd

-----------------------------------------------------------------------------
(* The main thread.                                                        *)

(* spawnTerminalForPane.                                                   *)
Spawn(t) ==
    /\ mainPc = "events" /\ where[t] = "unborn"
    /\ where' = [where EXCEPT ![t] = "live"]
    /\ watched' = watched \cup {t}
    /\ UNCHANGED <<newFrame, exited, muxVars, work, postVars, exitVars, shadow,
                   frameVars, mainPc>>

(* Mutation: defer() with a stamp of 0, which every frame has passed.      *)
BuryUnstamped(t) ==
    /\ muxAt # t
    /\ watched' = watched \ {t}
    /\ where' = [where EXCEPT ![t] = "buried"]
    /\ newFrame' = [newFrame EXCEPT ![t] = TRUE]
    /\ shadow' = Live \ {t}

(* removePtyPoll, extraction under the render mutex, the rebuilt shadow    *)
(* copy, the stamp, and the entry in the Graveyard.                        *)
Bury(t) ==
    /\ muxAt # t
    /\ watched' = watched \ {t}
    /\ where' = [where EXCEPT ![t] = "buried"]
    /\ newFrame' = [newFrame EXCEPT ![t] = FALSE]
    /\ shadow' = Live \ {t}

Close(t) ==
    /\ mainPc = "events" /\ where[t] = "live"
    /\ Bury(t)
    /\ UNCHANGED <<exited, muxVars, work, postVars, exitVars, frameVars, mainPc>>

(* A keystroke cannot be written: markExited on the main thread.           *)
WriteFails(t) ==
    /\ mainPc = "events" /\ where[t] = "live" /\ ~exited[t]
    /\ exited' = [exited EXCEPT ![t] = TRUE]
    /\ watched' = watched \ {t}
    /\ posts' = Append(posts, t)
    /\ exits' = Append(exits, t)
    /\ UNCHANGED <<where, newFrame, muxVars, work, running, dying, shadow,
                   frameVars, mainPc>>

(* The tick starts: drainPosts swaps the posted lambdas out ...            *)
TickPosts ==
    /\ mainPc = "events"
    /\ running' = posts /\ posts' = <<>>
    /\ mainPc' = "posts"
    /\ UNCHANGED <<where, newFrame, exited, watched, muxVars, work, exitVars,
                   shadow, frameVars>>

(* ... and runs them one by one.                                           *)
RunPost ==
    /\ mainPc = "posts" /\ running # <<>>
    /\ running' = Tail(running)
    /\ UNCHANGED <<where, newFrame, exited, watched, muxVars, work, posts,
                   exitVars, shadow, frameVars, mainPc>>

(* Mutation: only one exit of the queue is handled.                        *)
TickApplyFirst ==
    /\ mainPc = "posts" /\ running = <<>>
    /\ exits # <<>> /\ dying' = <<Head(exits)>> /\ exits' = <<>>
    /\ mainPc' = "apply"
    /\ UNCHANGED <<where, newFrame, exited, watched, muxVars, work, postVars,
                   shadow, frameVars>>

(* applyPendingMutations takes the render mutex and swaps the exits out.   *)
TickApply ==
    /\ mainPc = "posts" /\ running = <<>>
    /\ dying' = exits /\ exits' = <<>>
    /\ mainPc' = "apply"
    /\ UNCHANGED <<where, newFrame, exited, watched, muxVars, work, postVars,
                   shadow, frameVars>>

(* terminalExited, killTerminal: a Terminal closed before is not found.    *)
KillTerminal ==
    /\ mainPc = "apply" /\ dying # <<>>
    /\ dying' = Tail(dying)
    /\ \/ where[Head(dying)] = "live" /\ Bury(Head(dying))
       \/ where[Head(dying)] # "live" /\ UNCHANGED <<where, newFrame, watched, shadow>>
    /\ UNCHANGED <<exited, muxVars, work, postVars, exits, frameVars, mainPc>>

(* The shadow copy is rebuilt and the mutex released.                      *)
TickApplied ==
    /\ mainPc = "apply" /\ dying = <<>>
    /\ shadow' = Live
    /\ mainPc' = "sweep"
    /\ UNCHANGED <<where, newFrame, exited, watched, muxVars, work, postVars,
                   exitVars, frameVars>>

(* Graveyard::sweep: both gates, for every entry.                          *)
Sweep ==
    /\ mainPc = "sweep"
    /\ where' = [t \in Terms |->
                    IF where[t] = "buried" /\ newFrame[t] /\ ~InFlight(t)
                    THEN "freed" ELSE where[t]]
    /\ mainPc' = "events"
    /\ UNCHANGED <<newFrame, exited, watched, muxVars, work, postVars, exitVars,
                   shadow, frameVars>>

(* The steps of a tick.                                                    *)
Tick == TickPosts \/ RunPost \/ TickApply \/ KillTerminal \/ TickApplied \/ Sweep

MainNext == Tick \/ \E t \in Terms : Spawn(t) \/ Close(t) \/ WriteFails(t)

Next == MuxNext \/ WorkNext \/ FrameNext \/ MainNext

Spec == Init /\ [][Next]_vars

-----------------------------------------------------------------------------
TypeOK ==
    /\ where \in [Terms -> {"unborn", "live", "buried", "freed"}]
    /\ newFrame \in [Terms -> BOOLEAN] /\ exited \in [Terms -> BOOLEAN]
    /\ watched \subseteq Terms
    /\ muxAt \in Terms \cup {None} /\ muxPc \in {"idle", "read", "post", "enqueue"}
    /\ muxAt = None <=> muxPc = "idle"
    /\ work \in [Terms -> {"none", "parse", "post", "enqueue"}]
    /\ posts \in Seq(Terms) /\ running \in Seq(Terms)
    /\ exits \in Seq(Terms) /\ dying \in Seq(Terms)
    /\ shadow \subseteq Terms /\ refs \subseteq Terms
    /\ framePc \in {"idle", "begun", "drawing"}
    /\ mainPc \in {"events", "posts", "apply", "sweep"}

Elements(s) == {s[i] : i \in 1..Len(s)}

(* The frame being drawn never holds a deleted Terminal: the stamp is      *)
(* taken under the render mutex, together with the rebuilt shadow copy.    *)
FrameSafe == refs \cap Freed = {}

(* The mux callback only ever runs for a Terminal that is on the tree.     *)
MuxSafe == muxAt \in Terms => where[muxAt] = "live"

(* An exit is never lost: while a Terminal whose child is gone is still on *)
(* the tree, its exit is queued, being handled, or about to be queued.     *)
ExitPending(t) ==
    \/ t \in Elements(exits) \cup Elements(dying)
    \/ muxAt = t /\ muxPc \in {"post", "enqueue"}
    \/ work[t] \in {"post", "enqueue"}
ExitNotLost == \A t \in Live : exited[t] => ExitPending(t)

(* Platform_EventLoop.cpp before the sweep: "the held Terminals can safely *)
(* run their destructors".  Neither a posted lambda nor a queued exit holds *)
(* a Terminal that the sweep has freed.                                    *)
PointersAlive ==
    \A t \in UNION {Elements(posts), Elements(running), Elements(exits), Elements(dying)} :
        where[t] # "freed"
=============================================================================
