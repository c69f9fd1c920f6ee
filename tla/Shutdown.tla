------------------------------ MODULE Shutdown ------------------------------
(***************************************************************************)
(* How the threads around the Terminals are taken down: the end of         *)
(* exec() and ~PlatformDawn, from whatever state the program was in.       *)
(*                                                                         *)
(* The steps of PaneLifetime go on until the thread that takes them is     *)
(* joined.  Added here: a parse task may park in runOnMain(), posting a    *)
(* lambda and waiting until the main thread has run it.                    *)
(***************************************************************************)
EXTENDS PaneLifetime

VARIABLES
    phase,      \* where exec() and ~PlatformDawn are: "run", "detach",
                \* "render", "spin", "check", "last", "grave", "mux", "pool", "done"
    parked,     \* Terminals whose parse task waits in runOnMain()
    gaveUp      \* the spin ended because its 5000 turns were used up

allVars == <<vars, phase, parked, gaveUp>>

ShutInit == Init /\ phase = "run" /\ parked = {} /\ gaveUp = FALSE

-----------------------------------------------------------------------------
(* The threads, each until it is joined.                                   *)

(* drainPosts runs the lambda of every parked task.                        *)
MainRuns ==
    /\ phase = "run" /\ MainNext
    /\ parked' = IF mainPc = "events" /\ mainPc' = "posts" THEN {} ELSE parked
    /\ UNCHANGED <<phase, gaveUp>>

MuxRuns == phase \notin {"pool", "done"} /\ MuxNext /\ UNCHANGED <<phase, parked, gaveUp>>

(* RenderThread::stop: the thread begins no further frame.                 *)
FrameRuns ==
    /\ phase \in {"run", "detach", "render"} /\ FrameNext
    /\ phase = "render" => framePc # "idle"
    /\ UNCHANGED <<phase, parked, gaveUp>>

WorkRuns(t) ==
    /\ t \notin parked
    /\ ParseDone(t) \/ ParseExit(t) \/ ParseExitPost(t) \/ ParseExitEnqueue(t)
    /\ UNCHANGED <<phase, parked, gaveUp>>

Park(t) ==
    /\ work[t] = "parse" /\ t \notin parked
    /\ parked' = parked \cup {t}
    /\ UNCHANGED <<vars, phase, gaveUp>>

-----------------------------------------------------------------------------
(* The main thread after the event loop has returned.                      *)

Quit ==
    /\ phase = "run" /\ mainPc = "events"
    /\ phase' = "detach"
    /\ UNCHANGED <<vars, parked, gaveUp>>

(* removePtyPoll for every Terminal on the tree.                           *)
Detach(t) ==
    /\ phase = "detach" /\ t \in watched /\ muxAt # t
    /\ watched' = watched \ {t}
    /\ UNCHANGED <<where, newFrame, exited, muxVars, work, postVars, exitVars,
                   shadow, frameVars, mainPc, phase, parked,
                   gaveUp>>

(* Mutation: a Terminal whose fd is no longer watched is not waited for.   *)
DetachedEarly ==
    /\ phase = "detach" /\ watched = {}
    /\ phase' = "render"
    /\ UNCHANGED <<vars, parked, gaveUp>>

Detached ==
    /\ phase = "detach" /\ watched = {} /\ muxAt \notin Live
    /\ phase' = "render"
    /\ UNCHANGED <<vars, parked, gaveUp>>

RenderJoined ==
    /\ phase = "render" /\ framePc = "idle"
    /\ phase' = "spin"
    /\ UNCHANGED <<vars, parked, gaveUp>>

(* Mutation: the spin only sleeps.                                         *)
SpinSleeps ==
    /\ phase = "spin"
    /\ phase' = "check"
    /\ UNCHANGED <<vars, parked, gaveUp>>

(* One turn of the spin: drainPosts, then a look at the tree's Terminals.  *)
SpinDrain ==
    /\ phase = "spin"
    /\ posts' = <<>> /\ parked' = {}
    /\ phase' = "check"
    /\ UNCHANGED <<where, newFrame, exited, watched, muxVars, work, running,
                   exitVars, shadow, frameVars, mainPc, gaveUp>>

SpinAgain ==
    /\ phase = "check" /\ \E t \in Live : InFlight(t)
    /\ phase' = "spin"
    /\ UNCHANGED <<vars, parked, gaveUp>>

SpinEnds ==
    /\ phase = "check" /\ \A t \in Live : ~InFlight(t)
    /\ phase' = "last"
    /\ UNCHANGED <<vars, parked, gaveUp>>

SpinGivesUp ==
    /\ phase = "check" /\ \E t \in Live : InFlight(t)
    /\ phase' = "last" /\ gaveUp' = TRUE
    /\ UNCHANGED <<vars, parked>>

LastDrain ==
    /\ phase = "last"
    /\ posts' = <<>> /\ parked' = {}
    /\ phase' = "grave"
    /\ UNCHANGED <<where, newFrame, exited, watched, muxVars, work, running,
                   exitVars, shadow, frameVars, mainPc, gaveUp>>

(* Graveyard::drainAll looks at neither gate.                              *)
DrainAll ==
    /\ phase = "grave"
    /\ where' = [t \in Terms |-> IF where[t] = "buried" THEN "freed" ELSE where[t]]
    /\ phase' = "mux"
    /\ UNCHANGED <<newFrame, exited, watched, muxVars, work, postVars, exitVars,
                   shadow, frameVars, mainPc, parked, gaveUp>>

MuxJoined ==
    /\ phase = "mux" /\ muxAt = None
    /\ phase' = "pool"
    /\ UNCHANGED <<vars, parked, gaveUp>>

(* ~RenderEngine joins the workers, which first empty their queue; the     *)
(* Terminals of the tree go with Script::Engine, after that.               *)
PoolJoined ==
    /\ phase = "pool" /\ \A t \in Terms : ~InFlight(t)
    /\ where' = [t \in Terms |-> IF where[t] = "live" THEN "freed" ELSE where[t]]
    /\ phase' = "done"
    /\ UNCHANGED <<newFrame, exited, watched, muxVars, work, postVars, exitVars,
                   shadow, frameVars, mainPc, parked, gaveUp>>

ShutdownNext ==
    \/ Quit \/ \E t \in Terms : Detach(t)
    \/ Detached \/ RenderJoined \/ SpinDrain \/ SpinAgain \/ SpinEnds
    \/ SpinGivesUp \/ LastDrain \/ DrainAll \/ MuxJoined \/ PoolJoined

ShutNext ==
    \/ MainRuns \/ MuxRuns \/ FrameRuns
    \/ \E t \in Terms : WorkRuns(t) \/ Park(t)
    \/ ShutdownNext

(* The main thread turns its loop or goes on with the teardown; a removal  *)
(* waits for the mux thread but is not overtaken for ever (CloseEnds of    *)
(* PtyRead); a callback of the mux returns, a frame ends, and a parse that *)
(* is not parked for ever ends: it reports one exit at most.               *)
ShutFairness ==
    /\ WF_allVars((Tick /\ MainRuns) \/ ShutdownNext)
    /\ SF_allVars(\E t \in Terms : Detach(t))
    /\ WF_allVars(MuxRuns /\ muxAt # None)
    /\ WF_allVars(FrameEnd /\ FrameRuns)
    /\ \A t \in Terms : SF_allVars(WorkRuns(t))

ShutSpec == ShutInit /\ [][ShutNext]_allVars
ShutFairSpec == ShutSpec /\ ShutFairness

-----------------------------------------------------------------------------
(* From the first spawn to the last join no frame, no callback of the mux  *)
(* and no parse task reaches a Terminal that is gone: the sweep holds off  *)
(* frames and parses, the spin is not trusted with the tree, which goes    *)
(* after the pool even if it gave up.  Between drainAll, which looks at no *)
(* gate, and the pool's end a parse may outlive an entry of the Graveyard. *)
ThreadsSafe ==
    /\ FrameSafe /\ MuxSafe
    /\ \A t \in Terms : InFlight(t) /\ where[t] = "freed" => phase \in {"mux", "pool"}

(* "no worker still inside injectData" is what the spin waits for: unless  *)
(* it gave up, nothing is parsed for the tree once it has ended, although  *)
(* the mux thread runs on and a last callback could have queued a parse.   *)
SpinIsFinal ==
    phase \in {"last", "grave", "mux", "pool"} /\ ~gaveUp => \A t \in Live : ~InFlight(t)

(* The tree is rid of the Terminals whose child is gone, whoever reports   *)
(* it and in whatever order, unless the user quits before.                 *)
ExitBuries ==
    (\E t \in Live : exited[t]) ~> (phase # "run" \/ \A t \in Live : ~exited[t])

(* A teardown that starts with no parse in flight for a Terminal of the    *)
(* Graveyard ends, unless the spin gives up: no worker is left parked on a *)
(* main thread that no longer runs its posts.                              *)
ShutdownEnds ==
    (phase = "detach" /\ \A t \in Buried : ~InFlight(t)) ~> (phase = "done" \/ gaveUp)
=============================================================================
