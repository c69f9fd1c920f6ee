--------------------------- MODULE ShutdownProofs ---------------------------
(***************************************************************************)
(* Theorems about PaneLifetime and Shutdown for every set of Terminals: no *)
(* thread is left with a deleted one from the first spawn to the last      *)
(* join, no exit is forgotten, and the spin is the end of parsing.  The    *)
(* invariant of PaneLifetime, the program as it runs, comes first; the     *)
(* threads of Shutdown are PaneLifetime's, until each is joined.           *)
(***************************************************************************)
EXTENDS Shutdown, TLAPS

USE TermsAssumption

(* What the two gates of the Graveyard rest on: whatever the mux watches   *)
(* and whatever the shadow copy holds is on the tree, and a frame holds a  *)
(* Terminal off the tree only until the frame after its extraction ends.   *)
WatchedLive == watched \subseteq Live
ShadowLive  == shadow \subseteq Live
FrameHolds  == \A t \in refs : \/ where[t] = "live"
                               \/ where[t] = "buried" /\ ~newFrame[t]
ParseHolds  == \A t \in Terms : InFlight(t) => where[t] \in {"live", "buried"}

HeldInv ==
    /\ TypeOK
    /\ WatchedLive
    /\ ShadowLive
    /\ FrameHolds
    /\ ParseHolds
    /\ MuxSafe

LEMMA PostType ==
    /\ <<>> \in Seq(Terms)
    /\ \A s \in Seq(Terms), t \in Terms : Append(s, t) \in Seq(Terms)
    /\ \A s \in Seq(Terms) : s # <<>> => Head(s) \in Terms /\ Tail(s) \in Seq(Terms)
  OBVIOUS

LEMMA HeldInit == Init => HeldInv
  BY PostType DEF Init, HeldInv, TypeOK, WatchedLive, ShadowLive, FrameHolds,
                  ParseHolds, MuxSafe, InFlight, Live

LEMMA MuxKeepsHeld == HeldInv /\ MuxNext => HeldInv'
<1> SUFFICES ASSUME HeldInv, MuxNext PROVE HeldInv'
  OBVIOUS
<1> USE DEF HeldInv, TypeOK, WatchedLive, ShadowLive, FrameHolds, ParseHolds,
            MuxSafe, InFlight, Live, postVars, exitVars, frameVars
<1>1. CASE \E t \in Terms : MuxFire(t)
  BY <1>1 DEF MuxFire
<1>2. CASE MuxQueueParse
  BY <1>2 DEF MuxQueueParse
<1>3. CASE MuxReturn
  BY <1>3 DEF MuxReturn
<1>4. CASE MuxExit
  BY <1>4 DEF MuxExit
<1>5. CASE MuxExitPost
  BY <1>5, PostType DEF MuxExitPost
<1>6. CASE MuxExitEnqueue
  BY <1>6, PostType DEF MuxExitEnqueue
<1> QED
  BY <1>1, <1>2, <1>3, <1>4, <1>5, <1>6 DEF MuxNext

LEMMA WorkKeepsHeld == HeldInv /\ WorkNext => HeldInv'
<1> SUFFICES ASSUME HeldInv, NEW t \in Terms,
                    \/ ParseDone(t) \/ ParseExit(t)
                    \/ ParseExitPost(t) \/ ParseExitEnqueue(t)
             PROVE  HeldInv'
  BY DEF WorkNext
<1> USE DEF HeldInv, TypeOK, WatchedLive, ShadowLive, FrameHolds, ParseHolds,
            MuxSafe, InFlight, Live, muxVars, postVars, exitVars, frameVars
<1>1. CASE ParseDone(t)
  BY <1>1 DEF ParseDone
<1>2. CASE ParseExit(t)
  BY <1>2 DEF ParseExit
<1>3. CASE ParseExitPost(t)
  BY <1>3, PostType DEF ParseExitPost
<1>4. CASE ParseExitEnqueue(t)
  BY <1>4, PostType DEF ParseExitEnqueue
<1> QED
  BY <1>1, <1>2, <1>3, <1>4

LEMMA FrameKeepsHeld == HeldInv /\ FrameNext => HeldInv'
<1> SUFFICES ASSUME HeldInv, FrameNext PROVE HeldInv'
  OBVIOUS
<1> USE DEF HeldInv, TypeOK, WatchedLive, ShadowLive, FrameHolds, ParseHolds,
            MuxSafe, InFlight, Live, muxVars, postVars, exitVars
<1>1. CASE FrameBegin
  BY <1>1 DEF FrameBegin
<1>2. CASE FrameSnapshot
  BY <1>2 DEF FrameSnapshot
<1>3. CASE FrameEnd
  BY <1>3 DEF FrameEnd
<1> QED
  BY <1>1, <1>2, <1>3 DEF FrameNext

(* Extraction: nothing but the frame and the parse keeps the Terminal, and *)
(* the frame keeps it under a stamp no frame has passed.                   *)
LEMMA BuryKeepsHeld ==
    ASSUME HeldInv, NEW t \in Terms, where[t] = "live", Bury(t),
           UNCHANGED <<muxVars, work, refs>>
    PROVE  /\ where' \in [Terms -> {"unborn", "live", "buried", "freed"}]
           /\ newFrame' \in [Terms -> BOOLEAN]
           /\ watched' \subseteq Terms /\ shadow' \subseteq Terms
           /\ WatchedLive' /\ ShadowLive'
           /\ FrameHolds' /\ ParseHolds' /\ MuxSafe'
<1> USE DEF HeldInv, TypeOK, WatchedLive, ShadowLive, FrameHolds, ParseHolds,
            MuxSafe, InFlight, Live, Bury, muxVars
<1>1. /\ where' \in [Terms -> {"unborn", "live", "buried", "freed"}]
      /\ newFrame' \in [Terms -> BOOLEAN]
      /\ watched' \subseteq Terms /\ shadow' \subseteq Terms
  OBVIOUS
<1>2. WatchedLive' /\ ShadowLive'
  OBVIOUS
<1>3. FrameHolds'
  OBVIOUS
<1>4. ParseHolds' /\ MuxSafe'
  OBVIOUS
<1> QED
  BY <1>1, <1>2, <1>3, <1>4

LEMMA MainKeepsHeld == HeldInv /\ MainNext => HeldInv'
<1> SUFFICES ASSUME HeldInv, MainNext PROVE HeldInv'
  OBVIOUS
<1> USE DEF HeldInv, TypeOK, WatchedLive, ShadowLive, FrameHolds, ParseHolds,
            MuxSafe, InFlight, Live, muxVars, postVars, exitVars, frameVars
<1>1. CASE \E t \in Terms : Spawn(t)
  BY <1>1 DEF Spawn
<1>2. ASSUME NEW t \in Terms, Close(t) PROVE HeldInv'
  BY <1>2, BuryKeepsHeld DEF Close
<1>3. CASE \E t \in Terms : WriteFails(t)
  BY <1>3, PostType DEF WriteFails
<1>4. CASE TickPosts
  BY <1>4, PostType DEF TickPosts
<1>5. CASE RunPost
  BY <1>5, PostType DEF RunPost
<1>6. CASE TickApply
  BY <1>6, PostType DEF TickApply
<1>7. CASE KillTerminal
  <2>1. Head(dying) \in Terms /\ dying' \in Seq(Terms)
    BY <1>7, PostType DEF KillTerminal
  <2>2. CASE where[Head(dying)] = "live" /\ Bury(Head(dying))
    BY <1>7, <2>1, <2>2, BuryKeepsHeld DEF KillTerminal
  <2>3. CASE UNCHANGED <<where, newFrame, watched, shadow>>
    BY <1>7, <2>1, <2>3 DEF KillTerminal
  <2> QED
    BY <1>7, <2>2, <2>3 DEF KillTerminal
<1>8. CASE TickApplied
  BY <1>8 DEF TickApplied
<1>9. CASE Sweep
  BY <1>9 DEF Sweep
<1> QED
  BY <1>1, <1>2, <1>3, <1>4, <1>5, <1>6, <1>7, <1>8, <1>9 DEF MainNext, Tick

LEMMA HeldStep == HeldInv /\ [Next]_vars => HeldInv'
<1>1. HeldInv /\ UNCHANGED vars => HeldInv'
  BY DEF HeldInv, TypeOK, WatchedLive, ShadowLive, FrameHolds, ParseHolds,
         MuxSafe, InFlight, Live, vars, muxVars, postVars, exitVars, frameVars
<1> QED
  BY <1>1, MuxKeepsHeld, WorkKeepsHeld, FrameKeepsHeld, MainKeepsHeld DEF Next

-----------------------------------------------------------------------------
(* An exit is not lost: what was swapped out is handled before the queue   *)
(* is swapped again, and only a Terminal that was spawned can exit.        *)
DyingHandled == mainPc # "apply" => dying = <<>>
UnbornRuns   == \A t \in Terms : where[t] = "unborn" => ~exited[t]

ParseBorn    == \A t \in Terms : InFlight(t) => where[t] # "unborn"

ExitsKept == DyingHandled /\ UnbornRuns /\ ExitNotLost

LEMMA ElementsFacts ==
    /\ Elements(<<>>) = {}
    /\ \A s \in Seq(Terms), t \in Terms : Elements(Append(s, t)) = Elements(s) \cup {t}
    /\ \A s \in Seq(Terms) : s # <<>> => Elements(s) = {Head(s)} \cup Elements(Tail(s))
<1>1. Elements(<<>>) = {}
  BY DEF Elements
<1>2. ASSUME NEW s \in Seq(Terms), NEW t \in Terms
      PROVE  Elements(Append(s, t)) = Elements(s) \cup {t}
  <2>1. /\ Len(Append(s, t)) = Len(s) + 1 /\ Append(s, t)[Len(s) + 1] = t
        /\ \A i \in 1..Len(s) : Append(s, t)[i] = s[i]
    OBVIOUS
  <2>2. 1..(Len(s) + 1) = 1..Len(s) \cup {Len(s) + 1}
    OBVIOUS
  <2> QED
    BY <2>1, <2>2 DEF Elements
<1>3. ASSUME NEW s \in Seq(Terms), s # <<>>
      PROVE  Elements(s) = {Head(s)} \cup Elements(Tail(s))
  <2>1. /\ Len(Tail(s)) = Len(s) - 1 /\ Len(s) > 0 /\ Head(s) = s[1]
        /\ \A i \in 1..Len(Tail(s)) : Tail(s)[i] = s[i + 1]
    BY <1>3
  <2>2. ASSUME NEW x \in Elements(s) PROVE x \in {Head(s)} \cup Elements(Tail(s))
    <3>1. PICK i \in 1..Len(s) : x = s[i]
      BY DEF Elements
    <3>2. CASE i = 1
      BY <2>1, <3>1, <3>2
    <3>3. CASE i # 1
      <4>1. i - 1 \in 1..Len(Tail(s)) /\ Tail(s)[i - 1] = s[i]
        BY <2>1, <3>1, <3>3
      <4> QED
        BY <3>1, <4>1 DEF Elements
    <3> QED
      BY <3>2, <3>3
  <2>3. ASSUME NEW x \in Elements(Tail(s)) PROVE x \in Elements(s)
    <3>1. PICK i \in 1..Len(Tail(s)) : x = Tail(s)[i]
      BY DEF Elements
    <3>2. i + 1 \in 1..Len(s) /\ s[i + 1] = x
      BY <2>1, <3>1
    <3> QED
      BY <3>2 DEF Elements
  <2>4. Head(s) \in Elements(s)
    BY <2>1 DEF Elements
  <2> QED
    BY <2>2, <2>3, <2>4
<1> QED
  BY <1>1, <1>2, <1>3

LEMMA MuxKeepsExits == HeldInv /\ ExitsKept /\ MuxNext => ExitsKept'
<1> SUFFICES ASSUME HeldInv, ExitsKept, MuxNext PROVE ExitsKept'
  OBVIOUS
<1> USE DEF ExitsKept, HeldInv, TypeOK, MuxSafe, DyingHandled, UnbornRuns,
            ExitNotLost, ExitPending, Live, postVars, exitVars, frameVars
<1>1. CASE \E t \in Terms : MuxFire(t)
  BY <1>1 DEF MuxFire
<1>2. CASE MuxQueueParse
  BY <1>2 DEF MuxQueueParse
<1>3. CASE MuxReturn
  BY <1>3 DEF MuxReturn
<1>4. CASE MuxExit
  BY <1>4 DEF MuxExit
<1>5. CASE MuxExitPost
  BY <1>5 DEF MuxExitPost
<1>6. CASE MuxExitEnqueue
  BY <1>6, ElementsFacts DEF MuxExitEnqueue
<1> QED
  BY <1>1, <1>2, <1>3, <1>4, <1>5, <1>6 DEF MuxNext

\* Also when HeldInv is no longer true, at the end of the teardown.
LEMMA WorkKeepsExits == TypeOK /\ ParseBorn /\ ExitsKept /\ WorkNext => ExitsKept'
<1> SUFFICES ASSUME TypeOK, ParseBorn, ExitsKept, NEW t \in Terms,
                    \/ ParseDone(t) \/ ParseExit(t)
                    \/ ParseExitPost(t) \/ ParseExitEnqueue(t)
             PROVE  ExitsKept'
  BY DEF WorkNext
<1> USE DEF ExitsKept, TypeOK, ParseBorn, InFlight, DyingHandled,
            UnbornRuns, ExitNotLost, ExitPending, Live, muxVars, postVars,
            exitVars, frameVars
<1>1. CASE ParseDone(t)
  BY <1>1 DEF ParseDone
<1>2. CASE ParseExit(t)
  BY <1>2 DEF ParseExit
<1>3. CASE ParseExitPost(t)
  BY <1>3 DEF ParseExitPost
<1>4. CASE ParseExitEnqueue(t)
  BY <1>4, ElementsFacts DEF ParseExitEnqueue
<1> QED
  BY <1>1, <1>2, <1>3, <1>4

LEMMA FrameKeepsExits == HeldInv /\ ExitsKept /\ FrameNext => ExitsKept'
  BY DEF ExitsKept, DyingHandled, UnbornRuns, ExitNotLost,
     ExitPending, Live, FrameNext, FrameBegin, FrameSnapshot, FrameEnd, muxVars,
     postVars, exitVars

LEMMA MainKeepsExits == HeldInv /\ ExitsKept /\ MainNext => ExitsKept'
<1> SUFFICES ASSUME HeldInv, ExitsKept, MainNext PROVE ExitsKept'
  OBVIOUS
<1> USE DEF ExitsKept, HeldInv, TypeOK, DyingHandled, UnbornRuns, ExitNotLost,
            ExitPending, Live, muxVars, postVars, exitVars, frameVars
<1>1. CASE \E t \in Terms : Spawn(t)
  BY <1>1 DEF Spawn
<1>2. CASE \E t \in Terms : Close(t)
  BY <1>2 DEF Close, Bury
<1>3. CASE \E t \in Terms : WriteFails(t)
  BY <1>3, ElementsFacts DEF WriteFails
<1>4. CASE TickPosts
  BY <1>4 DEF TickPosts
<1>5. CASE RunPost
  BY <1>5 DEF RunPost
<1>6. CASE TickApply
  BY <1>6, ElementsFacts DEF TickApply
<1>7. CASE KillTerminal
  <2>1. Elements(dying) = {Head(dying)} \cup Elements(dying')
    BY <1>7, ElementsFacts DEF KillTerminal
  <2>2. Head(dying) \in Terms
    BY <1>7 DEF KillTerminal
  <2>3. where'[Head(dying)] # "live"
    BY <1>7, <2>2 DEF KillTerminal, Bury
  <2> QED
    BY <1>7, <2>1, <2>2, <2>3 DEF KillTerminal, Bury
<1>8. CASE TickApplied
  BY <1>8 DEF TickApplied
<1>9. CASE Sweep
  BY <1>9 DEF Sweep
<1> QED
  BY <1>1, <1>2, <1>3, <1>4, <1>5, <1>6, <1>7, <1>8, <1>9 DEF MainNext, Tick

-----------------------------------------------------------------------------
(* The order of the teardown.  What PaneLifetime keeps for the parse tasks *)
(* holds until the Graveyard is emptied past its gates; by then the mux    *)
(* has nothing to watch and the render thread is gone.                     *)
Joined == {"spin", "check", "last", "grave", "mux", "pool", "done"}
Phases == {"run", "detach", "render"} \cup Joined
Gated  == Phases \ {"mux", "pool", "done"}

NothingWatched == phase \notin {"run", "detach"} => watched = {} /\ muxAt = None
NothingDrawn   == /\ framePc # "drawing" => refs = {}
                  /\ phase \in Joined => framePc = "idle"

NothingRuns    == phase = "done" => \A t \in Terms : ~InFlight(t)

TeardownInv ==
    /\ TypeOK /\ phase \in Phases
    /\ phase \in Gated => HeldInv
    /\ NothingWatched
    /\ NothingDrawn
    /\ NothingRuns
    /\ SpinIsFinal
    /\ ParseBorn
    /\ ExitsKept

LEMMA TeardownInit == ShutInit => TeardownInv
  BY HeldInit DEF ShutInit, Init, TeardownInv, HeldInv, Phases, Joined, Gated,
                  NothingWatched, NothingDrawn, NothingRuns, SpinIsFinal, ParseBorn, InFlight,
                  ExitsKept, DyingHandled, UnbornRuns, ExitNotLost, Live

LEMMA HeldIsBorn == HeldInv' => ParseBorn'
  BY DEF HeldInv, ParseHolds, ParseBorn

\* The threads that still run.
LEMMA ThreadsKeepTeardown ==
    ASSUME TeardownInv, MainRuns \/ MuxRuns \/ FrameRuns
    PROVE  TeardownInv'
<1>1. phase' = phase /\ phase \in Phases
  BY DEF TeardownInv, MainRuns, MuxRuns, FrameRuns
<1>2. CASE MainRuns
  <2>1. phase = "run" /\ MainNext /\ HeldInv
    BY <1>2 DEF MainRuns, TeardownInv, Gated, Phases, Joined
  <2>2. HeldInv' /\ ParseBorn' /\ ExitsKept'
    BY <2>1, MainKeepsHeld, MainKeepsExits, HeldIsBorn DEF TeardownInv
  <2>3. UNCHANGED <<framePc, refs>>
    BY <2>1 DEF MainNext, Tick, Spawn, Close, WriteFails, TickPosts, RunPost, TickApply,
                KillTerminal, TickApplied, Sweep, frameVars
  <2> QED
    BY <1>1, <2>1, <2>2, <2>3 DEF TeardownInv, HeldInv, NothingWatched, NothingDrawn,
       NothingRuns, SpinIsFinal, Joined
<1>3. CASE MuxRuns
  <2>1. MuxNext /\ UNCHANGED <<framePc, refs>>
    BY <1>3 DEF MuxRuns, MuxNext, MuxFire, MuxQueueParse, MuxReturn, MuxExit,
                MuxExitPost, MuxExitEnqueue, frameVars
  <2>2. phase \in {"run", "detach"}
    <3>1. ~(watched = {} /\ muxAt = None)
      BY <2>1 DEF TeardownInv, TypeOK, MuxNext, MuxFire, MuxQueueParse, MuxReturn,
                  MuxExit, MuxExitPost, MuxExitEnqueue
    <3> QED
      BY <3>1 DEF TeardownInv, NothingWatched
  <2>3. HeldInv' /\ ParseBorn' /\ ExitsKept'
    BY <2>1, <2>2, MuxKeepsHeld, MuxKeepsExits, HeldIsBorn DEF TeardownInv, Gated, Phases, Joined
  <2> QED
    BY <1>1, <2>1, <2>2, <2>3 DEF TeardownInv, HeldInv, NothingWatched, NothingDrawn,
       NothingRuns, SpinIsFinal, Joined
<1>4. CASE FrameRuns
  <2>1. FrameNext /\ phase \in {"run", "detach", "render"}
    BY <1>4 DEF FrameRuns
  <2>2. HeldInv' /\ ParseBorn' /\ ExitsKept'
    BY <2>1, FrameKeepsHeld, FrameKeepsExits, HeldIsBorn DEF TeardownInv, Gated, Phases, Joined
  <2>3. /\ UNCHANGED <<watched, muxAt>>
        /\ (framePc # "drawing" => refs = {})'
    BY <2>1 DEF FrameNext, FrameBegin, FrameSnapshot, FrameEnd, muxVars,
                TeardownInv, NothingDrawn
  <2> QED
    BY <1>1, <2>1, <2>2, <2>3 DEF TeardownInv, HeldInv, NothingWatched, NothingDrawn,
       NothingRuns, SpinIsFinal, Joined
<1> QED
  BY <1>2, <1>3, <1>4

\* A worker may run until the pool is joined; it begins no parse.
LEMMA WorkersKeepTeardown ==
    ASSUME TeardownInv, NEW t \in Terms, WorkRuns(t) \/ Park(t)
    PROVE  TeardownInv'
<1>1. phase' = phase /\ phase \in Phases /\ gaveUp' = gaveUp
  BY DEF TeardownInv, WorkRuns, Park
<1>2. CASE Park(t)
  <2>1. UNCHANGED vars
    BY <1>2 DEF Park
  <2>2. phase \in Gated => HeldInv'
    BY <2>1, HeldStep DEF TeardownInv
  <2> QED
    BY <1>1, <2>1, <2>2 DEF TeardownInv, TypeOK, NothingWatched, NothingDrawn, NothingRuns,
       SpinIsFinal, ParseBorn, InFlight, ExitsKept, DyingHandled, UnbornRuns, ExitNotLost,
       ExitPending, Live, vars
<1>3. CASE WorkRuns(t)
  <2>1. ParseDone(t) \/ ParseExit(t) \/ ParseExitPost(t) \/ ParseExitEnqueue(t)
    BY <1>3 DEF WorkRuns
  <2>2. phase \in Gated => HeldInv'
    BY <2>1, WorkKeepsHeld DEF TeardownInv, WorkNext
  <2>3. /\ UNCHANGED <<where, muxAt, framePc, refs>> /\ watched' \subseteq watched
        /\ TypeOK'
        /\ \A u \in Terms : InFlight(u)' => InFlight(u)
    <3> USE DEF TeardownInv, TypeOK, InFlight, muxVars, frameVars, postVars, exitVars
    <3>1. CASE ParseDone(t)
      BY <3>1 DEF ParseDone
    <3>2. CASE ParseExit(t)
      BY <3>2 DEF ParseExit
    <3>3. CASE ParseExitPost(t)
      BY <3>3, PostType DEF ParseExitPost
    <3>4. CASE ParseExitEnqueue(t)
      BY <3>4, PostType DEF ParseExitEnqueue
    <3> QED
      BY <2>1, <3>1, <3>2, <3>3, <3>4
  <2>4. ExitsKept'
    BY <2>1, WorkKeepsExits DEF TeardownInv, WorkNext
  <2>5. NothingRuns' /\ SpinIsFinal' /\ ParseBorn'
    BY <1>1, <2>3 DEF TeardownInv, NothingRuns, SpinIsFinal, ParseBorn, Live
  <2> QED
    BY <1>1, <2>2, <2>3, <2>4, <2>5 DEF TeardownInv, NothingWatched, NothingDrawn
<1> QED
  BY <1>2, <1>3

\* What exec() and ~PlatformDawn do, in their order.
LEMMA ShutdownKeepsTeardown ==
    ASSUME TeardownInv, ShutdownNext
    PROVE  TeardownInv'
<1> USE DEF Phases, Joined, Gated
<1>1. CASE \/ Quit \/ Detached \/ RenderJoined \/ SpinAgain \/ SpinEnds
           \/ SpinGivesUp \/ MuxJoined
  <2>1. UNCHANGED vars /\ phase' \in Phases
    BY <1>1 DEF Quit, Detached, RenderJoined, SpinAgain, SpinEnds, SpinGivesUp, MuxJoined
  <2>2. phase' \in Gated => phase \in Gated
    BY <1>1 DEF Quit, Detached, RenderJoined, SpinAgain, SpinEnds, SpinGivesUp, MuxJoined
  <2>3. phase' \in Gated => HeldInv'
    BY <2>1, <2>2, HeldStep DEF TeardownInv
  <2>4. NothingWatched'
    <3>1. CASE Detached
      <4>1. watched = {} /\ muxAt \notin Live /\ HeldInv
        BY <3>1 DEF Detached, TeardownInv
      <4>2. muxAt = None
        BY <4>1 DEF HeldInv, TypeOK, MuxSafe, Live
      <4> QED
        BY <2>1, <4>1, <4>2 DEF NothingWatched, vars
    <3>2. CASE ~Detached
      BY <1>1, <2>1, <3>2 DEF TeardownInv, NothingWatched, vars, Quit, RenderJoined, SpinAgain,
         SpinEnds, SpinGivesUp, MuxJoined
    <3> QED
      BY <3>1, <3>2
  <2>5. NothingDrawn'
    BY <1>1, <2>1 DEF TeardownInv, NothingDrawn, vars, Quit, Detached, RenderJoined, SpinAgain,
       SpinEnds, SpinGivesUp, MuxJoined
  <2>6. NothingRuns' /\ SpinIsFinal'
    BY <1>1, <2>1 DEF TeardownInv, NothingRuns, SpinIsFinal, Live, InFlight, vars, Quit, Detached,
       RenderJoined, SpinAgain, SpinEnds, SpinGivesUp, MuxJoined
  <2>7. ParseBorn' /\ ExitsKept'
    BY <2>1 DEF TeardownInv, ParseBorn, InFlight, ExitsKept, DyingHandled, UnbornRuns,
       ExitNotLost, ExitPending, Live, vars
  <2> QED
    BY <2>1, <2>3, <2>4, <2>5, <2>6, <2>7 DEF TeardownInv, TypeOK, vars
<1>2. CASE \E t \in Terms : Detach(t)
  <2>1. /\ watched' \subseteq watched /\ phase = "detach" /\ phase' = "detach"
        /\ UNCHANGED <<where, newFrame, exited, muxVars, work, postVars, exitVars, shadow,
                       frameVars, mainPc>>
    BY <1>2 DEF Detach
  <2>2. TypeOK' /\ HeldInv' /\ NothingWatched' /\ NothingDrawn'
    BY <2>1 DEF TeardownInv, NothingWatched, NothingDrawn, HeldInv, TypeOK, WatchedLive,
       ShadowLive, FrameHolds, ParseHolds, MuxSafe, InFlight, Live, muxVars, postVars,
       exitVars, frameVars
  <2>3. NothingRuns' /\ SpinIsFinal' /\ ParseBorn' /\ ExitsKept'
    BY <2>1 DEF TeardownInv, NothingRuns, SpinIsFinal, ParseBorn, InFlight, ExitsKept,
       DyingHandled, UnbornRuns, ExitNotLost, ExitPending, Live, muxVars, exitVars
  <2> QED
    BY <2>1, <2>2, <2>3 DEF TeardownInv
<1>3. CASE SpinDrain \/ LastDrain
  <2>1. /\ posts' = <<>>
        /\ \/ phase = "spin" /\ phase' = "check"
           \/ phase = "last" /\ phase' = "grave"
        /\ UNCHANGED <<where, newFrame, exited, watched, muxVars, work, running, exitVars,
                       shadow, frameVars, mainPc, gaveUp>>
    BY <1>3 DEF SpinDrain, LastDrain
  <2>2. TypeOK' /\ HeldInv' /\ NothingWatched' /\ NothingDrawn'
    BY <2>1, PostType DEF TeardownInv, NothingWatched, NothingDrawn, HeldInv, TypeOK,
       WatchedLive, ShadowLive, FrameHolds, ParseHolds, MuxSafe, InFlight, Live, muxVars,
       exitVars, frameVars
  <2>3. NothingRuns' /\ SpinIsFinal' /\ ParseBorn' /\ ExitsKept'
    BY <2>1 DEF TeardownInv, NothingRuns, SpinIsFinal, ParseBorn, InFlight, ExitsKept,
       DyingHandled, UnbornRuns, ExitNotLost, ExitPending, Live, muxVars, exitVars
  <2> QED
    BY <2>1, <2>2, <2>3 DEF TeardownInv
<1>4. CASE DrainAll \/ PoolJoined
  <2>1. /\ phase \in {"grave", "pool"} /\ phase' \in {"mux", "done"}
        /\ phase = "grave" => phase' = "mux"
        /\ where' \in [Terms -> {"unborn", "live", "buried", "freed"}]
        /\ UNCHANGED <<newFrame, exited, watched, muxVars, work, postVars, exitVars,
                       shadow, frameVars, mainPc, gaveUp>>
    BY <1>4 DEF DrainAll, PoolJoined, TeardownInv, TypeOK
  <2>2. TypeOK' /\ NothingWatched' /\ NothingDrawn'
    BY <2>1 DEF TeardownInv, NothingWatched, NothingDrawn, TypeOK, muxVars, postVars,
       exitVars, frameVars
  <2>3. \A t \in Terms : /\ where'[t] = "live" => where[t] = "live"
                         /\ where'[t] = "unborn" => where[t] = "unborn"
    BY <1>4 DEF DrainAll, PoolJoined, TeardownInv, TypeOK
  <2>4. phase' = "done" => \A t \in Terms : ~InFlight(t)
    BY <1>4 DEF DrainAll, PoolJoined
  <2>5. NothingRuns' /\ SpinIsFinal' /\ ParseBorn' /\ ExitsKept'
    BY <2>1, <2>3, <2>4 DEF TeardownInv, NothingRuns, SpinIsFinal, ParseBorn, InFlight, ExitsKept,
       DyingHandled, UnbornRuns, ExitNotLost, ExitPending, Live, muxVars, exitVars
  <2> QED
    BY <2>1, <2>2, <2>5 DEF TeardownInv
<1> QED
  BY <1>1, <1>2, <1>3, <1>4 DEF ShutdownNext

LEMMA TeardownStep == TeardownInv /\ [ShutNext]_allVars => TeardownInv'
<1>1. TeardownInv /\ UNCHANGED allVars => TeardownInv'
  <2> SUFFICES ASSUME TeardownInv, UNCHANGED allVars PROVE TeardownInv'
    OBVIOUS
  <2>1. phase' = phase /\ gaveUp' = gaveUp /\ UNCHANGED vars
    BY DEF allVars
  <2>2. phase \in Gated => HeldInv'
    BY <2>1, HeldStep DEF TeardownInv
  <2> QED
    BY <2>1, <2>2 DEF TeardownInv, TypeOK, NothingWatched, NothingDrawn, NothingRuns,
       SpinIsFinal, ParseBorn, InFlight, ExitsKept, DyingHandled, UnbornRuns, ExitNotLost,
       ExitPending, Live, vars
<1> QED
  BY <1>1, ThreadsKeepTeardown, WorkersKeepTeardown, ShutdownKeepsTeardown DEF ShutNext

LEMMA TeardownAlways == ShutSpec => []TeardownInv
  BY TeardownInit, TeardownStep, PTL DEF ShutSpec

(* Every variable keeps its type.                                          *)
THEOREM LifetimeTypes == ShutSpec => []TypeOK
<1>1. TeardownInv => TypeOK
  BY DEF TeardownInv
<1> QED
  BY TeardownAlways, <1>1, PTL

(* RenderEngine::renderFrame never draws from a deleted Terminal, the      *)
(* PtyMux calls back for none, and the task of Terminal::queueParse runs   *)
(* on none, but for what Graveyard::drainAll frees under it.               *)
THEOREM NoThreadBehind == ShutSpec => []ThreadsSafe
<1>1. TeardownInv => ThreadsSafe
  <2> SUFFICES ASSUME TeardownInv PROVE ThreadsSafe
    OBVIOUS
  <2>1. CASE phase \in Gated
    BY <2>1 DEF TeardownInv, HeldInv, FrameHolds, FrameSafe, Freed, ParseHolds, ThreadsSafe
  <2>2. CASE phase \notin Gated
    <3>1. muxAt = None /\ refs = {} /\ phase \in {"mux", "pool", "done"}
      BY <2>2 DEF TeardownInv, Gated, Phases, Joined, NothingWatched, NothingDrawn
    <3> QED
      BY <3>1 DEF FrameSafe, MuxSafe, ThreadsSafe, TeardownInv, NothingRuns
  <2> QED
    BY <2>1, <2>2
<1> QED
  BY <1>1, TeardownAlways, PTL

(* What the spin of ~PlatformDawn has waited for stays so: the mux thread, *)
(* still running, has no fd of the tree left to read and to parse.         *)
THEOREM SpinEndsParsing == ShutSpec => []SpinIsFinal
<1>1. TeardownInv => SpinIsFinal
  BY DEF TeardownInv
<1> QED
  BY <1>1, TeardownAlways, PTL

(* An exit of a Terminal on the tree is queued, in hand, or about to be,   *)
(* to the last moment of the tree.                                         *)
THEOREM ExitIsKept == ShutSpec => []ExitNotLost
<1>1. TeardownInv => ExitNotLost
  BY DEF TeardownInv, ExitsKept
<1> QED
  BY <1>1, TeardownAlways, PTL
=============================================================================
