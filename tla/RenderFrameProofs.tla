-------------------------- MODULE RenderFrameProofs --------------------------
(***************************************************************************)
(* Theorems about RenderFrame for every set of panes, popups and tabs and  *)
(* every number of textures and of frames in flight.                       *)
(***************************************************************************)
EXTENDS RenderFrame,
        SequencesExt, FiniteSetsExt, TLAPS,
        WellFoundedInduction, NaturalsInduction, FiniteSetTheorems

USE FrameAssumption DEF Keys

(* Facts about numbers, sets and sequences the proofs below rest on.       *)
LEMMA Smallest ==
    ASSUME NEW S \in SUBSET Nat, S # {}
    PROVE  \E m \in S : \A n \in S : m <= n
<1> DEFINE R == {ss \in Nat \X Nat : ss[1] < ss[2]}
<1>1. IsWellFoundedOn(R, Nat)
  BY NatLessThanWellFounded, Zenon DEF OpToRel
<1>2. PICK m \in S : \A n \in S : <<n, m>> \notin R
  <2> HIDE DEF R
  <2> QED
    BY <1>1, WFMin
<1>3. ASSUME NEW n \in S PROVE m <= n
  <2>1. n \in Nat /\ m \in Nat /\ ~(n < m)
    BY <1>2
  <2> QED
    BY <2>1
<1> QED
  BY <1>3

LEMMA ConcatFacts ==
    ASSUME NEW S, NEW a \in Seq(S), NEW b \in Seq(S)
    PROVE  /\ a \o b \in Seq(S) /\ Len(a \o b) = Len(a) + Len(b)
           /\ \A i \in 1..Len(a) : (a \o b)[i] = a[i]
           /\ \A i \in 1..(Len(a) + Len(b)) : i > Len(a) => (a \o b)[i] = b[i - Len(a)]
  OBVIOUS

LEMMA SubSeqFacts ==
    ASSUME NEW S, NEW s \in Seq(S), NEW m \in 1..(Len(s) + 1), NEW n \in (m - 1)..Len(s)
    PROVE  /\ SubSeq(s, m, n) \in Seq(S) /\ Len(SubSeq(s, m, n)) = n - m + 1
           /\ \A i \in 1..(n - m + 1) : SubSeq(s, m, n)[i] = s[m + i - 1]
  OBVIOUS

LEMMA RemoveAtFacts ==
    ASSUME NEW S, NEW s \in Seq(S), NEW i \in 1..Len(s)
    PROVE  /\ RemoveAt(s, i) \in Seq(S) /\ Len(RemoveAt(s, i)) = Len(s) - 1
           /\ \A j \in 1..(i - 1) : RemoveAt(s, i)[j] = s[j]
           /\ \A j \in i..(Len(s) - 1) : RemoveAt(s, i)[j] = s[j + 1]
<1> DEFINE a == SubSeq(s, 1, i - 1)
           b == SubSeq(s, i + 1, Len(s))
<1>1. /\ a \in Seq(S) /\ Len(a) = i - 1 /\ i \in Nat /\ Len(s) \in Nat
      /\ \A j \in 1..(i - 1) : a[j] = s[j]
  BY SubSeqFacts
<1>2. /\ b \in Seq(S) /\ Len(b) = Len(s) - i
      /\ \A j \in 1..(Len(s) - i) : b[j] = s[i + j]
  BY SubSeqFacts
<1>3. RemoveAt(s, i) = a \o b
  BY DEF RemoveAt
<1> HIDE DEF a, b
<1>4. ASSUME NEW j \in i..(Len(s) - 1) PROVE RemoveAt(s, i)[j] = s[j + 1]
  <2>1. /\ j > Len(a) /\ j \in 1..(Len(a) + Len(b)) /\ j - Len(a) \in 1..(Len(s) - i)
        /\ i + (j - Len(a)) = j + 1
    BY <1>1, <1>2
  <2>2. (a \o b)[j] = b[j - Len(a)]
    <3>1. a \in Seq(S) /\ b \in Seq(S)
      BY <1>1, <1>2
    <3> QED
      BY <2>1, <3>1, ConcatFacts
  <2>3. b[j - Len(a)] = s[i + (j - Len(a))]
    BY <1>2, <2>1
  <2> QED
    BY <1>3, <2>1, <2>2, <2>3
<1>5. RemoveAt(s, i) \in Seq(S) /\ Len(RemoveAt(s, i)) = Len(s) - 1
  <2>0. a \in Seq(S) /\ b \in Seq(S)
    BY <1>1, <1>2
  <2>1. a \o b \in Seq(S) /\ Len(a \o b) = Len(a) + Len(b)
    BY <2>0
  <2> QED
    BY <1>1, <1>2, <1>3, <2>1
<1>6. ASSUME NEW j \in 1..(i - 1) PROVE RemoveAt(s, i)[j] = s[j]
  BY <1>1, <1>2, <1>3, ConcatFacts
<1> QED
  BY <1>4, <1>5, <1>6

LEMMA MinFacts ==
    ASSUME NEW S \in SUBSET Nat, S # {}
    PROVE  Min(S) \in S /\ \A n \in S : Min(S) <= n
  BY Smallest DEF Min

LEMMA TailFacts ==
    ASSUME NEW S, NEW s \in Seq(S), s # <<>>
    PROVE  /\ Len(s) \in Nat \ {0} /\ s[1] \in S
           /\ Tail(s) \in Seq(S) /\ Len(Tail(s)) = Len(s) - 1
           /\ \A i \in 1..(Len(s) - 1) : Tail(s)[i] = s[i + 1]
  OBVIOUS

LEMMA RemoveAtMembers ==
    ASSUME NEW S, NEW s \in Seq(S), NEW i \in 1..Len(s),
           \A j, l \in 1..Len(s) : s[j] = s[l] => j = l
    PROVE  LET r == RemoveAt(s, i)
           IN  /\ r \in Seq(S)
               /\ \A j, l \in 1..Len(r) : r[j] = r[l] => j = l
               /\ \A u : (\E j \in 1..Len(r) : r[j] = u)
                            <=> (\E j \in 1..Len(s) : s[j] = u) /\ u # s[i]
<1> DEFINE r == RemoveAt(s, i)
           at(j) == IF j < i THEN j ELSE j + 1
<1>1. /\ Len(s) \in Nat /\ i \in Nat /\ r \in Seq(S) /\ Len(r) = Len(s) - 1
      /\ \A j \in 1..Len(r) : at(j) \in 1..Len(s) /\ at(j) # i /\ r[j] = s[at(j)]
  <2>1. /\ r \in Seq(S) /\ Len(r) = Len(s) - 1 /\ Len(s) \in Nat /\ i \in Nat
        /\ \A j \in 1..(i - 1) : r[j] = s[j]
        /\ \A j \in i..(Len(s) - 1) : r[j] = s[j + 1]
    BY RemoveAtFacts
  <2> HIDE DEF r
  <2>2. ASSUME NEW j \in 1..Len(r), j < i PROVE at(j) \in 1..Len(s) /\ at(j) # i /\ r[j] = s[at(j)]
    BY <2>1, <2>2
  <2>3. ASSUME NEW j \in 1..Len(r), ~(j < i)
        PROVE  at(j) \in 1..Len(s) /\ at(j) # i /\ r[j] = s[at(j)]
    <3>1. j \in i..(Len(s) - 1) /\ at(j) = j + 1 /\ j + 1 \in 1..Len(s) /\ j + 1 # i
      BY <2>1, <2>3
    <3>2. r[j] = s[j + 1]
      BY <2>1, <3>1
    <3> QED
      BY <3>1, <3>2
  <2> QED
    BY <2>1, <2>2, <2>3
<1> HIDE DEF r
<1>2. ASSUME NEW j \in 1..Len(r), NEW l \in 1..Len(r), r[j] = r[l] PROVE j = l
  <2>1. at(j) = at(l)
    <3> HIDE DEF at
    <3> QED
      BY <1>1, <1>2
  <2> QED
    BY <1>1, <2>1
<1>3. ASSUME NEW u, NEW j \in 1..Len(s), s[j] = u, u # s[i] PROVE \E l \in 1..Len(r) : r[l] = u
  <2>1. CASE j < i
    <3>1. j \in 1..Len(r) /\ at(j) = j
      BY <1>1, <2>1
    <3> QED
      BY <1>1, <1>3, <3>1
  <2>2. CASE j > i
    <3>1. j - 1 \in 1..Len(r) /\ at(j - 1) = j
      BY <1>1, <2>2
    <3> QED
      BY <1>1, <1>3, <3>1
  <2> QED
    BY <1>1, <1>3, <2>1, <2>2
<1>4. ASSUME NEW u, NEW j \in 1..Len(r), r[j] = u PROVE (\E l \in 1..Len(s) : s[l] = u) /\ u # s[i]
  <2> HIDE DEF at
  <2> QED
    BY <1>1, <1>4
<1> QED
  BY <1>1, <1>2, <1>3, <1>4 DEF r

LEMMA OrderedPair ==
    ASSUME NEW ts \in SUBSET Nat, NEW t \in ts, NEW v \in ts, t < v
    PROVE  /\ {u \in ts : u < t} \subseteq {u \in ts : u < v}
           /\ t \in {u \in ts : u < v} /\ t \notin {u \in ts : u < t}
<1>1. \A u \in ts : u < t => u < v
  OBVIOUS
<1>2. t < v /\ ~(t < t)
  OBVIOUS
<1> QED
  BY <1>1, <1>2

-----------------------------------------------------------------------------
(* The types of what main and the render thread share.                     *)
FrameTypes ==
    /\ live \subseteq Keys /\ tab \subseteq Panes
    /\ slot \in [Panes -> Widths] /\ width \in [Keys -> Widths] /\ layoutDirty \in BOOLEAN
    /\ pending \in Requests /\ renderState \in States /\ frame \in States
    /\ entries \in [Keys -> Entries]
    /\ needsRedraw \in BOOLEAN

LEMMA InitTypes == Init => FrameTypes
<1>1. Min(Widths) \in Widths
  BY MinFacts
<1> QED
  BY <1>1 DEF Init, FrameTypes, NoRequest, NoFrame, State, NoEntry, NoTexture,
              Requests, States, Entries, Textures

LEMMA LayoutTypes ==
    ASSUME FrameTypes, NEW ks \in SUBSET Keys, RunLayout(ks)
    PROVE  width' \in [Keys -> Widths] /\ layoutDirty' = FALSE /\ Cascade(ks) \subseteq Panes
  BY DEF FrameTypes, RunLayout, Cascade

LEMMA HandlersKeepTypes == FrameTypes /\ Handler => FrameTypes'
<1> SUFFICES ASSUME FrameTypes, Handler PROVE FrameTypes'
  OBVIOUS
<1> USE DEF FrameTypes, Change, Requests, States, State, renderVars, entryVars,
            emulatorVars, layoutVars
<1>1. ASSUME NEW p \in Panes, KillPane(p) PROVE FrameTypes'
  <2>1. live' \subseteq Keys /\ RunLayout(live')
    BY <1>1 DEF KillPane
  <2>2. width' \in [Keys -> Widths] /\ layoutDirty' = FALSE /\ Cascade(live') \subseteq Panes
    BY <2>1, LayoutTypes
  <2>3. pending' \in Requests
    <3>1. (WithPopups({p}) \ {p}) \cap live \subseteq Keys
      OBVIOUS
    <3> QED
      BY <1>1, <2>2, <3>1 DEF KillPane
  <2>4. renderState' \in States
    BY <1>1, <2>1, <2>2 DEF KillPane, Shown
  <2> QED
    BY <1>1, <2>1, <2>2, <2>3, <2>4 DEF KillPane
<1>2. ASSUME NEW q \in Popups, DestroyPopup(q) PROVE FrameTypes'
  BY <1>2 DEF DestroyPopup
<1>3. ASSUME NEW q \in Popups, CreatePopup(q) PROVE FrameTypes'
  BY <1>3 DEF CreatePopup
<1>4. ASSUME NEW q \in Popups, NEW w \in Widths, ResizePopup(q, w) PROVE FrameTypes'
  BY <1>4 DEF ResizePopup
<1>5. ASSUME NEW ps \in Tabs, ActivateTab(ps) PROVE FrameTypes'
  BY <1>5 DEF ActivateTab
<1>6. ASSUME NEW p \in Panes, NEW q \in Panes, SwapPanes(p, q) PROVE FrameTypes'
  BY <1>6 DEF SwapPanes
<1>7. ASSUME NEW s \in WindowSlots \ {slot}, ResizeWindow(s) PROVE FrameTypes'
  <2>1. slot' \in [Panes -> Widths] /\ width' \in [Keys -> Widths] /\ layoutDirty' = FALSE
    BY <1>7 DEF ResizeWindow
  <2>2. pending' \in Requests
    BY <1>7 DEF ResizeWindow
  <2> QED
    BY <1>7, <2>1, <2>2 DEF ResizeWindow
<1> QED
  BY <1>1, <1>2, <1>3, <1>4, <1>5, <1>6, <1>7 DEF Handler

LEMMA EntryType ==
    /\ NoEntry \in Entries /\ NewEntry \in Entries
    /\ \A e \in Entries : DropHeldTexture(e) \in Entries /\ Textured(e) \subseteq Textures
  BY DEF NoEntry, NewEntry, DropHeldTexture, Textured, Entries, NoTexture

LEMMA EntryEdits ==
    ASSUME NEW e \in Entries, NEW r \in SUBSET Textures, NEW t \in Textures, NEW w \in Widths
    PROVE  /\ [e EXCEPT !.releases = r] \in Entries
           /\ [e EXCEPT !.releases = r, !.held = t, !.drawnFor = w] \in Entries
<1> USE DEF Entries
<1>1. [e EXCEPT !.releases = r] \in Entries
  OBVIOUS
<1>2. [[e EXCEPT !.releases = r] EXCEPT !.held = t] \in Entries
  BY <1>1
<1>3. [[[e EXCEPT !.releases = r] EXCEPT !.held = t] EXCEPT !.drawnFor = w] \in Entries
  BY <1>2
<1> QED
  BY <1>1, <1>3

LEMMA TickKeepsTypes ==
    FrameTypes /\ (StartTick \/ ApplyPendingMutations \/ CheckRedraw) => FrameTypes'
<1> SUFFICES ASSUME FrameTypes, StartTick \/ ApplyPendingMutations \/ CheckRedraw
             PROVE  FrameTypes'
  OBVIOUS
<1> USE DEF FrameTypes, Requests, States, State, renderVars, entryVars, layoutVars
<1>1. CASE StartTick
  BY <1>1 DEF StartTick
<1>2. CASE ApplyPendingMutations
  <2>1. width' \in [Keys -> Widths] /\ layoutDirty' = FALSE
    BY <1>2, LayoutTypes DEF ApplyPendingMutations
  <2> QED
    BY <1>2, <2>1 DEF ApplyPendingMutations, Shown, WithPopups, NoRequest
<1>3. CASE CheckRedraw
  BY <1>3 DEF CheckRedraw
<1> QED
  BY <1>1, <1>2, <1>3

LEMMA RenderKeepsTypes == FrameTypes /\ (RenderStep \/ GpuDone) => FrameTypes'
<1> SUFFICES ASSUME FrameTypes, RenderStep \/ GpuDone PROVE FrameTypes'
  OBVIOUS
<1> USE DEF FrameTypes, OnlyRender, layoutVars, entryVars, renderVars
<1>1. CASE Woken \/ NoSurface
  BY <1>1 DEF Woken, NoSurface, emulatorVars
<1>2. CASE SnapshotUnderLock
  BY <1>2 DEF SnapshotUnderLock, States, State, NoRequest
<1>3. CASE Structure
  <2>1. frame' \in States
    BY <1>3 DEF Structure, States, State, NoRequest
  <2>2. entries' \in [Keys -> Entries]
    BY <1>3, EntryType DEF Structure
  <2>3. needsRedraw' \in BOOLEAN
    BY <1>3 DEF Structure
  <2> QED
    BY <1>3, <2>1, <2>2, <2>3 DEF Structure
<1>4. CASE LoadSnapshots
  BY <1>4, EntryType DEF LoadSnapshots
<1>5. CASE DrawTarget
  <2>1. PICK t \in Textures :
           entries' = [entries EXCEPT
              ![NextTarget] = [@ EXCEPT !.releases = Textured(entries[NextTarget]),
                                        !.held = t, !.drawnFor = frame.width[NextTarget]]]
    BY <1>5 DEF DrawTarget
  <2>2. \A k \in Keys : frame.width[k] \in Widths
    BY DEF States
  <2>3. \A k \in Keys : [entries[k] EXCEPT !.releases = Textured(entries[k]), !.held = t,
                             !.drawnFor = frame.width[k]] \in Entries
    <3> SUFFICES ASSUME NEW k \in Keys
                 PROVE  [entries[k] EXCEPT !.releases = Textured(entries[k]), !.held = t,
                             !.drawnFor = frame.width[k]] \in Entries
      OBVIOUS
    <3>1. /\ entries[k] \in Entries /\ frame.width[k] \in Widths
          /\ Textured(entries[k]) \in SUBSET Textures
      BY <2>2, EntryType
    <3> QED
      BY <3>1, EntryEdits
  <2>4. entries' \in [Keys -> Entries]
    BY <2>1, <2>3
  <2> QED
    BY <1>5, <2>4 DEF DrawTarget
<1>6. CASE Present
  <2>1. frame' \in States
    BY <1>6, InitTypes, MinFacts DEF Present, NoFrame, States, State, NoRequest
  <2>2. entries' \in [Keys -> Entries]
    <3>1. ASSUME NEW k \in Keys PROVE [entries[k] EXCEPT !.releases = {}] \in Entries
      BY DEF Entries
    <3> QED
      BY <1>6, <3>1 DEF Present
  <2> QED
    BY <1>6, <2>1, <2>2 DEF Present
<1>7. CASE GpuDone
  BY <1>7 DEF GpuDone
<1> QED
  BY <1>1, <1>2, <1>3, <1>4, <1>5, <1>6, <1>7 DEF RenderStep

LEMMA TypesStep == FrameTypes /\ [Next]_vars => FrameTypes'
<1>1. FrameTypes /\ UNCHANGED vars => FrameTypes'
  BY DEF FrameTypes, vars, layoutVars, renderVars, entryVars
<1>2. FrameTypes /\ (\E k \in Keys, sync \in BOOLEAN : Inject(k, sync)) => FrameTypes'
  BY DEF Inject, FrameTypes, layoutVars, renderVars, entryVars
<1> QED
  BY <1>1, <1>2, HandlersKeepTypes, TickKeepsTypes, RenderKeepsTypes DEF Next

-----------------------------------------------------------------------------
(* That no entry outlives its terminal unnoticed rests on this: the shared *)
(* copy shows nothing that was closed, and what was closed while a frame   *)
(* shows it has its destroy request still to come to a later frame.        *)
Coming == WithPopups(pending.destroyed \cup renderState.destroyed)

ShowsLive  == renderState.keys \subseteq live
FrameShows == renderPc \in {"structure", "load", "draw"} => frame.keys \ live \subseteq Coming

DeadInv == FrameTypes /\ ShowsLive /\ FrameShows /\ DeadEntryIsDestroyed

LEMMA HandlersKeepDead == DeadInv /\ Handler => DeadInv'
<1> SUFFICES ASSUME DeadInv, Handler PROVE DeadInv'
  OBVIOUS
<1>1. FrameTypes /\ FrameTypes'
  BY HandlersKeepTypes DEF DeadInv
<1>2. /\ UNCHANGED <<renderPc, frame, entries>>
      /\ pending \in Requests /\ renderState \in States /\ frame \in States
      /\ live \subseteq Keys
  BY DEF Handler, Change, renderVars, entryVars, KillPane, DestroyPopup, CreatePopup,
         ResizePopup, ActivateTab, SwapPanes, ResizeWindow, DeadInv, FrameTypes
<1> USE DEF Requests, States, State
\* Most handlers close nothing and take no destroy request back.
<1>3. ASSUME live \subseteq live', pending.destroyed \subseteq pending'.destroyed,
             renderState' = renderState
      PROVE  DeadInv'
  BY <1>1, <1>2, <1>3 DEF DeadInv, ShowsLive, FrameShows, Coming, WithPopups,
                          DeadEntryIsDestroyed, Destroying
<1>4. ASSUME NEW p \in Panes, KillPane(p) PROVE DeadInv'
  <2>1. /\ live' = live \ WithPopups({p})
        /\ pending'.destroyed = pending.destroyed \cup {p}
        /\ renderState'.destroyed = renderState.destroyed
        /\ renderState'.keys \subseteq live'
    BY <1>2, <1>4 DEF KillPane, Shown
  <2>2. FrameShows'
    BY <1>2, <2>1 DEF DeadInv, FrameShows, Coming, WithPopups
  <2>3. DeadEntryIsDestroyed'
    BY <1>2, <2>1 DEF DeadInv, DeadEntryIsDestroyed, Destroying, WithPopups
  <2> QED
    BY <1>1, <2>1, <2>2, <2>3 DEF DeadInv, ShowsLive
<1>5. ASSUME NEW q \in Popups, DestroyPopup(q) PROVE DeadInv'
  <2>1. /\ live' = live \ {q}
        /\ pending'.destroyed = pending.destroyed \cup {q}
        /\ renderState'.destroyed = renderState.destroyed
        /\ renderState'.keys = renderState.keys \ {q}
    BY <1>2, <1>5 DEF DestroyPopup
  <2>2. FrameShows'
    BY <1>2, <2>1 DEF DeadInv, FrameShows, Coming, WithPopups
  <2>3. DeadEntryIsDestroyed'
    BY <1>2, <2>1 DEF DeadInv, DeadEntryIsDestroyed, Destroying, WithPopups
  <2> QED
    BY <1>1, <2>1, <2>2, <2>3 DEF DeadInv, ShowsLive
<1>6. ASSUME NEW q \in Popups, CreatePopup(q) PROVE DeadInv'
  BY <1>3, <1>6 DEF CreatePopup
<1>7. ASSUME NEW q \in Popups, NEW w \in Widths, ResizePopup(q, w) PROVE DeadInv'
  BY <1>2, <1>3, <1>7 DEF ResizePopup
<1>8. ASSUME NEW ps \in Tabs, ActivateTab(ps) PROVE DeadInv'
  BY <1>2, <1>3, <1>8 DEF ActivateTab
<1>9. ASSUME NEW p \in Panes, NEW q \in Panes, SwapPanes(p, q) PROVE DeadInv'
  BY <1>3, <1>9 DEF SwapPanes
<1>10. ASSUME NEW s \in WindowSlots \ {slot}, ResizeWindow(s) PROVE DeadInv'
  <2>1. pending'.destroyed = pending.destroyed /\ live' = live /\ renderState' = renderState
    BY <1>2, <1>10 DEF ResizeWindow
  <2> QED
    BY <1>3, <2>1
<1> QED
  BY <1>4, <1>5, <1>6, <1>7, <1>8, <1>9, <1>10 DEF Handler

LEMMA TickKeepsDead ==
    DeadInv /\ (StartTick \/ ApplyPendingMutations \/ CheckRedraw) => DeadInv'
<1> SUFFICES ASSUME DeadInv, StartTick \/ ApplyPendingMutations \/ CheckRedraw
             PROVE  DeadInv'
  OBVIOUS
<1>1. FrameTypes /\ FrameTypes'
  BY TickKeepsTypes DEF DeadInv
<1> USE DEF DeadInv, ShowsLive, FrameShows, Coming, WithPopups, DeadEntryIsDestroyed,
            Destroying, renderVars, entryVars, layoutVars
<1>2. CASE StartTick \/ CheckRedraw
  BY <1>1, <1>2 DEF StartTick, CheckRedraw
\* Requests only move from pending_ to renderState_.
<1>3. CASE ApplyPendingMutations
  <2>1. /\ UNCHANGED <<live, renderPc, frame, entries>>
        /\ pending'.destroyed = {}
        /\ renderState'.destroyed = renderState.destroyed \cup pending.destroyed
        /\ renderState'.keys \subseteq live
    BY <1>3 DEF ApplyPendingMutations, State, NoRequest, Shown
  <2> QED
    BY <1>1, <2>1
<1> QED
  BY <1>2, <1>3

LEMMA RenderKeepsDead == DeadInv /\ (RenderStep \/ GpuDone) => DeadInv'
<1> SUFFICES ASSUME DeadInv, RenderStep \/ GpuDone PROVE DeadInv'
  OBVIOUS
<1>1. FrameTypes /\ FrameTypes'
  BY RenderKeepsTypes DEF DeadInv
<1>2. UNCHANGED <<live, pending>> /\ pending \in Requests /\ renderState \in States
      /\ frame \in States /\ entries \in [Keys -> Entries]
  BY DEF RenderStep, OnlyRender, Woken, NoSurface, SnapshotUnderLock, Structure,
         LoadSnapshots, DrawTarget, Present, GpuDone, layoutVars, DeadInv, FrameTypes
<1> USE DEF DeadInv, ShowsLive, FrameShows, Coming, WithPopups, DeadEntryIsDestroyed,
            Destroying
<1>3. CASE Woken \/ NoSurface
  <2>1. /\ UNCHANGED <<renderState, frame, entries>>
        /\ renderPc \in {"wait", "surface"} /\ renderPc' \in {"wait", "surface"}
    BY <1>3 DEF Woken, NoSurface, OnlyRender, entryVars
  <2> QED
    BY <1>1, <1>2, <2>1
<1>4. CASE SnapshotUnderLock
  <2>1. /\ frame' = renderState /\ entries' = entries
        /\ renderPc = "surface" /\ renderPc' = "structure"
        /\ renderState'.keys = renderState.keys /\ renderState'.destroyed = {}
    BY <1>4 DEF SnapshotUnderLock, State, NoRequest, entryVars
  <2> QED
    BY <1>1, <1>2, <2>1
\* What the frame had to destroy is gone; what it makes, it was shown.
<1>5. CASE Structure
  <2>1. /\ renderPc = "structure" /\ renderPc' \in {"wait", "load"}
        /\ renderState' = renderState /\ frame'.keys = frame.keys
    BY <1>5 DEF Structure, State, NoRequest
  <2>2. \A k \in Keys : entries'[k].made =>
           /\ k \notin WithPopups(frame.destroyed)
           /\ entries[k].made \/ k \in frame.keys
    BY <1>2, <1>5 DEF Structure, NoEntry, NewEntry, DropHeldTexture, Entries
  <2>3. frame.keys \ live \subseteq Coming
    BY <2>1
  <2>4. DeadEntryIsDestroyed'
    BY <1>2, <2>1, <2>2, <2>3
  <2>5. FrameShows'
    BY <1>2, <2>1, <2>3
  <2> QED
    BY <1>1, <1>2, <2>1, <2>4, <2>5
<1>6. CASE LoadSnapshots
  <2>1. /\ renderPc = "load" /\ renderPc' = "draw" /\ UNCHANGED <<renderState, frame>>
        /\ \A k \in Keys : entries'[k].made => entries[k].made \/ k \in frame.keys
    BY <1>2, <1>6 DEF LoadSnapshots
  <2> QED
    BY <1>1, <1>2, <2>1
<1>7. CASE DrawTarget
  <2>1. /\ renderPc = "draw" /\ UNCHANGED <<renderPc, renderState, frame>>
        /\ \A k \in Keys : entries'[k].made => entries[k].made
    BY <1>2, <1>7 DEF DrawTarget, Entries
  <2> QED
    BY <1>1, <1>2, <2>1
<1>8. CASE Present
  <2>1. /\ renderPc = "draw" /\ renderPc' = "wait" /\ UNCHANGED renderState
        /\ \A k \in Keys : entries'[k].made => entries[k].made
    BY <1>2, <1>8 DEF Present, Entries, OnlyRender
  <2> QED
    BY <1>1, <1>2, <2>1
<1>9. CASE GpuDone
  <2>1. UNCHANGED <<renderState, renderPc, frame, entries>>
    BY <1>9 DEF GpuDone, entryVars, renderVars
  <2> QED
    BY <1>1, <1>2, <2>1
<1> QED
  BY <1>3, <1>4, <1>5, <1>6, <1>7, <1>8, <1>9 DEF RenderStep

(* An entry of a terminal that is gone is always about to be destroyed:    *)
(* neither a frame under way nor a stale copy of the layout can make one   *)
(* that no destroy request will reach.                                     *)
THEOREM DeadEntriesGo == Spec => []DeadEntryIsDestroyed
<1>1. Init => DeadInv
  BY InitTypes DEF Init, DeadInv, ShowsLive, FrameShows, DeadEntryIsDestroyed, NoEntry, State
<1>2. DeadInv /\ UNCHANGED vars => DeadInv'
  BY DEF DeadInv, FrameTypes, ShowsLive, FrameShows, Coming, DeadEntryIsDestroyed,
         Destroying, vars, layoutVars, renderVars, entryVars
<1>3. DeadInv /\ (\E k \in Keys, sync \in BOOLEAN : Inject(k, sync)) => DeadInv'
  BY DEF DeadInv, FrameTypes, ShowsLive, FrameShows, Coming, DeadEntryIsDestroyed,
         Destroying, Inject, layoutVars, renderVars, entryVars
<1>4. DeadInv /\ [Next]_vars => DeadInv'
  BY <1>2, <1>3, HandlersKeepDead, TickKeepsDead, RenderKeepsDead DEF Next
<1>5. DeadInv => DeadEntryIsDestroyed
  BY DEF DeadInv
<1> QED
  BY <1>1, <1>4, <1>5, PTL DEF Spec

-----------------------------------------------------------------------------
(* That no output is left off the screen rests on this: what is unseen and *)
(* not frozen is on neither the screen nor the frame being drawn, unless a *)
(* redraw is asked for and the main thread is going to look.               *)
Awake == loopAwake \/ mainPc # "events"

OnShow == IF renderPc \in {"wait", "surface", "structure"} THEN screen
          ELSE IF renderPc = "draw" THEN frame.keys ELSE {}

Unshown(k) == k \in unseen /\ k \notin snapSync
ContentInv == \A k \in OnShow : Unshown(k) => needsRedraw /\ Awake

\* A step that publishes asks for the redraw; one that does not shows nothing less.
LEMMA PublishingKeepsContent ==
    ASSUME needsRedraw', Awake'
    PROVE  ContentInv'
  BY DEF ContentInv

LEMMA QuietKeepsContent ==
    ASSUME ContentInv, \A k \in OnShow' : Unshown(k)' => k \in OnShow /\ Unshown(k),
           needsRedraw => needsRedraw', needsRedraw /\ Awake => Awake'
    PROVE  ContentInv'
  BY DEF ContentInv

LEMMA HandlersKeepContent == Handler => ContentInv'
<1> SUFFICES ASSUME Handler PROVE ContentInv'
  OBVIOUS
<1>1. Change
  BY DEF Handler, KillPane, DestroyPopup, CreatePopup, ResizePopup, ActivateTab, SwapPanes,
         ResizeWindow
<1>2. needsRedraw' /\ Awake'
  BY <1>1 DEF Change, Awake
<1> QED
  BY <1>2, PublishingKeepsContent

LEMMA TickKeepsContent ==
    ASSUME ContentInv, FrameTypes,
           \/ \E k \in Keys, sync \in BOOLEAN : Inject(k, sync)
           \/ StartTick \/ ApplyPendingMutations \/ CheckRedraw
    PROVE  ContentInv'
<1>1. ASSUME NEW k \in Keys, NEW sync \in BOOLEAN, Inject(k, sync) PROVE ContentInv'
  <2>1. CASE sync
    BY <1>1, <2>1, QuietKeepsContent
       DEF Inject, OnShow, Unshown, Awake, renderVars
  <2>2. CASE ~sync
    <3>1. needsRedraw' /\ Awake'
      BY <1>1, <2>2 DEF Inject, Awake
    <3> QED
      BY <3>1, PublishingKeepsContent
  <2> QED
    BY <2>1, <2>2
<1>2. CASE StartTick
  <2>1. UNCHANGED <<unseen, snapSync, needsRedraw, renderPc, screen, frame>> /\ Awake'
    BY <1>2 DEF StartTick, Awake, renderVars, emulatorVars
  <2> QED
    BY <2>1, QuietKeepsContent DEF OnShow, Unshown
\* The cascade publishes only when the layout was dirty and a size changed.
<1>3. CASE ApplyPendingMutations
  <2>1. UNCHANGED <<renderPc, screen, frame>> /\ Awake'
    BY <1>3 DEF ApplyPendingMutations, Awake, renderVars
  <2>2. CASE layoutDirty
    <3>1. needsRedraw'
      BY <1>3, <2>2 DEF ApplyPendingMutations
    <3> QED
      BY <2>1, <3>1, PublishingKeepsContent
  <2>3. CASE ~layoutDirty
    <3>1. Resized(live) = {}
      BY <2>3 DEF Resized, Cascade
    <3>2. unseen' = unseen /\ snapSync' = snapSync
      BY <1>3, <3>1 DEF ApplyPendingMutations, RunLayout, Publishes
    <3>3. needsRedraw => needsRedraw'
      BY <1>3 DEF ApplyPendingMutations
    <3> QED
      BY <2>1, <3>2, <3>3, QuietKeepsContent DEF OnShow, Unshown
  <2> QED
    BY <2>2, <2>3 DEF FrameTypes
<1>4. CASE CheckRedraw
  <2>1. UNCHANGED <<unseen, snapSync, needsRedraw, renderPc, screen, frame>>
    BY <1>4 DEF CheckRedraw, renderVars, emulatorVars
  <2>2. needsRedraw => Awake'
    BY <1>4 DEF CheckRedraw, Awake
  <2> QED
    BY <2>1, <2>2, QuietKeepsContent DEF OnShow, Unshown
<1> QED
  BY <1>1, <1>2, <1>3, <1>4

LEMMA RenderKeepsContent ==
    ASSUME ContentInv, FrameTypes, RenderStep \/ GpuDone
    PROVE  ContentInv'
<1>1. UNCHANGED <<snapSync, loopAwake, mainPc>> /\ (Awake => Awake')
  <2>1. NoSurface \/ OnlyRender
    BY DEF RenderStep, Woken, SnapshotUnderLock, Structure, LoadSnapshots, DrawTarget,
           Present, GpuDone
  <2> QED
    BY <2>1 DEF NoSurface, OnlyRender, Awake, tickVars, emulatorVars
<1>2. CASE Woken \/ NoSurface
  <2>1. /\ UNCHANGED <<unseen, screen>> /\ (needsRedraw => needsRedraw')
        /\ renderPc \in {"wait", "surface"} /\ renderPc' \in {"wait", "surface"}
    BY <1>2 DEF Woken, NoSurface, emulatorVars
  <2> QED
    BY <1>1, <2>1, QuietKeepsContent DEF OnShow, Unshown
<1>3. CASE SnapshotUnderLock
  <2>1. /\ UNCHANGED <<unseen, screen, needsRedraw>>
        /\ renderPc = "surface" /\ renderPc' = "structure"
    BY <1>3 DEF SnapshotUnderLock
  <2> QED
    BY <1>1, <2>1, QuietKeepsContent DEF OnShow, Unshown
\* needsRedraw_ is only taken back by a frame that goes on to load.
<1>4. CASE Structure
  <2>1. UNCHANGED <<unseen, screen>> /\ renderPc = "structure"
    BY <1>4 DEF Structure
  <2>2. CASE renderPc' = "load"
    BY <2>2 DEF ContentInv, OnShow
  <2>3. CASE renderPc' = "wait" /\ needsRedraw' = needsRedraw
    BY <1>1, <2>1, <2>3, QuietKeepsContent DEF OnShow, Unshown
  <2> QED
    BY <1>4, <2>2, <2>3 DEF Structure
\* What the frame shows and does not load is frozen.
<1>5. CASE LoadSnapshots
  <2>1. /\ renderPc' = "draw" /\ frame' = frame
        /\ \A k \in frame.keys : NeedsRender(k) => k \notin unseen'
    BY <1>5 DEF LoadSnapshots
  <2> QED
    BY <1>1, <2>1 DEF ContentInv, OnShow, Unshown, NeedsRender
<1>6. CASE DrawTarget
  <2>1. UNCHANGED <<unseen, needsRedraw, renderPc, frame, screen>>
    BY <1>6 DEF DrawTarget
  <2> QED
    BY <1>1, <2>1, QuietKeepsContent DEF OnShow, Unshown
<1>7. CASE Present
  <2>1. /\ UNCHANGED <<unseen, needsRedraw>> /\ screen' = frame.keys
        /\ renderPc = "draw" /\ renderPc' = "wait"
    BY <1>7 DEF Present
  <2> QED
    BY <1>1, <2>1, QuietKeepsContent DEF OnShow, Unshown
<1>8. CASE GpuDone
  <2>1. UNCHANGED <<unseen, needsRedraw, renderPc, frame, screen>>
    BY <1>8 DEF GpuDone, renderVars
  <2> QED
    BY <1>1, <2>1, QuietKeepsContent DEF OnShow, Unshown
<1> QED
  BY <1>2, <1>3, <1>4, <1>5, <1>6, <1>7, <1>8 DEF RenderStep

(* Output is on the screen when both threads rest, unless a synchronized   *)
(* update holds it back, wherever in a frame or a tick it arrived.         *)
THEOREM OutputIsShown == Spec => []RestShowsContent
<1> DEFINE Inv == FrameTypes /\ ContentInv
<1>1. Init => Inv
  BY InitTypes DEF Init, ContentInv, OnShow
<1>2. Inv /\ UNCHANGED vars => ContentInv'
  BY DEF ContentInv, OnShow, Unshown, Awake, vars, renderVars, emulatorVars, tickVars
<1>3. Inv /\ [Next]_vars => Inv'
  BY <1>2, TypesStep, HandlersKeepContent, TickKeepsContent, RenderKeepsContent DEF Next
<1>4. Inv => RestShowsContent
  BY DEF ContentInv, OnShow, Unshown, Awake, RestShowsContent, Resting
<1> QED
  BY <1>1, <1>3, <1>4, PTL DEF Spec

-----------------------------------------------------------------------------
(* Where a texture can be, and that it is in one place.                    *)
PoolTypes ==
    /\ bytes \in [Textures -> Nat] /\ free \in Seq(Textures)
    /\ staged \subseteq Textures /\ deferred \subseteq Textures
    /\ gpu \in Seq([uses : SUBSET (Textures \cup {NoTexture}), gives : SUBSET Textures])

\* The entries of the frame being drawn exist, and those drawn hold a texture.
Drawing ==
    /\ \A k \in Keys : ~entries[k].made => entries[k].held = NoTexture /\ entries[k].releases = {}
    /\ renderPc = "draw" =>
          /\ todo \subseteq frame.keys
          /\ \A k \in frame.keys : entries[k].made /\ (k \in todo \/ entries[k].held # NoTexture)

Owns(k, t) == t \in Textured(entries[k])

InFree(t) == \E i \in 1..Len(free) : free[i] = t
Owned(t)  == \E k \in Keys : Owns(k, t)
Given(t)  == \E i \in 1..Len(gpu) : t \in gpu[i].gives

\* In no place twice.
Once ==
    /\ \A i, j \in 1..Len(free) : free[i] = free[j] => i = j
    /\ \A k, l \in Keys, t \in Textures : Owns(k, t) /\ Owns(l, t) => k = l
    /\ \A k \in Keys : entries[k].held \notin entries[k].releases
    /\ \A i, j \in 1..Len(gpu), t \in Textures :
          t \in gpu[i].gives /\ t \in gpu[j].gives => i = j

\* Not in two places, and in none only when it does not exist.
Apart ==
    \A t \in Textures :
        /\ InFree(t) => ~Owned(t) /\ ~Given(t) /\ t \notin staged /\ t \notin deferred
        /\ Owned(t)  => ~Given(t) /\ t \notin staged /\ t \notin deferred
        /\ Given(t)  => t \notin staged /\ t \notin deferred
        /\ t \in staged => t \notin deferred

Kept ==
    \A t \in Textures :
        t \in All <=> InFree(t) \/ Owned(t) \/ Given(t) \/ t \in staged \/ t \in deferred

\* What a submitted frame reads comes back with a later one at the earliest.
Reading ==
    \A i \in 1..Len(gpu) : \A t \in gpu[i].uses :
        /\ t \in All /\ ~InFree(t) /\ t \notin deferred
        /\ \A j \in 1..i : t \notin gpu[j].gives

TextureInv == FrameTypes /\ PoolTypes /\ Drawing /\ Once /\ Apart /\ Kept /\ Reading

-----------------------------------------------------------------------------
(* The texture pool.                                                       *)
LEMMA TexturesFinite ==
    \A ts \in SUBSET Textures :
        IsFiniteSet(ts) /\ Cardinality(ts) \in Nat /\ (Cardinality(ts) = 0 <=> ts = {})
<1> SUFFICES ASSUME NEW ts \in SUBSET Textures
             PROVE  IsFiniteSet(ts) /\ Cardinality(ts) \in Nat /\ (Cardinality(ts) = 0 <=> ts = {})
  OBVIOUS
<1>1. IsFiniteSet(1..MaxTextures)
  BY PoolAssumption, FS_Interval
<1>2. IsFiniteSet(ts)
  BY <1>1, FS_Subset DEF Textures
<1> QED
  BY <1>2, FS_CardinalityType, FS_EmptySet

\* The ranks of a set are the numbers from 0 to its size - 1, each once.
LEMMA RankFacts ==
    ASSUME NEW ts \in SUBSET Textures
    PROVE  \A i \in 1..Cardinality(ts) : \E t \in ts : Rank(ts, t) = i - 1
<1>1. IsFiniteSet(ts) /\ Cardinality(ts) \in Nat /\ ts \subseteq Nat
  BY TexturesFinite, PoolAssumption DEF Textures
<1>2. ASSUME NEW t \in ts
      PROVE  Rank(ts, t) \in 0..(Cardinality(ts) - 1)
  <2>1. {u \in ts : u < t} \subseteq ts \ {t}
    BY <1>1
  <2>2. IsFiniteSet(ts \ {t}) /\ Cardinality(ts \ {t}) = Cardinality(ts) - 1
    BY <1>1, FS_RemoveElement
  <2>3. Cardinality({u \in ts : u < t}) <= Cardinality(ts \ {t})
    BY <2>1, <2>2, FS_Subset
  <2>4. Cardinality({u \in ts : u < t}) \in Nat
    BY <2>1, TexturesFinite
  <2> QED
    BY <1>1, <2>2, <2>3, <2>4 DEF Rank
<1>3. ASSUME NEW t \in ts, NEW v \in ts, t < v PROVE Rank(ts, t) # Rank(ts, v)
  <2>1. {u \in ts : u < t} \subseteq {u \in ts : u < v} /\ t \in {u \in ts : u < v}
        /\ t \notin {u \in ts : u < t} /\ {u \in ts : u < v} \in SUBSET Textures
    BY <1>1, <1>3, OrderedPair
  <2>2. Cardinality({u \in ts : u < t}) # Cardinality({u \in ts : u < v})
    BY <2>1, TexturesFinite, FS_Subset
  <2> QED
    BY <2>2 DEF Rank
<1> DEFINE rank == [t \in ts |-> Rank(ts, t) + 1]
<1>4. rank \in Injection(ts, 1..Cardinality(ts))
  <2>1. rank \in [ts -> 1..Cardinality(ts)]
    BY <1>1, <1>2
  <2>2. ASSUME NEW t \in ts, NEW v \in ts, rank[t] = rank[v] PROVE t = v
    <3>1. Rank(ts, t) = Rank(ts, v)
      BY <1>2, <2>2
    <3> QED
      BY <1>1, <1>3, <3>1
  <2> QED
    BY <2>1, <2>2 DEF Injection, IsInjective
<1>5. IsFiniteSet(1..Cardinality(ts)) /\ Cardinality(1..Cardinality(ts)) = Cardinality(ts)
  BY <1>1, FS_Interval
<1>6. rank \in Surjection(ts, 1..Cardinality(ts))
  BY <1>1, <1>4, <1>5, FS_Injection
<1>7. ASSUME NEW i \in 1..Cardinality(ts) PROVE \E t \in ts : Rank(ts, t) = i - 1
  <2>1. PICK t \in ts : rank[t] = i
    BY <1>6 DEF Surjection
  <2>2. Rank(ts, t) + 1 = i /\ Rank(ts, t) \in Int
    BY <1>2, <2>1
  <2> QED
    BY <2>2
<1> QED
  BY <1>7

LEMMA InOrderFacts ==
    ASSUME NEW ts \in SUBSET Textures
    PROVE  /\ InOrder(ts) \in Seq(Textures) /\ Len(InOrder(ts)) = Cardinality(ts)
           /\ \A i, j \in 1..Len(InOrder(ts)) : InOrder(ts)[i] = InOrder(ts)[j] => i = j
           /\ \A t \in Textures : t \in ts <=> \E i \in 1..Len(InOrder(ts)) : InOrder(ts)[i] = t
<1> DEFINE n == Cardinality(ts)
           s == InOrder(ts)
<1>1. IsFiniteSet(ts) /\ n \in Nat
  BY TexturesFinite
<1>2. \A i \in 1..n : s[i] \in ts /\ Rank(ts, s[i]) = i - 1
  BY RankFacts DEF InOrder
<1>3. s \in [1..n -> ts]
  BY <1>2 DEF InOrder
<1>4. s \in Seq(Textures) /\ Len(s) = n
  BY <1>1, <1>3
<1>5. \A i, j \in 1..n : s[i] = s[j] => i = j
  BY <1>1, <1>2
<1>6. s \in Injection(1..n, ts)
  BY <1>3, <1>5 DEF Injection, IsInjective
<1>7. IsFiniteSet(1..n) /\ Cardinality(1..n) = n
  BY <1>1, FS_Interval
<1>8. s \in Surjection(1..n, ts)
  BY <1>1, <1>6, <1>7, FS_Injection
<1>9. \A t \in Textures : t \in ts <=> \E i \in 1..n : s[i] = t
  BY <1>3, <1>8 DEF Surjection
<1> QED
  BY <1>4, <1>5, <1>9

LEMMA BestFacts ==
    ASSUME PoolTypes, NEW w \in Nat, Fits(w) # {}
    PROVE  Best(w) \in Fits(w)
<1>1. free \in [1..Len(free) -> Textures] /\ Len(free) \in Nat
  BY DEF PoolTypes
<1>2. Fits(w) \subseteq 1..Len(free) /\ \A i \in Fits(w) : bytes[free[i]] \in Nat
  BY <1>1 DEF Fits, PoolTypes
<1> DEFINE B == {bytes[free[i]] : i \in Fits(w)}
<1>3. PICK b \in B : \A c \in B : b <= c
  <2>1. B \in SUBSET Nat /\ B # {}
    BY <1>2
  <2> HIDE DEF B
  <2> QED
    BY <2>1, Smallest
<1> DEFINE I == {i \in Fits(w) : bytes[free[i]] = b}
<1>4. I # {} /\ I \subseteq Nat
  BY <1>1, <1>2
<1>5. PICK i \in I : \A j \in I : i <= j
  <2> HIDE DEF I
  <2> QED
    BY <1>4, Smallest
<1>6. \A j \in Fits(w) : \/ bytes[free[i]] < bytes[free[j]]
                         \/ bytes[free[i]] = bytes[free[j]] /\ i <= j
  <2> SUFFICES ASSUME NEW j \in Fits(w)
               PROVE  \/ bytes[free[i]] < bytes[free[j]]
                      \/ bytes[free[i]] = bytes[free[j]] /\ i <= j
    OBVIOUS
  <2>1. bytes[free[i]] = b /\ b <= bytes[free[j]]
    BY <1>3
  <2>2. bytes[free[j]] = b => i <= j
    BY <1>5
  <2> QED
    BY <1>2, <2>1, <2>2
<1> QED
  BY <1>6 DEF Best

\* acquire() takes a texture off the free list, or makes one.
LEMMA AcquireFacts ==
    ASSUME PoolTypes, NEW w \in Nat \ {0}, NEW t \in Textures, Acquire(w, t),
           \A i, j \in 1..Len(free) : free[i] = free[j] => i = j,
           \A u \in Textures : InFree(u) => u \in All
    PROVE  /\ bytes' \in [Textures -> Nat] /\ free' \in Seq(Textures)
           /\ \A i, j \in 1..Len(free') : free'[i] = free'[j] => i = j
           /\ \A u : InFree(u)' <=> InFree(u) /\ u # t
           /\ InFree(t) \/ t \notin All
           /\ InFree(t) => All' = All
           /\ ~InFree(t) => All' = All \cup {t}
<1>1. /\ bytes \in [Textures -> Nat] /\ free \in Seq(Textures) /\ Len(free) \in Nat
      /\ \A i \in 1..Len(free) : free[i] \in Textures
  BY DEF PoolTypes
<1>2. CASE Fits(w) # {}
  <2>1. PICK i \in 1..Len(free) :
           t = free[i] /\ free' = RemoveAt(free, i) /\ bytes' = bytes
    BY <1>1, <1>2, BestFacts DEF Acquire, Fits
  <2>2. /\ free' \in Seq(Textures)
        /\ \A j, l \in 1..Len(free') : free'[j] = free'[l] => j = l
        /\ \A u : InFree(u)' <=> InFree(u) /\ u # t
    <3>1. /\ free' \in Seq(Textures)
          /\ \A j, l \in 1..Len(free') : free'[j] = free'[l] => j = l
          /\ \A u : (\E j \in 1..Len(free') : free'[j] = u)
                       <=> (\E j \in 1..Len(free) : free[j] = u) /\ u # free[i]
      <4> DEFINE r == RemoveAt(free, i)
      <4>1. /\ r \in Seq(Textures)
            /\ \A j, l \in 1..Len(r) : r[j] = r[l] => j = l
            /\ \A u : (\E j \in 1..Len(r) : r[j] = u)
                         <=> (\E j \in 1..Len(free) : free[j] = u) /\ u # free[i]
        BY <1>1, RemoveAtMembers
      <4>2. free' = r
        BY <2>1
      <4> HIDE DEF r
      <4> QED
        BY <4>1, <4>2
    <3> QED
      BY <2>1, <3>1 DEF InFree
  <2>5. InFree(t) /\ All' = All
    BY <2>1 DEF InFree, All
  <2> QED
    BY <1>1, <2>1, <2>2, <2>5
<1>3. CASE Fits(w) = {}
  <2>1. /\ All # Textures /\ t = Min(Textures \ All)
        /\ bytes' = [bytes EXCEPT ![t] = w] /\ free' = free
    BY <1>3 DEF Acquire
  <2>2. t \notin All
    <3>1. Textures \ All # {} /\ Textures \ All \in SUBSET Nat
      BY <2>1, PoolAssumption DEF All, Textures
    <3> QED
      BY <2>1, <3>1, MinFacts
  <2>3. All' = All \cup {t}
    <3>1. \A u \in Textures : bytes'[u] = IF u = t THEN w ELSE bytes[u]
      BY <1>1, <2>1
    <3>2. w > 0
      OBVIOUS
    <3> QED
      BY <3>1, <3>2 DEF All
  <2>4. bytes' \in [Textures -> Nat]
    BY <1>1, <2>1
  <2>5. ~InFree(t) /\ \A u : InFree(u)' <=> InFree(u) /\ u # t
    <3>1. ~InFree(t)
      BY <2>2
    <3> QED
      BY <2>1, <3>1 DEF InFree
  <2>6. free' \in Seq(Textures) /\ \A i, j \in 1..Len(free') : free'[i] = free'[j] => i = j
    BY <1>1, <2>1
  <2> QED
    BY <2>2, <2>3, <2>4, <2>5, <2>6
<1> QED
  BY <1>2, <1>3

\* evictToLimit() leaves a suffix of the list and deletes the rest of it.
LEMMA EvictFacts ==
    ASSUME PoolTypes, NEW s \in Seq(Textures), NEW total, EvictToLimit(s, total),
           \A i, j \in 1..Len(s) : s[i] = s[j] => i = j
    PROVE  /\ bytes' \in [Textures -> Nat] /\ free' \in Seq(Textures)
           /\ \A i, j \in 1..Len(free') : free'[i] = free'[j] => i = j
           /\ \A u : InFree(u)' => \E i \in 1..Len(s) : s[i] = u
           /\ \A u \in Textures :
                 u \in All' <=> u \in All /\ ((\E i \in 1..Len(s) : s[i] = u) => InFree(u)')
<1> DEFINE Within(i) == total - BytesOf(SubSeq(s, 1, i)) <= ByteLimit
           ns == {i \in 0..Len(s) : Within(i) \/ i = Len(s)}
<1>1. PICK n \in 0..Len(s) :
         /\ free' = SubSeq(s, n + 1, Len(s))
         /\ bytes' = [t \in Textures |-> IF \E i \in 1..n : s[i] = t THEN 0 ELSE bytes[t]]
  <2>1. Len(s) \in ns /\ ns \in SUBSET Nat
    OBVIOUS
  <2>2. Min(ns) \in ns
    <3> HIDE DEF ns
    <3> QED
      BY <2>1, MinFacts
  <2>3. /\ free' = SubSeq(s, Min(ns) + 1, Len(s))
        /\ bytes' = [t \in Textures |-> IF \E i \in 1..Min(ns) : s[i] = t THEN 0 ELSE bytes[t]]
    BY DEF EvictToLimit
  <2>4. Min(ns) \in 0..Len(s)
    <3> HIDE DEF Within
    <3> QED
      BY <2>2
  <2> HIDE DEF ns
  <2> QED
    BY <2>3, <2>4
<1>2. /\ Len(s) \in Nat /\ n \in Nat /\ n <= Len(s)
      /\ free' \in Seq(Textures) /\ Len(free') = Len(s) - n
      /\ \A j \in 1..Len(free') : free'[j] = s[n + j]
  <2>1. n + 1 \in 1..(Len(s) + 1) /\ Len(s) \in (n + 1 - 1)..Len(s) /\ Len(s) \in Nat
    OBVIOUS
  <2>2. /\ free' \in Seq(Textures) /\ Len(free') = Len(s) - (n + 1) + 1
        /\ \A j \in 1..(Len(s) - (n + 1) + 1) : free'[j] = s[n + 1 + j - 1]
    BY <1>1, <2>1, SubSeqFacts
  <2>3. Len(s) - (n + 1) + 1 = Len(s) - n /\ \A j \in Nat : n + 1 + j - 1 = n + j
    BY <2>1
  <2> QED
    BY <2>1, <2>2, <2>3
<1> DEFINE InList(u) == \E i \in 1..Len(s) : s[i] = u
           Evicted(u) == \E i \in 1..n : s[i] = u
<1>3. \A i, j \in 1..Len(free') : free'[i] = free'[j] => i = j
  <2> SUFFICES ASSUME NEW i \in 1..Len(free'), NEW j \in 1..Len(free'), free'[i] = free'[j]
               PROVE  i = j
    OBVIOUS
  <2>1. n + i \in 1..Len(s) /\ n + j \in 1..Len(s)
    BY <1>2
  <2>2. s[n + i] = s[n + j]
    BY <1>2
  <2>3. n + i = n + j
    <3> DEFINE x == n + i
               y == n + j
    <3>1. x \in 1..Len(s) /\ y \in 1..Len(s) /\ s[x] = s[y]
      BY <2>1, <2>2
    <3> HIDE DEF x, y
    <3>2. x = y
      BY <3>1
    <3> QED
      BY <3>2 DEF x, y
  <2> QED
    BY <1>2, <2>3
<1>4. ASSUME NEW u PROVE InFree(u)' <=> InList(u) /\ ~Evicted(u)
  <2>1. ASSUME NEW j \in 1..Len(free'), free'[j] = u PROVE InList(u) /\ ~Evicted(u)
    <3>1. n + j \in 1..Len(s) /\ s[n + j] = u
      BY <1>2, <2>1
    <3>2. \A i \in 1..n : i \in 1..Len(s) /\ i # n + j
      BY <1>2
    <3> QED
      BY <3>1, <3>2
  <2>2. ASSUME NEW i \in 1..Len(s), s[i] = u, ~Evicted(u) PROVE InFree(u)'
    <3>1. i - n \in 1..Len(free') /\ n + (i - n) = i
      BY <1>2, <2>2
    <3>2. free'[i - n] = u
      BY <1>2, <2>2, <3>1
    <3> QED
      BY <3>1, <3>2 DEF InFree
  <2> QED
    BY <2>1, <2>2 DEF InFree
<1>5. ASSUME NEW u \in Textures PROVE u \in All' <=> u \in All /\ ~Evicted(u)
  <2>1. bytes'[u] = IF Evicted(u) THEN 0 ELSE bytes[u]
    BY <1>1
  <2>2. bytes[u] \in Nat
    BY DEF PoolTypes
  <2> QED
    BY <2>1, <2>2 DEF All
<1>6. bytes' \in [Textures -> Nat]
  BY <1>1 DEF PoolTypes
<1>7. ASSUME NEW u PROVE Evicted(u) => InList(u)
  BY <1>2
<1> HIDE DEF Evicted
<1> QED
  BY <1>2, <1>3, <1>4, <1>5, <1>6, <1>7

\* The free list, followed by what the GPU handed back.
LEMMA ReleaseFacts ==
    ASSUME TextureInv, ReleaseEach(InOrder(deferred))
    PROVE  /\ bytes' \in [Textures -> Nat] /\ free' \in Seq(Textures)
           /\ \A i, j \in 1..Len(free') : free'[i] = free'[j] => i = j
           /\ \A u \in Textures :
                 /\ InFree(u)' => InFree(u) \/ u \in deferred
                 /\ u \in All' <=> u \in All /\ (InFree(u) \/ u \in deferred => InFree(u)')
<1> DEFINE d == InOrder(deferred)
           s == free \o d
<1>1. /\ d \in Seq(Textures) /\ free \in Seq(Textures)
      /\ \A i, j \in 1..Len(d) : d[i] = d[j] => i = j
      /\ \A i, j \in 1..Len(free) : free[i] = free[j] => i = j
      /\ \A t \in Textures : t \in deferred <=> \E i \in 1..Len(d) : d[i] = t
      /\ \A t \in Textures : InFree(t) => t \notin deferred
  BY InOrderFacts DEF TextureInv, PoolTypes, Once, Apart
<1> HIDE DEF d
<1>2. /\ s \in Seq(Textures) /\ Len(s) = Len(free) + Len(d)
      /\ Len(free) \in Nat /\ Len(d) \in Nat
      /\ \A i \in 1..Len(free) : s[i] = free[i]
      /\ \A i \in 1..(Len(free) + Len(d)) : i > Len(free) => s[i] = d[i - Len(free)]
  BY <1>1, ConcatFacts
<1>3. ASSUME NEW u \in Textures
      PROVE  (\E i \in 1..Len(s) : s[i] = u) <=> InFree(u) \/ u \in deferred
  <2>1. InFree(u) => \E i \in 1..Len(s) : s[i] = u
    BY <1>2 DEF InFree
  <2>2. ASSUME NEW i \in 1..Len(d), d[i] = u PROVE \E l \in 1..Len(s) : s[l] = u
    <3>1. Len(free) + i \in 1..Len(s) /\ Len(free) + i > Len(free)
          /\ (Len(free) + i) - Len(free) = i
      BY <1>2
    <3> HIDE DEF s
    <3> QED
      BY <1>2, <2>2, <3>1
  <2>3. ASSUME NEW i \in 1..Len(s), s[i] = u PROVE InFree(u) \/ u \in deferred
    <3>1. CASE i <= Len(free)
      BY <1>2, <2>3, <3>1 DEF InFree
    <3>2. CASE i > Len(free)
      <4>1. i - Len(free) \in 1..Len(d) /\ d[i - Len(free)] = u
        BY <1>2, <2>3, <3>2
      <4> QED
        BY <1>1, <4>1
    <3> QED
      BY <1>2, <3>1, <3>2
  <2> QED
    BY <1>1, <2>1, <2>2, <2>3
<1>4. ASSUME NEW i \in 1..Len(s), NEW j \in 1..Len(s), s[i] = s[j] PROVE i = j
  <2>1. ASSUME NEW k \in 1..Len(s)
        PROVE  \/ k <= Len(free) /\ k \in 1..Len(free) /\ s[k] = free[k] /\ InFree(s[k])
               \/ /\ k > Len(free) /\ k - Len(free) \in 1..Len(d)
                  /\ s[k] = d[k - Len(free)] /\ s[k] \in deferred
    <3>1. CASE k <= Len(free)
      BY <1>2, <3>1 DEF InFree
    <3>2. CASE k > Len(free)
      <4>1. k - Len(free) \in 1..Len(d) /\ s[k] = d[k - Len(free)] /\ s[k] \in Textures
        BY <1>2, <3>2
      <4> QED
        BY <1>1, <3>2, <4>1
    <3> QED
      BY <1>2, <3>1, <3>2
  <2>2. s[i] \in Textures
    BY <1>2
  <2>3. CASE i <= Len(free) /\ j <= Len(free)
    BY <1>1, <1>4, <2>1, <2>3
  <2>4. CASE i > Len(free) /\ j > Len(free)
    <3>1. i - Len(free) = j - Len(free)
      BY <1>1, <1>4, <2>1, <2>4
    <3> QED
      BY <1>2, <3>1
  <2>5. CASE i <= Len(free) /\ j > Len(free)
    <3>1. InFree(s[i]) /\ s[i] \in deferred
      BY <1>4, <2>1, <2>5
    <3> QED
      BY <1>1, <2>2, <3>1
  <2>6. CASE i > Len(free) /\ j <= Len(free)
    <3>1. InFree(s[i]) /\ s[i] \in deferred
      BY <1>4, <2>1, <2>6
    <3> QED
      BY <1>1, <2>2, <3>1
  <2>7. i \in Nat /\ j \in Nat /\ Len(free) \in Nat
    BY <1>2
  <2> QED
    BY <2>3, <2>4, <2>5, <2>6, <2>7
<1>5. EvictToLimit(s, freeBytes + BytesOf(d))
  BY DEF ReleaseEach, d
<1> HIDE DEF s
<1>6. /\ bytes' \in [Textures -> Nat] /\ free' \in Seq(Textures)
      /\ \A i, j \in 1..Len(free') : free'[i] = free'[j] => i = j
      /\ \A u : InFree(u)' => \E i \in 1..Len(s) : s[i] = u
      /\ \A u \in Textures :
            u \in All' <=> u \in All /\ ((\E i \in 1..Len(s) : s[i] = u) => InFree(u)')
  <2>1. PoolTypes /\ s \in Seq(Textures)
    BY <1>2 DEF TextureInv
  <2> DEFINE total == freeBytes + BytesOf(d)
  <2>2. EvictToLimit(s, total)
    BY <1>5
  <2>3. \A i, j \in 1..Len(s) : s[i] = s[j] => i = j
    BY <1>4
  <2> HIDE DEF total
  <2> QED
    BY <2>1, <2>2, <2>3, EvictFacts
<1> QED
  BY <1>3, <1>6

-----------------------------------------------------------------------------
(* Steps that move no texture.                                             *)
Stock == <<entries, staged, gpu, deferred, bytes, free>>

LEMMA QuietKeepsTextures ==
    ASSUME TextureInv, FrameTypes', UNCHANGED Stock,
           renderPc' # "draw" \/ UNCHANGED <<renderPc, frame, todo>>
    PROVE  TextureInv'
<1>1. PoolTypes'
  BY DEF TextureInv, PoolTypes, Stock
<1>2. Drawing'
  BY DEF TextureInv, Drawing, Stock
<1>3. /\ \A k, t : Owns(k, t)' <=> Owns(k, t)
      /\ \A t : InFree(t)' <=> InFree(t)
      /\ \A t : Given(t)' <=> Given(t)
      /\ All' = All
  BY DEF Owns, InFree, Given, All, Stock, Textured
<1>4. \A t : Owned(t)' <=> Owned(t)
  BY <1>3 DEF Owned
<1>5. Once'
  BY <1>3 DEF TextureInv, Once, Stock
<1>6. Apart' /\ Kept' /\ Reading'
  BY <1>3, <1>4 DEF TextureInv, Apart, Kept, Reading, Stock
<1> QED
  BY <1>1, <1>2, <1>5, <1>6 DEF TextureInv

\* Textures leave the entries of what is destroyed, and wait in staged.
LEMMA StructureKeepsTextures ==
    ASSUME TextureInv, FrameTypes', Structure
    PROVE  TextureInv'
<1> DEFINE dead == WithPopups(frame.destroyed)
           made == [k \in Keys |-> IF k \in frame.keys \cap Panes /\ ~entries[k].made
                                   THEN NewEntry ELSE entries[k]]
           kept == [k \in Keys |-> IF k \in Dropped(frame) /\ made[k].made
                                   THEN DropHeldTexture(made[k]) ELSE made[k]]
<1>1. /\ staged' = staged \cup UNION {Textured(kept[k]) : k \in dead}
      /\ entries' = [k \in Keys |-> IF k \in dead THEN NoEntry ELSE kept[k]]
      /\ UNCHANGED <<gpu, deferred, bytes, free>> /\ renderPc' # "draw"
  BY DEF Structure, gpuVars, poolVars
<1>2. entries \in [Keys -> Entries] /\ dead \subseteq Keys
  BY DEF TextureInv, FrameTypes, WithPopups, States
<1> HIDE DEF dead
<1>3. ASSUME NEW k \in Keys
      PROVE  /\ Textured(kept[k]) = Textured(entries[k])
             /\ kept[k].held \notin kept[k].releases
             /\ ~kept[k].made => kept[k].held = NoTexture /\ kept[k].releases = {}
  <2>1. entries[k] \in Entries /\ entries[k].held \notin entries[k].releases
        /\ (~entries[k].made => entries[k].held = NoTexture /\ entries[k].releases = {})
    BY <1>2 DEF TextureInv, Once, Drawing
  <2>2. /\ Textured(made[k]) = Textured(entries[k]) /\ made[k] \in Entries
        /\ made[k].held \notin made[k].releases
        /\ ~made[k].made => made[k].held = NoTexture /\ made[k].releases = {}
    BY <2>1 DEF Textured, NewEntry, NoEntry, NoTexture, Entries
  <2> HIDE DEF made
  <2>3. \A e \in Entries : /\ Textured(DropHeldTexture(e)) = Textured(e)
                           /\ DropHeldTexture(e).held = NoTexture
                           /\ DropHeldTexture(e).made = e.made
                           /\ NoTexture \notin DropHeldTexture(e).releases
    BY DEF DropHeldTexture, Textured, Entries, NoTexture, Textures
  <2> QED
    BY <2>2, <2>3
<1> HIDE DEF kept
<1>4. /\ \A k \in Keys : \A t : Owns(k, t)' <=> Owns(k, t) /\ k \notin dead
      /\ \A k \in Keys : entries'[k].held \notin entries'[k].releases
      /\ \A k \in Keys : ~entries'[k].made => entries'[k].held = NoTexture
                                              /\ entries'[k].releases = {}
  <2>1. NoEntry.held = NoTexture /\ NoEntry.releases = {} /\ Textured(NoEntry) = {}
    BY DEF NoEntry, NoTexture, Textured
  <2>2. \A k \in Keys : \A t : Owns(k, t)' <=> Owns(k, t) /\ k \notin dead
    <3> SUFFICES ASSUME NEW k \in Keys, NEW t
                 PROVE  Owns(k, t)' <=> Owns(k, t) /\ k \notin dead
      OBVIOUS
    <3>1. Textured(entries[k])' = IF k \in dead THEN {} ELSE Textured(entries[k])
      <4>1. Textured(entries[k])' = Textured(entries'[k])
        BY DEF Textured
      <4> QED
        BY <1>1, <1>3, <2>1, <4>1
    <3> QED
      BY <3>1 DEF Owns
  <2> QED
    BY <1>1, <1>3, <2>1, <2>2
<1>5. \A t : t \in staged' <=> t \in staged \/ \E k \in dead : Owns(k, t)
  BY <1>1, <1>2, <1>3 DEF Owns
<1>6. /\ \A t : InFree(t)' <=> InFree(t)
      /\ \A t : Given(t)' <=> Given(t)
      /\ All' = All
  BY <1>1 DEF InFree, Given, All
<1>7. \A t : Owned(t)' <=> \E k \in Keys \ dead : Owns(k, t)
  BY <1>4 DEF Owned
<1>8. PoolTypes'
  <2>1. staged' \subseteq Textures
    <3>1. \A k \in Keys : \A t : Owns(k, t) => t \in Textures
      BY <1>2, EntryType DEF Owns
    <3> QED
      BY <1>2, <1>5, <3>1 DEF TextureInv, PoolTypes
  <2> QED
    BY <1>1, <2>1 DEF TextureInv, PoolTypes
<1>9. Drawing'
  BY <1>1, <1>4 DEF Drawing
<1>10. Once'
  <2>1. Once
    BY DEF TextureInv
  <2> QED
    BY <1>1, <1>4, <2>1 DEF Once
<1>11. Apart'
  <2> SUFFICES ASSUME NEW t \in Textures
               PROVE  /\ InFree(t)' => ~Owned(t)' /\ ~Given(t)' /\ t \notin staged' /\ t \notin deferred'
                      /\ Owned(t)'  => ~Given(t)' /\ t \notin staged' /\ t \notin deferred'
                      /\ Given(t)'  => t \notin staged' /\ t \notin deferred'
                      /\ t \in staged' => t \notin deferred'
    BY DEF Apart
  <2>1. /\ InFree(t) => ~Owned(t) /\ ~Given(t) /\ t \notin staged /\ t \notin deferred
        /\ Owned(t)  => ~Given(t) /\ t \notin staged /\ t \notin deferred
        /\ Given(t)  => t \notin staged /\ t \notin deferred
        /\ t \in staged => t \notin deferred
    BY DEF TextureInv, Apart
  <2>2. Owned(t)' => Owned(t) /\ ~\E k \in dead : Owns(k, t)
    BY <1>2, <1>7 DEF Owned, TextureInv, Once
  <2>3. t \in staged' => t \in staged \/ Owned(t)
    BY <1>2, <1>5 DEF Owned
  <2> QED
    BY <1>1, <1>5, <1>6, <2>1, <2>2, <2>3
<1>12. Kept'
  BY <1>1, <1>2, <1>5, <1>6, <1>7 DEF TextureInv, Kept, Owned
<1>13. Reading'
  BY <1>1, <1>6 DEF TextureInv, Reading
<1> QED
  BY <1>8, <1>9, <1>10, <1>11, <1>12, <1>13 DEF TextureInv

\* What the GPU handed back joins the free list, which may be cut short.
LEMMA LoadKeepsTextures ==
    ASSUME TextureInv, FrameTypes', LoadSnapshots
    PROVE  TextureInv'
<1>1. /\ ReleaseEach(InOrder(deferred)) /\ deferred' = {}
      /\ todo' = {k \in frame.keys : NeedsRender(k)}
      /\ entries' = [k \in Keys |-> IF k \in frame.keys /\ ~entries[k].made
                                    THEN NewEntry ELSE entries[k]]
      /\ UNCHANGED <<frame, staged, gpu>>
  BY DEF LoadSnapshots
<1>2. entries \in [Keys -> Entries] /\ frame.keys \subseteq Keys
  BY DEF TextureInv, FrameTypes, States
<1>3. /\ bytes' \in [Textures -> Nat] /\ free' \in Seq(Textures)
      /\ \A i, j \in 1..Len(free') : free'[i] = free'[j] => i = j
      /\ \A u \in Textures :
            /\ InFree(u)' => InFree(u) \/ u \in deferred
            /\ u \in All' <=> u \in All /\ (InFree(u) \/ u \in deferred => InFree(u)')
  BY <1>1, ReleaseFacts
<1>4. ASSUME NEW k \in Keys
      PROVE  /\ Textured(entries'[k]) = Textured(entries[k])
             /\ entries'[k].held = entries[k].held
             /\ entries'[k].releases = entries[k].releases
             /\ entries[k].made => entries'[k].made
             /\ k \in frame.keys => entries'[k].made
  <2>1. ~entries[k].made => entries[k].held = NoTexture /\ entries[k].releases = {}
    BY DEF TextureInv, Drawing
  <2>2. NewEntry.held = NoTexture /\ NewEntry.releases = {} /\ NewEntry.made
    BY DEF NewEntry, NoEntry, NoTexture
  <2> QED
    BY <1>1, <2>1, <2>2 DEF Textured
<1>5. \A k \in Keys : \A t : Owns(k, t)' <=> Owns(k, t)
  <2> SUFFICES ASSUME NEW k \in Keys, NEW t PROVE Owns(k, t)' <=> Owns(k, t)
    OBVIOUS
  <2>1. Textured(entries[k])' = Textured(entries'[k])
    BY DEF Textured
  <2> QED
    BY <1>4, <2>1 DEF Owns
<1>6. /\ \A t : Given(t)' <=> Given(t)
      /\ \A t : Owned(t)' <=> Owned(t)
  BY <1>1, <1>5 DEF Given, Owned
<1>7. PoolTypes'
  BY <1>1, <1>3 DEF TextureInv, PoolTypes
<1>8. Drawing'
  <2>1. \A k \in Keys : ~entries'[k].made => entries'[k].held = NoTexture /\ entries'[k].releases = {}
    BY <1>4 DEF TextureInv, Drawing
  <2>2. todo' \subseteq frame'.keys
    BY <1>1
  <2>3. \A k \in frame'.keys : entries'[k].made /\ (k \in todo' \/ entries'[k].held # NoTexture)
    BY <1>1, <1>2, <1>4 DEF NeedsRender
  <2> QED
    BY <2>1, <2>2, <2>3 DEF Drawing
<1>9. Once'
  BY <1>1, <1>3, <1>4, <1>5 DEF TextureInv, Once
<1>10. Apart'
  <2> SUFFICES ASSUME NEW t \in Textures
               PROVE  /\ InFree(t)' => ~Owned(t)' /\ ~Given(t)' /\ t \notin staged' /\ t \notin deferred'
                      /\ Owned(t)'  => ~Given(t)' /\ t \notin staged' /\ t \notin deferred'
                      /\ Given(t)'  => t \notin staged' /\ t \notin deferred'
                      /\ t \in staged' => t \notin deferred'
    BY DEF Apart
  <2> QED
    BY <1>1, <1>3, <1>6 DEF TextureInv, Apart
<1>11. Kept'
  <2> SUFFICES ASSUME NEW t \in Textures
               PROVE  t \in All' <=> \/ InFree(t)' \/ Owned(t)' \/ Given(t)'
                                     \/ t \in staged' \/ t \in deferred'
    BY DEF Kept
  <2>1. t \in All <=> InFree(t) \/ Owned(t) \/ Given(t) \/ t \in staged \/ t \in deferred
    BY DEF TextureInv, Kept
  <2>2. /\ InFree(t) => ~Owned(t) /\ ~Given(t) /\ t \notin staged
        /\ t \in deferred => ~Owned(t) /\ ~Given(t) /\ t \notin staged
    BY DEF TextureInv, Apart
  <2> QED
    BY <1>1, <1>3, <1>6, <2>1, <2>2
<1>12. Reading'
  <2> SUFFICES ASSUME NEW i \in 1..Len(gpu), NEW t \in gpu[i].uses
               PROVE  /\ t \in All' /\ ~InFree(t)' /\ t \notin deferred'
                      /\ \A j \in 1..i : t \notin gpu[j].gives
    BY <1>1 DEF Reading
  <2>1. /\ t \in All /\ ~InFree(t) /\ t \notin deferred
        /\ \A j \in 1..i : t \notin gpu[j].gives
    BY DEF TextureInv, Reading
  <2>2. t \in Textures
    BY <2>1 DEF All
  <2> QED
    BY <1>1, <1>3, <2>1, <2>2
<1> QED
  BY <1>7, <1>8, <1>9, <1>10, <1>11, <1>12 DEF TextureInv

\* The texture a target is drawn into was free, or is new.
LEMMA DrawKeepsTextures ==
    ASSUME TextureInv, FrameTypes', DrawTarget
    PROVE  TextureInv'
<1>1. PICK kk \in todo : kk = NextTarget
  BY DEF DrawTarget, NextTarget
<1>2. renderPc = "draw" /\ todo' = todo \ {kk} /\ UNCHANGED <<renderPc, frame, staged, gpu, deferred>>
  BY <1>1 DEF DrawTarget, gpuVars
<1>3. entries \in [Keys -> Entries] /\ kk \in frame.keys /\ kk \in Keys
      /\ frame.width[kk] \in Nat \ {0} /\ entries[kk].made
  <2>1. entries \in [Keys -> Entries] /\ frame \in States /\ kk \in frame.keys /\ entries[kk].made
    BY <1>1, <1>2 DEF TextureInv, FrameTypes, Drawing
  <2> QED
    BY <2>1 DEF States
<1>4. PICK t \in Textures :
         /\ Acquire(frame.width[kk], t)
         /\ entries' = [entries EXCEPT
                ![kk] = [@ EXCEPT !.releases = Textured(entries[kk]),
                                  !.held = t, !.drawnFor = frame.width[kk]]]
  BY <1>1 DEF DrawTarget
<1> DEFINE w == frame.width[kk]
<1>5. /\ bytes' \in [Textures -> Nat] /\ free' \in Seq(Textures)
      /\ \A i, j \in 1..Len(free') : free'[i] = free'[j] => i = j
      /\ \A u : InFree(u)' <=> InFree(u) /\ u # t
      /\ InFree(t) \/ t \notin All
      /\ InFree(t) => All' = All
      /\ ~InFree(t) => All' = All \cup {t}
  <2>1. PoolTypes /\ Acquire(w, t) /\ w \in Nat \ {0}
        /\ \A i, j \in 1..Len(free) : free[i] = free[j] => i = j
    BY <1>3, <1>4 DEF TextureInv, Once
  <2>2. \A u \in Textures : InFree(u) => u \in All
    BY DEF TextureInv, Kept
  <2> HIDE DEF w
  <2> QED
    BY <2>1, <2>2, AcquireFacts
<1> HIDE DEF w
<1>6. /\ entries'[kk].held = t /\ entries'[kk].releases = Textured(entries[kk])
      /\ entries'[kk].made
      /\ \A k \in Keys : k # kk => entries'[k] = entries[k]
  BY <1>3, <1>4 DEF Entries
<1>7. \A k \in Keys, u \in Textures : Owns(k, u)' <=> Owns(k, u) \/ (k = kk /\ u = t)
  <2> SUFFICES ASSUME NEW k \in Keys, NEW u \in Textures
               PROVE  Owns(k, u)' <=> Owns(k, u) \/ (k = kk /\ u = t)
    OBVIOUS
  <2>1. CASE k = kk
    <3>1. Textured(entries[kk])' = Textured(entries[kk]) \cup ({t} \ {NoTexture})
      <4>1. Textured(entries[kk])' = entries'[kk].releases \cup ({entries'[kk].held} \ {NoTexture})
        BY DEF Textured
      <4> QED
        BY <1>6, <4>1
    <3>2. t # NoTexture
      BY DEF Textures, NoTexture
    <3>3. Owns(kk, u)' <=> u \in Textured(entries[kk])'
      BY DEF Owns
    <3> QED
      BY <2>1, <3>1, <3>2, <3>3 DEF Owns
  <2>2. CASE k # kk
    <3>1. Textured(entries[k])' = Textured(entries[k])
      BY <1>6, <2>2 DEF Textured
    <3> QED
      BY <2>2, <3>1 DEF Owns
  <2> QED
    BY <2>1, <2>2
<1>8. /\ ~Owned(t) /\ ~Given(t) /\ t \notin staged /\ t \notin deferred
      /\ ~InFree(t)'
  BY <1>5 DEF TextureInv, Apart, Kept
<1>9. /\ \A u : Given(u)' <=> Given(u)
      /\ \A u \in Textures : Owned(u)' <=> Owned(u) \/ u = t
  BY <1>2, <1>3, <1>7 DEF Given, Owned
<1>10. PoolTypes'
  BY <1>2, <1>5 DEF TextureInv, PoolTypes
<1>11. Drawing'
  <2>1. /\ \A k \in Keys : ~entries[k].made => entries[k].held = NoTexture /\ entries[k].releases = {}
        /\ todo \subseteq frame.keys
        /\ \A k \in frame.keys : entries[k].made /\ (k \in todo \/ entries[k].held # NoTexture)
    BY <1>2 DEF TextureInv, Drawing
  <2>2. \A k \in Keys : ~entries'[k].made => entries'[k].held = NoTexture /\ entries'[k].releases = {}
    BY <1>6, <2>1
  <2>3. frame' = frame /\ frame.keys \subseteq Keys
    BY <1>2 DEF TextureInv, FrameTypes, States
  <2>4. \A k \in frame.keys : entries'[k].made /\ (k \in todo' \/ entries'[k].held # NoTexture)
    <3>1. entries'[kk].held # NoTexture
      BY <1>6 DEF Textures, NoTexture
    <3> QED
      BY <1>2, <1>6, <2>1, <2>3, <3>1
  <2> QED
    BY <1>2, <2>1, <2>2, <2>3, <2>4 DEF Drawing
<1>12. Once'
  <2>1. \A k, l \in Keys, u \in Textures : Owns(k, u)' /\ Owns(l, u)' => k = l
    <3>1. \A k \in Keys : ~Owns(k, t)
      BY <1>8 DEF Owned
    <3> QED
      BY <1>7, <3>1 DEF TextureInv, Once
  <2>2. \A k \in Keys : entries'[k].held \notin entries'[k].releases
    <3>1. t \notin Textured(entries[kk])
      BY <1>3, <1>8 DEF Owned, Owns
    <3> QED
      BY <1>6, <3>1 DEF TextureInv, Once
  <2> QED
    BY <1>2, <1>5, <2>1, <2>2 DEF TextureInv, Once
<1>13. Apart'
  <2> SUFFICES ASSUME NEW u \in Textures
               PROVE  /\ InFree(u)' => ~Owned(u)' /\ ~Given(u)' /\ u \notin staged' /\ u \notin deferred'
                      /\ Owned(u)'  => ~Given(u)' /\ u \notin staged' /\ u \notin deferred'
                      /\ Given(u)'  => u \notin staged' /\ u \notin deferred'
                      /\ u \in staged' => u \notin deferred'
    BY DEF Apart
  <2>1. /\ InFree(u) => ~Owned(u) /\ ~Given(u) /\ u \notin staged /\ u \notin deferred
        /\ Owned(u)  => ~Given(u) /\ u \notin staged /\ u \notin deferred
        /\ Given(u)  => u \notin staged /\ u \notin deferred
        /\ u \in staged => u \notin deferred
    BY DEF TextureInv, Apart
  <2> QED
    BY <1>2, <1>5, <1>8, <1>9, <2>1
<1>14. Kept'
  <2> SUFFICES ASSUME NEW u \in Textures
               PROVE  u \in All' <=> \/ InFree(u)' \/ Owned(u)' \/ Given(u)'
                                     \/ u \in staged' \/ u \in deferred'
    BY DEF Kept
  <2>1. u \in All <=> InFree(u) \/ Owned(u) \/ Given(u) \/ u \in staged \/ u \in deferred
    BY DEF TextureInv, Kept
  <2>2. u \in All' <=> u \in All \/ u = t
    <3>1. InFree(t) => t \in All
      BY DEF TextureInv, Kept
    <3> QED
      BY <1>5, <3>1
  <2> QED
    BY <1>2, <1>5, <1>9, <2>1, <2>2
<1>15. Reading'
  <2> SUFFICES ASSUME NEW i \in 1..Len(gpu), NEW u \in gpu[i].uses
               PROVE  /\ u \in All' /\ ~InFree(u)' /\ u \notin deferred'
                      /\ \A j \in 1..i : u \notin gpu[j].gives
    BY <1>2 DEF Reading
  <2>1. /\ u \in All /\ ~InFree(u) /\ u \notin deferred
        /\ \A j \in 1..i : u \notin gpu[j].gives
    BY DEF TextureInv, Reading
  <2> QED
    BY <1>2, <1>5, <2>1
<1> QED
  BY <1>10, <1>11, <1>12, <1>13, <1>14, <1>15 DEF TextureInv

\* What was taken off the entries goes to the GPU, which still reads the rest.
LEMMA PresentKeepsTextures ==
    ASSUME TextureInv, FrameTypes', Present
    PROVE  TextureInv'
<1> DEFINE us == {entries[k].held : k \in frame.keys}
           gs == staged \cup UNION {entries[k].releases : k \in Keys}
           n == Len(gpu)
<1>1. /\ renderPc = "draw" /\ todo = {} /\ renderPc' = "wait" /\ staged' = {}
      /\ gpu' = Append(gpu, [uses |-> us, gives |-> gs])
      /\ entries' = [k \in Keys |-> [entries[k] EXCEPT !.releases = {}]]
      /\ UNCHANGED <<bytes, free, deferred>>
  BY DEF Present, poolVars
<1>2. entries \in [Keys -> Entries] /\ frame.keys \subseteq Keys
  BY DEF TextureInv, FrameTypes, States
<1>3. /\ us \subseteq Textures \cup {NoTexture} /\ gs \subseteq Textures
      /\ \A t : t \in us <=> \E k \in frame.keys : entries[k].held = t
      /\ \A t : t \in gs <=> t \in staged \/ \E k \in Keys : t \in entries[k].releases
  <2>1. \A k \in Keys : entries[k].held \in Textures \cup {NoTexture}
                        /\ entries[k].releases \subseteq Textures
    BY <1>2 DEF Entries
  <2> QED
    BY <1>2, <2>1 DEF TextureInv, PoolTypes
<1> HIDE DEF us, gs
<1>4. /\ n \in Nat /\ Len(gpu') = n + 1
      /\ \A i \in 1..n : gpu'[i] = gpu[i]
      /\ gpu'[n + 1].uses = us /\ gpu'[n + 1].gives = gs
      /\ gpu' \in Seq([uses : SUBSET (Textures \cup {NoTexture}), gives : SUBSET Textures])
  BY <1>1, <1>3 DEF TextureInv, PoolTypes
<1>5. ASSUME NEW k \in Keys
      PROVE  /\ entries'[k].held = entries[k].held /\ entries'[k].releases = {}
             /\ entries'[k].made = entries[k].made
  BY <1>1, <1>2 DEF Entries
<1>6. \A k \in Keys, t \in Textures :
         /\ Owns(k, t)' <=> entries[k].held = t
         /\ Owns(k, t) <=> entries[k].held = t \/ t \in entries[k].releases
  <2> SUFFICES ASSUME NEW k \in Keys, NEW t \in Textures
               PROVE  /\ Owns(k, t)' <=> entries[k].held = t
                      /\ Owns(k, t) <=> entries[k].held = t \/ t \in entries[k].releases
    OBVIOUS
  <2>1. t # NoTexture
    BY DEF Textures, NoTexture
  <2>2. Textured(entries[k])' = entries'[k].releases \cup ({entries'[k].held} \ {NoTexture})
    BY DEF Textured
  <2> QED
    BY <1>5, <2>1, <2>2 DEF Owns, Textured
<1> DEFINE Off(t) == \E k \in Keys : t \in entries[k].releases
           On(t)  == \E k \in Keys : entries[k].held = t
<1>7. \A t \in Textures :
         /\ Owned(t)' <=> On(t)
         /\ Owned(t) <=> On(t) \/ Off(t)
         /\ ~(On(t) /\ Off(t))
         /\ t \in gs <=> t \in staged \/ Off(t)
  <2> SUFFICES ASSUME NEW t \in Textures
               PROVE  /\ Owned(t)' <=> On(t)
                      /\ Owned(t) <=> On(t) \/ Off(t)
                      /\ ~(On(t) /\ Off(t))
                      /\ t \in gs <=> t \in staged \/ Off(t)
    OBVIOUS
  <2>1. ~(On(t) /\ Off(t))
    <3> SUFFICES ASSUME NEW k \in Keys, NEW l \in Keys, entries[k].held = t,
                        t \in entries[l].releases
                 PROVE  FALSE
      OBVIOUS
    <3>1. Owns(k, t) /\ Owns(l, t)
      BY <1>6
    <3>2. k = l /\ entries[k].held \notin entries[k].releases
      BY <3>1 DEF TextureInv, Once
    <3> QED
      BY <3>2
  <2> QED
    BY <1>3, <1>6, <2>1 DEF Owned
<1>8. \A t \in Textures : Given(t)' <=> Given(t) \/ t \in gs
  <2> SUFFICES ASSUME NEW t \in Textures PROVE Given(t)' <=> Given(t) \/ t \in gs
    OBVIOUS
  <2>1. Given(t)' <=> \E i \in 1..(n + 1) : t \in gpu'[i].gives
    BY <1>4 DEF Given
  <2>2. (\E i \in 1..(n + 1) : t \in gpu'[i].gives)
           <=> (\E i \in 1..n : t \in gpu'[i].gives) \/ t \in gpu'[n + 1].gives
    <3>1. \A i \in 1..(n + 1) : i \in 1..n \/ i = n + 1
      BY <1>4
    <3>2. n + 1 \in 1..(n + 1) /\ \A i \in 1..n : i \in 1..(n + 1)
      BY <1>4
    <3> HIDE DEF n
    <3> QED
      BY <3>1, <3>2
  <2>3. Given(t) <=> \E i \in 1..n : t \in gpu[i].gives
    BY DEF Given
  <2> QED
    BY <1>4, <2>1, <2>2, <2>3
<1>9. /\ \A t : InFree(t)' <=> InFree(t)
      /\ All' = All
  BY <1>1 DEF InFree, All
<1>10. \A t \in Textures :
          /\ InFree(t) => ~Owned(t) /\ ~Given(t) /\ t \notin staged /\ t \notin deferred
          /\ Owned(t)  => ~Given(t) /\ t \notin staged /\ t \notin deferred
          /\ Given(t)  => t \notin staged /\ t \notin deferred
          /\ t \in staged => t \notin deferred
          /\ t \in All <=> InFree(t) \/ Owned(t) \/ Given(t) \/ t \in staged \/ t \in deferred
  BY DEF TextureInv, Apart, Kept
<1> HIDE DEF On, Off, n
<1>11. PoolTypes'
  BY <1>1, <1>4 DEF TextureInv, PoolTypes
<1>12. Drawing'
  BY <1>1, <1>5 DEF TextureInv, Drawing
<1>13. Once'
  <2>1. ASSUME NEW i \in 1..(n + 1), NEW j \in 1..(n + 1), NEW t \in Textures,
               t \in gpu'[i].gives, t \in gpu'[j].gives
        PROVE  i = j
    <3>1. CASE i \in 1..n /\ j \in 1..n
      BY <1>4, <2>1, <3>1 DEF TextureInv, Once, n
    <3>2. t \in gs => ~Given(t)
      BY <1>7, <1>10
    <3>3. \A l \in 1..n : t \in gpu'[l].gives => Given(t)
      BY <1>4 DEF Given, n
    <3>4. \A l \in 1..(n + 1) : l \in 1..n \/ l = n + 1
      BY <1>4
    <3>5. CASE i = n + 1 /\ j \in 1..n
      BY <1>4, <2>1, <3>2, <3>3, <3>5
    <3>6. CASE i \in 1..n /\ j = n + 1
      BY <1>4, <2>1, <3>2, <3>3, <3>6
    <3> QED
      BY <3>1, <3>4, <3>5, <3>6
  <2>2. \A k, l \in Keys, t \in Textures : Owns(k, t)' /\ Owns(l, t)' => k = l
    BY <1>6 DEF TextureInv, Once
  <2>3. \A i, j \in 1..Len(free') : free'[i] = free'[j] => i = j
    BY <1>1 DEF TextureInv, Once
  <2>4. \A k \in Keys : entries'[k].held \notin entries'[k].releases
    BY <1>5
  <2>5. \A i, j \in 1..Len(gpu'), t \in Textures :
           t \in gpu'[i].gives /\ t \in gpu'[j].gives => i = j
    BY <1>4, <2>1
  <2> QED
    BY <2>2, <2>3, <2>4, <2>5 DEF Once
<1>14. Apart'
  <2> SUFFICES ASSUME NEW t \in Textures
               PROVE  /\ InFree(t)' => ~Owned(t)' /\ ~Given(t)' /\ t \notin staged' /\ t \notin deferred'
                      /\ Owned(t)'  => ~Given(t)' /\ t \notin staged' /\ t \notin deferred'
                      /\ Given(t)'  => t \notin staged' /\ t \notin deferred'
                      /\ t \in staged' => t \notin deferred'
    BY DEF Apart
  <2> QED
    BY <1>1, <1>7, <1>8, <1>9, <1>10
<1>15. Kept'
  <2> SUFFICES ASSUME NEW t \in Textures
               PROVE  t \in All' <=> \/ InFree(t)' \/ Owned(t)' \/ Given(t)'
                                     \/ t \in staged' \/ t \in deferred'
    BY DEF Kept
  <2> QED
    BY <1>1, <1>7, <1>8, <1>9, <1>10
<1>16. Reading'
  <2> SUFFICES ASSUME NEW i \in 1..(n + 1), NEW t \in gpu'[i].uses
               PROVE  /\ t \in All /\ ~InFree(t) /\ t \notin deferred
                      /\ \A j \in 1..i : t \notin gpu'[j].gives
    BY <1>1, <1>4, <1>9 DEF Reading
  <2>1. CASE i \in 1..n
    <3>1. /\ t \in All /\ ~InFree(t) /\ t \notin deferred
          /\ \A j \in 1..i : t \notin gpu[j].gives
      BY <1>4, <2>1 DEF TextureInv, Reading, n
    <3>2. \A j \in 1..i : j \in 1..n
      BY <1>4, <2>1
    <3> QED
      BY <1>4, <3>1, <3>2
  <2>2. CASE i = n + 1
    <3>1. PICK k \in frame.keys : entries[k].held = t
      BY <1>3, <1>4, <2>2
    <3>2. t # NoTexture
      BY <1>1, <3>1 DEF TextureInv, Drawing
    <3>3. k \in Keys /\ t \in Textures
      BY <1>2, <3>1, <3>2 DEF Entries
    <3>4. Owned(t) /\ On(t)
      BY <1>6, <3>1, <3>3 DEF Owned, On
    <3>5. t \notin gs /\ ~Given(t)
      BY <1>7, <1>10, <3>3, <3>4
    <3>6. \A j \in 1..i : j \in 1..n \/ j = n + 1
      BY <1>4, <2>2
    <3>7. \A j \in 1..i : t \notin gpu'[j].gives
      BY <1>4, <3>5, <3>6 DEF Given, n
    <3> QED
      BY <1>10, <3>3, <3>4, <3>7
  <2>3. i \in 1..n \/ i = n + 1
    BY <1>4
  <2> QED
    BY <2>1, <2>2, <2>3
<1> QED
  BY <1>11, <1>12, <1>13, <1>14, <1>15, <1>16 DEF TextureInv

\* The oldest submission is done, and gives back what it was given.
LEMMA GpuKeepsTextures ==
    ASSUME TextureInv, FrameTypes', GpuDone
    PROVE  TextureInv'
<1> DEFINE n == Len(gpu)
<1>1. /\ gpu # <<>> /\ gpu' = Tail(gpu) /\ deferred' = deferred \cup gpu[1].gives
      /\ UNCHANGED <<renderPc, frame, todo, entries, staged, bytes, free>>
  BY DEF GpuDone, renderVars, entryVars, poolVars
<1>2. /\ n \in Nat \ {0} /\ Len(gpu') = n - 1
      /\ \A i \in 1..(n - 1) : gpu'[i] = gpu[i + 1]
      /\ gpu' \in Seq([uses : SUBSET (Textures \cup {NoTexture}), gives : SUBSET Textures])
      /\ gpu[1].gives \subseteq Textures
  <2> DEFINE R == [uses : SUBSET (Textures \cup {NoTexture}), gives : SUBSET Textures]
  <2>1. gpu \in Seq(R) /\ gpu # <<>>
    BY <1>1 DEF TextureInv, PoolTypes
  <2> HIDE DEF R
  <2>2. /\ Len(gpu) \in Nat \ {0} /\ gpu[1] \in R
        /\ Tail(gpu) \in Seq(R) /\ Len(Tail(gpu)) = Len(gpu) - 1
        /\ \A i \in 1..(Len(gpu) - 1) : Tail(gpu)[i] = gpu[i + 1]
    BY <2>1, TailFacts
  <2>3. gpu[1].gives \subseteq Textures
    BY <2>2 DEF R
  <2>4. gpu' \in Seq(R)
    BY <1>1, <2>2
  <2>5. /\ n \in Nat \ {0} /\ Len(gpu') = n - 1
        /\ \A i \in 1..(n - 1) : gpu'[i] = gpu[i + 1]
    BY <1>1, <2>2
  <2> QED
    BY <2>3, <2>4, <2>5 DEF R
<1> HIDE DEF n
<1>3. /\ \A k, t : Owns(k, t)' <=> Owns(k, t)
      /\ \A t : InFree(t)' <=> InFree(t)
      /\ All' = All
  BY <1>1 DEF Owns, InFree, All, Textured
<1>4. \A t : Owned(t)' <=> Owned(t)
  BY <1>3 DEF Owned
<1>5. 1 \in 1..n /\ \A i \in 1..(n - 1) : i + 1 \in 1..n /\ i + 1 # 1
  BY <1>2
<1>6. \A t \in Textures :
         /\ Given(t)' => Given(t) /\ t \notin gpu[1].gives
         /\ t \in gpu[1].gives => Given(t)
         /\ Given(t) => Given(t)' \/ t \in gpu[1].gives
  <2> SUFFICES ASSUME NEW t \in Textures
               PROVE  /\ Given(t)' => Given(t) /\ t \notin gpu[1].gives
                      /\ t \in gpu[1].gives => Given(t)
                      /\ Given(t) => Given(t)' \/ t \in gpu[1].gives
    OBVIOUS
  <2>1. t \in gpu[1].gives => Given(t)
    BY <1>5 DEF Given, n
  <2>2. ASSUME NEW i \in 1..(n - 1), t \in gpu'[i].gives
        PROVE  Given(t) /\ t \notin gpu[1].gives
    <3>1. t \in gpu[i + 1].gives /\ i + 1 \in 1..n /\ i + 1 # 1
      BY <1>2, <1>5, <2>2
    <3>2. Given(t)
      BY <3>1 DEF Given, n
    <3>3. \A j, l \in 1..n : t \in gpu[j].gives /\ t \in gpu[l].gives => j = l
      BY DEF TextureInv, Once, n
    <3> QED
      BY <1>5, <3>1, <3>2, <3>3
  <2>3. ASSUME NEW i \in 1..n, t \in gpu[i].gives PROVE Given(t)' \/ t \in gpu[1].gives
    <3>1. CASE i = 1
      BY <2>3, <3>1
    <3>2. CASE i # 1
      <4>1. i - 1 \in 1..(n - 1) /\ (i - 1) + 1 = i
        BY <1>2, <3>2
      <4>2. t \in gpu'[i - 1].gives /\ i - 1 \in 1..Len(gpu')
        BY <1>2, <2>3, <4>1
      <4> QED
        BY <4>2 DEF Given
    <3> QED
      BY <3>1, <3>2
  <2> QED
    BY <1>2, <2>1, <2>2, <2>3 DEF Given, n
<1>7. PoolTypes'
  BY <1>1, <1>2 DEF TextureInv, PoolTypes
<1>8. Drawing'
  BY <1>1 DEF TextureInv, Drawing
<1>9. Once'
  <2>1. ASSUME NEW i \in 1..(n - 1), NEW j \in 1..(n - 1), NEW t \in Textures,
               t \in gpu'[i].gives, t \in gpu'[j].gives
        PROVE  i = j
    <3>1. t \in gpu[i + 1].gives /\ t \in gpu[j + 1].gives
      BY <1>2, <2>1
    <3>2. \A l, m \in 1..n : t \in gpu[l].gives /\ t \in gpu[m].gives => l = m
      BY DEF TextureInv, Once, n
    <3>3. i + 1 = j + 1
      BY <1>5, <3>1, <3>2
    <3> QED
      BY <1>2, <3>3
  <2>2. \A k, l \in Keys, t \in Textures : Owns(k, t)' /\ Owns(l, t)' => k = l
    BY <1>3 DEF TextureInv, Once
  <2>3. /\ \A i, j \in 1..Len(free') : free'[i] = free'[j] => i = j
        /\ \A k \in Keys : entries'[k].held \notin entries'[k].releases
    BY <1>1 DEF TextureInv, Once
  <2> QED
    BY <1>2, <2>1, <2>2, <2>3 DEF Once
<1>10. Apart'
  <2> SUFFICES ASSUME NEW t \in Textures
               PROVE  /\ InFree(t)' => ~Owned(t)' /\ ~Given(t)' /\ t \notin staged' /\ t \notin deferred'
                      /\ Owned(t)'  => ~Given(t)' /\ t \notin staged' /\ t \notin deferred'
                      /\ Given(t)'  => t \notin staged' /\ t \notin deferred'
                      /\ t \in staged' => t \notin deferred'
    BY DEF Apart
  <2>1. /\ InFree(t) => ~Owned(t) /\ ~Given(t) /\ t \notin staged /\ t \notin deferred
        /\ Owned(t)  => ~Given(t) /\ t \notin staged /\ t \notin deferred
        /\ Given(t)  => t \notin staged /\ t \notin deferred
        /\ t \in staged => t \notin deferred
    BY DEF TextureInv, Apart
  <2> QED
    BY <1>1, <1>3, <1>4, <1>6, <2>1
<1>11. Kept'
  <2> SUFFICES ASSUME NEW t \in Textures
               PROVE  t \in All' <=> \/ InFree(t)' \/ Owned(t)' \/ Given(t)'
                                     \/ t \in staged' \/ t \in deferred'
    BY DEF Kept
  <2>1. t \in All <=> InFree(t) \/ Owned(t) \/ Given(t) \/ t \in staged \/ t \in deferred
    BY DEF TextureInv, Kept
  <2> QED
    BY <1>1, <1>3, <1>4, <1>6, <2>1
<1>12. Reading'
  <2> SUFFICES ASSUME NEW i \in 1..Len(gpu'), NEW t \in gpu'[i].uses
               PROVE  /\ t \in All' /\ ~InFree(t)' /\ t \notin deferred'
                      /\ \A j \in 1..i : t \notin gpu'[j].gives
    BY DEF Reading
  <2> i \in 1..(n - 1)
    BY <1>2
  <2>1. t \in gpu[i + 1].uses /\ i + 1 \in 1..n
    BY <1>2, <1>5
  <2>2. /\ t \in All /\ ~InFree(t) /\ t \notin deferred
        /\ \A j \in 1..(i + 1) : t \notin gpu[j].gives
    BY <2>1 DEF TextureInv, Reading, n
  <2>3. 1 \in 1..(i + 1) /\ \A j \in 1..i : j + 1 \in 1..(i + 1) /\ j \in 1..(n - 1)
    BY <1>2
  <2>4. t \notin gpu[1].gives /\ \A j \in 1..i : t \notin gpu[j + 1].gives
    BY <2>2, <2>3
  <2> QED
    BY <1>1, <1>2, <1>3, <2>2, <2>3, <2>4
<1> QED
  BY <1>7, <1>8, <1>9, <1>10, <1>11, <1>12 DEF TextureInv

LEMMA TexturesStep == TextureInv /\ [Next]_vars => TextureInv'
<1> SUFFICES ASSUME TextureInv, [Next]_vars PROVE TextureInv'
  OBVIOUS
<1>1. FrameTypes'
  BY TypesStep DEF TextureInv
<1>2. CASE \/ UNCHANGED vars \/ Handler
           \/ \E k \in Keys, sync \in BOOLEAN : Inject(k, sync)
           \/ StartTick \/ ApplyPendingMutations \/ CheckRedraw
  <2>1. UNCHANGED <<Stock, renderPc, frame, todo>>
    <3> USE DEF Stock, renderVars, entryVars, gpuVars, poolVars
    <3>1. CASE UNCHANGED vars
      BY <3>1 DEF vars
    <3>2. CASE Handler
      <4>1. Change
        BY <3>2 DEF Handler, KillPane, DestroyPopup, CreatePopup, ResizePopup, ActivateTab,
                    SwapPanes, ResizeWindow
      <4> QED
        BY <4>1 DEF Change
    <3>3. CASE \E k \in Keys, sync \in BOOLEAN : Inject(k, sync)
      BY <3>3 DEF Inject
    <3>4. CASE StartTick \/ ApplyPendingMutations \/ CheckRedraw
      BY <3>4 DEF StartTick, ApplyPendingMutations, CheckRedraw
    <3> QED
      BY <1>2, <3>1, <3>2, <3>3, <3>4
  <2> QED
    BY <1>1, <2>1, QuietKeepsTextures
<1>3. CASE Woken \/ NoSurface \/ SnapshotUnderLock
  <2>1. UNCHANGED Stock /\ renderPc' # "draw"
    BY <1>3 DEF Woken, NoSurface, SnapshotUnderLock, Stock, entryVars, gpuVars, poolVars
  <2> QED
    BY <1>1, <2>1, QuietKeepsTextures
<1>4. CASE Structure \/ LoadSnapshots \/ DrawTarget \/ Present \/ GpuDone
  BY <1>1, <1>4, StructureKeepsTextures, LoadKeepsTextures, DrawKeepsTextures,
     PresentKeepsTextures, GpuKeepsTextures
<1> QED
  BY <1>2, <1>3, <1>4 DEF Next, RenderStep

LEMMA InitTextures == Init => TextureInv
<1> SUFFICES ASSUME Init PROVE TextureInv
  OBVIOUS
<1>1. FrameTypes
  BY InitTypes
<1>2. /\ entries = [k \in Keys |-> NoEntry] /\ staged = {} /\ gpu = <<>> /\ deferred = {}
      /\ bytes = [t \in Textures |-> 0] /\ free = <<>> /\ renderPc = "wait"
  BY DEF Init, PoolInit
<1>3. PoolTypes
  BY <1>2 DEF PoolTypes
<1>4. Drawing
  BY <1>2 DEF Drawing, NoEntry
<1>5. /\ \A t : ~InFree(t) /\ ~Owned(t) /\ ~Given(t)
      /\ \A k \in Keys : \A t : ~Owns(k, t)
      /\ All = {}
  BY <1>2 DEF InFree, Owned, Given, Owns, Textured, NoEntry, All
<1>6. Once
  BY <1>2, <1>5 DEF Once, NoEntry
<1>7. Apart /\ Kept
  BY <1>2, <1>5 DEF Apart, Kept
<1>8. Reading
  BY <1>2 DEF Reading
<1> QED
  BY <1>1, <1>3, <1>4, <1>6, <1>7, <1>8 DEF TextureInv

\* Counting the places of a texture.
LEMMA AtMostOne ==
    ASSUME NEW S, \A x, y \in S : x = y
    PROVE  Cardinality(S) = IF S = {} THEN 0 ELSE 1
<1>1. CASE S = {}
  BY <1>1, FS_EmptySet
<1>2. CASE S # {}
  <2>1. PICK x \in S : S = {x}
    BY <1>2
  <2> QED
    BY <1>2, <2>1, FS_Singleton
<1> QED
  BY <1>1, <1>2

(* A texture of the pool is always in exactly one place, and what a frame  *)
(* in the hands of the GPU reads is never on the free list, for every      *)
(* number of textures, frames in flight and budget of the pool.            *)
THEOREM TexturesInOnePlace == Spec => []TexturesSafe
<1>1. TextureInv => OnePlace
  <2> SUFFICES ASSUME TextureInv, NEW t \in Textures
               PROVE  Places(t) = IF t \in All THEN 1 ELSE 0
    BY DEF OnePlace
  <2> DEFINE F == {i \in DOMAIN free : free[i] = t}
             H == {k \in Keys : entries[k].held = t}
             R == {k \in Keys : t \in entries[k].releases}
             G == {i \in DOMAIN gpu : t \in gpu[i].gives}
             S == {t} \cap staged
             D == {t} \cap deferred
  <2>1. /\ DOMAIN free = 1..Len(free) /\ DOMAIN gpu = 1..Len(gpu)
        /\ t # NoTexture
    BY DEF TextureInv, PoolTypes, Textures, NoTexture
  <2>2. /\ F # {} <=> InFree(t)
        /\ H # {} \/ R # {} <=> Owned(t)
        /\ G # {} <=> Given(t)
        /\ S # {} <=> t \in staged
        /\ D # {} <=> t \in deferred
    BY <2>1 DEF InFree, Owned, Owns, Textured, Given
  <2>3. /\ \A x, y \in F : x = y
        /\ \A x, y \in G : x = y
        /\ \A x, y \in S : x = y
        /\ \A x, y \in D : x = y
    BY <2>1 DEF TextureInv, Once
  <2>4. \A x, y \in H \cup R : x = y
    BY <2>1 DEF TextureInv, Once, Owns, Textured
  <2>5. ~(H # {} /\ R # {})
    <3> SUFFICES ASSUME NEW k \in Keys, entries[k].held = t, NEW l \in Keys,
                        t \in entries[l].releases
                 PROVE  FALSE
      OBVIOUS
    <3>1. k = l
      BY <2>4
    <3> QED
      BY <3>1 DEF TextureInv, Once
  <2>6. /\ InFree(t) => ~Owned(t) /\ ~Given(t) /\ t \notin staged /\ t \notin deferred
        /\ Owned(t)  => ~Given(t) /\ t \notin staged /\ t \notin deferred
        /\ Given(t)  => t \notin staged /\ t \notin deferred
        /\ t \in staged => t \notin deferred
        /\ t \in All <=> InFree(t) \/ Owned(t) \/ Given(t) \/ t \in staged \/ t \in deferred
    BY DEF TextureInv, Apart, Kept
  <2>7. Places(t) = Cardinality(F) + Cardinality(H) + Cardinality(R) + Cardinality(G)
                    + Cardinality(S) + Cardinality(D)
    BY DEF Places
  <2> HIDE DEF F, H, R, G, S, D
  <2>8. /\ Cardinality(F) = IF F = {} THEN 0 ELSE 1
        /\ Cardinality(H) = IF H = {} THEN 0 ELSE 1
        /\ Cardinality(R) = IF R = {} THEN 0 ELSE 1
        /\ Cardinality(G) = IF G = {} THEN 0 ELSE 1
        /\ Cardinality(S) = IF S = {} THEN 0 ELSE 1
        /\ Cardinality(D) = IF D = {} THEN 0 ELSE 1
    BY <2>3, <2>4, AtMostOne
  <2> QED
    BY <2>2, <2>5, <2>6, <2>7, <2>8
<1>2. TextureInv => GpuSafe
  <2> SUFFICES ASSUME TextureInv, NEW i \in DOMAIN gpu, NEW t \in gpu[i].uses
               PROVE  t \in All \ ToSet(free)
    BY DEF GpuSafe
  <2>1. i \in 1..Len(gpu) /\ DOMAIN free = 1..Len(free)
    BY DEF TextureInv, PoolTypes
  <2>2. t \in All /\ ~InFree(t)
    BY <2>1 DEF TextureInv, Reading
  <2> QED
    BY <2>1, <2>2 DEF ToSet, InFree
<1> QED
  BY <1>1, <1>2, InitTextures, TexturesStep, PTL DEF Spec, TexturesSafe
=============================================================================
