---------------------------- MODULE EmulatorProofs ----------------------------
(***************************************************************************)
(* Theorems about the scenes of a terminal: what is written to the program *)
(* arrives, an embedded terminal is not freed while it is used, a paste is *)
(* answered, the modes' copies agree, a key arrives once, and what a       *)
(* shell's marks say of its commands is true.  InputProofs has the bytes   *)
(* that the program sends and the mouse.                                   *)
(*                                                                         *)
(* A scene's state is one record, and the operators of its module take a   *)
(* record to the next.  So an invariant is an operator on records, and     *)
(* that an operator keeps it is a fact of constants, without a prime.      *)
(***************************************************************************)
EXTENDS Emulator,
        SequencesExt, FiniteSetsExt, TLAPS,
        WellFoundedInduction, NaturalsInduction, FiniteSetTheorems

-----------------------------------------------------------------------------
(* What the proofs need of numbers, sequences and folds.  The induction    *)
(* theorems of the library take an operator, which none of the provers can *)
(* instantiate.  StepByStep is induction for a set instead, and FoldExists *)
(* gives the recursive function that a fold of the community modules       *)
(* chooses.                                                                *)

LEMMA Smallest ==
    ASSUME NEW S \in SUBSET Nat, S # {}
    PROVE  \E m \in S : \A n \in S : m <= n
<1> DEFINE R == {ss \in Nat \X Nat : ss[1] < ss[2]}
<1>1. IsWellFoundedOn(R, Nat)
  BY NatLessThanWellFounded, Zenon DEF OpToRel
<1>2. PICK m \in S : \A n \in S : <<n, m>> \notin R
  <2> HIDE DEF R
  <2> QED
    BY <1>1, WFMin
<1>3. ASSUME NEW n \in S PROVE m <= n
  <2>1. n \in Nat /\ m \in Nat /\ ~(n < m)
    BY <1>2
  <2> QED
    BY <2>1
<1> QED
  BY <1>3

\* What is so at first, and stays so with each of n steps, is so in the end.
LEMMA StepByStep ==
    ASSUME NEW n \in Nat, NEW T \in SUBSET (0..n), 0 \in T, \A k \in 1..n : k - 1 \in T => k \in T
    PROVE  T = 0..n
<1> SUFFICES ASSUME (0..n) \ T # {} PROVE FALSE
  OBVIOUS
<1>1. PICK m \in (0..n) \ T : \A k \in (0..n) \ T : m <= k
  <2>1. (0..n) \ T \in SUBSET Nat
    OBVIOUS
  <2> QED
    BY <2>1, Smallest
<1>2. m # 0 /\ m - 1 \in 0..n /\ m \in 1..n
  BY <1>1
<1>3. m - 1 \in T
  BY <1>1, <1>2
<1> QED
  BY <1>1, <1>2, <1>3

LEMMA ConcatFacts ==
    ASSUME NEW S, NEW a \in Seq(S), NEW b \in Seq(S)
    PROVE  /\ a \o b \in Seq(S) /\ Len(a \o b) = Len(a) + Len(b)
           /\ \A i \in 1..Len(a) : (a \o b)[i] = a[i]
           /\ \A i \in 1..(Len(a) + Len(b)) : i > Len(a) => (a \o b)[i] = b[i - Len(a)]
  OBVIOUS

LEMMA SubSeqFacts ==
    ASSUME NEW S, NEW s \in Seq(S), NEW m \in 1..(Len(s) + 1), NEW n \in (m - 1)..Len(s)
    PROVE  /\ SubSeq(s, m, n) \in Seq(S) /\ Len(SubSeq(s, m, n)) = n - m + 1
           /\ \A i \in 1..(n - m + 1) : SubSeq(s, m, n)[i] = s[m + i - 1]
  OBVIOUS

LEMMA CutFacts ==
    ASSUME NEW S, NEW s \in Seq(S), NEW k \in 1..Len(s)
    PROVE  /\ SubSeq(s, 1, k) \in Seq(S) /\ Len(SubSeq(s, 1, k)) = k
           /\ \A j \in 1..k : SubSeq(s, 1, k)[j] = s[j]
           /\ SubSeq(s, k + 1, Len(s)) \in Seq(S) /\ Len(SubSeq(s, k + 1, Len(s))) = Len(s) - k
           /\ \A j \in 1..(Len(s) - k) : SubSeq(s, k + 1, Len(s))[j] = s[k + j]
<1>1. SubSeq(s, 1, k) \in Seq(S) /\ Len(SubSeq(s, 1, k)) = k /\ \A j \in 1..k : SubSeq(s, 1, k)[j] = s[j]
  OBVIOUS
<1>2. SubSeq(s, k + 1, Len(s)) \in Seq(S) /\ Len(SubSeq(s, k + 1, Len(s))) = Len(s) - k
  OBVIOUS
<1>3. \A j \in 1..(Len(s) - k) : SubSeq(s, k + 1, Len(s))[j] = s[k + j]
  OBVIOUS
<1> QED
  BY <1>1, <1>2, <1>3

LEMMA RemoveAtFacts ==
    ASSUME NEW S, NEW s \in Seq(S), NEW i \in 1..Len(s)
    PROVE  /\ RemoveAt(s, i) \in Seq(S) /\ Len(RemoveAt(s, i)) = Len(s) - 1
           /\ \A j \in 1..(i - 1) : RemoveAt(s, i)[j] = s[j]
           /\ \A j \in i..(Len(s) - 1) : RemoveAt(s, i)[j] = s[j + 1]
<1> DEFINE a == SubSeq(s, 1, i - 1)
           b == SubSeq(s, i + 1, Len(s))
<1>1. /\ a \in Seq(S) /\ Len(a) = i - 1 /\ i \in Nat /\ Len(s) \in Nat
      /\ \A j \in 1..(i - 1) : a[j] = s[j]
  BY SubSeqFacts
<1>2. /\ b \in Seq(S) /\ Len(b) = Len(s) - i
      /\ \A j \in 1..(Len(s) - i) : b[j] = s[i + j]
  BY SubSeqFacts
<1>3. RemoveAt(s, i) = a \o b
  BY DEF RemoveAt
<1> HIDE DEF a, b
<1>4. ASSUME NEW j \in i..(Len(s) - 1) PROVE RemoveAt(s, i)[j] = s[j + 1]
  <2>1. /\ j > Len(a) /\ j \in 1..(Len(a) + Len(b)) /\ j - Len(a) \in 1..(Len(s) - i)
        /\ i + (j - Len(a)) = j + 1
    BY <1>1, <1>2
  <2>2. (a \o b)[j] = b[j - Len(a)]
    <3>1. a \in Seq(S) /\ b \in Seq(S)
      BY <1>1, <1>2
    <3> QED
      BY <2>1, <3>1, ConcatFacts
  <2>3. b[j - Len(a)] = s[i + (j - Len(a))]
    BY <1>2, <2>1
  <2> QED
    BY <1>3, <2>1, <2>2, <2>3
<1>5. RemoveAt(s, i) \in Seq(S) /\ Len(RemoveAt(s, i)) = Len(s) - 1
  <2>0. a \in Seq(S) /\ b \in Seq(S)
    BY <1>1, <1>2
  <2>1. a \o b \in Seq(S) /\ Len(a \o b) = Len(a) + Len(b)
    BY <2>0
  <2> QED
    BY <1>1, <1>2, <1>3, <2>1
<1>6. ASSUME NEW j \in 1..(i - 1) PROVE RemoveAt(s, i)[j] = s[j]
  BY <1>1, <1>2, <1>3, ConcatFacts
<1> QED
  BY <1>4, <1>5, <1>6

LEMMA LastOf ==
    ASSUME NEW n \in Nat, NEW S \in SUBSET (1..n), S # {}
    PROVE  Max(S) \in S /\ \A i \in S : i <= Max(S)
<1> DEFINE T == {n - i : i \in S}
<1>1. T \in SUBSET Nat /\ T # {}
  <2>1. \A i \in S : n - i \in Nat
    OBVIOUS
  <2> QED
    BY <2>1
<1>2. PICK m \in T : \A t \in T : m <= t
  <2> HIDE DEF T
  <2> QED
    BY <1>1, Smallest
<1>3. PICK i \in S : m = n - i
  BY <1>2
<1>4. ASSUME NEW j \in S PROVE i >= j
  <2>1. n - j \in T /\ i \in Nat /\ j \in Nat
    OBVIOUS
  <2>2. n - i <= n - j
    BY <1>2, <1>3, <2>1
  <2> QED
    BY <2>1, <2>2
<1>5. \E x \in S : \A y \in S : x >= y
  BY <1>4
<1>6. Max(S) \in S /\ \A y \in S : Max(S) >= y
  BY <1>5 DEF Max
<1> QED
  BY <1>6

\* A fold's recursive function exists, on all sets of positions.
FoldedBy(it, n, b, step) ==
    it = [s \in SUBSET (1..n) |-> IF s = {} THEN b ELSE step[Max(s)][it[s \ {Max(s)}]]]

LEMMA FoldExists ==
    ASSUME NEW n \in Nat, NEW A, NEW b \in A, NEW step \in [1..n -> [A -> A]]
    PROVE  \E it \in [SUBSET (1..n) -> A] : FoldedBy(it, n, b, step)
<1> DEFINE Has(m) == \E it \in [SUBSET (1..m) -> A] : FoldedBy(it, m, b, step)
<1>1. Has(0)
  <2>1. SUBSET (1..0) = {{}}
    OBVIOUS
  <2>2. PICK it : it = [s \in {{}} |-> b]
    OBVIOUS
  <2> QED
    BY <2>1, <2>2 DEF FoldedBy
<1>2. ASSUME NEW m \in 0..(n - 1), Has(m) PROVE Has(m + 1)
  <2>1. PICK it \in [SUBSET (1..m) -> A] : FoldedBy(it, m, b, step)
    BY <1>2
  <2>2. PICK jt : jt = [s \in SUBSET (1..(m + 1)) |->
                          IF m + 1 \in s THEN step[m + 1][it[s \ {m + 1}]] ELSE it[s]]
    OBVIOUS
  <2>3. \A s \in SUBSET (1..(m + 1)) : /\ s \ {m + 1} \in SUBSET (1..m)
                                       /\ m + 1 \notin s => s \in SUBSET (1..m)
    OBVIOUS
  <2>4. m + 1 \in 1..n /\ step[m + 1] \in [A -> A]
    OBVIOUS
  <2>5. jt \in [SUBSET (1..(m + 1)) -> A]
    BY <2>1, <2>2, <2>3, <2>4
  <2>6. \A s \in SUBSET (1..m) : jt[s] = it[s] /\ s \in SUBSET (1..(m + 1))
    <3>1. \A s \in SUBSET (1..m) : m + 1 \notin s /\ s \in SUBSET (1..(m + 1))
      OBVIOUS
    <3> QED
      BY <2>2, <3>1
  <2>7. ASSUME NEW s \in SUBSET (1..(m + 1))
        PROVE  jt[s] = IF s = {} THEN b ELSE step[Max(s)][jt[s \ {Max(s)}]]
    <3>1. CASE m + 1 \in s
      <4>0. m + 1 \in Nat /\ s # {}
        BY <3>1
      <4>1. Max(s) \in s /\ (\A i \in s : i <= Max(s))
        BY <4>0, LastOf
      <4>2. Max(s) = m + 1
        <5>1. \A x \in s : x \in Nat /\ x <= m + 1
          OBVIOUS
        <5>2. PICK x : x = Max(s)
          OBVIOUS
        <5>3. x \in Nat /\ m + 1 <= x /\ x <= m + 1
          BY <3>1, <4>1, <5>1, <5>2
        <5> QED
          BY <5>2, <5>3
      <4> QED
        BY <2>2, <2>3, <2>6, <3>1, <4>2
    <3>2. CASE m + 1 \notin s
      <4>1. s \in SUBSET (1..m) /\ s \ {Max(s)} \in SUBSET (1..m)
        BY <2>3, <3>2
      <4>2. it[s] = IF s = {} THEN b ELSE step[Max(s)][it[s \ {Max(s)}]]
        BY <2>1, <4>1 DEF FoldedBy
      <4> QED
        BY <2>6, <4>1, <4>2
    <3> QED
      BY <3>1, <3>2
  <2>8. FoldedBy(jt, m + 1, b, step)
    BY <2>5, <2>7 DEF FoldedBy
  <2> QED
    BY <2>5, <2>8
<1> HIDE DEF Has
<1>3. {m \in 0..n : Has(m)} = 0..n
  <2>1. PICK T : T = {m \in 0..n : Has(m)}
    OBVIOUS
  <2>2. T \in SUBSET (0..n) /\ 0 \in T
    BY <1>1, <2>1
  <2>3. ASSUME NEW k \in 1..n, k - 1 \in T PROVE k \in T
    <3>1. k - 1 \in 0..(n - 1) /\ Has(k - 1) /\ (k - 1) + 1 = k
      BY <2>1, <2>3
    <3>2. Has((k - 1) + 1)
      BY <1>2, <3>1
    <3> QED
      BY <2>1, <3>1, <3>2
  <2> QED
    BY <2>1, <2>2, <2>3, StepByStep
<1>4. Has(n)
  BY <1>3
<1> QED
  BY <1>4 DEF Has

-----------------------------------------------------------------------------
(* Each part of the state is changed by the actions of its scene only.     *)

LEMMA ScenesApart ==
    ASSUME [Next]_vars
    PROVE  /\ Writing \/ UNCHANGED io
           /\ Embedding \/ UNCHANGED pane
           /\ Pasting \/ UNCHANGED paste
           /\ Switching \/ UNCHANGED modes
           /\ Typing \/ UNCHANGED keys
           /\ Shelling \/ UNCHANGED shell
           /\ SendBytes \/ ReadBytes \/ UNCHANGED parser
           /\ Pointing \/ UNCHANGED mouse
<1>1. CASE Placing
  BY <1>1 DEF Placing, MoveCursor, SendImage, SendNumbered, SendITerm, SendFirstChunk,
     SendBroken, PutImage, DeleteImages, Reset, Sends, Goes
<1>2. CASE Animating
  BY <1>2 DEF Animating, SendFilm, SendFrame, ControlAnimation, ComposeFrames, DropFrames,
     PublishSnapshot, TickAnimations, DrawFrame, Sends, Goes
<1>3. CASE Switching
  BY <1>3 DEF Switching, SetMode, SwitchScreen, SaveModes, RestoreModes, ResetModes,
     KeyboardFlags, Pointer, Title, Turns
<1>4. CASE SendBytes \/ ReadBytes
  BY <1>4 DEF SendBytes, ReadBytes
<1>5. CASE Shelling
  BY <1>5 DEF Shelling, MarkCommand, ReportDirectory, PrintText, ShellScreen, Notify,
     EndBatch, SelectByClick, Navigate, PressKey, Says, User
<1>6. CASE Typing
  BY <1>6 DEF Typing, KeyDown, Character, SequenceTimeout, ProtocolSwitched, EscapeHasUse,
     SettingsReloaded, Presses, Follows
<1>7. CASE Pointing
  BY <1>7 DEF Pointing, ButtonDown, ButtonUp, PointerMoves, AutoScroll, MouseAsked, Around,
     Clicks, Moves
<1>8. CASE Pasting
  BY <1>8 DEF Pasting, MiddleClick, PasteNow, CopyNow, OwnerChanges, OwnerActs, AnswerRead,
     DeadlinePasses, Wants, Comes
<1>9. CASE Writing
  BY <1>9 DEF Writing, WriteProceeds, WriteToPTY, WriteUnderLock, Writable, ReportFailure,
     HangUp, ReaderSeesEnd, RunPosted, DestroyTerminal, Writes
<1>10. CASE Embedding
  BY <1>10 DEF Embedding, CreateEmbeddedTerminal, EvictOldestLine, ResetParent, ClickOn,
     ClickFocuses, ResizePane, FinishHandler, ScriptCloses, ScriptUnloads, ClosePane,
     DrainEmbeddeds, RebuildShadow, Sweeping, FrameStarts, FrameEnds, Hosts
<1>11. CASE UNCHANGED vars
  BY <1>11 DEF vars
<1> QED
  BY <1>1, <1>2, <1>3, <1>4, <1>5, <1>6, <1>7, <1>8, <1>9, <1>10, <1>11 DEF Next

-----------------------------------------------------------------------------
(* Writing to the program.  What the kernel took and what waits are one    *)
(* run of numbers, from 1 on, cut in two.                                  *)

Numbered(s, n) == \A i \in 1..Len(s) : s[i] = n + i

LEMMA NumberedConcat ==
    ASSUME NEW s \in Seq(Nat), NEW t \in Seq(Nat), NEW n \in Nat,
           Numbered(s, n), Numbered(t, n + Len(s))
    PROVE  s \o t \in Seq(Nat) /\ Len(s \o t) = Len(s) + Len(t) /\ Numbered(s \o t, n)
<1>1. /\ s \o t \in Seq(Nat) /\ Len(s \o t) = Len(s) + Len(t)
      /\ \A i \in 1..(Len(s) + Len(t)) : (s \o t)[i] = IF i <= Len(s) THEN s[i] ELSE t[i - Len(s)]
  OBVIOUS
<1>2. ASSUME NEW i \in 1..(Len(s) + Len(t)) PROVE (s \o t)[i] = n + i
  <2>1. CASE i <= Len(s)
    BY <1>1, <2>1 DEF Numbered
  <2>2. CASE i > Len(s)
    <3>1. i - Len(s) \in 1..Len(t) /\ n + Len(s) + (i - Len(s)) = n + i
      BY <2>2
    <3>2. t[i - Len(s)] = n + Len(s) + (i - Len(s))
      BY <3>1 DEF Numbered
    <3> QED
      BY <1>1, <2>2, <3>1, <3>2
  <2> QED
    BY <2>1, <2>2
<1> QED
  BY <1>1, <1>2 DEF Numbered

LEMMA NumberedOn ==
    ASSUME NEW s \in Seq(Nat), NEW t \in Seq(Nat), Numbered(s, 0), Numbered(t, Len(s))
    PROVE  s \o t \in Seq(Nat) /\ Len(s \o t) = Len(s) + Len(t) /\ Numbered(s \o t, 0)
<1>1. 0 + Len(s) = Len(s)
  OBVIOUS
<1> QED
  BY <1>1, NumberedConcat

LEMMA NumberedCut ==
    ASSUME NEW s \in Seq(Nat), NEW n \in Nat, NEW k \in 0..Len(s), Numbered(s, n)
    PROVE  /\ SubSeq(s, 1, k) \in Seq(Nat) /\ Len(SubSeq(s, 1, k)) = k
           /\ SubSeq(s, k + 1, Len(s)) \in Seq(Nat)
           /\ Len(SubSeq(s, k + 1, Len(s))) = Len(s) - k
           /\ Numbered(SubSeq(s, 1, k), n) /\ Numbered(SubSeq(s, k + 1, Len(s)), n + k)
<1>1. /\ \A i \in 1..k : SubSeq(s, 1, k)[i] = s[i]
      /\ \A i \in 1..(Len(s) - k) : SubSeq(s, k + 1, Len(s))[i] = s[k + i]
  OBVIOUS
<1>2. \A i \in 1..(Len(s) - k) : k + i \in 1..Len(s) /\ n + (k + i) = n + k + i
  OBVIOUS
<1>3. /\ SubSeq(s, 1, k) \in Seq(Nat) /\ Len(SubSeq(s, 1, k)) = k
      /\ SubSeq(s, k + 1, Len(s)) \in Seq(Nat)
      /\ Len(SubSeq(s, k + 1, Len(s))) = Len(s) - k
  OBVIOUS
<1> QED
  BY <1>1, <1>2, <1>3 DEF Numbered

WriteStates ==
    [next : Nat \ {0}, got : Seq(Nat), queue : Seq(Nat), polled : BOOLEAN,
     wants : [Writers -> Nat], fails : SUBSET Writers, hungUp : BOOLEAN,
     exited : BOOLEAN, posted : BOOLEAN, told : Nat, open : BOOLEAN]
Drops(x) == x.exited \/ x.fails # {}
WriteGood(x) ==
    /\ Drops(x) => x.hungUp
    /\ x.posted => x.exited
    /\ x.told = IF x.exited THEN 1 ELSE 0
    /\ ~x.open => ~x.polled /\ x.fails = {} /\ \A t \in Writers : x.wants[t] = 0
    /\ Numbered(x.got, 0) /\ Len(x.got) < x.next
    /\ Drops(x) \/ (Numbered(x.queue, Len(x.got)) /\ Len(x.got) + Len(x.queue) = x.next - 1)
    /\ (x.queue # <<>> /\ ~x.exited /\ x.open) => x.polled
\* The inductive invariant of this scene.
WriteInv == io \in WriteStates /\ WriteGood(io)

LEMMA Numbers ==
    ASSUME NEW w \in Nat, NEW k \in Nat \ {0}
    PROVE  LET data == [i \in 1..w |-> k + i - 1]
           IN data \in Seq(Nat) /\ Len(data) = w /\ Numbered(data, k - 1)
<1> DEFINE data == [i \in 1..w |-> k + i - 1]
<1>1. data \in [1..w -> Nat]
  OBVIOUS
<1>2. data \in Seq(Nat) /\ Len(data) = w
  BY <1>1
<1>3. \A i \in 1..w : data[i] = k - 1 + i
  OBVIOUS
<1> QED
  BY <1>2, <1>3 DEF Numbered

LEMMA WriteLockedKeeps ==
    ASSUME NEW x \in WriteStates, WriteGood(x),
           NEW t \in Writers, x.wants[t] > 0, NEW n \in Takes(x, t)
    PROVE  WriteLocked(x, t, n) \in WriteStates /\ WriteGood(WriteLocked(x, t, n))
<1>1. PICK w \in Nat \ {0} : w = x.wants[t]
  BY DEF WriteStates
<1>2. /\ n \in 0..w /\ x.open /\ x.next \in Nat \ {0}
      /\ x.got \in Seq(Nat) /\ x.queue \in Seq(Nat) /\ x.wants \in [Writers -> Nat]
      /\ Len(x.got) \in Nat /\ Len(x.queue) \in Nat /\ Len(x.got) < x.next
  BY <1>1 DEF WriteStates, WriteGood, Takes
<1>8. PICK g \in Nat, q \in Nat, k \in Nat \ {0} :
          g = Len(x.got) /\ q = Len(x.queue) /\ k = x.next
  BY <1>2
<1>9. n \in Nat /\ n <= w
  BY <1>2
<1>3. PICK data \in Seq(Nat) : /\ data = [i \in 1..w |-> x.next + i - 1]
                               /\ Len(data) = w /\ Numbered(data, x.next - 1)
  BY <1>1, <1>2, Numbers
<1>4. PICK took \in Seq(Nat), rest \in Seq(Nat) :
          /\ took = SubSeq(data, 1, n) /\ rest = SubSeq(data, n + 1, Len(data))
          /\ Len(took) = n /\ Len(rest) = w - n
          /\ Numbered(took, x.next - 1) /\ Numbered(rest, x.next - 1 + n)
  <2>1. x.next - 1 \in Nat /\ n \in 0..Len(data)
    BY <1>8, <1>2, <1>3
  <2>2. /\ SubSeq(data, 1, n) \in Seq(Nat) /\ Len(SubSeq(data, 1, n)) = n
        /\ SubSeq(data, n + 1, Len(data)) \in Seq(Nat)
        /\ Len(SubSeq(data, n + 1, Len(data))) = Len(data) - n
        /\ Numbered(SubSeq(data, 1, n), x.next - 1)
        /\ Numbered(SubSeq(data, n + 1, Len(data)), x.next - 1 + n)
    BY <1>3, <2>1, NumberedCut
  <2> QED
    BY <1>3, <2>2
<1>5. PICK y : y = WriteLocked(x, t, n)
  OBVIOUS
<1>6. CASE x.queue = <<>> /\ x.hungUp
  <2>1. y = [x EXCEPT !.wants = [@ EXCEPT ![t] = 0], !.fails = @ \cup {t}]
    BY <1>5, <1>6 DEF WriteLocked, WriteStates
  <2>2. y = [next |-> x.next, got |-> x.got, queue |-> x.queue, polled |-> x.polled,
             wants |-> [x.wants EXCEPT ![t] = 0], fails |-> x.fails \cup {t},
             hungUp |-> x.hungUp, exited |-> x.exited, posted |-> x.posted,
             told |-> x.told, open |-> x.open]
    BY <2>1 DEF WriteStates
  <2>3. [x.wants EXCEPT ![t] = 0] \in [Writers -> Nat] /\ x.fails \cup {t} \in SUBSET Writers
    BY <1>2 DEF WriteStates
  <2>4. y \in WriteStates
    BY <2>2, <2>3 DEF WriteStates
  <2>5. WriteGood(y)
    BY <1>2, <1>6, <2>2 DEF WriteGood, Drops
  <2> QED
    BY <1>5, <2>4, <2>5
<1>7. CASE ~(x.queue = <<>> /\ x.hungUp)
  <2>1. y = [next |-> x.next + w, got |-> x.got \o took, queue |-> x.queue \o rest,
             polled |-> (x.polled \/ rest # <<>>),
             wants |-> [x.wants EXCEPT ![t] = 0], fails |-> x.fails,
             hungUp |-> x.hungUp, exited |-> x.exited, posted |-> x.posted,
             told |-> x.told, open |-> x.open]
    BY <1>1, <1>3, <1>4, <1>5, <1>7 DEF WriteLocked, WriteStates
  <2>2. y \in WriteStates
    <3>1. /\ x.got \o took \in Seq(Nat) /\ x.queue \o rest \in Seq(Nat)
          /\ x.next + w \in Nat \ {0} /\ [x.wants EXCEPT ![t] = 0] \in [Writers -> Nat]
      BY <1>1, <1>2
    <3>2. (x.polled \/ rest # <<>>) \in BOOLEAN
      OBVIOUS
    <3> QED
      BY <2>1, <3>1, <3>2 DEF WriteStates
  \* What the kernel takes at once, nobody waiting, follows what it took before.
  <2>3. n = 0 \/ (x.queue = <<>> /\ ~Drops(x))
    BY DEF Takes, WriteGood
  <2>4. Numbered(y.got, 0) /\ Len(y.got) = Len(x.got) + n
    <3>1. CASE n = 0
      <4>1. x.got \o took = x.got
        BY <1>2, <1>4, <3>1
      <4> QED
        BY <1>2, <2>1, <3>1, <4>1 DEF WriteGood
    <3>2. CASE x.queue = <<>> /\ ~Drops(x)
      <4>1. Len(x.queue) = 0
        BY <3>2
      <4>2. Len(x.got) + Len(x.queue) = x.next - 1
        BY <3>2 DEF WriteGood
      <4>3. x.next - 1 = 0 + Len(x.got)
        BY <1>2, <4>1, <4>2
      <4>4. Numbered(x.got, 0) /\ Numbered(took, 0 + Len(x.got))
        BY <1>4, <4>3 DEF WriteGood
      <4>5. Numbered(x.got \o took, 0) /\ Len(x.got \o took) = Len(x.got) + Len(took)
        BY <1>2, <4>4, NumberedConcat
      <4> QED
        BY <1>4, <2>1, <4>5
    <3> QED
      BY <2>3, <3>1, <3>2
  <2>5. Drops(x) \/ (Numbered(y.queue, Len(y.got)) /\ Len(y.got) + Len(y.queue) = y.next - 1)
    <3> SUFFICES ASSUME ~Drops(x)
                 PROVE  Numbered(y.queue, Len(y.got)) /\ Len(y.got) + Len(y.queue) = y.next - 1
      OBVIOUS
    <3>1. Numbered(x.queue, Len(x.got)) /\ Len(x.got) + Len(x.queue) = x.next - 1
      BY DEF WriteGood
    <3>4. g + q = k - 1
      BY <1>8, <3>1
    <3>2. CASE n = 0
      <4>1. x.next - 1 + n = Len(x.got) + Len(x.queue) /\ Len(x.got) + n = Len(x.got)
        <5>1. k - 1 + n = g + q /\ g + n = g
          BY <3>2, <3>4
        <5> QED
          BY <1>8, <5>1
      <4>2. Numbered(rest, Len(x.got) + Len(x.queue))
        BY <1>4, <4>1
      <4>3. Numbered(x.queue \o rest, Len(x.got)) /\ Len(x.queue \o rest) = Len(x.queue) + Len(rest)
        BY <1>2, <3>1, <4>2, NumberedConcat
      <4>4. Len(rest) = w
        BY <1>1, <1>4, <3>2
      <4>6. y.queue = x.queue \o rest /\ y.next = x.next + w /\ Len(y.got) = Len(x.got)
        BY <2>1, <2>4, <4>1
      <4>7. Numbered(y.queue, Len(y.got))
        BY <4>3, <4>6
      <4>8. Len(y.got) + Len(y.queue) = y.next - 1
        <5>1. Len(y.got) = g /\ Len(y.queue) = q + w /\ y.next = k + w
          BY <1>8, <4>3, <4>4, <4>6
        <5>2. g + (q + w) = k + w - 1
          BY <3>4
        <5> QED
          BY <5>1, <5>2
      <4> QED
        BY <4>7, <4>8
    <3>3. CASE x.queue = <<>>
      <4>1. x.queue \o rest = rest /\ Len(x.queue) = 0
        BY <3>3
      <4>2. x.next - 1 + n = Len(x.got) + n
        <5>1. k - 1 + n = g + n
          <6>1. q = 0
            BY <1>8, <4>1
          <6> QED
            BY <1>9, <3>4, <6>1
        <5> QED
          BY <1>8, <5>1
      <4>3. y.queue = rest /\ y.next = x.next + w
        BY <2>1, <4>1
      <4>4. Numbered(y.queue, Len(y.got))
        BY <1>4, <2>4, <4>2, <4>3
      <4>5. Len(y.got) + Len(y.queue) = y.next - 1
        <5>1. Len(y.got) = g + n /\ Len(y.queue) = w - n /\ y.next = k + w /\ q = 0
          BY <1>4, <1>8, <2>4, <4>1, <4>3
        <5>2. g + n + (w - n) = k + w - 1
          BY <1>9, <3>4, <5>1
        <5> QED
          BY <5>1, <5>2
      <4> QED
        BY <4>4, <4>5
    <3> QED
      BY <2>3, <3>2, <3>3
  <2>6. (y.queue # <<>> /\ ~y.exited /\ y.open) => y.polled
    <3>1. CASE x.queue # <<>>
      BY <2>1, <3>1 DEF WriteGood
    <3>2. CASE x.queue = <<>>
      <4>1. x.queue \o rest = rest
        BY <3>2
      <4> QED
        BY <2>1, <4>1
    <3> QED
      BY <3>1, <3>2
  <2>7. Len(y.got) < y.next
    BY <1>1, <1>2, <2>1, <2>4
  <2>8. /\ y.fails = x.fails /\ y.hungUp = x.hungUp /\ y.exited = x.exited
        /\ y.posted = x.posted /\ y.told = x.told /\ y.open = x.open /\ y.open
    BY <1>2, <2>1
  <2>9. WriteGood(y)
    BY <2>4, <2>5, <2>6, <2>7, <2>8 DEF WriteGood, Drops
  <2> QED
    BY <1>5, <2>2, <2>9
<1> QED
  BY <1>6, <1>7

LEMMA BeginWriteKeeps ==
    ASSUME NEW x \in WriteStates, WriteGood(x), NEW t \in Writers, NEW len \in Nat, x.open
    PROVE  BeginWrite(x, t, len) \in WriteStates /\ WriteGood(BeginWrite(x, t, len))
<1>1. CASE x.exited
  BY <1>1 DEF BeginWrite
<1>2. CASE ~x.exited
  <2>1. PICK y : y = BeginWrite(x, t, len)
    OBVIOUS
  <2>2. /\ y = [x EXCEPT !.wants = [@ EXCEPT ![t] = len]]
        /\ [x.wants EXCEPT ![t] = len] \in [Writers -> Nat]
    BY <1>2, <2>1 DEF BeginWrite, WriteStates
  <2>3. /\ y \in WriteStates /\ y.next = x.next /\ y.got = x.got /\ y.queue = x.queue
        /\ y.polled = x.polled /\ y.fails = x.fails /\ y.hungUp = x.hungUp /\ y.exited = x.exited
        /\ y.posted = x.posted /\ y.told = x.told /\ y.open = x.open
    BY <2>2 DEF WriteStates
  <2>4. WriteGood(y)
    BY <2>3 DEF WriteGood, Drops
  <2> QED
    BY <2>1, <2>3, <2>4
<1> QED
  BY <1>1, <1>2

LEMMA FlushKeeps ==
    ASSUME NEW x \in WriteStates, WriteGood(x), x.open, NEW n \in DOMAIN x.queue
    PROVE  FlushWriteQueue(x, n) \in WriteStates /\ WriteGood(FlushWriteQueue(x, n))
<1>1. x.queue \in Seq(Nat) /\ x.got \in Seq(Nat) /\ x.next \in Nat \ {0} /\ n \in 1..Len(x.queue)
      /\ x.queue # <<>>
  BY DEF WriteStates
<1>2. PICK y : y = FlushWriteQueue(x, n)
  OBVIOUS
<1>3. CASE x.exited
  BY <1>3 DEF FlushWriteQueue
<1>4. CASE ~x.exited /\ x.hungUp
  <2>1. /\ y = [x EXCEPT !.fails = @ \cup {"main"}] /\ x.fails \cup {"main"} \in SUBSET Writers
    BY <1>1, <1>2, <1>4 DEF FlushWriteQueue, WriteStates, Writers
  <2>2. /\ y \in WriteStates /\ y.next = x.next /\ y.got = x.got /\ y.queue = x.queue
        /\ y.polled = x.polled /\ y.fails # {} /\ y.hungUp /\ y.exited = x.exited
        /\ y.posted = x.posted /\ y.told = x.told /\ y.open /\ y.wants = x.wants
    BY <1>4, <2>1 DEF WriteStates
  <2>3. WriteGood(y)
    BY <2>2 DEF WriteGood, Drops
  <2> QED
    BY <1>2, <2>2, <2>3
<1>5. CASE ~x.exited /\ ~x.hungUp
  <2>1. PICK g \in Nat, q \in Nat, k \in Nat \ {0} :
            g = Len(x.got) /\ q = Len(x.queue) /\ k = x.next
    BY <1>1
  <2>2. ~Drops(x) /\ Numbered(x.queue, g) /\ Numbered(x.got, 0) /\ g + q = k - 1
    BY <1>5, <2>1 DEF WriteGood
  <2>3. n \in 0..Len(x.queue) /\ n \in Nat /\ n <= q /\ 0 + Len(x.got) = g
    BY <1>1, <2>1
  <2>4. PICK took \in Seq(Nat), rest \in Seq(Nat) :
            /\ took = SubSeq(x.queue, 1, n) /\ rest = SubSeq(x.queue, n + 1, Len(x.queue))
            /\ Len(took) = n /\ Len(rest) = Len(x.queue) - n
            /\ Numbered(took, g) /\ Numbered(rest, g + n)
    <3>1. /\ SubSeq(x.queue, 1, n) \in Seq(Nat) /\ Len(SubSeq(x.queue, 1, n)) = n
          /\ SubSeq(x.queue, n + 1, Len(x.queue)) \in Seq(Nat)
          /\ Len(SubSeq(x.queue, n + 1, Len(x.queue))) = Len(x.queue) - n
          /\ Numbered(SubSeq(x.queue, 1, n), g)
          /\ Numbered(SubSeq(x.queue, n + 1, Len(x.queue)), g + n)
      BY <1>1, <2>1, <2>2, <2>3, NumberedCut
    <3> QED
      BY <3>1
  <2>5. /\ x.got \o took \in Seq(Nat) /\ Len(x.got \o took) = g + n /\ Numbered(x.got \o took, 0)
    <3>1. Numbered(took, Len(x.got))
      BY <2>1, <2>4
    <3>2. /\ x.got \o took \in Seq(Nat) /\ Len(x.got \o took) = Len(x.got) + Len(took)
          /\ Numbered(x.got \o took, 0)
      BY <1>1, <2>2, <2>4, <3>1, NumberedOn
    <3> QED
      BY <2>1, <2>4, <3>2
  <2>6. y = [x EXCEPT !.got = x.got \o took, !.queue = rest, !.polled = rest # <<>>]
    BY <1>1, <1>2, <1>5, <2>4 DEF FlushWriteQueue, WriteStates
  <2>7. /\ y \in WriteStates /\ y.next = k /\ y.got = x.got \o took /\ y.queue = rest
        /\ y.polled = (rest # <<>>) /\ y.fails = x.fails /\ y.hungUp = x.hungUp
        /\ y.exited = x.exited /\ y.posted = x.posted /\ y.told = x.told /\ y.open
        /\ y.wants = x.wants
    <3>1. (rest # <<>>) \in BOOLEAN
      OBVIOUS
    <3> QED
      BY <2>1, <2>5, <2>6, <3>1 DEF WriteStates
  <2>8. g + n < k /\ g + n + (q - n) = k - 1
    BY <2>2, <2>3
  <2>9. Len(y.got) < y.next /\ Len(y.got) + Len(y.queue) = y.next - 1
        /\ Numbered(y.queue, Len(y.got)) /\ Numbered(y.got, 0)
    BY <2>1, <2>4, <2>5, <2>7, <2>8
  <2>10. WriteGood(y)
    BY <2>7, <2>9 DEF WriteGood, Drops
  <2> QED
    BY <1>2, <2>7, <2>10
<1> QED
  BY <1>3, <1>4, <1>5

\* What changes neither what was written nor what waits.
LEMMA EndKeeps ==
    ASSUME NEW x \in WriteStates, WriteGood(x)
    PROVE  /\ (x.open /\ x.hungUp) => ExitSeen(x) \in WriteStates /\ WriteGood(ExitSeen(x))
           /\ \A t \in x.fails : ReportExit(x, t) \in WriteStates /\ WriteGood(ReportExit(x, t))
           /\ UnwatchPosted(x) \in WriteStates
           /\ (x.posted /\ x.open) => WriteGood(UnwatchPosted(x))
           /\ CloseMaster(x) \in WriteStates
           /\ (x.fails = {} /\ \A t \in Writers : x.wants[t] = 0) => WriteGood(CloseMaster(x))
           /\ [x EXCEPT !.hungUp = TRUE] \in WriteStates
           /\ WriteGood([x EXCEPT !.hungUp = TRUE])
<1>1. ASSUME x.open, x.hungUp
      PROVE  /\ ExitSeen(x) \in WriteStates /\ WriteGood(ExitSeen(x))
             /\ ExitSeen(x).exited /\ ExitSeen(x).hungUp /\ ExitSeen(x).open
  <2>1. CASE x.exited
    BY <1>1, <2>1 DEF ExitSeen
  <2>2. CASE ~x.exited
    <3>1. PICK y : y = ExitSeen(x)
      OBVIOUS
    <3>2. y = [x EXCEPT !.exited = TRUE, !.posted = TRUE, !.told = 1] /\ x.told = 0
      BY <2>2, <3>1 DEF ExitSeen, WriteGood
    <3>3. /\ y \in WriteStates /\ y.next = x.next /\ y.got = x.got /\ y.queue = x.queue
          /\ y.polled = x.polled /\ y.fails = x.fails /\ y.hungUp /\ y.exited
          /\ y.told = 1 /\ y.open
      BY <1>1, <3>2 DEF WriteStates
    <3> QED
      BY <3>1, <3>3 DEF WriteGood, Drops
  <2> QED
    BY <2>1, <2>2
<1>2. ASSUME NEW t \in x.fails PROVE ReportExit(x, t) \in WriteStates /\ WriteGood(ReportExit(x, t))
  <2>1. x.open /\ x.hungUp
    BY DEF WriteGood, Drops
  <2>2. PICK e \in WriteStates : e = ExitSeen(x) /\ WriteGood(e) /\ e.exited /\ e.hungUp /\ e.open
    BY <1>1, <2>1
  <2>3. PICK y : y = ReportExit(x, t)
    OBVIOUS
  <2>4. y = [e EXCEPT !.fails = @ \ {t}]
    BY <2>2, <2>3 DEF ReportExit
  <2>5. /\ y \in WriteStates /\ y.next = e.next /\ y.got = e.got /\ y.queue = e.queue
        /\ y.polled = e.polled /\ y.hungUp /\ y.exited /\ y.posted = e.posted
        /\ y.told = e.told /\ y.open
    BY <2>2, <2>4 DEF WriteStates
  <2>6. WriteGood(y)
    BY <2>2, <2>5 DEF WriteGood, Drops
  <2> QED
    BY <2>3, <2>5, <2>6
<1>3. UnwatchPosted(x) \in WriteStates
      /\ ((x.posted /\ x.open) => WriteGood(UnwatchPosted(x)))
  <2>1. PICK y : y = UnwatchPosted(x)
    OBVIOUS
  <2>2. /\ y \in WriteStates /\ y.next = x.next /\ y.got = x.got /\ y.queue = x.queue
        /\ ~y.polled /\ y.fails = x.fails /\ y.hungUp = x.hungUp /\ y.exited = x.exited
        /\ ~y.posted /\ y.told = x.told /\ y.open = x.open
    BY <2>1 DEF UnwatchPosted, WriteStates
  <2> QED
    BY <2>1, <2>2 DEF WriteGood, Drops
<1>4. CloseMaster(x) \in WriteStates
      /\ ((x.fails = {} /\ \A t \in Writers : x.wants[t] = 0) => WriteGood(CloseMaster(x)))
  <2>1. PICK y : y = CloseMaster(x)
    OBVIOUS
  <2>2. /\ y \in WriteStates /\ y.next = x.next /\ y.got = x.got /\ y.queue = x.queue
        /\ ~y.polled /\ y.fails = x.fails /\ y.hungUp = x.hungUp /\ y.exited = x.exited
        /\ y.posted = x.posted /\ y.told = x.told /\ ~y.open /\ y.wants = x.wants
    BY <2>1 DEF CloseMaster, WriteStates
  <2> QED
    BY <2>1, <2>2 DEF WriteGood, Drops
<1>5. [x EXCEPT !.hungUp = TRUE] \in WriteStates /\ WriteGood([x EXCEPT !.hungUp = TRUE])
  <2>1. PICK y : y = [x EXCEPT !.hungUp = TRUE]
    OBVIOUS
  <2>2. /\ y \in WriteStates /\ y.next = x.next /\ y.got = x.got /\ y.queue = x.queue
        /\ y.polled = x.polled /\ y.fails = x.fails /\ y.hungUp /\ y.exited = x.exited
        /\ y.posted = x.posted /\ y.told = x.told /\ y.open = x.open /\ y.wants = x.wants
    BY <2>1 DEF WriteStates
  <2> QED
    BY <2>1, <2>2 DEF WriteGood, Drops
<1> QED
  BY <1>1, <1>2, <1>3, <1>4, <1>5

LEMMA WriteStep == WriteInv /\ [Next]_vars => WriteInv'
<1> SUFFICES ASSUME WriteInv, [Next]_vars PROVE WriteInv'
  OBVIOUS
<1> USE DEF WriteInv, Writes, Unbusy
<1>1. CASE UNCHANGED io
  BY <1>1
<1>2. CASE WriteToPTY
  <2>1. PICK t \in Writers, len \in 1..2 : Unbusy(t) /\ io' = BeginWrite(io, t, len)
    BY <1>2 DEF WriteToPTY
  <2> QED
    BY <2>1, BeginWriteKeeps
<1>3. CASE WriteUnderLock
  <2>1. PICK t \in Writers : io.wants[t] > 0 /\ \E n \in Takes(io, t) : io' = WriteLocked(io, t, n)
    BY <1>3 DEF WriteUnderLock
  <2> QED
    BY <2>1, WriteLockedKeeps
<1>4. CASE Writable
  <2>1. io.open /\ \E n \in DOMAIN io.queue : io' = FlushWriteQueue(io, n)
    BY <1>4 DEF Writable
  <2> QED
    BY <2>1, FlushKeeps
<1>5. CASE ReportFailure
  BY <1>5, EndKeeps DEF ReportFailure
<1>6. CASE HangUp
  BY <1>6, EndKeeps DEF HangUp
<1>7. CASE ReaderSeesEnd
  BY <1>7, EndKeeps DEF ReaderSeesEnd
<1>8. CASE RunPosted
  BY <1>8, EndKeeps DEF RunPosted
<1>9. CASE DestroyTerminal
  <2>1. io.fails = {} /\ (\A t \in Writers : io.wants[t] = 0) /\ io' = CloseMaster(io)
    BY <1>9 DEF DestroyTerminal, WriteStates
  <2> QED
    BY <2>1, EndKeeps
<1> QED
  BY <1>1, <1>2, <1>3, <1>4, <1>5, <1>6, <1>7, <1>8, <1>9, ScenesApart DEF Writing, WriteProceeds

(* What the threads write reaches the program as it was written, whatever  *)
(* the kernel takes at once, whoever flushes the rest, and wherever the    *)
(* program hangs up; a queue that waits is watched, a closed descriptor is *)
(* not, and the end is reported once (writeToPTY, flushWriteQueue and      *)
(* markExited of Terminal.cpp).                                            *)
THEOREM WritesReachTheProgram == Spec => []WritesArrive
<1>1. Init => WriteInv
  <2> SUFFICES ASSUME Init PROVE WriteInv
    OBVIOUS
  <2>1. io = WriteInit
    BY DEF Init
  <2>2. [t \in Writers |-> 0] \in [Writers -> Nat] /\ <<>> \in Seq(Nat) /\ Len(<<>>) = 0
    OBVIOUS
  <2>3. io \in WriteStates
    BY <2>1, <2>2 DEF WriteInit, WriteStates
  <2> QED
    BY <2>1, <2>2, <2>3 DEF WriteInit, WriteGood, WriteInv, Numbered, Drops
<1>2. WriteInv => WritesArrive
  <2> SUFFICES ASSUME WriteInv PROVE WritesArrive
    OBVIOUS
  <2>1. /\ io.got \in Seq(Nat) /\ io.queue \in Seq(Nat) /\ Numbered(io.got, 0)
        /\ Len(io.got) < io.next /\ io.next \in Nat \ {0} /\ io.told \in Nat
    BY DEF WriteInv, WriteStates, WriteGood
  <2>2. Sent \in Seq(Nat) /\ Len(Sent) = io.next - 1 /\ \A i \in 1..Len(Sent) : Sent[i] = i
    BY <2>1 DEF Sent
  <2>3. IsPrefix(io.got, Sent)
    BY <2>1, <2>2 DEF IsPrefix, Numbered
  <2>4. Dropping \/ io.got \o io.queue = Sent
    <3> SUFFICES ASSUME ~Dropping PROVE io.got \o io.queue = Sent
      OBVIOUS
    <3>1. Numbered(io.queue, Len(io.got)) /\ Len(io.got) + Len(io.queue) = io.next - 1
      BY DEF Dropping, WriteInv, WriteGood, Drops
    <3>2. /\ io.got \o io.queue \in Seq(Nat) /\ Len(io.got \o io.queue) = Len(Sent)
          /\ Numbered(io.got \o io.queue, 0)
      BY <2>1, <2>2, <3>1, NumberedOn
    <3>3. \A i \in 1..Len(Sent) : (io.got \o io.queue)[i] = Sent[i]
      <4>1. \A i \in 1..Len(Sent) : (io.got \o io.queue)[i] = 0 + i
        BY <2>2, <3>2 DEF Numbered
      <4>2. \A i \in Nat : 0 + i = i
        OBVIOUS
      <4>3. \A i \in 1..Len(Sent) : i \in Nat
        OBVIOUS
      <4> HIDE DEF Sent
      <4> QED
        BY <2>2, <4>1, <4>2, <4>3
    <3>4. \A s, t \in Seq(Nat) :
             (Len(s) = Len(t) /\ \A i \in 1..Len(t) : s[i] = t[i]) => s = t
      OBVIOUS
    <3> HIDE DEF Sent
    <3> QED
      BY <2>2, <3>2, <3>3, <3>4
  <2>5. (Waits => io.polled) /\ (~io.open => ~io.polled) /\ io.told <= 1
    BY DEF WriteInv, WriteGood, Waits
  <2> QED
    BY <2>3, <2>4, <2>5 DEF WritesArrive
<1> QED
  BY <1>1, <1>2, WriteStep, PTL DEF Spec

-----------------------------------------------------------------------------
(* Embedded terminals.  What the render thread's copy holds is not yet     *)
(* buried, and what a frame holds was buried, if at all, since the frame   *)
(* began; a handler holds something only while no grave is swept.          *)

Owners == {"none", "map", "evicted", "taken", "grave", "freed"}
EmbeddedStates ==
    [place : [Embeds -> Owners], focus : {0} \cup Embeds, gone : BOOLEAN,
     listens : SUBSET Embeds, told : [Embeds -> Nat],
     pc : {"events", "click", "uses", "drain", "sweep"}, held : SUBSET Embeds,
     hit : {0} \cup Embeds, batch : SUBSET Embeds, shadow : SUBSET Embeds,
     drawing : BOOLEAN, frame : SUBSET Embeds, done : Nat, stamp : [Embeds -> Nat]]
Unburied == {"map", "evicted", "taken"}
EmbeddedGood(g) ==
    /\ \A k \in g.shadow : g.place[k] \in Unburied
    /\ \A k \in g.frame : g.place[k] \in Unburied \/ (g.place[k] = "grave" /\ g.stamp[k] = g.done)
    /\ ~g.drawing => g.frame = {}
    /\ (g.pc # "uses") => g.held = {}
    /\ (g.pc # "drain") => g.batch = {}
    /\ \A k \in g.held : g.place[k] # "freed"
    /\ \A k \in g.batch : g.place[k] = "taken"
    /\ \A k \in Embeds : g.place[k] = "taken" => k \in g.batch
    /\ \A k \in Embeds :
          /\ g.told[k] <= 1
          /\ (g.place[k] = "none") => (k \notin g.listens /\ g.told[k] = 0)
          /\ (k \in g.listens /\ g.place[k] \notin {"grave", "freed"}) => g.told[k] = 0
          /\ (k \in g.listens /\ g.place[k] \in {"grave", "freed"} /\ ~g.gone) => g.told[k] = 1
\* The inductive invariant of this scene.
EmbeddedInv == pane \in EmbeddedStates /\ EmbeddedGood(pane)

LEMMA LeastLine ==
    ASSUME NEW S \in SUBSET Embeds, S # {}
    PROVE  Min(S) \in S
<1>1. S \in SUBSET Nat
  BY EmbeddedAssumption DEF Embeds
<1> QED
  BY <1>1, Smallest DEF Min

\* What no property looks at: focus and hit.
LEMMA FocusMoves ==
    ASSUME NEW g \in EmbeddedStates, EmbeddedGood(g), NEW f \in {0} \cup Embeds
    PROVE  [g EXCEPT !.focus = f] \in EmbeddedStates /\ EmbeddedGood([g EXCEPT !.focus = f])
<1>1. PICK y : y = [g EXCEPT !.focus = f]
  OBVIOUS
<1>2. /\ y \in EmbeddedStates /\ y.place = g.place /\ y.gone = g.gone /\ y.listens = g.listens
      /\ y.told = g.told /\ y.pc = g.pc /\ y.held = g.held /\ y.batch = g.batch
      /\ y.shadow = g.shadow /\ y.drawing = g.drawing /\ y.frame = g.frame
      /\ y.done = g.done /\ y.stamp = g.stamp
  BY <1>1 DEF EmbeddedStates
<1>3. EmbeddedGood(y)
  BY <1>2 DEF EmbeddedGood
<1> QED
  BY <1>1, <1>2, <1>3

LEMMA UnfocusMoves ==
    ASSUME NEW g \in EmbeddedStates, NEW ks
    PROVE  \E f \in {0} \cup Embeds : Unfocus(g, ks) = [g EXCEPT !.focus = f]
<1>1. g.focus \in {0} \cup Embeds
  BY DEF EmbeddedStates
<1> QED
  BY <1>1 DEF Unfocus

LEMMA Owned == \A w \in {"none", "map", "evicted", "taken", "grave", "freed"} : w \in Owners
  BY DEF Owners

LEMMA PlaceAfterMove ==
    ASSUME NEW g \in EmbeddedStates, NEW ks, NEW where \in Owners
    PROVE  \E pl \in [Embeds -> Owners] :
              /\ Move(g, ks, where) = [g EXCEPT !.place = pl]
              /\ \A j \in Embeds : pl[j] = IF j \in ks THEN where ELSE g.place[j]
<1>1. g.place \in [Embeds -> Owners]
  BY DEF EmbeddedStates
<1>2. [k \in Embeds |-> IF k \in ks THEN where ELSE g.place[k]] \in [Embeds -> Owners]
  BY <1>1
<1>3. Move(g, ks, where) = [g EXCEPT !.place = [k \in Embeds |->
                                      IF k \in ks THEN where ELSE g.place[k]]]
  BY DEF Move, EmbeddedStates
<1> QED
  BY <1>2, <1>3

\* A line's terminal is made, set aside, or taken by the tick.
LEMMA AttachKeeps ==
    ASSUME NEW g \in EmbeddedStates, EmbeddedGood(g), NEW k \in At(g, "none")
    PROVE  AttachEmbedded(g, k) \in EmbeddedStates /\ EmbeddedGood(AttachEmbedded(g, k))
<1>1. PICK y : y = AttachEmbedded(g, k)
  OBVIOUS
<1>2. PICK pl \in [Embeds -> Owners] :
          /\ Move(g, {k}, "map") = [g EXCEPT !.place = pl]
          /\ \A j \in Embeds : pl[j] = IF j \in {k} THEN "map" ELSE g.place[j]
  BY Owned, PlaceAfterMove
<1>3. y = [g EXCEPT !.place = pl, !.listens = @ \cup {k}] /\ k \in Embeds /\ g.place[k] = "none"
  BY <1>1, <1>2 DEF AttachEmbedded, At, EmbeddedStates
<1>4. /\ y \in EmbeddedStates /\ y.place = pl /\ y.gone = g.gone /\ y.listens = g.listens \cup {k}
      /\ y.told = g.told /\ y.pc = g.pc /\ y.held = g.held /\ y.batch = g.batch
      /\ y.shadow = g.shadow /\ y.drawing = g.drawing /\ y.frame = g.frame
      /\ y.done = g.done /\ y.stamp = g.stamp
  BY <1>3 DEF EmbeddedStates
<1>5. \A j \in Embeds : pl[j] = IF j = k THEN "map" ELSE g.place[j]
  BY <1>2
<1>6. \A j \in g.shadow \cup g.frame \cup g.held \cup g.batch : j \in Embeds
  BY DEF EmbeddedStates
<1>7. EmbeddedGood(y)
  BY <1>3, <1>4, <1>5, <1>6 DEF EmbeddedGood, Unburied
<1> QED
  BY <1>1, <1>4, <1>7

LEMMA SetAsideKeeps ==
    ASSUME NEW g \in EmbeddedStates, EmbeddedGood(g), NEW ks \in SUBSET At(g, "map")
    PROVE  Move(g, ks, "evicted") \in EmbeddedStates /\ EmbeddedGood(Move(g, ks, "evicted"))
<1>1. PICK y : y = Move(g, ks, "evicted")
  OBVIOUS
<1>2. PICK pl \in [Embeds -> Owners] :
          /\ y = [g EXCEPT !.place = pl]
          /\ \A j \in Embeds : pl[j] = IF j \in ks THEN "evicted" ELSE g.place[j]
  BY <1>1, Owned, PlaceAfterMove
<1>3. /\ y \in EmbeddedStates /\ y.place = pl /\ y.gone = g.gone /\ y.listens = g.listens
      /\ y.told = g.told /\ y.pc = g.pc /\ y.held = g.held /\ y.batch = g.batch
      /\ y.shadow = g.shadow /\ y.drawing = g.drawing /\ y.frame = g.frame
      /\ y.done = g.done /\ y.stamp = g.stamp
  BY <1>2 DEF EmbeddedStates
<1>4. \A j \in Embeds : /\ pl[j] = IF j \in ks THEN "evicted" ELSE g.place[j]
                        /\ j \in ks => g.place[j] = "map"
  BY <1>2 DEF At
<1>5. \A j \in g.shadow \cup g.frame \cup g.held \cup g.batch : j \in Embeds
  BY DEF EmbeddedStates
<1>6. EmbeddedGood(y)
  BY <1>3, <1>4, <1>5 DEF EmbeddedGood, Unburied
<1> QED
  BY <1>1, <1>3, <1>6

LEMMA DrainKeeps ==
    ASSUME NEW g \in EmbeddedStates, EmbeddedGood(g), g.pc = "events"
    PROVE  DrainEvicted(g) \in EmbeddedStates /\ EmbeddedGood(DrainEvicted(g))
<1>1. PICK y : y = DrainEvicted(g)
  OBVIOUS
<1>2. PICK pl \in [Embeds -> Owners] :
          /\ Move(g, At(g, "evicted"), "taken") = [g EXCEPT !.place = pl]
          /\ \A j \in Embeds : pl[j] = IF j \in At(g, "evicted") THEN "taken" ELSE g.place[j]
  BY Owned, PlaceAfterMove
<1>3. y = [g EXCEPT !.place = pl, !.pc = "drain", !.batch = At(g, "evicted")]
      /\ At(g, "evicted") \in SUBSET Embeds
  BY <1>1, <1>2 DEF DrainEvicted, At, EmbeddedStates
<1>4. /\ y \in EmbeddedStates /\ y.place = pl /\ y.gone = g.gone /\ y.listens = g.listens
      /\ y.told = g.told /\ y.pc = "drain" /\ y.held = g.held /\ y.batch = At(g, "evicted")
      /\ y.shadow = g.shadow /\ y.drawing = g.drawing /\ y.frame = g.frame
      /\ y.done = g.done /\ y.stamp = g.stamp
  BY <1>3 DEF EmbeddedStates
<1>5. \A j \in Embeds : pl[j] = IF g.place[j] = "evicted" THEN "taken" ELSE g.place[j]
  BY <1>2 DEF At
<1>6. \A j \in g.shadow \cup g.frame \cup g.held : j \in Embeds
  BY DEF EmbeddedStates
<1>7. \A j \in At(g, "evicted") : j \in Embeds /\ g.place[j] = "evicted"
  BY DEF At
<1>8. \A j \in Embeds : g.place[j] = "evicted" => j \in At(g, "evicted")
  BY DEF At
<1>9. g.batch = {} /\ g.held = {}
  BY DEF EmbeddedGood
<1>10. EmbeddedGood(y)
  BY <1>4, <1>5, <1>6, <1>7, <1>8, <1>9 DEF EmbeddedGood, Unburied
<1> QED
  BY <1>1, <1>4, <1>10

\* One is buried: by its script, with its script, or by the tick.
LEMMA BurialKeeps ==
    ASSUME NEW g \in EmbeddedStates, EmbeddedGood(g), NEW k \in Embeds, g.place[k] \in Unburied,
           NEW y \in EmbeddedStates,
           \A j \in Embeds : /\ y.place[j] = IF j = k THEN "grave" ELSE g.place[j]
                             /\ y.stamp[j] = IF j = k THEN g.done ELSE g.stamp[j]
                             /\ j # k => y.told[j] = g.told[j]
                             /\ j # k => (j \in y.listens <=> j \in g.listens),
           y.told[k] <= 1, k \in y.listens => y.told[k] = 1,
           y.gone = g.gone, y.shadow = g.shadow \ {k}, y.pc = g.pc, y.held = g.held,
           y.batch = g.batch \ {k}, y.drawing = g.drawing, y.frame = g.frame, y.done = g.done
    PROVE  EmbeddedGood(y)
<1>1. \A j \in g.shadow \cup g.frame \cup g.held \cup g.batch : j \in Embeds
  BY DEF EmbeddedStates
<1>2. /\ \A j \in y.shadow : y.place[j] \in Unburied
      /\ \A j \in y.frame : y.place[j] \in Unburied \/ (y.place[j] = "grave" /\ y.stamp[j] = y.done)
      /\ ~y.drawing => y.frame = {}
  BY <1>1 DEF EmbeddedGood
<1>3. /\ (y.pc # "uses") => y.held = {}
      /\ (y.pc # "drain") => y.batch = {}
      /\ \A j \in y.held : y.place[j] # "freed"
      /\ \A j \in y.batch : y.place[j] = "taken"
      /\ \A j \in Embeds : y.place[j] = "taken" => j \in y.batch
  BY <1>1 DEF EmbeddedGood
<1>4. ASSUME NEW j \in Embeds
      PROVE  /\ y.told[j] <= 1
             /\ (y.place[j] = "none") => (j \notin y.listens /\ y.told[j] = 0)
             /\ (j \in y.listens /\ y.place[j] \notin {"grave", "freed"}) => y.told[j] = 0
             /\ (j \in y.listens /\ y.place[j] \in {"grave", "freed"} /\ ~y.gone) => y.told[j] = 1
  BY <1>4 DEF EmbeddedGood
<1> QED
  BY <1>2, <1>3, <1>4 DEF EmbeddedGood

\* One is buried, all its state at hand; and a burial of one that its line has.
LEMMA Buried ==
    ASSUME NEW g \in EmbeddedStates, NEW k \in Embeds
    PROVE  \E z \in EmbeddedStates, pl \in [Embeds -> Owners], st \in [Embeds -> Nat] :
              /\ z = Bury(g, k)
              /\ \A j \in Embeds : /\ pl[j] = IF j = k THEN "grave" ELSE g.place[j]
                                   /\ st[j] = IF j = k THEN g.done ELSE g.stamp[j]
              /\ z.place = pl /\ z.gone = g.gone /\ z.listens = g.listens
              /\ z.told = g.told /\ z.pc = g.pc /\ z.held = g.held /\ z.batch = g.batch
              /\ z.shadow = g.shadow \ {k} /\ z.drawing = g.drawing /\ z.frame = g.frame
              /\ z.done = g.done /\ z.stamp = st
<1>1. PICK pl \in [Embeds -> Owners] :
          /\ Move(g, {k}, "grave") = [g EXCEPT !.place = pl]
          /\ \A j \in Embeds : pl[j] = IF j \in {k} THEN "grave" ELSE g.place[j]
  BY Owned, PlaceAfterMove
<1>2. g.done \in Nat /\ g.stamp \in [Embeds -> Nat] /\ g.shadow \ {k} \in SUBSET Embeds
  BY DEF EmbeddedStates
<1>3. PICK st \in [Embeds -> Nat] : st = [g.stamp EXCEPT ![k] = g.done]
  BY <1>2
<1>4. PICK z : z = Bury(g, k)
  OBVIOUS
<1>5. z = [[g EXCEPT !.place = pl] EXCEPT !.shadow = @ \ {k}, !.stamp[k] = g.done]
  BY <1>1, <1>4 DEF Bury
<1>6. z = [g EXCEPT !.place = pl, !.shadow = g.shadow \ {k}, !.stamp = st]
  BY <1>3, <1>5 DEF EmbeddedStates
<1>7. /\ z \in EmbeddedStates /\ z.place = pl /\ z.gone = g.gone /\ z.listens = g.listens
      /\ z.told = g.told /\ z.pc = g.pc /\ z.held = g.held /\ z.batch = g.batch
      /\ z.shadow = g.shadow \ {k} /\ z.drawing = g.drawing /\ z.frame = g.frame
      /\ z.done = g.done /\ z.stamp = st
  BY <1>1, <1>2, <1>3, <1>6 DEF EmbeddedStates
<1>8. \A j \in Embeds : /\ pl[j] = IF j = k THEN "grave" ELSE g.place[j]
                        /\ st[j] = IF j = k THEN g.done ELSE g.stamp[j]
  BY <1>1, <1>2, <1>3
<1> QED
  BY <1>1, <1>3, <1>4, <1>7, <1>8

LEMMA Extracted ==
    ASSUME NEW g \in EmbeddedStates, NEW k \in Embeds, g.place[k] = "map"
    PROVE  \E z \in EmbeddedStates, pl \in [Embeds -> Owners], st \in [Embeds -> Nat] :
              /\ z = ExtractEmbedded(g, k)
              /\ \A j \in Embeds : /\ pl[j] = IF j = k THEN "grave" ELSE g.place[j]
                                   /\ st[j] = IF j = k THEN g.done ELSE g.stamp[j]
              /\ z.place = pl /\ z.gone = g.gone /\ z.listens = g.listens
              /\ z.told = g.told /\ z.pc = g.pc /\ z.held = g.held /\ z.batch = g.batch
              /\ z.shadow = g.shadow \ {k} /\ z.drawing = g.drawing /\ z.frame = g.frame
              /\ z.done = g.done /\ z.stamp = st
<1>1. PICK f \in {0} \cup Embeds : Unfocus(g, {k}) = [g EXCEPT !.focus = f]
  BY UnfocusMoves
<1>2. PICK u : u = [g EXCEPT !.focus = f]
  OBVIOUS
<1>3. /\ u \in EmbeddedStates /\ u.place = g.place /\ u.gone = g.gone /\ u.listens = g.listens
      /\ u.told = g.told /\ u.pc = g.pc /\ u.held = g.held /\ u.batch = g.batch
      /\ u.shadow = g.shadow /\ u.drawing = g.drawing /\ u.frame = g.frame
      /\ u.done = g.done /\ u.stamp = g.stamp
  BY <1>2 DEF EmbeddedStates
<1>4. u \in EmbeddedStates /\ k \in Embeds
  BY <1>3
<1>5. PICK z \in EmbeddedStates, pl \in [Embeds -> Owners], st \in [Embeds -> Nat] :
          /\ z = Bury(u, k)
          /\ \A j \in Embeds : /\ pl[j] = IF j = k THEN "grave" ELSE u.place[j]
                               /\ st[j] = IF j = k THEN u.done ELSE u.stamp[j]
          /\ z.place = pl /\ z.gone = u.gone /\ z.listens = u.listens
          /\ z.told = u.told /\ z.pc = u.pc /\ z.held = u.held /\ z.batch = u.batch
          /\ z.shadow = u.shadow \ {k} /\ z.drawing = u.drawing /\ z.frame = u.frame
          /\ z.done = u.done /\ z.stamp = st
  BY <1>4, Buried
<1>6. z = ExtractEmbedded(g, k)
  BY <1>1, <1>2, <1>5 DEF ExtractEmbedded
<1> QED
  BY <1>3, <1>5, <1>6

LEMMA CloseKeeps ==
    ASSUME NEW g \in EmbeddedStates, EmbeddedGood(g), NEW k \in g.listens, g.told[k] = 0, ~g.gone
    PROVE  CloseEmbedded(g, k) \in EmbeddedStates /\ EmbeddedGood(CloseEmbedded(g, k))
<1>0. k \in Embeds /\ g.told \in [Embeds -> Nat]
  BY DEF EmbeddedStates
<1>1. PICK y : y = CloseEmbedded(g, k)
  OBVIOUS
<1>2. PICK tl \in [Embeds -> Nat] : tl = [g.told EXCEPT ![k] = 1]
  BY <1>0
<1>3. \A j \in Embeds : tl[j] = IF j = k THEN 1 ELSE g.told[j]
  BY <1>0, <1>2
<1>4. ASSUME NEW z \in EmbeddedStates, z = ExtractEmbedded(g, k), z.told = g.told, z.listens = g.listens
      PROVE  /\ y \in EmbeddedStates /\ y.place = z.place /\ y.gone = z.gone
             /\ y.listens = g.listens \ {k} /\ y.told = tl /\ y.pc = z.pc /\ y.held = z.held
             /\ y.batch = z.batch /\ y.shadow = z.shadow /\ y.drawing = z.drawing
             /\ y.frame = z.frame /\ y.done = z.done /\ y.stamp = z.stamp
  <2>1. z.told[k] + 1 = 1 /\ k \in z.listens
    BY <1>4
  <2>2. Told(z, k) = [z EXCEPT !.told = tl]
    BY <1>2, <1>4, <2>1 DEF Told
  <2>3. y = [[z EXCEPT !.told = tl] EXCEPT !.listens = @ \ {k}]
    BY <1>1, <1>4, <2>2 DEF CloseEmbedded
  <2>4. g.listens \ {k} \in SUBSET Embeds
    BY DEF EmbeddedStates
  <2> QED
    BY <1>2, <1>4, <2>3, <2>4 DEF EmbeddedStates
<1>5. CASE g.place[k] = "map"
  <2>1. PICK z \in EmbeddedStates, pl \in [Embeds -> Owners], st \in [Embeds -> Nat] :
            /\ z = ExtractEmbedded(g, k)
            /\ \A j \in Embeds : /\ pl[j] = IF j = k THEN "grave" ELSE g.place[j]
                                 /\ st[j] = IF j = k THEN g.done ELSE g.stamp[j]
            /\ z.place = pl /\ z.gone = g.gone /\ z.listens = g.listens
            /\ z.told = g.told /\ z.pc = g.pc /\ z.held = g.held /\ z.batch = g.batch
            /\ z.shadow = g.shadow \ {k} /\ z.drawing = g.drawing /\ z.frame = g.frame
            /\ z.done = g.done /\ z.stamp = st
    BY <1>0, <1>5, Extracted
  <2>2. /\ y \in EmbeddedStates /\ y.place = pl /\ y.gone = g.gone /\ y.listens = g.listens \ {k}
        /\ y.told = tl /\ y.pc = g.pc /\ y.held = g.held /\ y.batch = g.batch
        /\ y.shadow = g.shadow \ {k} /\ y.drawing = g.drawing /\ y.frame = g.frame
        /\ y.done = g.done /\ y.stamp = st
    BY <1>4, <2>1
  <2>3. g.batch = g.batch \ {k} /\ g.place[k] \in Unburied
    BY <1>5 DEF EmbeddedGood, Unburied
  <2>4. EmbeddedGood(y)
    BY <1>0, <1>3, <2>1, <2>2, <2>3, BurialKeeps
  <2> QED
    BY <1>1, <2>2, <2>4
<1>6. CASE g.place[k] # "map"
  <2>1. g = ExtractEmbedded(g, k)
    BY <1>6 DEF ExtractEmbedded
  <2>2. /\ y \in EmbeddedStates /\ y.place = g.place /\ y.gone = g.gone /\ y.listens = g.listens \ {k}
        /\ y.told = tl /\ y.pc = g.pc /\ y.held = g.held /\ y.batch = g.batch
        /\ y.shadow = g.shadow /\ y.drawing = g.drawing /\ y.frame = g.frame
        /\ y.done = g.done /\ y.stamp = g.stamp
    BY <1>4, <2>1
  <2>4. g.place[k] # "none"
    BY <1>0 DEF EmbeddedGood
  <2>5. EmbeddedGood(y)
    BY <1>3, <2>2, <2>4 DEF EmbeddedGood
  <2> QED
    BY <1>1, <2>2, <2>5
<1> QED
  BY <1>5, <1>6

LEMMA UnloadKeeps ==
    ASSUME NEW g \in EmbeddedStates, EmbeddedGood(g), NEW k \in g.listens, ~g.gone
    PROVE  UnloadOwner(g, k) \in EmbeddedStates /\ EmbeddedGood(UnloadOwner(g, k))
<1>0. k \in Embeds /\ g.listens \ {k} \in SUBSET Embeds
  BY DEF EmbeddedStates
<1>1. PICK y : y = UnloadOwner(g, k)
  OBVIOUS
<1>2. CASE g.place[k] = "map"
  <2>1. PICK z \in EmbeddedStates, pl \in [Embeds -> Owners], st \in [Embeds -> Nat] :
            /\ z = ExtractEmbedded(g, k)
            /\ \A j \in Embeds : /\ pl[j] = IF j = k THEN "grave" ELSE g.place[j]
                                 /\ st[j] = IF j = k THEN g.done ELSE g.stamp[j]
            /\ z.place = pl /\ z.gone = g.gone /\ z.listens = g.listens
            /\ z.told = g.told /\ z.pc = g.pc /\ z.held = g.held /\ z.batch = g.batch
            /\ z.shadow = g.shadow \ {k} /\ z.drawing = g.drawing /\ z.frame = g.frame
            /\ z.done = g.done /\ z.stamp = st
    BY <1>0, <1>2, Extracted
  <2>2. y = [z EXCEPT !.listens = g.listens \ {k}]
    BY <1>1, <2>1 DEF UnloadOwner
  <2>3. /\ y \in EmbeddedStates /\ y.place = z.place /\ y.gone = z.gone /\ y.listens = g.listens \ {k}
        /\ y.told = z.told /\ y.pc = z.pc /\ y.held = z.held /\ y.batch = z.batch
        /\ y.shadow = z.shadow /\ y.drawing = z.drawing /\ y.frame = z.frame
        /\ y.done = z.done /\ y.stamp = z.stamp
    <3>1. z \in EmbeddedStates
      BY <2>1
    <3> QED
      BY <1>0, <2>2, <3>1 DEF EmbeddedStates
  <2>4. g.batch = g.batch \ {k} /\ g.place[k] \in Unburied /\ g.told[k] <= 1
    BY <1>0, <1>2 DEF EmbeddedGood, Unburied
  <2>5. EmbeddedGood(y)
    BY <1>0, <2>1, <2>3, <2>4, BurialKeeps
  <2> QED
    BY <1>1, <2>3, <2>5
<1>3. CASE g.place[k] # "map"
  <2>1. y = [g EXCEPT !.listens = @ \ {k}]
    BY <1>1, <1>3 DEF UnloadOwner, ExtractEmbedded
  <2>2. /\ y \in EmbeddedStates /\ y.place = g.place /\ y.gone = g.gone /\ y.listens = g.listens \ {k}
        /\ y.told = g.told /\ y.pc = g.pc /\ y.held = g.held /\ y.batch = g.batch
        /\ y.shadow = g.shadow /\ y.drawing = g.drawing /\ y.frame = g.frame
        /\ y.done = g.done /\ y.stamp = g.stamp
    BY <1>0, <2>1 DEF EmbeddedStates
  <2>3. EmbeddedGood(y)
    BY <2>2 DEF EmbeddedGood
  <2> QED
    BY <1>1, <2>2, <2>3
<1> QED
  BY <1>2, <1>3

LEMMA BuryDrainedKeeps ==
    ASSUME NEW g \in EmbeddedStates, EmbeddedGood(g), NEW k \in Embeds, k \in g.batch
    PROVE  BuryDrained(g, k) \in EmbeddedStates /\ EmbeddedGood(BuryDrained(g, k))
<1>0. /\ k \in Embeds /\ g.told \in [Embeds -> Nat] /\ g.told[k] + 1 \in Nat
      /\ g.batch \ {k} \in SUBSET Embeds /\ g.shadow \ {k} \in SUBSET Embeds
  BY DEF EmbeddedStates
<1>1. PICK y : y = BuryDrained(g, k)
  OBVIOUS
<1>2. PICK w \in EmbeddedStates, pl \in [Embeds -> Owners], st \in [Embeds -> Nat] :
          /\ w = Bury(g, k)
          /\ \A j \in Embeds : /\ pl[j] = IF j = k THEN "grave" ELSE g.place[j]
                               /\ st[j] = IF j = k THEN g.done ELSE g.stamp[j]
          /\ w.place = pl /\ w.gone = g.gone /\ w.listens = g.listens
          /\ w.told = g.told /\ w.pc = g.pc /\ w.held = g.held /\ w.batch = g.batch
          /\ w.shadow = g.shadow \ {k} /\ w.drawing = g.drawing /\ w.frame = g.frame
          /\ w.done = g.done /\ w.stamp = st
  BY Buried
<1>3. PICK z : z = [w EXCEPT !.batch = g.batch \ {k}]
  OBVIOUS
<1>4. /\ z \in EmbeddedStates /\ z.place = pl /\ z.gone = g.gone /\ z.listens = g.listens
      /\ z.told = g.told /\ z.pc = g.pc /\ z.held = g.held /\ z.batch = g.batch \ {k}
      /\ z.shadow = g.shadow \ {k} /\ z.drawing = g.drawing /\ z.frame = g.frame
      /\ z.done = g.done /\ z.stamp = st
  BY <1>0, <1>2, <1>3 DEF EmbeddedStates
<1>5. PICK tl \in [Embeds -> Nat] : tl = IF k \in g.listens THEN [g.told EXCEPT ![k] = @ + 1] ELSE g.told
  BY <1>0
<1>6. y = [z EXCEPT !.told = tl]
  <2>1. y = Told(z, k)
    BY <1>1, <1>2, <1>3 DEF BuryDrained
  <2>2. CASE k \in g.listens
    BY <1>4, <1>5, <2>1, <2>2 DEF Told
  <2>3. CASE k \notin g.listens
    <3>1. z = [z EXCEPT !.told = z.told]
      BY <1>4 DEF EmbeddedStates
    <3> QED
      BY <1>4, <1>5, <2>1, <2>3, <3>1 DEF Told
  <2> QED
    BY <2>2, <2>3
<1>7. /\ y \in EmbeddedStates /\ y.place = z.place /\ y.gone = z.gone /\ y.listens = z.listens
      /\ y.told = tl /\ y.pc = z.pc /\ y.held = z.held /\ y.batch = z.batch
      /\ y.shadow = z.shadow /\ y.drawing = z.drawing /\ y.frame = z.frame
      /\ y.done = z.done /\ y.stamp = z.stamp
  <2>1. z \in EmbeddedStates
    BY <1>4
  <2> QED
    BY <1>5, <1>6, <2>1 DEF EmbeddedStates
<1>8. g.place[k] = "taken" /\ g.told[k] <= 1 /\ (k \in g.listens => g.told[k] = 0)
  BY <1>0 DEF EmbeddedGood
<1>9. /\ tl[k] <= 1
      /\ k \in y.listens => tl[k] = 1
      /\ \A j \in Embeds : j # k => tl[j] = g.told[j]
  BY <1>0, <1>4, <1>5, <1>7, <1>8
<1>10. EmbeddedGood(y)
  BY <1>0, <1>2, <1>4, <1>7, <1>8, <1>9, BurialKeeps DEF Unburied
<1> QED
  BY <1>1, <1>4, <1>7, <1>10

\* The pane goes, and no tick of it is under way.
LEMMA ClosePaneKeeps ==
    ASSUME NEW g \in EmbeddedStates, EmbeddedGood(g), g.batch = {}
    PROVE  ClosePaneWith(g) \in EmbeddedStates /\ EmbeddedGood(ClosePaneWith(g))
<1>1. PICK y : y = ClosePaneWith(g)
  OBVIOUS
<1>2. PICK all : all = At(g, "map") \cup At(g, "evicted")
  OBVIOUS
<1>3. PICK pl \in [Embeds -> Owners] :
          /\ Move(g, all, "grave") = [g EXCEPT !.place = pl]
          /\ \A j \in Embeds : pl[j] = IF j \in all THEN "grave" ELSE g.place[j]
  BY Owned, PlaceAfterMove
<1>4. g.stamp \in [Embeds -> Nat] /\ g.done \in Nat
  BY DEF EmbeddedStates
<1>5. PICK st \in [Embeds -> Nat] : st = [k \in Embeds |-> IF k \in all THEN g.done ELSE g.stamp[k]]
  BY <1>4
<1>6. y = [g EXCEPT !.place = pl, !.gone = TRUE, !.shadow = {}, !.focus = 0, !.stamp = st]
  BY <1>1, <1>2, <1>3, <1>5 DEF ClosePaneWith, EmbeddedStates
<1>7. /\ y \in EmbeddedStates /\ y.place = pl /\ y.gone = TRUE /\ y.listens = g.listens
      /\ y.told = g.told /\ y.pc = g.pc /\ y.held = g.held /\ y.batch = g.batch
      /\ y.shadow = {} /\ y.drawing = g.drawing /\ y.frame = g.frame
      /\ y.done = g.done /\ y.stamp = st
  BY <1>6 DEF EmbeddedStates
<1>8. \A j \in Embeds :
         /\ pl[j] = IF g.place[j] \in {"map", "evicted"} THEN "grave" ELSE g.place[j]
         /\ st[j] = IF g.place[j] \in {"map", "evicted"} THEN g.done ELSE g.stamp[j]
  BY <1>2, <1>3, <1>5 DEF At
<1>9. \A j \in g.frame \cup g.held : j \in Embeds
  BY DEF EmbeddedStates
<1>10. EmbeddedGood(y)
  BY <1>7, <1>8, <1>9 DEF EmbeddedGood, Unburied
<1> QED
  BY <1>1, <1>7, <1>10

\* A handler looks up what the pane's lines have, and uses it.
LEMMA LookUpKeeps ==
    ASSUME NEW g \in EmbeddedStates, EmbeddedGood(g), g.batch = {}, NEW ks \in SUBSET At(g, "map")
    PROVE  LookUp(g, ks) \in EmbeddedStates /\ EmbeddedGood(LookUp(g, ks))
<1>1. PICK y : y = LookUp(g, ks)
  OBVIOUS
<1>2. /\ y \in EmbeddedStates /\ y.place = g.place /\ y.gone = g.gone /\ y.listens = g.listens
      /\ y.told = g.told /\ y.pc = "uses" /\ y.held = ks /\ y.batch = g.batch
      /\ y.shadow = g.shadow /\ y.drawing = g.drawing /\ y.frame = g.frame
      /\ y.done = g.done /\ y.stamp = g.stamp
  BY <1>1 DEF LookUp, At, EmbeddedStates
<1>3. EmbeddedGood(y)
  BY <1>2 DEF EmbeddedGood, At
<1> QED
  BY <1>1, <1>2, <1>3

LEMMA FocusHitKeeps ==
    ASSUME NEW g \in EmbeddedStates, EmbeddedGood(g), g.pc = "click"
    PROVE  FocusHit(g) \in EmbeddedStates /\ EmbeddedGood(FocusHit(g))
<1>1. PICK y : y = [g EXCEPT !.focus = g.hit, !.hit = 0]
  OBVIOUS
<1>2. /\ y \in EmbeddedStates /\ y.place = g.place /\ y.gone = g.gone /\ y.listens = g.listens
      /\ y.told = g.told /\ y.pc = g.pc /\ y.held = g.held /\ y.batch = g.batch
      /\ y.shadow = g.shadow /\ y.drawing = g.drawing /\ y.frame = g.frame
      /\ y.done = g.done /\ y.stamp = g.stamp
  BY <1>1 DEF EmbeddedStates
<1>3. EmbeddedGood(y) /\ y.batch = {}
  BY <1>2 DEF EmbeddedGood
<1>4. {g.hit} \cap At(g, "map") \in SUBSET At(y, "map")
  BY <1>2 DEF At
<1>5. FocusHit(g) = LookUp(y, {g.hit} \cap At(g, "map"))
  BY <1>1 DEF FocusHit
<1> QED
  BY <1>2, <1>3, <1>4, <1>5, LookUpKeeps

\* The main thread goes from one handler to the next.
LEMMA HitTestKeeps ==
    ASSUME NEW g \in EmbeddedStates, EmbeddedGood(g), g.pc = "events", NEW k \in Embeds
    PROVE  HitTest(g, k) \in EmbeddedStates /\ EmbeddedGood(HitTest(g, k))
<1>1. PICK y : y = HitTest(g, k)
  OBVIOUS
<1>2. /\ y \in EmbeddedStates /\ y.place = g.place /\ y.gone = g.gone /\ y.listens = g.listens
      /\ y.told = g.told /\ y.pc = "click" /\ y.held = g.held /\ y.batch = g.batch
      /\ y.shadow = g.shadow /\ y.drawing = g.drawing /\ y.frame = g.frame
      /\ y.done = g.done /\ y.stamp = g.stamp
  BY <1>1 DEF HitTest, EmbeddedStates
<1>3. EmbeddedGood(y)
  BY <1>2 DEF EmbeddedGood
<1> QED
  BY <1>1, <1>2, <1>3

LEMMA UseHeldKeeps ==
    ASSUME NEW g \in EmbeddedStates, EmbeddedGood(g), g.pc = "uses"
    PROVE  UseHeld(g) \in EmbeddedStates /\ EmbeddedGood(UseHeld(g))
<1>1. PICK y : y = UseHeld(g)
  OBVIOUS
<1>2. /\ y \in EmbeddedStates /\ y.place = g.place /\ y.gone = g.gone /\ y.listens = g.listens
      /\ y.told = g.told /\ y.pc = "events" /\ y.held = {} /\ y.batch = g.batch
      /\ y.shadow = g.shadow /\ y.drawing = g.drawing /\ y.frame = g.frame
      /\ y.done = g.done /\ y.stamp = g.stamp
  BY <1>1 DEF UseHeld, EmbeddedStates
<1>3. EmbeddedGood(y)
  BY <1>2 DEF EmbeddedGood
<1> QED
  BY <1>1, <1>2, <1>3

LEMMA RebuildKeeps ==
    ASSUME NEW g \in EmbeddedStates, EmbeddedGood(g), g.pc = "drain", g.batch = {}
    PROVE  Rebuild(g) \in EmbeddedStates /\ EmbeddedGood(Rebuild(g))
<1>1. PICK y : y = Rebuild(g)
  OBVIOUS
<1>2. /\ y \in EmbeddedStates /\ y.place = g.place /\ y.gone = g.gone /\ y.listens = g.listens
      /\ y.told = g.told /\ y.pc = "sweep" /\ y.held = g.held /\ y.batch = g.batch
      /\ y.shadow = At(g, "map") /\ y.drawing = g.drawing /\ y.frame = g.frame
      /\ y.done = g.done /\ y.stamp = g.stamp
  BY <1>1 DEF Rebuild, At, EmbeddedStates
<1>3. EmbeddedGood(y)
  BY <1>2 DEF EmbeddedGood, At, Unburied
<1> QED
  BY <1>1, <1>2, <1>3

\* What is freed was buried before the last frame began, and no handler runs.
LEMMA SweepingKeeps ==
    ASSUME NEW g \in EmbeddedStates, EmbeddedGood(g), g.pc = "sweep"
    PROVE  SweepGraves(g) \in EmbeddedStates /\ EmbeddedGood(SweepGraves(g))
<1>1. PICK y : y = SweepGraves(g)
  OBVIOUS
<1>2. PICK ks : ks = {k \in At(g, "grave") : g.done > g.stamp[k]}
  OBVIOUS
<1>3. PICK pl \in [Embeds -> Owners] :
          /\ Move(g, ks, "freed") = [g EXCEPT !.place = pl]
          /\ \A j \in Embeds : pl[j] = IF j \in ks THEN "freed" ELSE g.place[j]
  BY Owned, PlaceAfterMove
<1>4. y = [g EXCEPT !.place = pl, !.pc = "events"]
  BY <1>1, <1>2, <1>3 DEF SweepGraves, EmbeddedStates
<1>5. /\ y \in EmbeddedStates /\ y.place = pl /\ y.gone = g.gone /\ y.listens = g.listens
      /\ y.told = g.told /\ y.pc = "events" /\ y.held = g.held /\ y.batch = g.batch
      /\ y.shadow = g.shadow /\ y.drawing = g.drawing /\ y.frame = g.frame
      /\ y.done = g.done /\ y.stamp = g.stamp
  BY <1>4 DEF EmbeddedStates
<1>6. \A j \in Embeds : j \in ks <=> (g.place[j] = "grave" /\ g.done > g.stamp[j])
  BY <1>2 DEF At
<1>7. g.held = {} /\ g.batch = {} /\ g.done \in Nat /\ g.stamp \in [Embeds -> Nat]
  BY DEF EmbeddedGood, EmbeddedStates
<1>8. \A j \in g.shadow \cup g.frame : j \in Embeds
  BY DEF EmbeddedStates
<1>9. \A j \in Embeds : g.stamp[j] = g.done => j \notin ks
  BY <1>6, <1>7
<1>10. EmbeddedGood(y)
  BY <1>3, <1>5, <1>6, <1>7, <1>8, <1>9 DEF EmbeddedGood, Unburied
<1> QED
  BY <1>1, <1>5, <1>10

LEMMA FrameKeeps ==
    ASSUME NEW g \in EmbeddedStates, EmbeddedGood(g)
    PROVE  /\ CopyState(g) \in EmbeddedStates /\ EmbeddedGood(CopyState(g))
           /\ CompleteFrame(g) \in EmbeddedStates /\ EmbeddedGood(CompleteFrame(g))
<1>1. PICK y : y = CopyState(g)
  OBVIOUS
<1>2. /\ y \in EmbeddedStates /\ y.place = g.place /\ y.gone = g.gone /\ y.listens = g.listens
      /\ y.told = g.told /\ y.pc = g.pc /\ y.held = g.held /\ y.batch = g.batch
      /\ y.shadow = g.shadow /\ y.drawing = TRUE /\ y.frame = g.shadow
      /\ y.done = g.done /\ y.stamp = g.stamp
  BY <1>1 DEF CopyState, EmbeddedStates
<1>3. EmbeddedGood(y)
  BY <1>2 DEF EmbeddedGood
<1>4. PICK z : z = CompleteFrame(g)
  OBVIOUS
<1>. g.done + 1 \in Nat
  BY DEF EmbeddedStates
<1>5. /\ z \in EmbeddedStates /\ z.place = g.place /\ z.gone = g.gone /\ z.listens = g.listens
      /\ z.told = g.told /\ z.pc = g.pc /\ z.held = g.held /\ z.batch = g.batch
      /\ z.shadow = g.shadow /\ z.drawing = FALSE /\ z.frame = {}
      /\ z.done = g.done + 1 /\ z.stamp = g.stamp
  BY <1>4 DEF CompleteFrame, EmbeddedStates
<1>6. EmbeddedGood(z)
  BY <1>5 DEF EmbeddedGood
<1> QED
  BY <1>1, <1>2, <1>3, <1>4, <1>5, <1>6

LEMMA EmbeddedStep == EmbeddedInv /\ [Next]_vars => EmbeddedInv'
<1> SUFFICES ASSUME EmbeddedInv, [Next]_vars PROVE EmbeddedInv'
  OBVIOUS
<1>0. pane \in EmbeddedStates /\ EmbeddedGood(pane)
  BY DEF EmbeddedInv
<1> SUFFICES ASSUME pane' # pane PROVE pane' \in EmbeddedStates /\ EmbeddedGood(pane')
  BY <1>0 DEF EmbeddedInv
<1>1. CASE CreateEmbeddedTerminal
  <2>1. At(pane, "none") # {} /\ pane' = AttachEmbedded(pane, Min(At(pane, "none")))
    BY <1>1 DEF CreateEmbeddedTerminal, Hosts, NewLines
  <2>2. At(pane, "none") \in SUBSET Embeds
    BY DEF At
  <2> QED
    BY <1>0, <2>1, <2>2, LeastLine, AttachKeeps
<1>2. CASE EvictOldestLine
  <2>1. PICK k : k = Min(At(pane, "map"))
    OBVIOUS
  <2>2. At(pane, "map") # {} /\ pane' = Move(Unfocus(pane, {k}), {k}, "evicted")
    BY <1>2, <2>1 DEF EvictOldestLine, Hosts, OnLineIdEvicted
  <2>3. k \in At(pane, "map")
    <3>1. At(pane, "map") \in SUBSET Embeds
      BY DEF At
    <3> QED
      BY <2>1, <2>2, <3>1, LeastLine
  <2>4. PICK f \in {0} \cup Embeds : Unfocus(pane, {k}) = [pane EXCEPT !.focus = f]
    BY <1>0, UnfocusMoves
  <2>5. PICK u \in EmbeddedStates : u = [pane EXCEPT !.focus = f] /\ EmbeddedGood(u)
    BY <1>0, FocusMoves
  <2>6. {k} \in SUBSET At(u, "map")
    BY <1>0, <2>3, <2>5 DEF At, EmbeddedStates
  <2> QED
    BY <2>2, <2>4, <2>5, <2>6, SetAsideKeeps
<1>3. CASE ResetParent
  <2>1. PICK u \in EmbeddedStates : u = [pane EXCEPT !.focus = 0] /\ EmbeddedGood(u)
    BY <1>0, FocusMoves
  <2>2. pane' = Move(u, At(pane, "map"), "evicted")
    BY <1>3, <2>1 DEF ResetParent, Hosts, OnFullReset
  <2>3. At(pane, "map") \in SUBSET At(u, "map")
    BY <1>0, <2>1 DEF At, EmbeddedStates
  <2> QED
    BY <2>1, <2>2, <2>3, SetAsideKeeps
<1>4. CASE ClickOn
  <2>1. PICK k \in Embeds : pane.pc = "events" /\ pane' = HitTest(pane, k)
    BY <1>4 DEF ClickOn, Event, Hosts, At
  <2> QED
    BY <1>0, <2>1, HitTestKeeps
<1>5. CASE ClickFocuses
  BY <1>0, <1>5, FocusHitKeeps DEF ClickFocuses, Hosts
<1>6. CASE ResizePane
  <2>1. pane.pc = "events" /\ pane' = LookUp(pane, At(pane, "map"))
    BY <1>6 DEF ResizePane, Event, Hosts
  <2>2. pane.batch = {}
    BY <1>0, <2>1 DEF EmbeddedGood
  <2> QED
    BY <1>0, <2>1, <2>2, LookUpKeeps
<1>7. CASE FinishHandler
  BY <1>0, <1>7, UseHeldKeeps DEF FinishHandler, Hosts
<1>8. CASE ScriptCloses
  BY <1>0, <1>8, CloseKeeps DEF ScriptCloses, Hosts
<1>9. CASE ScriptUnloads
  BY <1>0, <1>9, UnloadKeeps DEF ScriptUnloads, Hosts
<1>10. CASE ClosePane
  <2>1. pane' = ClosePaneWith(pane) /\ (pane.pc = "events" \/ pane.batch = {})
    BY <1>10 DEF ClosePane, Hosts
  <2>2. pane.batch = {}
    BY <1>0, <2>1 DEF EmbeddedGood
  <2> QED
    BY <1>0, <2>1, <2>2, ClosePaneKeeps
<1>11. CASE DrainEmbeddeds
  <2>1. CASE pane.pc = "events" /\ Hosts(DrainEvicted(pane))
    BY <1>0, <2>1, DrainKeeps DEF Hosts
  <2>2. CASE \E k \in pane.batch : Hosts(BuryDrained(pane, k))
    <3>1. PICK k \in pane.batch : pane' = BuryDrained(pane, k)
      BY <2>2 DEF Hosts
    <3>2. k \in Embeds
      BY <1>0, <3>1 DEF EmbeddedStates
    <3> QED
      BY <1>0, <3>1, <3>2, BuryDrainedKeeps
  <2> QED
    BY <1>11, <2>1, <2>2 DEF DrainEmbeddeds
<1>12. CASE RebuildShadow
  BY <1>0, <1>12, RebuildKeeps DEF RebuildShadow, Hosts
<1>13. CASE Sweeping
  BY <1>0, <1>13, SweepingKeeps DEF Sweeping, Hosts
<1>14. CASE FrameStarts \/ FrameEnds
  BY <1>0, <1>14, FrameKeeps DEF FrameStarts, FrameEnds, Hosts
<1> QED
  BY <1>1, <1>2, <1>3, <1>4, <1>5, <1>6, <1>7, <1>8, <1>9, <1>10, <1>11, <1>12, <1>13, <1>14,
     ScenesApart DEF Embedding

(* An embedded terminal that a frame or a handler still uses is not freed, *)
(* however it came to its end, and a script that listens for its end hears *)
(* of it once (onLineIdEvicted, extractEmbedded and sweep of the graveyard *)
(* in Terminal.cpp and Graveyard.h; drainEmbeddeds of PlatformDawn.cpp).   *)
THEOREM EmbeddedIsSafe == Spec => []EmbeddedSafe
<1>1. Init => EmbeddedInv
  <2> SUFFICES ASSUME Init PROVE EmbeddedInv
    OBVIOUS
  <2>1. pane = EmbeddedInit
    BY DEF Init
  <2>2. /\ [k \in Embeds |-> "none"] \in [Embeds -> Owners]
        /\ [k \in Embeds |-> 0] \in [Embeds -> Nat]
    BY DEF Owners
  <2>3. pane \in EmbeddedStates
    BY <2>1, <2>2 DEF EmbeddedInit, EmbeddedStates
  <2>4. EmbeddedGood(pane)
    BY <2>1 DEF EmbeddedInit, EmbeddedGood
  <2> QED
    BY <2>3, <2>4 DEF EmbeddedInv
<1>2. EmbeddedInv => EmbeddedSafe
  <2> SUFFICES ASSUME EmbeddedInv PROVE EmbeddedSafe
    OBVIOUS
  <2>1. pane \in EmbeddedStates /\ EmbeddedGood(pane)
    BY DEF EmbeddedInv
  <2>2. At(pane, "freed") \cap (pane.shadow \cup pane.frame \cup pane.held) = {}
    BY <2>1 DEF EmbeddedGood, At, Unburied
  <2> QED
    BY <2>1, <2>2 DEF EmbeddedGood, EmbeddedSafe
<1> QED
  BY <1>1, <1>2, EmbeddedStep, PTL DEF Spec

-----------------------------------------------------------------------------
(* Pasting.  A paste has come to its end once, or one request of it is     *)
(* pending, or, within an operator, is being ended.                        *)

Requests == [s : PasteSources, job : Nat]
PasteStates ==
    [own : [PasteSources -> BOOLEAN], pending : Seq(Requests), timer : BOOLEAN,
     asked : Seq(PasteSources), events : Seq([s : PasteSources, ok : BOOLEAN]),
     prop : PasteSources \cup {NoText}, done : Seq(Nat)]

LEMMA PastedFields ==
    ASSUME NEW q \in PasteStates, NEW job \in Nat
    PROVE  /\ Pasted(q, job) \in PasteStates
           /\ Pasted(q, job).pending = q.pending /\ Pasted(q, job).timer = q.timer
           /\ Len(Pasted(q, job).done) = Len(q.done)
           /\ \A j \in 1..Len(q.done) : Pasted(q, job).done[j] = IF j = job THEN q.done[j] + 1 ELSE q.done[j]
<1>1. PICK d : d = [q.done EXCEPT ![job] = @ + 1]
  OBVIOUS
<1>2. q.done \in Seq(Nat)
  BY DEF PasteStates
<1>3. \A j \in 1..Len(q.done) : q.done[j] \in Nat /\ q.done[j] + 1 \in Nat
  BY <1>2
<1>4. /\ d \in Seq(Nat) /\ Len(d) = Len(q.done)
      /\ \A j \in 1..Len(q.done) : d[j] = IF j = job THEN q.done[j] + 1 ELSE q.done[j]
  <2>1. PICK n \in Nat : n = Len(q.done)
    BY <1>2
  <2>2. DOMAIN q.done = 1..n
    BY <1>2, <2>1
  <2>3. d = [j \in 1..n |-> IF j = job THEN q.done[j] + 1 ELSE q.done[j]]
    BY <1>1, <2>2
  <2>4. d \in [1..n -> Nat]
    BY <1>3, <2>1, <2>3
  <2>5. d \in Seq(Nat) /\ Len(d) = n
    BY <2>1, <2>4
  <2> QED
    BY <2>1, <2>3, <2>5
<1>5. PICK y : y = Pasted(q, job)
  OBVIOUS
<1>6. y = [q EXCEPT !.done = d]
  BY <1>1, <1>5 DEF Pasted
<1>7. y \in PasteStates /\ y.pending = q.pending /\ y.timer = q.timer /\ y.done = d
  BY <1>4, <1>6 DEF PasteStates
<1> QED
  BY <1>4, <1>5, <1>7

LEMMA AwaitFields ==
    ASSUME NEW q \in PasteStates, NEW s \in PasteSources, NEW job \in Nat
    PROVE  /\ Await(q, s, job) \in PasteStates
           /\ Await(q, s, job).pending = Append(q.pending, [s |-> s, job |-> job])
           /\ Await(q, s, job).timer /\ Await(q, s, job).done = q.done
<1>1. PICK y : y = Await(q, s, job)
  OBVIOUS
<1>2. q.asked \in Seq(PasteSources) /\ q.pending \in Seq(Requests) /\ [s |-> s, job |-> job] \in Requests
  BY DEF PasteStates, Requests
<1>3. Append(q.asked, s) \in Seq(PasteSources) /\ Append(q.pending, [s |-> s, job |-> job]) \in Seq(Requests)
  BY <1>2
<1>4. y = [[q EXCEPT !.asked = Append(@, s)] EXCEPT !.pending = Append(@, [s |-> s, job |-> job]), !.timer = TRUE]
  BY <1>1 DEF Await, Convert
<1>5. /\ y \in PasteStates /\ y.pending = Append(q.pending, [s |-> s, job |-> job])
      /\ y.timer = TRUE /\ y.done = q.done
  BY <1>3, <1>4 DEF PasteStates
<1> QED
  BY <1>1, <1>5

LEMMA AskIs ==
    ASSUME NEW q \in PasteStates, NEW job \in Nat
    PROVE  /\ AskPrimary(q, job) = Pasted(q, job) \/ AskPrimary(q, job) = Await(q, "primary", job)
           /\ AskClipboard(q, job) = Pasted(q, job) \/ AskClipboard(q, job) = Await(q, "clipboard", job)
  BY DEF AskPrimary, AskClipboard

LEMMA CalledIs ==
    ASSUME NEW q \in PasteStates, NEW r \in Requests, NEW text
    PROVE  \/ Called(q, r, text) = Pasted(q, r.job)
           \/ Called(q, r, text) = Await(q, "clipboard", r.job)
  BY AskIs DEF Called, Requests

LEMMA CalledTyped ==
    ASSUME NEW q \in PasteStates, NEW r \in Requests, NEW text
    PROVE  Called(q, r, text) \in PasteStates
<1>1. r.job \in Nat /\ "clipboard" \in PasteSources
  BY DEF Requests, PasteSources
<1>2. Pasted(q, r.job) \in PasteStates /\ Await(q, "clipboard", r.job) \in PasteStates
  BY <1>1, PastedFields, AwaitFields
<1> QED
  BY <1>2, CalledIs

LEMMA SweepRuns ==
    ASSUME NEW b \in PasteStates, NEW s \in Seq(Requests)
    PROVE  \E h \in [0..Len(s) -> PasteStates] :
              /\ h[0] = b
              /\ \A k \in 1..Len(s) : h[k] = Called(h[k - 1], s[k], NoText)
              /\ h[Len(s)] = FoldLeft(LAMBDA r, p : Called(r, p, NoText), b, s)
<1>1. PICK n \in Nat : n = Len(s)
  OBVIOUS
<1>2. DOMAIN s = 1..n /\ \A i \in 1..n : s[i] \in Requests
  BY <1>1
<1> DEFINE E(it) == it = [t \in SUBSET (DOMAIN s) |->
                            IF t = {} THEN b ELSE Called(it[t \ {Max(t)}], s[Max(t)], NoText)]
<1>3. \E it : E(it)
  <2>1. PICK step : step = [i \in 1..n |-> [q \in PasteStates |-> Called(q, s[i], NoText)]]
    OBVIOUS
  <2>2. step \in [1..n -> [PasteStates -> PasteStates]]
    BY <1>2, <2>1, CalledTyped
  <2>3. PICK it \in [SUBSET (1..n) -> PasteStates] : FoldedBy(it, n, b, step)
    BY <2>2, FoldExists
  <2>4. ASSUME NEW t \in SUBSET (1..n), t # {}
        PROVE  it[t] = Called(it[t \ {Max(t)}], s[Max(t)], NoText)
    <3>1. Max(t) \in 1..n
      BY <2>4, LastOf
    <3>2. it[t \ {Max(t)}] \in PasteStates
      OBVIOUS
    <3>3. it[t] = step[Max(t)][it[t \ {Max(t)}]]
      BY <2>3, <2>4 DEF FoldedBy
    <3> QED
      BY <2>1, <3>1, <3>2, <3>3
  <2>5. it[{}] = b
    BY <2>3 DEF FoldedBy
  <2>6. E(it)
    BY <1>2, <2>4, <2>5
  <2> QED
    BY <2>6
<1>4. PICK jt : jt = (CHOOSE it : E(it))
  OBVIOUS
<1>5. E(jt)
  BY <1>3, <1>4
<1>6. jt[DOMAIN s] = FoldLeft(LAMBDA r, p : Called(r, p, NoText), b, s)
  BY <1>4 DEF FoldLeft, MapThenFoldSet
<1>7. /\ jt[{}] = b
      /\ \A t \in SUBSET (1..n) : t # {} => jt[t] = Called(jt[t \ {Max(t)}], s[Max(t)], NoText)
  BY <1>2, <1>5
<1> HIDE DEF E
<1>8. ASSUME NEW k \in 1..n PROVE jt[1..k] = Called(jt[1..(k - 1)], s[k], NoText)
  <2>0. k \in 1..k
    OBVIOUS
  <2>a. \A i \in 1..k : i \in 1..n
    OBVIOUS
  <2>1. (1..k) \in SUBSET (1..n) /\ 1..k # {}
    BY <2>0, <2>a
  <2>2. Max(1..k) = k
    <3>1. PICK x : x = Max(1..k)
      OBVIOUS
    <3>2. Max(1..k) \in 1..k /\ \A i \in 1..k : i <= Max(1..k)
      BY <2>1, LastOf
    <3>3. x \in 1..k /\ k <= x
      BY <2>0, <3>1, <3>2
    <3> QED
      BY <3>1, <3>3
  <2>3. (1..k) \ {k} = 1..(k - 1)
    OBVIOUS
  <2> QED
    BY <1>7, <2>1, <2>2, <2>3
<1>9. jt[1..0] = b
  <2>1. 1..0 = {}
    OBVIOUS
  <2> QED
    BY <1>7, <2>1
<1>10. {k \in 0..n : jt[1..k] \in PasteStates} = 0..n
  <2>1. PICK T : T = {k \in 0..n : jt[1..k] \in PasteStates}
    OBVIOUS
  <2>2. T \in SUBSET (0..n) /\ 0 \in T
    BY <1>9, <2>1
  <2>3. ASSUME NEW k \in 1..n, k - 1 \in T PROVE k \in T
    BY <1>2, <1>8, <2>1, <2>3, CalledTyped
  <2> QED
    BY <2>1, <2>2, <2>3, StepByStep
<1>11. PICK h : h = [k \in 0..n |-> jt[1..k]]
  OBVIOUS
<1>12. h \in [0..n -> PasteStates]
  BY <1>10, <1>11
<1>13. \A k \in 1..n : k - 1 \in 0..n /\ h[k] = Called(h[k - 1], s[k], NoText)
  BY <1>8, <1>11
<1>14. h[0] = b /\ h[n] = jt[DOMAIN s]
  BY <1>2, <1>9, <1>11
<1> QED
  BY <1>1, <1>6, <1>12, <1>13, <1>14

\* J is the pastes whose request is being ended right now.  Every other one
\* has come to its end once, or a request of it is pending, and only one.
Waiting(q) == {q.pending[i].job : i \in 1..Len(q.pending)}
PasteGood(q, J) ==
    /\ J \subseteq 1..Len(q.done) /\ Waiting(q) \subseteq 1..Len(q.done)
    /\ J \cap Waiting(q) = {}
    /\ \A i, j \in 1..Len(q.pending) : q.pending[i].job = q.pending[j].job => i = j
    /\ \A job \in 1..Len(q.done) : q.done[job] = IF job \in J \cup Waiting(q) THEN 0 ELSE 1


\* One that is being ended ends, or waits again.
LEMMA Settles ==
    ASSUME NEW q \in PasteStates, NEW J, PasteGood(q, J), NEW job \in J, NEW s \in PasteSources
    PROVE  /\ PasteGood(Pasted(q, job), J \ {job}) /\ PasteGood(Await(q, s, job), J \ {job})
           /\ Pasted(q, job) \in PasteStates /\ Await(q, s, job) \in PasteStates
<1>1. job \in Nat /\ job \in 1..Len(q.done) /\ q.done[job] = 0 /\ job \notin Waiting(q)
  BY DEF PasteGood
<1>2. q.done \in Seq(Nat) /\ q.pending \in Seq(Requests)
  BY DEF PasteStates
<1>3. PICK y \in PasteStates :
          /\ y = Pasted(q, job)
          /\ y.pending = q.pending /\ Len(y.done) = Len(q.done)
          /\ \A j \in 1..Len(q.done) : y.done[j] = IF j = job THEN q.done[j] + 1 ELSE q.done[j]
  BY <1>1, PastedFields
<1>4. PasteGood(y, J \ {job})
  <2>1. Waiting(y) = Waiting(q)
    BY <1>3 DEF Waiting
  <2>2. \A j \in 1..Len(q.done) : y.done[j] = IF j \in (J \ {job}) \cup Waiting(q) THEN 0 ELSE 1
    BY <1>1, <1>3 DEF PasteGood
  <2> QED
    BY <1>3, <2>1, <2>2 DEF PasteGood
<1>5. PICK z \in PasteStates :
          /\ z = Await(q, s, job)
          /\ z.pending = Append(q.pending, [s |-> s, job |-> job]) /\ z.done = q.done
  BY <1>1, AwaitFields
<1>6. PasteGood(z, J \ {job})
  <2>1. PICK n \in Nat : n = Len(q.pending)
    BY <1>2
  <2>2. [s |-> s, job |-> job] \in Requests
    BY <1>1 DEF Requests
  <2>3. /\ Len(z.pending) = n + 1 /\ z.pending[n + 1].job = job
        /\ \A i \in 1..n : z.pending[i] = q.pending[i]
    BY <1>2, <1>5, <2>1, <2>2
  <2>4. \A i \in 1..(n + 1) : i \in 1..n \/ i = n + 1
    OBVIOUS
  <2>5. \A i \in 1..n : i \in 1..(n + 1) /\ n + 1 \in 1..(n + 1) /\ i # n + 1
    OBVIOUS
  <2>6. n + 1 \in 1..(n + 1)
    OBVIOUS
  <2>7. Waiting(z) = Waiting(q) \cup {job}
    BY <2>1, <2>3, <2>4, <2>5, <2>6 DEF Waiting
  <2>8. \A i \in 1..n : q.pending[i].job # job
    BY <1>1, <2>1 DEF Waiting
  <2>9. \A i, j \in 1..(n + 1) : z.pending[i].job = z.pending[j].job => i = j
    BY <2>1, <2>3, <2>4, <2>8 DEF PasteGood
  <2>10. \A j \in 1..Len(q.done) : z.done[j] = IF j \in (J \ {job}) \cup Waiting(z) THEN 0 ELSE 1
    BY <1>5, <2>7 DEF PasteGood
  <2> QED
    BY <1>1, <1>5, <2>3, <2>7, <2>9, <2>10 DEF PasteGood
<1> QED
  BY <1>3, <1>4, <1>5, <1>6

LEMMA CalledSettles ==
    ASSUME NEW q \in PasteStates, NEW J, PasteGood(q, J), NEW r \in Requests, r.job \in J, NEW text
    PROVE  Called(q, r, text) \in PasteStates /\ PasteGood(Called(q, r, text), J \ {r.job})
<1>1. "clipboard" \in PasteSources
  BY DEF PasteSources
<1>2. /\ PasteGood(Pasted(q, r.job), J \ {r.job})
      /\ PasteGood(Await(q, "clipboard", r.job), J \ {r.job})
  BY <1>1, Settles
<1> QED
  BY <1>2, CalledIs, CalledTyped

\* What matters are the requests and the ends.
LEMMA PasteSame ==
    ASSUME NEW q, NEW y, NEW J, PasteGood(q, J), y.pending = q.pending, y.done = q.done
    PROVE  PasteGood(y, J)
  BY DEF PasteGood, Waiting

\* y keeps those of q's requests that f names, and those of I, whose pastes J
\* are, are taken off.
TakesOff(q, y, m, n, f, I, J) ==
    /\ m = Len(y.pending) /\ n = Len(q.pending)
    /\ f \in [1..m -> 1..n] /\ \A i, j \in 1..m : f[i] = f[j] => i = j
    /\ \A j \in 1..m : y.pending[j] = q.pending[f[j]]
    /\ I \in SUBSET (1..n) /\ \A i \in 1..n : i \in I <=> \A j \in 1..m : f[j] # i
    /\ \A i \in I : q.pending[i].job \in J
    /\ \A x \in J : \E i \in I : x = q.pending[i].job

LEMMA TakenOff ==
    ASSUME NEW q \in PasteStates, PasteGood(q, {}), NEW y \in PasteStates, y.done = q.done,
           NEW m, NEW n, NEW f, NEW I, NEW J, TakesOff(q, y, m, n, f, I, J)
    PROVE  PasteGood(y, J)
<1>0. /\ m = Len(y.pending) /\ n = Len(q.pending)
      /\ f \in [1..m -> 1..n] /\ \A i, j \in 1..m : f[i] = f[j] => i = j
      /\ \A j \in 1..m : y.pending[j] = q.pending[f[j]]
      /\ I \in SUBSET (1..n) /\ \A i \in 1..n : i \in I <=> \A j \in 1..m : f[j] # i
      /\ \A i \in I : q.pending[i].job \in J
      /\ \A x \in J : \E i \in I : x = q.pending[i].job
  BY DEF TakesOff
<1>1. J = {q.pending[i].job : i \in I}
  BY <1>0
<1>2. /\ Waiting(q) = {q.pending[i].job : i \in 1..n}
      /\ Waiting(y) = {y.pending[i].job : i \in 1..m}
  BY <1>0 DEF Waiting
<1>3. \A i, j \in 1..n : q.pending[i].job = q.pending[j].job => i = j
  BY <1>0 DEF PasteGood
<1>4. \A j \in 1..m : f[j] \in 1..n /\ y.pending[j].job = q.pending[f[j]].job
  BY <1>0
<1>5. J \subseteq Waiting(q) /\ Waiting(y) \subseteq Waiting(q)
  <2>1. \A i \in I : i \in 1..n /\ q.pending[i].job \in Waiting(q)
    BY <1>0, <1>2
  <2>2. J \subseteq Waiting(q)
    BY <1>0, <2>1
  <2>3. \A j \in 1..m : y.pending[j].job \in Waiting(q)
    BY <1>2, <1>4
  <2> QED
    BY <1>2, <2>2, <2>3
<1>6. J \cap Waiting(y) = {}
  <2> SUFFICES ASSUME NEW i \in I, NEW j \in 1..m, q.pending[i].job = y.pending[j].job
               PROVE  FALSE
    BY <1>1, <1>2
  <2>1. i \in 1..n /\ f[j] \in 1..n /\ q.pending[i].job = q.pending[f[j]].job
    BY <1>0, <1>4
  <2>2. i = f[j]
    BY <1>3, <2>1
  <2> QED
    BY <1>0, <2>1, <2>2
<1>7. Waiting(q) = J \cup Waiting(y)
  <2>1. ASSUME NEW i \in 1..n, i \notin I PROVE q.pending[i].job \in Waiting(y)
    <3>1. PICK j \in 1..m : f[j] = i
      BY <1>0, <2>1
    <3> QED
      BY <1>2, <1>4, <3>1
  <2>2. \A i \in 1..n : q.pending[i].job \in J \cup Waiting(y)
    BY <1>1, <2>1
  <2>3. \A x \in Waiting(q) : \E i \in 1..n : x = q.pending[i].job
    BY <1>2
  <2>4. Waiting(q) \subseteq J \cup Waiting(y)
    BY <2>2, <2>3
  <2> QED
    BY <1>5, <2>4
<1>8. ASSUME NEW i \in 1..m, NEW j \in 1..m, y.pending[i].job = y.pending[j].job
      PROVE  i = j
  <2>0. f[i] \in 1..n /\ f[j] \in 1..n /\ q.pending[f[i]].job = q.pending[f[j]].job
    BY <1>4, <1>8
  <2>1. f[i] = f[j]
    BY <1>3, <2>0
  <2> QED
    BY <1>0, <2>1
<1> QED
  BY <1>0, <1>1, <1>5, <1>6, <1>7, <1>8 DEF PasteGood

LEMMA SelectKeeps ==
    ASSUME NEW q \in PasteStates, PasteGood(q, {})
    PROVE  PasteSelection(q) \in PasteStates /\ PasteGood(PasteSelection(q), {})
<1>1. PICK n \in Nat : n = Len(q.done)
  BY DEF PasteStates
<1>2. PICK d : d = Append(q.done, 0)
  OBVIOUS
<1>3. /\ d \in Seq(Nat) /\ Len(d) = n + 1 /\ d[n + 1] = 0
      /\ \A i \in 1..n : d[i] = q.done[i]
  BY <1>1, <1>2 DEF PasteStates
<1>4. PICK y : y = [q EXCEPT !.done = d]
  OBVIOUS
<1>5. y \in PasteStates /\ y.done = d /\ y.pending = q.pending
  BY <1>3, <1>4 DEF PasteStates
<1>6. /\ n + 1 \in 1..(n + 1) /\ n + 1 \notin 1..n
      /\ \A i \in 1..n : i \in 1..(n + 1)
      /\ \A i \in 1..(n + 1) : i \in 1..n \/ i = n + 1
  OBVIOUS
<1>7. PasteGood(y, {n + 1})
  <2>1. Waiting(y) = Waiting(q) /\ Waiting(q) \subseteq 1..n
    BY <1>1, <1>5 DEF Waiting, PasteGood
  <2>2. \A j \in 1..(n + 1) : d[j] = IF j \in {n + 1} \cup Waiting(q) THEN 0 ELSE 1
    BY <1>1, <1>3, <1>6, <2>1 DEF PasteGood
  <2>3. \A i, j \in 1..Len(y.pending) : y.pending[i].job = y.pending[j].job => i = j
    BY <1>5 DEF PasteGood
  <2> QED
    BY <1>3, <1>5, <1>6, <2>1, <2>2, <2>3 DEF PasteGood
<1>8. PasteSelection(q) = AskPrimary(y, n + 1)
  BY <1>1, <1>2, <1>4 DEF PasteSelection
<1>9. {n + 1} \ {n + 1} = {} /\ "primary" \in PasteSources /\ n + 1 \in {n + 1}
  BY DEF PasteSources
<1>10. /\ PasteGood(Pasted(y, n + 1), {}) /\ PasteGood(Await(y, "primary", n + 1), {})
       /\ Pasted(y, n + 1) \in PasteStates /\ Await(y, "primary", n + 1) \in PasteStates
  BY <1>5, <1>7, <1>9, Settles
<1> QED
  BY <1>8, <1>10 DEF AskPrimary

LEMMA NotifyKeeps ==
    ASSUME NEW q \in PasteStates, PasteGood(q, {}), q.events # <<>>
    PROVE  SelectionNotify(q) \in PasteStates /\ PasteGood(SelectionNotify(q), {})
<1>1. PICK e : e = Head(q.events)
  OBVIOUS
<1>2. PICK mine : mine = Waiters(q, e.s)
  OBVIOUS
<1>3. PICK n : n = [q EXCEPT !.events = Tail(@)]
  OBVIOUS
<1>4. n \in PasteStates /\ n.pending = q.pending /\ n.done = q.done
  <2>1. q.events \in Seq([s : PasteSources, ok : BOOLEAN])
    BY DEF PasteStates
  <2>2. Tail(q.events) \in Seq([s : PasteSources, ok : BOOLEAN])
    BY <2>1
  <2> QED
    BY <1>3, <2>2 DEF PasteStates
<1>5. CASE mine = {}
  <2>1. SelectionNotify(q) = n
    BY <1>1, <1>2, <1>3, <1>5 DEF SelectionNotify
  <2> QED
    BY <1>4, <2>1, PasteSame
<1>6. CASE mine # {}
  <2>1. PICK i : i = Min(mine)
    OBVIOUS
  <2>2. i \in 1..Len(q.pending)
    <3>1. mine \in SUBSET Nat /\ mine \in SUBSET (1..Len(q.pending))
      BY <1>2 DEF PasteStates, Waiters
    <3>2. i \in mine
      BY <1>6, <2>1, <3>1, Smallest DEF Min
    <3> QED
      BY <3>1, <3>2
  <2>3. PICK rest : rest = RemoveAt(q.pending, i)
    OBVIOUS
  <2>4. PICK got : got = [n EXCEPT !.pending = rest, !.timer = rest # <<>>]
    OBVIOUS
  <2>5. PICK last : last = [got EXCEPT !.prop = NoText]
    OBVIOUS
  <2>6. /\ rest \in Seq(Requests) /\ Len(rest) = Len(q.pending) - 1
        /\ \A j \in 1..(i - 1) : rest[j] = q.pending[j]
        /\ \A j \in i..(Len(q.pending) - 1) : rest[j] = q.pending[j + 1]
    <3>1. q.pending \in Seq(Requests)
      BY DEF PasteStates
    <3> QED
      BY <2>2, <2>3, <3>1, RemoveAtFacts
  <2>7. /\ got \in PasteStates /\ got.pending = rest /\ got.done = q.done
        /\ last \in PasteStates /\ last.pending = rest /\ last.done = q.done
    BY <1>4, <2>4, <2>5, <2>6 DEF PasteStates
  <2>8. PasteGood(got, {q.pending[i].job})
    <3>1. PICK k \in Nat : k = Len(q.pending)
      BY DEF PasteStates
    <3>a. i \in 1..k /\ Len(got.pending) = k - 1
      BY <2>2, <2>6, <2>7, <3>1
    <3>2. PICK f : f = [j \in 1..(k - 1) |-> IF j < i THEN j ELSE j + 1]
      OBVIOUS
    <3>3. f \in [1..(k - 1) -> 1..k] /\ \A a, b \in 1..(k - 1) : f[a] = f[b] => a = b
      BY <2>2, <3>1, <3>2
    <3>4. \A j \in 1..(k - 1) : rest[j] = q.pending[f[j]]
      BY <2>2, <2>6, <3>1, <3>2
    <3>5. ASSUME NEW a \in 1..k PROVE a \in {i} <=> \A j \in 1..(k - 1) : f[j] # a
      <4>1. CASE a < i
        <5>1. a \in 1..(k - 1) /\ f[a] = a
          BY <3>a, <3>2, <4>1
        <5> QED
          BY <3>a, <4>1, <5>1
      <4>2. CASE a > i
        <5>1. a - 1 \in 1..(k - 1) /\ f[a - 1] = a
          BY <3>a, <3>2, <4>2
        <5> QED
          BY <3>a, <4>2, <5>1
      <4>3. CASE a = i
        <5>1. \A j \in 1..(k - 1) : f[j] # i
          BY <3>a, <3>2
        <5> QED
          BY <4>3, <5>1
      <4> QED
        BY <3>a, <4>1, <4>2, <4>3
    <3>6. PICK I : I = {i}
      OBVIOUS
    <3>7. /\ I \in SUBSET (1..k)
          /\ \A j \in 1..(k - 1) : got.pending[j] = q.pending[f[j]]
          /\ \A a \in 1..k : a \in I <=> \A j \in 1..(k - 1) : f[j] # a
      BY <2>7, <3>a, <3>4, <3>5, <3>6
    <3>8. /\ \A a \in I : q.pending[a].job \in {q.pending[i].job}
          /\ \A x \in {q.pending[i].job} : \E a \in I : x = q.pending[a].job
      BY <3>6
    <3>9. PICK m : m = k - 1
      OBVIOUS
    <3>10. /\ m = Len(got.pending) /\ k = Len(q.pending) /\ f \in [1..m -> 1..k]
           /\ \A a, b \in 1..m : f[a] = f[b] => a = b
           /\ \A j \in 1..m : got.pending[j] = q.pending[f[j]]
           /\ I \in SUBSET (1..k)
           /\ \A a \in 1..k : a \in I <=> \A j \in 1..m : f[j] # a
      BY <3>1, <3>a, <3>3, <3>7, <3>9
    <3>11. got \in PasteStates /\ got.done = q.done
      BY <2>7
    <3>12. PICK J : J = {q.pending[i].job}
      OBVIOUS
    <3>13. (\A a \in I : q.pending[a].job \in J) /\ \A x \in J : \E a \in I : x = q.pending[a].job
      BY <3>8, <3>12
    <3>15. TakesOff(q, got, m, k, f, I, J)
      BY <3>10, <3>13 DEF TakesOff
    <3>14. PasteGood(got, J)
      BY <3>11, <3>15, TakenOff
    <3> QED
      BY <3>12, <3>14
  <2>9. PasteGood(last, {q.pending[i].job})
    BY <2>7, <2>8, PasteSame
  <2>10. q.pending[i] \in Requests
    BY <2>2 DEF PasteStates
  <2>11. PICK r \in Requests : r = q.pending[i]
    BY <2>10
  <2>12. {r.job} \ {r.job} = {} /\ r.job \in {r.job}
    OBVIOUS
  <2>13. \A text : /\ Called(got, r, text) \in PasteStates /\ PasteGood(Called(got, r, text), {})
                   /\ Called(last, r, text) \in PasteStates /\ PasteGood(Called(last, r, text), {})
    <3> TAKE text
    <3>1. Called(got, r, text) \in PasteStates /\ PasteGood(Called(got, r, text), {r.job} \ {r.job})
      BY <2>7, <2>8, <2>11, <2>12, CalledSettles
    <3>2. Called(last, r, text) \in PasteStates /\ PasteGood(Called(last, r, text), {r.job} \ {r.job})
      BY <2>7, <2>9, <2>11, <2>12, CalledSettles
    <3> QED
      BY <2>12, <3>1, <3>2
  <2>14. SelectionNotify(q) = IF ~e.ok THEN Called(got, r, NoText) ELSE Called(last, r, q.prop)
    BY <1>1, <1>2, <1>3, <1>6, <2>1, <2>3, <2>4, <2>5, <2>11 DEF SelectionNotify
  <2> QED
    BY <2>13, <2>14
<1> QED
  BY <1>5, <1>6

LEMMA SweepKeepsCount ==
    ASSUME NEW q \in PasteStates, PasteGood(q, {}), NEW late \in DOMAIN q.pending
    PROVE  Sweep(q, late) \in PasteStates /\ PasteGood(Sweep(q, late), {})
<1>1. PICK n \in Nat : n = Len(q.pending)
  BY DEF PasteStates
<1>2. q.pending \in Seq(Requests) /\ late \in 1..n
  BY <1>1 DEF PasteStates
<1>3. PICK rest : rest = SubSeq(q.pending, late + 1, Len(q.pending))
  OBVIOUS
<1>4. PICK now : now = SubSeq(q.pending, 1, late)
  OBVIOUS
<1>a. late \in 1..Len(q.pending)
  BY <1>1, <1>2
<1>5. /\ rest \in Seq(Requests) /\ Len(rest) = n - late
      /\ \A j \in 1..(n - late) : rest[j] = q.pending[late + j]
  BY <1>1, <1>2, <1>3, <1>a, CutFacts
<1>6. /\ now \in Seq(Requests) /\ Len(now) = late
      /\ \A j \in 1..late : now[j] = q.pending[j]
  BY <1>2, <1>4, <1>a, CutFacts
<1>7. PICK b : b = [q EXCEPT !.pending = rest, !.timer = rest # <<>>]
  OBVIOUS
<1>8. b \in PasteStates /\ b.pending = rest /\ b.done = q.done
  BY <1>5, <1>7 DEF PasteStates
<1> DEFINE Left(k) == {now[i].job : i \in (k + 1)..late}
<1>9. PasteGood(b, Left(0))
  <2>1. PICK f : f = [j \in 1..(n - late) |-> late + j]
    OBVIOUS
  <2>2. f \in [1..(n - late) -> 1..n] /\ \A i, j \in 1..(n - late) : f[i] = f[j] => i = j
    BY <1>1, <1>2, <2>1
  <2>3. \A j \in 1..(n - late) : rest[j] = q.pending[f[j]]
    BY <1>5, <2>1
  <2>4. PICK I : I = 1..late
    OBVIOUS
  <2>5. ASSUME NEW i \in 1..n PROVE i \in I <=> \A j \in 1..(n - late) : f[j] # i
    <3>1. CASE i <= late
      BY <1>2, <2>1, <2>4, <3>1
    <3>2. CASE i > late
      <4>1. i - late \in 1..(n - late) /\ f[i - late] = i
        BY <1>2, <2>1, <3>2
      <4> QED
        BY <1>2, <2>4, <3>2, <4>1
    <3> QED
      BY <1>2, <3>1, <3>2
  <2>6. I \in SUBSET (1..n)
    BY <1>2, <2>4
  <2>7. /\ Len(b.pending) = n - late
        /\ \A j \in 1..(n - late) : b.pending[j] = q.pending[f[j]]
    BY <1>5, <1>8, <2>3
  <2>8. (\A i \in I : q.pending[i].job \in Left(0)) /\ \A x \in Left(0) : \E i \in I : x = q.pending[i].job
    <3>1. (0 + 1)..late = 1..late
      OBVIOUS
    <3>2. \A i \in I : now[i] = q.pending[i]
      BY <1>6, <2>4
    <3> QED
      BY <2>4, <3>1, <3>2
  <2> HIDE DEF Left
  <2>9. PICK m : m = n - late
    OBVIOUS
  <2>10. PICK J : J = Left(0)
    OBVIOUS
  <2>11. /\ m = Len(b.pending) /\ n = Len(q.pending) /\ f \in [1..m -> 1..n]
         /\ \A i, j \in 1..m : f[i] = f[j] => i = j
         /\ \A j \in 1..m : b.pending[j] = q.pending[f[j]]
         /\ I \in SUBSET (1..n)
         /\ \A i \in 1..n : i \in I <=> \A j \in 1..m : f[j] # i
    BY <1>1, <2>2, <2>5, <2>6, <2>7, <2>9
  <2>12. (\A i \in I : q.pending[i].job \in J) /\ \A x \in J : \E i \in I : x = q.pending[i].job
    BY <2>8, <2>10
  <2>13. b \in PasteStates /\ b.done = q.done
    BY <1>8
  <2>15. TakesOff(q, b, m, n, f, I, J)
    BY <2>11, <2>12 DEF TakesOff
  <2>14. PasteGood(b, J)
    BY <2>13, <2>15, TakenOff
  <2> QED
    BY <2>10, <2>14
<1>10. PICK h \in [0..late -> PasteStates] :
          /\ h[0] = b
          /\ \A k \in 1..late : h[k] = Called(h[k - 1], now[k], NoText)
          /\ h[late] = FoldLeft(LAMBDA r, p : Called(r, p, NoText), b, now)
  <2>1. \E h \in [0..Len(now) -> PasteStates] :
          /\ h[0] = b
          /\ \A k \in 1..Len(now) : h[k] = Called(h[k - 1], now[k], NoText)
          /\ h[Len(now)] = FoldLeft(LAMBDA r, p : Called(r, p, NoText), b, now)
    BY <1>6, <1>8, SweepRuns
  <2> QED
    BY <1>6, <2>1
<1>11. ASSUME NEW k \in 1..late, PasteGood(h[k - 1], Left(k - 1)) PROVE PasteGood(h[k], Left(k))
  <2>1. now[k] \in Requests /\ h[k - 1] \in PasteStates /\ h[k] = Called(h[k - 1], now[k], NoText)
    <3>1. k \in 1..Len(now) /\ k - 1 \in 0..late
      BY <1>1, <1>2, <1>6
    <3>2. now[k] \in Requests
      BY <1>6, <3>1
    <3>3. h[k - 1] \in PasteStates /\ h[k] = Called(h[k - 1], now[k], NoText)
      BY <1>10, <3>1
    <3> QED
      BY <3>2, <3>3
  <2>2. \A i, j \in 1..late : now[i].job = now[j].job => i = j
    BY <1>1, <1>2, <1>6 DEF PasteGood
  <2>3. now[k].job \in Left(k - 1) /\ Left(k - 1) \ {now[k].job} = Left(k)
    <3>1. ((k - 1) + 1)..late = {k} \cup (k + 1)..late /\ k \notin (k + 1)..late
      OBVIOUS
    <3>2. \A i \in (k + 1)..late : i \in 1..late /\ i # k
      OBVIOUS
    <3>3. \A i \in (k + 1)..late : now[i].job # now[k].job
      BY <2>2, <3>2
    <3> QED
      BY <3>1, <3>3
  <2> HIDE DEF Left
  <2>4. PasteGood(Called(h[k - 1], now[k], NoText), Left(k - 1) \ {now[k].job})
    BY <1>11, <2>1, <2>3, CalledSettles
  <2> QED
    BY <2>1, <2>3, <2>4
<1>12. PasteGood(h[late], Left(late))
  <2> HIDE DEF Left
  <2>1. PICK T : T = {k \in 0..late : PasteGood(h[k], Left(k))}
    OBVIOUS
  <2>2. T \in SUBSET (0..late) /\ 0 \in T /\ late \in Nat
    <3>1. late \in Nat /\ 0 \in 0..late
      BY <1>1, <1>2
    <3> QED
      BY <1>9, <1>10, <2>1, <3>1
  <2>3. \A k \in 1..late : k - 1 \in T => k \in T
    BY <1>11, <2>1, <2>2
  <2>4. T = 0..late
    BY <2>2, <2>3, StepByStep
  <2> QED
    BY <2>1, <2>2, <2>4
<1>13. Left(late) = {}
  <2>1. (late + 1)..late = {}
    BY <1>2
  <2> QED
    BY <2>1
<1>14. Sweep(q, late) = h[late]
  BY <1>3, <1>4, <1>7, <1>10 DEF Sweep
<1>15. late \in 0..late
  BY <1>2
<1> QED
  BY <1>10, <1>12, <1>13, <1>14, <1>15

\* What the other operators do to the requests and the ends: nothing.
LEMMA OthersKeep ==
    ASSUME NEW q \in PasteStates, PasteGood(q, {}), NEW s \in PasteSources, NEW ok \in BOOLEAN
    PROVE  /\ GetClipboard(q, s) \in PasteStates /\ PasteGood(GetClipboard(q, s), {})
           /\ SetClipboard(q, s) \in PasteStates /\ PasteGood(SetClipboard(q, s), {})
           /\ LoseSelection(q, s) \in PasteStates /\ PasteGood(LoseSelection(q, s), {})
           /\ \A i \in DOMAIN q.asked : /\ OwnerAnswers(q, i, ok) \in PasteStates
                                        /\ PasteGood(OwnerAnswers(q, i, ok), {})
<1>1. ASSUME NEW v \in BOOLEAN
      PROVE  [q EXCEPT !.own[s] = v] \in PasteStates /\ PasteGood([q EXCEPT !.own[s] = v], {})
  <2>1. PICK y : y = [q EXCEPT !.own[s] = v]
    OBVIOUS
  <2>2. y \in PasteStates /\ y.pending = q.pending /\ y.done = q.done
    BY <2>1 DEF PasteStates
  <2> QED
    BY <2>1, <2>2, PasteSame
<1>2. SetClipboard(q, s) \in PasteStates /\ PasteGood(SetClipboard(q, s), {})
  BY <1>1 DEF SetClipboard
<1>3. LoseSelection(q, s) \in PasteStates /\ PasteGood(LoseSelection(q, s), {})
  BY <1>1 DEF LoseSelection
<1>4. GetClipboard(q, s) \in PasteStates /\ PasteGood(GetClipboard(q, s), {})
  <2>1. PICK c : c = Convert(q, s)
    OBVIOUS
  <2>2. q.asked \in Seq(PasteSources) /\ Append(q.asked, s) \in Seq(PasteSources)
    BY DEF PasteStates
  <2>3. c \in PasteStates /\ c.pending = q.pending /\ c.done = q.done
    BY <2>1, <2>2 DEF Convert, PasteStates
  <2>4. PICK z : z = PollForAnswer(c)
    OBVIOUS
  <2>5. z \in PasteStates /\ z.pending = q.pending /\ z.done = q.done
    <3>1. CASE c.events = <<>>
      BY <2>3, <2>4, <3>1 DEF PollForAnswer
    <3>2. CASE c.events # <<>>
      <4>1. c.events \in Seq([s : PasteSources, ok : BOOLEAN])
        BY <2>3 DEF PasteStates
      <4>2. PICK e : e = Tail(c.events)
        OBVIOUS
      <4>3. e \in Seq([s : PasteSources, ok : BOOLEAN])
        BY <3>2, <4>1, <4>2
      <4>4. PICK pr \in PasteSources \cup {NoText} : pr = IF Head(c.events).ok THEN NoText ELSE c.prop
        BY <2>3 DEF PasteStates
      <4>5. z = [c EXCEPT !.events = e, !.prop = pr]
        BY <2>3, <2>4, <3>2, <4>2, <4>4 DEF PollForAnswer, PasteStates
      <4> QED
        BY <2>3, <4>3, <4>4, <4>5 DEF PasteStates
    <3> QED
      BY <3>1, <3>2
  <2>6. PasteGood(z, {})
    BY <2>5, PasteSame
  <2>7. GetClipboard(q, s) = q \/ GetClipboard(q, s) = z
    BY <2>1, <2>4 DEF GetClipboard
  <2> QED
    BY <2>5, <2>6, <2>7
<1>5. ASSUME NEW i \in DOMAIN q.asked
      PROVE  OwnerAnswers(q, i, ok) \in PasteStates /\ PasteGood(OwnerAnswers(q, i, ok), {})
  <2>1. q.asked \in Seq(PasteSources) /\ i \in 1..Len(q.asked)
    BY DEF PasteStates
  <2>2. PICK as \in Seq(PasteSources) : as = RemoveAt(q.asked, i)
    BY <2>1, RemoveAtFacts
  <2>3. q.asked[i] \in PasteSources
    BY <2>1
  <2>4. [s |-> q.asked[i], ok |-> ok] \in [s : PasteSources, ok : BOOLEAN]
    BY <2>3
  <2>5. PICK ev \in Seq([s : PasteSources, ok : BOOLEAN]) :
            ev = Append(q.events, [s |-> q.asked[i], ok |-> ok])
    <3>1. q.events \in Seq([s : PasteSources, ok : BOOLEAN])
      BY DEF PasteStates
    <3>2. PICK e \in [s : PasteSources, ok : BOOLEAN] : e = [s |-> q.asked[i], ok |-> ok]
      BY <2>4
    <3>3. Append(q.events, e) \in Seq([s : PasteSources, ok : BOOLEAN])
      BY <3>1
    <3> QED
      BY <3>2, <3>3
  <2>6. PICK pr \in PasteSources \cup {NoText} : pr = IF ok THEN q.asked[i] ELSE q.prop
    BY <2>3 DEF PasteStates
  <2>7. PICK y : y = [q EXCEPT !.asked = as, !.events = ev, !.prop = pr]
    OBVIOUS
  <2>8. y = OwnerAnswers(q, i, ok)
    BY <2>2, <2>5, <2>6, <2>7 DEF OwnerAnswers, PasteStates
  <2>9. y \in PasteStates /\ y.pending = q.pending /\ y.done = q.done
    BY <2>2, <2>5, <2>6, <2>7 DEF PasteStates
  <2> QED
    BY <2>8, <2>9, PasteSame
<1> QED
  BY <1>2, <1>3, <1>4, <1>5

\* The inductive invariant of this scene.
PasteInv == paste \in PasteStates /\ PasteGood(paste, {})

LEMMA PasteStep == PasteInv /\ [Next]_vars => PasteInv'
<1> SUFFICES ASSUME PasteInv, [Next]_vars PROVE PasteInv'
  OBVIOUS
<1>0. paste \in PasteStates /\ PasteGood(paste, {})
  BY DEF PasteInv
<1> SUFFICES ASSUME paste' # paste PROVE paste' \in PasteStates /\ PasteGood(paste', {})
  BY <1>0 DEF PasteInv
<1>1. CASE MiddleClick
  BY <1>0, <1>1, SelectKeeps DEF MiddleClick, Wants
<1>2. CASE PasteNow \/ CopyNow \/ OwnerChanges
  <2>1. PICK s \in PasteSources :
            \/ paste' = GetClipboard(paste, s) \/ paste' = SetClipboard(paste, s)
            \/ paste' = LoseSelection(paste, s)
    BY <1>2 DEF PasteNow, CopyNow, OwnerChanges, Wants
  <2> QED
    BY <1>0, <2>1, OthersKeep
<1>3. CASE OwnerActs
  <2>1. PICK i \in DOMAIN paste.asked, ok \in BOOLEAN : paste' = OwnerAnswers(paste, i, ok)
    BY <1>3 DEF OwnerActs, Comes
  <2>2. "primary" \in PasteSources
    BY DEF PasteSources
  <2> QED
    BY <1>0, <2>1, <2>2, OthersKeep
<1>4. CASE AnswerRead
  BY <1>0, <1>4, NotifyKeeps DEF AnswerRead, Comes
<1>5. CASE DeadlinePasses
  BY <1>0, <1>5, SweepKeepsCount DEF DeadlinePasses, Comes
<1> QED
  BY <1>1, <1>2, <1>3, <1>4, <1>5, ScenesApart DEF Pasting

(* Each paste is answered once, with a text or without, whether the owners *)
(* of the selections answer, refuse, answer late or never, and whoever     *)
(* reads an answer that was meant for another (requestSelection,           *)
(* handleSelectionNotify and sweepStaleSelectionRequests, Window_xcb.cpp). *)
THEOREM PastesEndOnce == Spec => []PasteOnce
<1>1. Init => PasteInv
  <2> SUFFICES ASSUME Init PROVE PasteInv
    OBVIOUS
  <2>1. paste = PasteInit
    BY DEF Init
  <2>2. /\ <<>> \in Seq(Requests) /\ <<>> \in Seq(PasteSources) /\ <<>> \in Seq(Nat)
        /\ <<>> \in Seq([s : PasteSources, ok : BOOLEAN])
        /\ Len(<<>>) = 0 /\ 1..0 = {}
    OBVIOUS
  <2>3. [s \in PasteSources |-> FALSE] \in [PasteSources -> BOOLEAN]
    OBVIOUS
  <2>4. paste \in PasteStates
    BY <2>1, <2>2, <2>3 DEF PasteInit, PasteStates
  <2>5. Waiting(paste) = {}
    BY <2>1, <2>2 DEF PasteInit, Waiting
  <2>6. PasteGood(paste, {})
    BY <2>1, <2>2, <2>5 DEF PasteInit, PasteGood
  <2> QED
    BY <2>4, <2>6 DEF PasteInv
<1>2. PasteInv => PasteOnce
  <2> SUFFICES ASSUME PasteInv, NEW job \in DOMAIN paste.done, NEW mine,
                      mine = {i \in DOMAIN paste.pending : paste.pending[i].job = job}
               PROVE  paste.done[job] + Cardinality(mine) = 1
    BY DEF PasteOnce
  <2>a. paste.done \in Seq(Nat) /\ paste.pending \in Seq(Requests) /\ PasteGood(paste, {})
    BY DEF PasteInv, PasteStates
  <2>b. job \in 1..Len(paste.done) /\ DOMAIN paste.pending = 1..Len(paste.pending)
    BY <2>a
  <2>c. paste.done[job] = IF job \in Waiting(paste) THEN 0 ELSE 1
    <3>1. job \in {} \cup Waiting(paste) <=> job \in Waiting(paste)
      OBVIOUS
    <3> QED
      BY <2>a, <2>b, <3>1 DEF PasteGood
  <2>d. \A i, j \in 1..Len(paste.pending) :
           paste.pending[i].job = paste.pending[j].job => i = j
    BY <2>a DEF PasteGood
  <2>1. /\ job \in 1..Len(paste.done) /\ DOMAIN paste.pending = 1..Len(paste.pending)
        /\ paste.done[job] = IF job \in Waiting(paste) THEN 0 ELSE 1
        /\ \A i, j \in 1..Len(paste.pending) :
              paste.pending[i].job = paste.pending[j].job => i = j
    BY <2>b, <2>c, <2>d
  <2>2. CASE job \in Waiting(paste)
    <3>1. PICK k \in 1..Len(paste.pending) : paste.pending[k].job = job
      BY <2>2 DEF Waiting
    <3>2. mine = {k}
      BY <2>1, <3>1
    <3>3. Cardinality(mine) = 1
      BY <3>2, FS_Singleton
    <3> QED
      BY <2>1, <2>2, <3>3
  <2>3. CASE job \notin Waiting(paste)
    <3>1. mine = {}
      BY <2>1, <2>3 DEF Waiting
    <3>2. Cardinality(mine) = 0
      BY <3>1, FS_EmptySet
    <3> QED
      BY <2>1, <2>3, <3>2
  <2> QED
    BY <2>2, <2>3
<1> QED
  BY <1>1, <1>2, PasteStep, PTL DEF Spec

-----------------------------------------------------------------------------
(* Modes.  The copies that other threads read are functions of the screen  *)
(* that is shown, and each operator that changes what they are taken from  *)
(* takes them again.                                                       *)

ModeFields == {"on", "screen", "hold", "paste", "mouse", "saved", "flags", "kitty",
               "shapes", "pointer", "titles", "title"}
AllModes == MouseModes \cup OtherModes
TitleTexts == {"one", "two"}
Mirrored(t) ==
    /\ t.paste = ("paste" \in Active(t))
    /\ t.mouse = (Active(t) \cap MouseModes # {})
    /\ t.pointer = TopOr(t.shapes[t.screen], "")
    /\ t.title = IF t.titles = <<>> THEN NoTitle ELSE <<Last(t.titles)>>
ModesGood(t) ==
    /\ t = [f \in ModeFields |-> t[f]]
    /\ t.screen \in Screens
    /\ t.on \in [Screens -> SUBSET AllModes]
    /\ t.kitty = [s \in Screens |-> t.kitty[s]]
    /\ t.shapes = [s \in Screens |-> t.shapes[s]]
    /\ t.titles \in Seq(TitleTexts)
    /\ Mirrored(t)
\* The inductive invariant of this scene.
ModesInv == ModesGood(modes)

\* What the hidden screen has of its own, u being later than t.
Hidden(t, u) ==
    \A s \in Screens \ {t.screen} :
        (u.screen = t.screen) =>
           u.on[s] = t.on[s] /\ u.kitty[s] = t.kitty[s] /\ u.shapes[s] = t.shapes[s]
Turned(t, u) == ModesGood(u) /\ Hidden(t, u)

\* What equals a function is one.
LEMMA StillByScreen ==
    ASSUME NEW a, NEW b, a = [s \in Screens |-> a[s]], b = a
    PROVE  b = [s \in Screens |-> b[s]]
OBVIOUS

LEMMA OneIsASequence ==
    ASSUME NEW S, NEW x \in S
    PROVE  <<x>> \in Seq(S)
<1>1. <<>> \in Seq(S) /\ <<x>> = Append(<<>>, x)
  OBVIOUS
<1> QED
  BY <1>1

\* What a sequence ends with after its last is pushed again.
LEMMA LastAgain ==
    ASSUME NEW S, NEW q \in Seq(S), q # <<>>
    PROVE  /\ Append(q, Last(q)) \in Seq(S) /\ Append(q, Last(q)) # <<>>
           /\ Last(Append(q, Last(q))) = Last(q)
<1>1. PICK l : l = Last(q)
  OBVIOUS
<1>2. l \in S
  BY <1>1 DEF Last
<1>3. PICK n : n = Append(q, l)
  OBVIOUS
<1>4. n \in Seq(S) /\ Len(n) = Len(q) + 1 /\ n[Len(q) + 1] = l
  BY <1>2, <1>3
<1>5. Len(q) \in Nat
  OBVIOUS
<1>6. n[Len(n)] = l
  BY <1>4
<1>7. n # <<>>
  BY <1>4, <1>5
<1>8. Last(n) = l
  BY <1>6, Zenon DEF Last
<1> QED
  BY <1>1, <1>3, <1>4, <1>7, <1>8

LEMMA SetModeKeeps ==
    ASSUME NEW t, ModesGood(t), NEW m \in AllModes, NEW v \in BOOLEAN
    PROVE  Turned(t, SetPrivateMode(t, m, v))
<1>1. PICK o \in SUBSET AllModes : o = IF v THEN t.on[t.screen] \cup {m} ELSE t.on[t.screen] \ {m}
  BY DEF ModesGood
<1>2. PICK on : on = [t.on EXCEPT ![t.screen] = o]
  OBVIOUS
<1>3. /\ on \in [Screens -> SUBSET AllModes] /\ on[t.screen] = o
      /\ \A s \in Screens \ {t.screen} : on[s] = t.on[s]
  BY <1>2 DEF ModesGood
<1>4. PICK h : h = IF m = "sync" THEN v ELSE t.hold
  OBVIOUS
<1>5. PICK y : y = SetPrivateMode(t, m, v)
  OBVIOUS
<1>6. PICK p : p = IF m = "paste" THEN "paste" \in o ELSE t.paste
  OBVIOUS
<1>7. PICK c : c = (o \cap MouseModes # {})
  OBVIOUS
<1>8. y = [t EXCEPT !.hold = h, !.on = on, !.paste = p, !.mouse = c]
  <2>1. PICK a : a = [t EXCEPT !.hold = h]
    OBVIOUS
  <2>2. a.on = t.on /\ a.screen = t.screen /\ a = [f \in ModeFields |-> a[f]]
    BY <2>1 DEF ModesGood, ModeFields
  <2>3. PICK b : b = [a EXCEPT !.on = on]
    OBVIOUS
  <2>4. b.on = on /\ b.screen = t.screen /\ b = [f \in ModeFields |-> b[f]]
    BY <2>2, <2>3 DEF ModeFields
  <2>5. PICK z : z = Switch(a, m, v)
    OBVIOUS
  <2>6. z = IF m = "paste" THEN [b EXCEPT !.paste = "paste" \in o] ELSE b
    <3>1. [a EXCEPT !.on[a.screen] = IF v THEN @ \cup {m} ELSE @ \ {m}] = b
      BY <1>1, <1>2, <2>2, <2>3
    <3>2. z = IF m = "paste" THEN SyncPaste(b) ELSE b
      BY <2>5, <3>1, Zenon DEF Switch
    <3>3. Active(b) = o
      BY <1>3, <2>4 DEF Active
    <3>4. SyncPaste(b) = [b EXCEPT !.paste = "paste" \in o]
      BY <3>3, Zenon DEF SyncPaste
    <3> QED
      BY <3>2, <3>4, Zenon
  <2>7. z.on = on /\ z.screen = t.screen
    BY <2>4, <2>6 DEF ModeFields
  <2>8. y = [z EXCEPT !.mouse = c]
    BY <1>3, <1>4, <1>5, <1>7, <2>1, <2>5, <2>7 DEF SetPrivateMode, SyncMouse, Active
  <2> QED
    BY <1>6, <2>1, <2>3, <2>6, <2>8 DEF ModesGood, ModeFields
<1>9. /\ y = [f \in ModeFields |-> y[f]] /\ y.on = on /\ y.paste = p /\ y.mouse = c
      /\ \A f \in ModeFields \ {"hold", "on", "paste", "mouse"} : y[f] = t[f]
  BY <1>8 DEF ModesGood, ModeFields
<1>10. /\ y.screen = t.screen /\ y.kitty = t.kitty /\ y.shapes = t.shapes
       /\ y.titles = t.titles /\ y.title = t.title /\ y.pointer = t.pointer
  BY <1>9 DEF ModeFields
<1>11. p = ("paste" \in o)
  <2>1. CASE m = "paste"
    BY <1>6, <2>1, Zenon
  <2>2. CASE m # "paste"
    <3>1. ("paste" \in o) = ("paste" \in t.on[t.screen])
      <4>1. CASE v
        BY <1>1, <2>2, <4>1
      <4>2. CASE ~v
        BY <1>1, <2>2, <4>2
      <4> QED
        BY <4>1, <4>2
    <3>2. t.paste = ("paste" \in t.on[t.screen])
      BY Zenon DEF ModesGood, Mirrored, Active
    <3> QED
      BY <1>6, <2>2, <3>1, <3>2, Zenon
  <2> QED
    BY <2>1, <2>2
<1>12. Active(y) = o
  BY <1>3, <1>9, <1>10 DEF Active
<1>13. y.paste = ("paste" \in Active(y)) /\ y.mouse = (Active(y) \cap MouseModes # {})
  BY <1>7, <1>9, <1>11, <1>12, Zenon
<1>14. Mirrored(y)
  BY <1>10, <1>13 DEF ModesGood, Mirrored
<1>15. t.on \in [Screens -> SUBSET AllModes] /\ t.screen \in Screens /\ t.titles \in Seq(TitleTexts)
       /\ t.kitty = [s \in Screens |-> t.kitty[s]] /\ t.shapes = [s \in Screens |-> t.shapes[s]]
  BY DEF ModesGood
<1>16. ModesGood(y)
  BY <1>3, <1>9, <1>10, <1>14, <1>15 DEF ModesGood
<1>17. Hidden(t, y)
  BY <1>3, <1>9, <1>10 DEF Hidden
<1> QED
  BY <1>5, <1>16, <1>17 DEF Turned

\* What the switch of screens and the resets have in common: the modes of
\* one screen are set, and everything copied is copied again.
Retaken(t, y) ==
    /\ y = [f \in ModeFields |-> y[f]] /\ y.screen \in Screens
    /\ y.on \in [Screens -> SUBSET AllModes]
    /\ y.kitty = [s \in Screens |-> y.kitty[s]] /\ y.shapes = [s \in Screens |-> y.shapes[s]]
    /\ y.paste = ("paste" \in Active(y)) /\ y.mouse = (Active(y) \cap MouseModes # {})
    /\ y.pointer = TopOr(y.shapes[y.screen], "")
    /\ y.titles = t.titles /\ y.title = t.title

LEMMA RetakenGood ==
    ASSUME NEW t, ModesGood(t), NEW y, Retaken(t, y)
    PROVE  ModesGood(y)
<1>1. t.titles \in Seq(TitleTexts) /\ t.title = IF t.titles = <<>> THEN NoTitle ELSE <<Last(t.titles)>>
  BY DEF ModesGood, Mirrored
<1>2. Mirrored(y)
  BY <1>1, Zenon DEF Mirrored, Retaken
<1> QED
  BY <1>1, <1>2 DEF ModesGood, Retaken

\* SyncPaste and SyncMouse, the one after the other.
LEMMA BothSynced ==
    ASSUME NEW y, y = [f \in ModeFields |-> y[f]]
    PROVE  LET z == SyncMouse(SyncPaste(y))
           IN  /\ z = [f \in ModeFields |-> z[f]]
               /\ \A f \in ModeFields \ {"paste", "mouse"} : z[f] = y[f]
               /\ z.paste = ("paste" \in Active(y)) /\ z.mouse = (Active(y) \cap MouseModes # {})
<1>1. PICK o : o = Active(y)
  OBVIOUS
<1>2. PICK p, c : p = ("paste" \in o) /\ c = (o \cap MouseModes # {})
  OBVIOUS
<1>3. PICK x : x = [y EXCEPT !.paste = p]
  OBVIOUS
<1>4. x = SyncPaste(y)
  BY <1>1, <1>2, <1>3, Zenon DEF SyncPaste
<1>5. /\ x = [f \in ModeFields |-> x[f]] /\ x.paste = p
      /\ \A f \in ModeFields \ {"paste"} : x[f] = y[f]
  BY <1>3 DEF ModeFields
<1>6. Active(x) = o
  BY <1>1, <1>5 DEF Active, ModeFields
<1>7. PICK z : z = [x EXCEPT !.mouse = c]
  OBVIOUS
<1>8. z = SyncMouse(x)
  BY <1>2, <1>6, <1>7, Zenon DEF SyncMouse
<1>9. /\ z = [f \in ModeFields |-> z[f]] /\ z.paste = p /\ z.mouse = c
      /\ \A f \in ModeFields \ {"paste", "mouse"} : z[f] = y[f]
  BY <1>5, <1>7 DEF ModeFields
<1>10. z = SyncMouse(SyncPaste(y))
  BY <1>4, <1>8, Zenon
<1>11. z.paste = ("paste" \in Active(y)) /\ z.mouse = (Active(y) \cap MouseModes # {})
  BY <1>1, <1>2, <1>9, Zenon
<1> QED
  BY <1>9, <1>10, <1>11, Zenon

\* What a switch of screens copies again.
CopiedAgain(y) == NotifyPointerShape(KittySwitch(SyncMouse(SyncPaste(y))))
LEMMA CopiedAgainIs ==
    ASSUME NEW t, NEW y, NEW z, z = CopiedAgain(y),
           y = [f \in ModeFields |-> y[f]], y.screen \in Screens, y.on \in [Screens -> SUBSET AllModes],
           y.kitty = [s \in Screens |-> y.kitty[s]], y.shapes = [s \in Screens |-> y.shapes[s]],
           y.titles = t.titles, y.title = t.title
    PROVE  /\ Retaken(t, z) /\ z.on = y.on /\ z.screen = y.screen /\ z.kitty = y.kitty
           /\ z.shapes = y.shapes
<1>1. PICK d : d = SyncMouse(SyncPaste(y))
  OBVIOUS
<1>2. /\ d = [f \in ModeFields |-> d[f]]
      /\ \A f \in ModeFields \ {"paste", "mouse"} : d[f] = y[f]
      /\ d.paste = ("paste" \in Active(y)) /\ d.mouse = (Active(y) \cap MouseModes # {})
  BY <1>1, BothSynced
<1>3. PICK k : k = [d EXCEPT !.flags = TopOr(d.kitty[d.screen], 0)]
  OBVIOUS
<1>4. z = [k EXCEPT !.pointer = TopOr(k.shapes[k.screen], "")]
  BY <1>1, <1>3, Zenon DEF CopiedAgain, KittySwitch, NotifyPointerShape
<1>5. /\ k = [f \in ModeFields |-> k[f]]
      /\ \A f \in ModeFields \ {"flags"} : k[f] = d[f]
  BY <1>2, <1>3 DEF ModeFields
<1>6. /\ z = [f \in ModeFields |-> z[f]] /\ z.pointer = TopOr(z.shapes[z.screen], "")
      /\ z.on = y.on /\ z.screen = y.screen /\ z.kitty = y.kitty /\ z.shapes = y.shapes
      /\ z.paste = d.paste /\ z.mouse = d.mouse /\ z.titles = y.titles /\ z.title = y.title
  BY <1>2, <1>4, <1>5 DEF ModeFields
<1>7. Active(z) = Active(y)
  BY <1>6, Zenon DEF Active
<1>8. z.paste = ("paste" \in Active(z)) /\ z.mouse = (Active(z) \cap MouseModes # {})
  BY <1>2, <1>6, <1>7, Zenon
<1> QED
  BY <1>6, <1>8 DEF Retaken

LEMMA SwitchScreenKeeps ==
    ASSUME NEW t, ModesGood(t)
    PROVE  Turned(t, EnterAlt(t)) /\ Turned(t, LeaveAlt(t))
<1>1. /\ t = [f \in ModeFields |-> t[f]] /\ t.screen \in Screens /\ t.on \in [Screens -> SUBSET AllModes]
      /\ t.kitty = [s \in Screens |-> t.kitty[s]] /\ t.shapes = [s \in Screens |-> t.shapes[s]]
  BY DEF ModesGood
<1>2. PICK e, l : e = EnterAlt(t) /\ l = LeaveAlt(t)
  OBVIOUS
<1>3. PICK a : a = [t EXCEPT !.on["alt"] = Defaults, !.screen = "alt"]
  OBVIOUS
<1>4. /\ a = [f \in ModeFields |-> a[f]] /\ a.screen = "alt"
      /\ a.on = [t.on EXCEPT !["alt"] = Defaults]
      /\ \A f \in ModeFields \ {"on", "screen"} : a[f] = t[f]
  BY <1>1, <1>3 DEF ModeFields
<1>5. PICK b : b = [t EXCEPT !.screen = "main"]
  OBVIOUS
<1>6. /\ b = [f \in ModeFields |-> b[f]] /\ b.screen = "main"
      /\ \A f \in ModeFields \ {"screen"} : b[f] = t[f]
  BY <1>1, <1>5 DEF ModeFields
<1>7. e = CopiedAgain(a) /\ l = CopiedAgain(b)
  BY <1>2, <1>3, <1>5, Zenon DEF EnterAlt, LeaveAlt, CopiedAgain
<1>8. /\ a.on \in [Screens -> SUBSET AllModes] /\ a.screen \in Screens
      /\ a.kitty = t.kitty /\ a.shapes = t.shapes /\ a.titles = t.titles /\ a.title = t.title
      /\ a.on["main"] = t.on["main"]
  BY <1>1, <1>4 DEF ModeFields, Screens, Defaults, AllModes, OtherModes
<1>9. /\ b.on = t.on /\ b.screen \in Screens
      /\ b.kitty = t.kitty /\ b.shapes = t.shapes /\ b.titles = t.titles /\ b.title = t.title
  BY <1>6 DEF ModeFields, Screens
<1>10. Retaken(t, e) /\ e.on = a.on /\ e.kitty = t.kitty /\ e.shapes = t.shapes /\ e.screen = "alt"
  BY <1>1, <1>4, <1>7, <1>8, CopiedAgainIs
<1>11. Retaken(t, l) /\ l.on = t.on /\ l.kitty = t.kitty /\ l.shapes = t.shapes /\ l.screen = "main"
  BY <1>1, <1>6, <1>7, <1>9, CopiedAgainIs
<1>12. ModesGood(e) /\ ModesGood(l)
  BY <1>10, <1>11, RetakenGood
<1>13. Hidden(t, e)
  BY <1>8, <1>10 DEF Hidden, Screens
<1>14. Hidden(t, l)
  BY <1>11 DEF Hidden
<1> QED
  BY <1>2, <1>12, <1>13, <1>14 DEF Turned

LEMMA ResetsKeep ==
    ASSUME NEW t, ModesGood(t)
    PROVE  ModesGood(SoftReset(t)) /\ ModesGood(FullReset(t))
<1>1. /\ t = [f \in ModeFields |-> t[f]] /\ t.screen \in Screens /\ t.on \in [Screens -> SUBSET AllModes]
      /\ t.kitty = [s \in Screens |-> t.kitty[s]] /\ t.shapes = [s \in Screens |-> t.shapes[s]]
      /\ t.pointer = TopOr(t.shapes[t.screen], "")
  BY DEF ModesGood, Mirrored
<1>2. PICK y, z : y = SoftReset(t) /\ z = FullReset(t)
  OBVIOUS
<1>3. PICK o : o = Defaults \cup (t.on[t.screen] \ {"wrap"})
  OBVIOUS
<1>4. o \in SUBSET AllModes
  BY <1>1, <1>3 DEF Defaults, AllModes, OtherModes
<1>5. PICK a : a = [t EXCEPT !.on[t.screen] = o]
  OBVIOUS
<1>6. /\ a = [f \in ModeFields |-> a[f]] /\ a.on = [t.on EXCEPT ![t.screen] = o]
      /\ \A f \in ModeFields \ {"on"} : a[f] = t[f]
  BY <1>1, <1>5 DEF ModeFields
<1>7. /\ a.on \in [Screens -> SUBSET AllModes] /\ a.screen = t.screen /\ a.kitty = t.kitty
      /\ a.shapes = t.shapes /\ a.pointer = t.pointer /\ a.titles = t.titles /\ a.title = t.title
  BY <1>1, <1>4, <1>6 DEF ModeFields
<1>8. y = SyncMouse(SyncPaste(a))
  <2>1. [t EXCEPT !.on[t.screen] = Defaults \cup (@ \ {"wrap"})] = a
    BY <1>1, <1>3, <1>5
  <2> QED
    BY <1>2, <2>1, Zenon DEF SoftReset
<1>9. /\ y = [f \in ModeFields |-> y[f]]
      /\ \A f \in ModeFields \ {"paste", "mouse"} : y[f] = a[f]
      /\ y.paste = ("paste" \in Active(a)) /\ y.mouse = (Active(a) \cap MouseModes # {})
  BY <1>6, <1>8, BothSynced
<1>10. /\ y.on = a.on /\ y.screen = t.screen /\ y.kitty = t.kitty /\ y.shapes = t.shapes
       /\ y.pointer = t.pointer /\ y.titles = t.titles /\ y.title = t.title
  BY <1>7, <1>9 DEF ModeFields
<1>11. Active(y) = Active(a)
  BY <1>7, <1>10, Zenon DEF Active
<1>12. y.paste = ("paste" \in Active(y)) /\ y.mouse = (Active(y) \cap MouseModes # {})
  BY <1>9, <1>11, Zenon
<1>13. Retaken(t, y)
  BY <1>1, <1>7, <1>9, <1>10, <1>12 DEF Retaken
<1>14. PICK b : b = [t EXCEPT !.on = [s \in Screens |-> Defaults], !.screen = "main", !.hold = FALSE,
                              !.shapes = [s \in Screens |-> <<>>], !.flags = 0,
                              !.kitty = [s \in Screens |-> <<>>]]
  OBVIOUS
<1>15. /\ b = [f \in ModeFields |-> b[f]] /\ b.on = [s \in Screens |-> Defaults] /\ b.screen = "main"
       /\ b.shapes = [s \in Screens |-> <<>>] /\ b.kitty = [s \in Screens |-> <<>>]
       /\ b.titles = t.titles /\ b.title = t.title
  BY <1>1, <1>14 DEF ModeFields
<1>16. /\ b.on \in [Screens -> SUBSET AllModes] /\ b.screen \in Screens
       /\ b.shapes = [s \in Screens |-> b.shapes[s]] /\ b.kitty = [s \in Screens |-> b.kitty[s]]
  BY <1>15 DEF Screens, Defaults, AllModes, OtherModes
<1>17. z = NotifyPointerShape(SyncMouse(SyncPaste(b)))
  BY <1>2, <1>14, Zenon DEF FullReset
<1>18. PICK d : d = SyncMouse(SyncPaste(b))
  OBVIOUS
<1>19. /\ d = [f \in ModeFields |-> d[f]]
       /\ \A f \in ModeFields \ {"paste", "mouse"} : d[f] = b[f]
       /\ d.paste = ("paste" \in Active(b)) /\ d.mouse = (Active(b) \cap MouseModes # {})
  BY <1>15, <1>18, BothSynced
<1>20. z = [d EXCEPT !.pointer = TopOr(d.shapes[d.screen], "")]
  BY <1>17, <1>18, Zenon DEF NotifyPointerShape
<1>21. /\ z = [f \in ModeFields |-> z[f]] /\ z.pointer = TopOr(z.shapes[z.screen], "")
       /\ z.on = b.on /\ z.screen = b.screen /\ z.kitty = b.kitty /\ z.shapes = b.shapes
       /\ z.paste = d.paste /\ z.mouse = d.mouse /\ z.titles = t.titles /\ z.title = t.title
  BY <1>15, <1>19, <1>20 DEF ModeFields
<1>22. Active(z) = Active(b)
  BY <1>21, Zenon DEF Active
<1>23. z.paste = ("paste" \in Active(z)) /\ z.mouse = (Active(z) \cap MouseModes # {})
  BY <1>19, <1>21, <1>22, Zenon
<1>24. Retaken(t, z)
  BY <1>16, <1>21, <1>23 DEF Retaken
<1> QED
  BY <1>2, <1>13, <1>24, RetakenGood

\* An operator that changes nothing copied, and the stacks of one screen only.
LEMMA OthersLeft ==
    ASSUME NEW t, ModesGood(t), NEW y, y = [f \in ModeFields |-> y[f]],
           \A f \in {"on", "screen", "paste", "mouse", "shapes", "pointer", "titles", "title"} : y[f] = t[f],
           y.kitty = [s \in Screens |-> y.kitty[s]],
           \A s \in Screens \ {t.screen} : y.kitty[s] = t.kitty[s]
    PROVE  Turned(t, y)
<1>1. /\ y.on = t.on /\ y.screen = t.screen /\ y.paste = t.paste /\ y.mouse = t.mouse
      /\ y.shapes = t.shapes /\ y.pointer = t.pointer /\ y.titles = t.titles /\ y.title = t.title
  OBVIOUS
<1>2. /\ t.on \in [Screens -> SUBSET AllModes] /\ t.screen \in Screens /\ t.titles \in Seq(TitleTexts)
      /\ t.shapes = [s \in Screens |-> t.shapes[s]]
  BY DEF ModesGood
<1>3. Active(y) = Active(t)
  BY <1>1, Zenon DEF Active
<1>4. Mirrored(t)
  BY DEF ModesGood
<1>5. Mirrored(y)
  BY <1>1, <1>3, <1>4, Zenon DEF Mirrored
<1>6. ModesGood(y)
  BY <1>1, <1>2, <1>5 DEF ModesGood
<1>7. Hidden(t, y)
  BY <1>1 DEF Hidden
<1> QED
  BY <1>6, <1>7 DEF Turned

LEMMA StacksKeep ==
    ASSUME NEW t, ModesGood(t), NEW f, NEW n, NEW how, NEW ms
    PROVE  /\ Turned(t, KittyPushFlags(t, f)) /\ Turned(t, KittyPopFlags(t, n))
           /\ Turned(t, KittySetFlags(t, f, how)) /\ Turned(t, SavePrivateModes(t, ms))
<1>1. /\ t = [g \in ModeFields |-> t[g]] /\ t.screen \in Screens
      /\ t.kitty = [s \in Screens |-> t.kitty[s]]
  BY DEF ModesGood
<1>2. ASSUME NEW x, NEW q, NEW y, y = [t EXCEPT !.flags = x, !.kitty[t.screen] = q]
      PROVE  Turned(t, y)
  <2>1. /\ y = [g \in ModeFields |-> y[g]] /\ y.kitty = [t.kitty EXCEPT ![t.screen] = q]
        /\ \A g \in {"on", "screen", "paste", "mouse", "shapes", "pointer", "titles", "title"} : y[g] = t[g]
    BY <1>1, <1>2 DEF ModeFields
  <2>2. /\ y.kitty = [s \in Screens |-> y.kitty[s]]
        /\ \A s \in Screens \ {t.screen} : y.kitty[s] = t.kitty[s]
    BY <1>1, <2>1
  <2> QED
    BY <2>1, <2>2, OthersLeft
<1>3. Turned(t, KittyPushFlags(t, f))
  <2>1. PICK q : q = IF Len(t.kitty[t.screen]) < KittyStackMax THEN Append(t.kitty[t.screen], f)
                     ELSE t.kitty[t.screen]
    OBVIOUS
  <2>2. KittyPushFlags(t, f) = [t EXCEPT !.flags = f, !.kitty[t.screen] = q]
    BY <1>1, <2>1 DEF KittyPushFlags, ModeFields
  <2> QED
    BY <1>2, <2>2
<1>4. Turned(t, KittyPopFlags(t, n))
  <2>1. PICK q : q = SubSeq(t.kitty[t.screen], 1, Max({0, Len(t.kitty[t.screen]) - n}))
    OBVIOUS
  <2>2. PICK a : a = [t EXCEPT !.kitty[t.screen] = q]
    OBVIOUS
  <2>3. KittyPopFlags(t, n) = KittySwitch(a)
    <3>1. a = [t EXCEPT !.kitty[t.screen] = SubSeq(@, 1, Max({0, Len(@) - n}))]
      BY <2>1, <2>2
    <3> QED
      BY <3>1, Zenon DEF KittyPopFlags
  <2>4. PICK x : x = TopOr(a.kitty[a.screen], 0)
    OBVIOUS
  <2>5. PICK y : y = [a EXCEPT !.flags = x]
    OBVIOUS
  <2>6. y = KittyPopFlags(t, n)
    BY <2>3, <2>4, <2>5, Zenon DEF KittySwitch
  <2>7. y = [t EXCEPT !.flags = x, !.kitty[t.screen] = q]
    BY <1>1, <2>2, <2>5 DEF ModeFields
  <2> QED
    BY <1>2, <2>6, <2>7
<1>5. Turned(t, KittySetFlags(t, f, how))
  <2>1. \E x : KittySetFlags(t, f, how) = [t EXCEPT !.flags = x]
    BY Zenon DEF KittySetFlags
  <2>2. PICK x : KittySetFlags(t, f, how) = [t EXCEPT !.flags = x]
    BY <2>1
  <2>3. PICK y : y = [t EXCEPT !.flags = x]
    OBVIOUS
  <2>4. /\ y = [g \in ModeFields |-> y[g]] /\ y.kitty = t.kitty
        /\ \A g \in {"on", "screen", "paste", "mouse", "shapes", "pointer", "titles", "title"} : y[g] = t[g]
    BY <1>1, <2>3 DEF ModeFields
  <2>5. /\ y.kitty = [s \in Screens |-> y.kitty[s]]
        /\ \A s \in Screens \ {t.screen} : y.kitty[s] = t.kitty[s]
    <3>1. t.kitty = [s \in Screens |-> t.kitty[s]] /\ y.kitty = t.kitty
      BY <1>1, <2>4
    <3>2. y.kitty = [s \in Screens |-> y.kitty[s]]
      BY <3>1, StillByScreen
    <3>3. \A s \in Screens \ {t.screen} : y.kitty[s] = t.kitty[s]
      BY <3>1, Zenon
    <3> QED
      BY <3>2, <3>3
  <2>6. Turned(t, y)
    BY <2>4, <2>5, OthersLeft
  <2>7. y = KittySetFlags(t, f, how)
    BY <2>2, <2>3
  <2> QED
    BY <2>6, <2>7
<1>6. Turned(t, SavePrivateModes(t, ms))
  <2>1. PICK x : x = [m \in ms |-> m \in Active(t)] @@ t.saved
    OBVIOUS
  <2>2. PICK y : y = [t EXCEPT !.saved = x]
    OBVIOUS
  <2>3. y = SavePrivateModes(t, ms)
    BY <2>1, <2>2, Zenon DEF SavePrivateModes
  <2>4. /\ y = [g \in ModeFields |-> y[g]] /\ y.kitty = t.kitty
        /\ \A g \in {"on", "screen", "paste", "mouse", "shapes", "pointer", "titles", "title"} : y[g] = t[g]
    BY <1>1, <2>2 DEF ModeFields
  <2>5. /\ y.kitty = [s \in Screens |-> y.kitty[s]]
        /\ \A s \in Screens \ {t.screen} : y.kitty[s] = t.kitty[s]
    <3>1. t.kitty = [s \in Screens |-> t.kitty[s]] /\ y.kitty = t.kitty
      BY <1>1, <2>4
    <3>2. y.kitty = [s \in Screens |-> y.kitty[s]]
      BY <3>1, StillByScreen
    <3>3. \A s \in Screens \ {t.screen} : y.kitty[s] = t.kitty[s]
      BY <3>1, Zenon
    <3> QED
      BY <3>2, <3>3
  <2> QED
    BY <2>3, <2>4, <2>5, OthersLeft
<1> QED
  BY <1>3, <1>4, <1>5, <1>6

LEMMA PointerKeeps ==
    ASSUME NEW t, ModesGood(t), NEW op, NEW name
    PROVE  Turned(t, PointerShape(t, op, name))
<1>1. /\ t = [g \in ModeFields |-> t[g]] /\ t.screen \in Screens /\ t.on \in [Screens -> SUBSET AllModes]
      /\ t.kitty = [s \in Screens |-> t.kitty[s]] /\ t.shapes = [s \in Screens |-> t.shapes[s]]
      /\ t.titles \in Seq(TitleTexts)
      /\ t.title = (IF t.titles = <<>> THEN NoTitle ELSE <<Last(t.titles)>>)
  BY Zenon DEF ModesGood, Mirrored
<1>2. t.paste = ("paste" \in Active(t)) /\ t.mouse = (Active(t) \cap MouseModes # {})
  BY Zenon DEF ModesGood, Mirrored
<1>3. CASE PointerShape(t, op, name) = t
  <2>1. Hidden(t, t)
    BY DEF Hidden
  <2> QED
    BY <1>3, <2>1 DEF Turned
<1>4. ASSUME NEW new, PointerShape(t, op, name) = NotifyPointerShape([t EXCEPT !.shapes[t.screen] = new])
      PROVE  Turned(t, PointerShape(t, op, name))
  <2>1. PICK a : a = [t EXCEPT !.shapes[t.screen] = new]
    OBVIOUS
  <2>2. /\ a = [g \in ModeFields |-> a[g]] /\ a.shapes = [t.shapes EXCEPT ![t.screen] = new]
        /\ \A g \in ModeFields \ {"shapes"} : a[g] = t[g]
    BY <1>1, <2>1 DEF ModeFields
  <2>3. PICK y : y = [a EXCEPT !.pointer = TopOr(a.shapes[a.screen], "")]
    OBVIOUS
  <2>4. y = PointerShape(t, op, name)
    BY <1>4, <2>1, <2>3, Zenon DEF NotifyPointerShape
  <2>5. /\ y = [g \in ModeFields |-> y[g]] /\ y.shapes = a.shapes /\ y.on = t.on /\ y.screen = t.screen
        /\ y.kitty = t.kitty /\ y.paste = t.paste /\ y.mouse = t.mouse
        /\ y.titles = t.titles /\ y.title = t.title
        /\ y.pointer = TopOr(y.shapes[y.screen], "")
    BY <2>2, <2>3 DEF ModeFields
  <2>6. /\ y.shapes = [s \in Screens |-> y.shapes[s]]
        /\ \A s \in Screens \ {t.screen} : y.shapes[s] = t.shapes[s]
    BY <1>1, <2>2, <2>5
  <2>7. Active(y) = Active(t)
    BY <2>5, Zenon DEF Active
  <2>8. y.paste = ("paste" \in Active(y)) /\ y.mouse = (Active(y) \cap MouseModes # {})
    BY <1>2, <2>5, <2>7, Zenon
  <2>9. Retaken(t, y)
    BY <1>1, <2>5, <2>6, <2>8 DEF Retaken
  <2>10. Hidden(t, y)
    BY <2>5, <2>6 DEF Hidden
  <2> QED
    BY <2>4, <2>9, <2>10, RetakenGood DEF Turned
<1>5. \/ PointerShape(t, op, name) = t
      \/ \E new : PointerShape(t, op, name) = NotifyPointerShape([t EXCEPT !.shapes[t.screen] = new])
  BY Zenon DEF PointerShape
<1> QED
  BY <1>3, <1>4, <1>5

LEMMA TitlesKeep ==
    ASSUME NEW t, ModesGood(t), NEW x \in TitleTexts
    PROVE  Turned(t, SetTitle(t, x)) /\ Turned(t, PushTitle(t)) /\ Turned(t, PopTitle(t))
<1>1. /\ t = [g \in ModeFields |-> t[g]] /\ t.titles \in Seq(TitleTexts)
      /\ t.title = IF t.titles = <<>> THEN NoTitle ELSE <<Last(t.titles)>>
  BY Zenon DEF ModesGood, Mirrored
<1>2. ASSUME NEW n \in Seq(TitleTexts), NEW y,
             y = [t EXCEPT !.titles = n, !.title = IF n = <<>> THEN NoTitle ELSE <<Last(n)>>]
      PROVE  Turned(t, y)
  <2>1. /\ y = [g \in ModeFields |-> y[g]]
        /\ y.on = t.on /\ y.screen = t.screen /\ y.paste = t.paste /\ y.mouse = t.mouse
        /\ y.shapes = t.shapes /\ y.pointer = t.pointer /\ y.kitty = t.kitty /\ y.titles = n
        /\ y.title = IF n = <<>> THEN NoTitle ELSE <<Last(n)>>
    BY <1>1, <1>2 DEF ModeFields
  <2>2. Active(y) = Active(t)
    BY <2>1, Zenon DEF Active
  <2>3. /\ t.paste = ("paste" \in Active(t)) /\ t.mouse = (Active(t) \cap MouseModes # {})
        /\ t.pointer = TopOr(t.shapes[t.screen], "")
    BY Zenon DEF ModesGood, Mirrored
  <2>4. /\ y.paste = ("paste" \in Active(y)) /\ y.mouse = (Active(y) \cap MouseModes # {})
        /\ y.pointer = TopOr(y.shapes[y.screen], "")
    BY <2>1, <2>2, <2>3, Zenon
  <2>5. Mirrored(y)
    BY <2>1, <2>4, Zenon DEF Mirrored
  <2>6. ModesGood(y)
    BY <2>1, <2>5 DEF ModesGood
  <2>7. Hidden(t, y)
    BY <2>1 DEF Hidden
  <2> QED
    BY <2>6, <2>7 DEF Turned
<1>3. ASSUME NEW n \in Seq(TitleTexts)
      PROVE  Turned(t, PublishTitle([t EXCEPT !.titles = n]))
  <2>1. PICK a : a = [t EXCEPT !.titles = n]
    OBVIOUS
  <2>2. a.titles = n
    BY <1>1, <2>1 DEF ModeFields
  <2>3. PICK y : y = PublishTitle(a)
    OBVIOUS
  <2>4. y = [a EXCEPT !.title = IF n = <<>> THEN NoTitle ELSE <<Last(n)>>]
    BY <2>2, <2>3, Zenon DEF PublishTitle
  <2>5. y = [t EXCEPT !.titles = n, !.title = IF n = <<>> THEN NoTitle ELSE <<Last(n)>>]
    BY <1>1, <2>1, <2>4 DEF ModeFields
  <2> QED
    BY <1>2, <2>1, <2>3, <2>5
<1>4. Front(t.titles) \in Seq(TitleTexts) \/ t.titles = <<>>
  BY <1>1 DEF Front
<1>5. Turned(t, SetTitle(t, x))
  <2>1. PICK n : n = IF t.titles = <<>> THEN <<x>> ELSE Append(Front(t.titles), x)
    OBVIOUS
  <2>2. n \in Seq(TitleTexts)
    <3>1. CASE t.titles = <<>>
      <4>1. <<x>> \in Seq(TitleTexts)
        BY OneIsASequence
      <4> QED
        BY <2>1, <3>1, <4>1
    <3>2. CASE t.titles # <<>>
      <4>1. PICK l \in Seq(TitleTexts) : l = Front(t.titles)
        BY <1>4, <3>2
      <4>2. n = Append(l, x)
        BY <2>1, <3>2, <4>1
      <4> QED
        BY <4>1, <4>2
    <3> QED
      BY <3>1, <3>2
  <2>3. SetTitle(t, x) = PublishTitle([t EXCEPT !.titles = n])
    BY <2>1, Zenon DEF SetTitle
  <2> QED
    BY <1>3, <2>2, <2>3
<1>6. Turned(t, t)
  BY DEF Turned, Hidden
<1>7. Turned(t, PopTitle(t))
  BY <1>3, <1>4, <1>6 DEF PopTitle
<1>8. Turned(t, PushTitle(t))
  <2>1. CASE t.titles = <<>> \/ Len(t.titles) >= TitleStackMax
    <3>1. PushTitle(t) = t
      BY <1>1, <2>1 DEF PushTitle, ModeFields
    <3> QED
      BY <1>6, <3>1
  <2>2. CASE ~(t.titles = <<>> \/ Len(t.titles) >= TitleStackMax)
    <3>1. PICK n : n = Append(t.titles, Last(t.titles))
      OBVIOUS
    <3>2. n \in Seq(TitleTexts) /\ n # <<>> /\ Last(n) = Last(t.titles)
      <4>1. t.titles # <<>> /\ t.titles \in Seq(TitleTexts)
        BY <1>1, <2>2
      <4> QED
        BY <3>1, <4>1, LastAgain
    <3>3. PushTitle(t) = [t EXCEPT !.titles = n]
      BY <1>1, <2>2, <3>1 DEF PushTitle, ModeFields
    <3>4. PICK y : y = [t EXCEPT !.titles = n]
      OBVIOUS
    <3>5. y = [t EXCEPT !.titles = n, !.title = IF n = <<>> THEN NoTitle ELSE <<Last(n)>>]
      BY <1>1, <2>2, <3>2, <3>4 DEF ModeFields
    <3> QED
      BY <1>2, <3>2, <3>3, <3>4, <3>5
  <2> QED
    BY <2>1, <2>2
<1> QED
  BY <1>5, <1>7, <1>8

-----------------------------------------------------------------------------
(* The fold of RestorePrivateModes.  What it goes through are the records  *)
(* that have other modes on for the screen that is shown, and a true copy  *)
(* of the one that is copied each time.                                    *)
With(t, o) == [t EXCEPT !.on = [t.on EXCEPT ![t.screen] = o], !.paste = ("paste" \in o)]
WithAny(t) == {With(t, o) : o \in SUBSET AllModes}

LEMMA WithIs ==
    ASSUME NEW t, ModesGood(t), NEW o \in SUBSET AllModes
    PROVE  /\ With(t, o) = [f \in ModeFields |-> With(t, o)[f]]
           /\ With(t, o).on = [t.on EXCEPT ![t.screen] = o]
           /\ With(t, o).paste = ("paste" \in o)
           /\ \A f \in ModeFields \ {"on", "paste"} : With(t, o)[f] = t[f]
           /\ Active(With(t, o)) = o
<1>1. /\ t = [f \in ModeFields |-> t[f]] /\ t.screen \in Screens /\ t.on \in [Screens -> SUBSET AllModes]
  BY DEF ModesGood
<1>2. PICK p : p = ("paste" \in o)
  OBVIOUS
<1>3. PICK n : n = [t.on EXCEPT ![t.screen] = o]
  OBVIOUS
<1>4. PICK y : y = [t EXCEPT !.on = n, !.paste = p]
  OBVIOUS
<1>5. y = With(t, o)
  BY <1>2, <1>3, <1>4, Zenon DEF With
<1>6. /\ y = [f \in ModeFields |-> y[f]] /\ y.on = n /\ y.paste = p
      /\ \A f \in ModeFields \ {"on", "paste"} : y[f] = t[f]
  BY <1>1, <1>4 DEF ModeFields
<1>7. Active(y) = o
  BY <1>1, <1>3, <1>6 DEF Active, ModeFields
<1>8. y.paste = ("paste" \in o)
  BY <1>2, <1>6, Zenon
<1> QED
  BY <1>3, <1>5, <1>6, <1>7, <1>8, Zenon

LEMMA WithItself ==
    ASSUME NEW t, ModesGood(t) PROVE t \in WithAny(t)
<1>1. /\ t = [f \in ModeFields |-> t[f]] /\ t.screen \in Screens /\ t.on \in [Screens -> SUBSET AllModes]
  BY DEF ModesGood
<1>2. PICK o \in SUBSET AllModes : o = t.on[t.screen]
  BY <1>1
<1>3. t.paste = ("paste" \in o)
  BY <1>2, Zenon DEF ModesGood, Mirrored, Active
<1>4. t.on = [t.on EXCEPT ![t.screen] = o]
  BY <1>1, <1>2
<1>5. PICK p : p = t.paste
  OBVIOUS
<1>6. PICK n : n = [t.on EXCEPT ![t.screen] = o]
  OBVIOUS
<1>7. t = [t EXCEPT !.on = n, !.paste = p]
  BY <1>1, <1>4, <1>5, <1>6 DEF ModeFields
<1>8. t = With(t, o)
  BY <1>3, <1>5, <1>6, <1>7, Zenon DEF With
<1> QED
  BY <1>2, <1>8 DEF WithAny

LEMMA WithSwitched ==
    ASSUME NEW t, ModesGood(t), NEW a \in WithAny(t), NEW m \in AllModes, NEW v
    PROVE  Switch(a, m, v) \in WithAny(t)
<1>1. PICK o \in SUBSET AllModes : a = With(t, o)
  BY DEF WithAny
<1>2. PICK x : x = IF v THEN o \cup {m} ELSE o \ {m}
  OBVIOUS
<1>3. x \in SUBSET AllModes
  BY <1>2
<1>4. /\ a = [f \in ModeFields |-> a[f]] /\ a.on = [t.on EXCEPT ![t.screen] = o]
      /\ a.paste = ("paste" \in o)
      /\ \A f \in ModeFields \ {"on", "paste"} : a[f] = t[f]
      /\ Active(a) = o
  BY <1>1, WithIs
<1>5. /\ t = [f \in ModeFields |-> t[f]] /\ t.screen \in Screens /\ t.on \in [Screens -> SUBSET AllModes]
  BY DEF ModesGood
<1>6. a.screen = t.screen
  BY <1>4 DEF ModeFields
<1>7. PICK b : b = [a EXCEPT !.on[a.screen] = x]
  OBVIOUS
<1>8. PICK n : n = [t.on EXCEPT ![t.screen] = x]
  OBVIOUS
<1>9. /\ b = [f \in ModeFields |-> b[f]] /\ b.on = n /\ b.paste = a.paste
      /\ \A f \in ModeFields \ {"on"} : b[f] = a[f]
  BY <1>4, <1>5, <1>6, <1>7, <1>8 DEF ModeFields
<1>10. b.screen = t.screen /\ Active(b) = x
  BY <1>5, <1>6, <1>8, <1>9 DEF Active, ModeFields
<1>11. [a EXCEPT !.on[a.screen] = IF v THEN @ \cup {m} ELSE @ \ {m}] = b
  <2>1. a.on[a.screen] = o
    BY <1>4, Zenon DEF Active
  <2> QED
    BY <1>2, <1>4, <1>7, <2>1
<1>12. PICK s : s = Switch(a, m, v)
  OBVIOUS
<1>13. s = IF m = "paste" THEN SyncPaste(b) ELSE b
  BY <1>11, <1>12, Zenon DEF Switch
<1>14. PICK p : p = ("paste" \in x)
  OBVIOUS
<1>15. PICK w : w = [b EXCEPT !.paste = p]
  OBVIOUS
<1>16. w = With(t, x)
  <2>1. w = [t EXCEPT !.on = n, !.paste = p]
    BY <1>4, <1>5, <1>9, <1>15 DEF ModeFields
  <2> QED
    BY <1>8, <1>14, <2>1, Zenon DEF With
<1>17. s = w
  <2>1. CASE m = "paste"
    <3>1. SyncPaste(b) = w
      BY <1>10, <1>14, <1>15, Zenon DEF SyncPaste
    <3> QED
      BY <1>13, <2>1, <3>1
  <2>2. CASE m # "paste"
    <3>1. ("paste" \in x) = ("paste" \in o)
      <4>1. CASE v
        BY <1>2, <2>2, <4>1
      <4>2. CASE ~v
        BY <1>2, <2>2, <4>2
      <4> QED
        BY <4>1, <4>2
    <3>2. b.paste = p
      BY <1>4, <1>9, <1>14, <3>1, Zenon
    <3>3. w = b
      BY <1>9, <1>15, <3>2 DEF ModeFields
    <3> QED
      BY <1>13, <2>2, <3>3
  <2> QED
    BY <2>1, <2>2
<1> QED
  BY <1>3, <1>12, <1>16, <1>17 DEF WithAny

\* A list of a set's members.
LEMMA ListOfSet ==
    ASSUME NEW S, IsFiniteSet(S)
    PROVE  \E n \in Nat : SetToSeq(S) \in [1..n -> S]
<1>1. Cardinality(S) \in Nat /\ ExistsBijection(1..Cardinality(S), S)
  BY FS_CardinalityType
<1>2. PICK g \in [1..Cardinality(S) -> S] : \A a, b \in 1..Cardinality(S) : g[a] = g[b] => a = b
  BY <1>1 DEF ExistsBijection, Bijection, Injection, IsInjective
<1>3. IsInjective(g)
  BY <1>2 DEF IsInjective
<1>4. SetToSeq(S) \in [1..Cardinality(S) -> S]
  BY <1>2, <1>3, Zenon DEF SetToSeq
<1> QED
  BY <1>1, <1>4

LEMMA RestoreKeeps ==
    ASSUME NEW t, ModesGood(t), NEW ms, ms \subseteq AllModes
    PROVE  Turned(t, RestorePrivateModes(t, ms))
<1>1. PICK S : S = ms \cap DOMAIN t.saved
  OBVIOUS
<1>2. S \subseteq AllModes /\ IsFiniteSet(S)
  <2>1. IsFiniteSet({"1000", "1002", "wrap", "paste", "sync"})
    <3>1. IsFiniteSet({"1000"}) /\ IsFiniteSet({"1002"}) /\ IsFiniteSet({"wrap"})
          /\ IsFiniteSet({"paste"}) /\ IsFiniteSet({"sync"})
      BY FS_Singleton
    <3>2. IsFiniteSet({"1000"} \cup {"1002"}) /\ IsFiniteSet({"wrap"} \cup {"paste"})
      BY <3>1, FS_Union
    <3>3. IsFiniteSet(({"1000"} \cup {"1002"}) \cup ({"wrap"} \cup {"paste"}))
      BY <3>2, FS_Union
    <3>4. IsFiniteSet((({"1000"} \cup {"1002"}) \cup ({"wrap"} \cup {"paste"})) \cup {"sync"})
      BY <3>1, <3>3, FS_Union
    <3>5. (({"1000"} \cup {"1002"}) \cup ({"wrap"} \cup {"paste"})) \cup {"sync"}
            = {"1000", "1002", "wrap", "paste", "sync"}
      OBVIOUS
    <3> QED
      BY <3>4, <3>5
  <2>2. AllModes = {"1000", "1002", "wrap", "paste", "sync"}
    BY DEF AllModes, MouseModes, OtherModes
  <2>3. S \subseteq AllModes
    BY <1>1
  <2> QED
    BY <2>1, <2>2, <2>3, FS_Subset
<1>3. PICK q : q = SetToSeq(S)
  OBVIOUS
<1>4. PICK n \in Nat : q \in [1..n -> S]
  BY <1>2, <1>3, ListOfSet
<1>5. DOMAIN q = 1..n /\ \A i \in 1..n : q[i] \in AllModes
  BY <1>2, <1>4
<1>6. PICK w : w = FoldLeft(LAMBDA a, m : Switch(a, m, t.saved[m]), t, q)
  OBVIOUS
<1>7. w \in WithAny(t)
  <2> DEFINE E(it) == it = [s \in SUBSET (DOMAIN q) |->
                              IF s = {} THEN t ELSE Switch(it[s \ {Max(s)}], q[Max(s)], t.saved[q[Max(s)]])]
  <2>1. PICK step : step = [i \in 1..n |-> [a \in WithAny(t) |-> Switch(a, q[i], t.saved[q[i]])]]
    OBVIOUS
  <2>2. step \in [1..n -> [WithAny(t) -> WithAny(t)]]
    BY <1>5, <2>1, WithSwitched
  <2>3. t \in WithAny(t)
    BY WithItself
  <2>4. PICK it \in [SUBSET (1..n) -> WithAny(t)] : FoldedBy(it, n, t, step)
    BY <2>2, <2>3, FoldExists
  <2>5. ASSUME NEW s \in SUBSET (1..n), s # {}
        PROVE  it[s] = Switch(it[s \ {Max(s)}], q[Max(s)], t.saved[q[Max(s)]])
    <3>1. Max(s) \in 1..n
      BY <2>5, LastOf
    <3>2. it[s \ {Max(s)}] \in WithAny(t)
      BY <2>4
    <3>3. it[s] = step[Max(s)][it[s \ {Max(s)}]]
      BY <2>4, <2>5 DEF FoldedBy
    <3> QED
      BY <2>1, <3>1, <3>2, <3>3
  <2>6. it[{}] = t
    BY <2>4 DEF FoldedBy
  <2>7. E(it)
    BY <1>5, <2>4, <2>5, <2>6
  <2>8. PICK jt : jt = (CHOOSE x : E(x))
    OBVIOUS
  <2>9. E(jt)
    BY <2>7, <2>8
  <2>10. jt[DOMAIN q] = w
    BY <1>6, <2>8 DEF FoldLeft, MapThenFoldSet
  <2>11. /\ jt[{}] = t
         /\ \A s \in SUBSET (1..n) : s # {} =>
               jt[s] = Switch(jt[s \ {Max(s)}], q[Max(s)], t.saved[q[Max(s)]])
    BY <1>5, <2>9
  <2> HIDE DEF E
  <2>12. {k \in 0..n : jt[1..k] \in WithAny(t)} = 0..n
    <3>1. PICK T : T = {k \in 0..n : jt[1..k] \in WithAny(t)}
      OBVIOUS
    <3>2. T \in SUBSET (0..n) /\ 0 \in T
      <4>1. 1..0 = {}
        OBVIOUS
      <4> QED
        BY <2>3, <2>11, <3>1, <4>1
    <3>3. ASSUME NEW k \in 1..n, k - 1 \in T PROVE k \in T
      <4>1. k \in 1..k /\ (1..k) \in SUBSET (1..n) /\ 1..k # {}
        OBVIOUS
      <4>2. Max(1..k) \in 1..k /\ \A i \in 1..k : i <= Max(1..k)
        BY <4>1, LastOf
      <4>3. PICK x : x = Max(1..k)
        OBVIOUS
      <4>4. x = k
        BY <4>1, <4>2, <4>3
      <4>5. (1..k) \ {k} = 1..(k - 1)
        OBVIOUS
      <4>6. jt[1..k] = Switch(jt[1..(k - 1)], q[k], t.saved[q[k]])
        BY <2>11, <4>1, <4>3, <4>4, <4>5
      <4>7. jt[1..(k - 1)] \in WithAny(t) /\ q[k] \in AllModes
        BY <1>5, <3>1, <3>3
      <4>8. jt[1..k] \in WithAny(t)
        BY <4>6, <4>7, WithSwitched
      <4> QED
        BY <3>1, <4>8
    <3> QED
      BY <3>1, <3>2, <3>3, StepByStep
  <2>13. jt[1..n] \in WithAny(t)
    BY <2>12
  <2> QED
    BY <1>5, <2>10, <2>13
<1>8. PICK o \in SUBSET AllModes : w = With(t, o)
  BY <1>7 DEF WithAny
<1>9. /\ w = [f \in ModeFields |-> w[f]] /\ w.on = [t.on EXCEPT ![t.screen] = o]
      /\ w.paste = ("paste" \in o)
      /\ \A f \in ModeFields \ {"on", "paste"} : w[f] = t[f]
      /\ Active(w) = o
  BY <1>8, WithIs
<1>10. PICK y : y = RestorePrivateModes(t, ms)
  OBVIOUS
<1>11. PICK c : c = (o \cap MouseModes # {})
  OBVIOUS
<1>12. y = [w EXCEPT !.mouse = c]
  <2>1. y = SyncMouse(w)
    BY <1>1, <1>3, <1>6, <1>10, Zenon DEF RestorePrivateModes
  <2> QED
    BY <1>9, <1>11, <2>1, Zenon DEF SyncMouse
<1>13. /\ t.on \in [Screens -> SUBSET AllModes] /\ t.screen \in Screens
       /\ t.kitty = [s \in Screens |-> t.kitty[s]] /\ t.shapes = [s \in Screens |-> t.shapes[s]]
       /\ t.pointer = TopOr(t.shapes[t.screen], "")
  BY DEF ModesGood, Mirrored
<1>14. /\ y = [f \in ModeFields |-> y[f]] /\ y.on = w.on /\ y.paste = w.paste /\ y.mouse = c
       /\ y.screen = t.screen /\ y.kitty = t.kitty /\ y.shapes = t.shapes /\ y.pointer = t.pointer
       /\ y.titles = t.titles /\ y.title = t.title
  BY <1>9, <1>12 DEF ModeFields
<1>15. /\ y.on \in [Screens -> SUBSET AllModes] /\ Active(y) = o
       /\ \A s \in Screens \ {t.screen} : y.on[s] = t.on[s]
  <2>1. PICK on : on = [t.on EXCEPT ![t.screen] = o]
    OBVIOUS
  <2>2. on \in [Screens -> SUBSET AllModes] /\ \A s \in Screens \ {t.screen} : on[s] = t.on[s]
    BY <1>13, <2>1
  <2>3. y.on = on
    BY <1>9, <1>14, <2>1, Zenon
  <2>4. Active(y) = o
    <3>1. w.screen = y.screen /\ w.on = y.on
      BY <1>9, <1>14 DEF ModeFields
    <3> QED
      BY <1>9, <3>1, Zenon DEF Active
  <2> QED
    BY <2>2, <2>3, <2>4
<1>16. y.paste = ("paste" \in Active(y)) /\ y.mouse = (Active(y) \cap MouseModes # {})
  BY <1>9, <1>11, <1>14, <1>15, Zenon
<1>17. y.kitty = [s \in Screens |-> y.kitty[s]] /\ y.shapes = [s \in Screens |-> y.shapes[s]]
       /\ y.pointer = TopOr(y.shapes[y.screen], "")
  <2>1. y.kitty = [s \in Screens |-> y.kitty[s]] /\ y.shapes = [s \in Screens |-> y.shapes[s]]
    BY <1>13, <1>14, StillByScreen
  <2>2. y.pointer = TopOr(y.shapes[y.screen], "")
    BY <1>13, <1>14, Zenon
  <2> QED
    BY <2>1, <2>2
<1>18. Retaken(t, y)
  BY <1>13, <1>14, <1>15, <1>16, <1>17 DEF Retaken
<1>19. Hidden(t, y)
  BY <1>14, <1>15 DEF Hidden
<1> QED
  BY <1>10, <1>18, <1>19, RetakenGood DEF Turned

LEMMA SwitchingKeeps ==
    ASSUME ModesInv, Switching
    PROVE  ModesInv' /\ (Hidden(modes, modes') \/ ResetModes)
<1>1. \A z : Turns(z) /\ Turned(modes, z) => ModesGood(modes') /\ Hidden(modes, modes')
  BY DEF Turns, Turned
<1>2. ModesGood(modes)
  BY DEF ModesInv
<1>3. CASE SetMode
  <2>1. PICK m \in AllModes, v \in BOOLEAN : Turns(SetPrivateMode(modes, m, v))
    BY <1>3 DEF SetMode, AllModes
  <2> QED
    BY <1>1, <1>2, <2>1, SetModeKeeps DEF ModesInv
<1>4. CASE SwitchScreen
  BY <1>1, <1>2, <1>4, SwitchScreenKeeps DEF SwitchScreen, ModesInv
<1>5. CASE SaveModes
  <2>1. PICK ms : Turns(SavePrivateModes(modes, ms))
    BY <1>5 DEF SaveModes
  <2> QED
    BY <1>1, <1>2, <2>1, StacksKeep DEF ModesInv
<1>6. CASE RestoreModes
  <2>1. PICK ms \in {{"paste", "sync"}, MouseModes} : Turns(RestorePrivateModes(modes, ms))
    BY <1>6 DEF RestoreModes
  <2>2. ms \subseteq AllModes
    BY <2>1 DEF AllModes, OtherModes
  <2> QED
    BY <1>1, <1>2, <2>1, <2>2, RestoreKeeps DEF ModesInv
<1>7. CASE ResetModes
  BY <1>2, <1>7, ResetsKeep DEF ResetModes, Turns, ModesInv
<1>8. CASE KeyboardFlags
  <2>1. \/ \E k : Turns(KittyPushFlags(modes, k))
        \/ \E n : Turns(KittyPopFlags(modes, n))
        \/ \E k, how : Turns(KittySetFlags(modes, k, how))
    BY <1>8 DEF KeyboardFlags
  <2>2. CASE \E k : Turns(KittyPushFlags(modes, k))
    BY <1>1, <1>2, <2>2, StacksKeep DEF ModesInv
  <2>3. CASE \E n : Turns(KittyPopFlags(modes, n))
    BY <1>1, <1>2, <2>3, StacksKeep DEF ModesInv
  <2>4. CASE \E k, how : Turns(KittySetFlags(modes, k, how))
    BY <1>1, <1>2, <2>4, StacksKeep DEF ModesInv
  <2> QED
    BY <2>1, <2>2, <2>3, <2>4
<1>9. CASE Pointer
  <2>1. PICK op, name : Turns(PointerShape(modes, op, name))
    BY <1>9 DEF Pointer
  <2> QED
    BY <1>1, <1>2, <2>1, PointerKeeps DEF ModesInv
<1>10. CASE Title
  <2>1. \/ \E x \in TitleTexts : Turns(SetTitle(modes, x))
        \/ Turns(PushTitle(modes)) \/ Turns(PopTitle(modes))
    BY <1>10 DEF Title, TitleTexts
  <2>2. "one" \in TitleTexts
    BY DEF TitleTexts
  <2>3. Turned(modes, PushTitle(modes)) /\ Turned(modes, PopTitle(modes))
    BY <1>2, <2>2, TitlesKeep
  <2>4. CASE \E x \in TitleTexts : Turns(SetTitle(modes, x))
    BY <1>1, <1>2, <2>4, TitlesKeep DEF ModesInv
  <2>5. CASE Turns(PushTitle(modes)) \/ Turns(PopTitle(modes))
    BY <1>1, <2>3, <2>5 DEF ModesInv
  <2> QED
    BY <2>1, <2>4, <2>5
<1> QED
  BY <1>3, <1>4, <1>5, <1>6, <1>7, <1>8, <1>9, <1>10 DEF Switching

LEMMA ModesStep ==
    ASSUME ModesInv, [Next]_vars
    PROVE  ModesInv' /\ (Hidden(modes, modes') \/ ResetModes)
<1>1. CASE Switching
  BY <1>1, SwitchingKeeps
<1>2. CASE UNCHANGED modes
  BY <1>2 DEF ModesInv, Hidden
<1> QED
  BY <1>1, <1>2, ScenesApart

\* ModesTrue: after every step, what the other threads read without the lock agrees
\* with the screen that is shown, and but for a reset, a step that stays on a
\* screen left the modes, the keyboard flags and the pointer shapes of the other
\* as they were.
THEOREM ModesAreTrue == Spec => ModesTrue
<1>1. Init => ModesInv
  <2> SUFFICES ASSUME Init PROVE ModesGood(modes)
    BY DEF ModesInv
  <2>1. modes = ModesInit
    BY DEF Init
  <2>2. PICK on : on = [s \in Screens |-> Defaults]
    OBVIOUS
  <2>3. PICK none : none = [s \in Screens |-> <<>>]
    OBVIOUS
  <2>4. modes = [on |-> on, screen |-> "main", hold |-> FALSE, paste |-> FALSE, mouse |-> FALSE,
                 saved |-> <<>>, flags |-> 0, kitty |-> none, shapes |-> none, pointer |-> "",
                 titles |-> <<>>, title |-> NoTitle]
    BY <2>1, <2>2, <2>3, Zenon DEF ModesInit
  <2>5. /\ modes = [f \in ModeFields |-> modes[f]] /\ modes.on = on /\ modes.screen = "main"
        /\ modes.paste = FALSE /\ modes.mouse = FALSE /\ modes.kitty = none /\ modes.shapes = none
        /\ modes.pointer = "" /\ modes.titles = <<>> /\ modes.title = NoTitle
    BY <2>4 DEF ModeFields
  <2>6. /\ on \in [Screens -> SUBSET AllModes] /\ on["main"] = Defaults /\ "main" \in Screens
        /\ "paste" \notin Defaults /\ Defaults \cap MouseModes = {}
    BY <2>2 DEF AllModes, Screens, Defaults, MouseModes, OtherModes
  <2>7. none = [s \in Screens |-> none[s]] /\ none["main"] = <<>> /\ <<>> \in Seq(TitleTexts)
    BY <2>3 DEF Screens
  <2>8. Mirrored(modes)
    <3>1. Active(modes) = Defaults
      BY <2>5, <2>6 DEF Active
    <3>2. TopOr(modes.shapes[modes.screen], "") = ""
      BY <2>5, <2>7 DEF TopOr
    <3>3. modes.paste = ("paste" \in Active(modes)) /\ modes.mouse = (Active(modes) \cap MouseModes # {})
      <4>1. ("paste" \in Active(modes)) = FALSE /\ (Active(modes) \cap MouseModes # {}) = FALSE
        BY <2>6, <3>1
      <4> QED
        BY <2>5, <4>1, Zenon
    <3>4. modes.pointer = TopOr(modes.shapes[modes.screen], "") /\ modes.titles = <<>> /\ modes.title = NoTitle
      BY <2>5, <3>2
    <3> QED
      BY <3>3, <3>4, Zenon DEF Mirrored
  <2> QED
    BY <2>5, <2>6, <2>7, <2>8 DEF ModesGood
<1>2. ModesInv /\ [Next]_vars => [MirrorsTrue' /\ OtherScreenKept]_vars
  <2> SUFFICES ASSUME ModesInv, [Next]_vars PROVE MirrorsTrue' /\ OtherScreenKept
    OBVIOUS
  <2>1. ModesInv' /\ (Hidden(modes, modes') \/ ResetModes)
    BY ModesStep
  <2>2. MirrorsTrue'
    BY <2>1 DEF ModesInv, ModesGood, Mirrored, MirrorsTrue
  <2>3. OtherScreenKept
    BY <2>1 DEF Hidden, OtherScreenKept
  <2> QED
    BY <2>2, <2>3
<1>3. ModesInv /\ [Next]_vars => ModesInv'
  BY ModesStep
<1> QED
  BY <1>1, <1>2, <1>3, PTL DEF Spec, ModesTrue

-----------------------------------------------------------------------------
(* Keys.  s is what was sent, e what was taken or has no sequence, p what  *)
(* is held back, and m how much of it was dealt with since; w, d and l are *)
(* the presses that were doubled, dropped and found held by a reload, n    *)
(* how many presses there were.                                            *)

Entries == [i : Nat, by : {"press", "char"}]
HeldKeys == [i : Nat, key : KeyKinds]
Served(s, e, p, m, g) ==
    \/ g \in e
    \/ \E i \in 1..Len(s) : s[i].i = g /\ s[i].by = "press"
    \/ \E j \in 1..Len(p) : m < j /\ p[j].i = g
IsTyped(s, g) == \E i \in 1..Len(s) : s[i].i = g /\ s[i].by = "char"
Copied(x, w) == x.by = "char" /\ x.i \in w

KeysRanged(s, e, w, d, p, m, n) ==
    /\ e \subseteq 1..n /\ w \subseteq 1..n /\ d \subseteq 1..n
    /\ \A i \in 1..Len(s) : s[i].i \in 1..n
    /\ \A j \in 1..Len(p) : m < j => p[j].i \in 1..n
KeysInTurn(s, w, l, p, m) ==
    /\ \A i, j \in 1..Len(p) : m < i /\ i < j => p[i].i < p[j].i
    /\ \A i, j \in 1..Len(s) : i < j /\ ~Copied(s[i], w) /\ s[j].i \notin l => s[i].i <= s[j].i
    /\ \A i \in 1..Len(s), j \in 1..Len(p) :
          m < j /\ ~Copied(s[i], w) /\ p[j].i \notin l => s[i].i < p[j].i
KeysApart(s, e, p, m) ==
    /\ \A i, j \in 1..Len(s) : i < j /\ s[i].i = s[j].i => s[i].by # s[j].by
    /\ \A i \in 1..Len(s) : s[i].by = "press" => s[i].i \notin e
    /\ \A j \in 1..Len(p) : m < j => p[j].i \notin e
    /\ \A i \in 1..Len(s), j \in 1..Len(p) : m < j /\ s[i].by = "press" => s[i].i # p[j].i
KeysExact(s, e, w, d, p, m, n) ==
    \A g \in 1..n : /\ g \in w <=> Served(s, e, p, m, g) /\ IsTyped(s, g)
                    /\ g \in d <=> ~Served(s, e, p, m, g) /\ ~IsTyped(s, g)
KeysSound(s, e, w, d, l, p, m, n) ==
    /\ KeysRanged(s, e, w, d, p, m, n) /\ KeysInTurn(s, w, l, p, m)
    /\ KeysApart(s, e, p, m) /\ KeysExact(s, e, w, d, p, m, n)

LEMMA HeldNumber ==
    ASSUME NEW p \in Seq(HeldKeys), NEW j \in 1..Len(p)
    PROVE  p[j].i \in Nat
<1>1. p[j] \in HeldKeys
  OBVIOUS
<1> QED
  BY <1>1 DEF HeldKeys

LEMMA EntryIs ==
    ASSUME NEW s \in Seq(Entries), NEW i \in 1..Len(s)
    PROVE  s[i].i \in Nat /\ s[i].by \in {"press", "char"} /\ s[i] = [i |-> s[i].i, by |-> s[i].by]
<1>1. s[i] \in Entries
  OBVIOUS
<1> QED
  BY <1>1 DEF Entries

LEMMA EntryOf ==
    ASSUME NEW g \in Nat
    PROVE  /\ ByPress(g) \in Entries /\ ByPress(g).i = g /\ ByPress(g).by = "press"
           /\ ByChar(g) \in Entries /\ ByChar(g).i = g /\ ByChar(g).by = "char"
  BY DEF ByPress, ByChar, Entries

LEMMA EntryAppended ==
    ASSUME NEW S, NEW s \in Seq(S), NEW x \in S, NEW t, t = Append(s, x)
    PROVE  /\ t \in Seq(S) /\ Len(s) \in Nat /\ Len(t) = Len(s) + 1 /\ t[Len(s) + 1] = x
           /\ \A i \in 1..Len(s) : t[i] = s[i] /\ i \in 1..Len(t)
           /\ \A i \in 1..Len(t) : i \in 1..Len(s) \/ i = Len(s) + 1
           /\ Len(s) + 1 \in 1..Len(t)
  OBVIOUS

\* The next number is beyond what was answered or typed.
LEMMA NotYet ==
    ASSUME NEW s, NEW e, NEW w, NEW d, NEW p, NEW m, NEW n \in Nat, KeysRanged(s, e, w, d, p, m, n)
    PROVE  /\ n + 1 \notin e \cup w \cup d /\ ~Served(s, e, p, m, n + 1) /\ ~IsTyped(s, n + 1)
           /\ \A g \in 1..n : g \in 1..(n + 1) /\ g < n + 1 /\ g # n + 1
           /\ \A g \in 1..(n + 1) : g \in 1..n \/ g = n + 1
           /\ n + 1 \in 1..(n + 1)
<1>1. n + 1 \notin 1..n /\ n + 1 \in 1..(n + 1)
  OBVIOUS
<1>2. \A g \in 1..n : g \in 1..(n + 1) /\ g < n + 1 /\ g # n + 1
  OBVIOUS
<1>3. \A g \in 1..(n + 1) : g \in 1..n \/ g = n + 1
  OBVIOUS
<1> QED
  BY <1>1, <1>2, <1>3 DEF KeysRanged, Served, IsTyped

\* The next press is held back.
LEMMA HoldOne ==
    ASSUME NEW s \in Seq(Entries), NEW e, NEW w, NEW d, NEW l, NEW p \in Seq(HeldKeys), NEW n \in Nat,
           KeysSound(s, e, w, d, l, p, 0, n), NEW x \in HeldKeys, x.i = n + 1, NEW q, q = Append(p, x)
    PROVE  q \in Seq(HeldKeys) /\ KeysSound(s, e, w, d, l, q, 0, n + 1)
<1>1. PICK z \in Nat : z = Len(p)
  OBVIOUS
<1>2. /\ q \in Seq(HeldKeys) /\ Len(q) = z + 1 /\ q[z + 1] = x
      /\ \A j \in 1..z : q[j] = p[j] /\ j \in 1..(z + 1)
      /\ \A j \in 1..(z + 1) : j \in 1..z \/ j = z + 1
  BY <1>1, EntryAppended
<1>3. /\ n + 1 \notin e \cup w \cup d /\ ~Served(s, e, p, 0, n + 1) /\ ~IsTyped(s, n + 1)
      /\ \A g \in 1..n : g \in 1..(n + 1) /\ g < n + 1 /\ g # n + 1
      /\ \A g \in 1..(n + 1) : g \in 1..n \/ g = n + 1
      /\ n + 1 \in 1..(n + 1)
  BY NotYet DEF KeysSound
<1>4. /\ \A j \in 1..z : q[j].i = p[j].i /\ p[j].i \in 1..n /\ 0 < j
      /\ q[z + 1].i = n + 1 /\ 0 < z + 1 /\ z + 1 \in 1..(z + 1)
  BY <1>1, <1>2 DEF KeysSound, KeysRanged
<1>5. KeysRanged(s, e, w, d, q, 0, n + 1)
  <2>1. \A i \in 1..Len(s) : s[i].i \in 1..n
    BY DEF KeysSound, KeysRanged
  <2>2. e \subseteq 1..(n + 1) /\ w \subseteq 1..(n + 1) /\ d \subseteq 1..(n + 1)
    BY <1>3 DEF KeysSound, KeysRanged
  <2>3. \A j \in 1..Len(q) : q[j].i \in 1..(n + 1)
    BY <1>2, <1>3, <1>4
  <2> QED
    BY <1>3, <2>1, <2>2, <2>3 DEF KeysRanged
<1>6. KeysInTurn(s, w, l, q, 0)
  <2>1. ASSUME NEW i \in 1..Len(q), NEW j \in 1..Len(q), i < j PROVE q[i].i < q[j].i
    <3>1. i \in 1..z
      BY <1>2, <2>1
    <3>2. CASE j \in 1..z
      BY <1>1, <1>4, <2>1, <3>1, <3>2 DEF KeysSound, KeysInTurn
    <3>3. CASE j = z + 1
      BY <1>3, <1>4, <3>1, <3>3
    <3> QED
      BY <1>2, <3>2, <3>3
  <2>2. ASSUME NEW i \in 1..Len(s), NEW j \in 1..Len(q), ~Copied(s[i], w), q[j].i \notin l
        PROVE  s[i].i < q[j].i
    <3>1. CASE j \in 1..z
      BY <1>1, <1>4, <2>2, <3>1 DEF KeysSound, KeysInTurn
    <3>2. CASE j = z + 1
      <4>1. s[i].i \in 1..n
        BY DEF KeysSound, KeysRanged
      <4> QED
        BY <1>3, <1>4, <3>2, <4>1
    <3> QED
      BY <1>2, <3>1, <3>2
  <2> QED
    BY <2>1, <2>2 DEF KeysSound, KeysInTurn
<1>7. KeysApart(s, e, q, 0)
  <2>1. \A j \in 1..Len(q) : q[j].i \notin e
    BY <1>1, <1>2, <1>3, <1>4 DEF KeysSound, KeysApart
  <2>2. ASSUME NEW i \in 1..Len(s), NEW j \in 1..Len(q), s[i].by = "press" PROVE s[i].i # q[j].i
    <3>1. CASE j \in 1..z
      BY <1>1, <1>4, <2>2, <3>1 DEF KeysSound, KeysApart
    <3>2. CASE j = z + 1
      <4>1. s[i].i \in 1..n
        BY DEF KeysSound, KeysRanged
      <4> QED
        BY <1>3, <1>4, <3>2, <4>1
    <3> QED
      BY <1>2, <3>1, <3>2
  <2> QED
    BY <2>1, <2>2 DEF KeysSound, KeysApart
<1>8. KeysExact(s, e, w, d, q, 0, n + 1)
  <2>1. Served(s, e, q, 0, n + 1)
    BY <1>2, <1>4 DEF Served
  <2>2. ASSUME NEW g \in 1..n PROVE Served(s, e, q, 0, g) <=> Served(s, e, p, 0, g)
    <3>1. g # n + 1
      BY <1>3
    <3> QED
      BY <1>1, <1>2, <1>4, <3>1 DEF Served
  <2> QED
    BY <1>3, <2>1, <2>2 DEF KeysSound, KeysExact
<1> QED
  BY <1>2, <1>5, <1>6, <1>7, <1>8 DEF KeysSound

\* The first of those held back is sent.
LEMMA SendOne ==
    ASSUME NEW s \in Seq(Entries), NEW e, NEW w, NEW d, NEW l, NEW p \in Seq(HeldKeys), NEW m \in Nat, NEW n \in Nat,
           m + 1 \in 1..Len(p), KeysSound(s, e, w, d, l, p, m, n), NEW t, t = Append(s, ByPress(p[m + 1].i))
    PROVE  t \in Seq(Entries) /\ KeysSound(t, e, w, d, l, p, m + 1, n)
<1>1. PICK g1 \in Nat : g1 = p[m + 1].i
  BY HeldNumber
<1>2. g1 \in 1..n /\ g1 \notin e
  BY <1>1 DEF KeysSound, KeysRanged, KeysApart
<1>3. PICK z \in Nat : z = Len(s)
  OBVIOUS
<1>4. /\ t \in Seq(Entries) /\ Len(t) = z + 1 /\ t[z + 1].i = g1 /\ t[z + 1].by = "press"
      /\ \A i \in 1..z : t[i] = s[i] /\ i \in 1..(z + 1)
      /\ \A i \in 1..(z + 1) : i \in 1..z \/ i = z + 1
      /\ z + 1 \in 1..(z + 1)
  BY <1>1, <1>3, EntryOf, EntryAppended
<1>5. \A j \in 1..Len(p) : (m + 1 < j => m < j) /\ (m < j => j = m + 1 \/ m + 1 < j)
  OBVIOUS
<1>6. PICK h \in 1..Len(p) : h = m + 1 /\ m < h /\ p[h].i = g1
  BY <1>1
<1>7. KeysRanged(t, e, w, d, p, m + 1, n)
  <2>1. \A i \in 1..Len(t) : t[i].i \in 1..n
    BY <1>2, <1>3, <1>4 DEF KeysSound, KeysRanged
  <2> QED
    BY <1>5, <2>1 DEF KeysSound, KeysRanged
<1>8. KeysInTurn(t, w, l, p, m + 1)
  <2>1. ASSUME NEW i \in 1..Len(t), NEW j \in 1..Len(t), i < j, ~Copied(t[i], w), t[j].i \notin l
        PROVE  t[i].i <= t[j].i
    <3>1. i \in 1..z
      BY <1>4, <2>1
    <3>2. CASE j \in 1..z
      BY <1>3, <1>4, <2>1, <3>1, <3>2 DEF KeysSound, KeysInTurn
    <3>3. CASE j = z + 1
      <4>1. s[i].i < p[h].i
        BY <1>3, <1>4, <1>6, <2>1, <3>1, <3>3 DEF KeysSound, KeysInTurn
      <4>2. s[i].i \in 1..n
        BY <1>3, <3>1 DEF KeysSound, KeysRanged
      <4> QED
        BY <1>2, <1>4, <1>6, <3>1, <3>3, <4>1, <4>2
    <3> QED
      BY <1>4, <3>2, <3>3
  <2>2. ASSUME NEW i \in 1..Len(t), NEW j \in 1..Len(p), m + 1 < j, ~Copied(t[i], w), p[j].i \notin l
        PROVE  t[i].i < p[j].i
    <3>1. CASE i \in 1..z
      BY <1>3, <1>4, <1>5, <2>2, <3>1 DEF KeysSound, KeysInTurn
    <3>2. CASE i = z + 1
      <4>1. p[h].i < p[j].i
        BY <1>6, <2>2 DEF KeysSound, KeysInTurn
      <4> QED
        BY <1>4, <1>6, <3>2, <4>1
    <3> QED
      BY <1>4, <3>1, <3>2
  <2>3. \A i, j \in 1..Len(p) : m + 1 < i /\ i < j => p[i].i < p[j].i
    BY <1>5 DEF KeysSound, KeysInTurn
  <2> QED
    BY <2>1, <2>2, <2>3 DEF KeysInTurn
<1>9. KeysApart(t, e, p, m + 1)
  <2>1. ASSUME NEW i \in 1..Len(t), NEW j \in 1..Len(t), i < j, t[i].i = t[j].i PROVE t[i].by # t[j].by
    <3>1. i \in 1..z
      BY <1>4, <2>1
    <3>2. CASE j \in 1..z
      <4>1. s[i].i = s[j].i => s[i].by # s[j].by
        BY <1>3, <2>1, <3>1, <3>2 DEF KeysSound, KeysApart
      <4> QED
        BY <1>4, <2>1, <3>1, <3>2, <4>1
    <3>3. CASE j = z + 1
      <4>1. s[i].by = "press" => s[i].i # p[h].i
        BY <1>3, <1>6, <3>1 DEF KeysSound, KeysApart
      <4> QED
        BY <1>4, <1>6, <2>1, <3>1, <3>3, <4>1
    <3> QED
      BY <1>4, <3>2, <3>3
  <2>2. \A i \in 1..Len(t) : t[i].by = "press" => t[i].i \notin e
    BY <1>2, <1>3, <1>4 DEF KeysSound, KeysApart
  <2>3. ASSUME NEW i \in 1..Len(t), NEW j \in 1..Len(p), m + 1 < j, t[i].by = "press" PROVE t[i].i # p[j].i
    <3>1. CASE i \in 1..z
      <4>1. s[i].by = "press" => s[i].i # p[j].i
        BY <1>3, <1>5, <2>3, <3>1 DEF KeysSound, KeysApart
      <4> QED
        BY <1>4, <2>3, <3>1, <4>1
    <3>2. CASE i = z + 1
      <4>1. p[h].i < p[j].i
        BY <1>6, <2>3 DEF KeysSound, KeysInTurn
      <4> QED
        BY <1>4, <1>6, <3>2, <4>1
    <3> QED
      BY <1>4, <3>1, <3>2
  <2>4. \A j \in 1..Len(p) : m + 1 < j => p[j].i \notin e
    BY <1>5 DEF KeysSound, KeysApart
  <2> QED
    BY <2>1, <2>2, <2>3, <2>4 DEF KeysApart
<1>10. KeysExact(t, e, w, d, p, m + 1, n)
  <2>1. ASSUME NEW g PROVE IsTyped(t, g) <=> IsTyped(s, g)
    <3>1. "press" # "char"
      OBVIOUS
    <3> QED
      BY <1>3, <1>4, <3>1 DEF IsTyped
  <2>2. ASSUME NEW g, Served(s, e, p, m, g) PROVE Served(t, e, p, m + 1, g)
    <3>1. CASE \E i \in 1..Len(s) : s[i].i = g /\ s[i].by = "press"
      BY <1>3, <1>4, <3>1 DEF Served
    <3>2. CASE \E j \in 1..Len(p) : m < j /\ p[j].i = g
      <4>1. PICK j \in 1..Len(p) : m < j /\ p[j].i = g
        BY <3>2
      <4>2. CASE j = m + 1
        BY <1>1, <1>4, <4>1, <4>2 DEF Served
      <4>3. CASE m + 1 < j
        BY <4>1, <4>3 DEF Served
      <4> QED
        BY <1>5, <4>1, <4>2, <4>3
    <3>3. CASE g \in e
      BY <3>3 DEF Served
    <3> QED
      BY <2>2, <3>1, <3>2, <3>3 DEF Served
  <2>3. ASSUME NEW g, Served(t, e, p, m + 1, g) PROVE Served(s, e, p, m, g)
    <3>1. CASE \E i \in 1..Len(t) : t[i].i = g /\ t[i].by = "press"
      <4>1. PICK i \in 1..Len(t) : t[i].i = g /\ t[i].by = "press"
        BY <3>1
      <4>2. CASE i \in 1..z
        BY <1>3, <1>4, <4>1, <4>2 DEF Served
      <4>3. CASE i = z + 1
        BY <1>4, <1>6, <4>1, <4>3 DEF Served
      <4> QED
        BY <1>4, <4>1, <4>2, <4>3
    <3>2. CASE \E j \in 1..Len(p) : m + 1 < j /\ p[j].i = g
      BY <1>5, <3>2 DEF Served
    <3>3. CASE g \in e
      BY <3>3 DEF Served
    <3> QED
      BY <2>3, <3>1, <3>2, <3>3 DEF Served
  <2> QED
    BY <2>1, <2>2, <2>3 DEF KeysSound, KeysExact
<1> QED
  BY <1>4, <1>7, <1>8, <1>9, <1>10 DEF KeysSound

\* Or has no sequence; or a binding takes all of them.
LEMMA EatSome ==
    ASSUME NEW s \in Seq(Entries), NEW e, NEW w, NEW d, NEW l, NEW p \in Seq(HeldKeys), NEW m \in Nat, NEW n \in Nat,
           KeysSound(s, e, w, d, l, p, m, n), NEW k \in m..Len(p), NEW f,
           f = e \cup {p[j].i : j \in (m + 1)..k}
    PROVE  KeysSound(s, f, w, d, l, p, k, n)
<1>1. \A j \in 1..Len(p) : k < j => m < j
  OBVIOUS
<1>2. \A g : g \in f <=> g \in e \/ \E j \in 1..Len(p) : m < j /\ j <= k /\ g = p[j].i
  <2>1. \A j \in (m + 1)..k : j \in 1..Len(p) /\ m < j /\ j <= k
    OBVIOUS
  <2>2. \A j \in 1..Len(p) : m < j /\ j <= k => j \in (m + 1)..k
    OBVIOUS
  <2> QED
    BY <2>1, <2>2
<1>3. \A j \in 1..Len(p) : m < j => p[j].i \in 1..n /\ p[j].i \notin e
  BY DEF KeysSound, KeysRanged, KeysApart
<1>4. \A i \in 1..Len(p), j \in 1..Len(p) : m < i /\ i < j => p[i].i < p[j].i /\ p[i].i # p[j].i
  <2>1. \A i \in 1..Len(p), j \in 1..Len(p) : m < i /\ i < j => p[i].i < p[j].i
    BY DEF KeysSound, KeysInTurn
  <2>2. \A j \in 1..Len(p) : p[j].i \in Nat
    BY HeldNumber
  <2> QED
    BY <2>1, <2>2
<1>5. KeysRanged(s, f, w, d, p, k, n)
  <2>1. f \subseteq 1..n
    BY <1>2, <1>3 DEF KeysSound, KeysRanged
  <2> QED
    BY <1>1, <2>1 DEF KeysSound, KeysRanged
<1>6. KeysInTurn(s, w, l, p, k)
  BY <1>1 DEF KeysSound, KeysInTurn
<1>7. KeysApart(s, f, p, k)
  <2>1. ASSUME NEW j \in 1..Len(p), k < j PROVE p[j].i \notin f
    <3>1. p[j].i \notin e
      BY <1>1, <1>3, <2>1
    <3>2. ASSUME NEW i \in 1..Len(p), m < i, i <= k PROVE p[i].i # p[j].i
      <4>1. i < j
        BY <2>1, <3>2
      <4> QED
        BY <1>4, <3>2, <4>1
    <3> QED
      BY <1>2, <3>1, <3>2
  <2>2. ASSUME NEW i \in 1..Len(s), s[i].by = "press" PROVE s[i].i \notin f
    BY <1>2, <2>2 DEF KeysSound, KeysApart
  <2> QED
    BY <1>1, <2>1, <2>2 DEF KeysSound, KeysApart
<1>8. KeysExact(s, f, w, d, p, k, n)
  <2>1. ASSUME NEW g PROVE Served(s, f, p, k, g) <=> Served(s, e, p, m, g)
    <3>1. \A j \in 1..Len(p) : m < j => j <= k \/ k < j
      OBVIOUS
    <3> QED
      BY <1>1, <1>2, <3>1 DEF Served
  <2> QED
    BY <2>1 DEF KeysSound, KeysExact
<1> QED
  BY <1>5, <1>6, <1>7, <1>8 DEF KeysSound

LEMMA NoneHeld ==
    ASSUME NEW s, NEW e, NEW w, NEW d, NEW l, NEW p \in Seq(HeldKeys), NEW n, KeysSound(s, e, w, d, l, p, Len(p), n)
    PROVE  KeysSound(s, e, w, d, l, <<>>, 0, n)
<1>1. \A j \in 1..Len(p) : ~(Len(p) < j)
  OBVIOUS
<1>2. 1..Len(<<>>) = {}
  OBVIOUS
<1>3. \A g : Served(s, e, <<>>, 0, g) <=> Served(s, e, p, Len(p), g)
  BY <1>1, <1>2 DEF Served
<1>4. KeysExact(s, e, w, d, <<>>, 0, n)
  BY <1>3 DEF KeysSound, KeysExact
<1> QED
  BY <1>2, <1>4 DEF KeysSound, KeysRanged, KeysInTurn, KeysApart

\* What is held back stays, with a reload between it and the rest.
LEMMA LaterThan ==
    ASSUME NEW s, NEW e, NEW w, NEW d, NEW l, NEW p, NEW n, KeysSound(s, e, w, d, l, p, 0, n), NEW x
    PROVE  KeysSound(s, e, w, d, l \cup x, p, 0, n)
  BY DEF KeysSound, KeysInTurn

\* The next press is sent, by itself or by its character, past those a reload left.
LEMMA SendNext ==
    ASSUME NEW s \in Seq(Entries), NEW e, NEW w, NEW d, NEW l, NEW p \in Seq(HeldKeys), NEW n \in Nat,
           KeysSound(s, e, w, d, l, p, 0, n), \A j \in 1..Len(p) : p[j].i \in l,
           NEW x \in Entries, x.i = n + 1, NEW t, t = Append(s, x)
    PROVE  t \in Seq(Entries) /\ KeysSound(t, e, w, d, l, p, 0, n + 1)
<1>1. PICK z \in Nat : z = Len(s)
  OBVIOUS
<1>2. /\ t \in Seq(Entries) /\ Len(t) = z + 1 /\ t[z + 1] = x /\ t[z + 1].i = n + 1
      /\ \A i \in 1..z : t[i] = s[i] /\ i \in 1..(z + 1)
      /\ \A i \in 1..(z + 1) : i \in 1..z \/ i = z + 1
      /\ z + 1 \in 1..(z + 1)
  BY <1>1, EntryAppended
<1>3. /\ n + 1 \notin e \cup w \cup d /\ ~Served(s, e, p, 0, n + 1) /\ ~IsTyped(s, n + 1)
      /\ \A g \in 1..n : g \in 1..(n + 1) /\ g < n + 1 /\ g # n + 1
      /\ \A g \in 1..(n + 1) : g \in 1..n \/ g = n + 1
      /\ n + 1 \in 1..(n + 1)
  BY NotYet DEF KeysSound
<1>4. /\ \A i \in 1..z : s[i].i \in 1..n /\ t[i].i \in 1..n
      /\ \A j \in 1..Len(p) : p[j].i \in 1..n
  <2>1. \A j \in 1..Len(p) : 0 < j
    OBVIOUS
  <2> QED
    BY <1>1, <1>2, <2>1 DEF KeysSound, KeysRanged
<1>5. KeysRanged(t, e, w, d, p, 0, n + 1)
  <2>1. e \subseteq 1..(n + 1) /\ w \subseteq 1..(n + 1) /\ d \subseteq 1..(n + 1)
    BY <1>3 DEF KeysSound, KeysRanged
  <2>2. \A i \in 1..Len(t) : t[i].i \in 1..(n + 1)
    BY <1>2, <1>3, <1>4
  <2> QED
    BY <1>3, <1>4, <2>1, <2>2 DEF KeysRanged
<1>6. KeysInTurn(t, w, l, p, 0)
  <2>1. ASSUME NEW i \in 1..Len(t), NEW j \in 1..Len(t), i < j, ~Copied(t[i], w), t[j].i \notin l
        PROVE  t[i].i <= t[j].i
    <3>1. i \in 1..z
      BY <1>2, <2>1
    <3>2. CASE j \in 1..z
      BY <1>1, <1>2, <2>1, <3>1, <3>2 DEF KeysSound, KeysInTurn
    <3>3. CASE j = z + 1
      <4>1. t[i].i \in 1..n /\ t[j].i = n + 1
        BY <1>2, <1>4, <3>1, <3>3
      <4> QED
        BY <4>1
    <3> QED
      BY <1>2, <3>2, <3>3
  <2> QED
    BY <2>1 DEF KeysSound, KeysInTurn
<1>7. KeysApart(t, e, p, 0)
  <2>1. ASSUME NEW i \in 1..Len(t), NEW j \in 1..Len(t), i < j, t[i].i = t[j].i PROVE t[i].by # t[j].by
    <3>1. i \in 1..z
      BY <1>2, <2>1
    <3>2. j # z + 1
      BY <1>2, <1>3, <1>4, <2>1, <3>1
    <3>3. j \in 1..z
      BY <1>2, <3>2
    <3> QED
      BY <1>1, <1>2, <2>1, <3>1, <3>3 DEF KeysSound, KeysApart
  <2>2. \A i \in 1..Len(t) : t[i].by = "press" => t[i].i \notin e
    BY <1>1, <1>2, <1>3 DEF KeysSound, KeysApart
  <2>3. ASSUME NEW i \in 1..Len(t), NEW j \in 1..Len(p), 0 < j, t[i].by = "press" PROVE t[i].i # p[j].i
    <3>1. CASE i \in 1..z
      BY <1>1, <1>2, <2>3, <3>1 DEF KeysSound, KeysApart
    <3>2. CASE i = z + 1
      BY <1>2, <1>3, <1>4, <3>2
    <3> QED
      BY <1>2, <3>1, <3>2
  <2> QED
    BY <2>1, <2>2, <2>3 DEF KeysSound, KeysApart
<1>8. KeysExact(t, e, w, d, p, 0, n + 1)
  <2>1. ASSUME NEW g \in 1..n
        PROVE  (Served(t, e, p, 0, g) <=> Served(s, e, p, 0, g)) /\ (IsTyped(t, g) <=> IsTyped(s, g))
    <3>1. g # n + 1
      BY <1>3
    <3>2. \A by : (\E i \in 1..Len(t) : t[i].i = g /\ t[i].by = by) <=> (\E i \in 1..Len(s) : s[i].i = g /\ s[i].by = by)
      BY <1>1, <1>2, <3>1
    <3> QED
      BY <3>2 DEF Served, IsTyped
  <2>2. (x.by = "press" /\ Served(t, e, p, 0, n + 1)) \/ (x.by = "char" /\ IsTyped(t, n + 1))
    <3>1. x.by = "press" \/ x.by = "char"
      BY DEF Entries
    <3> QED
      BY <1>2, <3>1 DEF Served, IsTyped
  <2>3. "press" # "char" /\ (x.by = "press" => ~IsTyped(t, n + 1)) /\ (x.by = "char" => ~Served(t, e, p, 0, n + 1))
    <3>1. "press" # "char"
      OBVIOUS
    <3>2. \A i \in 1..Len(t) : t[i].i = n + 1 => t[i] = x
      BY <1>1, <1>2, <1>3, <1>4
    <3>3. \A j \in 1..Len(p) : p[j].i # n + 1
      BY <1>3, <1>4
    <3> QED
      BY <1>3, <3>1, <3>2, <3>3 DEF Served, IsTyped
  <2> QED
    BY <1>3, <2>1, <2>2, <2>3 DEF KeysSound, KeysExact
<1> QED
  BY <1>2, <1>5, <1>6, <1>7, <1>8 DEF KeysSound

\* Or is taken, or has no sequence; or is dropped, its character coming too late.
LEMMA EatNext ==
    ASSUME NEW s \in Seq(Entries), NEW e, NEW w, NEW d, NEW l, NEW p \in Seq(HeldKeys), NEW n \in Nat,
           KeysSound(s, e, w, d, l, p, 0, n)
    PROVE  /\ KeysSound(s, e \cup {n + 1}, w, d, l, p, 0, n + 1)
           /\ KeysSound(s, e, w, d \cup {n + 1}, l, p, 0, n + 1)
<1>1. /\ n + 1 \notin e \cup w \cup d /\ ~Served(s, e, p, 0, n + 1) /\ ~IsTyped(s, n + 1)
      /\ \A g \in 1..n : g \in 1..(n + 1) /\ g < n + 1 /\ g # n + 1
      /\ \A g \in 1..(n + 1) : g \in 1..n \/ g = n + 1
      /\ n + 1 \in 1..(n + 1)
  BY NotYet DEF KeysSound
<1>2. /\ \A i \in 1..Len(s) : s[i].i \in 1..n
      /\ \A j \in 1..Len(p) : 0 < j => p[j].i \in 1..n
      /\ e \subseteq 1..n /\ w \subseteq 1..n /\ d \subseteq 1..n
  BY DEF KeysSound, KeysRanged
<1>3. PICK f : f = e \cup {n + 1}
  OBVIOUS
<1>4. PICK c : c = d \cup {n + 1}
  OBVIOUS
<1>5. KeysRanged(s, f, w, d, p, 0, n + 1) /\ KeysRanged(s, e, w, c, p, 0, n + 1)
  <2>1. e \subseteq 1..(n + 1) /\ w \subseteq 1..(n + 1) /\ d \subseteq 1..(n + 1)
    BY <1>1, <1>2
  <2>2. f \subseteq 1..(n + 1) /\ c \subseteq 1..(n + 1)
    BY <1>1, <1>3, <1>4, <2>1
  <2> QED
    BY <1>1, <1>2, <2>1, <2>2 DEF KeysRanged
<1>6. KeysApart(s, f, p, 0)
  BY <1>1, <1>2, <1>3 DEF KeysSound, KeysApart
<1>7. KeysExact(s, f, w, d, p, 0, n + 1)
  <2>1. \A g : Served(s, f, p, 0, g) <=> Served(s, e, p, 0, g) \/ g = n + 1
    BY <1>3 DEF Served
  <2> QED
    BY <1>1, <2>1 DEF KeysSound, KeysExact
<1>8. KeysExact(s, e, w, c, p, 0, n + 1)
  BY <1>1, <1>4 DEF KeysSound, KeysExact
<1> QED
  BY <1>3, <1>4, <1>5, <1>6, <1>7, <1>8 DEF KeysSound

\* The last press was answered, and its character comes besides.
LEMMA TypeLast ==
    ASSUME NEW s \in Seq(Entries), NEW e, NEW w, NEW d, NEW l, NEW p \in Seq(HeldKeys), NEW n \in Nat, n # 0,
           KeysSound(s, e, w, d, l, p, 0, n), ~IsTyped(s, n), n \notin d,
           NEW t, t = Append(s, ByChar(n))
    PROVE  t \in Seq(Entries) /\ KeysSound(t, e, w \cup {n}, d, l, p, 0, n)
<1>1. PICK z \in Nat : z = Len(s)
  OBVIOUS
<1>2. /\ t \in Seq(Entries) /\ Len(t) = z + 1 /\ t[z + 1].i = n /\ t[z + 1].by = "char"
      /\ \A i \in 1..z : t[i] = s[i] /\ i \in 1..(z + 1)
      /\ \A i \in 1..(z + 1) : i \in 1..z \/ i = z + 1
      /\ z + 1 \in 1..(z + 1)
  BY <1>1, EntryOf, EntryAppended
<1>3. n \in 1..n /\ \A g \in 1..n : g <= n
  OBVIOUS
<1>4. \A i \in 1..z : s[i].i \in 1..n /\ t[i].i = s[i].i /\ t[i].by = s[i].by
  BY <1>1, <1>2 DEF KeysSound, KeysRanged
<1>5. PICK v : v = w \cup {n}
  OBVIOUS
<1>6. \A y : ~Copied(y, v) => ~Copied(y, w)
  BY <1>5 DEF Copied
<1>7. KeysRanged(t, e, v, d, p, 0, n)
  <2>1. \A i \in 1..Len(t) : t[i].i \in 1..n
    BY <1>2, <1>3, <1>4
  <2>2. v \subseteq 1..n
    BY <1>3, <1>5 DEF KeysSound, KeysRanged
  <2> QED
    BY <2>1, <2>2 DEF KeysSound, KeysRanged
<1>8. KeysInTurn(t, v, l, p, 0)
  <2>1. ASSUME NEW i \in 1..Len(t), NEW j \in 1..Len(t), i < j, ~Copied(t[i], v), t[j].i \notin l
        PROVE  t[i].i <= t[j].i
    <3>1. i \in 1..z
      BY <1>2, <2>1
    <3>2. CASE j \in 1..z
      BY <1>1, <1>2, <1>6, <2>1, <3>1, <3>2 DEF KeysSound, KeysInTurn
    <3>3. CASE j = z + 1
      BY <1>2, <1>3, <1>4, <3>1, <3>3
    <3> QED
      BY <1>2, <3>2, <3>3
  <2>2. ASSUME NEW i \in 1..Len(t), NEW j \in 1..Len(p), 0 < j, ~Copied(t[i], v), p[j].i \notin l
        PROVE  t[i].i < p[j].i
    <3>1. i # z + 1
      BY <1>2, <1>5, <2>2 DEF Copied
    <3>2. i \in 1..z
      BY <1>2, <3>1
    <3> QED
      BY <1>1, <1>2, <1>6, <2>2, <3>2 DEF KeysSound, KeysInTurn
  <2> QED
    BY <2>1, <2>2 DEF KeysSound, KeysInTurn
<1>9. KeysApart(t, e, p, 0)
  <2>1. ASSUME NEW i \in 1..Len(t), NEW j \in 1..Len(t), i < j, t[i].i = t[j].i PROVE t[i].by # t[j].by
    <3>1. i \in 1..z
      BY <1>2, <2>1
    <3>2. CASE j \in 1..z
      BY <1>1, <1>2, <2>1, <3>1, <3>2 DEF KeysSound, KeysApart
    <3>3. CASE j = z + 1
      BY <1>1, <1>2, <1>4, <2>1, <3>1, <3>3 DEF IsTyped
    <3> QED
      BY <1>2, <3>2, <3>3
  <2>2. \A i \in 1..Len(t) : t[i].by = "press" => i \in 1..z
    <3>1. "press" # "char"
      OBVIOUS
    <3> QED
      BY <1>2, <3>1
  <2> QED
    BY <1>1, <1>2, <2>1, <2>2 DEF KeysSound, KeysApart
<1>10. KeysExact(t, e, v, d, p, 0, n)
  <2>1. "press" # "char"
    OBVIOUS
  <2>2. \A g : IsTyped(t, g) <=> IsTyped(s, g) \/ g = n
    BY <1>1, <1>2, <1>4 DEF IsTyped
  <2>3. \A g : Served(t, e, p, 0, g) <=> Served(s, e, p, 0, g)
    BY <1>1, <1>2, <1>4, <2>1 DEF Served
  <2>4. Served(s, e, p, 0, n)
    BY <1>3 DEF KeysSound, KeysExact
  <2> QED
    BY <1>5, <2>2, <2>3, <2>4 DEF KeysSound, KeysExact
<1> QED
  BY <1>2, <1>5, <1>7, <1>8, <1>9, <1>10 DEF KeysSound

KeyFields == {"bound", "cur", "pending", "timer", "kitty", "selected", "embedded", "char",
              "asked", "key", "n", "sent", "eaten", "mute", "twice", "lost", "late"}
KeysTyped(k) ==
    /\ k = [f \in KeyFields |-> k[f]]
    /\ k.n \in Nat /\ k.cur \in Seq(KeyKinds) /\ k.pending \in Seq(HeldKeys)
    /\ k.sent \in Seq(Entries)
\* The account with s sent and u left without a sequence, p being held back.
Sound(k, s, u, p, m, n) ==
    KeysSound(s, k.eaten \cup u, k.twice, k.lost, k.late, p, m, n) /\ k.eaten \cap u = {}
\* The character of this press is still to come, and is what answers it.
InHand(k) == k.char /\ ~k.asked
Before(k) == IF InHand(k) THEN k.n - 1 ELSE k.n
AllLate(k, p) == \A j \in 1..Len(p) : p[j].i \in k.late
KeysGood(k) ==
    /\ KeysTyped(k)
    /\ Sound(k, k.sent, k.mute, k.pending, 0, Before(k))
    /\ k.char => k.n # 0 /\ k.n \notin k.lost /\ ~IsTyped(k.sent, k.n) /\ (k.key = "alt" => k.asked)
    /\ InHand(k) => k.cur = <<>>
    /\ k.cur = <<>> => AllLate(k, k.pending)
    /\ ~AllLate(k, k.pending) => k.timer
\* The inductive invariant of this scene.
KeysInv == KeysGood(keys)

Sending(k, s, u) == [k EXCEPT !.sent = s, !.mute = u]
SendingAny(k) == {Sending(k, x[1], x[2]) : x \in Seq(Entries) \X SUBSET Nat}

LEMMA SendingIs ==
    ASSUME NEW k, k = [f \in KeyFields |-> k[f]], NEW s, NEW u
    PROVE  /\ Sending(k, s, u) = [f \in KeyFields |-> Sending(k, s, u)[f]]
           /\ Sending(k, s, u).sent = s /\ Sending(k, s, u).mute = u
           /\ \A f \in KeyFields \ {"sent", "mute"} : Sending(k, s, u)[f] = k[f]
  BY DEF Sending, KeyFields

SendsOnly(c, k, s, u) == /\ c = [f \in KeyFields |-> c[f]] /\ c.sent = s /\ c.mute = u
                         /\ \A f \in KeyFields \ {"sent", "mute"} : c[f] = k[f]
LEMMA SendingOnly ==
    ASSUME NEW k, k = [f \in KeyFields |-> k[f]], NEW s, NEW u, NEW c, c = Sending(k, s, u)
    PROVE  SendsOnly(c, k, s, u)
  BY SendingIs DEF SendsOnly

LEMMA SendingAgain ==
    ASSUME NEW k, NEW s, NEW u, NEW t, NEW v
    PROVE  Sending(Sending(k, s, u), t, v) = Sending(k, t, v)
  BY DEF Sending

LEMMA SendingSame ==
    ASSUME NEW k, k = [f \in KeyFields |-> k[f]]
    PROVE  Sending(k, k.sent, k.mute) = k
  BY DEF Sending, KeyFields

LEMMA PressIs ==
    ASSUME NEW k, k = [f \in KeyFields |-> k[f]], NEW x, NEW key
    PROVE  \/ KeyPressEvent(k, x, key) = Sending(k, Append(k.sent, x), k.mute)
           \/ KeyPressEvent(k, x, key) = Sending(k, k.sent, k.mute \cup {x.i})
<1>1. PICK s : s = Append(k.sent, x)
  OBVIOUS
<1>2. PICK u : u = k.mute \cup {x.i}
  OBVIOUS
<1>3. \/ KeyPressEvent(k, x, key) = [k EXCEPT !.sent = s]
      \/ KeyPressEvent(k, x, key) = [k EXCEPT !.mute = u]
  BY <1>1, <1>2, Zenon DEF KeyPressEvent
<1>4. [k EXCEPT !.sent = s] = Sending(k, s, k.mute) /\ [k EXCEPT !.mute = u] = Sending(k, k.sent, u)
  BY DEF Sending, KeyFields
<1> QED
  BY <1>1, <1>2, <1>3, <1>4

LEMMA SentOrMute ==
    ASSUME NEW b, NEW k
    PROVE  k \in SendingAny(b) <=> \E s \in Seq(Entries), u \in SUBSET Nat : k = Sending(b, s, u)
<1>1. ASSUME k \in SendingAny(b)
      PROVE  \E s \in Seq(Entries), u \in SUBSET Nat : k = Sending(b, s, u)
  <2>1. PICK x \in Seq(Entries) \X SUBSET Nat : k = Sending(b, x[1], x[2])
    BY <1>1 DEF SendingAny
  <2>2. x[1] \in Seq(Entries) /\ x[2] \in SUBSET Nat
    OBVIOUS
  <2> QED
    BY <2>1, <2>2
<1>2. ASSUME NEW s \in Seq(Entries), NEW u \in SUBSET Nat, k = Sending(b, s, u)
      PROVE  k \in SendingAny(b)
  <2>1. PICK x : x = <<s, u>>
    OBVIOUS
  <2>2. x \in Seq(Entries) \X SUBSET Nat /\ x[1] = s /\ x[2] = u
    BY <2>1
  <2> QED
    BY <1>2, <2>2 DEF SendingAny
<1> QED
  BY <1>1, <1>2

LEMMA PressTyped ==
    ASSUME NEW b, b = [f \in KeyFields |-> b[f]], NEW k \in SendingAny(b), NEW x \in Entries, NEW key
    PROVE  KeyPressEvent(k, x, key) \in SendingAny(b)
<1>1. PICK s \in Seq(Entries), u \in SUBSET Nat : k = Sending(b, s, u)
  BY SentOrMute
<1>2. k = [f \in KeyFields |-> k[f]] /\ k.sent = s /\ k.mute = u
  BY <1>1, SendingIs
<1>3. PICK y : y = KeyPressEvent(k, x, key)
  OBVIOUS
<1>4. y = Sending(k, Append(s, x), u) \/ y = Sending(k, s, u \cup {x.i})
  BY <1>2, <1>3, PressIs
<1>5. y = Sending(b, Append(s, x), u) \/ y = Sending(b, s, u \cup {x.i})
  BY <1>1, <1>4, SendingAgain
<1>6. Append(s, x) \in Seq(Entries) /\ u \cup {x.i} \in SUBSET Nat
  BY DEF Entries
<1> QED
  BY <1>3, <1>5, <1>6, SentOrMute

LEMMA MuteNumbers ==
    ASSUME NEW k, NEW s, NEW u, NEW p, NEW m, NEW n \in Nat, Sound(k, s, u, p, m, n)
    PROVE  u \subseteq 1..n /\ u \in SUBSET Nat
<1>1. u \subseteq 1..n
  BY DEF Sound, KeysSound, KeysRanged
<1> QED
  BY <1>1

\* The press of the first of those held back.
LEMMA PressKeeps ==
    ASSUME NEW k, k = [f \in KeyFields |-> k[f]], k.sent \in Seq(Entries), NEW p \in Seq(HeldKeys), NEW m \in Nat,
           m + 1 \in 1..Len(p), NEW n \in Nat, Sound(k, k.sent, k.mute, p, m, n),
           NEW i, i = p[m + 1].i, NEW key
    PROVE  \E s \in Seq(Entries), u \in SUBSET Nat :
              KeyPressEvent(k, ByPress(i), key) = Sending(k, s, u) /\ Sound(k, s, u, p, m + 1, n)
<1>1. PICK s : s = Append(k.sent, ByPress(i))
  OBVIOUS
<1>2. PICK u : u = k.mute \cup {i}
  OBVIOUS
<1>3. PICK e : e = k.eaten \cup k.mute
  OBVIOUS
<1>4. PICK w, d, l : w = k.twice /\ d = k.lost /\ l = k.late
  OBVIOUS
<1>5. KeysSound(k.sent, e, w, d, l, p, m, n) /\ k.eaten \cap k.mute = {}
  BY <1>3, <1>4 DEF Sound
<1>6. s \in Seq(Entries) /\ KeysSound(s, e, w, d, l, p, m + 1, n)
  <2>1. s = Append(k.sent, ByPress(p[m + 1].i))
    BY <1>1
  <2> QED
    BY <1>5, <2>1, SendOne
<1>7. KeysSound(k.sent, e \cup {i}, w, d, l, p, m + 1, n)
  <2>1. {p[j].i : j \in (m + 1)..(m + 1)} = {i}
    <3>1. (m + 1)..(m + 1) = {m + 1}
      OBVIOUS
    <3> QED
      BY <3>1
  <2>2. PICK f : f = e \cup {i}
    OBVIOUS
  <2>3. f = e \cup {p[j].i : j \in (m + 1)..(m + 1)} /\ m + 1 \in m..Len(p)
    BY <2>1, <2>2
  <2> QED
    BY <1>5, <2>2, <2>3, EatSome
<1>8. i \notin k.eaten
  <2>1. PICK h \in 1..Len(p) : h = m + 1 /\ m < h
    OBVIOUS
  <2> QED
    BY <1>3, <1>5, <2>1 DEF KeysSound, KeysApart
<1>9. Sound(k, s, k.mute, p, m + 1, n)
  BY <1>3, <1>4, <1>5, <1>6 DEF Sound
<1>10. Sound(k, k.sent, u, p, m + 1, n)
  <2>1. k.eaten \cup u = e \cup {i} /\ k.eaten \cap u = {}
    BY <1>2, <1>3, <1>5, <1>8
  <2> QED
    BY <1>4, <1>7, <2>1 DEF Sound
<1>11. k.mute \in SUBSET Nat /\ u \in SUBSET Nat
  BY <1>9, <1>10, MuteNumbers
<1>12. ByPress(i).i = i
  BY DEF ByPress
<1>13. \/ KeyPressEvent(k, ByPress(i), key) = Sending(k, s, k.mute)
       \/ KeyPressEvent(k, ByPress(i), key) = Sending(k, k.sent, u)
  <2>1. PICK x : x = ByPress(i)
    OBVIOUS
  <2>2. \/ KeyPressEvent(k, x, key) = Sending(k, Append(k.sent, x), k.mute)
        \/ KeyPressEvent(k, x, key) = Sending(k, k.sent, k.mute \cup {x.i})
    BY PressIs
  <2>3. Append(k.sent, x) = s /\ k.mute \cup {x.i} = u
    BY <1>1, <1>2, <1>12, <2>1
  <2> QED
    BY <2>1, <2>2, <2>3
<1> QED
  BY <1>6, <1>9, <1>10, <1>11, <1>13

\* What was held back in vain is sent, one after the other.
LEMMA ReplayKeeps ==
    ASSUME NEW k, k = [f \in KeyFields |-> k[f]], k.sent \in Seq(Entries), k.pending \in Seq(HeldKeys),
           NEW n \in Nat, Sound(k, k.sent, k.mute, k.pending, 0, n),
           NEW b, b = [k EXCEPT !.pending = <<>>]
    PROVE  \E s \in Seq(Entries), u \in SUBSET Nat :
              ReplayPending(k) = Sending(b, s, u) /\ Sound(k, s, u, <<>>, 0, n)
<1>1. /\ b = [f \in KeyFields |-> b[f]] /\ b.sent = k.sent /\ b.mute = k.mute
      /\ b.eaten = k.eaten /\ b.twice = k.twice /\ b.lost = k.lost /\ b.late = k.late
  BY DEF KeyFields
<1>2. PICK q \in Seq(HeldKeys) : q = k.pending
  OBVIOUS
<1>3. PICK l \in Nat : l = Len(q)
  OBVIOUS
<1>4. DOMAIN q = 1..l /\ \A i \in 1..l : ByPress(q[i].i) \in Entries
  BY <1>3, HeldNumber, EntryOf
<1>5. PICK w : w = FoldLeft(LAMBDA r, p : KeyPressEvent(r, ByPress(p.i), p.key), b, q)
  OBVIOUS
<1>6. w = ReplayPending(k)
  BY <1>2, <1>5, Zenon DEF ReplayPending
<1>7. b \in SendingAny(b) /\ b = Sending(b, b.sent, b.mute) /\ b.mute \in SUBSET Nat
  <2>1. b = Sending(b, b.sent, b.mute)
    BY <1>1, SendingSame
  <2>2. b.mute \in SUBSET Nat
    BY <1>1, MuteNumbers
  <2> QED
    BY <1>1, <2>1, <2>2, SentOrMute
<1>a. \A s, u, p, m : Sound(k, s, u, p, m, n) <=> Sound(b, s, u, p, m, n)
  BY <1>1 DEF Sound
<1> DEFINE E(it) == it = [t \in SUBSET (DOMAIN q) |->
                            IF t = {} THEN b ELSE KeyPressEvent(it[t \ {Max(t)}], ByPress(q[Max(t)].i), q[Max(t)].key)]
<1>8. \E it : E(it)
  <2>1. PICK step : step = [i \in 1..l |-> [a \in SendingAny(b) |-> KeyPressEvent(a, ByPress(q[i].i), q[i].key)]]
    OBVIOUS
  <2>2. step \in [1..l -> [SendingAny(b) -> SendingAny(b)]]
    BY <1>1, <1>4, <2>1, PressTyped
  <2>3. PICK it \in [SUBSET (1..l) -> SendingAny(b)] : FoldedBy(it, l, b, step)
    BY <1>7, <2>2, FoldExists
  <2>4. ASSUME NEW t \in SUBSET (1..l), t # {}
        PROVE  it[t] = KeyPressEvent(it[t \ {Max(t)}], ByPress(q[Max(t)].i), q[Max(t)].key)
    <3>1. Max(t) \in 1..l
      BY <2>4, LastOf
    <3>2. it[t \ {Max(t)}] \in SendingAny(b)
      BY <2>3
    <3>3. it[t] = step[Max(t)][it[t \ {Max(t)}]]
      BY <2>3, <2>4 DEF FoldedBy
    <3> QED
      BY <2>1, <3>1, <3>2, <3>3
  <2>5. it[{}] = b
    BY <2>3 DEF FoldedBy
  <2>6. E(it)
    BY <1>4, <2>3, <2>4, <2>5
  <2> QED
    BY <2>6
<1>9. PICK jt : jt = (CHOOSE x : E(x))
  OBVIOUS
<1>10. E(jt)
  BY <1>8, <1>9
<1>11. jt[DOMAIN q] = w
  BY <1>5, <1>9 DEF FoldLeft, MapThenFoldSet
<1>12. /\ jt[{}] = b
       /\ \A t \in SUBSET (1..l) : t # {} =>
             jt[t] = KeyPressEvent(jt[t \ {Max(t)}], ByPress(q[Max(t)].i), q[Max(t)].key)
  BY <1>4, <1>10
<1> HIDE DEF E
<1> DEFINE Done(i, x) == \E s \in Seq(Entries), u \in SUBSET Nat :
                            x = Sending(b, s, u) /\ Sound(b, s, u, q, i, n)
<1>13. PICK T : T = {i \in 0..l : Done(i, jt[1..i])}
  OBVIOUS
<1>14. T \in SUBSET (0..l) /\ 0 \in T
  <2>1. 1..0 = {}
    OBVIOUS
  <2>2. Done(0, b)
    <3>1. Sound(b, b.sent, b.mute, q, 0, n)
      BY <1>1, <1>2, <1>a
    <3>2. b.sent \in Seq(Entries)
      BY <1>1
    <3> QED
      BY <1>7, <3>1, <3>2
  <2>3. Done(0, jt[1..0])
    BY <1>12, <2>1, <2>2
  <2> HIDE DEF Done
  <2> QED
    BY <1>13, <2>3
<1>15. ASSUME NEW i \in 1..l, i - 1 \in T PROVE i \in T
  <2>1. i \in 1..i /\ (1..i) \in SUBSET (1..l) /\ 1..i # {}
    OBVIOUS
  <2>2. Max(1..i) \in 1..i /\ \A j \in 1..i : j <= Max(1..i)
    BY <2>1, LastOf
  <2>3. PICK x : x = Max(1..i)
    OBVIOUS
  <2>4. x = i
    BY <2>1, <2>2, <2>3
  <2>5. (1..i) \ {i} = 1..(i - 1)
    OBVIOUS
  <2>6. jt[1..i] = KeyPressEvent(jt[1..(i - 1)], ByPress(q[i].i), q[i].key)
    BY <1>12, <2>1, <2>3, <2>4, <2>5
  <2>7. PICK m \in Nat : m = i - 1
    OBVIOUS
  <2>8. m + 1 = i /\ m + 1 \in 1..Len(q)
    BY <1>3, <2>7
  <2>9. PICK a : a = jt[1..m]
    OBVIOUS
  <2>10. PICK s \in Seq(Entries), u \in SUBSET Nat : a = Sending(b, s, u) /\ Sound(b, s, u, q, m, n)
    BY <1>13, <1>15, <2>7, <2>9
  <2>11. /\ a = [f \in KeyFields |-> a[f]] /\ a.sent = s /\ a.mute = u
         /\ \A t, v, p, h : Sound(a, t, v, p, h, n) <=> Sound(b, t, v, p, h, n)
    <3>1. a = [f \in KeyFields |-> a[f]] /\ a.sent = s /\ a.mute = u
          /\ \A f \in KeyFields \ {"sent", "mute"} : a[f] = b[f]
      <4>1. b = [f \in KeyFields |-> b[f]]
        BY <1>1
      <4>2. a = Sending(b, s, u)
        BY <2>10
      <4>3. PICK c : c = Sending(b, s, u)
        OBVIOUS
      <4>4. /\ c = [f \in KeyFields |-> c[f]] /\ c.sent = s /\ c.mute = u
            /\ \A f \in KeyFields \ {"sent", "mute"} : c[f] = b[f]
        <5>1. SendsOnly(c, b, s, u)
          BY <4>1, <4>3, SendingOnly
        <5> QED
          BY <5>1 DEF SendsOnly
      <4> QED
        BY <4>2, <4>3, <4>4
    <3>2. {"eaten", "twice", "lost", "late"} \subseteq KeyFields \ {"sent", "mute"}
      BY DEF KeyFields
    <3>3. a.eaten = b.eaten /\ a.twice = b.twice /\ a.lost = b.lost /\ a.late = b.late
      BY <3>1, <3>2
    <3>4. \A t, v, p, h : Sound(a, t, v, p, h, n) <=> Sound(b, t, v, p, h, n)
      BY <3>3 DEF Sound
    <3> QED
      BY <3>1, <3>4
  <2>a. PICK g : g = q[i].i
    OBVIOUS
  <2>b. PICK key : key = q[i].key
    OBVIOUS
  <2>12. PICK t \in Seq(Entries), v \in SUBSET Nat :
            KeyPressEvent(a, ByPress(g), key) = Sending(a, t, v) /\ Sound(a, t, v, q, m + 1, n)
    <3>1. g = q[m + 1].i /\ a.sent \in Seq(Entries) /\ Sound(a, a.sent, a.mute, q, m, n)
      BY <2>8, <2>10, <2>11, <2>a
    <3>2. a = [f \in KeyFields |-> a[f]]
      BY <2>11
    <3> QED
      BY <2>8, <3>1, <3>2, PressKeeps, ZenonT(30)
  <2>13. jt[1..i] = Sending(b, t, v)
    <3>1. jt[1..i] = KeyPressEvent(a, ByPress(g), key)
      BY <2>6, <2>7, <2>9, <2>a, <2>b
    <3>2. Sending(a, t, v) = Sending(b, t, v)
      BY <2>10, SendingAgain
    <3> QED
      BY <2>12, <3>1, <3>2
  <2>14. Done(i, jt[1..i])
    BY <2>8, <2>11, <2>12, <2>13
  <2> HIDE DEF Done
  <2> QED
    BY <1>13, <2>14
<1>16. l \in T
  <2> HIDE DEF Done
  <2>1. T = 0..l
    BY <1>14, <1>15, StepByStep
  <2> QED
    BY <2>1
<1>17. PICK s \in Seq(Entries), u \in SUBSET Nat : jt[1..l] = Sending(b, s, u) /\ Sound(b, s, u, q, l, n)
  BY <1>13, <1>16
<1>18. Sound(k, s, u, <<>>, 0, n)
  <2>1. Sound(b, s, u, <<>>, 0, n)
    BY <1>3, <1>17, NoneHeld DEF Sound
  <2> QED
    BY <1>a, <2>1
<1>19. w = Sending(b, s, u)
  BY <1>4, <1>11, <1>17
<1> QED
  BY <1>6, <1>18, <1>19

\* The matcher has let go, of what it held or not.
Cleared(k, p) == [k EXCEPT !.cur = <<>>, !.timer = FALSE, !.pending = p]

LEMMA ClearedIs ==
    ASSUME NEW k, k = [f \in KeyFields |-> k[f]], NEW p
    PROVE  /\ Cleared(k, p) = [f \in KeyFields |-> Cleared(k, p)[f]]
           /\ Cleared(k, p).cur = <<>> /\ Cleared(k, p).pending = p
           /\ \A f \in KeyFields \ {"cur", "timer", "pending"} : Cleared(k, p)[f] = k[f]
  BY DEF Cleared, KeyFields

LEMMA AbortKeeps ==
    ASSUME NEW k, k = [f \in KeyFields |-> k[f]], k.sent \in Seq(Entries), k.pending \in Seq(HeldKeys),
           NEW n \in Nat, Sound(k, k.sent, k.mute, k.pending, 0, n),
           k.cur = <<>> => AllLate(k, k.pending)
    PROVE  /\ \E p \in Seq(HeldKeys), s \in Seq(Entries), u \in SUBSET Nat :
                 AbortPrefix(k) = Sending(Cleared(k, p), s, u) /\ Sound(k, s, u, p, 0, n) /\ AllLate(k, p)
           /\ \E s \in Seq(Entries), u \in SUBSET Nat :
                 OnSequenceTimeout(k) = Sending(Cleared(k, <<>>), s, u) /\ Sound(k, s, u, <<>>, 0, n)
<1>1. PICK y : y = [k EXCEPT !.cur = <<>>, !.timer = FALSE]
  OBVIOUS
<1>2. /\ y = [f \in KeyFields |-> y[f]] /\ y.sent = k.sent /\ y.pending = k.pending /\ y.mute = k.mute
      /\ y.eaten = k.eaten /\ y.twice = k.twice /\ y.lost = k.lost /\ y.late = k.late
  BY <1>1 DEF KeyFields
<1>3. PICK b : b = [y EXCEPT !.pending = <<>>]
  OBVIOUS
<1>4. b = Cleared(k, <<>>)
  BY <1>1, <1>3 DEF Cleared, KeyFields
<1>a. \A s, u, p : Sound(k, s, u, p, 0, n) <=> Sound(y, s, u, p, 0, n)
  BY <1>2 DEF Sound
<1>5. Sound(y, y.sent, y.mute, y.pending, 0, n) /\ y.sent \in Seq(Entries) /\ y.pending \in Seq(HeldKeys)
  BY <1>2, <1>a
<1>6. \E s \in Seq(Entries), u \in SUBSET Nat :
         ReplayPending(y) = Sending(b, s, u) /\ Sound(y, s, u, <<>>, 0, n)
  BY <1>2, <1>3, <1>5, ReplayKeeps
<1>7. PICK s \in Seq(Entries), u \in SUBSET Nat :
         ReplayPending(y) = Sending(Cleared(k, <<>>), s, u) /\ Sound(k, s, u, <<>>, 0, n)
  BY <1>4, <1>6, <1>a
<1>8. OnSequenceTimeout(k) = ReplayPending(y)
  BY <1>1, Zenon DEF OnSequenceTimeout
<1>9. CASE k.cur # <<>>
  <2>1. AbortPrefix(k) = ReplayPending(y)
    BY <1>1, <1>9, Zenon DEF AbortPrefix
  <2>2. <<>> \in Seq(HeldKeys) /\ AllLate(k, <<>>)
    BY DEF AllLate
  <2> QED
    BY <1>7, <1>8, <2>1, <2>2
<1>10. CASE k.cur = <<>>
  <2>1. AbortPrefix(k) = y
    BY <1>1, <1>10, Zenon DEF AbortPrefix
  <2>2. y = Cleared(k, k.pending)
    BY <1>1 DEF Cleared, KeyFields
  <2>3. y = Sending(y, y.sent, y.mute)
    BY <1>2, SendingSame
  <2>4. k.mute \in SUBSET Nat
    BY MuteNumbers
  <2>5. AbortPrefix(k) = Sending(Cleared(k, k.pending), k.sent, k.mute)
    BY <1>2, <2>1, <2>2, <2>3
  <2> QED
    BY <1>7, <1>8, <1>10, <2>4, <2>5
<1> QED
  BY <1>9, <1>10

LEMMA SoundFresh ==
    ASSUME NEW k, NEW s, NEW u, NEW p, NEW n \in Nat, Sound(k, s, u, p, 0, n)
    PROVE  ~IsTyped(s, n + 1) /\ n + 1 \notin k.eaten \cup u \cup k.lost
<1>1. KeysRanged(s, k.eaten \cup u, k.twice, k.lost, p, 0, n)
  BY DEF Sound, KeysSound
<1>2. n + 1 \notin (k.eaten \cup u) \cup k.twice \cup k.lost /\ ~IsTyped(s, n + 1)
  BY <1>1, NotYet
<1> QED
  BY <1>2

\* The next press is answered: it is sent, has no sequence, or is taken.
LEMMA AnswerNext ==
    ASSUME NEW k, NEW s \in Seq(Entries), NEW u, NEW p \in Seq(HeldKeys), NEW n \in Nat, Sound(k, s, u, p, 0, n)
    PROVE  /\ \A x \in Entries : (AllLate(k, p) /\ x.i = n + 1) =>
                 Append(s, x) \in Seq(Entries) /\ Sound(k, Append(s, x), u, p, 0, n + 1)
           /\ Sound(k, s, u \cup {n + 1}, p, 0, n + 1)
           /\ \A y : (/\ y.eaten = k.eaten \cup {n + 1} /\ y.twice = k.twice
                      /\ y.lost = k.lost /\ y.late = k.late) => Sound(y, s, u, p, 0, n + 1)
           /\ \A y : (/\ y.lost = k.lost \cup {n + 1} /\ y.twice = k.twice
                      /\ y.eaten = k.eaten /\ y.late = k.late) => Sound(y, s, u, p, 0, n + 1)
<1>1. PICK e : e = k.eaten \cup u
  OBVIOUS
<1>2. PICK w, d, l : w = k.twice /\ d = k.lost /\ l = k.late
  OBVIOUS
<1>3. KeysSound(s, e, w, d, l, p, 0, n) /\ k.eaten \cap u = {}
  BY <1>1, <1>2 DEF Sound
<1>4. n + 1 \notin k.eaten /\ n + 1 \notin u
  BY SoundFresh
<1>5. /\ KeysSound(s, e \cup {n + 1}, w, d, l, p, 0, n + 1)
      /\ KeysSound(s, e, w, d \cup {n + 1}, l, p, 0, n + 1)
  BY <1>3, EatNext
<1>6. ASSUME NEW x \in Entries, AllLate(k, p), x.i = n + 1
      PROVE  Append(s, x) \in Seq(Entries) /\ Sound(k, Append(s, x), u, p, 0, n + 1)
  <2>1. PICK t : t = Append(s, x)
    OBVIOUS
  <2>2. \A j \in 1..Len(p) : p[j].i \in l
    BY <1>2, <1>6 DEF AllLate
  <2>3. t \in Seq(Entries) /\ KeysSound(t, e, w, d, l, p, 0, n + 1)
    BY <1>3, <1>6, <2>1, <2>2, SendNext
  <2> QED
    BY <1>1, <1>2, <1>3, <2>1, <2>3 DEF Sound
<1>7. Sound(k, s, u \cup {n + 1}, p, 0, n + 1)
  <2>1. k.eaten \cup (u \cup {n + 1}) = e \cup {n + 1} /\ k.eaten \cap (u \cup {n + 1}) = {}
    BY <1>1, <1>3, <1>4
  <2> QED
    BY <1>2, <1>5, <2>1 DEF Sound
<1>8. ASSUME NEW y, y.eaten = k.eaten \cup {n + 1}, y.twice = k.twice, y.lost = k.lost, y.late = k.late
      PROVE  Sound(y, s, u, p, 0, n + 1)
  <2>1. y.eaten \cup u = e \cup {n + 1} /\ y.eaten \cap u = {}
    BY <1>1, <1>3, <1>4, <1>8
  <2> QED
    BY <1>2, <1>5, <1>8, <2>1 DEF Sound
<1>9. ASSUME NEW y, y.lost = k.lost \cup {n + 1}, y.twice = k.twice, y.eaten = k.eaten, y.late = k.late
      PROVE  Sound(y, s, u, p, 0, n + 1)
  BY <1>1, <1>2, <1>3, <1>5, <1>9 DEF Sound
<1> QED
  BY <1>6, <1>7, <1>8, <1>9

\* A press no binding took.
LEMMA SendKeyKeeps ==
    ASSUME NEW a, a = [f \in KeyFields |-> a[f]], a.sent \in Seq(Entries), a.pending \in Seq(HeldKeys),
           a.cur = <<>>, AllLate(a, a.pending),
           NEW n \in Nat, a.n = n + 1, Sound(a, a.sent, a.mute, a.pending, 0, n),
           NEW key \in KeyKinds, a.key = key, a.char = TypesChar(key),
           a.asked <=> key # "plain" \/ a.kitty # 0
    PROVE  KeysGood(SendKey(a, key))
<1>1. PICK y : y = SendKey(a, key)
  OBVIOUS
<1>2. PICK t : t = Append(a.sent, ByPress(n + 1))
  OBVIOUS
<1>3. /\ t \in Seq(Entries) /\ Sound(a, t, a.mute, a.pending, 0, n + 1)
      /\ Sound(a, a.sent, a.mute \cup {n + 1}, a.pending, 0, n + 1)
      /\ \A z : (/\ z.eaten = a.eaten \cup {n + 1} /\ z.twice = a.twice
                 /\ z.lost = a.lost /\ z.late = a.late) => Sound(z, a.sent, a.mute, a.pending, 0, n + 1)
  <2>1. ByPress(n + 1) \in Entries /\ ByPress(n + 1).i = n + 1
    BY EntryOf
  <2> QED
    BY <1>2, <2>1, AnswerNext
<1>4. ~IsTyped(a.sent, n + 1) /\ n + 1 \notin a.lost
  BY SoundFresh
<1>5. ~IsTyped(t, n + 1)
  <2>1. PICK z \in Nat : z = Len(a.sent)
    OBVIOUS
  <2>2. Len(t) = z + 1 /\ t[z + 1].by = "press" /\ \A i \in 1..z : t[i] = a.sent[i]
    BY <1>2, <2>1, EntryOf, EntryAppended
  <2>3. \A i \in 1..(z + 1) : i \in 1..z \/ i = z + 1
    OBVIOUS
  <2>4. "press" # "char"
    OBVIOUS
  <2> QED
    BY <1>4, <2>1, <2>2, <2>3, <2>4 DEF IsTyped
<1>6. n + 1 \in Nat /\ (n + 1) - 1 = n /\ n + 1 # 0
  OBVIOUS
<1> DEFINE Same == {"cur", "pending", "n", "char", "asked", "key", "kitty", "twice", "lost", "late"}
<1>7. ASSUME y = [f \in KeyFields |-> y[f]], y.sent \in Seq(Entries), \A f \in Same : y[f] = a[f],
             ~IsTyped(y.sent, n + 1),
             (y = a /\ ~a.asked) \/ (a.asked /\ Sound(y, y.sent, y.mute, y.pending, 0, n + 1))
      PROVE  KeysGood(y)
  <2>1. /\ y.cur = <<>> /\ y.pending = a.pending /\ y.n = n + 1 /\ y.char = a.char /\ y.asked = a.asked
        /\ y.key = key /\ y.lost = a.lost /\ y.late = a.late
    BY <1>7
  <2>2. <<>> \in Seq(KeyKinds)
    OBVIOUS
  <2>3. KeysTyped(y)
    BY <1>6, <1>7, <2>1, <2>2 DEF KeysTyped
  <2>4. AllLate(y, y.pending)
    BY <2>1 DEF AllLate
  <2>5. Sound(y, y.sent, y.mute, y.pending, 0, Before(y))
    <3>1. CASE y = a /\ ~a.asked
      <4>1. InHand(y)
        BY <2>1, <3>1 DEF InHand, TypesChar
      <4> QED
        BY <1>6, <2>1, <3>1, <4>1 DEF Before
    <3>2. CASE a.asked /\ Sound(y, y.sent, y.mute, y.pending, 0, n + 1)
      <4>1. ~InHand(y)
        BY <2>1, <3>2 DEF InHand
      <4> QED
        BY <2>1, <3>2, <4>1 DEF Before
    <3> QED
      BY <1>7, <3>1, <3>2
  <2>6. y.key = "alt" => y.asked
    BY <2>1
  <2> QED
    BY <1>4, <1>6, <1>7, <2>1, <2>3, <2>4, <2>5, <2>6 DEF KeysGood
<1>8. CASE key = "escape" /\ a.selected
  <2>1. PICK e : e = a.eaten \cup {n + 1}
    OBVIOUS
  <2>2. y = [a EXCEPT !.selected = FALSE, !.eaten = e]
    BY <1>1, <1>8, <2>1, Zenon DEF SendKey
  <2>3. /\ y = [f \in KeyFields |-> y[f]] /\ y.sent = a.sent /\ y.mute = a.mute /\ y.eaten = e
        /\ \A f \in Same : y[f] = a[f]
    BY <2>2 DEF KeyFields
  <2>4. y.pending = a.pending /\ y.twice = a.twice /\ y.lost = a.lost /\ y.late = a.late
    BY <2>3
  <2>5. Sound(y, y.sent, y.mute, y.pending, 0, n + 1)
    BY <1>3, <2>1, <2>3, <2>4
  <2> QED
    BY <1>1, <1>4, <1>7, <1>8, <2>3, <2>5
<1>9. CASE ~(key = "escape" /\ a.selected) /\ key = "escape" /\ a.embedded
  <2>1. PICK e : e = a.eaten \cup {n + 1}
    OBVIOUS
  <2>2. y = [a EXCEPT !.embedded = FALSE, !.eaten = e]
    BY <1>1, <1>9, <2>1, Zenon DEF SendKey
  <2>3. /\ y = [f \in KeyFields |-> y[f]] /\ y.sent = a.sent /\ y.mute = a.mute /\ y.eaten = e
        /\ \A f \in Same : y[f] = a[f]
    BY <2>2 DEF KeyFields
  <2>4. y.pending = a.pending /\ y.twice = a.twice /\ y.lost = a.lost /\ y.late = a.late
    BY <2>3
  <2>5. Sound(y, y.sent, y.mute, y.pending, 0, n + 1)
    BY <1>3, <2>1, <2>3, <2>4
  <2> QED
    BY <1>1, <1>4, <1>7, <1>9, <2>3, <2>5
<1>10. CASE ~(key = "escape" /\ (a.selected \/ a.embedded)) /\ a.kitty = 0 /\ key = "plain"
  <2>1. y = a
    BY <1>1, <1>10, Zenon DEF SendKey
  <2> QED
    BY <1>1, <1>4, <1>7, <1>10, <2>1
<1>11. CASE ~(key = "escape" /\ (a.selected \/ a.embedded)) /\ ~(a.kitty = 0 /\ key = "plain")
  <2>1. y = KeyPressEvent(a, ByPress(n + 1), key)
    BY <1>1, <1>11, Zenon DEF SendKey
  <2>2. y = Sending(a, t, a.mute) \/ y = Sending(a, a.sent, a.mute \cup {n + 1})
    <3>1. PICK x : x = ByPress(n + 1)
      OBVIOUS
    <3>2. \/ KeyPressEvent(a, x, key) = Sending(a, Append(a.sent, x), a.mute)
          \/ KeyPressEvent(a, x, key) = Sending(a, a.sent, a.mute \cup {x.i})
      BY PressIs
    <3>3. x.i = n + 1
      BY <3>1 DEF ByPress
    <3> QED
      BY <1>2, <2>1, <3>1, <3>2, <3>3
  <2>3. PICK s, u : /\ y = Sending(a, s, u) /\ s \in Seq(Entries) /\ ~IsTyped(s, n + 1)
                    /\ Sound(a, s, u, a.pending, 0, n + 1)
    BY <1>3, <1>4, <1>5, <2>2
  <2>4. SendsOnly(y, a, s, u)
    BY <2>3, SendingOnly
  <2>5. Same \cup {"eaten"} \subseteq KeyFields \ {"sent", "mute"}
    BY DEF KeyFields
  <2>6. y.sent = s /\ y.mute = u /\ y.eaten = a.eaten /\ \A f \in Same : y[f] = a[f]
    BY <2>4, <2>5 DEF SendsOnly
  <2>7. y.pending = a.pending /\ y.twice = a.twice /\ y.lost = a.lost /\ y.late = a.late
    BY <2>6
  <2>8. Sound(y, y.sent, y.mute, y.pending, 0, n + 1)
    BY <2>3, <2>6, <2>7 DEF Sound
  <2>9. y = [f \in KeyFields |-> y[f]]
    BY <2>4 DEF SendsOnly
  <2> QED
    BY <1>1, <1>7, <1>11, <2>3, <2>6, <2>8, <2>9
<1> QED
  BY <1>8, <1>9, <1>10, <1>11

LEMMA OnKeyKeeps ==
    ASSUME NEW k0, KeysGood(k0), ~k0.char, NEW key \in KeyKinds
    PROVE  KeysGood(OnKey(k0, key))
<1>1. /\ k0 = [f \in KeyFields |-> k0[f]] /\ k0.n \in Nat /\ k0.cur \in Seq(KeyKinds)
      /\ k0.pending \in Seq(HeldKeys) /\ k0.sent \in Seq(Entries)
      /\ k0.cur = <<>> => AllLate(k0, k0.pending)
  BY DEF KeysGood, KeysTyped
<1>2. PICK n \in Nat : n = k0.n
  BY <1>1
<1>3. Sound(k0, k0.sent, k0.mute, k0.pending, 0, n)
  <2>1. ~InHand(k0)
    BY DEF InHand
  <2> QED
    BY <1>2, <2>1 DEF KeysGood, Before
<1>4. PICK c : c = TypesChar(key)
  OBVIOUS
<1>5. PICK asked : asked = Asked(k0, key)
  OBVIOUS
<1>6. PICK k : k = [k0 EXCEPT !.n = n + 1, !.char = c, !.key = key, !.asked = asked]
  OBVIOUS
<1>7. /\ k = [f \in KeyFields |-> k[f]] /\ k.n = n + 1 /\ k.char = c /\ k.key = key /\ k.asked = asked
      /\ \A f \in KeyFields \ {"n", "char", "key", "asked"} : k[f] = k0[f]
  BY <1>1, <1>6 DEF KeyFields
<1>8. /\ k.cur = k0.cur /\ k.pending = k0.pending /\ k.sent = k0.sent /\ k.eaten = k0.eaten
      /\ k.mute = k0.mute /\ k.twice = k0.twice /\ k.lost = k0.lost /\ k.late = k0.late
      /\ k.bound = k0.bound /\ k.kitty = k0.kitty
  BY <1>7 DEF KeyFields
<1>9. Sound(k, k.sent, k.mute, k.pending, 0, n) /\ (k.cur = <<>> => AllLate(k, k.pending))
  BY <1>1, <1>3, <1>8 DEF Sound, AllLate
<1>10. asked <=> key # "plain" \/ k.kitty # 0 \/ Completes(k, key) \/ Begins(k, key)
  <2>1. (Completes(k, key) <=> Completes(k0, key)) /\ (Begins(k, key) <=> Begins(k0, key))
    BY <1>8 DEF Completes, Begins, Stroke
  <2> QED
    BY <1>5, <1>8, <2>1 DEF Asked
<1>11. PICK y : y = OnKey(k0, key)
  OBVIOUS
<1>12. n + 1 \in Nat /\ n + 1 # 0 /\ ~IsTyped(k.sent, n + 1) /\ n + 1 \notin k.lost /\ n + 1 \notin k.mute
  <2>1. n + 1 \in Nat /\ n + 1 # 0
    OBVIOUS
  <2> QED
    BY <1>9, <2>1, SoundFresh
<1>13. ASSUME y = [f \in KeyFields |-> y[f]], y.n = n + 1, y.asked = asked, asked,
              y.sent = k.sent, y.lost = k.lost, y.late = k.late,
              y.cur \in Seq(KeyKinds), y.pending \in Seq(HeldKeys),
              Sound(y, y.sent, y.mute, y.pending, 0, n + 1),
              y.pending = <<>> \/ (y.timer /\ y.cur # <<>>)
       PROVE  KeysGood(y)
  <2>1. ~InHand(y)
    BY <1>13 DEF InHand
  <2>2. KeysTyped(y)
    BY <1>1, <1>8, <1>12, <1>13 DEF KeysTyped
  <2>3. Sound(y, y.sent, y.mute, y.pending, 0, Before(y))
    BY <1>13, <2>1 DEF Before
  <2>4. y.pending = <<>> => AllLate(y, y.pending)
    BY DEF AllLate
  <2> QED
    BY <1>12, <1>13, <2>1, <2>2, <2>3, <2>4 DEF KeysGood
<1>14. CASE Completes(k, key)
  <2>1. PICK f : f = k.eaten \cup {k.n} \cup Held(k)
    OBVIOUS
  <2>2. y = [k EXCEPT !.cur = <<>>, !.pending = <<>>, !.timer = FALSE, !.eaten = f]
    BY <1>2, <1>4, <1>5, <1>6, <1>11, <1>14, <2>1, Zenon DEF OnKey
  <2>3. /\ y = [g \in KeyFields |-> y[g]] /\ y.n = n + 1 /\ y.asked = asked
        /\ y.sent = k.sent /\ y.mute = k.mute /\ y.cur = <<>> /\ y.pending = <<>> /\ y.eaten = f
        /\ y.twice = k.twice /\ y.lost = k.lost /\ y.late = k.late
    BY <1>7, <2>2 DEF KeyFields
  <2>4. PICK p \in Seq(HeldKeys) : p = k.pending
    BY <1>1, <1>8
  <2>5. PICK e : e = k.eaten \cup k.mute
    OBVIOUS
  <2>6. /\ KeysSound(k.sent, e, k.twice, k.lost, k.late, p, 0, n) /\ k.eaten \cap k.mute = {}
        /\ k.sent \in Seq(Entries)
    BY <1>1, <1>8, <1>9, <2>4, <2>5 DEF Sound
  <2>7. PICK held : held = {p[j].i : j \in (0 + 1)..Len(p)}
    OBVIOUS
  <2>8. held = Held(k) /\ held \cap e = {}
    <3>1. (0 + 1)..Len(p) = 1..Len(p) /\ DOMAIN p = 1..Len(p) /\ \A j \in 1..Len(p) : 0 < j
      OBVIOUS
    <3>2. \A j \in 1..Len(p) : p[j].i \notin e
      BY <2>6, <3>1 DEF KeysSound, KeysApart
    <3> QED
      BY <2>4, <2>7, <3>1, <3>2 DEF Held
  <2>9. KeysSound(k.sent, e \cup held, k.twice, k.lost, k.late, <<>>, 0, n)
    <3>1. Len(p) \in 0..Len(p) /\ 0 \in Nat
      OBVIOUS
    <3>2. PICK g : g = e \cup held
      OBVIOUS
    <3>3. PICK w, d, l : w = k.twice /\ d = k.lost /\ l = k.late
      OBVIOUS
    <3>4. KeysSound(k.sent, g, w, d, l, p, Len(p), n)
      BY <2>6, <2>7, <3>1, <3>2, <3>3, EatSome
    <3> QED
      BY <3>2, <3>3, <3>4, NoneHeld
  <2>10. KeysSound(k.sent, (e \cup held) \cup {n + 1}, k.twice, k.lost, k.late, <<>>, 0, n + 1)
    <3>4. <<>> \in Seq(HeldKeys)
      OBVIOUS
    <3>1. PICK none \in Seq(HeldKeys) : none = <<>>
      BY <3>4
    <3>2. PICK g : g = e \cup held
      OBVIOUS
    <3>3. KeysSound(k.sent, g \cup {n + 1}, k.twice, k.lost, k.late, none, 0, n + 1)
      BY <2>6, <2>9, <3>1, <3>2, EatNext
    <3> QED
      BY <3>1, <3>2, <3>3
  <2>11. f \cup k.mute = (e \cup held) \cup {n + 1} /\ f \cap k.mute = {}
    BY <1>7, <1>12, <2>1, <2>5, <2>6, <2>8
  <2>12. Sound(y, y.sent, y.mute, y.pending, 0, n + 1)
    BY <2>3, <2>10, <2>11 DEF Sound
  <2>13. <<>> \in Seq(HeldKeys) /\ <<>> \in Seq(KeyKinds)
    OBVIOUS
  <2> QED
    BY <1>10, <1>11, <1>13, <1>14, <2>3, <2>12, <2>13
<1>15. CASE ~Completes(k, key) /\ Begins(k, key)
  <2>1. PICK q : q = Stroke(k, key)
    OBVIOUS
  <2>2. q \in Seq(KeyKinds) /\ q # <<>>
    <3>1. PICK d \in Seq(KeyKinds) : d = k.cur
      BY <1>1, <1>8
    <3>2. q = Append(d, key)
      BY <2>1, <3>1 DEF Stroke
    <3> QED
      BY <3>2
  <2>3. PICK x \in HeldKeys : x = [i |-> n + 1, key |-> key] /\ x.i = n + 1
    <3>1. [i |-> n + 1, key |-> key] \in HeldKeys
      BY <1>12 DEF HeldKeys
    <3> QED
      BY <3>1
  <2>4. PICK p : p = Append(k.pending, x)
    OBVIOUS
  <2>5. p \in Seq(HeldKeys) /\ Sound(k, k.sent, k.mute, p, 0, n + 1)
    <3>1. PICK r \in Seq(HeldKeys) : r = k.pending
      BY <1>1, <1>8
    <3>2. PICK e, w, d, l : e = k.eaten \cup k.mute /\ w = k.twice /\ d = k.lost /\ l = k.late
      OBVIOUS
    <3>3. KeysSound(k.sent, e, w, d, l, r, 0, n) /\ k.sent \in Seq(Entries) /\ k.eaten \cap k.mute = {}
      BY <1>1, <1>8, <1>9, <3>1, <3>2 DEF Sound
    <3>4. p \in Seq(HeldKeys) /\ KeysSound(k.sent, e, w, d, l, p, 0, n + 1)
      BY <2>3, <2>4, <3>1, <3>3, HoldOne
    <3> QED
      BY <3>2, <3>3, <3>4 DEF Sound
  <2>6. y = [k EXCEPT !.cur = q, !.timer = TRUE, !.pending = p]
    <3>1. [i |-> k.n, key |-> key] = x
      BY <1>7, <2>3
    <3> QED
      BY <1>2, <1>4, <1>5, <1>6, <1>11, <1>15, <2>1, <2>4, <3>1, Zenon DEF OnKey
  <2>7. /\ y = [g \in KeyFields |-> y[g]] /\ y.n = n + 1 /\ y.asked = asked
        /\ y.sent = k.sent /\ y.mute = k.mute /\ y.cur = q /\ y.pending = p /\ y.eaten = k.eaten
        /\ y.timer = TRUE /\ y.twice = k.twice /\ y.lost = k.lost /\ y.late = k.late
    BY <1>7, <2>6 DEF KeyFields
  <2>8. Sound(y, y.sent, y.mute, y.pending, 0, n + 1)
    BY <2>5, <2>7 DEF Sound
  <2> QED
    BY <1>10, <1>11, <1>13, <1>15, <2>2, <2>5, <2>7, <2>8
<1>16. CASE ~Completes(k, key) /\ ~Begins(k, key)
  <2>1. PICK a : a = AbortPrefix(k)
    OBVIOUS
  <2>2. y = SendKey(a, key)
    BY <1>2, <1>4, <1>5, <1>6, <1>11, <1>16, <2>1, Zenon DEF OnKey
  <2>3. PICK p \in Seq(HeldKeys), s \in Seq(Entries), u \in SUBSET Nat :
           a = Sending(Cleared(k, p), s, u) /\ Sound(k, s, u, p, 0, n) /\ AllLate(k, p)
    <3>1. k.sent \in Seq(Entries) /\ k.pending \in Seq(HeldKeys)
      BY <1>1, <1>8
    <3> QED
      BY <1>7, <1>9, <2>1, <3>1, AbortKeeps
  <2>4. PICK b : b = Cleared(k, p)
    OBVIOUS
  <2>5. /\ b = [f \in KeyFields |-> b[f]] /\ b.cur = <<>> /\ b.pending = p
        /\ \A f \in KeyFields \ {"cur", "timer", "pending"} : b[f] = k[f]
    BY <1>7, <2>4, ClearedIs
  <2>6. SendsOnly(a, b, s, u)
    BY <2>3, <2>4, <2>5, SendingOnly
  <2>7. /\ a = [f \in KeyFields |-> a[f]] /\ a.sent = s /\ a.mute = u /\ a.cur = <<>> /\ a.pending = p
        /\ a.n = n + 1 /\ a.char = c /\ a.key = key /\ a.asked = asked /\ a.kitty = k.kitty
        /\ a.eaten = k.eaten /\ a.twice = k.twice /\ a.lost = k.lost /\ a.late = k.late
    BY <1>7, <2>5, <2>6 DEF SendsOnly, KeyFields
  <2>8. Sound(a, a.sent, a.mute, a.pending, 0, n) /\ AllLate(a, a.pending)
    BY <2>3, <2>7 DEF Sound, AllLate
  <2>9. a.asked <=> key # "plain" \/ a.kitty # 0
    BY <1>10, <1>16, <2>7
  <2>10. KeysGood(SendKey(a, key))
    <3>1. a.sent \in Seq(Entries) /\ a.pending \in Seq(HeldKeys) /\ a.char = TypesChar(key)
      BY <1>4, <2>3, <2>7
    <3> QED
      BY <2>7, <2>8, <2>9, <3>1, SendKeyKeeps
  <2> QED
    BY <1>11, <2>2, <2>10
<1> QED
  BY <1>14, <1>15, <1>16

LEMMA OnCharKeeps ==
    ASSUME NEW k, KeysGood(k), k.char
    PROVE  KeysGood(OnChar(k))
<1>1. /\ k = [f \in KeyFields |-> k[f]] /\ k.n \in Nat /\ k.cur \in Seq(KeyKinds)
      /\ k.pending \in Seq(HeldKeys) /\ k.sent \in Seq(Entries)
      /\ (k.cur = <<>> => AllLate(k, k.pending)) /\ (~AllLate(k, k.pending) => k.timer)
      /\ k.n # 0 /\ k.n \notin k.lost /\ ~IsTyped(k.sent, k.n) /\ (k.key = "alt" => k.asked)
      /\ Sound(k, k.sent, k.mute, k.pending, 0, Before(k)) /\ (InHand(k) => k.cur = <<>>)
  BY DEF KeysGood, KeysTyped
<1>2. PICK n \in Nat : k.n = n + 1
  <2>1. k.n - 1 \in Nat /\ k.n = (k.n - 1) + 1
    BY <1>1
  <2> QED
    BY <2>1
<1>3. /\ k.asked => Sound(k, k.sent, k.mute, k.pending, 0, n + 1)
      /\ ~k.asked => (Sound(k, k.sent, k.mute, k.pending, 0, n) /\ AllLate(k, k.pending))
  <2>1. (InHand(k) <=> ~k.asked) /\ k.n = n + 1 /\ k.n - 1 = n
    BY <1>2 DEF InHand
  <2>2. Before(k) = IF k.asked THEN n + 1 ELSE n
    BY <2>1 DEF Before
  <2>3. ~k.asked => AllLate(k, k.pending)
    BY <1>1, <2>1
  <2> QED
    BY <1>1, <2>2, <2>3
<1>4. PICK y : y = OnChar(k)
  OBVIOUS
<1>5. ASSUME y = [f \in KeyFields |-> y[f]], y.sent \in Seq(Entries), y.char = FALSE,
             y.cur = k.cur, y.pending = k.pending, y.timer = k.timer, y.n = k.n, y.late = k.late,
             Sound(y, y.sent, y.mute, y.pending, 0, n + 1)
      PROVE  KeysGood(y)
  <2>1. KeysTyped(y) /\ ~InHand(y)
    BY <1>1, <1>5 DEF KeysTyped, InHand
  <2>2. Sound(y, y.sent, y.mute, y.pending, 0, Before(y))
    BY <1>2, <1>5, <2>1 DEF Before
  <2>3. AllLate(y, y.pending) <=> AllLate(k, k.pending)
    BY <1>5 DEF AllLate
  <2> QED
    BY <1>1, <1>5, <2>1, <2>2, <2>3 DEF KeysGood
<1>6. CASE k.kitty # 0 \/ k.key = "alt"
  <2>1. PICK c : c = IF k.asked THEN k.lost ELSE k.lost \cup {k.n}
    OBVIOUS
  <2>2. y = [k EXCEPT !.char = FALSE, !.asked = FALSE, !.lost = c]
    BY <1>1, <1>4, <1>6, <2>1 DEF OnChar, KeyFields
  <2>3. /\ y = [f \in KeyFields |-> y[f]] /\ y.sent = k.sent /\ y.char = FALSE /\ y.lost = c
        /\ y.cur = k.cur /\ y.pending = k.pending /\ y.timer = k.timer /\ y.n = k.n /\ y.late = k.late
        /\ y.mute = k.mute /\ y.eaten = k.eaten /\ y.twice = k.twice
    BY <1>1, <2>2 DEF KeyFields
  <2>4. Sound(y, y.sent, y.mute, y.pending, 0, n + 1)
    <3>1. CASE k.asked
      BY <1>3, <2>1, <2>3, <3>1 DEF Sound
    <3>2. CASE ~k.asked
      <4>1. y.lost = k.lost \cup {n + 1}
        BY <1>2, <2>1, <2>3, <3>2
      <4> QED
        BY <1>1, <1>3, <2>3, <3>2, <4>1, AnswerNext
    <3> QED
      BY <3>1, <3>2
  <2> QED
    BY <1>1, <1>4, <1>5, <2>3, <2>4
<1>7. CASE k.kitty = 0 /\ k.key # "alt"
  <2>1. PICK x : x = ByChar(n + 1)
    OBVIOUS
  <2>2. x \in Entries /\ x.i = n + 1
    BY <2>1, EntryOf
  <2>3. PICK t : t = Append(k.sent, x)
    OBVIOUS
  <2>4. PICK v : v = IF k.asked THEN k.twice \cup {k.n} ELSE k.twice
    OBVIOUS
  <2>5. y = [k EXCEPT !.char = FALSE, !.asked = FALSE, !.twice = v, !.sent = t]
    <3>1. PICK d : d = [k EXCEPT !.char = FALSE, !.asked = FALSE, !.twice = v]
      OBVIOUS
    <3>2. d.kitty = 0 /\ d.sent = k.sent
      BY <1>1, <1>7, <3>1 DEF KeyFields
    <3>3. y = KeyPressEvent(d, x, "plain")
      <4>1. PICK e : e = [k EXCEPT !.char = FALSE, !.asked = FALSE]
        OBVIOUS
      <4>2. e.twice = k.twice
        BY <1>1, <4>1 DEF KeyFields
      <4>3. d = [e EXCEPT !.twice = v]
        BY <3>1, <4>1
      <4>4. [e EXCEPT !.twice = IF k.asked THEN @ \cup {k.n} ELSE @] = [e EXCEPT !.twice = v]
        BY <2>4, <4>2
      <4> QED
        BY <1>2, <1>4, <1>7, <2>1, <4>1, <4>3, <4>4 DEF OnChar
    <3>4. KeyPressEvent(d, x, "plain") = [d EXCEPT !.sent = t]
      BY <2>3, <3>2 DEF KeyPressEvent, EncodesLegacy
    <3> QED
      BY <3>1, <3>3, <3>4
  <2>6. /\ y = [f \in KeyFields |-> y[f]] /\ y.sent = t /\ y.char = FALSE /\ y.lost = k.lost
        /\ y.cur = k.cur /\ y.pending = k.pending /\ y.timer = k.timer /\ y.n = k.n /\ y.late = k.late
        /\ y.mute = k.mute /\ y.eaten = k.eaten /\ y.twice = v
    BY <1>1, <2>5 DEF KeyFields
  <2>7. t \in Seq(Entries) /\ Sound(y, y.sent, y.mute, y.pending, 0, n + 1)
    <3>1. CASE k.asked
      <4>1. PICK h \in Nat : h = n + 1
        OBVIOUS
      <4>2. PICK e, w, d, l : e = k.eaten \cup k.mute /\ w = k.twice /\ d = k.lost /\ l = k.late
        OBVIOUS
      <4>3. KeysSound(k.sent, e, w, d, l, k.pending, 0, h) /\ k.eaten \cap k.mute = {}
        BY <1>3, <3>1, <4>1, <4>2 DEF Sound
      <4>4. h # 0 /\ ~IsTyped(k.sent, h) /\ h \notin d /\ t = Append(k.sent, ByChar(h))
        BY <1>1, <1>2, <2>1, <2>3, <4>1, <4>2
      <4>5. t \in Seq(Entries) /\ KeysSound(t, e, w \cup {h}, d, l, k.pending, 0, h)
        BY <1>1, <4>3, <4>4, TypeLast
      <4>6. y.twice = w \cup {h}
        BY <1>2, <2>4, <2>6, <3>1, <4>1, <4>2
      <4> QED
        BY <2>6, <4>1, <4>2, <4>3, <4>5, <4>6 DEF Sound
    <3>2. CASE ~k.asked
      <4>1. t \in Seq(Entries) /\ Sound(k, t, k.mute, k.pending, 0, n + 1)
        BY <1>1, <1>3, <2>2, <2>3, <3>2, AnswerNext
      <4>2. y.twice = k.twice
        BY <2>4, <2>6, <3>2
      <4> QED
        BY <2>6, <4>1, <4>2 DEF Sound
    <3> QED
      BY <3>1, <3>2
  <2> QED
    BY <1>1, <1>4, <1>5, <2>6, <2>7
<1> QED
  BY <1>6, <1>7

LEMMA TimeoutKeeps ==
    ASSUME NEW k, KeysGood(k), ~k.char
    PROVE  KeysGood(OnSequenceTimeout(k))
<1>1. /\ k = [f \in KeyFields |-> k[f]] /\ k.n \in Nat /\ k.pending \in Seq(HeldKeys)
      /\ k.sent \in Seq(Entries) /\ (k.cur = <<>> => AllLate(k, k.pending))
  BY DEF KeysGood, KeysTyped
<1>2. Sound(k, k.sent, k.mute, k.pending, 0, k.n)
  <2>1. ~InHand(k)
    BY DEF InHand
  <2> QED
    BY <2>1 DEF KeysGood, Before
<1>3. PICK s \in Seq(Entries), u \in SUBSET Nat :
         OnSequenceTimeout(k) = Sending(Cleared(k, <<>>), s, u) /\ Sound(k, s, u, <<>>, 0, k.n)
  BY <1>1, <1>2, AbortKeeps
<1>4. PICK b : b = Cleared(k, <<>>)
  OBVIOUS
<1>5. /\ b = [f \in KeyFields |-> b[f]] /\ b.cur = <<>> /\ b.pending = <<>>
      /\ \A f \in KeyFields \ {"cur", "timer", "pending"} : b[f] = k[f]
  BY <1>1, <1>4, ClearedIs
<1>6. PICK y : y = OnSequenceTimeout(k)
  OBVIOUS
<1>7. SendsOnly(y, b, s, u)
  BY <1>3, <1>4, <1>5, <1>6, SendingOnly
<1>8. /\ y = [f \in KeyFields |-> y[f]] /\ y.sent = s /\ y.mute = u /\ y.cur = <<>> /\ y.pending = <<>>
      /\ y.char = k.char /\ y.n = k.n
      /\ y.eaten = k.eaten /\ y.twice = k.twice /\ y.lost = k.lost /\ y.late = k.late
  BY <1>5, <1>7 DEF SendsOnly, KeyFields
<1>9. /\ <<>> \in Seq(HeldKeys) /\ <<>> \in Seq(KeyKinds) /\ AllLate(y, y.pending)
  BY <1>8 DEF AllLate
<1>10. KeysTyped(y) /\ ~InHand(y)
  BY <1>1, <1>3, <1>8, <1>9 DEF KeysTyped, InHand
<1>11. Sound(y, y.sent, y.mute, y.pending, 0, Before(y))
  BY <1>3, <1>8, <1>10 DEF Sound, Before
<1> QED
  BY <1>6, <1>8, <1>9, <1>10, <1>11 DEF KeysGood

\* The account does not depend on these.
LEMMA OtherFields ==
    ASSUME NEW k, KeysGood(k), NEW y, y = [f \in KeyFields |-> y[f]],
           \A f \in KeyFields \ {"bound", "kitty", "selected", "embedded"} : y[f] = k[f]
    PROVE  KeysGood(y)
<1>1. /\ y.cur = k.cur /\ y.pending = k.pending /\ y.timer = k.timer /\ y.char = k.char /\ y.asked = k.asked
      /\ y.key = k.key /\ y.n = k.n /\ y.sent = k.sent /\ y.eaten = k.eaten /\ y.mute = k.mute
      /\ y.twice = k.twice /\ y.lost = k.lost /\ y.late = k.late
  BY DEF KeyFields
<1>2. KeysTyped(y)
  BY <1>1 DEF KeysGood, KeysTyped
<1>3. (InHand(y) <=> InHand(k)) /\ Before(y) = Before(k) /\ (AllLate(y, y.pending) <=> AllLate(k, k.pending))
  BY <1>1 DEF InHand, Before, AllLate
<1>4. Sound(y, y.sent, y.mute, y.pending, 0, Before(y))
  BY <1>1, <1>3 DEF KeysGood, Sound
<1> QED
  BY <1>1, <1>2, <1>3, <1>4 DEF KeysGood

LEMMA SettingsKeep ==
    ASSUME NEW k, KeysGood(k)
    PROVE  /\ \A flags : KeysGood(SwitchProtocol(k, flags))
           /\ KeysGood([k EXCEPT !.selected = TRUE]) /\ KeysGood([k EXCEPT !.embedded = TRUE])
<1>1. k = [f \in KeyFields |-> k[f]]
  BY DEF KeysGood, KeysTyped
<1>2. ASSUME NEW flags PROVE KeysGood(SwitchProtocol(k, flags))
  <2>1. PICK y : y = [k EXCEPT !.kitty = flags]
    OBVIOUS
  <2>2. /\ y = [f \in KeyFields |-> y[f]]
        /\ \A f \in KeyFields \ {"bound", "kitty", "selected", "embedded"} : y[f] = k[f]
    BY <1>1, <2>1 DEF KeyFields
  <2> QED
    BY <2>1, <2>2, OtherFields DEF SwitchProtocol
<1>3. KeysGood([k EXCEPT !.selected = TRUE])
  <2>1. PICK y : y = [k EXCEPT !.selected = TRUE]
    OBVIOUS
  <2>2. /\ y = [f \in KeyFields |-> y[f]]
        /\ \A f \in KeyFields \ {"bound", "kitty", "selected", "embedded"} : y[f] = k[f]
    BY <1>1, <2>1 DEF KeyFields
  <2> QED
    BY <2>1, <2>2, OtherFields
<1>4. KeysGood([k EXCEPT !.embedded = TRUE])
  <2>1. PICK y : y = [k EXCEPT !.embedded = TRUE]
    OBVIOUS
  <2>2. /\ y = [f \in KeyFields |-> y[f]]
        /\ \A f \in KeyFields \ {"bound", "kitty", "selected", "embedded"} : y[f] = k[f]
    BY <1>1, <2>1 DEF KeyFields
  <2> QED
    BY <2>1, <2>2, OtherFields
<1> QED
  BY <1>2, <1>3, <1>4

\* A reload lets the matcher forget what is held back, which may come late from now.
LEMMA ReloadKeeps ==
    ASSUME NEW k, KeysGood(k), ~k.char, NEW map
    PROVE  KeysGood(ReloadKeys(k, map))
<1>1. /\ k = [f \in KeyFields |-> k[f]] /\ k.n \in Nat /\ k.pending \in Seq(HeldKeys)
      /\ k.sent \in Seq(Entries)
  BY DEF KeysGood, KeysTyped
<1>2. Sound(k, k.sent, k.mute, k.pending, 0, k.n)
  <2>1. ~InHand(k)
    BY DEF InHand
  <2> QED
    BY <2>1 DEF KeysGood, Before
<1>3. PICK l : l = k.late \cup Held(k)
  OBVIOUS
<1>4. PICK y : y = ReloadKeys(k, map)
  OBVIOUS
<1>5. y = [k EXCEPT !.bound = map, !.cur = <<>>, !.late = l]
  BY <1>1, <1>3, <1>4 DEF ReloadKeys, KeyFields
<1>6. /\ y = [f \in KeyFields |-> y[f]] /\ y.cur = <<>> /\ y.pending = k.pending /\ y.late = l
      /\ y.char = k.char /\ y.n = k.n /\ y.sent = k.sent /\ y.eaten = k.eaten /\ y.mute = k.mute
      /\ y.twice = k.twice /\ y.lost = k.lost
  BY <1>1, <1>5 DEF KeyFields
<1>7. AllLate(y, y.pending)
  <2>1. DOMAIN k.pending = 1..Len(k.pending)
    BY <1>1
  <2> QED
    BY <1>3, <1>6, <2>1 DEF AllLate, Held
<1>8. <<>> \in Seq(KeyKinds)
  OBVIOUS
<1>9. KeysTyped(y) /\ ~InHand(y)
  BY <1>1, <1>6, <1>8 DEF KeysTyped, InHand
<1>10. Sound(y, y.sent, y.mute, y.pending, 0, Before(y))
  <2>1. PICK e, w, d, h : e = k.eaten \cup k.mute /\ w = k.twice /\ d = k.lost /\ h = k.late
    OBVIOUS
  <2>2. KeysSound(k.sent, e, w, d, h, k.pending, 0, k.n) /\ k.eaten \cap k.mute = {}
    BY <1>2, <2>1 DEF Sound
  <2>3. KeysSound(k.sent, e, w, d, h \cup Held(k), k.pending, 0, k.n)
    BY <2>2, LaterThan
  <2>4. Sound(y, k.sent, k.mute, k.pending, 0, k.n)
    BY <1>3, <1>6, <2>1, <2>2, <2>3 DEF Sound
  <2>5. Before(y) = k.n
    BY <1>6, <1>9 DEF Before
  <2> QED
    BY <1>6, <2>4, <2>5
<1> QED
  BY <1>4, <1>6, <1>7, <1>9, <1>10 DEF KeysGood

LEMMA KeysStep == KeysInv /\ [Next]_vars => KeysInv'
<1> SUFFICES ASSUME KeysInv, [Next]_vars PROVE KeysGood(keys')
  BY DEF KeysInv
<1>1. KeysGood(keys)
  BY DEF KeysInv
<1>2. CASE KeyDown
  BY <1>1, <1>2, OnKeyKeeps DEF KeyDown, Presses
<1>3. CASE Character
  BY <1>1, <1>3, OnCharKeeps DEF Character, Follows
<1>4. CASE SequenceTimeout
  BY <1>1, <1>4, TimeoutKeeps DEF SequenceTimeout, Follows
<1>5. CASE ProtocolSwitched
  BY <1>1, <1>5, SettingsKeep DEF ProtocolSwitched, Presses
<1>6. CASE EscapeHasUse
  BY <1>1, <1>6, SettingsKeep DEF EscapeHasUse, Follows
<1>7. CASE SettingsReloaded
  BY <1>1, <1>7, ReloadKeeps DEF SettingsReloaded, Presses
<1>8. CASE UNCHANGED keys
  BY <1>1, <1>8
<1> QED
  BY <1>2, <1>3, <1>4, <1>5, <1>6, <1>7, <1>8, ScenesApart DEF Typing

\* The account of what was sent, seen as sets of presses.
KeysTold(s, e, u, w, d, l, n, typed, pressed, held, served) ==
    /\ IsInjective(s)
    /\ pressed \cap (e \cup u \cup held) = {} /\ (e \cup u) \cap held = {}
    /\ typed \cap served = w /\ typed \cup served = (1..n) \ d
    /\ \A i, j \in DOMAIN s :
          (i < j /\ ~(s[i].by = "char" /\ s[i].i \in w) /\ s[j].i \notin l) => s[i].i <= s[j].i
    /\ \A i \in DOMAIN s, g \in held \ l : (s[i].by = "char" /\ s[i].i \in w) \/ s[i].i < g
LEMMA KeysAccount ==
    ASSUME NEW s \in Seq(Entries), NEW e, NEW u, NEW w, NEW d, NEW l, NEW p \in Seq(HeldKeys), NEW n \in Nat,
           KeysSound(s, e \cup u, w, d, l, p, 0, n),
           NEW typed, typed = {s[i].i : i \in {j \in DOMAIN s : s[j].by = "char"}},
           NEW pressed, pressed = {s[i].i : i \in {j \in DOMAIN s : s[j].by = "press"}},
           NEW held, held = {p[i].i : i \in DOMAIN p},
           NEW served, served = pressed \cup e \cup u \cup held
    PROVE  KeysTold(s, e, u, w, d, l, n, typed, pressed, held, served)
<1>1. DOMAIN s = 1..Len(s) /\ DOMAIN p = 1..Len(p) /\ \A j \in 1..Len(p) : 0 < j
  OBVIOUS
<1>2. /\ \A g : g \in typed <=> IsTyped(s, g)
      /\ \A g : g \in pressed <=> \E i \in 1..Len(s) : s[i].i = g /\ s[i].by = "press"
      /\ \A g : g \in held <=> \E j \in 1..Len(p) : 0 < j /\ p[j].i = g
  BY <1>1 DEF IsTyped
<1>3. PICK f : f = e \cup u
  OBVIOUS
<1>4. KeysRanged(s, f, w, d, p, 0, n) /\ KeysInTurn(s, w, l, p, 0) /\ KeysApart(s, f, p, 0)
      /\ KeysExact(s, f, w, d, p, 0, n)
  BY <1>3 DEF KeysSound
<1>5. \A g : g \in served <=> Served(s, f, p, 0, g)
  BY <1>2, <1>3 DEF Served
<1>6. IsInjective(s)
  <2>1. ASSUME NEW i \in 1..Len(s), NEW j \in 1..Len(s), s[i] = s[j] PROVE ~(i < j)
    BY <1>4, <2>1 DEF KeysApart
  <2>2. \A i, j \in 1..Len(s) : i < j \/ j < i \/ i = j
    OBVIOUS
  <2>3. \A i, j \in DOMAIN s : s[i] = s[j] => i = j
    BY <1>1, <2>1, <2>2
  <2> QED
    BY <2>3 DEF IsInjective
<1>7. pressed \cap (e \cup u \cup held) = {} /\ (e \cup u) \cap held = {}
  <2>1. \A g \in pressed : g \notin f /\ g \notin held
    BY <1>2, <1>4 DEF KeysApart
  <2>2. \A g \in held : g \notin f
    BY <1>2, <1>4 DEF KeysApart
  <2> QED
    BY <1>3, <2>1, <2>2
<1>8. \A g : g \in typed \/ g \in served => g \in 1..n
  <2>1. \A g : IsTyped(s, g) => g \in 1..n
    BY <1>4 DEF KeysRanged, IsTyped
  <2>2. \A g : Served(s, f, p, 0, g) => g \in 1..n
    BY <1>4 DEF KeysRanged, Served
  <2> QED
    BY <1>2, <1>5, <2>1, <2>2
<1>9. \A g \in 1..n : /\ g \in w <=> g \in served /\ g \in typed
                      /\ g \in d <=> g \notin served /\ g \notin typed
  BY <1>2, <1>4, <1>5 DEF KeysExact
<1>10. w \subseteq 1..n
  BY <1>4 DEF KeysRanged
<1>11. typed \cap served = w /\ typed \cup served = (1..n) \ d
  BY <1>8, <1>9, <1>10
<1>12. \A i, j \in DOMAIN s :
          (i < j /\ ~(s[i].by = "char" /\ s[i].i \in w) /\ s[j].i \notin l) => s[i].i <= s[j].i
  BY <1>1, <1>4 DEF KeysInTurn, Copied
<1>13. \A i \in DOMAIN s, g \in held \ l : (s[i].by = "char" /\ s[i].i \in w) \/ s[i].i < g
  BY <1>1, <1>2, <1>4 DEF KeysInTurn, Copied
<1> QED
  BY <1>6, <1>7, <1>11, <1>12, <1>13 DEF KeysTold

\* KeysOnce: every press is answered once, by itself or by its character; exactly
\* those the window system's two events for one key double or lose are answered
\* twice or not at all; and all goes out in turn, or is held back with the timer
\* running, but for what a reload of the settings found held back.
THEOREM KeysArriveOnce == Spec => []KeysOnce
<1>1. Init => KeysInv
  <2> SUFFICES ASSUME Init PROVE KeysGood(keys)
    BY DEF KeysInv
  <2>1. PICK map : keys = KeysInit(map)
    BY DEF Init
  <2>2. /\ keys = [f \in KeyFields |-> keys[f]] /\ keys.n = 0 /\ keys.cur = <<>> /\ keys.pending = <<>>
        /\ keys.sent = <<>> /\ keys.eaten = {} /\ keys.mute = {} /\ keys.twice = {} /\ keys.lost = {}
        /\ keys.late = {} /\ keys.char = FALSE
    BY <2>1 DEF KeysInit, KeyFields
  <2>3. /\ <<>> \in Seq(HeldKeys) /\ <<>> \in Seq(KeyKinds) /\ <<>> \in Seq(Entries)
        /\ 1..Len(<<>>) = {} /\ 1..0 = {} /\ 0 \in Nat
    OBVIOUS
  <2>4. KeysTyped(keys) /\ ~InHand(keys)
    <3>1. keys.cur \in Seq(KeyKinds) /\ keys.pending \in Seq(HeldKeys) /\ keys.sent \in Seq(Entries)
          /\ keys.n \in Nat
      BY <2>2, <2>3
    <3> QED
      BY <2>2, <3>1 DEF KeysTyped, InHand
  <2>5. KeysSound(<<>>, {}, {}, {}, {}, <<>>, 0, 0)
    BY <2>3 DEF KeysSound, KeysRanged, KeysInTurn, KeysApart, KeysExact
  <2>6. Sound(keys, keys.sent, keys.mute, keys.pending, 0, Before(keys))
    <3>1. keys.eaten \cup keys.mute = {} /\ keys.eaten \cap keys.mute = {} /\ Before(keys) = 0
      BY <2>2, <2>4 DEF Before
    <3> QED
      BY <2>2, <2>5, <3>1 DEF Sound
  <2>7. AllLate(keys, keys.pending)
    BY <2>2, <2>3 DEF AllLate
  <2> QED
    BY <2>2, <2>4, <2>6, <2>7 DEF KeysGood
<1>2. KeysInv => KeysOnce
  <2> SUFFICES ASSUME KeysInv, ~keys.char PROVE KeysOnce
    BY DEF KeysOnce
  <2>1. /\ keys.pending \in Seq(HeldKeys) /\ keys.sent \in Seq(Entries) /\ keys.n \in Nat
        /\ (~AllLate(keys, keys.pending) => keys.timer)
    BY DEF KeysInv, KeysGood, KeysTyped
  <2>2. Sound(keys, keys.sent, keys.mute, keys.pending, 0, keys.n)
    <3>1. ~InHand(keys)
      BY DEF InHand
    <3> QED
      BY <3>1 DEF KeysInv, KeysGood, Before
  <2>3. PICK s \in Seq(Entries) : s = keys.sent
    BY <2>1
  <2>4. PICK p \in Seq(HeldKeys) : p = keys.pending
    BY <2>1
  <2>5. PICK e, u, w, d, l : e = keys.eaten /\ u = keys.mute /\ w = keys.twice /\ d = keys.lost /\ l = keys.late
    OBVIOUS
  <2>6. PICK n \in Nat : n = keys.n
    BY <2>1
  <2>7. KeysSound(s, e \cup u, w, d, l, p, 0, n) /\ e \cap u = {}
    BY <2>2, <2>3, <2>4, <2>5, <2>6 DEF Sound
  <2>8. PICK typed : typed = {s[i].i : i \in {j \in DOMAIN s : s[j].by = "char"}}
    OBVIOUS
  <2>9. PICK pressed : pressed = {s[i].i : i \in {j \in DOMAIN s : s[j].by = "press"}}
    OBVIOUS
  <2>10. PICK held : held = {p[i].i : i \in DOMAIN p}
    OBVIOUS
  <2>11. PICK served : served = pressed \cup e \cup u \cup held
    OBVIOUS
  <2>16. KeysTold(s, e, u, w, d, l, n, typed, pressed, held, served)
    BY <2>7, <2>8, <2>9, <2>10, <2>11, KeysAccount
  <2>12. /\ IsInjective(s)
         /\ pressed \cap (e \cup u \cup held) = {} /\ (e \cup u) \cap held = {}
         /\ typed \cap served = w /\ typed \cup served = (1..n) \ d
         /\ \A i, j \in DOMAIN s :
               (i < j /\ ~(s[i].by = "char" /\ s[i].i \in w) /\ s[j].i \notin l) => s[i].i <= s[j].i
         /\ \A i \in DOMAIN s, g \in held \ l : (s[i].by = "char" /\ s[i].i \in w) \/ s[i].i < g
    BY <2>16 DEF KeysTold
  <2>13. e \cap (u \cup held) = {} /\ u \cap held = {}
    BY <2>7, <2>12
  <2>14. (held \ l # {}) => keys.timer
    <3>1. ASSUME AllLate(keys, keys.pending) PROVE held \ l = {}
      <4>1. DOMAIN p = 1..Len(p)
        OBVIOUS
      <4> QED
        BY <2>4, <2>5, <2>10, <3>1, <4>1 DEF AllLate
    <3> QED
      BY <2>1, <3>1
  <2>15. held = Held(keys)
    BY <2>4, <2>10 DEF Held
  <2> QED
    BY <2>3, <2>5, <2>6, <2>8, <2>9, <2>11, <2>12, <2>13, <2>14, <2>15 DEF KeysOnce
<1> QED
  BY <1>1, <1>2, KeysStep, PTL DEF Spec

-----------------------------------------------------------------------------
(* What the shell tells.  The ids of the document's lines are numbers in a *)
(* row, l the first of them and n the next to give.                        *)

Records == [id : Nat, prompt : Nat, input : Nat, out : Nat, end : Nat, endCol : Nat,
            done : BOOLEAN, cwd : Nat]
LinesSound(ids, n, y) ==
    /\ ids \in Seq(Nat) /\ n \in Nat /\ y \in 0..(ShellRows - 1)
    /\ ShellRows <= Len(ids) /\ Len(ids) < n /\ Numbered(ids, n - 1 - Len(ids))

\* The commands' ids ascend to the last that was given, all but the last have
\* ended, and those that have are reported; they began and ended on lines.
RingSound(r, d, m, n) ==
    /\ r \in Seq(Records) /\ d \in Seq(Nat) /\ m \in Nat \ {0} /\ n \in Nat
    /\ \A i, j \in 1..Len(r) : i < j => r[i].id < r[j].id
    /\ \A i \in 1..Len(r) : 0 < r[i].id /\ r[i].id < m
    /\ r # <<>> => r[Len(r)].id = m - 1
    /\ \A i, j \in 1..Len(d) : i < j => d[i] < d[j]
    /\ \A i \in 1..Len(d) : d[i] < m
    /\ \A i \in 1..Len(r) : i < Len(r) => r[i].done = TRUE
    /\ \A i \in 1..Len(r) : r[i].done = TRUE => \E k \in 1..Len(d) : d[k] = r[i].id
    /\ \A i \in 1..Len(r) : r[i].done # TRUE => \A k \in 1..Len(d) : d[k] # r[i].id
    /\ \A i \in 1..Len(r) : /\ 0 < r[i].prompt /\ r[i].prompt < n
                            /\ r[i].done = TRUE => 0 < r[i].end /\ r[i].end < n

AllEnded(r) == \A i \in 1..Len(r) : r[i].done = TRUE

\* The pieces of a notification came since the last that was shown.
NoteSound(t, s, k) ==
    /\ t = [f \in {"id", "title", "body", "buttons", "urgency"} |-> t[f]]
    /\ k \in Nat /\ s \in 0..k
    /\ t.title = None \/ t.title \in (s + 1)..k
    /\ t.body = None \/ t.body \in (s + 1)..k
    /\ t.buttons \in Seq((s + 1)..k)

\* Between two batches the first command's prompt is on a line that is kept.
Pruned(r, ids, sel) ==
    /\ r # <<>> => ids[1] <= r[1].prompt
    /\ sel = None \/ \E i \in 1..Len(r) : r[i].id = sel

ShellFields == {"ids", "nextLine", "y", "x", "alt", "view", "ring", "next", "going", "sel", "cwd",
                "batch", "done", "note", "since", "carried"}
ShellSound(c, k) ==
    /\ c = [f \in ShellFields |-> c[f]]
    /\ c.x \in Nat /\ c.cwd \in Nat /\ c.going \in BOOLEAN
    /\ LinesSound(c.ids, c.nextLine, c.y)
    /\ RingSound(c.ring, c.done, c.next, c.nextLine)
    /\ c.going = FALSE => AllEnded(c.ring)
    /\ NoteSound(c.note, c.since, k)
    /\ c.carried = FALSE
ShellGood(c, k) == ShellSound(c, k) /\ (c.batch = FALSE => Pruned(c.ring, c.ids, c.sel))
\* The inductive invariant of this scene.
ShellInv == ShellGood(shell, spent)

LEMMA FirstOf ==
    ASSUME NEW n \in Nat, NEW S \in SUBSET (1..n), S # {}
    PROVE  Min(S) \in S /\ \A i \in S : Min(S) <= i
<1>1. S \in SUBSET Nat
  OBVIOUS
<1>2. \E x \in S : \A y \in S : x <= y
  BY <1>1, Smallest
<1> QED
  BY <1>2 DEF Min

LEMMA TailFacts ==
    ASSUME NEW w \in Seq(Nat), NEW l \in Nat, Len(w) = l + 1
    PROVE  /\ Tail(w) \in Seq(Nat) /\ Len(Tail(w)) = l
           /\ \A i \in 1..l : Tail(w)[i] = w[i + 1]
  OBVIOUS

LEMMA LinesGrow ==
    ASSUME NEW ids, NEW n, NEW y, LinesSound(ids, n, y), NEW more, more = Append(ids, n)
    PROVE  LinesSound(more, n + 1, y) /\ LinesSound(Tail(more), n + 1, y)
<1>1. /\ ids \in Seq(Nat) /\ n \in Nat /\ y \in 0..(ShellRows - 1) /\ ShellRows <= Len(ids) /\ Len(ids) < n
      /\ ShellRows \in Nat \ {0}
  BY ShellAssumption DEF LinesSound
<1>2. PICK l \in Nat : l = Len(ids)
  BY <1>1
<1>3. \A i \in 1..l : ids[i] = n - 1 - l + i
  BY <1>2 DEF LinesSound, Numbered
<1>4. more \in Seq(Nat) /\ Len(more) = l + 1 /\ more[l + 1] = n /\ \A i \in 1..l : more[i] = ids[i]
  BY <1>1, <1>2
<1>5. \A i \in 1..(l + 1) : i \in 1..l \/ i = l + 1
  BY <1>2
<1>6. ASSUME NEW i \in 1..(l + 1) PROVE more[i] = n - 1 - l + i
  <2>1. CASE i \in 1..l
    BY <1>3, <1>4, <2>1
  <2>2. CASE i = l + 1
    BY <1>1, <1>2, <1>4, <2>2
  <2> QED
    BY <1>5, <2>1, <2>2
<1>7. PICK t : t = Tail(more)
  OBVIOUS
<1>8. t \in Seq(Nat) /\ Len(t) = l /\ \A i \in 1..l : t[i] = more[i + 1]
  BY <1>2, <1>4, <1>7, TailFacts
<1>9. \A i \in 1..l : i + 1 \in 1..(l + 1) /\ n - 1 - l + (i + 1) = (n + 1) - 1 - l + i
  BY <1>1, <1>2
<1>10. \A i \in 1..l : t[i] = (n + 1) - 1 - l + i
  BY <1>6, <1>8, <1>9
<1>11. (n + 1) - 1 - (l + 1) = n - 1 - l /\ n + 1 \in Nat /\ l < n + 1 /\ l + 1 < n + 1 /\ ShellRows <= l + 1
  BY <1>1, <1>2
<1>12. LinesSound(more, n + 1, y)
  BY <1>1, <1>4, <1>6, <1>11 DEF LinesSound, Numbered
<1>13. LinesSound(t, n + 1, y)
  BY <1>1, <1>2, <1>8, <1>10, <1>11 DEF LinesSound, Numbered
<1> QED
  BY <1>7, <1>12, <1>13

LEMMA LineIs ==
    ASSUME NEW ids, NEW n, NEW y, LinesSound(ids, n, y), NEW i \in 1..Len(ids)
    PROVE  ids[i] \in Nat /\ 0 < ids[i] /\ ids[i] < n
<1>1. /\ ids \in Seq(Nat) /\ n \in Nat /\ Len(ids) < n /\ ids[i] = n - 1 - Len(ids) + i
  BY DEF LinesSound, Numbered
<1>2. PICK l \in Nat : l = Len(ids)
  BY <1>1
<1> QED
  BY <1>1, <1>2

\* A record is written to; and it may be ended.
LEMMA RecordWritten ==
    ASSUME NEW r, NEW d, NEW m, NEW n, RingSound(r, d, m, n), NEW l \in 1..Len(r), r[l].done = FALSE,
           NEW x \in Records, x.id = r[l].id, x.done = FALSE, 0 < x.prompt, x.prompt < n,
           NEW q, q = [r EXCEPT ![l] = x]
    PROVE  RingSound(q, d, m, n)
<1>1. r \in Seq(Records) /\ d \in Seq(Nat) /\ m \in Nat \ {0} /\ n \in Nat
  BY DEF RingSound
<1>2. PICK k \in Nat : k = Len(r)
  BY <1>1
<1>3. q \in Seq(Records) /\ Len(q) = k /\ q[l] = x /\ \A i \in 1..k : i # l => q[i] = r[i]
  BY <1>1, <1>2
<1>4. \A i \in 1..k : q[i].id = r[i].id /\ (q[i].done = r[i].done)
  BY <1>3
<1>5. \A i, j \in 1..k : i < j => q[i].id < q[j].id
  BY <1>2, <1>4 DEF RingSound
<1>6. \A i \in 1..k : 0 < q[i].id /\ q[i].id < m
  BY <1>2, <1>4 DEF RingSound
<1>7. q # <<>> => q[k].id = m - 1
  <2>1. q # <<>> => k \in 1..k
    BY <1>2, <1>3
  <2>2. r # <<>>
    BY <1>1
  <2> QED
    BY <1>2, <1>4, <2>1, <2>2 DEF RingSound
<1>8. \A i \in 1..k : i < k => q[i].done = TRUE
  BY <1>2, <1>4, Zenon DEF RingSound
<1>9. /\ \A i \in 1..k : q[i].done = TRUE => \E h \in 1..Len(d) : d[h] = q[i].id
      /\ \A i \in 1..k : q[i].done # TRUE => \A h \in 1..Len(d) : d[h] # q[i].id
  <2> SUFFICES ASSUME NEW i \in 1..k
               PROVE  /\ q[i].done = TRUE => \E h \in 1..Len(d) : d[h] = q[i].id
                      /\ q[i].done # TRUE => \A h \in 1..Len(d) : d[h] # q[i].id
    OBVIOUS
  <2>1. /\ r[i].done = TRUE => \E h \in 1..Len(d) : d[h] = r[i].id
        /\ r[i].done # TRUE => \A h \in 1..Len(d) : d[h] # r[i].id
    BY <1>2 DEF RingSound
  <2>2. q[i].id = r[i].id /\ q[i].done = r[i].done
    BY <1>4, Zenon
  <2> QED
    BY <2>1, <2>2, Zenon
<1>10. ASSUME NEW i \in 1..k
       PROVE  0 < q[i].prompt /\ q[i].prompt < n /\ (q[i].done = TRUE => 0 < q[i].end /\ q[i].end < n)
  <2>1. CASE i = l
    BY <1>3, <2>1
  <2>2. CASE i # l
    BY <1>2, <1>3, <2>2 DEF RingSound
  <2> QED
    BY <2>1, <2>2
<1>11. /\ \A i, j \in 1..Len(d) : i < j => d[i] < d[j]
       /\ \A i \in 1..Len(d) : d[i] < m
  BY DEF RingSound
<1> QED
  BY <1>1, <1>3, <1>5, <1>6, <1>7, <1>8, <1>9, <1>10, <1>11 DEF RingSound

LEMMA RecordEnded ==
    ASSUME NEW r, NEW d, NEW m, NEW n, RingSound(r, d, m, n), NEW l, l = Len(r), l # 0, r[l].done = FALSE,
           NEW x \in Records, x.id = r[l].id, x.prompt = r[l].prompt, x.done = TRUE,
           0 < x.end, x.end < n, NEW q, q = [r EXCEPT ![l] = x], NEW e, e = Append(d, r[l].id)
    PROVE  RingSound(q, e, m, n) /\ AllEnded(q)
<1>1. r \in Seq(Records) /\ d \in Seq(Nat) /\ m \in Nat \ {0} /\ n \in Nat
  BY DEF RingSound
<1>2. l \in Nat /\ l \in 1..l /\ r # <<>>
  BY <1>1
<1>3. q \in Seq(Records) /\ Len(q) = l /\ q[l] = x /\ \A i \in 1..l : i # l => q[i] = r[i]
  BY <1>1, <1>2
<1>4. \A i \in 1..l : q[i].id = r[i].id
  BY <1>3
<1>5. r[l].id = m - 1 /\ r[l].id \in Nat
  BY <1>1, <1>2 DEF RingSound
<1>6. PICK k \in Nat : k = Len(d)
  BY <1>1
<1>7. e \in Seq(Nat) /\ Len(e) = k + 1 /\ e[k + 1] = m - 1 /\ \A i \in 1..k : e[i] = d[i]
  BY <1>1, <1>5, <1>6
<1>8. \A i \in 1..(k + 1) : i \in 1..k \/ i = k + 1
  BY <1>6
<1>9. \A i \in 1..k : d[i] < m - 1
  <2>1. \A i \in 1..k : d[i] \in Nat /\ d[i] < m /\ d[i] # m - 1
    <3>1. r[l].done # TRUE
      OBVIOUS
    <3>2. \A i \in 1..k : d[i] # r[l].id /\ d[i] < m
      BY <1>2, <1>6, <3>1 DEF RingSound
    <3> QED
      BY <1>1, <1>5, <1>6, <3>2
  <2>2. ASSUME NEW i \in 1..k PROVE d[i] < m - 1
    <3>1. PICK a \in Nat : a = d[i]
      BY <2>1
    <3>2. a < m /\ a # m - 1
      BY <2>1, <3>1
    <3> QED
      BY <1>1, <3>1, <3>2
  <2> QED
    BY <2>2
<1>10. \A i, j \in 1..(k + 1) : i < j => e[i] < e[j]
  <2> SUFFICES ASSUME NEW i \in 1..(k + 1), NEW j \in 1..(k + 1), i < j PROVE e[i] < e[j]
    OBVIOUS
  <2>1. i \in 1..k
    BY <1>6
  <2>2. CASE j \in 1..k
    BY <1>6, <1>7, <2>1, <2>2 DEF RingSound
  <2>3. CASE j = k + 1
    BY <1>7, <1>9, <2>1, <2>3
  <2> QED
    BY <1>8, <2>2, <2>3
<1>11. \A i \in 1..(k + 1) : e[i] < m
  <2>1. m - 1 < m
    BY <1>1
  <2> QED
    BY <1>6, <1>7, <1>8, <2>1 DEF RingSound
<1>12. \A i \in 1..l : q[i].done = TRUE
  <2>1. \A i \in 1..l : i < l \/ i = l
    BY <1>2
  <2>2. \A i \in 1..l : i < l => q[i].done = TRUE
    BY <1>2, <1>3 DEF RingSound
  <2> QED
    BY <1>3, <2>1, <2>2
<1>13. ASSUME NEW i \in 1..l PROVE \E h \in 1..(k + 1) : e[h] = q[i].id
  <2>1. CASE i = l
    <3>1. k + 1 \in 1..(k + 1)
      BY <1>6
    <3> QED
      BY <1>4, <1>5, <1>7, <2>1, <3>1
  <2>2. CASE i < l
    <3>1. PICK h \in 1..Len(d) : d[h] = r[i].id
      BY <2>2 DEF RingSound
    <3>2. h \in 1..k /\ h \in 1..(k + 1)
      BY <1>6
    <3> QED
      BY <1>4, <1>7, <3>1, <3>2
  <2>3. i = l \/ i < l
    BY <1>2
  <2> QED
    BY <2>1, <2>2, <2>3
<1>14. ASSUME NEW i \in 1..l
       PROVE  0 < q[i].prompt /\ q[i].prompt < n /\ 0 < q[i].end /\ q[i].end < n
  <2>1. CASE i = l
    BY <1>2, <1>3, <2>1 DEF RingSound
  <2>2. CASE i # l
    <3>1. i < l
      BY <1>2, <2>2
    <3> QED
      BY <1>2, <1>3, <2>2, <3>1 DEF RingSound
  <2> QED
    BY <2>1, <2>2
<1>15. /\ \A i, j \in 1..l : i < j => q[i].id < q[j].id
       /\ \A i \in 1..l : 0 < q[i].id /\ q[i].id < m
       /\ q[l].id = m - 1
  BY <1>2, <1>4, <1>5 DEF RingSound
<1>17. AllEnded(q)
  BY <1>3, <1>12 DEF AllEnded
<1>18. RingSound(q, e, m, n)
  <2>1. q # <<>> => q[Len(q)].id = m - 1
    BY <1>3, <1>15
  <2>2. Len(q) = l /\ Len(e) = k + 1
    BY <1>3, <1>7
  <2>3. /\ \A i, j \in 1..Len(q) : i < j => q[i].id < q[j].id
        /\ \A i \in 1..Len(q) : 0 < q[i].id /\ q[i].id < m
    BY <1>15, <2>2
  <2>4. /\ \A i, j \in 1..Len(e) : i < j => e[i] < e[j]
        /\ \A i \in 1..Len(e) : e[i] < m
    BY <1>10, <1>11, <2>2
  <2>5. \A i \in 1..Len(q) : i < Len(q) => q[i].done = TRUE
    BY <1>12, <2>2, Zenon
  <2>6. \A i \in 1..Len(q) : q[i].done = TRUE => \E h \in 1..Len(e) : e[h] = q[i].id
    BY <1>13, <2>2, Zenon
  <2>7. \A i \in 1..Len(q) : q[i].done # TRUE => \A h \in 1..Len(e) : e[h] # q[i].id
    BY <1>12, <2>2, Zenon
  <2>8. \A i \in 1..Len(q) : /\ 0 < q[i].prompt /\ q[i].prompt < n
                             /\ q[i].done = TRUE => 0 < q[i].end /\ q[i].end < n
    BY <1>14, <2>2, Zenon
  <2>9. q \in Seq(Records) /\ e \in Seq(Nat) /\ m \in Nat \ {0} /\ n \in Nat
    BY <1>1, <1>3, <1>7
  <2> QED
    BY <2>1, <2>3, <2>4, <2>5, <2>6, <2>7, <2>8, <2>9, Zenon DEF RingSound
<1> QED
  BY <1>17, <1>18

LEMMA RecordBegun ==
    ASSUME NEW r, NEW d, NEW m, NEW n, RingSound(r, d, m, n), AllEnded(r),
           NEW x \in Records, x.id = m, x.done = FALSE, 0 < x.prompt, x.prompt < n,
           NEW q, q = Append(r, x)
    PROVE  RingSound(q, d, m + 1, n)
<1>1. r \in Seq(Records) /\ d \in Seq(Nat) /\ m \in Nat \ {0} /\ n \in Nat
  BY DEF RingSound
<1>2. PICK l \in Nat : l = Len(r)
  BY <1>1
<1>3. q \in Seq(Records) /\ Len(q) = l + 1 /\ q[l + 1] = x /\ \A i \in 1..l : q[i] = r[i]
  BY <1>1, <1>2
<1>4. \A i \in 1..Len(q) : i \in 1..l \/ i = l + 1
  BY <1>2, <1>3
<1>5. \A i \in 1..l : q[i].id = r[i].id /\ 0 < r[i].id /\ r[i].id < m /\ r[i].id \in Nat
  <2>1. \A i \in 1..l : r[i] \in Records
    BY <1>1, <1>2
  <2>2. \A i \in 1..l : r[i].id \in Nat
    BY <2>1 DEF Records
  <2> QED
    BY <1>2, <1>3, <2>2 DEF RingSound
<1>6. ASSUME NEW i \in 1..Len(q), NEW j \in 1..Len(q), i < j PROVE q[i].id < q[j].id
  <2>1. i \in 1..l
    BY <1>2, <1>3, <1>6
  <2>2. CASE j \in 1..l
    BY <1>2, <1>5, <1>6, <2>1, <2>2 DEF RingSound
  <2>3. CASE j = l + 1
    BY <1>3, <1>5, <2>1, <2>3
  <2> QED
    BY <1>4, <2>2, <2>3
<1>7. ASSUME NEW i \in 1..Len(q) PROVE 0 < q[i].id /\ q[i].id < m + 1
  <2>1. CASE i \in 1..l
    BY <1>1, <1>5, <2>1
  <2>2. CASE i = l + 1
    BY <1>1, <1>3, <2>2
  <2> QED
    BY <1>4, <2>1, <2>2
<1>8. q[Len(q)].id = (m + 1) - 1
  BY <1>1, <1>3
<1>9. /\ \A i, j \in 1..Len(d) : i < j => d[i] < d[j]
      /\ \A i \in 1..Len(d) : d[i] < m + 1
  <2>1. \A i \in 1..Len(d) : d[i] \in Nat /\ d[i] < m
    BY <1>1 DEF RingSound
  <2> QED
    BY <1>1, <2>1 DEF RingSound
<1>10. \A i \in 1..l : q[i].done = TRUE
  BY <1>2, <1>3 DEF AllEnded
<1>11. \A i \in 1..Len(q) : i < Len(q) => q[i].done = TRUE
  <2>1. \A i \in 1..Len(q) : i < Len(q) => i \in 1..l
    BY <1>2, <1>3
  <2> QED
    BY <1>10, <2>1, Zenon
<1>12. ASSUME NEW i \in 1..Len(q)
       PROVE  /\ q[i].done = TRUE => \E h \in 1..Len(d) : d[h] = q[i].id
              /\ q[i].done # TRUE => \A h \in 1..Len(d) : d[h] # q[i].id
  <2>1. CASE i \in 1..l
    <3>1. r[i].done = TRUE => \E h \in 1..Len(d) : d[h] = r[i].id
      BY <1>2, <2>1 DEF RingSound
    <3>2. q[i] = r[i] /\ q[i].done = TRUE
      BY <1>3, <1>10, <2>1
    <3> QED
      BY <3>1, <3>2, Zenon
  <2>2. CASE i = l + 1
    <3>1. q[i].done = FALSE /\ q[i].id = m
      BY <1>3, <2>2
    <3>2. \A h \in 1..Len(d) : d[h] # m
      <4>1. \A h \in 1..Len(d) : d[h] \in Nat /\ d[h] < m
        BY <1>1 DEF RingSound
      <4> QED
        BY <1>1, <4>1
    <3> QED
      BY <3>1, <3>2
  <2> QED
    BY <1>4, <2>1, <2>2
<1>13. ASSUME NEW i \in 1..Len(q)
       PROVE  0 < q[i].prompt /\ q[i].prompt < n /\ (q[i].done = TRUE => 0 < q[i].end /\ q[i].end < n)
  <2>1. CASE i \in 1..l
    BY <1>2, <1>3, <2>1 DEF RingSound
  <2>2. CASE i = l + 1
    BY <1>3, <2>2
  <2> QED
    BY <1>4, <2>1, <2>2
<1>14. q \in Seq(Records) /\ d \in Seq(Nat) /\ m + 1 \in Nat \ {0} /\ n \in Nat
  BY <1>1, <1>3
<1> QED
  BY <1>6, <1>7, <1>8, <1>9, <1>11, <1>12, <1>13, <1>14, Zenon DEF RingSound

LEMMA RecordsDropped ==
    ASSUME NEW r, NEW d, NEW m, NEW n, RingSound(r, d, m, n), NEW k \in 1..(Len(r) + 1),
           NEW q, q = SubSeq(r, k, Len(r))
    PROVE  /\ RingSound(q, d, m, n) /\ (AllEnded(r) => AllEnded(q))
           /\ Len(q) = Len(r) - k + 1 /\ \A i \in 1..Len(q) : q[i] = r[k + i - 1]
<1>1. r \in Seq(Records) /\ d \in Seq(Nat) /\ m \in Nat \ {0} /\ n \in Nat
  BY DEF RingSound
<1>2. PICK l \in Nat : l = Len(r)
  BY <1>1
<1>3. q \in Seq(Records) /\ Len(q) = l - k + 1 /\ \A i \in 1..(l - k + 1) : q[i] = r[k + i - 1]
  <2>1. l \in (k - 1)..l /\ l = Len(r)
    BY <1>2
  <2>2. PICK h \in (k - 1)..Len(r) : h = l
    BY <1>2, <2>1
  <2>3. /\ SubSeq(r, k, h) \in Seq(Records) /\ Len(SubSeq(r, k, h)) = h - k + 1
        /\ \A i \in 1..(h - k + 1) : SubSeq(r, k, h)[i] = r[k + i - 1]
    BY <1>1, SubSeqFacts
  <2> QED
    BY <1>2, <2>2, <2>3
<1>4. ASSUME NEW i \in 1..Len(q)
      PROVE  k + i - 1 \in 1..Len(r) /\ q[i] = r[k + i - 1] /\ (i < Len(q) => k + i - 1 < Len(r))
  BY <1>2, <1>3
<1>5. ASSUME NEW i \in 1..Len(q), NEW j \in 1..Len(q), i < j PROVE q[i].id < q[j].id
  <2>1. k + i - 1 < k + j - 1
    BY <1>5
  <2> QED
    BY <1>4, <2>1 DEF RingSound
<1>6. \A i \in 1..Len(q) : 0 < q[i].id /\ q[i].id < m
  BY <1>4 DEF RingSound
<1>7. q # <<>> => q[Len(q)].id = m - 1
  <2>1. ASSUME q # <<>> PROVE q[Len(q)].id = m - 1
    <3>1. Len(q) \in 1..Len(q) /\ k + Len(q) - 1 = Len(r) /\ r # <<>>
      <4>1. Len(q) \in Nat /\ Len(q) # 0
        BY <1>3, <2>1
      <4>2. Len(r) # 0
        BY <1>2, <1>3, <4>1
      <4> QED
        BY <1>2, <1>3, <4>1, <4>2
    <3> QED
      BY <1>4, <3>1 DEF RingSound
  <2> QED
    BY <2>1
<1>8. \A i \in 1..Len(q) : i < Len(q) => q[i].done = TRUE
  BY <1>4 DEF RingSound
<1>9. ASSUME NEW i \in 1..Len(q)
      PROVE  /\ q[i].done = TRUE => \E h \in 1..Len(d) : d[h] = q[i].id
             /\ q[i].done # TRUE => \A h \in 1..Len(d) : d[h] # q[i].id
             /\ 0 < q[i].prompt /\ q[i].prompt < n
             /\ q[i].done = TRUE => 0 < q[i].end /\ q[i].end < n
  <2>1. PICK j \in 1..Len(r) : q[i] = r[j]
    BY <1>4
  <2>2. /\ r[j].done = TRUE => \E h \in 1..Len(d) : d[h] = r[j].id
        /\ r[j].done # TRUE => \A h \in 1..Len(d) : d[h] # r[j].id
        /\ 0 < r[j].prompt /\ r[j].prompt < n
        /\ r[j].done = TRUE => 0 < r[j].end /\ r[j].end < n
    BY DEF RingSound
  <2> QED
    BY <2>1, <2>2, Zenon
<1>10. /\ \A i, j \in 1..Len(d) : i < j => d[i] < d[j]
       /\ \A i \in 1..Len(d) : d[i] < m
  BY DEF RingSound
<1>11. RingSound(q, d, m, n)
  BY <1>1, <1>3, <1>5, <1>6, <1>7, <1>8, <1>9, <1>10, Zenon DEF RingSound
<1>12. AllEnded(r) => AllEnded(q)
  BY <1>4, Zenon DEF AllEnded
<1> QED
  BY <1>2, <1>3, <1>4, <1>11, <1>12

LEMMA MoreLines ==
    ASSUME NEW r, NEW d, NEW m, NEW n, RingSound(r, d, m, n)
    PROVE  RingSound(r, d, m, n + 1)
<1>1. r \in Seq(Records) /\ n \in Nat
  BY DEF RingSound
<1>2. \A i \in 1..Len(r) : r[i].prompt \in Nat /\ r[i].end \in Nat
  <2>1. \A i \in 1..Len(r) : r[i] \in Records
    BY <1>1
  <2> QED
    BY <2>1 DEF Records
<1>3. \A a \in Nat : a < n => a < n + 1
  BY <1>1
<1>4. ASSUME NEW i \in 1..Len(r)
      PROVE  /\ 0 < r[i].prompt /\ r[i].prompt < n + 1
             /\ r[i].done = TRUE => 0 < r[i].end /\ r[i].end < n + 1
  <2>1. /\ 0 < r[i].prompt /\ r[i].prompt < n
        /\ r[i].done = TRUE => 0 < r[i].end /\ r[i].end < n
    BY DEF RingSound
  <2> QED
    BY <1>2, <1>3, <2>1
<1>5. n + 1 \in Nat
  BY <1>1
<1> QED
  BY <1>4, <1>5, Zenon DEF RingSound

Here(c) == LineIdForAbs(c, AbsoluteRowFromScreen(c))

LEMMA HereIs ==
    ASSUME NEW c, NEW k, ShellSound(c, k)
    PROVE  /\ Here(c) \in Nat /\ 0 < Here(c) /\ Here(c) < c.nextLine /\ CursorX(c) \in Nat
           /\ ~c.alt => Here(c) = c.ids[Len(c.ids) - ShellRows + c.y + 1]
<1>1. PICK ids : ids = c.ids
  OBVIOUS
<1>2. PICK l : l = Len(ids)
  OBVIOUS
<1>3. PICK y : y = c.y
  OBVIOUS
<1>4. LinesSound(ids, c.nextLine, y) /\ c.x \in Nat
  BY <1>1, <1>3 DEF ShellSound
<1>5. ShellRows \in Nat \ {0} /\ l \in Nat /\ ShellRows <= l /\ y \in 0..(ShellRows - 1)
  BY <1>2, <1>4, ShellAssumption DEF LinesSound
<1>6. (l - ShellRows) + y + 1 \in 1..l /\ 0 + 1 \in 1..l
  BY <1>5
<1>7. PICK a \in 1..l : Here(c) = ids[a] /\ (~c.alt => a = l - ShellRows + y + 1)
  <2>1. CASE c.alt
    <3>1. Here(c) = ids[0 + 1]
      BY <1>1, <2>1 DEF Here, LineIdForAbs, AbsoluteRowFromScreen
    <3> QED
      BY <1>6, <2>1, <3>1
  <2>2. CASE ~c.alt
    <3>1. Here(c) = ids[(l - ShellRows) + y + 1]
      BY <1>1, <1>2, <1>3, <2>2 DEF Here, LineIdForAbs, AbsoluteRowFromScreen, History
    <3> QED
      BY <1>6, <2>2, <3>1
  <2> QED
    BY <2>1, <2>2
<1>8. CursorX(c) \in Nat
  BY <1>4 DEF CursorX
<1> QED
  BY <1>1, <1>2, <1>3, <1>4, <1>7, <1>8, LineIs

LEMMA LineFeedKeeps ==
    ASSUME NEW c, NEW k, ShellSound(c, k)
    PROVE  ShellSound(LineFeed(c), k)
<1>1. PICK v : v = LineFeed(c)
  OBVIOUS
<1>2. PICK n : n = c.nextLine
  OBVIOUS
<1>3. PICK y : y = c.y
  OBVIOUS
<1>4. c = [f \in ShellFields |-> c[f]] /\ n \in Nat /\ y \in 0..(ShellRows - 1)
  BY <1>2, <1>3 DEF ShellSound, LinesSound
<1>5. CASE c.y + 1 < ShellRows
  <2>1. v = [c EXCEPT !.y = @ + 1]
    BY <1>1, <1>5 DEF LineFeed
  <2>2. /\ v = [f \in ShellFields |-> v[f]] /\ v.y = y + 1
        /\ v.ids = c.ids /\ v.nextLine = c.nextLine /\ v.ring = c.ring /\ v.next = c.next
        /\ v.going = c.going /\ v.cwd = c.cwd /\ v.done = c.done /\ v.note = c.note
        /\ v.since = c.since /\ v.carried = c.carried /\ v.x = c.x
    BY <1>3, <1>4, <2>1 DEF ShellFields
  <2>3. y + 1 \in 0..(ShellRows - 1)
    BY <1>3, <1>4, <1>5, ShellAssumption
  <2>4. LinesSound(v.ids, v.nextLine, v.y)
    BY <2>2, <2>3 DEF ShellSound, LinesSound
  <2> QED
    BY <1>1, <2>2, <2>4 DEF ShellSound
<1>6. CASE ~(c.y + 1 < ShellRows)
  <2>1. PICK more : more = Append(c.ids, c.nextLine)
    OBVIOUS
  <2>2. PICK kept : kept = IF Len(more) > ShellRows + HistoryMax THEN Tail(more) ELSE more
    OBVIOUS
  <2>3. v = [c EXCEPT !.ids = kept, !.nextLine = @ + 1,
                      !.view = IF @ = 0 THEN 0 ELSE Min({@ + 1, Len(kept) - ShellRows})]
    BY <1>1, <1>6, <2>1, <2>2 DEF LineFeed
  <2>4. /\ v = [f \in ShellFields |-> v[f]] /\ v.y = c.y
        /\ v.ids = kept /\ v.nextLine = n + 1 /\ v.ring = c.ring /\ v.next = c.next
        /\ v.going = c.going /\ v.cwd = c.cwd /\ v.done = c.done /\ v.note = c.note
        /\ v.since = c.since /\ v.carried = c.carried /\ v.x = c.x
    BY <1>2, <1>4, <2>3 DEF ShellFields
  <2>5. LinesSound(kept, n + 1, c.y)
    <3>1. LinesSound(more, n + 1, c.y) /\ LinesSound(Tail(more), n + 1, c.y)
      BY <1>2, <2>1, LinesGrow DEF ShellSound
    <3> QED
      BY <2>2, <3>1
  <2>6. RingSound(c.ring, c.done, c.next, n + 1)
    BY <1>2, MoreLines DEF ShellSound
  <2> QED
    BY <1>1, <2>4, <2>5, <2>6 DEF ShellSound
<1> QED
  BY <1>5, <1>6

\* The fields a command's mark leaves alone.
OnlyCommands(v, c) ==
    /\ v = [f \in ShellFields |-> v[f]]
    /\ v.ids = c.ids /\ v.nextLine = c.nextLine /\ v.y = c.y /\ v.x = c.x /\ v.alt = c.alt
    /\ v.cwd = c.cwd /\ v.note = c.note /\ v.since = c.since /\ v.carried = c.carried

LEMMA RecordFields ==
    ASSUME NEW r \in Seq(Records), NEW l \in 1..Len(r)
    PROVE  /\ r[l] = [f \in {"id", "prompt", "input", "out", "end", "endCol", "done", "cwd"} |-> r[l][f]]
           /\ r[l].id \in Nat /\ r[l].prompt \in Nat /\ r[l].input \in Nat /\ r[l].out \in Nat
           /\ r[l].end \in Nat /\ r[l].endCol \in Nat /\ r[l].done \in BOOLEAN /\ r[l].cwd \in Nat
<1>1. r[l] \in Records
  OBVIOUS
<1> QED
  BY <1>1 DEF Records

LEMMA NotDone ==
    ASSUME NEW c, NEW k, ShellSound(c, k), InProgress(c)
    PROVE  /\ Len(c.ring) \in 1..Len(c.ring) /\ Len(c.ring) # 0
           /\ Last(c.ring) = c.ring[Len(c.ring)] /\ c.ring[Len(c.ring)].done = FALSE
<1>1. c.ring \in Seq(Records) /\ c.ring # <<>> /\ ~Last(c.ring).done
  BY DEF InProgress, ShellSound, RingSound
<1>2. PICK r \in Seq(Records) : r = c.ring
  BY <1>1
<1>3. r # <<>> /\ Len(r) \in Nat /\ Len(r) # 0
  BY <1>1, <1>2
<1>4. Len(r) \in 1..Len(r) /\ Last(r) = r[Len(r)]
  BY <1>3 DEF Last
<1>5. r[Len(r)].done \in BOOLEAN
  BY <1>4, RecordFields
<1>6. r[Len(r)].done = FALSE
  BY <1>1, <1>2, <1>4, <1>5, Zenon
<1> QED
  BY <1>2, <1>3, <1>4, <1>6

LEMMA FinishCommandKeeps ==
    ASSUME NEW c, NEW k, ShellSound(c, k)
    PROVE  /\ ShellSound(FinishCommand(c), k) /\ AllEnded(FinishCommand(c).ring)
           /\ OnlyCommands(FinishCommand(c), c)
<1>1. PICK v : v = FinishCommand(c)
  OBVIOUS
<1>2. c = [f \in ShellFields |-> c[f]]
  BY DEF ShellSound
<1>3. CASE ~InProgress(c)
  <2>1. v = [c EXCEPT !.going = FALSE]
    BY <1>1, <1>3 DEF FinishCommand
  <2>2. v.ring = c.ring /\ v.next = c.next /\ v.done = c.done /\ v.going = FALSE /\ OnlyCommands(v, c)
    BY <1>2, <2>1 DEF ShellFields, OnlyCommands
  <2>3. AllEnded(c.ring)
    <3>1. CASE c.going = FALSE
      BY <3>1 DEF ShellSound
    <3>2. CASE c.going = TRUE
      <4>1. c.ring = <<>> \/ Last(c.ring).done
        BY <1>3, <3>2, Zenon DEF InProgress
      <4>2. PICK r \in Seq(Records) : r = c.ring
        BY DEF ShellSound, RingSound
      <4>3. CASE r = <<>>
        <5>1. 1..Len(r) = {}
          BY <4>3
        <5> QED
          BY <4>2, <5>1 DEF AllEnded
      <4>4. CASE r # <<>>
        <5>1. Len(r) \in 1..Len(r) /\ Last(r) = r[Len(r)]
          <6>1. Len(r) # 0 /\ Len(r) \in Nat
            BY <4>4
          <6> QED
            BY <6>1 DEF Last
        <5>2. r[Len(r)].done \in BOOLEAN
          BY <5>1, RecordFields
        <5>3. r[Len(r)].done = TRUE
          BY <4>1, <4>2, <4>4, <5>1, <5>2, Zenon
        <5>4. \A i \in 1..Len(r) : i < Len(r) => r[i].done = TRUE
          BY <4>2 DEF ShellSound, RingSound
        <5>5. \A i \in 1..Len(r) : i < Len(r) \/ i = Len(r)
          OBVIOUS
        <5> QED
          BY <4>2, <5>3, <5>4, <5>5, Zenon DEF AllEnded
      <4> QED
        BY <4>3, <4>4
    <3> QED
      BY <3>1, <3>2 DEF ShellSound
  <2> QED
    BY <1>1, <2>2, <2>3 DEF ShellSound, OnlyCommands
<1>4. CASE InProgress(c)
  <2>1. PICK r \in Seq(Records) : r = c.ring
    BY DEF ShellSound, RingSound
  <2>2. PICK l \in Nat : l = Len(r)
    OBVIOUS
  <2>3. l \in 1..Len(r) /\ l # 0 /\ Last(r) = r[l] /\ r[l].done = FALSE
    BY <1>4, <2>1, <2>2, NotDone
  <2>4. PICK h : h = Here(c)
    OBVIOUS
  <2>5. PICK w : w = CursorX(c)
    OBVIOUS
  <2>6. h \in Nat /\ 0 < h /\ h < c.nextLine /\ w \in Nat
    BY <2>4, <2>5, HereIs
  <2>7. v = [c EXCEPT !.going = FALSE, !.done = Append(@, Last(r).id), !.ring[l].done = TRUE,
                      !.ring[l].end = h, !.ring[l].endCol = w]
    BY <1>1, <1>4, <2>1, <2>2, <2>4, <2>5 DEF FinishCommand, Here
  <2>8. PICK x : x = [r[l] EXCEPT !.done = TRUE, !.end = h, !.endCol = w]
    OBVIOUS
  <2>9. x \in Records /\ x.id = r[l].id /\ x.prompt = r[l].prompt /\ x.done = TRUE /\ x.end = h
    <3>1. /\ r[l] = [f \in {"id", "prompt", "input", "out", "end", "endCol", "done", "cwd"} |-> r[l][f]]
          /\ r[l].id \in Nat /\ r[l].prompt \in Nat /\ r[l].input \in Nat /\ r[l].out \in Nat
          /\ r[l].end \in Nat /\ r[l].endCol \in Nat /\ r[l].cwd \in Nat
      BY <2>3, RecordFields
    <3> QED
      BY <2>6, <2>8, <3>1 DEF Records
  <2>10. /\ v.ring = [r EXCEPT ![l] = x] /\ v.done = Append(c.done, r[l].id)
         /\ v.next = c.next /\ v.going = FALSE /\ OnlyCommands(v, c)
    <3>0. PICK d : d = Append(c.done, r[l].id)
      OBVIOUS
    <3>1. PICK c1 : c1 = [c EXCEPT !.going = FALSE, !.done = d]
      OBVIOUS
    <3>2. PICK c2 : c2 = [c1 EXCEPT !.ring[l].done = TRUE]
      OBVIOUS
    <3>4. PICK c3 : c3 = [c2 EXCEPT !.ring[l].end = h]
      OBVIOUS
    <3>5. v = [c3 EXCEPT !.ring[l].endCol = w]
      <4>1. [c EXCEPT !.going = FALSE, !.done = Append(@, Last(r).id)] = c1
        BY <1>2, <2>3, <3>0, <3>1 DEF ShellFields
      <4> QED
        BY <2>7, <3>2, <3>4, <4>1
    <3>6. c1 = [f \in ShellFields |-> IF f = "going" THEN FALSE ELSE IF f = "done" THEN d ELSE c[f]]
      BY <1>2, <3>1 DEF ShellFields
    <3>7. c2 = [f \in ShellFields |-> IF f = "ring" THEN [r EXCEPT ![l].done = TRUE] ELSE c1[f]]
      BY <2>1, <3>2, <3>6 DEF ShellFields
    <3>8. c3 = [f \in ShellFields |-> IF f = "ring" THEN [[r EXCEPT ![l].done = TRUE] EXCEPT ![l].end = h]
                                     ELSE c2[f]]
      BY <3>4, <3>7 DEF ShellFields
    <3>9. v = [f \in ShellFields |->
                 IF f = "ring" THEN [[[r EXCEPT ![l].done = TRUE] EXCEPT ![l].end = h] EXCEPT ![l].endCol = w]
                 ELSE c3[f]]
      BY <3>5, <3>8 DEF ShellFields
    <3>3. [[[r EXCEPT ![l].done = TRUE] EXCEPT ![l].end = h] EXCEPT ![l].endCol = w] = [r EXCEPT ![l] = x]
      <4>1. PICK x1 : x1 = [r[l] EXCEPT !.done = TRUE]
        OBVIOUS
      <4>2. PICK x2 : x2 = [x1 EXCEPT !.end = h]
        OBVIOUS
      <4>3. x = [x2 EXCEPT !.endCol = w]
        BY <2>8, <4>1, <4>2
      <4>4. PICK r1 : r1 = [i \in 1..Len(r) |-> IF i = l THEN x1 ELSE r[i]]
        OBVIOUS
      <4>5. PICK r2 : r2 = [i \in 1..Len(r) |-> IF i = l THEN x2 ELSE r[i]]
        OBVIOUS
      <4>6. [r EXCEPT ![l].done = TRUE] = r1
        <5>1. r = [i \in 1..Len(r) |-> r[i]]
          OBVIOUS
        <5> QED
          BY <2>3, <4>1, <4>4, <5>1
      <4>7. [r1 EXCEPT ![l].end = h] = r2
        BY <2>3, <4>2, <4>4, <4>5
      <4>8. [r2 EXCEPT ![l].endCol = w] = [i \in 1..Len(r) |-> IF i = l THEN x ELSE r[i]]
        BY <2>3, <4>3, <4>5
      <4>9. [r EXCEPT ![l] = x] = [i \in 1..Len(r) |-> IF i = l THEN x ELSE r[i]]
        BY <2>3
      <4> QED
        BY <4>6, <4>7, <4>8, <4>9
    <3>10. v = [f \in ShellFields |-> v[f]] /\ v.ring = [r EXCEPT ![l] = x]
      BY <3>3, <3>9 DEF ShellFields
    <3>11. \A f \in ShellFields : f # "ring" => v[f] = c1[f]
      BY <3>7, <3>8, <3>9
    <3>12. \A f \in ShellFields : f \notin {"ring", "going", "done"} => v[f] = c[f]
      BY <3>6, <3>11
    <3>13. v.done = d /\ v.going = FALSE
      BY <3>6, <3>11 DEF ShellFields
    <3> QED
      BY <3>0, <3>10, <3>12, <3>13 DEF ShellFields, OnlyCommands
  <2>11. RingSound(v.ring, v.done, v.next, c.nextLine) /\ AllEnded(v.ring)
    <3>1. RingSound(r, c.done, c.next, c.nextLine)
      BY <2>1 DEF ShellSound
    <3>2. PICK q : q = [r EXCEPT ![l] = x]
      OBVIOUS
    <3>3. PICK e : e = Append(c.done, r[l].id)
      OBVIOUS
    <3>4. RingSound(q, e, c.next, c.nextLine) /\ AllEnded(q)
      BY <2>2, <2>3, <2>6, <2>9, <3>1, <3>2, <3>3, RecordEnded
    <3> QED
      BY <2>10, <3>2, <3>3, <3>4
  <2> QED
    BY <1>1, <2>10, <2>11 DEF ShellSound, OnlyCommands
<1> QED
  BY <1>3, <1>4

LEMMA NewCommandKeeps ==
    ASSUME NEW c, NEW k, ShellSound(c, k), AllEnded(c.ring), NEW at \in Nat, 0 < at, at < c.nextLine
    PROVE  ShellSound(NewCommand(c, at), k)
<1>1. PICK v : v = NewCommand(c, at)
  OBVIOUS
<1>2. PICK x : x = [id |-> c.next, prompt |-> at, input |-> None, out |-> None,
                    end |-> None, endCol |-> 0, done |-> FALSE, cwd |-> c.cwd]
  OBVIOUS
<1>3. c = [f \in ShellFields |-> c[f]] /\ c.cwd \in Nat /\ c.next \in Nat
  BY DEF ShellSound, RingSound
<1>4. x \in Records /\ x.id = c.next /\ x.done = FALSE /\ x.prompt = at
  BY <1>2, <1>3 DEF Records, None
<1>5. v = [c EXCEPT !.ring = Append(@, x), !.next = @ + 1, !.going = TRUE]
  BY <1>1, <1>2 DEF NewCommand
<1>6. v.ring = Append(c.ring, x) /\ v.next = c.next + 1 /\ v.going = TRUE /\ v.done = c.done /\ OnlyCommands(v, c)
  BY <1>3, <1>5 DEF ShellFields, OnlyCommands
<1>7. RingSound(v.ring, v.done, v.next, c.nextLine)
  <2>1. RingSound(c.ring, c.done, c.next, c.nextLine)
    BY DEF ShellSound
  <2> QED
    BY <1>4, <1>6, <2>1, RecordBegun
<1> QED
  BY <1>1, <1>6, <1>7 DEF ShellSound, OnlyCommands

LEMMA MarkKeeps ==
    ASSUME NEW c, NEW k, ShellSound(c, k), InProgress(c),
           NEW v, RingSound(v.ring, v.done, v.next, c.nextLine), v.going = c.going, OnlyCommands(v, c)
    PROVE  ShellSound(v, k)
<1>1. c.going = TRUE
  BY DEF InProgress, ShellSound
<1> QED
  BY <1>1 DEF ShellSound, OnlyCommands

LEMMA RingIsFunction == ASSUME NEW r \in Seq(Records) PROVE r = [i \in 1..Len(r) |-> r[i]]
  OBVIOUS

\* What is written to the record in progress, one field at a time.
LEMMA RingField ==
    ASSUME NEW c, c = [f \in ShellFields |-> c[f]], NEW r \in Seq(Records), r = c.ring, NEW l \in 1..Len(r),
           NEW h
    PROVE  /\ [c EXCEPT !.ring[l].input = h]
                 = [f \in ShellFields |-> IF f = "ring" THEN [r EXCEPT ![l] = [r[l] EXCEPT !.input = h]] ELSE c[f]]
           /\ [c EXCEPT !.ring[l].out = h]
                 = [f \in ShellFields |-> IF f = "ring" THEN [r EXCEPT ![l] = [r[l] EXCEPT !.out = h]] ELSE c[f]]
<1>1. r = [i \in 1..Len(r) |-> r[i]]
  BY RingIsFunction
<1>2. [r EXCEPT ![l].input = h] = [r EXCEPT ![l] = [r[l] EXCEPT !.input = h]]
  BY <1>1
<1>3. [r EXCEPT ![l].out = h] = [r EXCEPT ![l] = [r[l] EXCEPT !.out = h]]
  BY <1>1
<1>4. [c EXCEPT !.ring[l].input = h] = [f \in ShellFields |-> IF f = "ring" THEN [r EXCEPT ![l].input = h] ELSE c[f]]
  BY DEF ShellFields
<1>5. [c EXCEPT !.ring[l].out = h] = [f \in ShellFields |-> IF f = "ring" THEN [r EXCEPT ![l].out = h] ELSE c[f]]
  BY DEF ShellFields
<1> QED
  BY <1>2, <1>3, <1>4, <1>5

Rewrites(v, c, q) == v.ring = q /\ v.done = c.done /\ v.next = c.next /\ v.going = c.going /\ OnlyCommands(v, c)
Redrawn(x, h) == [x EXCEPT !.prompt = h, !.input = None]
Redraws(c, l, h) == [c EXCEPT !.ring[l].prompt = h, !.ring[l].input = None]
LEMMA RingPrompt ==
    ASSUME NEW c, c = [f \in ShellFields |-> c[f]], NEW r \in Seq(Records), r = c.ring, NEW l \in 1..Len(r),
           NEW h, NEW w, w = Redrawn(r[l], h), NEW v, v = Redraws(c, l, h)
    PROVE  Rewrites(v, c, [r EXCEPT ![l] = w])
<1>1. r = [i \in 1..Len(r) |-> r[i]]
  BY RingIsFunction
<1>6. PICK x : x = [r[l] EXCEPT !.prompt = h]
  OBVIOUS
<1>7. PICK r1 : r1 = [i \in 1..Len(r) |-> IF i = l THEN x ELSE r[i]]
  OBVIOUS
<1>8. [r EXCEPT ![l].prompt = h] = r1
  BY <1>1, <1>6, <1>7
<1>9. [r1 EXCEPT ![l].input = None] = [r EXCEPT ![l] = w]
  <2>1. PICK z : z = [x EXCEPT !.input = None]
    OBVIOUS
  <2>2. z = w
    BY <1>6, <2>1 DEF Redrawn
  <2>3. [r1 EXCEPT ![l].input = None] = [i \in 1..Len(r) |-> IF i = l THEN z ELSE r[i]]
    BY <1>7, <2>1
  <2>4. [r EXCEPT ![l] = z] = [i \in 1..Len(r) |-> IF i = l THEN z ELSE r[i]]
    BY <1>1
  <2> QED
    BY <2>2, <2>3, <2>4
<1>10. PICK c1 : c1 = [c EXCEPT !.ring[l].prompt = h]
  OBVIOUS
<1>11. c1 = [f \in ShellFields |-> IF f = "ring" THEN r1 ELSE c[f]]
  BY <1>8, <1>10 DEF ShellFields
<1>12. [c1 EXCEPT !.ring[l].input = None]
         = [f \in ShellFields |-> IF f = "ring" THEN [r1 EXCEPT ![l].input = None] ELSE c[f]]
  BY <1>11 DEF ShellFields
<1>13. v = [c1 EXCEPT !.ring[l].input = None]
  BY <1>10 DEF Redraws
<1>14. v = [f \in ShellFields |-> IF f = "ring" THEN [r EXCEPT ![l] = w] ELSE c[f]]
  BY <1>9, <1>12, <1>13
<1> QED
  BY <1>14 DEF ShellFields, OnlyCommands, Rewrites

LEMMA InputMarkKeeps ==
    ASSUME NEW c, NEW k, ShellSound(c, k)
    PROVE  /\ ShellSound(MarkCommandInput(c), k) /\ ShellSound(MarkCommandOutput(c), k)
           /\ InProgress(c) => ShellSound([c EXCEPT !.ring[Len(c.ring)].prompt = Here(c),
                                                    !.ring[Len(c.ring)].input = None], k)
<1> SUFFICES ASSUME InProgress(c)
             PROVE  /\ ShellSound(MarkCommandInput(c), k) /\ ShellSound(MarkCommandOutput(c), k)
                    /\ ShellSound([c EXCEPT !.ring[Len(c.ring)].prompt = Here(c),
                                            !.ring[Len(c.ring)].input = None], k)
  BY DEF MarkCommandInput, MarkCommandOutput
<1>1. PICK r \in Seq(Records) : r = c.ring
  BY DEF ShellSound, RingSound
<1>2. PICK l \in Nat : l = Len(r)
  OBVIOUS
<1>3. l \in 1..Len(r) /\ r[l].done = FALSE
  BY <1>1, <1>2, NotDone
<1>4. PICK h \in Nat : h = Here(c) /\ 0 < h /\ h < c.nextLine
  BY HereIs
<1>5. c = [f \in ShellFields |-> c[f]]
  BY DEF ShellSound
<1>6. /\ r[l] = [f \in {"id", "prompt", "input", "out", "end", "endCol", "done", "cwd"} |-> r[l][f]]
      /\ r[l].id \in Nat /\ r[l].prompt \in Nat /\ r[l].input \in Nat /\ r[l].out \in Nat
      /\ r[l].end \in Nat /\ r[l].endCol \in Nat /\ r[l].cwd \in Nat
  BY <1>3, RecordFields
<1>7. 0 < r[l].prompt /\ r[l].prompt < c.nextLine
  BY <1>1, <1>3 DEF ShellSound, RingSound
<1>8. PICK x : x = [r[l] EXCEPT !.input = h]
  OBVIOUS
<1>9. PICK z : z = [r[l] EXCEPT !.out = h]
  OBVIOUS
<1>10. PICK w : w = Redrawn(r[l], h)
  OBVIOUS
<1>11. x \in Records /\ x.id = r[l].id /\ x.done = FALSE /\ 0 < x.prompt /\ x.prompt < c.nextLine
  BY <1>3, <1>6, <1>7, <1>8 DEF Records
<1>12. z \in Records /\ z.id = r[l].id /\ z.done = FALSE /\ 0 < z.prompt /\ z.prompt < c.nextLine
  BY <1>3, <1>6, <1>7, <1>9 DEF Records
<1>13. w \in Records /\ w.id = r[l].id /\ w.done = FALSE /\ 0 < w.prompt /\ w.prompt < c.nextLine
  BY <1>3, <1>4, <1>6, <1>10 DEF Records, None, Redrawn
<1>17. RingSound(r, c.done, c.next, c.nextLine)
  BY <1>1 DEF ShellSound
<1>14. ShellSound(MarkCommandInput(c), k)
  <2>1. PICK v : v = [f \in ShellFields |-> IF f = "ring" THEN [r EXCEPT ![l] = x] ELSE c[f]]
    OBVIOUS
  <2>2. MarkCommandInput(c) = [c EXCEPT !.ring[l].input = h]
    BY <1>1, <1>2, <1>4 DEF MarkCommandInput, Here
  <2>3. [c EXCEPT !.ring[l].input = h] = v
    BY <1>1, <1>3, <1>5, <1>8, <2>1, RingField
  <2>4. /\ v.ring = [r EXCEPT ![l] = x] /\ v.done = c.done /\ v.next = c.next
        /\ v.going = c.going /\ OnlyCommands(v, c)
    BY <2>1 DEF ShellFields, OnlyCommands
  <2>6. RingSound(v.ring, v.done, v.next, c.nextLine)
    <3>1. PICK q : q = [r EXCEPT ![l] = x]
      OBVIOUS
    <3>2. RingSound(q, c.done, c.next, c.nextLine)
      BY <1>3, <1>17, <1>11, <3>1, RecordWritten
    <3> QED
      BY <2>4, <3>1, <3>2
  <2>5. ShellSound(v, k)
    BY <2>4, <2>6, MarkKeeps
  <2> QED
    BY <2>2, <2>3, <2>5
<1>15. ShellSound(MarkCommandOutput(c), k)
  <2>1. PICK v : v = [f \in ShellFields |-> IF f = "ring" THEN [r EXCEPT ![l] = z] ELSE c[f]]
    OBVIOUS
  <2>2. MarkCommandOutput(c) = [c EXCEPT !.ring[l].out = h]
    BY <1>1, <1>2, <1>4 DEF MarkCommandOutput, Here
  <2>3. [c EXCEPT !.ring[l].out = h] = v
    BY <1>1, <1>3, <1>5, <1>9, <2>1, RingField
  <2>4. /\ v.ring = [r EXCEPT ![l] = z] /\ v.done = c.done /\ v.next = c.next
        /\ v.going = c.going /\ OnlyCommands(v, c)
    BY <2>1 DEF ShellFields, OnlyCommands
  <2>6. RingSound(v.ring, v.done, v.next, c.nextLine)
    <3>1. PICK q : q = [r EXCEPT ![l] = z]
      OBVIOUS
    <3>2. RingSound(q, c.done, c.next, c.nextLine)
      BY <1>3, <1>17, <1>12, <3>1, RecordWritten
    <3> QED
      BY <2>4, <3>1, <3>2
  <2>5. ShellSound(v, k)
    BY <2>4, <2>6, MarkKeeps
  <2> QED
    BY <2>2, <2>3, <2>5
<1>16. ShellSound([c EXCEPT !.ring[Len(c.ring)].prompt = Here(c), !.ring[Len(c.ring)].input = None], k)
  <2>1. PICK v : v = Redraws(c, l, h)
    OBVIOUS
  <2>2. [c EXCEPT !.ring[Len(c.ring)].prompt = Here(c), !.ring[Len(c.ring)].input = None] = v
    BY <1>1, <1>2, <1>4, <2>1 DEF Redraws
  <2>3. Rewrites(v, c, [r EXCEPT ![l] = w])
    BY <1>1, <1>3, <1>5, <1>10, <2>1, RingPrompt, Zenon
  <2>4. /\ v.ring = [r EXCEPT ![l] = w] /\ v.done = c.done /\ v.next = c.next
        /\ v.going = c.going /\ OnlyCommands(v, c)
    BY <2>3 DEF Rewrites
  <2>6. RingSound(v.ring, v.done, v.next, c.nextLine)
    <3>1. PICK q : q = [r EXCEPT ![l] = w]
      OBVIOUS
    <3>2. RingSound(q, c.done, c.next, c.nextLine)
      BY <1>3, <1>17, <1>13, <3>1, RecordWritten
    <3> QED
      BY <2>4, <3>1, <3>2
  <2>5. ShellSound(v, k)
    BY <2>4, <2>6, MarkKeeps
  <2> QED
    BY <2>2, <2>5
<1> QED
  BY <1>14, <1>15, <1>16

LEMMA StartCommandKeeps ==
    ASSUME NEW c, NEW k, ShellSound(c, k)
    PROVE  ShellSound(StartCommand(c), k)
<1>1. PICK at \in Nat : at = Here(c) /\ 0 < at /\ at < c.nextLine
  BY HereIs
<1>2. CASE InProgress(c) /\ Last(c.ring).out = None
  <2>1. StartCommand(c) = [c EXCEPT !.ring[Len(c.ring)].prompt = Here(c), !.ring[Len(c.ring)].input = None]
    BY <1>2 DEF StartCommand, Here
  <2> QED
    BY <1>2, <2>1, InputMarkKeeps
<1>3. CASE InProgress(c) /\ Last(c.ring).out # None
  <2>1. PICK f : f = FinishCommand(c)
    OBVIOUS
  <2>2. ShellSound(f, k) /\ AllEnded(f.ring) /\ f.nextLine = c.nextLine
    BY <2>1, FinishCommandKeeps DEF OnlyCommands
  <2>3. StartCommand(c) = NewCommand(f, at)
    BY <1>1, <1>3, <2>1 DEF StartCommand, Here
  <2>4. ShellSound(NewCommand(f, at), k)
    BY <1>1, <2>2, NewCommandKeeps
  <2> QED
    BY <2>3, <2>4
<1>4. CASE ~InProgress(c)
  <2>1. StartCommand(c) = NewCommand(c, at)
    BY <1>1, <1>4 DEF StartCommand, Here
  <2>2. AllEnded(c.ring)
    <3>1. FinishCommand(c) = [c EXCEPT !.going = FALSE]
      BY <1>4 DEF FinishCommand
    <3>2. AllEnded(FinishCommand(c).ring) /\ c = [f \in ShellFields |-> c[f]]
      BY FinishCommandKeeps DEF ShellSound
    <3>3. FinishCommand(c).ring = c.ring
      BY <3>1, <3>2 DEF ShellFields
    <3> QED
      BY <3>2, <3>3
  <2>3. ShellSound(NewCommand(c, at), k)
    BY <1>1, <2>2, NewCommandKeeps
  <2> QED
    BY <2>1, <2>3
<1> QED
  BY <1>2, <1>3, <1>4

LEMMA Osc133Keeps ==
    ASSUME NEW c, NEW k, ShellSound(c, k), NEW kind \in {"A", "N", "P", "B", "C", "D", "L"}
    PROVE  ShellSound(Osc133(c, kind), k)
<1>1. CASE kind = "A"
  BY <1>1, StartCommandKeeps DEF Osc133
<1>2. CASE kind = "N"
  BY <1>2, StartCommandKeeps, FinishCommandKeeps DEF Osc133
<1>3. CASE kind = "P"
  BY <1>3, StartCommandKeeps DEF Osc133
<1>4. CASE kind = "B"
  BY <1>4, InputMarkKeeps DEF Osc133
<1>5. CASE kind = "C"
  BY <1>5, InputMarkKeeps DEF Osc133
<1>6. CASE kind = "D"
  BY <1>6, FinishCommandKeeps DEF Osc133
<1>7. CASE kind = "L"
  <2>1. PICK v : v = LineFeed(c)
    OBVIOUS
  <2>2. PICK w : w = [v EXCEPT !.x = 0]
    OBVIOUS
  <2>3. ShellSound(v, k)
    BY <2>1, LineFeedKeeps
  <2>4. /\ w = [f \in ShellFields |-> w[f]] /\ w.x = 0 /\ w.y = v.y
        /\ w.ids = v.ids /\ w.nextLine = v.nextLine /\ w.ring = v.ring /\ w.next = v.next
        /\ w.going = v.going /\ w.cwd = v.cwd /\ w.done = v.done /\ w.note = v.note
        /\ w.since = v.since /\ w.carried = v.carried
    <3>1. v = [f \in ShellFields |-> v[f]]
      BY <2>3 DEF ShellSound
    <3> QED
      BY <2>2, <3>1 DEF ShellFields
  <2>5. ShellSound(w, k)
    BY <2>3, <2>4 DEF ShellSound
  <2>6. Osc133(c, kind) = IF CursorX(c) > 0 THEN w ELSE c
    BY <1>7, <2>1, <2>2 DEF Osc133
  <2> QED
    BY <2>5, <2>6
<1> QED
  BY <1>1, <1>2, <1>3, <1>4, <1>5, <1>6, <1>7

NoteFields == {"id", "title", "body", "buttons", "urgency"}

LEMMA LaterNote ==
    ASSUME NEW t, NEW s, NEW k, NoteSound(t, s, k)
    PROVE  NoteSound(t, s, k + 1)
<1>1. k \in Nat /\ s \in 0..k /\ k + 1 \in Nat /\ s \in 0..(k + 1)
  BY DEF NoteSound
<1>2. (s + 1)..k \subseteq (s + 1)..(k + 1)
  BY <1>1
<1>3. t.buttons \in Seq((s + 1)..(k + 1))
  <2>1. t.buttons \in Seq((s + 1)..k)
    BY DEF NoteSound
  <2>2. PICK A : A = (s + 1)..k
    OBVIOUS
  <2>3. PICK B : B = (s + 1)..(k + 1)
    OBVIOUS
  <2>4. A \subseteq B /\ t.buttons \in Seq(A)
    BY <1>2, <2>1, <2>2, <2>3
  <2>5. t.buttons \in Seq(B)
    BY <2>4
  <2> QED
    BY <2>3, <2>5
<1> QED
  BY <1>1, <1>2, <1>3 DEF NoteSound

\* A piece that comes is number k + 1.
LEMMA NoteGathers ==
    ASSUME NEW t, NEW s, NEW k, NoteSound(t, s, k), NEW v, v = [f \in NoteFields |-> v[f]],
           v.title = t.title \/ v.title = k + 1, v.body = t.body \/ v.body = k + 1,
           v.buttons = t.buttons \/ v.buttons = Append(t.buttons, k + 1)
    PROVE  NoteSound(v, s, k + 1)
<1>1. NoteSound(t, s, k + 1)
  BY LaterNote
<1>2. k \in Nat /\ s \in 0..k /\ k + 1 \in (s + 1)..(k + 1)
  BY DEF NoteSound
<1>3. v.title = None \/ v.title \in (s + 1)..(k + 1)
  BY <1>1, <1>2 DEF NoteSound
<1>4. v.body = None \/ v.body \in (s + 1)..(k + 1)
  BY <1>1, <1>2 DEF NoteSound
<1>5. v.buttons \in Seq((s + 1)..(k + 1))
  <2>1. PICK B : B = (s + 1)..(k + 1)
    OBVIOUS
  <2>2. t.buttons \in Seq(B) /\ k + 1 \in B
    BY <1>1, <1>2, <2>1 DEF NoteSound
  <2>3. Append(t.buttons, k + 1) \in Seq(B)
    BY <2>2
  <2> QED
    BY <2>1, <2>2, <2>3
<1> QED
  BY <1>1, <1>3, <1>4, <1>5 DEF NoteSound, NoteFields

LEMMA NothingCarried ==
    ASSUME NEW n, NEW s, NEW k, NoteSound(n, s, k)
    PROVE  ~ \E t \in {n.title, n.body} \cup Range(n.buttons) : t # None /\ t <= s
<1> SUFFICES ASSUME NEW t \in {n.title, n.body} \cup Range(n.buttons), t # None PROVE ~(t <= s)
  OBVIOUS
<1>1. k \in Nat /\ s \in 0..k
  BY DEF NoteSound
<1>2. t \in (s + 1)..k
  <2>1. CASE t \in {n.title, n.body}
    BY <2>1 DEF NoteSound
  <2>2. CASE t \in Range(n.buttons)
    <3>1. PICK B : B = (s + 1)..k
      OBVIOUS
    <3>2. n.buttons \in Seq(B)
      BY <3>1 DEF NoteSound
    <3>3. PICK i \in DOMAIN n.buttons : t = n.buttons[i]
      BY <2>2 DEF Range
    <3>4. PICK q \in Seq(B) : q = n.buttons
      BY <3>2
    <3>5. \A j \in DOMAIN q : q[j] \in B
      OBVIOUS
    <3> QED
      BY <3>1, <3>3, <3>4, <3>5
  <2> QED
    BY <2>1, <2>2
<1> QED
  BY <1>1, <1>2

\* The fields a notification leaves alone.
OnlyNote(v, c) ==
    /\ v = [f \in ShellFields |-> v[f]]
    /\ v.ids = c.ids /\ v.nextLine = c.nextLine /\ v.y = c.y /\ v.x = c.x /\ v.cwd = c.cwd
    /\ v.ring = c.ring /\ v.done = c.done /\ v.next = c.next /\ v.going = c.going

LEMMA NoteKeeps ==
    ASSUME NEW c, NEW k, ShellSound(c, k), NEW j, NEW v, OnlyNote(v, c),
           NoteSound(v.note, v.since, j), v.carried = FALSE
    PROVE  ShellSound(v, j)
  BY DEF ShellSound, OnlyNote

LEMMA DispatchNoteKeeps ==
    ASSUME NEW c, NEW k, ShellSound(c, k)
    PROVE  ShellSound(DispatchNote(c, k), k)
<1>1. PICK n : n = c.note
  OBVIOUS
<1>2. PICK s : s = c.since
  OBVIOUS
<1>3. NoteSound(n, s, k) /\ c = [f \in ShellFields |-> c[f]] /\ c.carried = FALSE
  BY <1>1, <1>2 DEF ShellSound
<1>4. PICK told : told = \E t \in {n.title, n.body} \cup Range(n.buttons) : t # None /\ t <= s
  OBVIOUS
<1>5. ~told
  BY <1>3, <1>4, NothingCarried
<1>6. PICK v : v = [c EXCEPT !.carried = @ \/ told]
  OBVIOUS
<1>7. Shown(c, c.note) = v
  BY <1>1, <1>2, <1>4, <1>6 DEF Shown
<1>8. v = [f \in ShellFields |-> v[f]] /\ v.carried = FALSE /\ \A f \in ShellFields \ {"carried"} : v[f] = c[f]
  BY <1>3, <1>5, <1>6 DEF ShellFields
<1>9. PICK w : w = [v EXCEPT !.note = NoNote, !.since = k]
  OBVIOUS
<1>10. /\ w = [f \in ShellFields |-> w[f]] /\ w.carried = FALSE /\ w.note = NoNote /\ w.since = k
       /\ \A f \in ShellFields \ {"carried", "note", "since"} : w[f] = c[f]
  BY <1>8, <1>9 DEF ShellFields
<1>11. OnlyNote(w, c)
  BY <1>10 DEF OnlyNote, ShellFields
<1>12. NoteSound(NoNote, k, k)
  <2>1. k \in Nat /\ k \in 0..k
    BY <1>3 DEF NoteSound
  <2>2. <<>> \in Seq((k + 1)..k)
    OBVIOUS
  <2> QED
    BY <2>1, <2>2 DEF NoteSound, NoNote
<1>13. ShellSound(w, k)
  BY <1>10, <1>11, <1>12, NoteKeeps
<1> QED
  BY <1>7, <1>9, <1>13 DEF DispatchNote

LEMMA Osc99Keeps ==
    ASSUME NEW c, NEW k, ShellSound(c, k), NEW p \in {"title", "body", "buttons", "close"}, NEW last \in BOOLEAN
    PROVE  ShellSound(Osc99(c, k + 1, p, 1, 1, last), k + 1)
<1>1. PICK t : t = c.note
  OBVIOUS
<1>2. PICK s : s = c.since
  OBVIOUS
<1>3. /\ NoteSound(t, s, k) /\ c = [f \in ShellFields |-> c[f]] /\ c.carried = FALSE
      /\ t = [f \in NoteFields |-> t[f]]
  BY <1>1, <1>2 DEF ShellSound, NoteSound, NoteFields
<1>4. PICK n : n = [t EXCEPT !.urgency = 1]
  OBVIOUS
<1>5. PICK named : named = [n EXCEPT !.id = IF 1 = None THEN @ ELSE 1]
  OBVIOUS
<1>6. PICK new : new = CASE p = "title"   -> [named EXCEPT !.title = k + 1]
                         [] p = "body"    -> [named EXCEPT !.body = k + 1]
                         [] p = "buttons" -> [named EXCEPT !.buttons = IF Len(@) < 8 THEN Append(@, k + 1) ELSE @]
                         [] OTHER -> named
  OBVIOUS
<1>7. n = [f \in NoteFields |-> IF f = "urgency" THEN 1 ELSE t[f]]
  BY <1>3, <1>4 DEF NoteFields
<1>8. named = [f \in NoteFields |-> IF f = "urgency" THEN 1 ELSE IF f = "id" THEN 1 ELSE t[f]]
  BY <1>5, <1>7 DEF NoteFields, None
<1>9. /\ new = [f \in NoteFields |-> new[f]]
      /\ new.title = t.title \/ new.title = k + 1
      /\ new.body = t.body \/ new.body = k + 1
      /\ new.buttons = t.buttons \/ new.buttons = Append(t.buttons, k + 1)
  <2>1. CASE p = "title"
    BY <1>6, <1>8, <2>1 DEF NoteFields
  <2>2. CASE p = "body"
    BY <1>6, <1>8, <2>2 DEF NoteFields
  <2>3. CASE p = "buttons"
    BY <1>6, <1>8, <2>3 DEF NoteFields
  <2>4. CASE p = "close"
    BY <1>6, <1>8, <2>4 DEF NoteFields
  <2> QED
    BY <2>1, <2>2, <2>3, <2>4
<1>10. NoteSound(n, s, k + 1) /\ NoteSound(new, s, k + 1)
  <2>1. /\ n = [f \in NoteFields |-> n[f]] /\ n.title = t.title /\ n.body = t.body /\ n.buttons = t.buttons
    BY <1>7 DEF NoteFields
  <2>2. NoteSound(n, s, k + 1)
    BY <1>3, <2>1, NoteGathers
  <2>3. NoteSound(new, s, k + 1)
    BY <1>3, <1>9, NoteGathers
  <2> QED
    BY <2>2, <2>3
<1>11. PICK v : v = [c EXCEPT !.note = n]
  OBVIOUS
<1>12. PICK w : w = [c EXCEPT !.note = new]
  OBVIOUS
<1>13. /\ OnlyNote(v, c) /\ v.note = n /\ v.since = s /\ v.carried = FALSE
       /\ OnlyNote(w, c) /\ w.note = new /\ w.since = s /\ w.carried = FALSE
  BY <1>2, <1>3, <1>11, <1>12 DEF OnlyNote, ShellFields
<1>14. ShellSound(v, k + 1)
  <2>1. NoteSound(v.note, v.since, k + 1)
    BY <1>10, <1>13
  <2> QED
    BY <1>13, <2>1, NoteKeeps
<1>15. ShellSound(w, k + 1)
  <2>1. NoteSound(w.note, w.since, k + 1)
    BY <1>10, <1>13
  <2> QED
    BY <1>13, <2>1, NoteKeeps
<1>16. ShellSound(DispatchNote(w, k + 1), k + 1)
  BY <1>15, DispatchNoteKeeps
<1>17. Osc99(c, k + 1, p, 1, 1, last)
         = IF p \in {"close", "alive"} THEN v ELSE IF last THEN DispatchNote(w, k + 1) ELSE w
  BY <1>1, <1>4, <1>5, <1>6, <1>11, <1>12 DEF Osc99
<1> QED
  BY <1>14, <1>15, <1>16, <1>17

LEMMA LaterShell ==
    ASSUME NEW c, NEW k, ShellSound(c, k)
    PROVE  ShellSound(c, k + 1)
  BY LaterNote DEF ShellSound

\* Text, a directory, another screen.
LEMMA PlainKeeps ==
    ASSUME NEW c, NEW k, ShellSound(c, k)
    PROVE  /\ ShellSound(Type(c), k) /\ ShellSound(CursorHome(c), k) /\ ShellSound(Osc7(c, 1), k)
           /\ ShellSound(EnterAltScreen(c), k) /\ ShellSound(LeaveAltScreen(c), k)
<1>1. c = [f \in ShellFields |-> c[f]] /\ LinesSound(c.ids, c.nextLine, c.y)
  BY DEF ShellSound
<1>2. LinesSound(c.ids, c.nextLine, 0)
  BY <1>1, ShellAssumption DEF LinesSound
<1>3. PICK v : v = Type(c)
  OBVIOUS
<1>4. v = [f \in ShellFields |-> IF f = "x" THEN 1 ELSE c[f]]
  BY <1>1, <1>3 DEF Type, ShellFields
<1>5. PICK w : w = CursorHome(c)
  OBVIOUS
<1>6. w = [f \in ShellFields |-> IF f = "y" THEN 0 ELSE IF f = "x" THEN 0 ELSE c[f]]
  BY <1>1, <1>5 DEF CursorHome, ShellFields
<1>7. PICK d : d = Osc7(c, 1)
  OBVIOUS
<1>8. d = [f \in ShellFields |-> IF f = "cwd" THEN 1 ELSE c[f]]
  BY <1>1, <1>7 DEF Osc7, ShellFields
<1>9. PICK a : a = EnterAltScreen(c)
  OBVIOUS
<1>10. a = [f \in ShellFields |-> IF f = "alt" THEN TRUE ELSE IF f = "sel" THEN None ELSE c[f]]
  BY <1>1, <1>9 DEF EnterAltScreen, ShellFields
<1>11. PICK b : b = LeaveAltScreen(c)
  OBVIOUS
<1>12. b = [f \in ShellFields |-> IF f = "alt" THEN FALSE ELSE c[f]]
  BY <1>1, <1>11 DEF LeaveAltScreen, ShellFields
<1>13. ShellSound(v, k)
  BY <1>4 DEF ShellSound, ShellFields
<1>14. ShellSound(w, k)
  BY <1>2, <1>6 DEF ShellSound, ShellFields
<1>15. ShellSound(d, k)
  BY <1>8 DEF ShellSound, ShellFields
<1>16. ShellSound(a, k)
  BY <1>10 DEF ShellSound, ShellFields
<1>17. ShellSound(b, k)
  BY <1>12 DEF ShellSound, ShellFields
<1> QED
  BY <1>3, <1>5, <1>7, <1>9, <1>11, <1>13, <1>14, <1>15, <1>16, <1>17

LEMMA RowOf ==
    ASSUME NEW c, LinesSound(c.ids, c.nextLine, c.y), NEW id \in Nat
    PROVE  /\ c.ids[1] \in Nat /\ c.ids[1] = c.nextLine - Len(c.ids) /\ FirstAbsOfLine(c, id) \in Int
           /\ c.ids[1] <= id /\ id < c.nextLine => FirstAbsOfLine(c, id) = id - c.ids[1]
           /\ FirstAbsOfLine(c, id) >= 0 => c.ids[1] <= id
<1>1. PICK ids : ids = c.ids
  OBVIOUS
<1>2. PICK n : n = c.nextLine
  OBVIOUS
<1>3. /\ ids \in Seq(Nat) /\ n \in Nat /\ Len(ids) < n /\ Len(ids) \in Nat /\ 1 <= Len(ids)
      /\ \A i \in 1..Len(ids) : ids[i] = n - 1 - Len(ids) + i
  BY <1>1, <1>2, ShellAssumption DEF LinesSound, Numbered
<1>4. PICK l \in Nat : l = Len(ids)
  BY <1>3
<1>5. 1 \in 1..l /\ ids[1] = n - l /\ ids[1] \in Nat /\ DOMAIN ids = 1..l
  BY <1>3, <1>4
<1>6. CASE Contains(ids, id)
  <2>1. PICK i \in 1..l : ids[i] = id
    BY <1>4, <1>6 DEF Contains
  <2>2. PICK j : j = CHOOSE h \in DOMAIN ids : ids[h] = id
    OBVIOUS
  <2>3. j \in 1..l /\ ids[j] = id
    BY <1>5, <2>1, <2>2
  <2>4. FirstAbsOfLine(c, id) = j - 1
    BY <1>1, <1>6, <2>2 DEF FirstAbsOfLine
  <2>5. id = n - 1 - l + j
    BY <1>3, <1>4, <2>3
  <2>6. PICK b \in Nat : b = ids[1]
    BY <1>5
  <2>7. b = n - l /\ id - b = j - 1 /\ b <= id /\ j - 1 \in Int
    BY <1>3, <1>5, <2>3, <2>5, <2>6
  <2> QED
    BY <1>1, <1>2, <1>4, <2>4, <2>6, <2>7
<1>7. CASE ~Contains(ids, id)
  <2>1. FirstAbsOfLine(c, id) = -1
    BY <1>1, <1>7 DEF FirstAbsOfLine
  <2>2. ASSUME ids[1] <= id, id < n PROVE FALSE
    <3>1. PICK j : j = id - n + l + 1
      OBVIOUS
    <3>2. j \in 1..l /\ n - 1 - l + j = id
      BY <1>3, <1>4, <1>5, <2>2, <3>1
    <3>3. ids[j] = id
      BY <1>3, <1>4, <3>2
    <3> QED
      BY <1>4, <1>7, <3>2, <3>3 DEF Contains
  <2> QED
    BY <1>1, <1>2, <1>4, <1>5, <2>1, <2>2
<1> QED
  BY <1>6, <1>7

LEMMA PruneKeeps ==
    ASSUME NEW c, NEW k, ShellSound(c, k)
    PROVE  ShellGood(PruneCommandRing(c), k)
<1>1. PICK r \in Seq(Records) : r = c.ring
  BY DEF ShellSound, RingSound
<1>2. PICK l \in Nat : l = Len(r)
  OBVIOUS
<1>3. PICK vis : vis = Visible(c)
  OBVIOUS
<1>4. vis \in SUBSET (1..l) /\ \A i \in vis : FirstAbsOfLine(c, r[i].prompt) >= 0
  BY <1>1, <1>2, <1>3 DEF Visible
<1>5. PICK a : a = IF vis = {} THEN l + 1 ELSE Min(vis)
  OBVIOUS
<1>6. a \in 1..(l + 1) /\ (a # l + 1 => a \in vis)
  <2>1. CASE vis = {}
    BY <1>5, <2>1
  <2>2. CASE vis # {}
    <3>1. Min(vis) \in vis
      BY <1>4, <2>2, FirstOf
    <3> QED
      BY <1>4, <1>5, <2>2, <3>1
  <2> QED
    BY <2>1, <2>2
<1>7. PICK q : q = SubSeq(r, a, l)
  OBVIOUS
<1>8. RingSound(r, c.done, c.next, c.nextLine)
  BY <1>1 DEF ShellSound
<1>9. /\ RingSound(q, c.done, c.next, c.nextLine) /\ (AllEnded(r) => AllEnded(q))
      /\ Len(q) = l - a + 1 /\ \A i \in 1..Len(q) : q[i] = r[a + i - 1]
  <2>1. a \in 1..(Len(r) + 1) /\ q = SubSeq(r, a, Len(r))
    BY <1>2, <1>6, <1>7
  <2>2. RingSound(q, c.done, c.next, c.nextLine) /\ (AllEnded(r) => AllEnded(q))
    BY <1>8, <2>1, RecordsDropped
  <2>3. Len(q) = Len(r) - a + 1
    BY <1>8, <2>1, RecordsDropped
  <2>4. \A i \in 1..Len(q) : q[i] = r[a + i - 1]
    BY <1>8, <2>1, RecordsDropped
  <2> QED
    BY <1>2, <2>2, <2>3, <2>4
<1>10. PICK v : v = [c EXCEPT !.ring = q, !.batch = FALSE]
  OBVIOUS
<1>11. c = [f \in ShellFields |-> c[f]]
  BY DEF ShellSound
<1>12. [c EXCEPT !.ring = SubSeq(@, IF Visible(c) = {} THEN Len(@) + 1 ELSE Min(Visible(c)), Len(@)),
                 !.batch = FALSE] = v
  BY <1>1, <1>2, <1>3, <1>5, <1>7, <1>10, <1>11 DEF ShellFields
<1>13. v = [f \in ShellFields |-> IF f = "ring" THEN q ELSE IF f = "batch" THEN FALSE ELSE c[f]]
  BY <1>10, <1>11 DEF ShellFields
<1>14. PICK e : e = IF v.sel \in Cmds(v) THEN v.sel ELSE None
  OBVIOUS
<1>15. PICK w : w = [v EXCEPT !.sel = e]
  OBVIOUS
<1>16. PruneCommandRing(c) = w
  BY <1>12, <1>14, <1>15 DEF PruneCommandRing
<1>17. w = [f \in ShellFields |-> IF f = "sel" THEN e ELSE v[f]]
  BY <1>13, <1>15 DEF ShellFields
<1>18. /\ w = [f \in ShellFields |-> w[f]] /\ w.ring = q /\ w.sel = e
       /\ w.ids = c.ids /\ w.nextLine = c.nextLine /\ w.y = c.y /\ w.x = c.x /\ w.cwd = c.cwd
       /\ w.done = c.done /\ w.next = c.next /\ w.going = c.going /\ w.note = c.note
       /\ w.since = c.since /\ w.carried = c.carried
  BY <1>13, <1>17 DEF ShellFields
<1>19. ShellSound(w, k)
  BY <1>1, <1>9, <1>18 DEF ShellSound
<1>20. q # <<>> => w.ids[1] <= q[1].prompt
  <2> SUFFICES ASSUME q # <<>> PROVE c.ids[1] <= q[1].prompt
    BY <1>18
  <2>1. Len(q) # 0 /\ Len(q) \in Nat
    BY <1>9 DEF RingSound
  <2>2. a \in vis /\ 1 \in 1..Len(q) /\ a + 1 - 1 = a
    BY <1>2, <1>6, <1>9, <2>1
  <2>3. q[1] = r[a]
    BY <1>9, <2>2
  <2>4. FirstAbsOfLine(c, r[a].prompt) >= 0 /\ r[a].prompt \in Nat
    BY <1>2, <1>4, <2>2, RecordFields
  <2>5. LinesSound(c.ids, c.nextLine, c.y)
    BY DEF ShellSound
  <2> QED
    BY <2>3, <2>4, <2>5, RowOf
<1>21. e = None \/ \E i \in 1..Len(q) : q[i].id = e
  <2>1. v.ring = q /\ q \in Seq(Records)
    BY <1>9, <1>13 DEF ShellFields, RingSound
  <2>2. DOMAIN q = 1..Len(q)
    BY <2>1
  <2> QED
    BY <1>14, <2>1, <2>2 DEF Cmds
<1>22. Pruned(w.ring, w.ids, w.sel)
  BY <1>18, <1>20, <1>21 DEF Pruned
<1> QED
  BY <1>16, <1>19, <1>22 DEF ShellGood

LEMMA ChooseKeeps ==
    ASSUME NEW c, NEW k, ShellGood(c, k), NEW id, NEW h
    PROVE  /\ ShellGood(SetSelectedCommand(c, id), k)
           /\ ShellGood([c EXCEPT !.view = h], k)
<1>1. ShellSound(c, k) /\ c = [f \in ShellFields |-> c[f]] /\ c.ring \in Seq(Records)
  BY DEF ShellGood, ShellSound, RingSound
<1>2. PICK v : v = SetSelectedCommand(c, id)
  OBVIOUS
<1>3. PICK e : e = IF id \in Cmds(c) THEN id ELSE None
  OBVIOUS
<1>4. v = [f \in ShellFields |-> IF f = "sel" THEN e ELSE c[f]]
  BY <1>1, <1>2, <1>3 DEF SetSelectedCommand, ShellFields
<1>5. PICK w : w = [c EXCEPT !.view = h]
  OBVIOUS
<1>6. w = [f \in ShellFields |-> IF f = "view" THEN h ELSE c[f]]
  BY <1>1, <1>5 DEF ShellFields
<1>7. ShellSound(v, k)
  BY <1>1, <1>4 DEF ShellSound, ShellFields
<1>8. ShellSound(w, k)
  BY <1>1, <1>6 DEF ShellSound, ShellFields
<1>9. e = None \/ \E i \in 1..Len(c.ring) : c.ring[i].id = e
  <2>1. DOMAIN c.ring = 1..Len(c.ring)
    BY <1>1
  <2> QED
    BY <1>3, <2>1 DEF Cmds
<1>10. v.batch = FALSE => Pruned(v.ring, v.ids, v.sel)
  <2>1. v.batch = c.batch /\ v.ring = c.ring /\ v.ids = c.ids /\ v.sel = e
    BY <1>4 DEF ShellFields
  <2> QED
    BY <1>9, <2>1 DEF ShellGood, Pruned
<1>11. w.batch = FALSE => Pruned(w.ring, w.ids, w.sel)
  <2>1. w.batch = c.batch /\ w.ring = c.ring /\ w.ids = c.ids /\ w.sel = c.sel
    BY <1>6 DEF ShellFields
  <2> QED
    BY <2>1 DEF ShellGood
<1> QED
  BY <1>2, <1>5, <1>7, <1>8, <1>10, <1>11 DEF ShellGood

LEMMA NavigateKeeps ==
    ASSUME NEW c, NEW k, ShellGood(c, k), NEW dir, NEW wrap
    PROVE  ShellGood(ScrollToPrompt(c, dir, wrap), k) /\ ShellGood(ResetViewport(c), k)
<1>1. ShellGood(ResetViewport(c), k)
  BY ChooseKeeps DEF ResetViewport
<1>2. ASSUME NEW abs, NEW id PROVE ShellGood(SetSelectedCommand(ScrollTo(c, abs), id), k)
  <2>1. ShellGood(ScrollTo(c, abs), k)
    BY ChooseKeeps DEF ScrollTo
  <2> QED
    BY <2>1, ChooseKeeps
<1>3. \/ ScrollToPrompt(c, dir, wrap) = ResetViewport(c)
      \/ ScrollToPrompt(c, dir, wrap) = c
      \/ \E abs, id : ScrollToPrompt(c, dir, wrap) = SetSelectedCommand(ScrollTo(c, abs), id)
  BY Zenon DEF ScrollToPrompt
<1> QED
  BY <1>1, <1>2, <1>3

LEMMA OneAtATime ==
    ASSUME [Next]_vars
    PROVE  spent' = spent \/ spent' = spent + 1
<1> USE DEF Spend, Free
<1>1. CASE Placing
  BY <1>1 DEF Placing, MoveCursor, SendImage, SendNumbered, SendITerm, SendFirstChunk,
     SendBroken, PutImage, DeleteImages, Reset, Sends, Goes
<1>2. CASE Animating
  BY <1>2 DEF Animating, SendFilm, SendFrame, ControlAnimation, ComposeFrames, DropFrames,
     PublishSnapshot, TickAnimations, DrawFrame, Sends, Goes
<1>3. CASE Switching
  BY <1>3 DEF Switching, SetMode, SwitchScreen, SaveModes, RestoreModes, ResetModes,
     KeyboardFlags, Pointer, Title, Turns
<1>4. CASE SendBytes \/ ReadBytes
  BY <1>4 DEF SendBytes, ReadBytes
<1>5. CASE Shelling
  BY <1>5 DEF Shelling, MarkCommand, ReportDirectory, PrintText, ShellScreen, Notify,
     EndBatch, SelectByClick, Navigate, PressKey, Says, User
<1>6. CASE Typing
  BY <1>6 DEF Typing, KeyDown, Character, SequenceTimeout, ProtocolSwitched, EscapeHasUse,
     SettingsReloaded, Presses, Follows
<1>7. CASE Pointing
  BY <1>7 DEF Pointing, ButtonDown, ButtonUp, PointerMoves, AutoScroll, MouseAsked, Around,
     Clicks, Moves
<1>8. CASE Pasting
  BY <1>8 DEF Pasting, MiddleClick, PasteNow, CopyNow, OwnerChanges, OwnerActs, AnswerRead,
     DeadlinePasses, Wants, Comes
<1>9. CASE Writing
  <2>1. CASE WriteToPTY
    BY <2>1 DEF WriteToPTY
  <2>2. CASE WriteProceeds
    BY <2>2 DEF WriteProceeds, WriteUnderLock, Writable, ReportFailure
  <2>3. CASE HangUp \/ ReaderSeesEnd \/ RunPosted \/ DestroyTerminal
    BY <2>3 DEF HangUp, ReaderSeesEnd, RunPosted, DestroyTerminal
  <2> QED
    BY <1>9, <2>1, <2>2, <2>3 DEF Writing
<1>10. CASE Embedding
  <2>1. CASE CreateEmbeddedTerminal \/ (\E k \in At(pane, "map") : Event /\ Hosts(HitTest(pane, k)))
             \/ ResizePane
    BY <2>1 DEF CreateEmbeddedTerminal, ResizePane, Event
  <2>2. CASE EvictOldestLine \/ ResetParent \/ ClickFocuses \/ FinishHandler
    BY <2>2 DEF EvictOldestLine, ResetParent, ClickFocuses, FinishHandler
  <2>3. CASE ScriptCloses \/ ScriptUnloads \/ ClosePane
    BY <2>3 DEF ScriptCloses, ScriptUnloads, ClosePane
  <2>4. CASE DrainEmbeddeds \/ RebuildShadow \/ Sweeping
    BY <2>4 DEF DrainEmbeddeds, RebuildShadow, Sweeping
  <2>5. CASE FrameStarts \/ FrameEnds
    BY <2>5 DEF FrameStarts, FrameEnds
  <2>6. CASE ClickOn
    BY <2>1, <2>6 DEF ClickOn
  <2> QED
    BY <1>10, <2>1, <2>2, <2>3, <2>4, <2>5, <2>6 DEF Embedding
<1>11. CASE UNCHANGED vars
  BY <1>11 DEF vars
<1> QED
  BY <1>1, <1>2, <1>3, <1>4, <1>5, <1>6, <1>7, <1>8, <1>9, <1>10, <1>11 DEF Next

LEMMA SaysKeeps ==
    ASSUME NEW new, Says(new), ShellSound(new, spent + 1)
    PROVE  ShellGood(shell', spent')
<1>1. shell' = [new EXCEPT !.batch = TRUE] /\ spent' = spent + 1
  BY DEF Says, Spend
<1>2. new = [f \in ShellFields |-> new[f]]
  BY DEF ShellSound
<1>3. PICK v : v = [new EXCEPT !.batch = TRUE]
  OBVIOUS
<1>4. v = [f \in ShellFields |-> IF f = "batch" THEN TRUE ELSE new[f]]
  BY <1>2, <1>3 DEF ShellFields
<1>5. ShellSound(v, spent + 1) /\ v.batch = TRUE
  BY <1>4 DEF ShellSound, ShellFields
<1> QED
  BY <1>1, <1>3, <1>5 DEF ShellGood

LEMMA ShellStep ==
    ASSUME ShellInv, [Next]_vars
    PROVE  ShellGood(shell', spent')
<1>1. ShellGood(shell, spent) /\ ShellSound(shell, spent) /\ ShellSound(shell, spent + 1)
  BY LaterShell DEF ShellInv, ShellGood
<1>2. ASSUME NEW new, Says(new), ShellSound(new, spent) PROVE ShellGood(shell', spent')
  BY <1>2, LaterShell, SaysKeeps
<1>3. ASSUME NEW new, User(new), ShellGood(new, spent) PROVE ShellGood(shell', spent')
  BY <1>3 DEF User, Free
<1>4. CASE MarkCommand
  BY <1>1, <1>2, <1>4, Osc133Keeps DEF MarkCommand
<1>5. CASE ReportDirectory \/ PrintText \/ ShellScreen
  BY <1>1, <1>2, <1>5, PlainKeeps, LineFeedKeeps DEF ReportDirectory, PrintText, ShellScreen
<1>6. CASE Notify
  BY <1>1, <1>6, Osc99Keeps, SaysKeeps DEF Notify
<1>7. CASE EndBatch
  BY <1>1, <1>7, PruneKeeps DEF EndBatch, Free
<1>8. CASE SelectByClick
  BY <1>1, <1>3, <1>8, ChooseKeeps DEF SelectByClick
<1>9. CASE Navigate
  BY <1>1, <1>3, <1>9, NavigateKeeps DEF Navigate
<1>10. CASE PressKey
  BY <1>1, <1>3, <1>10, NavigateKeeps DEF PressKey
<1>11. CASE UNCHANGED shell
  <2>1. ShellGood(shell, spent + 1)
    BY <1>1 DEF ShellGood
  <2> QED
    BY <1>1, <1>11, <2>1, OneAtATime
<1> QED
  BY <1>4, <1>5, <1>6, <1>7, <1>8, <1>9, <1>10, <1>11, ScenesApart DEF Shelling

LEMMA RowsFit ==
    ASSUME NEW b \in Nat, NEW n \in Nat, NEW l \in Nat, NEW s \in Nat, NEW y \in 0..(s - 1), NEW p \in Nat,
           s <= l, b = n - l, b <= p
    PROVE  /\ n - 1 - l + (l - s + y + 1) = b + (l - s + y)
           /\ p <= b + (l - s + y) =>
                 0 <= p - b /\ p - b <= l - s + y /\ l - s + y < l
           /\ \A e \in Nat : p <= e /\ e < n =>
                 /\ 0 <= p - b /\ p - b <= e - b /\ e - b < l
                 /\ e - b > p - b => p - b <= e - b - 1 /\ e - b - 1 < l
  OBVIOUS

\* The rows of the selected command, once the ring is pruned.
LEMMA RegionThere ==
    ASSUME NEW c, NEW k, ShellGood(c, k), c.batch = FALSE, c.sel # None, InOrder(c), ~c.alt
    PROVE  LET region == SelectedRegion(c)
           IN 0 <= region[1] /\ region[1] <= region[2] /\ region[2] < Len(c.ids)
<1>1. PICK r \in Seq(Records) : r = c.ring
  BY DEF ShellGood, ShellSound, RingSound
<1>2. /\ RingSound(r, c.done, c.next, c.nextLine) /\ LinesSound(c.ids, c.nextLine, c.y) /\ ShellSound(c, k)
      /\ Pruned(r, c.ids, c.sel)
  BY <1>1 DEF ShellGood, ShellSound
<1>3. DOMAIN r = 1..Len(r) /\ Len(r) \in Nat
  OBVIOUS
<1>4. c.sel \in Cmds(c)
  BY <1>1, <1>2, <1>3 DEF Pruned, Cmds
<1>5. PICK i : i = CHOOSE j \in DOMAIN r : r[j].id = c.sel
  OBVIOUS
<1>6. i \in 1..Len(r) /\ r[i].id = c.sel
  BY <1>1, <1>3, <1>4, <1>5 DEF Cmds
<1>7. PICK b \in Nat : b = c.ids[1]
  <2>1. 1 \in 1..Len(c.ids) /\ c.ids \in Seq(Nat)
    BY <1>2, ShellAssumption DEF LinesSound
  <2> QED
    BY <2>1
<1>8. PICK n \in Nat : n = c.nextLine
  BY <1>2 DEF LinesSound
<1>9. PICK l \in Nat : l = Len(c.ids)
  BY <1>2 DEF LinesSound
<1>10. ShellRows \in Nat \ {0} /\ ShellRows <= l /\ b = n - l /\ c.y \in 0..(ShellRows - 1) /\ l < n
  <2>1. b = n - l
    BY <1>2, <1>7, <1>8, <1>9, RowOf
  <2> QED
    BY <1>2, <1>8, <1>9, <2>1, ShellAssumption DEF LinesSound
<1>11. PICK y \in 0..(ShellRows - 1) : y = c.y
  BY <1>10
<1>12. PICK h \in Nat : h = Here(c) /\ h < n /\ h = b + (l - ShellRows + y)
  <2>1. /\ Here(c) \in Nat /\ Here(c) < c.nextLine
        /\ Here(c) = c.ids[Len(c.ids) - ShellRows + c.y + 1]
    BY <1>2, HereIs
  <2>2. PICK a : a = l - ShellRows + y + 1
    OBVIOUS
  <2>3. a \in 1..l
    BY <1>10, <2>2
  <2>4. c.ids[a] = n - 1 - l + a
    BY <1>2, <1>8, <1>9, <2>3 DEF LinesSound, Numbered
  <2>5. Here(c) = c.ids[a]
    BY <1>9, <1>11, <2>1, <2>2
  <2>6. n - 1 - l + a = b + (l - ShellRows + y)
    <3>1. ShellRows \in Nat /\ ShellRows <= l /\ b = n - l /\ b <= b
      BY <1>10
    <3> QED
      BY <2>2, <3>1, RowsFit
  <2> QED
    BY <1>8, <2>1, <2>4, <2>5, <2>6
<1>13. PICK p \in Nat : p = r[i].prompt
  BY <1>6, RecordFields
<1>14. PICK e \in Nat : e = r[i].end
  BY <1>6, RecordFields
<1>15. p <= (IF r[i].done THEN e ELSE h)
  BY <1>1, <1>3, <1>6, <1>12, <1>13, <1>14 DEF InOrder, Here
<1>16. b <= p
  <2>1. PICK P : P = {j \in 0..Len(r) : j = 0 \/ b <= r[j].prompt}
    OBVIOUS
  <2>2. P \in SUBSET (0..Len(r)) /\ 0 \in P
    BY <2>1
  <2>3. ASSUME NEW j \in 1..Len(r), j - 1 \in P PROVE j \in P
    <3>1. CASE j = 1
      <4>1. r # <<>>
        BY <3>1
      <4>2. b <= r[1].prompt
        BY <1>2, <1>7, <4>1 DEF Pruned
      <4> QED
        BY <2>1, <3>1, <4>2
    <3>2. CASE j # 1
      <4>1. j - 1 \in 1..Len(r) /\ b <= r[j - 1].prompt /\ j \in 2..Len(r)
        BY <2>1, <2>3, <3>2
      <4>2. r[j - 1].prompt <= r[j].prompt
        BY <1>1, <4>1 DEF InOrder
      <4>3. r[j - 1].prompt \in Nat /\ r[j].prompt \in Nat
        BY <4>1, RecordFields
      <4> QED
        BY <2>1, <4>1, <4>2, <4>3
    <3> QED
      BY <3>1, <3>2
  <2>4. P = 0..Len(r)
    BY <1>3, <2>2, <2>3, StepByStep
  <2> QED
    BY <1>6, <1>13, <2>1, <2>4
<1>17. p < n /\ (r[i].done = TRUE => e < n)
  BY <1>2, <1>6, <1>8, <1>13, <1>14 DEF RingSound
<1>18. FirstAbsOfLine(c, p) = p - b
  BY <1>2, <1>7, <1>8, <1>16, <1>17, RowOf
<1>19. ShellRows \in Nat /\ ShellRows <= l /\ b = n - l
  BY <1>10
<1>20. r[i].done \in BOOLEAN
  BY <1>6, RecordFields
<1>21. CASE r[i].done = TRUE
  <2>1. p <= e /\ b <= e /\ e < n
    BY <1>15, <1>16, <1>17, <1>21
  <2>2. FirstAbsOfLine(c, e) = e - b
    BY <1>2, <1>7, <1>8, <2>1, RowOf
  <2>3. PICK z : z = IF r[i].endCol = 0 /\ e - b > p - b THEN e - b - 1 ELSE e - b
    OBVIOUS
  <2>4. SelectedRegion(c) = <<p - b, z>>
    <3>1. PICK x : x = c.ring[CHOOSE j \in DOMAIN c.ring : c.ring[j].id = c.sel]
      OBVIOUS
    <3>2. x = r[i]
      BY <1>1, <1>5, <3>1
    <3>3. PICK f : f = FirstAbsOfLine(c, x.prompt)
      OBVIOUS
    <3>4. PICK g : g = FirstAbsOfLine(c, x.end)
      OBVIOUS
    <3>5. f = p - b /\ g = e - b
      BY <1>13, <1>14, <1>18, <2>2, <3>2, <3>3, <3>4, Zenon
    <3>6. SelectedRegion(c) = CASE c.alt \/ c.sel \notin Cmds(c) -> <<-1, -1>>
              [] ~c.alt /\ c.sel \in Cmds(c) /\ ~x.done -> <<f, History(c) + c.y>>
              [] OTHER -> <<f, IF x.endCol = 0 /\ g > f THEN g - 1 ELSE g>>
      BY <3>1, <3>3, <3>4 DEF SelectedRegion
    <3>7. ~(c.alt \/ c.sel \notin Cmds(c)) /\ ~(~c.alt /\ c.sel \in Cmds(c) /\ ~x.done)
      BY <1>4, <1>21, <3>2
    <3>8. SelectedRegion(c) = <<f, IF x.endCol = 0 /\ g > f THEN g - 1 ELSE g>>
      BY <3>6, <3>7
    <3> QED
      BY <2>3, <3>2, <3>5, <3>8
  <2>5. 0 <= p - b /\ p - b <= z /\ z < l
    <3>1. /\ 0 <= p - b /\ p - b <= e - b /\ e - b < l
          /\ e - b > p - b => p - b <= e - b - 1 /\ e - b - 1 < l
      BY <1>16, <1>19, <2>1, RowsFit
    <3> QED
      BY <2>3, <3>1
  <2> QED
    BY <1>9, <2>4, <2>5
<1>22. CASE r[i].done = FALSE
  <2>1. PICK z : z = l - ShellRows + y
    OBVIOUS
  <2>2. SelectedRegion(c) = <<p - b, z>>
    BY <1>1, <1>4, <1>5, <1>9, <1>11, <1>13, <1>18, <1>22, <2>1 DEF SelectedRegion, History
  <2>3. p <= b + z
    BY <1>12, <1>15, <1>22, <2>1
  <2>4. 0 <= p - b /\ p - b <= z /\ z < l
    BY <1>16, <1>19, <2>1, <2>3, RowsFit
  <2> QED
    BY <1>9, <2>2, <2>4
<1> QED
  BY <1>20, <1>21, <1>22

\* CommandsTrue: only the last command runs, each end is reported once and in order,
\* no notification shows what was sent for the one before, and the selected command
\* is in the ring, outlined on rows that the document has.
THEOREM CommandsAreTrue == Spec => []CommandsTrue
<1>1. Init => ShellInv
  <2> SUFFICES ASSUME Init PROVE ShellGood(shell, spent)
    BY DEF ShellInv
  <2>1. PICK c : c = ShellInit
    OBVIOUS
  <2>2. PICK ids : ids = [i \in 1..ShellRows |-> i]
    OBVIOUS
  <2>3. ShellRows \in Nat \ {0}
    BY ShellAssumption
  <2>4. /\ c = [f \in ShellFields |-> c[f]] /\ c.x = 0 /\ c.cwd = 0 /\ c.going = FALSE /\ c.ids = ids
        /\ c.nextLine = ShellRows + 1 /\ c.y = 0 /\ c.ring = <<>> /\ c.done = <<>> /\ c.next = 1
        /\ c.note = NoNote /\ c.since = 0 /\ c.carried = FALSE /\ c.sel = None
    BY <2>1, <2>2 DEF ShellInit, ShellFields, None
  <2>5. LinesSound(ids, ShellRows + 1, 0)
    <3>1. ids \in Seq(Nat) /\ Len(ids) = ShellRows /\ \A i \in 1..ShellRows : ids[i] = i
      BY <2>2, <2>3
    <3>2. \A i \in 1..ShellRows : (ShellRows + 1) - 1 - ShellRows + i = i
      BY <2>3
    <3> QED
      BY <2>3, <3>1, <3>2 DEF LinesSound, Numbered
  <2>6. <<>> \in Seq(Records) /\ <<>> \in Seq(Nat) /\ 1..Len(<<>>) = {} /\ <<>> \in Seq((0 + 1)..0)
    OBVIOUS
  <2>7. RingSound(<<>>, <<>>, 1, ShellRows + 1) /\ AllEnded(<<>>)
    BY <2>3, <2>6 DEF RingSound, AllEnded
  <2>8. NoteSound(NoNote, 0, 0)
    BY <2>6 DEF NoteSound, NoNote
  <2>9. Pruned(<<>>, ids, None)
    BY DEF Pruned
  <2>10. ShellSound(c, 0)
    <3>1. c.x \in Nat /\ c.cwd \in Nat /\ c.going \in BOOLEAN /\ c.carried = FALSE
      <4>1. 0 \in Nat /\ FALSE \in BOOLEAN
        OBVIOUS
      <4> QED
        BY <2>4, <4>1, Zenon
    <3>2. LinesSound(c.ids, c.nextLine, c.y) /\ RingSound(c.ring, c.done, c.next, c.nextLine)
      BY <2>4, <2>5, <2>7, Zenon
    <3>3. AllEnded(c.ring) /\ NoteSound(c.note, c.since, 0)
      BY <2>4, <2>7, <2>8, Zenon
    <3>4. c = [f \in ShellFields |-> c[f]]
      BY <2>4
    <3> QED
      BY <3>1, <3>2, <3>3, <3>4, Zenon DEF ShellSound
  <2>11. ShellGood(c, 0)
    BY <2>4, <2>9, <2>10 DEF ShellGood
  <2>12. shell = c /\ spent = 0
    BY <2>1 DEF Init
  <2> QED
    BY <2>11, <2>12
<1>2. ShellInv => CommandsTrue
  <2> SUFFICES ASSUME ShellInv PROVE CommandsTrue
    OBVIOUS
  <2>1. ShellGood(shell, spent) /\ ShellSound(shell, spent)
    BY DEF ShellInv, ShellGood
  <2>2. PICK r \in Seq(Records) : r = shell.ring
    BY <2>1 DEF ShellSound, RingSound
  <2>3. PICK d \in Seq(Nat) : d = shell.done
    BY <2>1 DEF ShellSound, RingSound
  <2>4. RingSound(r, d, shell.next, shell.nextLine)
    BY <2>1, <2>2, <2>3 DEF ShellSound
  <2>5. DOMAIN r = 1..Len(r) /\ DOMAIN d = 1..Len(d)
    OBVIOUS
  <2>6. ASSUME NEW i \in 1..Len(r)
        PROVE  /\ (i < Len(r)) => r[i].done
               /\ r[i].done <=> Contains(d, r[i].id)
    <3>1. r[i].done \in BOOLEAN
      BY RecordFields
    <3>2. /\ i < Len(r) => r[i].done = TRUE
          /\ r[i].done = TRUE => \E h \in 1..Len(d) : d[h] = r[i].id
          /\ r[i].done # TRUE => \A h \in 1..Len(d) : d[h] # r[i].id
      BY <2>4 DEF RingSound
    <3>3. Contains(d, r[i].id) <=> \E h \in 1..Len(d) : d[h] = r[i].id
      BY DEF Contains
    <3> QED
      BY <3>1, <3>2, <3>3, Zenon
  <2>7. \A i, j \in 1..Len(d) : i < j => d[i] < d[j]
    BY <2>4 DEF RingSound
  <2>8. OnlyLastOpen
    BY <2>2, <2>3, <2>5, <2>6, <2>7, Zenon DEF OnlyLastOpen
  <2>9. ~shell.carried
    BY <2>1 DEF ShellSound
  <2>10. CASE ~shell.batch /\ shell.sel # None
    <3>1. shell.batch = FALSE
      BY <2>1, <2>10 DEF ShellGood
    <3>2. Pruned(r, shell.ids, shell.sel)
      BY <2>1, <2>2, <3>1 DEF ShellGood
    <3>3. shell.sel \in Cmds(shell)
      BY <2>2, <2>5, <2>10, <3>2 DEF Pruned, Cmds
    <3>4. ASSUME InOrder(shell), ~shell.alt
          PROVE  LET region == SelectedRegion(shell)
                 IN 0 <= region[1] /\ region[1] <= region[2] /\ region[2] < Len(shell.ids)
      BY <2>1, <2>10, <3>1, <3>4, RegionThere
    <3> QED
      BY <2>8, <2>9, <3>3, <3>4 DEF CommandsTrue
  <2>11. CASE ~(~shell.batch /\ shell.sel # None)
    BY <2>8, <2>9, <2>11 DEF CommandsTrue
  <2> QED
    BY <2>10, <2>11
<1>3. ShellInv /\ [Next]_vars => ShellInv'
  BY ShellStep DEF ShellInv
<1> QED
  BY <1>1, <1>2, <1>3, PTL DEF Spec
=============================================================================
