---------------------------- MODULE ScriptsProofs ----------------------------
(***************************************************************************)
(* Theorems about Scripts for every set of script files, permissions,      *)
(* panes and names, and whatever bounds the calls and the events have.     *)
(*                                                                         *)
(* The engine is one record of many fields, and most operators touch a few *)
(* of them.  Changes says which; what an invariant says of the other       *)
(* fields then holds of the new record.                                    *)
(***************************************************************************)
EXTENDS Scripts,
        SequencesExt, FiniteSetsExt, TLAPS,
        WellFoundedInduction, NaturalsInduction, FiniteSetTheorems

-----------------------------------------------------------------------------
(* What the proofs need of numbers and of sums over sets.  The library's   *)
(* induction theorems take an operator, which none of the provers can      *)
(* instantiate; StepByStep is induction for a set instead.                 *)

LEMMA Smallest ==
    ASSUME NEW S \in SUBSET Nat, S # {}
    PROVE  \E m \in S : \A n \in S : m <= n
<1> DEFINE R == {ss \in Nat \X Nat : ss[1] < ss[2]}
<1>1. IsWellFoundedOn(R, Nat)
  BY NatLessThanWellFounded, Zenon DEF OpToRel
<1>2. PICK m \in S : \A n \in S : <<n, m>> \notin R
  <2> HIDE DEF R
  <2> QED
    BY <1>1, WFMin
<1>3. ASSUME NEW n \in S PROVE m <= n
  <2>1. n \in Nat /\ m \in Nat /\ ~(n < m)
    BY <1>2
  <2> QED
    BY <2>1
<1> QED
  BY <1>3

\* What is so at first, and stays so with each of n steps, is so in the end.
LEMMA StepByStep ==
    ASSUME NEW n \in Nat, NEW T \in SUBSET (0..n), 0 \in T, \A k \in 1..n : k - 1 \in T => k \in T
    PROVE  T = 0..n
<1> SUFFICES ASSUME (0..n) \ T # {} PROVE FALSE
  OBVIOUS
<1>1. PICK m \in (0..n) \ T : \A k \in (0..n) \ T : m <= k
  <2>1. (0..n) \ T \in SUBSET Nat
    OBVIOUS
  <2> QED
    BY <2>1, Smallest
<1>2. m # 0 /\ m - 1 \in 0..n /\ m \in 1..n
  BY <1>1
<1>3. m - 1 \in T
  BY <1>1, <1>2
<1> QED
  BY <1>1, <1>2, <1>3

LEMMA LastOf ==
    ASSUME NEW n \in Nat, NEW S \in SUBSET (1..n), S # {}
    PROVE  Max(S) \in S /\ \A i \in S : i <= Max(S)
<1> DEFINE T == {n - i : i \in S}
<1>1. T \in SUBSET Nat /\ T # {}
  <2>1. \A i \in S : n - i \in Nat
    OBVIOUS
  <2> QED
    BY <2>1
<1>2. PICK m \in T : \A t \in T : m <= t
  <2> HIDE DEF T
  <2> QED
    BY <1>1, Smallest
<1>3. PICK i \in S : m = n - i
  BY <1>2
<1>4. ASSUME NEW j \in S PROVE i >= j
  <2>1. n - j \in T /\ i \in Nat /\ j \in Nat
    OBVIOUS
  <2>2. n - i <= n - j
    BY <1>2, <1>3, <2>1
  <2> QED
    BY <2>1, <2>2
<1>5. \E x \in S : \A y \in S : x >= y
  BY <1>4
<1>6. Max(S) \in S /\ \A y \in S : Max(S) >= y
  BY <1>5 DEF Max
<1> QED
  BY <1>6

\* A fold's recursive function exists, on all sets of positions.
FoldedBy(it, n, b, step) ==
    it = [s \in SUBSET (1..n) |-> IF s = {} THEN b ELSE step[Max(s)][it[s \ {Max(s)}]]]

LEMMA FoldExists ==
    ASSUME NEW n \in Nat, NEW A, NEW b \in A, NEW step \in [1..n -> [A -> A]]
    PROVE  \E it \in [SUBSET (1..n) -> A] : FoldedBy(it, n, b, step)
<1> DEFINE Has(m) == \E it \in [SUBSET (1..m) -> A] : FoldedBy(it, m, b, step)
<1>1. Has(0)
  <2>1. SUBSET (1..0) = {{}}
    OBVIOUS
  <2>2. PICK it : it = [s \in {{}} |-> b]
    OBVIOUS
  <2> QED
    BY <2>1, <2>2 DEF FoldedBy
<1>2. ASSUME NEW m \in 0..(n - 1), Has(m) PROVE Has(m + 1)
  <2>1. PICK it \in [SUBSET (1..m) -> A] : FoldedBy(it, m, b, step)
    BY <1>2
  <2>2. PICK jt : jt = [s \in SUBSET (1..(m + 1)) |->
                          IF m + 1 \in s THEN step[m + 1][it[s \ {m + 1}]] ELSE it[s]]
    OBVIOUS
  <2>3. \A s \in SUBSET (1..(m + 1)) : /\ s \ {m + 1} \in SUBSET (1..m)
                                       /\ m + 1 \notin s => s \in SUBSET (1..m)
    OBVIOUS
  <2>4. m + 1 \in 1..n /\ step[m + 1] \in [A -> A]
    OBVIOUS
  <2>5. jt \in [SUBSET (1..(m + 1)) -> A]
    BY <2>1, <2>2, <2>3, <2>4
  <2>6. \A s \in SUBSET (1..m) : jt[s] = it[s] /\ s \in SUBSET (1..(m + 1))
    <3>1. \A s \in SUBSET (1..m) : m + 1 \notin s /\ s \in SUBSET (1..(m + 1))
      OBVIOUS
    <3> QED
      BY <2>2, <3>1
  <2>7. ASSUME NEW s \in SUBSET (1..(m + 1))
        PROVE  jt[s] = IF s = {} THEN b ELSE step[Max(s)][jt[s \ {Max(s)}]]
    <3>1. CASE m + 1 \in s
      <4>0. m + 1 \in Nat /\ s # {}
        BY <3>1
      <4>1. Max(s) \in s /\ (\A i \in s : i <= Max(s))
        BY <4>0, LastOf
      <4>2. Max(s) = m + 1
        <5>1. \A x \in s : x \in Nat /\ x <= m + 1
          OBVIOUS
        <5>2. PICK x : x = Max(s)
          OBVIOUS
        <5>3. x \in Nat /\ m + 1 <= x /\ x <= m + 1
          BY <3>1, <4>1, <5>1, <5>2
        <5> QED
          BY <5>2, <5>3
      <4> QED
        BY <2>2, <2>3, <2>6, <3>1, <4>2
    <3>2. CASE m + 1 \notin s
      <4>1. s \in SUBSET (1..m) /\ s \ {Max(s)} \in SUBSET (1..m)
        BY <2>3, <3>2
      <4>2. it[s] = IF s = {} THEN b ELSE step[Max(s)][it[s \ {Max(s)}]]
        BY <2>1, <4>1 DEF FoldedBy
      <4> QED
        BY <2>6, <4>1, <4>2
    <3> QED
      BY <3>1, <3>2
  <2>8. FoldedBy(jt, m + 1, b, step)
    BY <2>5, <2>7 DEF FoldedBy
  <2> QED
    BY <2>5, <2>8
<1> HIDE DEF Has
<1>3. {m \in 0..n : Has(m)} = 0..n
  <2>1. PICK T : T = {m \in 0..n : Has(m)}
    OBVIOUS
  <2>2. T \in SUBSET (0..n) /\ 0 \in T
    BY <1>1, <2>1
  <2>3. ASSUME NEW k \in 1..n, k - 1 \in T PROVE k \in T
    <3>1. k - 1 \in 0..(n - 1) /\ Has(k - 1) /\ (k - 1) + 1 = k
      BY <2>1, <2>3
    <3>2. Has((k - 1) + 1)
      BY <1>2, <3>1
    <3> QED
      BY <2>1, <3>1, <3>2
  <2> QED
    BY <2>1, <2>2, <2>3, StepByStep
<1>4. Has(n)
  BY <1>3
<1> QED
  BY <1>4 DEF Has

\* g sums f over the sets of positions up to n, in whatever order.
SumBy(g, n, f) == /\ g \in [SUBSET (1..n) -> Nat] /\ g[{}] = 0
                  /\ \A s \in SUBSET (1..n) : \A x \in s : g[s] = f[x] + g[s \ {x}]

LEMMA SumExists == ASSUME NEW n \in Nat, NEW f \in [1..n -> Nat] PROVE \E g : SumBy(g, n, f)
<1>1. PICK step : step = [i \in 1..n |-> [k \in Nat |-> f[i] + k]]
  OBVIOUS
<1>2. step \in [1..n -> [Nat -> Nat]]
  BY <1>1
<1>3. PICK g \in [SUBSET (1..n) -> Nat] : FoldedBy(g, n, 0, step)
  BY <1>2, FoldExists
<1>4. /\ g[{}] = 0
      /\ \A s \in SUBSET (1..n) : s # {} => g[s] = step[Max(s)][g[s \ {Max(s)}]]
  BY <1>3 DEF FoldedBy
<1>5. ASSUME NEW s \in SUBSET (1..n), s # {}
      PROVE  /\ Max(s) \in s /\ (\A i \in s : i <= Max(s))
             /\ g[s] = f[Max(s)] + g[s \ {Max(s)}]
  <2>1. Max(s) \in s /\ \A i \in s : i <= Max(s)
    BY <1>5, LastOf
  <2>2. Max(s) \in 1..n /\ g[s \ {Max(s)}] \in Nat
    BY <1>3, <2>1
  <2>3. step[Max(s)][g[s \ {Max(s)}]] = f[Max(s)] + g[s \ {Max(s)}]
    BY <1>1, <2>2
  <2> QED
    BY <1>4, <1>5, <2>1, <2>3
<1> DEFINE AnyOf(m) == \A s \in SUBSET (1..m) : \A x \in s : g[s] = f[x] + g[s \ {x}]
<1>6. PICK T : T = {m \in 0..n : AnyOf(m)}
  OBVIOUS
<1>7. T \in SUBSET (0..n) /\ 0 \in T
  <2>1. 1..0 = {} /\ 0 \in 0..n
    OBVIOUS
  <2>2. AnyOf(0)
    BY <2>1
  <2> QED
    BY <1>6, <2>1, <2>2
<1>8. ASSUME NEW m \in 1..n, m - 1 \in T PROVE m \in T
  <2>1. AnyOf(m - 1)
    BY <1>6, <1>8
  <2>2. ASSUME NEW s \in SUBSET (1..m), NEW x \in s PROVE g[s] = f[x] + g[s \ {x}]
    <3>1. s \in SUBSET (1..n) /\ s # {}
      OBVIOUS
    <3>2. PICK y : y = Max(s)
      OBVIOUS
    <3>3. y \in s /\ (\A i \in s : i <= y) /\ g[s] = f[y] + g[s \ {y}]
      BY <1>5, <3>1, <3>2
    <3>4. CASE x = y
      BY <3>3, <3>4
    <3>5. CASE x # y
      <4>1. PICK t, u : t = s \ {y} /\ u = s \ {x}
        OBVIOUS
      <4>2. \A i \in t : i \in 1..(m - 1)
        BY <3>3, <4>1
      <4>3. t \in SUBSET (1..(m - 1)) /\ x \in t
        BY <3>5, <4>1, <4>2
      <4>4. g[t] = f[x] + g[t \ {x}]
        BY <2>1, <4>3
      <4>5. u \in SUBSET (1..n) /\ y \in u
        BY <3>1, <3>3, <3>5, <4>1
      <4>6. u # {}
        BY <4>5
      <4>7. Max(u) \in u /\ (\A i \in u : i <= Max(u)) /\ g[u] = f[Max(u)] + g[u \ {Max(u)}]
        BY <1>5, <4>5, <4>6
      <4>8. PICK z : z = Max(u)
        OBVIOUS
      <4>9. z \in u /\ (\A i \in u : i <= z) /\ g[u] = f[z] + g[u \ {z}]
        BY <4>7, <4>8
      <4>a. z \in s /\ z \in 1..n /\ y \in 1..n
        BY <3>1, <3>3, <4>1, <4>9
      <4>b. y <= z /\ z <= y
        BY <3>3, <4>5, <4>9, <4>a
      <4>10. z = y
        BY <4>a, <4>b
      <4>11. g[u] = f[y] + g[u \ {y}]
        BY <4>9, <4>10
      <4>12. t \ {x} = u \ {y} /\ t \ {x} \in SUBSET (1..n)
        BY <3>1, <4>1
      <4>13. g[t \ {x}] \in Nat /\ f[x] \in Nat /\ f[y] \in Nat
        BY <1>3, <3>1, <3>3, <4>12
      <4>14. PICK i, j, k : i = f[x] /\ j = f[y] /\ k = g[t \ {x}]
        OBVIOUS
      <4>15. g[t] = i + k /\ g[u] = j + k /\ g[s] = j + g[t]
        BY <3>3, <4>1, <4>4, <4>11, <4>12, <4>14
      <4>16. i \in Nat /\ j \in Nat /\ k \in Nat
        BY <4>13, <4>14
      <4>17. g[s] = i + g[u]
        BY <4>15, <4>16
      <4> QED
        BY <4>1, <4>14, <4>17
    <3> QED
      BY <3>4, <3>5
  <2>3. AnyOf(m) /\ m \in 0..n
    BY <2>2
  <2> QED
    BY <1>6, <2>3
<1>9. n \in T
  BY <1>7, <1>8, StepByStep
<1>10. AnyOf(n)
  BY <1>6, <1>9
<1>11. SumBy(g, n, f)
  BY <1>4, <1>10 DEF SumBy
<1> QED
  BY <1>11

-----------------------------------------------------------------------------
Fields == {"inst", "lst", "count", "flag", "jobs", "exits", "timers", "made", "actions",
           "handlers", "popups", "embeds", "lines", "focused", "panes", "keys", "pending",
           "list", "disk", "modules", "w", "tcaps", "files"}
IsEngine(a) == a = [f \in Fields |-> a[f]]
Changes(a, b, F) == IsEngine(b) /\ \A f \in Fields \ F : b[f] = a[f]

InstFields == {"path", "hash", "perms", "builtIn", "ctx", "held", "ns", "popups", "embeds", "uses"}
IsInst(i) == /\ i = [f \in InstFields |-> i[f]]
             /\ i.ctx \in BOOLEAN /\ i.builtIn \in BOOLEAN
             /\ i.uses \in [Counted -> [Panes -> Nat]]

\* What is so of every engine: instances are numbered as they were loaded,
\* listeners and registrations are counted.
Engine(a) ==
    /\ IsEngine(a)
    /\ a.inst = [id \in DOMAIN a.inst |-> a.inst[id]]
    /\ \E n \in Nat : DOMAIN a.inst = 1..n
    /\ \A id \in DOMAIN a.inst : IsInst(a.inst[id])
    /\ a.lst = [k \in DOMAIN a.lst |-> a.lst[k]]
    /\ \A k \in DOMAIN a.lst : a.lst[k] \in [DOMAIN a.lst[k] -> Nat]
    /\ a.count \in [Counted -> [Panes -> Nat]]
    /\ a.flag \in [Filters -> [Panes -> BOOLEAN]]

-----------------------------------------------------------------------------
(* Which fields an operator changes.                                       *)

LEMMA NoChange == ASSUME NEW a, IsEngine(a), NEW F PROVE Changes(a, a, F)
  BY DEF Changes

LEMMA ChangesMore ==
    ASSUME NEW a, NEW b, NEW F, NEW G, Changes(a, b, F), F \subseteq G
    PROVE  Changes(a, b, G)
  BY DEF Changes

LEMMA ChangesTwice ==
    ASSUME NEW a, NEW b, NEW c, NEW F, Changes(a, b, F), Changes(b, c, F)
    PROVE  Changes(a, c, F)
  BY DEF Changes

LEMMA EnqueueChanges ==
    ASSUME NEW a, IsEngine(a), NEW ids, NEW obj, NEW v
    PROVE  Changes(a, EnqueueListeners(a, ids, obj, v), {"jobs"})
  BY DEF Changes, IsEngine, Fields, EnqueueListeners

LEMMA NotifyMbChanges ==
    ASSUME NEW a, IsEngine(a), NEW v PROVE Changes(a, NotifyMb(a, v), {"jobs"})
  BY EnqueueChanges DEF NotifyMb
LEMMA NotifyPaneChanges ==
    ASSUME NEW a, IsEngine(a), NEW p, NEW v PROVE Changes(a, NotifyPane(a, p, v), {"jobs"})
  BY EnqueueChanges DEF NotifyPane
LEMMA NotifyOSCChanges ==
    ASSUME NEW a, IsEngine(a), NEW p PROVE Changes(a, NotifyOSC(a, p), {"jobs"})
  BY DEF Changes, IsEngine, Fields, NotifyOSC
LEMMA PermissionRequiredChanges ==
    ASSUME NEW a, IsEngine(a) PROVE Changes(a, NotifyPermissionRequired(a), {"jobs"})
  BY EnqueueChanges DEF NotifyPermissionRequired
LEMMA DestroyedChanges ==
    ASSUME NEW a, IsEngine(a), NEW p, NEW l
    PROVE  Changes(a, DeliverEmbeddedDestroyed(a, p, l), {"jobs"})
  BY EnqueueChanges DEF DeliverEmbeddedDestroyed

LEMMA TerminationChanges ==
    ASSUME NEW a, IsEngine(a), NEW id PROVE Changes(a, ScheduleTermination(a, id), {"exits"})
  BY DEF Changes, IsEngine, Fields, ScheduleTermination
LEMMA RequireIs ==
    ASSUME NEW a, NEW id, NEW perm, NEW then
    PROVE  \/ Live(a, id) /\ Require(a, id, perm, then) = then
           \/ Require(a, id, perm, then) = ScheduleTermination(a, id)
  BY DEF Require, HasPerm

LEMMA ApplyConfigChanges ==
    ASSUME NEW a, IsEngine(a), NEW keys PROVE Changes(a, ApplyConfigJson(a, keys), {"keys", "jobs"})
<1>1. PICK b : b = [a EXCEPT !.keys = keys]
  OBVIOUS
<1>2. Changes(a, b, {"keys"})
  BY <1>1 DEF Changes, IsEngine, Fields
<1>3. Changes(b, NotifyMb(b, "configChanged"), {"jobs"})
  BY <1>2, NotifyMbChanges DEF Changes
<1> QED
  BY <1>1, <1>2, <1>3 DEF ApplyConfigJson, NotifyConfigChanged, Changes

LEMMA SetTimerChanges ==
    ASSUME NEW a, IsEngine(a), NEW id, NEW interval
    PROVE  Changes(a, SetTimer(a, id, interval), {"made", "timers"})
  BY DEF Changes, IsEngine, Fields, SetTimer
LEMMA ClearTimerChanges ==
    ASSUME NEW a, IsEngine(a), NEW t PROVE Changes(a, JsClearTimer(a, t), {"timers"})
  BY DEF Changes, IsEngine, Fields, JsClearTimer

LEMMA DestroyPopupChanges ==
    ASSUME NEW a, IsEngine(a), NEW p, NEW n
    PROVE  /\ Changes(a, DestroyPopup(a, p, n), {"popups", "focused", "jobs"})
           /\ DestroyPopup(a, p, n).popups \in {a.popups, a.popups \ {<<p, n>>}}
<1> DEFINE was == HasPopup(a, p, n) /\ a.focused[p] = PopupObj(p, n)
<1>1. PICK b : b = [a EXCEPT !.popups = @ \ {<<p, n>>}, !.focused[p] = IF was THEN Nil ELSE @]
  OBVIOUS
<1>2. Changes(a, b, {"popups", "focused"}) /\ b.popups = a.popups \ {<<p, n>>}
  BY <1>1 DEF Changes, IsEngine, Fields
<1>3. Changes(b, NotifyFocusedPopupChanged(b, p), {"jobs"})
  BY <1>2, NotifyPaneChanges DEF NotifyFocusedPopupChanged, Changes
<1>4. DestroyPopup(a, p, n) \in {a, b, NotifyFocusedPopupChanged(b, p)}
  BY <1>1 DEF DestroyPopup
<1>5. CASE DestroyPopup(a, p, n) = a
  BY <1>5, NoChange
<1>6. CASE DestroyPopup(a, p, n) = b
  BY <1>2, <1>6 DEF Changes
<1>7. CASE DestroyPopup(a, p, n) = NotifyFocusedPopupChanged(b, p)
  BY <1>2, <1>3, <1>7 DEF Changes, Fields
<1> QED
  BY <1>4, <1>5, <1>6, <1>7

LEMMA DestroyEmbeddedChanges ==
    ASSUME NEW a, IsEngine(a), NEW p, NEW l
    PROVE  /\ Changes(a, DestroyEmbedded(a, p, l), {"embeds", "focused"})
           /\ DestroyEmbedded(a, p, l).embeds = a.embeds \ {<<p, l>>}
  BY DEF Changes, IsEngine, Fields, DestroyEmbedded

LEMMA FocusChanges ==
    ASSUME NEW a, IsEngine(a), NEW p, NEW n
    PROVE  /\ Changes(a, SetFocusedPopup(a, p, n), {"focused", "jobs"})
           /\ Changes(a, SetFocusedEmbedded(a, p, n), {"focused", "jobs"})
<1>1. PICK b : b = [a EXCEPT !.focused[p] = PopupObj(p, n)]
  OBVIOUS
<1>2. PICK c : c = [a EXCEPT !.focused[p] = EmbedObj(p, n)]
  OBVIOUS
<1>3. Changes(a, b, {"focused"}) /\ Changes(a, c, {"focused"})
  BY <1>1, <1>2 DEF Changes, IsEngine, Fields
<1>4. Changes(b, NotifyFocusedPopupChanged(b, p), {"jobs"})
  BY <1>3, NotifyPaneChanges DEF NotifyFocusedPopupChanged, Changes
<1>5. Changes(c, NotifyFocusedPopupChanged(c, p), {"jobs"})
  BY <1>3, NotifyPaneChanges DEF NotifyFocusedPopupChanged, Changes
<1>6. SetFocusedPopup(a, p, n) \in {a, NotifyFocusedPopupChanged(b, p)}
  BY <1>1 DEF SetFocusedPopup
<1>7. SetFocusedEmbedded(a, p, n) \in {a, NotifyFocusedPopupChanged(c, p)}
  BY <1>2 DEF SetFocusedEmbedded
<1>8. Changes(a, NotifyFocusedPopupChanged(b, p), {"focused", "jobs"})
  BY <1>3, <1>4 DEF Changes
<1>9. Changes(a, NotifyFocusedPopupChanged(c, p), {"focused", "jobs"})
  BY <1>3, <1>5 DEF Changes
<1>10. Changes(a, a, {"focused", "jobs"})
  BY NoChange
<1> QED
  BY <1>6, <1>7, <1>8, <1>9, <1>10

-----------------------------------------------------------------------------
(* Listeners.                                                              *)

ListenerTypes(lst) == /\ lst = [k \in DOMAIN lst |-> lst[k]]
                      /\ \A k \in DOMAIN lst : lst[k] \in [DOMAIN lst[k] -> Nat]
\* Nobody has a listener for a counted event of a pane in b but not in a.
Fewer(a, b) ==
    \A id \in Nat, p \in Panes, v \in Counted :
        Listeners(b, id, PaneObj(p), v) > 0 => Listeners(a, id, PaneObj(p), v) > 0

LEMMA ListenersOf ==
    ASSUME NEW a, NEW b, b.lst = a.lst, NEW id, NEW obj, NEW v
    PROVE  Listeners(b, id, obj, v) = Listeners(a, id, obj, v)
  BY DEF Listeners, Registered

LEMMA ListenersNat ==
    ASSUME NEW a, ListenerTypes(a.lst), NEW id, NEW obj, NEW v
    PROVE  Listeners(a, id, obj, v) \in Nat
  BY DEF Listeners, Registered, ListenerTypes

LEMMA SameLstFewer ==
    ASSUME NEW a, NEW b, b.lst = a.lst PROVE Fewer(a, b)
  BY ListenersOf DEF Fewer

LEMMA FewerTwice ==
    ASSUME NEW a, NEW b, NEW c, Fewer(a, b), Fewer(b, c) PROVE Fewer(a, c)
  BY DEF Fewer

LEMMA RegisterChanges ==
    ASSUME NEW a, IsEngine(a), ListenerTypes(a.lst), NEW id, NEW obj
    PROVE  LET b == RegisterInGlobal(a, id, obj)
           IN /\ Changes(a, b, {"lst"}) /\ ListenerTypes(b.lst)
              /\ <<id, obj>> \in DOMAIN b.lst
              /\ \A i, o, v : Listeners(b, i, o, v) = Listeners(a, i, o, v)
<1>1. PICK b : b = RegisterInGlobal(a, id, obj)
  OBVIOUS
<1>2. CASE Registered(a, id, obj)
  BY <1>1, <1>2, NoChange DEF RegisterInGlobal, Registered
<1>3. CASE ~Registered(a, id, obj)
  <2>1. b = [a EXCEPT !.lst = Put(@, <<id, obj>>, <<>>)]
    BY <1>1, <1>3 DEF RegisterInGlobal
  <2>2. Changes(a, b, {"lst"}) /\ b.lst = Put(a.lst, <<id, obj>>, <<>>)
    BY <2>1 DEF Changes, IsEngine, Fields
  <2>3. /\ b.lst = [k \in DOMAIN b.lst |-> b.lst[k]]
        /\ DOMAIN b.lst = DOMAIN a.lst \cup {<<id, obj>>}
        /\ \A k \in DOMAIN b.lst : b.lst[k] = IF k = <<id, obj>> THEN <<>> ELSE a.lst[k]
    BY <1>3, <2>2 DEF Registered, Put
  <2>4. DOMAIN <<>> = {} /\ <<>> \in [DOMAIN <<>> -> Nat]
    OBVIOUS
  <2>5. ListenerTypes(b.lst)
    BY <2>3, <2>4 DEF ListenerTypes
  <2>6. ASSUME NEW i, NEW o, NEW v PROVE Listeners(b, i, o, v) = Listeners(a, i, o, v)
    <3>1. CASE <<i, o>> = <<id, obj>>
      BY <1>3, <2>3, <2>4, <3>1 DEF Listeners, Registered
    <3>2. CASE <<i, o>> # <<id, obj>>
      BY <2>3, <3>2 DEF Listeners, Registered
    <3> QED
      BY <3>1, <3>2
  <2> QED
    BY <1>1, <2>2, <2>3, <2>5, <2>6
<1> QED
  BY <1>2, <1>3

LEMMA PushChanges ==
    ASSUME NEW a, IsEngine(a), ListenerTypes(a.lst), NEW id, NEW obj, NEW v, NEW reached,
           <<id, obj>> \in DOMAIN a.lst
    PROVE  LET b == PushListener(a, id, obj, v, reached)
           IN /\ Changes(a, b, {"lst"}) /\ ListenerTypes(b.lst)
              /\ \A i, o, w : Listeners(b, i, o, w) # Listeners(a, i, o, w) =>
                                i = id /\ o = obj /\ w = v
<1>1. PICK b : b = PushListener(a, id, obj, v, reached)
  OBVIOUS
<1>2. CASE ~reached
  BY <1>1, <1>2, NoChange DEF PushListener
<1>3. CASE reached
  <2>0. PICK n : n = Listeners(a, id, obj, v) + 1
    OBVIOUS
  <2>1. b = [a EXCEPT !.lst[<<id, obj>>] = Put(@, v, n)]
    BY <1>1, <1>3, <2>0 DEF PushListener
  <2>2. Changes(a, b, {"lst"}) /\ b.lst = [a.lst EXCEPT ![<<id, obj>>] = Put(@, v, n)]
    BY <2>1 DEF Changes, IsEngine, Fields
  <2>3. /\ b.lst = [k \in DOMAIN b.lst |-> b.lst[k]]
        /\ DOMAIN b.lst = DOMAIN a.lst
        /\ \A k \in DOMAIN b.lst : b.lst[k] = IF k = <<id, obj>> THEN Put(a.lst[k], v, n) ELSE a.lst[k]
    BY <2>2 DEF ListenerTypes
  <2>4. n \in Nat
    BY <2>0, ListenersNat
  <2>5. ListenerTypes(b.lst)
    <3>1. ASSUME NEW k \in DOMAIN b.lst PROVE b.lst[k] \in [DOMAIN b.lst[k] -> Nat]
      <4>1. a.lst[k] \in [DOMAIN a.lst[k] -> Nat]
        BY <2>3, <3>1 DEF ListenerTypes
      <4>2. Put(a.lst[k], v, n) \in [DOMAIN Put(a.lst[k], v, n) -> Nat]
        BY <2>4, <4>1 DEF Put
      <4> QED
        BY <2>3, <3>1, <4>1, <4>2
    <3> QED
      BY <2>3, <3>1 DEF ListenerTypes
  <2>6. ASSUME NEW i, NEW o, NEW w, <<i, o>> # <<id, obj>> \/ w # v
        PROVE  Listeners(b, i, o, w) = Listeners(a, i, o, w)
    <3>1. CASE <<i, o>> = <<id, obj>>
      <4>1. w # v
        BY <2>6, <3>1
      <4>2. b.lst[<<i, o>>] = Put(a.lst[<<i, o>>], v, n) /\ <<i, o>> \in DOMAIN a.lst
        BY <2>3, <3>1
      <4>3. PICK g : g = a.lst[<<i, o>>]
        OBVIOUS
      <4>4. /\ w \in DOMAIN Put(g, v, n) <=> w \in DOMAIN g
            /\ w \in DOMAIN g => Put(g, v, n)[w] = g[w]
        BY <4>1 DEF Put
      <4> QED
        BY <2>3, <4>2, <4>3, <4>4 DEF Listeners, Registered
    <3>2. CASE <<i, o>> # <<id, obj>>
      BY <2>3, <3>2 DEF Listeners, Registered
    <3> QED
      BY <3>1, <3>2
  <2>7. \A i, o, w : Listeners(b, i, o, w) # Listeners(a, i, o, w) => i = id /\ o = obj /\ w = v
    BY <2>6
  <2> QED
    BY <1>1, <2>2, <2>5, <2>7
<1> QED
  BY <1>2, <1>3

LEMMA RemoveChanges ==
    ASSUME NEW a, IsEngine(a), ListenerTypes(a.lst), NEW id, NEW obj, NEW v
    PROVE  LET b == RemoveFromJSArray(a, id, obj, v)
           IN Changes(a, b, {"lst"}) /\ ListenerTypes(b.lst) /\ Fewer(a, b)
<1>1. PICK b : b = RemoveFromJSArray(a, id, obj, v)
  OBVIOUS
<1>2. CASE Listeners(a, id, obj, v) = 0
  BY <1>1, <1>2, NoChange, SameLstFewer DEF RemoveFromJSArray
<1>3. CASE Listeners(a, id, obj, v) # 0
  <2>0. <<id, obj>> \in DOMAIN a.lst /\ v \in DOMAIN a.lst[<<id, obj>>]
        /\ a.lst[<<id, obj>>][v] \in Nat \ {0}
    BY <1>3 DEF Listeners, Registered, ListenerTypes
  <2>1. b = [a EXCEPT !.lst[<<id, obj>>][v] = @ - 1]
    BY <1>1, <1>3 DEF RemoveFromJSArray
  <2>2. Changes(a, b, {"lst"}) /\ b.lst = [a.lst EXCEPT ![<<id, obj>>][v] = @ - 1]
    BY <2>1 DEF Changes, IsEngine, Fields
  <2>3. /\ b.lst = [k \in DOMAIN b.lst |-> b.lst[k]]
        /\ DOMAIN b.lst = DOMAIN a.lst
        /\ \A k \in DOMAIN b.lst : k # <<id, obj>> => b.lst[k] = a.lst[k]
        /\ b.lst[<<id, obj>>] = [a.lst[<<id, obj>>] EXCEPT ![v] = @ - 1]
    BY <2>0, <2>2 DEF ListenerTypes
  <2>4. /\ DOMAIN b.lst[<<id, obj>>] = DOMAIN a.lst[<<id, obj>>]
        /\ b.lst[<<id, obj>>] \in [DOMAIN b.lst[<<id, obj>>] -> Nat]
    BY <2>0, <2>3 DEF ListenerTypes
  <2>5. ListenerTypes(b.lst)
    BY <2>3, <2>4 DEF ListenerTypes
  <2>6. ASSUME NEW i, NEW o, NEW w, Listeners(b, i, o, w) > 0
        PROVE  Listeners(a, i, o, w) > 0
    <3>1. CASE <<i, o>> = <<id, obj>>
      <4>1. PICK g : g = a.lst[<<id, obj>>]
        OBVIOUS
      <4>2. PICK h : h = b.lst[<<id, obj>>]
        OBVIOUS
      <4>3. g \in [DOMAIN g -> Nat] /\ h = [g EXCEPT ![v] = @ - 1] /\ v \in DOMAIN g /\ g[v] \in Nat \ {0}
        BY <2>0, <2>3, <4>1, <4>2 DEF ListenerTypes
      <4>4. w \in DOMAIN h /\ h[w] > 0
        BY <2>0, <2>3, <2>6, <3>1, <4>2 DEF Listeners, Registered
      <4>5. w \in DOMAIN g /\ g[w] > 0
        BY <4>3, <4>4
      <4> QED
        BY <2>0, <3>1, <4>1, <4>5 DEF Listeners, Registered
    <3>2. CASE <<i, o>> # <<id, obj>>
      BY <2>3, <2>6, <3>2 DEF Listeners, Registered
    <3> QED
      BY <3>1, <3>2
  <2>7. Fewer(a, b)
    BY <2>6 DEF Fewer
  <2> QED
    BY <1>1, <2>2, <2>5, <2>7
<1> QED
  BY <1>2, <1>3

LEMMA UnregisterChanges ==
    ASSUME NEW a, IsEngine(a), ListenerTypes(a.lst), NEW id, NEW obj
    PROVE  LET b == Unregister(a, id, obj)
           IN Changes(a, b, {"lst"}) /\ ListenerTypes(b.lst) /\ Fewer(a, b)
<1>1. PICK b : b = Unregister(a, id, obj)
  OBVIOUS
<1>2. Changes(a, b, {"lst"}) /\ b.lst = [k \in DOMAIN a.lst \ {<<id, obj>>} |-> a.lst[k]]
  BY <1>1 DEF Unregister, Changes, IsEngine, Fields
<1>3. ListenerTypes(b.lst)
  BY <1>2 DEF ListenerTypes
<1>4. Fewer(a, b)
  BY <1>2 DEF Fewer, Listeners, Registered
<1> QED
  BY <1>1, <1>2, <1>3, <1>4

\* The listeners of popups, embedded terminals and mb.
LEMMA OtherObjects ==
    ASSUME NEW p, NEW q, NEW n
    PROVE  PopupObj(q, n) # PaneObj(p) /\ EmbedObj(q, n) # PaneObj(p) /\ <<"mb">> # PaneObj(p)
  BY DEF PopupObj, EmbedObj, PaneObj

LEMMA AddOtherChanges ==
    ASSUME NEW a, IsEngine(a), ListenerTypes(a.lst), NEW id, NEW obj, NEW v, NEW reached,
           v \in Counted => \A p \in Panes : obj # PaneObj(p)
    PROVE  LET b == PushListener(RegisterInGlobal(a, id, obj), id, obj, v, reached)
           IN Changes(a, b, {"lst"}) /\ ListenerTypes(b.lst) /\ Fewer(a, b)
<1>1. PICK r : r = RegisterInGlobal(a, id, obj)
  OBVIOUS
<1>2. PICK b : b = PushListener(r, id, obj, v, reached)
  OBVIOUS
<1>3. /\ Changes(a, r, {"lst"}) /\ ListenerTypes(r.lst) /\ <<id, obj>> \in DOMAIN r.lst
      /\ \A i, o, w : Listeners(r, i, o, w) = Listeners(a, i, o, w)
  BY <1>1, RegisterChanges
<1>4. IsEngine(r)
  BY <1>3 DEF Changes
<1>5. /\ Changes(r, b, {"lst"}) /\ ListenerTypes(b.lst)
      /\ \A i, o, w : Listeners(b, i, o, w) # Listeners(r, i, o, w) => i = id /\ o = obj /\ w = v
  BY <1>2, <1>3, <1>4, PushChanges
<1>6. Fewer(a, b)
  BY <1>3, <1>5 DEF Fewer
<1>7. Changes(a, b, {"lst"})
  BY <1>3, <1>5, ChangesTwice
<1> QED
  BY <1>1, <1>2, <1>5, <1>6, <1>7

-----------------------------------------------------------------------------
(* Instances.                                                              *)

LEMMA EngineParts ==
    ASSUME NEW a, Engine(a)
    PROVE  /\ IsEngine(a) /\ ListenerTypes(a.lst)
           /\ a.inst = [id \in DOMAIN a.inst |-> a.inst[id]]
           /\ \A id \in DOMAIN a.inst : IsInst(a.inst[id])
           /\ a.count \in [Counted -> [Panes -> Nat]]
           /\ a.flag \in [Filters -> [Panes -> BOOLEAN]]
  BY DEF Engine, ListenerTypes

LEMMA CountsOf ==
    ASSUME NEW a, Engine(a)
    PROVE  /\ \A v \in Counted, p \in Panes : a.count[v][p] \in Nat
           /\ \A v \in Filters, p \in Panes : a.flag[v][p] \in BOOLEAN
           /\ \A id \in DOMAIN a.inst, v \in Counted, p \in Panes : a.inst[id].uses[v][p] \in Nat
<1>1. PICK c \in [Counted -> [Panes -> Nat]] : c = a.count
  BY EngineParts
<1>2. PICK f \in [Filters -> [Panes -> BOOLEAN]] : f = a.flag
  BY EngineParts
<1>3. ASSUME NEW id \in DOMAIN a.inst, NEW v \in Counted, NEW p \in Panes
      PROVE  a.inst[id].uses[v][p] \in Nat
  <2>1. IsInst(a.inst[id])
    BY EngineParts
  <2>2. PICK u \in [Counted -> [Panes -> Nat]] : u = a.inst[id].uses
    BY <2>1 DEF IsInst
  <2> QED
    BY <2>2
<1>4. \A v \in Counted, p \in Panes : c[v][p] \in Nat
  OBVIOUS
<1>5. \A v \in Filters, p \in Panes : f[v][p] \in BOOLEAN
  OBVIOUS
<1> QED
  BY <1>1, <1>2, <1>3, <1>4, <1>5

LEMMA Numbered ==
    ASSUME NEW a, Engine(a)
    PROVE  /\ \A id \in DOMAIN a.inst : id \in Nat
           /\ NextId(a) \in Nat /\ NextId(a) \notin DOMAIN a.inst
           /\ \E n \in Nat : DOMAIN a.inst \cup {NextId(a)} = 1..n
<1>1. PICK n \in Nat : DOMAIN a.inst = 1..n
  BY DEF Engine
<1>2. Cardinality(1..n) = n
  BY <1>1, FS_Interval
<1>3. NextId(a) = n + 1
  BY <1>1, <1>2 DEF NextId
<1> QED
  BY <1>1, <1>3

LEMMA SameEngine ==
    ASSUME NEW a, Engine(a), NEW b, NEW F, Changes(a, b, F), F \cap {"inst", "count", "flag"} = {},
           ListenerTypes(b.lst)
    PROVE  Engine(b)
<1>1. b.inst = a.inst /\ b.count = a.count /\ b.flag = a.flag
  BY DEF Changes, Fields
<1> QED
  BY <1>1 DEF Engine, Changes, ListenerTypes

\* One instance is another than before.
LEMMA InstEdit ==
    ASSUME NEW a, Engine(a), NEW b, IsEngine(b), NEW id \in DOMAIN a.inst, NEW j, IsInst(j),
           b.inst = [a.inst EXCEPT ![id] = j], ListenerTypes(b.lst),
           b.count \in [Counted -> [Panes -> Nat]], b.flag \in [Filters -> [Panes -> BOOLEAN]]
    PROVE  /\ Engine(b) /\ DOMAIN b.inst = DOMAIN a.inst
           /\ \A o \in DOMAIN b.inst : b.inst[o] = IF o = id THEN j ELSE a.inst[o]
<1>1. /\ b.inst = [o \in DOMAIN b.inst |-> b.inst[o]] /\ DOMAIN b.inst = DOMAIN a.inst
      /\ \A o \in DOMAIN b.inst : b.inst[o] = IF o = id THEN j ELSE a.inst[o]
  BY EngineParts
<1>2. \A o \in DOMAIN b.inst : IsInst(b.inst[o])
  BY <1>1, EngineParts
<1> QED
  BY <1>1, <1>2 DEF Engine, ListenerTypes

LEMMA NoUsesType == NoUses \in [Counted -> [Panes -> Nat]] /\ \A v \in Counted, p \in Panes : NoUses[v][p] = 0
  BY DEF NoUses

LEMMA NewInstanceIs ==
    ASSUME NEW path, NEW hash, NEW perms, NEW builtIn \in BOOLEAN
    PROVE  LET i == NewInstance(path, hash, perms, builtIn)
           IN /\ IsInst(i) /\ i.path = path /\ i.hash = hash /\ i.perms = perms
              /\ i.builtIn = builtIn /\ i.ctx = TRUE /\ i.uses = NoUses
              /\ i.popups = {} /\ i.embeds = {}
  BY NoUsesType DEF NewInstance, IsInst, InstFields

\* What the user knows a script by, and what its listeners count.
SameScript(i, j) == /\ j.path = i.path /\ j.hash = i.hash /\ j.perms = i.perms
                    /\ j.builtIn = i.builtIn
SameUses(i, j) == j.uses = i.uses
SameSurfaces(i, j) == j.popups = i.popups /\ j.embeds = i.embeds

LEMMA InstNs ==
    ASSUME NEW i, IsInst(i), NEW x
    PROVE  LET j == [i EXCEPT !.ns = x]
           IN IsInst(j) /\ SameScript(i, j) /\ SameUses(i, j) /\ SameSurfaces(i, j) /\ j.ctx = i.ctx
  BY DEF IsInst, InstFields, SameScript, SameUses, SameSurfaces
LEMMA InstHeld ==
    ASSUME NEW i, IsInst(i), NEW x
    PROVE  LET j == [i EXCEPT !.held = x]
           IN IsInst(j) /\ SameScript(i, j) /\ SameUses(i, j) /\ SameSurfaces(i, j) /\ j.ctx = i.ctx
  BY DEF IsInst, InstFields, SameScript, SameUses, SameSurfaces
LEMMA InstPopups ==
    ASSUME NEW i, IsInst(i), NEW x
    PROVE  LET j == [i EXCEPT !.popups = @ \cup {x}]
           IN /\ IsInst(j) /\ SameScript(i, j) /\ SameUses(i, j) /\ j.ctx = i.ctx
              /\ j.popups = i.popups \cup {x} /\ j.embeds = i.embeds
  BY DEF IsInst, InstFields, SameScript, SameUses
LEMMA InstEmbeds ==
    ASSUME NEW i, IsInst(i), NEW x
    PROVE  LET j == [i EXCEPT !.embeds = @ \cup {x}]
           IN /\ IsInst(j) /\ SameScript(i, j) /\ SameUses(i, j) /\ j.ctx = i.ctx
              /\ j.embeds = i.embeds \cup {x} /\ j.popups = i.popups
  BY DEF IsInst, InstFields, SameScript, SameUses
LEMMA InstUses ==
    ASSUME NEW i, IsInst(i), NEW u \in [Counted -> [Panes -> Nat]]
    PROVE  LET j == [i EXCEPT !.uses = u]
           IN /\ IsInst(j) /\ SameScript(i, j) /\ SameSurfaces(i, j) /\ j.ctx = i.ctx
              /\ j.uses = u
  BY DEF IsInst, InstFields, SameScript, SameSurfaces
Gone(i, iterating) == [i EXCEPT !.ctx = FALSE, !.held = StaysHeld(iterating), !.ns = Nil,
                                !.popups = {}, !.embeds = {}, !.uses = NoUses]
LEMMA InstGone ==
    ASSUME NEW i, IsInst(i), NEW iterating
    PROVE  LET j == Gone(i, iterating)
           IN /\ IsInst(j) /\ SameScript(i, j) /\ j.ctx = FALSE /\ j.uses = NoUses
              /\ j.popups = {} /\ j.embeds = {}
  BY NoUsesType DEF IsInst, InstFields, SameScript, Gone

LEMMA PlusOne ==
    ASSUME NEW u \in [Counted -> [Panes -> Nat]], NEW v \in Counted, NEW p \in Panes
    PROVE  LET c == [u EXCEPT ![v][p] = @ + 1]
           IN /\ c \in [Counted -> [Panes -> Nat]]
              /\ \A w \in Counted, q \in Panes :
                    c[w][q] = IF w = v /\ q = p THEN u[w][q] + 1 ELSE u[w][q]
  OBVIOUS

\* One registration more of id for v on p.
OneMore(i, v, p) == [i EXCEPT !.uses = [i.uses EXCEPT ![v][p] = @ + 1]]

\* The flag of a pane is up; one registration more.
Raised(flags, p) == [flags EXCEPT ![p] = TRUE]
CountUp(c, v, p) == [c EXCEPT ![v][p] = @ + 1]

LEMMA AddCountedIs ==
    ASSUME NEW a, Engine(a), NEW id \in DOMAIN a.inst, NEW p \in Panes, NEW v \in Counted,
           NEW b, b = AddCounted(a, id, p, v)
    PROVE  /\ Changes(a, b, {"count", "flag", "inst"}) /\ Engine(b)
           /\ DOMAIN b.inst = DOMAIN a.inst
           /\ b.count = CountUp(a.count, v, p)
           /\ \A w \in Filters :
                 b.flag[w] = IF w = v THEN Raised(a.flag[w], p) ELSE a.flag[w]
           /\ \A o \in DOMAIN a.inst :
                 b.inst[o] = IF o = id THEN OneMore(a.inst[o], v, p) ELSE a.inst[o]
<1>a. /\ IsEngine(a) /\ IsInst(a.inst[id])
      /\ a.count \in [Counted -> [Panes -> Nat]] /\ a.flag \in [Filters -> [Panes -> BOOLEAN]]
  BY EngineParts
<1>b. a.inst = [o \in DOMAIN a.inst |-> a.inst[o]]
  BY EngineParts
<1>c. a.inst[id].uses \in [Counted -> [Panes -> Nat]]
  BY <1>a DEF IsInst
<1>1. b = AddCounted(a, id, p, v)
  OBVIOUS
<1>2. PICK c, f, n : /\ c = [a.count EXCEPT ![v][p] = @ + 1]
                     /\ f = [g \in Filters |-> IF g = v THEN [a.flag[g] EXCEPT ![p] = TRUE] ELSE a.flag[g]]
                     /\ n = [a.inst EXCEPT ![id].uses[v][p] = @ + 1]
  OBVIOUS
<1>3. Changes(a, b, {"count", "flag", "inst"}) /\ b.lst = a.lst
  BY <1>1, <1>a DEF AddCounted, Changes, IsEngine, Fields
<1>d. b.count = c
  BY <1>1, <1>2, <1>a DEF AddCounted, IsEngine, Fields
<1>e. b.flag = f
  BY <1>1, <1>2, <1>a DEF AddCounted, IsEngine, Fields
<1>f. b.inst = n
  BY <1>1, <1>2, <1>a DEF AddCounted, IsEngine, Fields
<1>4. /\ Changes(a, b, {"count", "flag", "inst"}) /\ b.count = c /\ b.flag = f /\ b.inst = n
      /\ b.lst = a.lst
  BY <1>3, <1>d, <1>e, <1>f
<1>5. PICK u : u = [a.inst[id].uses EXCEPT ![v][p] = @ + 1]
  OBVIOUS
<1>6. PICK j : j = [a.inst[id] EXCEPT !.uses = u]
  OBVIOUS
<1>7. n = [a.inst EXCEPT ![id] = j]
  BY <1>2, <1>5, <1>6
<1>8. j = OneMore(a.inst[id], v, p)
  BY <1>5, <1>6 DEF OneMore
<1>9. u \in [Counted -> [Panes -> Nat]]
  BY <1>c, <1>5, PlusOne
<1>10. IsInst(j)
  BY <1>a, <1>6, <1>9, InstUses
<1>11. c \in [Counted -> [Panes -> Nat]]
  BY <1>2, <1>a, PlusOne
<1>12. /\ f \in [Filters -> [Panes -> BOOLEAN]]
       /\ \A w \in Filters : f[w] = IF w = v THEN Raised(a.flag[w], p) ELSE a.flag[w]
  <2>1. \A g \in Filters : a.flag[g] \in [Panes -> BOOLEAN]
    BY <1>a
  <2>2. ASSUME NEW g \in Filters PROVE f[g] \in [Panes -> BOOLEAN]
    <3>1. PICK h \in [Panes -> BOOLEAN] : h = a.flag[g]
      BY <2>1
    <3>2. f[g] = IF g = v THEN [h EXCEPT ![p] = TRUE] ELSE h
      BY <1>2, <3>1
    <3> QED
      BY <3>1, <3>2
  <2>3. f = [g \in Filters |-> f[g]]
    BY <1>2
  <2>4. ASSUME NEW w \in Filters PROVE f[w] = IF w = v THEN Raised(a.flag[w], p) ELSE a.flag[w]
    BY <1>2 DEF Raised
  <2> QED
    BY <2>2, <2>3, <2>4
<1>13. IsEngine(b) /\ ListenerTypes(b.lst)
  BY <1>4, EngineParts DEF Changes
<1>14. /\ Engine(b) /\ DOMAIN b.inst = DOMAIN a.inst
       /\ \A o \in DOMAIN b.inst : b.inst[o] = IF o = id THEN j ELSE a.inst[o]
  BY <1>4, <1>7, <1>10, <1>11, <1>12, <1>13, InstEdit
<1>15. \A o \in DOMAIN a.inst : b.inst[o] = IF o = id THEN OneMore(a.inst[o], v, p) ELSE a.inst[o]
  BY <1>8, <1>14
<1>16. b.count = CountUp(a.count, v, p)
  BY <1>2, <1>4 DEF CountUp
<1>17. \A w \in Filters : b.flag[w] = IF w = v THEN Raised(a.flag[w], p) ELSE a.flag[w]
  BY <1>4, <1>12
<1> QED
  BY <1>4, <1>14, <1>15, <1>16, <1>17

\* The end of a script.
Left(a, id, v, p) == a.count[v][p] - a.inst[id].uses[v][p]
CountLeft(a, id, v, p) == IF Left(a, id, v, p) > 0 THEN Left(a, id, v, p) ELSE 0
FlagsLeft(a, id, v) == [p \in Panes |-> IF a.inst[id].uses[v][p] > 0 /\ Left(a, id, v, p) <= 0
                                        THEN FALSE ELSE a.flag[v][p]]
PopupsLeft(a, id) == a.popups \ {x \in a.inst[id].popups : HasPopup(a, x[1], x[2])}
ListenersLeft(a, id) == [k \in {j \in DOMAIN a.lst : j[1] # id} |-> a.lst[k]]
\* Of the names in f those that are not id's.
NamesLeft(f, id) == [n \in {m \in DOMAIN f : f[m] # id} |-> f[n]]
UnloadFields == {"inst", "lst", "count", "flag", "popups", "embeds", "focused", "jobs",
                 "timers", "actions", "handlers", "w"}
LEMMA UnloadIs ==
    ASSUME NEW a, Engine(a), NEW id, Live(a, id), NEW iterating,
           NEW b, b = Unload(a, id, iterating)
    PROVE  /\ Changes(a, b, UnloadFields) /\ Engine(b)
           /\ DOMAIN b.inst = DOMAIN a.inst
           /\ \A o \in DOMAIN a.inst :
                 b.inst[o] = IF o = id THEN Gone(a.inst[o], iterating) ELSE a.inst[o]
           /\ b.lst = ListenersLeft(a, id)
           /\ \A v \in Counted, p \in Panes : b.count[v][p] = CountLeft(a, id, v, p)
           /\ \A v \in Filters : b.flag[v] = FlagsLeft(a, id, v)
           /\ b.popups = PopupsLeft(a, id) /\ b.embeds = a.embeds \ a.inst[id].embeds
           /\ b.actions = NamesLeft(a.actions, id) /\ b.handlers = NamesLeft(a.handlers, id)
           /\ b.w = WsUnloadInstance(a.w, id)
<1>a. IsEngine(a) /\ id \in DOMAIN a.inst /\ IsInst(a.inst[id])
  BY EngineParts DEF Live
<1>1. PICK s : s = DropSurfaces(a, id)
  OBVIOUS
<1>2. /\ Changes(a, s, {"popups", "embeds", "focused", "jobs"})
      /\ s.popups = a.popups \ {x \in a.inst[id].popups : HasPopup(a, x[1], x[2])}
      /\ s.embeds = a.embeds \ a.inst[id].embeds
  BY <1>1, <1>a DEF DropSurfaces, Changes, IsEngine, Fields
<1>3. PICK c : c = DropCounts(s, id)
  OBVIOUS
<1>4. IsEngine(s) /\ s.inst = a.inst /\ s.count = a.count /\ s.flag = a.flag
  BY <1>2 DEF Changes, Fields
<1>5. /\ Changes(s, c, {"count", "flag"})
      /\ c.count = [v \in Counted |-> [p \in Panes |-> IF Left(a, id, v, p) > 0 THEN Left(a, id, v, p) ELSE 0]]
      /\ c.flag = [v \in Filters |-> [p \in Panes |->
                      IF a.inst[id].uses[v][p] > 0 /\ Left(a, id, v, p) <= 0
                      THEN FALSE ELSE a.flag[v][p]]]
  BY <1>3, <1>4 DEF DropCounts, Changes, IsEngine, Fields, Left
<1>6. PICK d : d = DropNames(c, id)
  OBVIOUS
<1>7. IsEngine(c) /\ c.actions = a.actions /\ c.handlers = a.handlers /\ c.w = a.w
  BY <1>2, <1>5 DEF Changes, Fields
<1>8. /\ Changes(c, d, {"timers", "actions", "handlers", "w"})
      /\ d.actions = [n \in {m \in DOMAIN a.actions : a.actions[m] # id} |-> a.actions[n]]
      /\ d.handlers = [n \in {m \in DOMAIN a.handlers : a.handlers[m] # id} |-> a.handlers[n]]
      /\ d.w = WsUnloadInstance(a.w, id)
  BY <1>6, <1>7 DEF DropNames, Changes, IsEngine, Fields
<1>9. b = Unload(a, id, iterating)
  OBVIOUS
<1>10. IsEngine(d) /\ d.inst = a.inst /\ d.lst = a.lst
  BY <1>2, <1>5, <1>8 DEF Changes, Fields
<1>11. b = [d EXCEPT !.inst[id] = [@ EXCEPT !.ctx = FALSE, !.held = StaysHeld(iterating),
                                            !.ns = Nil, !.popups = {}, !.embeds = {}, !.uses = NoUses],
                     !.lst = [k \in {j \in DOMAIN @ : j[1] # id} |-> @[k]]]
  BY <1>1, <1>3, <1>6, <1>9 DEF Unload
<1>12. /\ Changes(d, b, {"inst", "lst"})
       /\ b.inst = [a.inst EXCEPT ![id] = Gone(a.inst[id], iterating)]
       /\ b.lst = [k \in {j \in DOMAIN a.lst : j[1] # id} |-> a.lst[k]]
  <2>1. PICK n, l : /\ n = [a.inst EXCEPT ![id] = Gone(a.inst[id], iterating)]
                    /\ l = [k \in {j \in DOMAIN a.lst : j[1] # id} |-> a.lst[k]]
    OBVIOUS
  <2>2. b = [d EXCEPT !.inst = n, !.lst = l]
    BY <1>10, <1>11, <2>1 DEF Gone
  <2>3. Changes(d, b, {"inst", "lst"}) /\ b.inst = n /\ b.lst = l
    BY <1>10, <2>2 DEF Changes, IsEngine, Fields
  <2> QED
    BY <2>1, <2>3
<1>13. Changes(a, b, UnloadFields)
  BY <1>2, <1>5, <1>8, <1>12 DEF Changes, UnloadFields
<1>14. b.popups = s.popups /\ b.embeds = s.embeds /\ b.count = c.count /\ b.flag = c.flag
       /\ b.actions = d.actions /\ b.handlers = d.handlers /\ b.w = d.w /\ IsEngine(b)
  BY <1>5, <1>8, <1>12 DEF Changes, Fields
<1>15. ListenerTypes(b.lst)
  BY <1>12, EngineParts DEF ListenerTypes
<1>16. IsInst(Gone(a.inst[id], iterating))
  BY <1>a, InstGone
<1>17. \A v \in Counted, p \in Panes : Left(a, id, v, p) \in Int
  BY <1>a, CountsOf DEF Left
<1>18. b.count \in [Counted -> [Panes -> Nat]]
  <2>1. ASSUME NEW v \in Counted
        PROVE  [p \in Panes |-> IF Left(a, id, v, p) > 0 THEN Left(a, id, v, p) ELSE 0] \in [Panes -> Nat]
    BY <1>17
  <2> QED
    BY <1>5, <1>14, <2>1
<1>19. b.flag \in [Filters -> [Panes -> BOOLEAN]]
  <2>1. ASSUME NEW v \in Filters, NEW p \in Panes PROVE a.flag[v][p] \in BOOLEAN
    BY CountsOf
  <2>2. ASSUME NEW v \in Filters
        PROVE  [p \in Panes |-> IF a.inst[id].uses[v][p] > 0 /\ Left(a, id, v, p) <= 0
                                THEN FALSE ELSE a.flag[v][p]] \in [Panes -> BOOLEAN]
    <3>1. ASSUME NEW p \in Panes
          PROVE  (IF a.inst[id].uses[v][p] > 0 /\ Left(a, id, v, p) <= 0
                  THEN FALSE ELSE a.flag[v][p]) \in BOOLEAN
      BY <2>1, Zenon
    <3> QED
      BY <3>1, Zenon
  <2>3. b.flag = [v \in Filters |-> [p \in Panes |->
                    IF a.inst[id].uses[v][p] > 0 /\ Left(a, id, v, p) <= 0
                    THEN FALSE ELSE a.flag[v][p]]]
    BY <1>5, <1>14
  <2> QED
    BY <2>2, <2>3, Zenon
<1>20. /\ Engine(b) /\ DOMAIN b.inst = DOMAIN a.inst
       /\ \A o \in DOMAIN b.inst : b.inst[o] = IF o = id THEN Gone(a.inst[id], iterating) ELSE a.inst[o]
  BY <1>a, <1>12, <1>14, <1>15, <1>16, <1>18, <1>19, InstEdit
<1>21. \A o \in DOMAIN a.inst : b.inst[o] = IF o = id THEN Gone(a.inst[o], iterating) ELSE a.inst[o]
  BY <1>20
<1>22. \A v \in Counted, p \in Panes : b.count[v][p] = CountLeft(a, id, v, p)
  BY <1>5, <1>14 DEF CountLeft
<1>23. ASSUME NEW v \in Filters PROVE b.flag[v] = FlagsLeft(a, id, v)
  <2>1. b.flag = [w \in Filters |-> FlagsLeft(a, id, w)]
    BY <1>5, <1>14, Zenon DEF FlagsLeft
  <2> QED
    BY <2>1
<1>24. b.popups = PopupsLeft(a, id) /\ b.embeds = a.embeds \ a.inst[id].embeds
  BY <1>2, <1>14 DEF PopupsLeft
<1>25. b.actions = NamesLeft(a.actions, id) /\ b.handlers = NamesLeft(a.handlers, id)
  BY <1>8, <1>14 DEF NamesLeft
<1>26. b.lst = ListenersLeft(a, id)
  BY <1>12 DEF ListenersLeft
<1>27. b.w = WsUnloadInstance(a.w, id)
  BY <1>8, <1>14
<1> QED
  BY <1>13, <1>20, <1>21, <1>22, <1>23, <1>24, <1>25, <1>26, <1>27

-----------------------------------------------------------------------------
(* What a step may do to the engine.  Most steps do it Quietly: no         *)
(* instance and no count changes, nothing gets an owner that is dead and   *)
(* no pane a listener.                                                     *)

Quiet == {"jobs", "exits", "timers", "made", "focused", "keys", "tcaps", "lines", "files",
          "disk", "modules"}
OwnersLive(a, f) == \A n \in DOMAIN f : Live(a, f[n])
Quietly(a, b) ==
    /\ Changes(a, b, Quiet \cup {"lst", "popups", "embeds", "actions", "handlers"})
    /\ ListenerTypes(b.lst) /\ Fewer(a, b)
    /\ b.popups \subseteq a.popups /\ b.embeds \subseteq a.embeds
    /\ OwnersLive(a, a.actions) => OwnersLive(a, b.actions)
    /\ OwnersLive(a, a.handlers) => OwnersLive(a, b.handlers)
\* The instances are the same but for namespaces and what the deque holds.
Relabels(a, b) ==
    /\ Changes(a, b, {"inst"}) /\ Engine(b) /\ DOMAIN b.inst = DOMAIN a.inst
    /\ \A id \in DOMAIN a.inst :
          /\ SameScript(a.inst[id], b.inst[id]) /\ SameUses(a.inst[id], b.inst[id])
          /\ SameSurfaces(a.inst[id], b.inst[id]) /\ b.inst[id].ctx = a.inst[id].ctx
Listens(a, b) ==
    \E id \in LiveIds(a), p \in Panes, v \in Counted, reached \in BOOLEAN :
       b = PushListener(RegisterInGlobal(AddCounted(a, id, p, v), id, PaneObj(p)),
                        id, PaneObj(p), v, reached)
\* A popup or an embedded terminal is there that a living script made.
MakesSurface(a, b) ==
    /\ Changes(a, b, Quiet \cup {"inst", "popups", "embeds"}) /\ Engine(b)
    /\ DOMAIN b.inst = DOMAIN a.inst
    /\ \A id \in DOMAIN a.inst :
          /\ SameScript(a.inst[id], b.inst[id]) /\ SameUses(a.inst[id], b.inst[id])
          /\ b.inst[id].ctx = a.inst[id].ctx
          /\ a.inst[id].popups \subseteq b.inst[id].popups
          /\ a.inst[id].embeds \subseteq b.inst[id].embeds
    /\ \A x \in b.popups \ a.popups :
          x \in a.panes \X Names /\ \E id \in LiveIds(a) : x \in b.inst[id].popups
    /\ \A x \in b.embeds \ a.embeds :
          x \in a.panes \X Names /\ \E id \in LiveIds(a) : x \in b.inst[id].embeds
Unloaded(a, b) ==
    \E id \in DOMAIN a.inst, iterating \in BOOLEAN :
       Live(a, id) /\ Changes(Unload(a, id, iterating), b, {"exits"})
ElsewhereThan(xs, p) == {x \in xs : x[1] # p}
WithoutPane(a, p) == [NotifyPaneDestroyed(a, p) EXCEPT
                         !.panes = @ \ {p},
                         !.popups = {x \in @ : x[1] # p}, !.embeds = {x \in @ : x[1] # p}]
PaneGoes(a, b) == \E p \in a.panes : b = WithoutPane(a, p)
WsMoves(a, b) ==
    /\ Changes(a, b, {"w"})
    /\ \/ \E id \in LiveIds(a) : b.w = JsWsCreateServer(a.w, id)
       \/ \E s \in DOMAIN a.w.server :
             b.w = JsWsServerClose(a.w, s) \/ (a.w.server[s].vhost /\ b.w = Established(a.w, s))
       \/ \E c \in DOMAIN a.w.conn :
             \/ b.w = JsWsConnSend(a.w, c, "f")
             \/ \E final \in BOOLEAN : b.w = Receive(a.w, c, "g", final)
             \/ \E short \in BOOLEAN : b.w = ServerWriteable(a.w, c, short)
             \/ b.w = [a.w EXCEPT !.conn[c] = LwsClosed(a.w, @)]
Ordinary(a, b) == \/ Quietly(a, b) \/ Relabels(a, b) \/ Listens(a, b) \/ MakesSurface(a, b)
                  \/ Unloaded(a, b) \/ PaneGoes(a, b) \/ WsMoves(a, b)

LEMMA QuietBy ==
    ASSUME NEW a, Engine(a), NEW b, Changes(a, b, Quiet) PROVE Quietly(a, b)
<1>1. /\ b.lst = a.lst /\ b.popups = a.popups /\ b.embeds = a.embeds
      /\ b.actions = a.actions /\ b.handlers = a.handlers
  BY DEF Changes, Fields, Quiet
<1>2. Fewer(a, b) /\ ListenerTypes(b.lst)
  BY <1>1, SameLstFewer, EngineParts
<1>3. Changes(a, b, Quiet \cup {"lst", "popups", "embeds", "actions", "handlers"})
  BY ChangesMore
<1> QED
  BY <1>1, <1>2, <1>3 DEF Quietly

LEMMA QuietlyListening ==
    ASSUME NEW a, Engine(a), NEW b, Changes(a, b, {"lst"}), ListenerTypes(b.lst), Fewer(a, b)
    PROVE  Quietly(a, b)
<1>1. /\ b.popups = a.popups /\ b.embeds = a.embeds
      /\ b.actions = a.actions /\ b.handlers = a.handlers
  BY DEF Changes, Fields
<1>2. Changes(a, b, Quiet \cup {"lst", "popups", "embeds", "actions", "handlers"})
  BY ChangesMore
<1> QED
  BY <1>1, <1>2 DEF Quietly

LEMMA QuietEngine ==
    ASSUME NEW a, Engine(a), NEW b, Quietly(a, b)
    PROVE  Engine(b) /\ b.inst = a.inst /\ LiveIds(b) = LiveIds(a)
<1>1. Engine(b)
  <2>1. PICK F : F = Quiet \cup {"lst", "popups", "embeds", "actions", "handlers"}
    OBVIOUS
  <2>2. F \cap {"inst", "count", "flag"} = {}
    BY <2>1 DEF Quiet
  <2> QED
    BY <2>1, <2>2, SameEngine DEF Quietly
<1>2. b.inst = a.inst
  BY DEF Quietly, Changes, Fields, Quiet
<1> QED
  BY <1>1, <1>2 DEF LiveIds

LEMMA QuietlyTwice ==
    ASSUME NEW a, Engine(a), NEW b, NEW c, Quietly(a, b), Quietly(b, c) PROVE Quietly(a, c)
<1>1. b.inst = a.inst
  BY QuietEngine
<1>2. \A f : OwnersLive(b, f) <=> OwnersLive(a, f)
  BY <1>1 DEF OwnersLive, Live
<1>3. Changes(a, c, Quiet \cup {"lst", "popups", "embeds", "actions", "handlers"})
  BY ChangesTwice DEF Quietly
<1>4. Fewer(a, c)
  BY FewerTwice DEF Quietly
<1> QED
  BY <1>2, <1>3, <1>4 DEF Quietly

LEMMA QuietTermination ==
    ASSUME NEW a, Engine(a), NEW id PROVE Quietly(a, ScheduleTermination(a, id))
<1>1. Changes(a, ScheduleTermination(a, id), Quiet)
  BY TerminationChanges, EngineParts, ChangesMore DEF Quiet
<1> QED
  BY <1>1, QuietBy

LEMMA QuietRequire ==
    ASSUME NEW a, Engine(a), NEW id, NEW perm, NEW then, Live(a, id) => Quietly(a, then)
    PROVE  Quietly(a, Require(a, id, perm, then))
  BY RequireIs, QuietTermination

-----------------------------------------------------------------------------
(* Each operation is of one of those kinds.                                *)

LEMMA QuietSame == ASSUME NEW a, Engine(a) PROVE Quietly(a, a)
  BY QuietBy, NoChange, EngineParts

LEMMA ListeningIs ==
    ASSUME NEW a, Engine(a), NEW id \in LiveIds(a), NEW p \in Panes, NEW v, NEW same \in BOOLEAN
    PROVE  Ordinary(a, JsPaneAddEventListener(a, id, p, v, same))
<1> DEFINE reached == same \/ ~Registered(a, id, PaneObj(p))
           b == PushListener(RegisterInGlobal(a, id, PaneObj(p)), id, PaneObj(p), v, reached)
           c == PushListener(RegisterInGlobal(AddCounted(a, id, p, v), id, PaneObj(p)),
                             id, PaneObj(p), v, reached)
<1>1. reached \in BOOLEAN
  BY DEF Registered
<1>2. CASE v \in Counted
  <2>1. JsPaneAddEventListener(a, id, p, v, same) \in {a, c}
    BY <1>2 DEF JsPaneAddEventListener, PaneListenerAllowed, AddPaneOutputFilter, AddPaneInputFilter,
                AddPaneMouseMoveListener, Counted, Filters
  <2>2. Listens(a, c)
    BY <1>1, <1>2 DEF Listens
  <2> QED
    BY <2>1, <2>2, QuietSame DEF Ordinary
<1>3. CASE v \notin Counted
  <2>1. JsPaneAddEventListener(a, id, p, v, same) \in {a, b, ScheduleTermination(a, id)}
    BY <1>3 DEF JsPaneAddEventListener, Counted, Filters
  <2>2. Changes(a, b, {"lst"}) /\ ListenerTypes(b.lst) /\ Fewer(a, b)
    BY <1>3, AddOtherChanges, EngineParts
  <2>3. Quietly(a, b)
    BY <2>2, QuietlyListening
  <2> QED
    BY <2>1, <2>3, QuietSame, QuietTermination DEF Ordinary
<1> QED
  BY <1>2, <1>3

LEMMA QuietListening ==
    ASSUME NEW a, Engine(a), NEW id, NEW obj, NEW v, NEW reached,
           v \in Counted => \A p \in Panes : obj # PaneObj(p)
    PROVE  Quietly(a, PushListener(RegisterInGlobal(a, id, obj), id, obj, v, reached))
<1>1. PICK b : b = PushListener(RegisterInGlobal(a, id, obj), id, obj, v, reached)
  OBVIOUS
<1>2. Changes(a, b, {"lst"}) /\ ListenerTypes(b.lst) /\ Fewer(a, b)
  BY <1>1, AddOtherChanges, EngineParts
<1> QED
  BY <1>1, <1>2, QuietlyListening

LEMMA QuietRemoval ==
    ASSUME NEW a, Engine(a), NEW id, NEW obj, NEW v
    PROVE  Quietly(a, RemoveFromJSArray(a, id, obj, v)) /\ Quietly(a, Unregister(a, id, obj))
<1>1. PICK b : b = RemoveFromJSArray(a, id, obj, v)
  OBVIOUS
<1>2. PICK c : c = Unregister(a, id, obj)
  OBVIOUS
<1>3. Changes(a, b, {"lst"}) /\ ListenerTypes(b.lst) /\ Fewer(a, b)
  BY <1>1, RemoveChanges, EngineParts
<1>4. Changes(a, c, {"lst"}) /\ ListenerTypes(c.lst) /\ Fewer(a, c)
  BY <1>2, UnregisterChanges, EngineParts
<1> QED
  BY <1>1, <1>2, <1>3, <1>4, QuietlyListening

LEMMA QuietSurfaceListener ==
    ASSUME NEW a, Engine(a), NEW id, NEW p, NEW n, NEW v, NEW same
    PROVE  /\ Quietly(a, JsPopupAddEventListener(a, id, p, n, v, same))
           /\ Quietly(a, JsEmbeddedAddEventListener(a, id, p, n, v, same))
<1>1. ASSUME NEW obj, \A q \in Panes : obj # PaneObj(q)
      PROVE  Quietly(a, AddSurfaceListener(a, id, obj, v, same))
  <2>1. AddSurfaceListener(a, id, obj, v, same)
          \in {a, PushListener(RegisterInGlobal(a, id, obj), id, obj, v,
                               same \/ ~Registered(a, id, obj))}
    BY DEF AddSurfaceListener
  <2> QED
    BY <1>1, <2>1, QuietListening, QuietSame
<1> QED
  BY <1>1, OtherObjects DEF JsPopupAddEventListener, JsEmbeddedAddEventListener

LEMMA QuietNotify ==
    ASSUME NEW a, Engine(a), NEW v, NEW p
    PROVE  Quietly(a, NotifyMb(a, v)) /\ Quietly(a, NotifyPane(a, p, v)) /\ Quietly(a, NotifyOSC(a, p))
<1>1. \A b : Changes(a, b, {"jobs"}) => Changes(a, b, Quiet)
  BY ChangesMore DEF Quiet
<1> QED
  BY <1>1, NotifyMbChanges, NotifyPaneChanges, NotifyOSCChanges, EngineParts, QuietBy

LEMMA QuietConfig ==
    ASSUME NEW a, Engine(a), NEW keys PROVE Quietly(a, ApplyConfigJson(a, keys))
<1>1. Changes(a, ApplyConfigJson(a, keys), Quiet)
  BY ApplyConfigChanges, EngineParts, ChangesMore DEF Quiet
<1> QED
  BY <1>1, QuietBy

LEMMA QuietTimers ==
    ASSUME NEW a, Engine(a), NEW id, NEW interval, NEW t
    PROVE  Quietly(a, SetTimer(a, id, interval)) /\ Quietly(a, JsClearTimer(a, t))
<1>1. \A b : Changes(a, b, {"made", "timers"}) => Changes(a, b, Quiet)
  BY ChangesMore DEF Quiet
<1>2. \A b : Changes(a, b, {"timers"}) => Changes(a, b, Quiet)
  BY ChangesMore DEF Quiet
<1> QED
  BY <1>1, <1>2, SetTimerChanges, ClearTimerChanges, EngineParts, QuietBy

LEMMA QuietFocus ==
    ASSUME NEW a, Engine(a), NEW p, NEW n
    PROVE  Quietly(a, SetFocusedPopup(a, p, n)) /\ Quietly(a, SetFocusedEmbedded(a, p, n))
<1>1. \A b : Changes(a, b, {"focused", "jobs"}) => Changes(a, b, Quiet)
  BY ChangesMore DEF Quiet
<1> QED
  BY <1>1, FocusChanges, EngineParts, QuietBy

LEMMA QuietDestroyPopup ==
    ASSUME NEW a, Engine(a), NEW p, NEW n PROVE Quietly(a, DestroyPopup(a, p, n))
<1>1. PICK b : b = DestroyPopup(a, p, n)
  OBVIOUS
<1>a. Changes(a, b, {"popups", "focused", "jobs"}) /\ b.popups \in {a.popups, a.popups \ {<<p, n>>}}
  BY <1>1, DestroyPopupChanges, EngineParts
<1>2. Changes(a, b, {"popups", "focused", "jobs"}) /\ b.popups \subseteq a.popups
  BY <1>a
<1>3. /\ b.lst = a.lst /\ b.embeds = a.embeds
      /\ b.actions = a.actions /\ b.handlers = a.handlers
  BY <1>2 DEF Changes, Fields
<1>4. Fewer(a, b) /\ ListenerTypes(b.lst)
  BY <1>3, SameLstFewer, EngineParts
<1>5. Changes(a, b, Quiet \cup {"lst", "popups", "embeds", "actions", "handlers"})
  BY <1>2, ChangesMore DEF Quiet
<1> QED
  BY <1>1, <1>2, <1>3, <1>4, <1>5 DEF Quietly

LEMMA QuietDestroyEmbedded ==
    ASSUME NEW a, Engine(a), NEW p, NEW l
    PROVE  Quietly(a, DeliverEmbeddedDestroyed(DestroyEmbedded(a, p, l), p, l))
<1>1. PICK b : b = DestroyEmbedded(a, p, l)
  OBVIOUS
<1>a. Changes(a, b, {"embeds", "focused"}) /\ b.embeds = a.embeds \ {<<p, l>>}
  BY <1>1, DestroyEmbeddedChanges, EngineParts
<1>2. Changes(a, b, {"embeds", "focused"}) /\ b.embeds \subseteq a.embeds
  BY <1>a
<1>3. PICK c : c = DeliverEmbeddedDestroyed(b, p, l)
  OBVIOUS
<1>4. Changes(b, c, {"jobs"})
  BY <1>2, <1>3, DestroyedChanges DEF Changes
<1>5. /\ c.lst = a.lst /\ c.popups = a.popups /\ c.embeds = b.embeds
      /\ c.actions = a.actions /\ c.handlers = a.handlers
  BY <1>2, <1>4 DEF Changes, Fields
<1>6. Fewer(a, c) /\ ListenerTypes(c.lst)
  BY <1>5, SameLstFewer, EngineParts
<1>7. Changes(a, c, Quiet \cup {"lst", "popups", "embeds", "actions", "handlers"})
  BY <1>2, <1>4 DEF Changes, Quiet
<1> QED
  BY <1>1, <1>2, <1>3, <1>5, <1>6, <1>7 DEF Quietly

LEMMA QuietClose ==
    ASSUME NEW a, Engine(a), NEW id, NEW p, NEW n
    PROVE  Quietly(a, JsPopupClose(a, id, p, n)) /\ Quietly(a, JsEmbeddedClose(a, id, p, n))
<1>1. PICK b : b = DestroyPopup(a, p, n)
  OBVIOUS
<1>2. PICK c : c = DeliverEmbeddedDestroyed(DestroyEmbedded(a, p, n), p, n)
  OBVIOUS
<1>3. Quietly(a, b) /\ Quietly(a, c)
  BY <1>1, <1>2, QuietDestroyPopup, QuietDestroyEmbedded
<1>4. Quietly(b, Unregister(b, id, PopupObj(p, n))) /\ Quietly(c, Unregister(c, id, EmbedObj(p, n)))
  BY <1>3, QuietEngine, QuietRemoval
<1>5. Quietly(a, Unregister(b, id, PopupObj(p, n))) /\ Quietly(a, Unregister(c, id, EmbedObj(p, n)))
  BY <1>3, <1>4, QuietlyTwice
<1> QED
  BY <1>1, <1>2, <1>5, QuietRequire DEF JsPopupClose, JsEmbeddedClose

LEMMA CreatePopupIs ==
    ASSUME NEW a, Engine(a), NEW id \in LiveIds(a), NEW p, NEW n \in Names
    PROVE  Ordinary(a, JsPaneCreatePopup(a, id, p, n))
<1>1. PICK b : b = [CreatePopup(a, p, n) EXCEPT !.inst[id].popups = @ \cup {<<p, n>>}]
  OBVIOUS
<1>2. \/ JsPaneCreatePopup(a, id, p, n) \in {a, ScheduleTermination(a, id)}
      \/ p \in a.panes /\ JsPaneCreatePopup(a, id, p, n) = b
  BY <1>1 DEF JsPaneCreatePopup, Require
<1>3. ASSUME p \in a.panes PROVE MakesSurface(a, b)
  <2>1. PICK j : j = [a.inst[id] EXCEPT !.popups = @ \cup {<<p, n>>}]
    OBVIOUS
  <2>2. id \in DOMAIN a.inst /\ IsEngine(a) /\ IsInst(a.inst[id])
    BY EngineParts DEF LiveIds
  <2>3. /\ Changes(a, b, {"inst", "popups"}) /\ b.popups = a.popups \cup {<<p, n>>}
        /\ b.inst = [a.inst EXCEPT ![id] = j]
    BY <1>1, <2>1, <2>2 DEF CreatePopup, Changes, IsEngine, Fields
  <2>4. /\ b.lst = a.lst /\ b.count = a.count /\ b.flag = a.flag /\ b.embeds = a.embeds
        /\ IsEngine(b)
    BY <2>3 DEF Changes, Fields
  <2>5. /\ IsInst(j) /\ SameScript(a.inst[id], j) /\ SameUses(a.inst[id], j) /\ j.ctx = a.inst[id].ctx
        /\ j.popups = a.inst[id].popups \cup {<<p, n>>} /\ j.embeds = a.inst[id].embeds
    BY <2>1, <2>2, InstPopups
  <2>6. /\ Engine(b) /\ DOMAIN b.inst = DOMAIN a.inst
        /\ \A o \in DOMAIN b.inst : b.inst[o] = IF o = id THEN j ELSE a.inst[o]
    BY <2>2, <2>3, <2>4, <2>5, EngineParts, InstEdit
  <2>7. Changes(a, b, Quiet \cup {"inst", "popups", "embeds"})
    BY <2>3, ChangesMore
  <2>8. \A o \in DOMAIN a.inst :
          /\ SameScript(a.inst[o], b.inst[o]) /\ SameUses(a.inst[o], b.inst[o])
          /\ b.inst[o].ctx = a.inst[o].ctx
          /\ a.inst[o].popups \subseteq b.inst[o].popups
          /\ a.inst[o].embeds \subseteq b.inst[o].embeds
    BY <2>5, <2>6 DEF SameScript, SameUses
  <2>9. \A x \in b.popups \ a.popups :
          x \in a.panes \X Names /\ \E o \in LiveIds(a) : x \in b.inst[o].popups
    BY <1>3, <2>2, <2>3, <2>5, <2>6
  <2> QED
    BY <2>4, <2>6, <2>7, <2>8, <2>9 DEF MakesSurface
<1> QED
  BY <1>2, <1>3, QuietSame, QuietTermination DEF Ordinary

LEMMA CreateEmbeddedIs ==
    ASSUME NEW a, Engine(a), NEW id \in LiveIds(a), NEW p, NEW n \in Names
    PROVE  Ordinary(a, JsPaneCreateEmbedded(a, id, p, n))
<1>1. PICK b : b = [CreateEmbedded(a, p, n) EXCEPT !.inst[id].embeds = @ \cup {<<p, n>>}]
  OBVIOUS
<1>2. \/ JsPaneCreateEmbedded(a, id, p, n) \in {a, ScheduleTermination(a, id)}
      \/ p \in a.panes /\ JsPaneCreateEmbedded(a, id, p, n) = b
  BY <1>1 DEF JsPaneCreateEmbedded, Require
<1>3. ASSUME p \in a.panes PROVE MakesSurface(a, b)
  <2>1. PICK j : j = [a.inst[id] EXCEPT !.embeds = @ \cup {<<p, n>>}]
    OBVIOUS
  <2>2. id \in DOMAIN a.inst /\ IsEngine(a) /\ IsInst(a.inst[id])
    BY EngineParts DEF LiveIds
  <2>3. /\ Changes(a, b, {"inst", "embeds", "lines"}) /\ b.embeds = a.embeds \cup {<<p, n>>}
        /\ b.inst = [a.inst EXCEPT ![id] = j]
    BY <1>1, <2>1, <2>2 DEF CreateEmbedded, Changes, IsEngine, Fields
  <2>4. /\ b.lst = a.lst /\ b.count = a.count /\ b.flag = a.flag /\ b.popups = a.popups
        /\ IsEngine(b)
    BY <2>3 DEF Changes, Fields
  <2>5. /\ IsInst(j) /\ SameScript(a.inst[id], j) /\ SameUses(a.inst[id], j) /\ j.ctx = a.inst[id].ctx
        /\ j.embeds = a.inst[id].embeds \cup {<<p, n>>} /\ j.popups = a.inst[id].popups
    BY <2>1, <2>2, InstEmbeds
  <2>6. /\ Engine(b) /\ DOMAIN b.inst = DOMAIN a.inst
        /\ \A o \in DOMAIN b.inst : b.inst[o] = IF o = id THEN j ELSE a.inst[o]
    BY <2>2, <2>3, <2>4, <2>5, EngineParts, InstEdit
  <2>7. Changes(a, b, Quiet \cup {"inst", "popups", "embeds"})
    BY <2>3, ChangesMore DEF Quiet
  <2>8. \A o \in DOMAIN a.inst :
          /\ SameScript(a.inst[o], b.inst[o]) /\ SameUses(a.inst[o], b.inst[o])
          /\ b.inst[o].ctx = a.inst[o].ctx
          /\ a.inst[o].popups \subseteq b.inst[o].popups
          /\ a.inst[o].embeds \subseteq b.inst[o].embeds
    BY <2>5, <2>6 DEF SameScript, SameUses
  <2>9. \A x \in b.embeds \ a.embeds :
          x \in a.panes \X Names /\ \E o \in LiveIds(a) : x \in b.inst[o].embeds
    BY <1>3, <2>2, <2>3, <2>5, <2>6
  <2> QED
    BY <2>4, <2>6, <2>7, <2>8, <2>9 DEF MakesSurface
<1> QED
  BY <1>2, <1>3, QuietSame, QuietTermination DEF Ordinary

LEMMA NamespaceIs ==
    ASSUME NEW a, Engine(a), NEW id, NEW n PROVE Ordinary(a, JsMbSetNamespace(a, id, n))
<1>1. PICK b : b = [a EXCEPT !.inst[id].ns = n]
  OBVIOUS
<1>2. \/ JsMbSetNamespace(a, id, n) = a
      \/ id \in DOMAIN a.inst /\ JsMbSetNamespace(a, id, n) = b
  BY <1>1 DEF JsMbSetNamespace, SetNamespace, Live
<1>3. ASSUME id \in DOMAIN a.inst PROVE Relabels(a, b)
  <2>1. PICK j : j = [a.inst[id] EXCEPT !.ns = n]
    OBVIOUS
  <2>2. id \in DOMAIN a.inst /\ IsEngine(a) /\ IsInst(a.inst[id])
    BY <1>3, EngineParts
  <2>3. Changes(a, b, {"inst"}) /\ b.inst = [a.inst EXCEPT ![id] = j]
    BY <1>1, <2>1, <2>2 DEF Changes, IsEngine, Fields
  <2>4. b.lst = a.lst /\ b.count = a.count /\ b.flag = a.flag /\ IsEngine(b)
    BY <2>3 DEF Changes, Fields
  <2>5. /\ IsInst(j) /\ SameScript(a.inst[id], j) /\ SameUses(a.inst[id], j)
        /\ SameSurfaces(a.inst[id], j) /\ j.ctx = a.inst[id].ctx
    BY <2>1, <2>2, InstNs
  <2>6. /\ Engine(b) /\ DOMAIN b.inst = DOMAIN a.inst
        /\ \A o \in DOMAIN b.inst : b.inst[o] = IF o = id THEN j ELSE a.inst[o]
    <3>1. /\ ListenerTypes(b.lst) /\ b.count \in [Counted -> [Panes -> Nat]]
          /\ b.flag \in [Filters -> [Panes -> BOOLEAN]]
      BY <2>4, EngineParts
    <3> QED
      BY <2>2, <2>3, <2>4, <2>5, <3>1, InstEdit
  <2> QED
    BY <2>3, <2>5, <2>6 DEF Relabels, SameScript, SameUses, SameSurfaces
<1> QED
  BY <1>2, <1>3, QuietSame DEF Ordinary

LEMMA SweepIs == ASSUME NEW a, Engine(a) PROVE Relabels(a, Sweep(a))
<1>1. PICK b : b = Sweep(a)
  OBVIOUS
<1>2. IsEngine(a)
  BY EngineParts
<1>3. /\ Changes(a, b, {"inst"})
      /\ b.inst = [id \in DOMAIN a.inst |-> IF a.inst[id].ctx THEN a.inst[id]
                                            ELSE [a.inst[id] EXCEPT !.held = FALSE]]
  BY <1>1, <1>2 DEF Sweep, Changes, IsEngine, Fields
<1>4. b.lst = a.lst /\ b.count = a.count /\ b.flag = a.flag /\ IsEngine(b)
  BY <1>3 DEF Changes, Fields
<1>5. ASSUME NEW id \in DOMAIN a.inst
      PROVE  /\ IsInst(b.inst[id]) /\ SameScript(a.inst[id], b.inst[id])
             /\ SameUses(a.inst[id], b.inst[id]) /\ SameSurfaces(a.inst[id], b.inst[id])
             /\ b.inst[id].ctx = a.inst[id].ctx
  <2>1. b.inst[id] \in {a.inst[id], [a.inst[id] EXCEPT !.held = FALSE]}
    BY <1>3
  <2>2. IsInst(a.inst[id])
    BY EngineParts
  <2>3. CASE b.inst[id] = a.inst[id]
    BY <2>2, <2>3 DEF SameScript, SameUses, SameSurfaces
  <2>4. CASE b.inst[id] = [a.inst[id] EXCEPT !.held = FALSE]
    BY <2>2, <2>4, InstHeld
  <2> QED
    BY <2>1, <2>3, <2>4
<1>6. Engine(b)
  BY <1>3, <1>4, <1>5, EngineParts DEF Engine, ListenerTypes
<1> QED
  BY <1>1, <1>3, <1>5, <1>6 DEF Relabels

LEMMA QuietNames ==
    ASSUME NEW a, Engine(a), NEW id \in LiveIds(a), NEW n
    PROVE  /\ Quietly(a, JsMbRegisterAction(a, id, n)) /\ Quietly(a, JsMbActionsRegister(a, id, n))
           /\ Quietly(a, JsMbActionsUnregister(a, id, n))
<1>0. IsEngine(a) /\ Live(a, id) /\ ListenerTypes(a.lst)
  BY EngineParts DEF LiveIds, Live
<1>1. ASSUME NEW b, Changes(a, b, {"actions", "handlers"}),
             OwnersLive(a, a.actions) => OwnersLive(a, b.actions),
             OwnersLive(a, a.handlers) => OwnersLive(a, b.handlers)
      PROVE  Quietly(a, b)
  <2>1. b.lst = a.lst /\ b.embeds = a.embeds /\ b.popups = a.popups
    BY <1>1 DEF Changes, Fields
  <2>2. Fewer(a, b) /\ ListenerTypes(b.lst)
    BY <1>0, <2>1, SameLstFewer
  <2>3. Changes(a, b, Quiet \cup {"lst", "popups", "embeds", "actions", "handlers"})
    BY <1>1, ChangesMore
  <2> QED
    BY <1>1, <2>1, <2>2, <2>3 DEF Quietly
<1>2. ASSUME NEW x PROVE Quietly(a, [a EXCEPT !.actions = Put(@, x, id)])
  <2>1. PICK b : b = [a EXCEPT !.actions = Put(@, x, id)]
    OBVIOUS
  <2>2. /\ Changes(a, b, {"actions", "handlers"}) /\ b.actions = Put(a.actions, x, id)
        /\ b.handlers = a.handlers
    BY <1>0, <2>1 DEF Changes, IsEngine, Fields
  <2>3. OwnersLive(a, a.actions) => OwnersLive(a, b.actions)
    BY <1>0, <2>2 DEF OwnersLive, Put
  <2> QED
    BY <1>1, <2>1, <2>2, <2>3
<1>3. Quietly(a, RegisterActionHandler(a, id, n))
  <2>1. PICK b : b = RegisterActionHandler(a, id, n)
    OBVIOUS
  <2>2. /\ Changes(a, b, {"actions", "handlers"}) /\ b.handlers = Put(a.handlers, n, id)
        /\ b.actions = a.actions
    BY <1>0, <2>1 DEF RegisterActionHandler, Changes, IsEngine, Fields
  <2>3. OwnersLive(a, a.handlers) => OwnersLive(a, b.handlers)
    BY <1>0, <2>2 DEF OwnersLive, Put
  <2> QED
    BY <1>1, <2>1, <2>2, <2>3
<1>4. Quietly(a, UnregisterActionHandler(a, n))
  <2>1. PICK b : b = UnregisterActionHandler(a, n)
    OBVIOUS
  <2>2. /\ Changes(a, b, {"actions", "handlers"}) /\ b.actions = a.actions
        /\ b.handlers = [k \in DOMAIN a.handlers \ {n} |-> a.handlers[k]]
    BY <1>0, <2>1 DEF UnregisterActionHandler, Changes, IsEngine, Fields
  <2>3. OwnersLive(a, a.handlers) => OwnersLive(a, b.handlers)
    BY <2>2 DEF OwnersLive
  <2> QED
    BY <1>1, <2>1, <2>2, <2>3
<1>5. Quietly(a, RegisterAction(a, id, n))
  <2>1. RegisterAction(a, id, n)
           \in {a, [a EXCEPT !.actions = Put(@, <<a.inst[id].ns, n>>, id)]}
    BY DEF RegisterAction
  <2> QED
    BY <1>2, <2>1, QuietSame
<1> QED
  BY <1>3, <1>4, <1>5, QuietRequire
     DEF JsMbRegisterAction, JsMbActionsRegister, JsMbActionsUnregister

LEMMA QuietMb ==
    ASSUME NEW a, Engine(a), NEW id \in LiveIds(a), NEW v \in {"action", "quit-requested"}, NEW k, NEW n
    PROVE  /\ Quietly(a, JsMbAddEventListener(a, id, v)) /\ Quietly(a, JsMbRemoveEventListener(a, id, v))
           /\ Quietly(a, JsMbConfigPatch(a, id, k)) /\ Quietly(a, JsMbConfigAddKeybinding(a, id, k))
           /\ Quietly(a, JsMbConfigRemoveKeybinding(a, id, k))
           /\ Quietly(a, JsMbConfigAddMousebinding(a, id))
           /\ Quietly(a, JsMbConfigRemoveMousebinding(a, id))
           /\ Quietly(a, JsMbRegisterTcap(a, id, n)) /\ Quietly(a, JsMbUnregisterTcap(a, id, n))
<1>1. Quietly(a, JsMbAddEventListener(a, id, v))
  BY QuietListening, OtherObjects DEF JsMbAddEventListener
<1>2. Quietly(a, JsMbRemoveEventListener(a, id, v))
  BY QuietRemoval DEF JsMbRemoveEventListener
<1>3. \A keys : Quietly(a, ApplyConfigJson(a, keys))
  BY QuietConfig
<1>4. /\ Quietly(a, JsMbConfigPatch(a, id, k)) /\ Quietly(a, JsMbConfigAddKeybinding(a, id, k))
      /\ Quietly(a, JsMbConfigRemoveKeybinding(a, id, k))
      /\ Quietly(a, JsMbConfigAddMousebinding(a, id))
      /\ Quietly(a, JsMbConfigRemoveMousebinding(a, id))
  BY <1>3, QuietRequire
     DEF JsMbConfigPatch, JsMbConfigAddKeybinding, JsMbConfigRemoveKeybinding,
         JsMbConfigAddMousebinding, JsMbConfigRemoveMousebinding
<1>5. ASSUME NEW t PROVE Quietly(a, [a EXCEPT !.tcaps = t])
  <2>1. IsEngine(a)
    BY EngineParts
  <2>2. Changes(a, [a EXCEPT !.tcaps = t], Quiet)
    BY <2>1 DEF Changes, IsEngine, Fields, Quiet
  <2> QED
    BY <2>2, QuietBy
<1>6. Quietly(a, JsMbRegisterTcap(a, id, n)) /\ Quietly(a, JsMbUnregisterTcap(a, id, n))
  BY <1>5, QuietRequire DEF JsMbRegisterTcap, JsMbUnregisterTcap
<1> QED
  BY <1>1, <1>2, <1>4, <1>6

LEMMA QuietGated ==
    ASSUME NEW a, Engine(a), NEW id
    PROVE  /\ Quietly(a, JsPaneWrite(a, id)) /\ Quietly(a, JsPanePaste(a, id))
           /\ Quietly(a, JsTerminalInject(a, id)) /\ Quietly(a, JsPaneGetSelection(a, id))
           /\ Quietly(a, JsMbGetClipboard(a, id)) /\ Quietly(a, JsMbSetClipboard(a, id))
<1>1. \A perm : Quietly(a, Require(a, id, perm, a))
  BY QuietRequire, QuietSame
<1> QED
  BY <1>1 DEF JsPaneWrite, JsPanePaste, JsTerminalInject, JsPaneGetSelection,
              JsMbGetClipboard, JsMbSetClipboard

\* One field of the quiet ones is another.
LEMMA QuietField ==
    ASSUME NEW a, Engine(a), NEW x
    PROVE  /\ Quietly(a, [a EXCEPT !.jobs = x]) /\ Quietly(a, [a EXCEPT !.exits = x])
           /\ Quietly(a, [a EXCEPT !.files = x])
           /\ Quietly(a, [a EXCEPT !.disk = x]) /\ Quietly(a, [a EXCEPT !.modules = x])
<1>0. IsEngine(a)
  BY EngineParts
<1>1. Changes(a, [a EXCEPT !.jobs = x], Quiet)
  BY <1>0 DEF Changes, IsEngine, Fields, Quiet
<1>2. Changes(a, [a EXCEPT !.exits = x], Quiet)
  BY <1>0 DEF Changes, IsEngine, Fields, Quiet
<1>3. Changes(a, [a EXCEPT !.files = x], Quiet)
  BY <1>0 DEF Changes, IsEngine, Fields, Quiet
<1>4. Changes(a, [a EXCEPT !.disk = x], Quiet)
  BY <1>0 DEF Changes, IsEngine, Fields, Quiet
<1>5. Changes(a, [a EXCEPT !.modules = x], Quiet)
  BY <1>0 DEF Changes, IsEngine, Fields, Quiet
<1> QED
  BY <1>1, <1>2, <1>3, <1>4, <1>5, QuietBy

LEMMA WsChanges ==
    ASSUME NEW a, Engine(a), NEW x
    PROVE  Changes(a, [a EXCEPT !.w = x], {"w"}) /\ [a EXCEPT !.w = x].w = x
<1>1. IsEngine(a)
  BY EngineParts
<1> QED
  BY <1>1 DEF Changes, IsEngine, Fields

-----------------------------------------------------------------------------
(* The steps.                                                              *)

LEMMA FrameSteps ==
    ASSUME Engine(e), Frames PROVE Ordinary(e, e') /\ said' = said
<1>0. Quietly(e, e) /\ Relabels(e, Sweep(e))
  BY QuietSame, SweepIs
<1>1. CASE JsReturn
  BY <1>0, <1>1 DEF JsReturn, Step, Ordinary
<1>2. CASE FanCalls
  BY <1>0, <1>2 DEF FanCalls, Step, Ordinary
<1>3. CASE FanMoves
  BY <1>0, <1>3 DEF FanMoves, Step, Ordinary
<1>4. CASE FanEnds
  BY <1>0, <1>4 DEF FanEnds, Step, Ordinary
<1>5. CASE ExecutePendingJobs
  <2>1. e' \in {e, [e EXCEPT !.jobs = Tail(e.jobs)]} /\ said' = said
    BY <1>5 DEF ExecutePendingJobs, Step
  <2>2. Quietly(e, [e EXCEPT !.jobs = Tail(e.jobs)])
    BY QuietField
  <2> QED
    BY <1>0, <2>1, <2>2 DEF Ordinary
<1>6. CASE TimerReturns
  BY <1>0, <1>6, QuietTimers DEF TimerReturns, Step, Ordinary
<1>7. CASE DispatchReturns
  BY <1>7, QuietNotify DEF DispatchReturns, NotifyAction, Step, Ordinary
<1> QED
  BY <1>1, <1>2, <1>3, <1>4, <1>5, <1>6, <1>7 DEF Frames

LEMMA CallerLives == ASSUME NEW id, NEW s, CallBy(id, s) PROVE id \in LiveIds(e)
  BY DEF CallBy, LiveIds, Live

LEMMA SurfaceCalls ==
    ASSUME Engine(e), NEW id,
           PopupCall(id) \/ EmbeddedCall(id) \/ JsPopupResize(id) \/ JsEmbeddedResize(id)
    PROVE  Ordinary(e, e') /\ said' = said
<1>1. CASE PopupCall(id)
  <2>1. id \in LiveIds(e)
    BY <1>1, CallerLives DEF PopupCall
  <2>2. PICK p \in Panes, n \in Names :
           \/ Called(JsPaneCreatePopup(e, id, p, n), stack)
           \/ Called(JsPopupClose(e, id, p, n), stack)
           \/ Called(JsPopupFocus(e, id, p, n), stack)
           \/ Called(JsPopupRemoveEventListener(e, id, p, n, "input"), stack)
           \/ \E v \in {"input", "resized"}, same \in BOOLEAN :
                 Called(JsPopupAddEventListener(e, id, p, n, v, same), stack)
    BY <1>1 DEF PopupCall
  <2>3. \/ e' = JsPaneCreatePopup(e, id, p, n) \/ e' = JsPopupClose(e, id, p, n)
        \/ e' = JsPopupFocus(e, id, p, n) \/ e' = JsPopupRemoveEventListener(e, id, p, n, "input")
        \/ \E v, same : e' = JsPopupAddEventListener(e, id, p, n, v, same)
    BY <2>2 DEF Called
  <2>4. said' = said
    BY <2>2 DEF Called
  <2>5. Ordinary(e, JsPaneCreatePopup(e, id, p, n))
    BY <2>1, CreatePopupIs
  <2>6. Quietly(e, JsPopupClose(e, id, p, n))
    BY QuietClose
  <2>7. Quietly(e, JsPopupFocus(e, id, p, n))
    BY QuietFocus, QuietRequire DEF JsPopupFocus
  <2>8. Quietly(e, JsPopupRemoveEventListener(e, id, p, n, "input"))
    BY QuietRemoval DEF JsPopupRemoveEventListener
  <2>9. \A v, same : Quietly(e, JsPopupAddEventListener(e, id, p, n, v, same))
    BY QuietSurfaceListener
  <2> QED
    BY <2>3, <2>4, <2>5, <2>6, <2>7, <2>8, <2>9 DEF Ordinary
<1>2. CASE EmbeddedCall(id)
  <2>1. id \in LiveIds(e)
    BY <1>2, CallerLives DEF EmbeddedCall
  <2>2. PICK p \in Panes, l \in Names :
           \/ Called(JsPaneCreateEmbedded(e, id, p, l), stack)
           \/ Called(JsEmbeddedClose(e, id, p, l), stack)
           \/ Called(JsEmbeddedFocus(e, id, p, l), stack)
           \/ Called(JsEmbeddedRemoveEventListener(e, id, p, l, "destroyed"), stack)
           \/ \E v \in {"mouse", "destroyed"} :
                 Called(JsEmbeddedAddEventListener(e, id, p, l, v, TRUE), stack)
    BY <1>2 DEF EmbeddedCall
  <2>3. \/ e' = JsPaneCreateEmbedded(e, id, p, l) \/ e' = JsEmbeddedClose(e, id, p, l)
        \/ e' = JsEmbeddedFocus(e, id, p, l) \/ e' = JsEmbeddedRemoveEventListener(e, id, p, l, "destroyed")
        \/ \E v : e' = JsEmbeddedAddEventListener(e, id, p, l, v, TRUE)
    BY <2>2 DEF Called
  <2>4. said' = said
    BY <2>2 DEF Called
  <2>5. Ordinary(e, JsPaneCreateEmbedded(e, id, p, l))
    BY <2>1, CreateEmbeddedIs
  <2>6. Quietly(e, JsEmbeddedClose(e, id, p, l))
    BY QuietClose
  <2>7. Quietly(e, JsEmbeddedFocus(e, id, p, l))
    BY QuietFocus, QuietRequire DEF JsEmbeddedFocus
  <2>8. Quietly(e, JsEmbeddedRemoveEventListener(e, id, p, l, "destroyed"))
    BY QuietRemoval DEF JsEmbeddedRemoveEventListener
  <2>9. \A v : Quietly(e, JsEmbeddedAddEventListener(e, id, p, l, v, TRUE))
    BY QuietSurfaceListener
  <2> QED
    BY <2>3, <2>4, <2>5, <2>6, <2>7, <2>8, <2>9 DEF Ordinary
<1>3. CASE JsPopupResize(id) \/ JsEmbeddedResize(id)
  <2>1. e' = e /\ said' = said
    BY <1>3 DEF JsPopupResize, JsEmbeddedResize, Called
  <2> QED
    BY <2>1, QuietSame DEF Ordinary
<1> QED
  BY <1>1, <1>2, <1>3

LEMMA FilterCalls ==
    ASSUME Engine(e), NEW id,
           \/ PaneListens(id) \/ PaneStopsListening(id) \/ Exits(id) \/ GatedCall(id) \/ Unloads(id)
    PROVE  Ordinary(e, e') /\ said' = said
<1>1. CASE PaneListens(id)
  <2>1. id \in LiveIds(e)
    BY <1>1, CallerLives DEF PaneListens
  <2>2. PICK p \in Panes, v \in {"output", "mousemove", "commandComplete"}, same \in BOOLEAN :
           Called(JsPaneAddEventListener(e, id, p, v, same), stack)
    BY <1>1 DEF PaneListens
  <2>3. Ordinary(e, JsPaneAddEventListener(e, id, p, v, same))
    BY <2>1, ListeningIs
  <2> QED
    BY <2>2, <2>3 DEF Called
<1>2. CASE PaneStopsListening(id)
  <2>1. PICK p \in Panes : Called(JsPaneRemoveEventListener(e, id, p, "output"), stack)
    BY <1>2 DEF PaneStopsListening
  <2>2. Quietly(e, JsPaneRemoveEventListener(e, id, p, "output"))
    BY QuietRemoval DEF JsPaneRemoveEventListener
  <2> QED
    BY <2>1, <2>2 DEF Called, Ordinary
<1>3. CASE Exits(id)
  BY <1>3, QuietTermination DEF Exits, Called, Ordinary
<1>4. CASE GatedCall(id)
  <2>1. said' = said
    BY <1>4 DEF GatedCall, Called
  <2>2. \/ e' = JsPaneWrite(e, id) \/ e' = JsPanePaste(e, id) \/ e' = JsTerminalInject(e, id)
        \/ e' = JsPaneGetSelection(e, id) \/ e' = JsMbGetClipboard(e, id)
        \/ e' = JsMbSetClipboard(e, id)
    BY <1>4 DEF GatedCall, Called
  <2> QED
    BY <2>1, <2>2, QuietGated DEF Ordinary
<1>5. CASE Unloads(id)
  <2>1. PICK o \in LiveIds(e) : Called(Unload(e, o, Iterating), stack)
    BY <1>5 DEF Unloads
  <2>2. o \in DOMAIN e.inst /\ Live(e, o) /\ Iterating \in BOOLEAN
    BY <2>1 DEF LiveIds, Live, Iterating
  <2>3. Changes(e', e', {"exits"})
    <3>1. Engine(e')
      BY <2>1, <2>2, UnloadIs DEF Called
    <3> QED
      BY <3>1, EngineParts, NoChange
  <2>4. Unloaded(e, e')
    BY <2>1, <2>2, <2>3 DEF Unloaded, Called
  <2> QED
    BY <2>1, <2>4 DEF Ordinary, Called
<1> QED
  BY <1>1, <1>2, <1>3, <1>4, <1>5

LEMMA NameCalls ==
    ASSUME Engine(e), NEW id,
           \/ NameCall(id) \/ MbCall(id) \/ JsMbInvokeAction(id) \/ MakesTimer(id) \/ ClearsTimer(id)
    PROVE  Ordinary(e, e') /\ said' = said
<1>1. CASE NameCall(id)
  <2>1. id \in LiveIds(e)
    BY <1>1, CallerLives DEF NameCall
  <2>2. PICK n \in Names :
          \/ Called(JsMbSetNamespace(e, id, n), stack)
          \/ Called(JsMbRegisterAction(e, id, n), stack)
          \/ Called(JsMbActionsRegister(e, id, n), stack)
          \/ Called(JsMbActionsUnregister(e, id, n), stack)
    BY <1>1 DEF NameCall
  <2>3. Quietly(e, JsMbRegisterAction(e, id, n)) /\ Quietly(e, JsMbActionsRegister(e, id, n))
        /\ Quietly(e, JsMbActionsUnregister(e, id, n))
    BY <2>1, QuietNames
  <2>4. Ordinary(e, JsMbSetNamespace(e, id, n))
    BY NamespaceIs
  <2> QED
    BY <2>2, <2>3, <2>4 DEF Ordinary, Called
<1>2. CASE MbCall(id)
  <2>1. id \in LiveIds(e)
    BY <1>2, CallerLives DEF MbCall
  <2>2. said' = said
    BY <1>2 DEF MbCall, Called
  <2>3. \/ \E v \in {"action", "quit-requested"} : e' = JsMbAddEventListener(e, id, v)
        \/ e' = JsMbRemoveEventListener(e, id, "action")
        \/ e' = JsMbConfigPatch(e, id, <<"k">>) \/ e' = JsMbConfigAddKeybinding(e, id, "j")
        \/ e' = JsMbConfigRemoveKeybinding(e, id, "k") \/ e' = JsMbConfigAddMousebinding(e, id)
        \/ e' = JsMbConfigRemoveMousebinding(e, id)
        \/ e' = JsMbRegisterTcap(e, id, "t") \/ e' = JsMbUnregisterTcap(e, id, "t")
    BY <1>2 DEF MbCall, Called
  <2>4. Quietly(e, e')
    BY <2>1, <2>3, QuietMb
  <2> QED
    BY <2>2, <2>4 DEF Ordinary
<1>3. CASE JsMbInvokeAction(id)
  BY <1>3, QuietSame DEF JsMbInvokeAction, Called, Ordinary
<1>4. CASE MakesTimer(id) \/ ClearsTimer(id)
  <2>1. said' = said
    BY <1>4 DEF MakesTimer, ClearsTimer, Called
  <2>2. \/ \E interval : e' = SetTimer(e, id, interval)
        \/ \E t : e' = JsClearTimer(e, t)
    BY <1>4 DEF MakesTimer, ClearsTimer, Called, JsSetTimeout, JsSetInterval
  <2> QED
    BY <2>1, <2>2, QuietTimers DEF Ordinary
<1> QED
  BY <1>1, <1>2, <1>3, <1>4

LEMMA WsAndFileCalls ==
    ASSUME Engine(e), NEW id, WsCall(id) \/ FsCall(id)
    PROVE  Ordinary(e, e') /\ said' = said
<1>1. CASE WsCall(id)
  <2>0. id \in LiveIds(e) /\ said' = said
    BY <1>1, CallerLives DEF WsCall, Called
  <2>1. \/ e' = Require(e, id, "net.listen.local", [e EXCEPT !.w = JsWsCreateServer(e.w, id)])
        \/ \E s \in DOMAIN e.w.server : e' = [e EXCEPT !.w = JsWsServerClose(e.w, s)]
        \/ \E c \in DOMAIN e.w.conn : e' = [e EXCEPT !.w = JsWsConnSend(e.w, c, "f")]
    BY <1>1 DEF WsCall, Called
  <2>2. ASSUME e' = [e EXCEPT !.w = JsWsCreateServer(e.w, id)] PROVE WsMoves(e, e')
    BY <2>0, <2>2, WsChanges DEF WsMoves
  <2>3. ASSUME NEW s \in DOMAIN e.w.server, e' = [e EXCEPT !.w = JsWsServerClose(e.w, s)]
        PROVE  WsMoves(e, e')
    BY <2>3, WsChanges DEF WsMoves
  <2>4. ASSUME NEW c \in DOMAIN e.w.conn, e' = [e EXCEPT !.w = JsWsConnSend(e.w, c, "f")]
        PROVE  WsMoves(e, e')
    BY <2>4, WsChanges DEF WsMoves
  <2>5. Require(e, id, "net.listen.local", [e EXCEPT !.w = JsWsCreateServer(e.w, id)])
          \in {[e EXCEPT !.w = JsWsCreateServer(e.w, id)], ScheduleTermination(e, id)}
    BY DEF Require
  <2> QED
    BY <2>0, <2>1, <2>2, <2>3, <2>4, <2>5, QuietTermination DEF Ordinary
<1>2. CASE FsCall(id)
  <2>1. \A x : Called([e EXCEPT !.files = x], stack) => Ordinary(e, e') /\ said' = said
    <3>1. \A x : Ordinary(e, [e EXCEPT !.files = x])
      BY QuietField DEF Ordinary
    <3> QED
      BY <3>1 DEF Called
  <2>2. \E x : Called([e EXCEPT !.files = x], stack)
    BY <1>2 DEF FsCall
  <2> QED
    BY <2>1, <2>2
<1> QED
  BY <1>1, <1>2

LEMMA EventSteps ==
    ASSUME Engine(e),
           \/ FilterPaneOutput \/ DeliverPaneMouseMove \/ CommandCompletes \/ Announce
           \/ DeliverPopupInput \/ DeliverEmbeddedMouse \/ EmbeddedEvicted
           \/ KeyAction \/ PromiseSettles \/ FireTimer
    PROVE  Ordinary(e, e') /\ said' = said
<1>1. CASE FilterPaneOutput \/ DeliverPopupInput \/ DeliverEmbeddedMouse \/ KeyAction \/ FireTimer
  <2>1. e' = e /\ said' = said
    BY <1>1 DEF FilterPaneOutput, DeliverPopupInput, DeliverEmbeddedMouse, KeyAction, FireTimer, Happens
  <2> QED
    BY <2>1, QuietSame DEF Ordinary
<1>2. CASE DeliverPaneMouseMove \/ CommandCompletes
  <2>1. said' = said /\ \E p, v : e' = NotifyPane(e, p, v)
    BY <1>2 DEF DeliverPaneMouseMove, CommandCompletes, Happens, NotifyPaneMouseMove, NotifyCommandComplete
  <2> QED
    BY <2>1, QuietNotify DEF Ordinary
<1>3. CASE Announce
  <2>1. said' = said
    BY <1>3 DEF Announce, Happens
  <2>2. PICK p \in e.panes :
          \/ Happens(NotifyTabCreated(e), <<>>) \/ Happens(NotifyTabDestroyed(e), <<>>)
          \/ Happens(NotifyTerminalExited(e), <<>>) \/ Happens(NotifyPaneCreated(e), <<>>)
          \/ Happens(NotifyPaneResized(e, p), <<>>) \/ Happens(NotifyOSC(e, p), <<>>)
          \/ Happens(NotifyForegroundProcessChanged(e, p), <<>>)
          \/ Happens(NotifyPaneFocusChanged(e, p), <<>>)
          \/ Happens(NotifyCommandSelectionChanged(e, p), <<>>)
          \/ HasQuitListeners(e) /\ Happens(FireQuitRequested(e), <<>>)
    BY <1>3 DEF Announce
  <2>3. \/ \E v : e' = NotifyMb(e, v) \/ e' = NotifyPane(e, p, v)
        \/ e' = NotifyOSC(e, p)
    BY <2>2 DEF Happens, NotifyTabCreated, NotifyTabDestroyed, NotifyTerminalExited, NotifyPaneCreated,
                NotifyPaneResized, NotifyForegroundProcessChanged, NotifyPaneFocusChanged,
                NotifyCommandSelectionChanged, FireQuitRequested
  <2> QED
    BY <2>1, <2>3, QuietNotify DEF Ordinary
<1>4. CASE EmbeddedEvicted
  <2>1. said' = said
        /\ \E x : e' = DeliverEmbeddedDestroyed(DestroyEmbedded(e, x[1], x[2]), x[1], x[2])
    BY <1>4 DEF EmbeddedEvicted, Happens
  <2> QED
    BY <2>1, QuietDestroyEmbedded DEF Ordinary
<1>5. CASE PromiseSettles
  <2>1. said' = said /\ \E id : e' = [e EXCEPT !.jobs = Append(e.jobs, Job(id, "await"))]
    BY <1>5 DEF PromiseSettles, Happens
  <2>2. PICK js : e' = [e EXCEPT !.jobs = js]
    BY <2>1
  <2> QED
    BY <2>1, <2>2, QuietField DEF Ordinary
<1> QED
  BY <1>1, <1>2, <1>3, <1>4, <1>5

LEMMA FileSteps ==
    ASSUME Engine(e), EditFile \/ EditModule \/ UserMakesDir
    PROVE  Ordinary(e, e') /\ said' = said
<1>1. CASE EditFile
  <2>1. PICK path \in Paths, hash \in Hashes : Happens([e EXCEPT !.disk[path] = hash], <<>>)
    BY <1>1 DEF EditFile
  <2>2. said' = said /\ e' = [e EXCEPT !.disk = [e.disk EXCEPT ![path] = hash]]
    BY <2>1 DEF Happens
  <2> QED
    BY <2>2, QuietField DEF Ordinary
<1>2. CASE EditModule
  <2>1. PICK path \in Paths : Happens([e EXCEPT !.modules[path] = 2], <<>>)
    BY <1>2 DEF EditModule
  <2>2. said' = said /\ e' = [e EXCEPT !.modules = [e.modules EXCEPT ![path] = 2]]
    BY <2>1 DEF Happens
  <2> QED
    BY <2>2, QuietField DEF Ordinary
<1>3. CASE UserMakesDir
  <2>1. PICK id \in {2, 3} :
           Happens([e EXCEPT !.files = EnsureConfigDir(e.files, ScriptConfigDir(e.inst[id]))], <<>>)
    BY <1>3 DEF UserMakesDir
  <2>2. PICK x : x = EnsureConfigDir(e.files, ScriptConfigDir(e.inst[id]))
    OBVIOUS
  <2>3. said' = said /\ e' = [e EXCEPT !.files = x]
    BY <2>1, <2>2 DEF Happens
  <2> QED
    BY <2>3, QuietField DEF Ordinary
<1> QED
  BY <1>1, <1>2, <1>3

LEMMA LwsSteps == ASSUME Engine(e), LwsCalls PROVE Ordinary(e, e') /\ said' = said
<1>1. said' = said
  BY DEF LwsCalls, Happens
<1>2. \/ \E s \in DOMAIN e.w.server : e.w.server[s].vhost /\ e' = [e EXCEPT !.w = Established(e.w, s)]
      \/ \E c \in DOMAIN e.w.conn :
            \/ \E final \in BOOLEAN : e' = [e EXCEPT !.w = Receive(e.w, c, "g", final)]
            \/ \E short \in BOOLEAN : e' = [e EXCEPT !.w = ServerWriteable(e.w, c, short)]
            \/ e' = [e EXCEPT !.w.conn[c] = LwsClosed(e.w, @)]
  BY DEF LwsCalls, Happens
<1>3. ASSUME NEW s \in DOMAIN e.w.server, e.w.server[s].vhost, e' = [e EXCEPT !.w = Established(e.w, s)]
      PROVE  WsMoves(e, e')
  BY <1>3, WsChanges DEF WsMoves
<1>4. ASSUME NEW c \in DOMAIN e.w.conn, NEW final \in BOOLEAN,
             e' = [e EXCEPT !.w = Receive(e.w, c, "g", final)]
      PROVE  WsMoves(e, e')
  BY <1>4, WsChanges DEF WsMoves
<1>5. ASSUME NEW c \in DOMAIN e.w.conn, NEW short \in BOOLEAN,
             e' = [e EXCEPT !.w = ServerWriteable(e.w, c, short)]
      PROVE  WsMoves(e, e')
  BY <1>5, WsChanges DEF WsMoves
<1>6. ASSUME NEW c \in DOMAIN e.w.conn, e' = [e EXCEPT !.w.conn[c] = LwsClosed(e.w, @)]
      PROVE  WsMoves(e, e')
  <2>1. PICK x : x = [e.w EXCEPT !.conn[c] = LwsClosed(e.w, @)]
    OBVIOUS
  <2>2. e' = [e EXCEPT !.w = x]
    BY <1>6, <2>1
  <2>3. Changes(e, e', {"w"}) /\ e'.w = x
    BY <2>2, WsChanges
  <2> QED
    BY <2>1, <2>3 DEF WsMoves
<1> QED
  BY <1>1, <1>2, <1>3, <1>4, <1>5, <1>6 DEF Ordinary

LEMMA GoingSteps ==
    ASSUME Engine(e), PaneCloses \/ Tick \/ ExitFires
    PROVE  Ordinary(e, e') /\ said' = said
<1>1. CASE PaneCloses
  <2>1. PaneGoes(e, e') /\ said' = said
    BY <1>1 DEF PaneCloses, PaneGoes, WithoutPane, Happens
  <2> QED
    BY <2>1 DEF Ordinary
<1>2. CASE Tick
  <2>1. e' = e /\ said' = said
    BY <1>2 DEF Tick, Step
  <2> QED
    BY <2>1, QuietSame DEF Ordinary
<1>3. CASE ExitFires
  <2>1. PICK id \in e.exits : Step([Unload(e, id, FALSE) EXCEPT !.exits = @ \ {id}], <<>>)
    BY <1>3 DEF ExitFires
  <2>2. PICK u : u = Unload(e, id, FALSE)
    OBVIOUS
  <2>3. PICK x : x = u.exits \ {id}
    OBVIOUS
  <2>4. e' = [u EXCEPT !.exits = x] /\ said' = said
    BY <2>1, <2>2, <2>3 DEF Step
  <2>5. CASE Live(e, id)
    <3>1. IsEngine(u)
      BY <2>2, <2>5, UnloadIs, EngineParts
    <3>2. Changes(u, e', {"exits"})
      BY <2>4, <3>1 DEF Changes, IsEngine, Fields
    <3>3. Unloaded(e, e')
      BY <2>2, <2>5, <3>2 DEF Unloaded, Live
    <3> QED
      BY <2>4, <3>3 DEF Ordinary
  <2>6. CASE ~Live(e, id)
    <3>1. u = e
      BY <2>2, <2>6 DEF Unload
    <3> QED
      BY <2>4, <3>1, QuietField DEF Ordinary
  <2> QED
    BY <2>5, <2>6
<1> QED
  BY <1>1, <1>2, <1>3

\* What is not of those kinds: loading, and the engine's end and start.
LEMMA StepKinds ==
    ASSUME Engine(e), [Next]_vars
    PROVE  \/ Ordinary(e, e') /\ said' = said
           \/ \E id : JsMbLoadScript(id) \/ JsMbApproveScript(id)
           \/ Restart \/ EngineEnds
<1>1. CASE UNCHANGED vars
  BY <1>1, QuietSame DEF vars, Ordinary
<1>2. CASE Frames
  BY <1>2, FrameSteps
<1>3. CASE Calls
  <2>1. PICK id \in DOMAIN e.inst :
          \/ PaneListens(id) \/ PaneStopsListening(id) \/ Exits(id) \/ GatedCall(id) \/ Unloads(id)
          \/ PopupCall(id) \/ EmbeddedCall(id) \/ JsPopupResize(id) \/ JsEmbeddedResize(id)
          \/ NameCall(id) \/ MbCall(id) \/ JsMbInvokeAction(id) \/ MakesTimer(id) \/ ClearsTimer(id)
          \/ JsMbLoadScript(id) \/ JsMbApproveScript(id) \/ WsCall(id) \/ FsCall(id)
    BY <1>3 DEF Calls
  <2> QED
    BY <2>1, SurfaceCalls, FilterCalls, NameCalls, WsAndFileCalls
<1>4. CASE Outside
  BY <1>4, EventSteps, FileSteps, LwsSteps, GoingSteps DEF Outside
<1>5. CASE Tick \/ ExitFires
  BY <1>5, GoingSteps
<1>6. CASE JobsQueueJobs
  <2>1. PICK jobs : e' = [e EXCEPT !.jobs = jobs]
    BY <1>6 DEF JobsQueueJobs, QueuesJob, Step
  <2>2. said' = said
    BY <1>6 DEF JobsQueueJobs, QueuesJob, Step
  <2> QED
    BY <2>1, <2>2, QuietField DEF Ordinary
<1> QED
  BY <1>1, <1>2, <1>3, <1>4, <1>5, <1>6 DEF Next

-----------------------------------------------------------------------------
(* What the kinds have in common.                                          *)

LEMMA ListensIs ==
    ASSUME NEW a, Engine(a), NEW b, NEW id \in LiveIds(a), NEW p \in Panes, NEW v \in Counted,
           NEW reached \in BOOLEAN,
           b = PushListener(RegisterInGlobal(AddCounted(a, id, p, v), id, PaneObj(p)),
                            id, PaneObj(p), v, reached)
    PROVE  /\ Changes(a, b, {"count", "flag", "inst", "lst"}) /\ Engine(b)
           /\ DOMAIN b.inst = DOMAIN a.inst
           /\ b.count = CountUp(a.count, v, p)
           /\ \A w \in Filters :
                 b.flag[w] = IF w = v THEN Raised(a.flag[w], p) ELSE a.flag[w]
           /\ \A o \in DOMAIN a.inst :
                 b.inst[o] = IF o = id THEN OneMore(a.inst[o], v, p) ELSE a.inst[o]
           /\ \A i, o, w : Listeners(b, i, o, w) # Listeners(a, i, o, w) =>
                              i = id /\ o = PaneObj(p) /\ w = v
<1>1. PICK c : c = AddCounted(a, id, p, v)
  OBVIOUS
<1>2. /\ Changes(a, c, {"count", "flag", "inst"}) /\ Engine(c)
      /\ DOMAIN c.inst = DOMAIN a.inst
      /\ c.count = CountUp(a.count, v, p)
      /\ \A w \in Filters :
            c.flag[w] = IF w = v THEN Raised(a.flag[w], p) ELSE a.flag[w]
      /\ \A o \in DOMAIN a.inst :
            c.inst[o] = IF o = id THEN OneMore(a.inst[o], v, p) ELSE a.inst[o]
  <2>1. id \in DOMAIN a.inst
    BY DEF LiveIds
  <2> QED
    BY <1>1, <2>1, AddCountedIs
<1>3. PICK r : r = RegisterInGlobal(c, id, PaneObj(p))
  OBVIOUS
<1>4. /\ Changes(c, r, {"lst"}) /\ ListenerTypes(r.lst) /\ <<id, PaneObj(p)>> \in DOMAIN r.lst
      /\ \A i, o, w : Listeners(r, i, o, w) = Listeners(c, i, o, w)
  <2>1. IsEngine(c) /\ ListenerTypes(c.lst)
    BY <1>2, EngineParts
  <2> QED
    BY <1>3, <2>1, RegisterChanges
<1>5. IsEngine(r)
  BY <1>4 DEF Changes
<1>6. b = PushListener(r, id, PaneObj(p), v, reached)
  BY <1>1, <1>3
<1>7. /\ Changes(r, b, {"lst"}) /\ ListenerTypes(b.lst)
      /\ \A i, o, w : Listeners(b, i, o, w) # Listeners(r, i, o, w) =>
                         i = id /\ o = PaneObj(p) /\ w = v
  BY <1>4, <1>5, <1>6, PushChanges
<1>8. Changes(c, b, {"lst"})
  BY <1>4, <1>7, ChangesTwice
<1>9. Engine(b)
  BY <1>2, <1>7, <1>8, SameEngine
<1>10. b.inst = c.inst /\ b.count = c.count /\ b.flag = c.flag
  BY <1>8 DEF Changes, Fields
<1>11. \A i, o, w : Listeners(c, i, o, w) = Listeners(a, i, o, w)
  <2>1. c.lst = a.lst
    BY <1>2 DEF Changes, Fields
  <2> QED
    BY <2>1, ListenersOf
<1>12. Changes(a, b, {"count", "flag", "inst", "lst"})
  BY <1>2, <1>8 DEF Changes
<1>13. \A i, o, w : Listeners(b, i, o, w) # Listeners(a, i, o, w) => i = id /\ o = PaneObj(p) /\ w = v
  BY <1>4, <1>7, <1>11
<1>14. /\ DOMAIN b.inst = DOMAIN a.inst
       /\ b.count = CountUp(a.count, v, p)
  BY <1>2, <1>10
<1>15. \A w \in Filters : b.flag[w] = IF w = v THEN Raised(a.flag[w], p) ELSE a.flag[w]
  BY <1>2, <1>10
<1>16. \A o \in DOMAIN a.inst : b.inst[o] = IF o = id THEN OneMore(a.inst[o], v, p) ELSE a.inst[o]
  BY <1>2, <1>10
<1> QED
  BY <1>9, <1>12, <1>13, <1>14, <1>15, <1>16

LEMMA PaneGoesIs ==
    ASSUME NEW a, Engine(a), NEW b, NEW p \in a.panes, b = WithoutPane(a, p)
    PROVE  /\ Changes(a, b, {"jobs", "count", "flag", "lst", "panes", "popups", "embeds"})
           /\ Engine(b) /\ b.panes = a.panes \ {p}
           /\ b.popups = ElsewhereThan(a.popups, p) /\ b.embeds = ElsewhereThan(a.embeds, p)
           /\ \A v \in Counted, q \in Panes : q # p => b.count[v][q] = a.count[v][q]
           /\ \A v \in Filters : b.flag[v] = [a.flag[v] EXCEPT ![p] = FALSE]
           /\ Fewer(a, b)
<1>1. PICK c : c = NotifyMb(a, "paneDestroyed")
  OBVIOUS
<1>2. PICK d : d = NotifyPane(c, p, "destroyed")
  OBVIOUS
<1>3. Changes(a, c, {"jobs"}) /\ Changes(c, d, {"jobs"})
  <2>1. IsEngine(a)
    BY EngineParts
  <2>2. Changes(a, c, {"jobs"})
    BY <1>1, <2>1, NotifyMbChanges
  <2>3. IsEngine(c)
    BY <2>2 DEF Changes
  <2>4. Changes(c, d, {"jobs"})
    BY <1>2, <2>3, NotifyPaneChanges
  <2> QED
    BY <2>2, <2>4
<1>4. Changes(a, d, {"jobs"}) /\ IsEngine(d)
  BY <1>3, ChangesTwice DEF Changes
<1>5. /\ d.count = a.count /\ d.flag = a.flag /\ d.lst = a.lst /\ d.panes = a.panes
      /\ d.popups = a.popups /\ d.embeds = a.embeds /\ d.inst = a.inst
  BY <1>4 DEF Changes, Fields
<1>6. PICK n, f, l : /\ n = [v \in Counted |-> IF v \in Filters THEN [a.count[v] EXCEPT ![p] = 0]
                                               ELSE a.count[v]]
                     /\ f = [v \in Filters |-> [a.flag[v] EXCEPT ![p] = FALSE]]
                     /\ l = [k \in {j \in DOMAIN a.lst : j[2] # PaneObj(p)} |-> a.lst[k]]
  OBVIOUS
<1>7. PICK g : g = CleanupPane(c, p)
  OBVIOUS
<1>8. Changes(d, g, {"count", "flag", "lst"}) /\ g.count = n /\ g.flag = f /\ g.lst = l
  <2>1. g = [d EXCEPT !.count = [v \in Counted |-> IF v \in Filters THEN [@[v] EXCEPT ![p] = 0] ELSE @[v]],
                      !.flag = [v \in Filters |-> [@[v] EXCEPT ![p] = FALSE]],
                      !.lst = [k \in {j \in DOMAIN @ : j[2] # PaneObj(p)} |-> @[k]]]
    BY <1>2, <1>7 DEF CleanupPane
  <2>2. Changes(d, g, {"count", "flag", "lst"})
    BY <1>4, <2>1 DEF Changes, IsEngine, Fields
  <2>3. g.count = n
    BY <1>4, <1>5, <1>6, <2>1 DEF IsEngine, Fields
  <2>4. g.flag = f
    BY <1>4, <1>5, <1>6, <2>1 DEF IsEngine, Fields
  <2>5. g.lst = l
    BY <1>4, <1>5, <1>6, <2>1 DEF IsEngine, Fields
  <2> QED
    BY <2>2, <2>3, <2>4, <2>5
<1>9. /\ IsEngine(g) /\ g.panes = a.panes /\ g.popups = a.popups /\ g.embeds = a.embeds
      /\ g.inst = a.inst
  BY <1>5, <1>8 DEF Changes, Fields
<1>10. b = [g EXCEPT !.panes = @ \ {p},
                     !.popups = {x \in @ : x[1] # p}, !.embeds = {x \in @ : x[1] # p}]
  BY <1>1, <1>7 DEF NotifyPaneDestroyed, WithoutPane
<1>11. /\ Changes(g, b, {"panes", "popups", "embeds"}) /\ b.panes = a.panes \ {p}
       /\ b.popups = ElsewhereThan(a.popups, p) /\ b.embeds = ElsewhereThan(a.embeds, p)
  BY <1>9, <1>10 DEF Changes, IsEngine, Fields, ElsewhereThan
<1>12. /\ IsEngine(b) /\ b.count = n /\ b.flag = f /\ b.lst = l /\ b.inst = a.inst
  BY <1>8, <1>9, <1>11 DEF Changes, Fields
<1>13. Changes(a, b, {"jobs", "count", "flag", "lst", "panes", "popups", "embeds"})
  BY <1>4, <1>8, <1>11 DEF Changes
<1>14. /\ n \in [Counted -> [Panes -> Nat]]
       /\ \A v \in Counted, q \in Panes : q # p => n[v][q] = a.count[v][q]
  <2>1. PICK c0 \in [Counted -> [Panes -> Nat]] : c0 = a.count
    BY EngineParts
  <2>2. \A v \in Counted : [c0[v] EXCEPT ![p] = 0] \in [Panes -> Nat]
    OBVIOUS
  <2> QED
    BY <1>6, <2>1, <2>2
<1>15. /\ f \in [Filters -> [Panes -> BOOLEAN]]
       /\ \A v \in Filters : f[v] = [a.flag[v] EXCEPT ![p] = FALSE]
  <2>1. PICK c0 \in [Filters -> [Panes -> BOOLEAN]] : c0 = a.flag
    BY EngineParts
  <2>2. \A v \in Filters : [c0[v] EXCEPT ![p] = FALSE] \in [Panes -> BOOLEAN]
    OBVIOUS
  <2>4. \A v \in Filters : f[v] = [c0[v] EXCEPT ![p] = FALSE]
    BY <1>6, <2>1
  <2>5. f = [v \in Filters |-> f[v]]
    BY <1>6
  <2> QED
    BY <1>6, <2>1, <2>2, <2>4, <2>5
<1>16. ListenerTypes(b.lst) /\ Fewer(a, b)
  <2>1. \A k \in DOMAIN l : k \in DOMAIN a.lst /\ l[k] = a.lst[k]
    BY <1>6
  <2>2. ListenerTypes(l)
    BY <1>6, <2>1, EngineParts DEF ListenerTypes
  <2>3. Fewer(a, b)
    BY <1>12, <2>1 DEF Fewer, Listeners, Registered
  <2> QED
    BY <1>12, <2>2, <2>3
<1>17. Engine(b)
  <2>1. /\ b.inst = [id \in DOMAIN b.inst |-> b.inst[id]] /\ \E k \in Nat : DOMAIN b.inst = 1..k
        /\ \A id \in DOMAIN b.inst : IsInst(b.inst[id])
    BY <1>12 DEF Engine
  <2>2. b.count \in [Counted -> [Panes -> Nat]] /\ b.flag \in [Filters -> [Panes -> BOOLEAN]]
    BY <1>12, <1>14, <1>15
  <2> QED
    BY <1>12, <1>16, <2>1, <2>2 DEF Engine, ListenerTypes
<1> QED
  BY <1>11, <1>12, <1>13, <1>14, <1>15, <1>16, <1>17

LEMMA UnloadedIs ==
    ASSUME NEW a, Engine(a), NEW b, Unloaded(a, b)
    PROVE  \E id \in LiveIds(a), iterating \in BOOLEAN :
              LET u == Unload(a, id, iterating)
              IN /\ Changes(a, b, UnloadFields \cup {"exits"}) /\ Engine(b)
                 /\ \A f \in Fields \ {"exits"} : b[f] = u[f]
<1>1. PICK id \in DOMAIN a.inst, iterating \in BOOLEAN :
         Live(a, id) /\ Changes(Unload(a, id, iterating), b, {"exits"})
  BY DEF Unloaded
<1>2. PICK u : u = Unload(a, id, iterating)
  OBVIOUS
<1>3. Changes(a, u, UnloadFields) /\ Engine(u)
  BY <1>1, <1>2, UnloadIs
<1>4. Changes(u, b, {"exits"})
  BY <1>1, <1>2
<1>5. Changes(a, b, UnloadFields \cup {"exits"})
  BY <1>3, <1>4 DEF Changes
<1>6. Engine(b)
  <2>1. b.lst = u.lst
    BY <1>4 DEF Changes, Fields
  <2> QED
    BY <1>3, <1>4, <2>1, SameEngine, EngineParts
<1>7. \A f \in Fields \ {"exits"} : b[f] = u[f]
  BY <1>4 DEF Changes
<1>8. id \in LiveIds(a)
  BY <1>1 DEF Live, LiveIds
<1> QED
  BY <1>2, <1>5, <1>6, <1>7, <1>8

LEMMA WsMovesIs ==
    ASSUME NEW a, Engine(a), NEW b, WsMoves(a, b)
    PROVE  Changes(a, b, {"w"}) /\ Engine(b) /\ b.inst = a.inst
<1>1. Changes(a, b, {"w"})
  BY DEF WsMoves
<1>2. b.lst = a.lst /\ b.inst = a.inst
  BY <1>1 DEF Changes, Fields
<1>3. ListenerTypes(b.lst)
  BY <1>2, EngineParts
<1> QED
  BY <1>1, <1>2, <1>3, SameEngine

\* An ordinary step gives no script a life, and none another file or right.
LEMMA OrdinaryKeeps ==
    ASSUME NEW a, Engine(a), NEW b, Ordinary(a, b)
    PROVE  /\ Engine(b) /\ b.list = a.list /\ b.pending = a.pending
           /\ LiveIds(b) \subseteq LiveIds(a)
           /\ \A id \in LiveIds(b) : SameScript(a.inst[id], b.inst[id])
<1> DEFINE Goal == /\ Engine(b) /\ b.list = a.list /\ b.pending = a.pending
                   /\ LiveIds(b) \subseteq LiveIds(a)
                   /\ \A id \in LiveIds(b) : SameScript(a.inst[id], b.inst[id])
<1>0. ASSUME NEW F, Changes(a, b, F), F \cap {"list", "pending"} = {}
      PROVE  b.list = a.list /\ b.pending = a.pending
  BY <1>0 DEF Changes, Fields
<1>1. CASE Quietly(a, b)
  <2>1. Engine(b) /\ b.inst = a.inst /\ LiveIds(b) = LiveIds(a)
    BY <1>1, QuietEngine
  <2>2. b.list = a.list /\ b.pending = a.pending
    BY <1>1 DEF Quietly, Quiet, Changes, Fields
  <2> QED
    BY <2>1, <2>2 DEF SameScript
<1>2. CASE Relabels(a, b)
  <2>1. b.list = a.list /\ b.pending = a.pending
    BY <1>2 DEF Relabels, Changes, Fields
  <2>2. Engine(b) /\ DOMAIN b.inst = DOMAIN a.inst
        /\ \A id \in DOMAIN a.inst : SameScript(a.inst[id], b.inst[id]) /\ b.inst[id].ctx = a.inst[id].ctx
    BY <1>2 DEF Relabels
  <2> QED
    BY <2>1, <2>2 DEF LiveIds
<1>3. CASE Listens(a, b)
  <2>1. PICK id \in LiveIds(a), p \in Panes, v \in Counted, reached \in BOOLEAN :
           b = PushListener(RegisterInGlobal(AddCounted(a, id, p, v), id, PaneObj(p)),
                            id, PaneObj(p), v, reached)
    BY <1>3 DEF Listens
  <2>2. /\ Changes(a, b, {"count", "flag", "inst", "lst"}) /\ Engine(b)
        /\ DOMAIN b.inst = DOMAIN a.inst
        /\ \A o \in DOMAIN a.inst :
              b.inst[o] = IF o = id THEN OneMore(a.inst[o], v, p) ELSE a.inst[o]
    BY <2>1, ListensIs
  <2>3. ASSUME NEW o \in DOMAIN a.inst
        PROVE  SameScript(a.inst[o], b.inst[o]) /\ b.inst[o].ctx = a.inst[o].ctx
    <3>1. IsInst(a.inst[o])
      BY EngineParts
    <3>2. SameScript(a.inst[o], OneMore(a.inst[o], v, p)) /\ OneMore(a.inst[o], v, p).ctx = a.inst[o].ctx
      BY <3>1 DEF IsInst, InstFields, OneMore, SameScript
    <3> QED
      BY <2>2, <3>2 DEF SameScript
  <2>4. b.list = a.list /\ b.pending = a.pending
    BY <2>2 DEF Changes, Fields
  <2> QED
    BY <2>2, <2>3, <2>4 DEF LiveIds
<1>4. CASE MakesSurface(a, b)
  <2>1. b.list = a.list /\ b.pending = a.pending
    BY <1>4 DEF MakesSurface, Quiet, Changes, Fields
  <2>2. Engine(b) /\ DOMAIN b.inst = DOMAIN a.inst
        /\ \A id \in DOMAIN a.inst : SameScript(a.inst[id], b.inst[id]) /\ b.inst[id].ctx = a.inst[id].ctx
    BY <1>4 DEF MakesSurface
  <2> QED
    BY <2>1, <2>2 DEF LiveIds
<1>5. CASE Unloaded(a, b)
  <2>1. PICK id \in LiveIds(a), iterating \in BOOLEAN :
           /\ Changes(a, b, UnloadFields \cup {"exits"}) /\ Engine(b)
           /\ \A f \in Fields \ {"exits"} : b[f] = Unload(a, id, iterating)[f]
    BY <1>5, UnloadedIs
  <2>2. b.inst = Unload(a, id, iterating).inst
    BY <2>1 DEF Fields
  <2>3. /\ DOMAIN b.inst = DOMAIN a.inst
        /\ \A o \in DOMAIN a.inst :
              b.inst[o] = IF o = id THEN Gone(a.inst[o], iterating) ELSE a.inst[o]
    <3>1. Live(a, id)
      BY DEF LiveIds, Live
    <3>2. PICK u : u = Unload(a, id, iterating)
      OBVIOUS
    <3>3. /\ DOMAIN u.inst = DOMAIN a.inst
          /\ \A o \in DOMAIN a.inst :
                u.inst[o] = IF o = id THEN Gone(a.inst[o], iterating) ELSE a.inst[o]
      BY <3>1, <3>2, UnloadIs
    <3> QED
      BY <2>2, <3>2, <3>3
  <2>4. b.list = a.list /\ b.pending = a.pending
    BY <2>1 DEF Changes, Fields, UnloadFields
  <2>5. ASSUME NEW o \in LiveIds(b) PROVE o \in LiveIds(a) /\ SameScript(a.inst[o], b.inst[o])
    <3>1. o \in DOMAIN a.inst /\ b.inst[o].ctx
      BY <2>3 DEF LiveIds
    <3>2. IsInst(a.inst[o]) /\ Gone(a.inst[o], iterating).ctx = FALSE
      BY <3>1, EngineParts, InstGone
    <3>3. b.inst[o] = a.inst[o]
      BY <2>3, <3>1, <3>2
    <3> QED
      BY <3>1, <3>3 DEF SameScript, LiveIds
  <2> QED
    BY <2>1, <2>4, <2>5
<1>6. CASE PaneGoes(a, b)
  <2>1. PICK p \in a.panes : b = WithoutPane(a, p)
    BY <1>6 DEF PaneGoes
  <2>2. /\ Changes(a, b, {"jobs", "count", "flag", "lst", "panes", "popups", "embeds"})
        /\ Engine(b)
    BY <2>1, PaneGoesIs
  <2>3. b.list = a.list /\ b.pending = a.pending /\ b.inst = a.inst
    BY <2>2 DEF Changes, Fields
  <2> QED
    BY <2>2, <2>3 DEF LiveIds, SameScript
<1>7. CASE WsMoves(a, b)
  <2>1. Changes(a, b, {"w"}) /\ Engine(b) /\ b.inst = a.inst
    BY <1>7, WsMovesIs
  <2>2. b.list = a.list /\ b.pending = a.pending
    BY <2>1 DEF Changes, Fields
  <2> QED
    BY <2>1, <2>2 DEF LiveIds, SameScript
<1> QED
  BY <1>1, <1>2, <1>3, <1>4, <1>5, <1>6, <1>7 DEF Ordinary

-----------------------------------------------------------------------------
(* Nobody is let in without an answer.                                     *)

IsEntry(x) == x = [hash |-> x.hash, perms |-> x.perms, modules |-> x.modules] /\ x.perms \subseteq All
\* Each entry of the list is one the user made, or holds less than that one:
\* names that the file has no word for are lost when it is written.
Backed(x, path, told) ==
    \E y \in told : /\ y.path = path /\ y.hash = x.hash /\ y.modules = x.modules
                    /\ x.perms \subseteq y.perms
AnswersKept(a, told) ==
    /\ a.list = [allow |-> a.list.allow, deny |-> a.list.deny]
    /\ a.list.allow = [x \in Paths |-> a.list.allow[x]]
    /\ \A x \in Paths : /\ IsEntry(a.list.allow[x])
                        /\ a.list.allow[x] # NoEntry => Backed(a.list.allow[x], x, told)
    /\ a.pending = [x \in Paths |-> a.pending[x]]
    /\ \A x \in Paths : a.pending[x] = Nil \/ a.pending[x].perms \subseteq All
OnePerPath(a) ==
    \A i, j \in LiveIds(a) :
        ~a.inst[i].builtIn /\ ~a.inst[j].builtIn /\ a.inst[i].path = a.inst[j].path => i = j
AskInv == Engine(e) /\ AnswersKept(e, said) /\ OnePerPath(e)

LEMMA AnswersStay ==
    ASSUME NEW a, NEW b, NEW told, AnswersKept(a, told), b.list = a.list, b.pending = a.pending
    PROVE  AnswersKept(b, told)
  BY DEF AnswersKept

LEMMA OnePerPathStays ==
    ASSUME NEW a, NEW b, OnePerPath(a), LiveIds(b) \subseteq LiveIds(a),
           \A id \in LiveIds(b) : SameScript(a.inst[id], b.inst[id])
    PROVE  OnePerPath(b)
  BY DEF OnePerPath, SameScript

LEMMA OnlyOne ==
    ASSUME NEW a, Engine(a), OnePerPath(a), NEW path, SamePath(a, path) # {}
    PROVE  /\ SamePath(a, path) = {Min(SamePath(a, path))}
           /\ Live(a, Min(SamePath(a, path)))
<1>1. PICK x : x \in SamePath(a, path)
  OBVIOUS
<1>2. SamePath(a, path) = {x}
  BY <1>1 DEF SamePath, OnePerPath
<1>3. x \in Nat /\ Live(a, x)
  BY <1>1, Numbered DEF SamePath, LiveIds, Live
<1>4. Min({x}) = x
  BY <1>3 DEF Min
<1> QED
  BY <1>2, <1>3, <1>4

\* loadScriptInternal: one script comes at most, alone with its path.
LEMMA LoadedIs ==
    ASSUME NEW a, Engine(a), OnePerPath(a), NEW path, NEW hash, NEW perms, NEW iterating,
           NEW b, b = LoadScriptInternal(a, path, hash, perms, iterating)
    PROVE  /\ Engine(b) /\ OnePerPath(b) /\ b.list = a.list /\ b.pending = a.pending
           /\ \A id \in LiveIds(b) \ LiveIds(a) :
                 /\ b.inst[id].path = path /\ b.inst[id].hash = hash /\ b.inst[id].perms = perms
                 /\ SamePath(b, path) = {id}
<1>1. CASE b = a
  BY <1>1
<1>2. CASE b # a
  <2> DEFINE old == SamePath(a, path)
             n == NextId(a)
             new == NewInstance(path, hash, perms, FALSE)
             failed == [new EXCEPT !.ctx = FALSE, !.held = FALSE]
  <2>1. PICK u : u = IF old = {} THEN a ELSE Unload(a, Min(old), iterating)
    OBVIOUS
  <2>2. PICK j : j = IF hash = "broken" THEN failed ELSE new
    OBVIOUS
  <2>3. b = [u EXCEPT !.inst = Put(@, n, j)]
    BY <1>2, <2>1, <2>2 DEF LoadScriptInternal
  <2>4. /\ Engine(u) /\ u.list = a.list /\ u.pending = a.pending /\ DOMAIN u.inst = DOMAIN a.inst
        /\ SamePath(u, path) = {} /\ LiveIds(u) \subseteq LiveIds(a)
        /\ \A id \in LiveIds(u) : SameScript(a.inst[id], u.inst[id])
    <3>1. CASE old = {}
      BY <2>1, <3>1 DEF SameScript
    <3>2. CASE old # {}
      <4>1. PICK x : x = Min(old)
        OBVIOUS
      <4>2. old = {x} /\ Live(a, x)
        BY <3>2, <4>1, OnlyOne
      <4>3. u = Unload(a, x, iterating)
        BY <2>1, <3>2, <4>1
      <4>4. /\ Changes(a, u, UnloadFields) /\ Engine(u)
            /\ DOMAIN u.inst = DOMAIN a.inst
            /\ \A o \in DOMAIN a.inst :
                  u.inst[o] = IF o = x THEN Gone(a.inst[o], iterating) ELSE a.inst[o]
        BY <4>2, <4>3, UnloadIs
      <4>5. u.list = a.list /\ u.pending = a.pending
        BY <4>4 DEF Changes, Fields, UnloadFields
      <4>6. ASSUME NEW o \in LiveIds(u) PROVE o # x /\ o \in LiveIds(a) /\ u.inst[o] = a.inst[o]
        <5>1. o \in DOMAIN a.inst /\ u.inst[o].ctx
          BY <4>4 DEF LiveIds
        <5>2. IsInst(a.inst[o]) /\ Gone(a.inst[o], iterating).ctx = FALSE
          BY <5>1, EngineParts, InstGone
        <5>3. o # x /\ u.inst[o] = a.inst[o]
          BY <4>4, <5>1, <5>2
        <5> QED
          BY <5>1, <5>3 DEF LiveIds
      <4>7. SamePath(u, path) = {}
        BY <4>2, <4>6 DEF SamePath
      <4> QED
        BY <4>4, <4>5, <4>6, <4>7 DEF SameScript
    <3> QED
      BY <3>1, <3>2
  <2>5. /\ n \notin DOMAIN a.inst /\ \E k \in Nat : DOMAIN a.inst \cup {n} = 1..k
    BY Numbered
  <2>6. /\ IsInst(j) /\ j.path = path /\ j.hash = hash /\ j.perms = perms /\ j.builtIn = FALSE
    <3>1. /\ IsInst(new) /\ new.path = path /\ new.hash = hash /\ new.perms = perms
          /\ new.builtIn = FALSE
      BY NoUsesType DEF NewInstance, IsInst, InstFields
    <3> HIDE DEF new
    <3>2. /\ IsInst(failed) /\ failed.path = path /\ failed.hash = hash /\ failed.perms = perms
          /\ failed.builtIn = FALSE
      BY <3>1 DEF IsInst, InstFields
    <3> QED
      BY <2>2, <3>1, <3>2
  <2> HIDE DEF new, failed, old, n
  <2>7. Changes(u, b, {"inst"}) /\ b.inst = Put(u.inst, n, j)
    <3>1. IsEngine(u)
      BY <2>4, EngineParts
    <3> QED
      BY <2>3, <3>1 DEF Changes, IsEngine, Fields
  <2>8. /\ b.inst = [id \in DOMAIN b.inst |-> b.inst[id]] /\ DOMAIN b.inst = DOMAIN a.inst \cup {n}
        /\ b.inst[n] = j /\ \A id \in DOMAIN a.inst : b.inst[id] = u.inst[id]
    BY <2>4, <2>5, <2>7 DEF Put
  <2>9. /\ IsEngine(b) /\ b.list = a.list /\ b.pending = a.pending /\ b.lst = u.lst
        /\ b.count = u.count /\ b.flag = u.flag
    BY <2>4, <2>7 DEF Changes, Fields
  <2>10. Engine(b)
    <3>1. \A id \in DOMAIN b.inst : IsInst(b.inst[id])
      BY <2>4, <2>6, <2>8, EngineParts
    <3>2. \E k \in Nat : DOMAIN b.inst = 1..k
      BY <2>5, <2>8
    <3> QED
      BY <2>4, <2>8, <2>9, <3>1, <3>2, EngineParts DEF Engine, ListenerTypes
  <2>11. LiveIds(b) \subseteq LiveIds(u) \cup {n}
    BY <2>4, <2>8 DEF LiveIds
  <2>12. \A id \in LiveIds(b) \ {n} : SameScript(a.inst[id], b.inst[id])
    <3>1. \A id \in LiveIds(u) : id \in DOMAIN a.inst
      BY <2>4 DEF LiveIds
    <3> QED
      BY <2>4, <2>8, <2>11, <3>1 DEF SameScript
  <2>13. \A id \in LiveIds(b) \ {n} : b.inst[id].builtIn \/ b.inst[id].path # path
    <3>1. \A id \in LiveIds(u) : id \in DOMAIN a.inst /\ (u.inst[id].builtIn \/ u.inst[id].path # path)
      BY <2>4 DEF LiveIds, SamePath
    <3> QED
      BY <2>8, <2>11, <3>1
  <2>14. OnePerPath(b)
    <3>1. SUFFICES ASSUME NEW x \in LiveIds(b), NEW y \in LiveIds(b), ~b.inst[x].builtIn,
                          ~b.inst[y].builtIn, b.inst[x].path = b.inst[y].path
                   PROVE  x = y
      BY DEF OnePerPath
    <3>2. CASE x = n \/ y = n
      BY <2>6, <2>8, <2>13, <3>1, <3>2
    <3>3. CASE x # n /\ y # n
      <4>1. x \in LiveIds(a) /\ y \in LiveIds(a)
        BY <2>4, <2>11, <3>3
      <4>2. SameScript(a.inst[x], b.inst[x]) /\ SameScript(a.inst[y], b.inst[y])
        BY <2>12, <3>3
      <4> QED
        BY <3>1, <4>1, <4>2 DEF OnePerPath, SameScript
    <3> QED
      BY <3>2, <3>3
  <2>15. ASSUME NEW id \in LiveIds(b) \ LiveIds(a)
         PROVE  /\ b.inst[id].path = path /\ b.inst[id].hash = hash /\ b.inst[id].perms = perms
                /\ SamePath(b, path) = {id}
    <3>1. id = n
      BY <2>4, <2>11, <2>15
    <3>2. SamePath(b, path) = {n}
      BY <2>6, <2>8, <2>13, <2>15, <3>1 DEF SamePath
    <3> QED
      BY <2>6, <2>8, <3>1, <3>2
  <2> QED
    BY <2>9, <2>10, <2>14, <2>15
<1> QED
  BY <1>1, <1>2

\* A file keeps no permission that was not given.
LEMMA WordsOfPermissions ==
    /\ \A w \in All : w \notin Groups
    /\ "none" \notin Groups \cup Individual /\ "all" \notin Groups \cup Individual
<1>1. \A g \in Groups : \A w \in GroupMasks[g] : w \notin Groups \cup {"none", "all"}
  BY DEF Groups, GroupMasks
<1>2. {"ui.focus", "pane.selection", "every other bit"} \cap (Groups \cup {"none", "all"}) = {}
  BY DEF Groups
<1>3. "none" \notin Groups /\ "all" \notin Groups
  BY DEF Groups
<1>4. \A w \in Individual : w \notin Groups \cup {"none", "all"}
  BY <1>1, <1>2 DEF Individual
<1>5. "every other bit" \notin Groups
  BY <1>2
<1> QED
  BY <1>3, <1>4, <1>5 DEF All

LEMMA ParsedIsGiven ==
    ASSUME NEW perms \in SUBSET All
    PROVE  /\ ParsePermissions(PermissionsToString(perms)) \subseteq perms
           /\ ParsePermissions(PermissionsToString({})) = {}
<1>1. ParsePermissions({"none"}) = {} /\ ParsePermissions({"all"}) = {}
  BY WordsOfPermissions DEF ParsePermissions, PermNames
<1>2. PermissionsToString({}) \in {{"none"}, {"all"}}
  BY DEF PermissionsToString
<1>3. CASE PermissionsToString(perms) \in {{"none"}, {"all"}}
  BY <1>1, <1>2, <1>3
<1>4. CASE PermissionsToString(perms) \notin {{"none"}, {"all"}}
  <2> DEFINE whole == {g \in Groups : GroupMasks[g] \subseteq perms}
             words == whole \cup (perms \ ParsePermissions(whole))
  <2>1. PermissionsToString(perms) = words
    BY <1>4 DEF PermissionsToString
  <2>2. ASSUME NEW w \in words \cap DOMAIN PermNames PROVE PermNames[w] \subseteq perms
    <3>1. CASE w \in whole
      <4>1. w \in Groups /\ GroupMasks[w] \subseteq perms
        BY <3>1
      <4> QED
        BY <4>1, <2>2 DEF PermNames
    <3>2. CASE w \in perms
      <4>1. w \notin Groups
        BY <3>2, WordsOfPermissions
      <4>2. w \in Groups \cup Individual
        BY <2>2 DEF PermNames
      <4>3. PermNames[w] = {w}
        BY <4>1, <4>2 DEF PermNames
      <4> QED
        BY <3>2, <4>3
    <3> QED
      BY <3>1, <3>2
  <2>3. ParsePermissions(words) \subseteq perms
    BY <2>2 DEF ParsePermissions
  <2> QED
    BY <1>1, <1>2, <2>1, <2>3
<1> QED
  BY <1>3, <1>4

ListKept(l, told) ==
    /\ l = [allow |-> l.allow, deny |-> l.deny] /\ l.allow = [x \in Paths |-> l.allow[x]]
    /\ \A x \in Paths : /\ IsEntry(l.allow[x])
                        /\ l.allow[x] # NoEntry => Backed(l.allow[x], x, told)

LEMMA ReadBack ==
    ASSUME NEW l, NEW told, ListKept(l, told), NEW m, m = Load(Save(l), Paths)
    PROVE  ListKept(m, told)
<1>0. /\ l = [allow |-> l.allow, deny |-> l.deny] /\ l.allow = [x \in Paths |-> l.allow[x]]
      /\ \A x \in Paths : /\ IsEntry(l.allow[x])
                          /\ l.allow[x] # NoEntry => Backed(l.allow[x], x, told)
  BY DEF ListKept
<1>1. PICK f : f = Save(l)
  OBVIOUS
<1>2. /\ f.version = KAllowlistVersion /\ f.deny = l.deny
      /\ f.allow = [p \in DOMAIN l.allow |-> [l.allow[p] EXCEPT !.perms = PermissionsToString(@)]]
  BY <1>1 DEF Save
<1>3. m = [deny |-> f.deny,
           allow |-> [p \in Paths |-> [f.allow[p] EXCEPT !.perms = ParsePermissions(@)]]]
  BY <1>1, <1>2 DEF Load
<1>4. m = [allow |-> m.allow, deny |-> m.deny] /\ m.allow = [x \in Paths |-> m.allow[x]]
  BY <1>3
<1>5. ASSUME NEW x \in Paths
      PROVE  IsEntry(m.allow[x]) /\ (m.allow[x] # NoEntry => Backed(m.allow[x], x, told))
  <2>1. PICK y : y = l.allow[x]
    OBVIOUS
  <2>2. /\ y = [hash |-> y.hash, perms |-> y.perms, modules |-> y.modules] /\ y.perms \subseteq All
        /\ y # NoEntry => Backed(y, x, told)
    BY <1>0, <2>1 DEF IsEntry
  <2>3. PICK words : words = PermissionsToString(y.perms)
    OBVIOUS
  <2>4. f.allow[x] = [y EXCEPT !.perms = words]
    <3>1. x \in DOMAIN l.allow
      BY <1>0
    <3> QED
      BY <1>2, <2>1, <2>3, <3>1
  <2>5. PICK read : read = ParsePermissions(words)
    OBVIOUS
  <2>6. m.allow[x] = [f.allow[x] EXCEPT !.perms = ParsePermissions(@)]
    BY <1>3
  <2>7. m.allow[x] = [hash |-> y.hash, perms |-> read, modules |-> y.modules]
    BY <2>2, <2>4, <2>5, <2>6
  <2>8. read \subseteq y.perms
    BY <2>2, <2>3, <2>5, ParsedIsGiven
  <2>9. IsEntry(m.allow[x])
    BY <2>2, <2>7, <2>8 DEF IsEntry
  <2>10. ASSUME m.allow[x] # NoEntry PROVE Backed(m.allow[x], x, told)
    <3>1. y # NoEntry
      <4>1. SUFFICES ASSUME y = NoEntry PROVE FALSE
        OBVIOUS
      <4>2. y.hash = "" /\ y.perms = {} /\ y.modules = 0
        BY <4>1 DEF NoEntry
      <4>3. read = {}
        BY <2>3, <2>5, <4>2, ParsedIsGiven
      <4> QED
        BY <2>7, <2>10, <4>2, <4>3 DEF NoEntry
    <3>2. Backed(y, x, told)
      BY <2>2, <3>1
    <3> QED
      BY <2>7, <2>8, <3>2 DEF Backed
  <2> QED
    BY <2>9, <2>10
<1> QED
  BY <1>4, <1>5 DEF ListKept

\* What an ordinary step leaves of AskInv.
LEMMA OrdinaryAsks ==
    ASSUME NEW a, NEW b, NEW told, Engine(a), AnswersKept(a, told), OnePerPath(a), Ordinary(a, b)
    PROVE  /\ Engine(b) /\ AnswersKept(b, told) /\ OnePerPath(b)
           /\ LiveIds(b) \subseteq LiveIds(a)
<1>1. /\ Engine(b) /\ b.list = a.list /\ b.pending = a.pending
      /\ LiveIds(b) \subseteq LiveIds(a)
      /\ \A id \in LiveIds(b) : SameScript(a.inst[id], b.inst[id])
  BY OrdinaryKeeps
<1>2. AnswersKept(b, told)
  BY <1>1, AnswersStay
<1>3. OnePerPath(b)
  BY <1>1, OnePerPathStays
<1> QED
  BY <1>1, <1>2, <1>3

\* A new script was asked about, or answered for.
Welcome == \A id \in LiveIds(e') \ LiveIds(e) :
              LET i == e'.inst[id]
              IN i.builtIn \/ /\ Answered(i) \/ AlwaysAnswered(i)
                              /\ SamePath(e', i.path) = {id}

LEMMA LoadingAsks ==
    ASSUME AskInv, NEW id, JsMbLoadScript(id) PROVE AskInv' /\ Welcome
<1>1. PICK path \in Paths, perms \in Requests :
         e' = LoadScript(e, path, perms, Iterating) /\ said' = said
  BY DEF JsMbLoadScript, Called
<1>2. PICK hash : hash = e.disk[path]
  OBVIOUS
<1>3. Engine(e) /\ AnswersKept(e, said) /\ OnePerPath(e) /\ perms \subseteq All
  BY ScriptEngineAssumption DEF AskInv
<1>4. CASE e' = e
  <2>1. AskInv'
    BY <1>1, <1>3, <1>4 DEF AskInv
  <2> QED
    BY <1>4, <2>1 DEF Welcome
<1>5. CASE /\ ~IsDenied(e.list, path, hash) /\ Trusted(e, path, perms)
           /\ e' = LoadScriptInternal(e, path, hash, perms, Iterating)
  <2>1. /\ Engine(e') /\ OnePerPath(e') /\ e'.list = e.list /\ e'.pending = e.pending
        /\ \A o \in LiveIds(e') \ LiveIds(e) :
              /\ e'.inst[o].path = path /\ e'.inst[o].hash = hash /\ e'.inst[o].perms = perms
              /\ SamePath(e', path) = {o}
    BY <1>3, <1>5, LoadedIs
  <2>2. AnswersKept(e', said)
    BY <1>3, <2>1, AnswersStay
  <2>3. AskInv'
    BY <1>1, <2>1, <2>2 DEF AskInv
  <2>4. PICK y \in said : /\ y.path = path /\ y.hash = hash /\ perms \subseteq y.perms
                          /\ y.modules = e.modules[path]
    <3>1. /\ e.list.allow[path] # NoEntry /\ e.list.allow[path].hash = hash
          /\ perms \subseteq e.list.allow[path].perms
          /\ e.list.allow[path].modules = e.modules[path]
      BY <1>2, <1>5 DEF Trusted, Check, VerifyModuleHashes
    <3>2. Backed(e.list.allow[path], path, said)
      BY <1>3, <3>1 DEF AnswersKept
    <3> QED
      BY <3>1, <3>2 DEF Backed
  <2>5. ASSUME NEW o \in LiveIds(e') \ LiveIds(e) PROVE AlwaysAnswered(e'.inst[o])
    BY <2>1, <2>4, <2>5 DEF AlwaysAnswered
  <2> QED
    BY <2>1, <2>3, <2>5 DEF Welcome
<1>6. CASE e' = NotifyPermissionRequired(
                   [e EXCEPT !.pending[path] = [hash |-> hash, perms |-> perms]])
  <2>1. PICK ask : ask = [hash |-> hash, perms |-> perms]
    OBVIOUS
  <2>2. PICK u : u = [e EXCEPT !.pending[path] = ask]
    OBVIOUS
  <2>3. IsEngine(e)
    BY <1>3, EngineParts
  <2>4. Changes(e, u, {"pending"}) /\ u.pending = [e.pending EXCEPT ![path] = ask]
    BY <2>2, <2>3 DEF Changes, IsEngine, Fields
  <2>5. Changes(u, e', {"jobs"})
    BY <1>6, <2>1, <2>2, <2>4, PermissionRequiredChanges DEF Changes
  <2>6. /\ Changes(e, e', {"pending", "jobs"}) /\ e'.pending = u.pending /\ e'.list = e.list
        /\ e'.inst = e.inst /\ e'.lst = e.lst
    BY <2>4, <2>5 DEF Changes, Fields
  <2>7. ListenerTypes(e'.lst)
    BY <1>3, <2>6, EngineParts
  <2>8. Engine(e')
    BY <1>3, <2>6, <2>7, SameEngine
  <2>9. OnePerPath(e') /\ LiveIds(e') = LiveIds(e)
    BY <1>3, <2>6 DEF OnePerPath, LiveIds
  <2>10. /\ e'.pending = [x \in Paths |-> e'.pending[x]]
         /\ \A x \in Paths : e'.pending[x] = Nil \/ e'.pending[x].perms \subseteq All
    <3>1. /\ e.pending = [x \in Paths |-> e.pending[x]]
          /\ \A x \in Paths : e.pending[x] = Nil \/ e.pending[x].perms \subseteq All
      BY <1>3 DEF AnswersKept
    <3>2. \A x \in Paths : e'.pending[x] = IF x = path THEN ask ELSE e.pending[x]
      BY <2>4, <2>6, <3>1
    <3>3. ask.perms \subseteq All
      BY <1>3, <2>1
    <3>4. e'.pending = [x \in Paths |-> e'.pending[x]]
      BY <2>4, <2>6, <3>1
    <3> QED
      BY <3>1, <3>2, <3>3, <3>4
  <2>11. AnswersKept(e', said)
    BY <1>3, <2>6, <2>10 DEF AnswersKept
  <2> QED
    BY <1>1, <2>8, <2>9, <2>11 DEF AskInv, Welcome
<1> QED
  BY <1>1, <1>2, <1>4, <1>5, <1>6 DEF LoadScript

LEMMA AnswersGrow ==
    ASSUME NEW a, NEW told, AnswersKept(a, told), NEW more, told \subseteq more
    PROVE  AnswersKept(a, more)
  BY DEF AnswersKept, Backed

DeniedAt(a, path, hash) == [a EXCEPT !.list = Deny(@, path, hash)]
\* The request is taken, the answer kept if it was "always" or "never".
LEMMA AnswerTaken ==
    ASSUME AskInv, NEW path \in Paths, e.pending[path] # Nil,
           NEW u, u = [e EXCEPT !.pending[path] = Nil],
           NEW b, b = u \/ b = DeniedAt(u, path, e.pending[path].hash),
           NEW told, said \subseteq told
    PROVE  /\ Engine(b) /\ AnswersKept(b, told) /\ OnePerPath(b)
           /\ LiveIds(b) = LiveIds(e) /\ b.inst = e.inst /\ b.modules = e.modules
           /\ b.list.allow = e.list.allow /\ b.pending[path] = Nil
<1>1. Engine(e) /\ AnswersKept(e, told) /\ OnePerPath(e)
  BY AnswersGrow DEF AskInv
<1>2. IsEngine(e)
  BY <1>1, EngineParts
<1>3. Changes(e, u, {"pending"}) /\ u.pending = [e.pending EXCEPT ![path] = Nil]
  BY <1>2 DEF Changes, IsEngine, Fields
<1>4. PICK d : d = Deny(e.list, path, e.pending[path].hash)
  OBVIOUS
<1>5. /\ e.list = [allow |-> e.list.allow, deny |-> e.list.deny]
      /\ d = [allow |-> d.allow, deny |-> d.deny] /\ d.allow = e.list.allow
  BY <1>1, <1>4 DEF AnswersKept, Deny
<1>6. IsEngine(u) /\ u.list = e.list
  BY <1>3 DEF Changes, Fields
<1>7. /\ Changes(e, b, {"pending", "list"}) /\ b.pending = u.pending
      /\ b.list \in {e.list, d}
  <2>1. CASE b = u
    BY <1>3, <1>6, <2>1 DEF Changes
  <2>2. CASE b = DeniedAt(u, path, e.pending[path].hash)
    <3>0. b = [u EXCEPT !.list = d]
      BY <1>4, <1>6, <2>2 DEF DeniedAt
    <3>1. Changes(u, b, {"list"}) /\ b.list = d
      BY <1>6, <3>0 DEF Changes, IsEngine, Fields
    <3> QED
      BY <1>3, <3>1 DEF Changes, Fields
  <2> QED
    BY <2>1, <2>2
<1>8. b.inst = e.inst /\ b.modules = e.modules /\ b.lst = e.lst
  BY <1>7 DEF Changes, Fields
<1>9. ListenerTypes(b.lst)
  BY <1>1, <1>8, EngineParts
<1>10. Engine(b)
  BY <1>1, <1>7, <1>9, SameEngine
<1>11. /\ b.pending = [x \in Paths |-> b.pending[x]] /\ b.pending[path] = Nil
       /\ \A x \in Paths : b.pending[x] = Nil \/ b.pending[x].perms \subseteq All
  BY <1>1, <1>3, <1>7 DEF AnswersKept
<1>12. b.list = [allow |-> b.list.allow, deny |-> b.list.deny] /\ b.list.allow = e.list.allow
  BY <1>5, <1>7
<1>13. AnswersKept(b, told)
  BY <1>1, <1>11, <1>12 DEF AnswersKept
<1> QED
  BY <1>1, <1>8, <1>10, <1>11, <1>12, <1>13 DEF OnePerPath, LiveIds

\* An answer that lets the script in.
LEMMA AnsweredYes ==
    ASSUME NEW a, Engine(a), OnePerPath(a), LiveIds(a) = LiveIds(e),
           NEW path \in Paths, NEW ask, ask = e.pending[path], ask # Nil, a.pending[path] = Nil,
           NEW iterating, e' = LoadScriptInternal(a, path, ask.hash, ask.perms, iterating),
           AnswersKept(a, said')
    PROVE  AskInv' /\ Welcome
<1>1. /\ Engine(e') /\ OnePerPath(e') /\ e'.list = a.list /\ e'.pending = a.pending
      /\ \A o \in LiveIds(e') \ LiveIds(a) :
            /\ e'.inst[o].path = path /\ e'.inst[o].hash = ask.hash /\ e'.inst[o].perms = ask.perms
            /\ SamePath(e', path) = {o}
  BY LoadedIs
<1>2. AnswersKept(e', said')
  BY <1>1, AnswersStay
<1>3. AskInv'
  BY <1>1, <1>2 DEF AskInv
<1>4. ASSUME NEW o \in LiveIds(e') \ LiveIds(e)
      PROVE  Answered(e'.inst[o]) /\ SamePath(e', e'.inst[o].path) = {o}
  <2>1. PICK i : i = e'.inst[o]
    OBVIOUS
  <2>2. i.path = path /\ i.hash = ask.hash /\ i.perms = ask.perms /\ SamePath(e', path) = {o}
    BY <1>1, <1>4, <2>1
  <2>3. e'.pending[path] = Nil
    BY <1>1
  <2>4. Answered(i)
    BY <2>2, <2>3 DEF Answered
  <2> QED
    BY <2>1, <2>2, <2>4
<1> QED
  BY <1>3, <1>4 DEF Welcome

LEMMA ApprovingAsks ==
    ASSUME AskInv, NEW id, JsMbApproveScript(id) PROVE AskInv' /\ Welcome
<1>1. PICK path \in Paths, response \in {"y", "a", "d", "n"} :
         /\ e' = ApproveScript(e, path, response, Iterating) /\ e.pending[path] # Nil
         /\ said' = IF response = "a"
                    THEN said \cup {[path |-> path, hash |-> e.pending[path].hash,
                                     perms |-> e.pending[path].perms, modules |-> e.modules[path]]}
                    ELSE said
  BY DEF JsMbApproveScript
<1>2. PICK ask : ask = e.pending[path]
  OBVIOUS
<1>3. PICK u : u = [e EXCEPT !.pending[path] = Nil]
  OBVIOUS
<1>4. said \subseteq said'
  BY <1>1
<1>5. /\ Engine(u) /\ AnswersKept(u, said') /\ OnePerPath(u)
      /\ LiveIds(u) = LiveIds(e) /\ u.inst = e.inst /\ u.modules = e.modules
      /\ u.list.allow = e.list.allow /\ u.pending[path] = Nil
  <2>1. PICK told : told = said'
    OBVIOUS
  <2>2. /\ Engine(u) /\ AnswersKept(u, told) /\ OnePerPath(u)
        /\ LiveIds(u) = LiveIds(e) /\ u.inst = e.inst /\ u.modules = e.modules
        /\ u.list.allow = e.list.allow /\ u.pending[path] = Nil
    <3>1. e.pending[path] # Nil /\ said \subseteq told
      BY <1>1, <1>4, <2>1
    <3>2. PICK b : b = u
      OBVIOUS
    <3>3. b = u \/ b = DeniedAt(u, path, e.pending[path].hash)
      BY <3>2
    <3>4. /\ Engine(b) /\ AnswersKept(b, told) /\ OnePerPath(b)
          /\ LiveIds(b) = LiveIds(e) /\ b.inst = e.inst /\ b.modules = e.modules
          /\ b.list.allow = e.list.allow /\ b.pending[path] = Nil
      BY <1>3, <3>1, <3>3, AnswerTaken
    <3> QED
      BY <3>2, <3>4
  <2> QED
    BY <2>1, <2>2
<1>6. CASE response = "y"
  <2>1. e' = LoadScriptInternal(u, path, ask.hash, ask.perms, Iterating)
    BY <1>1, <1>2, <1>3, <1>6 DEF ApproveScript
  <2> QED
    BY <1>1, <1>2, <1>5, <2>1, AnsweredYes
<1>7. CASE response = "a"
  <2>1. PICK new : new = [hash |-> ask.hash, perms |-> ask.perms, modules |-> e.modules[path]]
    OBVIOUS
  <2>2. PICK l : l = [u.list EXCEPT !.allow[path] = new]
    OBVIOUS
  <2>3. PICK b : b = [u EXCEPT !.list = l]
    OBVIOUS
  <2>4. e' = LoadScriptInternal(b, path, ask.hash, ask.perms, Iterating)
    BY <1>1, <1>2, <1>3, <1>5, <1>7, <2>1, <2>2, <2>3 DEF ApproveScript, Allow
  <2>5. IsEngine(u)
    BY <1>5, EngineParts
  <2>6. Changes(u, b, {"list"}) /\ b.list = l
    BY <2>3, <2>5 DEF Changes, IsEngine, Fields
  <2>7. b.inst = u.inst /\ b.pending = u.pending /\ b.lst = u.lst
    BY <2>6 DEF Changes, Fields
  <2>8. ListenerTypes(b.lst)
    BY <1>5, <2>7, EngineParts
  <2>9. Engine(b) /\ OnePerPath(b) /\ LiveIds(b) = LiveIds(e)
    BY <1>5, <2>6, <2>7, <2>8, SameEngine DEF OnePerPath, LiveIds
  <2>10. IsEntry(new) /\ Backed(new, path, said')
    <3>1. ask.perms \subseteq All
      BY <1>1, <1>2 DEF AskInv, AnswersKept
    <3>2. IsEntry(new)
      BY <2>1, <3>1 DEF IsEntry
    <3>3. [path |-> path, hash |-> ask.hash, perms |-> ask.perms, modules |-> e.modules[path]] \in said'
      BY <1>1, <1>2, <1>7
    <3> QED
      BY <2>1, <3>2, <3>3 DEF Backed
  <2>11. /\ u.list = [allow |-> u.list.allow, deny |-> u.list.deny]
         /\ u.list.allow = [x \in Paths |-> u.list.allow[x]]
         /\ \A x \in Paths : /\ IsEntry(u.list.allow[x])
                             /\ u.list.allow[x] # NoEntry => Backed(u.list.allow[x], x, said')
    BY <1>5 DEF AnswersKept
  <2>12. /\ l = [allow |-> l.allow, deny |-> l.deny]
         /\ l.allow = [u.list.allow EXCEPT ![path] = new]
    BY <2>2, <2>11
  <2>13. /\ l.allow = [x \in Paths |-> l.allow[x]]
         /\ \A x \in Paths : l.allow[x] = IF x = path THEN new ELSE u.list.allow[x]
    BY <2>11, <2>12
  <2>14. \A x \in Paths : /\ IsEntry(l.allow[x])
                          /\ l.allow[x] # NoEntry => Backed(l.allow[x], x, said')
    BY <2>10, <2>11, <2>13
  <2>15. AnswersKept(b, said')
    BY <1>5, <2>6, <2>7, <2>12, <2>13, <2>14 DEF AnswersKept
  <2>16. b.pending[path] = Nil
    BY <1>5, <2>7
  <2> QED
    BY <1>1, <1>2, <2>4, <2>9, <2>15, <2>16, AnsweredYes
<1>8. CASE response = "d"
  <2>1. e' = [u EXCEPT !.list = Deny(@, path, e.pending[path].hash)]
    BY <1>1, <1>3, <1>8 DEF ApproveScript
  <2>2. PICK b, told : b = e' /\ told = said'
    OBVIOUS
  <2>3. b = DeniedAt(u, path, e.pending[path].hash) /\ said \subseteq told
    BY <1>4, <2>1, <2>2 DEF DeniedAt
  <2>4. Engine(b) /\ AnswersKept(b, told) /\ OnePerPath(b) /\ LiveIds(b) = LiveIds(e)
    BY <1>1, <1>3, <2>3, AnswerTaken
  <2>5. AskInv'
    BY <2>2, <2>4 DEF AskInv
  <2>6. LiveIds(e') = LiveIds(e)
    BY <2>2, <2>4
  <2> QED
    BY <2>5, <2>6 DEF Welcome
<1>9. CASE response = "n"
  <2>1. e' = u
    BY <1>1, <1>3, <1>9 DEF ApproveScript
  <2> QED
    BY <1>5, <2>1 DEF AskInv, Welcome
<1> QED
  BY <1>1, <1>6, <1>7, <1>8, <1>9

LEMMA FirstInstances ==
    ASSUME NEW s
    PROVE  LET q == InitialInstances(s)
           IN /\ q = [id \in DOMAIN q |-> q[id]] /\ \E n \in Nat : DOMAIN q = 1..n
              /\ \A id \in DOMAIN q : IsInst(q[id])
              /\ \A i, j \in DOMAIN q : q[i].path = q[j].path => i = j
              /\ s = "load" => \A id \in DOMAIN q : q[id].builtIn
              /\ \A id \in DOMAIN q : q[id].uses = NoUses
<1>1. PICK l : l = Loader
  OBVIOUS
<1>2. PICK x : x = NewInstance("a", "v1", Grants(s)[1], FALSE)
  OBVIOUS
<1>3. PICK y : y = NewInstance("b", "v1", Grants(s)[2], FALSE)
  OBVIOUS
<1>4. IsInst(l) /\ l.path = "loader" /\ l.builtIn /\ l.uses = NoUses
  BY <1>1, NoUsesType DEF Loader, NewInstance, IsInst, InstFields
<1>5. IsInst(x) /\ IsInst(y) /\ x.path = "a" /\ y.path = "b" /\ x.uses = NoUses /\ y.uses = NoUses
  BY <1>2, <1>3, NoUsesType DEF NewInstance, IsInst, InstFields
<1>6. CASE s = "load"
  <2>1. InitialInstances(s) = <<l>> /\ DOMAIN <<l>> = 1..1
    BY <1>1, <1>6 DEF InitialInstances
  <2> QED
    BY <1>4, <2>1
<1>7. CASE s # "load"
  <2>1. InitialInstances(s) = <<l, x, y>>
    BY <1>1, <1>2, <1>3, <1>7, Zenon DEF InitialInstances
  <2>2. DOMAIN <<l, x, y>> = {1, 2, 3} /\ DOMAIN <<l, x, y>> = 1..3
    OBVIOUS
  <2> QED
    BY <1>4, <1>5, <1>7, <2>1, <2>2
<1> QED
  BY <1>6, <1>7

LEMMA FirstEngineIs ==
    ASSUME NEW s, NEW a, a = FirstEngine(s)
    PROVE  /\ Engine(a) /\ OnePerPath(a) /\ a.inst = InitialInstances(s)
           /\ a.pending = [x \in Paths |-> Nil] /\ a.list = EmptyList(Paths)
<1>1. IsEngine(a)
  BY DEF FirstEngine, IsEngine, Fields
<1>2. /\ a.inst = InitialInstances(s) /\ a.count = NoUses
      /\ a.flag = [v \in Filters |-> [p \in Panes |-> FALSE]]
      /\ a.lst = [k \in {<<1, <<"mb">>>>} |-> [v \in {"scriptPermissionRequired"} |-> 1]]
      /\ a.pending = [x \in Paths |-> Nil] /\ a.list = EmptyList(Paths)
  BY DEF FirstEngine
<1>3. a.count \in [Counted -> [Panes -> Nat]]
  BY <1>2, NoUsesType
<1>4. a.flag \in [Filters -> [Panes -> BOOLEAN]]
  BY <1>2
<1>5. /\ a.lst = [k \in DOMAIN a.lst |-> a.lst[k]]
      /\ \A k \in DOMAIN a.lst : a.lst[k] \in [DOMAIN a.lst[k] -> Nat]
  BY <1>2
<1>6. Engine(a)
  BY <1>1, <1>2, <1>3, <1>4, <1>5, FirstInstances DEF Engine
<1>7. OnePerPath(a)
  BY <1>2, FirstInstances DEF OnePerPath, LiveIds
<1> QED
  BY <1>2, <1>6, <1>7

LEMMA StartAsks == ASSUME Init PROVE AskInv
<1>1. e = FirstEngine(scope) /\ said = {}
  BY DEF Init
<1>2. /\ Engine(e) /\ OnePerPath(e)
      /\ e.pending = [x \in Paths |-> Nil] /\ e.list = EmptyList(Paths)
  BY <1>1, FirstEngineIs
<1>3. /\ e.list = [allow |-> e.list.allow, deny |-> e.list.deny]
      /\ e.list.allow = [x \in Paths |-> NoEntry]
  <2>1. PICK x, y : x = [p \in Paths |-> NoEntry] /\ y = [p \in Paths |-> ""]
    OBVIOUS
  <2>2. e.list = [allow |-> x, deny |-> y]
    BY <1>2, <2>1 DEF EmptyList
  <2>3. e.list.allow = x /\ e.list.deny = y
    BY <2>2
  <2>4. e.list = [allow |-> e.list.allow, deny |-> e.list.deny]
    BY <2>2, <2>3
  <2>5. e.list.allow = [p \in Paths |-> NoEntry]
    BY <2>1, <2>3
  <2> QED
    BY <2>4, <2>5
<1>4. IsEntry(NoEntry)
  BY DEF IsEntry, NoEntry
<1>5. AnswersKept(e, said)
  BY <1>2, <1>3, <1>4 DEF AnswersKept
<1> QED
  BY <1>2, <1>5 DEF AskInv

LEMMA RestartAsks == ASSUME AskInv, Restart PROVE AskInv' /\ Welcome
<1>1. PICK m, d, ms : m = Load(Save(e.list), Paths) /\ d = e.disk /\ ms = e.modules
  OBVIOUS
<1>2. PICK a : a = FirstEngine(scope)
  OBVIOUS
<1>3. e' = [a EXCEPT !.list = m, !.disk = d, !.modules = ms] /\ said' = said /\ scope = "load"
  BY <1>1, <1>2 DEF Restart, Event, Happens
<1>4. /\ Engine(a) /\ OnePerPath(a) /\ a.inst = InitialInstances(scope)
      /\ a.pending = [x \in Paths |-> Nil]
  BY <1>2, FirstEngineIs
<1>5. Changes(a, e', {"list", "disk", "modules"}) /\ e'.list = m
  <2>1. IsEngine(a)
    BY <1>4, EngineParts
  <2> QED
    BY <1>3, <2>1 DEF Changes, IsEngine, Fields
<1>6. e'.inst = a.inst /\ e'.pending = a.pending /\ e'.lst = a.lst
  BY <1>5 DEF Changes, Fields
<1>7. ListenerTypes(e'.lst)
  BY <1>4, <1>6, EngineParts
<1>8. Engine(e') /\ OnePerPath(e')
  <2>1. PICK b : b = e'
    OBVIOUS
  <2>2. Changes(a, b, {"list", "disk", "modules"}) /\ ListenerTypes(b.lst)
    BY <1>5, <1>7, <2>1
  <2>3. Engine(b)
    BY <1>4, <2>2, SameEngine
  <2> QED
    BY <1>4, <1>6, <2>1, <2>3 DEF OnePerPath, LiveIds
<1>9. AnswersKept(e', said)
  <2>1. PICK l : l = e.list
    OBVIOUS
  <2>2. ListKept(l, said)
    BY <2>1 DEF AskInv, AnswersKept, ListKept
  <2>3. m = Load(Save(l), Paths)
    BY <1>1, <2>1
  <2>4. PICK told : told = said
    OBVIOUS
  <2>5. ListKept(m, told)
    BY <2>2, <2>3, <2>4, ReadBack
  <2> QED
    BY <1>4, <1>5, <1>6, <2>4, <2>5 DEF AnswersKept, ListKept
<1>10. AskInv'
  BY <1>3, <1>8, <1>9 DEF AskInv
<1>11. \A id \in LiveIds(e') : e'.inst[id].builtIn
  BY <1>3, <1>4, <1>6, FirstInstances DEF LiveIds
<1> QED
  BY <1>10, <1>11 DEF Welcome

-----------------------------------------------------------------------------
(* The end of the engine unloads one instance after another.               *)

\* The recursive function of Destroy's fold, on the sets of positions of s.
UnloadsBy(it, b, s, D) ==
    it = [t \in SUBSET D |-> IF t = {} THEN b ELSE Unload(it[t \ {Max(t)}], s[Max(t)], FALSE)]

LEMMA OneMoreUnload ==
    ASSUME NEW m \in Nat, NEW b, NEW s, NEW it, UnloadsBy(it, b, s, 1..m)
    PROVE  \E jt : UnloadsBy(jt, b, s, 1..(m + 1))
<1>1. PICK jt : jt = [t \in SUBSET (1..(m + 1)) |->
                        IF m + 1 \in t THEN Unload(it[t \ {m + 1}], s[m + 1], FALSE) ELSE it[t]]
  OBVIOUS
<1>2. \A t \in SUBSET (1..(m + 1)) : /\ t \ {m + 1} \in SUBSET (1..m)
                                     /\ m + 1 \notin t => t \in SUBSET (1..m)
  OBVIOUS
<1>3. \A t \in SUBSET (1..m) : jt[t] = it[t]
  <2>1. \A t \in SUBSET (1..m) : m + 1 \notin t /\ t \in SUBSET (1..(m + 1))
    OBVIOUS
  <2> QED
    BY <1>1, <2>1
<1>4. ASSUME NEW t \in SUBSET (1..(m + 1))
      PROVE  jt[t] = IF t = {} THEN b ELSE Unload(jt[t \ {Max(t)}], s[Max(t)], FALSE)
  <2>1. CASE m + 1 \in t
    <3>1. m + 1 \in Nat /\ t # {}
      BY <2>1
    <3>2. Max(t) \in t /\ (\A i \in t : i <= Max(t))
      BY <3>1, LastOf
    <3>3. PICK x : x = Max(t)
      OBVIOUS
    <3>4. \A i \in t : i \in Nat /\ i <= m + 1
      OBVIOUS
    <3>5. x \in Nat /\ m + 1 <= x /\ x <= m + 1
      BY <2>1, <3>2, <3>3, <3>4
    <3>6. Max(t) = m + 1
      BY <3>3, <3>5
    <3>7. jt[t \ {m + 1}] = it[t \ {m + 1}]
      BY <1>2, <1>3
    <3>8. jt[t] = Unload(it[t \ {m + 1}], s[m + 1], FALSE)
      BY <1>1, <2>1
    <3> QED
      BY <3>1, <3>6, <3>7, <3>8
  <2>2. CASE m + 1 \notin t
    <3>1. t \in SUBSET (1..m) /\ t \ {Max(t)} \in SUBSET (1..m)
      BY <1>2, <2>2
    <3>2. it[t] = IF t = {} THEN b ELSE Unload(it[t \ {Max(t)}], s[Max(t)], FALSE)
      BY <3>1 DEF UnloadsBy
    <3> QED
      BY <1>3, <3>1, <3>2
  <2> QED
    BY <2>1, <2>2
<1>5. UnloadsBy(jt, b, s, 1..(m + 1))
  <2>1. DOMAIN jt = SUBSET (1..(m + 1)) /\ jt = [t \in SUBSET (1..(m + 1)) |-> jt[t]]
    BY <1>1
  <2> QED
    BY <1>4, <2>1 DEF UnloadsBy
<1> QED
  BY <1>5

LEMMA UnloadsExist ==
    ASSUME NEW n \in Nat, NEW b, NEW s PROVE \E it : UnloadsBy(it, b, s, 1..n)
<1> DEFINE Has(m) == \E it : UnloadsBy(it, b, s, 1..m)
<1>1. Has(0)
  <2>1. SUBSET (1..0) = {{}}
    OBVIOUS
  <2>2. PICK it : it = [t \in {{}} |-> b]
    OBVIOUS
  <2>3. UnloadsBy(it, b, s, 1..0)
    BY <2>1, <2>2 DEF UnloadsBy
  <2> QED
    BY <2>3
<1>2. ASSUME NEW m \in Nat, Has(m) PROVE Has(m + 1)
  BY <1>2, OneMoreUnload
<1> HIDE DEF Has
<1>3. {m \in 0..n : Has(m)} = 0..n
  <2>1. PICK T : T = {m \in 0..n : Has(m)}
    OBVIOUS
  <2>2. T \in SUBSET (0..n) /\ 0 \in T
    BY <1>1, <2>1
  <2>3. ASSUME NEW k \in 1..n, k - 1 \in T PROVE k \in T
    <3>1. k - 1 \in Nat /\ Has(k - 1) /\ (k - 1) + 1 = k
      BY <2>1, <2>3
    <3>2. Has((k - 1) + 1)
      BY <1>2, <3>1
    <3> QED
      BY <2>1, <3>1, <3>2
  <2> QED
    BY <2>1, <2>2, <2>3, StepByStep
<1>4. Has(n)
  BY <1>3
<1> QED
  BY <1>4 DEF Has

\* One after another.
UnloadsIn(h, n, b) == h[0] = b /\ \A k \in 1..n : h[k] = Unload(h[k - 1], k, FALSE)

LEMMA UnloadingInTurn ==
    ASSUME NEW n \in Nat, NEW b, NEW s, s = [id \in 1..n |-> id]
    PROVE  \E h : /\ UnloadsIn(h, n, b)
                  /\ h[n] = FoldLeft(LAMBDA a, id : Unload(a, id, FALSE), b, s)
<1>2. DOMAIN s = 1..n /\ \A i \in 1..n : s[i] = i
  OBVIOUS
<1> DEFINE E(it) == it = [t \in SUBSET (DOMAIN s) |->
                            IF t = {} THEN b ELSE Unload(it[t \ {Max(t)}], s[Max(t)], FALSE)]
<1>3. \E it : E(it)
  <2>1. PICK it : UnloadsBy(it, b, s, 1..n)
    BY UnloadsExist
  <2>2. UnloadsBy(it, b, s, DOMAIN s)
    BY <1>2, <2>1
  <2>3. E(it)
    BY <2>2, Zenon DEF UnloadsBy
  <2> QED
    BY <2>3
<1>4. PICK jt : jt = (CHOOSE it : E(it))
  OBVIOUS
<1>5. E(jt)
  BY <1>3, <1>4
<1>6. jt[DOMAIN s] = FoldLeft(LAMBDA a, id : Unload(a, id, FALSE), b, s)
  BY <1>4 DEF FoldLeft, MapThenFoldSet
<1>7. /\ jt[{}] = b
      /\ \A t \in SUBSET (1..n) : t # {} => jt[t] = Unload(jt[t \ {Max(t)}], s[Max(t)], FALSE)
  BY <1>2, <1>5
<1> HIDE DEF E
<1>8. ASSUME NEW k \in 1..n PROVE jt[1..k] = Unload(jt[1..(k - 1)], k, FALSE)
  <2>0. k \in 1..k
    OBVIOUS
  <2>a. \A i \in 1..k : i \in 1..n
    OBVIOUS
  <2>1. (1..k) \in SUBSET (1..n) /\ 1..k # {}
    BY <2>0, <2>a
  <2>2. Max(1..k) = k
    <3>1. PICK x : x = Max(1..k)
      OBVIOUS
    <3>2. Max(1..k) \in 1..k /\ \A i \in 1..k : i <= Max(1..k)
      BY <2>1, LastOf
    <3>3. x \in 1..k /\ k <= x
      BY <2>0, <3>1, <3>2
    <3> QED
      BY <3>1, <3>3
  <2>3. (1..k) \ {k} = 1..(k - 1)
    OBVIOUS
  <2>4. jt[1..k] = Unload(jt[(1..k) \ {Max(1..k)}], s[Max(1..k)], FALSE)
    BY <1>7, <2>1
  <2> QED
    BY <1>2, <2>2, <2>3, <2>4
<1>9. PICK h : h = [k \in 0..n |-> jt[1..k]]
  OBVIOUS
<1>10. h[0] = b /\ h[n] = jt[DOMAIN s]
  <2>1. 1..0 = {} /\ 0 \in 0..n /\ n \in 0..n
    OBVIOUS
  <2> QED
    BY <1>2, <1>7, <1>9, <2>1
<1>11. ASSUME NEW k \in 1..n PROVE h[k] = Unload(h[k - 1], k, FALSE)
  <2>1. k \in 0..n /\ k - 1 \in 0..n
    OBVIOUS
  <2> QED
    BY <1>8, <1>9, <2>1
<1> QED
  BY <1>6, <1>10, <1>11 DEF UnloadsIn

LEMMA UnloadOrNot ==
    ASSUME NEW a, Engine(a), NEW id, NEW b, b = Unload(a, id, FALSE)
    PROVE  Ordinary(a, b)
<1>1. CASE ~Live(a, id)
  BY <1>1, QuietSame DEF Unload, Ordinary
<1>2. CASE Live(a, id)
  <2>1. Engine(b)
    BY <1>2, UnloadIs
  <2>2. Changes(b, b, {"exits"})
    BY <2>1, NoChange, EngineParts
  <2>3. Unloaded(a, b)
    BY <1>2, <2>2 DEF Unloaded, Live
  <2> QED
    BY <2>3 DEF Ordinary
<1> QED
  BY <1>1, <1>2

\* Nobody is new in c, and what the user said is as it was in a.
NoneNew(a, c) == /\ Engine(c) /\ c.list = a.list /\ c.pending = a.pending
                 /\ LiveIds(c) \subseteq LiveIds(a)
                 /\ \A id \in LiveIds(c) : SameScript(a.inst[id], c.inst[id])

LEMMA NoneNewTwice ==
    ASSUME NEW a, NEW b, NEW c, NoneNew(a, b), NoneNew(b, c) PROVE NoneNew(a, c)
<1>1. \A id \in LiveIds(c) : SameScript(a.inst[id], c.inst[id])
  BY DEF NoneNew, SameScript
<1> QED
  BY <1>1 DEF NoneNew

LEMMA UnloadsNoneNew ==
    ASSUME NEW n \in Nat, NEW b, Engine(b), NEW h, UnloadsIn(h, n, b)
    PROVE  NoneNew(b, h[n])
<1>1. PICK T : T = {k \in 0..n : NoneNew(b, h[k])}
  OBVIOUS
<1>2. NoneNew(b, b)
  BY DEF NoneNew, SameScript
<1>3. T \in SUBSET (0..n) /\ 0 \in T
  <2>1. h[0] = b
    BY DEF UnloadsIn
  <2> QED
    BY <1>1, <1>2, <2>1
<1>4. ASSUME NEW k \in 1..n, k - 1 \in T PROVE k \in T
  <2>0. NoneNew(b, h[k - 1])
    BY <1>1, <1>4, Zenon
  <2>a. h[k] = Unload(h[k - 1], k, FALSE)
    BY DEF UnloadsIn
  <2>b. k \in 0..n
    OBVIOUS
  <2>1. NoneNew(b, h[k - 1]) /\ h[k] = Unload(h[k - 1], k, FALSE) /\ k \in 0..n
    BY <2>0, <2>a, <2>b
  <2>2. PICK c, d : c = h[k - 1] /\ d = h[k]
    OBVIOUS
  <2>3. NoneNew(b, c) /\ Engine(c) /\ d = Unload(c, k, FALSE)
    BY <2>1, <2>2 DEF NoneNew
  <2>4. Ordinary(c, d)
    BY <2>3, UnloadOrNot
  <2>5. NoneNew(c, d)
    BY <2>3, <2>4, OrdinaryKeeps DEF NoneNew
  <2>6. NoneNew(b, d)
    BY <2>3, <2>5, NoneNewTwice
  <2> QED
    BY <1>1, <2>1, <2>2, <2>6
<1>5. T = 0..n
  BY <1>3, <1>4, StepByStep
<1> QED
  BY <1>1, <1>5

\* Destroy in parts: libwebsockets' end, the unloads, the rest.
LEMMA DestroyIs ==
    ASSUME NEW a, Engine(a), NEW d, d = Destroy(a)
    PROVE  \E n, b, h, c :
              /\ n \in Nat /\ DOMAIN a.inst = 1..n
              /\ Changes(a, b, {"w"}) /\ Engine(b) /\ b.w = WsDestroyEngine(a.w)
              /\ UnloadsIn(h, n, b) /\ c = h[n] /\ Engine(c)
              /\ Changes(c, d, {"timers", "handlers", "jobs"}) /\ Engine(d)
              /\ d.timers = <<>> /\ d.handlers = <<>> /\ d.jobs = <<>>
<1>1. PICK n \in Nat : DOMAIN a.inst = 1..n
  BY DEF Engine
<1>2. Cardinality(DOMAIN a.inst) = n
  BY <1>1, FS_Interval
<1>3. PICK x : x = WsDestroyEngine(a.w)
  OBVIOUS
<1>4. PICK b : b = [a EXCEPT !.w = x]
  OBVIOUS
<1>5. IsEngine(a)
  BY EngineParts
<1>6. Changes(a, b, {"w"}) /\ b.w = x
  BY <1>4, <1>5 DEF Changes, IsEngine, Fields
<1>7. Engine(b)
  <2>1. b.lst = a.lst
    BY <1>6 DEF Changes, Fields
  <2> QED
    BY <1>6, <2>1, SameEngine, EngineParts
<1>a. PICK s : s = [id \in 1..Cardinality(DOMAIN a.inst) |-> id]
  OBVIOUS
<1>b. s = [id \in 1..n |-> id]
  BY <1>2, <1>a
<1>8. PICK h : /\ UnloadsIn(h, n, b)
               /\ h[n] = FoldLeft(LAMBDA q, id : Unload(q, id, FALSE), b, s)
  BY <1>b, UnloadingInTurn
<1>9. PICK c : c = h[n]
  OBVIOUS
<1>10. d = [c EXCEPT !.timers = <<>>, !.handlers = <<>>, !.jobs = <<>>]
  <2>1. b = [a EXCEPT !.w = WsDestroyEngine(@)]
    BY <1>3, <1>4
  <2>2. c = FoldLeft(LAMBDA q, id : Unload(q, id, FALSE), [a EXCEPT !.w = WsDestroyEngine(@)],
                     [id \in 1..Cardinality(DOMAIN a.inst) |-> id])
    BY <1>8, <1>9, <1>a, <2>1, Zenon
  <2> QED
    BY <2>2, Zenon DEF Destroy
<1>11. NoneNew(b, c)
  BY <1>7, <1>8, <1>9, UnloadsNoneNew
<1>12. Engine(c) /\ IsEngine(c)
  BY <1>11, EngineParts DEF NoneNew
<1>13. /\ Changes(c, d, {"timers", "handlers", "jobs"})
       /\ d.timers = <<>> /\ d.handlers = <<>> /\ d.jobs = <<>>
  BY <1>10, <1>12 DEF Changes, IsEngine, Fields
<1>14. Engine(d)
  <2>1. d.lst = c.lst
    BY <1>13 DEF Changes, Fields
  <2> QED
    BY <1>12, <1>13, <2>1, SameEngine, EngineParts
<1> QED
  BY <1>1, <1>3, <1>6, <1>7, <1>8, <1>9, <1>12, <1>13, <1>14

LEMMA EndAsks == ASSUME AskInv, EngineEnds PROVE AskInv' /\ Welcome
<1>1. PICK a, d : a = e /\ d = e'
  OBVIOUS
<1>2. Engine(a) /\ d = Destroy(a) /\ said' = said
  BY <1>1 DEF EngineEnds, AskInv
<1>3. PICK n, b, h, c :
              /\ n \in Nat /\ DOMAIN a.inst = 1..n
              /\ Changes(a, b, {"w"}) /\ Engine(b) /\ b.w = WsDestroyEngine(a.w)
              /\ UnloadsIn(h, n, b) /\ c = h[n] /\ Engine(c)
              /\ Changes(c, d, {"timers", "handlers", "jobs"}) /\ Engine(d)
              /\ d.timers = <<>> /\ d.handlers = <<>> /\ d.jobs = <<>>
  BY <1>2, DestroyIs
<1>4. NoneNew(a, b)
  BY <1>3 DEF NoneNew, Changes, Fields, SameScript, LiveIds
<1>5. NoneNew(b, c)
  BY <1>3, UnloadsNoneNew
<1>6. NoneNew(c, d)
  BY <1>3 DEF NoneNew, Changes, Fields, SameScript, LiveIds
<1>7. NoneNew(a, d)
  BY <1>4, <1>5, <1>6, NoneNewTwice
<1>8. /\ Engine(d) /\ d.list = a.list /\ d.pending = a.pending
      /\ LiveIds(d) \subseteq LiveIds(a)
      /\ \A id \in LiveIds(d) : SameScript(a.inst[id], d.inst[id])
  BY <1>7 DEF NoneNew
<1>9. AnswersKept(a, said) /\ OnePerPath(a)
  BY <1>1 DEF AskInv
<1>10. AnswersKept(d, said)
  BY <1>8, <1>9, AnswersStay
<1>11. OnePerPath(d)
  BY <1>8, <1>9, OnePerPathStays
<1> QED
  BY <1>1, <1>2, <1>8, <1>10, <1>11 DEF AskInv, Welcome

LEMMA StepAsks == ASSUME AskInv, [Next]_vars PROVE AskInv' /\ Welcome
<1>1. Engine(e)
  BY DEF AskInv
<1>2. CASE Ordinary(e, e') /\ said' = said
  <2>1. PICK a, b : a = e /\ b = e'
    OBVIOUS
  <2>2. Engine(a) /\ AnswersKept(a, said) /\ OnePerPath(a) /\ Ordinary(a, b)
    BY <1>2, <2>1 DEF AskInv
  <2>3. /\ Engine(b) /\ AnswersKept(b, said) /\ OnePerPath(b)
        /\ LiveIds(b) \subseteq LiveIds(a)
    BY <2>2, OrdinaryAsks
  <2> QED
    BY <1>2, <2>1, <2>3 DEF AskInv, Welcome
<1>3. CASE \E id : JsMbLoadScript(id) \/ JsMbApproveScript(id)
  BY <1>3, LoadingAsks, ApprovingAsks
<1>4. CASE Restart \/ EngineEnds
  BY <1>4, RestartAsks, EndAsks
<1> QED
  BY <1>1, <1>2, <1>3, <1>4, StepKinds

\* A script of the user's files starts only after an answer of the user's for
\* this text and these permissions, and alone with its path (ScriptEngine's
\* loadScript, approveScript and loadScriptInternal).
THEOREM ScriptsAskFirst == Spec => AsksFirst
<1>1. Init => AskInv
  BY StartAsks
<1>2. AskInv /\ [Next]_vars => AskInv'
  BY StepAsks
<1>3. AskInv /\ [Next]_vars =>
        [\A id \in LiveIds(e') \ LiveIds(e) :
           LET i == e'.inst[id]
           IN i.builtIn \/ /\ Answered(i) \/ AlwaysAnswered(i)
                           /\ SamePath(e', i.path) = {id}]_vars
  BY StepAsks DEF Welcome
<1> QED
  BY <1>1, <1>2, <1>3, PTL DEF Spec, AsksFirst

-----------------------------------------------------------------------------
(* WebSocket servers and connections.                                      *)

ServerFields == {"owner", "place", "ctx", "vhost"}
IsServer(r) == r = [f \in ServerFields |-> r[f]] /\ r.ctx \in BOOLEAN
ConnFields == {"server", "closed", "js", "wsi", "rx", "tx", "told"}
\* A connection object is told of the end at most once.
IsConn(k) == /\ k = [f \in ConnFields |-> k[f]]
             /\ k.closed \in BOOLEAN /\ k.js \in BOOLEAN /\ k.wsi \in BOOLEAN
             /\ k.told \in {0, 1} /\ (k.js => k.told = 0) /\ (k.closed => ~k.wsi)
IsList(s) == \E n \in Nat : s = [i \in 1..n |-> s[i]]
IsWs(w) == w = [server |-> w.server, conn |-> w.conn, got |-> w.got, sent |-> w.sent]
\* An open server has an owner among ids; who is on the wire has a server.
ServersOwned(w, ids) ==
    \A s \in DOMAIN w.server : IsServer(w.server[s]) /\ (w.server[s].place = "open" => w.server[s].owner \in ids)
ConnsServed(w) ==
    \A c \in DOMAIN w.conn : /\ IsConn(w.conn[c]) /\ w.conn[c].server \in DOMAIN w.server
                             /\ w.conn[c].wsi => w.server[w.conn[c].server].place # "freed"
WsOk(w, ids) == /\ IsWs(w) /\ IsList(w.server) /\ IsList(w.conn)
                /\ ServersOwned(w, ids) /\ ConnsServed(w)

\* t is s, of n elements, and x.
LongerBy(t, s, x, n) == /\ n \in Nat /\ DOMAIN s = 1..n /\ t = [i \in 1..(n + 1) |-> t[i]]
                        /\ (\A i \in 1..n : t[i] = s[i]) /\ t[n + 1] = x

LEMMA AppendOne ==
    ASSUME NEW s, IsList(s), NEW x PROVE \E n : LongerBy(Append(s, x), s, x, n)
<1>1. PICK n \in Nat : s = [i \in 1..n |-> s[i]]
  BY DEF IsList
<1>2. PICK S : S = {s[i] : i \in 1..n} \cup {x}
  OBVIOUS
<1>3. s \in [1..n -> S] /\ x \in S
  BY <1>1, <1>2
<1>4. s \in Seq(S) /\ Len(s) = n
  BY <1>3
<1>5. PICK t : t = Append(s, x)
  OBVIOUS
<1>6. /\ t \in Seq(S) /\ Len(t) = n + 1 /\ \A i \in 1..n : t[i] = s[i]
      /\ t[n + 1] = x
  BY <1>3, <1>4, <1>5
<1>7. t = [i \in 1..(n + 1) |-> t[i]]
  BY <1>6
<1>8. DOMAIN s = 1..n
  BY <1>1
<1> QED
  BY <1>5, <1>6, <1>7, <1>8 DEF LongerBy

\* Only the frames or the fragments of a connection differ.
SameConn(k, j) == /\ IsConn(j) /\ j.server = k.server /\ (j.wsi => k.wsi)

\* Closed, or left alone.
Shut(r) == [r EXCEPT !.ctx = FALSE, !.vhost = FALSE, !.place = "dying"]

LEMMA ShutServer ==
    ASSUME NEW r, IsServer(r)
    PROVE  IsServer(Shut(r)) /\ Shut(r).place = "dying" /\ Shut(r).owner = r.owner
  BY DEF IsServer, ServerFields, Shut

LEMMA ToldConn ==
    ASSUME NEW k, IsConn(k) PROVE SameConn(k, DestroyConnectionJs(k, TRUE))
<1>1. CASE ~k.js
  BY <1>1 DEF DestroyConnectionJs, SameConn
<1>2. CASE k.js
  <2>1. PICK j : j = [k EXCEPT !.js = FALSE, !.told = 1]
    OBVIOUS
  <2>2. k.told + 1 = 1
    BY <1>2 DEF IsConn
  <2>3. DestroyConnectionJs(k, TRUE) = j
    BY <1>2, <2>1, <2>2 DEF DestroyConnectionJs
  <2>4. SameConn(k, j)
    BY <2>1 DEF IsConn, SameConn, ConnFields
  <2> QED
    BY <2>3, <2>4
<1> QED
  BY <1>1, <1>2

LEMMA LwsClosedConn ==
    ASSUME NEW k, IsConn(k), NEW w
    PROVE  SameConn(k, LwsClosed(w, k)) /\ ~LwsClosed(w, k).wsi
<1>1. CASE k.closed
  BY <1>1 DEF LwsClosed, SameConn, IsConn
<1>2. CASE ~k.closed
  <2>1. PICK told : told = IF w.server[k.server].ctx /\ w.server[k.server].place = "open"
                           THEN DestroyConnectionJs(k, TRUE) ELSE k
    OBVIOUS
  <2>2. SameConn(k, told)
    BY <2>1, ToldConn DEF SameConn
  <2>3. LwsClosed(w, k) = [told EXCEPT !.closed = TRUE, !.wsi = FALSE]
    BY <1>2, <2>1 DEF LwsClosed
  <2>4. SameConn(k, [told EXCEPT !.closed = TRUE, !.wsi = FALSE])
    BY <2>2 DEF SameConn, IsConn, ConnFields
  <2>5. ~LwsClosed(w, k).wsi
    BY <2>2, <2>3 DEF SameConn, IsConn, ConnFields
  <2> QED
    BY <2>3, <2>4, <2>5
<1> QED
  BY <1>1, <1>2

\* Connections change one by one, servers none.
LEMMA ConnsMove ==
    ASSUME NEW w, NEW ids, WsOk(w, ids), NEW x, IsWs(x), x.server = w.server,
           IsList(x.conn), DOMAIN x.conn = DOMAIN w.conn,
           \A c \in DOMAIN w.conn : x.conn[c] = w.conn[c] \/ SameConn(w.conn[c], x.conn[c])
    PROVE  WsOk(x, ids)
<1>1. ServersOwned(x, ids)
  BY DEF WsOk, ServersOwned
<1>2. ConnsServed(x)
  <2>1. SUFFICES ASSUME NEW c \in DOMAIN x.conn
                 PROVE  /\ IsConn(x.conn[c]) /\ x.conn[c].server \in DOMAIN x.server
                        /\ x.conn[c].wsi => x.server[x.conn[c].server].place # "freed"
    BY DEF ConnsServed
  <2>2. /\ IsConn(w.conn[c]) /\ w.conn[c].server \in DOMAIN w.server
        /\ w.conn[c].wsi => w.server[w.conn[c].server].place # "freed"
    BY DEF WsOk, ConnsServed
  <2> QED
    BY <2>2 DEF SameConn
<1> QED
  BY <1>1, <1>2 DEF WsOk

LEMMA OneConnMoves ==
    ASSUME NEW w, NEW ids, WsOk(w, ids), NEW c \in DOMAIN w.conn, NEW j, SameConn(w.conn[c], j),
           NEW x, IsWs(x), x.server = w.server, x.conn = [w.conn EXCEPT ![c] = j]
    PROVE  WsOk(x, ids)
<1>1. PICK n \in Nat : w.conn = [i \in 1..n |-> w.conn[i]]
  BY DEF WsOk, IsList
<1>2. DOMAIN x.conn = 1..n /\ DOMAIN w.conn = 1..n
  BY <1>1
<1>3. x.conn = [i \in 1..n |-> x.conn[i]] /\ \A d \in DOMAIN w.conn : x.conn[d] = IF d = c THEN j ELSE w.conn[d]
  BY <1>1, <1>2
<1>4. IsList(x.conn)
  BY <1>3 DEF IsList
<1> QED
  BY <1>2, <1>3, <1>4, ConnsMove

LEMMA ListOf ==
    ASSUME NEW s, IsList(s), NEW t, DOMAIN t = DOMAIN s, t = [i \in DOMAIN t |-> t[i]]
    PROVE  IsList(t)
<1>1. PICK n \in Nat : s = [i \in 1..n |-> s[i]]
  BY DEF IsList
<1>2. DOMAIN s = 1..n
  BY <1>1
<1> QED
  BY <1>2 DEF IsList

LEMMA WsCloses ==
    ASSUME NEW w, NEW ids, WsOk(w, ids), NEW ss, NEW x, x = CloseWsServers(w, ss), NEW left,
           \A s \in DOMAIN w.server \ ss : w.server[s].place = "open" => w.server[s].owner \in left
    PROVE  WsOk(x, left)
<1>1. PICK open : open = {s \in ss : w.server[s].place = "open"}
  OBVIOUS
<1>2. PICK cc, sv :
         /\ cc = [c \in DOMAIN w.conn |-> IF \E s \in open : c \in ConnsOf(w, s)
                                          THEN DestroyConnectionJs(w.conn[c], TRUE) ELSE w.conn[c]]
         /\ sv = [s \in DOMAIN w.server |-> IF s \in open THEN Shut(w.server[s]) ELSE w.server[s]]
  OBVIOUS
<1>3. x = [w EXCEPT !.conn = cc, !.server = sv]
  BY <1>1, <1>2, Zenon DEF CloseWsServers, Shut
<1>4. IsWs(x) /\ x.conn = cc /\ x.server = sv
  BY <1>3 DEF WsOk, IsWs
<1>5. /\ \A s \in DOMAIN w.server : IsServer(w.server[s])
      /\ \A c \in DOMAIN w.conn : /\ IsConn(w.conn[c]) /\ w.conn[c].server \in DOMAIN w.server
                                  /\ w.conn[c].wsi => w.server[w.conn[c].server].place # "freed"
  BY DEF WsOk, ServersOwned, ConnsServed
<1>6. IsList(cc) /\ IsList(sv)
  BY <1>2, ListOf DEF WsOk
<1>7. ServersOwned(x, left)
  <2>1. SUFFICES ASSUME NEW s \in DOMAIN w.server
                 PROVE  IsServer(sv[s]) /\ (sv[s].place = "open" => sv[s].owner \in left)
    BY <1>2, <1>4 DEF ServersOwned
  <2>2. CASE s \in open
    BY <1>2, <1>5, <2>2, ShutServer
  <2>3. CASE s \notin open
    <3>1. sv[s] = w.server[s]
      BY <1>2, <2>3
    <3> QED
      BY <1>1, <1>5, <2>3, <3>1
  <2> QED
    BY <2>2, <2>3
<1>8. \A s \in DOMAIN w.server : w.server[s].place # "freed" => sv[s].place # "freed"
  BY <1>2, <1>5, ShutServer
<1>9. ConnsServed(x)
  <2>1. SUFFICES ASSUME NEW c \in DOMAIN w.conn
                 PROVE  /\ IsConn(cc[c]) /\ cc[c].server \in DOMAIN sv
                        /\ cc[c].wsi => sv[cc[c].server].place # "freed"
    BY <1>2, <1>4 DEF ConnsServed
  <2>2. SameConn(w.conn[c], cc[c])
    <3>1. SameConn(w.conn[c], w.conn[c])
      BY <1>5 DEF SameConn
    <3> QED
      BY <1>2, <1>5, <3>1, ToldConn
  <2>3. DOMAIN sv = DOMAIN w.server
    BY <1>2
  <2> QED
    BY <1>5, <1>8, <2>2, <2>3 DEF SameConn
<1> QED
  BY <1>4, <1>6, <1>7, <1>9 DEF WsOk

LEMMA WsUnloads ==
    ASSUME NEW w, NEW ids, WsOk(w, ids), NEW id
    PROVE  WsOk(WsUnloadInstance(w, id), ids \ {id})
<1>1. PICK ss : ss = {s \in DOMAIN w.server : w.server[s].owner = id}
  OBVIOUS
<1>2. WsUnloadInstance(w, id) = CloseWsServers(w, ss)
  BY <1>1 DEF WsUnloadInstance
<1>3. \A s \in DOMAIN w.server \ ss : w.server[s].place = "open" => w.server[s].owner \in ids \ {id}
  BY <1>1 DEF WsOk, ServersOwned
<1> QED
  BY <1>2, <1>3, WsCloses

LEMMA WsEnds ==
    ASSUME NEW w, NEW ids, WsOk(w, ids) PROVE WsOk(WsDestroyEngine(w), {})
<1>1. PICK shut : shut = CloseWsServers(w, DOMAIN w.server)
  OBVIOUS
<1>2. WsOk(shut, {})
  BY <1>1, WsCloses
<1>3. PICK cc, sv : /\ cc = [c \in DOMAIN shut.conn |-> LwsClosed(shut, shut.conn[c])]
                    /\ sv = [s \in DOMAIN shut.server |-> [shut.server[s] EXCEPT !.place = "freed"]]
  OBVIOUS
<1>4. PICK x : x = WsDestroyEngine(w)
  OBVIOUS
<1>5. x = [shut EXCEPT !.conn = cc, !.server = sv]
  BY <1>1, <1>3, <1>4, Zenon DEF WsDestroyEngine
<1>6. IsWs(x) /\ x.conn = cc /\ x.server = sv
  BY <1>2, <1>5 DEF WsOk, IsWs
<1>7. IsList(cc) /\ IsList(sv)
  BY <1>2, <1>3, ListOf DEF WsOk
<1>8. ServersOwned(x, {})
  <2>1. SUFFICES ASSUME NEW s \in DOMAIN shut.server
                 PROVE  IsServer(sv[s]) /\ sv[s].place = "freed"
    BY <1>3, <1>6 DEF ServersOwned
  <2>2. PICK r : r = shut.server[s]
    OBVIOUS
  <2>3. IsServer(r)
    BY <1>2, <2>2 DEF WsOk, ServersOwned
  <2>4. sv[s] = [r EXCEPT !.place = "freed"]
    BY <1>3, <2>2
  <2> QED
    BY <2>3, <2>4 DEF IsServer, ServerFields
<1>9. ConnsServed(x)
  <2>1. SUFFICES ASSUME NEW c \in DOMAIN shut.conn
                 PROVE  IsConn(cc[c]) /\ cc[c].server \in DOMAIN sv /\ ~cc[c].wsi
    BY <1>3, <1>6 DEF ConnsServed
  <2>2. IsConn(shut.conn[c]) /\ shut.conn[c].server \in DOMAIN shut.server
    BY <1>2 DEF WsOk, ConnsServed
  <2>3. SameConn(shut.conn[c], cc[c]) /\ ~cc[c].wsi
    BY <1>3, <2>2, LwsClosedConn
  <2> QED
    BY <1>3, <2>2, <2>3 DEF SameConn
<1> QED
  BY <1>4, <1>6, <1>7, <1>8, <1>9 DEF WsOk

LEMMA WsCreates ==
    ASSUME NEW w, NEW ids, WsOk(w, ids), NEW id \in ids
    PROVE  WsOk(JsWsCreateServer(w, id), ids)
<1>1. PICK r : r = [owner |-> id, place |-> "open", ctx |-> TRUE, vhost |-> TRUE]
  OBVIOUS
<1>2. PICK x : x = JsWsCreateServer(w, id)
  OBVIOUS
<1>3. x = [w EXCEPT !.server = Append(@, r)]
  BY <1>1, <1>2 DEF JsWsCreateServer
<1>4. IsWs(x) /\ x.conn = w.conn /\ x.server = Append(w.server, r)
  BY <1>3 DEF WsOk, IsWs
<1>5. PICK n : LongerBy(Append(w.server, r), w.server, r, n)
  BY AppendOne DEF WsOk
<1>a. n \in Nat /\ DOMAIN w.server = 1..n
  BY <1>5 DEF LongerBy
<1>6. PICK sv : sv = Append(w.server, r)
  OBVIOUS
<1>7. /\ sv = [i \in 1..(n + 1) |-> sv[i]] /\ \A i \in 1..n : sv[i] = w.server[i]
      /\ sv[n + 1] = r /\ x.server = sv
  BY <1>4, <1>5, <1>6 DEF LongerBy
<1>8. DOMAIN sv = 1..(n + 1) /\ \A i \in DOMAIN sv : i \in 1..n \/ i = n + 1
  BY <1>7, <1>a
<1>9. IsList(sv)
  BY <1>7, <1>a DEF IsList
<1>10. IsServer(r) /\ r.owner \in ids
  BY <1>1 DEF IsServer, ServerFields
<1>11. ServersOwned(x, ids)
  <2>1. \A i \in 1..n : IsServer(w.server[i]) /\ (w.server[i].place = "open" => w.server[i].owner \in ids)
    BY <1>a DEF WsOk, ServersOwned
  <2> QED
    BY <1>7, <1>8, <1>10, <2>1 DEF ServersOwned
<1>12. ConnsServed(x)
  <2>1. \A i \in DOMAIN w.server : i \in DOMAIN sv /\ sv[i] = w.server[i]
    <3>1. \A i \in 1..n : i \in 1..(n + 1)
      BY <1>a
    <3>2. \A i \in 1..n : i \in DOMAIN sv /\ sv[i] = w.server[i]
      BY <1>7, <1>8, <3>1
    <3> QED
      BY <1>a, <3>2
  <2>2. \A c \in DOMAIN w.conn : /\ IsConn(w.conn[c]) /\ w.conn[c].server \in DOMAIN w.server
                                 /\ w.conn[c].wsi => w.server[w.conn[c].server].place # "freed"
    BY DEF WsOk, ConnsServed
  <2>3. x.conn = w.conn /\ x.server = sv
    BY <1>4, <1>7
  <2>4. ASSUME NEW c \in DOMAIN x.conn
        PROVE  /\ IsConn(x.conn[c]) /\ x.conn[c].server \in DOMAIN x.server
               /\ x.conn[c].wsi => x.server[x.conn[c].server].place # "freed"
    BY <2>1, <2>2, <2>3
  <2> QED
    BY <2>4 DEF ConnsServed
<1> QED
  BY <1>2, <1>4, <1>7, <1>9, <1>11, <1>12 DEF WsOk

LEMMA WsEstablishes ==
    ASSUME NEW w, NEW ids, WsOk(w, ids), NEW s \in DOMAIN w.server
    PROVE  WsOk(Established(w, s), ids)
<1>1. CASE w.server[s].place # "open"
  BY <1>1 DEF Established
<1>2. CASE w.server[s].place = "open"
  <2>1. PICK k : k = [server |-> s, closed |-> FALSE, js |-> w.server[s].ctx,
                      wsi |-> TRUE, rx |-> <<>>, tx |-> <<>>, told |-> 0]
    OBVIOUS
  <2>2. PICK x : x = Established(w, s)
    OBVIOUS
  <2>3. x = [w EXCEPT !.conn = Append(@, k)]
    BY <1>2, <2>1, <2>2 DEF Established
  <2>4. IsWs(x) /\ x.server = w.server /\ x.conn = Append(w.conn, k)
    BY <2>3 DEF WsOk, IsWs
  <2>5. PICK n : LongerBy(Append(w.conn, k), w.conn, k, n)
    BY AppendOne DEF WsOk
  <2>a. n \in Nat /\ DOMAIN w.conn = 1..n
    BY <2>5 DEF LongerBy
  <2>6. PICK cc : cc = Append(w.conn, k)
    OBVIOUS
  <2>7. /\ cc = [i \in 1..(n + 1) |-> cc[i]] /\ \A i \in 1..n : cc[i] = w.conn[i]
        /\ cc[n + 1] = k /\ x.conn = cc
    BY <2>4, <2>5, <2>6 DEF LongerBy
  <2>8. DOMAIN cc = 1..(n + 1) /\ \A i \in DOMAIN cc : i \in 1..n \/ i = n + 1
    BY <2>7, <2>a
  <2>9. IsList(cc)
    BY <2>7, <2>a DEF IsList
  <2>10. IsConn(k) /\ k.server = s
    <3>1. w.server[s].ctx \in BOOLEAN
      BY DEF WsOk, ServersOwned, IsServer
    <3> QED
      BY <2>1, <3>1 DEF IsConn, ConnFields
  <2>11. ServersOwned(x, ids)
    BY <2>4 DEF WsOk, ServersOwned
  <2>12. ConnsServed(x)
    <3>1. \A c \in 1..n : /\ IsConn(w.conn[c]) /\ w.conn[c].server \in DOMAIN w.server
                          /\ w.conn[c].wsi => w.server[w.conn[c].server].place # "freed"
      BY <2>a DEF WsOk, ConnsServed
    <3> QED
      BY <1>2, <2>4, <2>7, <2>8, <2>10, <3>1 DEF ConnsServed
  <2> QED
    BY <2>2, <2>4, <2>7, <2>9, <2>11, <2>12 DEF WsOk
<1> QED
  BY <1>1, <1>2

LEMMA OtherFrames ==
    ASSUME NEW k, IsConn(k), NEW y
    PROVE  SameConn(k, [k EXCEPT !.tx = y]) /\ SameConn(k, [k EXCEPT !.rx = y])
  BY DEF SameConn, IsConn, ConnFields

\* w with another connection c, and other histories.
WithConn(w, c, j) == [w EXCEPT !.conn = [w.conn EXCEPT ![c] = j]]
WithGot(w, c, j, z) == [w EXCEPT !.conn = [w.conn EXCEPT ![c] = j], !.got = z]
WithSent(w, c, j, z) == [w EXCEPT !.conn = [w.conn EXCEPT ![c] = j], !.sent = z]
WithRx(k, y) == [k EXCEPT !.rx = y]
WithTx(k, y) == [k EXCEPT !.tx = y]
PeerGone(w, c) == [w EXCEPT !.conn[c] = LwsClosed(w, @)]

LEMMA ConnReplaced ==
    ASSUME NEW w, NEW ids, WsOk(w, ids), NEW c \in DOMAIN w.conn, NEW j, SameConn(w.conn[c], j), NEW z
    PROVE  /\ WsOk(WithConn(w, c, j), ids) /\ WsOk(WithGot(w, c, j, z), ids)
           /\ WsOk(WithSent(w, c, j, z), ids)
<1>1. WsOk(WithConn(w, c, j), ids)
  <2>1. PICK x : x = WithConn(w, c, j)
    OBVIOUS
  <2>2. IsWs(x) /\ x.server = w.server /\ x.conn = [w.conn EXCEPT ![c] = j]
    BY <2>1 DEF WsOk, IsWs, WithConn
  <2> QED
    BY <2>1, <2>2, OneConnMoves
<1>2. WsOk(WithGot(w, c, j, z), ids)
  <2>1. PICK x : x = WithGot(w, c, j, z)
    OBVIOUS
  <2>2. IsWs(x) /\ x.server = w.server /\ x.conn = [w.conn EXCEPT ![c] = j]
    BY <2>1 DEF WsOk, IsWs, WithGot
  <2> QED
    BY <2>1, <2>2, OneConnMoves
<1>3. WsOk(WithSent(w, c, j, z), ids)
  <2>1. PICK x : x = WithSent(w, c, j, z)
    OBVIOUS
  <2>2. IsWs(x) /\ x.server = w.server /\ x.conn = [w.conn EXCEPT ![c] = j]
    BY <2>1 DEF WsOk, IsWs, WithSent
  <2> QED
    BY <2>1, <2>2, OneConnMoves
<1> QED
  BY <1>1, <1>2, <1>3

LEMMA FramesMove ==
    ASSUME NEW w, NEW ids, WsOk(w, ids), NEW c \in DOMAIN w.conn, NEW y
    PROVE  /\ SameConn(w.conn[c], WithRx(w.conn[c], y))
           /\ SameConn(w.conn[c], WithTx(w.conn[c], y))
<1>1. IsConn(w.conn[c])
  BY DEF WsOk, ConnsServed
<1> QED
  BY <1>1, OtherFrames DEF WithRx, WithTx

LEMMA WsSends ==
    ASSUME NEW w, NEW ids, WsOk(w, ids), NEW c \in DOMAIN w.conn, NEW frame
    PROVE  WsOk(JsWsConnSend(w, c, frame), ids)
<1>1. PICK k, y : k = w.conn[c] /\ y = Append(k.tx, frame)
  OBVIOUS
<1>2. JsWsConnSend(w, c, frame) = w \/ JsWsConnSend(w, c, frame) = WithConn(w, c, WithTx(k, y))
  BY <1>1 DEF JsWsConnSend, WithConn, WithTx
<1>3. SameConn(k, WithTx(k, y))
  BY <1>1, FramesMove
<1>4. WsOk(WithConn(w, c, WithTx(k, y)), ids)
  BY <1>1, <1>3, ConnReplaced
<1> QED
  BY <1>2, <1>4

LEMMA WsReceives ==
    ASSUME NEW w, NEW ids, WsOk(w, ids), NEW c \in DOMAIN w.conn, NEW frame, NEW final \in BOOLEAN
    PROVE  WsOk(Receive(w, c, frame, final), ids)
<1>1. PICK k, y, z : k = w.conn[c] /\ y = Append(k.rx, frame) /\ z = Append(w.got, <<c, y>>)
  OBVIOUS
<1>2. \/ Receive(w, c, frame, final) = w
      \/ Receive(w, c, frame, final) = WithConn(w, c, WithRx(k, y))
      \/ Receive(w, c, frame, final) = WithGot(w, c, WithRx(k, <<>>), z)
  <2>1. CASE w.conn[c].closed
    BY <2>1 DEF Receive
  <2>2. CASE ~w.conn[c].closed /\ final /\ w.server[w.conn[c].server].ctx /\ w.conn[c].js
    BY <1>1, <2>2 DEF Receive, WithGot, WithRx
  <2>3. CASE ~w.conn[c].closed /\ ~(final /\ w.server[w.conn[c].server].ctx /\ w.conn[c].js)
    BY <1>1, <2>3 DEF Receive, WithConn, WithRx
  <2> QED
    BY <2>1, <2>2, <2>3
<1>3. SameConn(k, WithRx(k, y)) /\ SameConn(k, WithRx(k, <<>>))
  BY <1>1, FramesMove
<1>4. WsOk(WithConn(w, c, WithRx(k, y)), ids)
  BY <1>1, <1>3, ConnReplaced
<1>5. WsOk(WithGot(w, c, WithRx(k, <<>>), z), ids)
  BY <1>1, <1>3, ConnReplaced
<1> QED
  BY <1>2, <1>4, <1>5

LEMMA WsWrites ==
    ASSUME NEW w, NEW ids, WsOk(w, ids), NEW c \in DOMAIN w.conn, NEW short \in BOOLEAN
    PROVE  WsOk(ServerWriteable(w, c, short), ids)
<1>1. PICK k, y, z : /\ k = w.conn[c] /\ y = Tail(k.tx)
                     /\ z = IF short THEN w.sent ELSE Append(w.sent, <<c, Head(k.tx)>>)
  OBVIOUS
<1>2. \/ ServerWriteable(w, c, short) = w
      \/ ServerWriteable(w, c, short) = WithSent(w, c, WithTx(k, y), z)
  BY <1>1 DEF ServerWriteable, WithSent, WithTx
<1>3. SameConn(k, WithTx(k, y))
  BY <1>1, FramesMove
<1>4. WsOk(WithSent(w, c, WithTx(k, y), z), ids)
  BY <1>1, <1>3, ConnReplaced
<1> QED
  BY <1>2, <1>4

LEMMA WsPeerGone ==
    ASSUME NEW w, NEW ids, WsOk(w, ids), NEW c \in DOMAIN w.conn PROVE WsOk(PeerGone(w, c), ids)
<1>1. PICK j : j = LwsClosed(w, w.conn[c])
  OBVIOUS
<1>2. IsConn(w.conn[c])
  BY DEF WsOk, ConnsServed
<1>3. SameConn(w.conn[c], j)
  BY <1>1, <1>2, LwsClosedConn
<1>4. PeerGone(w, c) = WithConn(w, c, j)
  BY <1>1 DEF PeerGone, WithConn
<1>5. WsOk(WithConn(w, c, j), ids)
  BY <1>3, ConnReplaced
<1> QED
  BY <1>4, <1>5

LEMMA WsMovesOwned ==
    ASSUME NEW a, Engine(a), WsOk(a.w, LiveIds(a)), NEW b, WsMoves(a, b)
    PROVE  WsOk(b.w, LiveIds(b))
<1>1. LiveIds(b) = LiveIds(a)
  BY WsMovesIs DEF LiveIds
<1>2. PICK w, ids : w = a.w /\ ids = LiveIds(a)
  OBVIOUS
<1>3. WsOk(w, ids)
  BY <1>2
<1>4. ASSUME NEW s \in DOMAIN w.server PROVE WsOk(JsWsServerClose(w, s), ids)
  <2>1. \A t \in DOMAIN w.server \ {s} : w.server[t].place = "open" => w.server[t].owner \in ids
    BY <1>3 DEF WsOk, ServersOwned
  <2> QED
    BY <1>3, <2>1, WsCloses DEF JsWsServerClose
<1>5. CASE \E id \in LiveIds(a) : b.w = JsWsCreateServer(a.w, id)
  BY <1>1, <1>2, <1>3, <1>5, WsCreates
<1>6. CASE \E s \in DOMAIN a.w.server : b.w = JsWsServerClose(a.w, s) \/ b.w = Established(a.w, s)
  BY <1>1, <1>2, <1>3, <1>4, <1>6, WsEstablishes
<1>7. CASE \E c \in DOMAIN a.w.conn :
             \/ b.w = JsWsConnSend(a.w, c, "f")
             \/ \E final \in BOOLEAN : b.w = Receive(a.w, c, "g", final)
             \/ \E short \in BOOLEAN : b.w = ServerWriteable(a.w, c, short)
             \/ b.w = [a.w EXCEPT !.conn[c] = LwsClosed(a.w, @)]
  <2>1. PICK c \in DOMAIN w.conn :
             \/ b.w = JsWsConnSend(w, c, "f")
             \/ \E final \in BOOLEAN : b.w = Receive(w, c, "g", final)
             \/ \E short \in BOOLEAN : b.w = ServerWriteable(w, c, short)
             \/ b.w = PeerGone(w, c)
    BY <1>2, <1>7, Zenon DEF PeerGone
  <2> QED
    BY <1>1, <1>2, <1>3, <2>1, WsSends, WsReceives, WsWrites, WsPeerGone
<1> QED
  BY <1>5, <1>6, <1>7 DEF WsMoves

-----------------------------------------------------------------------------
(* Whoever owns something is alive.                                        *)

PopupsOwned(a) == \A x \in a.popups :
    x \in a.panes \X Names /\ \E id \in LiveIds(a) : x \in a.inst[id].popups
EmbedsOwned(a) == \A x \in a.embeds :
    x \in a.panes \X Names /\ \E id \in LiveIds(a) : x \in a.inst[id].embeds
Owned(a) == /\ Engine(a) /\ OwnersLive(a, a.actions) /\ OwnersLive(a, a.handlers)
            /\ PopupsOwned(a) /\ EmbedsOwned(a) /\ WsOk(a.w, LiveIds(a))
OwnInv == Owned(e)

LEMMA WsWider ==
    ASSUME NEW w, NEW ids, WsOk(w, ids), NEW more, ids \subseteq more PROVE WsOk(w, more)
  BY DEF WsOk, ServersOwned

\* Nothing is new, and the owners stay what they are.
LEMMA OwnersStay ==
    ASSUME NEW a, Owned(a), NEW b, Engine(b), LiveIds(a) \subseteq LiveIds(b), b.panes = a.panes,
           \A id \in LiveIds(a) : /\ a.inst[id].popups \subseteq b.inst[id].popups
                                  /\ a.inst[id].embeds \subseteq b.inst[id].embeds,
           b.popups \subseteq a.popups, b.embeds \subseteq a.embeds,
           OwnersLive(a, b.actions), OwnersLive(a, b.handlers), b.w = a.w
    PROVE  Owned(b)
<1>1. \A id : Live(a, id) => Live(b, id)
  BY DEF LiveIds, Live
<1>2. OwnersLive(b, b.actions) /\ OwnersLive(b, b.handlers)
  BY <1>1 DEF OwnersLive
<1>3. PopupsOwned(b) /\ EmbedsOwned(b)
  BY DEF Owned, PopupsOwned, EmbedsOwned
<1>4. WsOk(b.w, LiveIds(b))
  <2>1. PICK w, ids, more : w = a.w /\ ids = LiveIds(a) /\ more = LiveIds(b)
    OBVIOUS
  <2>2. WsOk(w, ids) /\ ids \subseteq more
    BY <2>1 DEF Owned
  <2> QED
    BY <2>1, <2>2, WsWider
<1> QED
  BY <1>2, <1>3, <1>4 DEF Owned

LEMMA UnloadOwned ==
    ASSUME NEW a, Owned(a), NEW id, Live(a, id), NEW iterating,
           NEW b, b = Unload(a, id, iterating)
    PROVE  Owned(b) /\ LiveIds(b) = LiveIds(a) \ {id}
<1>0. Engine(a)
  BY DEF Owned
<1>1. /\ Changes(a, b, UnloadFields) /\ Engine(b)
      /\ DOMAIN b.inst = DOMAIN a.inst
      /\ \A o \in DOMAIN a.inst :
            b.inst[o] = IF o = id THEN Gone(a.inst[o], iterating) ELSE a.inst[o]
      /\ b.popups = PopupsLeft(a, id) /\ b.embeds = a.embeds \ a.inst[id].embeds
      /\ b.actions = NamesLeft(a.actions, id) /\ b.handlers = NamesLeft(a.handlers, id)
      /\ b.w = WsUnloadInstance(a.w, id)
  BY <1>0, UnloadIs
<1>2. id \in DOMAIN a.inst /\ Gone(a.inst[id], iterating).ctx = FALSE
  BY <1>0, EngineParts, InstGone DEF Live
<1>3. LiveIds(b) = LiveIds(a) \ {id}
  BY <1>1, <1>2 DEF LiveIds
<1>4. \A o \in LiveIds(b) : b.inst[o] = a.inst[o]
  BY <1>1, <1>3 DEF LiveIds
<1>5. OwnersLive(b, b.actions) /\ OwnersLive(b, b.handlers)
  <2>1. ASSUME NEW f, OwnersLive(a, f) PROVE OwnersLive(b, NamesLeft(f, id))
    <3>1. ASSUME NEW n \in DOMAIN NamesLeft(f, id) PROVE Live(b, NamesLeft(f, id)[n])
      <4>1. n \in DOMAIN f /\ f[n] # id /\ NamesLeft(f, id)[n] = f[n]
        BY DEF NamesLeft
      <4>2. f[n] \in LiveIds(a)
        BY <2>1, <4>1 DEF OwnersLive, Live, LiveIds
      <4>3. f[n] \in LiveIds(b)
        BY <1>3, <4>1, <4>2
      <4> QED
        BY <4>1, <4>3 DEF LiveIds, Live
    <3> QED
      BY <3>1 DEF OwnersLive
  <2> QED
    BY <1>1, <2>1 DEF Owned
<1>6. b.panes = a.panes
  BY <1>1 DEF Changes, Fields, UnloadFields
<1>7. PopupsOwned(b)
  <2>1. ASSUME NEW x \in b.popups
        PROVE  x \in b.panes \X Names /\ \E o \in LiveIds(b) : x \in b.inst[o].popups
    <3>1. /\ x \in a.popups
          /\ ~(x \in a.inst[id].popups /\ HasPopup(a, x[1], x[2]))
      BY <1>1 DEF PopupsLeft
    <3>2. x \in a.panes \X Names
      BY <3>1 DEF Owned, PopupsOwned
    <3>3. HasPopup(a, x[1], x[2])
      BY <3>1, <3>2 DEF HasPopup
    <3>4. PICK o \in LiveIds(a) : x \in a.inst[o].popups
      BY <3>1 DEF Owned, PopupsOwned
    <3>5. o # id
      BY <3>1, <3>3, <3>4
    <3> QED
      BY <1>3, <1>4, <1>6, <3>2, <3>4, <3>5
  <2> QED
    BY <2>1 DEF PopupsOwned
<1>8. EmbedsOwned(b)
  <2>1. ASSUME NEW x \in b.embeds
        PROVE  x \in b.panes \X Names /\ \E o \in LiveIds(b) : x \in b.inst[o].embeds
    <3>1. x \in a.embeds /\ x \notin a.inst[id].embeds
      BY <1>1
    <3>2. x \in a.panes \X Names
      BY <3>1 DEF Owned, EmbedsOwned
    <3>4. PICK o \in LiveIds(a) : x \in a.inst[o].embeds
      BY <3>1 DEF Owned, EmbedsOwned
    <3>5. o # id
      BY <3>1, <3>4
    <3> QED
      BY <1>3, <1>4, <1>6, <3>2, <3>4, <3>5
  <2> QED
    BY <2>1 DEF EmbedsOwned
<1>9. WsOk(b.w, LiveIds(b))
  <2>1. WsOk(a.w, LiveIds(a))
    BY DEF Owned
  <2> QED
    BY <1>1, <1>3, <2>1, WsUnloads
<1> QED
  BY <1>1, <1>3, <1>5, <1>7, <1>8, <1>9 DEF Owned

LEMMA OrdinaryOwns ==
    ASSUME NEW a, Owned(a), NEW b, Ordinary(a, b) PROVE Owned(b)
<1>0. /\ Engine(a) /\ OwnersLive(a, a.actions) /\ OwnersLive(a, a.handlers)
      /\ PopupsOwned(a) /\ EmbedsOwned(a) /\ WsOk(a.w, LiveIds(a))
  BY DEF Owned
<1>1. CASE Quietly(a, b)
  <2>1. Engine(b) /\ b.inst = a.inst /\ LiveIds(b) = LiveIds(a)
    BY <1>0, <1>1, QuietEngine
  <2>2. b.panes = a.panes /\ b.w = a.w
    BY <1>1 DEF Quietly, Quiet, Changes, Fields
  <2>3. /\ b.popups \subseteq a.popups /\ b.embeds \subseteq a.embeds
        /\ OwnersLive(a, b.actions) /\ OwnersLive(a, b.handlers)
    BY <1>0, <1>1 DEF Quietly
  <2> QED
    BY <2>1, <2>2, <2>3, OwnersStay
<1>2. CASE Relabels(a, b)
  <2>1. /\ b.panes = a.panes /\ b.w = a.w /\ b.popups = a.popups /\ b.embeds = a.embeds
        /\ b.actions = a.actions /\ b.handlers = a.handlers
    BY <1>2 DEF Relabels, Changes, Fields
  <2>2. /\ Engine(b) /\ DOMAIN b.inst = DOMAIN a.inst
        /\ \A id \in DOMAIN a.inst : SameSurfaces(a.inst[id], b.inst[id]) /\ b.inst[id].ctx = a.inst[id].ctx
    BY <1>2 DEF Relabels
  <2>3. LiveIds(b) = LiveIds(a)
    BY <2>2 DEF LiveIds
  <2>4. \A id \in LiveIds(a) : /\ a.inst[id].popups \subseteq b.inst[id].popups
                               /\ a.inst[id].embeds \subseteq b.inst[id].embeds
    BY <2>2 DEF LiveIds, SameSurfaces
  <2> QED
    BY <1>0, <2>1, <2>2, <2>3, <2>4, OwnersStay
<1>3. CASE Listens(a, b)
  <2>1. PICK id \in LiveIds(a), p \in Panes, v \in Counted, reached \in BOOLEAN :
           b = PushListener(RegisterInGlobal(AddCounted(a, id, p, v), id, PaneObj(p)),
                            id, PaneObj(p), v, reached)
    BY <1>3 DEF Listens
  <2>2. /\ Changes(a, b, {"count", "flag", "inst", "lst"}) /\ Engine(b)
        /\ DOMAIN b.inst = DOMAIN a.inst
        /\ \A o \in DOMAIN a.inst :
              b.inst[o] = IF o = id THEN OneMore(a.inst[o], v, p) ELSE a.inst[o]
    BY <1>0, <2>1, ListensIs
  <2>3. /\ b.panes = a.panes /\ b.w = a.w /\ b.popups = a.popups /\ b.embeds = a.embeds
        /\ b.actions = a.actions /\ b.handlers = a.handlers
    BY <2>2 DEF Changes, Fields
  <2>4. ASSUME NEW o \in DOMAIN a.inst
        PROVE  SameSurfaces(a.inst[o], b.inst[o]) /\ b.inst[o].ctx = a.inst[o].ctx
    <3>1. IsInst(a.inst[o])
      BY <1>0, EngineParts
    <3>2. SameSurfaces(a.inst[o], OneMore(a.inst[o], v, p)) /\ OneMore(a.inst[o], v, p).ctx = a.inst[o].ctx
      BY <3>1 DEF IsInst, InstFields, OneMore, SameSurfaces
    <3> QED
      BY <2>2, <3>2 DEF SameSurfaces
  <2>5. LiveIds(b) = LiveIds(a)
    BY <2>2, <2>4 DEF LiveIds
  <2>6. \A o \in LiveIds(a) : /\ a.inst[o].popups \subseteq b.inst[o].popups
                              /\ a.inst[o].embeds \subseteq b.inst[o].embeds
    BY <2>4 DEF LiveIds, SameSurfaces
  <2> QED
    BY <1>0, <2>2, <2>3, <2>5, <2>6, OwnersStay
<1>4. CASE MakesSurface(a, b)
  <2>1. b.panes = a.panes /\ b.w = a.w /\ b.actions = a.actions /\ b.handlers = a.handlers
    BY <1>4 DEF MakesSurface, Quiet, Changes, Fields
  <2>2. /\ Engine(b) /\ DOMAIN b.inst = DOMAIN a.inst
        /\ \A id \in DOMAIN a.inst : /\ b.inst[id].ctx = a.inst[id].ctx
                                     /\ a.inst[id].popups \subseteq b.inst[id].popups
                                     /\ a.inst[id].embeds \subseteq b.inst[id].embeds
        /\ \A x \in b.popups \ a.popups :
              x \in a.panes \X Names /\ \E id \in LiveIds(a) : x \in b.inst[id].popups
        /\ \A x \in b.embeds \ a.embeds :
              x \in a.panes \X Names /\ \E id \in LiveIds(a) : x \in b.inst[id].embeds
    BY <1>4 DEF MakesSurface
  <2>3. LiveIds(b) = LiveIds(a) /\ \A id \in LiveIds(a) : id \in DOMAIN a.inst
    BY <2>2 DEF LiveIds
  <2>4. PopupsOwned(b)
    BY <1>0, <2>1, <2>2, <2>3 DEF PopupsOwned
  <2>5. EmbedsOwned(b)
    BY <1>0, <2>1, <2>2, <2>3 DEF EmbedsOwned
  <2>6. \A id : Live(a, id) => Live(b, id)
    BY <2>2 DEF Live
  <2>7. OwnersLive(b, b.actions) /\ OwnersLive(b, b.handlers)
    BY <1>0, <2>1, <2>6 DEF OwnersLive
  <2> QED
    BY <1>0, <2>1, <2>2, <2>3, <2>4, <2>5, <2>7 DEF Owned
<1>5. CASE Unloaded(a, b)
  <2>1. PICK id \in LiveIds(a), iterating \in BOOLEAN :
           /\ Engine(b) /\ \A f \in Fields \ {"exits"} : b[f] = Unload(a, id, iterating)[f]
    BY <1>0, <1>5, UnloadedIs
  <2>2. PICK u : u = Unload(a, id, iterating)
    OBVIOUS
  <2>3. Owned(u)
    <3>1. Live(a, id)
      BY DEF LiveIds, Live
    <3> QED
      BY <2>2, <3>1, UnloadOwned
  <2>4. /\ b.panes = u.panes /\ b.w = u.w /\ b.popups = u.popups /\ b.embeds = u.embeds
        /\ b.actions = u.actions /\ b.handlers = u.handlers /\ b.inst = u.inst
    BY <2>1, <2>2 DEF Fields
  <2>5. LiveIds(b) = LiveIds(u)
    BY <2>4 DEF LiveIds
  <2> QED
    BY <2>1, <2>3, <2>4, <2>5 DEF Owned, OwnersLive, Live, PopupsOwned, EmbedsOwned
<1>6. CASE PaneGoes(a, b)
  <2>1. PICK p \in a.panes : b = WithoutPane(a, p)
    BY <1>6 DEF PaneGoes
  <2>2. /\ Changes(a, b, {"jobs", "count", "flag", "lst", "panes", "popups", "embeds"})
        /\ Engine(b) /\ b.panes = a.panes \ {p}
        /\ b.popups = ElsewhereThan(a.popups, p) /\ b.embeds = ElsewhereThan(a.embeds, p)
    BY <1>0, <2>1, PaneGoesIs
  <2>3. b.inst = a.inst /\ b.w = a.w /\ b.actions = a.actions /\ b.handlers = a.handlers
    BY <2>2 DEF Changes, Fields
  <2>4. LiveIds(b) = LiveIds(a) /\ \A id : Live(b, id) <=> Live(a, id)
    BY <2>3 DEF LiveIds, Live
  <2>5. OwnersLive(b, b.actions) /\ OwnersLive(b, b.handlers)
    BY <1>0, <2>3, <2>4 DEF OwnersLive
  <2>6. PopupsOwned(b)
    BY <1>0, <2>2, <2>3, <2>4 DEF PopupsOwned, ElsewhereThan
  <2>7. EmbedsOwned(b)
    BY <1>0, <2>2, <2>3, <2>4 DEF EmbedsOwned, ElsewhereThan
  <2> QED
    BY <1>0, <2>2, <2>3, <2>4, <2>5, <2>6, <2>7 DEF Owned
<1>7. CASE WsMoves(a, b)
  <2>1. Changes(a, b, {"w"}) /\ Engine(b) /\ b.inst = a.inst
    BY <1>0, <1>7, WsMovesIs
  <2>2. /\ b.panes = a.panes /\ b.popups = a.popups /\ b.embeds = a.embeds
        /\ b.actions = a.actions /\ b.handlers = a.handlers
    BY <2>1 DEF Changes, Fields
  <2>3. WsOk(b.w, LiveIds(b))
    BY <1>0, <1>7, WsMovesOwned
  <2> QED
    BY <1>0, <2>1, <2>2, <2>3 DEF Owned, OwnersLive, Live, PopupsOwned, EmbedsOwned, LiveIds
<1> QED
  BY <1>1, <1>2, <1>3, <1>4, <1>5, <1>6, <1>7 DEF Ordinary

\* What no owner is about.
OwnerFields == {"inst", "lst", "count", "flag", "panes", "popups", "embeds", "actions", "handlers", "w"}

LEMMA OwnedElsewhere ==
    ASSUME NEW a, Owned(a), NEW F, F \cap OwnerFields = {}, NEW b, Changes(a, b, F) PROVE Owned(b)
<1>0. Engine(a)
  BY DEF Owned
<1>1. \A f \in OwnerFields : f \in Fields \ F
  BY DEF OwnerFields, Fields
<1>2. /\ b.inst = a.inst /\ b.lst = a.lst /\ b.panes = a.panes /\ b.popups = a.popups
      /\ b.embeds = a.embeds /\ b.actions = a.actions /\ b.handlers = a.handlers /\ b.w = a.w
  BY <1>1 DEF Changes, OwnerFields
<1>3. ListenerTypes(b.lst)
  BY <1>0, <1>2, EngineParts
<1>4. F \cap {"inst", "count", "flag"} = {}
  BY DEF OwnerFields
<1>5. Engine(b)
  BY <1>0, <1>3, <1>4, SameEngine
<1> QED
  BY <1>2, <1>5 DEF Owned, OwnersLive, Live, LiveIds, PopupsOwned, EmbedsOwned

LEMMA LoadedOwned ==
    ASSUME NEW a, Owned(a), OnePerPath(a), NEW path, NEW hash, NEW perms, NEW iterating,
           NEW b, b = LoadScriptInternal(a, path, hash, perms, iterating)
    PROVE  Owned(b)
<1>0. Engine(a)
  BY DEF Owned
<1>1. Engine(b)
  BY <1>0, LoadedIs
<1>2. CASE b = a
  BY <1>2
<1>3. CASE b # a
  <2> DEFINE old == SamePath(a, path)
             n == NextId(a)
             new == NewInstance(path, hash, perms, FALSE)
             failed == [new EXCEPT !.ctx = FALSE, !.held = FALSE]
  <2>1. PICK u : u = IF old = {} THEN a ELSE Unload(a, Min(old), iterating)
    OBVIOUS
  <2>2. PICK j : j = IF hash = "broken" THEN failed ELSE new
    OBVIOUS
  <2>3. b = [u EXCEPT !.inst = Put(@, n, j)]
    BY <1>3, <2>1, <2>2 DEF LoadScriptInternal
  <2>4. Owned(u) /\ DOMAIN u.inst = DOMAIN a.inst
    <3>1. PICK x : x = Min(old)
      OBVIOUS
    <3>2. CASE Live(a, x) /\ u = Unload(a, x, iterating)
      BY <1>0, <3>2, UnloadOwned, UnloadIs
    <3>3. CASE ~Live(a, x) /\ u = Unload(a, x, iterating)
      BY <3>3 DEF Unload
    <3> QED
      BY <2>1, <3>1, <3>2, <3>3
  <2>5. n \notin DOMAIN a.inst
    BY <1>0, Numbered
  <2> HIDE DEF new, failed, old, n
  <2>6. Changes(u, b, {"inst"}) /\ b.inst = Put(u.inst, n, j)
    <3>1. IsEngine(u)
      BY <2>4, EngineParts DEF Owned
    <3> QED
      BY <2>3, <3>1 DEF Changes, IsEngine, Fields
  <2>7. \A id \in DOMAIN u.inst : id \in DOMAIN b.inst /\ b.inst[id] = u.inst[id]
    BY <2>4, <2>5, <2>6 DEF Put
  <2>8. LiveIds(u) \subseteq LiveIds(b) /\ \A id \in LiveIds(u) : b.inst[id] = u.inst[id]
    BY <2>7 DEF LiveIds
  <2>9. /\ b.panes = u.panes /\ b.popups = u.popups /\ b.embeds = u.embeds
        /\ b.actions = u.actions /\ b.handlers = u.handlers /\ b.w = u.w
    BY <2>6 DEF Changes, Fields
  <2>10. OwnersLive(u, b.actions) /\ OwnersLive(u, b.handlers)
    BY <2>4, <2>9 DEF Owned
  <2> QED
    BY <1>1, <2>4, <2>8, <2>9, <2>10, OwnersStay
<1> QED
  BY <1>2, <1>3

\* Loading and approving: what is asked and answered is noted, and a script
\* may come.
LEMMA LoadingIs ==
    ASSUME Engine(e), NEW id, JsMbLoadScript(id) \/ JsMbApproveScript(id)
    PROVE  \E c : /\ Changes(e, c, {"pending", "list", "jobs"})
                  /\ \/ e' = c
                     \/ \E path, hash, perms :
                           e' = LoadScriptInternal(c, path, hash, perms, Iterating)
<1>1. PICK a, b, F : a = e /\ b = e' /\ F = {"pending", "list", "jobs"}
  OBVIOUS
<1>2. IsEngine(a) /\ Changes(a, a, F)
  BY <1>1, EngineParts, NoChange
<1>3. CASE JsMbLoadScript(id)
  <2>1. PICK path \in Paths, perms \in Requests : b = LoadScript(a, path, perms, Iterating)
    BY <1>1, <1>3 DEF JsMbLoadScript, Called
  <2>2. PICK u : u = [a EXCEPT !.pending[path] = [hash |-> a.disk[path], perms |-> perms]]
    OBVIOUS
  <2>3. CASE b = NotifyPermissionRequired(u)
    <3>1. Changes(a, u, {"pending"})
      BY <1>2, <2>2 DEF Changes, IsEngine, Fields
    <3>2. Changes(u, b, {"jobs"})
      BY <2>3, <3>1, PermissionRequiredChanges DEF Changes
    <3>3. Changes(a, b, F)
      BY <1>1, <3>1, <3>2 DEF Changes
    <3> QED
      BY <1>1, <3>3
  <2>4. CASE b = a \/ b = LoadScriptInternal(a, path, a.disk[path], perms, Iterating)
    BY <1>1, <1>2, <2>4
  <2> QED
    BY <2>1, <2>2, <2>3, <2>4 DEF LoadScript
<1>4. CASE JsMbApproveScript(id)
  <2>1. PICK path \in Paths, response \in {"y", "a", "d", "n"} :
           b = ApproveScript(a, path, response, Iterating)
    BY <1>1, <1>4 DEF JsMbApproveScript
  <2>2. PICK u, ask : u = [a EXCEPT !.pending[path] = Nil] /\ ask = a.pending[path]
    OBVIOUS
  <2>3. Changes(a, u, F) /\ IsEngine(u)
    BY <1>1, <1>2, <2>2 DEF Changes, IsEngine, Fields
  <2>4. ASSUME NEW l, NEW c, c = [u EXCEPT !.list = l] PROVE Changes(a, c, F)
    <3>1. Changes(u, c, {"list"})
      BY <2>3, <2>4 DEF Changes, IsEngine, Fields
    <3> QED
      BY <1>1, <2>3, <3>1 DEF Changes
  <2>5. PICK l : l = Allow(u.list, path, ask.hash, ask.perms, u.modules[path])
    OBVIOUS
  <2>6. PICK c : c = [u EXCEPT !.list = l]
    OBVIOUS
  <2>7. CASE b = a \/ b = u
    BY <1>1, <1>2, <2>3, <2>7
  <2>8. CASE b = LoadScriptInternal(u, path, ask.hash, ask.perms, Iterating)
    BY <1>1, <2>3, <2>8
  <2>9. CASE b = LoadScriptInternal(c, path, ask.hash, ask.perms, Iterating)
    BY <1>1, <2>4, <2>6, <2>9
  <2>10. CASE b = [u EXCEPT !.list = Deny(u.list, path, ask.hash)]
    <3>1. PICK m : m = Deny(u.list, path, ask.hash)
      OBVIOUS
    <3>2. Changes(a, b, F)
      BY <2>4, <2>10, <3>1
    <3> QED
      BY <1>1, <3>2
  <2> QED
    BY <2>1, <2>2, <2>5, <2>6, <2>7, <2>8, <2>9, <2>10 DEF ApproveScript
<1> QED
  BY <1>3, <1>4

LEMMA LoadingOwns ==
    ASSUME AskInv, OwnInv, NEW id, JsMbLoadScript(id) \/ JsMbApproveScript(id) PROVE OwnInv'
<1>1. PICK a, b : a = e /\ b = e'
  OBVIOUS
<1>2. Owned(a) /\ OnePerPath(a) /\ Engine(a)
  BY <1>1 DEF OwnInv, AskInv
<1>3. PICK c : /\ Changes(a, c, {"pending", "list", "jobs"})
               /\ \/ b = c
                  \/ \E path, hash, perms : b = LoadScriptInternal(c, path, hash, perms, Iterating)
  BY <1>1, <1>2, LoadingIs
<1>4. Owned(c) /\ OnePerPath(c)
  <2>1. {"pending", "list", "jobs"} \cap OwnerFields = {}
    BY DEF OwnerFields
  <2>2. Owned(c)
    BY <1>2, <1>3, <2>1, OwnedElsewhere
  <2>3. c.inst = a.inst
    BY <1>3 DEF Changes, Fields
  <2> QED
    BY <1>2, <2>2, <2>3 DEF OnePerPath, LiveIds
<1>5. Owned(b)
  BY <1>3, <1>4, LoadedOwned
<1> QED
  BY <1>1, <1>5 DEF OwnInv

LEMMA FirstOwned == ASSUME NEW s, NEW a, a = FirstEngine(s) PROVE Owned(a)
<1>1. Engine(a)
  BY FirstEngineIs
<1>2. /\ a.actions = <<>> /\ a.handlers = <<>> /\ a.popups = {} /\ a.embeds = {} /\ a.w = NoWs
  BY DEF FirstEngine
<1>3. \A n \in DOMAIN << >> : FALSE
  OBVIOUS
<1>4. OwnersLive(a, a.actions) /\ OwnersLive(a, a.handlers)
  BY <1>2, <1>3 DEF OwnersLive
<1>5. PopupsOwned(a) /\ EmbedsOwned(a)
  BY <1>2 DEF PopupsOwned, EmbedsOwned
<1>6. IsList(<< >>)
  BY DEF IsList
<1>7. /\ IsWs(NoWs) /\ NoWs.server = << >> /\ NoWs.conn = << >>
  BY DEF IsWs, NoWs
<1>8. WsOk(NoWs, LiveIds(a))
  BY <1>3, <1>6, <1>7 DEF WsOk, ServersOwned, ConnsServed
<1> QED
  BY <1>1, <1>2, <1>4, <1>5, <1>8 DEF Owned

LEMMA RestartOwns == ASSUME Restart PROVE OwnInv'
<1>1. PICK m, d, ms : m = Load(Save(e.list), Paths) /\ d = e.disk /\ ms = e.modules
  OBVIOUS
<1>2. PICK a, b : a = FirstEngine(scope) /\ b = e'
  OBVIOUS
<1>3. b = [a EXCEPT !.list = m, !.disk = d, !.modules = ms]
  BY <1>1, <1>2 DEF Restart, Event, Happens
<1>4. Owned(a)
  BY <1>2, FirstOwned
<1>5. IsEngine(a)
  BY <1>4, EngineParts DEF Owned
<1>6. Changes(a, b, {"list", "disk", "modules"})
  BY <1>3, <1>5 DEF Changes, IsEngine, Fields
<1>7. Owned(b)
  BY <1>4, <1>6, OwnedElsewhere DEF OwnerFields
<1> QED
  BY <1>2, <1>7 DEF OwnInv

LEMMA UnloadsOwned ==
    ASSUME NEW n \in Nat, NEW b, Owned(b), NEW h, UnloadsIn(h, n, b) PROVE Owned(h[n])
<1>1. PICK T : T = {k \in 0..n : Owned(h[k])}
  OBVIOUS
<1>2. T \in SUBSET (0..n) /\ 0 \in T
  <2>1. h[0] = b
    BY DEF UnloadsIn
  <2> QED
    BY <1>1, <2>1
<1>3. ASSUME NEW k \in 1..n, k - 1 \in T PROVE k \in T
  <2>1. Owned(h[k - 1])
    BY <1>1, <1>3, Zenon
  <2>2. h[k] = Unload(h[k - 1], k, FALSE)
    BY DEF UnloadsIn
  <2>3. k \in 0..n
    OBVIOUS
  <2>4. PICK c, d : c = h[k - 1] /\ d = h[k]
    OBVIOUS
  <2>5. Owned(c) /\ Engine(c) /\ d = Unload(c, k, FALSE)
    BY <2>1, <2>2, <2>4 DEF Owned
  <2>6. Owned(d)
    BY <2>5, UnloadOrNot, OrdinaryOwns
  <2> QED
    BY <1>1, <2>3, <2>4, <2>6
<1>4. T = 0..n
  BY <1>2, <1>3, StepByStep
<1> QED
  BY <1>1, <1>4

LEMMA EndOwns == ASSUME OwnInv, EngineEnds PROVE OwnInv'
<1>1. PICK a, d : a = e /\ d = e'
  OBVIOUS
<1>2. Owned(a) /\ Engine(a) /\ d = Destroy(a)
  BY <1>1 DEF EngineEnds, OwnInv, Owned
<1>3. PICK n, b, h, c :
              /\ n \in Nat /\ DOMAIN a.inst = 1..n
              /\ Changes(a, b, {"w"}) /\ Engine(b) /\ b.w = WsDestroyEngine(a.w)
              /\ UnloadsIn(h, n, b) /\ c = h[n] /\ Engine(c)
              /\ Changes(c, d, {"timers", "handlers", "jobs"}) /\ Engine(d)
              /\ d.timers = <<>> /\ d.handlers = <<>> /\ d.jobs = <<>>
  BY <1>2, DestroyIs
<1>4. Owned(b)
  <2>1. /\ b.inst = a.inst /\ b.panes = a.panes /\ b.popups = a.popups
        /\ b.embeds = a.embeds /\ b.actions = a.actions /\ b.handlers = a.handlers
    BY <1>3 DEF Changes, Fields
  <2>2. PICK w, x, ids : w = a.w /\ x = b.w /\ ids = LiveIds(a)
    OBVIOUS
  <2>3. WsOk(w, ids) /\ x = WsDestroyEngine(w)
    BY <1>2, <1>3, <2>2 DEF Owned
  <2>4. WsOk(x, {})
    BY <2>3, WsEnds
  <2>5. {} \subseteq LiveIds(b)
    OBVIOUS
  <2>6. WsOk(b.w, LiveIds(b))
    BY <2>2, <2>4, <2>5, WsWider
  <2> QED
    BY <1>2, <1>3, <2>1, <2>6 DEF Owned, OwnersLive, Live, LiveIds, PopupsOwned, EmbedsOwned
<1>5. Owned(c)
  BY <1>3, <1>4, UnloadsOwned
<1>6. /\ d.inst = c.inst /\ d.panes = c.panes /\ d.popups = c.popups
      /\ d.embeds = c.embeds /\ d.actions = c.actions /\ d.w = c.w
  BY <1>3 DEF Changes, Fields
<1>7. OwnersLive(d, d.handlers)
  <2>1. \A k \in DOMAIN << >> : FALSE
    OBVIOUS
  <2> QED
    BY <1>3, <2>1 DEF OwnersLive
<1>8. Owned(d)
  BY <1>3, <1>5, <1>6, <1>7 DEF Owned, OwnersLive, Live, LiveIds, PopupsOwned, EmbedsOwned
<1> QED
  BY <1>1, <1>8 DEF OwnInv

LEMMA StepOwns == ASSUME AskInv, OwnInv, [Next]_vars PROVE OwnInv'
<1>1. CASE Ordinary(e, e')
  <2>1. PICK a, b : a = e /\ b = e'
    OBVIOUS
  <2>2. Owned(a) /\ Ordinary(a, b)
    BY <1>1, <2>1 DEF OwnInv
  <2>3. Owned(b)
    BY <2>2, OrdinaryOwns
  <2> QED
    BY <2>1, <2>3 DEF OwnInv
<1>2. CASE \E id : JsMbLoadScript(id) \/ JsMbApproveScript(id)
  BY <1>2, LoadingOwns
<1>3. CASE Restart \/ EngineEnds
  BY <1>3, RestartOwns, EndOwns
<1>4. Engine(e)
  BY DEF AskInv
<1> QED
  BY <1>1, <1>2, <1>3, <1>4, StepKinds

\* Actions, handlers, popups, embedded terminals and open servers belong to
\* scripts that are loaded; libwebsockets finds the server of each connection
\* it has, and a script hears once that a connection closed (ScriptEngine's
\* unload, cleanupPane and ~Engine, and the wsUnloadInstance of ScriptWs).
THEOREM OwnersOutlive == Spec => []NothingOutlivesItsOwner
<1>1. Init => AskInv /\ OwnInv
  <2>1. ASSUME Init PROVE OwnInv
    <3>1. e = FirstEngine(scope)
      BY <2>1 DEF Init
    <3> QED
      BY <3>1, FirstOwned DEF OwnInv
  <2> QED
    BY <2>1, StartAsks
<1>2. AskInv /\ OwnInv /\ [Next]_vars => (AskInv /\ OwnInv)'
  BY StepAsks, StepOwns
<1>3. OwnInv => NothingOutlivesItsOwner
  <2>1. ASSUME OwnInv PROVE OwnedByTheLiving
    BY <2>1 DEF OwnInv, Owned, OwnersLive, PopupsOwned, EmbedsOwned, WsOk, ServersOwned,
                OwnedByTheLiving, Live, LiveIds
  <2>2. ASSUME OwnInv PROVE LwsFindsServer
    <3>1. ConnsServed(e.w)
      BY <2>2 DEF OwnInv, Owned, WsOk
    <3>2. \A c \in DOMAIN e.w.conn : e.w.conn[c].told \in {0, 1}
      BY <3>1 DEF ConnsServed, IsConn
    <3> QED
      BY <3>1, <3>2 DEF LwsFindsServer, ConnsServed, Memory
  <2> QED
    BY <2>1, <2>2 DEF NothingOutlivesItsOwner
<1> QED
  BY <1>1, <1>2, <1>3, PTL DEF Spec

-----------------------------------------------------------------------------
(* What the living scripts registered, added up.                           *)

Total(inst, S, v, p) == FoldFunctionOnSet(LAMBDA i, n : n + i.uses[v][p], 0, inst, S)

\* f gives what each of S registered, and g adds it up.
Adds(g, f, n, inst, S, v, p) ==
    /\ n \in Nat /\ S \in SUBSET (1..n) /\ f \in [1..n -> Nat] /\ SumBy(g, n, f)
    /\ \A x \in S : f[x] = inst[x].uses[v][p]

LEMMA TotalIsSum ==
    ASSUME NEW n, NEW S, NEW inst, NEW v, NEW p, NEW f, NEW g, Adds(g, f, n, inst, S, v, p)
    PROVE  Total(inst, S, v, p) = g[S]
<1>0. /\ n \in Nat /\ S \in SUBSET (1..n) /\ f \in [1..n -> Nat] /\ SumBy(g, n, f)
      /\ \A x \in S : f[x] = inst[x].uses[v][p]
  BY DEF Adds
<1> DEFINE E(it) == it = [s \in SUBSET S |->
                            IF s = {} THEN 0
                            ELSE it[s \ {CHOOSE x \in s : TRUE}] + inst[CHOOSE x \in s : TRUE].uses[v][p]]
<1>1. ASSUME NEW s \in SUBSET S, s # {}
      PROVE  /\ (CHOOSE x \in s : TRUE) \in s
             /\ g[s] = g[s \ {CHOOSE x \in s : TRUE}] + inst[CHOOSE x \in s : TRUE].uses[v][p]
  <2>1. PICK x : x = (CHOOSE y \in s : TRUE)
    OBVIOUS
  <2>2. x \in s
    BY <1>1, <2>1
  <2>3. s \in SUBSET (1..n) /\ s \ {x} \in SUBSET (1..n)
    BY <1>0
  <2>4. g[s] = f[x] + g[s \ {x}] /\ g[s] \in Nat /\ g[s \ {x}] \in Nat
    BY <1>0, <2>2, <2>3 DEF SumBy
  <2>5. f[x] = inst[x].uses[v][p]
    BY <1>0, <2>2
  <2>6. g[s] = g[s \ {x}] + inst[x].uses[v][p]
    <3>1. PICK i, j : i = f[x] /\ j = g[s \ {x}]
      OBVIOUS
    <3>2. x \in 1..n
      BY <1>0, <2>2
    <3>3. i \in Int /\ j \in Int
      BY <1>0, <2>4, <3>1, <3>2
    <3>4. g[s] = i + j /\ inst[x].uses[v][p] = i
      BY <2>4, <2>5, <3>1
    <3> QED
      BY <3>1, <3>3, <3>4
  <2> QED
    BY <2>1, <2>2, <2>6, Zenon
<1>2. \E it : E(it)
  <2>1. PICK it : it = [s \in SUBSET S |-> g[s]]
    OBVIOUS
  <2>2. \A s \in SUBSET S : it[s] = g[s]
    BY <2>1
  <2>3. ASSUME NEW s \in SUBSET S
        PROVE  it[s] = IF s = {} THEN 0
                       ELSE it[s \ {CHOOSE x \in s : TRUE}] + inst[CHOOSE x \in s : TRUE].uses[v][p]
    <3>1. CASE s = {}
      BY <1>0, <2>2, <3>1 DEF SumBy
    <3>2. CASE s # {}
      BY <1>1, <2>2, <3>2
    <3> QED
      BY <3>1, <3>2
  <2>4. E(it)
    BY <2>1, <2>3
  <2> QED
    BY <2>4
<1>3. PICK jt : jt = (CHOOSE it : E(it))
  OBVIOUS
<1>4. E(jt)
  BY <1>2, <1>3
<1>5. jt[S] = Total(inst, S, v, p)
  BY <1>3 DEF Total, FoldFunctionOnSet, MapThenFoldSet
<1>6. \A s \in SUBSET S : jt[s] = IF s = {} THEN 0
                       ELSE jt[s \ {CHOOSE x \in s : TRUE}] + inst[CHOOSE x \in s : TRUE].uses[v][p]
  BY <1>4
<1> HIDE DEF E
<1>7. ASSUME NEW s \in SUBSET S
      PROVE  IsFiniteSet(s) /\ Cardinality(s) \in Nat /\ Cardinality(s) <= n
  <2>1. IsFiniteSet(1..n) /\ Cardinality(1..n) = n
    BY <1>0, FS_Interval
  <2>2. s \in SUBSET (1..n)
    BY <1>0
  <2>3. IsFiniteSet(s) /\ Cardinality(s) <= n
    BY <2>1, <2>2, FS_Subset
  <2> QED
    BY <2>3, FS_CardinalityType
<1>8. PICK T : T = {k \in 0..n : \A s \in SUBSET S : Cardinality(s) <= k => jt[s] = g[s]}
  OBVIOUS
<1>9. T \in SUBSET (0..n) /\ 0 \in T
  <2>1. ASSUME NEW s \in SUBSET S, Cardinality(s) <= 0 PROVE jt[s] = g[s]
    <3>1. Cardinality(s) = 0 /\ IsFiniteSet(s)
      BY <1>7, <2>1
    <3>2. s = {}
      BY <3>1, FS_EmptySet
    <3> QED
      BY <1>0, <1>6, <3>2 DEF SumBy
  <2> QED
    BY <1>0, <1>8, <2>1
<1>10. ASSUME NEW k \in 1..n, k - 1 \in T PROVE k \in T
  <2>1. \A s \in SUBSET S : Cardinality(s) <= k - 1 => jt[s] = g[s]
    BY <1>8, <1>10, Zenon
  <2>2. ASSUME NEW s \in SUBSET S, Cardinality(s) <= k PROVE jt[s] = g[s]
    <3>1. CASE s = {}
      BY <1>0, <1>6, <3>1 DEF SumBy
    <3>2. CASE s # {}
      <4>1. PICK x : x = (CHOOSE y \in s : TRUE)
        OBVIOUS
      <4>2. x \in s
        BY <3>2, <4>1
      <4>3. Cardinality(s \ {x}) = Cardinality(s) - 1
        BY <1>7, <4>2, FS_RemoveElement
      <4>4. Cardinality(s) \in Nat
        BY <1>7
      <4>5. Cardinality(s \ {x}) <= k - 1
        BY <2>2, <4>3, <4>4
      <4>6. jt[s \ {x}] = g[s \ {x}]
        BY <2>1, <4>5
      <4>7. jt[s] = jt[s \ {x}] + inst[x].uses[v][p]
        BY <1>6, <3>2, <4>1
      <4>8. g[s] = g[s \ {x}] + inst[x].uses[v][p]
        BY <1>1, <3>2, <4>1
      <4> QED
        BY <4>6, <4>7, <4>8
    <3> QED
      BY <3>1, <3>2
  <2>3. k \in 0..n
    BY <1>0
  <2> QED
    BY <1>8, <2>2, <2>3
<1>11. n \in T
  BY <1>0, <1>9, <1>10, StepByStep
<1>12. jt[S] = g[S]
  <2>1. S \in SUBSET S
    OBVIOUS
  <2>2. Cardinality(S) <= n
    BY <1>7, <2>1
  <2>3. \A s \in SUBSET S : Cardinality(s) <= n => jt[s] = g[s]
    BY <1>8, <1>11, Zenon
  <2> QED
    BY <2>1, <2>2, <2>3
<1> QED
  BY <1>5, <1>12

Registers(n, inst, S, v, p) ==
    n \in Nat /\ S \in SUBSET (1..n) /\ \A x \in S : inst[x].uses[v][p] \in Nat
AsMany(j, inst, S, v, p) == \A x \in S : j[x].uses[v][p] = inst[x].uses[v][p]

LEMMA TotalOf ==
    ASSUME NEW n, NEW S, NEW inst, NEW v, NEW p, Registers(n, inst, S, v, p)
    PROVE  /\ Total(inst, S, v, p) \in Nat
           /\ \A x \in S : Total(inst, S, v, p) = inst[x].uses[v][p] + Total(inst, S \ {x}, v, p)
           /\ \A j : AsMany(j, inst, S, v, p) => Total(j, S, v, p) = Total(inst, S, v, p)
<1>0. n \in Nat /\ S \in SUBSET (1..n) /\ \A x \in S : inst[x].uses[v][p] \in Nat
  BY DEF Registers
<1>1. PICK f : f = [x \in 1..n |-> IF x \in S THEN inst[x].uses[v][p] ELSE 0]
  OBVIOUS
<1>2. f \in [1..n -> Nat] /\ \A x \in S : f[x] = inst[x].uses[v][p]
  BY <1>0, <1>1
<1>3. PICK g : SumBy(g, n, f)
  BY <1>0, <1>2, SumExists
<1>4. Total(inst, S, v, p) = g[S]
  <2>1. Adds(g, f, n, inst, S, v, p)
    BY <1>0, <1>2, <1>3 DEF Adds
  <2> QED
    BY <2>1, TotalIsSum
<1>5. ASSUME NEW x \in S
      PROVE  Total(inst, S, v, p) = inst[x].uses[v][p] + Total(inst, S \ {x}, v, p)
  <2>1. PICK u : u = S \ {x}
    OBVIOUS
  <2>2. Adds(g, f, n, inst, u, v, p)
    BY <1>0, <1>2, <1>3, <2>1 DEF Adds
  <2>3. Total(inst, u, v, p) = g[u]
    BY <2>2, TotalIsSum
  <2>4. g[S] = f[x] + g[S \ {x}]
    BY <1>0, <1>3 DEF SumBy
  <2> QED
    BY <1>2, <1>4, <2>1, <2>3, <2>4
<1>6. ASSUME NEW j, AsMany(j, inst, S, v, p)
      PROVE  Total(j, S, v, p) = Total(inst, S, v, p)
  <2>1. Adds(g, f, n, j, S, v, p)
    BY <1>0, <1>2, <1>3, <1>6 DEF Adds, AsMany
  <2>2. Total(j, S, v, p) = g[S]
    BY <2>1, TotalIsSum
  <2> QED
    BY <1>4, <2>2
<1>7. g[S] \in Nat
  BY <1>0, <1>3 DEF SumBy
<1> QED
  BY <1>4, <1>5, <1>6, <1>7

NoneRegisters(n, inst, S, v, p) ==
    n \in Nat /\ S \in SUBSET (1..n) /\ \A x \in S : inst[x].uses[v][p] = 0

LEMMA TotalNone ==
    ASSUME NEW n, NEW S, NEW inst, NEW v, NEW p, NoneRegisters(n, inst, S, v, p)
    PROVE  Total(inst, S, v, p) = 0
<1>0. n \in Nat /\ S \in SUBSET (1..n) /\ \A x \in S : inst[x].uses[v][p] = 0
  BY DEF NoneRegisters
<1>1. PICK f, g : f = [x \in 1..n |-> 0] /\ g = [s \in SUBSET (1..n) |-> 0]
  OBVIOUS
<1>2. /\ \A x \in S : f[x] = inst[x].uses[v][p]
      /\ \A x \in 1..n : f[x] = 0
      /\ \A s \in SUBSET (1..n) : g[s] = 0
      /\ g \in [SUBSET (1..n) -> Nat] /\ f \in [1..n -> Nat]
  BY <1>0, <1>1
<1>3. SumBy(g, n, f)
  <2>1. {} \in SUBSET (1..n)
    OBVIOUS
  <2>2. ASSUME NEW s \in SUBSET (1..n), NEW x \in s PROVE g[s] = f[x] + g[s \ {x}]
    <3>1. x \in 1..n /\ s \ {x} \in SUBSET (1..n)
      OBVIOUS
    <3> QED
      BY <1>2, <3>1
  <2> QED
    BY <1>2, <2>1, <2>2 DEF SumBy
<1>4. Adds(g, f, n, inst, S, v, p)
  BY <1>0, <1>2, <1>3 DEF Adds
<1>5. Total(inst, S, v, p) = g[S]
  BY <1>4, TotalIsSum
<1> QED
  BY <1>0, <1>2, <1>5

-----------------------------------------------------------------------------
(* Counts and flags say what the living scripts registered.                *)

CountAt(a, v, p) ==
    /\ a.count[v][p] = Total(a.inst, LiveIds(a), v, p)
    /\ v \in Filters => (a.flag[v][p] = TRUE <=> a.count[v][p] > 0)
    /\ \A id \in Nat : Listeners(a, id, PaneObj(p), v) > 0 =>
                          id \in LiveIds(a) /\ a.inst[id].uses[v][p] > 0
Counting(a) == /\ Engine(a) /\ a.panes \subseteq Panes
               /\ \A v \in Counted, p \in a.panes : CountAt(a, v, p)
CountInv == Counting(e)

\* For v and p nothing that matters is another in b than in a.
SameCount(a, b, v, p) ==
    /\ LiveIds(b) = LiveIds(a) /\ b.count[v][p] = a.count[v][p]
    /\ v \in Filters => b.flag[v][p] = a.flag[v][p]
    /\ \A id \in LiveIds(a) : b.inst[id].uses[v][p] = a.inst[id].uses[v][p]
    /\ \A id \in Nat : Listeners(b, id, PaneObj(p), v) > 0 => Listeners(a, id, PaneObj(p), v) > 0

LEMMA LiveNumbers ==
    ASSUME NEW a, Engine(a)
    PROVE  \E n \in Nat : /\ LiveIds(a) \in SUBSET (1..n)
                          /\ \A x \in LiveIds(a), v \in Counted, p \in Panes : a.inst[x].uses[v][p] \in Nat
<1>1. PICK n \in Nat : DOMAIN a.inst = 1..n
  BY DEF Engine
<1>2. LiveIds(a) \in SUBSET (1..n)
  BY <1>1 DEF LiveIds
<1>3. ASSUME NEW x \in LiveIds(a), NEW v \in Counted, NEW p \in Panes
      PROVE  a.inst[x].uses[v][p] \in Nat
  <2>1. IsInst(a.inst[x])
    BY EngineParts DEF LiveIds
  <2>2. PICK i : i = a.inst[x]
    OBVIOUS
  <2>3. i.uses \in [Counted -> [Panes -> Nat]]
    BY <2>1, <2>2 DEF IsInst
  <2>4. i.uses[v][p] \in Nat
    BY <2>3
  <2> QED
    BY <2>2, <2>4
<1> QED
  BY <1>2, <1>3

\* TotalOf for the living.
LEMMA LiveTotal ==
    ASSUME NEW a, Engine(a), NEW v \in Counted, NEW p \in Panes
    PROVE  /\ Total(a.inst, LiveIds(a), v, p) \in Nat
           /\ \A x \in LiveIds(a) :
                 /\ a.inst[x].uses[v][p] \in Nat /\ Total(a.inst, LiveIds(a) \ {x}, v, p) \in Nat
                 /\ Total(a.inst, LiveIds(a), v, p)
                       = a.inst[x].uses[v][p] + Total(a.inst, LiveIds(a) \ {x}, v, p)
<1>1. PICK n \in Nat : /\ LiveIds(a) \in SUBSET (1..n)
                       /\ \A x \in LiveIds(a), w \in Counted, q \in Panes : a.inst[x].uses[w][q] \in Nat
  BY LiveNumbers
<1>2. PICK S, inst : S = LiveIds(a) /\ inst = a.inst
  OBVIOUS
<1>3. S \in SUBSET (1..n) /\ (\A x \in S : inst[x].uses[v][p] \in Nat) /\ Registers(n, inst, S, v, p)
  BY <1>1, <1>2 DEF Registers
<1>4. /\ Total(inst, S, v, p) \in Nat
      /\ \A x \in S : Total(inst, S, v, p) = inst[x].uses[v][p] + Total(inst, S \ {x}, v, p)
  BY <1>3, TotalOf
<1>5. ASSUME NEW x \in S PROVE Total(inst, S \ {x}, v, p) \in Nat
  <2>1. PICK u : u = S \ {x}
    OBVIOUS
  <2>2. Registers(n, inst, u, v, p)
    BY <1>3, <2>1 DEF Registers
  <2>3. Total(inst, u, v, p) \in Nat
    BY <2>2, TotalOf
  <2> QED
    BY <2>1, <2>3
<1> QED
  BY <1>2, <1>3, <1>4, <1>5

\* What some of the living registered is the same if each registered the same.
LEMMA LiveSame ==
    ASSUME NEW a, Engine(a), NEW v \in Counted, NEW p \in Panes, NEW S \in SUBSET LiveIds(a),
           NEW j, \A x \in S : j[x].uses[v][p] = a.inst[x].uses[v][p]
    PROVE  Total(j, S, v, p) = Total(a.inst, S, v, p)
<1>1. PICK n \in Nat : /\ LiveIds(a) \in SUBSET (1..n)
                       /\ \A x \in LiveIds(a), w \in Counted, q \in Panes : a.inst[x].uses[w][q] \in Nat
  BY LiveNumbers
<1>2. PICK inst : inst = a.inst
  OBVIOUS
<1>3. Registers(n, inst, S, v, p) /\ AsMany(j, inst, S, v, p)
  BY <1>1, <1>2 DEF Registers, AsMany
<1>4. \A i : AsMany(i, inst, S, v, p) => Total(i, S, v, p) = Total(inst, S, v, p)
  BY <1>3, TotalOf
<1> QED
  BY <1>2, <1>3, <1>4

LEMMA CountKept ==
    ASSUME NEW a, Engine(a), NEW v \in Counted, NEW p \in Panes, CountAt(a, v, p),
           NEW b, SameCount(a, b, v, p)
    PROVE  CountAt(b, v, p)
<1>1. PICK S : S = LiveIds(a)
  OBVIOUS
<1>2. S \in SUBSET LiveIds(a) /\ \A x \in S : b.inst[x].uses[v][p] = a.inst[x].uses[v][p]
  BY <1>1 DEF SameCount
<1>3. PICK j : j = b.inst
  OBVIOUS
<1>4. Total(j, S, v, p) = Total(a.inst, S, v, p)
  BY <1>2, <1>3, LiveSame
<1>5. Total(b.inst, LiveIds(b), v, p) = Total(a.inst, LiveIds(a), v, p)
  BY <1>1, <1>3, <1>4 DEF SameCount
<1> QED
  BY <1>5 DEF CountAt, SameCount

LEMMA CountsKept ==
    ASSUME NEW a, Counting(a), NEW b, Engine(b), b.panes \subseteq a.panes,
           \A v \in Counted, p \in b.panes : SameCount(a, b, v, p)
    PROVE  Counting(b)
<1>1. ASSUME NEW v \in Counted, NEW p \in b.panes PROVE CountAt(b, v, p)
  <2>1. Engine(a) /\ p \in Panes /\ CountAt(a, v, p)
    BY DEF Counting
  <2>2. SameCount(a, b, v, p)
    OBVIOUS
  <2> QED
    BY <2>1, <2>2, CountKept
<1> QED
  BY <1>1 DEF Counting

\* The usual case.
LEMMA CountsAlike ==
    ASSUME NEW a, Counting(a), NEW b, Engine(b), b.panes = a.panes, b.count = a.count,
           b.flag = a.flag, Fewer(a, b), LiveIds(b) = LiveIds(a),
           \A id \in LiveIds(a) : SameUses(a.inst[id], b.inst[id])
    PROVE  Counting(b)
<1>1. ASSUME NEW v \in Counted, NEW p \in b.panes PROVE SameCount(a, b, v, p)
  <2>1. p \in Panes
    BY DEF Counting
  <2>2. \A id \in Nat : Listeners(b, id, PaneObj(p), v) > 0 => Listeners(a, id, PaneObj(p), v) > 0
    BY <2>1 DEF Fewer
  <2> QED
    BY <2>2 DEF SameCount, SameUses
<1> QED
  BY <1>1, CountsKept

LEMMA CountsElsewhere ==
    ASSUME NEW a, Counting(a), NEW F, F \cap {"inst", "lst", "count", "flag", "panes"} = {},
           NEW b, Changes(a, b, F)
    PROVE  Counting(b)
<1>0. Engine(a)
  BY DEF Counting
<1>1. /\ b.inst = a.inst /\ b.lst = a.lst /\ b.count = a.count /\ b.flag = a.flag
      /\ b.panes = a.panes
  BY DEF Changes, Fields
<1>2. ListenerTypes(b.lst) /\ Fewer(a, b)
  BY <1>0, <1>1, EngineParts, SameLstFewer
<1>3. Engine(b)
  BY <1>0, <1>2, SameEngine
<1>4. LiveIds(b) = LiveIds(a) /\ \A id \in LiveIds(a) : SameUses(a.inst[id], b.inst[id])
  BY <1>1 DEF LiveIds, SameUses
<1> QED
  BY <1>1, <1>2, <1>3, <1>4, CountsAlike

LEMMA OneMoreUses ==
    ASSUME NEW i, IsInst(i), NEW v \in Counted, NEW p \in Panes, NEW w \in Counted, NEW q \in Panes
    PROVE  OneMore(i, v, p).uses[w][q] = IF w = v /\ q = p THEN i.uses[w][q] + 1 ELSE i.uses[w][q]
<1>1. PICK u : u = i.uses
  OBVIOUS
<1>2. u \in [Counted -> [Panes -> Nat]]
  BY <1>1 DEF IsInst
<1>3. OneMore(i, v, p).uses = [u EXCEPT ![v][p] = @ + 1]
  BY <1>1 DEF OneMore, IsInst, InstFields
<1> QED
  BY <1>1, <1>2, <1>3, PlusOne

LEMMA CountUpIs ==
    ASSUME NEW c \in [Counted -> [Panes -> Nat]], NEW v \in Counted, NEW p \in Panes,
           NEW w \in Counted, NEW q \in Panes
    PROVE  CountUp(c, v, p)[w][q] = IF w = v /\ q = p THEN c[w][q] + 1 ELSE c[w][q]
  BY PlusOne DEF CountUp

LEMMA ListensCounts == ASSUME NEW a, Counting(a), NEW b, Listens(a, b) PROVE Counting(b)
<1>0. Engine(a) /\ a.panes \subseteq Panes
  BY DEF Counting
<1>1. PICK id \in LiveIds(a), p \in Panes, v \in Counted, reached \in BOOLEAN :
         b = PushListener(RegisterInGlobal(AddCounted(a, id, p, v), id, PaneObj(p)),
                          id, PaneObj(p), v, reached)
  BY DEF Listens
<1>2. /\ Changes(a, b, {"count", "flag", "inst", "lst"}) /\ Engine(b)
      /\ DOMAIN b.inst = DOMAIN a.inst
      /\ b.count = CountUp(a.count, v, p)
      /\ \A w \in Filters :
            b.flag[w] = IF w = v THEN Raised(a.flag[w], p) ELSE a.flag[w]
      /\ \A o \in DOMAIN a.inst :
            b.inst[o] = IF o = id THEN OneMore(a.inst[o], v, p) ELSE a.inst[o]
  BY <1>0, <1>1, ListensIs
<1>3. \A i, o, w : Listeners(b, i, o, w) # Listeners(a, i, o, w) => i = id /\ o = PaneObj(p) /\ w = v
  BY <1>0, <1>1, ListensIs
<1>4. b.panes = a.panes
  BY <1>2 DEF Changes, Fields
<1>5. ASSUME NEW o \in LiveIds(a), NEW w \in Counted, NEW q \in Panes
      PROVE  b.inst[o].uses[w][q] = IF o = id /\ w = v /\ q = p THEN a.inst[o].uses[w][q] + 1
                                    ELSE a.inst[o].uses[w][q]
  <2>1. o \in DOMAIN a.inst /\ IsInst(a.inst[o])
    BY <1>0, EngineParts DEF LiveIds
  <2>2. OneMore(a.inst[o], v, p).uses[w][q]
          = IF w = v /\ q = p THEN a.inst[o].uses[w][q] + 1 ELSE a.inst[o].uses[w][q]
    BY <2>1, OneMoreUses
  <2> QED
    BY <1>2, <2>1, <2>2
<1>6. LiveIds(b) = LiveIds(a)
  <2>1. ASSUME NEW o \in DOMAIN a.inst PROVE b.inst[o].ctx = a.inst[o].ctx
    <3>1. IsInst(a.inst[o])
      BY <1>0, EngineParts
    <3>2. OneMore(a.inst[o], v, p).ctx = a.inst[o].ctx
      BY <3>1 DEF OneMore, IsInst, InstFields
    <3> QED
      BY <1>2, <3>2
  <2> QED
    BY <1>2, <2>1 DEF LiveIds
<1>7. \A w \in Counted, q \in Panes :
         b.count[w][q] = IF w = v /\ q = p THEN a.count[w][q] + 1 ELSE a.count[w][q]
  <2>1. a.count \in [Counted -> [Panes -> Nat]]
    BY <1>0, EngineParts
  <2> QED
    BY <1>2, <2>1, CountUpIs
<1>8. ASSUME NEW w \in Counted, NEW q \in a.panes PROVE CountAt(b, w, q)
  <2>0. q \in Panes /\ CountAt(a, w, q)
    BY <1>0 DEF Counting
  <2>1. CASE w = v /\ q = p
    <3>1. PICK S, rest : S = LiveIds(a) /\ rest = S \ {id}
      OBVIOUS
    <3>2. Total(b.inst, rest, v, p) = Total(a.inst, rest, v, p)
      <4>1. rest \in SUBSET LiveIds(a)
        BY <3>1
      <4>2. PICK j : j = b.inst
        OBVIOUS
      <4>3. \A x \in rest : j[x].uses[v][p] = a.inst[x].uses[v][p]
        BY <1>5, <3>1, <4>2
      <4> QED
        BY <1>0, <4>1, <4>2, <4>3, LiveSame
    <3>3. /\ a.inst[id].uses[v][p] \in Nat /\ Total(a.inst, rest, v, p) \in Nat
          /\ Total(a.inst, S, v, p) = a.inst[id].uses[v][p] + Total(a.inst, rest, v, p)
      BY <1>0, <3>1, LiveTotal
    <3>4. Total(b.inst, S, v, p) = b.inst[id].uses[v][p] + Total(b.inst, rest, v, p)
      <4>1. Engine(b) /\ LiveIds(b) = S /\ id \in LiveIds(b)
        BY <1>2, <1>6, <3>1
      <4>2. \A x \in LiveIds(b) :
               Total(b.inst, LiveIds(b), v, p)
                 = b.inst[x].uses[v][p] + Total(b.inst, LiveIds(b) \ {x}, v, p)
        BY <4>1, LiveTotal
      <4> QED
        BY <3>1, <4>1, <4>2
    <3>5. b.inst[id].uses[v][p] = a.inst[id].uses[v][p] + 1
      BY <1>5
    <3>6. Total(b.inst, LiveIds(b), v, p) = Total(a.inst, S, v, p) + 1 /\ Total(a.inst, S, v, p) \in Nat
      BY <1>6, <3>1, <3>2, <3>3, <3>4, <3>5
    <3>7. b.count[v][p] = Total(b.inst, LiveIds(b), v, p) /\ b.count[v][p] > 0
      BY <1>7, <2>0, <2>1, <3>1, <3>6 DEF CountAt
    <3>8. v \in Filters => b.flag[v][p] = TRUE
      <4>1. ASSUME v \in Filters PROVE b.flag[v][p] = TRUE
        <5>1. a.flag \in [Filters -> [Panes -> BOOLEAN]]
          BY <1>0, EngineParts
        <5>2. b.flag[v] = Raised(a.flag[v], p)
          BY <1>2, <4>1
        <5> QED
          BY <4>1, <5>1, <5>2 DEF Raised
      <4> QED
        BY <4>1
    <3>9. ASSUME NEW o \in Nat, Listeners(b, o, PaneObj(p), v) > 0
          PROVE  o \in LiveIds(b) /\ b.inst[o].uses[v][p] > 0
      <4>1. CASE o = id
        BY <1>6, <3>3, <3>5, <4>1
      <4>2. CASE o # id
        <5>1. Listeners(a, o, PaneObj(p), v) > 0
          BY <1>3, <3>9, <4>2
        <5>2. o \in LiveIds(a) /\ a.inst[o].uses[v][p] > 0
          BY <2>0, <2>1, <5>1 DEF CountAt
        <5> QED
          BY <1>5, <1>6, <4>2, <5>2
      <4> QED
        BY <4>1, <4>2
    <3> QED
      BY <2>1, <3>7, <3>8, <3>9 DEF CountAt
  <2>2. CASE ~(w = v /\ q = p)
    <3>1. w \in Filters => b.flag[w][q] = a.flag[w][q]
      <4>1. ASSUME w \in Filters PROVE b.flag[w][q] = a.flag[w][q]
        <5>1. a.flag \in [Filters -> [Panes -> BOOLEAN]]
          BY <1>0, EngineParts
        <5>2. b.flag[w] = IF w = v THEN Raised(a.flag[w], p) ELSE a.flag[w]
          BY <1>2, <4>1
        <5> QED
          BY <2>0, <2>2, <4>1, <5>1, <5>2 DEF Raised
      <4> QED
        BY <4>1
    <3>2. \A o \in Nat : Listeners(b, o, PaneObj(q), w) > 0 => Listeners(a, o, PaneObj(q), w) > 0
      BY <1>3, <2>2 DEF PaneObj
    <3>3. SameCount(a, b, w, q)
      BY <1>5, <1>6, <1>7, <2>0, <2>2, <3>1, <3>2 DEF SameCount
    <3> QED
      BY <1>0, <2>0, <3>3, CountKept
  <2> QED
    BY <2>1, <2>2
<1> QED
  BY <1>0, <1>2, <1>4, <1>8 DEF Counting

LEMMA UnloadCounts ==
    ASSUME NEW a, Counting(a), NEW id, Live(a, id), NEW iterating, NEW u, u = Unload(a, id, iterating)
    PROVE  Counting(u)
<1>0. Engine(a) /\ a.panes \subseteq Panes /\ id \in LiveIds(a)
  BY DEF Counting, Live, LiveIds
<1>1. /\ Changes(a, u, UnloadFields) /\ Engine(u)
      /\ DOMAIN u.inst = DOMAIN a.inst
      /\ \A o \in DOMAIN a.inst :
            u.inst[o] = IF o = id THEN Gone(a.inst[o], iterating) ELSE a.inst[o]
      /\ u.lst = ListenersLeft(a, id)
      /\ \A v \in Counted, p \in Panes : u.count[v][p] = CountLeft(a, id, v, p)
      /\ \A v \in Filters : u.flag[v] = FlagsLeft(a, id, v)
  BY <1>0, UnloadIs
<1>2. u.panes = a.panes
  BY <1>1 DEF Changes, Fields, UnloadFields
<1>3. PICK S, rest : S = LiveIds(a) /\ rest = S \ {id}
  OBVIOUS
<1>4. LiveIds(u) = rest
  <2>1. Gone(a.inst[id], iterating).ctx = FALSE
    BY <1>0, EngineParts, InstGone DEF LiveIds
  <2>2. \A o \in DOMAIN a.inst : u.inst[o].ctx = IF o = id THEN FALSE ELSE a.inst[o].ctx
    BY <1>1, <2>1
  <2> QED
    BY <1>1, <1>3, <2>2 DEF LiveIds
<1>5. \A o \in rest : u.inst[o] = a.inst[o]
  BY <1>1, <1>3 DEF LiveIds
<1>6. ASSUME NEW o, NEW x, NEW v, Listeners(u, o, x, v) > 0
      PROVE  o # id /\ Listeners(a, o, x, v) > 0
  <2>1. PICK l : l = u.lst
    OBVIOUS
  <2>2. l = [k \in {j \in DOMAIN a.lst : j[1] # id} |-> a.lst[k]]
    BY <1>1, <2>1 DEF ListenersLeft
  <2>3. <<o, x>> \in DOMAIN l
    BY <1>6, <2>1 DEF Listeners, Registered
  <2>4. <<o, x>>[1] # id /\ <<o, x>> \in DOMAIN a.lst /\ l[<<o, x>>] = a.lst[<<o, x>>]
    BY <2>2, <2>3
  <2> QED
    BY <1>6, <2>1, <2>3, <2>4 DEF Listeners, Registered
<1>7. ASSUME NEW v \in Counted, NEW p \in a.panes PROVE CountAt(u, v, p)
  <2>0. p \in Panes /\ CountAt(a, v, p)
    BY <1>0 DEF Counting
  <2>1. PICK i, j, k : /\ i = a.inst[id].uses[v][p] /\ j = Total(a.inst, rest, v, p)
                       /\ k = a.count[v][p]
    OBVIOUS
  <2>2. i \in Nat /\ j \in Nat /\ k = i + j
    <3>1. \A x \in LiveIds(a) :
             /\ a.inst[x].uses[v][p] \in Nat /\ Total(a.inst, LiveIds(a) \ {x}, v, p) \in Nat
             /\ Total(a.inst, LiveIds(a), v, p)
                   = a.inst[x].uses[v][p] + Total(a.inst, LiveIds(a) \ {x}, v, p)
      BY <1>0, <2>0, LiveTotal
    <3>2. k = Total(a.inst, LiveIds(a), v, p)
      BY <2>0, <2>1 DEF CountAt
    <3> QED
      BY <1>0, <1>3, <2>1, <3>1, <3>2
  <2>3. Left(a, id, v, p) = j
    BY <2>1, <2>2 DEF Left
  <2>4. u.count[v][p] = j
    BY <1>1, <2>0, <2>2, <2>3 DEF CountLeft
  <2>5. Total(u.inst, LiveIds(u), v, p) = j
    <3>1. PICK m : m = u.inst
      OBVIOUS
    <3>2. rest \in SUBSET LiveIds(a) /\ \A x \in rest : m[x].uses[v][p] = a.inst[x].uses[v][p]
      BY <1>3, <1>5, <3>1
    <3>3. Total(m, rest, v, p) = Total(a.inst, rest, v, p)
      BY <1>0, <2>0, <3>2, LiveSame
    <3> QED
      BY <1>4, <2>1, <3>1, <3>3
  <2>6. v \in Filters => (u.flag[v][p] = TRUE <=> u.count[v][p] > 0)
    <3>1. ASSUME v \in Filters PROVE u.flag[v][p] = TRUE <=> j > 0
      <4>1. u.flag[v][p] = IF i > 0 /\ j <= 0 THEN FALSE ELSE a.flag[v][p]
        <5>1. u.flag[v] = FlagsLeft(a, id, v)
          BY <1>1, <3>1
        <5>2. FlagsLeft(a, id, v)[p] = IF a.inst[id].uses[v][p] > 0 /\ Left(a, id, v, p) <= 0
                                       THEN FALSE ELSE a.flag[v][p]
          BY <2>0, Zenon DEF FlagsLeft
        <5> QED
          BY <2>1, <2>3, <5>1, <5>2
      <4>2. a.flag[v][p] = TRUE <=> i + j > 0
        BY <2>0, <2>1, <2>2, <3>1 DEF CountAt
      <4> QED
        BY <2>2, <4>1, <4>2
    <3> QED
      BY <2>4, <3>1
  <2>7. ASSUME NEW o \in Nat, Listeners(u, o, PaneObj(p), v) > 0
        PROVE  o \in LiveIds(u) /\ u.inst[o].uses[v][p] > 0
    <3>1. o # id /\ Listeners(a, o, PaneObj(p), v) > 0
      BY <1>6, <2>7
    <3>2. o \in LiveIds(a) /\ a.inst[o].uses[v][p] > 0
      BY <2>0, <3>1 DEF CountAt
    <3> QED
      BY <1>3, <1>4, <1>5, <3>1, <3>2
  <2> QED
    BY <2>4, <2>5, <2>6, <2>7 DEF CountAt
<1> QED
  BY <1>0, <1>1, <1>2, <1>7 DEF Counting

LEMMA PaneGoesCounts == ASSUME NEW a, Counting(a), NEW b, PaneGoes(a, b) PROVE Counting(b)
<1>0. Engine(a) /\ a.panes \subseteq Panes
  BY DEF Counting
<1>1. PICK p \in a.panes : b = WithoutPane(a, p)
  BY DEF PaneGoes
<1>2. /\ Changes(a, b, {"jobs", "count", "flag", "lst", "panes", "popups", "embeds"})
      /\ Engine(b) /\ b.panes = a.panes \ {p}
      /\ \A v \in Counted, q \in Panes : q # p => b.count[v][q] = a.count[v][q]
      /\ \A v \in Filters : b.flag[v] = [a.flag[v] EXCEPT ![p] = FALSE]
      /\ Fewer(a, b)
  BY <1>0, <1>1, PaneGoesIs
<1>3. b.inst = a.inst
  BY <1>2 DEF Changes, Fields
<1>4. ASSUME NEW v \in Counted, NEW q \in b.panes PROVE SameCount(a, b, v, q)
  <2>1. q \in Panes /\ q # p
    BY <1>0, <1>2
  <2>2. v \in Filters => b.flag[v][q] = a.flag[v][q]
    <3>1. ASSUME v \in Filters PROVE b.flag[v][q] = a.flag[v][q]
      <4>1. a.flag \in [Filters -> [Panes -> BOOLEAN]]
        BY <1>0, EngineParts
      <4>2. b.flag[v] = [a.flag[v] EXCEPT ![p] = FALSE]
        BY <1>2, <3>1
      <4> QED
        BY <2>1, <3>1, <4>1, <4>2
    <3> QED
      BY <3>1
  <2>3. \A o \in Nat : Listeners(b, o, PaneObj(q), v) > 0 => Listeners(a, o, PaneObj(q), v) > 0
    BY <1>2, <2>1 DEF Fewer
  <2> QED
    BY <1>2, <1>3, <2>1, <2>2, <2>3 DEF SameCount, LiveIds
<1>5. b.panes \subseteq a.panes
  BY <1>2
<1> QED
  BY <1>2, <1>4, <1>5, CountsKept

LEMMA OrdinaryCounts ==
    ASSUME NEW a, Counting(a), NEW b, Ordinary(a, b) PROVE Counting(b)
<1>0. Engine(a) /\ Engine(b)
  BY OrdinaryKeeps DEF Counting
<1>1. CASE Quietly(a, b)
  <2>1. b.inst = a.inst /\ LiveIds(b) = LiveIds(a) /\ Fewer(a, b)
    BY <1>0, <1>1, QuietEngine DEF Quietly
  <2>2. b.count = a.count /\ b.flag = a.flag /\ b.panes = a.panes
    BY <1>1 DEF Quietly, Changes, Fields, Quiet
  <2>3. \A id \in LiveIds(a) : SameUses(a.inst[id], b.inst[id])
    BY <2>1 DEF SameUses
  <2> QED
    BY <1>0, <2>1, <2>2, <2>3, CountsAlike
<1>2. CASE Relabels(a, b) \/ MakesSurface(a, b)
  <2>1. b.lst = a.lst /\ b.count = a.count /\ b.flag = a.flag /\ b.panes = a.panes
    BY <1>2 DEF Relabels, MakesSurface, Changes, Fields, Quiet
  <2>2. DOMAIN b.inst = DOMAIN a.inst
        /\ \A id \in DOMAIN a.inst : SameUses(a.inst[id], b.inst[id]) /\ b.inst[id].ctx = a.inst[id].ctx
    BY <1>2 DEF Relabels, MakesSurface
  <2>3. LiveIds(b) = LiveIds(a) /\ \A id \in LiveIds(a) : SameUses(a.inst[id], b.inst[id])
    BY <2>2 DEF LiveIds
  <2>4. Fewer(a, b)
    BY <2>1, SameLstFewer
  <2> QED
    BY <1>0, <2>1, <2>3, <2>4, CountsAlike
<1>3. CASE Listens(a, b)
  BY <1>3, ListensCounts
<1>4. CASE Unloaded(a, b)
  <2>1. PICK id \in DOMAIN a.inst, iterating \in BOOLEAN :
           Live(a, id) /\ Changes(Unload(a, id, iterating), b, {"exits"})
    BY <1>4 DEF Unloaded
  <2>2. PICK u : u = Unload(a, id, iterating)
    OBVIOUS
  <2>3. Counting(u)
    BY <2>1, <2>2, UnloadCounts
  <2> QED
    BY <2>1, <2>2, <2>3, CountsElsewhere
<1>5. CASE PaneGoes(a, b)
  BY <1>5, PaneGoesCounts
<1>6. CASE WsMoves(a, b)
  <2>1. Changes(a, b, {"w"})
    BY <1>6 DEF WsMoves
  <2> QED
    BY <2>1, CountsElsewhere
<1> QED
  BY <1>1, <1>2, <1>3, <1>4, <1>5, <1>6 DEF Ordinary

\* A new script has registered nothing yet.
LEMMA LoadedCounts ==
    ASSUME NEW a, Counting(a), OnePerPath(a), NEW path, NEW hash, NEW perms, NEW iterating,
           NEW b, b = LoadScriptInternal(a, path, hash, perms, iterating)
    PROVE  Counting(b)
<1>0. Engine(a)
  BY DEF Counting
<1>1. Engine(b)
  BY <1>0, LoadedIs
<1>2. CASE b = a
  BY <1>2
<1>3. CASE b # a
  <2> DEFINE old == SamePath(a, path)
             n == NextId(a)
             new == NewInstance(path, hash, perms, FALSE)
             failed == [new EXCEPT !.ctx = FALSE, !.held = FALSE]
  <2>1. PICK u : u = IF old = {} THEN a ELSE Unload(a, Min(old), iterating)
    OBVIOUS
  <2>2. PICK j : j = IF hash = "broken" THEN failed ELSE new
    OBVIOUS
  <2>3. b = [u EXCEPT !.inst = Put(@, n, j)]
    BY <1>3, <2>1, <2>2 DEF LoadScriptInternal
  <2>4. Counting(u) /\ DOMAIN u.inst = DOMAIN a.inst
    <3>1. PICK x : x = Min(old)
      OBVIOUS
    <3>2. CASE Live(a, x) /\ u = Unload(a, x, iterating)
      BY <1>0, <3>2, UnloadCounts, UnloadIs
    <3>3. CASE ~Live(a, x) /\ u = Unload(a, x, iterating)
      BY <3>3 DEF Unload
    <3> QED
      BY <2>1, <3>1, <3>2, <3>3
  <2>5. n \notin DOMAIN u.inst
    BY <1>0, <2>4, Numbered
  <2>6. j.uses = NoUses
    BY <2>2 DEF NewInstance
  <2> HIDE DEF new, failed, old, n
  <2>7. Changes(u, b, {"inst"}) /\ b.inst = Put(u.inst, n, j)
    <3>1. IsEngine(u)
      BY <2>4, EngineParts DEF Counting
    <3> QED
      BY <2>3, <3>1 DEF Changes, IsEngine, Fields
  <2>8. /\ \A id \in DOMAIN u.inst : id \in DOMAIN b.inst /\ b.inst[id] = u.inst[id]
        /\ DOMAIN b.inst = DOMAIN u.inst \cup {n} /\ b.inst[n] = j
    BY <2>5, <2>7 DEF Put
  <2>9. PICK S, m : S = LiveIds(u) /\ m = b.inst
    OBVIOUS
  <2>10. /\ LiveIds(b) = S \/ (n \in LiveIds(b) /\ LiveIds(b) \ {n} = S)
         /\ \A id \in S : id \in LiveIds(b) /\ m[id] = u.inst[id]
    BY <2>5, <2>8, <2>9 DEF LiveIds
  <2>11. b.lst = u.lst /\ b.count = u.count /\ b.flag = u.flag /\ b.panes = u.panes
    BY <2>7 DEF Changes, Fields
  <2>12. ASSUME NEW v \in Counted, NEW p \in b.panes PROVE CountAt(b, v, p)
    <3>1. Engine(u) /\ p \in Panes /\ CountAt(u, v, p)
      BY <2>4, <2>11 DEF Counting
    <3>2. Total(m, S, v, p) = Total(u.inst, S, v, p)
      <4>1. S \in SUBSET LiveIds(u) /\ \A x \in S : m[x].uses[v][p] = u.inst[x].uses[v][p]
        BY <2>9, <2>10
      <4> QED
        BY <3>1, <4>1, LiveSame
    <3>3. Total(b.inst, LiveIds(b), v, p) = Total(m, S, v, p)
      <4>1. CASE LiveIds(b) = S
        BY <2>9, <4>1
      <4>2. CASE n \in LiveIds(b) /\ LiveIds(b) \ {n} = S
        <5>1. /\ Total(b.inst, LiveIds(b) \ {n}, v, p) \in Nat
              /\ Total(b.inst, LiveIds(b), v, p)
                    = b.inst[n].uses[v][p] + Total(b.inst, LiveIds(b) \ {n}, v, p)
          BY <1>1, <3>1, <4>2, LiveTotal
        <5>2. b.inst[n].uses[v][p] = 0
          BY <2>6, <2>8, <3>1, NoUsesType
        <5>3. PICK i, k : i = Total(b.inst, LiveIds(b), v, p) /\ k = Total(b.inst, S, v, p)
          OBVIOUS
        <5>4. k \in Nat /\ i = 0 + k
          BY <4>2, <5>1, <5>2, <5>3
        <5>5. i = k
          BY <5>4
        <5> QED
          BY <2>9, <5>3, <5>5
      <4> QED
        BY <2>10, <4>1, <4>2
    <3>4. ASSUME NEW id \in Nat, Listeners(b, id, PaneObj(p), v) > 0
          PROVE  id \in LiveIds(b) /\ b.inst[id].uses[v][p] > 0
      <4>1. Listeners(u, id, PaneObj(p), v) > 0
        BY <2>11, <3>4, ListenersOf
      <4>2. id \in LiveIds(u) /\ u.inst[id].uses[v][p] > 0
        BY <3>1, <4>1 DEF CountAt
      <4> QED
        BY <2>9, <2>10, <4>2
    <3> QED
      BY <2>9, <2>11, <3>1, <3>2, <3>3, <3>4 DEF CountAt
  <2>13. b.panes \subseteq Panes
    BY <2>4, <2>11 DEF Counting
  <2> QED
    BY <1>1, <2>12, <2>13 DEF Counting
<1> QED
  BY <1>2, <1>3

LEMMA LoadingCounts ==
    ASSUME AskInv, CountInv, NEW id, JsMbLoadScript(id) \/ JsMbApproveScript(id) PROVE CountInv'
<1>1. PICK a, b : a = e /\ b = e'
  OBVIOUS
<1>2. Counting(a) /\ OnePerPath(a) /\ Engine(a)
  BY <1>1 DEF CountInv, AskInv
<1>3. PICK c : /\ Changes(a, c, {"pending", "list", "jobs"})
               /\ \/ b = c
                  \/ \E path, hash, perms : b = LoadScriptInternal(c, path, hash, perms, Iterating)
  BY <1>1, <1>2, LoadingIs
<1>4. Counting(c) /\ OnePerPath(c)
  <2>1. Counting(c)
    BY <1>2, <1>3, CountsElsewhere
  <2>2. c.inst = a.inst
    BY <1>3 DEF Changes, Fields
  <2> QED
    BY <1>2, <2>1, <2>2 DEF OnePerPath, LiveIds
<1>5. Counting(b)
  BY <1>3, <1>4, LoadedCounts
<1> QED
  BY <1>1, <1>5 DEF CountInv

LEMMA FirstCounts == ASSUME NEW s, NEW a, a = FirstEngine(s) PROVE Counting(a)
<1>1. Engine(a)
  BY FirstEngineIs
<1>2. a.panes = Panes /\ a.count = NoUses /\ a.flag = [v \in Filters |-> [p \in Panes |-> FALSE]]
      /\ DOMAIN a.lst = {<<1, <<"mb">>>>}
  BY DEF FirstEngine
<1>3. PICK S, inst, n : S = LiveIds(a) /\ inst = a.inst /\ n \in Nat /\ DOMAIN inst = 1..n
  BY <1>1 DEF Engine
<1>4. S \in SUBSET (1..n)
  BY <1>3 DEF LiveIds
<1>5. \A x \in S : inst[x].uses = NoUses
  <2>1. inst = InitialInstances(s)
    BY <1>3, FirstEngineIs
  <2> QED
    BY <1>3, <1>4, <2>1, FirstInstances
<1>6. ASSUME NEW v \in Counted, NEW p \in Panes PROVE CountAt(a, v, p)
  <2>1. \A x \in S : inst[x].uses[v][p] = 0
    BY <1>5, NoUsesType
  <2>2. Total(inst, S, v, p) = 0
    <3>1. NoneRegisters(n, inst, S, v, p)
      BY <1>3, <1>4, <2>1 DEF NoneRegisters
    <3> QED
      BY <3>1, TotalNone
  <2>3. a.count[v][p] = 0
    BY <1>2, NoUsesType
  <2>4. v \in Filters => a.flag[v][p] = FALSE
    BY <1>2
  <2>5. \A id \in Nat : Listeners(a, id, PaneObj(p), v) = 0
    BY <1>2 DEF Listeners, Registered, PaneObj
  <2> QED
    BY <1>3, <2>2, <2>3, <2>4, <2>5 DEF CountAt
<1> QED
  BY <1>1, <1>2, <1>6 DEF Counting

LEMMA RestartCounts == ASSUME Restart PROVE CountInv'
<1>1. PICK m, d, ms : m = Load(Save(e.list), Paths) /\ d = e.disk /\ ms = e.modules
  OBVIOUS
<1>2. PICK a, b : a = FirstEngine(scope) /\ b = e'
  OBVIOUS
<1>3. b = [a EXCEPT !.list = m, !.disk = d, !.modules = ms]
  BY <1>1, <1>2 DEF Restart, Event, Happens
<1>4. Counting(a)
  BY <1>2, FirstCounts
<1>5. IsEngine(a)
  BY <1>4, EngineParts DEF Counting
<1>6. Changes(a, b, {"list", "disk", "modules"})
  BY <1>3, <1>5 DEF Changes, IsEngine, Fields
<1>7. Counting(b)
  BY <1>4, <1>6, CountsElsewhere
<1> QED
  BY <1>2, <1>7 DEF CountInv

LEMMA UnloadsCount ==
    ASSUME NEW n \in Nat, NEW b, Counting(b), NEW h, UnloadsIn(h, n, b) PROVE Counting(h[n])
<1>1. PICK T : T = {k \in 0..n : Counting(h[k])}
  OBVIOUS
<1>2. T \in SUBSET (0..n) /\ 0 \in T
  <2>1. h[0] = b
    BY DEF UnloadsIn
  <2> QED
    BY <1>1, <2>1
<1>3. ASSUME NEW k \in 1..n, k - 1 \in T PROVE k \in T
  <2>1. Counting(h[k - 1])
    BY <1>1, <1>3, Zenon
  <2>2. h[k] = Unload(h[k - 1], k, FALSE)
    BY DEF UnloadsIn
  <2>3. k \in 0..n
    OBVIOUS
  <2>4. PICK c, d : c = h[k - 1] /\ d = h[k]
    OBVIOUS
  <2>5. Counting(c) /\ Engine(c) /\ d = Unload(c, k, FALSE)
    BY <2>1, <2>2, <2>4 DEF Counting
  <2>6. Counting(d)
    BY <2>5, UnloadOrNot, OrdinaryCounts
  <2> QED
    BY <1>1, <2>3, <2>4, <2>6
<1>4. T = 0..n
  BY <1>2, <1>3, StepByStep
<1> QED
  BY <1>1, <1>4

LEMMA EndCounts == ASSUME CountInv, EngineEnds PROVE CountInv'
<1>1. PICK a, d : a = e /\ d = e'
  OBVIOUS
<1>2. Counting(a) /\ Engine(a) /\ d = Destroy(a)
  BY <1>1 DEF EngineEnds, CountInv, Counting
<1>3. PICK n, b, h, c :
              /\ n \in Nat /\ DOMAIN a.inst = 1..n
              /\ Changes(a, b, {"w"}) /\ Engine(b) /\ b.w = WsDestroyEngine(a.w)
              /\ UnloadsIn(h, n, b) /\ c = h[n] /\ Engine(c)
              /\ Changes(c, d, {"timers", "handlers", "jobs"}) /\ Engine(d)
              /\ d.timers = <<>> /\ d.handlers = <<>> /\ d.jobs = <<>>
  BY <1>2, DestroyIs
<1>4. Counting(b)
  BY <1>2, <1>3, CountsElsewhere
<1>5. Counting(c)
  BY <1>3, <1>4, UnloadsCount
<1>6. Counting(d)
  BY <1>3, <1>5, CountsElsewhere
<1> QED
  BY <1>1, <1>6 DEF CountInv

LEMMA StepCounts == ASSUME AskInv, CountInv, [Next]_vars PROVE CountInv'
<1>1. CASE Ordinary(e, e')
  <2>1. PICK a, b : a = e /\ b = e'
    OBVIOUS
  <2>2. Counting(a) /\ Ordinary(a, b)
    BY <1>1, <2>1 DEF CountInv
  <2>3. Counting(b)
    BY <2>2, OrdinaryCounts
  <2> QED
    BY <2>1, <2>3 DEF CountInv
<1>2. CASE \E id : JsMbLoadScript(id) \/ JsMbApproveScript(id)
  BY <1>2, LoadingCounts
<1>3. CASE Restart \/ EngineEnds
  BY <1>3, RestartCounts, EndCounts
<1>4. Engine(e)
  BY DEF AskInv
<1> QED
  BY <1>1, <1>2, <1>3, <1>4, StepKinds

\* A filter or a mouse listener of a living script is counted and, for a
\* filter, the flag the parse worker reads is up; and the count is no more and
\* no less than what the living scripts registered (ScriptEngine's
\* addPane...Filter, unload and cleanupPane).
THEOREM FiltersHeard == Spec => []FiltersNeverSkipped
<1>1. Init => AskInv /\ CountInv
  <2>1. ASSUME Init PROVE CountInv
    <3>1. e = FirstEngine(scope)
      BY <2>1 DEF Init
    <3> QED
      BY <3>1, FirstCounts DEF CountInv
  <2> QED
    BY <2>1, StartAsks
<1>2. AskInv /\ CountInv /\ [Next]_vars => (AskInv /\ CountInv)'
  BY StepAsks, StepCounts
<1>3. ASSUME CountInv PROVE FiltersNeverSkipped
  <2>1. PICK a : a = e
    OBVIOUS
  <2>2. Counting(a) /\ Engine(a) /\ a.panes \subseteq Panes
    BY <1>3, <2>1 DEF CountInv, Counting
  <2>3. ASSUME NEW p \in a.panes, NEW v \in Filters PROVE a.flag[v][p] <=> a.count[v][p] > 0
    <3>1. v \in Counted /\ p \in Panes
      BY <2>2 DEF Counted
    <3>2. CountAt(a, v, p)
      BY <2>2, <3>1 DEF Counting
    <3>3. a.flag \in [Filters -> [Panes -> BOOLEAN]]
      BY <2>2, EngineParts
    <3>4. a.flag[v][p] \in BOOLEAN
      BY <3>1, <3>3
    <3>5. a.flag[v][p] = TRUE <=> a.count[v][p] > 0
      BY <3>2 DEF CountAt
    <3> QED
      BY <3>4, <3>5
  <2>4. ASSUME NEW p \in a.panes, NEW v \in Counted
        PROVE  /\ a.count[v][p] = FoldFunctionOnSet(LAMBDA i, n : n + i.uses[v][p], 0, a.inst, LiveIds(a))
               /\ \A id \in LiveIds(a) : Listeners(a, id, PaneObj(p), v) > 0 => a.count[v][p] > 0
    <3>1. CountAt(a, v, p) /\ p \in Panes
      BY <2>2 DEF Counting
    <3>2. a.count[v][p] = Total(a.inst, LiveIds(a), v, p)
      BY <3>1 DEF CountAt
    <3>3. \A x \in LiveIds(a) :
             /\ a.inst[x].uses[v][p] \in Nat /\ Total(a.inst, LiveIds(a) \ {x}, v, p) \in Nat
             /\ Total(a.inst, LiveIds(a), v, p)
                   = a.inst[x].uses[v][p] + Total(a.inst, LiveIds(a) \ {x}, v, p)
      BY <2>2, <3>1, LiveTotal
    <3>4. ASSUME NEW id \in LiveIds(a), Listeners(a, id, PaneObj(p), v) > 0
          PROVE  a.count[v][p] > 0
      <4>1. id \in Nat
        BY <2>2 DEF Engine, LiveIds
      <4>2. a.inst[id].uses[v][p] > 0
        BY <3>1, <3>4, <4>1 DEF CountAt
      <4>3. PICK i, j, k : /\ i = a.inst[id].uses[v][p] /\ j = Total(a.inst, LiveIds(a) \ {id}, v, p)
                           /\ k = a.count[v][p]
        OBVIOUS
      <4>4. i \in Nat /\ j \in Nat /\ i > 0 /\ k = i + j
        BY <3>2, <3>3, <4>2, <4>3
      <4>5. k > 0
        BY <4>4
      <4> QED
        BY <4>3, <4>5
    <3> QED
      BY <3>2, <3>4 DEF Total
  <2> QED
    BY <2>1, <2>3, <2>4, Zenon DEF FiltersNeverSkipped
<1> QED
  BY <1>1, <1>2, <1>3, PTL DEF Spec

=============================================================================
