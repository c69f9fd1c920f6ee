----------------------------- MODULE InputProofs -----------------------------
(***************************************************************************)
(* Theorems about two scenes of Emulator: bytes mean the same however they *)
(* are cut into reads, and a mouse button lets go of what it took hold of. *)
(***************************************************************************)
EXTENDS EmulatorProofs

-----------------------------------------------------------------------------
(* What is sent arrives as it was sent.  The parser of one byte after the  *)
(* other is the reference: it goes from p to q through the bytes w.        *)

OneByte(p, b) == StepOn(p, <<b>>, 1).p
Along(f, w) == \A i \in 1..Len(w) : f[i] = OneByte(f[i - 1], w[i])
Runs(p, w, q) == \E f : Along(f, w) /\ f[0] = p /\ f[Len(w)] = q

\* A string is never longer than there is room for.
ParserFields == {"st", "esc", "utf", "str", "ended", "out"}
RoomKept(p) == /\ p = [g \in ParserFields |-> p[g]]
               /\ p.str \in Seq(Bytes) /\ Len(p.str) <= StringMax

LEMMA RunsNothing == ASSUME NEW p PROVE Runs(p, <<>>, p)
<1>1. PICK f : f = [i \in {0} |-> p]
  OBVIOUS
<1>2. Len(<<>>) = 0 /\ 1..0 = {} /\ f[0] = p
  BY <1>1
<1> QED
  BY <1>2 DEF Runs, Along

LEMMA RunsOne ==
    ASSUME NEW p, NEW b, NEW q, q = OneByte(p, b)
    PROVE  Runs(p, <<b>>, q)
<1>1. PICK f : f = [i \in {0, 1} |-> IF i = 0 THEN p ELSE q]
  OBVIOUS
<1>2. Len(<<b>>) = 1 /\ <<b>>[1] = b /\ f[0] = p /\ f[1] = q
  BY <1>1
<1>3. \A i \in 1..1 : i = 1 /\ i - 1 = 0
  OBVIOUS
<1> QED
  BY <1>2, <1>3 DEF Runs, Along

LEMMA RunsJoin ==
    ASSUME NEW v \in Seq(Bytes), NEW w \in Seq(Bytes), NEW p, NEW q, NEW r, Runs(p, v, q), Runs(q, w, r)
    PROVE  Runs(p, v \o w, r)
<1>1. PICK f : Along(f, v) /\ f[0] = p /\ f[Len(v)] = q
  BY DEF Runs
<1>2. PICK g : Along(g, w) /\ g[0] = q /\ g[Len(w)] = r
  BY DEF Runs
<1>3. PICK m \in Nat : m = Len(v)
  OBVIOUS
<1>4. PICK n \in Nat : n = Len(w)
  OBVIOUS
<1>5. PICK h : h = [i \in 0..(m + n) |-> IF i <= m THEN f[i] ELSE g[i - m]]
  OBVIOUS
<1>6. /\ Len(v \o w) = m + n
      /\ \A i \in 1..m : (v \o w)[i] = v[i]
      /\ \A i \in 1..(m + n) : i > m => (v \o w)[i] = w[i - m]
  BY <1>3, <1>4, ConcatFacts
<1>7. h[0] = p
  BY <1>1, <1>5
<1>8. h[m + n] = r
  <2>1. CASE n = 0
    <3>1. h[m] = f[m]
      BY <1>5, <2>1
    <3> QED
      BY <1>1, <1>2, <1>3, <1>4, <2>1, <3>1
  <2>2. CASE n # 0
    <3>1. ~(m + n <= m) /\ m + n - m = n /\ m + n \in 0..(m + n)
      BY <2>2
    <3> QED
      BY <1>2, <1>4, <1>5, <3>1
  <2> QED
    BY <2>1, <2>2
<1>9. ASSUME NEW i \in 1..(m + n) PROVE h[i] = OneByte(h[i - 1], (v \o w)[i])
  <2>1. CASE i <= m
    <3>1. i \in 1..m /\ i - 1 <= m /\ i - 1 \in 0..(m + n) /\ i \in 0..(m + n)
      BY <2>1
    <3>2. h[i] = f[i] /\ h[i - 1] = f[i - 1] /\ (v \o w)[i] = v[i]
      BY <1>5, <1>6, <2>1, <3>1
    <3> QED
      BY <1>1, <1>3, <3>1, <3>2 DEF Along
  <2>2. CASE i > m
    <3>1. i - m \in 1..n /\ (i - m) - 1 = i - 1 - m /\ i - 1 \in 0..(m + n) /\ i \in 0..(m + n) /\ ~(i <= m)
      BY <2>2
    <3>2. h[i] = g[i - m] /\ (v \o w)[i] = w[i - m]
      BY <1>5, <1>6, <2>2, <3>1
    <3>3. h[i - 1] = g[i - 1 - m]
      <4>1. CASE i - 1 <= m
        <5>1. i - 1 = m /\ i - 1 - m = 0
          BY <2>2, <4>1
        <5> QED
          BY <1>1, <1>2, <1>3, <1>5, <3>1, <5>1
      <4>2. CASE ~(i - 1 <= m)
        BY <1>5, <3>1, <4>2
      <4> QED
        BY <4>1, <4>2
    <3> QED
      BY <1>2, <1>4, <3>1, <3>2, <3>3 DEF Along
  <2>3. i <= m \/ i > m
    OBVIOUS
  <2> QED
    BY <2>1, <2>2, <2>3, Zenon
<1>10. Along(h, v \o w)
  BY <1>6, <1>9 DEF Along
<1> QED
  BY <1>6, <1>7, <1>8, <1>10 DEF Runs

LEMMA RunsSplit ==
    ASSUME NEW w \in Seq(Bytes), NEW k \in 1..Len(w), NEW p, NEW r, Runs(p, w, r)
    PROVE  \E q : Runs(p, SubSeq(w, 1, k), q) /\ Runs(q, SubSeq(w, k + 1, Len(w)), r)
<1>1. PICK f : Along(f, w) /\ f[0] = p /\ f[Len(w)] = r
  BY DEF Runs
<1>2. PICK n \in Nat : n = Len(w)
  OBVIOUS
<1>3. PICK v : v = SubSeq(w, 1, k)
  OBVIOUS
<1>4. PICK u : u = SubSeq(w, k + 1, Len(w))
  OBVIOUS
<1>5. /\ Len(v) = k /\ \A i \in 1..k : v[i] = w[i]
      /\ Len(u) = n - k /\ \A i \in 1..(n - k) : u[i] = w[k + i]
  BY <1>2, <1>3, <1>4, CutFacts
<1>6. PICK g : g = [i \in 0..(n - k) |-> f[k + i]]
  OBVIOUS
<1>7. Along(f, v)
  <2>1. \A i \in 1..k : i \in 1..Len(w)
    BY <1>2
  <2> QED
    BY <1>1, <1>5, <2>1 DEF Along
<1>8. Along(g, u) /\ g[0] = f[k] /\ g[n - k] = f[n]
  <2>1. ASSUME NEW i \in 1..(n - k) PROVE g[i] = OneByte(g[i - 1], u[i])
    <3>1. k + i \in 1..Len(w) /\ (k + i) - 1 = k + (i - 1) /\ i - 1 \in 0..(n - k) /\ i \in 0..(n - k)
      BY <1>2
    <3>2. f[k + i] = OneByte(f[(k + i) - 1], w[k + i])
      BY <1>1, <3>1 DEF Along
    <3> QED
      BY <1>5, <1>6, <3>1, <3>2
  <2>2. 0 \in 0..(n - k) /\ k + 0 = k /\ n - k \in 0..(n - k) /\ k + (n - k) = n
    BY <1>2
  <2>3. g[0] = f[k] /\ g[n - k] = f[n]
    BY <1>6, <2>2
  <2> QED
    BY <1>5, <2>1, <2>3 DEF Along
<1>9. Runs(p, v, f[k]) /\ Runs(f[k], u, r)
  BY <1>1, <1>2, <1>5, <1>7, <1>8 DEF Runs
<1> QED
  BY <1>3, <1>4, <1>9

\* One step from a position of the buffer: the byte there, or as many of a string
\* as there is room for.
LEMMA InStringOne ==
    ASSUME NEW p, RoomKept(p), NEW b \in Bytes \ {"bel", "esc"}, Len(p.str) < StringMax,
           p.st \notin {"normal", "utf8", "escape"}
    PROVE  OneByte(p, b) = [p EXCEPT !.str = @ \o <<b>>]
<1>1. PICK w : w = <<b>>
  OBVIOUS
<1>2. w \in Seq(Bytes) /\ Len(w) = 1 /\ w[1] = b /\ SubSeq(w, 1, 1) = w
  <2>1. w \in Seq(Bytes) /\ Len(w) = 1 /\ w[1] = b
    BY <1>1
  <2>2. PICK v : v = SubSeq(w, 1, 1)
    OBVIOUS
  <2>3. v \in Seq(Bytes) /\ Len(v) = 1 /\ v[1] = w[1]
    BY <2>1, <2>2
  <2>4. v = w
    <3>1. v = [i \in 1..1 |-> v[i]] /\ w = [i \in 1..1 |-> w[i]]
      BY <2>1, <2>3
    <3>2. \A i \in 1..1 : i = 1
      OBVIOUS
    <3> QED
      BY <2>3, <3>1, <3>2
  <2> QED
    BY <2>1, <2>2, <2>4
<1>3. PICK room \in Nat : room = StringMax - Len(p.str)
  <2>1. StringMax \in Nat
    BY ParserAssumption
  <2>2. Len(p.str) \in Nat
    BY DEF RoomKept
  <2>3. StringMax - Len(p.str) \in Nat
    BY <2>1, <2>2
  <2> QED
    BY <2>3
<1>4. room # 0 /\ 1 + room \in Nat /\ 1 + room >= 2
  BY <1>3, ParserAssumption DEF RoomKept
<1>5. {j \in 1..Len(w) : w[j] \in {"bel", "esc"}} = {}
  BY <1>2
<1>6. PICK S : S = {j \in 1..Len(w) : w[j] \in {"bel", "esc"}} \cup {1 + room, Len(w) + 1}
  OBVIOUS
<1>7. S = {1 + room, 2}
  BY <1>2, <1>5, <1>6
<1>8. Min(S) = 2
  <2>1. S \in SUBSET (1..(1 + room)) /\ S # {} /\ 1 + room \in Nat /\ 2 \in S
    BY <1>4, <1>7
  <2>2. Min(S) \in S /\ Min(S) <= 2
    BY <2>1, FirstOf
  <2> QED
    BY <1>4, <1>7, <2>2
<1>9. StepOn(p, w, 1) = InString(p, w, 1)
  BY DEF StepOn
<1>10. w[1] \notin {"bel", "esc"}
  BY <1>2
<1>11. InString(p, w, 1) = [p |-> [p EXCEPT !.str = @ \o SubSeq(w, 1, Min(S) - 1)], i |-> Min(S)]
  BY <1>3, <1>4, <1>6, <1>10 DEF InString
<1>12. Min(S) - 1 = 1
  BY <1>8
<1> QED
  BY <1>1, <1>2, <1>9, <1>11, <1>12 DEF OneByte

LEMMA StepStays ==
    ASSUME NEW w \in Seq(Bytes), NEW k \in 1..Len(w), NEW p, RoomKept(p),
           \/ p.st \in {"normal", "utf8", "escape"} \/ w[k] \in {"bel", "esc"} \/ Len(p.str) = StringMax
    PROVE  StepOn(p, w, k) = [p |-> OneByte(p, w[k]), i |-> k + 1]
<1>1. PICK v : v = <<w[k]>>
  OBVIOUS
<1>2. v[1] = w[k] /\ 1 + 1 = 2 /\ w[k] \in Bytes
  BY <1>1
<1>3. CASE p.st \in {"normal", "utf8", "escape"}
  <2>1. \/ StepOn(p, w, k) = [p |-> InNormal(p, w[k]), i |-> k + 1] /\ StepOn(p, v, 1) = [p |-> InNormal(p, v[1]), i |-> 2]
        \/ StepOn(p, w, k) = [p |-> InUtf8(p, w[k]), i |-> k + 1] /\ StepOn(p, v, 1) = [p |-> InUtf8(p, v[1]), i |-> 2]
        \/ StepOn(p, w, k) = [p |-> InEscape(p, w[k]), i |-> k + 1] /\ StepOn(p, v, 1) = [p |-> InEscape(p, v[1]), i |-> 2]
    BY <1>2, <1>3 DEF StepOn
  <2> QED
    BY <1>1, <1>2, <2>1 DEF OneByte
<1>4. CASE p.st \notin {"normal", "utf8", "escape"}
  <2>1. StepOn(p, w, k) = InString(p, w, k) /\ StepOn(p, v, 1) = InString(p, v, 1)
    BY <1>4 DEF StepOn
  <2>2. CASE w[k] = "bel"
    <3>1. /\ InString(p, w, k) = [p |-> ResetEscape(EmitString(p)), i |-> k + 1]
          /\ InString(p, v, 1) = [p |-> ResetEscape(EmitString(p)), i |-> 1 + 1]
      BY <1>2, <2>2 DEF InString
    <3> QED
      BY <1>1, <2>1, <3>1 DEF OneByte
  <2>3. CASE w[k] = "esc"
    <3>1. /\ InString(p, w, k) = [p |-> [p EXCEPT !.st = "escape", !.ended = TRUE, !.esc = <<>>], i |-> k + 1]
          /\ InString(p, v, 1) = [p |-> [p EXCEPT !.st = "escape", !.ended = TRUE, !.esc = <<>>], i |-> 1 + 1]
      BY <1>2, <2>3 DEF InString
    <3> QED
      BY <1>1, <2>1, <3>1 DEF OneByte
  <2>4. CASE w[k] \notin {"bel", "esc"}
    <3>1. StringMax - Len(p.str) = 0
      BY <1>4, <2>4, ParserAssumption DEF RoomKept
    <3>2. InString(p, w, k) = [p |-> p, i |-> k + 1] /\ InString(p, v, 1) = [p |-> p, i |-> 1 + 1]
      BY <1>2, <2>4, <3>1 DEF InString
    <3> QED
      BY <1>1, <2>1, <3>2 DEF OneByte
  <2> QED
    BY <2>2, <2>3, <2>4
<1> QED
  BY <1>3, <1>4

LEMMA OneMore ==
    ASSUME NEW w \in Seq(Bytes), NEW a \in Seq(Bytes), NEW k \in 1..Len(w), NEW h \in k..Len(w)
    PROVE  (a \o SubSeq(w, k, h - 1)) \o <<w[h]>> = a \o SubSeq(w, k, h)
<1>1. PICK v : v = SubSeq(w, k, h - 1)
  OBVIOUS
<1>2. PICK u : u = SubSeq(w, k, h)
  OBVIOUS
<1>3. PICK l \in Nat : l = Len(a)
  OBVIOUS
<1>4. PICK n \in Nat : n = h - k
  OBVIOUS
<1>5. k \in 1..(Len(w) + 1) /\ h - 1 \in (k - 1)..Len(w) /\ h \in (k - 1)..Len(w) /\ h - 1 - k + 1 = n
      /\ h - k + 1 = n + 1 /\ k + (n + 1) - 1 = h
  BY <1>4
<1>6. v \in Seq(Bytes) /\ Len(v) = n /\ \A i \in 1..n : v[i] = w[k + i - 1]
  BY <1>1, <1>5, SubSeqFacts
<1>7. u \in Seq(Bytes) /\ Len(u) = n + 1 /\ \A i \in 1..(n + 1) : u[i] = w[k + i - 1]
  BY <1>2, <1>5, SubSeqFacts
<1>8. u[n + 1] = w[h]
  <2>1. n + 1 \in 1..(n + 1)
    OBVIOUS
  <2>2. u[n + 1] = w[k + (n + 1) - 1]
    BY <1>7, <2>1
  <2> QED
    BY <1>5, <2>2
<1>9. ASSUME NEW i \in 1..n PROVE u[i] = v[i]
  <2>1. i \in 1..(n + 1)
    OBVIOUS
  <2> QED
    BY <1>6, <1>7, <2>1
<1>10. PICK c : c = (a \o v) \o <<w[h]>>
  OBVIOUS
<1>11. PICK e : e = a \o u
  OBVIOUS
<1>12. w[h] \in Bytes
  BY <1>5
<1>13. /\ a \o v \in Seq(Bytes) /\ Len(a \o v) = l + n /\ \A i \in 1..l : (a \o v)[i] = a[i]
       /\ \A i \in 1..(l + n) : i > l => (a \o v)[i] = v[i - l]
  BY <1>3, <1>6, ConcatFacts
<1>14. /\ c \in Seq(Bytes) /\ Len(c) = l + n + 1 /\ \A i \in 1..(l + n) : c[i] = (a \o v)[i]
       /\ c[l + n + 1] = w[h]
  <2>1. PICK x \in Seq(Bytes) : x = a \o v
    BY <1>13
  <2>2. PICK z \in Bytes : z = w[h]
    BY <1>12
  <2>3. PICK t \in Nat : t = l + n
    OBVIOUS
  <2>4. Len(x) = t /\ c = x \o <<z>> /\ Len(<<z>>) = 1 /\ <<z>> \in Seq(Bytes) /\ <<z>>[1] = z
    BY <1>10, <1>13, <2>1, <2>2, <2>3
  <2>5. c \in Seq(Bytes) /\ Len(c) = t + 1 /\ (\A i \in 1..t : c[i] = x[i]) /\ c[t + 1] = z
    <3>1. PICK y \in Seq(Bytes) : y = <<z>>
      BY <2>4
    <3>2. /\ x \o y \in Seq(Bytes) /\ Len(x \o y) = Len(x) + Len(y)
          /\ \A i \in 1..Len(x) : (x \o y)[i] = x[i]
          /\ \A i \in 1..(Len(x) + Len(y)) : i > Len(x) => (x \o y)[i] = y[i - Len(x)]
      BY ConcatFacts
    <3>3. t + 1 \in 1..(t + 1) /\ t + 1 > t /\ t + 1 - t = 1
      OBVIOUS
    <3> QED
      BY <2>4, <3>1, <3>2, <3>3
  <2> QED
    BY <2>1, <2>2, <2>3, <2>5
<1>15. /\ e \in Seq(Bytes) /\ Len(e) = l + n + 1 /\ \A i \in 1..l : e[i] = a[i]
       /\ \A i \in 1..(l + n + 1) : i > l => e[i] = u[i - l]
  <2>1. /\ e \in Seq(Bytes) /\ Len(e) = l + (n + 1) /\ \A i \in 1..l : e[i] = a[i]
        /\ \A i \in 1..(l + (n + 1)) : i > l => e[i] = u[i - l]
    <3>1. /\ a \o u \in Seq(Bytes) /\ Len(a \o u) = Len(a) + Len(u)
          /\ \A i \in 1..Len(a) : (a \o u)[i] = a[i]
          /\ \A i \in 1..(Len(a) + Len(u)) : i > Len(a) => (a \o u)[i] = u[i - Len(a)]
      BY <1>7, ConcatFacts
    <3> QED
      BY <1>3, <1>7, <1>11, <3>1, Zenon
  <2>2. l + (n + 1) = l + n + 1
    OBVIOUS
  <2> QED
    BY <2>1, <2>2
<1>16. ASSUME NEW i \in 1..(l + n + 1) PROVE c[i] = e[i]
  <2>1. CASE i <= l
    <3>1. i \in 1..l /\ i \in 1..(l + n)
      BY <2>1
    <3> QED
      BY <1>13, <1>14, <1>15, <3>1
  <2>2. CASE i > l /\ i <= l + n
    <3>1. i \in 1..(l + n) /\ i - l \in 1..n
      BY <2>2
    <3> QED
      BY <1>9, <1>13, <1>14, <1>15, <2>2, <3>1
  <2>3. CASE i = l + n + 1
    <3>1. i > l /\ i - l = n + 1
      BY <2>3
    <3> QED
      BY <1>8, <1>14, <1>15, <2>3, <3>1
  <2>4. i <= l \/ (i > l /\ i <= l + n) \/ i = l + n + 1
    OBVIOUS
  <2> QED
    BY <2>1, <2>2, <2>3, <2>4, Zenon
<1>17. c = [i \in 1..(l + n + 1) |-> c[i]] /\ e = [i \in 1..(l + n + 1) |-> e[i]]
  BY <1>14, <1>15
<1>18. c = e
  BY <1>16, <1>17
<1> QED
  BY <1>1, <1>2, <1>10, <1>11, <1>18

LEMMA StepIsAlong ==
    ASSUME NEW w \in Seq(Bytes), NEW f, Along(f, w), \A i \in 0..Len(w) : RoomKept(f[i]),
           NEW k \in 1..Len(w)
    PROVE  \E j \in k..Len(w) : StepOn(f[k - 1], w, k) = [p |-> f[j], i |-> j + 1]
<1>1. PICK n \in Nat : n = Len(w)
  OBVIOUS
<1>2. PICK p : p = f[k - 1]
  OBVIOUS
<1>3. RoomKept(p) /\ k \in 1..n /\ k - 1 \in 0..n
  BY <1>1, <1>2
<1>4. CASE p.st \in {"normal", "utf8", "escape"} \/ w[k] \in {"bel", "esc"} \/ Len(p.str) = StringMax
  <2>1. StepOn(p, w, k) = [p |-> OneByte(p, w[k]), i |-> k + 1]
    BY <1>3, <1>4, StepStays
  <2>2. f[k] = OneByte(p, w[k])
    BY <1>2 DEF Along
  <2>3. k \in k..Len(w)
    OBVIOUS
  <2>4. StepOn(f[k - 1], w, k) = [p |-> f[k], i |-> k + 1]
    BY <1>2, <2>1, <2>2
  <2> QED
    BY <2>3, <2>4
<1>5. CASE ~(p.st \in {"normal", "utf8", "escape"} \/ w[k] \in {"bel", "esc"} \/ Len(p.str) = StringMax)
  <2>1. PICK a \in Seq(Bytes) : a = p.str
    BY <1>3 DEF RoomKept
  <2>2. PICK room \in Nat : room = StringMax - Len(a) /\ room # 0
    <3>1. StringMax \in Nat /\ Len(a) \in Nat /\ Len(a) <= StringMax /\ Len(a) # StringMax
      BY <1>3, <1>5, <2>1, ParserAssumption DEF RoomKept
    <3>2. StringMax - Len(a) \in Nat /\ StringMax - Len(a) # 0
      BY <3>1
    <3> QED
      BY <3>2
  <2>3. PICK S : S = {j \in k..Len(w) : w[j] \in {"bel", "esc"}} \cup {k + room, Len(w) + 1}
    OBVIOUS
  <2>4. S \in SUBSET (1..(n + 1 + k + room)) /\ n + 1 + k + room \in Nat /\ S # {} /\ k + room \in S /\ n + 1 \in S
    BY <1>1, <1>3, <2>3
  <2>5. PICK stop : stop = Min(S)
    OBVIOUS
  <2>6. stop \in S /\ \A j \in S : stop <= j
    BY <2>4, <2>5, FirstOf
  <2>7. stop \in Nat /\ stop > k /\ stop <= k + room /\ stop <= n + 1
    <3>1. \A j \in S : j \in Nat /\ j > k
      BY <1>1, <1>3, <1>5, <2>2, <2>3
    <3> QED
      BY <2>4, <2>6, <3>1
  <2>8. ASSUME NEW j \in k..(stop - 1) PROVE j \in 1..n /\ w[j] \in Bytes \ {"bel", "esc"}
    <3>1. j \in Nat /\ j \in k..n /\ j \in 1..n /\ ~(stop <= j)
      BY <1>3, <2>7
    <3>2. w[j] \notin {"bel", "esc"}
      BY <1>1, <2>3, <2>6, <3>1
    <3> QED
      BY <1>1, <3>1, <3>2
  <2>9. StepOn(p, w, k) = [p |-> [p EXCEPT !.str = @ \o SubSeq(w, k, stop - 1)], i |-> stop]
    <3>1. StepOn(p, w, k) = InString(p, w, k)
      BY <1>5 DEF StepOn
    <3>2. StringMax - Len(p.str) # 0 /\ w[k] # "bel" /\ w[k] # "esc"
      BY <1>5, <2>1, <2>2
    <3>3. Min({j \in k..Len(w) : w[j] \in {"bel", "esc"}} \cup {k + (StringMax - Len(p.str)), Len(w) + 1}) = stop
      BY <2>1, <2>2, <2>3, <2>5
    <3> QED
      BY <3>1, <3>2, <3>3 DEF InString
  <2>10. PICK d \in Nat : d = stop - k
    BY <1>3, <2>7
  <2>11. PICK T : T = {m \in 0..d : f[k - 1 + m] = [p EXCEPT !.str = a \o SubSeq(w, k, k - 1 + m)]}
    OBVIOUS
  <2>12. 0 \in T
    <3>1. SubSeq(w, k, k - 1) = <<>> /\ a \o <<>> = a /\ k - 1 + 0 = k - 1
      BY <1>3
    <3>2. p = [p EXCEPT !.str = a]
      BY <1>3, <2>1 DEF RoomKept, ParserFields
    <3>3. f[k - 1 + 0] = [p EXCEPT !.str = a \o SubSeq(w, k, k - 1 + 0)]
      BY <1>2, <3>1, <3>2
    <3>4. 0 \in 0..d
      OBVIOUS
    <3> QED
      BY <2>11, <3>3, <3>4
  <2>13. ASSUME NEW m \in 1..d, m - 1 \in T PROVE m \in T
    <3>1. PICK h : h = k - 1 + m
      OBVIOUS
    <3>2. h \in k..(stop - 1) /\ h \in k..n /\ h - 1 = k - 1 + (m - 1) /\ h - 1 \in 0..n /\ h \in 1..n
          /\ m - 1 < room /\ h - 1 - k + 1 = m - 1
      BY <1>3, <2>7, <2>10, <3>1
    <3>3. PICK q : q = f[h - 1]
      OBVIOUS
    <3>4. q = [p EXCEPT !.str = a \o SubSeq(w, k, h - 1)]
      BY <2>11, <2>13, <3>2, <3>3
    <3>5. q.str = a \o SubSeq(w, k, h - 1) /\ q.st = p.st
      BY <1>3, <3>4 DEF RoomKept, ParserFields
    <3>6. SubSeq(w, k, h - 1) \in Seq(Bytes) /\ Len(SubSeq(w, k, h - 1)) = m - 1
      <4>1. k \in 1..(Len(w) + 1) /\ h - 1 \in (k - 1)..Len(w)
        BY <1>1, <1>3, <3>2
      <4> QED
        BY <3>2, <4>1, SubSeqFacts
    <3>7. q.str \in Seq(Bytes) /\ Len(q.str) = Len(a) + (m - 1)
      <4>1. PICK v \in Seq(Bytes) : v = SubSeq(w, k, h - 1)
        BY <3>6
      <4>2. a \o v \in Seq(Bytes) /\ Len(a \o v) = Len(a) + Len(v)
        BY ConcatFacts
      <4> QED
        BY <3>5, <3>6, <4>1, <4>2
    <3>8. Len(q.str) < StringMax
      <4>1. Len(a) \in Nat /\ StringMax \in Nat
        BY ParserAssumption
      <4> QED
        BY <2>2, <3>2, <3>7, <4>1
    <3>9. RoomKept(q)
      BY <1>1, <3>2, <3>3
    <3>10. OneByte(q, w[h]) = [q EXCEPT !.str = @ \o <<w[h]>>]
      BY <1>5, <2>8, <3>2, <3>5, <3>8, <3>9, InStringOne
    <3>11. f[h] = OneByte(q, w[h])
      BY <1>1, <3>2, <3>3 DEF Along
    <3>12. q.str \o <<w[h]>> = a \o SubSeq(w, k, h)
      BY <1>1, <3>2, <3>5, OneMore
    <3>13. f[h] = [q EXCEPT !.str = a \o SubSeq(w, k, h)]
      BY <3>10, <3>11, <3>12
    <3>14. f[h] = [p EXCEPT !.str = a \o SubSeq(w, k, h)]
      BY <1>3, <3>4, <3>13 DEF RoomKept, ParserFields
    <3> QED
      BY <2>11, <3>1, <3>14
  <2>14. T = 0..d
    BY <2>11, <2>12, <2>13, StepByStep
  <2>15. f[stop - 1] = [p EXCEPT !.str = a \o SubSeq(w, k, stop - 1)]
    <3>1. d \in T /\ k - 1 + d = stop - 1
      BY <1>3, <2>7, <2>10, <2>14
    <3> QED
      BY <2>11, <3>1
  <2>16. stop - 1 \in k..n /\ (stop - 1) + 1 = stop
    BY <1>3, <2>7
  <2> QED
    BY <1>1, <1>2, <2>1, <2>9, <2>15, <2>16
<1> QED
  BY <1>4, <1>5

LEMMA RoomFields ==
    ASSUME NEW p, RoomKept(p), NEW v
    PROVE  /\ RoomKept([p EXCEPT !.st = v]) /\ RoomKept([p EXCEPT !.esc = v])
           /\ RoomKept([p EXCEPT !.utf = v]) /\ RoomKept([p EXCEPT !.ended = v])
           /\ RoomKept([p EXCEPT !.out = v]) /\ RoomKept([p EXCEPT !.str = <<>>])
<1>1. ASSUME NEW g \in ParserFields \ {"str"}, NEW q, q = [p EXCEPT ![g] = v] PROVE RoomKept(q)
  <2>1. q = [h \in ParserFields |-> IF h = g THEN v ELSE p[h]]
    BY <1>1 DEF RoomKept
  <2>2. q.str = p.str /\ q = [h \in ParserFields |-> q[h]]
    BY <1>1, <2>1 DEF ParserFields
  <2> QED
    BY <2>2 DEF RoomKept
<1>2. PICK q : q = [p EXCEPT !.str = <<>>]
  OBVIOUS
<1>3. q = [h \in ParserFields |-> IF h = "str" THEN <<>> ELSE p[h]]
  BY <1>2 DEF RoomKept
<1>4. q.str = <<>> /\ q = [h \in ParserFields |-> q[h]] /\ Len(<<>>) = 0 /\ <<>> \in Seq(Bytes)
  BY <1>3 DEF ParserFields
<1>5. RoomKept(q)
  BY <1>4, ParserAssumption DEF RoomKept
<1>6. "st" \in ParserFields \ {"str"} /\ "esc" \in ParserFields \ {"str"} /\ "utf" \in ParserFields \ {"str"}
      /\ "ended" \in ParserFields \ {"str"} /\ "out" \in ParserFields \ {"str"}
  BY DEF ParserFields
<1> QED
  BY <1>1, <1>2, <1>5, <1>6

LEMMA RoomSmall ==
    ASSUME NEW p, RoomKept(p), NEW a
    PROVE  RoomKept(Emit(p, a)) /\ RoomKept(ResetEscape(p)) /\ RoomKept(EmitString(p))
<1>1. RoomKept(Emit(p, a)) /\ RoomKept(Emit(p, [k |-> "string", of |-> p.str]))
  BY RoomFields DEF Emit
<1>2. RoomKept(EmitString(p))
  BY <1>1, RoomFields DEF EmitString
<1>3. PICK q : q = [p EXCEPT !.st = "normal"]
  OBVIOUS
<1>4. RoomKept([q EXCEPT !.esc = <<>>])
  BY <1>3, RoomFields
<1>5. ResetEscape(p) = [q EXCEPT !.esc = <<>>]
  BY <1>3 DEF ResetEscape
<1> QED
  BY <1>1, <1>2, <1>4, <1>5

LEMMA RoomNormal == ASSUME NEW p, RoomKept(p), NEW b PROVE RoomKept(InNormal(p, b))
<1>1. PICK q : q = [p EXCEPT !.st = "utf8"]
  OBVIOUS
<1>2. RoomKept([q EXCEPT !.utf = <<b>>]) /\ RoomKept([p EXCEPT !.st = "escape"])
  BY <1>1, RoomFields
<1>3. [p EXCEPT !.st = "utf8", !.utf = <<b>>] = [q EXCEPT !.utf = <<b>>]
  BY <1>1
<1>4. \/ InNormal(p, b) = [p EXCEPT !.st = "escape"]
      \/ InNormal(p, b) = [p EXCEPT !.st = "utf8", !.utf = <<b>>]
      \/ InNormal(p, b) = Emit(p, [k |-> "control", of |-> <<b>>])
      \/ InNormal(p, b) = Emit(p, [k |-> "print", of |-> <<b>>])
  BY DEF InNormal
<1> QED
  BY <1>2, <1>3, <1>4, RoomSmall

LEMMA RoomUtf8 == ASSUME NEW p, RoomKept(p), NEW b PROVE RoomKept(InUtf8(p, b))
<1>1. PICK u : u = Append(p.utf, b)
  OBVIOUS
<1>2. PICK q : q = [p EXCEPT !.st = "normal"]
  OBVIOUS
<1>3. PICK done : done = [q EXCEPT !.utf = <<>>]
  OBVIOUS
<1>4. done = [p EXCEPT !.st = "normal", !.utf = <<>>] /\ RoomKept(done)
  BY <1>2, <1>3, RoomFields
<1>5. \/ InUtf8(p, b) = InNormal(done, b) \/ InUtf8(p, b) = Emit(done, [k |-> "print", of |-> u])
      \/ InUtf8(p, b) = done \/ InUtf8(p, b) = [p EXCEPT !.utf = u]
  BY <1>1, <1>4 DEF InUtf8
<1>6. RoomKept(InNormal(done, b)) /\ RoomKept(Emit(done, [k |-> "print", of |-> u]))
  BY <1>4, RoomNormal, RoomSmall
<1>7. RoomKept([p EXCEPT !.utf = u])
  BY RoomFields
<1> QED
  BY <1>4, <1>5, <1>6, <1>7, Zenon

LEMMA RoomEscape == ASSUME NEW p, RoomKept(p), NEW b PROVE RoomKept(InEscape(p, b))
<1>1. PICK q : q = [p EXCEPT !.esc = Append(@, b)]
  OBVIOUS
<1>2. RoomKept(q)
  BY <1>1, RoomFields
<1>3. PICK q1 : q1 = [q EXCEPT !.st = "string"]
  OBVIOUS
<1>4. PICK q2 : q2 = [q1 EXCEPT !.str = <<>>]
  OBVIOUS
<1>5. PICK q3 : q3 = [q2 EXCEPT !.ended = FALSE]
  OBVIOUS
<1>6. PICK q4 : q4 = [q3 EXCEPT !.esc = <<>>]
  OBVIOUS
<1>7. RoomKept(q4)
  <2>1. RoomKept(q1)
    BY <1>2, <1>3, RoomFields
  <2>2. RoomKept(q2)
    BY <1>4, <2>1, RoomFields
  <2>3. RoomKept(q3)
    BY <1>5, <2>2, RoomFields
  <2> QED
    BY <1>6, <2>3, RoomFields
<1>8. [q EXCEPT !.st = "string", !.str = <<>>, !.ended = FALSE, !.esc = <<>>] = q4
  BY <1>3, <1>4, <1>5, <1>6
<1>9. RoomKept(InSt(q))
  <2>1. PICK e : e = EmitString(q)
    OBVIOUS
  <2>2. RoomKept(e) /\ RoomKept([e EXCEPT !.ended = FALSE])
    BY <1>2, <2>1, RoomSmall, RoomFields
  <2>3. InSt(q) = ResetEscape([e EXCEPT !.ended = FALSE]) \/ InSt(q) = ResetEscape(q)
    BY <2>1 DEF InSt
  <2> QED
    BY <1>2, <2>2, <2>3, RoomSmall
<1>10. RoomKept(InCsi(q))
  <2>1. \/ InCsi(q) = q \/ InCsi(q) = ResetEscape(q)
        \/ InCsi(q) = ResetEscape(Emit(q, [k |-> "csi", of |-> q.esc]))
    BY DEF InCsi
  <2> QED
    BY <1>2, <2>1, RoomSmall
<1>11. \/ InEscape(p, b) = [p EXCEPT !.esc = <<>>] \/ InEscape(p, b) = ResetEscape(p)
       \/ InEscape(p, b) = InSt(q) \/ InEscape(p, b) = q4 \/ InEscape(p, b) = InCsi(q)
       \/ InEscape(p, b) = q \/ InEscape(p, b) = ResetEscape(Emit(q, [k |-> "charset", of |-> q.esc]))
       \/ InEscape(p, b) = ResetEscape(Emit(q, [k |-> "esc", of |-> q.esc])) \/ InEscape(p, b) = ResetEscape(q)
  BY <1>1, <1>8 DEF InEscape
<1>12. RoomKept([p EXCEPT !.esc = <<>>]) /\ RoomKept(ResetEscape(p)) /\ RoomKept(ResetEscape(q))
  BY <1>2, RoomSmall, RoomFields
<1>13. ASSUME NEW a PROVE RoomKept(ResetEscape(Emit(q, a)))
  <2>1. RoomKept(Emit(q, a))
    BY <1>2, RoomSmall
  <2> QED
    BY <2>1, RoomSmall
<1> QED
  BY <1>2, <1>7, <1>9, <1>10, <1>11, <1>12, <1>13, Zenon

LEMMA RoomStays ==
    ASSUME NEW p, RoomKept(p), NEW b \in Bytes
    PROVE  RoomKept(OneByte(p, b))
<1>1. CASE p.st \in {"normal", "utf8", "escape"}
  <2>1. PICK w : w = <<b>>
    OBVIOUS
  <2>2. w[1] = b
    BY <2>1
  <2>3. \/ StepOn(p, w, 1) = [p |-> InNormal(p, w[1]), i |-> 1 + 1]
        \/ StepOn(p, w, 1) = [p |-> InUtf8(p, w[1]), i |-> 1 + 1]
        \/ StepOn(p, w, 1) = [p |-> InEscape(p, w[1]), i |-> 1 + 1]
    BY <1>1 DEF StepOn
  <2>4. \/ OneByte(p, b) = InNormal(p, b) \/ OneByte(p, b) = InUtf8(p, b)
        \/ OneByte(p, b) = InEscape(p, b)
    BY <2>1, <2>2, <2>3 DEF OneByte
  <2> QED
    BY <2>4, RoomNormal, RoomUtf8, RoomEscape
<1>2. CASE p.st \notin {"normal", "utf8", "escape"}
  <2>1. PICK w : w = <<b>>
    OBVIOUS
  <2>2. w[1] = b
    BY <2>1
  <2>3. StepOn(p, w, 1) = InString(p, w, 1)
    BY <1>2 DEF StepOn
  <2>4. CASE b \in {"bel", "esc"} \/ Len(p.str) = StringMax
    <3>1. PICK q : q = [p EXCEPT !.st = "escape"]
      OBVIOUS
    <3>2. PICK q1 : q1 = [q EXCEPT !.ended = TRUE]
      OBVIOUS
    <3>3. PICK q2 : q2 = [q1 EXCEPT !.esc = <<>>]
      OBVIOUS
    <3>4. RoomKept(q1)
      BY <3>1, <3>2, RoomFields
    <3>5. RoomKept(q2) /\ q2 = [p EXCEPT !.st = "escape", !.ended = TRUE, !.esc = <<>>]
      BY <3>1, <3>2, <3>3, <3>4, RoomFields
    <3>6. RoomKept(ResetEscape(EmitString(p)))
      BY RoomSmall
    <3>7. b \notin {"bel", "esc"} => StringMax - Len(p.str) = 0
      <4>1. StringMax \in Nat
        BY ParserAssumption
      <4> QED
        BY <2>4, <4>1
    <3>8. \/ InString(p, w, 1) = [p |-> ResetEscape(EmitString(p)), i |-> 1 + 1]
          \/ InString(p, w, 1) = [p |-> q2, i |-> 1 + 1]
          \/ InString(p, w, 1) = [p |-> p, i |-> 1 + 1]
      BY <2>2, <2>4, <3>5, <3>7 DEF InString
    <3>9. \/ OneByte(p, b) = ResetEscape(EmitString(p)) \/ OneByte(p, b) = q2 \/ OneByte(p, b) = p
      BY <2>1, <2>3, <3>8 DEF OneByte
    <3> QED
      BY <3>5, <3>6, <3>9
  <2>5. CASE b \notin {"bel", "esc"} /\ Len(p.str) # StringMax
    <3>1. PICK a \in Seq(Bytes) : a = p.str
      BY DEF RoomKept
    <3>2. Len(a) \in Nat /\ StringMax \in Nat /\ Len(a) < StringMax
      BY <2>5, <3>1, ParserAssumption DEF RoomKept
    <3>3. PICK q : q = [p EXCEPT !.str = a \o <<b>>]
      OBVIOUS
    <3>4. OneByte(p, b) = q
      BY <1>2, <2>5, <3>1, <3>2, <3>3, InStringOne
    <3>5. PICK z \in Seq(Bytes) : z = <<b>> /\ Len(z) = 1
      <4>1. <<b>> \in Seq(Bytes) /\ Len(<<b>>) = 1
        OBVIOUS
      <4> QED
        BY <4>1
    <3>6. a \o z \in Seq(Bytes) /\ Len(a \o z) = Len(a) + Len(z)
      BY ConcatFacts
    <3>7. q = [h \in ParserFields |-> IF h = "str" THEN a \o <<b>> ELSE p[h]]
      BY <3>3 DEF RoomKept
    <3>8. q = [h \in ParserFields |-> q[h]] /\ q.str = a \o z
      BY <3>5, <3>7 DEF ParserFields
    <3>9. Len(q.str) <= StringMax
      BY <3>2, <3>5, <3>6, <3>8
    <3>10. RoomKept(q)
      BY <3>6, <3>8, <3>9 DEF RoomKept
    <3> QED
      BY <3>4, <3>10
  <2> QED
    BY <2>4, <2>5
<1> QED
  BY <1>1, <1>2

\* The fold of parseToActions over the positions of the buffer, on all sets of them.
StepFrom(a, w, i) == IF i < a.i THEN a ELSE StepOn(a.p, w, i)
ParsedBy(it, n, b, w) == it = [t \in SUBSET (1..n) |-> IF t = {} THEN b
                                                      ELSE StepFrom(it[t \ {Max(t)}], w, Max(t))]

LEMMA ParseExists ==
    ASSUME NEW n \in Nat, NEW b, NEW w
    PROVE  \E it : ParsedBy(it, n, b, w)
<1> DEFINE Has(m) == \E it : ParsedBy(it, m, b, w)
<1>1. Has(0)
  <2>1. SUBSET (1..0) = {{}}
    OBVIOUS
  <2>2. PICK it : it = [s \in {{}} |-> b]
    OBVIOUS
  <2> QED
    BY <2>1, <2>2 DEF ParsedBy
<1>2. ASSUME NEW m \in 0..(n - 1), Has(m) PROVE Has(m + 1)
  <2>1. PICK it : ParsedBy(it, m, b, w)
    BY <1>2
  <2>2. PICK jt : jt = [s \in SUBSET (1..(m + 1)) |->
                          IF m + 1 \in s THEN StepFrom(it[s \ {m + 1}], w, m + 1) ELSE it[s]]
    OBVIOUS
  <2>3. \A s \in SUBSET (1..(m + 1)) : /\ s \ {m + 1} \in SUBSET (1..m)
                                       /\ m + 1 \notin s => s \in SUBSET (1..m)
    OBVIOUS
  <2>4. \A s \in SUBSET (1..m) : jt[s] = it[s] /\ s \in SUBSET (1..(m + 1))
    <3>1. \A s \in SUBSET (1..m) : m + 1 \notin s /\ s \in SUBSET (1..(m + 1))
      OBVIOUS
    <3> QED
      BY <2>2, <3>1
  <2>5. ASSUME NEW s \in SUBSET (1..(m + 1))
        PROVE  jt[s] = IF s = {} THEN b ELSE StepFrom(jt[s \ {Max(s)}], w, Max(s))
    <3>1. CASE m + 1 \in s
      <4>0. m + 1 \in Nat /\ s # {}
        BY <3>1
      <4>1. Max(s) \in s /\ (\A i \in s : i <= Max(s))
        BY <4>0, LastOf
      <4>2. Max(s) = m + 1
        <5>1. \A x \in s : x \in Nat /\ x <= m + 1
          OBVIOUS
        <5>2. PICK x : x = Max(s)
          OBVIOUS
        <5>3. x \in Nat /\ m + 1 <= x /\ x <= m + 1
          BY <3>1, <4>1, <5>1, <5>2
        <5> QED
          BY <5>2, <5>3
      <4> QED
        BY <2>2, <2>3, <2>4, <3>1, <4>2
    <3>2. CASE m + 1 \notin s
      <4>1. s \in SUBSET (1..m) /\ s \ {Max(s)} \in SUBSET (1..m)
        BY <2>3, <3>2
      <4>2. it[s] = IF s = {} THEN b ELSE StepFrom(it[s \ {Max(s)}], w, Max(s))
        BY <2>1, <4>1 DEF ParsedBy
      <4> QED
        BY <2>4, <4>1, <4>2
    <3> QED
      BY <3>1, <3>2
  <2>6. jt = [s \in SUBSET (1..(m + 1)) |-> jt[s]]
    BY <2>2
  <2>7. ParsedBy(jt, m + 1, b, w)
    BY <2>5, <2>6 DEF ParsedBy
  <2> QED
    BY <2>7
<1> HIDE DEF Has
<1>3. {m \in 0..n : Has(m)} = 0..n
  <2>1. PICK T : T = {m \in 0..n : Has(m)}
    OBVIOUS
  <2>2. T \in SUBSET (0..n) /\ 0 \in T
    BY <1>1, <2>1
  <2>3. ASSUME NEW k \in 1..n, k - 1 \in T PROVE k \in T
    <3>1. k - 1 \in 0..(n - 1) /\ Has(k - 1) /\ (k - 1) + 1 = k
      BY <2>1, <2>3
    <3>2. Has((k - 1) + 1)
      BY <1>2, <3>1
    <3> QED
      BY <2>1, <3>1, <3>2
  <2> QED
    BY <2>1, <2>2, <2>3, StepByStep
<1>4. Has(n)
  BY <1>3
<1> QED
  BY <1>4 DEF Has

LEMMA ParseFolds ==
    ASSUME NEW w \in Seq(Bytes), NEW p
    PROVE  \E it : /\ ParsedBy(it, Len(w), [p |-> p, i |-> 1], w)
                   /\ ParseToActions(p, w) = it[1..Len(w)].p
<1>1. PICK n \in Nat : n = Len(w)
  OBVIOUS
<1>2. PICK s : s = [i \in DOMAIN w |-> i]
  OBVIOUS
<1>3. DOMAIN s = 1..n /\ \A i \in 1..n : s[i] = i
  BY <1>1, <1>2
<1>4. PICK b : b = [p |-> p, i |-> 1]
  OBVIOUS
<1> DEFINE E(it) == it = [t \in SUBSET (DOMAIN s) |->
                            IF t = {} THEN b
                            ELSE IF s[Max(t)] < it[t \ {Max(t)}].i THEN it[t \ {Max(t)}]
                                 ELSE StepOn(it[t \ {Max(t)}].p, w, s[Max(t)])]
<1>5. ASSUME NEW it PROVE E(it) <=> ParsedBy(it, n, b, w)
  <2>1. PICK a : a = [t \in SUBSET (DOMAIN s) |->
                            IF t = {} THEN b
                            ELSE IF s[Max(t)] < it[t \ {Max(t)}].i THEN it[t \ {Max(t)}]
                                 ELSE StepOn(it[t \ {Max(t)}].p, w, s[Max(t)])]
    OBVIOUS
  <2>2. PICK c : c = [t \in SUBSET (1..n) |-> IF t = {} THEN b
                                              ELSE StepFrom(it[t \ {Max(t)}], w, Max(t))]
    OBVIOUS
  <2>3. ASSUME NEW t \in SUBSET (1..n) PROVE a[t] = c[t]
    <3>1. CASE t = {}
      BY <1>3, <2>1, <2>2, <3>1
    <3>2. CASE t # {}
      <4>1. Max(t) \in 1..n
        BY <3>2, LastOf
      <4>2. s[Max(t)] = Max(t)
        BY <1>3, <4>1
      <4> QED
        BY <1>3, <2>1, <2>2, <3>2, <4>2 DEF StepFrom
    <3> QED
      BY <3>1, <3>2
  <2>4. a = c
    BY <1>3, <2>1, <2>2, <2>3
  <2> QED
    BY <2>1, <2>2, <2>4 DEF ParsedBy
<1>6. \E it : E(it)
  <2>1. PICK it : ParsedBy(it, n, b, w)
    BY ParseExists
  <2>2. E(it)
    BY <1>5, <2>1
  <2> QED
    BY <2>2
<1>7. PICK jt : jt = (CHOOSE it : E(it))
  OBVIOUS
<1>8. E(jt)
  BY <1>6, <1>7
<1>9. jt[DOMAIN s] = FoldLeft(LAMBDA a, i : IF i < a.i THEN a ELSE StepOn(a.p, w, i), b, s)
  BY <1>7 DEF FoldLeft, MapThenFoldSet
<1>10. ParseToActions(p, w) = jt[DOMAIN s].p
  BY <1>2, <1>4, <1>9 DEF ParseToActions
<1> HIDE DEF E
<1> QED
  BY <1>1, <1>3, <1>4, <1>5, <1>8, <1>10

LEMMA ParseRuns ==
    ASSUME NEW w \in Seq(Bytes), NEW p, RoomKept(p), NEW q, Runs(p, w, q)
    PROVE  ParseToActions(p, w) = q /\ RoomKept(q)
<1>1. PICK f : Along(f, w) /\ f[0] = p /\ f[Len(w)] = q
  BY DEF Runs
<1>2. PICK n \in Nat : n = Len(w)
  OBVIOUS
<1>3. ASSUME NEW i \in 0..n PROVE RoomKept(f[i])
  <2>1. PICK T : T = {m \in 0..n : RoomKept(f[m])}
    OBVIOUS
  <2>2. 0 \in T /\ T \in SUBSET (0..n)
    BY <1>1, <2>1
  <2>3. ASSUME NEW k \in 1..n, k - 1 \in T PROVE k \in T
    <3>1. f[k] = OneByte(f[k - 1], w[k]) /\ RoomKept(f[k - 1]) /\ w[k] \in Bytes
      BY <1>1, <1>2, <2>1, <2>3 DEF Along
    <3>2. RoomKept(f[k])
      BY <3>1, RoomStays
    <3> QED
      BY <2>1, <3>2
  <2>4. T = 0..n
    BY <2>2, <2>3, StepByStep
  <2> QED
    BY <2>1, <2>4
<1>4. PICK b : b = [p |-> p, i |-> 1]
  OBVIOUS
<1>5. PICK it : ParsedBy(it, n, b, w) /\ ParseToActions(p, w) = it[1..n].p
  BY <1>2, <1>4, ParseFolds
<1>6. PICK acc : acc = [j \in 0..n |-> [p |-> f[j], i |-> j + 1]]
  OBVIOUS
<1>7. \A j \in 0..n : acc[j].p = f[j] /\ acc[j].i = j + 1 /\ acc[j] = [p |-> f[j], i |-> j + 1]
  BY <1>6
<1>8. PICK T : T = {k \in 0..n : \E j \in k..n : it[1..k] = acc[j]}
  OBVIOUS
<1>9. 0 \in T
  <2>1. 1..0 = {} /\ 0 \in 0..n /\ 0 + 1 = 1
    OBVIOUS
  <2>2. it[1..0] = b
    <3>1. {} \in SUBSET (1..n)
      OBVIOUS
    <3> QED
      BY <1>5, <2>1, <3>1 DEF ParsedBy
  <2>3. it[1..0] = acc[0]
    BY <1>1, <1>4, <1>7, <2>1, <2>2
  <2> QED
    BY <1>8, <2>1, <2>3
<1>10. ASSUME NEW k \in 1..n, k - 1 \in T PROVE k \in T
  <2>1. PICK j \in (k - 1)..n : it[1..(k - 1)] = acc[j]
    BY <1>8, <1>10
  <2>5. j \in 0..n /\ acc[j].p = f[j] /\ acc[j].i = j + 1
    <3>1. j \in 0..n
      OBVIOUS
    <3> QED
      BY <1>7, <3>1
  <2>2. it[1..k] = StepFrom(it[1..(k - 1)], w, k)
    <3>1. PICK t : t = 1..k
      OBVIOUS
    <3>2. t \in SUBSET (1..n) /\ t # {} /\ k \in t
      <4>1. k \in 1..k /\ \A i \in 1..k : i \in 1..n
        OBVIOUS
      <4> QED
        BY <3>1, <4>1
    <3>3. Max(t) \in t /\ \A i \in t : i <= Max(t)
      BY <3>2, LastOf
    <3>4. Max(t) = k
      <4>1. \A x \in t : x \in Nat /\ x <= k
        BY <3>1
      <4>2. PICK x : x = Max(t)
        OBVIOUS
      <4>3. x \in Nat /\ k <= x /\ x <= k
        BY <3>2, <3>3, <4>1, <4>2
      <4> QED
        BY <4>2, <4>3
    <3>5. t \ {k} = 1..(k - 1)
      BY <3>1
    <3>6. it[t] = StepFrom(it[t \ {Max(t)}], w, Max(t))
      BY <1>5, <3>2 DEF ParsedBy
    <3> QED
      BY <3>1, <3>4, <3>5, <3>6
  <2>3. CASE k <= j
    <3>1. k < j + 1 /\ j \in k..n
      BY <2>3
    <3>2. it[1..k] = acc[j]
      BY <2>1, <2>2, <2>5, <3>1 DEF StepFrom
    <3> QED
      BY <1>8, <3>1, <3>2
  <2>4. CASE ~(k <= j)
    <3>1. j = k - 1 /\ ~(k < j + 1)
      BY <2>4
    <3>2. it[1..k] = StepOn(f[k - 1], w, k)
      BY <2>1, <2>2, <2>5, <3>1 DEF StepFrom
    <3>3. PICK m \in k..n : StepOn(f[k - 1], w, k) = [p |-> f[m], i |-> m + 1]
      BY <1>1, <1>2, <1>3, StepIsAlong
    <3>4. m \in 0..n
      OBVIOUS
    <3>5. it[1..k] = acc[m]
      BY <1>7, <3>2, <3>3, <3>4
    <3> QED
      BY <1>8, <3>5
  <2> QED
    BY <2>3, <2>4
<1>11. T = 0..n
  BY <1>8, <1>9, <1>10, StepByStep
<1>12. n \in T /\ \A j \in n..n : j = n
  BY <1>11
<1>13. it[1..n] = acc[n] /\ n \in 0..n
  BY <1>8, <1>12
<1> QED
  BY <1>1, <1>2, <1>3, <1>5, <1>13, <1>7

\* What is sent, byte by byte.
State(st, esc, utf, str, ended, out) ==
    [st |-> st, esc |-> esc, utf |-> utf, str |-> str, ended |-> ended, out |-> out]
Blank == <<>>
Open == FALSE
Closed == TRUE
Rest(o) == State("normal", Blank, Blank, Blank, Open, o)
Escaped(esc, out) == State("escape", esc, Blank, Blank, Open, out)
Kinds == {"print", "control", "csi", "charset", "esc", "string"}
Acts == [k : Kinds, of : Seq(Bytes)]
Act(k, of) == [k |-> k, of |-> of]
WithSt(p, v) == [p EXCEPT !.st = v]
WithEsc(p, v) == [p EXCEPT !.esc = v]
WithUtf(p, v) == [p EXCEPT !.utf = v]
WithStr(p, v) == [p EXCEPT !.str = v]
WithEnded(p, v) == [p EXCEPT !.ended = v]
WithOut(p, v) == [p EXCEPT !.out = v]

LEMMA StateFields ==
    ASSUME NEW st, NEW esc, NEW utf, NEW str, NEW ended, NEW out, NEW v
    PROVE  /\ WithSt(State(st, esc, utf, str, ended, out), v) = State(v, esc, utf, str, ended, out)
           /\ WithEsc(State(st, esc, utf, str, ended, out), v) = State(st, v, utf, str, ended, out)
           /\ WithUtf(State(st, esc, utf, str, ended, out), v) = State(st, esc, v, str, ended, out)
           /\ WithStr(State(st, esc, utf, str, ended, out), v) = State(st, esc, utf, v, ended, out)
           /\ WithEnded(State(st, esc, utf, str, ended, out), v) = State(st, esc, utf, str, v, out)
           /\ WithOut(State(st, esc, utf, str, ended, out), v) = State(st, esc, utf, str, ended, v)
<1> DEFINE p == State(st, esc, utf, str, ended, out)
<1>1. WithSt(p, v) = State(v, esc, utf, str, ended, out)
  BY DEF State, WithSt
<1>2. WithEsc(p, v) = State(st, v, utf, str, ended, out)
  BY DEF State, WithEsc
<1>3. WithUtf(p, v) = State(st, esc, v, str, ended, out)
  BY DEF State, WithUtf
<1>4. WithStr(p, v) = State(st, esc, utf, v, ended, out)
  BY DEF State, WithStr
<1>5. WithEnded(p, v) = State(st, esc, utf, str, v, out)
  BY DEF State, WithEnded
<1>6. WithOut(p, v) = State(st, esc, utf, str, ended, v)
  BY DEF State, WithOut
<1> QED
  BY <1>1, <1>2, <1>3, <1>4, <1>5, <1>6, Zenon

LEMMA StateHas ==
    ASSUME NEW st, NEW esc, NEW utf, NEW str, NEW ended, NEW out, NEW p, p = State(st, esc, utf, str, ended, out)
    PROVE  p.st = st /\ p.esc = esc /\ p.utf = utf /\ p.str = str /\ p.ended = ended /\ p.out = out
  BY DEF State

LEMMA Parts ==
    ASSUME NEW p, NEW a
    PROVE  /\ Emit(p, a) = WithOut(p, Append(p.out, a))
           /\ ResetEscape(p) = WithEsc(WithSt(p, "normal"), Blank)
           /\ EmitString(p) = WithStr(Emit(p, Act("string", p.str)), Blank)
           /\ [p EXCEPT !.st = "normal", !.utf = <<>>] = WithUtf(WithSt(p, "normal"), Blank)
           /\ [p EXCEPT !.st = "string", !.str = <<>>, !.ended = FALSE, !.esc = <<>>] =
                 WithEsc(WithEnded(WithStr(WithSt(p, "string"), Blank), Open), Blank)
           /\ [p EXCEPT !.st = "escape", !.ended = TRUE, !.esc = <<>>] =
                 WithEsc(WithEnded(WithSt(p, "escape"), Closed), Blank)
<1>1. Emit(p, a) = WithOut(p, Append(p.out, a))
  BY DEF Emit, WithOut
<1>2. ResetEscape(p) = WithEsc(WithSt(p, "normal"), Blank)
  BY DEF ResetEscape, WithEsc, WithSt, Blank
<1>3. EmitString(p) = WithStr(Emit(p, Act("string", p.str)), Blank)
  BY DEF EmitString, WithStr, Blank, Act
<1>4. [p EXCEPT !.st = "normal", !.utf = <<>>] = WithUtf(WithSt(p, "normal"), Blank)
  BY DEF WithUtf, WithSt, Blank
<1>5. [p EXCEPT !.st = "string", !.str = <<>>, !.ended = FALSE, !.esc = <<>>] =
        WithEsc(WithEnded(WithStr(WithSt(p, "string"), Blank), Open), Blank)
  BY DEF WithEsc, WithEnded, WithStr, WithSt, Blank, Open
<1>6. [p EXCEPT !.st = "escape", !.ended = TRUE, !.esc = <<>>] =
        WithEsc(WithEnded(WithSt(p, "escape"), Closed), Blank)
  BY DEF WithEsc, WithEnded, WithSt, Blank, Closed
<1> QED
  BY <1>1, <1>2, <1>3, <1>4, <1>5, <1>6, Zenon

LEMMA Small ==
    ASSUME NEW st, NEW esc, NEW utf, NEW str, NEW ended, NEW out, NEW p, p = State(st, esc, utf, str, ended, out)
    PROVE  /\ \A a : Emit(p, a) = State(st, esc, utf, str, ended, Append(out, a))
           /\ ResetEscape(p) = State("normal", Blank, utf, str, ended, out)
           /\ \A a : a = Act("string", str) => EmitString(p) = State(st, esc, utf, Blank, ended, Append(out, a))
<1>1. ASSUME NEW x PROVE Emit(p, x) = State(st, esc, utf, str, ended, Append(out, x))
  <2>1. p.out = out
    BY StateHas
  <2>2. Emit(p, x) = WithOut(p, Append(p.out, x))
    BY Parts
  <2> QED
    BY <2>1, <2>2, StateFields
<1>2. ResetEscape(p) = State("normal", Blank, utf, str, ended, out)
  <2>1. ResetEscape(p) = WithEsc(WithSt(p, "normal"), Blank)
    BY Parts
  <2> QED
    BY <2>1, StateFields
<1>3. ASSUME NEW x, x = Act("string", str) PROVE EmitString(p) = State(st, esc, utf, Blank, ended, Append(out, x))
  <2>1. p.str = str
    BY StateHas
  <2>2. EmitString(p) = WithStr(Emit(p, x), Blank)
    BY <1>3, <2>1 DEF EmitString, WithStr, Blank, Act
  <2> QED
    BY <1>1, <2>2, StateFields
<1> QED
  BY <1>1, <1>2, <1>3

LEMMA SameAs ==
    ASSUME NEW S, NEW x \in Seq(S), NEW y \in Seq(S), NEW n \in Nat, Len(x) = n, Len(y) = n,
           \A i \in 1..n : x[i] = y[i]
    PROVE  x = y
<1>1. x = [i \in 1..n |-> x[i]] /\ y = [i \in 1..n |-> y[i]]
  OBVIOUS
<1> QED
  BY <1>1

LEMMA AppendFacts ==
    ASSUME NEW S, NEW s \in Seq(S), NEW e \in S
    PROVE  /\ Append(s, e) \in Seq(S) /\ Len(Append(s, e)) = Len(s) + 1
           /\ \A i \in 1..Len(s) : Append(s, e)[i] = s[i]
           /\ Append(s, e)[Len(s) + 1] = e
  OBVIOUS

LEMMA Pair ==
    ASSUME NEW S, NEW a \in S, NEW b \in S
    PROVE  Append(<<a>>, b) = <<a, b>>
<1>1. <<a>> \in Seq(S) /\ Len(<<a>>) = 1 /\ <<a>>[1] = a
  OBVIOUS
<1>2. <<a, b>> \in Seq(S) /\ Len(<<a, b>>) = 2 /\ <<a, b>>[1] = a /\ <<a, b>>[2] = b
  OBVIOUS
<1>3. PICK x \in Seq(S) : x = <<a>>
  BY <1>1
<1>4. PICK z : z = Append(x, b)
  OBVIOUS
<1>5. Len(x) = 1 /\ x[1] = a /\ 1 + 1 = 2 /\ 1 \in 1..1
  BY <1>1, <1>3
<1>6. z \in Seq(S) /\ Len(z) = 2 /\ z[1] = a /\ z[2] = b
  <2>1. /\ Append(x, b) \in Seq(S) /\ Len(Append(x, b)) = Len(x) + 1
        /\ \A i \in 1..Len(x) : Append(x, b)[i] = x[i]
        /\ Append(x, b)[Len(x) + 1] = b
    BY AppendFacts
  <2> QED
    BY <1>4, <1>5, <2>1
<1>7. \A i \in 1..2 : i = 1 \/ i = 2
  OBVIOUS
<1>8. \A i \in 1..2 : z[i] = <<a, b>>[i]
  BY <1>2, <1>6, <1>7
<1> QED
  BY <1>2, <1>3, <1>4, <1>6, <1>8, SameAs

LEMMA Triple ==
    ASSUME NEW S, NEW a \in S, NEW b \in S, NEW c \in S
    PROVE  Append(<<a, b>>, c) = <<a, b, c>>
<1>1. <<a, b>> \in Seq(S) /\ Len(<<a, b>>) = 2 /\ <<a, b>>[1] = a /\ <<a, b>>[2] = b
  OBVIOUS
<1>2. /\ <<a, b, c>> \in Seq(S) /\ Len(<<a, b, c>>) = 3
      /\ <<a, b, c>>[1] = a /\ <<a, b, c>>[2] = b /\ <<a, b, c>>[3] = c
  OBVIOUS
<1>3. PICK x \in Seq(S) : x = <<a, b>>
  BY <1>1
<1>4. PICK z : z = Append(x, c)
  OBVIOUS
<1>5. Len(x) = 2 /\ x[1] = a /\ x[2] = b /\ 2 + 1 = 3 /\ 1 \in 1..2 /\ 2 \in 1..2
  BY <1>1, <1>3
<1>6. z \in Seq(S) /\ Len(z) = 3 /\ z[1] = a /\ z[2] = b /\ z[3] = c
  <2>1. /\ Append(x, c) \in Seq(S) /\ Len(Append(x, c)) = Len(x) + 1
        /\ \A i \in 1..Len(x) : Append(x, c)[i] = x[i]
        /\ Append(x, c)[Len(x) + 1] = c
    BY AppendFacts
  <2> QED
    BY <1>4, <1>5, <2>1
<1>7. \A i \in 1..3 : i = 1 \/ i = 2 \/ i = 3
  OBVIOUS
<1>8. \A i \in 1..3 : z[i] = <<a, b, c>>[i]
  BY <1>2, <1>6, <1>7
<1> QED
  BY <1>2, <1>3, <1>4, <1>6, <1>8, SameAs

LEMMA Appended ==
    ASSUME NEW a \in Bytes, NEW b \in Bytes, NEW c \in Bytes
    PROVE  Append(<<>>, a) = <<a>> /\ Append(<<a>>, b) = <<a, b>> /\ Append(<<a, b>>, c) = <<a, b, c>>
<1>1. Append(<<>>, a) = <<a>>
  OBVIOUS
<1> QED
  BY <1>1, Pair, Triple

LEMMA OneByteIs ==
    ASSUME NEW p, NEW b
    PROVE  /\ p.st = "normal" => OneByte(p, b) = InNormal(p, b)
           /\ p.st = "utf8" => OneByte(p, b) = InUtf8(p, b)
           /\ p.st = "escape" => OneByte(p, b) = InEscape(p, b)
           /\ p.st = "string" /\ b = "bel" => OneByte(p, b) = ResetEscape(EmitString(p))
           /\ p.st = "string" /\ b = "esc" =>
                 OneByte(p, b) = [p EXCEPT !.st = "escape", !.ended = TRUE, !.esc = <<>>]
           /\ p.st = "string" /\ b \notin {"bel", "esc"} /\ StringMax - Len(p.str) = 0 => OneByte(p, b) = p
<1>1. PICK w : w = <<b>>
  OBVIOUS
<1>2. w[1] = b
  BY <1>1
<1>3. CASE p.st = "normal"
  BY <1>1, <1>2, <1>3 DEF OneByte, StepOn
<1>4. CASE p.st = "utf8"
  BY <1>1, <1>2, <1>4 DEF OneByte, StepOn
<1>5. CASE p.st = "escape"
  BY <1>1, <1>2, <1>5 DEF OneByte, StepOn
<1>6. CASE p.st = "string"
  <2>1. OneByte(p, b) = InString(p, w, 1).p
    BY <1>1, <1>6 DEF OneByte, StepOn
  <2>2. b = "bel" => InString(p, w, 1) = [p |-> ResetEscape(EmitString(p)), i |-> 1 + 1]
    BY <1>2 DEF InString
  <2>3. b = "esc" => InString(p, w, 1) = [p |-> [p EXCEPT !.st = "escape", !.ended = TRUE, !.esc = <<>>], i |-> 1 + 1]
    BY <1>2 DEF InString
  <2>4. b \notin {"bel", "esc"} /\ StringMax - Len(p.str) = 0 => InString(p, w, 1) = [p |-> p, i |-> 1 + 1]
    BY <1>2 DEF InString
  <2> QED
    BY <1>6, <2>1, <2>2, <2>3, <2>4
<1> QED
  BY <1>3, <1>4, <1>5, <1>6


LEMMA FromRest ==
    ASSUME NEW o
    PROVE  /\ OneByte(Rest(o), "x") = Rest(Append(o, Act("print", <<"x">>)))
           /\ OneByte(Rest(o), "bel") = Rest(Append(o, Act("control", <<"bel">>)))
           /\ OneByte(Rest(o), "esc") = Escaped(Blank, o)
           /\ \A b \in {"u2", "u3"} : OneByte(Rest(o), b) = State("utf8", Blank, <<b>>, Blank, Open, o)
<1>1. PICK p : p = Rest(o)
  OBVIOUS
<1>2. \A b : OneByte(p, b) = InNormal(p, b)
  <2>1. p.st = "normal"
    BY <1>1, StateHas DEF Rest
  <2> QED
    BY <2>1, OneByteIs
<1> QED
  BY <1>1, <1>2 DEF InNormal, Emit, Rest, Escaped, State, Blank, Open, Act

LEMMA FromUtf8 ==
    ASSUME NEW o
    PROVE  /\ \A utf : \A b : b # "u" => OneByte(State("utf8", Blank, utf, Blank, Open, o), b) = OneByte(Rest(o), b)
           /\ OneByte(State("utf8", Blank, <<"u2">>, Blank, Open, o), "u") =
                 Rest(Append(o, Act("print", <<"u2", "u">>)))
           /\ OneByte(State("utf8", Blank, <<"u3">>, Blank, Open, o), "u") =
                 State("utf8", Blank, <<"u3", "u">>, Blank, Open, o)
           /\ OneByte(State("utf8", Blank, <<"u3", "u">>, Blank, Open, o), "u") =
                 Rest(Append(o, Act("print", <<"u3", "u", "u">>)))
<1>1. ASSUME NEW utf, NEW b
      PROVE  OneByte(State("utf8", Blank, utf, Blank, Open, o), b) = InUtf8(State("utf8", Blank, utf, Blank, Open, o), b)
  <2>1. PICK p : p = State("utf8", Blank, utf, Blank, Open, o)
    OBVIOUS
  <2>2. p.st = "utf8"
    BY <2>1, StateHas
  <2>3. OneByte(p, b) = InUtf8(p, b)
    BY <2>2, OneByteIs
  <2> QED
    BY <2>1, <2>3
<1>2. ASSUME NEW utf, NEW b, b # "u"
      PROVE  OneByte(State("utf8", Blank, utf, Blank, Open, o), b) = OneByte(Rest(o), b)
  <2>1. PICK p : p = State("utf8", Blank, utf, Blank, Open, o)
    OBVIOUS
  <2>2. [p EXCEPT !.st = "normal", !.utf = <<>>] = Rest(o)
    <3>1. [p EXCEPT !.st = "normal", !.utf = <<>>] = WithUtf(WithSt(p, "normal"), Blank)
      BY Parts
    <3> QED
      BY <2>1, <3>1, StateFields DEF Rest
  <2>3. InUtf8(p, b) = InNormal(Rest(o), b)
    BY <1>2, <2>2 DEF InUtf8
  <2>4. OneByte(Rest(o), b) = InNormal(Rest(o), b)
    <3>1. PICK q : q = Rest(o)
      OBVIOUS
    <3>2. q.st = "normal"
      BY <3>1, StateHas DEF Rest
    <3> QED
      BY <3>1, <3>2, OneByteIs
  <2>5. OneByte(p, b) = InUtf8(p, b)
    BY <1>1, <2>1
  <2> QED
    BY <2>1, <2>3, <2>4, <2>5
<1>3. ASSUME NEW utf, NEW p, p = State("utf8", Blank, utf, Blank, Open, o), NEW u, u = Append(utf, "u"),
             NEW l \in 1..3, l = Len(u), NEW n \in 1..3, n = LeadLength(u[1])
      PROVE  /\ l = n => InUtf8(p, "u") = Rest(Append(o, Act("print", u)))
             /\ l < n => InUtf8(p, "u") = State("utf8", Blank, u, Blank, Open, o)
  <2>1. [p EXCEPT !.st = "normal", !.utf = <<>>] = Rest(o) /\ Append(p.utf, "u") = u
    <3>1. p.utf = utf
      BY <1>3, StateHas
    <3>2. WithUtf(WithSt(p, "normal"), Blank) = Rest(o)
      BY <1>3, StateFields DEF Rest
    <3>3. [p EXCEPT !.st = "normal", !.utf = <<>>] = WithUtf(WithSt(p, "normal"), Blank)
      BY Parts
    <3> QED
      BY <1>3, <3>1, <3>2, <3>3
  <2>6. PICK a : a = Act("print", u)
    OBVIOUS
  <2>2. Emit(Rest(o), a) = Rest(Append(o, a))
    BY Small DEF Rest
  <2>3. WithUtf(p, u) = State("utf8", Blank, u, Blank, Open, o)
    BY <1>3, StateFields
  <2>7. PICK d : d = [p EXCEPT !.st = "normal", !.utf = <<>>]
    OBVIOUS
  <2>8. PICK v : v = Append(p.utf, "u")
    OBVIOUS
  <2>9. PICK x : x = [p EXCEPT !.utf = v]
    OBVIOUS
  <2>10. PICK y : y = Act("print", v)
    OBVIOUS
  <2>11. InUtf8(p, "u") = CASE "u" # "u" -> InNormal(d, "u")
                            [] "u" = "u" /\ Len(v) = LeadLength(v[1]) -> Emit(d, y)
                            [] "u" = "u" /\ (Len(v) >= 6 \/ Len(v) > LeadLength(v[1])) -> d
                            [] OTHER -> x
    BY <2>7, <2>8, <2>9, <2>10 DEF InUtf8
  <2>12. v = u /\ x = WithUtf(p, u) /\ y = a
    <3>1. v = u
      BY <2>1, <2>8
    <3>2. x = WithUtf(p, u)
      BY <2>9, <3>1, Zenon DEF WithUtf
    <3>3. y = a
      BY <2>6, <2>10, <3>1
    <3> QED
      BY <3>1, <3>2, <3>3
  <2>5. /\ l = n => InUtf8(p, "u") = Emit(Rest(o), a)
        /\ l < n => InUtf8(p, "u") = WithUtf(p, u)
    <3>1. InUtf8(p, "u") = CASE "u" # "u" -> InNormal(d, "u")
                            [] "u" = "u" /\ l = n -> Emit(d, a)
                            [] "u" = "u" /\ (l >= 6 \/ l > n) -> d
                            [] OTHER -> WithUtf(p, u)
      BY <1>3, <2>11, <2>12
    <3>2. d = Rest(o)
      BY <2>1, <2>7
    <3>3. l = n => ~(l >= 6 \/ l > n)
      OBVIOUS
    <3>4. l < n => ~(l >= 6 \/ l > n) /\ l # n
      OBVIOUS
    <3>5. l = n => InUtf8(p, "u") = Emit(d, a)
      BY <3>1, <3>3
    <3>6. l < n => InUtf8(p, "u") = WithUtf(p, u)
      BY <3>1, <3>4
    <3> QED
      BY <3>2, <3>5, <3>6
  <2> QED
    BY <2>2, <2>3, <2>5, <2>6
<1>4. /\ Append(<<"u2">>, "u") = <<"u2", "u">> /\ Append(<<"u3">>, "u") = <<"u3", "u">>
      /\ Append(<<"u3", "u">>, "u") = <<"u3", "u", "u">>
  BY Appended DEF Bytes
<1>5. PICK u : u = <<"u2", "u">>
  OBVIOUS
<1>6. PICK v : v = <<"u3", "u">>
  OBVIOUS
<1>7. PICK w : w = <<"u3", "u", "u">>
  OBVIOUS
<1>8. Len(u) = 2 /\ u[1] = "u2" /\ Len(v) = 2 /\ v[1] = "u3" /\ Len(w) = 3 /\ w[1] = "u3"
  BY <1>5, <1>6, <1>7
<1>9. LeadLength("u2") = 2 /\ LeadLength("u3") = 3
  BY DEF LeadLength
<1>10. InUtf8(State("utf8", Blank, <<"u2">>, Blank, Open, o), "u") = Rest(Append(o, Act("print", u)))
  <2>1. PICK x : x = <<"u2">>
    OBVIOUS
  <2>2. PICK p : p = State("utf8", Blank, x, Blank, Open, o)
    OBVIOUS
  <2>3. u = Append(x, "u") /\ Len(u) = 2 /\ LeadLength(u[1]) = 2 /\ 2 \in 1..3
    BY <1>4, <1>5, <1>8, <1>9, <2>1
  <2>4. InUtf8(p, "u") = Rest(Append(o, Act("print", u)))
    BY <1>3, <2>2, <2>3
  <2> QED
    BY <2>1, <2>2, <2>4
<1>11. InUtf8(State("utf8", Blank, <<"u3">>, Blank, Open, o), "u") = State("utf8", Blank, v, Blank, Open, o)
  <2>1. PICK x : x = <<"u3">>
    OBVIOUS
  <2>2. PICK p : p = State("utf8", Blank, x, Blank, Open, o)
    OBVIOUS
  <2>3. v = Append(x, "u") /\ Len(v) = 2 /\ LeadLength(v[1]) = 3 /\ 2 \in 1..3 /\ 3 \in 1..3 /\ 2 < 3
    BY <1>4, <1>6, <1>8, <1>9, <2>1
  <2>4. InUtf8(p, "u") = State("utf8", Blank, v, Blank, Open, o)
    BY <1>3, <2>2, <2>3
  <2> QED
    BY <2>1, <2>2, <2>4
<1>12. InUtf8(State("utf8", Blank, <<"u3", "u">>, Blank, Open, o), "u") = Rest(Append(o, Act("print", w)))
  <2>2. PICK p : p = State("utf8", Blank, v, Blank, Open, o)
    OBVIOUS
  <2>3. w = Append(v, "u") /\ Len(w) = 3 /\ LeadLength(w[1]) = 3 /\ 3 \in 1..3
    BY <1>4, <1>6, <1>7, <1>8, <1>9
  <2>4. InUtf8(p, "u") = Rest(Append(o, Act("print", w)))
    BY <1>3, <2>2, <2>3
  <2> QED
    BY <1>6, <2>2, <2>4
<1>13. /\ OneByte(State("utf8", Blank, <<"u2">>, Blank, Open, o), "u") =
             Rest(Append(o, Act("print", <<"u2", "u">>)))
       /\ OneByte(State("utf8", Blank, <<"u3">>, Blank, Open, o), "u") =
             State("utf8", Blank, <<"u3", "u">>, Blank, Open, o)
  BY <1>1, <1>5, <1>6, <1>10, <1>11
<1>14. OneByte(State("utf8", Blank, <<"u3", "u">>, Blank, Open, o), "u") =
             Rest(Append(o, Act("print", <<"u3", "u", "u">>)))
  BY <1>1, <1>7, <1>12
<1> QED
  BY <1>2, <1>13, <1>14

Strung(q) == [q EXCEPT !.st = "string", !.str = <<>>, !.ended = FALSE, !.esc = <<>>]
Designated(q) == IF Len(q.esc) < 2 THEN q ELSE ResetEscape(Emit(q, Act("charset", q.esc)))
Dispatched(q, first) == CASE first = "\\" -> InSt(q)
                     [] first = "]" -> Strung(q)
                     [] first = "[" -> InCsi(q)
                     [] first = "(" -> Designated(q)
                     [] OTHER -> ResetEscape(IF first = "c" THEN Emit(q, Act("esc", q.esc)) ELSE q)

LEMMA DispatchedIs ==
    ASSUME NEW q
    PROVE  /\ Dispatched(q, "\\") = InSt(q)
           /\ Dispatched(q, "]") = Strung(q)
           /\ Dispatched(q, "[") = InCsi(q)
           /\ Dispatched(q, "(") = Designated(q)
           /\ Dispatched(q, "c") = ResetEscape(Emit(q, Act("esc", q.esc)))
  BY DEF Dispatched

LEMMA StrungIs ==
    ASSUME NEW st, NEW esc, NEW utf, NEW str, NEW ended, NEW out
    PROVE  Strung(State(st, esc, utf, str, ended, out)) = State("string", Blank, utf, Blank, Open, out)
<1>1. PICK q : q = State(st, esc, utf, str, ended, out)
  OBVIOUS
<1>2. WithEsc(WithEnded(WithStr(WithSt(q, "string"), Blank), Open), Blank) = State("string", Blank, utf, Blank, Open, out)
  BY <1>1, StateFields
<1>3. Strung(q) = WithEsc(WithEnded(WithStr(WithSt(q, "string"), Blank), Open), Blank)
  BY Parts DEF Strung
<1> QED
  BY <1>1, <1>2, <1>3

LEMMA EscapeAgain ==
    ASSUME NEW o, NEW e, NEW str, NEW ended
    PROVE  OneByte(State("escape", e, Blank, str, ended, o), "esc") = State("escape", Blank, Blank, str, ended, o)
<1>1. PICK p : p = State("escape", e, Blank, str, ended, o)
  OBVIOUS
<1>2. p.st = "escape"
  BY <1>1 DEF State
<1>3. OneByte(p, "esc") = InEscape(p, "esc")
  BY <1>2, OneByteIs
<1>4. WithEsc(p, Blank) = State("escape", Blank, Blank, str, ended, o)
  BY <1>1, StateFields
<1>5. [p EXCEPT !.esc = <<>>] = WithEsc(p, Blank)
  BY DEF WithEsc, Blank
<1>6. InEscape(p, "esc") = [p EXCEPT !.esc = <<>>]
  BY DEF InEscape
<1> QED
  BY <1>1, <1>3, <1>4, <1>5, <1>6

LEMMA EscapeOn ==
    ASSUME NEW o, NEW b, b # "esc", NEW e \in Seq(Bytes), Len(e) < EscapeMax, NEW str, NEW ended
    PROVE  OneByte(State("escape", e, Blank, str, ended, o), b) =
           Dispatched(State("escape", Append(e, b), Blank, str, ended, o), Append(e, b)[1])
<1>1. PICK p : p = State("escape", e, Blank, str, ended, o)
  OBVIOUS
<1>2. p.st = "escape" /\ p.esc = e
  BY <1>1 DEF State
<1>3. OneByte(p, b) = InEscape(p, b)
  BY <1>2, OneByteIs
<1>4. PICK v : v = Append(e, b)
  OBVIOUS
<1>5. PICK q : q = State("escape", v, Blank, str, ended, o)
  OBVIOUS
<1>6. [p EXCEPT !.esc = Append(@, b)] = q
  <2>1. [p EXCEPT !.esc = Append(@, b)] = [p EXCEPT !.esc = v]
    BY <1>2, <1>4
  <2>2. WithEsc(p, v) = q
    BY <1>1, <1>5, StateFields
  <2> QED
    BY <2>1, <2>2 DEF WithEsc
<1>7. q.esc = v
  BY <1>5 DEF State
<1>8. ~(Len(p.esc) >= EscapeMax) /\ Len(p.esc) < EscapeMax
  <2>1. Len(e) \in Nat /\ EscapeMax \in Nat
    BY ParserAssumption
  <2> QED
    BY <1>2, <2>1
<1>9. PICK x : x = [p EXCEPT !.esc = Append(@, b)]
  OBVIOUS
<1>10. PICK a : a = Emit(x, [k |-> "esc", of |-> x.esc])
  OBVIOUS
<1>11. a = Emit(x, Act("esc", x.esc))
  BY <1>10 DEF Act
<1>12. InEscape(p, b) = CASE b = "esc" -> [p EXCEPT !.esc = <<>>]
         [] b # "esc" /\ Len(p.esc) >= EscapeMax -> ResetEscape(p)
         [] b # "esc" /\ Len(p.esc) < EscapeMax /\ x.esc[1] = "\\" -> InSt(x)
         [] b # "esc" /\ Len(p.esc) < EscapeMax /\ x.esc[1] = "]" -> Strung(x)
         [] b # "esc" /\ Len(p.esc) < EscapeMax /\ x.esc[1] = "[" -> InCsi(x)
         [] b # "esc" /\ Len(p.esc) < EscapeMax /\ x.esc[1] = "(" -> Designated(x)
         [] OTHER -> ResetEscape(IF x.esc[1] = "c" THEN a ELSE x)
  BY <1>9, <1>10 DEF InEscape, Strung, Designated, Act
<1>13. InEscape(p, b) = Dispatched(x, x.esc[1])
  BY <1>8, <1>11, <1>12 DEF Dispatched
<1> QED
  BY <1>1, <1>3, <1>4, <1>5, <1>6, <1>7, <1>9, <1>13

LEMMA CsiOn ==
    ASSUME NEW o, NEW e, NEW n \in Nat, n = Len(e)
    PROVE  InCsi(Escaped(e, o)) = CASE n = 1 -> Escaped(e, o)
         [] n > 1 /\ e[n] \in Finals -> Rest(Append(o, Act("csi", e)))
         [] n > 1 /\ e[n] \notin Finals /\ (e[n] \notin Intermediates \/ n >= EscapeMax) -> Rest(o)
         [] OTHER -> Escaped(e, o)
<1>1. PICK q : q = Escaped(e, o)
  OBVIOUS
<1>2. q.esc = e
  BY <1>1 DEF Escaped, State
<1>3. Last(q.esc) = e[n] /\ Len(q.esc) = n
  BY <1>2 DEF Last
<1>4. ResetEscape(q) = Rest(o)
  BY <1>1, Small DEF Escaped, Rest
<1>5. PICK a : a = Act("csi", e)
  OBVIOUS
<1>6. Emit(q, a) = Escaped(e, Append(o, a))
  BY <1>1, Small DEF Escaped
<1>7. ResetEscape(Emit(q, a)) = Rest(Append(o, a))
  BY <1>6, Small DEF Escaped, Rest
<1>8. PICK z : z = ResetEscape(Emit(q, Act("csi", q.esc)))
  OBVIOUS
<1>9. z = Rest(Append(o, a))
  BY <1>2, <1>5, <1>7, <1>8
<1>10. InCsi(q) = CASE n = 1 -> q
         [] n > 1 /\ e[n] \in Finals -> z
         [] n > 1 /\ e[n] \notin Finals /\ (e[n] \notin Intermediates \/ n >= EscapeMax) -> ResetEscape(q)
         [] OTHER -> q
  BY <1>3, <1>8 DEF InCsi, Act
<1> QED
  BY <1>1, <1>4, <1>5, <1>9, <1>10

LEMMA CsiBegins ==
    ASSUME NEW o, NEW e, Len(e) = 1
    PROVE  InCsi(Escaped(e, o)) = Escaped(e, o)
<1>1. PICK n \in Nat : n = Len(e) /\ n = 1
  OBVIOUS
<1>2. PICK z : z = Rest(Append(o, Act("csi", e)))
  OBVIOUS
<1>3. ~(n > 1)
  BY <1>1
<1>4. InCsi(Escaped(e, o)) = CASE n = 1 -> Escaped(e, o)
         [] n > 1 /\ e[n] \in Finals -> z
         [] n > 1 /\ e[n] \notin Finals /\ (e[n] \notin Intermediates \/ n >= EscapeMax) -> Rest(o)
         [] OTHER -> Escaped(e, o)
  BY <1>1, <1>2, CsiOn
<1> QED
  BY <1>1, <1>3, <1>4

LEMMA CsiStays ==
    ASSUME NEW o, NEW e, NEW n \in Nat, n = Len(e), n > 1, e[n] \in Intermediates, n < EscapeMax
    PROVE  InCsi(Escaped(e, o)) = Escaped(e, o)
<1>1. e[n] \notin Finals /\ n # 1 /\ ~(n >= EscapeMax)
  BY ParserAssumption DEF Finals, Intermediates
<1>2. PICK z : z = Rest(Append(o, Act("csi", e)))
  OBVIOUS
<1>3. InCsi(Escaped(e, o)) = CASE n = 1 -> Escaped(e, o)
         [] n > 1 /\ e[n] \in Finals -> z
         [] n > 1 /\ e[n] \notin Finals /\ (e[n] \notin Intermediates \/ n >= EscapeMax) -> Rest(o)
         [] OTHER -> Escaped(e, o)
  BY <1>2, CsiOn
<1> QED
  BY <1>1, <1>3

LEMMA CsiFull ==
    ASSUME NEW o, NEW e, NEW n \in Nat, n = Len(e), n > 1, e[n] \in Intermediates, n >= EscapeMax
    PROVE  InCsi(Escaped(e, o)) = Rest(o)
<1>1. e[n] \notin Finals /\ n # 1
  BY DEF Finals, Intermediates
<1>2. PICK z : z = Rest(Append(o, Act("csi", e)))
  OBVIOUS
<1>3. InCsi(Escaped(e, o)) = CASE n = 1 -> Escaped(e, o)
         [] n > 1 /\ e[n] \in Finals -> z
         [] n > 1 /\ e[n] \notin Finals /\ (e[n] \notin Intermediates \/ n >= EscapeMax) -> Rest(o)
         [] OTHER -> Escaped(e, o)
  BY <1>2, CsiOn
<1> QED
  BY <1>1, <1>3

LEMMA CsiEnds ==
    ASSUME NEW o, NEW e, NEW n \in Nat, n = Len(e), n > 1, e[n] \in Finals
    PROVE  InCsi(Escaped(e, o)) = Rest(Append(o, Act("csi", e)))
<1>1. n # 1
  OBVIOUS
<1>2. PICK z : z = Rest(Append(o, Act("csi", e)))
  OBVIOUS
<1>3. InCsi(Escaped(e, o)) = CASE n = 1 -> Escaped(e, o)
         [] n > 1 /\ e[n] \in Finals -> z
         [] n > 1 /\ e[n] \notin Finals /\ (e[n] \notin Intermediates \/ n >= EscapeMax) -> Rest(o)
         [] OTHER -> Escaped(e, o)
  BY <1>2, CsiOn
<1> QED
  BY <1>1, <1>2, <1>3

LEMMA StOn ==
    ASSUME NEW o, NEW e, NEW str, NEW a, a = Act("string", str)
    PROVE  /\ InSt(State("escape", e, Blank, Blank, Open, o)) = Rest(o)
           /\ InSt(State("escape", e, Blank, str, Closed, o)) = Rest(Append(o, a))
<1>1. InSt(State("escape", e, Blank, Blank, Open, o)) = Rest(o)
  <2>1. PICK q : q = State("escape", e, Blank, Blank, Open, o)
    OBVIOUS
  <2>2. ~q.ended
    BY <2>1 DEF State, Open
  <2>3. InSt(q) = ResetEscape(q)
    BY <2>2 DEF InSt
  <2> QED
    BY <2>1, <2>3, Small DEF Rest
<1>2. InSt(State("escape", e, Blank, str, Closed, o)) = Rest(Append(o, a))
  <2>1. PICK q : q = State("escape", e, Blank, str, Closed, o)
    OBVIOUS
  <2>2. q.ended
    BY <2>1 DEF State, Closed
  <2>3. PICK r : r = EmitString(q)
    OBVIOUS
  <2>4. r = State("escape", e, Blank, Blank, Closed, Append(o, a))
    BY <2>1, <2>3, Small
  <2>5. InSt(q) = ResetEscape(WithEnded(r, FALSE))
    BY <2>2, <2>3 DEF InSt, WithEnded
  <2>6. WithEnded(r, Open) = State("escape", e, Blank, Blank, Open, Append(o, a))
    BY <2>4, StateFields
  <2>7. ResetEscape(WithEnded(r, Open)) = Rest(Append(o, a))
    BY <2>6, Small DEF Rest
  <2>8. InSt(q) = ResetEscape(WithEnded(r, Open))
    BY <2>5, Zenon DEF Open
  <2> QED
    BY <2>1, <2>7, <2>8
<1> QED
  BY <1>1, <1>2

LEMMA SameStart ==
    ASSUME NEW w \in Seq(Bytes), Len(w) >= 1, NEW p, NEW p2, NEW q, OneByte(p, w[1]) = OneByte(p2, w[1]), Runs(p2, w, q)
    PROVE  Runs(p, w, q)
<1>1. PICK f : Along(f, w) /\ f[0] = p2 /\ f[Len(w)] = q
  BY DEF Runs
<1>2. PICK n \in Nat : n = Len(w) /\ n >= 1
  OBVIOUS
<1>3. PICK g : g = [i \in 0..n |-> IF i = 0 THEN p ELSE f[i]]
  OBVIOUS
<1>4. g[0] = p /\ g[n] = q /\ \A i \in 1..n : g[i] = f[i]
  BY <1>1, <1>2, <1>3
<1>5. ASSUME NEW i \in 1..n PROVE g[i] = OneByte(g[i - 1], w[i])
  <2>1. f[i] = OneByte(f[i - 1], w[i])
    BY <1>1, <1>2 DEF Along
  <2>2. CASE i = 1
    BY <1>1, <1>4, <2>1, <2>2
  <2>3. CASE i # 1
    <3>1. i - 1 \in 1..n
      BY <2>3
    <3> QED
      BY <1>4, <2>1, <3>1
  <2> QED
    BY <2>2, <2>3
<1> QED
  BY <1>2, <1>4, <1>5 DEF Runs, Along

LEMMA RunsTwo ==
    ASSUME NEW p, NEW a \in Bytes, NEW b \in Bytes, NEW q, q = OneByte(p, a), NEW r, r = OneByte(q, b)
    PROVE  Runs(p, <<a, b>>, r)
<1>1. PICK x : x = <<a>>
  OBVIOUS
<1>2. PICK y : y = <<b>>
  OBVIOUS
<1>3. PICK z : z = <<a, b>>
  OBVIOUS
<1>4. x \in Seq(Bytes) /\ y \in Seq(Bytes) /\ z = x \o y
  <2>1. x \in Seq(Bytes) /\ y \in Seq(Bytes)
    BY <1>1, <1>2
  <2>2. Len(x) = 1 /\ x[1] = a /\ Len(y) = 1 /\ y[1] = b
    BY <1>1, <1>2
  <2>3. z \in Seq(Bytes) /\ Len(z) = 2 /\ z[1] = a /\ z[2] = b
    BY <1>3
  <2>8. PICK v : v = x \o y
    OBVIOUS
  <2>4. v \in Seq(Bytes) /\ v = x \o y
    BY <2>1, <2>8, ConcatFacts
  <2>5. Len(v) = 1 + 1 /\ v[1] = a /\ v[2] = b
    <3>1. 1 \in 1..1 /\ 2 \in 1..2 /\ 2 > 1 /\ 2 - 1 = 1 /\ 1 + 1 = 2
      OBVIOUS
    <3>2. /\ Len(v) = Len(x) + Len(y)
          /\ \A i \in 1..Len(x) : v[i] = x[i]
          /\ \A i \in 1..(Len(x) + Len(y)) : i > Len(x) => v[i] = y[i - Len(x)]
      <4>1. x \in Seq(Bytes) /\ y \in Seq(Bytes) /\ v = x \o y
        BY <2>1, <2>4
      <4> QED
        BY <4>1, ConcatFacts, Zenon
    <3>3. v[1] = x[1] /\ v[2] = y[1]
      BY <2>2, <3>1, <3>2
    <3> QED
      BY <2>2, <3>2, <3>3
  <2>6. \A i \in 1..2 : i = 1 \/ i = 2
    OBVIOUS
  <2>7. z = v
    <3>1. z \in Seq(Bytes) /\ v \in Seq(Bytes)
      BY <2>3, <2>4
    <3>2. 2 \in Nat /\ Len(z) = 2 /\ Len(v) = 2
      BY <2>3, <2>5
    <3>3. \A i \in 1..2 : z[i] = v[i]
      BY <2>3, <2>5, <2>6
    <3> QED
      BY <3>1, <3>2, <3>3, SameAs, Zenon
  <2> QED
    BY <2>1, <2>4, <2>7
<1>5. Runs(p, x, q) /\ Runs(q, y, r)
  BY <1>1, <1>2, RunsOne
<1>6. Runs(p, x \o y, r)
  BY <1>4, <1>5, RunsJoin
<1> QED
  BY <1>3, <1>4, <1>6

LEMMA RunsThree ==
    ASSUME NEW p, NEW a \in Bytes, NEW b \in Bytes, NEW c \in Bytes,
           NEW q, q = OneByte(p, a), NEW r, r = OneByte(q, b), NEW s, s = OneByte(r, c)
    PROVE  Runs(p, <<a, b, c>>, s)
<1>1. PICK x : x = <<a, b>>
  OBVIOUS
<1>2. PICK y : y = <<c>>
  OBVIOUS
<1>3. PICK z : z = <<a, b, c>>
  OBVIOUS
<1>4. x \in Seq(Bytes) /\ y \in Seq(Bytes) /\ z = x \o y
  BY <1>1, <1>2, <1>3
<1>5. Runs(p, x, r) /\ Runs(r, y, s)
  BY <1>1, <1>2, RunsOne, RunsTwo
<1>6. Runs(p, x \o y, s)
  BY <1>4, <1>5, RunsJoin
<1> QED
  BY <1>3, <1>4, <1>6

LEMMA PushIs ==
    ASSUME NEW S, NEW o \in Seq(S), NEW a \in S
    PROVE  Append(o, a) = o \o <<a>> /\ <<a>> \in Seq(S) /\ Len(<<a>>) = 1 /\ <<a>>[1] = a
<1>1. PICK x : x = <<a>>
  OBVIOUS
<1>2. x \in Seq(S) /\ Len(x) = 1 /\ x[1] = a
  BY <1>1
<1>3. PICK n \in Nat : n = Len(o)
  OBVIOUS
<1>4. PICK y : y = Append(o, a)
  OBVIOUS
<1>5. y \in Seq(S) /\ Len(y) = n + 1 /\ (\A i \in 1..n : y[i] = o[i]) /\ y[n + 1] = a
  BY <1>3, <1>4, AppendFacts
<1>6. PICK z : z = o \o x
  OBVIOUS
<1>7. /\ z \in Seq(S) /\ Len(z) = n + 1 /\ \A i \in 1..n : z[i] = o[i]
      /\ \A i \in 1..(n + 1) : i > n => z[i] = x[i - n]
  <2>1. /\ o \o x \in Seq(S) /\ Len(o \o x) = Len(o) + Len(x)
        /\ \A i \in 1..Len(o) : (o \o x)[i] = o[i]
        /\ \A i \in 1..(Len(o) + Len(x)) : i > Len(o) => (o \o x)[i] = x[i - Len(o)]
    BY <1>2, ConcatFacts
  <2> QED
    BY <1>2, <1>3, <1>6, <2>1
<1>8. z[n + 1] = a
  <2>1. n + 1 \in 1..(n + 1) /\ n + 1 > n /\ n + 1 - n = 1
    OBVIOUS
  <2> QED
    BY <1>2, <1>7, <2>1
<1>9. \A i \in 1..(n + 1) : i \in 1..n \/ i = n + 1
  OBVIOUS
<1>10. y = z
  <2>1. \A i \in 1..(n + 1) : y[i] = z[i]
    BY <1>5, <1>7, <1>8, <1>9
  <2> QED
    BY <1>5, <1>7, <2>1, SameAs
<1> QED
  BY <1>1, <1>2, <1>4, <1>6, <1>10

LEMMA BlankIs == Blank \in Seq(Bytes) /\ Len(Blank) = 0
  BY DEF Blank

LEMMA EscapedOn ==
    ASSUME NEW o, NEW b, b # "esc", NEW e \in Seq(Bytes), Len(e) < EscapeMax
    PROVE  OneByte(Escaped(e, o), b) = Dispatched(Escaped(Append(e, b), o), Append(e, b)[1])
  BY EscapeOn DEF Escaped

LEMMA ShortEscapes ==
    ASSUME NEW o, NEW b, EscapeMax >= 2, b # "esc", NEW v, v = <<b>>
    PROVE  OneByte(Escaped(Blank, o), b) = Dispatched(Escaped(v, o), b)
<1>1. v = Append(Blank, b) /\ v[1] = b
  BY DEF Blank
<1>2. Len(Blank) < EscapeMax /\ Blank \in Seq(Bytes)
  BY BlankIs, ParserAssumption
<1> QED
  BY <1>1, <1>2, EscapedOn

LEMMA ShortCsi ==
    ASSUME NEW o, EscapeMax >= 2, NEW b \in {"[", "("}, NEW v, v = <<b>>
    PROVE  OneByte(Escaped(Blank, o), b) = Escaped(v, o)
<1>1. PICK q : q = Escaped(v, o)
  OBVIOUS
<1>2. b # "esc" /\ b \in Bytes
  BY DEF Bytes
<1>3. OneByte(Escaped(Blank, o), b) = Dispatched(q, b)
  BY <1>1, <1>2, ShortEscapes
<1>4. v[1] = b /\ Len(v) = 1 /\ v \in Seq(Bytes)
  BY <1>2
<1>5. CASE b = "["
  <2>2. InCsi(q) = q
    BY <1>1, <1>4, CsiBegins
  <2>3. Dispatched(q, b) = InCsi(q)
    BY <1>5, DispatchedIs
  <2> QED
    BY <1>1, <1>3, <2>2, <2>3
<1>6. CASE b = "("
  <2>1. q.esc = v
    BY <1>1 DEF Escaped, State
  <2>2. Designated(q) = q
    BY <1>4, <2>1 DEF Designated
  <2>3. Dispatched(q, b) = Designated(q)
    BY <1>6, DispatchedIs
  <2> QED
    BY <1>1, <1>3, <2>2, <2>3
<1> QED
  BY <1>5, <1>6

LEMMA ShortRest ==
    ASSUME NEW o, EscapeMax >= 2, NEW v, v = <<"c">>
    PROVE  /\ OneByte(Escaped(Blank, o), "esc") = Escaped(Blank, o)
           /\ OneByte(Escaped(Blank, o), "\\") = Rest(o)
           /\ OneByte(Escaped(Blank, o), "]") = State("string", Blank, Blank, Blank, Open, o)
           /\ OneByte(Escaped(Blank, o), "c") = Rest(Append(o, Act("esc", v)))
<1>1. OneByte(Escaped(Blank, o), "esc") = Escaped(Blank, o)
  BY EscapeAgain DEF Escaped
<1>2. OneByte(Escaped(Blank, o), "\\") = Rest(o)
  <2>1. PICK x : x = <<"\\">>
    OBVIOUS
  <2>2. OneByte(Escaped(Blank, o), "\\") = Dispatched(Escaped(x, o), "\\")
    BY <2>1, ShortEscapes
  <2>3. Dispatched(Escaped(x, o), "\\") = InSt(Escaped(x, o))
    BY DispatchedIs
  <2>4. PICK a : a = Act("string", x)
    OBVIOUS
  <2>5. InSt(Escaped(x, o)) = Rest(o)
    BY <2>4, StOn DEF Escaped
  <2> QED
    BY <2>2, <2>3, <2>5
<1>3. OneByte(Escaped(Blank, o), "]") = State("string", Blank, Blank, Blank, Open, o)
  <2>1. PICK x : x = <<"]">>
    OBVIOUS
  <2>2. OneByte(Escaped(Blank, o), "]") = Dispatched(Escaped(x, o), "]")
    BY <2>1, ShortEscapes
  <2>3. Dispatched(Escaped(x, o), "]") = Strung(Escaped(x, o))
    BY DispatchedIs
  <2>4. Strung(Escaped(x, o)) = State("string", Blank, Blank, Blank, Open, o)
    BY StrungIs DEF Escaped
  <2> QED
    BY <2>2, <2>3, <2>4
<1>4. OneByte(Escaped(Blank, o), "c") = Rest(Append(o, Act("esc", v)))
  <2>1. PICK q : q = Escaped(v, o)
    OBVIOUS
  <2>2. OneByte(Escaped(Blank, o), "c") = Dispatched(q, "c")
    BY <2>1, ShortEscapes
  <2>3. Dispatched(q, "c") = ResetEscape(Emit(q, Act("esc", q.esc)))
    BY DispatchedIs
  <2>4. q.esc = v
    BY <2>1 DEF Escaped, State
  <2>5. PICK a : a = Act("esc", v)
    OBVIOUS
  <2>6. Emit(q, a) = Escaped(v, Append(o, a))
    BY <2>1, Small DEF Escaped
  <2>7. ResetEscape(Emit(q, a)) = Rest(Append(o, a))
    BY <2>6, Small DEF Escaped, Rest
  <2> QED
    BY <2>2, <2>3, <2>4, <2>5, <2>7
<1> QED
  BY <1>1, <1>2, <1>3, <1>4, Zenon

\* An item of the scene, and what the parser makes of it.
ItemRight(i) == /\ i.bytes \in Seq(Bytes) /\ Len(i.bytes) >= 1 /\ i.bytes[1] # "u" /\ i.means \in Seq(Acts)
                /\ \A o \in Seq(Acts) : Runs(Rest(o), i.bytes, Rest(o \o i.means))

LEMMA ActIs == ASSUME NEW k \in Kinds, NEW of \in Seq(Bytes) PROVE Act(k, of) \in Acts
  BY DEF Act, Acts

LEMMA ItemIs ==
    ASSUME NEW w \in Seq(Bytes), Len(w) >= 1, w[1] # "u", NEW k \in Kinds, NEW of \in Seq(Bytes),
           \A o \in Seq(Acts) : Runs(Rest(o), w, Rest(Append(o, Act(k, of))))
    PROVE  ItemRight(Item(w, k, of))
<1>1. PICK a : a = Act(k, of)
  OBVIOUS
<1>2. a \in Acts
  BY <1>1, ActIs
<1>3. PICK m : m = <<a>>
  OBVIOUS
<1>4. m \in Seq(Acts)
  BY <1>2, <1>3
<1>5. PICK i : i = [bytes |-> w, means |-> m]
  OBVIOUS
<1>6. i.bytes = w /\ i.means = m
  BY <1>5
<1>7. Item(w, k, of) = i
  BY <1>1, <1>3, <1>5 DEF Item, Act
<1>8. ASSUME NEW o \in Seq(Acts) PROVE Runs(Rest(o), w, Rest(o \o m))
  <2>1. Append(o, a) = o \o m
    BY <1>2, <1>3, PushIs
  <2> QED
    BY <1>1, <2>1
<1> QED
  BY <1>4, <1>6, <1>7, <1>8 DEF ItemRight

LEMMA CharacterItems ==
    /\ ItemRight(Item(<<"x">>, "print", <<"x">>))
    /\ ItemRight(Item(<<"bel">>, "control", <<"bel">>))
    /\ ItemRight(Item(<<"u2", "u">>, "print", <<"u2", "u">>))
    /\ ItemRight(Item(<<"u3", "u", "u">>, "print", <<"u3", "u", "u">>))
<1>1. {"x", "bel", "u2", "u3", "u"} \subseteq Bytes /\ {"print", "control"} \subseteq Kinds
  BY DEF Bytes, Kinds
<1>2. ItemRight(Item(<<"x">>, "print", <<"x">>))
  <2>1. PICK w : w = <<"x">>
    OBVIOUS
  <2>2. w \in Seq(Bytes) /\ Len(w) = 1 /\ w[1] = "x"
    BY <1>1, <2>1
  <2>3. ASSUME NEW o \in Seq(Acts) PROVE Runs(Rest(o), w, Rest(Append(o, Act("print", w))))
    <3>1. OneByte(Rest(o), "x") = Rest(Append(o, Act("print", w)))
      BY <2>1, FromRest
    <3> QED
      BY <2>1, <3>1, RunsOne
  <2>4. ItemRight(Item(w, "print", w))
    BY <1>1, <2>2, <2>3, ItemIs
  <2> QED
    BY <2>1, <2>4
<1>3. ItemRight(Item(<<"bel">>, "control", <<"bel">>))
  <2>1. PICK w : w = <<"bel">>
    OBVIOUS
  <2>2. w \in Seq(Bytes) /\ Len(w) = 1 /\ w[1] = "bel"
    BY <1>1, <2>1
  <2>3. ASSUME NEW o \in Seq(Acts) PROVE Runs(Rest(o), w, Rest(Append(o, Act("control", w))))
    <3>1. OneByte(Rest(o), "bel") = Rest(Append(o, Act("control", w)))
      BY <2>1, FromRest
    <3> QED
      BY <2>1, <3>1, RunsOne
  <2>4. ItemRight(Item(w, "control", w))
    BY <1>1, <2>2, <2>3, ItemIs
  <2> QED
    BY <2>1, <2>4
<1>4. ItemRight(Item(<<"u2", "u">>, "print", <<"u2", "u">>))
  <2>1. PICK w : w = <<"u2", "u">>
    OBVIOUS
  <2>2. w \in Seq(Bytes) /\ Len(w) = 2 /\ w[1] = "u2"
    BY <1>1, <2>1
  <2>3. ASSUME NEW o \in Seq(Acts) PROVE Runs(Rest(o), w, Rest(Append(o, Act("print", w))))
    <3>1. PICK q : q = State("utf8", Blank, <<"u2">>, Blank, Open, o)
      OBVIOUS
    <3>2. OneByte(Rest(o), "u2") = q
      BY <3>1, FromRest
    <3>3. PICK r : r = Rest(Append(o, Act("print", w)))
      OBVIOUS
    <3>4. OneByte(q, "u") = r
      BY <2>1, <3>1, <3>3, FromUtf8
    <3> QED
      BY <1>1, <2>1, <3>2, <3>3, <3>4, RunsTwo
  <2>4. ItemRight(Item(w, "print", w))
    BY <1>1, <2>2, <2>3, ItemIs
  <2> QED
    BY <2>1, <2>4
<1>5. ItemRight(Item(<<"u3", "u", "u">>, "print", <<"u3", "u", "u">>))
  <2>1. PICK w : w = <<"u3", "u", "u">>
    OBVIOUS
  <2>2. w \in Seq(Bytes) /\ Len(w) = 3 /\ w[1] = "u3"
    BY <1>1, <2>1
  <2>3. ASSUME NEW o \in Seq(Acts) PROVE Runs(Rest(o), w, Rest(Append(o, Act("print", w))))
    <3>1. PICK q : q = State("utf8", Blank, <<"u3">>, Blank, Open, o)
      OBVIOUS
    <3>2. OneByte(Rest(o), "u3") = q
      BY <3>1, FromRest
    <3>3. PICK r : r = State("utf8", Blank, <<"u3", "u">>, Blank, Open, o)
      OBVIOUS
    <3>4. OneByte(q, "u") = r
      BY <3>1, <3>3, FromUtf8
    <3>5. PICK s : s = Rest(Append(o, Act("print", w)))
      OBVIOUS
    <3>6. OneByte(r, "u") = s
      BY <2>1, <3>3, <3>5, FromUtf8
    <3> QED
      BY <1>1, <2>1, <3>2, <3>4, <3>5, <3>6, RunsThree
  <2>4. ItemRight(Item(w, "print", w))
    BY <1>1, <2>2, <2>3, ItemIs
  <2> QED
    BY <2>1, <2>4
<1> QED
  BY <1>2, <1>3, <1>4, <1>5, Zenon

LEMMA EscapeItems ==
    ASSUME EscapeMax >= 2
    PROVE  /\ ItemRight(Item(<<"esc", "(", "0">>, "charset", <<"(", "0">>))
           /\ ItemRight(Item(<<"esc", "c">>, "esc", <<"c">>))
           /\ ItemRight(Nothing(<<"esc", "\\">>))
<1>1. {"esc", "(", "0", "c", "\\"} \subseteq Bytes /\ {"charset", "esc"} \subseteq Kinds
  BY DEF Bytes, Kinds
<1>2. \A o : OneByte(Rest(o), "esc") = Escaped(Blank, o)
  BY FromRest
<1>3. ItemRight(Item(<<"esc", "(", "0">>, "charset", <<"(", "0">>))
  <2>1. PICK w : w = <<"esc", "(", "0">>
    OBVIOUS
  <2>2. w \in Seq(Bytes) /\ Len(w) = 3 /\ w[1] = "esc"
    BY <1>1, <2>1
  <2>3. PICK c : c = <<"(", "0">>
    OBVIOUS
  <2>4. PICK e : e = <<"(">>
    OBVIOUS
  <2>5. e \in Seq(Bytes) /\ Len(e) = 1 /\ c \in Seq(Bytes) /\ Len(c) = 2 /\ c[1] = "("
    BY <1>1, <2>3, <2>4
  <2>6. c = Append(e, "0")
    BY <1>1, <2>3, <2>4, Appended
  <2>7. Len(e) < EscapeMax /\ "0" # "esc"
    BY <2>5, ParserAssumption
  <2>8. ASSUME NEW o \in Seq(Acts) PROVE Runs(Rest(o), w, Rest(Append(o, Act("charset", c))))
    <3>1. OneByte(Escaped(Blank, o), "(") = Escaped(e, o)
      BY <2>4, ShortCsi
    <3>2. PICK q : q = Escaped(c, o)
      OBVIOUS
    <3>3. OneByte(Escaped(e, o), "0") = Dispatched(q, "(")
      <4>1. OneByte(Escaped(e, o), "0") = Dispatched(Escaped(Append(e, "0"), o), Append(e, "0")[1])
        BY <2>5, <2>7, EscapedOn
      <4> QED
        BY <2>5, <2>6, <3>2, <4>1
    <3>4. q.esc = c
      BY <3>2 DEF Escaped, State
    <3>5. PICK a : a = Act("charset", c)
      OBVIOUS
    <3>6. Emit(q, a) = Escaped(c, Append(o, a))
      BY <3>2, Small DEF Escaped
    <3>7. ResetEscape(Emit(q, a)) = Rest(Append(o, a))
      BY <3>6, Small DEF Escaped, Rest
    <3>8. Designated(q) = ResetEscape(Emit(q, a))
      <4>1. ~(Len(q.esc) < 2)
        BY <2>5, <3>4
      <4>2. Act("charset", q.esc) = a
        BY <3>4, <3>5
      <4>3. Designated(q) = ResetEscape(Emit(q, Act("charset", q.esc)))
        BY <4>1, Zenon DEF Designated
      <4> QED
        BY <4>2, <4>3
    <3>9. OneByte(Escaped(e, o), "0") = Rest(Append(o, a))
      BY <3>3, <3>7, <3>8, DispatchedIs
    <3>10. PICK r : r = Rest(Append(o, a))
      OBVIOUS
    <3>11. Runs(Rest(o), <<"esc", "(", "0">>, r)
      BY <1>1, <1>2, <3>1, <3>9, <3>10, RunsThree
    <3> QED
      BY <2>1, <3>5, <3>10, <3>11
  <2>9. ItemRight(Item(w, "charset", c))
    BY <1>1, <2>2, <2>5, <2>8, ItemIs
  <2> QED
    BY <2>1, <2>3, <2>9
<1>4. ItemRight(Item(<<"esc", "c">>, "esc", <<"c">>))
  <2>1. PICK w : w = <<"esc", "c">>
    OBVIOUS
  <2>2. w \in Seq(Bytes) /\ Len(w) = 2 /\ w[1] = "esc"
    BY <1>1, <2>1
  <2>3. PICK c : c = <<"c">>
    OBVIOUS
  <2>4. c \in Seq(Bytes)
    BY <1>1, <2>3
  <2>5. ASSUME NEW o \in Seq(Acts) PROVE Runs(Rest(o), w, Rest(Append(o, Act("esc", c))))
    <3>1. PICK r : r = Rest(Append(o, Act("esc", c)))
      OBVIOUS
    <3>2. OneByte(Escaped(Blank, o), "c") = r
      BY <2>3, <3>1, ShortRest
    <3>3. Runs(Rest(o), <<"esc", "c">>, r)
      BY <1>1, <1>2, <3>2, RunsTwo
    <3> QED
      BY <2>1, <3>1, <3>3
  <2>6. ItemRight(Item(w, "esc", c))
    BY <1>1, <2>2, <2>4, <2>5, ItemIs
  <2> QED
    BY <2>1, <2>3, <2>6
<1>5. ItemRight(Nothing(<<"esc", "\\">>))
  <2>1. PICK w : w = <<"esc", "\\">>
    OBVIOUS
  <2>2. w \in Seq(Bytes) /\ Len(w) = 2 /\ w[1] = "esc"
    BY <1>1, <2>1
  <2>3. PICK m : m = <<>>
    OBVIOUS
  <2>4. m \in Seq(Acts) /\ \A o \in Seq(Acts) : o \o m = o
    BY <2>3
  <2>5. ASSUME NEW o \in Seq(Acts) PROVE Runs(Rest(o), w, Rest(o))
    <3>1. OneByte(Escaped(Blank, o), "\\") = Rest(o)
      <4>1. PICK v : v = <<"c">>
        OBVIOUS
      <4> QED
        BY <4>1, ShortRest
    <3>2. Runs(Rest(o), <<"esc", "\\">>, Rest(o))
      BY <1>1, <1>2, <3>1, RunsTwo
    <3> QED
      BY <2>1, <3>2
  <2>6. PICK i : i = [bytes |-> w, means |-> m]
    OBVIOUS
  <2>7. i.bytes = w /\ i.means = m
    BY <2>6
  <2>8. ItemRight(i)
    <3>1. \A o \in Seq(Acts) : Runs(Rest(o), w, Rest(o \o m))
      BY <2>4, <2>5
    <3>2. Len(w) >= 1 /\ w[1] # "u"
      BY <2>2
    <3> QED
      BY <2>2, <2>4, <2>7, <3>1, <3>2 DEF ItemRight
  <2>9. Nothing(w) = i
    BY <2>3, <2>6 DEF Nothing
  <2> QED
    BY <2>1, <2>8, <2>9
<1> QED
  BY <1>3, <1>4, <1>5, Zenon

LEMMA SequenceItem ==
    ASSUME NEW s \in Seq(Intermediates), Len(s) + 2 <= EscapeMax
    PROVE  ItemRight(Sequence(s))
<1>1. PICK n \in Nat : n = Len(s)
  OBVIOUS
<1>2. PICK open : open = <<"[">>
  OBVIOUS
<1>3. PICK start : start = <<"esc", "[">>
  OBVIOUS
<1>4. PICK h : h = <<"h">>
  OBVIOUS
<1>5. /\ open \in Seq(Bytes) /\ Len(open) = 1 /\ open[1] = "["
      /\ start \in Seq(Bytes) /\ Len(start) = 2 /\ start[1] = "esc"
      /\ h \in Seq(Bytes) /\ Len(h) = 1 /\ h[1] = "h"
  BY <1>2, <1>3, <1>4 DEF Bytes
<1>6. s \in Seq(Bytes) /\ n + 2 <= EscapeMax /\ EscapeMax \in Nat /\ EscapeMax >= 2
  BY <1>1, ParserAssumption DEF Bytes, Intermediates
<1>7. PICK E : E = [i \in 0..n |-> open \o SubSeq(s, 1, i)]
  OBVIOUS
<1>8. ASSUME NEW i \in 0..n PROVE E[i] \in Seq(Bytes) /\ Len(E[i]) = i + 1 /\ E[i][1] = "["
  <2>1. PICK v : v = SubSeq(s, 1, i)
    OBVIOUS
  <2>2. v \in Seq(Bytes) /\ Len(v) = i
    BY <1>1, <1>6, <2>1
  <2>3. open \o v \in Seq(Bytes) /\ Len(open \o v) = 1 + i /\ (open \o v)[1] = "["
    <3>1. 1 \in 1..1
      OBVIOUS
    <3>2. /\ open \o v \in Seq(Bytes) /\ Len(open \o v) = Len(open) + Len(v)
          /\ \A j \in 1..Len(open) : (open \o v)[j] = open[j]
      BY <1>5, <2>2, ConcatFacts
    <3> QED
      BY <1>5, <2>2, <3>1, <3>2
  <2> QED
    BY <1>7, <2>1, <2>3
<1>9. ASSUME NEW i \in 1..n PROVE Append(E[i - 1], s[i]) = E[i] /\ E[i][i + 1] = s[i] /\ s[i] \in Intermediates
  <2>1. i - 1 \in 0..n /\ i \in 0..n /\ i \in 1..Len(s) /\ 1 \in 1..Len(s) /\ i \in 1..n
    BY <1>1
  <2>2. E[i - 1] = open \o SubSeq(s, 1, i - 1) /\ E[i] = open \o SubSeq(s, 1, i)
    BY <1>7, <2>1
  <2>3. (open \o SubSeq(s, 1, i - 1)) \o <<s[i]>> = open \o SubSeq(s, 1, i)
    BY <1>5, <1>6, <2>1, OneMore
  <2>4. s[i] \in Intermediates /\ s[i] \in Bytes
    BY <1>6, <2>1
  <2>5. Append(E[i - 1], s[i]) = E[i]
    <3>1. E[i - 1] \in Seq(Bytes)
      BY <1>8, <2>1
    <3>2. Append(E[i - 1], s[i]) = E[i - 1] \o <<s[i]>>
      BY <2>4, <3>1, PushIs
    <3> QED
      BY <2>2, <2>3, <3>2
  <2>6. PICK x : x = E[i - 1]
    OBVIOUS
  <2>7. x \in Seq(Bytes) /\ Len(x) = i
    BY <1>8, <2>1, <2>6
  <2>8. Append(x, s[i])[i + 1] = s[i]
    BY <2>4, <2>7, AppendFacts
  <2> QED
    BY <2>4, <2>5, <2>6, <2>8
<1>10. E[0] = open /\ E[n] = open \o s
  <2>1. 0 \in 0..n /\ n \in 0..n
    OBVIOUS
  <2>2. SubSeq(s, 1, 0) = <<>> /\ SubSeq(s, 1, n) = s
    BY <1>1, <1>6
  <2>3. open \o <<>> = open
    BY <1>5
  <2> QED
    BY <1>7, <2>1, <2>2, <2>3
<1>11. ASSUME NEW o PROVE Runs(Escaped(open, o), s, Escaped(open \o s, o))
  <2>1. PICK f : f = [i \in 0..n |-> Escaped(E[i], o)]
    OBVIOUS
  <2>2. ASSUME NEW i \in 1..n PROVE f[i] = OneByte(f[i - 1], s[i])
    <3>1. i - 1 \in 0..n /\ i \in 0..n /\ i - 1 + 1 = i
      OBVIOUS
    <3>2. PICK x : x = E[i - 1]
      OBVIOUS
    <3>3. PICK y : y = E[i]
      OBVIOUS
    <3>4. x \in Seq(Bytes) /\ Len(x) = i /\ y \in Seq(Bytes) /\ Len(y) = i + 1 /\ y[1] = "["
      BY <1>8, <3>1, <3>2, <3>3
    <3>5. y = Append(x, s[i]) /\ y[i + 1] = s[i] /\ s[i] \in Intermediates /\ s[i] # "esc"
      BY <1>9, <3>2, <3>3 DEF Intermediates
    <3>6. Len(x) < EscapeMax
      BY <1>6, <3>1, <3>4
    <3>7. OneByte(Escaped(x, o), s[i]) = Dispatched(Escaped(y, o), "[")
      <4>1. OneByte(Escaped(x, o), s[i]) = Dispatched(Escaped(Append(x, s[i]), o), Append(x, s[i])[1])
        BY <3>4, <3>5, <3>6, EscapedOn
      <4> QED
        BY <3>4, <3>5, <4>1
    <3>8. InCsi(Escaped(y, o)) = Escaped(y, o)
      <4>1. PICK m \in Nat : m = i + 1
        OBVIOUS
      <4>2. m = Len(y) /\ m > 1 /\ y[m] \in Intermediates /\ m < EscapeMax
        BY <1>6, <3>4, <3>5, <4>1
      <4> QED
        BY <4>2, CsiStays
    <3>9. OneByte(Escaped(x, o), s[i]) = Escaped(y, o)
      BY <3>7, <3>8, DispatchedIs
    <3>10. f[i] = Escaped(y, o) /\ f[i - 1] = Escaped(x, o)
      BY <2>1, <3>1, <3>2, <3>3
    <3> QED
      BY <3>9, <3>10
  <2>3. f[0] = Escaped(open, o) /\ f[n] = Escaped(open \o s, o)
    <3>1. 0 \in 0..n /\ n \in 0..n
      OBVIOUS
    <3>2. f[0] = Escaped(E[0], o) /\ f[n] = Escaped(E[n], o)
      BY <2>1, <3>1
    <3> QED
      BY <1>10, <3>2
  <2> QED
    BY <1>1, <2>2, <2>3 DEF Runs, Along
<1>12. PICK v : v = (open \o s) \o h
  OBVIOUS
<1>13. PICK w : w = (start \o s) \o h
  OBVIOUS
<1>14. PICK z : z = open \o s
  OBVIOUS
<1>15. z \in Seq(Bytes) /\ Len(z) = n + 1 /\ z[1] = "["
  <2>1. n \in 0..n
    OBVIOUS
  <2> QED
    BY <1>8, <1>10, <1>14, <2>1
<1>16. v = Append(z, "h") /\ v \in Seq(Bytes) /\ Len(v) = n + 2 /\ v[1] = "[" /\ v[n + 2] = "h"
  <2>1. "h" \in Bytes
    BY DEF Bytes
  <2>2. Append(z, "h") = z \o h
    BY <1>4, <1>15, <2>1, PushIs
  <2>3. v = Append(z, "h")
    BY <1>12, <1>14, <2>2
  <2>4. v \in Seq(Bytes) /\ Len(v) = Len(z) + 1 /\ v[1] = z[1] /\ v[Len(z) + 1] = "h"
    <3>1. 1 \in 1..Len(z)
      BY <1>15
    <3> QED
      BY <1>15, <2>1, <2>3, <3>1, AppendFacts
  <2>5. Len(z) + 1 = n + 2
    BY <1>15
  <2> QED
    BY <1>15, <2>3, <2>4, <2>5
<1>17. w \in Seq(Bytes) /\ Len(w) >= 1 /\ w[1] = "esc"
  <2>1. PICK x : x = start \o s
    OBVIOUS
  <2>2. x \in Seq(Bytes) /\ Len(x) = 2 + n /\ x[1] = "esc"
    <3>1. 1 \in 1..2
      OBVIOUS
    <3>2. /\ start \o s \in Seq(Bytes) /\ Len(start \o s) = Len(start) + Len(s)
          /\ \A j \in 1..Len(start) : (start \o s)[j] = start[j]
      BY <1>5, <1>6, ConcatFacts
    <3> QED
      BY <1>1, <1>5, <2>1, <3>1, <3>2
  <2>3. w = x \o h
    BY <1>13, <2>1
  <2>4. w \in Seq(Bytes) /\ Len(w) = 2 + n + 1 /\ w[1] = "esc"
    <3>1. 1 \in 1..Len(x)
      BY <2>2
    <3>2. /\ x \o h \in Seq(Bytes) /\ Len(x \o h) = Len(x) + Len(h)
          /\ \A j \in 1..Len(x) : (x \o h)[j] = x[j]
      BY <1>5, <2>2, ConcatFacts
    <3> QED
      BY <1>5, <2>2, <2>3, <3>1, <3>2
  <2> QED
    BY <2>4
<1>18. ASSUME NEW o \in Seq(Acts) PROVE Runs(Rest(o), w, Rest(Append(o, Act("csi", v))))
  <2>1. Runs(Rest(o), start, Escaped(open, o))
    <3>1. OneByte(Rest(o), "esc") = Escaped(Blank, o)
      BY FromRest
    <3>2. OneByte(Escaped(Blank, o), "[") = Escaped(open, o)
      BY <1>2, <1>6, ShortCsi
    <3>3. {"esc", "["} \subseteq Bytes
      BY DEF Bytes
    <3>4. Runs(Rest(o), <<"esc", "[">>, Escaped(open, o))
      BY <3>1, <3>2, <3>3, RunsTwo
    <3> QED
      BY <1>3, <3>4
  <2>2. Runs(Rest(o), start \o s, Escaped(z, o))
    BY <1>5, <1>6, <1>11, <1>14, <2>1, RunsJoin
  <2>3. PICK r : r = Rest(Append(o, Act("csi", v)))
    OBVIOUS
  <2>4. OneByte(Escaped(z, o), "h") = r
    <3>1. Len(z) < EscapeMax /\ "h" # "esc"
      BY <1>6, <1>15
    <3>2. OneByte(Escaped(z, o), "h") = Dispatched(Escaped(v, o), "[")
      <4>1. OneByte(Escaped(z, o), "h") = Dispatched(Escaped(Append(z, "h"), o), Append(z, "h")[1])
        BY <1>15, <3>1, EscapedOn
      <4> QED
        BY <1>16, <4>1
    <3>3. InCsi(Escaped(v, o)) = r
      <4>1. PICK m \in Nat : m = n + 2
        OBVIOUS
      <4>2. m = Len(v) /\ m > 1 /\ v[m] \in Finals
        BY <1>16, <4>1 DEF Finals
      <4> QED
        BY <2>3, <4>2, CsiEnds
    <3> QED
      BY <3>2, <3>3, DispatchedIs
  <2>5. Runs(Escaped(z, o), h, r)
    BY <1>4, <2>4, RunsOne
  <2>6. start \o s \in Seq(Bytes)
    BY <1>5, <1>6, ConcatFacts
  <2>7. Runs(Rest(o), (start \o s) \o h, r)
    BY <1>5, <2>2, <2>5, <2>6, RunsJoin
  <2> QED
    BY <1>13, <2>3, <2>7
<1>19. ItemRight(Item(w, "csi", v))
  <2>1. "csi" \in Kinds
    BY DEF Kinds
  <2> QED
    BY <1>16, <1>17, <1>18, <2>1, ItemIs
<1> QED
  BY <1>2, <1>3, <1>4, <1>12, <1>13, <1>19 DEF Sequence

LEMMA MinOfTwo ==
    ASSUME NEW a \in Nat, NEW b \in Nat
    PROVE  Min({a, b}) = IF a <= b THEN a ELSE b
<1>1. PICK m \in {a, b} : \A y \in {a, b} : m <= y
  OBVIOUS
<1>2. Min({a, b}) \in {a, b} /\ \A y \in {a, b} : Min({a, b}) <= y
  BY <1>1 DEF Min
<1> QED
  BY <1>2

Strings(str, o) == State("string", Blank, Blank, str, Open, o)

LEMMA StringOn ==
    ASSUME NEW o, NEW str \in Seq(Bytes), Len(str) <= StringMax, NEW b \in Bytes \ {"bel", "esc"}
    PROVE  OneByte(Strings(str, o), b) = Strings(IF Len(str) < StringMax THEN str \o <<b>> ELSE str, o)
<1>1. PICK p : p = Strings(str, o)
  OBVIOUS
<1>2. p.st = "string" /\ p.str = str
  BY <1>1 DEF Strings, State
<1>3. Len(str) \in Nat /\ StringMax \in Nat
  BY ParserAssumption
<1>4. CASE Len(str) < StringMax
  <2>1. RoomKept(p)
    <3>1. p = [g \in ParserFields |-> p[g]]
      BY <1>1 DEF Strings, State, ParserFields
    <3> QED
      BY <1>2, <3>1 DEF RoomKept
  <2>2. OneByte(p, b) = [p EXCEPT !.str = @ \o <<b>>]
    BY <1>2, <1>4, <2>1, InStringOne
  <2>3. PICK v : v = str \o <<b>>
    OBVIOUS
  <2>4. [p EXCEPT !.str = @ \o <<b>>] = WithStr(p, v)
    BY <1>2, <2>3 DEF WithStr
  <2>5. WithStr(p, v) = Strings(v, o)
    BY <1>1, StateFields DEF Strings
  <2> QED
    BY <1>1, <1>4, <2>2, <2>3, <2>4, <2>5
<1>5. CASE ~(Len(str) < StringMax)
  <2>1. StringMax - Len(p.str) = 0
    BY <1>2, <1>3, <1>5
  <2>2. OneByte(p, b) = p
    BY <1>2, <2>1, OneByteIs
  <2> QED
    BY <1>1, <1>5, <2>2
<1> QED
  BY <1>4, <1>5

LEMMA StringEnds ==
    ASSUME NEW o, NEW str, NEW r, r = Rest(Append(o, Act("string", str)))
    PROVE  Runs(Strings(str, o), <<"bel">>, r) /\ Runs(Strings(str, o), <<"esc", "\\">>, r)
<1>1. PICK p : p = Strings(str, o)
  OBVIOUS
<1>2. p.st = "string"
  BY <1>1 DEF Strings, State
<1>3. PICK a : a = Act("string", str)
  OBVIOUS
<1>4. OneByte(p, "bel") = r
  <2>1. OneByte(p, "bel") = ResetEscape(EmitString(p))
    BY <1>2, OneByteIs
  <2>2. EmitString(p) = State("string", Blank, Blank, Blank, Open, Append(o, a))
    BY <1>1, <1>3, Small DEF Strings
  <2>3. ResetEscape(EmitString(p)) = Rest(Append(o, a))
    BY <2>2, Small DEF Rest
  <2> QED
    BY <1>3, <2>1, <2>3
<1>5. PICK q : q = State("escape", Blank, Blank, str, Closed, o)
  OBVIOUS
<1>6. OneByte(p, "esc") = q
  <2>1. OneByte(p, "esc") = [p EXCEPT !.st = "escape", !.ended = TRUE, !.esc = <<>>]
    BY <1>2, OneByteIs
  <2>2. [p EXCEPT !.st = "escape", !.ended = TRUE, !.esc = <<>>] = WithEsc(WithEnded(WithSt(p, "escape"), Closed), Blank)
    BY Parts
  <2>3. WithEsc(WithEnded(WithSt(p, "escape"), Closed), Blank) = q
    BY <1>1, <1>5, StateFields DEF Strings
  <2> QED
    BY <2>1, <2>2, <2>3
<1>7. OneByte(q, "\\") = r
  <2>1. PICK v : v = Append(Blank, "\\")
    OBVIOUS
  <2>2. v[1] = "\\"
    BY <2>1 DEF Blank
  <2>3. Blank \in Seq(Bytes) /\ Len(Blank) < EscapeMax
    BY BlankIs, ParserAssumption
  <2>4. OneByte(q, "\\") = Dispatched(State("escape", v, Blank, str, Closed, o), "\\")
    BY <1>5, <2>1, <2>2, <2>3, EscapeOn
  <2>5. InSt(State("escape", v, Blank, str, Closed, o)) = Rest(Append(o, a))
    BY <1>3, StOn DEF Act
  <2> QED
    BY <1>3, <2>4, <2>5, DispatchedIs
<1>8. {"esc", "\\"} \subseteq Bytes
  BY DEF Bytes
<1>9. Runs(p, <<"bel">>, r)
  BY <1>4, RunsOne
<1>10. Runs(p, <<"esc", "\\">>, r)
  BY <1>6, <1>7, <1>8, RunsTwo
<1> QED
  BY <1>1, <1>9, <1>10

LEMMA StringItem ==
    ASSUME NEW t \in Seq(Bytes \ {"bel", "esc"}), NEW end \in Seq(Bytes), end \in {<<"bel">>, <<"esc", "\\">>}, EscapeMax >= 2
    PROVE  ItemRight(String(t, end))
<1>1. PICK n \in Nat : n = Len(t)
  OBVIOUS
<1>2. PICK m \in Nat : m = StringMax
  BY ParserAssumption
<1>3. PICK start : start = <<"esc", "]">>
  OBVIOUS
<1>4. start \in Seq(Bytes) /\ Len(start) = 2 /\ start[1] = "esc"
  BY <1>3 DEF Bytes
<1>5. t \in Seq(Bytes) /\ \A i \in 1..n : t[i] \in Bytes \ {"bel", "esc"}
  BY <1>1
<1>6. PICK kept : kept = [i \in 0..n |-> SubSeq(t, 1, IF i <= m THEN i ELSE m)]
  OBVIOUS
<1>7. ASSUME NEW i \in 0..n
      PROVE  kept[i] \in Seq(Bytes) /\ Len(kept[i]) = IF i <= m THEN i ELSE m
  <2>1. PICK k \in Nat : k = IF i <= m THEN i ELSE m
    OBVIOUS
  <2>2. k \in 0..Len(t)
    BY <1>1, <2>1
  <2>3. SubSeq(t, 1, k) \in Seq(Bytes) /\ Len(SubSeq(t, 1, k)) = k
    BY <1>5, <2>2
  <2>4. kept[i] = SubSeq(t, 1, k)
    BY <1>6, <2>1
  <2> QED
    BY <2>1, <2>3, <2>4
<1>8. ASSUME NEW o PROVE Runs(Strings(Blank, o), t, Strings(kept[n], o))
  <2>1. PICK f : f = [i \in 0..n |-> Strings(kept[i], o)]
    OBVIOUS
  <2>2. ASSUME NEW i \in 1..n PROVE f[i] = OneByte(f[i - 1], t[i])
    <3>1. i - 1 \in 0..n /\ i \in 0..n /\ i \in 1..Len(t) /\ 1 \in 1..Len(t) /\ i \in 1..n
      BY <1>1
    <3>2. PICK x : x = kept[i - 1]
      OBVIOUS
    <3>3. PICK y : y = kept[i]
      OBVIOUS
    <3>4. x \in Seq(Bytes) /\ Len(x) = IF i - 1 <= m THEN i - 1 ELSE m
      BY <1>7, <3>1, <3>2
    <3>5. Len(x) <= StringMax /\ (Len(x) < StringMax <=> i <= m)
      BY <1>2, <3>4
    <3>6. y = IF Len(x) < StringMax THEN x \o <<t[i]>> ELSE x
      <4>1. CASE i <= m
        <5>1. x = SubSeq(t, 1, i - 1) /\ y = SubSeq(t, 1, i)
          <6>1. i - 1 <= m
            BY <4>1
          <6> QED
            BY <1>6, <3>1, <3>2, <3>3, <4>1, <6>1
        <5>2. PICK e : e = <<>>
          OBVIOUS
        <5>3. e \in Seq(Bytes)
          BY <5>2
        <5>4. (e \o SubSeq(t, 1, i - 1)) \o <<t[i]>> = e \o SubSeq(t, 1, i)
          BY <1>5, <3>1, <5>3, OneMore
        <5>5. e \o x = x /\ e \o y = y
          <6>1. y \in Seq(Bytes)
            BY <1>7, <3>1, <3>3
          <6> QED
            BY <3>4, <5>2, <6>1
        <5> QED
          BY <3>5, <4>1, <5>1, <5>4, <5>5
      <4>2. CASE ~(i <= m)
        <5>1. x = SubSeq(t, 1, m) /\ y = SubSeq(t, 1, m)
          <6>1. y = SubSeq(t, 1, m)
            BY <1>6, <3>1, <3>3, <4>2
          <6>2. CASE i - 1 <= m
            <7>1. i - 1 = m
              BY <4>2, <6>2
            <7> QED
              BY <1>6, <3>1, <3>2, <6>1, <6>2, <7>1
          <6>3. CASE ~(i - 1 <= m)
            BY <1>6, <3>1, <3>2, <6>1, <6>3
          <6> QED
            BY <6>2, <6>3
        <5> QED
          BY <3>5, <4>2, <5>1
      <4> QED
        BY <4>1, <4>2
    <3>7. OneByte(Strings(x, o), t[i]) = Strings(y, o)
      BY <1>5, <3>1, <3>4, <3>5, <3>6, StringOn
    <3>8. f[i] = Strings(y, o) /\ f[i - 1] = Strings(x, o)
      BY <2>1, <3>1, <3>2, <3>3
    <3> QED
      BY <3>7, <3>8
  <2>3. f[0] = Strings(Blank, o) /\ f[n] = Strings(kept[n], o)
    <3>1. 0 \in 0..n /\ n \in 0..n /\ 0 <= m
      OBVIOUS
    <3>2. f[0] = Strings(kept[0], o) /\ f[n] = Strings(kept[n], o)
      BY <2>1, <3>1
    <3>3. kept[0] = Blank
      <4>1. kept[0] = SubSeq(t, 1, 0)
        BY <1>6, <3>1
      <4> QED
        BY <1>5, <4>1 DEF Blank
    <3> QED
      BY <3>2, <3>3
  <2> QED
    BY <1>1, <2>2, <2>3 DEF Runs, Along
<1>9. kept[n] \in Seq(Bytes) /\ kept[n] = SubSeq(t, 1, Min({n, m}))
  <2>1. n \in 0..n
    OBVIOUS
  <2>2. kept[n] = SubSeq(t, 1, IF n <= m THEN n ELSE m)
    BY <1>6, <2>1
  <2> QED
    BY <1>7, <2>1, <2>2, MinOfTwo
<1>10. PICK c : c = kept[n]
  OBVIOUS
<1>11. PICK w : w = (start \o t) \o end
  OBVIOUS
<1>12. PICK x : x = start \o t
  OBVIOUS
<1>13. x \in Seq(Bytes) /\ Len(x) = 2 + n /\ x[1] = "esc"
  <2>1. 1 \in 1..2
    OBVIOUS
  <2>5. ASSUME NEW S, NEW a \in Seq(S), NEW b \in Seq(S)
        PROVE  /\ a \o b \in Seq(S) /\ Len(a \o b) = Len(a) + Len(b)
               /\ \A j \in 1..Len(a) : (a \o b)[j] = a[j]
    BY ConcatFacts
  <2>6. start \in Seq(Bytes) /\ t \in Seq(Bytes)
    BY <1>4, <1>5
  <2>2. /\ start \o t \in Seq(Bytes) /\ Len(start \o t) = Len(start) + Len(t)
        /\ \A j \in 1..Len(start) : (start \o t)[j] = start[j]
    BY <2>5, <2>6, Zenon
  <2>3. x \in Seq(Bytes) /\ Len(x) = Len(start) + Len(t) /\ \A j \in 1..Len(start) : x[j] = start[j]
    BY <1>12, <2>2
  <2>4. Len(start) = 2 /\ start[1] = "esc" /\ Len(t) = n
    BY <1>1, <1>4
  <2> QED
    BY <2>1, <2>3, <2>4
<1>14. w \in Seq(Bytes) /\ Len(w) >= 1 /\ w[1] = "esc"
  <2>1. 1 \in 1..Len(x)
    BY <1>13
  <2>2. /\ x \o end \in Seq(Bytes) /\ Len(x \o end) = Len(x) + Len(end)
        /\ \A j \in 1..Len(x) : (x \o end)[j] = x[j]
    BY <1>13, ConcatFacts
  <2>3. w = x \o end /\ Len(end) \in Nat
    BY <1>11, <1>12
  <2> QED
    BY <1>13, <2>1, <2>2, <2>3
<1>15. ASSUME NEW o \in Seq(Acts) PROVE Runs(Rest(o), w, Rest(Append(o, Act("string", c))))
  <2>1. Runs(Rest(o), start, Strings(Blank, o))
    <3>1. OneByte(Rest(o), "esc") = Escaped(Blank, o)
      BY FromRest
    <3>2. OneByte(Escaped(Blank, o), "]") = Strings(Blank, o)
      <4>1. PICK v : v = <<"c">>
        OBVIOUS
      <4> QED
        BY <4>1, ShortRest DEF Strings
    <3>3. {"esc", "]"} \subseteq Bytes
      BY DEF Bytes
    <3>4. Runs(Rest(o), <<"esc", "]">>, Strings(Blank, o))
      BY <3>1, <3>2, <3>3, RunsTwo
    <3> QED
      BY <1>3, <3>4
  <2>2. Runs(Rest(o), x, Strings(c, o))
    BY <1>4, <1>5, <1>8, <1>10, <1>12, <2>1, RunsJoin
  <2>3. PICK r : r = Rest(Append(o, Act("string", c)))
    OBVIOUS
  <2>4. Runs(Strings(c, o), end, r)
    BY <2>3, StringEnds
  <2>5. Runs(Rest(o), x \o end, r)
    BY <1>13, <2>2, <2>4, RunsJoin
  <2> QED
    BY <1>11, <1>12, <2>3, <2>5
<1>16. ItemRight(Item(w, "string", c))
  <2>1. "string" \in Kinds /\ w[1] # "u"
    BY <1>14 DEF Kinds
  <2> QED
    BY <1>9, <1>10, <1>14, <1>15, <2>1, ItemIs
<1>17. String(t, end) = Item(w, "string", c)
  BY <1>1, <1>2, <1>3, <1>9, <1>10, <1>11 DEF String
<1> QED
  BY <1>16, <1>17

LEMMA ItemsRight == \A i \in Items : ItemRight(i)
<1>1. EscapeMax >= 2
  BY BytesAssumption
<1>2. PICK bel : bel = <<"bel">>
  OBVIOUS
<1>3. PICK st : st = <<"esc", "\\">>
  OBVIOUS
<1>4. bel \in Seq(Bytes) /\ st \in Seq(Bytes)
  BY <1>2, <1>3 DEF Bytes
<1>5. ASSUME NEW s \in Params PROVE ItemRight(Sequence(s))
  BY BytesAssumption, SequenceItem
<1>6. ASSUME NEW s \in Texts PROVE ItemRight(String(s, bel)) /\ ItemRight(String(s, st))
  <2>1. s \in Seq(Bytes \ {"bel", "esc"})
    BY BytesAssumption
  <2> QED
    BY <1>1, <1>2, <1>3, <1>4, <2>1, StringItem
<1>7. ASSUME NEW i \in Items PROVE ItemRight(i)
  <2>1. PICK a : a = Item(<<"x">>, "print", <<"x">>)
    OBVIOUS
  <2>2. PICK b : b = Item(<<"u2", "u">>, "print", <<"u2", "u">>)
    OBVIOUS
  <2>3. PICK c : c = Item(<<"u3", "u", "u">>, "print", <<"u3", "u", "u">>)
    OBVIOUS
  <2>4. PICK d : d = Item(<<"bel">>, "control", <<"bel">>)
    OBVIOUS
  <2>5. PICK e : e = Item(<<"esc", "(", "0">>, "charset", <<"(", "0">>)
    OBVIOUS
  <2>6. PICK f : f = Item(<<"esc", "c">>, "esc", <<"c">>)
    OBVIOUS
  <2>7. PICK g : g = Nothing(<<"esc", "\\">>)
    OBVIOUS
  <2>8. \/ i \in {a, b, c, d, e, f, g} \/ \E s \in Params : i = Sequence(s)
        \/ (\E s \in Texts : i = String(s, bel)) \/ (\E s \in Texts : i = String(s, st))
    BY <1>2, <1>3, <1>7, <2>1, <2>2, <2>3, <2>4, <2>5, <2>6, <2>7, Zenon DEF Items
  <2>9. ItemRight(a) /\ ItemRight(b) /\ ItemRight(c) /\ ItemRight(d)
    BY <2>1, <2>2, <2>3, <2>4, CharacterItems
  <2>10. ItemRight(e) /\ ItemRight(f) /\ ItemRight(g)
    BY <1>1, <2>5, <2>6, <2>7, EscapeItems
  <2> QED
    BY <1>5, <1>6, <2>8, <2>9, <2>10
<1> QED
  BY <1>7

\* What is given up: the next byte is taken as if nothing had been begun.
GivenUp(b) == /\ b.bytes \in Seq(Bytes) /\ b.means = <<>>
              /\ \A o : \E p : /\ Runs(Rest(o), b.bytes, p)
                               /\ OneByte(p, "esc") = OneByte(Rest(o), "esc")
                               /\ b \in Broken \/ \A c \in Bytes \ {"u"} : OneByte(p, c) = OneByte(Rest(o), c)

LEMMA NothingIs == ASSUME NEW w PROVE Nothing(w).bytes = w /\ Nothing(w).means = <<>>
  BY DEF Nothing

LEMMA CutGivenUp == \A b \in CutShort \cup {Nothing(<<>>)} : GivenUp(b)
<1>1. {"u3", "u2", "u"} \subseteq Bytes /\ "esc" \in Bytes \ {"u"}
  BY DEF Bytes
<1>2. ASSUME NEW w \in Seq(Bytes), \A o : \E utf : \/ Runs(Rest(o), w, State("utf8", Blank, utf, Blank, Open, o))
                                                   \/ Runs(Rest(o), w, Rest(o))
      PROVE  GivenUp(Nothing(w))
  <2>1. PICK b : b = Nothing(w)
    OBVIOUS
  <2>2. b.bytes = w /\ b.means = <<>>
    BY <2>1, NothingIs
  <2>3. ASSUME NEW o
        PROVE  \E p : Runs(Rest(o), w, p) /\ \A c \in Bytes \ {"u"} : OneByte(p, c) = OneByte(Rest(o), c)
    <3>1. PICK utf : \/ Runs(Rest(o), w, State("utf8", Blank, utf, Blank, Open, o)) \/ Runs(Rest(o), w, Rest(o))
      BY <1>2
    <3>2. \A c : c # "u" => OneByte(State("utf8", Blank, utf, Blank, Open, o), c) = OneByte(Rest(o), c)
      BY FromUtf8
    <3> QED
      BY <3>1, <3>2
  <2>4. GivenUp(b)
    BY <1>1, <1>2, <2>2, <2>3 DEF GivenUp
  <2> QED
    BY <2>1, <2>4
<1>3. GivenUp(Nothing(<<"u3", "u">>))
  <2>1. PICK w : w = <<"u3", "u">>
    OBVIOUS
  <2>2. w \in Seq(Bytes)
    BY <1>1, <2>1
  <2>3. ASSUME NEW o PROVE Runs(Rest(o), w, State("utf8", Blank, w, Blank, Open, o))
    <3>1. PICK q : q = State("utf8", Blank, <<"u3">>, Blank, Open, o)
      OBVIOUS
    <3>2. OneByte(Rest(o), "u3") = q
      BY <3>1, FromRest
    <3>3. PICK r : r = State("utf8", Blank, w, Blank, Open, o)
      OBVIOUS
    <3>4. OneByte(q, "u") = r
      BY <2>1, <3>1, <3>3, FromUtf8
    <3> QED
      BY <1>1, <2>1, <3>2, <3>3, <3>4, RunsTwo
  <2>4. GivenUp(Nothing(w))
    BY <1>2, <2>2, <2>3
  <2> QED
    BY <2>1, <2>4
<1>4. GivenUp(Nothing(<<"u2">>))
  <2>1. PICK w : w = <<"u2">>
    OBVIOUS
  <2>2. w \in Seq(Bytes)
    BY <1>1, <2>1
  <2>3. ASSUME NEW o PROVE Runs(Rest(o), w, State("utf8", Blank, w, Blank, Open, o))
    <3>1. PICK q : q = State("utf8", Blank, w, Blank, Open, o)
      OBVIOUS
    <3>2. OneByte(Rest(o), "u2") = q
      BY <2>1, <3>1, FromRest
    <3> QED
      BY <2>1, <3>1, <3>2, RunsOne
  <2>4. GivenUp(Nothing(w))
    BY <1>2, <2>2, <2>3
  <2> QED
    BY <2>1, <2>4
<1>5. GivenUp(Nothing(<<>>))
  <2>1. PICK w : w = <<>>
    OBVIOUS
  <2>4. w \in Seq(Bytes)
    BY <2>1
  <2>2. ASSUME NEW o PROVE Runs(Rest(o), w, Rest(o))
    BY <2>1, RunsNothing
  <2>3. GivenUp(Nothing(w))
    BY <1>2, <2>2, <2>4
  <2> QED
    BY <2>1, <2>3
<1> QED
  BY <1>3, <1>4, <1>5, Zenon DEF CutShort

LEMMA BrokenGivenUp == \A b \in Broken : GivenUp(b)
<1>1. {"esc", "[", "(", "0"} \subseteq Bytes /\ EscapeMax >= 2
  BY BytesAssumption DEF Bytes
<1>2. ASSUME NEW w \in Seq(Bytes), Nothing(w) \in Broken,
             \A o : \E e : Runs(Rest(o), w, Escaped(e, o)) \/ Runs(Rest(o), w, Rest(o))
      PROVE  GivenUp(Nothing(w))
  <2>1. PICK b : b = Nothing(w)
    OBVIOUS
  <2>2. b.bytes = w /\ b.means = <<>> /\ b \in Broken
    BY <1>2, <2>1, NothingIs
  <2>3. ASSUME NEW o
        PROVE  \E p : Runs(Rest(o), w, p) /\ OneByte(p, "esc") = OneByte(Rest(o), "esc")
    <3>1. PICK e : Runs(Rest(o), w, Escaped(e, o)) \/ Runs(Rest(o), w, Rest(o))
      BY <1>2
    <3>2. OneByte(Escaped(e, o), "esc") = Escaped(Blank, o)
      BY EscapeAgain DEF Escaped
    <3>3. OneByte(Rest(o), "esc") = Escaped(Blank, o)
      BY FromRest
    <3> QED
      BY <3>1, <3>2, <3>3
  <2>4. GivenUp(b)
    BY <1>2, <2>2, <2>3 DEF GivenUp
  <2> QED
    BY <2>1, <2>4
<1>3. \A o : OneByte(Rest(o), "esc") = Escaped(Blank, o)
  BY FromRest
<1>4. PICK csi : csi = <<"[">>
  OBVIOUS
<1>5. PICK set : set = <<"(">>
  OBVIOUS
<1>6. \A o : OneByte(Escaped(Blank, o), "[") = Escaped(csi, o)
  BY <1>1, <1>4, ShortCsi
<1>7. \A o : OneByte(Escaped(Blank, o), "(") = Escaped(set, o)
  BY <1>1, <1>5, ShortCsi
<1>8. GivenUp(Nothing(<<"esc">>))
  <2>1. PICK w : w = <<"esc">>
    OBVIOUS
  <2>2. w \in Seq(Bytes)
    BY <1>1, <2>1
  <2>3. ASSUME NEW o PROVE Runs(Rest(o), w, Escaped(Blank, o))
    BY <1>3, <2>1, RunsOne
  <2>4. Nothing(w) \in Broken
    BY <2>1, Zenon DEF Broken
  <2>5. GivenUp(Nothing(w))
    BY <1>2, <2>2, <2>3, <2>4
  <2> QED
    BY <2>1, <2>5
<1>9. GivenUp(Nothing(<<"esc", "(">>))
  <2>1. PICK w : w = <<"esc", "(">>
    OBVIOUS
  <2>2. w \in Seq(Bytes)
    BY <1>1, <2>1
  <2>3. ASSUME NEW o PROVE Runs(Rest(o), w, Escaped(set, o))
    BY <1>1, <1>3, <1>7, <2>1, RunsTwo
  <2>4. Nothing(w) \in Broken
    BY <2>1, Zenon DEF Broken
  <2>5. GivenUp(Nothing(w))
    BY <1>2, <2>2, <2>3, <2>4
  <2> QED
    BY <2>1, <2>5
<1>10. GivenUp(Nothing(<<"esc", "[", "0">>))
  <2>1. PICK w : w = <<"esc", "[", "0">>
    OBVIOUS
  <2>2. w \in Seq(Bytes)
    BY <1>1, <2>1
  <2>3. PICK e : e = <<"[", "0">>
    OBVIOUS
  <2>4. csi \in Seq(Bytes) /\ Len(csi) = 1 /\ e = Append(csi, "0") /\ e[1] = "[" /\ e[2] = "0" /\ Len(e) = 2
    <3>1. Append(<<"[">>, "0") = <<"[", "0">>
      BY <1>1, Appended
    <3> QED
      BY <1>1, <1>4, <2>3, <3>1
  <2>5. ASSUME NEW o PROVE Runs(Rest(o), w, Escaped(e, o)) \/ Runs(Rest(o), w, Rest(o))
    <3>1. OneByte(Escaped(csi, o), "0") = Dispatched(Escaped(e, o), "[")
      <4>1. Len(csi) < EscapeMax /\ "0" # "esc"
        BY <1>1, <2>4, ParserAssumption
      <4>2. OneByte(Escaped(csi, o), "0") = Dispatched(Escaped(Append(csi, "0"), o), Append(csi, "0")[1])
        BY <2>4, <4>1, EscapedOn
      <4> QED
        BY <2>4, <4>2
    <3>2. OneByte(Escaped(csi, o), "0") = InCsi(Escaped(e, o))
      BY <3>1, DispatchedIs
    <3>3. InCsi(Escaped(e, o)) \in {Escaped(e, o), Rest(o)}
      <4>1. PICK n \in Nat : n = 2
        OBVIOUS
      <4>2. n = Len(e) /\ n > 1 /\ e[n] \in Intermediates
        BY <2>4, <4>1 DEF Intermediates
      <4>3. n < EscapeMax \/ n >= EscapeMax
        BY ParserAssumption
      <4>4. CASE n < EscapeMax
        BY <4>2, <4>4, CsiStays
      <4>5. CASE n >= EscapeMax
        BY <4>2, <4>5, CsiFull
      <4> QED
        BY <4>3, <4>4, <4>5, Zenon
    <3>4. PICK q : q = InCsi(Escaped(e, o))
      OBVIOUS
    <3>5. Runs(Rest(o), w, q)
      BY <1>1, <1>3, <1>6, <2>1, <3>2, <3>4, RunsThree
    <3> QED
      BY <3>3, <3>4, <3>5
  <2>6. Nothing(w) \in Broken
    BY <2>1, Zenon DEF Broken
  <2>7. GivenUp(Nothing(w))
    BY <1>2, <2>2, <2>5, <2>6
  <2> QED
    BY <2>1, <2>7
<1> QED
  BY <1>8, <1>9, <1>10, Zenon DEF Broken

\* The inductive invariant of this scene: the rest of the bytes will bring what
\* is meant.
BytesInv == /\ parser = [f \in {"p", "wire", "meant"} |-> parser[f]]
            /\ parser.wire \in Seq(Bytes) /\ parser.meant \in Seq(Acts) /\ RoomKept(parser.p)
            /\ Runs(parser.p, parser.wire, Rest(parser.meant))

LEMMA SendStep == ASSUME BytesInv, SendBytes PROVE BytesInv'
<1>1. PICK i \in Items, b \in Broken \cup CutShort \cup {Nothing(<<>>)} :
          /\ b \in Broken => Head(i.bytes) = "esc"
          /\ parser' = [parser EXCEPT !.wire = @ \o b.bytes \o i.bytes, !.meant = @ \o i.means]
  BY DEF SendBytes
<1>2. PICK w \in Seq(Bytes) : w = parser.wire
  BY DEF BytesInv
<1>3. PICK m \in Seq(Acts) : m = parser.meant
  BY DEF BytesInv
<1>4. PICK p : p = parser.p
  OBVIOUS
<1>5. RoomKept(p) /\ Runs(p, w, Rest(m))
  BY <1>2, <1>3, <1>4 DEF BytesInv
<1>6. GivenUp(b)
  BY CutGivenUp, BrokenGivenUp
<1>7. ItemRight(i)
  BY ItemsRight
<1>8. PICK x \in Seq(Bytes) : x = b.bytes
  BY <1>6 DEF GivenUp
<1>9. PICK y \in Seq(Bytes) : y = i.bytes
  BY <1>7 DEF ItemRight
<1>10. PICK n \in Seq(Acts) : n = i.means
  BY <1>7 DEF ItemRight
<1>11. Len(y) >= 1 /\ y[1] \in Bytes \ {"u"} /\ Runs(Rest(m), y, Rest(m \o n))
  <2>1. Len(y) >= 1 /\ y[1] # "u" /\ Runs(Rest(m), y, Rest(m \o n))
    BY <1>7, <1>9, <1>10 DEF ItemRight
  <2>2. y[1] \in Bytes
    BY <2>1
  <2> QED
    BY <2>1, <2>2
<1>12. PICK q : /\ Runs(Rest(m), x, q) /\ OneByte(q, "esc") = OneByte(Rest(m), "esc")
                /\ b \in Broken \/ \A c \in Bytes \ {"u"} : OneByte(q, c) = OneByte(Rest(m), c)
  BY <1>6, <1>8 DEF GivenUp
<1>13. OneByte(q, y[1]) = OneByte(Rest(m), y[1])
  <2>1. Head(y) = y[1]
    BY <1>11
  <2> QED
    BY <1>1, <1>9, <1>11, <1>12, <2>1
<1>14. Runs(q, y, Rest(m \o n))
  BY <1>11, <1>13, SameStart
<1>15. w \o x \in Seq(Bytes) /\ (w \o x) \o y \in Seq(Bytes) /\ m \o n \in Seq(Acts)
  OBVIOUS
<1>16. Runs(p, w \o x, q)
  BY <1>5, <1>12, RunsJoin
<1>17. PICK v \in Seq(Bytes) : v = w \o x
  BY <1>15
<1>18. Runs(p, v \o y, Rest(m \o n))
  BY <1>14, <1>16, <1>17, RunsJoin
<1>19. PICK z \in Seq(Bytes) : z = v \o y
  BY <1>15, <1>17
<1>20. PICK k \in Seq(Acts) : k = m \o n
  BY <1>15
<1>21. parser' = [parser EXCEPT !.wire = z, !.meant = k]
  BY <1>1, <1>2, <1>3, <1>8, <1>9, <1>10, <1>17, <1>19, <1>20
<1>22. /\ parser' = [f \in {"p", "wire", "meant"} |-> parser'[f]]
       /\ parser'.p = p /\ parser'.wire = z /\ parser'.meant = k
  BY <1>4, <1>21 DEF BytesInv
<1>23. RoomKept(parser'.p)
  BY <1>5, <1>22
<1>24. Runs(parser'.p, parser'.wire, Rest(parser'.meant))
  BY <1>18, <1>19, <1>20, <1>22
<1> QED
  BY <1>22, <1>23, <1>24 DEF BytesInv

LEMMA ReadStep == ASSUME BytesInv, ReadBytes PROVE BytesInv'
<1>1. PICK n \in DOMAIN parser.wire :
          parser' = [parser EXCEPT !.p = ParseToActions(@, SubSeq(parser.wire, 1, n)),
                                   !.wire = SubSeq(@, n + 1, Len(@))]
  BY DEF ReadBytes
<1>2. PICK w \in Seq(Bytes) : w = parser.wire
  BY DEF BytesInv
<1>3. PICK m \in Seq(Acts) : m = parser.meant
  BY DEF BytesInv
<1>4. PICK p : p = parser.p
  OBVIOUS
<1>5. RoomKept(p) /\ Runs(p, w, Rest(m)) /\ n \in 1..Len(w)
  BY <1>1, <1>2, <1>3, <1>4 DEF BytesInv
<1>6. PICK v : v = SubSeq(w, 1, n)
  OBVIOUS
<1>7. PICK u : u = SubSeq(w, n + 1, Len(w))
  OBVIOUS
<1>8. v \in Seq(Bytes) /\ u \in Seq(Bytes)
  BY <1>5, <1>6, <1>7
<1>9. PICK q : Runs(p, v, q) /\ Runs(q, u, Rest(m))
  BY <1>5, <1>6, <1>7, RunsSplit
<1>10. ParseToActions(p, v) = q /\ RoomKept(q)
  BY <1>5, <1>8, <1>9, ParseRuns
<1>11. parser' = [parser EXCEPT !.p = q, !.wire = u]
  BY <1>1, <1>2, <1>4, <1>6, <1>7, <1>10
<1>12. /\ parser' = [f \in {"p", "wire", "meant"} |-> parser'[f]]
       /\ parser'.p = q /\ parser'.wire = u /\ parser'.meant = m
  BY <1>3, <1>11 DEF BytesInv
<1>13. RoomKept(parser'.p)
  BY <1>10, <1>12
<1>14. Runs(parser'.p, parser'.wire, Rest(parser'.meant))
  BY <1>9, <1>12
<1> QED
  BY <1>8, <1>12, <1>13, <1>14 DEF BytesInv

\* However the bytes are cut into reads, parseToActions makes of them what was
\* meant: the buffer it keeps between two reads holds all there is to know, and
\* what was given up takes nothing of the next item away.
THEOREM BytesArrive == Spec => []ParsedAsSent
<1>1. Init => BytesInv
  <2> SUFFICES ASSUME Init PROVE BytesInv
    OBVIOUS
  <2>1. PICK e : e = <<>>
    OBVIOUS
  <2>2. e \in Seq(Bytes) /\ e \in Seq(Acts) /\ Len(e) = 0
    BY <2>1
  <2>3. PICK p : p = ParserInit
    OBVIOUS
  <2>4. p = Rest(e)
    BY <2>1, <2>3 DEF ParserInit, Rest, State, Blank, Open
  <2>5. RoomKept(p)
    <3>1. p = [g \in ParserFields |-> p[g]] /\ p.str = e
      BY <2>1, <2>3 DEF ParserInit, ParserFields
    <3>2. 0 <= StringMax
      BY ParserAssumption
    <3> QED
      BY <2>2, <3>1, <3>2 DEF RoomKept
  <2>6. Runs(p, e, Rest(e))
    BY <2>1, <2>4, RunsNothing
  <2>7. /\ parser = [f \in {"p", "wire", "meant"} |-> parser[f]]
        /\ parser.p = p /\ parser.wire = e /\ parser.meant = e
    <3>1. parser = [p |-> p, wire |-> e, meant |-> e]
      BY <2>1, <2>3 DEF Init
    <3> QED
      BY <3>1
  <2> QED
    BY <2>2, <2>5, <2>6, <2>7 DEF BytesInv
<1>2. BytesInv => ParsedAsSent
  <2> SUFFICES ASSUME BytesInv, parser.wire = <<>> PROVE parser.p.out = parser.meant
    BY DEF ParsedAsSent
  <2>1. PICK f : Along(f, parser.wire) /\ f[0] = parser.p /\ f[Len(parser.wire)] = Rest(parser.meant)
    BY DEF BytesInv, Runs
  <2>2. parser.p = Rest(parser.meant)
    BY <2>1
  <2> QED
    BY <2>2 DEF Rest, State
<1>3. BytesInv /\ [Next]_vars => BytesInv'
  <2>1. CASE UNCHANGED parser
    <3> SUFFICES ASSUME BytesInv PROVE BytesInv'
      OBVIOUS
    <3> QED
      BY <2>1 DEF BytesInv
  <2> QED
    BY <2>1, ScenesApart, SendStep, ReadStep
<1> QED
  BY <1>1, <1>2, <1>3, PTL DEF Spec

-----------------------------------------------------------------------------
(* The mouse.  What a button that goes down may leave behind, until it    *)
(* goes up again, depends on the surface it went down on and on whether a  *)
(* selection began; the bindings that take a stroke act one after another *)
(* on the drag and on the terminal in focus, and on nothing else.          *)

Drags == {"none", "armed", "started"}
Names == Buttons \cup {"left", "none"}
TermStates == [grabs : BOOLEAN, down : Names, told : SUBSET Names, pend : BOOLEAN, sel : {"none", "active", "valid"}]
Detectors == [down : SUBSET Buttons, dragged : BOOLEAN, from : Places, active : Buttons \cup {"left"},
              count : [Buttons -> Nat], place : [Buttons -> Places]]
Gestures == [btn : Names, to : Terms, on : {"popup", "embedded", "pane", "bar", "divider"}, calm : BOOLEAN]
MouseStates == [at : Places, held : SUBSET Buttons, drag : Drags, auto : {-1, 0, 1}, focus : Panes,
                focusIn : BOOLEAN, alt : BOOLEAN, popup : BOOLEAN, det : Detectors,
                t : [Terms -> TermStates], gesture : Gestures]

LEMMA PressEventTyped ==
    ASSUME NEW t \in TermStates, NEW btn \in Names, NEW mods
    PROVE  MousePressEvent(t, btn, mods) \in TermStates
  BY DEF MousePressEvent, TermStates, Names

LEMMA ReleaseEventTyped ==
    ASSUME NEW t \in TermStates, NEW btn PROVE MouseReleaseEvent(t, btn) \in TermStates
<1>1. PICK u : u = [t EXCEPT !.pend = FALSE]
  OBVIOUS
<1>2. u \in TermStates
  BY <1>1 DEF TermStates
<1>3. [u EXCEPT !.sel = "valid"] \in TermStates /\ [u EXCEPT !.told = @ \ {btn}, !.down = Nobody] \in TermStates
  BY <1>2 DEF TermStates, Nobody, Names
<1> QED
  BY <1>1, <1>2, <1>3 DEF MouseReleaseEvent

LEMMA MoveEventTyped == ASSUME NEW t \in TermStates PROVE MouseMoveEvent(t) \in TermStates
  BY DEF MouseMoveEvent, TermStates

Kept(m, r) == /\ r.at = m.at /\ r.held = m.held /\ r.auto = m.auto /\ r.focus = m.focus /\ r.focusIn = m.focusIn
              /\ r.alt = m.alt /\ r.popup = m.popup /\ r.det = m.det /\ r.gesture = m.gesture
\* A drag and the terminal in focus are what a stroke changes.
Touched(m, d, u) == [m EXCEPT !.drag = d, !.t[m.focus] = u]
LEMMA TouchedIs ==
    ASSUME NEW m \in MouseStates, NEW d \in Drags, NEW u \in TermStates
    PROVE  /\ Touched(m, d, u) \in MouseStates
           /\ Touched(m, d, u).drag = d /\ Touched(m, d, u).t[m.focus] = u
           /\ \A x \in Terms \ {m.focus} : Touched(m, d, u).t[x] = m.t[x]
           /\ Kept(m, Touched(m, d, u))
<1>1. m.focus \in Terms /\ m.t \in [Terms -> TermStates]
  BY DEF MouseStates, Terms
<1>2. PICK w : w = [m.t EXCEPT ![m.focus] = u]
  OBVIOUS
<1>3. w \in [Terms -> TermStates] /\ w[m.focus] = u /\ \A x \in Terms \ {m.focus} : w[x] = m.t[x]
  BY <1>1, <1>2
<1>4. Touched(m, d, u) = [m EXCEPT !.drag = d, !.t = w]
  BY <1>1, <1>2 DEF Touched, MouseStates
<1> QED
  BY <1>3, <1>4 DEF MouseStates, Kept
LEMMA TouchedTwice ==
    ASSUME NEW m \in MouseStates, NEW d \in Drags, NEW u \in TermStates, NEW e \in Drags, NEW v \in TermStates
    PROVE  Touched(Touched(m, d, u), e, v) = Touched(m, e, v)
  BY DEF Touched, MouseStates, Terms
Struck(does, mods, empty, d, u) ==
    CASE does = "normal" -> <<"armed", MousePressEvent(u, "left", mods)>>
      [] does = "rectangle" -> <<"armed", [u EXCEPT !.sel = "active"]>>
      [] does = "extend" -> <<d, [u EXCEPT !.sel = IF u.sel = "none" \/ empty THEN "active" ELSE "valid"]>>
      [] does \in {"word", "line", "output"} -> <<d, [u EXCEPT !.sel = "valid"]>>
      [] OTHER -> <<d, u>>
LEMMA StruckTyped ==
    ASSUME NEW does, NEW mods, NEW empty, NEW d \in Drags, NEW u \in TermStates
    PROVE  Struck(does, mods, empty, d, u) \in Drags \X TermStates
<1>1. MousePressEvent(u, "left", mods) \in TermStates
  BY PressEventTyped DEF Names
<1>2. \A s \in {"none", "active", "valid"} : [u EXCEPT !.sel = s] \in TermStates
  BY DEF TermStates
<1> QED
  BY <1>1, <1>2 DEF Struck, Names, Drags
LEMMA StartsAs ==
    ASSUME NEW m \in MouseStates, NEW does, NEW mods, NEW empty
    PROVE  LET p == Struck(does, mods, empty, m.drag, m.t[m.focus])
           IN StartSelection(m, does, mods, empty) = Touched(m, p[1], p[2])
<1>1. PICK t : t = m.t[m.focus]
  OBVIOUS
<1>2. m = [m EXCEPT !.drag = m.drag] /\ m.t = [m.t EXCEPT ![m.focus] = t] /\ m.focus \in DOMAIN m.t /\ t \in TermStates
  BY <1>1 DEF MouseStates, Terms
<1>3. Touched(m, m.drag, t) = m
  BY <1>1, <1>2 DEF Touched, MouseStates
<1>4. [m EXCEPT !.t[m.focus].sel = "active", !.drag = "armed"] = Touched(m, "armed", [t EXCEPT !.sel = "active"])
  BY <1>1, <1>2 DEF Touched, MouseStates
<1>5. \A s : [m EXCEPT !.t[m.focus].sel = s] = Touched(m, m.drag, [t EXCEPT !.sel = s])
  BY <1>1, <1>2 DEF Touched, MouseStates
<1>6. [m EXCEPT !.drag = "armed", !.t[m.focus] = MousePressEvent(@, "left", mods)]
         = Touched(m, "armed", MousePressEvent(t, "left", mods))
  BY <1>1 DEF Touched
<1>7. [m EXCEPT !.drag = "armed", !.t[m.focus].sel = "active"] = Touched(m, "armed", [t EXCEPT !.sel = "active"])
  BY <1>1, <1>2 DEF Touched, MouseStates
<1>8. PICK q : q = Struck(does, mods, empty, m.drag, t)
  OBVIOUS
<1> DEFINE Goal == StartSelection(m, does, mods, empty) = Touched(m, q[1], q[2])
<1>9. does = "normal" => Goal
  BY <1>1, <1>6, <1>8 DEF StartSelection, Struck
<1>10. does = "rectangle" => Goal
  BY <1>1, <1>7, <1>8 DEF StartSelection, Struck
<1>11. does = "extend" => Goal
  BY <1>1, <1>5, <1>8 DEF StartSelection, Struck
<1>12. does \in {"word", "line", "output"} => Goal
  BY <1>1, <1>5, <1>8 DEF StartSelection, Struck
<1>13. ASSUME does \notin {"normal", "rectangle", "extend", "word", "line", "output"} PROVE Goal
  <2>1. StartSelection(m, does, mods, empty) = m
    BY <1>13 DEF StartSelection
  <2>2. Struck(does, mods, empty, m.drag, t) = <<m.drag, t>>
    BY <1>13 DEF Struck
  <2> QED
    BY <1>3, <1>8, <2>1, <2>2
<1>14. Goal
  <2> HIDE DEF Goal
  <2> QED
    BY <1>9, <1>10, <1>11, <1>12, <1>13
<1> QED
  BY <1>1, <1>8, <1>14

\* The states that strokes make of a state, if they take drag and terminal from P to P.
Strikes(m, P) == {Touched(m, p[1], p[2]) : p \in P}
LEMMA OneStrike ==
    ASSUME NEW m \in MouseStates, NEW P \in SUBSET (Drags \X TermStates), NEW does, NEW mods, NEW empty,
           \A p \in P : Struck(does, mods, empty, p[1], p[2]) \in P, NEW r \in Strikes(m, P)
    PROVE  StartSelection(r, does, mods, empty) \in Strikes(m, P)
<1>1. PICK p \in P : r = Touched(m, p[1], p[2])
  BY DEF Strikes
<1>2. p[1] \in Drags /\ p[2] \in TermStates
  OBVIOUS
<1>3. r \in MouseStates /\ r.drag = p[1] /\ r.t[m.focus] = p[2] /\ r.focus = m.focus
  <2>1. PICK d \in Drags : d = p[1]
    BY <1>2
  <2>2. PICK u \in TermStates : u = p[2]
    BY <1>2
  <2>3. r = Touched(m, d, u)
    BY <1>1, <2>1, <2>2
  <2>4. /\ Touched(m, d, u) \in MouseStates /\ Touched(m, d, u).drag = d
        /\ Touched(m, d, u).t[m.focus] = u /\ Kept(m, Touched(m, d, u))
    BY TouchedIs
  <2>5. r \in MouseStates /\ r.drag = d /\ r.t[m.focus] = u /\ Kept(m, r)
    BY <2>3, <2>4
  <2> QED
    BY <2>1, <2>2, <2>5 DEF Kept
<1>4. PICK q : q = Struck(does, mods, empty, p[1], p[2])
  OBVIOUS
<1>5. q \in P /\ q[1] \in Drags /\ q[2] \in TermStates
  BY <1>4
<1>6. StartSelection(r, does, mods, empty) = Touched(r, q[1], q[2])
  BY <1>3, <1>4, StartsAs
<1>7. Touched(r, q[1], q[2]) = Touched(m, q[1], q[2])
  BY <1>1, <1>2, <1>5, TouchedTwice
<1> QED
  BY <1>5, <1>6, <1>7 DEF Strikes

LEMMA Fourteen ==
    ASSUME NEW S, NEW b1 \in S, NEW b2 \in S, NEW b3 \in S, NEW b4 \in S, NEW b5 \in S, NEW b6 \in S, NEW b7 \in S, NEW b8 \in S, NEW b9 \in S, NEW b10 \in S, NEW b11 \in S, NEW b12 \in S, NEW b13 \in S, NEW b14 \in S
    PROVE  <<b1, b2, b3, b4, b5, b6, b7, b8, b9, b10, b11, b12, b13, b14>> \in Seq(S)
  OBVIOUS
UsualRecords == {b \in MouseRecords : Usual(b)}
LEMMA BindingsUsual ==
    /\ MouseBindings \in Seq(MouseRecords)
    /\ UsualBindings => \A i \in DOMAIN MouseBindings : Usual(MouseBindings[i])
<1>1. PICK b1 \in UsualRecords : b1 = Binding("left", "", "press", "ungrabbed", "pane", "normal")
  BY DEF UsualRecords, MouseRecords, Selections, Usual, Binding
<1>2. PICK b2 \in UsualRecords : b2 = Binding("left", "", "double", "ungrabbed", "pane", "word")
  BY DEF UsualRecords, MouseRecords, Selections, Usual, Binding
<1>3. PICK b3 \in UsualRecords : b3 = Binding("left", "", "triple", "ungrabbed", "pane", "line")
  BY DEF UsualRecords, MouseRecords, Selections, Usual, Binding
<1>4. PICK b4 \in UsualRecords : b4 = Binding("left", "shift", "press", "ungrabbed", "pane", "extend")
  BY DEF UsualRecords, MouseRecords, Selections, Usual, Binding
<1>5. PICK b5 \in UsualRecords : b5 = Binding("left", "alt", "press", "ungrabbed", "pane", "rectangle")
  BY DEF UsualRecords, MouseRecords, Selections, Usual, Binding
<1>6. PICK b6 \in UsualRecords : b6 = Binding("left", "shift", "press", "grabbed", "pane", "normal")
  BY DEF UsualRecords, MouseRecords, Selections, Usual, Binding
<1>7. PICK b7 \in UsualRecords : b7 = Binding("left", "shift", "double", "grabbed", "pane", "word")
  BY DEF UsualRecords, MouseRecords, Selections, Usual, Binding
<1>8. PICK b8 \in UsualRecords : b8 = Binding("left", "shift", "triple", "grabbed", "pane", "line")
  BY DEF UsualRecords, MouseRecords, Selections, Usual, Binding
<1>9. PICK b9 \in UsualRecords : b9 = Binding("middle", "", "click", "ungrabbed", "pane", "paste")
  BY DEF UsualRecords, MouseRecords, Selections, Usual, Binding
<1>10. PICK b10 \in UsualRecords : b10 = Binding("left", "ctrl", "click", "any", "pane", "link")
  BY DEF UsualRecords, MouseRecords, Selections, Usual, Binding
<1>11. PICK b11 \in UsualRecords : b11 = Binding("left", "ctrl", "click", "any", "pane", "command")
  BY DEF UsualRecords, MouseRecords, Selections, Usual, Binding
<1>12. PICK b12 \in UsualRecords : b12 = Binding("left", "ctrl", "double", "any", "pane", "output")
  BY DEF UsualRecords, MouseRecords, Selections, Usual, Binding
<1>13. PICK b13 \in UsualRecords : b13 = Binding("left", "", "press", "any", "bar", "activate")
  BY DEF UsualRecords, MouseRecords, Selections, Usual, Binding
<1>14. PICK b14 \in UsualRecords : b14 = Binding("middle", "", "press", "any", "bar", "closeTab")
  BY DEF UsualRecords, MouseRecords, Selections, Usual, Binding
<1>15. DefaultMouseBindings = <<b1, b2, b3, b4, b5, b6, b7, b8, b9, b10, b11, b12, b13, b14>>
  BY <1>1, <1>2, <1>3, <1>4, <1>5, <1>6, <1>7, <1>8, <1>9, <1>10, <1>11, <1>12, <1>13, <1>14 DEF DefaultMouseBindings
<1>16. DefaultMouseBindings \in Seq(UsualRecords)
  BY <1>15, Fourteen
<1>17. UserMouse \in Seq(MouseRecords)
  BY MouseAssumption
<1>18. UsualBindings => UserMouse \in Seq(UsualRecords)
  BY <1>17 DEF UsualBindings, UsualRecords
<1>19. UsualRecords \subseteq MouseRecords
  BY DEF UsualRecords
<1>20. UsualBindings => MouseBindings \in Seq(UsualRecords)
  BY <1>16, <1>18 DEF MouseBindings
<1>21. MouseBindings \in Seq(MouseRecords)
  BY <1>16, <1>17, <1>19 DEF MouseBindings
<1> QED
  BY <1>20, <1>21 DEF UsualRecords

LEMMA StrikesAre ==
    ASSUME NEW m \in MouseStates, NEW P \in SUBSET (Drags \X TermStates), NEW r \in Strikes(m, P)
    PROVE  r \in MouseStates /\ Kept(m, r) /\ <<r.drag, r.t[m.focus]>> \in P
<1>1. PICK p \in P : r = Touched(m, p[1], p[2])
  BY DEF Strikes
<1>2. p = <<p[1], p[2]>> /\ p[1] \in Drags /\ p[2] \in TermStates
  OBVIOUS
<1>3. r \in MouseStates /\ Kept(m, r) /\ r.drag = p[1] /\ r.t[m.focus] = p[2]
  BY <1>1, <1>2, TouchedIs
<1> QED
  BY <1>2, <1>3

\* The bindings of the program's own and of the user's, one after the other.
LEMMA StrikeStays ==
    ASSUME NEW m \in MouseStates, NEW P \in SUBSET (Drags \X TermStates), NEW matched, NEW mods, NEW empty,
           <<m.drag, m.t[m.focus]>> \in P,
           \A i \in matched : \A p \in P : Struck(MouseBindings[i].does, mods, empty, p[1], p[2]) \in P
    PROVE  Strike(m, matched, mods, empty) \in Strikes(m, P)
<1> DEFINE F(r, i) == IF i \in matched THEN StartSelection(r, MouseBindings[i].does, mods, empty) ELSE r
           A == Strikes(m, P)
<1>1. PICK l \in Nat : DOMAIN MouseBindings = 1..l
  BY BindingsUsual
<1>2. PICK q : q = [i \in DOMAIN MouseBindings |-> i]
  OBVIOUS
<1>3. DOMAIN q = 1..l /\ \A i \in 1..l : q[i] = i
  BY <1>1, <1>2
<1>4. m \in A
  <2>1. m = Touched(m, m.drag, m.t[m.focus])
    BY DEF Touched, MouseStates, Terms
  <2> QED
    BY <2>1 DEF Strikes
<1>5. \A r \in A, i \in 1..l : F(r, i) \in A
  BY OneStrike
<1>6. PICK w : w = FoldLeft(LAMBDA r, i : F(r, i), m, q)
  OBVIOUS
<1>7. w = Strike(m, matched, mods, empty)
  BY <1>2, <1>6 DEF Strike
<1> DEFINE E(it) == it = [t \in SUBSET (DOMAIN q) |->
                            IF t = {} THEN m ELSE F(it[t \ {Max(t)}], q[Max(t)])]
<1>8. \E it \in [SUBSET (1..l) -> A] : E(it)
  <2> HIDE DEF F
  <2>1. PICK step : step = [i \in 1..l |-> [a \in A |-> F(a, i)]]
    OBVIOUS
  <2>2. step \in [1..l -> [A -> A]]
    BY <1>5, <2>1
  <2>3. PICK it \in [SUBSET (1..l) -> A] : FoldedBy(it, l, m, step)
    BY <1>4, <2>2, FoldExists
  <2>4. ASSUME NEW t \in SUBSET (1..l), t # {}
        PROVE  it[t] = F(it[t \ {Max(t)}], q[Max(t)])
    <3>1. Max(t) \in 1..l
      BY <2>4, LastOf
    <3>2. it[t \ {Max(t)}] \in A
      BY <2>3
    <3>3. it[t] = step[Max(t)][it[t \ {Max(t)}]]
      BY <2>3, <2>4 DEF FoldedBy
    <3> QED
      BY <1>3, <2>1, <3>1, <3>2, <3>3
  <2>5. it[{}] = m
    BY <2>3 DEF FoldedBy
  <2>6. E(it)
    BY <1>3, <2>3, <2>4, <2>5
  <2> QED
    BY <2>6
<1>9. PICK jt : jt = (CHOOSE x : E(x))
  OBVIOUS
<1>10. E(jt)
  BY <1>8, <1>9
<1>11. jt[DOMAIN q] = w
  BY <1>6, <1>9 DEF FoldLeft, MapThenFoldSet
<1>17. \A t \in SUBSET (1..l) : t # {} => jt[t] = F(jt[t \ {Max(t)}], q[Max(t)])
  BY <1>3, <1>10
<1> HIDE DEF F
<1>12. PICK T : T = {i \in 0..l : jt[1..i] \in A}
  OBVIOUS
<1>13. T \in SUBSET (0..l) /\ 0 \in T
  <2>1. 1..0 = {}
    OBVIOUS
  <2>2. jt[{}] = m
    BY <1>10
  <2> QED
    BY <1>4, <1>12, <2>1, <2>2
<1>14. ASSUME NEW i \in 1..l, i - 1 \in T PROVE i \in T
  <2>1. i \in 1..i /\ (1..i) \in SUBSET (1..l) /\ 1..i # {}
    OBVIOUS
  <2>2. Max(1..i) \in 1..i /\ \A j \in 1..i : j <= Max(1..i)
    BY <2>1, LastOf
  <2>3. PICK x : x = Max(1..i)
    OBVIOUS
  <2>4. x = i
    BY <2>1, <2>2, <2>3
  <2>5. (1..i) \ {i} = 1..(i - 1)
    OBVIOUS
  <2>6. jt[1..i] = F(jt[1..(i - 1)], i)
    <3>1. jt[1..i] = F(jt[(1..i) \ {x}], q[x])
      BY <1>17, <2>1, <2>3
    <3> QED
      BY <1>3, <2>4, <2>5, <3>1
  <2>7. jt[1..(i - 1)] \in A
    BY <1>12, <1>14
  <2>8. jt[1..i] \in A
    BY <1>5, <2>6, <2>7
  <2> QED
    BY <1>12, <2>8
<1>15. l \in T
  <2>1. T = 0..l
    BY <1>13, <1>14, StepByStep
  <2> QED
    BY <2>1
<1>16. jt[1..l] \in A
  BY <1>12, <1>15
<1> QED
  BY <1>3, <1>7, <1>11, <1>16

Asks(t) == t.grabs
\* A terminal nobody left anything with; and one whose program may believe the
\* button down that is being held.
Still(t, b) == t.sel # "active" /\ ~t.pend /\ t.down = Nobody /\ b \notin t.told
Untold(t, b) == t.down = Nobody /\ b \notin t.told
Ready(t, b) == t.sel # "active" /\ ~t.pend /\ (Untold(t, b) \/ (t.grabs /\ t.down # Nobody))

LEMMA StillPressed ==
    ASSUME NEW t \in TermStates, NEW b \in Buttons, Still(t, b), t.grabs
    PROVE  Ready(MousePressEvent(t, b, ""), b)
<1>1. b # "none"
  BY MouseButtons
<1>2. MousePressEvent(t, b, "") = [t EXCEPT !.down = b, !.told = t.told \cup {b}]
  BY DEF MousePressEvent
<1> QED
  BY <1>1, <1>2 DEF Ready, Still, TermStates, Nobody
LEMMA ReadyReleased ==
    ASSUME NEW t \in TermStates, NEW b, Ready(t, b)
    PROVE  IF t.grabs THEN Still(MouseReleaseEvent(t, b), b) ELSE Still(t, b)
  BY DEF Ready, Untold, Still, TermStates, MouseReleaseEvent, Nobody
LEMMA DragReleased ==
    ASSUME NEW t \in TermStates, NEW b, Untold(t, b)
    PROVE  Still(MouseReleaseEvent(t, "left"), b)
  BY DEF Untold, Still, TermStates, MouseReleaseEvent, Nobody
LEMMA UntoldMoved ==
    ASSUME NEW t \in TermStates, NEW b, Untold(t, b)
    PROVE  Untold(MouseMoveEvent(t), b)
  BY DEF Untold, TermStates, MouseMoveEvent, Nobody
LEMMA ReadyMoved ==
    ASSUME NEW t, ~t.pend PROVE MouseMoveEvent(t) = t
  BY DEF MouseMoveEvent

LEMMA DetectorPress ==
    ASSUME NEW d \in Detectors, NEW btn \in Buttons, NEW at \in Places, NEW quick
    PROVE  OnPress(d, btn, at, quick) \in Detectors
<1>1. \A k \in Nat : [d.count EXCEPT ![btn] = k] \in [Buttons -> Nat]
  BY DEF Detectors
<1>2. [d.place EXCEPT ![btn] = at] \in [Buttons -> Places]
  BY DEF Detectors
<1>3. PICK c : c = [d.count EXCEPT ![btn] = IF /\ d.count[btn] \in 1..2
                                               /\ quick /\ d.place[btn] = at /\ ~d.dragged
                                              THEN d.count[btn] + 1 ELSE 1]
  OBVIOUS
<1>4. c \in [Buttons -> Nat]
  <2>1. d.count[btn] \in 1..2 => d.count[btn] + 1 \in Nat
    OBVIOUS
  <2> QED
    BY <1>1, <1>3, <2>1
<1>5. PICK p : p = [d.place EXCEPT ![btn] = at]
  OBVIOUS
<1>6. OnPress(d, btn, at, quick) = [d EXCEPT !.down = d.down \cup {btn}, !.dragged = FALSE, !.from = at,
                                             !.active = btn, !.count = c, !.place = p]
  BY <1>3, <1>5 DEF OnPress, Detectors
<1>7. PICK o \in SUBSET Buttons : o = d.down \cup {btn}
  BY DEF Detectors
<1>8. OnPress(d, btn, at, quick) = [d EXCEPT !.down = o, !.dragged = FALSE, !.from = at,
                                             !.active = btn, !.count = c, !.place = p]
  BY <1>6, <1>7
<1> QED
  BY <1>2, <1>4, <1>5, <1>8 DEF Detectors
LEMMA DetectorRelease ==
    ASSUME NEW d \in Detectors, NEW btn PROVE OnRelease(d, btn) \in Detectors
  BY DEF OnRelease, Detectors

\* What one terminal's state is set to.
WithTerm(m, x, u) == [m EXCEPT !.t[x] = u]
LEMMA TermSet ==
    ASSUME NEW m \in MouseStates, NEW x \in Terms, NEW u \in TermStates, NEW r, r = WithTerm(m, x, u)
    PROVE  /\ r \in MouseStates /\ r.t[x] = u /\ \A y \in Terms \ {x} : r.t[y] = m.t[y]
           /\ Kept(m, r) /\ r.drag = m.drag
<1>1. m.t \in [Terms -> TermStates]
  BY DEF MouseStates
<1>2. PICK w : w = [m.t EXCEPT ![x] = u]
  OBVIOUS
<1>3. w \in [Terms -> TermStates] /\ w[x] = u /\ \A y \in Terms \ {x} : w[y] = m.t[y]
  BY <1>1, <1>2
<1>4. r = [m EXCEPT !.t = w]
  BY <1>1, <1>2 DEF MouseStates, WithTerm
<1> QED
  BY <1>3, <1>4 DEF MouseStates, Kept

LEMMA ButtonEventTyped ==
    ASSUME NEW t \in TermStates, NEW btn \in Buttons, NEW up, NEW mods
    PROVE  ButtonEvent(t, btn, up, mods) \in TermStates
<1>1. btn \in Names
  BY DEF Names
<1> QED
  BY <1>1, PressEventTyped, ReleaseEventTyped DEF ButtonEvent

\* What a stroke may leave of the bindings it matches.
LEMMA MatchedIs ==
    ASSUME NEW btn, NEW mods, NEW event, NEW mode, NEW region, NEW i \in Matched(btn, mods, event, mode, region)
    PROVE  /\ MouseBindings[i].mods = mods /\ MouseBindings[i].event = event
           /\ MouseBindings[i].mode \in {mode, "any"} /\ MouseBindings[i].region \in {region, "any"}
           /\ UsualBindings => Usual(MouseBindings[i])
<1>1. i \in DOMAIN MouseBindings
  BY DEF Matched, MergeMouseBindings
<1> QED
  BY <1>1, BindingsUsual DEF Matched

\* Whatever is struck, a drag is not ended.
LEMMA StrikeTyped ==
    ASSUME NEW m \in MouseStates, NEW matched, NEW mods, NEW empty, NEW r, r = Strike(m, matched, mods, empty)
    PROVE  r \in MouseStates /\ Kept(m, r) /\ (m.drag # "none" => r.drag # "none")
<1>1. PICK P : P = {p \in Drags \X TermStates : m.drag # "none" => p[1] # "none"}
  OBVIOUS
<1>2. <<m.drag, m.t[m.focus]>> \in P
  <2>1. m.focus \in Terms /\ m.t[m.focus] \in TermStates /\ m.drag \in Drags
    BY DEF MouseStates, Terms
  <2> QED
    BY <1>1, <2>1
<1>3. ASSUME NEW does, NEW p \in P PROVE Struck(does, mods, empty, p[1], p[2]) \in P
  <2>1. p[1] \in Drags /\ p[2] \in TermStates /\ (m.drag # "none" => p[1] # "none")
    BY <1>1
  <2>2. PICK q : q = Struck(does, mods, empty, p[1], p[2])
    OBVIOUS
  <2>3. q \in Drags \X TermStates
    BY <2>1, <2>2, StruckTyped
  <2>4. q[1] \in {"armed", p[1]}
    BY <2>2 DEF Struck
  <2> QED
    BY <1>1, <2>1, <2>2, <2>3, <2>4
<1>4. P \in SUBSET (Drags \X TermStates)
  BY <1>1
<1>5. r \in Strikes(m, P)
  BY <1>2, <1>3, <1>4, StrikeStays
<1>6. PICK p \in P : r = Touched(m, p[1], p[2])
  BY <1>5 DEF Strikes
<1> QED
  BY <1>1, <1>6, TouchedIs

\* A plain press of a terminal nobody left anything with begins a drag, or nothing.
LEMMA StrikePlain ==
    ASSUME NEW m \in MouseStates, NEW matched, NEW b, NEW empty, NEW r, r = Strike(m, matched, "", empty),
           \A i \in matched : MouseBindings[i].does # "extend"
    PROVE  (Still(m.t[m.focus], b) /\ ~Asks(m.t[m.focus])) =>
              IF r.drag = "none" THEN Ready(r.t[m.focus], b) ELSE Untold(r.t[m.focus], b)
<1> DEFINE Fit(d, u) == ~Asks(u) /\ Untold(u, b) /\ (d = "none" => Ready(u, b))
<1>e. PICK e : e = (Still(m.t[m.focus], b) /\ ~Asks(m.t[m.focus]))
  OBVIOUS
<1>1. PICK P : P = {p \in Drags \X TermStates : e => Fit(p[1], p[2])}
  OBVIOUS
<1>2. <<m.drag, m.t[m.focus]>> \in P
  <2>1. m.focus \in Terms /\ m.t[m.focus] \in TermStates /\ m.drag \in Drags
    BY DEF MouseStates, Terms
  <2>2. e => Fit(m.drag, m.t[m.focus])
    BY <1>e DEF Still, Untold, Ready
  <2> QED
    BY <1>1, <2>1, <2>2
<1>3. ASSUME NEW does, does # "extend", NEW p \in P PROVE Struck(does, "", empty, p[1], p[2]) \in P
  <2>1. p[1] \in Drags /\ p[2] \in TermStates /\ (e => Fit(p[1], p[2]))
    BY <1>1
  <2>2. PICK q : q = Struck(does, "", empty, p[1], p[2])
    OBVIOUS
  <2>3. q \in Drags \X TermStates
    BY <2>1, <2>2, StruckTyped
  <2>4. PICK u \in TermStates : u = p[2]
    BY <2>1
  <2>5. PICK d \in Drags : d = p[1]
    BY <2>1
  <2>6. ASSUME Fit(d, u) PROVE Fit(q[1], q[2])
    <3>0. ~u.grabs /\ u.down = Nobody /\ b \notin u.told /\ (d = "none" => u.sel # "active" /\ ~u.pend)
      BY <2>6 DEF Untold, Ready, Asks
    <3>1. CASE does = "normal"
      <4>1. q = <<"armed", MousePressEvent(u, "left", "")>>
        BY <2>2, <2>4, <3>1 DEF Struck
      <4>2. MousePressEvent(u, "left", "") = [u EXCEPT !.sel = "none", !.pend = TRUE]
        BY <3>0 DEF MousePressEvent
      <4> QED
        BY <3>0, <4>1, <4>2 DEF Untold, TermStates, Asks
    <3>2. CASE does = "rectangle"
      <4>1. q = <<"armed", [u EXCEPT !.sel = "active"]>>
        BY <2>2, <2>4, <3>2 DEF Struck
      <4> QED
        BY <3>0, <4>1 DEF Untold, TermStates, Asks
    <3>3. CASE does \in {"word", "line", "output"}
      <4>1. q = <<d, [u EXCEPT !.sel = "valid"]>>
        BY <2>2, <2>4, <2>5, <3>3 DEF Struck
      <4> QED
        BY <3>0, <4>1 DEF Untold, TermStates, Ready, Asks
    <3>4. CASE does \notin {"normal", "rectangle", "word", "line", "output"}
      <4>1. q = <<d, u>>
        BY <1>3, <2>2, <2>4, <2>5, <3>4 DEF Struck
      <4> QED
        BY <2>6, <4>1
    <3> QED
      BY <3>1, <3>2, <3>3, <3>4
  <2> HIDE DEF Fit
  <2> QED
    BY <1>1, <2>1, <2>2, <2>3, <2>4, <2>5, <2>6
<1> HIDE DEF Fit
<1>4. P \in SUBSET (Drags \X TermStates)
  BY <1>1
<1>5. r \in Strikes(m, P)
  BY <1>2, <1>3, <1>4, StrikeStays
<1>6. PICK d : d = r.drag
  OBVIOUS
<1>7. PICK u : u = r.t[m.focus]
  OBVIOUS
<1>8. <<d, u>> \in P
  BY <1>4, <1>5, <1>6, <1>7, StrikesAre
<1>9. e => Fit(d, u)
  BY <1>1, <1>8
<1> QED
  BY <1>e, <1>6, <1>7, <1>9 DEF Fit

\* A stroke that begins no selection leaves the drag as it is; and one that extends
\* none either leaves a terminal nobody left anything with alone.
LEMMA StrikeRelease ==
    ASSUME NEW m \in MouseStates, NEW matched, NEW mods, NEW empty, NEW b \in Names, NEW r, r = Strike(m, matched, mods, empty),
           \A i \in matched : MouseBindings[i].does \notin {"normal", "rectangle"}
    PROVE  /\ r.drag = m.drag
           /\ (Still(m.t[m.focus], b) /\ \A i \in matched : MouseBindings[i].does # "extend") => Still(r.t[m.focus], b)
<1>1. PICK e : e = (Still(m.t[m.focus], b) /\ \A i \in matched : MouseBindings[i].does # "extend")
  OBVIOUS
<1>2. PICK P : P = {p \in Drags \X TermStates : p[1] = m.drag /\ (e => Still(p[2], b))}
  OBVIOUS
<1>3. <<m.drag, m.t[m.focus]>> \in P
  <2>1. m.focus \in Terms /\ m.t[m.focus] \in TermStates /\ m.drag \in Drags
    BY DEF MouseStates, Terms
  <2> QED
    BY <1>1, <1>2, <2>1
<1>4. ASSUME NEW does, does \notin {"normal", "rectangle"}, e => does # "extend", NEW p \in P
      PROVE  Struck(does, mods, empty, p[1], p[2]) \in P
  <2>1. p[1] \in Drags /\ p[2] \in TermStates /\ p[1] = m.drag /\ (e => Still(p[2], b))
    BY <1>2
  <2>2. PICK q : q = Struck(does, mods, empty, p[1], p[2])
    OBVIOUS
  <2>3. q \in Drags \X TermStates
    BY <2>1, <2>2, StruckTyped
  <2>4. PICK u \in TermStates : u = p[2]
    BY <2>1
  <2>5. q[1] = p[1]
    BY <1>4, <2>2 DEF Struck
  <2>6. CASE e
    <3>1. q = <<p[1], u>> \/ q = <<p[1], [u EXCEPT !.sel = "valid"]>>
      BY <1>4, <2>2, <2>4, <2>6 DEF Struck
    <3>2. Still(q[2], b)
      BY <2>1, <2>4, <2>6, <3>1 DEF Still, TermStates
    <3> QED
      BY <1>2, <2>1, <2>2, <2>3, <2>5, <3>2
  <2>7. CASE ~e
    BY <1>2, <2>1, <2>2, <2>3, <2>5, <2>7
  <2> QED
    BY <2>6, <2>7
<1>5. P \in SUBSET (Drags \X TermStates)
  BY <1>2
<1>6. r \in Strikes(m, P)
  BY <1>1, <1>3, <1>4, <1>5, StrikeStays
<1>7. PICK p \in P : r = Touched(m, p[1], p[2])
  BY <1>6 DEF Strikes
<1>8. r.drag = p[1] /\ r.t[m.focus] = p[2]
  BY <1>2, <1>7, TouchedIs
<1> QED
  BY <1>1, <1>2, <1>8

LEMMA StrikeKeepsDrag ==
    ASSUME NEW m \in MouseStates, NEW matched, NEW mods, NEW empty, NEW r, r = Strike(m, matched, mods, empty),
           \A i \in matched : MouseBindings[i].does \notin {"normal", "rectangle"}
    PROVE  r.drag = m.drag
<1>1. "none" \in Names
  BY DEF Names
<1> QED
  BY <1>1, StrikeRelease

Passed(m, r) == /\ r \in MouseStates /\ r.held = m.held /\ r.auto = m.auto /\ r.focus = m.focus
                /\ r.gesture = m.gesture
PressedAs(m, r, btn, mods) ==
    /\ m.drag # "none" => r.drag # "none"
    /\ (/\ UsualBindings /\ mods = "" /\ Region(m.at) = "pane" /\ m.drag = "none"
        /\ Still(m.t[m.focus], btn)) =>
          IF r.drag = "none" THEN Ready(r.t[m.focus], btn) ELSE Untold(r.t[m.focus], btn)
ReleasedAs(m, r, btn, mods) ==
    /\ r.drag = "none"
    /\ (mods = "" /\ Region(m.at) = "pane" /\ Ready(m.t[m.focus], btn)) => Still(r.t[m.focus], btn)

\* A stroke over a pane's cells, a press and then a release.
LEMMA PanePressed ==
    ASSUME NEW m \in MouseStates, NEW btn \in Buttons, NEW mods, NEW quick, NEW empty,
           NEW r, r = ToPane(m, btn, FALSE, mods, quick, empty)
    PROVE  Passed(m, r) /\ PressedAs(m, r, btn, mods)
<1>1. PICK det : det = OnPress(m.det, btn, m.at, quick)
  OBVIOUS
<1>2. PICK n : n = [m EXCEPT !.det = det]
  OBVIOUS
<1>a. PICK event : event = PressType(det, btn)
  OBVIOUS
<1>3. PICK matched : matched = Matched(btn, mods, event, Mode(m), Region(m.at))
  OBVIOUS
<1>4. det \in Detectors
  <2>1. m.det \in Detectors /\ m.at \in Places
    BY DEF MouseStates
  <2> QED
    BY <1>1, <2>1, DetectorPress
<1>5. /\ n \in MouseStates /\ n.t = m.t /\ n.drag = m.drag
      /\ n.held = m.held /\ n.auto = m.auto /\ n.focus = m.focus /\ n.gesture = m.gesture
  BY <1>2, <1>4 DEF MouseStates
<1>6. n.t[n.focus] \in TermStates /\ n.focus \in Terms /\ m.focus \in Terms
  BY <1>5 DEF MouseStates, Terms
<1>c. btn \in Names
  BY DEF Names
<1>d. PICK mode : mode = Mode(m)
  OBVIOUS
<1>e. PICK region : region = Region(m.at)
  OBVIOUS
<1>f. \A i \in matched : /\ MouseBindings[i].mods = mods /\ MouseBindings[i].event = event
                         /\ MouseBindings[i].mode \in {mode, "any"} /\ MouseBindings[i].region \in {region, "any"}
                         /\ UsualBindings => Usual(MouseBindings[i])
  BY <1>3, <1>d, <1>e, MatchedIs
<1>7. r = IF matched # {} THEN Strike(n, matched, mods, empty)
          ELSE IF m.t[m.focus].grabs /\ Region(m.at) = "pane"
                 THEN [n EXCEPT !.t[m.focus] = ButtonEvent(n.t[m.focus], btn, FALSE, mods)]
          ELSE n
  BY <1>1, <1>2, <1>a, <1>3 DEF ToPane
<1>8. CASE matched # {}
  <2>1. r = Strike(n, matched, mods, empty)
    BY <1>7, <1>8
  <2>2. r \in MouseStates /\ Kept(n, r) /\ (n.drag # "none" => r.drag # "none")
    <3>1. n \in MouseStates
      BY <1>5
    <3> QED
      BY <3>1, <2>1, StrikeTyped, Zenon
  <2>3. ASSUME UsualBindings, mods = "", Region(m.at) = "pane", m.drag = "none", Still(m.t[m.focus], btn)
        PROVE  IF r.drag = "none" THEN Ready(r.t[m.focus], btn) ELSE Untold(r.t[m.focus], btn)
    <3>1. \A i \in matched : MouseBindings[i].mode = "ungrabbed" /\ MouseBindings[i].mode \in {Mode(m), "any"}
                             /\ MouseBindings[i].does # "extend"
      <4> SUFFICES ASSUME NEW i \in matched
                   PROVE  MouseBindings[i].mode = "ungrabbed" /\ MouseBindings[i].mode \in {Mode(m), "any"}
                          /\ MouseBindings[i].does # "extend"
        OBVIOUS
      <4>1. /\ MouseBindings[i].mods = "" /\ MouseBindings[i].mode \in {Mode(m), "any"}
            /\ MouseBindings[i].region \in {"pane", "any"} /\ Usual(MouseBindings[i])
        BY <1>d, <1>e, <1>f, <2>3
      <4> QED
        BY <4>1 DEF Usual
    <3>2. ~m.t[m.focus].grabs
      BY <1>8, <3>1 DEF Mode
    <3>3. n.focus = m.focus /\ n.t[n.focus] = m.t[m.focus]
      BY <1>5
    <3>4. r = Strike(n, matched, "", empty)
      BY <2>1, <2>3
    <3> QED
      BY <1>5, <2>3, <3>1, <3>2, <3>3, <3>4, StrikePlain DEF Asks
  <2> QED
    BY <1>5, <2>2, <2>3 DEF Kept, Passed, PressedAs
<1>9. CASE matched = {} /\ m.t[m.focus].grabs /\ Region(m.at) = "pane"
  <2>1. PICK u : u = ButtonEvent(n.t[m.focus], btn, FALSE, mods)
    OBVIOUS
  <2>2. u \in TermStates
    BY <1>5, <1>6, <2>1, ButtonEventTyped
  <2>a. PICK x \in Terms : x = m.focus
    BY <1>6
  <2>3. r = WithTerm(n, x, u)
    BY <1>7, <1>9, <2>1, <2>a DEF WithTerm
  <2>c. PICK y : y = WithTerm(n, x, u)
    OBVIOUS
  <2>d. y \in MouseStates /\ y.t[x] = u /\ Kept(n, y) /\ y.drag = n.drag
    BY <1>5, <2>2, <2>a, <2>c, TermSet
  <2>b. r \in MouseStates /\ r.t[x] = u /\ Kept(n, r) /\ r.drag = n.drag
    BY <2>3, <2>c, <2>d
  <2>4. r \in MouseStates /\ r.t[m.focus] = u /\ Kept(n, r) /\ r.drag = n.drag
    BY <2>a, <2>b
  <2>5. ASSUME mods = "", m.drag = "none", Still(m.t[m.focus], btn)
        PROVE  Ready(u, btn)
    <3>1. u = MousePressEvent(m.t[m.focus], btn, "")
      BY <1>5, <2>1, <2>5 DEF ButtonEvent
    <3> QED
      BY <1>5, <1>6, <1>9, <2>5, <3>1, StillPressed
  <2> QED
    BY <1>5, <2>4, <2>5 DEF Kept, Passed, PressedAs
<1>10. CASE matched = {} /\ ~(m.t[m.focus].grabs /\ Region(m.at) = "pane")
  <2>1. r = n
    BY <1>7, <1>10
  <2> QED
    BY <1>5, <2>1 DEF Still, Untold, Ready, Passed, PressedAs
<1> QED
  BY <1>8, <1>9, <1>10

LEMMA PaneReleased ==
    ASSUME NEW m \in MouseStates, NEW btn \in Buttons, NEW mods, NEW quick, NEW empty, m.drag = "none", UsualBindings,
           NEW r, r = ToPane(m, btn, TRUE, mods, quick, empty)
    PROVE  Passed(m, r) /\ ReleasedAs(m, r, btn, mods)
<1>1. PICK det : det = OnRelease(m.det, btn)
  OBVIOUS
<1>2. PICK n : n = [m EXCEPT !.det = det]
  OBVIOUS
<1>a. PICK event : event = ReleaseType(m.det, btn)
  OBVIOUS
<1>b. event \in {"click", "release"}
  BY <1>a DEF ReleaseType
<1>3. PICK matched : matched = Matched(btn, mods, event, Mode(m), Region(m.at))
  OBVIOUS
<1>4. det \in Detectors
  <2>1. m.det \in Detectors
    BY DEF MouseStates
  <2> QED
    BY <1>1, <2>1, DetectorRelease
<1>5. /\ n \in MouseStates /\ n.t = m.t /\ n.drag = m.drag
      /\ n.held = m.held /\ n.auto = m.auto /\ n.focus = m.focus /\ n.gesture = m.gesture
  BY <1>2, <1>4 DEF MouseStates
<1>6. n.t[n.focus] \in TermStates /\ n.focus \in Terms /\ m.focus \in Terms
  BY <1>5 DEF MouseStates, Terms
<1>c. btn \in Names
  BY DEF Names
<1>d. PICK mode : mode = Mode(m)
  OBVIOUS
<1>e. PICK region : region = Region(m.at)
  OBVIOUS
<1>f. \A i \in matched : /\ MouseBindings[i].mods = mods /\ MouseBindings[i].event = event
                         /\ MouseBindings[i].mode \in {mode, "any"} /\ MouseBindings[i].region \in {region, "any"}
                         /\ UsualBindings => Usual(MouseBindings[i])
  BY <1>3, <1>d, <1>e, MatchedIs
<1>7. r = IF matched # {} THEN Strike(n, matched, mods, empty)
          ELSE IF m.t[m.focus].grabs /\ Region(m.at) = "pane"
                 THEN [n EXCEPT !.t[m.focus] = ButtonEvent(n.t[m.focus], btn, TRUE, mods)]
          ELSE n
  BY <1>1, <1>2, <1>a, <1>3 DEF ToPane
<1>8. CASE matched # {}
  <2>1. r = Strike(n, matched, mods, empty)
    BY <1>7, <1>8
  <2>2. r \in MouseStates /\ Kept(n, r)
    <3>1. n \in MouseStates
      BY <1>5
    <3> QED
      BY <3>1, <2>1, StrikeTyped, Zenon
  <2>3. \A i \in matched : MouseBindings[i].does \notin {"normal", "rectangle"}
    <3> SUFFICES ASSUME NEW i \in matched PROVE MouseBindings[i].does \notin {"normal", "rectangle"}
      OBVIOUS
    <3>1. MouseBindings[i].event = event /\ Usual(MouseBindings[i])
      BY <1>f
    <3> QED
      BY <1>b, <3>1 DEF Usual
  <2>a. PICK y : y = Strike(n, matched, mods, empty)
    OBVIOUS
  <2>b. r = y
    BY <2>1, <2>a
  <2>c. y.drag = n.drag
    BY <1>5, <2>3, <2>a, StrikeKeepsDrag
  <2>4. r.drag = n.drag
    BY <2>b, <2>c
  <2>5. ASSUME mods = "", Region(m.at) = "pane", Ready(m.t[m.focus], btn)
        PROVE  Still(r.t[m.focus], btn)
    <3>1. \A i \in matched : MouseBindings[i].mode = "ungrabbed" /\ MouseBindings[i].mode \in {Mode(m), "any"}
                             /\ MouseBindings[i].does # "extend"
      <4> SUFFICES ASSUME NEW i \in matched
                   PROVE  MouseBindings[i].mode = "ungrabbed" /\ MouseBindings[i].mode \in {Mode(m), "any"}
                          /\ MouseBindings[i].does # "extend"
        OBVIOUS
      <4>1. /\ MouseBindings[i].mods = "" /\ MouseBindings[i].mode \in {Mode(m), "any"}
            /\ MouseBindings[i].region \in {"pane", "any"} /\ Usual(MouseBindings[i])
        BY <1>d, <1>e, <1>f, <2>5
      <4> QED
        BY <4>1 DEF Usual
    <3>2. ~m.t[m.focus].grabs
      BY <1>8, <3>1 DEF Mode
    <3>3. n.focus = m.focus /\ n.t[n.focus] = m.t[m.focus]
      BY <1>5
    <3>4. Still(n.t[n.focus], btn)
      BY <1>6, <2>5, <3>2, <3>3, ReadyReleased
    <3>5. \A i \in matched : MouseBindings[i].does # "extend"
      BY <3>1
    <3>a. Still(y.t[n.focus], btn)
      BY <1>5, <1>c, <2>a, <2>3, <3>4, <3>5, StrikeRelease
    <3>6. Still(r.t[n.focus], btn)
      BY <2>b, <3>a
    <3> QED
      BY <3>3, <3>6
  <2> QED
    BY <1>5, <2>2, <2>4, <2>5 DEF Kept, Passed, ReleasedAs
<1>9. CASE matched = {} /\ m.t[m.focus].grabs /\ Region(m.at) = "pane"
  <2>1. PICK u : u = ButtonEvent(n.t[m.focus], btn, TRUE, mods)
    OBVIOUS
  <2>2. u \in TermStates
    BY <1>5, <1>6, <2>1, ButtonEventTyped
  <2>a. PICK x \in Terms : x = m.focus
    BY <1>6
  <2>3. r = WithTerm(n, x, u)
    BY <1>7, <1>9, <2>1, <2>a DEF WithTerm
  <2>c. PICK y : y = WithTerm(n, x, u)
    OBVIOUS
  <2>d. y \in MouseStates /\ y.t[x] = u /\ Kept(n, y) /\ y.drag = n.drag
    BY <1>5, <2>2, <2>a, <2>c, TermSet
  <2>b. r \in MouseStates /\ r.t[x] = u /\ Kept(n, r) /\ r.drag = n.drag
    BY <2>3, <2>c, <2>d
  <2>4. r \in MouseStates /\ r.t[m.focus] = u /\ Kept(n, r) /\ r.drag = n.drag
    BY <2>a, <2>b
  <2>5. ASSUME Ready(m.t[m.focus], btn) PROVE Still(u, btn)
    <3>1. u = MouseReleaseEvent(m.t[m.focus], btn)
      BY <1>5, <2>1 DEF ButtonEvent
    <3> QED
      BY <1>5, <1>6, <1>9, <2>5, <3>1, ReadyReleased
  <2> QED
    BY <1>5, <2>4, <2>5 DEF Kept, Passed, ReleasedAs
<1>10. CASE matched = {} /\ ~(m.t[m.focus].grabs /\ Region(m.at) = "pane")
  <2>1. r = n
    BY <1>7, <1>10
  <2>2. (Region(m.at) = "pane" /\ Ready(m.t[m.focus], btn)) => Still(m.t[m.focus], btn)
    BY <1>5, <1>6, <1>10, ReadyReleased
  <2> QED
    BY <1>5, <2>1, <2>2 DEF Passed, ReleasedAs
<1> QED
  BY <1>8, <1>9, <1>10

\* What a popup or an embedded terminal makes of a button: nothing is left of it,
\* or it asks for no mouse, or it is told.
Hears(t, u, btn, up, mods) ==
    \/ u = Idle
    \/ ~Asks(t) /\ u = t
    \/ Asks(t) /\ u = ButtonEvent(t, btn, up, mods)
LEMMA IdleStill == Idle \in TermStates /\ \A b : Still(Idle, b)
  BY DEF Idle, TermStates, Names, Still, Nobody
LEMMA ToldPress ==
    ASSUME NEW t \in TermStates, NEW btn \in Buttons, NEW u, Still(t, btn), Hears(t, u, btn, FALSE, "")
    PROVE  Ready(u, btn)
<1>1. CASE u = Idle
  BY <1>1, IdleStill DEF Still, Ready, Untold
<1>2. CASE u = t
  BY <1>2 DEF Still, Ready, Untold
<1>3. CASE Asks(t) /\ u = ButtonEvent(t, btn, FALSE, "")
  <2>1. u = MousePressEvent(t, btn, "")
    BY <1>3 DEF ButtonEvent
  <2>2. t.grabs
    BY <1>3 DEF Asks
  <2> QED
    BY <2>1, <2>2, StillPressed
<1> QED
  BY <1>1, <1>2, <1>3 DEF Hears
LEMMA ToldRelease ==
    ASSUME NEW t \in TermStates, NEW btn \in Buttons, NEW mods, NEW u, Ready(t, btn), Hears(t, u, btn, TRUE, mods)
    PROVE  Still(u, btn)
<1>1. CASE u = Idle
  BY <1>1, IdleStill
<1>2. CASE ~Asks(t) /\ u = t
  BY <1>2, ReadyReleased DEF Asks
<1>3. CASE Asks(t) /\ u = ButtonEvent(t, btn, TRUE, mods)
  <2>1. u = MouseReleaseEvent(t, btn)
    BY <1>3 DEF ButtonEvent
  <2> QED
    BY <1>3, <2>1, ReadyReleased DEF Asks
<1> QED
  BY <1>1, <1>2, <1>3 DEF Hears

Heard(m, r, x, btn, up, mods) == r.drag = m.drag /\ r.det = m.det /\ Hears(m.t[x], r.t[x], btn, up, mods)
LEMMA PopupHears ==
    ASSUME NEW m \in MouseStates, NEW btn \in Buttons, NEW up, NEW mods, NEW closes,
           NEW r, r = ToPopup(m, btn, up, mods, closes)
    PROVE  Passed(m, r) /\ Heard(m, r, "popup", btn, up, mods)
<1>1. PICK x \in Terms : x = "popup"
  BY DEF Terms
<1>2. m.t[x] \in TermStates
  BY DEF MouseStates
<1>3. CASE closes
  <2>1. PICK n : n = WithTerm(m, x, Idle)
    OBVIOUS
  <2>2. n \in MouseStates /\ n.t[x] = Idle /\ Kept(m, n) /\ n.drag = m.drag
    BY <2>1, IdleStill, TermSet
  <2>3. r = [n EXCEPT !.popup = FALSE]
    BY <1>1, <1>3, <2>1 DEF ToPopup, WithTerm, MouseStates
  <2> QED
    BY <1>1, <2>2, <2>3 DEF MouseStates, Kept, Hears, Passed, Heard
<1>4. CASE ~closes /\ m.t[x].grabs
  <2>1. PICK u : u = ButtonEvent(m.t[x], btn, up, mods)
    OBVIOUS
  <2>2. u \in TermStates
    BY <1>2, <2>1, ButtonEventTyped
  <2>3. r = WithTerm(m, x, u)
    BY <1>1, <1>4, <2>1 DEF ToPopup, WithTerm, MouseStates
  <2>4. PICK n : n = WithTerm(m, x, u)
    OBVIOUS
  <2>5. n \in MouseStates /\ n.t[x] = u /\ Kept(m, n) /\ n.drag = m.drag
    BY <2>2, <2>4, TermSet
  <2> QED
    BY <1>1, <1>4, <2>1, <2>3, <2>4, <2>5 DEF Kept, Hears, Asks, Passed, Heard
<1>5. CASE ~closes /\ ~m.t[x].grabs
  <2>1. r = m
    BY <1>1, <1>5 DEF ToPopup
  <2> QED
    BY <1>1, <1>5, <2>1 DEF Hears, Asks, Passed, Heard
<1> QED
  BY <1>3, <1>4, <1>5

LEMMA EmbeddedHears ==
    ASSUME NEW m \in MouseStates, NEW btn \in Buttons, NEW up \in BOOLEAN, NEW mods,
           NEW r, r = ToEmbedded(m, btn, up, mods)
    PROVE  Passed(m, r) /\ Heard(m, r, "embedded", btn, up, mods)
<1>1. PICK x \in Terms : x = "embedded"
  BY DEF Terms
<1>2. PICK n : n = [m EXCEPT !.focusIn = @ \/ ~up]
  OBVIOUS
<1>3. n \in MouseStates /\ n.held = m.held /\ n.auto = m.auto /\ n.focus = m.focus /\ n.gesture = m.gesture
      /\ n.drag = m.drag /\ n.det = m.det /\ n.t = m.t
  <2>1. (m.focusIn \/ ~up) \in BOOLEAN
    OBVIOUS
  <2> QED
    BY <1>2, <2>1 DEF MouseStates
<1>4. n.t[x] \in TermStates
  BY <1>3 DEF MouseStates
<1>5. CASE n.t[x].grabs
  <2>1. PICK u : u = ButtonEvent(n.t[x], btn, up, mods)
    OBVIOUS
  <2>2. u \in TermStates
    BY <1>4, <2>1, ButtonEventTyped
  <2>3. r = WithTerm(n, x, u)
    BY <1>1, <1>2, <1>5, <2>1 DEF ToEmbedded, WithTerm
  <2>4. PICK y : y = WithTerm(n, x, u)
    OBVIOUS
  <2>5. y \in MouseStates /\ y.t[x] = u /\ Kept(n, y) /\ y.drag = n.drag
    BY <1>3, <2>2, <2>4, TermSet
  <2> QED
    BY <1>1, <1>3, <1>5, <2>1, <2>3, <2>4, <2>5 DEF Kept, Hears, Asks, Passed, Heard
<1>6. CASE ~n.t[x].grabs
  <2>1. r = n
    BY <1>1, <1>2, <1>6 DEF ToEmbedded
  <2> QED
    BY <1>1, <1>3, <1>6, <2>1 DEF Hears, Asks, Passed, Heard
<1> QED
  BY <1>5, <1>6

Aside(m, f) == /\ f \in MouseStates /\ f.held = m.held /\ f.auto = m.auto /\ f.gesture = m.gesture /\ f.at = m.at
               /\ f.drag = m.drag /\ f.det = m.det /\ f.t = m.t
LEMMA FocusMoved ==
    ASSUME NEW m \in MouseStates, NEW up, NEW f, f = FocusPane(m, up)
    PROVE  Aside(m, f)
<1>1. PaneAt(m.at) # Nobody => PaneAt(m.at) \in Panes
  BY DEF PaneAt, Panes, Nobody
<1> QED
  BY <1>1 DEF FocusPane, MouseStates, Aside
LEMMA EmbeddedLeft ==
    ASSUME NEW m \in MouseStates, NEW up, NEW f, f = LeaveEmbedded(m, up)
    PROVE  Aside(m, f) /\ Passed(m, f)
  BY DEF LeaveEmbedded, MouseStates, Aside, Passed

Apart == {"popup", "embedded"}
LEMMA SurfaceIs ==
    ASSUME NEW m \in MouseStates
    PROVE  /\ OverPopup(m) => Surface(m) = "popup" /\ Region(m.at) = "pane"
           /\ (~OverPopup(m) /\ OverEmbedded(m)) => Surface(m) = "embedded" /\ Region(m.at) = "pane"
           /\ (~OverPopup(m) /\ ~OverEmbedded(m)) => Surface(m) = Region(m.at) /\ Surface(m) \notin Apart
           /\ Region(m.at) = "pane" => Surface(m) \in {"popup", "embedded", "pane"}
<1>1. OverPopup(m) => Region(m.at) = "pane"
  BY DEF OverPopup, Region
<1>2. OverEmbedded(m) => Region(m.at) = "pane"
  BY DEF OverEmbedded, Region
<1>3. Region(m.at) \notin Apart
  BY DEF Region, Apart
<1> QED
  BY <1>1, <1>2, <1>3 DEF Surface

\* What a press does to the terminal it is for, when it is the first.
Pressing(m, f, r, btn) ==
    IF Surface(f) \in Apart
      THEN r.drag = "none" /\ r.det = m.det /\ (Still(m.t[Surface(f)], btn) => Ready(r.t[Surface(f)], btn))
      ELSE Still(m.t[f.focus], btn) =>
              IF r.drag = "none" THEN Ready(r.t[f.focus], btn) ELSE Untold(r.t[f.focus], btn)
Routed(m, btn, mods, f, r) ==
    /\ r \in MouseStates /\ r.held = m.held /\ r.auto = m.auto /\ r.gesture = m.gesture
    /\ (m.drag # "none" => r.drag # "none")
    /\ (UsualBindings /\ mods = "" /\ Region(m.at) = "pane" /\ m.drag = "none") =>
          r.focus = f.focus /\ Pressing(m, f, r, btn)
LEMMA PressRouted ==
    ASSUME NEW m \in MouseStates, NEW btn \in Buttons, NEW mods, NEW quick, NEW closes,
           NEW r, r = RouteButton(m, btn, FALSE, mods, quick, closes), NEW f, f = FocusPane(m, FALSE)
    PROVE  Routed(m, btn, mods, f, r)
<1>1. /\ f \in MouseStates /\ f.held = m.held /\ f.auto = m.auto /\ f.gesture = m.gesture /\ f.at = m.at
      /\ f.drag = m.drag /\ f.det = m.det /\ f.t = m.t
  BY FocusMoved DEF Aside
<1>2. r = IF m.at = "divider" THEN m
          ELSE IF OverPopup(f) THEN ToPopup(f, btn, FALSE, mods, closes)
          ELSE IF OverEmbedded(f) THEN ToEmbedded(f, btn, FALSE, mods)
          ELSE ToPane(LeaveEmbedded(f, FALSE), btn, FALSE, mods, quick, closes)
  BY DEF RouteButton
<1>3. CASE m.at = "divider"
  <2>1. r = m /\ Region(m.at) # "pane"
    BY <1>2, <1>3 DEF Region
  <2> QED
    BY <2>1 DEF Routed
<1>4. CASE m.at # "divider" /\ OverPopup(f)
  <2>1. r = ToPopup(f, btn, FALSE, mods, closes)
    BY <1>2, <1>4
  <2>2. PICK y : y = ToPopup(f, btn, FALSE, mods, closes)
    OBVIOUS
  <2>a. Passed(f, y) /\ Heard(f, y, "popup", btn, FALSE, mods)
    BY <1>1, <2>2, PopupHears
  <2>3. /\ y \in MouseStates /\ y.held = f.held /\ y.auto = f.auto /\ y.focus = f.focus /\ y.gesture = f.gesture
        /\ y.drag = f.drag /\ y.det = f.det /\ Hears(f.t["popup"], y.t["popup"], btn, FALSE, mods)
    BY <2>a DEF Passed, Heard
  <2>4. Surface(f) = "popup"
    BY <1>1, <1>4, SurfaceIs
  <2>5. f.t["popup"] \in TermStates
    BY <1>1 DEF MouseStates, Terms
  <2>6. (mods = "" /\ Still(f.t["popup"], btn)) => Ready(y.t["popup"], btn)
    BY <2>3, <2>5, ToldPress
  <2> QED
    BY <1>1, <2>1, <2>2, <2>3, <2>4, <2>6 DEF Pressing, Apart, Routed
<1>5. CASE m.at # "divider" /\ ~OverPopup(f) /\ OverEmbedded(f)
  <2>1. r = ToEmbedded(f, btn, FALSE, mods)
    BY <1>2, <1>5
  <2>2. PICK y : y = ToEmbedded(f, btn, FALSE, mods)
    OBVIOUS
  <2>a. Passed(f, y) /\ Heard(f, y, "embedded", btn, FALSE, mods)
    BY <1>1, <2>2, EmbeddedHears
  <2>3. /\ y \in MouseStates /\ y.held = f.held /\ y.auto = f.auto /\ y.focus = f.focus /\ y.gesture = f.gesture
        /\ y.drag = f.drag /\ y.det = f.det /\ Hears(f.t["embedded"], y.t["embedded"], btn, FALSE, mods)
    BY <2>a DEF Passed, Heard
  <2>4. Surface(f) = "embedded"
    BY <1>1, <1>5, SurfaceIs
  <2>5. f.t["embedded"] \in TermStates
    BY <1>1 DEF MouseStates, Terms
  <2>6. (mods = "" /\ Still(f.t["embedded"], btn)) => Ready(y.t["embedded"], btn)
    BY <2>3, <2>5, ToldPress
  <2> QED
    BY <1>1, <2>1, <2>2, <2>3, <2>4, <2>6 DEF Pressing, Apart, Routed
<1>6. CASE m.at # "divider" /\ ~OverPopup(f) /\ ~OverEmbedded(f)
  <2>1. PICK n : n = LeaveEmbedded(f, FALSE)
    OBVIOUS
  <2>2. /\ n \in MouseStates /\ n.held = f.held /\ n.auto = f.auto /\ n.gesture = f.gesture /\ n.at = f.at
        /\ n.drag = f.drag /\ n.det = f.det /\ n.t = f.t /\ n.focus = f.focus
    <3>1. Aside(f, n) /\ Passed(f, n)
      BY <1>1, <2>1, EmbeddedLeft
    <3> QED
      BY <3>1 DEF Aside, Passed
  <2>3. PICK y : y = ToPane(n, btn, FALSE, mods, quick, closes)
    OBVIOUS
  <2>4. /\ y \in MouseStates /\ y.held = n.held /\ y.auto = n.auto /\ y.focus = n.focus /\ y.gesture = n.gesture
        /\ n.drag # "none" => y.drag # "none"
        /\ (/\ UsualBindings /\ mods = "" /\ Region(n.at) = "pane" /\ n.drag = "none"
            /\ Still(n.t[n.focus], btn)) =>
              IF y.drag = "none" THEN Ready(y.t[n.focus], btn) ELSE Untold(y.t[n.focus], btn)
    <3>1. Passed(n, y) /\ PressedAs(n, y, btn, mods)
      BY <2>2, <2>3, PanePressed
    <3> QED
      BY <3>1 DEF Passed, PressedAs
  <2>5. r = y
    BY <1>2, <1>6, <2>1, <2>3
  <2>6. Surface(f) \notin Apart
    BY <1>1, <1>6, SurfaceIs
  <2> QED
    BY <1>1, <2>2, <2>4, <2>5, <2>6 DEF Pressing, Routed
<1> QED
  BY <1>3, <1>4, <1>5, <1>6

Returned(m, btn, mods, r) ==
    /\ r \in MouseStates /\ r.held = m.held /\ r.auto = m.auto /\ r.gesture = m.gesture /\ r.drag = "none"
    /\ (Surface(m) \in Apart /\ Ready(m.t[Surface(m)], btn)) => Still(r.t[Surface(m)], btn)
    /\ (Surface(m) = "pane" /\ mods = "" /\ Ready(m.t[m.focus], btn)) => Still(r.t[m.focus], btn)
LEMMA ReleaseRouted ==
    ASSUME NEW m \in MouseStates, NEW btn \in Buttons, NEW mods, NEW quick, NEW closes, m.drag = "none", UsualBindings,
           NEW r, r = RouteButton(m, btn, TRUE, mods, quick, closes)
    PROVE  Returned(m, btn, mods, r)
<1>1. FocusPane(m, TRUE) = m
  BY DEF FocusPane
<1>2. r = IF m.at = "divider" THEN m
          ELSE IF OverPopup(m) THEN ToPopup(m, btn, TRUE, mods, closes)
          ELSE IF OverEmbedded(m) THEN ToEmbedded(m, btn, TRUE, mods)
          ELSE ToPane(LeaveEmbedded(m, TRUE), btn, TRUE, mods, quick, closes)
  BY <1>1 DEF RouteButton
<1>3. CASE m.at = "divider"
  <2>1. r = m /\ Surface(m) = "divider"
    <3>1. ~OverPopup(m) /\ ~OverEmbedded(m) /\ Region(m.at) = "divider"
      BY <1>3 DEF OverPopup, OverEmbedded, Region
    <3> QED
      BY <1>2, <1>3, <3>1, SurfaceIs
  <2> QED
    BY <2>1 DEF Apart, Returned
<1>4. CASE m.at # "divider" /\ OverPopup(m)
  <2>1. r = ToPopup(m, btn, TRUE, mods, closes)
    BY <1>2, <1>4
  <2>2. PICK y : y = ToPopup(m, btn, TRUE, mods, closes)
    OBVIOUS
  <2>a. Passed(m, y) /\ Heard(m, y, "popup", btn, TRUE, mods)
    BY <2>2, PopupHears
  <2>3. /\ y \in MouseStates /\ y.held = m.held /\ y.auto = m.auto /\ y.focus = m.focus /\ y.gesture = m.gesture
        /\ y.drag = m.drag /\ y.det = m.det /\ Hears(m.t["popup"], y.t["popup"], btn, TRUE, mods)
    BY <2>a DEF Passed, Heard
  <2>4. Surface(m) = "popup"
    BY <1>4, SurfaceIs
  <2>5. m.t["popup"] \in TermStates
    BY DEF MouseStates, Terms
  <2>6. Ready(m.t["popup"], btn) => Still(y.t["popup"], btn)
    BY <2>3, <2>5, ToldRelease
  <2> QED
    BY <2>1, <2>2, <2>3, <2>4, <2>6 DEF Returned
<1>5. CASE m.at # "divider" /\ ~OverPopup(m) /\ OverEmbedded(m)
  <2>1. r = ToEmbedded(m, btn, TRUE, mods)
    BY <1>2, <1>5
  <2>2. PICK y : y = ToEmbedded(m, btn, TRUE, mods)
    OBVIOUS
  <2>a. Passed(m, y) /\ Heard(m, y, "embedded", btn, TRUE, mods)
    BY <2>2, EmbeddedHears
  <2>3. /\ y \in MouseStates /\ y.held = m.held /\ y.auto = m.auto /\ y.focus = m.focus /\ y.gesture = m.gesture
        /\ y.drag = m.drag /\ y.det = m.det /\ Hears(m.t["embedded"], y.t["embedded"], btn, TRUE, mods)
    BY <2>a DEF Passed, Heard
  <2>4. Surface(m) = "embedded"
    BY <1>5, SurfaceIs
  <2>5. m.t["embedded"] \in TermStates
    BY DEF MouseStates, Terms
  <2>6. Ready(m.t["embedded"], btn) => Still(y.t["embedded"], btn)
    BY <2>3, <2>5, ToldRelease
  <2> QED
    BY <2>1, <2>2, <2>3, <2>4, <2>6 DEF Returned
<1>6. CASE m.at # "divider" /\ ~OverPopup(m) /\ ~OverEmbedded(m)
  <2>1. LeaveEmbedded(m, TRUE) = m
    BY DEF LeaveEmbedded
  <2>3. PICK y : y = ToPane(m, btn, TRUE, mods, quick, closes)
    OBVIOUS
  <2>4. /\ y \in MouseStates /\ y.held = m.held /\ y.auto = m.auto /\ y.focus = m.focus /\ y.gesture = m.gesture
        /\ y.drag = "none"
        /\ (mods = "" /\ Region(m.at) = "pane" /\ Ready(m.t[m.focus], btn)) => Still(y.t[m.focus], btn)
    <3>1. Passed(m, y) /\ ReleasedAs(m, y, btn, mods)
      BY <2>3, PaneReleased
    <3> QED
      BY <3>1 DEF Passed, ReleasedAs
  <2>5. r = y
    BY <1>2, <1>6, <2>1, <2>3
  <2>6. Surface(m) \notin Apart /\ Surface(m) = Region(m.at)
    BY <1>6, SurfaceIs
  <2> QED
    BY <2>4, <2>5, <2>6 DEF Returned, Apart
<1> QED
  BY <1>3, <1>4, <1>5, <1>6

Ended(m, r, b) ==
    /\ r \in MouseStates /\ r.held = m.held /\ r.auto = 0 /\ r.gesture = m.gesture /\ r.drag = "none"
    /\ r.focus = m.focus /\ r.det = m.det
    /\ Untold(m.t[m.focus], b) => Still(r.t[m.focus], b)
LEMMA DragEnded ==
    ASSUME NEW m \in MouseStates, NEW b, NEW r, r = EndDrag(m)
    PROVE  Ended(m, r, b)
<1>1. PICK x \in Terms : x = m.focus
  BY DEF MouseStates, Terms
<1>2. m.t[x] \in TermStates
  BY DEF MouseStates
<1>3. PICK u : u = MouseReleaseEvent(m.t[x], "left")
  OBVIOUS
<1>4. u \in TermStates
  BY <1>2, <1>3, ReleaseEventTyped
<1>5. PICK n : n = WithTerm(m, x, u)
  OBVIOUS
<1>6. n \in MouseStates /\ n.t[x] = u /\ Kept(m, n) /\ n.drag = m.drag
  BY <1>4, <1>5, TermSet
<1>7. r = [n EXCEPT !.drag = "none", !.auto = 0]
  BY <1>1, <1>3, <1>5 DEF EndDrag, WithTerm, MouseStates
<1>8. Untold(m.t[x], b) => Still(u, b)
  BY <1>2, <1>3, DragReleased
<1>9. /\ r \in MouseStates /\ r.held = n.held /\ r.auto = 0 /\ r.gesture = n.gesture /\ r.drag = "none"
      /\ r.focus = n.focus /\ r.det = n.det /\ r.t = n.t
  BY <1>6, <1>7 DEF MouseStates, Drags
<1> QED
  BY <1>1, <1>6, <1>8, <1>9 DEF Kept, Ended

OnPane(m) == /\ m.gesture.on = "pane" /\ m.gesture.to = m.focus
             /\ IF m.drag = "none" THEN Ready(m.t[m.focus], m.gesture.btn) ELSE Untold(m.t[m.focus], m.gesture.btn)
OnApart(m) == /\ m.gesture.on \in Apart /\ m.gesture.to = m.gesture.on
              /\ m.drag = "none" /\ m.det.active \notin m.det.down
              /\ Ready(m.t[m.gesture.on], m.gesture.btn)
CalmKept(m) == \/ m.held = {} /\ Still(m.t[m.gesture.to], m.gesture.btn)
               \/ m.held = {m.gesture.btn} /\ (OnPane(m) \/ OnApart(m))
MouseGood(m) == /\ m \in MouseStates
                /\ m.drag # "none" => m.held # {}
                /\ m.auto # 0 => m.drag # "none"
                /\ m.gesture.calm => CalmKept(m)

BeginsAs(m, btn, mods, f, g) ==
    /\ g \in Gestures /\ g.btn = btn /\ g.on = Surface(f)
    /\ g.to = IF Surface(f) \in Apart THEN Surface(f) ELSE f.focus
    /\ g.calm => /\ m.held = {} /\ mods = "" /\ Region(m.at) = "pane" /\ Still(m.t[g.to], btn)
                 /\ Surface(f) \in Apart => m.det.active \notin m.det.down
LEMMA BeginIs ==
    ASSUME NEW m \in MouseStates, NEW btn \in Buttons, NEW mods, NEW g, g = Begin(m, btn, mods),
           NEW f, f = FocusPane(m, FALSE)
    PROVE  BeginsAs(m, btn, mods, f, g)
<1>1. f \in MouseStates /\ f.at = m.at /\ f.t = m.t
  BY FocusMoved DEF Aside
<1>2. PICK s : s = Surface(f)
  OBVIOUS
<1>3. PICK to : to = IF s \in Apart THEN s ELSE f.focus
  OBVIOUS
<1>4. s \in {"popup", "embedded", "pane", "bar", "divider"} /\ to \in Terms /\ btn \in Names
  BY <1>1, <1>2, <1>3 DEF Surface, Region, Apart, MouseStates, Terms, Names
<1>5. PICK c \in BOOLEAN : c = (/\ m.held = {} /\ mods = "" /\ Region(m.at) = "pane"
                                /\ m.t[to].sel # "active" /\ ~m.t[to].pend /\ m.t[to].down = Nobody
                                /\ btn \notin m.t[to].told /\ (s # "pane" => m.det.active \notin m.det.down))
  OBVIOUS
<1>6. g = [btn |-> btn, to |-> to, on |-> s, calm |-> c]
  BY <1>2, <1>3, <1>5 DEF Begin, Apart
<1>7. c => /\ m.held = {} /\ mods = "" /\ Region(m.at) = "pane" /\ Still(m.t[to], btn)
           /\ s \in Apart => m.det.active \notin m.det.down
  BY <1>5 DEF Still, Apart
<1>8. g \in Gestures /\ g.btn = btn /\ g.on = s /\ g.to = to /\ g.calm = c
  BY <1>4, <1>6 DEF Gestures
<1> QED
  BY <1>2, <1>3, <1>7, <1>8 DEF BeginsAs

LEMMA ButtonPressed ==
    ASSUME UsualBindings, NEW m, MouseGood(m), NEW btn \in Buttons, NEW mods, NEW quick, NEW closes,
           NEW y, y = OnMouseButton(m, btn, FALSE, mods, quick, closes)
    PROVE  MouseGood(y)
<1>0. m \in MouseStates /\ (m.drag # "none" => m.held # {}) /\ (m.auto # 0 => m.drag # "none")
  BY DEF MouseGood
<1>1. PICK n : n = [m EXCEPT !.held = m.held \cup {btn}]
  OBVIOUS
<1>2. /\ n \in MouseStates /\ n.held = m.held \cup {btn} /\ n.at = m.at /\ n.drag = m.drag /\ n.auto = m.auto
      /\ n.focus = m.focus /\ n.alt = m.alt /\ n.popup = m.popup /\ n.det = m.det /\ n.t = m.t
  BY <1>0, <1>1 DEF MouseStates
<1>3. PICK g : g = Begin(m, btn, mods)
  OBVIOUS
<1>4. PICK r : r = RouteButton(n, btn, FALSE, mods, quick, closes)
  OBVIOUS
<1>5. y = [r EXCEPT !.gesture = g]
  BY <1>1, <1>3, <1>4 DEF OnMouseButton
<1>6. PICK f : f = FocusPane(m, FALSE)
  OBVIOUS
<1>7. PICK e : e = FocusPane(n, FALSE)
  OBVIOUS
<1>8. e.focus = f.focus /\ Surface(e) = Surface(f)
  BY <1>0, <1>1, <1>2, <1>6, <1>7 DEF FocusPane, Surface, OverPopup, OverEmbedded, MouseStates
<1>a. BeginsAs(m, btn, mods, f, g)
  BY <1>0, <1>3, <1>6, BeginIs
<1>9. /\ g \in Gestures /\ g.btn = btn /\ g.on = Surface(f)
      /\ g.to = IF Surface(f) \in Apart THEN Surface(f) ELSE f.focus
      /\ g.calm => /\ m.held = {} /\ mods = "" /\ Region(m.at) = "pane" /\ Still(m.t[g.to], btn)
                   /\ Surface(f) \in Apart => m.det.active \notin m.det.down
  BY <1>a DEF BeginsAs
<1>b. Routed(n, btn, mods, e, r)
  BY <1>2, <1>4, <1>7, PressRouted
<1>10. /\ r \in MouseStates /\ r.held = n.held /\ r.auto = n.auto /\ (n.drag # "none" => r.drag # "none")
       /\ (UsualBindings /\ mods = "" /\ Region(n.at) = "pane" /\ n.drag = "none") =>
             r.focus = e.focus /\ Pressing(n, e, r, btn)
  BY <1>b DEF Routed
<1>11. /\ y \in MouseStates /\ y.held = r.held /\ y.drag = r.drag /\ y.auto = r.auto /\ y.focus = r.focus
       /\ y.t = r.t /\ y.det = r.det /\ y.gesture = g
  BY <1>5, <1>9, <1>10 DEF MouseStates
<1>12. btn \in y.held /\ (y.auto # 0 => y.drag # "none")
  BY <1>0, <1>2, <1>10, <1>11
<1>13. ASSUME g.calm PROVE CalmKept(y)
  <2>1. m.held = {} /\ mods = "" /\ Region(n.at) = "pane" /\ n.drag = "none" /\ Still(n.t[g.to], btn)
        /\ (Surface(f) \in Apart => n.det.active \notin n.det.down)
    BY <1>0, <1>2, <1>9, <1>13
  <2>2. r.focus = e.focus /\ Pressing(n, e, r, btn)
    BY <1>10, <2>1
  <2>3. y.held = {btn}
    BY <1>2, <1>10, <1>11, <2>1
  <2>4. CASE Surface(f) \in Apart
    <3>1. r.drag = "none" /\ r.det = n.det /\ (Still(n.t[Surface(f)], btn) => Ready(r.t[Surface(f)], btn))
      BY <1>8, <2>2, <2>4 DEF Pressing
    <3>2. g.to = Surface(f)
      BY <1>9, <2>4
    <3>3. OnApart(y)
      BY <1>9, <1>11, <2>1, <2>4, <3>1, <3>2 DEF OnApart
    <3> QED
      BY <1>9, <1>11, <2>3, <3>3 DEF CalmKept
  <2>5. CASE Surface(f) \notin Apart
    <3>1. Still(n.t[e.focus], btn) => IF r.drag = "none" THEN Ready(r.t[e.focus], btn) ELSE Untold(r.t[e.focus], btn)
      BY <1>8, <2>2, <2>5 DEF Pressing
    <3>2. g.to = e.focus
      BY <1>8, <1>9, <2>5
    <3>3. Surface(f) = "pane"
      <4>1. f \in MouseStates /\ f.at = m.at
        BY <1>0, <1>6, FocusMoved DEF Aside
      <4>2. Region(f.at) = "pane"
        BY <1>2, <2>1, <4>1
      <4>3. Surface(f) \in {"popup", "embedded", "pane"}
        BY <4>1, <4>2, SurfaceIs
      <4> QED
        BY <2>5, <4>3 DEF Apart
    <3>4. OnPane(y)
      BY <1>9, <1>11, <2>1, <2>2, <3>1, <3>2, <3>3 DEF OnPane
    <3> QED
      BY <1>9, <1>11, <2>3, <3>4 DEF CalmKept
  <2> QED
    BY <2>4, <2>5
<1> QED
  BY <1>11, <1>12, <1>13 DEF MouseGood

LEMMA ButtonReleased ==
    ASSUME UsualBindings, NEW m, MouseGood(m), NEW btn \in m.held, NEW mods, NEW quick, NEW closes,
           NEW y, y = OnMouseButton(m, btn, TRUE, mods, quick, closes)
    PROVE  MouseGood(y)
<1>0. m \in MouseStates /\ (m.drag # "none" => m.held # {}) /\ (m.auto # 0 => m.drag # "none") /\ btn \in Buttons
  BY DEF MouseGood, MouseStates
<1>1. PICK n : n = [m EXCEPT !.held = m.held \ {btn}]
  OBVIOUS
<1>2. /\ n \in MouseStates /\ n.held = m.held \ {btn} /\ n.at = m.at /\ n.drag = m.drag /\ n.auto = m.auto
      /\ n.focus = m.focus /\ n.alt = m.alt /\ n.popup = m.popup /\ n.det = m.det /\ n.t = m.t
  BY <1>0, <1>1 DEF MouseStates
<1>3. PICK c \in BOOLEAN : c = (m.gesture.calm /\ mods = "" /\ (Surface(m) = m.gesture.on \/ m.drag # "none"))
  OBVIOUS
<1>4. PICK g : g = [m.gesture EXCEPT !.calm = c]
  OBVIOUS
<1>5. g \in Gestures /\ g.btn = m.gesture.btn /\ g.to = m.gesture.to /\ g.on = m.gesture.on /\ g.calm = c
  BY <1>0, <1>4 DEF MouseStates, Gestures
<1>6. PICK r : r = RouteButton(n, btn, TRUE, mods, quick, closes)
  OBVIOUS
<1>7. y = [r EXCEPT !.gesture = g]
  BY <1>0, <1>1, <1>3, <1>4, <1>6 DEF OnMouseButton, MouseStates, Gestures
<1>8. c => m.held = {btn} /\ m.gesture.btn = btn /\ (OnPane(m) \/ OnApart(m))
  BY <1>3 DEF MouseGood, CalmKept
<1>9. m.gesture.to \in Terms
  BY <1>0 DEF MouseStates, Gestures
<1>10. CASE m.drag # "none"
  <2>1. r = EndDrag(n)
    BY <1>2, <1>6, <1>10 DEF RouteButton
  <2>2. PICK z : z = EndDrag(n)
    OBVIOUS
  <2>3. Ended(n, z, btn)
    BY <1>2, <2>2, DragEnded
  <2>4. /\ r \in MouseStates /\ r.held = n.held /\ r.auto = 0 /\ r.drag = "none" /\ r.focus = n.focus
        /\ Untold(n.t[n.focus], btn) => Still(r.t[n.focus], btn)
    BY <2>1, <2>2, <2>3 DEF Ended
  <2>5. /\ y \in MouseStates /\ y.held = m.held \ {btn} /\ y.drag = "none" /\ y.auto = 0 /\ y.t = r.t /\ y.gesture = g
    BY <1>2, <1>5, <1>7, <2>4 DEF MouseStates
  <2>6. ASSUME c PROVE CalmKept(y)
    <3>1. OnPane(m) /\ m.gesture.btn = btn /\ m.held = {btn}
      BY <1>8, <1>10, <2>6 DEF OnApart
    <3>2. g.to = m.focus /\ Untold(m.t[m.focus], btn)
      BY <1>5, <1>10, <3>1 DEF OnPane
    <3>3. Still(y.t[g.to], btn)
      BY <1>2, <2>4, <2>5, <3>2
    <3> QED
      BY <1>5, <2>5, <3>1, <3>3 DEF CalmKept
  <2> QED
    BY <1>5, <2>5, <2>6 DEF MouseGood
<1>11. CASE m.drag = "none"
  <2>1. Returned(n, btn, mods, r)
    BY <1>0, <1>2, <1>6, <1>11, ReleaseRouted
  <2>2. /\ r \in MouseStates /\ r.held = n.held /\ r.auto = n.auto /\ r.drag = "none"
        /\ (Surface(n) \in Apart /\ Ready(n.t[Surface(n)], btn)) => Still(r.t[Surface(n)], btn)
        /\ (Surface(n) = "pane" /\ mods = "" /\ Ready(n.t[n.focus], btn)) => Still(r.t[n.focus], btn)
    BY <2>1 DEF Returned
  <2>3. /\ y \in MouseStates /\ y.held = m.held \ {btn} /\ y.drag = "none" /\ y.auto = m.auto /\ y.t = r.t /\ y.gesture = g
    BY <1>2, <1>5, <1>7, <2>2 DEF MouseStates
  <2>4. Surface(n) = Surface(m)
    BY <1>2 DEF Surface, OverPopup, OverEmbedded
  <2>5. ASSUME c PROVE CalmKept(y)
    <3>1. mods = "" /\ Surface(m) = m.gesture.on /\ m.gesture.btn = btn /\ m.held = {btn}
      BY <1>3, <1>8, <1>11, <2>5
    <3>2. CASE OnPane(m)
      <4>1. Surface(n) = "pane" /\ g.to = m.focus /\ Ready(m.t[m.focus], btn)
        BY <1>5, <1>11, <2>4, <3>1, <3>2 DEF OnPane
      <4>2. Still(y.t[g.to], btn)
        BY <1>2, <2>2, <2>3, <3>1, <4>1
      <4> QED
        BY <1>5, <2>3, <3>1, <4>2 DEF CalmKept
    <3>3. CASE OnApart(m)
      <4>1. Surface(n) \in Apart /\ g.to = Surface(n) /\ Ready(n.t[Surface(n)], btn)
        BY <1>2, <1>5, <2>4, <3>1, <3>3 DEF OnApart
      <4>2. Still(y.t[g.to], btn)
        BY <2>2, <2>3, <4>1
      <4> QED
        BY <1>5, <2>3, <3>1, <4>2 DEF CalmKept
    <3> QED
      BY <1>8, <2>5, <3>2, <3>3
  <2> QED
    BY <1>0, <1>5, <1>11, <2>3, <2>5 DEF MouseGood
<1> QED
  BY <1>10, <1>11

MovedOver(m, r) ==
    /\ r \in MouseStates /\ Kept(m, r) /\ r.drag = m.drag
    /\ \A x \in Terms \ {m.focus} : r.t[x] = m.t[x]
    /\ \A b : Untold(m.t[m.focus], b) => Untold(r.t[m.focus], b)
    /\ \A b : Ready(m.t[m.focus], b) => r.t[m.focus] = m.t[m.focus]
    /\ \A b : Still(m.t[m.focus], b) => r.t[m.focus] = m.t[m.focus]
\* The terminal in focus is moved over: what one press left ready stays so, what a
\* drag is over is not told.
LEMMA FocusMovedOver ==
    ASSUME NEW m \in MouseStates, NEW r, r = WithTerm(m, m.focus, MouseMoveEvent(m.t[m.focus]))
    PROVE  MovedOver(m, r)
<1>1. PICK x \in Terms : x = m.focus
  BY DEF MouseStates, Terms
<1>2. m.t[x] \in TermStates
  BY DEF MouseStates
<1>3. PICK u : u = MouseMoveEvent(m.t[x])
  OBVIOUS
<1>4. u \in TermStates
  BY <1>2, <1>3, MoveEventTyped
<1>5. PICK n : n = WithTerm(m, x, u)
  OBVIOUS
<1>6. n \in MouseStates /\ n.t[x] = u /\ (\A y \in Terms \ {x} : n.t[y] = m.t[y]) /\ Kept(m, n) /\ n.drag = m.drag
  BY <1>4, <1>5, TermSet
<1>7. ASSUME NEW b, Untold(m.t[x], b) PROVE Untold(u, b)
  BY <1>2, <1>3, <1>7, UntoldMoved
<1>8. ASSUME NEW b, Ready(m.t[x], b) PROVE u = m.t[x]
  BY <1>3, <1>8, ReadyMoved DEF Ready
<1>9. ASSUME NEW b, Still(m.t[x], b) PROVE u = m.t[x]
  BY <1>3, <1>9, ReadyMoved DEF Still
<1>10. r = n
  BY <1>1, <1>3, <1>5
<1> QED
  BY <1>1, <1>6, <1>7, <1>8, <1>9, <1>10 DEF MovedOver

\* Moving over the terminal in focus, with the drag and the scrolling as they come.
LEMMA MovedGood ==
    ASSUME NEW m, MouseGood(m), NEW r, MovedOver(m, r), NEW d \in Drags, NEW a \in {-1, 0, 1},
           d = "none" <=> m.drag = "none", a # 0 => d # "none", NEW y, y = [r EXCEPT !.drag = d, !.auto = a]
    PROVE  MouseGood(y)
<1>0. m \in MouseStates /\ (m.drag # "none" => m.held # {})
  BY DEF MouseGood
<1>1. /\ r \in MouseStates /\ Kept(m, r) /\ r.drag = m.drag
      /\ \A x \in Terms \ {m.focus} : r.t[x] = m.t[x]
      /\ \A b : Untold(m.t[m.focus], b) => Untold(r.t[m.focus], b)
      /\ \A b : Ready(m.t[m.focus], b) => r.t[m.focus] = m.t[m.focus]
      /\ \A b : Still(m.t[m.focus], b) => r.t[m.focus] = m.t[m.focus]
  BY DEF MovedOver
<1>2. /\ y \in MouseStates /\ y.held = m.held /\ y.drag = d /\ y.auto = a /\ y.focus = m.focus
      /\ y.t = r.t /\ y.det = m.det /\ y.gesture = m.gesture
  BY <1>1 DEF MouseStates, Kept
<1>3. PICK b : b = m.gesture.btn
  OBVIOUS
<1>4. m.gesture.to \in Terms
  BY <1>0 DEF MouseStates, Gestures
<1>5. ASSUME m.gesture.calm PROVE CalmKept(y)
  <2>0. CalmKept(m)
    BY <1>5 DEF MouseGood
  <2>1. CASE m.held = {} /\ Still(m.t[m.gesture.to], b)
    <3>1. r.t[m.gesture.to] = m.t[m.gesture.to]
      BY <1>1, <1>4, <2>1
    <3> QED
      BY <1>2, <1>3, <2>1, <3>1 DEF CalmKept
  <2>2. CASE m.held = {b} /\ OnPane(m)
    <3>1. CASE m.drag = "none"
      <4>1. Ready(m.t[m.focus], b)
        BY <1>3, <2>2, <3>1 DEF OnPane
      <4>2. OnPane(y)
        BY <1>1, <1>2, <1>3, <2>2, <3>1, <4>1 DEF OnPane
      <4> QED
        BY <1>2, <1>3, <2>2, <4>2 DEF CalmKept
    <3>2. CASE m.drag # "none"
      <4>1. Untold(m.t[m.focus], b)
        BY <1>3, <2>2, <3>2 DEF OnPane
      <4>2. OnPane(y)
        BY <1>1, <1>2, <1>3, <2>2, <3>2, <4>1 DEF OnPane
      <4> QED
        BY <1>2, <1>3, <2>2, <4>2 DEF CalmKept
    <3> QED
      BY <3>1, <3>2
  <2>3. CASE m.held = {b} /\ OnApart(m)
    <3>1. m.gesture.on \in Terms \ {m.focus}
      BY <1>0, <2>3 DEF OnApart, Apart, Terms, Panes, MouseStates
    <3>2. r.t[m.gesture.on] = m.t[m.gesture.on]
      BY <1>1, <3>1
    <3>3. OnApart(y)
      BY <1>2, <2>3, <3>2 DEF OnApart
    <3> QED
      BY <1>2, <1>3, <2>3, <3>3 DEF CalmKept
  <2> QED
    BY <1>3, <2>0, <2>1, <2>2, <2>3 DEF CalmKept
<1> QED
  BY <1>0, <1>2, <1>5 DEF MouseGood

LEMMA PlaceKeeps ==
    ASSUME NEW m, MouseGood(m), NEW at \in Places, NEW y, y = [m EXCEPT !.at = at]
    PROVE  MouseGood(y)
<1>1. m \in MouseStates
  BY DEF MouseGood
<1>2. /\ y \in MouseStates /\ y.held = m.held /\ y.drag = m.drag /\ y.auto = m.auto /\ y.focus = m.focus
      /\ y.t = m.t /\ y.det = m.det /\ y.gesture = m.gesture
  BY <1>1 DEF MouseStates
<1> QED
  BY <1>2 DEF MouseGood, CalmKept, OnPane, OnApart

LEMMA DragMoved ==
    ASSUME NEW m, MouseGood(m), m.drag # "none", NEW jitter, NEW room
    PROVE  MouseGood(MoveDrag(m, jitter, room))
<1>0. m \in MouseStates /\ m.held # {}
  BY DEF MouseGood
<1>1. PICK r : r = WithTerm(m, m.focus, MouseMoveEvent(m.t[m.focus]))
  OBVIOUS
<1>2. MovedOver(m, r)
  BY <1>0, <1>1, FocusMovedOver
<1>3. PICK a \in {-1, 0, 1} : a = IF room THEN Outside(m.at) ELSE 0
  BY DEF Outside
<1>4. PICK y : y = [r EXCEPT !.drag = "started", !.auto = a]
  OBVIOUS
<1>5. MouseGood(y)
  <2>1. PICK d \in Drags : d = "started"
    BY DEF Drags
  <2> QED
    BY <1>2, <1>4, <2>1, MovedGood
<1>6. MoveDrag(m, jitter, room) \in {m, y}
  <2>1. PICK n : n = [m EXCEPT !.drag = "started", !.t[m.focus] = MouseMoveEvent(@)]
    OBVIOUS
  <2>2. n = [r EXCEPT !.drag = "started"]
    BY <1>0, <1>1, <2>1 DEF WithTerm, MouseStates
  <2>3. y = [n EXCEPT !.auto = a]
    <3>1. r \in MouseStates
      BY <1>2 DEF MovedOver
    <3> QED
      BY <1>4, <2>2, <3>1 DEF MouseStates
  <2> QED
    BY <1>0, <1>3, <2>1, <2>3 DEF MoveDrag
<1> QED
  BY <1>5, <1>6

LEMMA MovedOnly ==
    ASSUME NEW m, MouseGood(m), NEW r, r = WithTerm(m, m.focus, MouseMoveEvent(m.t[m.focus]))
    PROVE  MouseGood(r)
<1>1. m \in MouseStates /\ (m.auto # 0 => m.drag # "none")
  BY DEF MouseGood
<1>2. PICK y : y = WithTerm(m, m.focus, MouseMoveEvent(m.t[m.focus]))
  OBVIOUS
<1>3. MovedOver(m, y)
  BY <1>1, <1>2, FocusMovedOver
<1>4. PICK d \in Drags : d = m.drag
  BY <1>1 DEF MouseStates
<1>5. PICK a \in {-1, 0, 1} : a = m.auto
  BY <1>1 DEF MouseStates
<1>6. y \in MouseStates /\ y.drag = d /\ y.auto = a
  BY <1>3, <1>4, <1>5 DEF MovedOver, Kept
<1>7. y = [y EXCEPT !.drag = d, !.auto = a]
  BY <1>6 DEF MouseStates
<1>8. MouseGood(y)
  <2>1. PICK z : z = [y EXCEPT !.drag = d, !.auto = a]
    OBVIOUS
  <2>2. MouseGood(z)
    BY <1>1, <1>3, <1>4, <1>5, <2>1, MovedGood
  <2> QED
    BY <1>7, <2>1, <2>2
<1> QED
  BY <1>2, <1>8

LEMMA HeldMoved ==
    ASSUME UsualBindings, NEW m, MouseGood(m), m.drag = "none", m.held # {}
    PROVE  MouseGood(MoveHeld(m, ""))
<1>0. m \in MouseStates
  BY DEF MouseGood
<1>1. PICK begins \in BOOLEAN : begins = BeginsDrag(m.det, m.at)
  BY DEF BeginsDrag
<1>2. PICK n : n = [m EXCEPT !.det.dragged = @ \/ begins]
  OBVIOUS
<1>3. /\ n \in MouseStates /\ n.held = m.held /\ n.at = m.at /\ n.drag = m.drag /\ n.auto = m.auto /\ n.focus = m.focus
      /\ n.t = m.t /\ n.gesture = m.gesture /\ n.det.active = m.det.active /\ n.det.down = m.det.down
  <2>1. m.det \in Detectors /\ (m.det.dragged \/ begins) \in BOOLEAN
    BY <1>0 DEF MouseStates
  <2>2. PICK d : d = [m.det EXCEPT !.dragged = (m.det.dragged \/ begins)]
    OBVIOUS
  <2>3. d \in Detectors /\ d.active = m.det.active /\ d.down = m.det.down
    BY <2>1, <2>2 DEF Detectors
  <2>4. n = [m EXCEPT !.det = d]
    BY <1>0, <1>2, <2>1, <2>2 DEF MouseStates, Detectors
  <2> QED
    BY <1>0, <2>3, <2>4 DEF MouseStates
<1>4. MouseGood(n)
  BY <1>3 DEF MouseGood, CalmKept, OnPane, OnApart
<1>5. PICK mode : mode = Mode(m)
  OBVIOUS
<1>6. PICK region : region = Region(m.at)
  OBVIOUS
<1>7. PICK active : active = m.det.active
  OBVIOUS
<1>8. PICK matched : matched = Matched(active, "", "drag", mode, region)
  OBVIOUS
<1>f. \A i \in matched : /\ MouseBindings[i].mods = "" /\ MouseBindings[i].event = "drag"
                         /\ MouseBindings[i].mode \in {mode, "any"} /\ Usual(MouseBindings[i])
  <2>1. PICK mods : mods = ""
    OBVIOUS
  <2>2. PICK event : event = "drag"
    OBVIOUS
  <2>3. matched = Matched(active, mods, event, mode, region)
    BY <1>8, <2>1, <2>2
  <2>4. \A i \in matched : /\ MouseBindings[i].mods = mods /\ MouseBindings[i].event = event
                            /\ MouseBindings[i].mode \in {mode, "any"} /\ Usual(MouseBindings[i])
    BY <2>3, MatchedIs
  <2> QED
    BY <2>1, <2>2, <2>4
<1>9. CASE begins /\ matched # {} /\ MouseBindings[Min(matched)].does \in Selections
  <2>1. PICK x \in Terms : x = m.focus
    BY <1>0 DEF MouseStates, Terms
  <2>2. PICK u : u = MousePressEvent(m.t[x], "left", "")
    OBVIOUS
  <2>3. m.t[x] \in TermStates /\ u \in TermStates
    <3>1. m.t[x] \in TermStates /\ "left" \in Names
      BY <1>0 DEF MouseStates, Names
    <3> QED
      BY <2>2, <3>1, PressEventTyped
  <2>4. PICK r : r = WithTerm(n, x, u)
    OBVIOUS
  <2>5. r \in MouseStates /\ r.t[x] = u /\ Kept(n, r) /\ r.drag = n.drag
    BY <1>3, <2>3, <2>4, TermSet
  <2>6. PICK y : y = [r EXCEPT !.drag = "started"]
    OBVIOUS
  <2>7. /\ y \in MouseStates /\ y.held = m.held /\ y.drag = "started" /\ y.auto = m.auto /\ y.focus = m.focus
        /\ y.t[x] = u /\ y.gesture = m.gesture
    BY <1>3, <2>5, <2>6 DEF MouseStates, Kept, Drags
  <2>8. MoveHeld(m, "") = y
    <3>1. MoveHeld(m, "") = [n EXCEPT !.drag = "started", !.t[m.focus] = MousePressEvent(@, "left", "")]
      BY <1>1, <1>2, <1>5, <1>6, <1>7, <1>8, <1>9 DEF MoveHeld
    <3>2. y = [n EXCEPT !.drag = "started", !.t[m.focus] = MousePressEvent(@, "left", "")]
      BY <1>3, <2>1, <2>2, <2>4, <2>6 DEF WithTerm, MouseStates
    <3> QED
      BY <3>1, <3>2
  <2>9. ~m.t[x].grabs
    <3>1. PICK i \in matched : TRUE
      BY <1>9
    <3>2. /\ MouseBindings[i].mods = "" /\ MouseBindings[i].event = "drag"
          /\ MouseBindings[i].mode \in {mode, "any"} /\ Usual(MouseBindings[i])
      BY <3>1, <1>f
    <3>3. MouseBindings[i].mode = "ungrabbed"
      BY <3>2 DEF Usual
    <3>4. mode = "ungrabbed"
      BY <3>2, <3>3
    <3> QED
      BY <1>5, <2>1, <3>4 DEF Mode
  <2>10. ASSUME m.gesture.calm PROVE CalmKept(y)
    <3>1. CalmKept(m)
      BY <2>10 DEF MouseGood
    <3>2. ~OnApart(m)
      BY <1>1, <1>9 DEF OnApart, BeginsDrag
    <3>3. m.held = {m.gesture.btn} /\ OnPane(m)
      BY <3>1, <3>2 DEF CalmKept
    <3>4. Ready(m.t[x], m.gesture.btn)
      BY <2>1, <3>3 DEF OnPane
    <3>5. u = [m.t[x] EXCEPT !.sel = "none", !.pend = TRUE]
      BY <2>2, <2>9 DEF MousePressEvent
    <3>6. Untold(u, m.gesture.btn)
      <4>1. PICK t \in TermStates : t = m.t[x]
        BY <2>3
      <4>2. Untold(t, m.gesture.btn)
        BY <2>9, <3>4, <4>1 DEF Ready
      <4> QED
        BY <3>5, <4>1, <4>2 DEF Untold, TermStates
    <3>7. OnPane(y)
      BY <2>1, <2>7, <3>3, <3>6 DEF OnPane
    <3> QED
      BY <2>7, <3>3, <3>7 DEF CalmKept
  <2> QED
    BY <2>7, <2>8, <2>10 DEF MouseGood
<1>10. CASE begins /\ matched # {} /\ MouseBindings[Min(matched)].does \notin Selections
  <2>1. MoveHeld(m, "") = n
    BY <1>1, <1>2, <1>5, <1>6, <1>7, <1>8, <1>10 DEF MoveHeld
  <2> QED
    BY <1>4, <2>1
<1>11. CASE ~(begins /\ matched # {})
  <2>1. PICK r : r = WithTerm(n, n.focus, MouseMoveEvent(n.t[n.focus]))
    OBVIOUS
  <2>2. MouseGood(r)
    BY <1>4, <2>1, MovedOnly
  <2>3. MoveHeld(m, "") \in {r, n}
    BY <1>1, <1>2, <1>3, <1>5, <1>6, <1>7, <1>8, <1>11, <2>1 DEF MoveHeld, WithTerm
  <2> QED
    BY <1>4, <2>2, <2>3
<1> QED
  BY <1>9, <1>10, <1>11

LEMMA PointerMoved ==
    ASSUME UsualBindings, NEW m, MouseGood(m), NEW at \in Places, NEW room
    PROVE  MouseGood(OnCursorPos(m, at, "", room))
<1>1. PICK n : n = [m EXCEPT !.at = at]
  OBVIOUS
<1>2. MouseGood(n)
  BY <1>1, PlaceKeeps
<1>3. CASE n.drag # "none"
  <2>1. PICK jitter : jitter = (at = m.at)
    OBVIOUS
  <2>2. OnCursorPos(m, at, "", room) = MoveDrag(n, jitter, room)
    BY <1>1, <1>3, <2>1 DEF OnCursorPos
  <2> QED
    BY <1>2, <1>3, <2>2, DragMoved
<1>4. CASE n.drag = "none" /\ n.held # {}
  <2>1. OnCursorPos(m, at, "", room) = MoveHeld(n, "")
    BY <1>1, <1>4 DEF OnCursorPos
  <2> QED
    BY <1>2, <1>4, <2>1, HeldMoved
<1>5. CASE n.drag = "none" /\ n.held = {}
  <2>1. PICK r : r = WithTerm(n, n.focus, MouseMoveEvent(n.t[n.focus]))
    OBVIOUS
  <2>2. OnCursorPos(m, at, "", room) = r
    BY <1>1, <1>5, <2>1 DEF OnCursorPos, WithTerm
  <2> QED
    BY <1>2, <2>1, <2>2, MovedOnly
<1> QED
  BY <1>3, <1>4, <1>5

LEMMA ScrolledOn ==
    ASSUME NEW m, MouseGood(m), NEW room
    PROVE  MouseGood(DoAutoScroll(m, room))
<1>0. m \in MouseStates /\ (m.auto # 0 => m.drag # "none")
  BY DEF MouseGood
<1>1. CASE m.drag = "none"
  <2>1. DoAutoScroll(m, room) = m
    BY <1>0, <1>1 DEF DoAutoScroll, MouseStates
  <2> QED
    BY <2>1
<1>2. CASE m.drag # "none"
  <2>1. PICK r : r = WithTerm(m, m.focus, MouseMoveEvent(m.t[m.focus]))
    OBVIOUS
  <2>2. MovedOver(m, r)
    BY <1>0, <2>1, FocusMovedOver
  <2>3. PICK a \in {-1, 0, 1} : a = IF room THEN m.auto ELSE 0
    BY <1>0 DEF MouseStates
  <2>4. PICK d \in Drags : d = m.drag
    BY <1>0 DEF MouseStates
  <2>5. PICK y : y = [r EXCEPT !.drag = d, !.auto = a]
    OBVIOUS
  <2>6. MouseGood(y)
    BY <1>2, <2>2, <2>4, <2>5, MovedGood
  <2>7. DoAutoScroll(m, room) = [r EXCEPT !.auto = a]
    <3>1. DoAutoScroll(m, room) = [m EXCEPT !.t[m.focus] = MouseMoveEvent(@), !.auto = IF room THEN @ ELSE 0]
      BY <1>2 DEF DoAutoScroll
    <3> QED
      BY <1>0, <2>1, <2>3, <3>1 DEF WithTerm, MouseStates
  <2>8. y = [r EXCEPT !.auto = a]
    BY <2>2, <2>4, <2>5 DEF MovedOver, MouseStates
  <2> QED
    BY <2>6, <2>7, <2>8
<1> QED
  BY <1>1, <1>2

\* What happens besides spoils the calm of a button that is held, and leaves nothing
\* behind of one that is not.
LEMMA Disturbed ==
    ASSUME NEW m, MouseGood(m), NEW n \in MouseStates, NEW y, y = Disturb(n),
           n.held = m.held, n.drag = m.drag, n.auto = m.auto, n.gesture = m.gesture,
           \A x \in Terms : \A b : Still(m.t[x], b) => Still(n.t[x], b)
    PROVE  MouseGood(y)
<1>1. /\ m \in MouseStates /\ (m.drag # "none" => m.held # {}) /\ (m.auto # 0 => m.drag # "none")
      /\ (m.gesture.calm => CalmKept(m))
  BY DEF MouseGood
<1>2. PICK g : g = [n.gesture EXCEPT !.calm = n.gesture.calm /\ n.held = {}]
  OBVIOUS
<1>3. g \in Gestures /\ g.btn = m.gesture.btn /\ g.to = m.gesture.to /\ (g.calm => m.gesture.calm /\ m.held = {})
  <2>1. n.gesture \in Gestures /\ (n.gesture.calm /\ n.held = {}) \in BOOLEAN
    BY DEF MouseStates, Gestures
  <2> QED
    BY <1>2, <2>1 DEF Gestures
<1>4. y = [n EXCEPT !.gesture = g]
  BY <1>2 DEF Disturb, MouseStates
<1>5. /\ y \in MouseStates /\ y.held = m.held /\ y.drag = m.drag /\ y.auto = m.auto /\ y.gesture = g /\ y.t = n.t
  BY <1>3, <1>4 DEF MouseStates
<1>6. ASSUME g.calm PROVE CalmKept(y)
  <2>1. m.held = {} /\ CalmKept(m)
    BY <1>1, <1>3, <1>6
  <2>2. Still(m.t[m.gesture.to], m.gesture.btn)
    BY <2>1 DEF CalmKept
  <2>3. m.gesture.to \in Terms
    BY <1>1 DEF MouseStates, Gestures
  <2>4. Still(y.t[y.gesture.to], y.gesture.btn)
    BY <1>3, <1>5, <2>2, <2>3
  <2> QED
    BY <1>5, <2>1, <2>4 DEF CalmKept
<1> QED
  BY <1>1, <1>5, <1>6 DEF MouseGood

LEMMA MouseAskedFor ==
    ASSUME NEW m, MouseGood(m), NEW x \in Terms
    PROVE  MouseGood(AskForMouse(m, x))
<1>0. m \in MouseStates
  BY DEF MouseGood
<1>1. PICK t \in TermStates : t = m.t[x]
  BY <1>0 DEF MouseStates
<1>2. PICK u : u = [t EXCEPT !.grabs = ~t.grabs]
  OBVIOUS
<1>3. u \in TermStates /\ \A b : Still(t, b) => Still(u, b)
  BY <1>2 DEF TermStates, Still
<1>4. PICK n : n = WithTerm(m, x, u)
  OBVIOUS
<1>5. n \in MouseStates /\ n.t[x] = u /\ (\A y \in Terms \ {x} : n.t[y] = m.t[y]) /\ Kept(m, n) /\ n.drag = m.drag
  BY <1>0, <1>3, <1>4, TermSet
<1>6. AskForMouse(m, x) = Disturb(n)
  <2>1. n = [m EXCEPT !.t[x].grabs = ~@]
    BY <1>0, <1>1, <1>2, <1>4 DEF WithTerm, MouseStates
  <2> QED
    BY <2>1 DEF AskForMouse
<1>7. \A y \in Terms : \A b : Still(m.t[y], b) => Still(n.t[y], b)
  BY <1>1, <1>3, <1>5
<1>8. PICK y : y = Disturb(n)
  OBVIOUS
<1>9. MouseGood(y)
  BY <1>5, <1>7, <1>8, Disturbed DEF Kept
<1> QED
  BY <1>6, <1>8, <1>9

LEMMA ScreenSwitched ==
    ASSUME NEW m, MouseGood(m)
    PROVE  MouseGood(SwitchAlt(m))
<1>0. m \in MouseStates
  BY DEF MouseGood
<1>1. PICK n : n = [m EXCEPT !.alt = ~@]
  OBVIOUS
<1>2. n \in MouseStates /\ n.held = m.held /\ n.drag = m.drag /\ n.auto = m.auto /\ n.gesture = m.gesture /\ n.t = m.t
  BY <1>0, <1>1 DEF MouseStates
<1>3. PICK y : y = Disturb(n)
  OBVIOUS
<1>4. MouseGood(y)
  BY <1>2, <1>3, Disturbed
<1> QED
  BY <1>1, <1>3, <1>4 DEF SwitchAlt

LEMMA FocusKeyed ==
    ASSUME NEW m, MouseGood(m), NEW x \in Panes
    PROVE  MouseGood(FocusByKey(m, x))
<1>0. m \in MouseStates
  BY DEF MouseGood
<1>1. PICK n : n = [m EXCEPT !.focus = x]
  OBVIOUS
<1>2. n \in MouseStates /\ n.held = m.held /\ n.drag = m.drag /\ n.auto = m.auto /\ n.gesture = m.gesture /\ n.t = m.t
  BY <1>0, <1>1 DEF MouseStates
<1>3. PICK y : y = Disturb(n)
  OBVIOUS
<1>4. MouseGood(y)
  BY <1>2, <1>3, Disturbed
<1> QED
  BY <1>1, <1>3, <1>4 DEF FocusByKey

LEMMA MouseStarts ==
    ASSUME NEW grabbing PROVE MouseGood(MouseInit(grabbing))
<1>1. PICK m : m = MouseInit(grabbing)
  OBVIOUS
<1>2. PICK d : d = DetectorInit
  OBVIOUS
<1>3. d \in Detectors
  BY <1>2 DEF DetectorInit, Detectors, Places
<1>4. PICK t : t = [x \in Terms |-> [Idle EXCEPT !.grabs = x \in grabbing]]
  OBVIOUS
<1>5. t \in [Terms -> TermStates]
  <2> SUFFICES ASSUME NEW x \in Terms PROVE [Idle EXCEPT !.grabs = x \in grabbing] \in TermStates
    BY <1>4
  <2>1. (x \in grabbing) \in BOOLEAN
    OBVIOUS
  <2> QED
    BY <2>1 DEF Idle, TermStates, Names, Nobody
<1>6. NoGesture \in Gestures
  BY DEF NoGesture, Gestures, Names, Nobody, Terms, Panes
<1>7. m = [at |-> "a", held |-> {}, drag |-> "none", auto |-> 0, focus |-> "a",
           focusIn |-> FALSE, alt |-> FALSE, popup |-> TRUE, det |-> d, t |-> t, gesture |-> NoGesture]
  BY <1>1, <1>2, <1>4 DEF MouseInit
<1>8. m \in MouseStates
  BY <1>3, <1>5, <1>6, <1>7 DEF MouseStates, Places, Drags, Panes
<1>9. ~m.gesture.calm
  BY <1>7 DEF NoGesture
<1> QED
  BY <1>1, <1>7, <1>8, <1>9 DEF MouseGood

MouseInv == MouseGood(mouse)

LEMMA MouseStep ==
    ASSUME UsualBindings
    PROVE  MouseInv /\ [Next]_vars => MouseInv'
<1> SUFFICES ASSUME MouseInv, [Next]_vars PROVE MouseGood(mouse')
  BY DEF MouseInv
<1>1. MouseGood(mouse) /\ mouse.held \subseteq Buttons
  BY DEF MouseInv, MouseGood, MouseStates
<1>2. CASE ButtonDown
  <2>1. PICK btn \in Buttons \ mouse.held, mods \in Mods, quick \in BOOLEAN, closes \in BOOLEAN : mouse' = OnMouseButton(mouse, btn, FALSE, mods, quick, closes)
    BY <1>2 DEF ButtonDown, Clicks
  <2> QED
    BY <1>1, <2>1, ButtonPressed
<1>3. CASE ButtonUp
  <2>1. PICK btn \in mouse.held, mods \in {"", "ctrl"}, closes \in BOOLEAN : mouse' = OnMouseButton(mouse, btn, TRUE, mods, FALSE, closes)
    BY <1>3 DEF ButtonUp, Moves
  <2> QED
    BY <1>1, <2>1, ButtonReleased
<1>4. CASE PointerMoves
  BY <1>1, <1>4, PointerMoved DEF PointerMoves, Moves
<1>5. CASE AutoScroll
  BY <1>1, <1>5, ScrolledOn DEF AutoScroll, Moves
<1>6. CASE MouseAsked
  BY <1>1, <1>6, MouseAskedFor DEF MouseAsked, Clicks
<1>7. CASE Around
  BY <1>1, <1>7, ScreenSwitched, FocusKeyed DEF Around, Clicks
<1>8. CASE UNCHANGED mouse
  BY <1>1, <1>8
<1> QED
  BY <1>2, <1>3, <1>4, <1>5, <1>6, <1>7, <1>8, ScenesApart DEF Pointing

\* MouseTrue: with bindings as they usually are, a drag does not outlive its button,
\* nor the scrolling its drag; and a button that goes down and up over the same
\* surface leaves no program believing it down and no selection to be extended.
THEOREM ButtonsLetGo ==
    ASSUME UsualBindings
    PROVE  Spec => []MouseTrue
<1>1. Init => MouseInv
  <2> SUFFICES ASSUME Init PROVE MouseGood(mouse)
    BY DEF MouseInv
  <2>1. PICK grabbing : mouse = MouseInit(grabbing)
    BY DEF Init
  <2> QED
    BY <2>1, MouseStarts
<1>2. MouseInv => MouseTrue
  <2> SUFFICES ASSUME MouseInv PROVE MouseTrue
    OBVIOUS
  <2>1. (mouse.drag # "none" => mouse.held # {}) /\ (mouse.auto # 0 => mouse.drag # "none")
    BY DEF MouseInv, MouseGood
  <2>2. (mouse.gesture.calm /\ mouse.held = {}) => Still(mouse.t[mouse.gesture.to], mouse.gesture.btn)
    BY DEF MouseInv, MouseGood, CalmKept
  <2> QED
    BY <2>1, <2>2 DEF MouseTrue, Still
<1> QED
  BY <1>1, <1>2, MouseStep, PTL DEF Spec
=============================================================================
