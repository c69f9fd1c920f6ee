---------------------------- MODULE TexturePool ----------------------------
(***************************************************************************)
(* The pool of GPU textures the panes are drawn into: best-fit acquire,    *)
(* a free list in least-recently-released order and a byte budget for what *)
(* lies free.  Width and height are one number, the bytes of the texture.  *)
(* Only the render thread uses the pool.                                   *)
(***************************************************************************)
EXTENDS Naturals, Sequences, FiniteSets, SequencesExt, FiniteSetsExt

CONSTANTS
    MaxTextures,    \* bound: textures that may exist at once
    ByteLimit       \* byteLimit_

ASSUME PoolAssumption == MaxTextures \in Nat \ {0} /\ ByteLimit \in Nat

VARIABLES
    bytes,      \* sizeBytes of the textures of all_, 0 for one that does not exist
    free,       \* free_, oldest first
    freeBytes   \* freeBytes_

poolVars == <<bytes, free, freeBytes>>

Textures == 1..MaxTextures
All == {t \in Textures : bytes[t] > 0}

PoolInit == bytes = [t \in Textures |-> 0] /\ free = <<>> /\ freeBytes = 0

(* The free textures that are large enough, and not more than twice too    *)
(* large.                                                                  *)
Fits(w) == {i \in DOMAIN free : bytes[free[i]] \in w..(2 * w)}

(* The smallest of them, the oldest of the smallest.                       *)
Best(w) == CHOOSE i \in Fits(w) : \A j \in Fits(w) :
               \/ bytes[free[i]] < bytes[free[j]]
               \/ bytes[free[i]] = bytes[free[j]] /\ i <= j

Acquire(w, t) ==
    IF Fits(w) # {}
    THEN LET i == Best(w) IN
         /\ t = free[i]
         /\ free' = RemoveAt(free, i)
         /\ freeBytes' = freeBytes - bytes[t]
         /\ UNCHANGED bytes
    ELSE /\ All # Textures /\ t = Min(Textures \ All)
         /\ bytes' = [bytes EXCEPT ![t] = w]
         /\ UNCHANGED <<free, freeBytes>>

(* release() for each of a list: each goes to the back, and the front is   *)
(* evicted while the budget is exceeded and something is left.  What       *)
(* remains is the longest suffix within the budget, whether the eviction   *)
(* runs after each or once.                                                *)
BytesOf(s) == FoldSeq(LAMBDA t, sum : bytes[t] + sum, 0, s)

EvictToLimit(s, total) ==
    LET Within(i) == total - BytesOf(SubSeq(s, 1, i)) <= ByteLimit
        n == Min({i \in 0..Len(s) : Within(i) \/ i = Len(s)})
    IN  /\ free' = SubSeq(s, n + 1, Len(s))
        /\ freeBytes' = total - BytesOf(SubSeq(s, 1, n))
        /\ bytes' = [t \in Textures |->
                        IF \E i \in 1..n : s[i] = t THEN 0 ELSE bytes[t]]

ReleaseEach(s) == EvictToLimit(free \o s, freeBytes + BytesOf(s))

PoolTypeOK ==
    /\ bytes \in [Textures -> Nat]
    /\ free \in Seq(Textures) /\ freeBytes \in Nat
=============================================================================
