----------------------------- MODULE OutputStream -----------------------------
(***************************************************************************)
(* What the read side of a Terminal promises the parser: a child produces  *)
(* a stream of bytes, the parser is handed the stream in order, piece by   *)
(* piece, and is handed nothing more once the Terminal is destroyed.       *)
(***************************************************************************)
EXTENDS Naturals, Sequences

CONSTANT MaxBytes   \* bound on the stream

VARIABLES
    sent,       \* number of bytes produced
    delivered,  \* what the parser has been handed
    gone        \* the Terminal is destroyed

Stream(n) == [i \in 1..n |-> i]

Init == sent = 0 /\ delivered = <<>> /\ gone = FALSE

Produce ==
    /\ sent < MaxBytes
    /\ sent' = sent + 1
    /\ UNCHANGED <<delivered, gone>>

Deliver ==
    /\ ~gone
    /\ \E n \in 1..sent : n > Len(delivered) /\ delivered' = Stream(n)
    /\ UNCHANGED <<sent, gone>>

Destroy ==
    /\ ~gone
    /\ gone' = TRUE
    /\ UNCHANGED <<sent, delivered>>

Next == Produce \/ Deliver \/ Destroy

Spec == Init /\ [][Next]_<<sent, delivered, gone>>
=============================================================================
