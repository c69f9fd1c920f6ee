--------------------------------- MODULE Parser ---------------------------------
(***************************************************************************)
(* parseToActions: the bytes of one read into actions, as an operator on   *)
(* the parser's record p.  A read may end anywhere: all that is known of   *)
(* the bytes before it is in p.                                            *)
(*                                                                         *)
(* Bytes are classes: "esc", "bel", "[" and "]" (after ESC: CSI and OSC),  *)
(* "\\" (after ESC: ST), "c" (after ESC: RIS; also a final byte), "(" (a   *)
(* charset), "0" (a parameter), "h" (a final byte), "u1".."u3" (the first  *)
(* byte of a character of so many) and "u" (a continuation), "x" (text).   *)
(***************************************************************************)
EXTENDS Integers, FiniteSets, Sequences, SequencesExt, FiniteSetsExt

CONSTANTS EscapeMax, \* size of mEscapeBuffer
          StringMax  \* MAX_STRING_SEQUENCE
ASSUME ParserAssumption == EscapeMax \in Nat \ {0} /\ StringMax \in Nat

Finals == {"c", "h", "x", "[", "]", "\\"}
Intermediates == {"0", "("}
LeadLength(b) == CASE b = "u2" -> 2 [] b = "u3" -> 3 [] OTHER -> 1

ParserInit == [st |-> "normal", esc |-> <<>>, utf |-> <<>>, str |-> <<>>,
               ended |-> FALSE, \* mWasInStringSequence
               out |-> <<>>]

Emit(p, a) == [p EXCEPT !.out = Append(@, a)]
ResetEscape(p) == [p EXCEPT !.st = "normal", !.esc = <<>>]
EmitString(p) == [Emit(p, [k |-> "string", of |-> p.str]) EXCEPT !.str = <<>>]

InNormal(p, b) ==
    CASE b = "esc" -> [p EXCEPT !.st = "escape"]
      [] b \in {"u", "u2", "u3"} -> [p EXCEPT !.st = "utf8", !.utf = <<b>>]
      [] b = "bel" -> Emit(p, [k |-> "control", of |-> <<b>>])
      [] OTHER -> Emit(p, [k |-> "print", of |-> <<b>>])

\* Mutant: the byte that ends a broken character is lost.
InUtf8Swallows(p, b) ==
    LET u == Append(p.utf, b)
        n == LeadLength(u[1])
        done == [p EXCEPT !.st = "normal", !.utf = <<>>]
    IN CASE b # "u" -> done
         [] b = "u" /\ Len(u) = n -> Emit(done, [k |-> "print", of |-> u])
         [] b = "u" /\ (Len(u) >= 6 \/ Len(u) > n) -> done
         [] OTHER -> [p EXCEPT !.utf = u]
\* Anything but a continuation byte is looked at again.
InUtf8(p, b) ==
    LET u == Append(p.utf, b)
        n == LeadLength(u[1])
        done == [p EXCEPT !.st = "normal", !.utf = <<>>]
    IN CASE b # "u" -> InNormal(done, b)
         [] b = "u" /\ Len(u) = n -> Emit(done, [k |-> "print", of |-> u])
         [] b = "u" /\ (Len(u) >= 6 \/ Len(u) > n) -> done
         [] OTHER -> [p EXCEPT !.utf = u]

InCsi(p) ==
    LET b == Last(p.esc)
    IN CASE Len(p.esc) = 1 -> p
         [] Len(p.esc) > 1 /\ b \in Finals -> ResetEscape(Emit(p, [k |-> "csi", of |-> p.esc]))
         [] Len(p.esc) > 1 /\ b \notin Finals /\ (b \notin Intermediates \/ Len(p.esc) >= EscapeMax) ->
              ResetEscape(p)
         [] OTHER -> p
\* ST, or SS2 and SS3 which end a string too.
InSt(p) == ResetEscape(IF p.ended THEN [EmitString(p) EXCEPT !.ended = FALSE] ELSE p)
InEscape(p, b) ==
    LET q == [p EXCEPT !.esc = Append(@, b)]
        first == q.esc[1]
    IN CASE b = "esc" -> [p EXCEPT !.esc = <<>>]
         [] b # "esc" /\ Len(p.esc) >= EscapeMax -> ResetEscape(p)
         [] b # "esc" /\ Len(p.esc) < EscapeMax /\ first = "\\" -> InSt(q)
         [] b # "esc" /\ Len(p.esc) < EscapeMax /\ first = "]" ->
              [q EXCEPT !.st = "string", !.str = <<>>, !.ended = FALSE, !.esc = <<>>]
         [] b # "esc" /\ Len(p.esc) < EscapeMax /\ first = "[" -> InCsi(q)
         [] b # "esc" /\ Len(p.esc) < EscapeMax /\ first = "(" ->
              IF Len(q.esc) < 2 THEN q ELSE ResetEscape(Emit(q, [k |-> "charset", of |-> q.esc]))
         [] OTHER -> ResetEscape(IF first = "c" THEN Emit(q, [k |-> "esc", of |-> q.esc]) ELSE q)

\* The bytes up to the next that may end the string are taken together, as many
\* as there is room for; what exceeds StringMax is dropped byte by byte.
InString(p, buf, i) ==
    LET room == StringMax - Len(p.str)
        stop == Min({j \in i..Len(buf) : buf[j] \in {"bel", "esc"}} \cup {i + room, Len(buf) + 1})
    IN CASE buf[i] = "bel" -> [p |-> ResetEscape(EmitString(p)), i |-> i + 1]
         [] buf[i] = "esc" -> [p |-> [p EXCEPT !.st = "escape", !.ended = TRUE, !.esc = <<>>], i |-> i + 1]
         [] buf[i] \notin {"bel", "esc"} /\ room = 0 -> [p |-> p, i |-> i + 1]
         [] OTHER -> [p |-> [p EXCEPT !.str = @ \o SubSeq(buf, i, stop - 1)], i |-> stop]

StepOn(p, buf, i) ==
    CASE p.st = "normal" -> [p |-> InNormal(p, buf[i]), i |-> i + 1]
      [] p.st = "utf8"   -> [p |-> InUtf8(p, buf[i]), i |-> i + 1]
      [] p.st = "escape" -> [p |-> InEscape(p, buf[i]), i |-> i + 1]
      [] OTHER           -> InString(p, buf, i)
ParseToActions(p, buf) ==
    FoldLeft(LAMBDA a, i : IF i < a.i THEN a ELSE StepOn(a.p, buf, i),
             [p |-> p, i |-> 1], [i \in DOMAIN buf |-> i]).p
=============================================================================
