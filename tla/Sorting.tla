------------------------------- MODULE Sorting -------------------------------
(***************************************************************************)
(* Sorting and selecting, like SetToSortSeq of SequencesExt and SelectSeq  *)
(* of Sequences, but by definitions that can be reasoned about: how many   *)
(* elements come before each, and a recursive function.                    *)
(***************************************************************************)
EXTENDS Naturals, Sequences, FiniteSets

(* The elements of a finite set in a strict total order, a set of pairs.   *)
InOrder(S, before) ==
  [k \in 1 .. Cardinality(S) |->
     CHOOSE x \in S : Cardinality({y \in S : <<y, x>> \in before}) = k - 1]

(* The elements of a sequence that are in a set, as they follow there.     *)
Kept(s, S) ==
  LET kept[n \in 0 .. Len(s)] ==
        IF n = 0 THEN <<>>
        ELSE kept[n - 1] \o (IF s[n] \in S THEN <<s[n]>> ELSE <<>>)
  IN kept[Len(s)]

=============================================================================
