-------------------------------- MODULE Sieve --------------------------------
(* Vec::retain and VecDeque::retain of the standard library.                *)
EXTENDS SequencesExt

(* What of a sequence is not gone, in its order. *)
Without(s, gone) ==
    FoldLeft(LAMBDA kept, x : IF x \in gone THEN kept ELSE Append(kept, x), <<>>, s)
=============================================================================
