------------------------------- MODULE Filter -------------------------------
(* What SelectSeq keeps, as a recursive function that proofs can unfold. *)
EXTENDS Naturals, Sequences

(* The members of T in s, in their order. *)
Keep(s, T) ==
  LET kept[i \in 0..Len(s)] ==
        IF i = 0 THEN <<>>
        ELSE IF s[i] \in T THEN Append(kept[i - 1], s[i]) ELSE kept[i - 1]
  IN kept[Len(s)]
=============================================================================
