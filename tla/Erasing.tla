------------------------------ MODULE Erasing -------------------------------
(***************************************************************************)
(* v.erase(std::remove(v.begin(), v.end(), x), v.end()), the way elements  *)
(* are taken out of vectors throughout the code: all that are equal to one *)
(* of a set go, the others keep their order.                               *)
(***************************************************************************)
EXTENDS Integers, Sequences

(* What is left of the first i elements.                                   *)
Without(s, S) ==
  LET kept[i \in 0 .. Len(s)] ==
        IF i = 0 THEN << >>
        ELSE IF s[i] \in S THEN kept[i - 1] ELSE Append(kept[i - 1], s[i])
  IN  kept[Len(s)]
=============================================================================
