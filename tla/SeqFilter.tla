----------------------------- MODULE SeqFilter -----------------------------
(***************************************************************************)
(* What erasing entries leaves of a list (map_list::erase): the others, in *)
(* their order.  It is SelectSeq for a set in the place of a test, built   *)
(* by a function so that the provers can say something of it.              *)
(***************************************************************************)
EXTENDS Naturals, Sequences

\* What remains of the first n elements of s, for each n.
KeptUpTo(s, S) ==
  LET kept[n \in 0 .. Len(s)] ==
        IF n = 0 THEN <<>>
        ELSE IF s[n] \in S THEN Append(kept[n - 1], s[n]) ELSE kept[n - 1]
  IN  kept

\* The elements of s that are in S, in the order they have in s.
Keep(s, S) == KeptUpTo(s, S)[Len(s)]
=============================================================================
