---------------------------- MODULE MCConnLife ----------------------------
(***************************************************************************)
(* ConnLife for TLC: two ids, which the safety run takes as symmetric (the *)
(* model never tells one id from another).                                 *)
(***************************************************************************)
EXTENDS ConnLife

CONSTANTS c1, c2

Symmetry == Permutations({c1, c2})

\* Keep is SelectSeq for membership of a set, on short sequences.
ASSUME KeepIsSelectSeq ==
  \A S \in SUBSET {1, 2}, s \in UNION {[1 .. n -> 1 .. 3] : n \in 0 .. 4} :
    Keep(s, S) = SelectSeq(s, LAMBDA x : x \in S)
=============================================================================
