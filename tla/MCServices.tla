------------------------------- MODULE MCServices -------------------------------
(***************************************************************************)
(* Small instance of Services, for TLC: two requests or commands at once.  *)
(* They are interchangeable: only safety is checked, so the symmetry is    *)
(* sound.                                                                  *)
(***************************************************************************)
EXTENDS Services, TLC

TwoRanges == <<<<1, 1>>, <<3, 4>>>>
OwnName   == [c \in {"c1", "c2"} |-> c]

Symmetry == Permutations(Ops)
=============================================================================
