--------------------------- MODULE MCEntityUpdate ---------------------------
(***************************************************************************)
(* Small instance of EntityUpdate: two operations change a phase and a     *)
(* node list, two attempts each.  The operations are interchangeable: only *)
(* safety is checked, so the symmetry is sound.                            *)
(***************************************************************************)
EXTENDS EntityUpdate, TLC

Symmetry == Permutations(Callers) \cup Permutations(Attributes)
=============================================================================
