-------------------------- MODULE MCClusterService --------------------------
(***************************************************************************)
(* Small instances of ClusterService: one or two clusters of one name, and *)
(* node counts of 0 and 1, so that a resize can both add NFS nodes and     *)
(* remove workers.  Requests are interchangeable where only safety is      *)
(* checked.                                                                *)
(***************************************************************************)
EXTENDS ClusterService, TLC

OneName == [k \in Clusters |-> CHOOSE n \in Names : TRUE]

Symmetry == Permutations(Ops)
=============================================================================
