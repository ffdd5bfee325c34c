------------------------------- MODULE Resources -------------------------------
(***************************************************************************)
(* What the server and its commands manage besides the life of a cluster,  *)
(* each part by procedures of its own: the ACLs and the addresses of       *)
(* clusters, the policies of VDCs, templates, and the clusters of          *)
(* Enterprise PKS.  The actors are the requests of ClusterThreads.         *)
(***************************************************************************)
EXTENDS ClusterThreads, Sequences

CONSTANTS
  AclUsers, SystemUsers,                  \* of ClusterAcl
  Ranges, MaxRetries,                     \* of NetworkExpose
  Placement, TkgPlus, Sizing, VMs,        \* of OvdcPolicies
  Revisions, PlusOnes, Imports,           \* of TemplateBuild
  PksNames, PksUsers, PksAdmins, MaxIds, MaxRequests  \* of PksClusters

VARIABLES world, loc

C == INSTANCE ClusterAcl WITH Actors <- Ops, Users <- AclUsers
E == INSTANCE NetworkExpose WITH Actors <- Ops
V == INSTANCE OvdcPolicies WITH Actors <- Ops
B == INSTANCE TemplateBuild WITH Actors <- Ops
P == INSTANCE PksClusters WITH
       Actors <- Ops, Names <- PksNames, Users <- PksUsers, Admins <- PksAdmins

\* Addresses are integers, and no value is one of those that are written.
ASSUME ResourcesAssumption ==
  /\ Ranges \in Seq(Int \X Int) /\ MaxRetries \in Nat
  /\ Absent \notin Int \cup {V!SystemDefault} \cup B!ItemStates
  /\ IsFiniteSet(Revisions)
  /\ {MaxIds, MaxRequests} \subseteq Nat
=============================================================================
