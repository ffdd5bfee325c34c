------------------------------- MODULE LifeCycles -------------------------------
(***************************************************************************)
(* The services of a cluster's life besides ClusterService (2.x): those    *)
(* that keep a cluster in an entity (TKGm clusters, native clusters of RDE *)
(* 1.x) and the legacy one, which keeps it in its vApp.                    *)
(***************************************************************************)
EXTENDS ClusterThreads

VARIABLES owner, tagged, seen     \* of VcdBroker

T == INSTANCE TkgmService
X == INSTANCE ClusterService1X
L == INSTANCE VcdBroker

\* No value is no request; the id of a cluster that was there before is no request's.
ASSUME LifeCyclesAssumption ==
  /\ Absent \notin X!Requests \cup L!Requests \cup {L!Before}
  /\ L!Before \notin Ops
=============================================================================
