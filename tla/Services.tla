-------------------------------- MODULE Services --------------------------------
(***************************************************************************)
(* The three services of a cluster's life that ClusterService is not, and  *)
(* the procedures of the server and its commands that have other records.  *)
(* Which service serves a cluster is fixed by its kind and the API version *)
(* (cluster_service_factory.py, request_dispatcher.py), and the procedures *)
(* share no record with each other, so a behaviour is one of one service.  *)
(* The properties are those of the service at work.                        *)
(***************************************************************************)
EXTENDS Resources, LifeCycles

CONSTANTS
  LegacyClusters, NameOf, MaxRdes,        \* of Installer
  ClientUsers                             \* of ClusterClient

VARIABLE service

I == INSTANCE Installer WITH Actors <- Ops, Clusters <- LegacyClusters
R == INSTANCE RestApi WITH Actors <- Ops
K == INSTANCE ClusterClient WITH Actors <- Ops, Users <- ClientUsers

\* No value is no cluster and no description, and the clusters there were before have
\* room for an RDE each.
ASSUME InstallerAssumption ==
  /\ Absent \notin LegacyClusters \cup I!Descriptions /\ MaxRdes \in Nat
  /\ \E f \in [LegacyClusters -> 1..MaxRdes] : \A c, d \in LegacyClusters : f[c] = f[d] => c = d

\* There are users to share a cluster with, and no value is no value of a command's.
ASSUME ClientAssumption ==
  /\ ClientUsers # {}
  /\ Absent \notin K!Ids /\ Absent \notin K!Clusters
  /\ Absent \notin K!Kinds \cup K!Orgs \cup {"legacy", "full", "mixed"}

brokerVars  == <<owner, tagged, seen>>
clusterVars == <<state, req, mem, task, brokerVars>>
allVars     == <<clusterVars, pc, faults, service, world, loc>>

NoBroker  == owner = Absent /\ tagged = FALSE /\ seen = [o \in Ops |-> Absent]
NoWorld   == world = Absent /\ loc = Absent
NoCluster ==
  /\ rde = Absent /\ vapp = Absent /\ token = FALSE /\ rule = FALSE
  /\ req = [o \in Ops |-> Absent]
  /\ mem = [o \in Ops |-> NoMemory]
  /\ task = [o \in Ops |-> "NONE"]
  /\ NoBroker

Init ==
  \/ /\ NoWorld
     /\ \/ service = "tkgm" /\ T!Init /\ NoBroker
        \/ service = "native 1.x" /\ X!Init /\ NoBroker /\ (Exists => rde.workers = MaxWorkers)
        \/ service = "legacy" /\ L!Init
  \/ /\ NoCluster
     /\ \/ service = "acl" /\ C!Init
        \/ service = "expose" /\ E!Init
        \/ service = "ovdc" /\ V!Init
        \/ service = "installer" /\ I!Init
        \/ service = "templates" /\ B!Init
        \/ service = "pks" /\ P!Init
        \/ service = "rest" /\ R!Init
        \/ service = "client" /\ K!Init

\* No request is at work: only then may nothing happen any more.
Rest ==
  /\ \A o \in Ops : pc[o] \in {"idle", "done", "failed"}
  /\ UNCHANGED allVars

Next ==
  \/ /\ UNCHANGED <<service, world, loc>>
     /\ \/ service = "tkgm" /\ T!Next /\ UNCHANGED brokerVars
        \/ service = "native 1.x" /\ X!Next /\ UNCHANGED brokerVars
        \/ service = "legacy" /\ L!Next
  \/ /\ UNCHANGED <<service, clusterVars>>
     /\ \/ service = "acl" /\ C!Next
        \/ service = "expose" /\ E!Next
        \/ service = "ovdc" /\ V!Next
        \/ service = "installer" /\ I!Next
        \/ service = "templates" /\ B!Next
        \/ service = "pks" /\ P!Next
        \/ service = "rest" /\ R!Next
        \/ service = "client" /\ K!Next
  \/ Rest

Spec == Init /\ [][Next]_allVars

-----------------------------------------------------------------------------
TypeOK == CASE service = "tkgm" -> T!TypeOK
            [] service = "native 1.x" -> X!TypeOK
            [] service = "legacy" -> L!TypeOK
            [] service = "acl" -> C!TypeOK
            [] service = "expose" -> E!TypeOK
            [] service = "ovdc" -> V!TypeOK
            [] service = "installer" -> I!TypeOK
            [] service = "templates" -> B!TypeOK
            [] service = "pks" -> P!TypeOK
            [] service = "rest" -> R!TypeOK
            [] service = "client" -> K!TypeOK

\* What a rolled back create leaves behind, per service (its RollbackIsComplete), and
\* that a failed update of an ACL leaves it as it was (ClusterAcl!RollbackRestores).
RollbackIsComplete ==
  CASE service = "tkgm" -> T!RollbackIsComplete
    [] service = "native 1.x" -> X!RollbackIsComplete
    [] service = "legacy" -> L!RollbackIsComplete
    [] service = "acl" -> C!RollbackRestores
    [] OTHER -> TRUE

\* What a deletion that succeeded leaves behind (its DeleteIsComplete).
DeleteIsComplete ==
  CASE service = "tkgm" -> T!DeleteIsComplete
    [] service = "native 1.x" -> X!DeleteIsComplete
    [] service = "legacy" -> L!DeleteIsComplete
    [] OTHER -> TRUE

\* An entity that says its cluster is exposed has the DNAT rule (its ExposedHasRule);
\* an exposure that succeeded has its rule (NetworkExpose!ExposureIsTrue).
ExposedHasRule ==
  CASE service = "tkgm" -> T!ExposedHasRule
    [] service = "native 1.x" -> X!ExposedHasRule
    [] service = "expose" -> E!ExposureIsTrue
    [] OTHER -> TRUE

\* Upgrades that all succeeded leave no node drained and one version of Kubernetes.
UpgradeIsComplete ==
  CASE service = "native 1.x" -> X!UpgradeIsComplete
    [] service = "legacy" -> L!UpgradeIsComplete
    [] OTHER -> TRUE

\* The rollback of a legacy create never deletes the cluster of another request.
OnlyOwnRollback == [][service = "legacy" =>
  \A o \in Ops : pc[o] = "undo" /\ pc'[o] # "undo" /\ vapp # vapp' =>
    owner = o \/ \E p \in Ops : req[p] # Absent /\ req[p].kind = "delete"]_allVars

\* A request whose threads have ended has ended its task, whatever failed in them.
TaskEnded ==
  service \in {"tkgm", "native 1.x", "legacy"} =>
    \A o \in Ops : pc[o] = "done" => task[o] # "RUNNING"

\* The ACLs of an entity and its vApp agree after an update that was alone (its
\* AclsAgree), and what overlapping updates agree on is shared (its AgreedIsShared).
AclsAgree == service = "acl" => C!AclsAgree /\ C!AgreedIsShared

\* No two clusters are exposed by one address (its RulesDiffer).
RulesDiffer == service = "expose" => E!RulesDiffer

\* A VDC has the runtimes it was asked to have (its OvdcAsRequested), and no virtual
\* machine is left without a policy (its VmsKeepPolicy).
OvdcAsRequested == service = "ovdc" => V!OvdcAsRequested
VmsKeepPolicy   == service = "ovdc" => V!VmsKeepPolicy

\* cse install and cse upgrade, run until they succeed, leave what the server needs
\* (its InstallConverges), with every cluster migrated first (its ClaimedWhenMigrated).
InstallConverges == service = "installer" => I!InstallConverges /\ I!ClaimedWhenMigrated

\* Templates are offered when they are complete and built completely
\* (its OfferedAreComplete and BuiltIsComplete).
TemplatesAreComplete ==
  service = "templates" => B!OfferedAreComplete /\ B!BuiltIsComplete

\* The isolation and the names of PKS clusters do not mislead the broker (its
\* AcceptedIsIsolated and NamesDiffer).
PksIsIsolated == service = "pks" => P!AcceptedIsIsolated /\ P!NamesDiffer

\* A request reaches the handler its URL, verb and version name, is refused before it
\* changes anything, and keeps its context as long as its thread needs it
\* (RestApi!RequestIsServed).
RequestIsServed == service = "rest" => R!RequestIsServed

\* A command of the client acts on the cluster that was meant and changes its ACL as
\* it was asked to (ClusterClient!ClientsActAsAsked).
ClientsActAsAsked == service = "client" => K!ClientsActAsAsked
=============================================================================
