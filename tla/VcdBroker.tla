------------------------------- MODULE VcdBroker -------------------------------
(***************************************************************************)
(* VcdBroker of server/vcdbroker.py: the native clusters of vCD API 33 and *)
(* 34, which have no defined entity: a cluster is a vApp that carries the  *)
(* metadata of one, its id included.  Nothing marks a cluster as busy, so  *)
(* requests on it overlap freely.  Two vApps of one virtual data centre    *)
(* never have the same name (vCD).                                         *)
(***************************************************************************)
EXTENDS ClusterThreads

VARIABLES
  owner,   \* the cluster_id of the vApp: the create that made it, or Absent
  tagged,  \* has its metadata been set?
  seen     \* the cluster each request works on

brokerVars == <<owner, tagged, seen>>
allVars    == <<vars, brokerVars>>

Kinds == {"create", "resize", "createNodes", "deleteNodes", "delete", "upgrade"}
Counted == {"create", "resize", "createNodes"}
Requests ==
  {r \in [kind : Kinds, workers : 0..MaxWorkers, rollback : BOOLEAN] :
     /\ r.kind = "createNodes" => r.workers > 0
     /\ r.kind \notin Counted => r.workers = 0 /\ r.rollback}

\* A cluster that was there before has an id of its own, no request.
Before == "before"

Init ==
  /\ InitWith(FALSE, FALSE)
  /\ owner = IF vapp = Absent THEN Absent ELSE Before
  /\ tagged = (vapp # Absent)
  /\ seen = [o \in Ops |-> Absent]

Begin(o, r) ==
  /\ pc[o] = "idle"
  /\ req' = [req EXCEPT ![o] = r]
  /\ Goto(o, "get")
  /\ UNCHANGED <<state, mem, task, faults, brokerVars>>

\* _get_cluster and get_all_clusters query vApps by their metadata.
Found    == vapp # Absent /\ tagged
Same(o)  == vapp # Absent /\ owner = seen[o]

-----------------------------------------------------------------------------
(***************************************************************************)
(* The handlers: what they refuse has no task.                             *)
(***************************************************************************)
Refuse(o) ==
  /\ pc[o] = "get"
  /\ Goto(o, "done")
  /\ UNCHANGED <<state, req, mem, task, faults, brokerVars>>

\* create_cluster looks for a cluster of the same name.
CheckCreate(o) ==
  /\ pc[o] = "get"
  /\ req[o].kind = "create"
  /\ ~Found
  /\ seen' = [seen EXCEPT ![o] = o]
  /\ SetTask(o, "RUNNING")
  /\ Goto(o, "makeVapp")
  /\ UNCHANGED <<state, req, mem, faults, owner, tagged>>

\* How many nodes a request adds or, if negative, deletes; resize_cluster
\* compares the workers of get_cluster_info with what is wanted.
Change(r) == CASE r.kind = "resize"      -> r.workers - vapp.workers
               [] r.kind = "createNodes" -> r.workers
               [] r.kind = "deleteNodes" -> -1
               [] OTHER                  -> 0

FirstPc(r) == CASE r.kind = "delete"  -> "deleteVapp"
                [] r.kind = "upgrade" -> "upgrade"
                [] Change(r) > 0      -> "add"
                [] Change(r) < 0      -> "drain"

\* resize_cluster, create_nodes, delete_nodes, delete_cluster and
\* upgrade_cluster look the cluster up, then start a thread.
Size(n) == IF n < 0 THEN -n ELSE n
CheckCluster(o) ==
  /\ pc[o] = "get"
  /\ LET r == req[o] IN
       /\ r.kind # "create"
       /\ Found
       /\ r.kind = "resize" => Change(r) # 0
       /\ mem' = [mem EXCEPT ![o].workers = Size(Change(r))]
       /\ Goto(o, FirstPc(r))
  /\ seen' = [seen EXCEPT ![o] = owner]
  /\ SetTask(o, "RUNNING")
  /\ UNCHANGED <<state, req, faults, owner, tagged>>

-----------------------------------------------------------------------------
(***************************************************************************)
(* _create_cluster_async                                                   *)
(***************************************************************************)
NextCall == [tag |-> "controlPlane", controlPlane |-> "init", init |-> "address",
             address |-> "workers", workers |-> "join", join |-> "nfs", nfs |-> "ok"]

InitRaises    == {"ClusterInitializationError"}
JoinRaises    == {"ClusterJoiningError"}
ScriptRaises  == {"other"}    \* a ScriptExecutionError, not one of the known ones
AddressRaises == ScriptRaises
Raises == [tag |-> {"other"}, controlPlane |-> {"ControlPlaneNodeCreationError"},
           init |-> InitRaises, address |-> AddressRaises,
           workers |-> {"WorkerNodeCreationError"}, join |-> JoinRaises,
           nfs |-> {"NFSNodeCreationError"}]

MakeVapp(o) ==
  /\ pc[o] = "makeVapp"
  /\ vapp = Absent
  /\ vapp' = NewVapp
  /\ owner' = o
  /\ tagged' = FALSE
  /\ Goto(o, "tag")
  /\ UNCHANGED <<rde, token, rule, req, mem, task, faults, seen>>

\* create_vapp refuses a name that is taken; what fails after it is not rolled back.
MakeVappRaises(o) ==
  /\ pc[o] = "makeVapp"
  /\ \/ /\ mem' = [mem EXCEPT ![o].undo = req[o].rollback]
        /\ Goto(o, IF req[o].rollback THEN "rollback" ELSE "err")
        /\ UNCHANGED <<vapp, owner, tagged>>
     \/ /\ vapp = Absent
        /\ vapp' = NewVapp /\ owner' = o /\ tagged' = FALSE
        /\ Goto(o, "err")
        /\ UNCHANGED mem
  /\ UNCHANGED <<rde, token, rule, req, task, faults, seen>>

\* set_multiple_metadata, _add_nodes, _init_cluster, _join_cluster, the address
AddNodes(o) == IF pc[o] = "workers" THEN MoreWorkers(req[o].workers) ELSE vapp
Deploy(o) ==
  /\ pc[o] \in DOMAIN NextCall
  /\ Same(o)
  /\ vapp' = AddNodes(o)
  /\ tagged' = (tagged \/ pc[o] = "tag")
  /\ Goto(o, NextCall[pc[o]])
  /\ UNCHANGED <<rde, token, rule, req, mem, task, faults, owner, seen>>

DeployRaises(o) ==
  /\ pc[o] \in DOMAIN Raises
  /\ \E e \in Raises[pc[o]] :
       LET undo == e # "other" /\ req[o].rollback IN
       /\ mem' = [mem EXCEPT ![o].undo = undo]
       /\ Goto(o, IF undo THEN "rollback" ELSE "err")
  /\ vapp' \in IF Same(o) THEN {vapp, AddNodes(o)} ELSE {vapp}
  /\ UNCHANGED <<rde, token, rule, req, task, faults, brokerVars>>

\* Variant: the rollback looks the cluster up by its name alone.
FindsByName(o) ==
  /\ pc[o] = "rollback"
  /\ Goto(o, IF Found THEN "undo" ELSE "err")
  /\ UNCHANGED <<state, req, mem, task, faults, brokerVars>>

\* The rollback looks up the cluster with its own id, then deletes the vApp by name.
Rollback(o) ==
  /\ pc[o] = "rollback"
  /\ Goto(o, IF Found /\ Same(o) THEN "undo" ELSE "err")
  /\ UNCHANGED <<state, req, mem, task, faults, brokerVars>>

Undo(o) ==
  /\ pc[o] = "undo"
  /\ \/ vapp' = Absent /\ owner' = Absent /\ tagged' = FALSE /\ UNCHANGED faults
     \/ Fault /\ UNCHANGED <<vapp, owner, tagged>>
  /\ Goto(o, "err")
  /\ UNCHANGED <<rde, token, rule, req, mem, task, seen>>

-----------------------------------------------------------------------------
(***************************************************************************)
(* _create_nodes_async and _delete_nodes_async                             *)
(***************************************************************************)
\* Workers are joined to the cluster; an NFS node is not, and does not count.
Add(o) ==
  /\ pc[o] = "add"
  /\ Same(o)
  /\ \/ vapp' = MoreWorkers(mem[o].workers) /\ Goto(o, "joinNew")
     \/ req[o].kind = "createNodes" /\ UNCHANGED vapp /\ Goto(o, "ok")
  /\ UNCHANGED <<rde, token, rule, req, mem, task, faults, brokerVars>>

AddRaises(o) ==
  /\ pc[o] = "add"
  /\ \E n \in 0..mem[o].workers :
       /\ n > 0 => Same(o)
       /\ vapp' = IF n = 0 THEN vapp ELSE MoreWorkers(n)
       /\ Goto(o, IF req[o].rollback /\ n = mem[o].workers THEN "dropNew" ELSE "err")
  /\ UNCHANGED <<rde, token, rule, req, mem, task, faults, brokerVars>>

\* A failed join leaves the new nodes.
JoinNew(o) ==
  /\ pc[o] = "joinNew"
  /\ \/ Same(o) /\ Goto(o, "ok")
     \/ Goto(o, "err")
  /\ UNCHANGED <<state, req, mem, task, faults, brokerVars>>

\* Nodes that fail to drain are deleted all the same.
Drain(o) ==
  /\ pc[o] = "drain"
  /\ Goto(o, "drop") \/ Goto(o, "err")
  /\ UNCHANGED <<state, req, mem, task, faults, brokerVars>>

\* Variant: nodes are counted off, whether they are still there or not.
DropBlindly(o) ==
  /\ pc[o] \in {"drop", "dropNew"}
  /\ Same(o)
  /\ vapp' = MoreWorkers(-mem[o].workers)
  /\ Goto(o, IF pc[o] = "drop" THEN "ok" ELSE "err")
  /\ UNCHANGED <<rde, token, rule, req, mem, task, faults, brokerVars>>

\* A node that another request has deleted is not found, and nothing is deleted.
DropNodes(o) ==
  /\ pc[o] \in {"drop", "dropNew"}
  /\ \/ /\ Same(o)
        /\ vapp.workers >= mem[o].workers
        /\ vapp' = MoreWorkers(-mem[o].workers)
        /\ Goto(o, IF pc[o] = "drop" THEN "ok" ELSE "err")
     \/ UNCHANGED vapp /\ Goto(o, "err")
  /\ UNCHANGED <<rde, token, rule, req, mem, task, faults, brokerVars>>

\* _delete_cluster_async: the vApp of that name
DeleteVapp(o) ==
  /\ pc[o] = "deleteVapp"
  /\ \/ vapp # Absent /\ vapp' = Absent /\ owner' = Absent /\ tagged' = FALSE /\ Goto(o, "ok")
     \/ Goto(o, "err") /\ UNCHANGED <<vapp, owner, tagged>>
  /\ UNCHANGED <<rde, token, rule, req, mem, task, faults, seen>>

-----------------------------------------------------------------------------
(***************************************************************************)
(* _upgrade_cluster_async                                                  *)
(***************************************************************************)
UpgradeNext == [upgrade |-> {"drainControl", "drainAll", "uncordonAll"},
                drainControl |-> {"runControl"}, runControl |-> {"uncordonControl"},
                uncordonControl |-> {"drainWorkers"}, drainWorkers |-> {"runWorkers"},
                runWorkers |-> {"uncordonWorkers"},
                uncordonWorkers |-> {"drainAll", "uncordonAll"},
                drainAll |-> {"runAll"}, runAll |-> {"uncordonAll"},
                uncordonAll |-> {"setMetadata"}, setMetadata |-> {"ok"}]

\* Variant: the last uncordon reaches the workers only.
EffectNoControl(p) ==
  CASE p = "drainControl"    -> Drained({"controlPlane"})
    [] p = "runControl"      -> Renewed({"controlPlane"})
    [] p = "uncordonControl" -> Uncordoned({"controlPlane"})
    [] p = "drainWorkers"    -> Drained({"workers"})
    [] p = "runWorkers"      -> Renewed({"workers"})
    [] p = "drainAll"        -> Drained(Groups)
    [] p \in {"uncordonWorkers", "uncordonAll"} -> Uncordoned({"workers"})
    [] OTHER -> vapp

UpgradeEffect(p) ==
  CASE p = "drainControl"    -> Drained({"controlPlane"})
    [] p = "runControl"      -> Renewed({"controlPlane"})
    [] p = "uncordonControl" -> Uncordoned({"controlPlane"})
    [] p = "drainWorkers"    -> Drained({"workers"})
    [] p = "runWorkers"      -> Renewed({"workers"})
    [] p = "uncordonWorkers" -> Uncordoned({"workers"})
    [] p = "drainAll"        -> Drained(Groups)
    [] p = "uncordonAll"     -> Uncordoned(Groups)
    [] OTHER                 -> vapp

UpgradeStep(o) ==
  /\ pc[o] \in DOMAIN UpgradeNext
  /\ Same(o)
  /\ vapp' = UpgradeEffect(pc[o])
  /\ \E p \in UpgradeNext[pc[o]] : Goto(o, p)
  /\ UNCHANGED <<rde, token, rule, req, mem, task, faults, brokerVars>>

UpgradeRaises(o) ==
  /\ pc[o] \in DOMAIN UpgradeNext
  /\ vapp' \in IF Same(o) THEN {vapp, UpgradeEffect(pc[o])} ELSE {vapp}
  /\ Goto(o, "err")
  /\ UNCHANGED <<rde, token, rule, req, mem, task, faults, brokerVars>>

\* _update_task
End(o) ==
  /\ pc[o] \in {"ok", "err"}
  /\ task' = [task EXCEPT ![o] = IF pc[o] = "ok" THEN "SUCCESS" ELSE "ERROR"]
  /\ Goto(o, "done")
  /\ UNCHANGED <<state, req, mem, faults, brokerVars>>

-----------------------------------------------------------------------------
Step(o) ==
  \/ Refuse(o) \/ CheckCreate(o) \/ CheckCluster(o) \/ MakeVapp(o) \/ MakeVappRaises(o)
  \/ Deploy(o) \/ DeployRaises(o) \/ Rollback(o) \/ Undo(o) \/ Add(o) \/ AddRaises(o)
  \/ JoinNew(o) \/ Drain(o) \/ DropNodes(o) \/ DeleteVapp(o) \/ UpgradeStep(o)
  \/ UpgradeRaises(o) \/ End(o)

Next == \E o \in Ops : Step(o) \/ \E r \in Requests : Begin(o, r)

Spec == Init /\ [][Next]_allVars

-----------------------------------------------------------------------------
TypeOK == /\ TypeOKWith(Requests)
          /\ owner \in Ops \cup {Before, Absent}
          /\ tagged \in BOOLEAN
          /\ seen \in [Ops -> Ops \cup {Before, Absent}]

\* A create that was rolled back, no call failing meanwhile, leaves no vApp of its own.
RollbackIsComplete ==
  \A o \in Ops : mem[o].undo /\ pc[o] = "done" /\ faults = 0 => ~Same(o)

\* A deletion that ends in SUCCESS leaves no vApp of the cluster it was asked for.
DeleteIsComplete ==
  \A o \in Ops : task[o] = "SUCCESS" /\ req[o].kind = "delete" => ~Same(o)

\* The rollback of a create never deletes the cluster of another request: of two
\* creates with one name the second fails, and may not take the first one's vApp.
OnlyOwnRollback ==
  [][\A o \in Ops : pc[o] = "undo" /\ pc'[o] # "undo" /\ vapp # vapp' =>
       owner = o \/ \E p \in Ops : req[p] # Absent /\ req[p].kind = "delete"]_allVars

\* After upgrades that all succeeded no group of nodes the cluster had is left
\* drained, and all run the same version, however upgrades overlapped.
UpgradeIsComplete ==
  Settled /\ vapp # Absent /\ (\A o \in Ops : task[o] # "ERROR") =>
    vapp.drained = {} /\ vapp.new \in {{}, Groups}
=============================================================================
