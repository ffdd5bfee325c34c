--------------------------- MODULE ClusterService1X ---------------------------
(***************************************************************************)
(* ClusterService of rde/backend/cluster_service_1_x.py: native clusters   *)
(* of RDE 1.0, at vCD API 35.  It differs from the 2.x service in three    *)
(* ways.  A write replaces the whole entity by a copy that was read        *)
(* before, without If-Match: the last writer wins.  The task of an update  *)
(* ends before its result is stored.  A delete removes the entity in the   *)
(* handler, and the vApp in the thread.  Worker and NFS nodes are counted  *)
(* together as workers.                                                    *)
(***************************************************************************)
EXTENDS ClusterThreads

Kinds == {"create", "update", "deleteNodes", "delete", "upgrade", "info"}
PhaseOp(o) == CASE req[o].kind = "create" -> "CREATE"
                [] req[o].kind = "upgrade" -> "UPGRADE"
                [] OTHER -> "UPDATE"

\* An update with rollback has the outcomes of one without and others.
Requests ==
  {r \in [kind : Kinds, workers : 0..MaxWorkers, expose : BOOLEAN, rollback : BOOLEAN] :
     /\ r.kind \notin {"create", "update"} => r.workers = 0 /\ r.expose
     /\ r.kind # "create" => r.rollback}

Init == InitWith(TRUE, FALSE)

Begin(o, r) ==
  /\ pc[o] = "idle"
  /\ r.kind = "create" => ~Exists /\ \A p \in Ops : pc[p] = "idle"
  /\ r.kind # "create" => Exists
  /\ req' = [req EXCEPT ![o] = r]
  /\ Goto(o, "get")
  /\ UNCHANGED <<state, mem, task, faults>>

With(e, op, status) == [e EXCEPT !.op = op, !.status = status]
Keep(o, e)  == mem' = [mem EXCEPT ![o].copy = e]
Local(o, e) == mem' = [mem EXCEPT ![o].temp = e]

\* The local variables end with their thread.
Forget(o) == mem' = [mem EXCEPT ![o] = [NoMemory EXCEPT !.undo = mem[o].undo]]

-----------------------------------------------------------------------------
(***************************************************************************)
(* The handlers.                                                           *)
(***************************************************************************)
\* create_cluster refuses a bad name, a taken one and an unknown template,
\* then creates the entity itself and reads it back by its name.
NameTaken == vapp # Absent
CheckCreate(o) ==
  /\ pc[o] = "get"
  /\ req[o].kind = "create"
  /\ \/ ~NameTaken /\ SetTask(o, "RUNNING") /\ Goto(o, "set")
     \/ UNCHANGED task /\ Goto(o, "done")
  /\ UNCHANGED <<state, req, mem, faults>>

CreateEntity(o) ==
  /\ pc[o] = "set"
  /\ req[o].kind = "create"
  /\ \/ /\ rde' = NewEntity("PRE_CREATED", "IN_PROGRESS", o)
        /\ Goto(o, "makeVapp") /\ UNCHANGED faults
     \/ /\ Fault
        /\ rde' \in {rde, NewEntity("PRE_CREATED", "IN_PROGRESS", o)}
        /\ Goto(o, "err")
  /\ UNCHANGED <<vapp, token, rule, req, mem, task>>

Idle == rde.status \notin {"NONE", "IN_PROGRESS"}

Allowed(o) ==
  LET r == req[o] IN
  CASE r.kind = "update" -> /\ (rde.exposed /\ ~r.expose) \/ r.workers # rde.workers
                            /\ rde.state = "RESOLVED" /\ Idle
    [] r.kind = "upgrade" -> rde.state = "RESOLVED" /\ Idle
    [] r.kind = "delete" -> Idle
    [] OTHER -> TRUE

\* The handlers of the others read the entity; what they refuse has no task.
CheckEntity(o) ==
  /\ pc[o] = "get"
  /\ req[o].kind \notin {"create", "info"}
  /\ \/ /\ Exists /\ Allowed(o)
        /\ Keep(o, rde) /\ SetTask(o, "RUNNING") /\ Goto(o, "set") /\ UNCHANGED faults
     \/ /\ (Exists /\ UNCHANGED faults) \/ CallFails
        /\ UNCHANGED <<mem, task>> /\ Goto(o, "done")
  /\ UNCHANGED <<state, req>>

FirstPc == [update |-> "monitor", deleteNodes |-> "monitor", upgrade |-> "upgrade"]

\* The handler stores the copy it read, with the phase and its task.
InProgress(o) == [With(mem[o].copy, PhaseOp(o), "IN_PROGRESS") EXCEPT !.task = o]
MarkBusy(o) ==
  /\ pc[o] = "set"
  /\ req[o].kind \in DOMAIN FirstPc
  /\ \/ Put(o, InProgress(o), FirstPc[req[o].kind])
     \/ PutRaises(o, InProgress(o), "err")
  /\ UNCHANGED <<vapp, token, rule, req, mem, task>>

\* delete_cluster deletes the entity first.
DeleteEntity(o) ==
  /\ pc[o] = "set"
  /\ req[o].kind = "delete"
  /\ Remove(o, "deleteVapp", "err")
  /\ UNCHANGED <<vapp, token, rule, req, mem, task>>

\* get_cluster_info reads the entity, then the vApp, and stores both.
Info(o) ==
  /\ pc[o] = "get"
  /\ req[o].kind = "info"
  /\ \/ Exists /\ Local(o, rde) /\ Goto(o, "syncInfo") /\ UNCHANGED faults
     \/ CallFails /\ UNCHANGED mem /\ Goto(o, "done")
  /\ UNCHANGED <<state, req, task>>

\* _sync_def_entity of a copy e: nothing without a vApp; else the entity becomes
\* e with the nodes of the vApp.
Synced(e) == [e EXCEPT !.workers = IF vapp = Absent THEN @ ELSE vapp.workers]
Sync(o, e, own, next, raised) ==
  IF e.linked \/ own THEN Put(o, Synced(e), next) \/ PutRaises(o, Synced(e), raised)
                     ELSE Goto(o, next) /\ UNCHANGED <<rde, faults>>

SyncInfo(o) ==
  /\ pc[o] = "syncInfo"
  /\ Sync(o, mem[o].temp, FALSE, "done", "done")
  /\ Local(o, Absent)
  /\ UNCHANGED <<vapp, token, rule, req, task>>

-----------------------------------------------------------------------------
(***************************************************************************)
(* _create_cluster_async                                                   *)
(***************************************************************************)
NextCall == [makeVapp |-> "controlPlane", controlPlane |-> "address",
             address |-> "init", init |-> "workers", workers |-> "join",
             join |-> "nfs", nfs |-> "record"]

\* _get_control_plane_ip raises a ScriptExecutionError, which is not rolled back.
ScriptRaises  == {"ScriptExecutionError"}
AddressRaises == ScriptRaises
InitRaises    == {"ClusterInitializationError"}
JoinRaises    == {"ClusterJoiningError"}
Raises == [makeVapp |-> {"ClusterOperationError", "other"},
           controlPlane |-> {"ControlPlaneNodeCreationError"},
           address |-> AddressRaises, init |-> InitRaises,
           workers |-> {"WorkerNodeCreationError"}, join |-> JoinRaises,
           nfs |-> {"NFSNodeCreationError"}]

Known == {"ControlPlaneNodeCreationError", "WorkerNodeCreationError",
          "NFSNodeCreationError", "ClusterJoiningError",
          "ClusterInitializationError", "ClusterOperationError"}

MakeVapp(o) ==
  /\ pc[o] = "makeVapp"
  /\ vapp = Absent
  /\ vapp' = NewVapp
  /\ Goto(o, NextCall[pc[o]])
  /\ UNCHANGED <<rde, token, rule, req, mem, task, faults>>

\* A failure to expose the cluster is only logged.
GetAddress(o) ==
  /\ pc[o] = "address"
  /\ vapp # Absent
  /\ \E exposed \in {FALSE, req[o].expose} :
       /\ rule' = (rule \/ exposed)
       /\ mem' = [mem EXCEPT ![o].exposed = exposed]
  /\ Goto(o, NextCall[pc[o]])
  /\ UNCHANGED <<rde, vapp, token, req, task, faults>>

\* _add_nodes of a control plane, of workers or of NFS nodes; _init_cluster and
\* _join_cluster run scripts.
AddNodes(o) == IF pc[o] = "workers" THEN MoreWorkers(req[o].workers) ELSE vapp
Deploy(o) ==
  /\ pc[o] \in {"controlPlane", "init", "workers", "join", "nfs"}
  /\ vapp # Absent
  /\ vapp' = AddNodes(o)
  /\ Goto(o, NextCall[pc[o]])
  /\ UNCHANGED <<rde, token, rule, req, mem, task, faults>>

CallRaises(o) ==
  /\ pc[o] \in DOMAIN Raises
  /\ \E e \in Raises[pc[o]] :
       LET undo == e \in Known /\ req[o].rollback IN
       /\ mem' = [mem EXCEPT ![o].undo = undo]
       /\ Goto(o, IF undo THEN "rollback" ELSE "fail")
       /\ vapp' \in IF pc[o] = "makeVapp"
                      THEN IF vapp = Absent /\ e = "other" THEN {vapp, NewVapp} ELSE {vapp}
                      ELSE {vapp, IF vapp = Absent THEN vapp ELSE AddNodes(o)}
  /\ UNCHANGED <<rde, token, rule, req, task, faults>>

\* The entity is read, completed and written, then resolved.
Created(o) ==
  [With(Synced(rde), "CREATE", "SUCCEEDED") EXCEPT !.linked = TRUE, !.exposed = mem[o].exposed]
Record(o) ==
  /\ pc[o] = "record"
  /\ \/ Exists /\ (Put(o, Created(o), "resolve") \/ PutRaises(o, Created(o), "fail"))
     \/ ~Exists /\ Goto(o, "fail") /\ UNCHANGED <<rde, faults>>
  /\ UNCHANGED <<vapp, token, rule, req, mem, task>>

Resolved == [rde EXCEPT !.state = "RESOLVED"]
Resolve(o) ==
  /\ pc[o] = "resolve"
  /\ \/ Exists /\ (Put(o, Resolved, "ok") \/ PutRaises(o, Resolved, "fail"))
     \/ ~Exists /\ Goto(o, "fail") /\ UNCHANGED <<rde, faults>>
  /\ UNCHANGED <<vapp, token, rule, req, mem, task>>

-----------------------------------------------------------------------------
(***************************************************************************)
(* _monitor_update, _monitor_delete_nodes and their children.              *)
(***************************************************************************)
\* The monitor keeps the entity it reads and will write it back at its end.
Monitor(o) ==
  /\ pc[o] = "monitor"
  /\ Exists
  /\ Keep(o, rde)
  /\ Goto(o, CASE req[o].kind = "deleteNodes" \/ req[o].workers < rde.workers -> "del"
               [] req[o].workers > rde.workers -> "add"
               [] OTHER -> "unexpose")
  /\ UNCHANGED <<state, req, task, faults>>

\* Variant: a monitor that cannot read the entity just ends.
MonitorDies(o) ==
  /\ pc[o] \in {"monitor", "upgrade"}
  /\ CallFails
  /\ Goto(o, "done")
  /\ UNCHANGED <<state, req, mem, task>>

MonitorRaises(o) ==
  /\ pc[o] \in {"monitor", "upgrade"}
  /\ CallFails
  /\ Goto(o, "fail")
  /\ UNCHANGED <<state, req, mem, task>>

AfterChild(o) == IF req[o].kind = "update" THEN "unexpose" ELSE "publish"

Add(o) ==
  /\ pc[o] = "add"
  /\ Exists /\ rde.linked /\ vapp # Absent
  /\ vapp' = IF req[o].workers > rde.workers
               THEN MoreWorkers(req[o].workers - rde.workers) ELSE vapp
  /\ Goto(o, AfterChild(o))
  /\ UNCHANGED <<rde, token, rule, req, mem, task, faults>>

\* With rollback a ClusterJoiningError has no node_names: the child dies in its
\* except block, and its nodes stay.
AddRaises(o) ==
  /\ pc[o] = "add"
  /\ vapp' \in IF Exists /\ rde.linked /\ vapp # Absent
                 THEN {vapp, MoreWorkers(1)} ELSE {vapp}
  /\ \/ mem' = [mem EXCEPT ![o].child = TRUE] /\ Goto(o, "fail")
     \/ req[o].rollback /\ vapp # Absent /\ UNCHANGED mem /\ Goto(o, AfterChild(o))
  /\ UNCHANGED <<rde, token, rule, req, task, faults>>

Surplus(o) ==
  IF req[o].kind = "deleteNodes" THEN 1
  ELSE IF rde.workers > req[o].workers THEN rde.workers - req[o].workers ELSE 0

Del(o) ==
  /\ pc[o] = "del"
  /\ Exists /\ rde.linked /\ vapp # Absent
  /\ vapp.workers >= Surplus(o)
  /\ vapp' = MoreWorkers(-Surplus(o))
  /\ Goto(o, AfterChild(o))
  /\ UNCHANGED <<rde, token, rule, req, mem, task, faults>>

DelRaises(o) ==
  /\ pc[o] = "del"
  /\ \/ /\ Exists /\ rde.linked
        /\ mem' = [mem EXCEPT ![o].child = TRUE]
        /\ Goto(o, "fail") /\ UNCHANGED faults
     \/ /\ CallFails \/ (Exists /\ ~rde.linked /\ UNCHANGED faults)
        /\ Goto(o, AfterChild(o)) /\ UNCHANGED mem
  /\ UNCHANGED <<state, req, task>>

\* The kubeconfig gets the internal address, the rule goes, and the copy of the
\* entity says so; a failure is only logged.
Unexpose(o) ==
  /\ pc[o] = "unexpose"
  /\ LET unexpose == mem[o].copy.exposed /\ ~req[o].expose IN
       /\ rule' = (rule /\ ~unexpose)
       /\ mem' = [mem EXCEPT ![o].copy.exposed = @ /\ ~unexpose]
  /\ Goto(o, "publish")
  /\ UNCHANGED <<rde, vapp, token, req, task, faults>>

UnexposeRaises(o) ==
  /\ pc[o] = "unexpose"
  /\ mem[o].copy.exposed /\ ~req[o].expose
  /\ \/ UNCHANGED <<rule, faults>>
     \/ rule' = FALSE /\ Fault
  /\ Goto(o, "publish")
  /\ UNCHANGED <<rde, vapp, token, req, mem, task>>

\* The task succeeds first, unless a child failed; then the copy is stored.
Publish(o) ==
  /\ pc[o] = "publish"
  /\ IF mem[o].error THEN UNCHANGED task ELSE SetTask(o, "SUCCESS")
  /\ mem' = [mem EXCEPT ![o].copy =
               With(@, "UPDATE", IF mem[o].error THEN "FAILED" ELSE "SUCCEEDED")]
  /\ Goto(o, "finish")
  /\ UNCHANGED <<state, req, faults>>

Finish(o) ==
  /\ pc[o] = "finish"
  /\ Sync(o, mem[o].copy, FALSE, "done", "fail")
  /\ Forget(o)
  /\ UNCHANGED <<vapp, token, rule, req, task>>

-----------------------------------------------------------------------------
(***************************************************************************)
(* _upgrade_cluster_async: Kubernetes on the control plane, then on the    *)
(* workers, then Docker and CNI, as far as the versions differ.            *)
(***************************************************************************)
UpgradeNext == [drainControl |-> {"runControl"}, runControl |-> {"uncordonControl"},
                uncordonControl |-> {"drainWorkers"}, drainWorkers |-> {"runWorkers"},
                runWorkers |-> {"uncordonWorkers"},
                uncordonWorkers |-> {"drainAll", "uncordonAll"},
                drainAll |-> {"runAll"}, runAll |-> {"uncordonAll"},
                uncordonAll |-> {"recordUpgrade"}]

UpgradeEffect(p) ==
  CASE p = "drainControl"    -> Drained({"controlPlane"})
    [] p = "runControl"      -> Renewed({"controlPlane"})
    [] p = "uncordonControl" -> Uncordoned({"controlPlane"})
    [] p = "drainWorkers"    -> Drained({"workers"})
    [] p = "runWorkers"      -> Renewed({"workers"})
    [] p = "uncordonWorkers" -> Uncordoned({"workers"})
    [] p = "drainAll"        -> Drained(Groups)
    [] p = "runAll"          -> vapp
    [] p = "uncordonAll"     -> Uncordoned(Groups)

BeginUpgrade(o) ==
  /\ pc[o] = "upgrade"
  /\ Exists
  /\ Keep(o, rde)
  /\ IF rde.linked /\ vapp # Absent
       THEN \E p \in {"drainControl", "drainAll", "uncordonAll"} : Goto(o, p)
       ELSE Goto(o, "fail")
  /\ UNCHANGED <<state, req, task, faults>>

UpgradeStep(o) ==
  /\ pc[o] \in DOMAIN UpgradeNext
  /\ vapp # Absent
  /\ vapp' = UpgradeEffect(pc[o])
  /\ \E p \in UpgradeNext[pc[o]] : Goto(o, p)
  /\ UNCHANGED <<rde, token, rule, req, mem, task, faults>>

UpgradeRaises(o) ==
  /\ pc[o] \in DOMAIN UpgradeNext
  /\ vapp' \in IF vapp = Absent THEN {vapp} ELSE {vapp, UpgradeEffect(pc[o])}
  /\ Goto(o, "fail")
  /\ UNCHANGED <<rde, token, rule, req, mem, task, faults>>

RecordUpgrade(o) ==
  /\ pc[o] = "recordUpgrade"
  /\ LET e == With(mem[o].copy, "UPGRADE", "SUCCEEDED")
     IN  Put(o, e, "ok") \/ PutRaises(o, e, "fail")
  /\ UNCHANGED <<vapp, token, rule, req, mem, task>>

-----------------------------------------------------------------------------
(***************************************************************************)
(* _delete_cluster_async                                                   *)
(***************************************************************************)
DeleteVapp(o) ==
  /\ pc[o] = "deleteVapp"
  /\ vapp # Absent
  /\ vapp' = Absent
  /\ Goto(o, IF mem[o].copy.exposed THEN "deleteRule" ELSE "ok")
  /\ UNCHANGED <<rde, token, rule, req, mem, task, faults>>

\* The entity is gone, the vApp stays.
DeleteVappRaises(o) ==
  /\ pc[o] = "deleteVapp"
  /\ Goto(o, "err")
  /\ UNCHANGED <<state, req, mem, task, faults>>

DeleteRule(o) ==
  /\ pc[o] = "deleteRule"
  /\ \/ rule' = FALSE /\ UNCHANGED faults
     \/ UNCHANGED rule /\ Fault
  /\ Goto(o, IF req[o].kind = "create" THEN "undo" ELSE "ok")
  /\ UNCHANGED <<rde, vapp, token, req, mem, task>>

-----------------------------------------------------------------------------
(***************************************************************************)
(* The except blocks.                                                      *)
(***************************************************************************)
Rollback(o) ==
  /\ pc[o] = "rollback"
  /\ \/ vapp' = Absent /\ UNCHANGED faults
     \/ UNCHANGED vapp /\ Fault
  /\ Goto(o, IF mem[o].exposed THEN "deleteRule" ELSE "undo")
  /\ UNCHANGED <<rde, token, rule, req, mem, task>>

Undo(o) ==
  /\ pc[o] = "undo"
  /\ Remove(o, "err", "err")
  /\ UNCHANGED <<vapp, token, rule, req, mem, task>>

\* _fail_operation reads the entity and writes it back FAILED; then
\* _sync_def_entity does the same with the nodes.  What fails is logged.
Fail(o) ==
  /\ pc[o] = "fail"
  /\ \/ Exists /\ Local(o, With(rde, PhaseOp(o), "FAILED")) /\ Goto(o, "failWrite") /\ UNCHANGED faults
     \/ CallFails /\ UNCHANGED mem /\ Goto(o, "sync")
  /\ UNCHANGED <<state, req, task>>

FailWrite(o) ==
  /\ pc[o] = "failWrite"
  /\ PutOrNot(o, mem[o].temp, "sync")
  /\ Local(o, Absent)
  /\ UNCHANGED <<vapp, token, rule, req, task>>

AfterSync(o) == IF req[o].kind = "create" THEN "resolveFailed" ELSE "err"
SyncRead(o) ==
  /\ pc[o] = "sync"
  /\ \/ Exists /\ Local(o, rde) /\ Goto(o, "syncWrite") /\ UNCHANGED faults
     \/ CallFails /\ UNCHANGED mem /\ Goto(o, AfterSync(o))
  /\ UNCHANGED <<state, req, task>>

SyncWrite(o) ==
  /\ pc[o] = "syncWrite"
  /\ Sync(o, mem[o].temp, vapp # Absent, AfterSync(o), AfterSync(o))
  /\ Local(o, Absent)
  /\ UNCHANGED <<vapp, token, rule, req, task>>

ResolveFailed(o) ==
  /\ pc[o] = "resolveFailed"
  /\ \/ Exists /\ PutOrNot(o, Resolved, "err")
     \/ ~Exists /\ Goto(o, "err") /\ UNCHANGED <<rde, faults>>
  /\ UNCHANGED <<vapp, token, rule, req, mem, task>>

\* _update_task never changes a task that has ended.
Err(o) ==
  /\ pc[o] = "err"
  /\ SetTask(o, "ERROR")
  /\ IF mem[o].child
       THEN mem' = [mem EXCEPT ![o].error = TRUE, ![o].child = FALSE] /\ Goto(o, AfterChild(o))
       ELSE Forget(o) /\ Goto(o, "done")
  /\ UNCHANGED <<state, req, faults>>

Ok(o) ==
  /\ pc[o] = "ok"
  /\ SetTask(o, "SUCCESS")
  /\ Forget(o)
  /\ Goto(o, "done")
  /\ UNCHANGED <<state, req, faults>>

-----------------------------------------------------------------------------
Step(o) ==
  \/ CheckCreate(o) \/ CreateEntity(o) \/ CheckEntity(o) \/ MarkBusy(o) \/ DeleteEntity(o)
  \/ Info(o) \/ SyncInfo(o) \/ MakeVapp(o) \/ GetAddress(o) \/ Deploy(o) \/ CallRaises(o)
  \/ Record(o) \/ Resolve(o) \/ Monitor(o) \/ MonitorRaises(o) \/ Add(o) \/ AddRaises(o)
  \/ Del(o) \/ DelRaises(o) \/ Unexpose(o) \/ UnexposeRaises(o) \/ Publish(o) \/ Finish(o)
  \/ BeginUpgrade(o) \/ UpgradeStep(o) \/ UpgradeRaises(o) \/ RecordUpgrade(o)
  \/ DeleteVapp(o) \/ DeleteVappRaises(o) \/ DeleteRule(o)
  \/ Rollback(o) \/ Undo(o) \/ Fail(o) \/ FailWrite(o) \/ SyncRead(o) \/ SyncWrite(o)
  \/ ResolveFailed(o) \/ Err(o) \/ Ok(o)

Next == \E o \in Ops : Step(o) \/ \E r \in Requests : Begin(o, r)

Spec == Init /\ [][Next]_vars

-----------------------------------------------------------------------------
TypeOK == TypeOKWith(Requests)

\* A create that was rolled back, no call failing meanwhile, leaves no entity,
\* no vApp and no DNAT rule.
RollbackIsComplete ==
  \A o \in Ops : mem[o].undo /\ pc[o] = "done" /\ faults = 0 =>
    ~Exists /\ vapp = Absent /\ ~rule

\* A deletion that ends in SUCCESS leaves neither entity nor vApp, although it
\* deletes the one first and others may write back copies of it.
DeleteIsComplete ==
  \A o \in Ops : task[o] = "SUCCESS" /\ req[o].kind = "delete" => ~Exists /\ vapp = Absent

\* An entity that says its cluster is exposed has the DNAT rule, if no call
\* failed and one request at a time changed the cluster.
OneAtATime == \A o, p \in Ops : req[o] # Absent /\ req[p] # Absent => o = p
ExposedHasRule ==
  Settled /\ OneAtATime /\ faults = 0 /\ Exists /\ rde.exposed => rule

\* After upgrades that all succeeded no node is left drained, and all groups of
\* nodes run the same version.
UpgradeIsComplete ==
  Settled /\ vapp # Absent /\ (\A o \in Ops : task[o] # "ERROR") =>
    vapp.drained = {} /\ vapp.new \in {{}, Groups}
=============================================================================
