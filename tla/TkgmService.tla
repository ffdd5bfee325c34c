------------------------------ MODULE TkgmService ------------------------------
(***************************************************************************)
(* ClusterService of rde/backend/cluster_service_2_x_tkgm.py: TKGm         *)
(* clusters.  Beyond what ClusterService (2.x) does, a cluster has an      *)
(* OAuth refresh token for its cloud provider and, if the user asks for    *)
(* it, a DNAT rule that exposes it; it cannot be scaled down or upgraded.  *)
(* vCD, external, creates the RDE before a create, resolves it when that   *)
(* task ends, and removes it when a delete succeeds.                       *)
(***************************************************************************)
EXTENDS ClusterThreads

Kinds == {"create", "update", "deleteNodes", "delete", "forceDelete", "info"}
PhaseOp(o) == CASE req[o].kind = "create" -> "CREATE"
                [] req[o].kind = "delete" -> "DELETE"
                [] OTHER -> "UPDATE"

Requests ==
  {r \in [kind : Kinds, workers : 0..MaxWorkers, expose : BOOLEAN, rollback : BOOLEAN] :
     /\ r.kind \notin {"create", "update"} => r.workers = 0 /\ r.expose
     /\ r.kind # "create" => r.rollback}

Init == InitWith(TRUE, TRUE)

Accepts(kind) ==
  IF kind = "create" THEN ~Exists /\ \A p \in Ops : pc[p] = "idle"
  ELSE Exists /\ (kind \in {"update", "info"} \/ rde.state # "PRE_CREATED")

Begin(o, r) ==
  /\ pc[o] = "idle"
  /\ Accepts(r.kind)
  /\ req' = [req EXCEPT ![o] = r]
  /\ rde' = IF r.kind = "create" THEN NewEntity("PRE_CREATED", "NONE", Absent) ELSE rde
  /\ Goto(o, "get")
  /\ UNCHANGED <<vapp, token, rule, mem, task, faults>>

-----------------------------------------------------------------------------
(***************************************************************************)
(* The handlers.                                                           *)
(***************************************************************************)
\* _cluster_exists
NameTaken == vapp # Absent

\* create_cluster: workers are required, the name must be free, the template
\* and the site of vCD known.
CheckCreate(o) ==
  /\ pc[o] = "get"
  /\ req[o].kind = "create"
  /\ \/ req[o].workers >= 1 /\ ~NameTaken /\ SetTask(o, "RUNNING") /\ Goto(o, "set")
     \/ UNCHANGED task /\ Goto(o, "abort")
  /\ UNCHANGED <<state, req, mem, faults>>

Idle == rde.status \notin {"NONE", "IN_PROGRESS"}

\* resize_cluster refuses to scale down and to do nothing.
Resizable(r) ==
  LET unexpose == rde.exposed /\ ~r.expose IN
  /\ r.workers >= rde.workers
  /\ unexpose \/ r.workers # rde.workers
  /\ rde.state = "RESOLVED" /\ Idle

\* update_cluster resizes when the workers or the exposure differ; otherwise it
\* refuses another template, or has nothing to do and ends in a success.
Updates(r) == r.workers # rde.workers \/ r.expose # rde.exposed

Allowed(o) ==
  CASE req[o].kind = "update" -> Resizable(req[o])
    [] req[o].kind = "delete" -> Idle
    [] OTHER -> TRUE

CheckEntity(o) ==
  /\ pc[o] = "get"
  /\ req[o].kind \notin {"create", "info"}
  /\ Exists
  /\ Read(o)
  /\ \/ /\ req[o].kind = "update" /\ ~Updates(req[o])
        /\ \E p \in {"error", "ok"} : Goto(o, p)
        /\ UNCHANGED task
     \/ /\ req[o].kind = "update" => Updates(req[o])
        /\ IF Allowed(o)
             THEN /\ SetTask(o, "RUNNING")
                  /\ Goto(o, IF req[o].kind = "forceDelete" THEN "rights" ELSE "set")
             ELSE UNCHANGED task /\ Goto(o, "error")
  /\ UNCHANGED <<state, req, faults>>

CheckRaises(o) ==
  /\ pc[o] = "get"
  /\ req[o].kind # "create"
  /\ CallFails
  /\ Goto(o, "error")
  /\ UNCHANGED <<state, req, mem, task>>

FirstPc == [create |-> "makeVapp", update |-> "monitor", deleteNodes |-> "del",
            delete |-> "deleteVapp"]

InProgress(o) == [Phase(PhaseOp(o), "IN_PROGRESS") EXCEPT !.task = o]
MarkBusy(o) ==
  /\ pc[o] = "set"
  /\ \/ /\ Put(o, InProgress(o), FirstPc[req[o].kind])
        /\ mem' = [mem EXCEPT ![o].child = req[o].kind = "deleteNodes"]
     \/ /\ PutRaises(o, InProgress(o), IF req[o].kind = "create" THEN "abort" ELSE "error")
        /\ UNCHANGED mem
  /\ UNCHANGED <<vapp, token, rule, req, task>>

\* The except block of create_cluster.
AbortCreate(o) ==
  /\ pc[o] = "abort"
  /\ IF req[o].rollback THEN Remove(o, "error", "error")
                        ELSE PutOrNot(o, Phase("CREATE", "FAILED"), "error")
  /\ UNCHANGED <<vapp, token, rule, req, mem, task>>

\* The entity with the nodes that the vApp has.
WithNodes(e) == [e EXCEPT !.workers = IF vapp = Absent THEN @ ELSE vapp.workers]

\* get_cluster_info: _sync_def_entity without changes.
Info(o) ==
  /\ pc[o] = "get"
  /\ req[o].kind = "info"
  /\ Exists
  /\ IF rde.linked /\ vapp # Absent
       THEN PutOrNot(o, WithNodes(rde), "ok")
       ELSE Goto(o, "ok") /\ UNCHANGED <<rde, faults>>
  /\ UNCHANGED <<vapp, token, rule, req, mem, task>>

-----------------------------------------------------------------------------
(***************************************************************************)
(* _create_cluster_async: a sequence of calls, what each of them raises,   *)
(* and which exceptions lead to a rollback.                                *)
(***************************************************************************)
NextCall == [makeVapp |-> "oauth", oauth |-> "controlPlane", controlPlane |-> "link",
             link |-> "workers", workers |-> "record", record |-> "ok"]

JoinRaises == {"ClusterJoiningError"}

\* create_vapp raises a ClusterOperationError, the wait for its task others.
Raises == [makeVapp     |-> {"ClusterOperationError", "other"},
           oauth        |-> {"other"},
           controlPlane |-> {"ControlPlaneNodeCreationError"} \cup JoinRaises,
           workers      |-> {"WorkerNodeCreationError"}]

Known == {"ControlPlaneNodeCreationError", "WorkerNodeCreationError",
          "ClusterJoiningError", "ClusterInitializationError", "ClusterOperationError"}

MakeVapp(o) ==
  /\ pc[o] = "makeVapp"
  /\ vapp = Absent
  /\ vapp' = NewVapp
  /\ Goto(o, NextCall[pc[o]])
  /\ UNCHANGED <<rde, token, rule, req, mem, task, faults>>

\* register_oauth_client, create_refresh_token
CreateToken(o) ==
  /\ pc[o] = "oauth"
  /\ token' = TRUE
  /\ mem' = [mem EXCEPT ![o].tok = TRUE]
  /\ Goto(o, NextCall[pc[o]])
  /\ UNCHANGED <<rde, vapp, rule, req, task, faults>>

\* _add_control_plane_nodes, which also exposes the cluster.
AddControlPlane(o) ==
  /\ pc[o] = "controlPlane"
  /\ vapp # Absent
  /\ rule' = (rule \/ req[o].expose)
  /\ Goto(o, NextCall[pc[o]])
  /\ UNCHANGED <<rde, vapp, token, req, mem, task, faults>>

Link(o) == [rde EXCEPT !.linked = TRUE]
LinkVapp(o) ==
  /\ pc[o] = "link"
  /\ Put(o, Link(o), NextCall[pc[o]]) \/ PutRaises(o, Link(o), "fail")
  /\ UNCHANGED <<vapp, token, rule, req, mem, task>>

AddWorkers(o) ==
  /\ pc[o] = "workers"
  /\ vapp # Absent
  /\ vapp' = MoreWorkers(req[o].workers)
  /\ Goto(o, NextCall[pc[o]])
  /\ UNCHANGED <<rde, token, rule, req, mem, task, faults>>

\* What is there after a call that raised.
Partly(o) ==
  /\ vapp' \in CASE pc[o] = "makeVapp" /\ vapp = Absent -> {Absent, NewVapp}
                 [] pc[o] = "workers" /\ vapp # Absent ->
                      {vapp, MoreWorkers(req[o].workers)}
                 [] OTHER -> {vapp}
  /\ token' \in IF pc[o] = "oauth" THEN {token, TRUE} ELSE {token}
  /\ rule' \in IF pc[o] = "controlPlane" THEN {rule, rule \/ req[o].expose} ELSE {rule}

CallRaises(o) ==
  /\ pc[o] \in DOMAIN Raises
  /\ \E e \in Raises[pc[o]] :
       /\ mem' = [mem EXCEPT ![o].undo = e \in Known /\ req[o].rollback]
       /\ e = "ClusterOperationError" => UNCHANGED vapp
  /\ Partly(o)
  /\ Goto(o, "fail")
  /\ UNCHANGED <<rde, req, task, faults>>

\* The nodes of the vApp, its link and, if it got an address, its exposure.
Created(o) ==
  [WithNodes(Phase("CREATE", "SUCCEEDED")) EXCEPT
     !.linked = TRUE, !.exposed = req[o].expose]
Record(o) ==
  /\ pc[o] = "record"
  /\ Put(o, Created(o), "ok") \/ PutRaises(o, Created(o), "fail")
  /\ UNCHANGED <<vapp, token, rule, req, mem, task>>

-----------------------------------------------------------------------------
(***************************************************************************)
(* _monitor_resize, _create_nodes_async, _monitor_delete_nodes,            *)
(* _delete_nodes_async.                                                    *)
(***************************************************************************)
\* The monitor compares the request with what the entity says now.
Monitor(o) ==
  /\ pc[o] = "monitor"
  /\ Exists
  /\ Read(o)
  /\ Goto(o, CASE req[o].workers > rde.workers -> "add"
               [] req[o].workers < rde.workers -> "del"
               [] OTHER -> "unexpose")
  /\ UNCHANGED <<state, req, task, faults>>

MonitorRaises(o) ==
  /\ pc[o] = "monitor"
  /\ CallFails
  /\ Goto(o, "fail")
  /\ UNCHANGED <<state, req, mem, task>>

AfterChild(o) == IF req[o].kind = "update" THEN "unexpose" ELSE "finish"

\* _create_nodes_async counts the nodes to add from what it reads.
Add(o) ==
  /\ pc[o] = "add"
  /\ Exists /\ rde.linked /\ vapp # Absent
  /\ vapp' = IF req[o].workers > rde.workers
               THEN MoreWorkers(req[o].workers - rde.workers) ELSE vapp
  /\ Goto(o, "unexpose")
  /\ UNCHANGED <<rde, token, rule, req, mem, task, faults>>

\* Nodes that failed may stay, rolled back or not.
AddRaises(o) ==
  /\ pc[o] = "add"
  /\ vapp' \in IF Exists /\ rde.linked /\ vapp # Absent
                 THEN {vapp, MoreWorkers(1)} ELSE {vapp}
  /\ mem' = [mem EXCEPT ![o].child = TRUE]
  /\ Goto(o, "fail")
  /\ UNCHANGED <<rde, token, rule, req, task, faults>>

\* A node by name, or those beyond the number wanted.
Surplus(o) ==
  IF req[o].kind = "deleteNodes" THEN 1
  ELSE IF rde.workers > req[o].workers THEN rde.workers - req[o].workers ELSE 0

Del(o) ==
  /\ pc[o] = "del"
  /\ Exists /\ rde.linked /\ vapp # Absent
  /\ vapp.workers >= Surplus(o)
  /\ vapp' = MoreWorkers(-Surplus(o))
  /\ Goto(o, AfterChild(o))
  /\ UNCHANGED <<rde, token, rule, req, mem, task, faults>>

\* An error in its try block; before it, the child dies and says nothing.
DelRaises(o) ==
  /\ pc[o] = "del"
  /\ \/ /\ Exists /\ rde.linked
        /\ mem' = [mem EXCEPT ![o].child = TRUE]
        /\ Goto(o, "fail") /\ UNCHANGED faults
     \/ /\ CallFails \/ (Exists /\ ~rde.linked /\ UNCHANGED faults)
        /\ Goto(o, AfterChild(o)) /\ UNCHANGED mem
  /\ UNCHANGED <<state, req, task>>

\* The exposure ends: the kubeconfig gets the internal address, then the rule goes.
Unexposes(o) == mem[o].exposed /\ ~req[o].expose

Unexpose(o) ==
  /\ pc[o] = "unexpose"
  /\ rule' = (rule /\ ~Unexposes(o))
  /\ Goto(o, "finish")
  /\ UNCHANGED <<rde, vapp, token, req, mem, task, faults>>

UnexposeRaises(o) ==
  /\ pc[o] = "unexpose"
  /\ Unexposes(o)
  /\ \/ UNCHANGED <<rule, faults>>
     \/ rule' = FALSE /\ Fault
  /\ mem' = [mem EXCEPT ![o].child = FALSE]
  /\ Goto(o, "fail")
  /\ UNCHANGED <<rde, vapp, token, req, task>>

\* Variant: the exposure is recorded only by a resize that added its nodes.
FinishedKeepExposed(o) ==
  [WithNodes(Phase("UPDATE", IF mem[o].error THEN "FAILED" ELSE "SUCCEEDED")) EXCEPT
     !.exposed = @ /\ (mem[o].error \/ ~Unexposes(o))]

\* _sync_def_entity(changes): nothing at all is written without an externalId.
Finished(o) ==
  [WithNodes(Phase("UPDATE", IF mem[o].error THEN "FAILED" ELSE "SUCCEEDED")) EXCEPT
     !.exposed = @ /\ ~Unexposes(o)]

AfterFinish(o) == IF mem[o].error THEN "done" ELSE "ok"

Finish(o) ==
  /\ pc[o] = "finish"
  /\ \/ Exists /\ ~rde.linked /\ Goto(o, AfterFinish(o)) /\ UNCHANGED <<rde, faults, mem>>
     \/ Exists /\ rde.linked /\ Put(o, Finished(o), AfterFinish(o)) /\ UNCHANGED mem
     \/ /\ PutRaises(o, Finished(o), "fail")
        /\ mem' = [mem EXCEPT ![o].child = FALSE]
  /\ UNCHANGED <<vapp, token, rule, req, task>>

-----------------------------------------------------------------------------
(***************************************************************************)
(* _delete_cluster_async and _force_delete_cluster_async.                  *)
(***************************************************************************)
\* The handler's copy of the RDE decides.  The errors of the token service and
\* of the gateway are swallowed.
DeleteVapp(o) ==
  /\ pc[o] = "deleteVapp"
  /\ IF mem[o].linked
       THEN vapp # Absent /\ vapp' = Absent /\ Goto(o, "revoke")
       ELSE UNCHANGED vapp /\ Goto(o, "ok")
  /\ UNCHANGED <<rde, token, rule, req, mem, task, faults>>

DeleteVappRaises(o) ==
  /\ pc[o] = "deleteVapp"
  /\ mem[o].linked
  /\ Goto(o, "fail")
  /\ UNCHANGED <<state, req, mem, task, faults>>

\* Variant: the rule is not deleted with the cluster.
RevokeAlone(o) ==
  /\ pc[o] = "revoke"
  /\ token' = FALSE
  /\ Goto(o, "ok")
  /\ UNCHANGED <<rde, vapp, rule, req, mem, task, faults>>

\* _delete_refresh_token
Revoke(o) ==
  /\ pc[o] = "revoke"
  /\ \/ token' = FALSE /\ UNCHANGED faults
     \/ UNCHANGED token /\ Fault
  /\ Goto(o, IF mem[o].exposed THEN "deleteRule" ELSE "ok")
  /\ UNCHANGED <<rde, vapp, rule, req, mem, task>>

\* handle_delete_expose_dnat_rule, in a delete, a forced one and a rollback.
AfterRule(o) == CASE req[o].kind = "create" -> "undo"
                  [] req[o].kind = "forceDelete" -> "forget"
                  [] OTHER -> "ok"
DeleteRule(o) ==
  /\ pc[o] = "deleteRule"
  /\ \/ rule' = FALSE /\ UNCHANGED faults
     \/ UNCHANGED rule /\ Fault
  /\ Goto(o, AfterRule(o))
  /\ UNCHANGED <<rde, vapp, token, req, mem, task>>

\* Without the rights and the ACL a forced delete ends here.  It goes on when
\* the vApp cannot be deleted, and it does not know of the token.
Purge(o) ==
  /\ pc[o] = "rights"
  /\ \/ vapp' \in {vapp, Absent} /\ Goto(o, "deleteRule")
     \/ UNCHANGED vapp /\ Goto(o, "err")
  /\ UNCHANGED <<rde, token, rule, req, mem, task, faults>>

Forget(o) ==
  /\ pc[o] = "forget"
  /\ Remove(o, "ok", "err")
  /\ UNCHANGED <<vapp, token, rule, req, mem, task>>

-----------------------------------------------------------------------------
(***************************************************************************)
(* The except blocks.                                                      *)
(***************************************************************************)
\* A create first revokes its token, if it knows of one; then _fail_operation.
Revokes(o) == req[o].kind = "create" /\ mem[o].tok
RevokeFailed(o) ==
  /\ pc[o] = "fail"
  /\ Revokes(o)
  /\ mem' = [mem EXCEPT ![o].tok = FALSE]
  /\ \/ token' = FALSE /\ UNCHANGED faults
     \/ UNCHANGED token /\ Fault
  /\ UNCHANGED <<rde, vapp, rule, req, pc, task>>

AfterFail(o) == CASE mem[o].undo -> "rollback"
                  [] req[o].kind = "delete" -> "err"
                  [] OTHER -> "sync"
Fail(o) ==
  /\ pc[o] = "fail"
  /\ ~Revokes(o)
  /\ PutOrNot(o, Phase(PhaseOp(o), "FAILED"), AfterFail(o))
  /\ UNCHANGED <<vapp, token, rule, req, mem, task>>

\* Variant: the rollback leaves the gateway alone.
AfterRollbackNoRule(o) == "undo"
AfterRollback(o) == IF req[o].expose THEN "deleteRule" ELSE "undo"
Rollback(o) ==
  /\ pc[o] = "rollback"
  /\ \/ vapp' = Absent /\ UNCHANGED faults
     \/ UNCHANGED vapp /\ Fault
  /\ Goto(o, AfterRollback(o))
  /\ UNCHANGED <<rde, token, rule, req, mem, task>>

Undo(o) ==
  /\ pc[o] = "undo"
  /\ Remove(o, "err", "err")
  /\ UNCHANGED <<vapp, token, rule, req, mem, task>>

\* _sync_def_entity: the nodes of the vApp, if the thread has one or it is linked.
Sync(o) ==
  /\ pc[o] = "sync"
  /\ IF Exists /\ vapp # Absent /\ (rde.linked \/ req[o].kind = "create")
       THEN PutOrNot(o, WithNodes(rde), "err")
       ELSE Goto(o, "err") /\ UNCHANGED <<rde, faults>>
  /\ UNCHANGED <<vapp, token, rule, req, mem, task>>

-----------------------------------------------------------------------------
(***************************************************************************)
(* The end of the task, and what vCD does to the RDE then.                 *)
(***************************************************************************)
Ends(o, status) ==
  /\ SetTask(o, status)
  /\ rde' \in CASE req[o].kind = "create" /\ Exists ->
                     {[rde EXCEPT !.state = s] :
                        s \in IF status = "SUCCESS" THEN {"RESOLVED"}
                              ELSE {"RESOLVED", "RESOLUTION_ERROR"}}
                [] req[o].kind = "delete" /\ status = "SUCCESS" -> {Absent}
                [] OTHER -> {rde}

\* A handler that raises is answered by process_behavior_request.
AnswerError(o) ==
  /\ pc[o] = "error"
  /\ Ends(o, "ERROR")
  /\ Goto(o, "done")
  /\ UNCHANGED <<vapp, token, rule, req, mem, faults>>

Err(o) ==
  /\ pc[o] = "err"
  /\ Ends(o, "ERROR")
  /\ mem' = [mem EXCEPT ![o].error = TRUE, ![o].child = FALSE]
  /\ Goto(o, IF mem[o].child THEN AfterChild(o) ELSE "done")
  /\ UNCHANGED <<vapp, token, rule, req, faults>>

Ok(o) ==
  /\ pc[o] = "ok"
  /\ Ends(o, "SUCCESS")
  /\ Goto(o, "done")
  /\ UNCHANGED <<vapp, token, rule, req, mem, faults>>

-----------------------------------------------------------------------------
Step(o) ==
  \/ CheckCreate(o) \/ CheckEntity(o) \/ CheckRaises(o) \/ MarkBusy(o) \/ AbortCreate(o)
  \/ Info(o) \/ MakeVapp(o) \/ CreateToken(o) \/ AddControlPlane(o) \/ LinkVapp(o)
  \/ AddWorkers(o) \/ CallRaises(o) \/ Record(o)
  \/ Monitor(o) \/ MonitorRaises(o) \/ Add(o) \/ AddRaises(o) \/ Del(o) \/ DelRaises(o)
  \/ Unexpose(o) \/ UnexposeRaises(o) \/ Finish(o)
  \/ DeleteVapp(o) \/ DeleteVappRaises(o) \/ Revoke(o) \/ DeleteRule(o) \/ Purge(o) \/ Forget(o)
  \/ RevokeFailed(o) \/ Fail(o) \/ Rollback(o) \/ Undo(o) \/ Sync(o)
  \/ AnswerError(o) \/ Err(o) \/ Ok(o)

Next == \E o \in Ops : Step(o) \/ \E r \in Requests : Begin(o, r)

Spec == Init /\ [][Next]_vars

-----------------------------------------------------------------------------
TypeOK == TypeOKWith(Requests)

\* A create that was rolled back, no call failing meanwhile, leaves no entity,
\* no vApp, no refresh token and no DNAT rule.
RollbackIsComplete ==
  \A o \in Ops : mem[o].undo /\ pc[o] = "done" /\ faults = 0 =>
    ~Exists /\ vapp = Absent /\ ~token /\ ~rule

\* An entity that says its cluster is exposed has the DNAT rule once no request
\* is at work and no call failed.  Not the other way round: a create that fails
\* after it exposed the cluster, and is not rolled back, leaves the rule alone.
ExposedHasRule == Settled /\ faults = 0 /\ Exists /\ rde.exposed => rule

\* A deletion that ends in SUCCESS, no call failing, leaves neither vApp nor
\* token nor rule of a cluster that was linked to its vApp.
DeleteIsComplete ==
  \A o \in Ops : task[o] = "SUCCESS" /\ req[o].kind = "delete" /\ mem[o].linked /\ faults = 0
    => vapp = Absent /\ ~token /\ (mem[o].exposed => ~rule)
=============================================================================
