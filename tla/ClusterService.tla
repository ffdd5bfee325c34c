---------------------------- MODULE ClusterService ----------------------------
(***************************************************************************)
(* The life cycle of native clusters, as ClusterService of                 *)
(* rde/backend/cluster_service_2_x.py runs it.  A request is handled in    *)
(* two parts: a handler, on one of the PoolSize threads of the message     *)
(* consumer, checks the defined entity (RDE) of the cluster and marks it   *)
(* busy; a daemon thread then does the work, records the result in the RDE *)
(* and ends the task that vCD shows to the user.                           *)
(*                                                                         *)
(* A step is one call out of the server (an RDE read or write, an          *)
(* operation on the vApp, a task message) with the decision that follows   *)
(* it: between two calls every other thread may run.  update_entity is one *)
(* step here because EntityUpdate implements EntityStore; a call that      *)
(* raises may have been applied, as there.                                 *)
(*                                                                         *)
(* vCD is external: it creates the RDE before it invokes the create        *)
(* behavior, resolves it when that task ends, removes it when a delete     *)
(* task succeeds, keeps the first terminal status of a task, and refuses a *)
(* second vApp of a name.  Nodes are counted, not named; software versions *)
(* and the exposure of clusters are left out.                              *)
(***************************************************************************)
EXTENDS Integers, FiniteSets

CONSTANTS
  Ops,         \* requests, each with a vCD task of its own
  Clusters,    \* ids of defined entities
  Names,       \* vApp names in the virtual data center
  NameOf,      \* the name of each cluster: names may repeat, ids do not
  Existing,    \* clusters already deployed in the initial state
  Kinds,       \* the operations users request
  MaxNodes,    \* bound on the node counts users request
  PoolSize,    \* service.processors: handlers that run at the same time
  MaxFaults,   \* bound on the calls to vCD's entity API that fail
  MaxCrashes,  \* bound on the crashes of the server
  Absent       \* no entity, no vApp

AllKinds == {"create", "resize", "upgrade", "deleteNfs", "delete",
             "forceDelete", "info"}
Nodes  == [workers : 0..MaxNodes, nfs : 0..MaxNodes]
Counts == [workers : Nat, nfs : Nat]
NoNodes == [workers |-> 0, nfs |-> 0]

States   == {"PRE_CREATED", "RESOLVED", "RESOLUTION_ERROR"}
PhaseOps == {"NONE", "CREATE", "UPDATE", "UPGRADE", "DELETE"}
Statuses == {"NONE", "IN_PROGRESS", "SUCCEEDED", "FAILED"}
TaskStatuses == {"NONE", "RUNNING", "SUCCESS", "ERROR"}

\* status.phase is op:status, status.task_href is task, linked says whether
\* externalId holds the vApp.
Entities == [state : States, op : PhaseOps, status : Statuses,
             task : Ops \cup {Absent}, linked : BOOLEAN, nodes : Counts]
Vapps    == [cluster : Clusters, nodes : Counts]

ASSUME ClusterAssumption ==
  /\ NameOf \in [Clusters -> Names]
  /\ Existing \subseteq Clusters
  /\ \A k, l \in Existing : NameOf[k] = NameOf[l] => k = l
  /\ Kinds \subseteq AllKinds
  /\ {MaxNodes, PoolSize, MaxFaults, MaxCrashes} \subseteq Nat
  /\ Absent \notin Ops \cup Entities \cup Vapps

VARIABLES
  rde,         \* the defined entity of each cluster, or Absent
  vapp,        \* the vApp of each name, or Absent
  req,         \* what each operation was asked for
  pc,          \* where its threads are
  child,       \* is it in a child thread of a monitor thread?
  todo,        \* children its monitor thread still has to run
  undo,        \* is its create being rolled back?
  seen,        \* what it keeps of its last read of the RDE or of the vApp
  taskStatus,  \* self.task_status, the last status it published
  task,        \* the status of its task in vCD
  wrote,       \* history: the last phase status it stored, or "LOST"
  failed,      \* history: some of its work on the vApp failed
  faults, crashes

memory == <<child, todo, undo, seen, taskStatus>>
history == <<wrote, failed>>
vars == <<rde, vapp, req, pc, memory, task, history, faults, crashes>>

HandlerPcs == {"get", "set", "reject", "abort", "error", "read", "store"}
CreatePcs  == {"makeVapp", "deploy", "record"}
UpdatePcs  == {"monitor", "add", "grow", "del", "shrink", "fin", "finish"}
OtherPcs   == {"upgrade", "recordUpgrade", "deleteVapp", "purge", "forget"}
CleanupPcs == {"fail", "sync", "write", "rollback", "undo", "err", "ok"}
Pcs == HandlerPcs \cup CreatePcs \cup UpdatePcs \cup OtherPcs \cup CleanupPcs
         \cup {"idle", "done", "dead"}

-----------------------------------------------------------------------------
Cluster(o) == req[o].cluster
Name(o)    == NameOf[Cluster(o)]
Rde(o)     == rde[Cluster(o)]
Exists(k)  == rde[k] # Absent
Busy(k)    == Exists(k) /\ rde[k].status = "IN_PROGRESS"
OwnVapp(k) == vapp[NameOf[k]] # Absent /\ vapp[NameOf[k]].cluster = k

PhaseOp(o) == CASE req[o].kind = "create" -> "CREATE"
                [] req[o].kind = "upgrade" -> "UPGRADE"
                [] req[o].kind = "delete" -> "DELETE"
                [] OTHER -> "UPDATE"

Goto(o, p) == pc' = [pc EXCEPT ![o] = p]

\* _update_cluster_entity: the RDE becomes e, or the call raises: the RDE is
\* gone, or the call fails and e may have been stored all the same.
Put(k, e) ==
  /\ Exists(k)
  /\ rde' = [rde EXCEPT ![k] = e]
  /\ UNCHANGED faults
PutFails(k, e) ==
  \/ ~Exists(k) /\ UNCHANGED <<rde, faults>>
  \/ /\ Exists(k)
     /\ faults < MaxFaults
     /\ faults' = faults + 1
     /\ rde' \in {rde, [rde EXCEPT ![k] = e]}

\* The same for a write of the phase.
PutPhase(o, e) ==
  /\ Put(Cluster(o), e)
  /\ wrote' = [wrote EXCEPT ![o] = e.status]
PutPhaseFails(o, e) ==
  /\ PutFails(Cluster(o), e)
  /\ wrote' = [wrote EXCEPT ![o] = "LOST"]

\* The RDE of an operation with another phase status.
Phase(o, status) == [Rde(o) EXCEPT !.op = PhaseOp(o), !.status = status]

\* A read, or a call that changes nothing, raises: the RDE is gone or vCD fails.
CallFails(o) ==
  \/ ~Exists(Cluster(o)) /\ UNCHANGED faults
  \/ faults < MaxFaults /\ faults' = faults + 1

\* vCD's side of a task update: the end of a create resolves the RDE, the
\* success of a delete removes it, and the first terminal status stays.
SetTask(o, status) ==
  task' = [task EXCEPT ![o] = IF @ \in {"SUCCESS", "ERROR"} THEN @ ELSE status]

Resolved(status) ==
  IF status = "SUCCESS" THEN {"RESOLVED"} ELSE {"RESOLVED", "RESOLUTION_ERROR"}

EndTask(o, status) ==
  /\ SetTask(o, status)
  /\ IF Exists(Cluster(o)) /\ req[o].kind = "create"
       THEN \E s \in Resolved(status) : rde' = [rde EXCEPT ![Cluster(o)].state = s]
       ELSE IF req[o].kind = "delete" /\ status = "SUCCESS"
              THEN rde' = [rde EXCEPT ![Cluster(o)] = Absent]
              ELSE UNCHANGED rde

\* _update_task(RUNNING)
Running(o) ==
  /\ taskStatus' = [taskStatus EXCEPT ![o] = "RUNNING"]
  /\ SetTask(o, "RUNNING")

-----------------------------------------------------------------------------
Init ==
  /\ \E n \in [Existing -> Nodes] :
       /\ rde = [k \in Clusters |->
                   IF k \in Existing
                     THEN [state |-> "RESOLVED", op |-> "CREATE",
                           status |-> "SUCCEEDED", task |-> Absent,
                           linked |-> TRUE, nodes |-> n[k]]
                     ELSE Absent]
       /\ vapp = [m \in Names |->
                    IF \E k \in Existing : NameOf[k] = m
                      THEN LET k == CHOOSE k \in Existing : NameOf[k] = m
                           IN  [cluster |-> k, nodes |-> n[k]]
                      ELSE Absent]
  /\ req = [o \in Ops |-> Absent]
  /\ pc = [o \in Ops |-> "idle"]
  /\ child = [o \in Ops |-> FALSE]
  /\ todo = [o \in Ops |-> {}]
  /\ undo = [o \in Ops |-> FALSE]
  /\ seen = [o \in Ops |->
               [linked |-> FALSE, vapp |-> FALSE, nodes |-> NoNodes]]
  /\ taskStatus = [o \in Ops |-> "NONE"]
  /\ task = [o \in Ops |-> "NONE"]
  /\ wrote = [o \in Ops |-> "NONE"]
  /\ failed = [o \in Ops |-> FALSE]
  /\ faults = 0
  /\ crashes = 0

-----------------------------------------------------------------------------
(***************************************************************************)
(* The handlers.                                                           *)
(***************************************************************************)
\* What vCD lets a user ask for: a create comes with a new entity; an entity
\* is not deleted, nor its nodes, before it is resolved.
Accepts(kind, k) ==
  IF kind = "create"
    THEN k \notin Existing /\ \A p \in Ops : pc[p] # "idle" => Cluster(p) # k
    ELSE Exists(k) /\ (kind \in {"resize", "upgrade", "info"} \/ rde[k].state # "PRE_CREATED")

NewEntity == [state |-> "PRE_CREATED", op |-> "NONE", status |-> "NONE",
              task |-> Absent, linked |-> FALSE, nodes |-> NoNodes]

\* on_message hands a request to a free thread of the pool.
Begin(o, r) ==
  /\ pc[o] = "idle"
  /\ Cardinality({p \in Ops : pc[p] \in HandlerPcs}) < PoolSize
  /\ Accepts(r.kind, r.cluster)
  /\ req' = [req EXCEPT ![o] = r]
  /\ Goto(o, IF r.kind = "info" THEN "read" ELSE "get")
  /\ rde' = IF r.kind = "create" THEN [rde EXCEPT ![r.cluster] = NewEntity]
                                 ELSE rde
  /\ UNCHANGED <<vapp, memory, task, history, faults, crashes>>

Requests ==
  {r \in [kind : Kinds, cluster : Clusters, rollback : BOOLEAN, want : Nodes] :
     /\ r.kind \notin {"create", "resize"} => r.rollback /\ r.want = NoNodes}

\* create_cluster: the name must be free among the vApps, the template known.
CheckCreate(o) ==
  /\ pc[o] = "get"
  /\ req[o].kind = "create"
  /\ \/ vapp[Name(o)] = Absent /\ Goto(o, "set") /\ Running(o)
     \/ Goto(o, "abort") /\ UNCHANGED <<taskStatus, task>>
  /\ UNCHANGED <<rde, vapp, req, child, todo, undo, seen, history, faults, crashes>>

\* Variant: nobody refuses a busy cluster.
IdleIfSet(e) == e.status # "NONE"

\* DefEntityPhase.from_phase fails on a phase that was never set.
Idle(e) == e.status \notin {"NONE", "IN_PROGRESS"}

Allowed(o) ==
  LET e == Rde(o) IN
  /\ req[o].kind = "resize" => req[o].want.nfs >= e.nodes.nfs /\ req[o].want # e.nodes
  /\ req[o].kind \in {"resize", "upgrade"} => e.state = "RESOLVED"
  /\ req[o].kind \in {"resize", "upgrade", "delete"} => Idle(e)

Saw(o, inVapp) ==
  seen' = [seen EXCEPT ![o] = [linked |-> Rde(o).linked, vapp |-> inVapp,
             nodes |-> IF inVapp THEN vapp[Name(o)].nodes ELSE Rde(o).nodes]]

\* The other handlers read the RDE and check it.  upgrade_cluster also refuses
\* a template that is no upgrade target, and marks the cluster failed.
CheckEntity(o) ==
  /\ pc[o] = "get"
  /\ req[o].kind # "create"
  /\ Exists(Cluster(o))
  /\ Allowed(o)
  /\ Saw(o, FALSE)
  /\ \/ Goto(o, IF req[o].kind = "forceDelete" THEN "purge" ELSE "set") /\ Running(o)
     \/ /\ req[o].kind = "upgrade"
        /\ Goto(o, "reject")
        /\ UNCHANGED <<taskStatus, task>>
  /\ UNCHANGED <<rde, vapp, req, child, todo, undo, history, faults, crashes>>

Refuse(o) ==
  /\ pc[o] = "get"
  /\ req[o].kind # "create"
  /\ \/ Exists(Cluster(o)) /\ ~Allowed(o) /\ UNCHANGED faults
     \/ CallFails(o)
  /\ Goto(o, "error")
  /\ UNCHANGED <<rde, vapp, req, memory, task, history, crashes>>

RejectTemplate(o) ==
  /\ pc[o] = "reject"
  /\ \/ PutPhase(o, Phase(o, "FAILED"))
     \/ PutPhaseFails(o, Phase(o, "FAILED"))
  /\ Goto(o, "error")
  /\ UNCHANGED <<vapp, req, memory, task, failed, crashes>>

\* The handler marks the cluster busy with its task and starts the thread.
FirstPc(o) == CASE req[o].kind = "create"  -> "makeVapp"
                [] req[o].kind = "resize"  -> "monitor"
                [] req[o].kind = "upgrade" -> "upgrade"
                [] req[o].kind = "delete"  -> "deleteVapp"
                [] OTHER -> "del"

\* Variant: the phase is set without the href of the task.
InProgressNoTask(o) == Phase(o, "IN_PROGRESS")

InProgress(o) == [Phase(o, "IN_PROGRESS") EXCEPT !.task = o]

MarkBusy(o) ==
  /\ pc[o] = "set"
  /\ PutPhase(o, InProgress(o))
  /\ Goto(o, FirstPc(o))
  /\ child' = [child EXCEPT ![o] = FirstPc(o) = "del"]
  /\ UNCHANGED <<vapp, req, todo, undo, seen, taskStatus, task, failed, crashes>>

MarkBusyFails(o) ==
  /\ pc[o] = "set"
  /\ PutPhaseFails(o, InProgress(o))
  /\ Goto(o, IF req[o].kind = "create" THEN "abort" ELSE "error")
  /\ UNCHANGED <<vapp, req, memory, task, failed, crashes>>

\* resolve_entity and delete_entity
RemoveEntity(o) ==
  \/ Exists(Cluster(o)) /\ rde' = [rde EXCEPT ![Cluster(o)] = Absent] /\ UNCHANGED faults
  \/ CallFails(o) /\ UNCHANGED rde

AbortCreate(o) ==
  /\ pc[o] = "abort"
  /\ IF req[o].rollback
       THEN RemoveEntity(o) /\ UNCHANGED wrote
       ELSE PutPhase(o, Phase(o, "FAILED")) \/ PutPhaseFails(o, Phase(o, "FAILED"))
  /\ Goto(o, "error")
  /\ UNCHANGED <<vapp, req, memory, task, failed, crashes>>

\* The handler raises: process_behavior_request answers with an error.
AnswerError(o) ==
  /\ pc[o] = "error"
  /\ EndTask(o, "ERROR")
  /\ Goto(o, "done")
  /\ UNCHANGED <<vapp, req, memory, history, faults, crashes>>

\* get_cluster_info, _sync_def_entity without changes: the nodes of the vApp
\* are read, then written.
ReadInfo(o) ==
  /\ pc[o] = "read"
  /\ Exists(Cluster(o))
  /\ Rde(o).linked /\ OwnVapp(Cluster(o))
  /\ Saw(o, TRUE)
  /\ Goto(o, "store")
  /\ UNCHANGED <<rde, vapp, req, child, todo, undo, taskStatus, task, history,
                 faults, crashes>>

ReadNothing(o) ==
  /\ pc[o] = "read"
  /\ \/ Exists(Cluster(o)) /\ ~(Rde(o).linked /\ OwnVapp(Cluster(o))) /\ UNCHANGED faults
     \/ CallFails(o)
  /\ Goto(o, "done")
  /\ UNCHANGED <<rde, vapp, req, memory, task, history, crashes>>

SeenNodes(o) == [Rde(o) EXCEPT !.nodes = seen[o].nodes]

StoreInfo(o) ==
  /\ pc[o] = "store"
  /\ Put(Cluster(o), SeenNodes(o)) \/ PutFails(Cluster(o), SeenNodes(o))
  /\ Goto(o, "done")
  /\ UNCHANGED <<vapp, req, memory, task, history, crashes>>

-----------------------------------------------------------------------------
(***************************************************************************)
(* _create_cluster_async.                                                  *)
(***************************************************************************)
Fails(o) == failed' = [failed EXCEPT ![o] = TRUE]

MakeVapp(o) ==
  /\ pc[o] = "makeVapp"
  /\ vapp[Name(o)] = Absent
  /\ vapp' = [vapp EXCEPT ![Name(o)] = [cluster |-> Cluster(o), nodes |-> NoNodes]]
  /\ seen' = [seen EXCEPT ![o].vapp = TRUE]
  /\ Running(o)
  /\ Goto(o, "deploy")
  /\ UNCHANGED <<rde, req, child, todo, undo, history, faults, crashes>>

\* vCD refuses the vApp, its name being taken or not: a ClusterOperationError,
\* which is rolled back if the user asked for it.
MakeVappRefused(o) ==
  /\ pc[o] = "makeVapp"
  /\ undo' = [undo EXCEPT ![o] = req[o].rollback]
  /\ Fails(o)
  /\ Goto(o, "fail")
  /\ UNCHANGED <<rde, vapp, req, child, todo, seen, taskStatus, task, wrote,
                 faults, crashes>>

WithNodes(k, n) == [vapp EXCEPT ![NameOf[k]].nodes = n]

\* The control plane node, the worker and the NFS nodes join the cluster.
Deploy(o) ==
  /\ pc[o] = "deploy"
  /\ OwnVapp(Cluster(o))
  /\ vapp' = WithNodes(Cluster(o), req[o].want)
  /\ Goto(o, "record")
  /\ UNCHANGED <<rde, req, memory, task, history, faults, crashes>>

\* Some step of it fails, by an error of cluster operations or by another one:
\* only the former is rolled back.
DeployFails(o) ==
  /\ pc[o] = "deploy"
  /\ IF OwnVapp(Cluster(o))
       THEN \E w \in {0, req[o].want.workers}, f \in {0, req[o].want.nfs} :
              vapp' = WithNodes(Cluster(o), [workers |-> w, nfs |-> f])
       ELSE UNCHANGED vapp
  /\ \E rollback \in {req[o].rollback, FALSE} : undo' = [undo EXCEPT ![o] = rollback]
  /\ Fails(o)
  /\ Goto(o, "fail")
  /\ UNCHANGED <<rde, req, child, todo, seen, taskStatus, task, wrote, faults,
                 crashes>>

\* The result of the create: its phase, its vApp, its nodes.
Created(o) ==
  [Phase(o, "SUCCEEDED") EXCEPT
     !.linked = TRUE,
     !.nodes = IF OwnVapp(Cluster(o)) THEN vapp[Name(o)].nodes ELSE NoNodes]

Record(o) ==
  /\ pc[o] = "record"
  /\ PutPhase(o, Created(o))
  /\ Goto(o, "ok")
  /\ UNCHANGED <<vapp, req, memory, task, failed, crashes>>

RecordFails(o) ==
  /\ pc[o] = "record"
  /\ PutPhaseFails(o, Created(o))
  /\ Goto(o, "fail")
  /\ UNCHANGED <<vapp, req, memory, task, failed, crashes>>

-----------------------------------------------------------------------------
(***************************************************************************)
(* _upgrade_cluster_async, _delete_cluster_async, _force_delete_cluster_   *)
(* async.  vApps are used by href and deleted by name.                     *)
(***************************************************************************)
Upgrade(o) ==
  /\ pc[o] = "upgrade"
  /\ Exists(Cluster(o)) /\ Rde(o).linked /\ OwnVapp(Cluster(o))
  /\ seen' = [seen EXCEPT ![o].vapp = TRUE]
  /\ Running(o)
  /\ Goto(o, "recordUpgrade")
  /\ UNCHANGED <<rde, vapp, req, child, todo, undo, history, faults, crashes>>

UpgradeFails(o) ==
  /\ pc[o] = "upgrade"
  /\ Fails(o)
  /\ Goto(o, "fail")
  /\ UNCHANGED <<rde, vapp, req, memory, task, wrote, faults, crashes>>

RecordUpgrade(o) ==
  /\ pc[o] = "recordUpgrade"
  /\ PutPhase(o, Phase(o, "SUCCEEDED"))
  /\ Goto(o, "ok")
  /\ UNCHANGED <<vapp, req, memory, task, failed, crashes>>

RecordUpgradeFails(o) ==
  /\ pc[o] = "recordUpgrade"
  /\ PutPhaseFails(o, Phase(o, "SUCCEEDED"))
  /\ Goto(o, "fail")
  /\ UNCHANGED <<vapp, req, memory, task, failed, crashes>>

\* What the handler read decides whether there is a vApp to delete.
DeleteVapp(o) ==
  /\ pc[o] = "deleteVapp"
  /\ IF seen[o].linked
       THEN vapp[Name(o)] # Absent /\ vapp' = [vapp EXCEPT ![Name(o)] = Absent]
       ELSE UNCHANGED vapp
  /\ Goto(o, "ok")
  /\ UNCHANGED <<rde, req, memory, task, history, faults, crashes>>

\* Variant: the error of delete_vapp is swallowed.
DeleteVappFailsSilently(o) ==
  /\ pc[o] = "deleteVapp"
  /\ seen[o].linked
  /\ Goto(o, "ok")
  /\ UNCHANGED <<rde, vapp, req, memory, task, history, faults, crashes>>

DeleteVappFails(o) ==
  /\ pc[o] = "deleteVapp"
  /\ seen[o].linked
  /\ Fails(o)
  /\ Goto(o, "fail")
  /\ UNCHANGED <<rde, vapp, req, memory, task, wrote, faults, crashes>>

\* A forced delete needs rights; it goes on when the vApp cannot be deleted.
Purge(o) ==
  /\ pc[o] = "purge"
  /\ vapp' \in {vapp, [vapp EXCEPT ![Name(o)] = Absent]}
  /\ Goto(o, "forget")
  /\ UNCHANGED <<rde, req, memory, task, history, faults, crashes>>

PurgeRefused(o) ==
  /\ pc[o] = "purge"
  /\ Fails(o)
  /\ Goto(o, "err")
  /\ UNCHANGED <<rde, vapp, req, memory, task, wrote, faults, crashes>>

Forget(o) ==
  /\ pc[o] = "forget"
  /\ Exists(Cluster(o))
  /\ rde' = [rde EXCEPT ![Cluster(o)] = Absent]
  /\ Goto(o, "ok")
  /\ UNCHANGED <<vapp, req, memory, task, history, faults, crashes>>

ForgetFails(o) ==
  /\ pc[o] = "forget"
  /\ CallFails(o)
  /\ Goto(o, "err")
  /\ UNCHANGED <<rde, vapp, req, memory, task, history, crashes>>

-----------------------------------------------------------------------------
(***************************************************************************)
(* _monitor_resize and _monitor_delete_nodes: the monitor runs its         *)
(* children one after the other and joins them, so that one pc follows the *)
(* thread that is active.  A child reports an error through task_status;   *)
(* one that dies of an exception reports nothing.                          *)
(***************************************************************************)
Surplus(have, want) == IF have > want THEN have - want ELSE 0

\* What a monitor does next, with these children left.
NextPc(left) ==
  IF "add" \in left THEN "add" ELSE IF "del" \in left THEN "del" ELSE "fin"

Continue(o, left) ==
  /\ Goto(o, NextPc(left))
  /\ child' = [child EXCEPT ![o] = left # {}]
  /\ todo' = [todo EXCEPT ![o] = left \ {NextPc(left)}]

Monitor(o) ==
  /\ pc[o] = "monitor"
  /\ Exists(Cluster(o))
  /\ LET have == Rde(o).nodes
         want == req[o].want
     IN  Continue(o, {c \in {"add", "del"} :
           IF c = "add" THEN want.workers > have.workers \/ want.nfs > have.nfs
                        ELSE want.workers < have.workers})
  /\ UNCHANGED <<rde, vapp, req, undo, seen, taskStatus, task, history, faults,
                 crashes>>

MonitorFails(o) ==
  /\ pc[o] = "monitor"
  /\ CallFails(o)
  /\ Goto(o, "fail")
  /\ UNCHANGED <<rde, vapp, req, memory, task, history, crashes>>

\* _create_nodes_async
Add(o) ==
  /\ pc[o] = "add"
  /\ Exists(Cluster(o)) /\ Rde(o).linked
  /\ Saw(o, FALSE)
  /\ Running(o)
  /\ Goto(o, "grow")
  /\ UNCHANGED <<rde, vapp, req, child, todo, undo, history, faults, crashes>>

AddFails(o) ==
  /\ pc[o] = "add"
  /\ \/ Exists(Cluster(o)) /\ ~Rde(o).linked /\ UNCHANGED faults
     \/ CallFails(o)
  /\ Fails(o)
  /\ Goto(o, "fail")
  /\ UNCHANGED <<rde, vapp, req, memory, task, wrote, crashes>>

\* The new nodes, counted from what the child read.
MoreWorkers(o) == Surplus(req[o].want.workers, seen[o].nodes.workers)
MoreNfs(o)     == Surplus(req[o].want.nfs, seen[o].nodes.nfs)

AddNodes(o, workers, nfs) ==
  LET n == vapp[Name(o)].nodes IN
  vapp' = WithNodes(Cluster(o),
            [workers |-> n.workers + workers, nfs |-> n.nfs + nfs])

Grow(o) ==
  /\ pc[o] = "grow"
  /\ OwnVapp(Cluster(o))
  /\ AddNodes(o, MoreWorkers(o), MoreNfs(o))
  /\ Running(o)
  /\ Continue(o, todo[o])
  /\ UNCHANGED <<rde, req, undo, seen, history, faults, crashes>>

\* Nodes may stay behind, even after the rollback of those that failed.
GrowPartly(o) ==
  IF OwnVapp(Cluster(o))
    THEN \E w \in {0, MoreWorkers(o)}, f \in {0, MoreNfs(o)} : AddNodes(o, w, f)
    ELSE UNCHANGED vapp

GrowFails(o) ==
  /\ pc[o] = "grow"
  /\ GrowPartly(o)
  /\ Fails(o)
  /\ Goto(o, "fail")
  /\ UNCHANGED <<rde, req, memory, task, wrote, faults, crashes>>

\* With rollback_on_failure the except block reads err.node_names, which a
\* ClusterJoiningError does not have: the child dies there.
JoinFails(o) ==
  /\ pc[o] = "grow"
  /\ req[o].rollback
  /\ OwnVapp(Cluster(o))
  /\ MoreWorkers(o) > 0
  /\ AddNodes(o, MoreWorkers(o), 0)
  /\ Fails(o)
  /\ Running(o)
  /\ Continue(o, todo[o])
  /\ UNCHANGED <<rde, req, undo, seen, wrote, faults, crashes>>

\* _delete_nodes_async: what precedes its try block, a read and the vApp of the
\* externalId, kills the child when it raises.
Del(o) ==
  /\ pc[o] = "del"
  /\ Exists(Cluster(o)) /\ Rde(o).linked
  /\ seen' = [seen EXCEPT ![o] =
       [linked |-> TRUE, vapp |-> TRUE, nodes |-> Rde(o).nodes]]
  /\ Running(o)
  /\ Goto(o, "shrink")
  /\ UNCHANGED <<rde, vapp, req, child, todo, undo, history, faults, crashes>>

DelDies(o) ==
  /\ pc[o] = "del"
  /\ \/ Exists(Cluster(o)) /\ ~Rde(o).linked /\ UNCHANGED faults
     \/ CallFails(o)
  /\ Fails(o)
  /\ Continue(o, todo[o])
  /\ UNCHANGED <<rde, vapp, req, undo, seen, taskStatus, task, wrote, crashes>>

LessWorkers(o) ==
  IF req[o].kind = "resize" THEN Surplus(seen[o].nodes.workers, req[o].want.workers) ELSE 0
LessNfs(o) == IF req[o].kind = "deleteNfs" THEN 1 ELSE 0

\* Variant: nodes are deleted that the vApp no longer has.
RemoveNodesUnchecked(o) ==
  LET n == vapp[Name(o)].nodes IN
  /\ OwnVapp(Cluster(o))
  /\ vapp' = WithNodes(Cluster(o),
       [workers |-> n.workers - LessWorkers(o), nfs |-> n.nfs - LessNfs(o)])

RemoveNodes(o) ==
  LET n == vapp[Name(o)].nodes IN
  /\ OwnVapp(Cluster(o))
  /\ n.workers >= LessWorkers(o) /\ n.nfs >= LessNfs(o)
  /\ vapp' = WithNodes(Cluster(o),
       [workers |-> n.workers - LessWorkers(o), nfs |-> n.nfs - LessNfs(o)])

Shrink(o) ==
  /\ pc[o] = "shrink"
  /\ RemoveNodes(o)
  /\ Running(o)
  /\ Continue(o, todo[o])
  /\ UNCHANGED <<rde, req, undo, seen, history, faults, crashes>>

ShrinkFails(o) ==
  /\ pc[o] = "shrink"
  /\ RemoveNodes(o) \/ UNCHANGED vapp
  /\ Fails(o)
  /\ Goto(o, "fail")
  /\ UNCHANGED <<rde, req, memory, task, wrote, faults, crashes>>

\* Variant: the monitor leaves the end of the task to its children.
AfterUpdateSilent(o) == "done"

\* The children are done: task_status decides what is recorded.  _sync_def_
\* entity reads the nodes of the vApp, or returns at once without an externalId.
AfterUpdate(o) == IF taskStatus[o] = "ERROR" THEN "done" ELSE "ok"

Fin(o) ==
  /\ pc[o] = "fin"
  /\ Exists(Cluster(o))
  /\ Saw(o, Rde(o).linked /\ OwnVapp(Cluster(o)))
  /\ Goto(o, IF Rde(o).linked THEN "finish" ELSE AfterUpdate(o))
  /\ UNCHANGED <<rde, vapp, req, child, todo, undo, taskStatus, task, history,
                 faults, crashes>>

FinFails(o) ==
  /\ pc[o] = "fin"
  /\ CallFails(o)
  /\ Goto(o, "fail")
  /\ UNCHANGED <<rde, vapp, req, memory, task, history, crashes>>

Updated(o) ==
  [Phase(o, IF taskStatus[o] = "ERROR" THEN "FAILED" ELSE "SUCCEEDED") EXCEPT
     !.nodes = IF seen[o].vapp THEN seen[o].nodes ELSE @]

Finish(o) ==
  /\ pc[o] = "finish"
  /\ PutPhase(o, Updated(o))
  /\ Goto(o, AfterUpdate(o))
  /\ UNCHANGED <<vapp, req, memory, task, failed, crashes>>

\* Variant: a failed write of the result is only logged.
FinishFailsSilently(o) ==
  /\ pc[o] = "finish"
  /\ PutPhaseFails(o, Updated(o))
  /\ Goto(o, AfterUpdate(o))
  /\ UNCHANGED <<vapp, req, memory, task, failed, crashes>>

FinishFails(o) ==
  /\ pc[o] = "finish"
  /\ PutPhaseFails(o, Updated(o))
  /\ Goto(o, "fail")
  /\ UNCHANGED <<vapp, req, memory, task, failed, crashes>>

-----------------------------------------------------------------------------
(***************************************************************************)
(* The except blocks: _fail_operation, the rollback of a create or a       *)
(* _sync_def_entity, and the end of the task.                              *)
(***************************************************************************)
\* Variant: no create is rolled back.
AfterFailKeep(o) == IF req[o].kind = "delete" THEN "err" ELSE "sync"

AfterFail(o) == IF undo[o] THEN "rollback"
                ELSE IF req[o].kind = "delete" THEN "err" ELSE "sync"

\* Variant: _fail_operation is not called.
FailUnrecorded(o) ==
  /\ pc[o] = "fail"
  /\ Goto(o, AfterFail(o))
  /\ UNCHANGED <<rde, vapp, req, memory, task, history, faults, crashes>>

Fail(o) ==
  /\ pc[o] = "fail"
  /\ \/ PutPhase(o, Phase(o, "FAILED"))
     \/ PutPhaseFails(o, Phase(o, "FAILED"))
  /\ Goto(o, AfterFail(o))
  /\ UNCHANGED <<vapp, req, memory, task, failed, crashes>>

\* _delete_vapp looks the vApp up by its name.
Rollback(o) ==
  /\ pc[o] = "rollback"
  /\ \/ vapp' = [vapp EXCEPT ![Name(o)] = Absent] /\ UNCHANGED faults
     \/ faults < MaxFaults /\ faults' = faults + 1 /\ UNCHANGED vapp
  /\ Running(o)
  /\ Goto(o, "undo")
  /\ UNCHANGED <<rde, req, child, todo, undo, seen, history, crashes>>

Undo(o) ==
  /\ pc[o] = "undo"
  /\ RemoveEntity(o)
  /\ Goto(o, "err")
  /\ UNCHANGED <<vapp, req, memory, task, history, crashes>>

\* Any failure in here is only logged.
HasVapp(o) == Exists(Cluster(o)) /\ OwnVapp(Cluster(o)) /\ (Rde(o).linked \/ seen[o].vapp)

Sync(o) ==
  /\ pc[o] = "sync"
  /\ HasVapp(o)
  /\ Saw(o, TRUE)
  /\ Goto(o, "write")
  /\ UNCHANGED <<rde, vapp, req, child, todo, undo, taskStatus, task, history,
                 faults, crashes>>

SyncNothing(o) ==
  /\ pc[o] = "sync"
  /\ \/ ~HasVapp(o) /\ UNCHANGED faults
     \/ CallFails(o)
  /\ Goto(o, "err")
  /\ UNCHANGED <<rde, vapp, req, memory, task, history, crashes>>

Write(o) ==
  /\ pc[o] = "write"
  /\ Put(Cluster(o), SeenNodes(o)) \/ PutFails(Cluster(o), SeenNodes(o))
  /\ Goto(o, "err")
  /\ UNCHANGED <<vapp, req, memory, task, history, crashes>>

\* _update_task(ERROR); after that of a child the monitor goes on.
Err(o) ==
  /\ pc[o] = "err"
  /\ taskStatus' = [taskStatus EXCEPT ![o] = "ERROR"]
  /\ EndTask(o, "ERROR")
  /\ IF child[o] THEN Continue(o, todo[o])
                 ELSE Goto(o, "done") /\ UNCHANGED <<child, todo>>
  /\ UNCHANGED <<vapp, req, undo, seen, history, faults, crashes>>

\* _update_task(SUCCESS)
Ok(o) ==
  /\ pc[o] = "ok"
  /\ taskStatus' = [taskStatus EXCEPT ![o] = "SUCCESS"]
  /\ EndTask(o, "SUCCESS")
  /\ Goto(o, "done")
  /\ UNCHANGED <<vapp, req, child, todo, undo, seen, history, faults, crashes>>

\* The server dies with its daemon threads; nothing resumes them.
Crash ==
  /\ crashes < MaxCrashes
  /\ crashes' = crashes + 1
  /\ pc' = [o \in Ops |-> IF pc[o] \in {"idle", "done"} THEN pc[o] ELSE "dead"]
  /\ UNCHANGED <<rde, vapp, req, memory, task, history, faults>>

-----------------------------------------------------------------------------
HandlerStep(o) ==
  \/ CheckCreate(o) \/ CheckEntity(o) \/ Refuse(o) \/ RejectTemplate(o)
  \/ MarkBusy(o) \/ MarkBusyFails(o) \/ AbortCreate(o) \/ AnswerError(o)
  \/ ReadInfo(o) \/ ReadNothing(o) \/ StoreInfo(o)

CreateStep(o) ==
  \/ MakeVapp(o) \/ MakeVappRefused(o) \/ Deploy(o) \/ DeployFails(o)
  \/ Record(o) \/ RecordFails(o)

OtherStep(o) ==
  \/ Upgrade(o) \/ UpgradeFails(o) \/ RecordUpgrade(o) \/ RecordUpgradeFails(o)
  \/ DeleteVapp(o) \/ DeleteVappFails(o)
  \/ Purge(o) \/ PurgeRefused(o) \/ Forget(o) \/ ForgetFails(o)

UpdateStep(o) ==
  \/ Monitor(o) \/ MonitorFails(o) \/ Add(o) \/ AddFails(o)
  \/ Grow(o) \/ GrowFails(o) \/ JoinFails(o)
  \/ Del(o) \/ DelDies(o) \/ Shrink(o) \/ ShrinkFails(o)
  \/ Fin(o) \/ FinFails(o) \/ Finish(o) \/ FinishFails(o)

CleanupStep(o) ==
  \/ Fail(o) \/ Rollback(o) \/ Undo(o) \/ Sync(o) \/ SyncNothing(o)
  \/ Write(o) \/ Err(o) \/ Ok(o)

Step(o) ==
  HandlerStep(o) \/ CreateStep(o) \/ OtherStep(o) \/ UpdateStep(o) \/ CleanupStep(o)

Next == \/ \E o \in Ops : Step(o) \/ \E r \in Requests : Begin(o, r)
        \/ Crash

Spec == Init /\ [][Next]_vars

\* The threads of the server get to run, and vCD answers or refuses each call.
FairSpec == Spec /\ \A o \in Ops : WF_vars(Step(o))

-----------------------------------------------------------------------------
TypeOK ==
  /\ rde \in [Clusters -> Entities \cup {Absent}]
  /\ vapp \in [Names -> Vapps \cup {Absent}]
  /\ req \in [Ops -> Requests \cup {Absent}]
  /\ pc \in [Ops -> Pcs]
  /\ child \in [Ops -> BOOLEAN]
  /\ todo \in [Ops -> SUBSET {"add", "del"}]
  /\ undo \in [Ops -> BOOLEAN]
  /\ seen \in [Ops -> [linked : BOOLEAN, vapp : BOOLEAN, nodes : Counts]]
  /\ taskStatus \in [Ops -> TaskStatuses]
  /\ task \in [Ops -> TaskStatuses]
  /\ wrote \in [Ops -> Statuses \cup {"LOST"}]
  /\ failed \in [Ops -> BOOLEAN]
  /\ faults \in 0..MaxFaults
  /\ crashes \in 0..MaxCrashes

Terminal == {"SUCCESS", "ERROR"}

\* A busy cluster names, in status.task_href, a task that has not ended and
\* whose operation still has to write the end of its phase, unless a write of
\* that operation failed or the server crashed.  Not so for an update of a
\* cluster without externalId, where _sync_def_entity does nothing.
BusyHasLiveTask ==
  \A k \in Clusters :
    Busy(k) /\ (rde[k].linked \/ rde[k].op # "UPDATE") =>
      \E o \in Ops : /\ o = rde[k].task
                     /\ Cluster(o) = k
                     /\ \/ task[o] \notin Terminal /\ pc[o] \notin {"idle", "done"}
                        \/ wrote[o] = "LOST"
                        \/ pc[o] = "dead"

\* A task ends in SUCCESS only after the operation has stored that its phase
\* SUCCEEDED, with the same exception, and an operation other than a resize
\* whose task ends in ERROR has not stored that.
PhaseKinds == {"create", "upgrade", "resize", "deleteNfs"}
IsUpdate(o) == req[o].kind \in {"resize", "deleteNfs"}

TaskTellsPhase ==
  \A o \in Ops : pc[o] # "idle" /\ req[o].kind \in PhaseKinds =>
    /\ task[o] = "SUCCESS" => \/ wrote[o] = "SUCCEEDED"
                              \/ IsUpdate(o) /\ ~seen[o].linked
    /\ task[o] = "ERROR" /\ req[o].kind # "resize" => wrote[o] # "SUCCEEDED"

\* A delete that reports success has deleted the vApp of the cluster, unless it
\* had none linked, and a forced one its entity.
DeleteIsComplete ==
  \A o \in Ops : task[o] = "SUCCESS" =>
    /\ req[o].kind = "delete" /\ seen[o].linked => ~OwnVapp(Cluster(o))
    /\ req[o].kind = "forceDelete" => ~Exists(Cluster(o))

\* A create that was rolled back, no call of the rollback failing, leaves
\* neither a vApp nor an entity behind.
RollbackIsComplete ==
  \A o \in Ops : undo[o] /\ pc[o] = "done" /\ faults = 0 =>
    ~Exists(Cluster(o)) /\ ~OwnVapp(Cluster(o))

\* The phase works as a lock: two operations never work on the vApp of one
\* cluster at the same time.  Handlers check and set it in two steps, so this
\* takes a pool of one thread, and operations that end their phase only once.
\* A forced delete asks for no lock and is no such operation.
Working(o) == pc[o] \in CreatePcs \cup {"upgrade", "deleteVapp", "grow", "shrink", "rollback"}

Exclusive ==
  \A o, p \in Ops : Working(o) /\ Working(p) /\ Cluster(o) = Cluster(p) => o = p

\* A resize is recorded as a success only if its children did their work.
NoSilentFailure ==
  \A o \in Ops : wrote[o] = "SUCCEEDED" /\ pc[o] # "idle" /\ req[o].kind = "resize"
                   => ~failed[o]

\* The same as TaskTellsPhase without its exception: a task ends in SUCCESS
\* only after the phase was stored.
SuccessIsRecorded ==
  \A o \in Ops : task[o] = "SUCCESS" /\ req[o].kind \in PhaseKinds
                   => wrote[o] = "SUCCEEDED"

\* An operation deletes the vApp of its own cluster only.
OwnVappOnly ==
  [][\A n \in Names : vapp[n] # Absent /\ vapp'[n] = Absent =>
       \E o \in Ops : pc'[o] # pc[o] /\ Cluster(o) = vapp[n].cluster]_vars

\* Every request is answered: its task ends, unless the server crashes.
TaskEnds ==
  \A o \in Ops : pc[o] # "idle" ~> \/ task[o] \in Terminal
                                   \/ pc[o] = "dead"
                                   \/ pc[o] = "done" /\ req[o].kind = "info"
=============================================================================
