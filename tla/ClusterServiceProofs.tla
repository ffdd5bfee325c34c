-------------------------- MODULE ClusterServiceProofs --------------------------
(***************************************************************************)
(* Proofs about ClusterService, for any requests, clusters, node counts,   *)
(* threads, failures and crashes.                                          *)
(***************************************************************************)
EXTENDS ClusterService, FiniteSetTheorems, TLAPS

Begun(o) == pc[o] # "idle"
Kind(o)  == req[o].kind

-----------------------------------------------------------------------------
(***************************************************************************)
(* The invariants.  Those about one request, by its local variables, its   *)
(* task and what it has stored:                                            *)
(***************************************************************************)
\* Where the threads of a request of each kind may be.
AnyPcs    == {"get", "set", "error", "done", "dead"}
FailPcs   == {"fail", "sync", "write", "err", "ok"}
CreatePath  == AnyPcs \cup FailPcs \cup CreatePcs \cup {"abort", "rollback", "undo"}
ResizePath  == AnyPcs \cup FailPcs \cup UpdatePcs
UpgradePath == AnyPcs \cup FailPcs \cup {"reject", "upgrade", "recordUpgrade"}
NfsPath     == AnyPcs \cup FailPcs \cup {"del", "shrink", "fin", "finish"}
DeletePath  == AnyPcs \cup {"deleteVapp", "fail", "err", "ok"}
ForcePath   == {"get", "error", "purge", "forget", "err", "ok", "done", "dead"}
InfoPath    == {"read", "store", "done", "dead"}
WorkPcs     == {"add", "grow", "del", "shrink"}
BeforeBusy  == {"get", "set", "reject"}

PathInv(o) ==
  /\ Kind(o) = "create" => pc[o] \in CreatePath
  /\ Kind(o) = "resize" => pc[o] \in ResizePath
  /\ Kind(o) = "upgrade" => pc[o] \in UpgradePath
  /\ Kind(o) = "deleteNfs" => pc[o] \in NfsPath
  /\ Kind(o) = "delete" => pc[o] \in DeletePath
  /\ Kind(o) = "forceDelete" => pc[o] \in ForcePath
  /\ Kind(o) = "info" => pc[o] \in InfoPath

\* Which thread it is, and whether a create is being rolled back.
ThreadInv(o) ==
  /\ pc[o] \in WorkPcs => child[o]
  /\ child[o] => /\ IsUpdate(o)
                 /\ pc[o] \in WorkPcs \cup {"fail", "sync", "write", "err", "dead"}
  /\ Kind(o) # "resize" => todo[o] = {}
  /\ pc[o] \in {"rollback", "undo"} => undo[o]
  /\ undo[o] => /\ Kind(o) = "create"
                /\ pc[o] \in {"fail", "rollback", "undo", "err", "done", "dead"}

\* A task ends last, but for that of an update, which a child may end in ERROR.
TaskInv(o) ==
  /\ task[o] = "SUCCESS" => pc[o] = "done"
  /\ task[o] = "ERROR" => pc[o] \notin HandlerPcs
  /\ task[o] = "ERROR" /\ ~IsUpdate(o) => pc[o] = "done"
  /\ task[o] = "ERROR" /\ Kind(o) = "deleteNfs" /\ pc[o] \notin {"done", "dead"} =>
       taskStatus[o] = "ERROR" /\ ~child[o]

\* What it has stored, by where it is.
WroteInv(o) ==
  /\ pc[o] \in BeforeBusy \/ Kind(o) \in {"forceDelete", "info"} => wrote[o] = "NONE"
  /\ Kind(o) \in PhaseKinds /\ (pc[o] = "ok" \/ task[o] = "SUCCESS") =>
       wrote[o] = "SUCCEEDED" \/ (IsUpdate(o) /\ ~seen[o].linked)
  /\ wrote[o] = "SUCCEEDED" => /\ pc[o] \in {"ok", "done", "dead"}
                               /\ task[o] = "ERROR" => Kind(o) = "resize"
  /\ wrote[o] = "IN_PROGRESS" =>
       /\ pc[o] \notin {"abort", "error", "sync", "write", "err", "rollback", "undo"}
       /\ task[o] # "ERROR"
       /\ pc[o] \in {"ok", "done"} => Kind(o) = "delete" \/ (IsUpdate(o) /\ ~seen[o].linked)

BegunInv(o) ==
  req[o] \in Requests /\ PathInv(o) /\ ThreadInv(o) /\ TaskInv(o) /\ WroteInv(o)

IdleInv(o) ==
  /\ ~child[o] /\ todo[o] = {} /\ ~undo[o]
  /\ taskStatus[o] = "NONE" /\ task[o] = "NONE" /\ wrote[o] = "NONE"

LocalInv(o) == IF Begun(o) THEN BegunInv(o) ELSE IdleInv(o)

(***************************************************************************)
(* And those that relate it to its entity, its vApp and other requests:    *)
(***************************************************************************)
\* An update that wrote no result because its cluster had no externalId: the
\* cluster has none after it either.
UnlinkedInv(o) ==
  IsUpdate(o) /\ wrote[o] = "IN_PROGRESS" /\ pc[o] \in {"ok", "done"} /\ Exists(Cluster(o)) =>
    ~Rde(o).linked

\* What a deletion has deleted stays so.
DeletedInv(o) ==
  pc[o] = "ok" \/ task[o] = "SUCCESS" =>
    /\ Kind(o) = "delete" /\ seen[o].linked => ~OwnVapp(Cluster(o))
    /\ Kind(o) = "forceDelete" => ~Exists(Cluster(o))

\* The steps of a rollback, one by one.
RolledBackInv(o) ==
  undo[o] /\ faults = 0 =>
    /\ pc[o] \in {"undo", "err", "done"} => ~OwnVapp(Cluster(o))
    /\ pc[o] \in {"err", "done"} => ~Exists(Cluster(o))

\* Until its create has ended an entity is not resolved.
StateInv(o) ==
  Kind(o) = "create" /\ pc[o] # "done" /\ Exists(Cluster(o)) => Rde(o).state = "PRE_CREATED"

RelationInv(o) ==
  Begun(o) => UnlinkedInv(o) /\ DeletedInv(o) /\ RolledBackInv(o) /\ StateInv(o)

\* A create is the first request on its cluster, and until it has ended the others
\* are refused, but for the reading of information.
Early(p) ==
  /\ Kind(p) \in {"resize", "upgrade", "info"}
  /\ pc[p] \in {"get", "error", "read", "store", "done", "dead"}
  /\ wrote[p] = "NONE"

OrderInv ==
  \A o, p \in Ops :
    Begun(o) /\ Begun(p) /\ o # p /\ Cluster(o) = Cluster(p) /\ Kind(o) = "create" =>
      Kind(p) # "create" /\ (pc[o] = "done" \/ Early(p))

\* A busy cluster names the request that marked it and has stored nothing since,
\* and that has not ended but for an update without externalId.
Holds(q, k) ==
  /\ q \in Ops /\ Begun(q) /\ Cluster(q) = k /\ PhaseOp(q) = rde[k].op
  /\ wrote[q] \in {"IN_PROGRESS", "LOST"}
  /\ wrote[q] = "IN_PROGRESS" /\ pc[q] = "done" => IsUpdate(q)

BusyInv == \A k \in Clusters : Busy(k) => Holds(rde[k].task, k)

IInv ==
  /\ TypeOK
  /\ \A o \in Ops : LocalInv(o) /\ RelationInv(o)
  /\ OrderInv /\ BusyInv

-----------------------------------------------------------------------------
(***************************************************************************)
(* What a step of a request may do to the entity of its cluster, to the    *)
(* vApps and to other requests.                                            *)
(***************************************************************************)
Stores(o, e) == Exists(Cluster(o)) /\ rde' = [rde EXCEPT ![Cluster(o)] = e]

SamePhase(d, e) == e.op = d.op /\ e.status = d.status /\ e.task = d.task

\* The request marks the cluster busy, or ends a phase.
Marks(o, e) ==
  /\ pc[o] = "set" /\ wrote'[o] \in {"IN_PROGRESS", "LOST"} /\ pc'[o] # "done"
  /\ e.op = PhaseOp(o) /\ e.status = "IN_PROGRESS" /\ e.task = o
  /\ e.linked = Rde(o).linked
EndsPhase(o, e) ==
  /\ pc[o] \in {"reject", "abort", "record", "recordUpgrade", "finish", "fail"}
  /\ e.status \in {"SUCCEEDED", "FAILED"}
  /\ e.linked = Rde(o).linked \/ pc[o] = "record"

Writes(o, e) ==
  \/ e.state = Rde(o).state /\ e.linked = Rde(o).linked /\ SamePhase(Rde(o), e)
  \/ Kind(o) = "create" /\ pc'[o] = "done" /\ e.linked = Rde(o).linked /\ SamePhase(Rde(o), e)
  \/ e.state = Rde(o).state /\ Marks(o, e)
  \/ e.state = Rde(o).state /\ EndsPhase(o, e)

RdeStep(o) ==
  \/ UNCHANGED rde
  \/ Stores(o, Absent) /\ pc[o] \notin {"get", "set", "read", "store", "error"}
  \/ \E e \in Entities : Stores(o, e) /\ Writes(o, e)

VappStep(o) ==
  \/ UNCHANGED vapp
  \/ vapp' = [vapp EXCEPT ![Name(o)] = Absent]
  \/ \E n \in Counts :
       /\ pc[o] = "makeVapp" \/ OwnVapp(Cluster(o))
       /\ vapp' = [vapp EXCEPT ![Name(o)] = [cluster |-> Cluster(o), nodes |-> n]]

Frame(o) ==
  /\ UNCHANGED <<req, crashes>>
  /\ pc[o] \notin {"idle", "done", "dead"} /\ pc'[o] \notin {"idle", "dead"}
  /\ faults' = 0 => faults = 0
  /\ \A p \in Ops \ {o} :
       /\ pc'[p] = pc[p] /\ child'[p] = child[p] /\ todo'[p] = todo[p] /\ undo'[p] = undo[p]
       /\ seen'[p] = seen[p] /\ taskStatus'[p] = taskStatus[p] /\ task'[p] = task[p]
       /\ wrote'[p] = wrote[p]

\* Why a request may say that it is done: what its step, or an earlier one, did.
Claims(o) == pc'[o] = "ok" \/ task'[o] = "SUCCESS"

WroteStep(o) ==
  wrote'[o] \in {wrote[o], "LOST"} \/ \E e \in Entities : Stores(o, e) /\ e.status = wrote'[o]

UpdateClaim(o) ==
  IsUpdate(o) /\ wrote'[o] = "IN_PROGRESS" /\ pc'[o] \in {"ok", "done"} /\ Exists(Cluster(o)) =>
    (pc[o] = "ok" /\ wrote[o] = "IN_PROGRESS") \/ ~Rde(o).linked
DeleteClaim(o) ==
  /\ Kind(o) = "delete" /\ Claims(o) /\ seen'[o].linked =>
       (pc[o] = "ok" /\ UNCHANGED <<vapp, seen>>) \/ vapp'[Name(o)] = Absent
  /\ Kind(o) = "delete" /\ pc'[o] = "done" /\ wrote'[o] = "IN_PROGRESS" => rde'[Cluster(o)] = Absent
  /\ Kind(o) = "forceDelete" /\ Claims(o) => pc[o] = "ok" \/ rde'[Cluster(o)] = Absent
RollbackClaim(o) ==
  undo'[o] /\ faults' = 0 =>
    /\ pc'[o] = "undo" => vapp'[Name(o)] = Absent
    /\ pc'[o] \in {"err", "done"} => pc[o] \in {"undo", "err"} /\ undo[o] /\ UNCHANGED vapp
    /\ pc'[o] = "err" => rde'[Cluster(o)] = Absent
    /\ pc'[o] = "done" => pc[o] = "err"
EarlyStep(o) ==
  Early(o) => Early(o)' \/ (Exists(Cluster(o)) /\ Rde(o).state = "RESOLVED")

ResultStep(o) ==
  WroteStep(o) /\ UpdateClaim(o) /\ DeleteClaim(o) /\ RollbackClaim(o) /\ EarlyStep(o)

\* The part of TypeOK that is not about entities and vApps.
MemoryOK ==
  /\ req \in [Ops -> Requests \cup {Absent}]
  /\ pc \in [Ops -> Pcs]
  /\ child \in [Ops -> BOOLEAN]
  /\ todo \in [Ops -> SUBSET {"add", "del"}]
  /\ undo \in [Ops -> BOOLEAN]
  /\ seen \in [Ops -> [linked : BOOLEAN, vapp : BOOLEAN, nodes : Counts]]
  /\ taskStatus \in [Ops -> TaskStatuses]
  /\ task \in [Ops -> TaskStatuses]
  /\ wrote \in [Ops -> Statuses \cup {"LOST"}]
  /\ failed \in [Ops -> BOOLEAN]
  /\ faults \in 0..MaxFaults
  /\ crashes \in 0..MaxCrashes

-----------------------------------------------------------------------------
(***************************************************************************)
(* The entities that the operations store.                                 *)
(***************************************************************************)
\* A begun request is one of Requests, on a cluster that has a name.
LEMMA RequestFacts ==
  ASSUME ClusterAssumption, NEW o \in Ops, req[o] \in Requests
  PROVE  /\ Cluster(o) \in Clusters /\ Name(o) \in Names /\ Name(o) = NameOf[Cluster(o)]
         /\ Kind(o) \in AllKinds
         /\ req[o].want \in Counts /\ req[o].rollback \in BOOLEAN
         /\ PhaseOp(o) \in PhaseOps \ {"NONE"}
  BY DEF ClusterAssumption, Cluster, Name, Kind, Requests, PhaseOp, PhaseOps, Nodes, Counts,
     AllKinds

\* Another phase changes nothing else of an entity.
LEMMA PhaseFacts ==
  ASSUME NEW o \in Ops, Rde(o) \in Entities, PhaseOp(o) \in PhaseOps,
         NEW s \in Statuses
  PROVE  /\ Phase(o, s) \in Entities
         /\ Phase(o, s).op = PhaseOp(o) /\ Phase(o, s).status = s
         /\ Phase(o, s).state = Rde(o).state /\ Phase(o, s).task = Rde(o).task
         /\ Phase(o, s).linked = Rde(o).linked /\ Phase(o, s).nodes = Rde(o).nodes
<1> DEFINE e == Rde(o)
           d == [e EXCEPT !.op = PhaseOp(o)]
           f == [d EXCEPT !.status = s]
<1>1. /\ d \in Entities /\ d.op = PhaseOp(o)
      /\ d.state = e.state /\ d.task = e.task /\ d.linked = e.linked /\ d.nodes = e.nodes
  BY DEF Entities
<1>2. Phase(o, s) = f
  BY DEF Phase
<1> HIDE DEF d
<1>3. /\ f \in Entities /\ f.op = PhaseOp(o) /\ f.status = s
      /\ f.state = e.state /\ f.task = e.task /\ f.linked = e.linked /\ f.nodes = e.nodes
  BY <1>1 DEF Entities
<1> QED
  BY <1>2, <1>3

\* Marking a cluster busy changes the phase of its entity and the task it names.
LEMMA InProgressFacts ==
  ASSUME NEW o \in Ops, Rde(o) \in Entities, PhaseOp(o) \in PhaseOps
  PROVE  /\ InProgress(o) \in Entities
         /\ InProgress(o).op = PhaseOp(o) /\ InProgress(o).status = "IN_PROGRESS"
         /\ InProgress(o).task = o /\ InProgress(o).state = Rde(o).state
         /\ InProgress(o).linked = Rde(o).linked
<1> DEFINE e == Phase(o, "IN_PROGRESS")
<1>1. e \in Entities /\ e.op = PhaseOp(o) /\ e.status = "IN_PROGRESS"
      /\ e.state = Rde(o).state /\ e.linked = Rde(o).linked
  BY PhaseFacts DEF Statuses
<1>2. InProgress(o) = [e EXCEPT !.task = o]
  BY DEF InProgress
<1> HIDE DEF e
<1> QED
  BY <1>1, <1>2 DEF Entities

\* What a create records changes no state: the end of its task resolves the entity.
LEMMA CreatedFacts ==
  ASSUME ClusterAssumption, NEW o \in Ops, Rde(o) \in Entities, req[o] \in Requests, TypeOK
  PROVE  /\ Created(o) \in Entities
         /\ Created(o).status = "SUCCEEDED" /\ Created(o).state = Rde(o).state
<1> DEFINE e == Phase(o, "SUCCEEDED")
           n == IF OwnVapp(Cluster(o)) THEN vapp[Name(o)].nodes ELSE NoNodes
           d == [e EXCEPT !.linked = TRUE]
<1>1. e \in Entities /\ e.status = "SUCCEEDED" /\ e.state = Rde(o).state
  BY PhaseFacts, RequestFacts DEF Statuses
<1>2. n \in Counts
  BY RequestFacts DEF TypeOK, OwnVapp, Vapps, Counts, NoNodes
<1>3. Created(o) = [d EXCEPT !.nodes = n]
  BY DEF Created
<1> HIDE DEF e, n
<1>4. d \in Entities /\ d.status = "SUCCEEDED" /\ d.state = Rde(o).state
  BY <1>1 DEF Entities
<1> HIDE DEF d
<1> QED
  BY <1>2, <1>3, <1>4 DEF Entities

\* What an update records ends the phase as its task status says.
LEMMA UpdatedFacts ==
  ASSUME ClusterAssumption, NEW o \in Ops, Rde(o) \in Entities, req[o] \in Requests, TypeOK
  PROVE  /\ Updated(o) \in Entities
         /\ Updated(o).status = (IF taskStatus[o] = "ERROR" THEN "FAILED" ELSE "SUCCEEDED")
         /\ Updated(o).state = Rde(o).state /\ Updated(o).linked = Rde(o).linked
<1> DEFINE s == IF taskStatus[o] = "ERROR" THEN "FAILED" ELSE "SUCCEEDED"
           e == Phase(o, s)
<1>1. s \in Statuses
  BY DEF Statuses
<1>2. e \in Entities /\ e.status = s /\ e.state = Rde(o).state /\ e.linked = Rde(o).linked
      /\ e.nodes = Rde(o).nodes
  BY <1>1, PhaseFacts, RequestFacts
<1>3. Updated(o) = [e EXCEPT !.nodes = IF seen[o].vapp THEN seen[o].nodes ELSE e.nodes]
  BY DEF Updated
<1> HIDE DEF e
<1>4. seen[o].nodes \in Counts /\ e.nodes \in Counts
  BY <1>2 DEF TypeOK, Entities
<1> QED
  BY <1>2, <1>3, <1>4 DEF Entities

\* The nodes a thread read, stored in the entity, change nothing else of it.
LEMMA SeenNodesFacts ==
  ASSUME TypeOK, NEW o \in Ops, Rde(o) \in Entities
  PROVE  /\ SeenNodes(o) \in Entities
         /\ SeenNodes(o).state = Rde(o).state /\ SeenNodes(o).linked = Rde(o).linked
         /\ SamePhase(Rde(o), SeenNodes(o))
  BY DEF TypeOK, SeenNodes, Entities, SamePhase

\* Everything that the steps of a request use about what it stores.
LEMMA EntityFacts ==
  ASSUME ClusterAssumption, TypeOK, NEW o \in Ops, req[o] \in Requests, Exists(Cluster(o))
  PROVE  /\ Rde(o) \in Entities /\ Rde(o).nodes \in Counts /\ Rde(o).linked \in BOOLEAN
         /\ \A s \in {"FAILED", "SUCCEEDED"} :
              /\ Phase(o, s) \in Entities /\ Phase(o, s).status = s
              /\ Phase(o, s).state = Rde(o).state /\ Phase(o, s).linked = Rde(o).linked
         /\ InProgress(o) \in Entities /\ InProgress(o).op = PhaseOp(o)
         /\ InProgress(o).status = "IN_PROGRESS" /\ InProgress(o).task = o
         /\ InProgress(o).state = Rde(o).state /\ InProgress(o).linked = Rde(o).linked
         /\ Created(o) \in Entities /\ Created(o).status = "SUCCEEDED"
         /\ Created(o).state = Rde(o).state
         /\ Updated(o) \in Entities /\ Updated(o).state = Rde(o).state
         /\ Updated(o).status = (IF taskStatus[o] = "ERROR" THEN "FAILED" ELSE "SUCCEEDED")
         /\ Updated(o).linked = Rde(o).linked
         /\ SeenNodes(o) \in Entities /\ SeenNodes(o).state = Rde(o).state
         /\ SeenNodes(o).linked = Rde(o).linked /\ SamePhase(Rde(o), SeenNodes(o))
<1>1. Rde(o) \in Entities
  BY RequestFacts DEF TypeOK, Exists, Rde
<1>2. Rde(o).nodes \in Counts /\ Rde(o).linked \in BOOLEAN
  BY <1>1 DEF Entities
<1>3. PhaseOp(o) \in PhaseOps /\ {"FAILED", "SUCCEEDED"} \subseteq Statuses
  BY RequestFacts DEF Statuses
<1> QED
  BY <1>1, <1>2, <1>3, PhaseFacts, InProgressFacts, CreatedFacts, UpdatedFacts, SeenNodesFacts

\* The vApp of the cluster counts its nodes.
LEMMA VappFacts ==
  ASSUME ClusterAssumption, TypeOK, NEW o \in Ops, req[o] \in Requests, OwnVapp(Cluster(o))
  PROVE  /\ vapp[Name(o)] \in Vapps /\ vapp[Name(o)].nodes \in Counts
         /\ vapp[Name(o)].cluster = Cluster(o)
  BY RequestFacts DEF TypeOK, OwnVapp, Vapps, Name

\* A task keeps its first terminal status.
LEMMA SetTaskFacts ==
  ASSUME TypeOK, NEW o \in Ops, NEW s \in TaskStatuses, SetTask(o, s)
  PROVE  /\ task' \in [Ops -> TaskStatuses]
         /\ task'[o] = IF task[o] \in {"SUCCESS", "ERROR"} THEN task[o] ELSE s
         /\ \A p \in Ops \ {o} : task'[p] = task[p]
  BY DEF TypeOK, SetTask

\* seen.vapp is set, nothing else of what the request keeps.
LEMMA SeenVappFacts ==
  ASSUME TypeOK, NEW o \in Ops, seen' = [seen EXCEPT ![o].vapp = TRUE]
  PROVE  /\ seen' \in [Ops -> [linked : BOOLEAN, vapp : BOOLEAN, nodes : Counts]]
         /\ seen'[o].linked = seen[o].linked
         /\ \A p \in Ops \ {o} : seen'[p] = seen[p]
<1> DEFINE S == [linked : BOOLEAN, vapp : BOOLEAN, nodes : Counts]
           r == [seen[o] EXCEPT !.vapp = TRUE]
<1>1. seen \in [Ops -> S]
  BY DEF TypeOK
<1>2. r \in S /\ r.linked = seen[o].linked
  BY <1>1
<1>3. seen' = [seen EXCEPT ![o] = r]
  OBVIOUS
<1> HIDE DEF r, S
<1>4. seen' \in [Ops -> S] /\ seen'[o] = r /\ \A p \in Ops \ {o} : seen'[p] = seen[p]
  BY <1>1, <1>2, <1>3
<1> QED
  BY <1>2, <1>4 DEF S

\* What a read leaves in seen.
LEMMA SawFacts ==
  ASSUME ClusterAssumption, TypeOK, NEW o \in Ops, req[o] \in Requests, Exists(Cluster(o)),
         NEW b \in BOOLEAN, b => OwnVapp(Cluster(o)), Saw(o, b)
  PROVE  /\ seen' \in [Ops -> [linked : BOOLEAN, vapp : BOOLEAN, nodes : Counts]]
         /\ seen'[o].linked = Rde(o).linked
         /\ \A p \in Ops \ {o} : seen'[p] = seen[p]
  BY EntityFacts, VappFacts DEF Saw, TypeOK

\* A write of a phase stores it, and says so, or is lost.
Stored(o) == {Phase(o, "FAILED"), Phase(o, "SUCCEEDED"), InProgress(o), Created(o), Updated(o)}

\* A write of the phase stores the entity or is lost.
LEMMA PutPhaseFacts ==
  ASSUME ClusterAssumption, TypeOK, NEW o \in Ops, req[o] \in Requests, NEW e \in Stored(o),
         PutPhase(o, e) \/ PutPhaseFails(o, e)
  PROVE  /\ wrote' \in [Ops -> Statuses \cup {"LOST"}]
         /\ \A p \in Ops \ {o} : wrote'[p] = wrote[p]
         /\ faults' \in 0..MaxFaults /\ (faults' = 0 => faults = 0)
         /\ UNCHANGED rde \/ Stores(o, e)
         /\ wrote'[o] = "LOST" \/ (wrote'[o] = e.status /\ Stores(o, e))
         /\ PutPhase(o, e) => wrote'[o] = e.status /\ Stores(o, e)
         /\ PutPhaseFails(o, e) => wrote'[o] = "LOST"
         /\ Exists(Cluster(o)) => e \in Entities
<1>1. Exists(Cluster(o)) => e \in Entities /\ e.status \in Statuses
  BY EntityFacts DEF Stored, Entities
<1> DEFINE Written == /\ wrote' \in [Ops -> Statuses \cup {"LOST"}]
                      /\ \A p \in Ops \ {o} : wrote'[p] = wrote[p]
                      /\ faults' \in 0..MaxFaults /\ (faults' = 0 => faults = 0)
<1>2. PutPhase(o, e) => Written /\ wrote'[o] = e.status /\ Stores(o, e)
  BY <1>1 DEF PutPhase, Put, TypeOK, Stores
<1>3. PutPhaseFails(o, e) => Written /\ wrote'[o] = "LOST" /\ (UNCHANGED rde \/ Stores(o, e))
  BY <1>1 DEF PutPhaseFails, PutFails, TypeOK, Stores, ClusterAssumption
<1> QED
  BY <1>1, <1>2, <1>3

\* The end of a task, and what vCD does to the entity then.
LEMMA EndTaskFacts ==
  ASSUME ClusterAssumption, TypeOK, NEW o \in Ops, req[o] \in Requests,
         NEW s \in {"SUCCESS", "ERROR"}, EndTask(o, s)
  PROVE  /\ task' \in [Ops -> TaskStatuses]
         /\ task'[o] = IF task[o] \in {"SUCCESS", "ERROR"} THEN task[o] ELSE s
         /\ \A p \in Ops \ {o} : task'[p] = task[p]
         /\ \/ UNCHANGED rde
            \/ Kind(o) = "delete" /\ s = "SUCCESS" /\ Stores(o, Absent)
            \/ /\ Kind(o) = "create"
               /\ \E e \in Entities : Stores(o, e) /\ e.linked = Rde(o).linked /\ SamePhase(Rde(o), e)
         /\ Kind(o) = "delete" /\ s = "SUCCESS" => rde'[Cluster(o)] = Absent
<1>1. s \in TaskStatuses /\ SetTask(o, s)
  BY DEF EndTask, TaskStatuses
<1>2. CASE Exists(Cluster(o)) /\ Kind(o) = "create"
  <2>1. PICK t \in States : rde' = [rde EXCEPT ![Cluster(o)].state = t]
    BY <1>2 DEF EndTask, Kind, Resolved, States
  <2> DEFINE e == [Rde(o) EXCEPT !.state = t]
  <2>2. rde' = [rde EXCEPT ![Cluster(o)] = e]
    BY <2>1 DEF Rde
  <2>3. e \in Entities /\ e.linked = Rde(o).linked /\ SamePhase(Rde(o), e)
    BY <1>2, EntityFacts DEF Entities, SamePhase
  <2> HIDE DEF e
  <2> QED
    BY <1>1, <1>2, <2>2, <2>3, SetTaskFacts DEF Stores
<1>3. CASE Kind(o) = "delete" /\ s = "SUCCESS"
  <2>1. rde' = [rde EXCEPT ![Cluster(o)] = Absent] /\ Cluster(o) \in Clusters
    BY <1>3, RequestFacts DEF EndTask, Kind
  <2>2. UNCHANGED rde \/ Stores(o, Absent)
    BY <2>1 DEF TypeOK, Stores, Exists
  <2> QED
    BY <1>1, <1>3, <2>1, <2>2, SetTaskFacts DEF TypeOK
<1>4. CASE ~(Exists(Cluster(o)) /\ Kind(o) = "create") /\ ~(Kind(o) = "delete" /\ s = "SUCCESS")
  <2>1. UNCHANGED rde
    BY <1>4 DEF EndTask, Kind
  <2> QED
    BY <1>1, <1>4, <2>1, SetTaskFacts
<1> QED
  BY <1>2, <1>3, <1>4

-----------------------------------------------------------------------------
(***************************************************************************)
(* What a step leaves alone.                                               *)
(***************************************************************************)
\* The steps of the handlers leave alone what other requests are and know.
LEMMA FrameHandlerStep == ASSUME TypeOK, NEW o \in Ops, HandlerStep(o) PROVE Frame(o)
<1> USE DEF Frame, TypeOK, memory, history, Goto, Pcs, HandlerPcs, CreatePcs, UpdatePcs,
  OtherPcs, CleanupPcs
<1>1. CASE CheckCreate(o)
  BY <1>1 DEF CheckCreate, Running, SetTask
<1>2. CASE CheckEntity(o)
  BY <1>2 DEF CheckEntity, Saw, Running, SetTask
<1>3. CASE Refuse(o)
  BY <1>3 DEF Refuse, CallFails
<1>4. CASE RejectTemplate(o)
  BY <1>4 DEF RejectTemplate, PutPhase, PutPhaseFails, Put, PutFails
<1>5. CASE MarkBusy(o)
  BY <1>5 DEF MarkBusy, PutPhase, FirstPc, Put
<1>6. CASE MarkBusyFails(o)
  BY <1>6 DEF MarkBusyFails, PutPhaseFails, PutFails
<1>7. CASE AbortCreate(o)
  BY <1>7 DEF AbortCreate, RemoveEntity, PutPhase, PutPhaseFails, CallFails, Put, PutFails
<1>8. CASE AnswerError(o)
  BY <1>8 DEF AnswerError, EndTask, SetTask
<1>9. CASE ReadInfo(o)
  BY <1>9 DEF ReadInfo, Saw
<1>10. CASE ReadNothing(o)
  BY <1>10 DEF ReadNothing, CallFails
<1>11. CASE StoreInfo(o)
  BY <1>11 DEF StoreInfo, Put, PutFails
<1> QED
  BY <1>1, <1>2, <1>3, <1>4, <1>5, <1>6, <1>7, <1>8, <1>9, <1>10, <1>11 DEF HandlerStep

\* The steps of a create leave alone what other requests are and know.
LEMMA FrameCreateStep == ASSUME TypeOK, NEW o \in Ops, CreateStep(o) PROVE Frame(o)
<1> USE DEF Frame, TypeOK, memory, history, Goto, Pcs, HandlerPcs, CreatePcs, UpdatePcs,
  OtherPcs, CleanupPcs
<1>1. CASE MakeVapp(o)
  BY <1>1 DEF MakeVapp, Running, SetTask
<1>2. CASE MakeVappRefused(o)
  BY <1>2 DEF MakeVappRefused, Fails
<1>3. CASE Deploy(o)
  BY <1>3 DEF Deploy
<1>4. CASE DeployFails(o)
  BY <1>4 DEF DeployFails, Fails
<1>5. CASE Record(o)
  BY <1>5 DEF Record, PutPhase, Put
<1>6. CASE RecordFails(o)
  BY <1>6 DEF RecordFails, PutPhaseFails, PutFails
<1> QED
  BY <1>1, <1>2, <1>3, <1>4, <1>5, <1>6 DEF CreateStep

\* The steps of upgrades and deletes leave alone what other requests are and know.
LEMMA FrameOtherStep == ASSUME TypeOK, NEW o \in Ops, OtherStep(o) PROVE Frame(o)
<1> USE DEF Frame, TypeOK, memory, history, Goto, Pcs, HandlerPcs, CreatePcs, UpdatePcs,
  OtherPcs, CleanupPcs
<1>1. CASE Upgrade(o)
  BY <1>1 DEF Upgrade, Running, SetTask
<1>2. CASE UpgradeFails(o)
  BY <1>2 DEF UpgradeFails, Fails
<1>3. CASE RecordUpgrade(o)
  BY <1>3 DEF RecordUpgrade, PutPhase, Put
<1>4. CASE RecordUpgradeFails(o)
  BY <1>4 DEF RecordUpgradeFails, PutPhaseFails, PutFails
<1>5. CASE DeleteVapp(o)
  BY <1>5 DEF DeleteVapp
<1>6. CASE DeleteVappFails(o)
  BY <1>6 DEF DeleteVappFails, Fails
<1>7. CASE Purge(o)
  BY <1>7 DEF Purge
<1>8. CASE PurgeRefused(o)
  BY <1>8 DEF PurgeRefused, Fails
<1>9. CASE Forget(o)
  BY <1>9 DEF Forget
<1>10. CASE ForgetFails(o)
  BY <1>10 DEF ForgetFails, CallFails
<1> QED
  BY <1>1, <1>2, <1>3, <1>4, <1>5, <1>6, <1>7, <1>8, <1>9, <1>10 DEF OtherStep

\* The steps of resizes and node deletions leave alone what other requests are and know.
LEMMA FrameUpdateStep == ASSUME TypeOK, NEW o \in Ops, UpdateStep(o) PROVE Frame(o)
<1> USE DEF Frame, TypeOK, memory, history, Goto, Pcs, HandlerPcs, CreatePcs, UpdatePcs,
  OtherPcs, CleanupPcs
<1>1. CASE Monitor(o)
  BY <1>1 DEF Monitor, Continue, NextPc
<1>2. CASE MonitorFails(o)
  BY <1>2 DEF MonitorFails, CallFails
<1>3. CASE Add(o)
  BY <1>3 DEF Add, Saw, Running, SetTask
<1>4. CASE AddFails(o)
  BY <1>4 DEF AddFails, CallFails, Fails
<1>5. CASE Grow(o)
  BY <1>5 DEF Grow, Running, Continue, SetTask, NextPc
<1>6. CASE GrowFails(o)
  BY <1>6 DEF GrowFails, Fails
<1>7. CASE JoinFails(o)
  BY <1>7 DEF JoinFails, Fails, Running, Continue, SetTask, NextPc
<1>8. CASE Del(o)
  BY <1>8 DEF Del, Running, SetTask
<1>9. CASE DelDies(o)
  BY <1>9 DEF DelDies, CallFails, Fails, Continue, NextPc
<1>10. CASE Shrink(o)
  BY <1>10 DEF Shrink, Running, Continue, SetTask, NextPc
<1>11. CASE ShrinkFails(o)
  BY <1>11 DEF ShrinkFails, Fails
<1>12. CASE Fin(o)
  BY <1>12 DEF Fin, Saw, AfterUpdate
<1>13. CASE FinFails(o)
  BY <1>13 DEF FinFails, CallFails
<1>14. CASE Finish(o)
  BY <1>14 DEF Finish, PutPhase, AfterUpdate, Put
<1>15. CASE FinishFails(o)
  BY <1>15 DEF FinishFails, PutPhaseFails, PutFails
<1> QED
  BY <1>1, <1>2, <1>3, <1>4, <1>5, <1>6, <1>7, <1>8, <1>9, <1>10, <1>11, <1>12, <1>13, <1>14,
     <1>15
  DEF UpdateStep

\* The steps of the except blocks leave alone what other requests are and know.
LEMMA FrameCleanupStep == ASSUME TypeOK, NEW o \in Ops, CleanupStep(o) PROVE Frame(o)
<1> USE DEF Frame, TypeOK, memory, history, Goto, Pcs, HandlerPcs, CreatePcs, UpdatePcs,
  OtherPcs, CleanupPcs
<1>1. CASE Fail(o)
  BY <1>1 DEF Fail, PutPhase, PutPhaseFails, AfterFail, Put, PutFails
<1>2. CASE Rollback(o)
  BY <1>2 DEF Rollback, Running, SetTask
<1>3. CASE Undo(o)
  BY <1>3 DEF Undo, RemoveEntity, CallFails
<1>4. CASE Sync(o)
  BY <1>4 DEF Sync, Saw
<1>5. CASE SyncNothing(o)
  BY <1>5 DEF SyncNothing, CallFails
<1>6. CASE Write(o)
  BY <1>6 DEF Write, Put, PutFails
<1>7. CASE Err(o)
  BY <1>7 DEF Err, EndTask, Continue, SetTask, NextPc
<1>8. CASE Ok(o)
  BY <1>8 DEF Ok, EndTask, SetTask
<1> QED
  BY <1>1, <1>2, <1>3, <1>4, <1>5, <1>6, <1>7, <1>8 DEF CleanupStep

-----------------------------------------------------------------------------
(***************************************************************************)
(* The types of what a request knows.                                      *)
(***************************************************************************)
\* The check of a name keeps the types of what a request knows.
LEMMA CheckCreateTypes ==
  ASSUME TypeOK, NEW o \in Ops, CheckCreate(o)
  PROVE  MemoryOK'
<1>1. pc' = [pc EXCEPT ![o] = "set"] \/ pc' = [pc EXCEPT ![o] = "abort"]
  BY DEF CheckCreate, Goto
<1>2. "set" \in Pcs /\ "abort" \in Pcs
  BY DEF Pcs, HandlerPcs
<1>3. pc' \in [Ops -> Pcs]
  BY <1>1, <1>2 DEF TypeOK
<1>4. Running(o) \/ UNCHANGED <<taskStatus, task>>
  BY DEF CheckCreate
<1>5. task' \in [Ops -> TaskStatuses] /\ taskStatus' \in [Ops -> TaskStatuses]
  BY <1>4, SetTaskFacts DEF Running, TypeOK, TaskStatuses
<1> QED
  BY <1>3, <1>5 DEF CheckCreate, history, MemoryOK, TypeOK

\* The steps of the handlers keep the types of what a request knows.
LEMMA MemoryHandlerStep ==
  ASSUME ClusterAssumption, TypeOK, NEW o \in Ops, Begun(o) => req[o] \in Requests, HandlerStep(o)
  PROVE  MemoryOK'
<1> USE DEF Begun, TypeOK, MemoryOK, memory, history, Goto, TaskStatuses, Statuses, Pcs,
  HandlerPcs, CreatePcs, UpdatePcs, OtherPcs, CleanupPcs
<1>1. CASE CheckCreate(o)
  BY <1>1, CheckCreateTypes
<1>2. CASE CheckEntity(o)
<2>1. pc' \in [Ops -> Pcs]
  BY <1>2 DEF CheckEntity
<2>2. seen' \in [Ops -> [linked : BOOLEAN, vapp : BOOLEAN, nodes : Counts]]
  BY <1>2, SawFacts DEF CheckEntity
<2>3. task' \in [Ops -> TaskStatuses] /\ taskStatus' \in [Ops -> TaskStatuses]
  BY <1>2, SetTaskFacts, SMTT(30) DEF CheckEntity, Running
<2> QED
  BY <1>2, <2>1, <2>2, <2>3 DEF CheckEntity
<1>3. CASE Refuse(o)
  BY <1>3 DEF Refuse, CallFails
<1>4. CASE RejectTemplate(o)
  BY <1>4, PutPhaseFacts DEF RejectTemplate, Stored
<1>5. CASE MarkBusy(o)
  BY <1>5, PutPhaseFacts DEF MarkBusy, FirstPc, Stored
<1>6. CASE MarkBusyFails(o)
  BY <1>6, PutPhaseFacts DEF MarkBusyFails, Stored
<1>7. CASE AbortCreate(o)
  BY <1>7, PutPhaseFacts DEF AbortCreate, RemoveEntity, CallFails, Stored
<1>8. CASE AnswerError(o)
  BY <1>8, EndTaskFacts DEF AnswerError
<1>9. CASE ReadInfo(o)
  BY <1>9, SawFacts DEF ReadInfo
<1>10. CASE ReadNothing(o)
  BY <1>10 DEF ReadNothing, CallFails
<1>11. CASE StoreInfo(o)
  BY <1>11 DEF StoreInfo, Put, PutFails
<1> QED
  BY <1>1, <1>2, <1>3, <1>4, <1>5, <1>6, <1>7, <1>8, <1>9, <1>10, <1>11 DEF HandlerStep

\* The steps of a create keep the types of what a request knows.
LEMMA MemoryCreateStep ==
  ASSUME ClusterAssumption, TypeOK, NEW o \in Ops, Begun(o) => req[o] \in Requests, CreateStep(o)
  PROVE  MemoryOK'
<1> USE DEF Begun, TypeOK, MemoryOK, memory, history, Goto, TaskStatuses, Statuses, Pcs,
  HandlerPcs, CreatePcs, UpdatePcs, OtherPcs, CleanupPcs
<1>1. CASE MakeVapp(o)
  BY <1>1, SetTaskFacts, SeenVappFacts DEF MakeVapp, Running
<1>2. CASE MakeVappRefused(o)
  BY <1>2, RequestFacts DEF MakeVappRefused, Fails
<1>3. CASE Deploy(o)
  BY <1>3 DEF Deploy
<1>4. CASE DeployFails(o)
<2>1. PICK rollback \in BOOLEAN : undo' = [undo EXCEPT ![o] = rollback]
  BY <1>4, RequestFacts DEF DeployFails
<2> QED
  BY <1>4, <2>1 DEF DeployFails, Fails
<1>5. CASE Record(o)
  BY <1>5, PutPhaseFacts DEF Record, Stored
<1>6. CASE RecordFails(o)
  BY <1>6, PutPhaseFacts DEF RecordFails, Stored
<1> QED
  BY <1>1, <1>2, <1>3, <1>4, <1>5, <1>6 DEF CreateStep

\* The steps of upgrades and deletes keep the types of what a request knows.
LEMMA MemoryOtherStep ==
  ASSUME ClusterAssumption, TypeOK, NEW o \in Ops, Begun(o) => req[o] \in Requests, OtherStep(o)
  PROVE  MemoryOK'
<1> USE DEF Begun, TypeOK, MemoryOK, memory, history, Goto, TaskStatuses, Statuses, Pcs,
  HandlerPcs, CreatePcs, UpdatePcs, OtherPcs, CleanupPcs
<1>1. CASE Upgrade(o)
  BY <1>1, SetTaskFacts, SeenVappFacts DEF Upgrade, Running
<1>2. CASE UpgradeFails(o)
  BY <1>2 DEF UpgradeFails, Fails
<1>3. CASE RecordUpgrade(o)
  BY <1>3, PutPhaseFacts DEF RecordUpgrade, Stored
<1>4. CASE RecordUpgradeFails(o)
  BY <1>4, PutPhaseFacts DEF RecordUpgradeFails, Stored
<1>5. CASE DeleteVapp(o)
  BY <1>5 DEF DeleteVapp
<1>6. CASE DeleteVappFails(o)
  BY <1>6 DEF DeleteVappFails, Fails
<1>7. CASE Purge(o)
  BY <1>7 DEF Purge
<1>8. CASE PurgeRefused(o)
  BY <1>8 DEF PurgeRefused, Fails
<1>9. CASE Forget(o)
  BY <1>9 DEF Forget
<1>10. CASE ForgetFails(o)
  BY <1>10 DEF ForgetFails, CallFails
<1> QED
  BY <1>1, <1>2, <1>3, <1>4, <1>5, <1>6, <1>7, <1>8, <1>9, <1>10 DEF OtherStep

\* The steps of resizes and node deletions keep the types of what a request knows.
LEMMA MemoryUpdateStep ==
  ASSUME ClusterAssumption, TypeOK, NEW o \in Ops, Begun(o) => req[o] \in Requests, UpdateStep(o)
  PROVE  MemoryOK'
<1> USE DEF Begun, TypeOK, MemoryOK, memory, history, Goto, TaskStatuses, Statuses, Pcs,
  HandlerPcs, CreatePcs, UpdatePcs, OtherPcs, CleanupPcs
<1>1. CASE Monitor(o)
  BY <1>1 DEF Monitor, Continue, NextPc
<1>2. CASE MonitorFails(o)
  BY <1>2 DEF MonitorFails, CallFails
<1>3. CASE Add(o)
  BY <1>3, SawFacts, SetTaskFacts DEF Add, Running
<1>4. CASE AddFails(o)
  BY <1>4 DEF AddFails, CallFails, Fails
<1>5. CASE Grow(o)
  BY <1>5, SetTaskFacts DEF Grow, Running, Continue, NextPc
<1>6. CASE GrowFails(o)
  BY <1>6 DEF GrowFails, Fails
<1>7. CASE JoinFails(o)
  BY <1>7, SetTaskFacts DEF JoinFails, Fails, Running, Continue, NextPc
<1>8. CASE Del(o)
  BY <1>8, EntityFacts, SetTaskFacts DEF Del, Running
<1>9. CASE DelDies(o)
  BY <1>9 DEF DelDies, CallFails, Fails, Continue, NextPc
<1>10. CASE Shrink(o)
  BY <1>10, SetTaskFacts DEF Shrink, Running, Continue, NextPc
<1>11. CASE ShrinkFails(o)
  BY <1>11 DEF ShrinkFails, Fails
<1>12. CASE Fin(o)
  BY <1>12, SawFacts DEF Fin, AfterUpdate
<1>13. CASE FinFails(o)
  BY <1>13 DEF FinFails, CallFails
<1>14. CASE Finish(o)
  BY <1>14, PutPhaseFacts DEF Finish, AfterUpdate, Stored
<1>15. CASE FinishFails(o)
  BY <1>15, PutPhaseFacts DEF FinishFails, Stored
<1> QED
  BY <1>1, <1>2, <1>3, <1>4, <1>5, <1>6, <1>7, <1>8, <1>9, <1>10, <1>11, <1>12, <1>13, <1>14,
     <1>15
  DEF UpdateStep

\* The steps of the except blocks keep the types of what a request knows.
LEMMA MemoryCleanupStep ==
  ASSUME ClusterAssumption, TypeOK, NEW o \in Ops, Begun(o) => req[o] \in Requests, CleanupStep(o)
  PROVE  MemoryOK'
<1> USE DEF Begun, TypeOK, MemoryOK, memory, history, Goto, TaskStatuses, Statuses, Pcs,
  HandlerPcs, CreatePcs, UpdatePcs, OtherPcs, CleanupPcs
<1>1. CASE Fail(o)
  BY <1>1, PutPhaseFacts DEF Fail, AfterFail, Stored
<1>2. CASE Rollback(o)
  BY <1>2, SetTaskFacts DEF Rollback, Running
<1>3. CASE Undo(o)
  BY <1>3 DEF Undo, RemoveEntity, CallFails
<1>4. CASE Sync(o)
  BY <1>4, SawFacts DEF Sync, HasVapp
<1>5. CASE SyncNothing(o)
  BY <1>5 DEF SyncNothing, CallFails
<1>6. CASE Write(o)
  BY <1>6 DEF Write, Put, PutFails
<1>7. CASE Err(o)
<2>1. task' \in [Ops -> TaskStatuses]
  BY <1>7, EndTaskFacts DEF Err
<2>2. CASE child[o]
  <3>1. Continue(o, todo[o])
    BY <1>7, <2>2 DEF Err
  <3> QED
    BY <1>7, <2>1, <3>1 DEF Err, Continue, NextPc
<2>3. CASE ~child[o]
  BY <1>7, <2>1, <2>3 DEF Err
<2> QED
  BY <2>2, <2>3
<1>8. CASE Ok(o)
  BY <1>8, EndTaskFacts DEF Ok
<1> QED
  BY <1>1, <1>2, <1>3, <1>4, <1>5, <1>6, <1>7, <1>8 DEF CleanupStep

-----------------------------------------------------------------------------
(***************************************************************************)
(* What a step does to entities and vApps.                                 *)
(***************************************************************************)
\* The entity of a cluster is written by the request's own rules only.
LEMMA RdeSteps ==
  ASSUME ClusterAssumption, TypeOK, NEW o \in Ops, Begun(o) => BegunInv(o), Step(o)
  PROVE  RdeStep(o)
<1> USE DEF RdeStep, Begun
<1>0. Begun(o) => req[o] \in Requests
  BY DEF BegunInv
<1>1. CASE CheckCreate(o) \/ CheckEntity(o) \/ Refuse(o) \/ ReadInfo(o) \/ ReadNothing(o)
  BY <1>1 DEF CheckCreate, CheckEntity, Refuse, ReadInfo, ReadNothing
<1>2. CASE MakeVapp(o) \/ MakeVappRefused(o) \/ Deploy(o) \/ DeployFails(o)
  BY <1>2 DEF MakeVapp, MakeVappRefused, Deploy, DeployFails
<1>3. CASE \/ Upgrade(o) \/ UpgradeFails(o) \/ DeleteVapp(o) \/ DeleteVappFails(o)
           \/ Purge(o) \/ PurgeRefused(o) \/ ForgetFails(o)
  BY <1>3 DEF Upgrade, UpgradeFails, DeleteVapp, DeleteVappFails, Purge, PurgeRefused, ForgetFails
<1>4. CASE \/ Monitor(o) \/ MonitorFails(o) \/ Add(o) \/ AddFails(o)
           \/ Grow(o) \/ GrowFails(o) \/ JoinFails(o)
           \/ Del(o) \/ DelDies(o) \/ Shrink(o) \/ ShrinkFails(o) \/ Fin(o) \/ FinFails(o)
  BY <1>4 DEF Monitor, MonitorFails, Add, AddFails, Grow, GrowFails, JoinFails, Del, DelDies,
              Shrink, ShrinkFails, Fin, FinFails
<1>5. CASE Rollback(o) \/ Sync(o) \/ SyncNothing(o)
  BY <1>5 DEF Rollback, Sync, SyncNothing
<1> USE DEF Writes, Marks, EndsPhase, Goto
<1>6. CASE MarkBusy(o) \/ MarkBusyFails(o)
  <2>1. pc[o] = "set" /\ pc'[o] # "done"
    BY <1>6 DEF MarkBusy, MarkBusyFails, FirstPc, TypeOK
  <2>2. PutPhase(o, InProgress(o)) \/ PutPhaseFails(o, InProgress(o))
    BY <1>6 DEF MarkBusy, MarkBusyFails
  <2>3. UNCHANGED rde \/ (Stores(o, InProgress(o)) /\ wrote'[o] \in {"IN_PROGRESS", "LOST"})
    BY <1>0, <2>1, <2>2, PutPhaseFacts, EntityFacts DEF Stored, Stores
  <2> QED
    BY <1>0, <2>1, <2>3, EntityFacts DEF Stores
<1>7. ASSUME NEW e \in Stored(o), PutPhase(o, e) \/ PutPhaseFails(o, e),
             pc[o] \in {"reject", "abort", "record", "recordUpgrade", "finish", "fail"},
             \/ e \in {Phase(o, "FAILED"), Phase(o, "SUCCEEDED"), Updated(o)}
             \/ e = Created(o) /\ pc[o] = "record"
      PROVE  RdeStep(o)
  <2>1. UNCHANGED rde \/ Stores(o, e)
    BY <1>0, <1>7, PutPhaseFacts
  <2>2. ASSUME Stores(o, e)
        PROVE  e \in Entities /\ e.state = Rde(o).state /\ EndsPhase(o, e)
    BY <1>0, <1>7, <2>2, EntityFacts DEF Stored, Stores
  <2> QED
    BY <2>1, <2>2
<1>8. CASE RejectTemplate(o) \/ Fail(o)
  BY <1>7, <1>8 DEF RejectTemplate, Fail, Stored
<1>9. CASE AbortCreate(o)
  BY <1>7, <1>9 DEF AbortCreate, RemoveEntity, Stored, Stores
<1>10. CASE Record(o) \/ RecordFails(o)
  BY <1>7, <1>10 DEF Record, RecordFails, Stored
<1>11. CASE RecordUpgrade(o) \/ RecordUpgradeFails(o)
  BY <1>7, <1>11 DEF RecordUpgrade, RecordUpgradeFails, Stored
<1>12. CASE Finish(o) \/ FinishFails(o)
  BY <1>7, <1>12 DEF Finish, FinishFails, Stored
<1>13. CASE Forget(o) \/ Undo(o)
  BY <1>13 DEF Forget, Undo, RemoveEntity, Stores
<1>14. CASE StoreInfo(o) \/ Write(o)
  <2>1. UNCHANGED rde \/ Stores(o, SeenNodes(o))
    BY <1>14 DEF StoreInfo, Write, Put, PutFails, Stores
  <2> QED
    BY <1>0, <1>14, <2>1, EntityFacts DEF StoreInfo, Write, Stores
<1>15. CASE AnswerError(o)
  BY <1>0, <1>15, EndTaskFacts DEF AnswerError, TypeOK
<1>16. CASE Err(o)
  <2>1. Kind(o) = "create" => pc'[o] = "done"
    BY <1>16 DEF Err, BegunInv, ThreadInv, IsUpdate, Kind, TypeOK
  <2> QED
    BY <1>0, <1>16, <2>1, EndTaskFacts DEF Err
<1>17. CASE Ok(o)
  <2>1. pc[o] = "ok" /\ pc'[o] = "done" /\ EndTask(o, "SUCCESS")
    BY <1>17 DEF Ok, TypeOK
  <2> QED
    BY <1>0, <2>1, EndTaskFacts
<1> QED
  BY <1>1, <1>2, <1>3, <1>4, <1>5, <1>6, <1>8, <1>9, <1>10, <1>11, <1>12, <1>13, <1>14, <1>15,
     <1>16, <1>17
  DEF Step, HandlerStep, CreateStep, OtherStep, UpdateStep, CleanupStep

\* The vApp of a cluster is rewritten with other node counts.
LEMMA WithNodesFacts ==
  ASSUME ClusterAssumption, TypeOK, NEW o \in Ops, req[o] \in Requests, OwnVapp(Cluster(o)),
         NEW n \in Counts
  PROVE  WithNodes(Cluster(o), n) =
           [vapp EXCEPT ![Name(o)] = [cluster |-> Cluster(o), nodes |-> n]]
<1> DEFINE v == vapp[Name(o)]
<1>1. v \in Vapps /\ v.cluster = Cluster(o)
  BY VappFacts
<1>2. [v EXCEPT !.nodes = n] = [cluster |-> Cluster(o), nodes |-> n]
  BY <1>1 DEF Vapps
<1> HIDE DEF v
<1>3. WithNodes(Cluster(o), n) = [vapp EXCEPT ![Name(o)] = [v EXCEPT !.nodes = n]]
  BY RequestFacts DEF WithNodes, v
<1> QED
  BY <1>2, <1>3

\* The children change the counts of nodes within the natural numbers.
LEMMA AddNodesFacts ==
  ASSUME ClusterAssumption, TypeOK, NEW o \in Ops, req[o] \in Requests, OwnVapp(Cluster(o)),
         NEW w \in {0, MoreWorkers(o)}, NEW f \in {0, MoreNfs(o)}, AddNodes(o, w, f)
  PROVE  VappStep(o)
<1>1. w \in Nat /\ f \in Nat
  BY RequestFacts DEF TypeOK, MoreWorkers, MoreNfs, Surplus, Counts
<1> DEFINE n == [workers |-> vapp[Name(o)].nodes.workers + w, nfs |-> vapp[Name(o)].nodes.nfs + f]
<1>2. n \in Counts
  BY <1>1, VappFacts DEF Counts
<1>3. vapp' = WithNodes(Cluster(o), n)
  BY DEF AddNodes
<1> HIDE DEF n
<1> QED
  BY <1>2, <1>3, WithNodesFacts DEF VappStep

\* The removal of nodes leaves other vApps alone.
LEMMA RemoveNodesFacts ==
  ASSUME ClusterAssumption, TypeOK, NEW o \in Ops, req[o] \in Requests, RemoveNodes(o)
  PROVE  VappStep(o)
<1> DEFINE n == [workers |-> vapp[Name(o)].nodes.workers - LessWorkers(o),
                 nfs |-> vapp[Name(o)].nodes.nfs - LessNfs(o)]
<1>1. LessWorkers(o) \in Nat /\ LessNfs(o) \in Nat
  BY RequestFacts DEF TypeOK, LessWorkers, LessNfs, Surplus, Counts
<1>2. OwnVapp(Cluster(o)) /\ n \in Counts /\ vapp' = WithNodes(Cluster(o), n)
  BY <1>1, VappFacts DEF RemoveNodes, Counts
<1> HIDE DEF n
<1> QED
  BY <1>2, WithNodesFacts DEF VappStep

\* vApps are made for the cluster, changed when they are its own, and deleted.
LEMMA VappSteps ==
  ASSUME ClusterAssumption, TypeOK, NEW o \in Ops, Begun(o) => req[o] \in Requests, Step(o)
  PROVE  VappStep(o)
<1> USE DEF Begun
<1>1. CASE HandlerStep(o)
  BY <1>1 DEF HandlerStep, CheckCreate, CheckEntity, Refuse, RejectTemplate, MarkBusy,
     MarkBusyFails, AbortCreate, AnswerError, ReadInfo, ReadNothing, StoreInfo, VappStep
<1>2. CASE MakeVappRefused(o) \/ Record(o) \/ RecordFails(o)
  BY <1>2 DEF MakeVappRefused, Record, RecordFails, VappStep
<1>3. CASE MakeVapp(o)
  BY <1>3 DEF MakeVapp, VappStep, NoNodes, Counts
<1>4. CASE Deploy(o)
  BY <1>4, RequestFacts, WithNodesFacts DEF Deploy, VappStep
<1>5. CASE DeployFails(o)
  <2>1. CASE OwnVapp(Cluster(o))
    <3>1. PICK w \in {0, req[o].want.workers}, f \in {0, req[o].want.nfs} :
            vapp' = WithNodes(Cluster(o), [workers |-> w, nfs |-> f])
      BY <1>5, <2>1 DEF DeployFails
    <3>2. [workers |-> w, nfs |-> f] \in Counts
      BY <1>5, RequestFacts DEF DeployFails, Counts
    <3> QED
      BY <1>5, <2>1, <3>1, <3>2, WithNodesFacts DEF DeployFails, VappStep
  <2>2. CASE ~OwnVapp(Cluster(o))
    BY <1>5, <2>2 DEF DeployFails, VappStep
  <2> QED
    BY <2>1, <2>2
<1>6. CASE OtherStep(o)
  BY <1>6 DEF OtherStep, Upgrade, UpgradeFails, RecordUpgrade, RecordUpgradeFails, DeleteVapp,
     DeleteVappFails, Purge, PurgeRefused, Forget, ForgetFails, VappStep
<1>7. CASE \/ Monitor(o) \/ MonitorFails(o) \/ Add(o) \/ AddFails(o)
           \/ Del(o) \/ DelDies(o) \/ Fin(o) \/ FinFails(o) \/ Finish(o) \/ FinishFails(o)
  BY <1>7 DEF Monitor, MonitorFails, Add, AddFails, Del, DelDies, Fin, FinFails, Finish,
     FinishFails, VappStep
<1>8. CASE Grow(o)
  BY <1>8, AddNodesFacts DEF Grow
<1>9. CASE GrowFails(o)
  BY <1>9, AddNodesFacts DEF GrowFails, GrowPartly, VappStep
<1>10. CASE JoinFails(o)
  BY <1>10, AddNodesFacts DEF JoinFails
<1>11. CASE Shrink(o) \/ ShrinkFails(o)
  BY <1>11, RemoveNodesFacts DEF Shrink, ShrinkFails, VappStep
<1>12. CASE CleanupStep(o)
  BY <1>12 DEF CleanupStep, Fail, Rollback, Undo, Sync, SyncNothing, Write, Err, Ok, VappStep
<1> QED
  BY <1>1, <1>2, <1>3, <1>4, <1>5, <1>6, <1>7, <1>8, <1>9, <1>10, <1>11, <1>12
  DEF Step, CreateStep, UpdateStep

-----------------------------------------------------------------------------
(***************************************************************************)
(* What a request knows: its place, its threads, its task, what it stored. *)
(***************************************************************************)
\* The request that marks its cluster busy starts the work of its kind.
LEMMA PhaseBegins ==
  ASSUME ClusterAssumption, TypeOK, NEW o \in Ops, Begun(o) => BegunInv(o), MarkBusy(o)
  PROVE  BegunInv(o)'
<1>1. pc[o] = "set" /\ BegunInv(o) /\ req[o] \in Requests
  BY DEF MarkBusy, Begun, BegunInv
<1>2. wrote'[o] = "IN_PROGRESS"
  BY <1>1, PutPhaseFacts, EntityFacts DEF MarkBusy, Stored, Stores
<1>3. Kind(o) \in {"create", "resize", "upgrade", "delete", "deleteNfs"}
  BY <1>1, RequestFacts DEF BegunInv, PathInv, AllKinds, ForcePath, InfoPath
<1>4. /\ pc'[o] = FirstPc(o) /\ child'[o] = (FirstPc(o) = "del")
      /\ UNCHANGED <<req, todo, undo, seen, taskStatus, task>>
  BY DEF MarkBusy, Goto, TypeOK
<1>5. Kind(o)' = Kind(o) /\ (req[o] \in Requests)'
  BY <1>1, <1>4 DEF Kind
<1>6. /\ Kind(o) = "create" => FirstPc(o) = "makeVapp"
      /\ Kind(o) = "resize" => FirstPc(o) = "monitor"
      /\ Kind(o) = "upgrade" => FirstPc(o) = "upgrade"
      /\ Kind(o) = "delete" => FirstPc(o) = "deleteVapp"
      /\ Kind(o) = "deleteNfs" => FirstPc(o) = "del"
  BY DEF FirstPc, Kind
<1>7. PathInv(o)'
  BY <1>3, <1>4, <1>5, <1>6
  DEF PathInv, CreatePath, ResizePath, UpgradePath, NfsPath, DeletePath, CreatePcs, UpdatePcs
<1>8. FirstPc(o) \in {"makeVapp", "monitor", "upgrade", "deleteVapp", "del"}
      /\ (FirstPc(o) = "del" <=> Kind(o) = "deleteNfs")
  BY <1>3, <1>6
<1>9. ~undo[o] /\ (Kind(o) # "resize" => todo[o] = {})
  BY <1>1, <1>3 DEF BegunInv, ThreadInv
<1>10. ThreadInv(o)'
  BY <1>4, <1>5, <1>8, <1>9 DEF ThreadInv, WorkPcs, IsUpdate, Kind
<1>11. task[o] \notin {"SUCCESS", "ERROR"}
  BY <1>1 DEF BegunInv, TaskInv, HandlerPcs
<1>12. TaskInv(o)'
  BY <1>4, <1>11 DEF TaskInv
<1>13. WroteInv(o)'
  BY <1>2, <1>3, <1>4, <1>5, <1>8, <1>11 DEF WroteInv, BeforeBusy
<1> QED
  BY <1>5, <1>7, <1>10, <1>12, <1>13 DEF BegunInv

\* The steps of the handlers keep what a request knows consistent.
LEMMA LocalHandlerStep ==
  ASSUME ClusterAssumption, TypeOK, NEW o \in Ops, Begun(o) => BegunInv(o), HandlerStep(o)
  PROVE  BegunInv(o)'
<1> USE DEF Begun, Goto, TypeOK, memory, history, TaskStatuses, BegunInv, PathInv, ThreadInv,
  TaskInv, WroteInv, IsUpdate, PhaseKinds, AllKinds, Kind, AnyPcs, FailPcs, CreatePath,
  ResizePath, UpgradePath, NfsPath, DeletePath, ForcePath, InfoPath, WorkPcs, BeforeBusy, Pcs,
  HandlerPcs, CreatePcs, UpdatePcs, OtherPcs, CleanupPcs
<1>1. CASE CheckCreate(o)
  BY <1>1, RequestFacts, SetTaskFacts DEF CheckCreate, Running
<1>2. CASE CheckEntity(o)
  BY <1>2, RequestFacts, SawFacts, SetTaskFacts DEF CheckEntity, Running
<1>3. CASE Refuse(o)
  BY <1>3, RequestFacts DEF Refuse
<1>4. CASE RejectTemplate(o)
<2>1. wrote'[o] \in {"LOST", "FAILED"}
  BY <1>4, PutPhaseFacts, EntityFacts DEF RejectTemplate, Stored, Stores
<2> QED
  BY <1>4, <2>1, RequestFacts DEF RejectTemplate
<1>5. CASE MarkBusy(o)
  BY <1>5, PhaseBegins
<1>6. CASE MarkBusyFails(o)
<2>1. wrote'[o] = "LOST"
  BY <1>6, PutPhaseFacts, EntityFacts DEF MarkBusyFails, Stored, Stores
<2> QED
  BY <1>6, <2>1, RequestFacts DEF MarkBusyFails
<1>7. CASE AbortCreate(o)
<2>1. wrote'[o] \in {wrote[o], "LOST", "FAILED"}
  BY <1>7, PutPhaseFacts, EntityFacts DEF AbortCreate, Stored, Stores
<2> QED
  BY <1>7, <2>1, RequestFacts DEF AbortCreate
<1>8. CASE AnswerError(o)
  BY <1>8, RequestFacts, EndTaskFacts DEF AnswerError
<1>9. CASE ReadInfo(o)
  BY <1>9, RequestFacts, SawFacts DEF ReadInfo
<1>10. CASE ReadNothing(o)
  BY <1>10, RequestFacts DEF ReadNothing
<1>11. CASE StoreInfo(o)
  BY <1>11, RequestFacts DEF StoreInfo
<1> QED
  BY <1>1, <1>2, <1>3, <1>4, <1>5, <1>6, <1>7, <1>8, <1>9, <1>10, <1>11 DEF HandlerStep

\* The steps of a create keep what a request knows consistent.
LEMMA LocalCreateStep ==
  ASSUME ClusterAssumption, TypeOK, NEW o \in Ops, Begun(o) => BegunInv(o), CreateStep(o)
  PROVE  BegunInv(o)'
<1> USE DEF Begun, Goto, TypeOK, memory, history, TaskStatuses, BegunInv, PathInv, ThreadInv,
  TaskInv, WroteInv, IsUpdate, PhaseKinds, AllKinds, Kind, AnyPcs, FailPcs, CreatePath,
  ResizePath, UpgradePath, NfsPath, DeletePath, ForcePath, InfoPath, WorkPcs, BeforeBusy, Pcs,
  HandlerPcs, CreatePcs, UpdatePcs, OtherPcs, CleanupPcs
<1>1. CASE MakeVapp(o)
  BY <1>1, RequestFacts, SetTaskFacts, SeenVappFacts DEF MakeVapp, Running
<1>2. CASE MakeVappRefused(o)
  BY <1>2, RequestFacts DEF MakeVappRefused, Fails
<1>3. CASE Deploy(o)
  BY <1>3, RequestFacts DEF Deploy
<1>4. CASE DeployFails(o)
  BY <1>4, RequestFacts DEF DeployFails, Fails
<1>5. CASE Record(o)
<2>1. wrote'[o] = "SUCCEEDED"
  BY <1>5, PutPhaseFacts, EntityFacts DEF Record, Stored, Stores
<2> QED
  BY <1>5, <2>1, RequestFacts DEF Record
<1>6. CASE RecordFails(o)
<2>1. wrote'[o] = "LOST"
  BY <1>6, PutPhaseFacts, EntityFacts DEF RecordFails, Stored, Stores
<2> QED
  BY <1>6, <2>1, RequestFacts DEF RecordFails
<1> QED
  BY <1>1, <1>2, <1>3, <1>4, <1>5, <1>6 DEF CreateStep

\* The steps of upgrades and deletes keep what a request knows consistent.
LEMMA LocalOtherStep ==
  ASSUME ClusterAssumption, TypeOK, NEW o \in Ops, Begun(o) => BegunInv(o), OtherStep(o)
  PROVE  BegunInv(o)'
<1> USE DEF Begun, Goto, TypeOK, memory, history, TaskStatuses, BegunInv, PathInv, ThreadInv,
  TaskInv, WroteInv, IsUpdate, PhaseKinds, AllKinds, Kind, AnyPcs, FailPcs, CreatePath,
  ResizePath, UpgradePath, NfsPath, DeletePath, ForcePath, InfoPath, WorkPcs, BeforeBusy, Pcs,
  HandlerPcs, CreatePcs, UpdatePcs, OtherPcs, CleanupPcs
<1>1. CASE Upgrade(o)
  BY <1>1, RequestFacts, SetTaskFacts, SeenVappFacts DEF Upgrade, Running
<1>2. CASE UpgradeFails(o)
  BY <1>2, RequestFacts DEF UpgradeFails, Fails
<1>3. CASE RecordUpgrade(o)
<2>1. wrote'[o] = "SUCCEEDED"
  BY <1>3, PutPhaseFacts, EntityFacts DEF RecordUpgrade, Stored, Stores
<2> QED
  BY <1>3, <2>1, RequestFacts DEF RecordUpgrade
<1>4. CASE RecordUpgradeFails(o)
<2>1. wrote'[o] = "LOST"
  BY <1>4, PutPhaseFacts, EntityFacts DEF RecordUpgradeFails, Stored, Stores
<2> QED
  BY <1>4, <2>1, RequestFacts DEF RecordUpgradeFails
<1>5. CASE DeleteVapp(o)
  BY <1>5, RequestFacts DEF DeleteVapp
<1>6. CASE DeleteVappFails(o)
  BY <1>6, RequestFacts DEF DeleteVappFails, Fails
<1>7. CASE Purge(o)
  BY <1>7, RequestFacts DEF Purge
<1>8. CASE PurgeRefused(o)
  BY <1>8, RequestFacts DEF PurgeRefused, Fails
<1>9. CASE Forget(o)
  BY <1>9, RequestFacts DEF Forget
<1>10. CASE ForgetFails(o)
  BY <1>10, RequestFacts DEF ForgetFails
<1> QED
  BY <1>1, <1>2, <1>3, <1>4, <1>5, <1>6, <1>7, <1>8, <1>9, <1>10 DEF OtherStep

\* A thread that goes on with the rest of a resize keeps what it knows consistent.
LEMMA ContinueStep ==
  ASSUME ClusterAssumption, TypeOK, NEW o \in Ops, Begun(o) => BegunInv(o),
         pc[o] \in {"monitor", "grow"}, NEW left \in SUBSET {"add", "del"}, Continue(o, left),
         req' = req, undo' = undo, seen' = seen, wrote'[o] = wrote[o],
         task'[o] \in {task[o], "RUNNING"}
  PROVE  BegunInv(o)'
<1>1. BegunInv(o)
  BY DEF Begun
<1>2. Kind(o) = "resize" /\ Kind(o)' = "resize" /\ (req[o] \in Requests)'
  BY <1>1, RequestFacts DEF BegunInv, PathInv, Kind, AllKinds, CreatePath, UpgradePath, NfsPath,
     DeletePath, ForcePath, InfoPath, AnyPcs, FailPcs, CreatePcs
<1>3. /\ pc'[o] \in {"add", "del", "fin"} /\ (child'[o] <=> pc'[o] # "fin")
      /\ todo'[o] \subseteq {"add", "del"}
<2>1. /\ pc'[o] = NextPc(left) /\ child'[o] = (left # {})
      /\ todo'[o] = left \ {NextPc(left)}
  BY DEF Continue, Goto, TypeOK
<2>2. NextPc(left) \in {"add", "del", "fin"} /\ (NextPc(left) = "fin" <=> left = {})
  BY DEF NextPc
<2> QED
  BY <2>1, <2>2
<1>4. PathInv(o)'
<2>1. pc'[o] \in ResizePath
  BY <1>3 DEF ResizePath, UpdatePcs
<2> QED
  BY <1>2, <2>1 DEF PathInv
<1>5. ThreadInv(o)'
<2>1. ~undo[o]
  BY <1>1, <1>2 DEF BegunInv, ThreadInv
<2> QED
  BY <1>2, <1>3, <2>1 DEF ThreadInv, WorkPcs, IsUpdate, Kind
<1>6. TaskInv(o)'
  BY <1>1, <1>2, <1>3 DEF BegunInv, TaskInv, HandlerPcs, IsUpdate, Kind
<1>7. WroteInv(o)'
  BY <1>1, <1>2, <1>3 DEF BegunInv, WroteInv, TaskInv, BeforeBusy, PhaseKinds, IsUpdate, Kind
<1> QED
  BY <1>2, <1>4, <1>5, <1>6, <1>7 DEF BegunInv

\* The steps of a resize that go on with the rest of it.
LEMMA ResizeGoesOn ==
  ASSUME ClusterAssumption, TypeOK, NEW o \in Ops, Begun(o) => BegunInv(o),
         Monitor(o) \/ Grow(o) \/ JoinFails(o)
  PROVE  BegunInv(o)'
<1>1. CASE Monitor(o)
<2> DEFINE left == {c \in {"add", "del"} :
                     IF c = "add"
                       THEN req[o].want.workers > Rde(o).nodes.workers
                              \/ req[o].want.nfs > Rde(o).nodes.nfs
                       ELSE req[o].want.workers < Rde(o).nodes.workers}
<2>1. left \in SUBSET {"add", "del"} /\ Continue(o, left)
  BY <1>1 DEF Monitor
<2>2. UNCHANGED <<req, undo, seen, wrote, task>> /\ pc[o] = "monitor"
  BY <1>1 DEF Monitor, history
<2> HIDE DEF left
<2> QED
  BY <2>1, <2>2, ContinueStep
<1>2. CASE Grow(o) \/ JoinFails(o)
<2>1. /\ Continue(o, todo[o]) /\ pc[o] = "grow" /\ UNCHANGED <<req, undo, seen, wrote>>
      /\ SetTask(o, "RUNNING")
  BY <1>2 DEF Grow, JoinFails, Running, history
<2>2. task'[o] \in {task[o], "RUNNING"}
  BY <2>1, SetTaskFacts DEF TaskStatuses
<2>3. todo[o] \in SUBSET {"add", "del"}
  BY DEF TypeOK
<2> QED
  BY <2>1, <2>2, <2>3, ContinueStep
<1> QED
  BY <1>1, <1>2

\* The steps of resizes and node deletions keep what a request knows consistent.
LEMMA LocalUpdateStep ==
  ASSUME ClusterAssumption, TypeOK, NEW o \in Ops, Begun(o) => BegunInv(o), UpdateStep(o)
  PROVE  BegunInv(o)'
<1> USE DEF Begun, Goto, TypeOK, memory, history, TaskStatuses, BegunInv, PathInv, ThreadInv,
  TaskInv, WroteInv, IsUpdate, PhaseKinds, AllKinds, Kind, AnyPcs, FailPcs, CreatePath,
  ResizePath, UpgradePath, NfsPath, DeletePath, ForcePath, InfoPath, WorkPcs, BeforeBusy, Pcs,
  HandlerPcs, CreatePcs, UpdatePcs, OtherPcs, CleanupPcs
<1>1. CASE Monitor(o)
  BY <1>1, ResizeGoesOn
<1>2. CASE MonitorFails(o)
  BY <1>2, RequestFacts DEF MonitorFails
<1>3. CASE Add(o)
  BY <1>3, RequestFacts, SawFacts, SetTaskFacts DEF Add, Running
<1>4. CASE AddFails(o)
  BY <1>4, RequestFacts DEF AddFails, Fails
<1>5. CASE Grow(o)
  BY <1>5, ResizeGoesOn
<1>6. CASE GrowFails(o)
  BY <1>6, RequestFacts DEF GrowFails, Fails
<1>7. CASE JoinFails(o)
  BY <1>7, ResizeGoesOn
<1>8. CASE Del(o)
  BY <1>8, RequestFacts, SetTaskFacts DEF Del, Running
<1>9. CASE DelDies(o)
  BY <1>9, RequestFacts DEF DelDies, Fails, Continue, NextPc
<1>10. CASE Shrink(o)
<2>1. Kind(o) \in {"resize", "deleteNfs"} /\ child[o]
  BY <1>10, RequestFacts DEF Shrink
<2>2. CASE Kind(o) = "resize"
  BY <1>10, <2>2, SetTaskFacts DEF Shrink, Running, Continue, NextPc
<2>3. CASE Kind(o) = "deleteNfs"
  <3>1. todo[o] = {} /\ pc'[o] = "fin" /\ child'[o] = FALSE /\ todo'[o] = {} /\ pc[o] = "shrink"
    BY <1>10, <2>3 DEF Shrink, Continue, NextPc
  <3>2. task'[o] = "RUNNING"
    BY <1>10, <2>1, <2>3, <3>1, SetTaskFacts DEF Shrink, Running
  <3> QED
    BY <1>10, <2>3, <3>1, <3>2 DEF Shrink
<2> QED
  BY <2>1, <2>2, <2>3
<1>11. CASE ShrinkFails(o)
  BY <1>11, RequestFacts DEF ShrinkFails, Fails
<1>12. CASE Fin(o)
  BY <1>12, RequestFacts, SawFacts DEF Fin, AfterUpdate
<1>13. CASE FinFails(o)
  BY <1>13, RequestFacts DEF FinFails
<1>14. CASE Finish(o)
<2>1. wrote'[o] = IF taskStatus[o] = "ERROR" THEN "FAILED" ELSE "SUCCEEDED"
  BY <1>14, PutPhaseFacts, EntityFacts DEF Finish, Stored, Stores
<2> QED
  BY <1>14, <2>1, RequestFacts DEF Finish, AfterUpdate
<1>15. CASE FinishFails(o)
<2>1. wrote'[o] = "LOST"
  BY <1>15, PutPhaseFacts, EntityFacts DEF FinishFails, Stored, Stores
<2> QED
  BY <1>15, <2>1, RequestFacts DEF FinishFails
<1> QED
  BY <1>1, <1>2, <1>3, <1>4, <1>5, <1>6, <1>7, <1>8, <1>9, <1>10, <1>11, <1>12, <1>13, <1>14,
     <1>15
  DEF UpdateStep

\* The steps of the except blocks keep what a request knows consistent.
LEMMA LocalCleanupStep ==
  ASSUME ClusterAssumption, TypeOK, NEW o \in Ops, Begun(o) => BegunInv(o), CleanupStep(o)
  PROVE  BegunInv(o)'
<1> USE DEF Begun, Goto, TypeOK, memory, history, TaskStatuses, BegunInv, PathInv, ThreadInv,
  TaskInv, WroteInv, IsUpdate, PhaseKinds, AllKinds, Kind, AnyPcs, FailPcs, CreatePath,
  ResizePath, UpgradePath, NfsPath, DeletePath, ForcePath, InfoPath, WorkPcs, BeforeBusy, Pcs,
  HandlerPcs, CreatePcs, UpdatePcs, OtherPcs, CleanupPcs
<1>1. CASE Fail(o)
<2>1. wrote'[o] \in {"LOST", "FAILED"}
  BY <1>1, PutPhaseFacts, EntityFacts DEF Fail, Stored, Stores
<2> QED
  BY <1>1, <2>1, RequestFacts, SMTT(30) DEF Fail, AfterFail
<1>2. CASE Rollback(o)
  BY <1>2, RequestFacts, SetTaskFacts DEF Rollback, Running
<1>3. CASE Undo(o)
  BY <1>3, RequestFacts DEF Undo
<1>4. CASE Sync(o)
  BY <1>4, RequestFacts, SawFacts DEF Sync
<1>5. CASE SyncNothing(o)
  BY <1>5, RequestFacts DEF SyncNothing
<1>6. CASE Write(o)
  BY <1>6, RequestFacts DEF Write
<1>7. CASE Err(o)
  BY <1>7, RequestFacts, EndTaskFacts DEF Err, Continue, NextPc
<1>8. CASE Ok(o)
  BY <1>8, RequestFacts, EndTaskFacts DEF Ok
<1> QED
  BY <1>1, <1>2, <1>3, <1>4, <1>5, <1>6, <1>7, <1>8 DEF CleanupStep

-----------------------------------------------------------------------------
(***************************************************************************)
(* What a request says, and what was done.                                 *)
(***************************************************************************)
\* The steps of the handlers claim no more than was done.
LEMMA ResultHandlerStep ==
  ASSUME ClusterAssumption, TypeOK, NEW o \in Ops, Begun(o) => BegunInv(o), HandlerStep(o)
  PROVE  ResultStep(o)
<1> USE DEF Begun, Goto, Kind, IsUpdate, ResultStep, WroteStep, Claims, UpdateClaim,
  DeleteClaim, RollbackClaim, EarlyStep, Early, TypeOK, memory, history, TaskStatuses, BegunInv,
  ThreadInv, PathInv, WroteInv, TaskInv, AnyPcs, FailPcs, CreatePath, ResizePath, UpgradePath,
  NfsPath, DeletePath, ForcePath, InfoPath, WorkPcs, BeforeBusy, HandlerPcs, UpdatePcs,
  CreatePcs
<1>1. CASE CheckCreate(o)
  BY <1>1, RequestFacts, SetTaskFacts DEF CheckCreate, Running
<1>2. CASE CheckEntity(o)
  BY <1>2, RequestFacts, SawFacts, SetTaskFacts DEF CheckEntity, Allowed, Running
<1>3. CASE Refuse(o)
  BY <1>3, RequestFacts DEF Refuse, Allowed
<1>4. CASE RejectTemplate(o)
<2>1. WroteStep(o) /\ wrote'[o] \in {"LOST", "FAILED"}
  BY <1>4, PutPhaseFacts, EntityFacts DEF RejectTemplate, Stored, Stores
<2>2. UpdateClaim(o) /\ DeleteClaim(o) /\ RollbackClaim(o) /\ EarlyStep(o)
  BY <1>4, <2>1, RequestFacts DEF RejectTemplate
<2> QED
  BY <2>1, <2>2
<1>5. CASE MarkBusy(o)
<2>1. WroteStep(o) /\ wrote'[o] = "IN_PROGRESS"
  BY <1>5, PutPhaseFacts, EntityFacts DEF MarkBusy, Stored, Stores
<2>2. UpdateClaim(o) /\ DeleteClaim(o) /\ RollbackClaim(o) /\ EarlyStep(o)
  BY <1>5, <2>1, RequestFacts, SMTT(30) DEF MarkBusy, FirstPc
<2> QED
  BY <2>1, <2>2
<1>6. CASE MarkBusyFails(o)
  BY <1>6, RequestFacts, PutPhaseFacts, EntityFacts DEF MarkBusyFails, Stored
<1>7. CASE AbortCreate(o)
<2>1. WroteStep(o) /\ wrote'[o] \in {wrote[o], "LOST", "FAILED"}
  BY <1>7, PutPhaseFacts, EntityFacts DEF AbortCreate, Stored, Stores
<2>2. UpdateClaim(o) /\ DeleteClaim(o) /\ RollbackClaim(o) /\ EarlyStep(o)
  BY <1>7, <2>1, RequestFacts DEF AbortCreate
<2> QED
  BY <2>1, <2>2
<1>8. CASE AnswerError(o)
  BY <1>8, RequestFacts, EndTaskFacts DEF AnswerError
<1>9. CASE ReadInfo(o)
  BY <1>9, RequestFacts, SawFacts DEF ReadInfo
<1>10. CASE ReadNothing(o)
  BY <1>10, RequestFacts DEF ReadNothing
<1>11. CASE StoreInfo(o)
  BY <1>11, RequestFacts DEF StoreInfo
<1> QED
  BY <1>1, <1>2, <1>3, <1>4, <1>5, <1>6, <1>7, <1>8, <1>9, <1>10, <1>11 DEF HandlerStep

\* The steps of a create claim no more than was done.
LEMMA ResultCreateStep ==
  ASSUME ClusterAssumption, TypeOK, NEW o \in Ops, Begun(o) => BegunInv(o), CreateStep(o)
  PROVE  ResultStep(o)
<1> USE DEF Begun, Goto, Kind, IsUpdate, ResultStep, WroteStep, Claims, UpdateClaim,
  DeleteClaim, RollbackClaim, EarlyStep, Early, TypeOK, memory, history, TaskStatuses, BegunInv,
  ThreadInv, PathInv, WroteInv, TaskInv, AnyPcs, FailPcs, CreatePath, ResizePath, UpgradePath,
  NfsPath, DeletePath, ForcePath, InfoPath, WorkPcs, BeforeBusy, HandlerPcs, UpdatePcs,
  CreatePcs
<1>1. CASE MakeVapp(o)
  BY <1>1, RequestFacts, SetTaskFacts, SeenVappFacts DEF MakeVapp, Running
<1>2. CASE MakeVappRefused(o)
  BY <1>2, RequestFacts DEF MakeVappRefused, Fails
<1>3. CASE Deploy(o)
  BY <1>3, RequestFacts DEF Deploy
<1>4. CASE DeployFails(o)
  BY <1>4, RequestFacts DEF DeployFails, Fails
<1>5. CASE Record(o)
<2>1. WroteStep(o) /\ wrote'[o] = "SUCCEEDED"
  BY <1>5, PutPhaseFacts, EntityFacts DEF Record, Stored, Stores
<2>2. UpdateClaim(o) /\ DeleteClaim(o) /\ RollbackClaim(o) /\ EarlyStep(o)
  BY <1>5, <2>1, RequestFacts DEF Record
<2> QED
  BY <2>1, <2>2
<1>6. CASE RecordFails(o)
  BY <1>6, RequestFacts, PutPhaseFacts, EntityFacts DEF RecordFails, Stored
<1> QED
  BY <1>1, <1>2, <1>3, <1>4, <1>5, <1>6 DEF CreateStep

\* A recorded upgrade is the status SUCCEEDED in a stored RDE.
LEMMA UpgradeRecorded ==
  ASSUME ClusterAssumption, TypeOK, NEW o \in Ops, req[o] \in Requests, RecordUpgrade(o)
  PROVE  WroteStep(o) /\ wrote'[o] = "SUCCEEDED"
<1>1. Phase(o, "SUCCEEDED") \in Stored(o)
  BY DEF Stored
<1>2. Stores(o, Phase(o, "SUCCEEDED")) /\ wrote'[o] = Phase(o, "SUCCEEDED").status
  BY <1>1, PutPhaseFacts DEF RecordUpgrade
<1>3. Exists(Cluster(o))
  BY <1>2 DEF Stores
<1>4. Phase(o, "SUCCEEDED") \in Entities /\ Phase(o, "SUCCEEDED").status = "SUCCEEDED"
  BY <1>3, EntityFacts
<1> QED
  BY <1>2, <1>4 DEF WroteStep

\* The steps of upgrades and deletes claim no more than was done.
LEMMA ResultOtherStep ==
  ASSUME ClusterAssumption, TypeOK, NEW o \in Ops, Begun(o) => BegunInv(o), OtherStep(o)
  PROVE  ResultStep(o)
<1> USE DEF Begun, Goto, Kind, IsUpdate, ResultStep, WroteStep, Claims, UpdateClaim,
  DeleteClaim, RollbackClaim, EarlyStep, Early, TypeOK, memory, history, TaskStatuses, BegunInv,
  ThreadInv, PathInv, WroteInv, TaskInv, AnyPcs, FailPcs, CreatePath, ResizePath, UpgradePath,
  NfsPath, DeletePath, ForcePath, InfoPath, WorkPcs, BeforeBusy, HandlerPcs, UpdatePcs,
  CreatePcs
<1>1. CASE Upgrade(o)
  BY <1>1, RequestFacts, SetTaskFacts, SeenVappFacts DEF Upgrade, Running
<1>2. CASE UpgradeFails(o)
  BY <1>2, RequestFacts DEF UpgradeFails, Fails
<1>3. CASE RecordUpgrade(o)
<2>1. WroteStep(o) /\ wrote'[o] = "SUCCEEDED"
  BY <1>3, RequestFacts, UpgradeRecorded DEF RecordUpgrade
<2>2. UpdateClaim(o) /\ DeleteClaim(o) /\ RollbackClaim(o) /\ EarlyStep(o)
  BY <1>3, <2>1, RequestFacts DEF RecordUpgrade
<2> QED
  BY <2>1, <2>2
<1>4. CASE RecordUpgradeFails(o)
  BY <1>4, RequestFacts, PutPhaseFacts, EntityFacts DEF RecordUpgradeFails, Stored
<1>5. CASE DeleteVapp(o)
  BY <1>5, RequestFacts DEF DeleteVapp
<1>6. CASE DeleteVappFails(o)
  BY <1>6, RequestFacts DEF DeleteVappFails, Fails
<1>7. CASE Purge(o)
  BY <1>7, RequestFacts DEF Purge
<1>8. CASE PurgeRefused(o)
  BY <1>8, RequestFacts DEF PurgeRefused, Fails
<1>9. CASE Forget(o)
  BY <1>9, RequestFacts DEF Forget
<1>10. CASE ForgetFails(o)
  BY <1>10, RequestFacts DEF ForgetFails
<1> QED
  BY <1>1, <1>2, <1>3, <1>4, <1>5, <1>6, <1>7, <1>8, <1>9, <1>10 DEF OtherStep

\* The steps of resizes and node deletions claim no more than was done.
LEMMA ResultUpdateStep ==
  ASSUME ClusterAssumption, TypeOK, NEW o \in Ops, Begun(o) => BegunInv(o), UpdateStep(o)
  PROVE  ResultStep(o)
<1> USE DEF Begun, Goto, Kind, IsUpdate, ResultStep, WroteStep, Claims, UpdateClaim,
  DeleteClaim, RollbackClaim, EarlyStep, Early, TypeOK, memory, history, TaskStatuses, BegunInv,
  ThreadInv, PathInv, WroteInv, TaskInv, AnyPcs, FailPcs, CreatePath, ResizePath, UpgradePath,
  NfsPath, DeletePath, ForcePath, InfoPath, WorkPcs, BeforeBusy, HandlerPcs, UpdatePcs,
  CreatePcs
<1>1. CASE Monitor(o)
  BY <1>1, RequestFacts DEF Monitor, Continue, NextPc
<1>2. CASE MonitorFails(o)
  BY <1>2, RequestFacts DEF MonitorFails
<1>3. CASE Add(o)
  BY <1>3, RequestFacts, SawFacts, SetTaskFacts DEF Add, Running
<1>4. CASE AddFails(o)
  BY <1>4, RequestFacts DEF AddFails, Fails
<1>5. CASE Grow(o)
  BY <1>5, RequestFacts, SetTaskFacts DEF Grow, MoreWorkers, Running, Continue, Surplus, NextPc
<1>6. CASE GrowFails(o)
  BY <1>6, RequestFacts DEF GrowFails, Fails
<1>7. CASE JoinFails(o)
  BY <1>7, RequestFacts, SetTaskFacts
  DEF JoinFails, MoreWorkers, Fails, Running, Continue, Surplus, NextPc
<1>8. CASE Del(o)
  BY <1>8, RequestFacts, SetTaskFacts DEF Del, Running
<1>9. CASE DelDies(o)
  BY <1>9, RequestFacts DEF DelDies, Fails, Continue, NextPc
<1>10. CASE Shrink(o)
  BY <1>10, RequestFacts, SetTaskFacts DEF Shrink, Running, Continue, NextPc
<1>11. CASE ShrinkFails(o)
  BY <1>11, RequestFacts DEF ShrinkFails, Fails
<1>12. CASE Fin(o)
  BY <1>12, RequestFacts, SawFacts DEF Fin, AfterUpdate
<1>13. CASE FinFails(o)
  BY <1>13, RequestFacts DEF FinFails
<1>14. CASE Finish(o)
<2>1. WroteStep(o) /\ wrote'[o] \in {"FAILED", "SUCCEEDED"}
  BY <1>14, PutPhaseFacts, EntityFacts DEF Finish, Stored, Stores
<2>2. UpdateClaim(o) /\ DeleteClaim(o) /\ RollbackClaim(o) /\ EarlyStep(o)
  BY <1>14, <2>1, RequestFacts DEF Finish, AfterUpdate
<2> QED
  BY <2>1, <2>2
<1>15. CASE FinishFails(o)
  BY <1>15, RequestFacts, PutPhaseFacts, EntityFacts DEF FinishFails, Stored
<1> QED
  BY <1>1, <1>2, <1>3, <1>4, <1>5, <1>6, <1>7, <1>8, <1>9, <1>10, <1>11, <1>12, <1>13, <1>14,
     <1>15
  DEF UpdateStep

\* The steps of the except blocks claim no more than was done.
LEMMA ResultCleanupStep ==
  ASSUME ClusterAssumption, TypeOK, NEW o \in Ops, Begun(o) => BegunInv(o), CleanupStep(o)
  PROVE  ResultStep(o)
<1> USE DEF Begun, Goto, Kind, IsUpdate, ResultStep, WroteStep, Claims, UpdateClaim,
  DeleteClaim, RollbackClaim, EarlyStep, Early, TypeOK, memory, history, TaskStatuses, BegunInv,
  ThreadInv, PathInv, WroteInv, TaskInv, AnyPcs, FailPcs, CreatePath, ResizePath, UpgradePath,
  NfsPath, DeletePath, ForcePath, InfoPath, WorkPcs, BeforeBusy, HandlerPcs, UpdatePcs,
  CreatePcs
<1>1. CASE Fail(o)
<2>1. WroteStep(o) /\ wrote'[o] \in {"LOST", "FAILED"}
  BY <1>1, PutPhaseFacts, EntityFacts DEF Fail, Stored, Stores
<2>2. UpdateClaim(o) /\ DeleteClaim(o) /\ RollbackClaim(o) /\ EarlyStep(o)
  BY <1>1, <2>1, RequestFacts, SMTT(30) DEF Fail, AfterFail
<2> QED
  BY <2>1, <2>2
<1>2. CASE Rollback(o)
  BY <1>2, RequestFacts, SetTaskFacts DEF Rollback, Running
<1>3. CASE Undo(o)
<2>1. faults' = 0 => rde'[Cluster(o)] = Absent
  BY <1>3, RequestFacts DEF Undo, RemoveEntity, CallFails, Exists
<2> QED
  BY <1>3, <2>1, RequestFacts DEF Undo
<1>4. CASE Sync(o)
  BY <1>4, RequestFacts, SawFacts DEF Sync
<1>5. CASE SyncNothing(o)
  BY <1>5, RequestFacts DEF SyncNothing
<1>6. CASE Write(o)
  BY <1>6, RequestFacts DEF Write
<1>7. CASE Err(o)
  BY <1>7, RequestFacts, EndTaskFacts DEF Err, Continue, NextPc
<1>8. CASE Ok(o)
  BY <1>8, RequestFacts, EndTaskFacts DEF Ok
<1> QED
  BY <1>1, <1>2, <1>3, <1>4, <1>5, <1>6, <1>7, <1>8 DEF CleanupStep

-----------------------------------------------------------------------------
(***************************************************************************)
(* A step of one request preserves the invariant.                          *)
(***************************************************************************)
LEMMA StepFacts ==
  ASSUME ClusterAssumption, IInv, NEW o \in Ops, Step(o)
  PROVE  /\ Begun(o) /\ Frame(o) /\ RdeStep(o) /\ VappStep(o) /\ ResultStep(o)
         /\ BegunInv(o) /\ RelationInv(o) /\ BegunInv(o)' /\ TypeOK'
<1>1. TypeOK /\ (Begun(o) => BegunInv(o)) /\ RelationInv(o)
  BY DEF IInv, LocalInv
<1>2. Begun(o) => req[o] \in Requests
  BY <1>1 DEF BegunInv
<1>3. Frame(o)
  BY <1>1, FrameHandlerStep, FrameCreateStep, FrameOtherStep, FrameUpdateStep,
     FrameCleanupStep DEF Step
<1>4. Begun(o) /\ BegunInv(o)
  BY <1>1, <1>3 DEF Frame, Begun
<1>5. MemoryOK'
  BY <1>1, <1>2, MemoryHandlerStep, MemoryCreateStep, MemoryOtherStep, MemoryUpdateStep,
     MemoryCleanupStep
  DEF Step
<1>6. BegunInv(o)'
  BY <1>1, LocalHandlerStep, LocalCreateStep, LocalOtherStep, LocalUpdateStep,
     LocalCleanupStep DEF Step
<1>7. ResultStep(o)
  BY <1>1, ResultHandlerStep, ResultCreateStep, ResultOtherStep, ResultUpdateStep, ResultCleanupStep
  DEF Step
<1>8. RdeStep(o) /\ VappStep(o)
  BY <1>1, <1>2, RdeSteps, VappSteps
<1>9. rde' \in [Clusters -> Entities \cup {Absent}]
  BY <1>1, <1>2, <1>4, <1>8, RequestFacts DEF RdeStep, Stores, TypeOK
<1>10. vapp' \in [Names -> Vapps \cup {Absent}]
  <2>1. Name(o) \in Names /\ \A n \in Counts : [cluster |-> Cluster(o), nodes |-> n] \in Vapps
    BY <1>2, <1>4, RequestFacts DEF Vapps
  <2>2. PICK v \in Vapps \cup {Absent} : UNCHANGED vapp \/ vapp' = [vapp EXCEPT ![Name(o)] = v]
    BY <1>8, <2>1 DEF VappStep
  <2> QED
    BY <1>1, <2>1, <2>2 DEF TypeOK
<1>11. TypeOK'
  BY <1>5, <1>9, <1>10 DEF TypeOK, MemoryOK
<1> QED
  BY <1>1, <1>3, <1>4, <1>6, <1>7, <1>8, <1>11

\* The invariants of the request itself.
LEMMA OwnRelation ==
  ASSUME ClusterAssumption, IInv, NEW o \in Ops, Step(o)
  PROVE  RelationInv(o)'
<1>1. /\ Begun(o) /\ Frame(o) /\ RdeStep(o) /\ VappStep(o) /\ ResultStep(o)
      /\ BegunInv(o) /\ RelationInv(o) /\ BegunInv(o)' /\ TypeOK'
  BY StepFacts
<1>2. req' = req /\ (faults' = 0 => faults = 0) /\ pc[o] \notin {"idle", "done", "dead"}
  BY <1>1 DEF Frame
<1>3. /\ Cluster(o) \in Clusters /\ Name(o) \in Names /\ Name(o) = NameOf[Cluster(o)]
      /\ Kind(o) \in AllKinds /\ TypeOK
  BY <1>1, RequestFacts DEF BegunInv, IInv
<1>4. Cluster(o)' = Cluster(o) /\ Name(o)' = Name(o) /\ Kind(o)' = Kind(o) /\ IsUpdate(o)' = IsUpdate(o)
  BY <1>2 DEF Cluster, Name, Kind, IsUpdate
<1>5. Absent \notin Entities /\ Absent \notin Vapps
  BY DEF ClusterAssumption
<1>6. UnlinkedInv(o)'
  <2> SUFFICES ASSUME IsUpdate(o), wrote'[o] = "IN_PROGRESS", pc'[o] \in {"ok", "done"},
                      rde'[Cluster(o)] # Absent
               PROVE  ~rde'[Cluster(o)].linked
    BY <1>4 DEF UnlinkedInv, Exists, Rde
  <2>1. Exists(Cluster(o))
    BY <1>1, <1>3 DEF RdeStep, Stores, Exists
  <2>2. ~Rde(o).linked
    BY <1>1, <2>1 DEF ResultStep, UpdateClaim, RelationInv, UnlinkedInv
  <2>3. pc[o] # "record"
    BY <1>1, <1>3 DEF BegunInv, PathInv, IsUpdate, Kind, ResizePath, NfsPath, AnyPcs, FailPcs,
       UpdatePcs
  <2> QED
    BY <1>1, <1>3, <2>1, <2>2, <2>3 DEF RdeStep, Stores, Writes, Marks, EndsPhase, Rde, TypeOK
<1>7. DeletedInv(o)'
  <2>1. ASSUME Kind(o) = "delete", Claims(o), seen'[o].linked
        PROVE  vapp'[Name(o)] = Absent \/ vapp'[Name(o)].cluster # Cluster(o)
    BY <1>1, <1>3, <2>1 DEF ResultStep, DeleteClaim, RelationInv, DeletedInv, OwnVapp
  <2>2. ASSUME Kind(o) = "forceDelete", Claims(o)
        PROVE  rde'[Cluster(o)] = Absent
    <3>1. CASE pc[o] = "ok"
      BY <1>1, <1>3, <2>2, <3>1 DEF RelationInv, DeletedInv, RdeStep, Stores, Exists
    <3> QED
      BY <1>1, <2>2, <3>1 DEF ResultStep, DeleteClaim
  <2> QED
    BY <1>3, <1>4, <2>1, <2>2 DEF DeletedInv, Claims, OwnVapp, Exists
<1>8. RolledBackInv(o)'
  <2> SUFFICES ASSUME undo'[o], faults' = 0
               PROVE  /\ pc'[o] \in {"undo", "err", "done"} =>
                           vapp'[Name(o)] = Absent \/ vapp'[Name(o)].cluster # Cluster(o)
                      /\ pc'[o] \in {"err", "done"} => rde'[Cluster(o)] = Absent
    BY <1>3, <1>4 DEF RolledBackInv, OwnVapp, Exists
  <2>1. CASE pc'[o] = "undo"
    BY <1>1, <2>1 DEF ResultStep, RollbackClaim
  <2>2. CASE pc'[o] \in {"err", "done"}
    <3>1. pc[o] \in {"undo", "err"} /\ UNCHANGED vapp /\ faults = 0
      BY <1>1, <1>2, <2>2 DEF ResultStep, RollbackClaim
    <3>2. undo[o] /\ (pc'[o] = "done" => pc[o] = "err")
      BY <1>1, <2>2 DEF ResultStep, RollbackClaim
    <3>3. /\ ~OwnVapp(Cluster(o))
          /\ pc[o] = "err" => rde[Cluster(o)] = Absent
      BY <1>1, <3>1, <3>2 DEF RelationInv, RolledBackInv, Exists
    <3>4. pc[o] = "err" => rde'[Cluster(o)] = Absent
      BY <1>1, <3>3 DEF RdeStep, Stores, Exists
    <3>5. pc'[o] = "err" => rde'[Cluster(o)] = Absent
      BY <1>1 DEF ResultStep, RollbackClaim
    <3> QED
      BY <1>3, <2>2, <3>1, <3>2, <3>3, <3>4, <3>5 DEF OwnVapp
  <2> QED
    BY <2>1, <2>2
<1>9. StateInv(o)'
  <2> SUFFICES ASSUME Kind(o) = "create", pc'[o] # "done", rde'[Cluster(o)] # Absent
               PROVE  rde'[Cluster(o)].state = "PRE_CREATED"
    BY <1>4 DEF StateInv, Exists, Rde
  <2> QED
    BY <1>1, <1>2, <1>3
    DEF RdeStep, Stores, Writes, Exists, Rde, RelationInv, StateInv, TypeOK
<1> QED
  BY <1>6, <1>7, <1>8, <1>9 DEF RelationInv

\* The other requests keep theirs: what a step does to the entity and to the vApp of
\* a cluster harms no other request on it, for only its create links and makes a vApp.
LEMMA OtherRelation ==
  ASSUME ClusterAssumption, IInv, NEW o \in Ops, Step(o), NEW p \in Ops, p # o
  PROVE  LocalInv(p)' /\ RelationInv(p)'
<1>1. /\ Begun(o) /\ Frame(o) /\ RdeStep(o) /\ VappStep(o) /\ BegunInv(o)
      /\ LocalInv(p) /\ RelationInv(p) /\ OrderInv /\ TypeOK
  BY StepFacts DEF IInv
<1>2. /\ req' = req /\ (faults' = 0 => faults = 0) /\ pc[o] \notin {"idle", "done", "dead"}
      /\ pc'[p] = pc[p] /\ child'[p] = child[p] /\ todo'[p] = todo[p] /\ undo'[p] = undo[p]
      /\ seen'[p] = seen[p] /\ taskStatus'[p] = taskStatus[p] /\ task'[p] = task[p]
      /\ wrote'[p] = wrote[p]
  BY <1>1 DEF Frame
<1>3. LocalInv(p)'
  BY <1>1, <1>2 DEF LocalInv, IdleInv, BegunInv, PathInv, ThreadInv, TaskInv, WroteInv, Begun,
     Kind, IsUpdate
<1>4. ASSUME Begun(p) PROVE RelationInv(p)'
  <2>1. BegunInv(p) /\ UnlinkedInv(p) /\ DeletedInv(p) /\ RolledBackInv(p) /\ StateInv(p)
    BY <1>1, <1>4 DEF LocalInv, RelationInv
  <2>2. /\ Cluster(o) \in Clusters /\ Name(o) \in Names /\ Name(o) = NameOf[Cluster(o)]
        /\ Kind(o) \in AllKinds
        /\ Cluster(p) \in Clusters /\ Name(p) \in Names /\ Name(p) = NameOf[Cluster(p)]
        /\ Absent \notin Entities
    BY <1>1, <2>1, RequestFacts DEF BegunInv, ClusterAssumption
  <2>3. /\ Cluster(p)' = Cluster(p) /\ Kind(p)' = Kind(p) /\ IsUpdate(p)' = IsUpdate(p)
    BY <1>2 DEF Cluster, Kind, IsUpdate
  <2>4. pc[o] \in {"makeVapp", "record"} => Kind(o) = "create"
    BY <1>1, <2>2 DEF BegunInv, PathInv, AllKinds, ResizePath, UpgradePath, NfsPath, DeletePath,
       ForcePath, InfoPath, AnyPcs, FailPcs, UpdatePcs
  <2>5. Kind(o) = "create" /\ Cluster(o) = Cluster(p) => Kind(p) # "create" /\ Early(p)
    BY <1>1, <1>2, <1>4 DEF OrderInv
  <2>6. ~Exists(Cluster(p)) => rde'[Cluster(p)] = Absent
    BY <1>1, <2>2 DEF RdeStep, Stores, Exists, TypeOK
  <2>7. UnlinkedInv(p)'
    <3> SUFFICES ASSUME IsUpdate(p), wrote[p] = "IN_PROGRESS", pc[p] \in {"ok", "done"},
                        rde'[Cluster(p)] # Absent
                 PROVE  ~rde'[Cluster(p)].linked
      BY <1>2, <2>3 DEF UnlinkedInv, Exists, Rde
    <3>1. Exists(Cluster(p)) /\ ~Rde(p).linked
      BY <2>1, <2>6 DEF UnlinkedInv
    <3>2. CASE Cluster(o) # Cluster(p)
      BY <1>1, <2>2, <3>1, <3>2 DEF RdeStep, Stores, Rde, TypeOK
    <3>3. CASE Cluster(o) = Cluster(p)
      <4>1. pc[o] # "record"
        BY <2>4, <2>5, <3>3 DEF Early
      <4> QED
        BY <1>1, <2>2, <3>1, <3>3, <4>1 DEF RdeStep, Stores, Writes, Marks, EndsPhase, Rde, TypeOK
    <3> QED
      BY <3>2, <3>3
  <2>8. ~OwnVapp(Cluster(p)) /\ ~Early(p) => ~OwnVapp(Cluster(p))'
    <3> SUFFICES ASSUME ~OwnVapp(Cluster(p)), ~Early(p)
                 PROVE  vapp'[Name(p)] = Absent \/ vapp'[Name(p)].cluster # Cluster(p)
      BY <2>2, <2>3 DEF OwnVapp
    <3>1. CASE Cluster(o) # Cluster(p)
      BY <1>1, <2>2, <3>1 DEF VappStep, OwnVapp, TypeOK
    <3>2. CASE Cluster(o) = Cluster(p)
      <4>1. pc[o] # "makeVapp" /\ ~OwnVapp(Cluster(o))
        BY <2>4, <2>5, <3>2
      <4> QED
        BY <1>1, <2>2, <3>2, <4>1 DEF VappStep, OwnVapp, TypeOK
    <3> QED
      BY <3>1, <3>2
  <2>9. DeletedInv(p)'
    BY <1>2, <2>1, <2>3, <2>6, <2>8 DEF DeletedInv, Early, Exists
  <2>10. RolledBackInv(p)'
    <3>1. undo[p] => ~Early(p)
      BY <2>1 DEF BegunInv, ThreadInv, Early
    <3> QED
      BY <1>2, <2>1, <2>3, <2>6, <2>8, <3>1 DEF RolledBackInv, Exists
  <2>11. StateInv(p)'
    <3> SUFFICES ASSUME Kind(p) = "create", pc[p] # "done", rde'[Cluster(p)] # Absent
                 PROVE  rde'[Cluster(p)].state = "PRE_CREATED"
      BY <1>2, <2>3 DEF StateInv, Exists, Rde
    <3>1. Exists(Cluster(p)) /\ Rde(p).state = "PRE_CREATED"
      BY <2>1, <2>6 DEF StateInv
    <3>2. CASE Cluster(o) # Cluster(p)
      BY <1>1, <2>2, <3>1, <3>2 DEF RdeStep, Stores, Rde, TypeOK
    <3>3. CASE Cluster(o) = Cluster(p)
      BY <1>1, <2>2, <2>5, <3>1, <3>3 DEF RdeStep, Stores, Writes, Rde, TypeOK
    <3> QED
      BY <3>2, <3>3
  <2> QED
    BY <2>7, <2>9, <2>10, <2>11 DEF RelationInv
<1>5. Begun(p)' => Begun(p)
  BY <1>2 DEF Begun
<1> QED
  BY <1>3, <1>4, <1>5 DEF RelationInv

\* A create stays the first of its cluster.
LEMMA OrderStep ==
  ASSUME ClusterAssumption, IInv, NEW o \in Ops, Step(o)
  PROVE  OrderInv'
<1>1. /\ Begun(o) /\ Frame(o) /\ ResultStep(o) /\ OrderInv
      /\ \A p \in Ops : RelationInv(p)
  BY StepFacts DEF IInv
<1>2. /\ req' = req /\ pc[o] \notin {"idle", "done", "dead"}
      /\ \A p \in Ops \ {o} : pc'[p] = pc[p] /\ wrote'[p] = wrote[p]
  BY <1>1 DEF Frame
<1>3. \A p \in Ops : Cluster(p)' = Cluster(p) /\ Kind(p)' = Kind(p) /\ (Begun(p)' => Begun(p))
  BY <1>1, <1>2 DEF Cluster, Kind, Begun
<1> SUFFICES ASSUME NEW a \in Ops, NEW b \in Ops, Begun(a), Begun(b), a # b,
                    Cluster(a) = Cluster(b), Kind(a) = "create"
             PROVE  Kind(b) # "create" /\ (pc'[a] = "done" \/ Early(b)')
  BY <1>3 DEF OrderInv
<1>4. Kind(b) # "create" /\ (pc[a] = "done" \/ Early(b))
  BY <1>1 DEF OrderInv
<1>5. CASE b # o
  BY <1>2, <1>3, <1>4, <1>5 DEF Early
<1>6. CASE b = o
  <2>1. pc'[a] = pc[a]
    BY <1>2, <1>6
  <2>2. ASSUME Exists(Cluster(b)), Rde(b).state = "RESOLVED"
        PROVE  pc[a] = "done"
    BY <1>1, <2>2 DEF RelationInv, StateInv, Rde
  <2> QED
    BY <1>1, <1>4, <1>6, <2>1, <2>2 DEF ResultStep, EarlyStep
<1> QED
  BY <1>5, <1>6

\* A busy cluster goes on naming the request that has to end its phase.
LEMMA BusyStep ==
  ASSUME ClusterAssumption, IInv, NEW o \in Ops, Step(o)
  PROVE  BusyInv'
<1>1. /\ Begun(o) /\ Frame(o) /\ RdeStep(o) /\ ResultStep(o)
      /\ BegunInv(o) /\ BegunInv(o)' /\ TypeOK /\ TypeOK' /\ BusyInv
  BY StepFacts DEF IInv
<1>2. /\ req' = req /\ pc[o] \notin {"idle", "done", "dead"} /\ pc'[o] \notin {"idle", "dead"}
      /\ \A p \in Ops \ {o} : pc'[p] = pc[p] /\ wrote'[p] = wrote[p]
  BY <1>1 DEF Frame
<1>3. /\ Cluster(o) \in Clusters /\ Absent \notin Entities
      /\ \A p \in Ops : /\ Cluster(p)' = Cluster(p) /\ PhaseOp(p)' = PhaseOp(p)
                        /\ IsUpdate(p)' = IsUpdate(p)
  BY <1>1, <1>2, RequestFacts DEF BegunInv, ClusterAssumption, Cluster, PhaseOp, IsUpdate
<1> SUFFICES ASSUME NEW k \in Clusters, rde'[k] # Absent, rde'[k].status = "IN_PROGRESS",
                    NEW CONSTANT q, q = rde'[k].task
             PROVE  Holds(q, k)'
  BY DEF BusyInv, Busy, Exists
<1>4. wrote'[o] = "IN_PROGRESS" /\ pc'[o] = "done" /\ Cluster(o) = k => IsUpdate(o)
  <2>1. wrote'[o] = "IN_PROGRESS" /\ pc'[o] = "done" => Kind(o) = "delete" \/ IsUpdate(o)
    BY <1>1, <1>2 DEF BegunInv, WroteInv, Kind, IsUpdate
  <2> QED
    BY <1>1, <2>1 DEF ResultStep, DeleteClaim
<1>5. CASE /\ Cluster(o) = k
           /\ \E e \in Entities : Stores(o, e) /\ Marks(o, e)
  <2>1. PICK e \in Entities : Stores(o, e) /\ Marks(o, e)
    BY <1>5
  <2>2. rde'[k] = e
    BY <1>1, <1>5, <2>1 DEF Stores, TypeOK
  <2> QED
    BY <1>2, <1>3, <1>5, <2>1, <2>2 DEF Marks, Holds, Begun
<1>6. CASE Exists(k) /\ SamePhase(rde[k], rde'[k])
  <2>1. q = rde[k].task /\ rde'[k].op = rde[k].op /\ Holds(q, k)
    BY <1>6 , <1>1 DEF BusyInv, Busy, SamePhase
  <2>2. q \in Ops /\ Begun(q)'
    BY <1>2, <2>1 DEF Begun, Holds
  <2>3. CASE q # o
    BY <1>2, <1>3, <2>1, <2>2, <2>3 DEF Holds
  <2>4. CASE q = o
    <3>1. Cluster(o) = k /\ wrote[o] \in {"IN_PROGRESS", "LOST"} /\ PhaseOp(o) = rde[k].op
      BY <2>1, <2>4 DEF Holds
    <3>2. wrote'[o] \in {"LOST", "IN_PROGRESS"}
      BY <1>1, <1>3, <3>1 DEF ResultStep, WroteStep, Stores, TypeOK
    <3> QED
      BY <1>3, <1>4, <2>1, <2>2, <2>4, <3>1, <3>2 DEF Holds
  <2> QED
    BY <2>1, <2>3, <2>4
<1>7. \/ Exists(k) /\ SamePhase(rde[k], rde'[k])
      \/ Cluster(o) = k /\ \E e \in Entities : Stores(o, e) /\ Marks(o, e)
  <2>1. CASE UNCHANGED rde
    BY <2>1 DEF Exists, SamePhase
  <2>2. CASE Stores(o, Absent)
    BY <1>1, <1>3, <2>2 DEF Stores, Exists, SamePhase, TypeOK
  <2>3. ASSUME NEW e \in Entities, Stores(o, e), Writes(o, e)
        PROVE  <1>7!1 \/ <1>7!2
    <3>1. CASE Cluster(o) # k
      BY <1>1, <1>3, <2>3, <3>1 DEF Stores, Exists, SamePhase, TypeOK
    <3>2. CASE Cluster(o) = k
      <4>1. Exists(k) /\ rde'[k] = e
        BY <1>1, <1>3, <2>3, <3>2 DEF Stores, Exists, TypeOK
      <4> QED
        BY <2>3, <3>2, <4>1 DEF Writes, EndsPhase, Rde
    <3> QED
      BY <3>1, <3>2
  <2> QED
    BY <1>1, <2>1, <2>2, <2>3 DEF RdeStep
<1> QED
  BY <1>5, <1>6, <1>7

-----------------------------------------------------------------------------
(***************************************************************************)
(* The other steps: a request begins, the server crashes.                  *)
(***************************************************************************)
LEMMA BeginStep ==
  ASSUME ClusterAssumption, IInv, NEW o \in Ops, NEW r \in Requests, Begin(o, r)
  PROVE  IInv'
<1>1. /\ TypeOK /\ OrderInv /\ BusyInv /\ IdleInv(o)
      /\ \A p \in Ops : LocalInv(p) /\ RelationInv(p)
  BY DEF IInv, LocalInv, Begin, Begun
<1>2. /\ r.cluster \in Clusters /\ r.kind \in AllKinds
      /\ Absent \notin Entities /\ NewEntity \in Entities
  BY DEF Requests, AllKinds, ClusterAssumption, NewEntity, Entities, NoNodes, Counts, States,
     PhaseOps, Statuses
<1>3. /\ pc[o] = "idle" /\ pc' = [pc EXCEPT ![o] = IF r.kind = "info" THEN "read" ELSE "get"]
      /\ req' = [req EXCEPT ![o] = r]
      /\ UNCHANGED <<vapp, child, todo, undo, seen, taskStatus, task, wrote, failed, faults, crashes>>
  BY DEF Begin, Goto, memory, history
<1>5. /\ rde' = IF r.kind = "create" THEN [rde EXCEPT ![r.cluster] = NewEntity] ELSE rde
      /\ Accepts(r.kind, r.cluster)
  BY DEF Begin
<1>6. /\ pc'[o] \in {"get", "read"} /\ (pc'[o] = "read" <=> r.kind = "info")
      /\ Cluster(o)' = r.cluster /\ Kind(o)' = r.kind /\ (IsUpdate(o)' <=> r.kind \in {"resize", "deleteNfs"})
      /\ Begun(o)'
  BY <1>1, <1>3 DEF TypeOK, Cluster, Kind, IsUpdate, Begun
<1>7. \A p \in Ops \ {o} :
        /\ pc'[p] = pc[p] /\ req'[p] = req[p] /\ (Begun(p)' <=> Begun(p))
        /\ Cluster(p)' = Cluster(p) /\ Kind(p)' = Kind(p) /\ (IsUpdate(p)' <=> IsUpdate(p))
        /\ PhaseOp(p)' = PhaseOp(p)
  BY <1>1, <1>3 DEF TypeOK, Cluster, Kind, IsUpdate, Begun, PhaseOp
<1>8. \A p \in Ops \ {o} : Begun(p) => rde'[Cluster(p)] = rde[Cluster(p)]
                                       /\ (r.kind = "create" => Cluster(p) # r.cluster)
  BY <1>1, <1>2, <1>5 DEF Accepts, Begun, TypeOK
<1>9. TypeOK'
  <2>1. rde' \in [Clusters -> Entities \cup {Absent}]
    BY <1>1, <1>2, <1>5 DEF TypeOK
  <2>2. pc' \in [Ops -> Pcs] /\ req' \in [Ops -> Requests \cup {Absent}]
    BY <1>1, <1>3 DEF TypeOK, Pcs, HandlerPcs
  <2> QED
    BY <1>1, <1>3, <2>1, <2>2 DEF TypeOK
<1>10. LocalInv(o)' /\ RelationInv(o)'
  <2>1. /\ ~child'[o] /\ todo'[o] = {} /\ ~undo'[o] /\ task'[o] = "NONE" /\ wrote'[o] = "NONE"
        /\ req'[o] = r
    BY <1>1, <1>3 DEF IdleInv, TypeOK
  <2>2. PathInv(o)' /\ ThreadInv(o)' /\ TaskInv(o)' /\ WroteInv(o)'
    BY <1>2, <1>6, <2>1 DEF PathInv, ThreadInv, TaskInv, WroteInv, PhaseKinds, AnyPcs, FailPcs,
       CreatePath, ResizePath, UpgradePath, NfsPath, DeletePath, ForcePath, InfoPath, WorkPcs,
       BeforeBusy
  <2>3. StateInv(o)'
    BY <1>1, <1>2, <1>5, <1>6 DEF StateInv, Exists, Rde, NewEntity, TypeOK
  <2> QED
    BY <1>6, <2>1, <2>2, <2>3 DEF LocalInv, BegunInv, RelationInv, UnlinkedInv, DeletedInv,
       RolledBackInv
<1>11. ASSUME NEW p \in Ops, p # o PROVE LocalInv(p)' /\ RelationInv(p)'
  <2>1. LocalInv(p)'
    BY <1>1, <1>3, <1>7, <1>11 DEF LocalInv, IdleInv, BegunInv, PathInv, ThreadInv, TaskInv,
       WroteInv
  <2>2. RelationInv(p)'
    BY <1>1, <1>3, <1>7, <1>8, <1>11
    DEF RelationInv, UnlinkedInv, DeletedInv, RolledBackInv, StateInv, Exists, Rde, OwnVapp
  <2> QED
    BY <2>1, <2>2
<1>12. OrderInv'
  <2> SUFFICES ASSUME NEW a \in Ops, NEW b \in Ops, Begun(a)', Begun(b)', a # b,
                      Cluster(a)' = Cluster(b)', Kind(a)' = "create"
               PROVE  Kind(b)' # "create" /\ (pc'[a] = "done" \/ Early(b)')
    BY DEF OrderInv
  <2>1. CASE a # o /\ b # o
    BY <1>1, <1>3, <1>7, <2>1 DEF OrderInv, Early
  <2>2. CASE a = o
    BY <1>6, <1>7, <1>8, <2>2
  <2>3. CASE b = o
    <3>1. /\ Begun(a) /\ Kind(a) = "create" /\ Cluster(a) = r.cluster
          /\ pc'[a] = pc[a] /\ r.kind # "create"
      BY <1>6, <1>7, <1>8, <2>3
    <3>2. Exists(r.cluster) /\ (r.kind \in {"resize", "upgrade", "info"} \/ rde[r.cluster].state # "PRE_CREATED")
      BY <1>5, <3>1 DEF Accepts
    <3>3. pc[a] # "done" => r.kind \in {"resize", "upgrade", "info"}
      BY <1>1, <3>1, <3>2 DEF RelationInv, StateInv, Rde
    <3> QED
      BY <1>1, <1>3, <1>6, <2>3, <3>1, <3>3 DEF Early, IdleInv
  <2> QED
    BY <2>1, <2>2, <2>3
<1>13. BusyInv'
  <2> SUFFICES ASSUME NEW k \in Clusters, rde'[k] # Absent, rde'[k].status = "IN_PROGRESS",
                      NEW CONSTANT q, q = rde'[k].task
               PROVE  Holds(q, k)'
    BY DEF BusyInv, Busy, Exists
  <2>1. rde'[k] = rde[k]
    BY <1>1, <1>2, <1>5 DEF TypeOK, NewEntity
  <2>2. Holds(q, k) /\ q # o
    BY <1>1, <1>3, <2>1 DEF BusyInv, Busy, Exists, Holds, Begun
  <2> QED
    BY <1>3, <1>7, <2>1, <2>2 DEF Holds
<1> QED
  BY <1>9, <1>10, <1>11, <1>12, <1>13 DEF IInv

\* A crash stops every thread of the server and changes nothing that is stored.
LEMMA CrashStep ==
  ASSUME ClusterAssumption, IInv, Crash
  PROVE  IInv'
<1>1. /\ TypeOK /\ OrderInv /\ BusyInv
      /\ \A p \in Ops : LocalInv(p) /\ RelationInv(p)
  BY DEF IInv
<1>2. /\ \A p \in Ops : pc'[p] = IF pc[p] \in {"idle", "done"} THEN pc[p] ELSE "dead"
      /\ UNCHANGED <<rde, vapp, req, child, todo, undo, seen, taskStatus, task, wrote, failed, faults>>
  BY DEF Crash, memory, history
<1>3. \A p \in Ops :
        /\ Begun(p)' <=> Begun(p)
        /\ Cluster(p)' = Cluster(p) /\ Kind(p)' = Kind(p) /\ (IsUpdate(p)' <=> IsUpdate(p))
        /\ PhaseOp(p)' = PhaseOp(p)
  BY <1>2 DEF Begun, Cluster, Kind, IsUpdate, PhaseOp
<1>4. TypeOK'
  <2>1. pc' \in [Ops -> Pcs] /\ crashes' \in 0..MaxCrashes
    BY <1>1 DEF TypeOK, Crash, Pcs, ClusterAssumption
  <2> QED
    BY <1>1, <1>2, <2>1 DEF TypeOK
<1>5. ASSUME NEW p \in Ops PROVE LocalInv(p)' /\ RelationInv(p)'
  <2>1. CASE ~Begun(p)
    BY <1>1, <1>2, <1>3, <2>1 DEF LocalInv, IdleInv, RelationInv
  <2>2. CASE pc[p] = "done"
    <3>1. pc'[p] = pc[p] /\ Begun(p) /\ BegunInv(p)
      BY <1>1, <1>2, <2>2 DEF LocalInv, Begun
    <3>2. LocalInv(p)'
      BY <1>2, <1>3, <3>1 DEF LocalInv, BegunInv, PathInv, ThreadInv, TaskInv, WroteInv
    <3>3. RelationInv(p)'
      BY <1>1, <1>2, <1>3, <3>1
      DEF RelationInv, UnlinkedInv, DeletedInv, RolledBackInv, StateInv, Exists, Rde, OwnVapp
    <3> QED
      BY <3>2, <3>3
  <2>3. CASE pc[p] \notin {"idle", "done"}
    <3>1. pc'[p] = "dead" /\ Begun(p) /\ BegunInv(p)
      BY <1>1, <1>2, <2>3 DEF Begun, LocalInv
    <3>2. PathInv(p)' /\ ThreadInv(p)'
      BY <1>2, <1>3, <3>1 DEF BegunInv, PathInv, ThreadInv, AnyPcs, CreatePath, ResizePath,
         UpgradePath, NfsPath, DeletePath, ForcePath, InfoPath, WorkPcs
    <3>3. TaskInv(p)' /\ WroteInv(p)'
      BY <1>2, <1>3, <2>3, <3>1 DEF BegunInv, TaskInv, WroteInv, BeforeBusy, HandlerPcs
    <3>4. RelationInv(p)'
      BY <1>1, <1>2, <1>3, <2>3, <3>1
      DEF BegunInv, TaskInv, RelationInv, UnlinkedInv, DeletedInv, RolledBackInv, StateInv,
      Exists, Rde, OwnVapp
    <3> QED
      BY <1>2, <1>3, <3>1, <3>2, <3>3, <3>4 DEF LocalInv, BegunInv
  <2> QED
    BY <2>1, <2>2, <2>3 DEF Begun
<1>6. OrderInv'
  BY <1>1, <1>2, <1>3 DEF OrderInv, Early
<1>7. BusyInv'
  <2> SUFFICES ASSUME NEW k \in Clusters, rde[k] # Absent, rde[k].status = "IN_PROGRESS",
                      NEW CONSTANT q, q = rde[k].task
               PROVE  Holds(q, k)'
    BY <1>2 DEF BusyInv, Busy, Exists
  <2>1. Holds(q, k)
    BY <1>1 DEF BusyInv, Busy, Exists
  <2> QED
    BY <1>2, <1>3, <2>1 DEF Holds
<1> QED
  BY <1>4, <1>5, <1>6, <1>7 DEF IInv

\* The invariant holds when no request has begun.
LEMMA InitIInv == ClusterAssumption /\ Init => IInv
<1> SUFFICES ASSUME ClusterAssumption, Init PROVE IInv
  OBVIOUS
<1>1. PICK n \in [Existing -> Nodes] :
        /\ rde = [k \in Clusters |->
                    IF k \in Existing
                      THEN [state |-> "RESOLVED", op |-> "CREATE", status |-> "SUCCEEDED",
                            task |-> Absent, linked |-> TRUE, nodes |-> n[k]]
                      ELSE Absent]
        /\ vapp = [m \in Names |->
                     IF \E k \in Existing : NameOf[k] = m
                       THEN LET k == CHOOSE k \in Existing : NameOf[k] = m
                            IN  [cluster |-> k, nodes |-> n[k]]
                       ELSE Absent]
  BY DEF Init
<1>2. \A k \in Existing : k \in Clusters /\ n[k] \in Counts
  BY DEF ClusterAssumption, Nodes, Counts
<1>3. rde \in [Clusters -> Entities \cup {Absent}] /\ \A k \in Clusters : ~Busy(k)
  BY <1>1, <1>2 DEF Entities, States, PhaseOps, Statuses, Busy, Exists
<1>4. vapp \in [Names -> Vapps \cup {Absent}]
  <2> SUFFICES ASSUME NEW m \in Names PROVE vapp[m] \in Vapps \cup {Absent}
    BY <1>1
  <2>1. CASE \E k \in Existing : NameOf[k] = m
    <3> DEFINE k == CHOOSE k \in Existing : NameOf[k] = m
    <3>1. k \in Existing
      BY <2>1
    <3>2. vapp[m] = [cluster |-> k, nodes |-> n[k]]
      BY <1>1, <2>1
    <3> HIDE DEF k
    <3> QED
      BY <1>2, <3>1, <3>2 DEF Vapps
  <2>2. CASE ~\E k \in Existing : NameOf[k] = m
    BY <1>1, <2>2
  <2> QED
    BY <2>1, <2>2
<1>5. TypeOK
  BY <1>3, <1>4 DEF Init, TypeOK, Pcs, TaskStatuses, Statuses, NoNodes, Counts, ClusterAssumption
<1>6. \A o \in Ops : ~Begun(o) /\ IdleInv(o)
  BY DEF Init, Begun, IdleInv
<1> QED
  BY <1>3, <1>5, <1>6 DEF IInv, LocalInv, RelationInv, OrderInv, BusyInv

-----------------------------------------------------------------------------
\* The invariant is inductive.
LEMMA NextIInv == ClusterAssumption /\ IInv /\ [Next]_vars => IInv'
<1> SUFFICES ASSUME ClusterAssumption, IInv, [Next]_vars PROVE IInv'
  OBVIOUS
<1>1. ASSUME NEW o \in Ops, Step(o) PROVE IInv'
  <2>1. TypeOK' /\ LocalInv(o)' /\ RelationInv(o)'
    BY <1>1, StepFacts, OwnRelation DEF LocalInv, Frame, Begun
  <2>2. \A p \in Ops : LocalInv(p)' /\ RelationInv(p)'
    BY <1>1, <2>1, OtherRelation
  <2> QED
    BY <1>1, <2>1, <2>2, OrderStep, BusyStep DEF IInv
<1>2. CASE UNCHANGED vars
  BY <1>2, SMTT(30) DEF vars, memory, history, IInv, TypeOK, LocalInv, BegunInv, IdleInv,
     PathInv, ThreadInv,
     TaskInv, WroteInv, RelationInv, UnlinkedInv, DeletedInv, RolledBackInv, StateInv, OrderInv,
     Early, BusyInv, Busy, Holds, Begun, Kind, IsUpdate, Cluster, Exists, Rde, OwnVapp, PhaseOp
<1> QED
  BY <1>1, <1>2, BeginStep, CrashStep DEF Next

\* The invariant holds in every reachable state.
LEMMA Inductive == Spec => []IInv
  BY InitIInv, NextIInv, ClusterAssumption, PTL DEF Spec

-----------------------------------------------------------------------------
(***************************************************************************)
(* What follows from it.                                                   *)
(***************************************************************************)
\* Every variable has its type, whatever the requests and their interleaving: every
\* entity that the operations store is one, and the counts of nodes are natural.
THEOREM TypeCorrect == Spec => []TypeOK
<1>1. IInv => TypeOK
  BY DEF IInv
<1> QED
  BY Inductive, <1>1, PTL

\* A cluster that is busy has a request that will end its phase, unless a write of that
\* request was lost or the server crashed (the phase of an RDE as a lock).
THEOREM BusyHasLiveTaskHolds == Spec => []BusyHasLiveTask
<1>1. ASSUME IInv PROVE BusyHasLiveTask
  <2> SUFFICES ASSUME NEW k \in Clusters, Busy(k), rde[k].linked \/ rde[k].op # "UPDATE",
                      NEW o, o = rde[k].task
               PROVE  /\ o \in Ops /\ Cluster(o) = k
                      /\ \/ task[o] \notin Terminal /\ pc[o] \notin {"idle", "done"}
                         \/ wrote[o] = "LOST"
                         \/ pc[o] = "dead"
    BY DEF BusyHasLiveTask
  <2>1. Holds(o, k) /\ Exists(k)
    BY <1>1 DEF IInv, BusyInv, Busy
  <2>2. o \in Ops /\ Cluster(o) = k /\ PhaseOp(o) = rde[k].op /\ wrote[o] \in {"IN_PROGRESS", "LOST"}
    BY <2>1 DEF Holds
  <2>3. Begun(o) /\ BegunInv(o) /\ UnlinkedInv(o)
    BY <1>1, <2>1 DEF Holds, IInv, LocalInv, RelationInv
  <2>4. ASSUME wrote[o] = "IN_PROGRESS" PROVE pc[o] # "done"
    <3> SUFFICES ASSUME pc[o] = "done" PROVE FALSE
      OBVIOUS
    <3>1. IsUpdate(o) /\ ~rde[k].linked
      BY <2>1, <2>3, <2>4 DEF Holds, UnlinkedInv, Rde
    <3>2. PhaseOp(o) = "UPDATE"
      BY <3>1 DEF IsUpdate, PhaseOp
    <3> QED
      BY <2>2, <3>1, <3>2
  <2>5. wrote[o] = "IN_PROGRESS" => task[o] \notin Terminal
    BY <2>3, <2>4 DEF BegunInv, TaskInv, WroteInv, Terminal
  <2> QED
    BY <2>2, <2>3, <2>4, <2>5 DEF Begun
<1> QED
  BY Inductive, <1>1, PTL

\* The task that the user sees tells what was stored: SUCCESS of a phase that SUCCEEDED,
\* ERROR of none but that of a resize.
THEOREM TaskTellsPhaseHolds == Spec => []TaskTellsPhase
<1>1. ASSUME IInv PROVE TaskTellsPhase
  BY <1>1 DEF IInv, LocalInv, Begun, BegunInv, WroteInv, Kind, TaskTellsPhase
<1> QED
  BY Inductive, <1>1, PTL

\* A delete that ends in SUCCESS has deleted the vApp, a forced one the entity.
THEOREM DeleteIsCompleteHolds == Spec => []DeleteIsComplete
<1>1. ASSUME IInv PROVE DeleteIsComplete
  <2> SUFFICES ASSUME NEW o \in Ops, task[o] = "SUCCESS"
               PROVE  /\ Kind(o) = "delete" /\ seen[o].linked => ~OwnVapp(Cluster(o))
                      /\ Kind(o) = "forceDelete" => ~Exists(Cluster(o))
    BY DEF DeleteIsComplete, Kind
  <2>1. Begun(o) /\ DeletedInv(o)
    BY <1>1 DEF IInv, LocalInv, IdleInv, RelationInv
  <2> QED
    BY <2>1 DEF DeletedInv
<1> QED
  BY Inductive, <1>1, PTL

\* A create that was rolled back without a failing call leaves no vApp and no entity.
THEOREM RollbackIsCompleteHolds == Spec => []RollbackIsComplete
<1>1. ASSUME IInv PROVE RollbackIsComplete
  <2> SUFFICES ASSUME NEW o \in Ops, undo[o], pc[o] = "done", faults = 0
               PROVE  ~Exists(Cluster(o)) /\ ~OwnVapp(Cluster(o))
    BY DEF RollbackIsComplete
  <2>1. RolledBackInv(o)
    BY <1>1 DEF IInv, Begun, RelationInv
  <2> QED
    BY <2>1 DEF RolledBackInv
<1> QED
  BY Inductive, <1>1, PTL

-----------------------------------------------------------------------------
(***************************************************************************)
(* The phase as a lock.  The handlers check and set it in two calls, so a  *)
(* pool of one thread is needed; a request that ends its phase twice, as a *)
(* resize does and as any does whose write seemed to fail, frees the lock  *)
(* that another request holds.                                             *)
(***************************************************************************)
LockAssumption == PoolSize = 1 /\ MaxFaults = 0 /\ Kinds \cap {"resize", "deleteNfs"} = {}

OneHandler == \A o, p \in Ops : pc[o] \in HandlerPcs /\ pc[p] \in HandlerPcs => o = p

\* The request has marked its cluster and not yet ended the phase.
Holding(o) ==
  \/ pc[o] \in {"upgrade", "recordUpgrade", "deleteVapp"}
  \/ pc[o] = "fail" /\ Kind(o) # "create"
  \/ pc[o] = "ok" /\ Kind(o) = "delete"

Checked(o) == pc[o] \in {"set", "reject"} /\ Kind(o) # "create"

LockInv ==
  /\ OneHandler
  /\ \A o \in Ops : Holding(o) => Busy(Cluster(o)) \/ ~Exists(Cluster(o))
  /\ \A o \in Ops : Checked(o) => ~Busy(Cluster(o))
  /\ \A o, p \in Ops : Holding(o) /\ Holding(p) /\ Cluster(o) = Cluster(p) => o = p

\* How a request comes to hold the lock.
LockStep(o) ==
  /\ pc'[o] \in HandlerPcs => pc[o] \in HandlerPcs
  /\ Holding(o)' =>
       \/ Holding(o) /\ UNCHANGED rde
       \/ Checked(o) /\ \E e \in Entities : Stores(o, e) /\ e.status = "IN_PROGRESS"
  /\ Checked(o)' => UNCHANGED rde /\ ~Busy(Cluster(o))

\* The steps of the handlers take the lock only when the cluster is idle.
LEMMA LockHandlerStep ==
  ASSUME ClusterAssumption, LockAssumption, TypeOK, NEW o \in Ops, Begun(o) => BegunInv(o),
         HandlerStep(o)
  PROVE  LockStep(o)
<1> USE DEF Begun, Goto, Kind, LockStep, Holding, Checked, LockAssumption, BegunInv, PathInv,
  TypeOK, memory, history, AllKinds, HandlerPcs, AnyPcs, FailPcs, CreatePath, ResizePath,
  UpgradePath, NfsPath, DeletePath, ForcePath, InfoPath, WorkPcs, BeforeBusy, UpdatePcs,
  CreatePcs
<1>1. CASE CheckCreate(o)
  BY <1>1, RequestFacts DEF CheckCreate
<1>2. CASE CheckEntity(o)
<2>1. pc'[o] \in {"purge", "set", "reject"} /\ pc[o] = "get" /\ rde' = rde /\ req' = req
  BY <1>2 DEF CheckEntity
<2>2. Kind(o) \in {"upgrade", "delete"} => ~Busy(Cluster(o))
  BY <1>2 DEF CheckEntity, Allowed, Idle, Busy, Rde
<2>3. Kind(o) \in {"upgrade", "delete", "forceDelete"}
  BY <1>2, RequestFacts DEF CheckEntity, Requests
<2>4. Kind(o) = "forceDelete" => pc'[o] = "purge"
  BY <1>2 DEF CheckEntity
<2> QED
  BY <2>1, <2>2, <2>3, <2>4
<1>3. CASE Refuse(o)
  BY <1>3, RequestFacts DEF Refuse
<1>4. CASE RejectTemplate(o)
  BY <1>4, RequestFacts DEF RejectTemplate
<1>5. CASE MarkBusy(o)
<2>1. pc[o] = "set" /\ \E e \in Entities : Stores(o, e) /\ e.status = "IN_PROGRESS"
  BY <1>5, PutPhaseFacts, EntityFacts DEF MarkBusy, Stored, Stores
<2>2. pc'[o] \notin HandlerPcs /\ (Holding(o)' => Kind(o) # "create")
  BY <1>5 DEF MarkBusy, FirstPc
<2> QED
  BY <2>1, <2>2
<1>6. CASE MarkBusyFails(o)
  BY <1>6, RequestFacts DEF MarkBusyFails
<1>7. CASE AbortCreate(o)
  BY <1>7, RequestFacts DEF AbortCreate
<1>8. CASE AnswerError(o)
  BY <1>8, RequestFacts DEF AnswerError
<1>9. CASE ReadInfo(o)
  BY <1>9, RequestFacts DEF ReadInfo
<1>10. CASE ReadNothing(o)
  BY <1>10, RequestFacts DEF ReadNothing
<1>11. CASE StoreInfo(o)
  BY <1>11, RequestFacts DEF StoreInfo
<1> QED
  BY <1>1, <1>2, <1>3, <1>4, <1>5, <1>6, <1>7, <1>8, <1>9, <1>10, <1>11 DEF HandlerStep

\* The steps of a create take the lock only when the cluster is idle.
LEMMA LockCreateStep ==
  ASSUME ClusterAssumption, LockAssumption, TypeOK, NEW o \in Ops, Begun(o) => BegunInv(o),
         CreateStep(o)
  PROVE  LockStep(o)
<1> USE DEF Begun, Goto, Kind, LockStep, Holding, Checked, LockAssumption, BegunInv, PathInv,
  TypeOK, memory, history, AllKinds, HandlerPcs, AnyPcs, FailPcs, CreatePath, ResizePath,
  UpgradePath, NfsPath, DeletePath, ForcePath, InfoPath, WorkPcs, BeforeBusy, UpdatePcs,
  CreatePcs
<1>1. CASE MakeVapp(o)
  BY <1>1, RequestFacts DEF MakeVapp
<1>2. CASE MakeVappRefused(o)
  BY <1>2, RequestFacts DEF MakeVappRefused
<1>3. CASE Deploy(o)
  BY <1>3, RequestFacts DEF Deploy
<1>4. CASE DeployFails(o)
  BY <1>4, RequestFacts DEF DeployFails
<1>5. CASE Record(o)
  BY <1>5, RequestFacts DEF Record
<1>6. CASE RecordFails(o)
  BY <1>6, RequestFacts DEF RecordFails
<1> QED
  BY <1>1, <1>2, <1>3, <1>4, <1>5, <1>6 DEF CreateStep

\* The steps of upgrades and deletes take the lock only when the cluster is idle.
LEMMA LockOtherStep ==
  ASSUME ClusterAssumption, LockAssumption, TypeOK, NEW o \in Ops, Begun(o) => BegunInv(o),
         OtherStep(o)
  PROVE  LockStep(o)
<1> USE DEF Begun, Goto, Kind, LockStep, Holding, Checked, LockAssumption, BegunInv, PathInv,
  TypeOK, memory, history, AllKinds, HandlerPcs, AnyPcs, FailPcs, CreatePath, ResizePath,
  UpgradePath, NfsPath, DeletePath, ForcePath, InfoPath, WorkPcs, BeforeBusy, UpdatePcs,
  CreatePcs
<1>1. CASE Upgrade(o)
  BY <1>1, RequestFacts DEF Upgrade
<1>2. CASE UpgradeFails(o)
  BY <1>2, RequestFacts DEF UpgradeFails
<1>3. CASE RecordUpgrade(o)
  BY <1>3, RequestFacts DEF RecordUpgrade
<1>4. CASE RecordUpgradeFails(o)
  BY <1>4, RequestFacts DEF RecordUpgradeFails, PutPhaseFails, PutFails
<1>5. CASE DeleteVapp(o)
  BY <1>5, RequestFacts DEF DeleteVapp
<1>6. CASE DeleteVappFails(o)
  BY <1>6, RequestFacts DEF DeleteVappFails
<1>7. CASE Purge(o)
  BY <1>7, RequestFacts DEF Purge
<1>8. CASE PurgeRefused(o)
  BY <1>8, RequestFacts DEF PurgeRefused
<1>9. CASE Forget(o)
  BY <1>9, RequestFacts DEF Forget
<1>10. CASE ForgetFails(o)
  BY <1>10, RequestFacts DEF ForgetFails
<1> QED
  BY <1>1, <1>2, <1>3, <1>4, <1>5, <1>6, <1>7, <1>8, <1>9, <1>10 DEF OtherStep

\* The steps of the except blocks take the lock only when the cluster is idle.
LEMMA LockCleanupStep ==
  ASSUME ClusterAssumption, LockAssumption, TypeOK, NEW o \in Ops, Begun(o) => BegunInv(o),
         CleanupStep(o)
  PROVE  LockStep(o)
<1> USE DEF Begun, Goto, Kind, LockStep, Holding, Checked, LockAssumption, BegunInv, PathInv,
  TypeOK, memory, history, AllKinds, HandlerPcs, AnyPcs, FailPcs, CreatePath, ResizePath,
  UpgradePath, NfsPath, DeletePath, ForcePath, InfoPath, WorkPcs, BeforeBusy, UpdatePcs,
  CreatePcs
<1>1. CASE Fail(o)
  BY <1>1, RequestFacts DEF Fail, AfterFail
<1>2. CASE Rollback(o)
  BY <1>2, RequestFacts DEF Rollback
<1>3. CASE Undo(o)
  BY <1>3, RequestFacts DEF Undo
<1>4. CASE Sync(o)
  BY <1>4, RequestFacts DEF Sync
<1>5. CASE SyncNothing(o)
  BY <1>5, RequestFacts DEF SyncNothing
<1>6. CASE Write(o)
  BY <1>6, RequestFacts DEF Write
<1>7. CASE Err(o)
  BY <1>7, RequestFacts DEF Err, Continue, NextPc
<1>8. CASE Ok(o)
  BY <1>8, RequestFacts DEF Ok
<1> QED
  BY <1>1, <1>2, <1>3, <1>4, <1>5, <1>6, <1>7, <1>8 DEF CleanupStep

\* The steps of resizes and node deletions take the lock only when the cluster is idle.
LEMMA LockUpdateStep ==
  ASSUME ClusterAssumption, LockAssumption, TypeOK, NEW o \in Ops, Begun(o) => BegunInv(o),
         UpdateStep(o)
  PROVE  LockStep(o)
<1>1. pc[o] \in UpdatePcs
  BY DEF UpdateStep, Monitor, MonitorFails, Add, AddFails, Grow, GrowFails, JoinFails, Del, DelDies,
     Shrink, ShrinkFails, Fin, FinFails, Finish, FinishFails, UpdatePcs
<1>2. BegunInv(o)
  BY <1>1 DEF Begun, UpdatePcs
<1>3. Kind(o) \in {"resize", "deleteNfs"}
  BY <1>1, <1>2, RequestFacts DEF BegunInv, PathInv, UpdatePcs, AllKinds, AnyPcs, FailPcs,
     CreatePcs,
     CreatePath, UpgradePath, DeletePath, ForcePath, InfoPath
<1> QED
  BY <1>2, <1>3 DEF BegunInv, LockAssumption, Requests, Kind

\* A step of a request keeps the lock.
LEMMA LockSteps ==
  ASSUME ClusterAssumption, LockAssumption, IInv, LockInv, NEW o \in Ops, Step(o)
  PROVE  LockInv'
<1>1. /\ Begun(o) /\ Frame(o) /\ RdeStep(o) /\ BegunInv(o) /\ TypeOK /\ OrderInv
      /\ \A p \in Ops : LocalInv(p)
  BY StepFacts DEF IInv
<1>2. LockStep(o)
  BY <1>1, LockHandlerStep, LockCreateStep, LockOtherStep, LockUpdateStep, LockCleanupStep DEF Step
<1>3. /\ req' = req /\ pc[o] \notin {"idle", "done", "dead"}
      /\ \A p \in Ops \ {o} : pc'[p] = pc[p]
  BY <1>1 DEF Frame
<1>4. /\ Cluster(o) \in Clusters /\ Kind(o) \in AllKinds /\ Absent \notin Entities
      /\ \A p \in Ops : Cluster(p)' = Cluster(p) /\ Kind(p)' = Kind(p)
  BY <1>1, <1>3, RequestFacts DEF BegunInv, ClusterAssumption, Cluster, Kind
<1>5. \A p \in Ops \ {o} : (Holding(p)' <=> Holding(p)) /\ (Checked(p)' <=> Checked(p))
  BY <1>3, <1>4 DEF Holding, Checked
<1>6. \A p \in Ops : Holding(p) => Begun(p) /\ ~Early(p)
  BY DEF Holding, Begun, Early
<1>7. OneHandler'
  BY <1>2, <1>3 DEF LockInv, OneHandler, LockStep
\* Nobody ends the phase that another request p has set.
<1>8. ASSUME NEW p \in Ops, p # o, Holding(p), Cluster(p) = Cluster(o), Busy(Cluster(p))
      PROVE  pc[o] \notin {"reject", "abort", "record", "recordUpgrade", "finish", "fail"}
  <2>1. Kind(o) # "create"
    BY <1>1, <1>3, <1>6, <1>8 DEF OrderInv
  <2>2. ~Holding(o)
    BY <1>8 DEF LockInv
  <2>3. ~Checked(o)
    BY <1>8 DEF LockInv
  <2>4. pc[o] \notin {"abort", "record"}
    BY <1>1, <1>4, <2>1 DEF BegunInv, PathInv, AllKinds, ResizePath, UpgradePath, NfsPath,
       DeletePath,
       ForcePath, InfoPath, AnyPcs, FailPcs, UpdatePcs
  <2>5. pc[o] # "finish"
    BY <1>1, <1>4 DEF BegunInv, PathInv, AllKinds, CreatePath, UpgradePath, DeletePath, ForcePath,
       InfoPath, AnyPcs, FailPcs, CreatePcs, LockAssumption, Requests, Kind
  <2> QED
    BY <2>1, <2>2, <2>3, <2>4, <2>5 DEF Holding, Checked
<1>9. ASSUME NEW p \in Ops, Cluster(p) \in Clusters,
             ~Exists(Cluster(p)) \/ Cluster(p) # Cluster(o)
      PROVE  rde'[Cluster(p)] = rde[Cluster(p)]
  BY <1>1, <1>4, <1>9 DEF RdeStep, Stores, Exists, TypeOK
<1>10. ASSUME NEW p \in Ops, p # o, Holding(p)
       PROVE  Busy(Cluster(p))' \/ ~Exists(Cluster(p))'
  <2>1. Cluster(p) \in Clusters
    BY <1>1, <1>6, <1>10, RequestFacts DEF LocalInv, BegunInv
  <2>2. CASE ~Exists(Cluster(p)) \/ Cluster(p) # Cluster(o)
    BY <1>4, <1>9, <1>10, <2>1, <2>2 DEF LockInv, Busy, Exists
  <2>3. CASE Exists(Cluster(p)) /\ Cluster(p) = Cluster(o)
    <3>1. Busy(Cluster(p))
      BY <1>10, <2>3 DEF LockInv
    <3>2. \/ rde' = rde
          \/ rde'[Cluster(p)] = Absent
          \/ rde'[Cluster(p)].status = "IN_PROGRESS"
      BY <1>1, <1>4, <1>8, <1>10, <2>3, <3>1
      DEF RdeStep, Stores, Writes, Marks, EndsPhase, SamePhase, Busy, Rde, TypeOK
    <3> QED
      BY <1>4, <3>1, <3>2 DEF Busy, Exists
  <2> QED
    BY <2>2, <2>3
<1>11. \A p \in Ops : Holding(p)' => Busy(Cluster(p))' \/ ~Exists(Cluster(p))'
  <2>1. ASSUME Holding(o)' PROVE Busy(Cluster(o))' \/ ~Exists(Cluster(o))'
    <3>1. CASE Holding(o) /\ UNCHANGED rde
      BY <1>4, <3>1 DEF LockInv, Busy, Exists
    <3>2. CASE \E e \in Entities : Stores(o, e) /\ e.status = "IN_PROGRESS"
      BY <1>1, <1>4, <3>2 DEF Stores, Busy, Exists, TypeOK
    <3> QED
      BY <1>2, <2>1, <3>1, <3>2 DEF LockStep
  <2> QED
    BY <1>5, <1>10, <2>1
<1>12. ASSUME NEW p \in Ops, Checked(p)' PROVE ~Busy(Cluster(p))'
  <2>1. CASE p = o
    BY <1>2, <1>4, <1>12, <2>1 DEF LockStep, Busy, Exists
  <2>2. CASE p # o
    <3>1. Checked(p) /\ ~Busy(Cluster(p))
      BY <1>5, <1>12, <2>2 DEF LockInv
    <3>2. Cluster(p) \in Clusters
      BY <1>1, <3>1, RequestFacts DEF LocalInv, BegunInv, Begun, Checked
    <3>3. pc[o] # "set"
      BY <2>2, <3>1 DEF LockInv, OneHandler, Checked, HandlerPcs
    <3>4. CASE Cluster(p) # Cluster(o)
      BY <1>4, <1>9, <3>1, <3>2, <3>4 DEF Busy, Exists
    <3>5. CASE Cluster(p) = Cluster(o)
      <4>1. \/ rde' = rde
            \/ rde'[Cluster(p)] = Absent
            \/ rde'[Cluster(p)].status # "IN_PROGRESS"
        BY <1>1, <1>4, <3>1, <3>3, <3>5
        DEF RdeStep, Stores, Writes, Marks, EndsPhase, SamePhase, Busy, Exists, Rde, TypeOK
      <4> QED
        BY <1>4, <3>1, <4>1 DEF Busy, Exists
    <3> QED
      BY <3>4, <3>5
  <2> QED
    BY <2>1, <2>2
\* A request that takes the lock found the cluster idle: nobody holds it.
<1>13. ASSUME NEW p \in Ops, p # o, Holding(o)', Holding(p), Cluster(o) = Cluster(p)
       PROVE  FALSE
  <2>1. CASE Holding(o)
    BY <1>13, <2>1 DEF LockInv
  <2>2. CASE Checked(o) /\ Exists(Cluster(o))
    BY <1>13, <2>2 DEF LockInv
  <2> QED
    BY <1>2, <1>13, <2>1, <2>2 DEF LockStep, Stores
<1>14. \A a, b \in Ops : Holding(a)' /\ Holding(b)' /\ Cluster(a)' = Cluster(b)' => a = b
  BY <1>4, <1>5, <1>13 DEF LockInv
<1> QED
  BY <1>7, <1>11, <1>12, <1>14 DEF LockInv

\* A request begins when no handler runs, and holds no lock.
LEMMA LockBegin ==
  ASSUME ClusterAssumption, LockAssumption, IInv, LockInv, NEW o \in Ops, NEW r \in Requests,
         Begin(o, r)
  PROVE  LockInv'
<1> DEFINE Handling == {p \in Ops : pc[p] \in HandlerPcs}
<1>1. TypeOK /\ \A p \in Ops : LocalInv(p)
  BY DEF IInv
<1>2. Handling = {}
  <2>1. Cardinality(Handling) < 1
    BY DEF Begin, LockAssumption
  <2> SUFFICES ASSUME NEW p \in Handling PROVE FALSE
    OBVIOUS
  <2>2. Handling = {p}
    BY DEF LockInv, OneHandler
  <2>3. Cardinality({p}) = 1
    BY FS_Singleton
  <2> HIDE DEF Handling
  <2> QED
    BY <2>1, <2>2, <2>3
<1>3. /\ pc[o] = "idle" /\ pc'[o] \in {"get", "read"}
      /\ \A p \in Ops \ {o} : pc'[p] = pc[p] /\ req'[p] = req[p]
      /\ Accepts(r.kind, r.cluster)
      /\ rde' = IF r.kind = "create" THEN [rde EXCEPT ![r.cluster] = NewEntity] ELSE rde
  BY <1>1 DEF Begin, Goto, TypeOK
<1>4. r.cluster \in Clusters
  BY DEF Requests
<1>5. ~Holding(o)' /\ ~Checked(o)'
  BY <1>3 DEF Holding, Checked
<1>6. \A p \in Ops \ {o} : /\ Cluster(p)' = Cluster(p) /\ Kind(p)' = Kind(p)
                           /\ (Holding(p)' <=> Holding(p)) /\ (Checked(p)' <=> Checked(p))
  BY <1>3 DEF Cluster, Kind, Holding, Checked
<1>7. OneHandler'
  BY <1>2, <1>3 DEF OneHandler
<1>8. ASSUME NEW p \in Ops, p # o, Begun(p)
      PROVE  /\ rde'[Cluster(p)] = rde[Cluster(p)]
             /\ (Busy(Cluster(p))' <=> Busy(Cluster(p))) /\ (Exists(Cluster(p))' <=> Exists(Cluster(p)))
  <2>1. Cluster(p) \in Clusters /\ (r.kind = "create" => Cluster(p) # r.cluster)
    BY <1>1, <1>3, <1>8, RequestFacts DEF LocalInv, BegunInv, Accepts, Begun
  <2>2. rde'[Cluster(p)] = rde[Cluster(p)]
    BY <1>1, <1>3, <1>4, <2>1 DEF TypeOK
  <2> QED
    BY <1>6, <1>8, <2>2 DEF Busy, Exists
<1>9. \A p \in Ops : Holding(p) \/ Checked(p) => Begun(p)
  BY DEF Holding, Checked, Begun
<1> QED
  BY <1>5, <1>6, <1>7, <1>8, <1>9 DEF LockInv

\* The lock holds in every reachable state.
LEMMA LockInductive == ASSUME LockAssumption PROVE Spec => []LockInv
<1>1. ClusterAssumption /\ Init => LockInv
  BY DEF Init, LockInv, OneHandler, Holding, Checked, HandlerPcs
<1>2. ClusterAssumption /\ IInv /\ LockInv /\ [Next]_vars => LockInv'
  <2> SUFFICES ASSUME ClusterAssumption, IInv, LockInv, [Next]_vars PROVE LockInv'
    OBVIOUS
  <2>1. CASE Crash
    <3>1. /\ \A p \in Ops : pc'[p] = pc[p] \/ pc'[p] = "dead"
          /\ UNCHANGED <<rde, req>>
      BY <2>1 DEF Crash
    <3> QED
      BY <3>1 DEF LockInv, OneHandler, Holding, Checked, Cluster, Kind, Busy, Exists, HandlerPcs
  <2>2. CASE UNCHANGED vars
    BY <2>2 DEF vars, LockInv, OneHandler, Holding, Checked, Cluster, Kind, Busy, Exists
  <2> QED
    BY <2>1, <2>2, LockSteps, LockBegin DEF Next
<1> QED
  BY <1>1, <1>2, ClusterAssumption, Inductive, PTL DEF Spec

\* On a pool of one thread, where no call fails and nobody resizes, two creates, upgrades
\* or deletes never work on the vApp of one cluster at the same time (the phase of an RDE
\* as a lock).  A create needs no lock: its cluster is refused to the others till it ends.
THEOREM ExclusiveHolds == ASSUME LockAssumption PROVE Spec => []Exclusive
<1>1. ASSUME IInv, LockInv PROVE Exclusive
  <2>1. ASSUME NEW o \in Ops, Working(o)
        PROVE  Begun(o) /\ ~Early(o) /\ pc[o] # "done" /\ (Holding(o) \/ Kind(o) = "create")
    <3>0. /\ Begun(o) /\ ~Early(o) /\ pc[o] # "done"
          /\ pc[o] \in {"makeVapp", "deploy", "record", "rollback", "upgrade", "deleteVapp",
                        "grow", "shrink"}
      BY <2>1 DEF Begun, Working, CreatePcs, Early
    <3>1. BegunInv(o) /\ Begun(o) /\ ~Early(o) /\ pc[o] # "done"
      BY <1>1, <3>0 DEF IInv, LocalInv
    <3>2. pc[o] \notin {"grow", "shrink"}
      BY <3>1, RequestFacts, ClusterAssumption DEF BegunInv, PathInv, AllKinds, CreatePath,
         UpgradePath,
         DeletePath, ForcePath, InfoPath, AnyPcs, FailPcs, CreatePcs, LockAssumption, Requests, Kind
    <3>3. pc[o] \in CreatePcs \cup {"rollback"} => Kind(o) = "create"
      BY <3>1, RequestFacts, ClusterAssumption DEF BegunInv, PathInv, AllKinds, ResizePath,
         UpgradePath, NfsPath,
         DeletePath, ForcePath, InfoPath, AnyPcs, FailPcs, UpdatePcs, CreatePcs, Requests, Kind
    <3> QED
      BY <2>1, <3>1, <3>2, <3>3 DEF Working, Holding
  <2>2. ASSUME NEW o \in Ops, NEW p \in Ops, Working(o), Working(p), Cluster(o) = Cluster(p),
               Kind(o) = "create"
        PROVE  o = p
    BY <1>1, <2>1, <2>2 DEF IInv, OrderInv
  <2> SUFFICES ASSUME NEW o \in Ops, NEW p \in Ops, Working(o), Working(p), Cluster(o) = Cluster(p)
               PROVE  o = p
    BY DEF Exclusive
  <2>3. CASE Kind(o) = "create" \/ Kind(p) = "create"
    BY <2>2, <2>3
  <2>4. CASE Holding(o) /\ Holding(p)
    BY <1>1, <2>4 DEF LockInv
  <2> QED
    BY <2>1, <2>3, <2>4
<1> QED
  BY <1>1, Inductive, LockInductive, PTL
=============================================================================
