---------------------------- MODULE ClusterThreads ----------------------------
(***************************************************************************)
(* What the services TkgmService, ClusterService1X and VcdBroker share:    *)
(* one cluster, its defined entity (RDE), its vApp and what else it has    *)
(* outside the server, the requests that work on it, and the calls their   *)
(* threads make.  As in ClusterService a step is one call out of the       *)
(* server with the decision that follows it, a call to the entity API may  *)
(* fail after it was applied, and work on the vApp may fail at any time.   *)
(* A procedure that makes one call after another is an operator from a     *)
(* program counter to the next one, with the exceptions each call raises.  *)
(***************************************************************************)
EXTENDS Integers, FiniteSets

CONSTANTS
  Ops,         \* requests, each with a vCD task of its own
  MaxWorkers,  \* bound on the worker counts users request
  MaxFaults,   \* bound on the calls to the entity API that fail
  Absent       \* no entity, no vApp

States       == {"PRE_CREATED", "RESOLVED", "RESOLUTION_ERROR"}
PhaseOps     == {"NONE", "CREATE", "UPDATE", "UPGRADE", "DELETE"}
Statuses     == {"NONE", "IN_PROGRESS", "SUCCEEDED", "FAILED"}
TaskStatuses == {"NONE", "RUNNING", "SUCCESS", "ERROR"}
Terminal     == {"SUCCESS", "ERROR"}

\* status.phase is op:status, status.task_href is task; linked says whether
\* externalId holds the vApp, workers is the length of status.nodes.workers.
Entities == [state : States, op : PhaseOps, status : Statuses,
             task : Ops \cup {Absent}, linked : BOOLEAN, exposed : BOOLEAN,
             workers : Nat]

\* drained and new: the groups of nodes that kubectl drain has emptied, and
\* those that run the new version of Kubernetes.
Groups == {"controlPlane", "workers"}
Vapps  == [workers : Nat, drained : SUBSET Groups, new : SUBSET Groups]

ASSUME ThreadsAssumption ==
  /\ {MaxWorkers, MaxFaults} \subseteq Nat
  /\ MaxWorkers >= 1
  /\ Absent \notin Ops \cup Entities \cup Vapps

VARIABLES
  rde,    \* the defined entity, or Absent
  vapp,   \* the vApp with the name of the cluster, or Absent
  token,  \* has the cluster an OAuth refresh token?
  rule,   \* is there a DNAT rule that exposes it?
  req,    \* what each request asks for
  pc,     \* where its threads are
  mem,    \* what they keep in local variables
  task,   \* the status of its task in vCD
  faults

state == <<rde, vapp, token, rule>>
vars  == <<state, req, pc, mem, task, faults>>

\* linked, exposed, workers: of the RDE when it was last read; copy, temp: the
\* whole RDE, where it is written back (RDE 1.x); undo: the create is rolled
\* back; tok: is_refresh_token_created; child: in a child thread; error: the
\* task has ended in ERROR.
Memory == [linked : BOOLEAN, exposed : BOOLEAN, workers : Nat, undo : BOOLEAN,
           tok : BOOLEAN, child : BOOLEAN, error : BOOLEAN,
           copy : Entities \cup {Absent}, temp : Entities \cup {Absent}]
NoMemory == [linked |-> FALSE, exposed |-> FALSE, workers |-> 0, undo |-> FALSE,
             tok |-> FALSE, child |-> FALSE, error |-> FALSE,
             copy |-> Absent, temp |-> Absent]

Goto(o, p)    == pc' = [pc EXCEPT ![o] = p]
Exists        == rde # Absent
Busy          == Exists /\ rde.status = "IN_PROGRESS"
Phase(op, s)  == [rde EXCEPT !.op = op, !.status = s]
NewVapp       == [workers |-> 0, drained |-> {}, new |-> {}]
Drained(gs)   == [vapp EXCEPT !.drained = @ \cup gs]
Uncordoned(gs) == [vapp EXCEPT !.drained = @ \ gs]
Renewed(gs)   == [vapp EXCEPT !.new = @ \cup gs]
MoreWorkers(n) == [vapp EXCEPT !.workers = @ + n]

\* A call that may fail, or that fails for sure because the RDE is gone.
Fault == faults < MaxFaults /\ faults' = faults + 1
CallFails == Fault \/ (~Exists /\ UNCHANGED faults)

\* A write of the RDE: it becomes e, or the call raises.
Put(o, e, next) == Exists /\ rde' = e /\ Goto(o, next) /\ UNCHANGED faults
PutRaises(o, e, next) ==
  /\ \/ ~Exists /\ UNCHANGED <<rde, faults>>
     \/ Exists /\ Fault /\ rde' \in {rde, e}
  /\ Goto(o, next)

\* The same where both ways lead to next.
PutOrNot(o, e, next) == Put(o, e, next) \/ PutRaises(o, e, next)

\* resolve_entity and delete_entity
Remove(o, next, raised) ==
  \/ Exists /\ rde' = Absent /\ Goto(o, next) /\ UNCHANGED faults
  \/ CallFails /\ UNCHANGED rde /\ Goto(o, raised)

Read(o) ==
  mem' = [mem EXCEPT ![o].linked = rde.linked, ![o].exposed = rde.exposed,
                     ![o].workers = rde.workers]

\* No request is at work.
Settled == \A o \in Ops : pc[o] \in {"idle", "done"}

\* The first terminal status of a task stays.
SetTask(o, status) ==
  task' = [task EXCEPT ![o] = IF @ \in Terminal THEN @ ELSE status]

Deployed(w, x) ==
  [state |-> "RESOLVED", op |-> "CREATE", status |-> "SUCCEEDED", task |-> Absent,
   linked |-> TRUE, exposed |-> x, workers |-> w]

NewEntity(state0, status, o) ==
  [state |-> state0, op |-> "CREATE", status |-> status, task |-> o,
   linked |-> FALSE, exposed |-> FALSE, workers |-> 0]

\* No cluster, or a deployed one; tokens and entities where the service has them.
InitWith(entities, tokens) ==
  /\ \/ rde = Absent /\ vapp = Absent /\ token = FALSE /\ rule = FALSE
     \/ \E w \in 0..MaxWorkers, x \in (IF entities THEN BOOLEAN ELSE {FALSE}) :
          /\ rde = IF entities THEN Deployed(w, x) ELSE Absent
          /\ vapp = [NewVapp EXCEPT !.workers = w]
          /\ token = tokens
          /\ rule = x
  /\ req = [o \in Ops |-> Absent]
  /\ pc = [o \in Ops |-> "idle"]
  /\ mem = [o \in Ops |-> NoMemory]
  /\ task = [o \in Ops |-> "NONE"]
  /\ faults = 0

TypeOKWith(requests) ==
  /\ rde \in Entities \cup {Absent}
  /\ vapp \in Vapps \cup {Absent}
  /\ {token, rule} \subseteq BOOLEAN
  /\ req \in [Ops -> requests \cup {Absent}]
  /\ DOMAIN pc = Ops
  /\ mem \in [Ops -> Memory]
  /\ task \in [Ops -> TaskStatuses]
  /\ faults \in 0..MaxFaults
=============================================================================
